---------------------------- MODULE IncidentHistory ----------------------------
(***************************************************************************)
(* Several incidents over several processes: what backend/redis_store.py   *)
(* keeps of them, what a start restores, and what GET /incidents and       *)
(* GET /incidents/{id} show (backend/store.py).  IncidentLifecycle has the *)
(* details of a single one.                                                *)
(*                                                                         *)
(* An incident is its number, in the order of creation, its state the      *)
(* number of changes to it; 0 stands for none.  A process that cannot      *)
(* reach Redis when it starts works on fakeredis until it ends.            *)
(***************************************************************************)
EXTENDS Naturals

CONSTANTS MaxIncidents, MaxVersion   \* natural numbers

Incidents == 1..MaxIncidents
States == [Incidents -> 0..MaxVersion]
Empty == [i \in Incidents |-> 0]

VARIABLES
  backend,   \* "redis", "fakeredis", or "none" without a process
  live,      \* INCIDENTS
  restored,  \* RESTORED_INCIDENTS
  snapshot,  \* the keys incident:{id} in Redis
  index,     \* and incidents:index
  request,   \* a GET /incidents under way in a worker thread, or its answer
  born,      \* history: incidents created so far
  kept,      \* history: incidents saved in full whose key has not expired
  unread     \* history: the start failed to read something

redisVars == <<snapshot, index, kept>>
vars == <<backend, live, restored, redisVars, request, born, unread>>

NoRequest == [stage |-> "none"]

TypeOK ==
  /\ backend \in {"redis", "fakeredis", "none"}
  /\ live \in States /\ restored \in States /\ snapshot \in States
  /\ index \subseteq Incidents /\ kept \subseteq Incidents
  /\ request.stage \in {"none", "live", "ids", "answered", "failed"}
  /\ born \in 0..MaxIncidents /\ unread \in BOOLEAN

Init == /\ backend = "none" /\ live = Empty /\ restored = Empty
        /\ snapshot = Empty /\ index = {} /\ request = NoRequest
        /\ born = 0 /\ kept = {} /\ unread = FALSE
-----------------------------------------------------------------------------
(* Mutant: an id whose key has expired ends the reading.                   *)
ReadableOrNone(failing) ==
  IF \E i \in index \ failing : snapshot[i] = 0 THEN {} ELSE index \ failing

(* list_incidents: the indexed snapshots that are there and can be read.   *)
Readable(failing) == {i \in index \ failing : snapshot[i] # 0}

(* _create_redis_client and restore_persisted_incidents.  Of the index     *)
(* nothing may be read, or some of the snapshots may not; a fresh          *)
(* fakeredis has none.                                                     *)
Start ==
  /\ backend = "none" /\ backend' \in {"redis", "fakeredis"}
  /\ \E failing \in SUBSET index :
       /\ restored' = [i \in Incidents |->
                         IF backend' = "redis" /\ i \in Readable(failing) THEN snapshot[i] ELSE 0]
       /\ unread' = (failing # {})
  /\ UNCHANGED <<live, redisVars, request, born>>

Stop == /\ backend # "none" /\ backend' = "none"
        /\ live' = Empty /\ restored' = Empty /\ request' = NoRequest /\ unread' = FALSE
        /\ UNCHANGED <<redisVars, born>>

(* set_incident: SETEX, then SADD; a failure of either ends it.            *)
Save(i, v) ==
  \/ UNCHANGED redisVars
  \/ /\ backend = "redis" /\ snapshot' = [snapshot EXCEPT ![i] = v]
     /\ \/ UNCHANGED <<index, kept>>
        \/ index' = index \cup {i} /\ kept' = kept \cup {i}

(* create_incident.                                                        *)
Create == /\ backend # "none" /\ born < MaxIncidents /\ born' = born + 1
          /\ live' = [live EXCEPT ![born'] = 1]
          /\ Save(born', 1)
          /\ request' \in IF request.stage = "ids" THEN {request, [request EXCEPT !.stage = "failed"]}
                                                   ELSE {request}
          /\ UNCHANGED <<backend, restored, unread>>

(* A hook of the pipeline.                                                 *)
Change(i) == /\ live[i] \in 1..(MaxVersion - 1)
             /\ live' = [live EXCEPT ![i] = @ + 1]
             /\ Save(i, live'[i])
             /\ UNCHANGED <<backend, restored, request, born, unread>>

(* Seven days after its last SETEX.                                        *)
Expire(i) == /\ snapshot[i] # 0 /\ snapshot' = [snapshot EXCEPT ![i] = 0]
             /\ kept' = kept \ {i}
             /\ UNCHANGED <<backend, live, restored, index, request, born, unread>>
-----------------------------------------------------------------------------
(* get_incident_view.                                                      *)
View(i) == IF live[i] # 0 THEN live[i] ELSE restored[i]

LiveIds == {i \in Incidents : live[i] # 0}

(* list_incident_summaries copies the live summaries ...                   *)
List == /\ backend # "none" /\ request = NoRequest
        /\ request' = [stage |-> "live", views |-> [i \in Incidents |-> View(i)],
                       entries |-> {[id |-> i, state |-> live[i], restored |-> FALSE] : i \in LiveIds}]
        /\ UNCHANGED <<backend, live, restored, redisVars, born, unread>>

(* ... goes over INCIDENTS again for their ids, which may fail if one is   *)
(* created meanwhile ...                                                   *)
ListIds == /\ request.stage = "live" /\ request' = [request EXCEPT !.stage = "ids"]
           /\ UNCHANGED <<backend, live, restored, redisVars, born, unread>>

(* Mutant: it adds what Redis has, instead of what was restored.           *)
OthersInRedis(ids) == {i \in index : snapshot[i] # 0}

(* The restored incidents that are not live.                               *)
Others(ids) == {i \in Incidents : restored[i] # 0} \ ids

(* ... and adds the others.                                                *)
ListOthers ==
  /\ request.stage = "ids"
  /\ request' = [request EXCEPT !.stage = "answered",
                                !.entries = @ \cup {[id |-> i, state |-> restored[i], restored |-> TRUE]
                                                      : i \in Others(LiveIds)}]
  /\ UNCHANGED <<backend, live, restored, redisVars, born, unread>>

ListDone == /\ request.stage \in {"answered", "failed"} /\ request' = NoRequest
            /\ UNCHANGED <<backend, live, restored, redisVars, born, unread>>

Next == \/ Start \/ Stop \/ Create \/ List \/ ListIds \/ ListOthers \/ ListDone
        \/ \E i \in Incidents : Change(i) \/ Expire(i)

Spec == Init /\ [][Next]_vars
-----------------------------------------------------------------------------
(* What was once saved in full stays visible in every later process that   *)
(* starts on Redis and can read it, until its key expires: whatever saves  *)
(* failed since, whatever processes ran on fakeredis in between, and       *)
(* whichever of the ids in the index have no snapshot any more.            *)
SavedStaysVisible ==
  backend = "redis" /\ ~unread => \A i \in kept : View(i) # 0

(* An answered list has every incident that was visible when the request   *)
(* came exactly once, not older than it was then, though it reads INCIDENTS*)
(* twice while the loop goes on; only those that were restored say so.     *)
ListedOnce ==
  request.stage = "answered" =>
    \A i \in Incidents :
      LET entries == {e \in request.entries : e.id = i}
      IN  /\ \A d, e \in entries : d = e
          /\ request.views[i] # 0 =>
               \E e \in entries : e.state >= request.views[i] /\ e.restored = (live[i] = 0)
=============================================================================
