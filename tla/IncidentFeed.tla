------------------------------ MODULE IncidentFeed ------------------------------
(***************************************************************************)
(* The incident list as a browser sees it: GET /events (backend/main.py)   *)
(* replays the live incidents, then relays what _broadcast_global queues   *)
(* (backend/store.py), and the dashboard (frontend/src/App.jsx, store/     *)
(* useIncidentStore.js) fetches GET /incidents anew upon every event.      *)
(*                                                                         *)
(* An incident is its number, in the order of creation, and its summary is *)
(* the number of changes there have been to it, 0 before it is created     *)
(* and in a process that does not have it.  Restored incidents, which      *)
(* never change, are left out, as are trace events, on which the dashboard *)
(* does not fetch the list.                                                *)
(***************************************************************************)
EXTENDS Integers, Sequences, FiniteSets, FiniteSetsExt, Functions

CONSTANTS MaxIncidents, MaxVersion,
          MaxFetches,  \* list requests a browser has under way at once
          MaxFailures  \* how many of them fail

ASSUME FeedAssumption ==
  {MaxIncidents, MaxVersion, MaxFetches, MaxFailures} \subseteq Nat \ {0}

Incidents == 1..MaxIncidents
Slots == 1..MaxFetches
Lists == [Incidents -> 0..MaxVersion]
Nothing == [i \in Incidents |-> 0]

VARIABLES
  live,      \* the summaries of INCIDENTS
  announced, \* history: of each, the last that was broadcast
  born,      \* history: incidents created so far, in any process
  conn,      \* where the event stream's generator stands
  copy,      \* the incidents it has still to replay
  queue,     \* its asyncio.Queue
  told,      \* history: the last summary of each that this stream sent
  gap,       \* history: incidents whose last change fell between copy and queue
  fetches,   \* the browser's requests for the list
  shown,     \* `incidents` in the dashboard's store
  seen,      \* history: the newest summary of each that was ever shown
  blurred,   \* history: requests failed or overlapped since one ran alone
  failures

storeVars == <<live, announced, born>>
streamVars == <<conn, copy, queue, told, gap>>
pageVars == <<fetches, shown, seen, blurred, failures>>
vars == <<storeVars, streamVars, pageVars>>

Free == [stage |-> "free"]

TypeOK ==
  /\ live \in Lists /\ announced \in Lists /\ told \in Lists
  /\ born \in 0..MaxIncidents
  /\ conn \in {"closed", "replaying", "live"}
  /\ copy \in Seq(Incidents) /\ gap \subseteq Incidents
  /\ \A n \in DOMAIN queue : queue[n] \in Incidents \X (1..MaxVersion)
  /\ \A s \in Slots : fetches[s].stage \in {"free", "sent", "answered"}
  /\ shown \in Lists /\ seen \in Lists
  /\ blurred \in BOOLEAN /\ failures \in 0..MaxFailures

(* The page is loaded: it asks for the list and opens the stream.          *)
Init == /\ live = Nothing /\ announced = Nothing /\ born = 0
        /\ conn = "closed" /\ copy = <<>> /\ queue = <<>> /\ told = Nothing /\ gap = {}
        /\ fetches = [s \in Slots |-> IF s = 1 THEN [stage |-> "sent", alone |-> TRUE] ELSE Free]
        /\ shown = Nothing /\ seen = Nothing /\ blurred = FALSE /\ failures = 0
-----------------------------------------------------------------------------
(* The store.                                                              *)

(* What a change that the stream gets, or does not get, means to it.       *)
NoteGap(i) ==
  gap' = IF conn = "replaying" /\ i \notin Range(copy) THEN gap \cup {i} ELSE gap \ {i}

(* Mutants: the queue is there before the replay; it holds a single event. *)
BroadcastEarly(i, v) ==
  /\ queue' = IF conn # "closed" THEN Append(queue, <<i, v>>) ELSE queue
  /\ NoteGap(i)

BroadcastToIdle(i, v) ==
  /\ queue' = IF conn = "live" /\ queue = <<>> THEN Append(queue, <<i, v>>) ELSE queue
  /\ NoteGap(i)

(* _broadcast_global.                                                      *)
Broadcast(i, v) ==
  /\ queue' = IF conn = "live" THEN Append(queue, <<i, v>>) ELSE queue
  /\ NoteGap(i)

(* create_incident.                                                        *)
Create ==
  /\ born < MaxIncidents /\ born' = born + 1
  /\ live' = [live EXCEPT ![born'] = 1] /\ announced' = [announced EXCEPT ![born'] = 1]
  /\ Broadcast(born', 1)
  /\ UNCHANGED <<conn, copy, told, pageVars>>

(* on_status and set_result.                                               *)
Change(i) ==
  /\ live[i] \in 1..(MaxVersion - 1)
  /\ live' = [live EXCEPT ![i] = @ + 1] /\ announced' = [announced EXCEPT ![i] = live'[i]]
  /\ Broadcast(i, live'[i])
  /\ UNCHANGED <<born, conn, copy, told, pageVars>>

(* reset_incident broadcasts nothing.                                      *)
Reset(i) ==
  /\ live[i] \in 1..(MaxVersion - 1)
  /\ live' = [live EXCEPT ![i] = @ + 1]
  /\ UNCHANGED <<announced, born, streamVars, pageVars>>
-----------------------------------------------------------------------------
(* The dashboard.                                                          *)

InFlight == {s \in Slots : fetches[s].stage # "free"}

(* fetchIncidents: the request goes out, whatever else is under way.       *)
Fetch ==
  /\ InFlight # Slots
  /\ LET alone == InFlight = {}
         slot == CHOOSE s \in Slots \ InFlight : TRUE
     IN  /\ fetches' = [s \in Slots |->
                          IF s = slot THEN [stage |-> "sent", alone |-> alone]
                          ELSE IF s \in InFlight THEN [fetches[s] EXCEPT !.alone = FALSE]
                          ELSE Free]
         /\ blurred' = (blurred \/ ~alone)
  /\ UNCHANGED <<shown, seen, failures>>

(* list_incident_summaries, in a worker thread.                            *)
Answer(s) ==
  /\ fetches[s].stage = "sent"
  /\ fetches' = [fetches EXCEPT ![s] = [stage |-> "answered", alone |-> @.alone, list |-> live]]
  /\ UNCHANGED <<storeVars, streamVars, shown, seen, blurred, failures>>

(* Mutant: answers wait for the stream to be quiet, to redraw less often.  *)
LandWhenQuiet(s) ==
  /\ fetches[s].stage = "answered" /\ queue = <<>>
  /\ shown' = fetches[s].list
  /\ seen' = [i \in Incidents |-> Max({seen[i], shown'[i]})]
  /\ blurred' = (blurred /\ ~fetches[s].alone)
  /\ fetches' = [fetches EXCEPT ![s] = Free]
  /\ UNCHANGED <<storeVars, streamVars, failures>>

(* An answer arrives and replaces the list.                                *)
Land(s) ==
  /\ fetches[s].stage = "answered"
  /\ shown' = fetches[s].list
  /\ seen' = [i \in Incidents |-> Max({seen[i], shown'[i]})]
  /\ blurred' = (blurred /\ ~fetches[s].alone)
  /\ fetches' = [fetches EXCEPT ![s] = Free]
  /\ UNCHANGED <<storeVars, streamVars, failures>>

(* A request fails: the list stays, and nothing asks again.                *)
Fail(s) ==
  /\ s \in InFlight /\ failures < MaxFailures
  /\ failures' = failures + 1 /\ blurred' = TRUE
  /\ fetches' = [fetches EXCEPT ![s] = Free]
  /\ UNCHANGED <<storeVars, streamVars, shown, seen>>
-----------------------------------------------------------------------------
(* The stream.                                                             *)

(* list_incidents: newest first.                                           *)
Newest ==
  LET ids == {i \in Incidents : live[i] > 0}
  IN  CHOOSE s \in [1..Cardinality(ids) -> ids] :
        Range(s) = ids /\ \A m, n \in DOMAIN s : m < n => s[m] > s[n]

(* A summary as it is now goes out, and the browser takes it as an event.  *)
Replay(incidents) ==
  /\ told' = [told EXCEPT ![Head(incidents)] = live[Head(incidents)]]
  /\ copy' = Tail(incidents)
  /\ Fetch

(* The generator starts, and runs up to its first yield, or to q.get().    *)
Connect ==
  /\ conn = "closed"
  /\ IF Newest = <<>> THEN conn' = "live" /\ UNCHANGED <<copy, told, pageVars>>
                      ELSE conn' = "replaying" /\ Replay(Newest)
  /\ UNCHANGED <<storeVars, queue, gap>>

ReplayNext == /\ conn = "replaying" /\ copy # <<>> /\ Replay(copy)
              /\ UNCHANGED <<storeVars, conn, queue, gap>>

(* subscribe_global, after the last yield of the replay.                   *)
Subscribe == /\ conn = "replaying" /\ copy = <<>> /\ conn' = "live"
             /\ UNCHANGED <<storeVars, copy, queue, told, gap, pageVars>>

(* Mutant: only an incident the list does not have makes the page fetch.   *)
RelayNews ==
  /\ conn = "live" /\ queue # <<>> /\ queue' = Tail(queue)
  /\ told' = [told EXCEPT ![Head(queue)[1]] = Head(queue)[2]]
  /\ IF shown[Head(queue)[1]] = 0 THEN Fetch ELSE UNCHANGED pageVars
  /\ UNCHANGED <<storeVars, conn, copy, gap>>

Relay ==
  /\ conn = "live" /\ queue # <<>> /\ queue' = Tail(queue)
  /\ told' = [told EXCEPT ![Head(queue)[1]] = Head(queue)[2]]
  /\ Fetch
  /\ UNCHANGED <<storeVars, conn, copy, gap>>

Closed == /\ conn' = "closed" /\ copy' = <<>> /\ queue' = <<>>
          /\ told' = Nothing /\ gap' = {}

(* The connection breaks; EventSource will connect again.                  *)
Disconnect == conn # "closed" /\ Closed /\ UNCHANGED <<storeVars, pageVars>>

(* The process dies and another one starts; the page stays as it is.       *)
Restart ==
  /\ Closed
  /\ live' = Nothing /\ announced' = Nothing
  /\ fetches' = [s \in Slots |-> Free] /\ blurred' = (blurred \/ InFlight # {})
  /\ UNCHANGED <<born, shown, seen, failures>>

Serve == Connect \/ ReplayNext \/ Subscribe \/ Relay

Next == \/ Create \/ Serve \/ Disconnect \/ Restart
        \/ \E i \in Incidents : Change(i) \/ Reset(i)
        \/ \E s \in Slots : Answer(s) \/ Land(s) \/ Fail(s)

Spec == Init /\ [][Next]_vars

(* The loop serves the stream, and requests come to an end, if the process *)
(* lives; nothing is assumed of failures, reconnections and restarts.      *)
FairSpec == /\ Spec /\ WF_vars(Serve)
            /\ \A s \in Slots : WF_vars(Answer(s)) /\ WF_vars(Land(s))
-----------------------------------------------------------------------------
(* What the stream says of an incident never goes back in time: the replay *)
(* sends summaries as they are when they are sent, and nothing queued is   *)
(* older than what was replayed.  Subscribing before the replay, to close  *)
(* the gap, would break this.                                              *)
NeverBackwards ==
  \A m \in DOMAIN queue :
    /\ told[queue[m][1]] < queue[m][2]
    /\ \A n \in DOMAIN queue : m < n /\ queue[m][1] = queue[n][1] => queue[m][2] < queue[n][2]

(* A subscribed stream has sent, or has queued, the last change that was   *)
(* broadcast of every incident, except of those whose last change fell     *)
(* between the copy of the list and the subscription (main.py:980).        *)
LostOnlyInGap ==
  conn = "live" =>
    \A i \in Incidents \ gap :
      told[i] >= announced[i] \/ <<i, announced[i]>> \in Range(queue)

(* At rest the dashboard shows the last change that was broadcast, unless  *)
(* it fell in the stream's gap, or requests failed or overlapped and none  *)
(* ran alone since: of two that overlap the older answer may land last,    *)
(* and then it stays.                                                      *)
CurrentAtRest ==
  conn = "live" /\ queue = <<>> /\ InFlight = {} /\ gap = {} /\ ~blurred =>
    \A i \in Incidents : live[i] > 0 => shown[i] >= announced[i]

(* Whatever overlaps, a change the stream has queued is shown some time,   *)
(* unless the stream breaks or a request fails.                            *)
QueuedIsShown ==
  \A i \in Incidents, v \in 1..MaxVersion, f \in 0..MaxFailures :
    (conn = "live" /\ <<i, v>> \in Range(queue) /\ failures = f)
      ~> (seen[i] >= v \/ conn # "live" \/ failures # f)
=============================================================================
