-------------------------- MODULE IncidentLifecycle --------------------------
(***************************************************************************)
(* One incident from its creation to RESOLVED or ERROR, and the copies of  *)
(* it: the live IncidentState (backend/store.py), its snapshot in Redis    *)
(* (backend/redis_store.py) and the view a later process restores.         *)
(*                                                                         *)
(* run_pipeline (agents/pipeline.py) is the sequence of its hook calls;    *)
(* each hook changes the live incident, broadcasts summary_dict and saves  *)
(* to_public_dict.  Worker threads (resets, decisions) interleave with     *)
(* those steps, the process may crash between any two, and a Redis         *)
(* command may fail.  What the agents compute is their results' presence;  *)
(* the gate itself is HITLGate.                                            *)
(***************************************************************************)
EXTENDS Naturals, Sequences

CONSTANT RedisFaults   \* Redis commands may fail, silently

ASSUME LifecycleAssumption == RedisFaults \in BOOLEAN

VARIABLES
  live,       \* the public part of the IncidentState, or Nothing
  registered, \* hitl_pending has entries, decided ones included
  snap,       \* incident:{id} in Redis, or Nothing
  indexed,    \* the id is in incidents:index
  restored,   \* RESTORED_INCIDENTS' entry, or Nothing
  run,        \* what the pipeline's task is at
  at, phase,  \* the hook call of run it stands in, and how far it got
  resetter,   \* a reset between its two writes
  torn,       \* the iteration the loop is in has seen its dict cleared
  external,   \* REDIS_URL is set; else fakeredis, in the process
  destructive, noServices, \* what the agents will propose for this incident
  timeout,                 \* the live HITL timeout when the wait reads it
  wasReset, saved          \* history: any reset; the last save's key is there

pipeVars == <<run, at, phase>>
redisVars == <<snap, indexed, restored>>
givenVars == <<external, destructive, noServices, timeout>>
vars == <<live, registered, redisVars, pipeVars, resetter, torn, givenVars, wasReset, saved>>

(* What asyncio.wait_for makes of it: it times out, it waits for ever, or  *)
(* it raises TypeError.  PATCH /config/live accepts any of them.           *)
Timeouts == {"number", "null", "invalid"}

Stages == <<"triage", "diagnosis", "runbook", "rca">>
Rank == <<"TRIAGING", "DIAGNOSING", "REMEDIATING", "AWAITING_HITL",
          "POST_MORTEM", "RESOLVED", "ERROR">>
RangeOf(s) == {s[i] : i \in DOMAIN s}

Nothing == [status |-> "none"]

Fresh == [status |-> "TRIAGING", results |-> {}, trace |-> <<>>,
          reports |-> 0, ran |-> {}, asking |-> FALSE]

Records == [status : RangeOf(Rank),
            results : SUBSET (RangeOf(Stages) \cup {"pipeline_metadata"}),
            trace : UNION {[1..n -> RangeOf(Stages) \cup {"error"}] : n \in 0..5},
            reports : 0..1, ran : SUBSET {"safe", "approved"}, asking : BOOLEAN]

Hook(do, what) == [do |-> do, what |-> what]

Status(s) == Hook("status", s)
Result(k) == Hook("result", k)
Trace(k) == Hook("trace", k)

(* What happens to the incident, in run_pipeline's order: hook calls, and  *)
(* the assignments of `executed` to actions the stored runbook shares.     *)
UpToPostMortem ==
  << Hook("create", "TRIAGING"), Result("pipeline_metadata"),
     Status("TRIAGING"), Result("triage"), Trace("triage"),
     Status("DIAGNOSING"), Result("diagnosis"), Hook("report", "diagnosis"), Trace("diagnosis"),
     Status("REMEDIATING"), Result("runbook"), Trace("runbook"), Hook("execute", "safe"),
     Status("AWAITING_HITL"), Hook("await", "decisions"), Hook("execute", "approved"),
     Status("POST_MORTEM") >>

(* Mutants: the incident is resolved before its RCA is stored; the         *)
(* approved actions are marked executed after the incident is resolved.    *)
PipelineResolvingEarly ==
  UpToPostMortem \o << Status("RESOLVED"), Result("rca"), Trace("rca") >>

PipelineExecutingLate ==
  SelectSeq(UpToPostMortem, LAMBDA h : h.what # "approved")
    \o << Result("rca"), Trace("rca"), Status("RESOLVED"), Hook("execute", "approved") >>

PipelineHooks ==
  UpToPostMortem \o << Result("rca"), Trace("rca"), Status("RESOLVED") >>

(* The except handler.                                                     *)
ErrorHooks == << Trace("error"), Status("ERROR") >>

Hooks == IF run = "handler" THEN ErrorHooks ELSE PipelineHooks
Here == Hooks[at]

HITLSection == {Status("AWAITING_HITL"), Hook("await", "decisions"), Hook("execute", "approved")}

Summarises(h) == h.do \in {"create", "status", "result"}

TypeOK ==
  /\ live \in Records \cup {Nothing} /\ snap \in Records \cup {Nothing}
  /\ restored \in Records \cup {Nothing}
  /\ registered \in BOOLEAN /\ indexed \in BOOLEAN /\ torn \in BOOLEAN
  /\ run \in {"main", "handler", "done", "failed", "died", "gone"}
  /\ at \in 1..Len(PipelineHooks)
  /\ phase \in {"apply", "announce", "wait", "publish", "save", "index"}
  /\ resetter \in {"idle", "clearing"}
  /\ external \in BOOLEAN /\ destructive \in BOOLEAN /\ noServices \in BOOLEAN
  /\ timeout \in Timeouts /\ wasReset \in BOOLEAN /\ saved \in BOOLEAN

Init == /\ live = Nothing /\ registered = FALSE
        /\ snap = Nothing /\ indexed = FALSE /\ restored = Nothing
        /\ run = "main" /\ at = 1 /\ phase = "apply"
        /\ resetter = "idle" /\ torn = FALSE
        /\ external \in BOOLEAN /\ destructive \in BOOLEAN /\ noServices \in BOOLEAN
        /\ timeout \in Timeouts
        /\ wasReset = FALSE /\ saved = TRUE
-----------------------------------------------------------------------------
(* The pipeline's task.                                                    *)

Running == run \in {"main", "handler"}

(* The hook call is over: on to the next that applies to this runbook.     *)
Advance ==
  LET later == {i \in (at + 1)..Len(Hooks) : destructive \/ Hooks[i] \notin HITLSection}
  IN  IF later = {}
      THEN /\ run' = IF run = "handler" THEN "failed" ELSE "done"
           /\ phase' = "apply" /\ UNCHANGED at
      ELSE /\ at' = CHOOSE i \in later : \A j \in later : i <= j
           /\ phase' = "apply" /\ UNCHANGED run

(* An exception leaves the hook: the handler runs, and what it raises      *)
(* itself ends the task.                                                   *)
Raise == /\ run' = IF run = "handler" THEN "died" ELSE "handler"
         /\ at' = 1 /\ phase' = "apply"

LoopOnly == UNCHANGED <<resetter, givenVars, wasReset>>

Applied(h) ==
  CASE h.do = "create"  -> Fresh
    [] h.do = "status"  -> [live EXCEPT !.status = h.what]
    [] h.do = "result"  -> [live EXCEPT !.results = @ \cup {h.what}]
    [] h.do = "trace"   -> [live EXCEPT !.trace = Append(@, h.what)]
    [] h.do = "report"  -> [live EXCEPT !.reports = 1]
    [] h.do = "execute" -> [live EXCEPT !.ran = @ \cup {h.what}]
    [] h.do = "await"   -> [live EXCEPT !.asking = TRUE]

(* The change to the live incident; whether a destructive action was       *)
(* approved is open.                                                       *)
Apply ==
  /\ Running /\ phase = "apply"
  /\ \/ live' = Applied(Here)
     \/ Here = Hook("execute", "approved") /\ UNCHANGED live
  /\ registered' = (registered \/ Here.do = "await")
  /\ CASE Summarises(Here)     -> phase' = "publish" /\ UNCHANGED <<run, at>>
       [] Here.do = "trace"    -> phase' = "save" /\ UNCHANGED <<run, at>>
       [] Here.do = "await"    -> phase' = "announce" /\ UNCHANGED <<run, at>>
       [] OTHER                -> Advance
  /\ UNCHANGED <<redisVars, torn, saved>> /\ LoopOnly

(* summary_dict: takes the first of the triage's services, and iterates    *)
(* over the pending requests.                                              *)
SummaryRaises == noServices /\ "triage" \in live.results

Publish ==
  /\ Running /\ phase \in {"announce", "publish"}
  /\ \/ (torn \/ SummaryRaises) /\ Raise
     \/ /\ ~torn /\ ~SummaryRaises
        /\ \/ phase = "announce" /\ phase' = "wait" /\ UNCHANGED <<run, at>>
           \/ phase = "publish" /\ Here.do = "await" /\ Advance
           \/ phase = "publish" /\ Here.do # "await" /\ phase' = "save" /\ UNCHANGED <<run, at>>
  /\ torn' = FALSE
  /\ UNCHANGED <<live, registered, redisVars, saved>> /\ LoopOnly

(* Mutant: only a request that is still pending can time out.              *)
ExpireAsking ==
  /\ run = "main" /\ phase = "wait" /\ timeout = "number" /\ live.asking
  /\ live' = [live EXCEPT !.asking = FALSE]
  /\ phase' = "publish"
  /\ UNCHANGED <<registered, redisVars, run, at, torn, saved>> /\ LoopOnly

(* Every request is decided, by a timeout if need be; without one, by      *)
(* Decide alone.                                                           *)
Expire == /\ run = "main" /\ phase = "wait" /\ timeout = "number"
          /\ live' = [live EXCEPT !.asking = FALSE]
          /\ phase' = "publish"
          /\ UNCHANGED <<registered, redisVars, run, at, torn, saved>> /\ LoopOnly

(* wait_for raises TypeError, gather re-raises it, the requests stay.      *)
Abandon == /\ run = "main" /\ phase = "wait" /\ timeout = "invalid"
           /\ Raise
           /\ UNCHANGED <<live, registered, redisVars, torn, saved>> /\ LoopOnly

(* Mutant: a failed write is taken for the old snapshot's deletion.        *)
SaveDropping ==
  /\ Running /\ phase = "save" /\ torn' = FALSE
  /\ \/ ~torn /\ snap' = live /\ phase' = "index" /\ UNCHANGED <<run, at, saved>>
     \/ ~torn /\ RedisFaults /\ saved' = FALSE /\ Advance /\ snap' = Nothing
     \/ torn /\ Raise /\ UNCHANGED <<snap, saved>>
  /\ UNCHANGED <<live, registered, indexed, restored>> /\ LoopOnly

(* _persist: to_public_dict iterates over the pending requests, too, and   *)
(* raises outside set_incident's try; then SETEX ...                       *)
Save ==
  /\ Running /\ phase = "save" /\ torn' = FALSE
  /\ \/ ~torn /\ snap' = live /\ phase' = "index" /\ UNCHANGED <<run, at, saved>>
     \/ ~torn /\ RedisFaults /\ saved' = FALSE /\ Advance /\ UNCHANGED snap
     \/ torn /\ Raise /\ UNCHANGED <<snap, saved>>
  /\ UNCHANGED <<live, registered, indexed, restored>> /\ LoopOnly

(* Mutant: the id is put into the index at the incident's creation only.   *)
IndexAtCreation ==
  /\ Running /\ phase = "index"
  /\ \/ saved' = TRUE /\ indexed' = (indexed \/ at = 1)
     \/ RedisFaults /\ UNCHANGED indexed /\ saved' = FALSE
  /\ Advance
  /\ UNCHANGED <<live, registered, snap, restored, torn>> /\ LoopOnly

(* ... and SADD.                                                           *)
Index ==
  /\ Running /\ phase = "index"
  /\ \/ indexed' = TRUE /\ saved' = TRUE
     \/ RedisFaults /\ UNCHANGED indexed /\ saved' = FALSE
  /\ Advance
  /\ UNCHANGED <<live, registered, snap, restored, torn>> /\ LoopOnly

Loop == Apply \/ Publish \/ Expire \/ Abandon \/ Save \/ Index
-----------------------------------------------------------------------------
(* Worker threads.                                                         *)

ThreadOnly == UNCHANGED <<redisVars, run, at, givenVars, saved>>

(* The last decision on the incident's requests, by resolve_hitl: on those *)
(* of a run that failed, too, and by a caller that had found its request   *)
(* before a reset cleared it.                                              *)
Decide == /\ live # Nothing
          /\ live.asking \/ (phase = "wait" /\ wasReset)
          /\ live' = [live EXCEPT !.asking = FALSE]
          /\ phase' = IF phase = "wait" /\ timeout # "invalid" THEN "publish" ELSE phase
          /\ UNCHANGED <<registered, resetter, torn, wasReset>> /\ ThreadOnly

(* reset_incident writes the status, then clears the pending requests,     *)
(* which an iteration that has begun may notice.                           *)
ResetStatus == /\ live # Nothing /\ resetter = "idle"
               /\ live' = [live EXCEPT !.status = "TRIAGING"]
               /\ resetter' = "clearing" /\ wasReset' = TRUE
               /\ UNCHANGED <<registered, phase, torn>> /\ ThreadOnly

ResetClear == /\ live # Nothing /\ resetter = "clearing"
              /\ live' = [live EXCEPT !.asking = FALSE]
              /\ registered' = FALSE /\ resetter' = "idle"
              /\ torn' \in {torn, torn \/ (Running /\ registered
                                             /\ phase \in {"announce", "publish", "save"})}
              /\ UNCHANGED <<phase, wasReset>> /\ ThreadOnly

(* The process ends anywhere, and with it all it held.                     *)
Crash == /\ live # Nothing
         /\ live' = Nothing /\ registered' = FALSE /\ restored' = Nothing
         /\ run' = "gone" /\ resetter' = "idle" /\ torn' = FALSE
         /\ IF external THEN UNCHANGED <<snap, indexed>>
                        ELSE snap' = Nothing /\ indexed' = FALSE
         /\ UNCHANGED <<at, phase, givenVars, wasReset, saved>>

(* restore_persisted_incidents at the next startup.                        *)
Restart == /\ run = "gone"
           /\ restored' = IF indexed THEN snap ELSE Nothing
           /\ UNCHANGED <<live, registered, snap, indexed, pipeVars, resetter, torn,
                          givenVars, wasReset, saved>>

(* The snapshot's key expires, a week after its SETEX; its index entry     *)
(* stays.  Only a run that waits, or is over, leaves it alone that long.   *)
Lapse == /\ snap # Nothing
         /\ Running => phase = "wait"
         /\ snap' = Nothing /\ saved' = FALSE
         /\ UNCHANGED <<live, registered, indexed, restored, pipeVars, resetter, torn,
                        givenVars, wasReset>>

Next == Loop \/ Decide \/ ResetStatus \/ ResetClear \/ Crash \/ Restart \/ Lapse

Spec == Init /\ [][Next]_vars

(* The loop runs on as long as the process does, timers included.          *)
FairSpec == Spec /\ WF_vars(Loop)
-----------------------------------------------------------------------------
(* No reader of any copy -- live, snapshot or restored, after any crash,   *)
(* lost write or reset -- sees a resolved incident without all its results *)
(* and its four trace steps, in order, or with a request still open.  (The *)
(* handler adds a step of its own if what followed the status raised.)     *)
ResolvedIsComplete ==
  \A view \in {live, snap, restored} : view.status = "RESOLVED" =>
    /\ RangeOf(Stages) \subseteq view.results
    /\ view.trace \in {Stages, Append(Stages, "error")}
    /\ ~view.asking

(* Between two of its hook calls the pipeline's results and trace are in   *)
(* Redis, unless the last write failed or its key has expired since; so a  *)
(* crash there loses none of them if Redis is external.                    *)
ResultsDurable ==
  run \in {"main", "done"} /\ phase = "apply" /\ at > 1 /\ saved =>
    /\ snap # Nothing /\ indexed
    /\ snap.results = live.results /\ snap.trace = live.trace

(* store.py:8-10: the snapshots are "what makes a completed incident       *)
(* survive": once it is resolved, unless it was reset or its last write    *)
(* was lost, Redis has all of it until its key expires -- executed actions *)
(* and validation report included, which no write of their own has put     *)
(* there.                                                                  *)
CompletedSurvives ==
  run = "done" /\ saved /\ ~wasReset =>
    indexed /\ snap = live /\ snap.status = "RESOLVED"

(* Writing an incident again never loses what an earlier snapshot of it    *)
(* had: results and trace in Redis only grow, while the process lives and  *)
(* until the key expires.                                                  *)
SnapshotsGrow ==
  [][ snap # Nothing /\ live' # Nothing /\ ~Lapse =>
        /\ snap' # Nothing
        /\ snap.results \subseteq snap'.results
        /\ Len(snap.trace) <= Len(snap'.trace) ]_vars

(* A run that began ends -- done, failed, or with an exception -- unless   *)
(* the process does, whatever is reset, and though nobody decides: only a  *)
(* timeout patched to null leaves it waiting, until somebody does.         *)
RunEnds ==
  (run = "main") ~> \/ run \notin {"main", "handler"}
                    \/ phase = "wait" /\ timeout = "null"
=============================================================================
