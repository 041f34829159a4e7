------------------------------ MODULE HITLGate ------------------------------
(***************************************************************************)
(* The approval gate of one incident: run_pipeline's HITL section on the   *)
(* event loop (agents/pipeline.py), StoreHooks.await_hitl and              *)
(* resolve_hitl (backend/store.py), and the approve, reject, reset and     *)
(* config handlers (backend/main.py).                                      *)
(*                                                                         *)
(* `async def` code runs on the event loop and is interrupted only at an   *)
(* await; `def` handlers run in worker threads and interleave with it, and *)
(* with each other, at every access to shared state.  A thread step below  *)
(* is one such access, a loop step is one access or a run between two      *)
(* accesses that no thread can tell from one.                              *)
(***************************************************************************)
EXTENDS Naturals, Sequences

CONSTANTS Requests,     \* one HITLRequest per destructive action of the runbook
          Callers,      \* approve/reject HTTP calls, one worker thread each
          BaseTimeout,  \* config.HITL_TIMEOUT_SECONDS at startup
          Patches       \* values PATCH /config/live may give the timeout

(* A timeout matters only by what asyncio.wait_for makes of it: "positive" *)
(* waits, "elapsed" (<= 0) gives up at once, "null" waits for ever, and    *)
(* "invalid" (a string, a list) raises TypeError.                          *)
Timeouts == {"positive", "elapsed", "null", "invalid"}

ASSUME GateAssumption == /\ Requests # {}
                         /\ BaseTimeout \in Timeouts
                         /\ Patches \subseteq Timeouts
                         /\ "system" \notin Callers /\ "nobody" \notin Callers

VARIABLES
  pending,    \* keys of IncidentState.hitl_pending
  status,     \* HITLRequest.status
  decidedBy,  \* HITLRequest.decided_by
  event,      \* the request's asyncio.Event is set
  history,    \* IncidentState.hitl_history
  timeout,    \* live_config's hitl_timeout_seconds
  scan,       \* summary_dict's iteration over hitl_pending
  pipe,       \* where run_pipeline stands
  waiter,     \* where each _wait_one task stands
  outcome,    \* the branch of the apply loop each action took
  pc,         \* where each caller stands
  target, verdict, \* what each caller asks for
  told        \* the status each accepted caller's response carries

requestVars == <<status, decidedBy, event>>
callVars == <<pc, target, verdict, told>>
taskVars == <<history, scan, pipe, waiter, outcome>>
vars == <<pending, requestVars, timeout, taskVars, callVars>>

Statuses == {"PENDING", "APPROVED", "REJECTED", "TIMED_OUT"}
StatusOf(v) == IF v = "approve" THEN "APPROVED" ELSE "REJECTED"
Finished == {"woken", "overtaken", "timedOut"}

TypeOK ==
  /\ pending \subseteq Requests
  /\ status \in [Requests -> Statuses]
  /\ decidedBy \in [Requests -> Callers \cup {"system", "nobody"}]
  /\ event \in [Requests -> BOOLEAN]
  /\ history \in Seq(Requests)
  /\ timeout \in Timeouts
  /\ scan \in {"off", "on", "torn"}
  /\ pipe \in {"planning", "registering", "announcing", "gathering",
               "returning", "applying", "done", "failed", "abandoned"}
  /\ waiter \in [Requests -> {"unborn", "registered", "timed", "forever",
                              "lapsed", "marking", "stamping", "crashed"} \cup Finished]
  /\ outcome \in [Requests -> {"open", "unsure", "executed", "rejected", "timedOut"}]
  /\ pc \in [Callers -> {"idle", "found", "deciding", "decided", "signalled",
                         "accepted", "conflict", "notFound"}]
  /\ target \in [Callers -> Requests]
  /\ verdict \in [Callers -> {"approve", "reject"}]
  /\ told \in [Callers -> Statuses]

(* What a caller will ask for, and the status its response would carry,    *)
(* are arbitrary until it asks.                                            *)
Init == /\ pending = {}
        /\ status = [r \in Requests |-> "PENDING"]
        /\ decidedBy = [r \in Requests |-> "nobody"]
        /\ event = [r \in Requests |-> FALSE]
        /\ history = <<>>
        /\ timeout = BaseTimeout
        /\ scan = "off"
        /\ pipe = "planning"
        /\ waiter = [r \in Requests |-> "unborn"]
        /\ outcome = [r \in Requests |-> "open"]
        /\ pc = [c \in Callers |-> "idle"]
        /\ target \in [Callers -> Requests]
        /\ verdict \in [Callers -> {"approve", "reject"}]
        /\ told = [c \in Callers |-> "PENDING"]
-----------------------------------------------------------------------------
(* Worker threads: hitl_approve and hitl_reject, both resolve_hitl.        *)

CallerAt(c, from, to) == pc[c] = from /\ pc' = [pc EXCEPT ![c] = to]

CallerOnly == UNCHANGED <<pending, timeout, taskVars, target, verdict>>

(* The dictionary lookup; the request object outlives its entry.           *)
Lookup(c) ==
  /\ CallerAt(c, "idle", IF target[c] \in pending THEN "found" ELSE "notFound")
  /\ CallerOnly /\ UNCHANGED <<requestVars, told>>

Check(c) ==
  /\ CallerAt(c, "found", IF status[target[c]] = "PENDING" THEN "deciding" ELSE "conflict")
  /\ CallerOnly /\ UNCHANGED <<requestVars, told>>

Decide(c) ==
  /\ CallerAt(c, "deciding", "decided")
  /\ status' = [status EXCEPT ![target[c]] = StatusOf(verdict[c])]
  /\ CallerOnly /\ UNCHANGED <<decidedBy, event, told>>

Signal(c) ==
  /\ CallerAt(c, "decided", "signalled")
  /\ decidedBy' = [decidedBy EXCEPT ![target[c]] = c]
  /\ event' = [event EXCEPT ![target[c]] = TRUE]
  /\ CallerOnly /\ UNCHANGED <<status, told>>

(* Mutant: the response repeats the verdict asked for, not the status.     *)
ReplyVerdict(c) ==
  /\ CallerAt(c, "signalled", "accepted")
  /\ told' = [told EXCEPT ![c] = verdict[c]]
  /\ CallerOnly /\ UNCHANGED requestVars

(* The handler's response reads the shared request again.                  *)
Reply(c) ==
  /\ CallerAt(c, "signalled", "accepted")
  /\ told' = [told EXCEPT ![c] = status[target[c]]]
  /\ CallerOnly /\ UNCHANGED requestVars

Answer(c) == Check(c) \/ Decide(c) \/ Signal(c) \/ Reply(c)

Resolve(c) == Lookup(c) \/ Answer(c)

(* reset_incident: clears the dictionary, under a running iteration or not. *)
Reset == /\ pending' = {}
         /\ scan' = IF scan = "on" /\ pending # {} THEN "torn" ELSE scan
         /\ UNCHANGED <<requestVars, timeout, history, pipe, waiter, outcome, callVars>>
-----------------------------------------------------------------------------
(* The event loop.                                                         *)

(* No task is between two of its awaits.                                   *)
LoopIdle == /\ pipe \notin {"registering", "announcing", "returning", "applying"}
            /\ \A r \in Requests : waiter[r] \notin {"marking", "stamping"}

(* PATCH /config/live, and DELETE /config/live/{key}, on the loop.         *)
PatchTimeout == /\ LoopIdle
                /\ timeout' \in Patches \cup {BaseTimeout}
                /\ UNCHANGED <<pending, requestVars, taskVars, callVars>>

PipeAt(from, to) == pipe = from /\ pipe' = to

Register(r) ==
  /\ pipe \in {"planning", "registering"} /\ pipe' = "registering"
  /\ waiter[r] = "unborn" /\ waiter' = [waiter EXCEPT ![r] = "registered"]
  /\ pending' = pending \cup {r}
  /\ UNCHANGED <<requestVars, timeout, history, scan, outcome, callVars>>

(* _broadcast_global evaluates summary_dict, which iterates over the       *)
(* dictionary; a clear() meanwhile may make the iterator raise             *)
(* RuntimeError, which ends the pipeline in its except handler.            *)
Broadcast(from, to) ==
  /\ PipeAt(from, to) /\ scan' = "on"
  /\ UNCHANGED <<pending, requestVars, timeout, history, waiter, outcome, callVars>>

Broadcasted(from, to) ==
  /\ \/ PipeAt(from, to)
     \/ PipeAt(from, "failed") /\ scan = "torn"
  /\ scan' = "off"
  /\ UNCHANGED <<pending, requestVars, timeout, history, waiter, outcome, callVars>>

Announce == /\ \A r \in Requests : waiter[r] = "registered"
            /\ Broadcast("registering", "announcing")

Gather == Broadcasted("announcing", "gathering")

WaiterAt(r, from, to) ==
  /\ waiter[r] \in from /\ waiter' = [waiter EXCEPT ![r] = to]
  /\ UNCHANGED <<pending, event, timeout, scan, pipe, outcome, callVars>>

(* Mutant: ev.wait() awaited without wait_for.                             *)
StartWaitUntimed(r) ==
  /\ LoopIdle /\ pipe \in {"gathering", "abandoned"}
  /\ WaiterAt(r, {"registered"}, "forever")
  /\ UNCHANGED <<status, decidedBy, history>>

(* A task reads the live timeout when it first runs.                       *)
StartWait(r) ==
  /\ LoopIdle /\ pipe \in {"gathering", "abandoned"}
  /\ WaiterAt(r, {"registered"}, CASE timeout = "positive" -> "timed"
                                   [] timeout = "elapsed"  -> "lapsed"
                                   [] timeout = "null"     -> "forever"
                                   [] timeout = "invalid"  -> "crashed")
  /\ UNCHANGED <<status, decidedBy, history>>

Wake(r) ==
  /\ LoopIdle /\ event[r]
  /\ WaiterAt(r, {"timed", "forever"}, "woken")
  /\ history' = Append(history, r)
  /\ UNCHANGED <<status, decidedBy>>

(* Mutants: the timeout is swallowed without a verdict; an overtaken       *)
(* waiter returns without its append; it stamps decided_by all the same.   *)
ExpireSilently(r) ==
  /\ LoopIdle /\ WaiterAt(r, {"timed", "lapsed"}, "timedOut")
  /\ history' = Append(history, r)
  /\ UNCHANGED <<status, decidedBy>>

ExpireUnrecorded(r) ==
  /\ LoopIdle
  /\ WaiterAt(r, {"timed", "lapsed"}, IF status[r] = "PENDING" THEN "marking" ELSE "overtaken")
  /\ UNCHANGED <<status, decidedBy, history>>

ExpireStamping(r) ==
  /\ LoopIdle
  /\ IF status[r] = "PENDING"
     THEN WaiterAt(r, {"timed", "lapsed"}, "marking") /\ UNCHANGED <<decidedBy, history>>
     ELSE /\ WaiterAt(r, {"timed", "lapsed"}, "overtaken")
          /\ history' = Append(history, r)
          /\ decidedBy' = [decidedBy EXCEPT ![r] = "system"]
  /\ UNCHANGED status

(* TimeoutError: the task looks whether a decision got in first ...        *)
Expire(r) ==
  /\ LoopIdle
  /\ IF status[r] = "PENDING"
     THEN WaiterAt(r, {"timed", "lapsed"}, "marking") /\ UNCHANGED history
     ELSE WaiterAt(r, {"timed", "lapsed"}, "overtaken") /\ history' = Append(history, r)
  /\ UNCHANGED <<status, decidedBy>>

(* ... and writes its own verdict, which is a step of its own.             *)
MarkTimedOut(r) ==
  /\ WaiterAt(r, {"marking"}, "stamping")
  /\ status' = [status EXCEPT ![r] = "TIMED_OUT"]
  /\ UNCHANGED <<decidedBy, history>>

Stamp(r) ==
  /\ WaiterAt(r, {"stamping"}, "timedOut")
  /\ decidedBy' = [decidedBy EXCEPT ![r] = "system"]
  /\ history' = Append(history, r)
  /\ UNCHANGED status

(* gather re-raises the first failure and leaves the other tasks running.  *)
GatherFails ==
  /\ LoopIdle /\ \E r \in Requests : waiter[r] = "crashed"
  /\ PipeAt("gathering", "abandoned")
  /\ UNCHANGED <<pending, requestVars, timeout, history, scan, waiter, outcome, callVars>>

Collect == /\ LoopIdle /\ \A r \in Requests : waiter[r] \in Finished
           /\ Broadcast("gathering", "returning")

Return == Broadcasted("returning", "applying")

(* The apply loop reads req.status once for == APPROVED and, if that       *)
(* failed, again for == REJECTED; what is left is taken for a timeout.     *)
OutcomeAt(r, from, to) ==
  /\ pipe = "applying"
  /\ outcome[r] = from /\ outcome' = [outcome EXCEPT ![r] = to]
  /\ UNCHANGED <<pending, requestVars, timeout, history, scan, pipe, waiter, callVars>>

(* Mutants: whatever was not rejected runs; the elif branch is missing.    *)
ApplyNotRejected(r) ==
  /\ \A q \in Requests : outcome[q] # "unsure"
  /\ OutcomeAt(r, "open", IF status[r] # "REJECTED" THEN "executed" ELSE "unsure")

ApplyAsTimeout(r) == OutcomeAt(r, "unsure", "timedOut")

ApplyApproved(r) ==
  /\ \A q \in Requests : outcome[q] # "unsure"
  /\ OutcomeAt(r, "open", IF status[r] = "APPROVED" THEN "executed" ELSE "unsure")

ApplyOther(r) ==
  OutcomeAt(r, "unsure", IF status[r] = "REJECTED" THEN "rejected" ELSE "timedOut")

Finish == /\ \A r \in Requests : outcome[r] \notin {"open", "unsure"}
          /\ PipeAt("applying", "done")
          /\ UNCHANGED <<pending, requestVars, timeout, history, scan, waiter, outcome, callVars>>

Waiting(r) == StartWait(r) \/ Wake(r) \/ Expire(r) \/ MarkTimedOut(r) \/ Stamp(r)

Pipeline == \/ \E r \in Requests : Register(r) \/ ApplyApproved(r) \/ ApplyOther(r)
            \/ Announce \/ Gather \/ GatherFails \/ Collect \/ Return \/ Finish

Next == \/ \E c \in Callers : Resolve(c)
        \/ \E r \in Requests : Waiting(r)
        \/ Pipeline
        \/ Reset
        \/ PatchTimeout

Spec == Init /\ [][Next]_vars
-----------------------------------------------------------------------------
(* The verdicts really given on r: by the callers past their write of      *)
(* status, and by the waiter once it has marked the timeout.               *)
Deciders(r) ==
  {c \in Callers : target[c] = r /\ pc[c] \in {"decided", "signalled", "accepted"}}

TimedOut(r) == waiter[r] \in {"stamping", "timedOut"}

Issued(r) == {verdict[c] : c \in Deciders(r)}
               \cup (IF TimedOut(r) THEN {"timeout"} ELSE {})

Fate(r) == CASE outcome[r] = "executed" -> "executed"
             [] outcome[r] \in {"rejected", "timedOut"} -> "withheld"
             [] OTHER -> "open"

Contract == INSTANCE ApprovalGate
  WITH issued <- [r \in Requests |-> Issued(r)],
       outcome <- [r \in Requests |-> Fate(r)]

(* The gate implements the contract: no destructive action runs without an *)
(* approval given before, and none is withheld without a rejection or a    *)
(* timeout, whatever order threads and loop run in (pipeline.py:239-255).  *)
GateContract == Contract!Spec

(* await_hitl returns only requests that have a decision; run_pipeline's   *)
(* apply loop relies on it, having no branch for PENDING.                  *)
GatheredMeansDecided ==
  pipe \in {"returning", "applying", "done"} =>
    \A r \in Requests : waiter[r] \in Finished /\ status[r] # "PENDING"

(* When all who decided on a request agree, its action's fate and its      *)
(* entry in the incident's timeline are what they decided: a lone approval *)
(* is never lost, a lone rejection never recorded as a timeout.            *)
LoneVerdictHonoured ==
  \A r \in Requests : outcome[r] \notin {"open", "unsure"} =>
    /\ Issued(r) = {"approve"} => outcome[r] = "executed"
    /\ Issued(r) = {"reject"}  => outcome[r] = "rejected"
    /\ Issued(r) = {"timeout"} => outcome[r] = "timedOut"

(* The audit trail credits the one who decided: once a request's only      *)
(* decider has signalled, decided_by names it, and a timeout nobody beat   *)
(* is credited to the system (store.py:324, 363).                          *)
SoleDeciderCredited ==
  \A r \in Requests :
    /\ \A c \in Callers : Deciders(r) = {c} /\ ~TimedOut(r) /\ pc[c] # "decided"
                            => decidedBy[r] = c
    /\ Deciders(r) = {} /\ waiter[r] = "timedOut" => decidedBy[r] = "system"

(* hitl_history receives every request exactly once, before the apply loop *)
(* starts, and never one that is still undecided (store.py:325).           *)
HistoryExact ==
  /\ \A i, j \in DOMAIN history : history[i] = history[j] => i = j
  /\ \A i \in DOMAIN history : status[history[i]] # "PENDING"
  /\ pipe \in {"returning", "applying", "done"} =>
       \A r \in Requests : \E i \in DOMAIN history : history[i] = r

(* A pipeline that started to wait comes back, to the apply loop or to its *)
(* except handler, even if nobody ever answers and even if a reset made    *)
(* the requests undecidable -- unless the live timeout was patched to null *)
(* (store.py:317-319).                                                     *)
GateOpens == pipe = "gathering" ~> pipe \in {"done", "failed", "abandoned"}

(* store.py:338: HITLAlreadyDecidedError is "Raised when the HITL request  *)
(* has already been approved/rejected/timed out", so a caller that         *)
(* succeeded was the only one to decide: no other caller and no timeout    *)
(* did.                                                                    *)
DecidedOnce ==
  \A c \in Callers : pc[c] = "accepted" =>
    Deciders(target[c]) = {c} /\ ~TimedOut(target[c])
=============================================================================
