--------------------------- MODULE HITLGate_proofs ---------------------------
(***************************************************************************)
(* Proofs about HITLGate for every set of requests and callers: it is      *)
(* well typed, it gathers only decided requests, it honours a lone         *)
(* verdict and credits a lone decider, it records every request once,      *)
(* it implements ApprovalGate, and it is what Remediation takes it for.    *)
(* They rest on one inductive invariant: a status other than PENDING was   *)
(* written by somebody whose verdict still stands in Issued.               *)
(***************************************************************************)
EXTENDS HITLGate, TLAPS

(* Every status is backed by a verdict; PENDING by none.                   *)
StatusBacked ==
  \A r \in Requests :
    /\ status[r] = "PENDING"   <=> Issued(r) = {}
    /\ status[r] = "APPROVED"  => "approve" \in Issued(r)
    /\ status[r] = "REJECTED"  => "reject" \in Issued(r)
    /\ status[r] = "TIMED_OUT" => "timeout" \in Issued(r)

(* A waiter that is done, and an event that is set, mean a decision.       *)
DoneMeansDecided ==
  \A r \in Requests : waiter[r] \in Finished \/ event[r] => status[r] # "PENDING"

(* The apply loop runs after every waiter is done.                         *)
AppliedMeansFinished ==
  /\ pipe \in {"returning", "applying", "done"} => \A r \in Requests : waiter[r] \in Finished
  /\ \A r \in Requests : outcome[r] # "open" => pipe \in {"applying", "done"}

(* Each branch of the apply loop was taken on some verdict of its kind.    *)
OutcomeBacked ==
  \A r \in Requests :
    /\ outcome[r] = "executed" => "approve" \in Issued(r)
    /\ outcome[r] = "rejected" => "reject" \in Issued(r)
    /\ outcome[r] \in {"unsure", "timedOut"} => Issued(r) \cap {"reject", "timeout"} # {}
    /\ outcome[r] = "timedOut" => Issued(r) # {"reject"}

Backing == StatusBacked /\ DoneMeansDecided /\ AppliedMeansFinished /\ OutcomeBacked

IInv == TypeOK /\ Backing
-----------------------------------------------------------------------------
(* Type correctness.                                                       *)
LEMMA InitTyped == Init => TypeOK
  BY GateAssumption DEF Init, TypeOK, Statuses, Finished, Timeouts

LEMMA StepTyped == TypeOK /\ [Next]_vars => TypeOK'
<1> SUFFICES ASSUME TypeOK, [Next]_vars PROVE TypeOK'
  OBVIOUS
<1> USE GateAssumption DEF TypeOK, Statuses, Finished, Timeouts, requestVars, taskVars, callVars
<1>1. ASSUME NEW c \in Callers, Resolve(c) PROVE TypeOK'
  <2> USE DEF CallerAt, CallerOnly
  <2>1. CASE Lookup(c)
    BY <2>1 DEF Lookup
  <2>2. CASE Check(c)
    BY <2>2 DEF Check
  <2>3. CASE Decide(c)
    BY <2>3 DEF Decide, StatusOf
  <2>4. CASE Signal(c)
    BY <2>4 DEF Signal
  <2>5. CASE Reply(c)
    BY <2>5 DEF Reply
  <2>6. QED
    BY <1>1, <2>1, <2>2, <2>3, <2>4, <2>5 DEF Resolve, Answer
<1>2. ASSUME NEW r \in Requests, Waiting(r) PROVE TypeOK'
  <2> USE DEF WaiterAt
  <2>1. CASE StartWait(r)
    BY <2>1 DEF StartWait
  <2>2. CASE Wake(r)
    BY <2>2 DEF Wake
  <2>3. CASE Expire(r)
    <3>1. CASE status[r] = "PENDING"
      BY <2>3, <3>1 DEF Expire
    <3>2. CASE status[r] # "PENDING"
      <4>1. /\ WaiterAt(r, {"timed", "lapsed"}, "overtaken")
            /\ history' = Append(history, r)
            /\ UNCHANGED <<status, decidedBy>>
        BY <2>3, <3>2 DEF Expire
      <4>2. QED
        BY <4>1
    <3>3. QED
      BY <3>1, <3>2
  <2>4. CASE MarkTimedOut(r)
    BY <2>4 DEF MarkTimedOut
  <2>5. CASE Stamp(r)
    BY <2>5 DEF Stamp
  <2>6. QED
    BY <1>2, <2>1, <2>2, <2>3, <2>4, <2>5 DEF Waiting
<1>3. ASSUME Pipeline PROVE TypeOK'
  <2> USE DEF PipeAt, Broadcast, Broadcasted, OutcomeAt
  <2>1. ASSUME NEW r \in Requests, Register(r) PROVE TypeOK'
    BY <2>1 DEF Register
  <2>2. ASSUME NEW r \in Requests, ApplyApproved(r) PROVE TypeOK'
    BY <2>2 DEF ApplyApproved
  <2>3. ASSUME NEW r \in Requests, ApplyOther(r) PROVE TypeOK'
    BY <2>3 DEF ApplyOther
  <2>4. CASE Announce
    BY <2>4 DEF Announce
  <2>5. CASE Gather
    BY <2>5 DEF Gather
  <2>6. CASE GatherFails
    BY <2>6 DEF GatherFails
  <2>7. CASE Collect
    BY <2>7 DEF Collect
  <2>8. CASE Return
    BY <2>8 DEF Return
  <2>9. CASE Finish
    BY <2>9 DEF Finish
  <2>10. QED
    BY <1>3, <2>1, <2>2, <2>3, <2>4, <2>5, <2>6, <2>7, <2>8, <2>9 DEF Pipeline
<1>4. CASE Reset
  BY <1>4 DEF Reset
<1>5. CASE PatchTimeout
  BY <1>5 DEF PatchTimeout
<1>6. CASE UNCHANGED vars
  BY <1>6 DEF vars
<1>7. QED
  BY <1>1, <1>2, <1>3, <1>4, <1>5, <1>6 DEF Next

(* Every reachable state of the gate is well typed, for any requests,      *)
(* callers and timeout values.                                             *)
THEOREM TypeCorrect == Spec => []TypeOK
  BY InitTyped, StepTyped, PTL DEF Spec
-----------------------------------------------------------------------------
(* Which verdicts stand, and who gave them: only Decide and MarkTimedOut   *)
(* change Issued, each by adding the verdict it writes.                    *)

Applied(s) == s \in {"decided", "signalled", "accepted"}

LEMMA IssuedSame ==
  ASSUME TypeOK, TypeOK', UNCHANGED <<target, verdict>>,
         \A c \in Callers : Applied(pc[c])' <=> Applied(pc[c]),
         NEW r \in Requests, TimedOut(r)' <=> TimedOut(r)
  PROVE  Issued(r)' = Issued(r)
<1>1. Deciders(r)' = Deciders(r)
  BY DEF Deciders, Applied, TypeOK
<1>2. QED
  BY <1>1 DEF Issued

LEMMA DecideIssues ==
  ASSUME TypeOK, TypeOK', NEW c \in Callers, Decide(c), NEW r \in Requests
  PROVE  Issued(r)' = IF r = target[c] THEN Issued(r) \cup {verdict[c]} ELSE Issued(r)
<1> USE DEF Decide, CallerAt, CallerOnly, TypeOK
<1>1. Deciders(r)' = IF r = target[c] THEN Deciders(r) \cup {c} ELSE Deciders(r)
  BY DEF Deciders
<1>2. TimedOut(r)' <=> TimedOut(r)
  BY DEF TimedOut, taskVars
<1>3. QED
  BY <1>1, <1>2 DEF Issued

LEMMA MarkIssues ==
  ASSUME TypeOK, TypeOK', NEW q \in Requests, MarkTimedOut(q), NEW r \in Requests
  PROVE  Issued(r)' = IF r = q THEN Issued(r) \cup {"timeout"} ELSE Issued(r)
<1> USE DEF MarkTimedOut, WaiterAt, TypeOK, callVars
<1>1. Deciders(r)' = Deciders(r)
  BY DEF Deciders
<1>2. TimedOut(r)' <=> (TimedOut(r) \/ r = q)
  BY DEF TimedOut
<1>3. ~TimedOut(q)
  BY DEF TimedOut
<1>4. QED
  BY <1>1, <1>2, <1>3 DEF Issued

LEMMA InitBacked == Init => Backing
<1> SUFFICES ASSUME Init PROVE Backing
  OBVIOUS
<1>1. \A r \in Requests : Issued(r) = {}
  BY DEF Init, Issued, Deciders, TimedOut
<1>2. QED
  BY <1>1 DEF Init, Backing, StatusBacked, DoneMeansDecided, AppliedMeansFinished,
              OutcomeBacked, Finished

(* A step that issues no verdict and writes no status keeps the backing of *)
(* statuses and, if it leaves the apply loop alone, that of outcomes.      *)
LEMMA QuietKeepsBacking ==
  ASSUME TypeOK, TypeOK', Backing, UNCHANGED <<status, event, waiter, pipe, outcome>>,
         UNCHANGED <<target, verdict>>, \A c \in Callers : Applied(pc[c])' <=> Applied(pc[c])
  PROVE  Backing'
<1>1. \A r \in Requests : Issued(r)' = Issued(r)
  BY IssuedSame DEF TimedOut
<1>2. QED
  BY <1>1 DEF Backing, StatusBacked, DoneMeansDecided, AppliedMeansFinished, OutcomeBacked

LEMMA CallerKeepsBacking ==
  ASSUME TypeOK, TypeOK', Backing, NEW c \in Callers, Resolve(c)
  PROVE  Backing'
<1> USE DEF CallerAt, CallerOnly, taskVars, requestVars
<1>1. CASE Lookup(c)
  BY <1>1, QuietKeepsBacking DEF Lookup, Applied, TypeOK
<1>2. CASE Check(c)
  BY <1>2, QuietKeepsBacking DEF Check, Applied, TypeOK
<1>3. CASE Decide(c)
  <2>1. PICK q \in Requests, v \in {"approve", "reject"} : q = target[c] /\ v = verdict[c]
    BY DEF TypeOK
  <2>2. \A r \in Requests : Issued(r)' = IF r = q THEN Issued(r) \cup {v} ELSE Issued(r)
    BY <1>3, <2>1, DecideIssues
  <2>3. status' = [status EXCEPT ![q] = StatusOf(v)] /\ UNCHANGED <<event, waiter, pipe, outcome>>
    BY <1>3, <2>1 DEF Decide
  <2>4. StatusBacked'
    <3>1. ASSUME NEW r \in Requests, r # q PROVE status'[r] = status[r] /\ Issued(r)' = Issued(r)
      BY <2>2, <2>3, <3>1 DEF TypeOK
    <3>2. status'[q] = StatusOf(v) /\ v \in Issued(q)'
      BY <2>2, <2>3 DEF TypeOK
    <3>3. QED
      BY <3>1, <3>2 DEF Backing, StatusBacked, StatusOf
  <2>5. DoneMeansDecided'
    BY <2>3 DEF Backing, DoneMeansDecided, StatusOf, TypeOK
  <2>6. AppliedMeansFinished' /\ OutcomeBacked'
    BY <2>2, <2>3 DEF Backing, AppliedMeansFinished, OutcomeBacked
  <2>7. QED
    BY <2>4, <2>5, <2>6 DEF Backing
<1>4. CASE Signal(c)
  <2>1. \A r \in Requests : Issued(r)' = Issued(r)
    BY <1>4, IssuedSame DEF Signal, Applied, TimedOut, TypeOK
  <2>2. c \in Deciders(target[c])
    BY <1>4 DEF Signal, Deciders
  <2>3. status[target[c]] # "PENDING"
    <3>1. verdict[c] \in Issued(target[c])
      BY <2>2 DEF Issued
    <3>2. QED
      BY <3>1 DEF Backing, StatusBacked, TypeOK
  <2>4. /\ event' = [event EXCEPT ![target[c]] = TRUE]
        /\ UNCHANGED <<status, waiter, pipe, outcome>>
    BY <1>4 DEF Signal
  <2>5. DoneMeansDecided'
    BY <2>3, <2>4 DEF Backing, DoneMeansDecided, TypeOK
  <2>6. QED
    BY <2>1, <2>4, <2>5 DEF Backing, StatusBacked, AppliedMeansFinished, OutcomeBacked
<1>5. CASE Reply(c)
  BY <1>5, QuietKeepsBacking DEF Reply, Applied, TypeOK
<1>6. QED
  BY <1>1, <1>2, <1>3, <1>4, <1>5 DEF Resolve, Answer

(* A waiter that moves without marking a timeout, and is done only if its  *)
(* request is decided.                                                     *)
LEMMA MoveKeepsBacking ==
  ASSUME TypeOK, TypeOK', Backing, NEW r \in Requests, NEW to,
         waiter' = [waiter EXCEPT ![r] = to], ~TimedOut(r), waiter[r] \notin Finished,
         to \notin {"stamping", "timedOut"}, to \in Finished => status[r] # "PENDING",
         UNCHANGED <<status, event, pipe, outcome, pc, target, verdict>>
  PROVE  Backing'
<1>1. \A q \in Requests : Issued(q)' = Issued(q)
  BY IssuedSame DEF TimedOut, TypeOK
<1>2. \A q \in Requests : waiter[q] \in Finished => waiter'[q] \in Finished
  BY DEF TypeOK
<1>3. DoneMeansDecided'
  BY DEF Backing, DoneMeansDecided, TypeOK
<1>4. QED
  BY <1>1, <1>2, <1>3 DEF Backing, StatusBacked, AppliedMeansFinished, OutcomeBacked

LEMMA WaiterKeepsBacking ==
  ASSUME TypeOK, TypeOK', Backing, NEW r \in Requests, Waiting(r)
  PROVE  Backing'
<1> USE DEF WaiterAt, callVars
<1>1. ASSUME NEW to, WaiterAt(r, {"registered", "timed", "lapsed", "forever"}, to), UNCHANGED status,
             to \in {"timed", "lapsed", "forever", "crashed", "marking", "woken", "overtaken"},
             to \in {"woken", "overtaken"} => status[r] # "PENDING"
      PROVE  Backing'
  BY <1>1, MoveKeepsBacking DEF TimedOut, Finished
<1>2. CASE StartWait(r)
  <2>1. PICK to : /\ WaiterAt(r, {"registered"}, to)
                  /\ to \in {"timed", "lapsed", "forever", "crashed"}
    BY <1>2 DEF StartWait, TypeOK, Timeouts
  <2>2. QED
    BY <1>2, <2>1, <1>1 DEF StartWait
<1>3. CASE Wake(r)
  <2>1. status[r] # "PENDING"
    BY <1>3 DEF Wake, Backing, DoneMeansDecided
  <2>2. QED
    BY <1>3, <2>1, <1>1 DEF Wake
<1>4. CASE Expire(r)
  <2>1. CASE status[r] = "PENDING"
    BY <1>4, <2>1, <1>1 DEF Expire
  <2>2. CASE status[r] # "PENDING"
    BY <1>4, <2>2, <1>1 DEF Expire
  <2>3. QED
    BY <2>1, <2>2
<1>5. CASE MarkTimedOut(r)
  <2>1. \A q \in Requests :
          Issued(q)' = IF q = r THEN Issued(q) \cup {"timeout"} ELSE Issued(q)
    BY <1>5, MarkIssues
  <2>2. /\ status' = [status EXCEPT ![r] = "TIMED_OUT"]
        /\ waiter' = [waiter EXCEPT ![r] = "stamping"] /\ waiter[r] = "marking"
        /\ UNCHANGED <<event, pipe, outcome>>
    BY <1>5 DEF MarkTimedOut
  <2>3. StatusBacked'
    <3>1. ASSUME NEW q \in Requests, q # r PROVE status'[q] = status[q] /\ Issued(q)' = Issued(q)
      BY <2>1, <2>2, <3>1 DEF TypeOK
    <3>2. status'[r] = "TIMED_OUT" /\ "timeout" \in Issued(r)'
      BY <2>1, <2>2 DEF TypeOK
    <3>3. QED
      BY <3>1, <3>2 DEF Backing, StatusBacked
  <2>4. DoneMeansDecided' /\ AppliedMeansFinished'
    BY <2>2 DEF Backing, DoneMeansDecided, AppliedMeansFinished, TypeOK, Finished
  <2>5. OutcomeBacked'
    BY <2>1, <2>2 DEF Backing, OutcomeBacked
  <2>6. QED
    BY <2>3, <2>4, <2>5 DEF Backing
<1>6. CASE Stamp(r)
  <2>1. \A q \in Requests : Issued(q)' = Issued(q)
    BY <1>6, IssuedSame DEF Stamp, TimedOut, TypeOK
  <2>2. status[r] # "PENDING"
    BY <1>6 DEF Stamp, Backing, StatusBacked, Issued, TimedOut
  <2>3. /\ waiter' = [waiter EXCEPT ![r] = "timedOut"]
        /\ UNCHANGED <<status, event, pipe, outcome>>
    BY <1>6 DEF Stamp
  <2>4. QED
    BY <2>1, <2>2, <2>3 DEF Backing, StatusBacked, DoneMeansDecided, AppliedMeansFinished,
                            OutcomeBacked, TypeOK, Finished
<1>7. QED
  BY <1>2, <1>3, <1>4, <1>5, <1>6 DEF Waiting

LEMMA PipelineKeepsBacking ==
  ASSUME TypeOK, TypeOK', Backing, Pipeline
  PROVE  Backing'
<1> USE DEF PipeAt, Broadcast, Broadcasted, OutcomeAt, callVars, requestVars
<1>1. ASSUME NEW r \in Requests, Register(r) PROVE Backing'
  <2>1. waiter[r] = "unborn" /\ waiter' = [waiter EXCEPT ![r] = "registered"]
    BY <1>1 DEF Register
  <2>2. \A q \in Requests : Issued(q)' = Issued(q)
    BY <1>1, <2>1, IssuedSame DEF Register, TimedOut, TypeOK
  <2>3. pipe \in {"planning", "registering"} /\ pipe' = "registering"
    BY <1>1 DEF Register
  <2>4. UNCHANGED <<status, event, outcome>>
    BY <1>1 DEF Register
  <2>5. DoneMeansDecided'
    BY <2>1, <2>4 DEF Backing, DoneMeansDecided, TypeOK, Finished
  <2>6. AppliedMeansFinished'
    BY <2>3, <2>4 DEF Backing, AppliedMeansFinished
  <2>7. QED
    BY <2>2, <2>4, <2>5, <2>6 DEF Backing, StatusBacked, OutcomeBacked
<1>2. ASSUME UNCHANGED <<status, event, waiter, outcome, pc, target, verdict>>,
             pipe' \in {"returning", "applying", "done"} => \A r \in Requests : waiter[r] \in Finished,
             pipe \in {"applying", "done"} => pipe' = "done"
      PROVE  Backing'
  <2>1. \A r \in Requests : Issued(r)' = Issued(r)
    BY <1>2, IssuedSame DEF TimedOut
  <2>2. QED
    BY <1>2, <2>1 DEF Backing, StatusBacked, DoneMeansDecided, AppliedMeansFinished, OutcomeBacked
<1>3. ASSUME NEW r \in Requests, NEW o, outcome' = [outcome EXCEPT ![r] = o], pipe = "applying",
             UNCHANGED <<status, event, waiter, pipe, pc, target, verdict>>,
             /\ o = "executed" => "approve" \in Issued(r)
             /\ o = "rejected" => "reject" \in Issued(r)
             /\ o \in {"unsure", "timedOut"} => Issued(r) \cap {"reject", "timeout"} # {}
             /\ o = "timedOut" => Issued(r) # {"reject"}
      PROVE  Backing'
  <2>1. \A q \in Requests : Issued(q)' = Issued(q)
    BY <1>3, IssuedSame DEF TimedOut
  <2>2. AppliedMeansFinished' /\ StatusBacked' /\ DoneMeansDecided'
    BY <1>3, <2>1 DEF Backing, StatusBacked, DoneMeansDecided, AppliedMeansFinished
  <2>3. \A q \in Requests : q # r => outcome'[q] = outcome[q]
    BY <1>3 DEF TypeOK
  <2>4. outcome'[r] = o
    BY <1>3 DEF TypeOK
  <2>5. OutcomeBacked'
    BY <1>3, <2>1, <2>3, <2>4 DEF Backing, OutcomeBacked
  <2>6. QED
    BY <2>2, <2>5 DEF Backing
<1>4. ASSUME pipe = "applying" PROVE \A r \in Requests : status[r] # "PENDING"
  BY <1>4 DEF Backing, AppliedMeansFinished, DoneMeansDecided
<1>5. ASSUME NEW r \in Requests, ApplyApproved(r) PROVE Backing'
  <2>1. CASE status[r] = "APPROVED"
    BY <1>3, <1>5, <2>1 DEF ApplyApproved, Backing, StatusBacked
  <2>2. CASE status[r] # "APPROVED"
    <3>1. Issued(r) \cap {"reject", "timeout"} # {}
      BY <1>4, <1>5, <2>2 DEF ApplyApproved, Backing, StatusBacked, TypeOK, Statuses
    <3>2. QED
      BY <1>3, <1>5, <2>2, <3>1 DEF ApplyApproved
  <2>3. QED
    BY <2>1, <2>2
<1>6. ASSUME NEW r \in Requests, ApplyOther(r) PROVE Backing'
  <2>1. Issued(r) \cap {"reject", "timeout"} # {}
    BY <1>6 DEF ApplyOther, Backing, OutcomeBacked
  <2>2. CASE status[r] = "REJECTED"
    BY <1>3, <1>6, <2>2 DEF ApplyOther, Backing, StatusBacked
  <2>3. CASE status[r] # "REJECTED"
    <3>1. Issued(r) # {"reject"}
      BY <1>4, <1>6, <2>3 DEF ApplyOther, Backing, StatusBacked, TypeOK, Statuses
    <3>2. QED
      BY <1>3, <1>6, <2>1, <2>3, <3>1 DEF ApplyOther
  <2>4. QED
    BY <2>2, <2>3
<1>7. CASE Announce
  BY <1>2, <1>7 DEF Announce
<1>8. CASE Gather
  BY <1>2, <1>8 DEF Gather
<1>9. CASE GatherFails
  BY <1>2, <1>9 DEF GatherFails
<1>10. CASE Collect
  BY <1>2, <1>10 DEF Collect
<1>11. CASE Return
  BY <1>2, <1>11 DEF Return, Backing, AppliedMeansFinished
<1>12. CASE Finish
  BY <1>2, <1>12 DEF Finish, Backing, AppliedMeansFinished
<1>13. QED
  BY <1>1, <1>5, <1>6, <1>7, <1>8, <1>9, <1>10, <1>11, <1>12 DEF Pipeline

LEMMA StepBacked == TypeOK /\ TypeOK' /\ Backing /\ [Next]_vars => Backing'
<1> SUFFICES ASSUME TypeOK, TypeOK', Backing, [Next]_vars PROVE Backing'
  OBVIOUS
<1>1. CASE Reset
  BY <1>1, QuietKeepsBacking DEF Reset, requestVars, callVars
<1>2. CASE PatchTimeout
  BY <1>2, QuietKeepsBacking DEF PatchTimeout, requestVars, taskVars, callVars
<1>3. CASE UNCHANGED vars
  BY <1>3, QuietKeepsBacking DEF vars, requestVars, taskVars, callVars
<1>4. QED
  BY <1>1, <1>2, <1>3, CallerKeepsBacking, WaiterKeepsBacking, PipelineKeepsBacking DEF Next

(* The inductive invariant.                                                *)
THEOREM Invariance == Spec => []IInv
<1>1. Init => IInv
  BY InitTyped, InitBacked DEF IInv
<1>2. IInv /\ [Next]_vars => IInv'
  BY StepTyped, StepBacked DEF IInv
<1>3. QED
  BY <1>1, <1>2, PTL DEF Spec

(* Whatever threads, resets and timeouts do, the apply loop never meets an *)
(* undecided request (store.py:328-330, pipeline.py:241-255).              *)
THEOREM GatheredDecided == Spec => []GatheredMeansDecided
<1>1. IInv => GatheredMeansDecided
  BY DEF IInv, Backing, AppliedMeansFinished, DoneMeansDecided, GatheredMeansDecided
<1>2. QED
  BY <1>1, Invariance, PTL

(* A verdict nobody contradicted is what happens to the action and what    *)
(* the timeline says of it.                                                *)
THEOREM LoneVerdict == Spec => []LoneVerdictHonoured
<1>1. IInv => LoneVerdictHonoured
  <2> SUFFICES ASSUME TypeOK, OutcomeBacked, NEW r \in Requests,
                      outcome[r] \notin {"open", "unsure"}
               PROVE  /\ Issued(r) = {"approve"} => outcome[r] = "executed"
                      /\ Issued(r) = {"reject"}  => outcome[r] = "rejected"
                      /\ Issued(r) = {"timeout"} => outcome[r] = "timedOut"
    BY DEF IInv, Backing, LoneVerdictHonoured
  <2>1. outcome[r] \in {"executed", "rejected", "timedOut"}
    BY DEF TypeOK
  <2>2. QED
    BY <2>1 DEF OutcomeBacked
<1>2. QED
  BY <1>1, Invariance, PTL
-----------------------------------------------------------------------------
(* Who is credited: a caller that decided_by names has decided, "system"   *)
(* stands there only for a waiter that stamped, and whoever got past that  *)
(* write leaves a name.                                                    *)
CreditBacked ==
  \A r \in Requests :
    /\ decidedBy[r] \in Callers => decidedBy[r] \in Deciders(r)
    /\ decidedBy[r] = "system" => waiter[r] = "timedOut"
    /\ (\E c \in Deciders(r) : pc[c] # "decided") \/ waiter[r] = "timedOut"
         => decidedBy[r] # "nobody"

(* The timeline lists the requests whose waiter is done, each once.        *)
HistoryOfFinished ==
  /\ \A i, j \in DOMAIN history : history[i] = history[j] => i = j
  /\ \A i \in DOMAIN history : waiter[history[i]] \in Finished
  /\ \A r \in Requests : waiter[r] \in Finished => \E i \in DOMAIN history : history[i] = r

Records == CreditBacked /\ HistoryOfFinished

LEMMA InitRecords == Init => Records
  BY GateAssumption DEF Init, Records, CreditBacked, HistoryOfFinished, Deciders, Finished

LEMMA CreditKept ==
  ASSUME TypeOK, TypeOK', CreditBacked, UNCHANGED <<decidedBy, target>>,
         \A c \in Callers : Applied(pc[c]) => Applied(pc'[c]),
         \A c \in Callers : pc'[c] \in {"signalled", "accepted"} => pc[c] \in {"signalled", "accepted"},
         \A r \in Requests : waiter'[r] = "timedOut" <=> waiter[r] = "timedOut"
  PROVE  CreditBacked'
<1>1. \A r \in Requests : Deciders(r) \subseteq Deciders(r)'
  BY DEF Deciders, Applied
<1>2. \A r \in Requests : \A c \in Deciders(r)' : pc'[c] # "decided" => c \in Deciders(r) /\ pc[c] # "decided"
  BY DEF Deciders
<1>3. QED
  BY <1>1, <1>2 DEF CreditBacked

LEMMA SignalCredits ==
  ASSUME TypeOK, TypeOK', CreditBacked, NEW c \in Callers, Signal(c)
  PROVE  CreditBacked'
<1> DEFINE q == target[c]
<1>1. /\ pc[c] = "decided" /\ pc' = [pc EXCEPT ![c] = "signalled"]
      /\ decidedBy' = [decidedBy EXCEPT ![q] = c] /\ UNCHANGED <<target, waiter>>
  BY DEF Signal, CallerAt, CallerOnly, taskVars
<1>2. q \in Requests
  BY DEF TypeOK
<1>3. \A r \in Requests : Deciders(r)' = Deciders(r)
  BY <1>1 DEF Deciders, TypeOK
<1>4. c \in Deciders(q)'
  BY <1>1 DEF Deciders, TypeOK
<1>5. decidedBy'[q] = c /\ c # "system" /\ c # "nobody"
  BY <1>1, <1>2, GateAssumption DEF TypeOK
<1>6. \A r \in Requests : r # q => decidedBy'[r] = decidedBy[r]
  BY <1>1 DEF TypeOK
<1>7. \A r \in Requests : r # q => \A d \in Deciders(r)' : d \in Deciders(r) /\ pc'[d] = pc[d]
  BY <1>1, <1>3 DEF Deciders, TypeOK
<1>8. QED
  BY <1>1, <1>3, <1>4, <1>5, <1>6, <1>7 DEF CreditBacked

LEMMA StampCredits ==
  ASSUME TypeOK, TypeOK', CreditBacked, NEW r \in Requests, Stamp(r)
  PROVE  CreditBacked'
<1>1. /\ waiter[r] = "stamping" /\ waiter' = [waiter EXCEPT ![r] = "timedOut"]
      /\ decidedBy' = [decidedBy EXCEPT ![r] = "system"] /\ UNCHANGED <<pc, target>>
  BY DEF Stamp, WaiterAt, callVars
<1>2. \A q \in Requests : Deciders(q)' = Deciders(q)
  BY <1>1 DEF Deciders
<1>3. waiter'[r] = "timedOut" /\ decidedBy'[r] = "system" /\ "system" \notin Callers
  BY <1>1, GateAssumption DEF TypeOK
<1>4. \A q \in Requests : q # r => decidedBy'[q] = decidedBy[q] /\ waiter'[q] = waiter[q]
  BY <1>1 DEF TypeOK
<1>5. QED
  BY <1>1, <1>2, <1>3, <1>4 DEF CreditBacked

LEMMA HistoryKept ==
  ASSUME HistoryOfFinished, UNCHANGED history, TypeOK,
         \A r \in Requests : waiter'[r] \in Finished <=> waiter[r] \in Finished
  PROVE  HistoryOfFinished'
<1>1. \A i \in DOMAIN history : history[i] \in Requests
  BY DEF TypeOK
<1>2. QED
  BY <1>1 DEF HistoryOfFinished

LEMMA HistoryGrows ==
  ASSUME HistoryOfFinished, TypeOK, NEW r \in Requests, NEW to \in Finished,
         waiter[r] \notin Finished, waiter' = [waiter EXCEPT ![r] = to],
         history' = Append(history, r)
  PROVE  HistoryOfFinished'
<1> DEFINE n == Len(history) + 1
<1>1. n \in Nat /\ n \notin DOMAIN history /\ DOMAIN history' = DOMAIN history \cup {n}
  BY DEF TypeOK
<1>2. history'[n] = r /\ \A i \in DOMAIN history : history'[i] = history[i]
  BY DEF TypeOK
<1>3. \A i \in DOMAIN history : history[i] \in Requests /\ history[i] # r
  BY DEF TypeOK, HistoryOfFinished
<1>4. waiter'[r] \in Finished /\ \A q \in Requests : q # r => waiter'[q] = waiter[q]
  BY DEF TypeOK
<1> HIDE DEF n
<1>5. QED
  BY <1>1, <1>2, <1>3, <1>4 DEF HistoryOfFinished

LEMMA CallerKeepsRecords ==
  ASSUME TypeOK, TypeOK', Records, NEW c \in Callers, Resolve(c)
  PROVE  Records'
<1>1. UNCHANGED <<history, waiter, target>>
  BY DEF Resolve, Answer, Lookup, Check, Decide, Signal, Reply, CallerOnly, taskVars
<1>2. HistoryOfFinished'
  BY <1>1, HistoryKept DEF Records
<1>3. CreditBacked'
  <2>1. CASE Signal(c)
    BY <2>1, SignalCredits DEF Records
  <2>2. CASE Lookup(c) \/ Check(c) \/ Decide(c) \/ Reply(c)
    <3>1. UNCHANGED decidedBy
      BY <2>2 DEF Lookup, Check, Decide, Reply, requestVars
    <3>2. PICK from, to : /\ CallerAt(c, from, to)
                          /\ Applied(from) => Applied(to)
                          /\ to \in {"signalled", "accepted"} => from = "signalled"
      BY <2>2 DEF Lookup, Check, Decide, Reply, Applied
    <3>3. pc[c] = from /\ pc' = [pc EXCEPT ![c] = to]
      BY <3>2 DEF CallerAt
    <3>4. \A d \in Callers : Applied(pc[d]) => Applied(pc'[d])
      BY <3>2, <3>3 DEF TypeOK
    <3>5. \A d \in Callers : pc'[d] \in {"signalled", "accepted"} => pc[d] \in {"signalled", "accepted"}
      BY <3>2, <3>3 DEF TypeOK
    <3>6. QED
      BY <1>1, <3>1, <3>4, <3>5, CreditKept DEF Records
  <2>3. QED
    BY <2>1, <2>2 DEF Resolve, Answer
<1>4. QED
  BY <1>2, <1>3 DEF Records

LEMMA WaiterKeepsRecords ==
  ASSUME TypeOK, TypeOK', Records, NEW r \in Requests, Waiting(r)
  PROVE  Records'
<1> USE DEF WaiterAt, callVars
<1>1. ASSUME NEW to, waiter' = [waiter EXCEPT ![r] = to],
             UNCHANGED <<decidedBy, target, pc>>, to # "timedOut", waiter[r] # "timedOut"
      PROVE  CreditBacked'
  <2>1. \A q \in Requests : waiter'[q] = "timedOut" <=> waiter[q] = "timedOut"
    BY <1>1 DEF TypeOK
  <2>2. QED
    BY <1>1, <2>1, CreditKept DEF Records
<1>2. ASSUME NEW to, waiter' = [waiter EXCEPT ![r] = to], UNCHANGED history,
             to \notin Finished, waiter[r] \notin Finished
      PROVE  HistoryOfFinished'
  <2>1. \A q \in Requests : waiter'[q] \in Finished <=> waiter[q] \in Finished
    BY <1>2 DEF TypeOK
  <2>2. QED
    BY <1>2, <2>1, HistoryKept DEF Records
<1>3. CASE StartWait(r)
  <2>1. PICK to : /\ WaiterAt(r, {"registered"}, to)
                  /\ to \in {"timed", "lapsed", "forever", "crashed"}
    BY <1>3 DEF StartWait, TypeOK, Timeouts
  <2>2. QED
    BY <1>3, <2>1, <1>1, <1>2 DEF StartWait, Records, Finished
<1>4. CASE Wake(r)
  <2>1. /\ waiter[r] \in {"timed", "forever"} /\ waiter' = [waiter EXCEPT ![r] = "woken"]
        /\ history' = Append(history, r) /\ UNCHANGED <<decidedBy, target, pc>>
    BY <1>4 DEF Wake
  <2>2. QED
    BY <2>1, <1>1, HistoryGrows DEF Records, Finished
<1>5. CASE Expire(r)
  <2>1. CASE status[r] = "PENDING"
    <3>1. /\ waiter[r] \in {"timed", "lapsed"} /\ waiter' = [waiter EXCEPT ![r] = "marking"]
          /\ UNCHANGED <<history, decidedBy, target, pc>>
      BY <1>5, <2>1 DEF Expire
    <3>2. QED
      BY <3>1, <1>1, <1>2 DEF Records, Finished
  <2>2. CASE status[r] # "PENDING"
    <3>1. /\ waiter[r] \in {"timed", "lapsed"} /\ waiter' = [waiter EXCEPT ![r] = "overtaken"]
          /\ history' = Append(history, r) /\ UNCHANGED <<decidedBy, target, pc>>
      BY <1>5, <2>2 DEF Expire
    <3>2. QED
      BY <3>1, <1>1, HistoryGrows DEF Records, Finished
  <2>3. QED
    BY <2>1, <2>2
<1>6. CASE MarkTimedOut(r)
  <2>1. /\ waiter[r] = "marking" /\ waiter' = [waiter EXCEPT ![r] = "stamping"]
        /\ UNCHANGED <<history, decidedBy, target, pc>>
    BY <1>6 DEF MarkTimedOut
  <2>2. QED
    BY <2>1, <1>1, <1>2 DEF Records, Finished
<1>7. CASE Stamp(r)
  <2>1. /\ waiter[r] = "stamping" /\ waiter' = [waiter EXCEPT ![r] = "timedOut"]
        /\ history' = Append(history, r)
    BY <1>7 DEF Stamp
  <2>2. QED
    BY <1>7, <2>1, StampCredits, HistoryGrows DEF Records, Finished
<1>8. QED
  BY <1>3, <1>4, <1>5, <1>6, <1>7 DEF Waiting

LEMMA StepRecords == TypeOK /\ TypeOK' /\ Records /\ [Next]_vars => Records'
<1> SUFFICES ASSUME TypeOK, TypeOK', Records, [Next]_vars PROVE Records'
  OBVIOUS
<1>1. ASSUME UNCHANGED <<history, waiter, decidedBy, target, pc>> PROVE Records'
  BY <1>1, CreditKept, HistoryKept DEF Records
<1>2. ASSUME NEW r \in Requests, Register(r) PROVE Records'
  <2>1. /\ waiter[r] = "unborn" /\ waiter' = [waiter EXCEPT ![r] = "registered"]
        /\ UNCHANGED <<history, decidedBy, target, pc>>
    BY <1>2 DEF Register, requestVars, callVars
  <2>2. \A q \in Requests : /\ waiter'[q] = "timedOut" <=> waiter[q] = "timedOut"
                            /\ waiter'[q] \in Finished <=> waiter[q] \in Finished
    BY <2>1 DEF TypeOK, Finished
  <2>3. QED
    BY <2>1, <2>2, CreditKept, HistoryKept DEF Records
<1>3. ASSUME NEW r \in Requests, ApplyApproved(r) \/ ApplyOther(r) PROVE Records'
  BY <1>1, <1>3 DEF ApplyApproved, ApplyOther, OutcomeAt, requestVars, callVars
<1>4. CASE Announce \/ Gather \/ GatherFails \/ Collect \/ Return \/ Finish
  BY <1>1, <1>4 DEF Announce, Gather, GatherFails, Collect, Return, Finish, Broadcast, Broadcasted,
                    requestVars, callVars
<1>5. CASE Reset \/ PatchTimeout \/ UNCHANGED vars
  BY <1>1, <1>5 DEF Reset, PatchTimeout, vars, requestVars, taskVars, callVars
<1>6. QED
  BY <1>2, <1>3, <1>4, <1>5, CallerKeepsRecords, WaiterKeepsRecords DEF Next, Pipeline

(* Who decided and what was decided when are on record, in every state.    *)
LEMMA RecordsHold == Spec => []Records
<1>1. Records /\ IInv /\ IInv' /\ [Next]_vars => Records'
  BY StepRecords DEF IInv
<1>2. QED
  BY <1>1, InitRecords, Invariance, PTL DEF Spec

(* The audit trail's decided_by names whoever was the only one to decide,  *)
(* a caller or the timeout (store.py:324, 363).                            *)
THEOREM DeciderCredited == Spec => []SoleDeciderCredited
<1>1. ASSUME TypeOK, CreditBacked PROVE SoleDeciderCredited
  <2> SUFFICES ASSUME NEW r \in Requests
               PROVE  /\ \A c \in Callers : Deciders(r) = {c} /\ ~TimedOut(r) /\ pc[c] # "decided"
                                               => decidedBy[r] = c
                      /\ Deciders(r) = {} /\ waiter[r] = "timedOut" => decidedBy[r] = "system"
    BY DEF SoleDeciderCredited
  <2>1. decidedBy[r] \in Callers \/ decidedBy[r] = "system" \/ decidedBy[r] = "nobody"
    BY <1>1 DEF TypeOK
  <2>2. /\ decidedBy[r] \in Callers => decidedBy[r] \in Deciders(r)
        /\ decidedBy[r] = "system" => waiter[r] = "timedOut"
        /\ (\E c \in Deciders(r) : pc[c] # "decided") \/ waiter[r] = "timedOut"
             => decidedBy[r] # "nobody"
    BY <1>1 DEF CreditBacked
  <2>3. QED
    BY <2>1, <2>2 DEF TimedOut
<1>2. IInv /\ Records => SoleDeciderCredited
  BY <1>1 DEF IInv, Records
<1>3. QED
  BY <1>2, Invariance, RecordsHold, PTL

(* hitl_history lists every request exactly once when the apply loop       *)
(* starts, and only decided ones ever (store.py:325).                      *)
THEOREM HistoryComplete == Spec => []HistoryExact
<1>1. IInv /\ Records => HistoryExact
  BY DEF IInv, TypeOK, Backing, DoneMeansDecided, AppliedMeansFinished,
         Records, HistoryOfFinished, HistoryExact
<1>2. QED
  BY <1>1, Invariance, RecordsHold, PTL
-----------------------------------------------------------------------------
(* Refinement: Decide and MarkTimedOut issue, ApplyApproved executes,      *)
(* ApplyOther withholds, and every other step stutters.                    *)

LEMMA Stutters ==
  ASSUME \A r \in Requests : Issued(r)' = Issued(r), \A r \in Requests : Fate(r)' = Fate(r)
  PROVE  [Contract!Next]_(Contract!gateVars)
  BY DEF Contract!gateVars

LEMMA Issues ==
  ASSUME NEW r \in Requests, NEW v \in {"approve", "reject", "timeout"},
         \A q \in Requests : Issued(q)' = IF q = r THEN Issued(q) \cup {v} ELSE Issued(q),
         \A q \in Requests : Fate(q)' = Fate(q)
  PROVE  Contract!Next
<1>1. Contract!Issue(r, v)
  BY DEF Contract!Issue
<1>2. QED
  BY <1>1 DEF Contract!Next, Contract!Verdicts

LEMMA Settles ==
  ASSUME NEW r \in Requests, Fate(r) = "open",
         \/ Fate(r)' = "executed" /\ "approve" \in Issued(r)
         \/ Fate(r)' = "withheld" /\ Issued(r) \cap {"reject", "timeout"} # {},
         \A q \in Requests : q # r => Fate(q)' = Fate(q),
         \A q \in Requests : Issued(q)' = Issued(q)
  PROVE  Contract!Next
<1>1. CASE Fate(r)' = "executed" /\ "approve" \in Issued(r)
  <2>1. Contract!Execute(r)
    BY <1>1 DEF Contract!Execute, Contract!Settle
  <2>2. QED
    BY <2>1 DEF Contract!Next
<1>2. CASE Fate(r)' = "withheld" /\ Issued(r) \cap {"reject", "timeout"} # {}
  <2>1. Contract!Withhold(r)
    BY <1>2 DEF Contract!Withhold, Contract!Settle
  <2>2. QED
    BY <2>1 DEF Contract!Next
<1>3. QED
  BY <1>1, <1>2

LEMMA StepRefines == IInv /\ TypeOK' /\ [Next]_vars => [Contract!Next]_(Contract!gateVars)
<1> SUFFICES ASSUME TypeOK, TypeOK', StatusBacked, OutcomeBacked, [Next]_vars
             PROVE  [Contract!Next]_(Contract!gateVars)
  BY DEF IInv, Backing
<1>1. ASSUME UNCHANGED <<outcome, target, verdict>>, \A c \in Callers : Applied(pc[c])' <=> Applied(pc[c]),
             \A r \in Requests : TimedOut(r)' <=> TimedOut(r)
      PROVE  [Contract!Next]_(Contract!gateVars)
  BY <1>1, IssuedSame, Stutters DEF Fate
<1>2. ASSUME NEW c \in Callers, Resolve(c) PROVE [Contract!Next]_(Contract!gateVars)
  <2> USE DEF CallerAt, CallerOnly, taskVars
  <2>1. CASE Decide(c)
    <3>1. PICK q \in Requests, v \in {"approve", "reject"} : q = target[c] /\ v = verdict[c]
      BY DEF TypeOK
    <3>2. \A r \in Requests : Issued(r)' = IF r = q THEN Issued(r) \cup {v} ELSE Issued(r)
      BY <2>1, <3>1, DecideIssues
    <3>3. \A r \in Requests : Fate(r)' = Fate(r)
      BY <2>1 DEF Decide, Fate
    <3>4. QED
      BY <3>2, <3>3, Issues
  <2>2. CASE Lookup(c) \/ Check(c) \/ Signal(c) \/ Reply(c)
    BY <2>2, <1>1 DEF Lookup, Check, Signal, Reply, Applied, TimedOut, TypeOK
  <2>3. QED
    BY <1>2, <2>1, <2>2 DEF Resolve, Answer
<1>3. ASSUME NEW r \in Requests, Waiting(r) PROVE [Contract!Next]_(Contract!gateVars)
  <2> USE DEF WaiterAt, callVars
  <2>1. CASE MarkTimedOut(r)
    <3>1. \A q \in Requests : Issued(q)' = IF q = r THEN Issued(q) \cup {"timeout"} ELSE Issued(q)
      BY <2>1, MarkIssues
    <3>2. \A q \in Requests : Fate(q)' = Fate(q)
      BY <2>1 DEF MarkTimedOut, Fate
    <3>3. QED
      BY <3>1, <3>2, Issues
  <2>2. ASSUME NEW from, NEW to, WaiterAt(r, from, to), TimedOut(r) <=> to \in {"stamping", "timedOut"}
        PROVE  [Contract!Next]_(Contract!gateVars)
    BY <2>2, <1>1 DEF TimedOut, TypeOK
  <2>3. CASE StartWait(r)
    <3>1. PICK to : /\ WaiterAt(r, {"registered"}, to)
                    /\ to \in {"timed", "lapsed", "forever", "crashed"}
      BY <2>3 DEF StartWait, TypeOK, Timeouts
    <3>2. QED
      BY <3>1, <2>2 DEF TimedOut
  <2>4. CASE Wake(r)
    BY <2>4, <2>2 DEF Wake, TimedOut
  <2>5. CASE Expire(r)
    BY <2>5, <2>2 DEF Expire, TimedOut
  <2>6. CASE Stamp(r)
    BY <2>6, <2>2 DEF Stamp, TimedOut
  <2>7. QED
    BY <1>3, <2>1, <2>3, <2>4, <2>5, <2>6 DEF Waiting
<1>4. ASSUME NEW r \in Requests, NEW o, outcome' = [outcome EXCEPT ![r] = o],
             UNCHANGED <<waiter, callVars>>
      PROVE  /\ \A q \in Requests : Issued(q)' = Issued(q)
             /\ \A q \in Requests : q # r => Fate(q)' = Fate(q)
             /\ outcome'[r] = o
  BY <1>4, IssuedSame DEF Fate, TimedOut, callVars, TypeOK
<1>5. ASSUME NEW r \in Requests, ApplyApproved(r) PROVE [Contract!Next]_(Contract!gateVars)
  <2>1. CASE status[r] = "APPROVED"
    <3>1. outcome[r] = "open" /\ "approve" \in Issued(r)
      BY <1>5, <2>1 DEF ApplyApproved, OutcomeAt, StatusBacked
    <3>2. outcome' = [outcome EXCEPT ![r] = "executed"] /\ UNCHANGED <<waiter, callVars>>
      BY <1>5, <2>1 DEF ApplyApproved, OutcomeAt
    <3>3. Fate(r) = "open" /\ Fate(r)' = "executed"
      BY <3>1, <3>2, <1>4 DEF Fate
    <3>4. /\ \A q \in Requests : Issued(q)' = Issued(q)
          /\ \A q \in Requests : q # r => Fate(q)' = Fate(q)
      BY <3>2, <1>4
    <3>5. QED
      BY <3>1, <3>3, <3>4, Settles
  <2>2. CASE status[r] # "APPROVED"
    <3>1. outcome[r] = "open"
      BY <1>5 DEF ApplyApproved, OutcomeAt
    <3>2. outcome' = [outcome EXCEPT ![r] = "unsure"] /\ UNCHANGED <<waiter, callVars>>
      BY <1>5, <2>2 DEF ApplyApproved, OutcomeAt
    <3>3. Fate(r)' = Fate(r)
      BY <3>1, <3>2, <1>4 DEF Fate
    <3>4. QED
      BY <3>2, <3>3, <1>4, Stutters
  <2>3. QED
    BY <2>1, <2>2
<1>6. ASSUME NEW r \in Requests, ApplyOther(r) PROVE [Contract!Next]_(Contract!gateVars)
  <2>1. PICK o \in {"rejected", "timedOut"} : outcome' = [outcome EXCEPT ![r] = o]
    BY <1>6 DEF ApplyOther, OutcomeAt
  <2>2. outcome[r] = "unsure" /\ UNCHANGED <<waiter, callVars>>
    BY <1>6 DEF ApplyOther, OutcomeAt
  <2>3. Issued(r) \cap {"reject", "timeout"} # {}
    BY <2>2 DEF OutcomeBacked
  <2>4. Fate(r) = "open" /\ Fate(r)' = "withheld"
    BY <2>1, <2>2, <1>4 DEF Fate
  <2>5. /\ \A q \in Requests : Issued(q)' = Issued(q)
        /\ \A q \in Requests : q # r => Fate(q)' = Fate(q)
    BY <2>1, <2>2, <1>4
  <2>6. QED
    BY <2>3, <2>4, <2>5, Settles
<1>7. ASSUME NEW r \in Requests, Register(r) PROVE [Contract!Next]_(Contract!gateVars)
  BY <1>7, <1>1 DEF Register, TimedOut, TypeOK, callVars
<1>8. CASE Announce \/ Gather \/ GatherFails \/ Collect \/ Return
  BY <1>8, <1>1 DEF Announce, Gather, GatherFails, Collect, Return, Broadcast, Broadcasted,
                    TimedOut, callVars
<1>9. CASE Finish \/ Reset \/ PatchTimeout \/ UNCHANGED vars
  BY <1>9, <1>1 DEF Finish, Reset, PatchTimeout, vars, taskVars, TimedOut, callVars
<1>10. QED
  BY <1>2, <1>3, <1>5, <1>6, <1>7, <1>8, <1>9 DEF Next, Pipeline

(* The gate of the code keeps the contract of the abstract gate.           *)
THEOREM GateImplementsContract == Spec => GateContract
<1>1. Init => Contract!Init
  <2> SUFFICES ASSUME Init PROVE Contract!Init
    OBVIOUS
  <2>1. \A r \in Requests : Issued(r) = {} /\ Fate(r) = "open"
    BY DEF Init, Issued, Deciders, TimedOut, Fate
  <2>2. QED
    BY <2>1 DEF Contract!Init
<1>2. IInv /\ IInv' /\ [Next]_vars => [Contract!Next]_(Contract!gateVars)
  BY StepRefines DEF IInv
<1>3. QED
  BY <1>1, <1>2, Invariance, PTL DEF Spec, GateContract, Contract!Spec
-----------------------------------------------------------------------------
(* Remediation takes the gate for its outcome: requests are resolved one   *)
(* by one, each once, and then the verdicts are applied.  The gate here,   *)
(* with its races, is that.  A request counts as resolved when the apply   *)
(* loop takes a branch for it, since only from there on nothing overwrites *)
(* it any more; the verdict is the one of that branch.                     *)

CONSTANTS Runbook,  \* the actions, executed so far as they are safe
          Found     \* run_pipeline's list of requests, and what the
                    \* incident has by then: timeline, lists, cause, ...

Branched == \A r \in Requests : outcome[r] \notin {"open", "unsure"}

VerdictOf(o) == CASE o = "executed" -> "APPROVED"
                  [] o = "rejected" -> "REJECTED"
                  [] o = "timedOut" -> "TIMED_OUT"
                  [] OTHER          -> "PENDING"

Taken == [i \in DOMAIN Runbook |-> IF i \in Requests THEN VerdictOf(outcome[i]) ELSE "none"]

Ran == [i \in DOMAIN Runbook |-> IF Taken[i] = "APPROVED"
                                 THEN [Runbook[i] EXCEPT !.executed = TRUE] ELSE Runbook[i]]

(* What the apply loop adds to the timeline, in the order of the requests. *)
EndedAs == [APPROVED |-> "approved", REJECTED |-> "rejected", TIMED_OUT |-> "timed out"]

Told == [n \in DOMAIN Found.requests |->
           [what |-> EndedAs[Taken[Found.requests[n]]], action |-> Found.requests[n]]]

Stage == IF pipe = "done" THEN "settled" ELSE IF Branched THEN "decided" ELSE "waiting"
Actions == IF pipe = "done" THEN Ran ELSE Runbook
Timeline == IF pipe = "done" THEN Found.timeline \o Told ELSE Found.timeline

Incident == INSTANCE Remediation
  WITH Causes <- {}, Drafts <- {}, stage <- Stage, source <- Found.source, cause <- Found.cause,
       actions <- Actions, lists <- Found.lists, verdicts <- Taken, timeline <- Timeline,
       claimed <- Found.claimed, rca <- Found.rca

(* The requests are the runbook's destructive actions, asked about in the  *)
(* runbook's order.                                                        *)
OneRequestEach ==
  /\ Requests = {i \in DOMAIN Runbook : Runbook[i].destructive}
  /\ Found.requests = Incident!InOrder(Requests)

(* Where RequestApprovals leaves the incident.                             *)
Asked == Stage = "waiting" /\ Incident!Pending = Requests
           /\ Actions = Runbook /\ Timeline = Found.timeline

LEMMA PendingOpen ==
  ASSUME OneRequestEach
  PROVE  /\ Incident!Pending = {r \in Requests : VerdictOf(outcome[r]) = "PENDING"}
         /\ DOMAIN Actions = DOMAIN Runbook
         /\ Requests \subseteq DOMAIN Runbook
<1>1. DOMAIN Actions = DOMAIN Runbook
  BY DEF Actions, Ran
<1>2. Requests \subseteq DOMAIN Runbook
  BY DEF OneRequestEach
<1> QED
  BY <1>1, <1>2 DEF Incident!Pending, Taken

(* The loop takes a branch: the request is resolved with its verdict.      *)
LEMMA BranchResolves ==
  ASSUME TypeOK, OneRequestEach, pipe = "applying", pipe' = "applying",
         NEW r \in Requests, outcome[r] \in {"open", "unsure"},
         NEW o \in {"executed", "rejected", "timedOut"}, outcome' = [outcome EXCEPT ![r] = o]
  PROVE  Incident!Resolve(r)
<1>1. Stage = "waiting" /\ r \in Incident!Pending
  BY PendingOpen DEF Stage, Branched, VerdictOf
<1>2. \A q \in Requests : outcome'[q] = IF q = r THEN o ELSE outcome[q]
  BY DEF TypeOK
<1>3. VerdictOf(o) \in Incident!Statuses \ {"none", "PENDING"}
  BY DEF VerdictOf, Incident!Statuses
<1>4. Taken' = [Taken EXCEPT ![r] = VerdictOf(o)]
  <2>1. r \in DOMAIN Runbook /\ \A q \in Requests \ {r} : VerdictOf(outcome'[q]) = VerdictOf(outcome[q])
    BY <1>2, PendingOpen
  <2>2. VerdictOf(outcome'[r]) = VerdictOf(o)
    BY <1>2
  <2> QED
    BY <2>1, <2>2 DEF Taken
<1>5. Stage' = IF Incident!Pending = {r} THEN "decided" ELSE "waiting"
  <2>1. \A q \in Requests : VerdictOf(outcome[q]) = "PENDING" <=> outcome[q] \in {"open", "unsure"}
    BY DEF TypeOK, VerdictOf
  <2>2. Branched' <=> \A q \in Requests \ {r} : outcome[q] \notin {"open", "unsure"}
    BY <1>2 DEF Branched
  <2>3. Branched' <=> Incident!Pending = {r}
    BY <2>1, <2>2, PendingOpen
  <2> QED
    BY <2>3 DEF Stage
<1>6. Actions' = Actions /\ Timeline' = Timeline
  BY DEF Actions, Timeline
<1> QED
  BY <1>1, <1>3, <1>4, <1>5, <1>6 DEF Incident!Resolve

(* Until it takes a branch, and while it does not run, nothing happens.    *)
LEMMA RestStutters ==
  ASSUME pipe' = "done" <=> pipe = "done",
         \A r \in Requests : \/ outcome'[r] = outcome[r]
                             \/ outcome[r] = "open" /\ outcome'[r] = "unsure"
  PROVE  UNCHANGED <<Taken, Stage, Actions, Timeline>>
<1>1. \A r \in Requests : VerdictOf(outcome'[r]) = VerdictOf(outcome[r])
  BY DEF VerdictOf
<1>2. Taken' = Taken
  BY <1>1 DEF Taken
<1>3. Branched' <=> Branched
  BY DEF Branched
<1>4. Stage' = Stage
  BY <1>3 DEF Stage
<1>5. Actions' = Actions /\ Timeline' = Timeline
  BY <1>2 DEF Actions, Timeline, Ran, Told
<1> QED
  BY <1>2, <1>4, <1>5

(* The loop ends: the verdicts are applied.                                *)
LEMMA FinishApplies ==
  ASSUME OneRequestEach, Finish
  PROVE  Incident!ApplyVerdicts
<1>1. pipe = "applying" /\ pipe' = "done" /\ outcome' = outcome /\ Branched
  BY DEF Finish, PipeAt, Branched
<1>2. Stage = "decided" /\ Stage' = "settled"
  BY <1>1 DEF Stage
<1>3. Taken' = Taken /\ Actions = Runbook /\ Timeline = Found.timeline
  BY <1>1 DEF Taken, Actions, Timeline
<1>4. Incident!Destructive = Requests
  BY <1>3 DEF Incident!Destructive, OneRequestEach
<1>5. Actions' = [i \in DOMAIN Actions |->
                    IF Taken[i] = "APPROVED" THEN [Actions[i] EXCEPT !.executed = TRUE]
                                             ELSE Actions[i]]
  BY <1>1, <1>3 DEF Actions, Ran
<1>6. Timeline' = Timeline \o Told
  BY <1>1, <1>3 DEF Timeline, Told
<1>7. Told = LET requests == Incident!InOrder(Incident!Destructive)
             IN  [n \in DOMAIN requests |->
                    Incident!Entry(Incident!Outcome[Taken[requests[n]]], requests[n])]
  BY <1>4 DEF Told, OneRequestEach, EndedAs, Incident!Entry, Incident!Outcome
<1> QED
  BY <1>2, <1>3, <1>5, <1>6, <1>7 DEF Incident!ApplyVerdicts

LEMMA StepResolves ==
  ASSUME TypeOK, OneRequestEach, [Next]_vars
  PROVE  [(\E r \in Requests : Incident!Resolve(r)) \/ Incident!ApplyVerdicts]_(Incident!vars)
<1>1. ASSUME NEW r \in Requests, ApplyApproved(r) \/ ApplyOther(r)
      PROVE  Incident!Resolve(r) \/ UNCHANGED <<Taken, Stage, Actions, Timeline>>
  <2>1. PICK o \in {"unsure", "executed", "rejected", "timedOut"} :
          /\ outcome' = [outcome EXCEPT ![r] = o]
          /\ outcome[r] \in {"open", "unsure"}
          /\ o = "unsure" => outcome[r] = "open"
    BY <1>1 DEF ApplyApproved, ApplyOther, OutcomeAt
  <2>2. pipe = "applying" /\ pipe' = "applying"
    BY <1>1 DEF ApplyApproved, ApplyOther, OutcomeAt
  <2>3. CASE o = "unsure"
    BY <2>1, <2>2, <2>3, RestStutters DEF TypeOK
  <2>4. CASE o # "unsure"
    BY <2>1, <2>2, <2>4, BranchResolves
  <2> QED
    BY <2>3, <2>4
<1>2. ASSUME outcome' = outcome, pipe' = "done" <=> pipe = "done"
      PROVE  UNCHANGED <<Taken, Stage, Actions, Timeline>>
  BY <1>2, RestStutters
<1>3. ASSUME NEW c \in Callers, Resolve(c)
      PROVE  UNCHANGED <<Taken, Stage, Actions, Timeline>>
  BY <1>2, <1>3 DEF Resolve, Answer, Lookup, Check, Decide, Signal, Reply, CallerOnly, taskVars
<1>4. ASSUME NEW r \in Requests, Waiting(r)
      PROVE  UNCHANGED <<Taken, Stage, Actions, Timeline>>
  BY <1>2, <1>4 DEF Waiting, StartWait, Wake, Expire, MarkTimedOut, Stamp, WaiterAt
<1>5. ASSUME NEW r \in Requests, Register(r)
      PROVE  UNCHANGED <<Taken, Stage, Actions, Timeline>>
  BY <1>2, <1>5 DEF Register
<1>6. ASSUME Announce \/ Gather \/ GatherFails \/ Collect \/ Return
      PROVE  UNCHANGED <<Taken, Stage, Actions, Timeline>>
  BY <1>2, <1>6 DEF Announce, Gather, GatherFails, Collect, Return, Broadcast, Broadcasted, PipeAt
<1>7. ASSUME Reset \/ PatchTimeout \/ UNCHANGED vars
      PROVE  UNCHANGED <<Taken, Stage, Actions, Timeline>>
  BY <1>2, <1>7 DEF Reset, PatchTimeout, vars, taskVars
<1>8. CASE Finish
  BY <1>8, FinishApplies
<1>9. UNCHANGED <<Taken, Stage, Actions, Timeline>> => UNCHANGED Incident!vars
  BY DEF Incident!vars
<1>10. CASE UNCHANGED <<Taken, Stage, Actions, Timeline>>
  BY <1>9, <1>10
<1>11. CASE \E r \in Requests : Incident!Resolve(r)
  BY <1>11
<1> QED
  BY <1>1, <1>3, <1>4, <1>5, <1>6, <1>7, <1>8, <1>10, <1>11 DEF Next, Pipeline

(* For any runbook: from where its destructive actions were asked about,   *)
(* every step of the gate, races, timeouts and resets included, is for the *)
(* incident the one resolution of a request, or the application of all     *)
(* verdicts, or nothing; so what is proved of Remediation's actions and    *)
(* accounts is true with the gate of the code in the place of its outcome. *)
THEOREM GateResolves ==
  ASSUME OneRequestEach
  PROVE  Spec => /\ Asked
                 /\ [][(\E r \in Requests : Incident!Resolve(r)) \/ Incident!ApplyVerdicts]_(Incident!vars)
<1>1. Init => Asked
  <2> SUFFICES ASSUME Init PROVE Asked
    OBVIOUS
  <2>1. ~Branched /\ pipe # "done"
    BY GateAssumption DEF Init, Branched
  <2>2. Incident!Pending = Requests
    BY PendingOpen DEF Init, VerdictOf
  <2> QED
    BY <2>1, <2>2 DEF Asked, Stage, Actions, Timeline
<1>2. TypeOK /\ [Next]_vars =>
        [(\E r \in Requests : Incident!Resolve(r)) \/ Incident!ApplyVerdicts]_(Incident!vars)
  BY StepResolves
<1> QED
  BY <1>1, <1>2, TypeCorrect, PTL DEF Spec
=============================================================================
