------------------------ MODULE CircuitBreaker_proofs ------------------------
(***************************************************************************)
(* The breaker keeps its types and, as long as one success closes it (the  *)
(* only success_threshold the program uses), the promise of its docstring, *)
(* for every failure threshold and every window.                           *)
(***************************************************************************)
EXTENDS CircuitBreaker, TLAPS

(* What a read of the state property may answer.                           *)
LEMMA ReadTyped == TypeOK => StateRead \in {"CLOSED", "OPEN", "HALF_OPEN"}
  BY DEF TypeOK, StateRead

(* Every call, read of the status, second and change of the API leaves     *)
(* well-typed fields.                                                      *)
LEMMA StepTyped == ASSUME TypeOK, [Next]_vars PROVE TypeOK'
<1> USE BreakerAssumption DEF BreakerAssumption
<1>1. StateRead \in {"CLOSED", "OPEN", "HALF_OPEN"}
  BY ReadTyped
<1>2. CASE CallBlocked \/ UNCHANGED vars
  BY <1>2 DEF TypeOK, CallBlocked, vars
<1>3. CASE CallReturns
  BY <1>1, <1>3 DEF TypeOK, CallReturns, OnSuccess
<1>4. CASE CallRaises
  BY <1>1, <1>4 DEF TypeOK, CallRaises, OnFailure
<1>5. CASE Status
  BY <1>1, <1>5 DEF TypeOK, Status
<1>6. CASE Tick
  BY <1>6 DEF TypeOK, Tick
<1>7. CASE ApiChanges
  BY <1>7 DEF TypeOK, ApiChanges
<1> QED
  BY <1>2, <1>3, <1>4, <1>5, <1>6, <1>7 DEF Next

(* The breaker's fields keep their types, from its construction on.        *)
THEOREM TypeCorrect == Spec => []TypeOK
<1>1. Init => TypeOK
  BY BreakerAssumption DEF BreakerAssumption, Init, TypeOK
<1> QED
  BY <1>1, StepTyped, PTL DEF Spec

(* The counters fit the state after every step.                            *)
LEMMA StepCounts ==
  ASSUME SuccessThreshold = 1, TypeOK, CountMatchesState, [Next]_vars
  PROVE  CountMatchesState'
<1> USE BreakerAssumption DEF BreakerAssumption, CountMatchesState
<1>1. CASE CallBlocked \/ UNCHANGED vars
  BY <1>1 DEF CallBlocked, vars
<1>2. CASE CallReturns
  BY <1>2 DEF TypeOK, CallReturns, OnSuccess, StateRead
<1>3. CASE CallRaises
  BY <1>3 DEF TypeOK, CallRaises, OnFailure, StateRead
<1>4. CASE Status
  BY <1>4 DEF TypeOK, Status, StateRead
<1>5. CASE Tick \/ ApiChanges
  BY <1>5 DEF Tick, ApiChanges
<1> QED
  BY <1>1, <1>2, <1>3, <1>4, <1>5 DEF Next

(* A closed circuit is below its threshold, and one that is open or on     *)
(* trial is at it or above: _on_failure may ignore the state (line 84).    *)
THEOREM CountsFit == SuccessThreshold = 1 /\ Spec => []CountMatchesState
<1> SUFFICES ASSUME SuccessThreshold = 1 PROVE Spec => []CountMatchesState
  OBVIOUS
<1>1. Init => CountMatchesState
  BY BreakerAssumption DEF BreakerAssumption, Init, CountMatchesState
<1>2. TypeOK /\ CountMatchesState /\ [Next]_vars => CountMatchesState'
  BY StepCounts
<1> QED
  BY <1>1, <1>2, TypeCorrect, PTL DEF Spec

(* The three modes of the contract, by what a read of the state answers.   *)
LEMMA ModeOfRead ==
  ASSUME TypeOK
  PROVE  /\ StateRead = "CLOSED" <=> Mode = "closed"
         /\ StateRead = "OPEN" <=> Mode = "open"
         /\ StateRead = "HALF_OPEN" <=> Mode = "trial"
  BY ReadTyped DEF Mode

(* A step of the breaker is a step of the contract, or none.               *)
LEMMA StepImplements ==
  ASSUME SuccessThreshold = 1, TypeOK, TypeOK', CountMatchesState, [Next]_vars
  PROVE  Contract!Next \/ UNCHANGED Contract!breakerVars
<1> USE BreakerAssumption DEF BreakerAssumption
<1>1. /\ StateRead \in {"CLOSED", "OPEN", "HALF_OPEN"}
      /\ StateRead = "CLOSED" <=> Mode = "closed"
      /\ StateRead = "OPEN" <=> Mode = "open"
      /\ StateRead = "HALF_OPEN" <=> Mode = "trial"
  BY ReadTyped, ModeOfRead
<1>2. /\ StateRead' \in {"CLOSED", "OPEN", "HALF_OPEN"}
      /\ StateRead' = "CLOSED" <=> Mode' = "closed"
      /\ StateRead' = "OPEN" <=> Mode' = "open"
      /\ StateRead' = "HALF_OPEN" <=> Mode' = "trial"
  <2>1. StateRead' \in {"CLOSED", "OPEN", "HALF_OPEN"}
    BY DEF TypeOK, StateRead
  <2> QED
    BY <2>1 DEF Mode
<1>3. StateRead' = IF state' = "OPEN" /\ openFor' >= TimeoutSeconds
                   THEN "HALF_OPEN" ELSE state'
  BY DEF StateRead
<1>4. ASSUME StateRead' = StateRead, failures' = failures, openFor' = openFor
      PROVE  UNCHANGED Contract!breakerVars
  BY <1>1, <1>2, <1>4 DEF Contract!breakerVars
<1>5. CASE CallBlocked \/ UNCHANGED vars \/ ApiChanges
  <2>1. state' = state /\ failures' = failures /\ openFor' = openFor
    BY <1>5 DEF CallBlocked, ApiChanges, vars
  <2> QED
    BY <2>1, <1>3, <1>4 DEF StateRead
<1>6. CASE Status
  <2>1. StateRead' = StateRead
    BY <1>6, <1>3 DEF Status, StateRead, TypeOK
  <2> QED
    BY <2>1, <1>4, <1>6 DEF Status
<1>7. CASE CallReturns
  <2>1. /\ StateRead # "OPEN" /\ state' = "CLOSED"
        /\ failures' = 0 /\ openFor' = openFor
    BY <1>1, <1>7 DEF CallReturns, OnSuccess, TypeOK
  <2>2. Contract!Succeed
    BY <2>1, <1>1, <1>2, <1>3 DEF Contract!Succeed
  <2> QED
    BY <2>2 DEF Contract!Next
<1>8. CASE CallRaises
  <2>1. StateRead # "OPEN" /\ failures' = failures + 1
    BY <1>8 DEF CallRaises, OnFailure
  <2>2. StateRead = "HALF_OPEN" => failures >= FailureThreshold
    BY DEF CountMatchesState, StateRead, TypeOK
  <2>3. CASE failures' >= FailureThreshold
    <3>1. state' = "OPEN" /\ openFor' = 0
      BY <1>8, <2>3 DEF CallRaises, OnFailure
    <3>2. Mode' = IF TimeoutSeconds = 0 THEN "trial" ELSE "open"
      BY <3>1, <1>2, <1>3
    <3>3. Contract!Fail
      BY <2>1, <2>3, <3>1, <3>2, <1>1 DEF Contract!Fail
    <3> QED
      BY <3>3 DEF Contract!Next
  <2>4. CASE ~(failures' >= FailureThreshold)
    <3>1. state' = StateRead /\ openFor' = openFor
      BY <1>8, <2>4 DEF CallRaises, OnFailure
    <3>2. StateRead = "CLOSED"
      BY <1>1, <2>1, <2>2, <2>4 DEF TypeOK
    <3>3. Mode = "closed" /\ Mode' = "closed"
      BY <3>1, <3>2, <1>1, <1>2, <1>3
    <3>4. Contract!Fail
      BY <2>1, <2>4, <3>1, <3>3 DEF Contract!Fail
    <3> QED
      BY <3>4 DEF Contract!Next
  <2> QED
    BY <2>3, <2>4
<1>9. CASE Tick
  <2>1. /\ openFor < TimeoutSeconds /\ openFor' = openFor + 1
        /\ state' = state /\ failures' = failures
    BY <1>9 DEF Tick
  <2>2. StateRead = state
    BY <2>1 DEF StateRead, TypeOK
  <2>3. Mode' = IF Mode = "open" /\ openFor' = TimeoutSeconds THEN "trial" ELSE Mode
    BY <2>1, <2>2, <1>1, <1>2, <1>3 DEF TypeOK
  <2>4. Contract!Elapse
    BY <2>1, <2>3 DEF Contract!Elapse
  <2> QED
    BY <2>4 DEF Contract!Next
<1> QED
  BY <1>5, <1>6, <1>7, <1>8, <1>9 DEF Next

(* With one success to close it, the breaker does what its docstring says: *)
(* it refuses calls for the whole window after the threshold is reached,   *)
(* then lets one through whose result decides (circuit_breaker.py:7-10).   *)
THEOREM ImplementsDoc == SuccessThreshold = 1 /\ Spec => BreakerImplementsDoc
<1> SUFFICES ASSUME SuccessThreshold = 1 PROVE Spec => BreakerImplementsDoc
  OBVIOUS
<1>1. Init => Contract!Init
  BY DEF Init, Contract!Init, Mode, StateRead
<1>2. TypeOK /\ TypeOK' /\ CountMatchesState /\ [Next]_vars
        => [Contract!Next]_(Contract!breakerVars)
  BY StepImplements
<1>3. Spec => []CountMatchesState
  BY CountsFit
<1> QED
  BY <1>1, <1>2, <1>3, TypeCorrect, PTL DEF Spec, BreakerImplementsDoc, Contract!Spec
=============================================================================
