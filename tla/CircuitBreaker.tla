--------------------------- MODULE CircuitBreaker ---------------------------
(***************************************************************************)
(* backend/circuit_breaker.py: one agent's breaker and the LLM API it      *)
(* guards.  call() and status() run on the event loop without an await, so *)
(* each is one step.                                                       *)
(***************************************************************************)
EXTENDS Integers

CONSTANTS FailureThreshold, SuccessThreshold, TimeoutSeconds,
          MaxFailures   \* bound on the failure counter, which is unbounded in the code

ASSUME BreakerAssumption == /\ FailureThreshold \in Nat \ {0}
                            /\ SuccessThreshold \in Nat \ {0}
                            /\ TimeoutSeconds \in Nat
                            /\ MaxFailures \in Nat

VARIABLES state,      \* _state
          failures,   \* _failure_count
          successes,  \* _success_count
          openFor,    \* seconds since _opened_at, up to TimeoutSeconds
          apiUp       \* the LLM API answers

vars == <<state, failures, successes, openFor, apiUp>>

TypeOK == /\ state \in {"CLOSED", "OPEN", "HALF_OPEN"}
          /\ failures \in Nat /\ successes \in Nat
          /\ openFor \in 0..TimeoutSeconds
          /\ apiUp \in BOOLEAN

Init == /\ state = "CLOSED" /\ failures = 0 /\ successes = 0
        /\ openFor = TimeoutSeconds    \* _opened_at = 0, the epoch
        /\ apiUp \in BOOLEAN

(* The state property: reading it is what moves OPEN to HALF_OPEN.         *)
StateRead == IF state = "OPEN" /\ openFor >= TimeoutSeconds THEN "HALF_OPEN" ELSE state

(* Mutants: a success takes one failure back; a success on trial does not  *)
(* close the circuit.                                                      *)
OnSuccessTakingBack ==
  /\ failures' = failures - 1 /\ UNCHANGED <<successes, openFor>>
  /\ state' = IF StateRead = "HALF_OPEN" THEN "CLOSED" ELSE StateRead

OnSuccessNotClosing ==
  /\ failures' = 0 /\ state' = StateRead
  /\ UNCHANGED <<successes, openFor>>

(* _on_success and _on_failure, after the state was read by call().        *)
OnSuccess ==
  /\ failures' = 0 /\ UNCHANGED openFor
  /\ IF StateRead # "HALF_OPEN"
     THEN state' = StateRead /\ UNCHANGED successes
     ELSE IF successes + 1 >= SuccessThreshold
          THEN state' = "CLOSED" /\ successes' = 0
          ELSE state' = "HALF_OPEN" /\ successes' = successes + 1

(* Mutant: the window of a re-opened circuit is not restarted.             *)
OnFailureKeepingWindow ==
  /\ failures' = failures + 1 /\ UNCHANGED <<successes, openFor>>
  /\ state' = IF failures' >= FailureThreshold THEN "OPEN" ELSE StateRead

OnFailure ==
  /\ failures' = failures + 1 /\ UNCHANGED successes
  /\ IF failures' >= FailureThreshold
     THEN state' = "OPEN" /\ openFor' = 0
     ELSE state' = StateRead /\ UNCHANGED openFor

CallBlocked == /\ StateRead = "OPEN"
               /\ UNCHANGED vars

CallReturns == /\ StateRead # "OPEN" /\ apiUp
               /\ OnSuccess /\ UNCHANGED apiUp

CallRaises == /\ StateRead # "OPEN" /\ ~apiUp /\ failures < MaxFailures
              /\ OnFailure /\ UNCHANGED apiUp

Status == /\ state' = StateRead
          /\ UNCHANGED <<failures, successes, openFor, apiUp>>

(* The environment: a second passes; the API comes and goes.               *)
Tick == /\ openFor < TimeoutSeconds /\ openFor' = openFor + 1
        /\ UNCHANGED <<state, failures, successes, apiUp>>

ApiChanges == apiUp' = ~apiUp /\ UNCHANGED <<state, failures, successes, openFor>>

Next == CallBlocked \/ CallReturns \/ CallRaises \/ Status \/ Tick \/ ApiChanges

Spec == Init /\ [][Next]_vars
-----------------------------------------------------------------------------
(* An OPEN circuit whose window is over is on trial already: the code only *)
(* notices when somebody reads the state.                                  *)
Mode == CASE StateRead = "CLOSED" -> "closed"
          [] StateRead = "OPEN" -> "open"
          [] StateRead = "HALF_OPEN" -> "trial"

Contract == INSTANCE BreakerContract
  WITH Threshold <- FailureThreshold, Window <- TimeoutSeconds,
       mode <- Mode, streak <- failures, age <- openFor

(* circuit_breaker.py:7-10: FailureThreshold failures in a row open the    *)
(* circuit for TimeoutSeconds, then one call goes through, and its success *)
(* closes the circuit and its failure re-opens it.                         *)
BreakerImplementsDoc == Contract!Spec

(* Once the API is up for good the circuit closes for good, however long   *)
(* the outage was and whatever state it left the counters in.              *)
Recovers == <>[]apiUp => <>[](state = "CLOSED")

(* A closed circuit has had fewer failures in a row than the threshold,    *)
(* and one on trial carries the failures that make a single further one    *)
(* open it again: _on_failure never looks at the state (line 84).          *)
CountMatchesState ==
  /\ state = "CLOSED" => failures < FailureThreshold /\ successes = 0
  /\ state # "CLOSED" => failures >= FailureThreshold
=============================================================================
