--------------------------- MODULE BreakerContract ---------------------------
(***************************************************************************)
(* The circuit breaker as its module docstring describes it: closed until  *)
(* Threshold failures in a row, then open for Window ticks, then on trial  *)
(* for one call, whose success closes the circuit and whose failure opens  *)
(* it again.                                                               *)
(***************************************************************************)
EXTENDS Naturals

CONSTANTS Threshold, Window

VARIABLES mode,    \* "closed", "open" or "trial"
          streak,  \* failures since the last success
          age      \* ticks since the circuit last opened, up to Window

breakerVars == <<mode, streak, age>>

Init == mode = "closed" /\ streak = 0 /\ age = Window

Succeed == /\ mode # "open"
           /\ mode' = "closed" /\ streak' = 0
           /\ UNCHANGED age

Fail == /\ mode # "open"
        /\ streak' = streak + 1
        /\ IF mode = "trial" \/ streak' >= Threshold
           THEN /\ age' = 0
                /\ mode' = IF Window = 0 THEN "trial" ELSE "open"
           ELSE UNCHANGED <<mode, age>>

Elapse == /\ age < Window /\ age' = age + 1
          /\ mode' = IF mode = "open" /\ age' = Window THEN "trial" ELSE mode
          /\ UNCHANGED streak

Next == Succeed \/ Fail \/ Elapse

Spec == Init /\ [][Next]_breakerVars
=============================================================================
