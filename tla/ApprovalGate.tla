---------------------------- MODULE ApprovalGate ----------------------------
(***************************************************************************)
(* What the human-in-the-loop gate promises, apart from how it does it: a  *)
(* destructive action runs only on an approval that was really given, it   *)
(* is withheld only on a rejection or a timeout that really happened, and  *)
(* what became of it never changes.  HITLGate implements this contract.    *)
(***************************************************************************)
CONSTANT Requests

VARIABLES issued,   \* issued[r]: the verdicts given on r so far
          outcome   \* outcome[r]: what became of the action r guards

gateVars == <<issued, outcome>>

Verdicts == {"approve", "reject", "timeout"}
Outcomes == {"open", "executed", "withheld"}

GateTypeOK == /\ issued \in [Requests -> SUBSET Verdicts]
              /\ outcome \in [Requests -> Outcomes]

Init == /\ issued = [r \in Requests |-> {}]
        /\ outcome = [r \in Requests |-> "open"]

Issue(r, v) == /\ issued' = [issued EXCEPT ![r] = @ \cup {v}]
               /\ UNCHANGED outcome

Settle(r, o, grounds) == /\ outcome[r] = "open"
                         /\ issued[r] \cap grounds # {}
                         /\ outcome' = [outcome EXCEPT ![r] = o]
                         /\ UNCHANGED issued

Execute(r) == Settle(r, "executed", {"approve"})

Withhold(r) == Settle(r, "withheld", {"reject", "timeout"})

Next == \E r \in Requests : \/ \E v \in Verdicts : Issue(r, v)
                            \/ Execute(r)
                            \/ Withhold(r)

Spec == Init /\ [][Next]_gateVars
=============================================================================
