---------------------------- MODULE MCAuditTrail ----------------------------
(* The loop and one tool call; a global list of one event for a thousand.  *)
EXTENDS AuditTrail

(* A claim in words the recheck knows: forced unless it is blocked, when   *)
(* it is written as any other event is.                                    *)
Heard == {[claims |-> TRUE, listed |-> TRUE]}

(* The same claim as str() of a RemediationAction words it: executed=True. *)
Unheard == {[claims |-> TRUE, listed |-> FALSE]}
=============================================================================
