------------------------------- MODULE LiveParts -------------------------------
(***************************************************************************)
(* The two parts of the program in which something is waited for that the  *)
(* code itself must bring about: diagnoses through a circuit breaker, and  *)
(* the approval gate of one incident.  They share no state; a behaviour is *)
(* one of a single part's, and `part` says which.                          *)
(***************************************************************************)
EXTENDS Inference

CONSTANTS Requests, Callers, BaseTimeout, TimeoutPatches   \* of HITLGate

VARIABLES part,
  pending, status, decidedBy, event, history, timeout, scan, pipe, waiter,
  outcome, pc, target, verdict, told                       \* of HITLGate

gateVars == <<pending, status, decidedBy, event, history, timeout, scan, pipe, waiter,
              outcome, pc, target, verdict, told>>
liveVars == <<part, inferenceVars, gateVars>>

Approval == INSTANCE HITLGate WITH Patches <- TimeoutPatches

ASSUME LiveAssumption == Approval!GateAssumption
-----------------------------------------------------------------------------
(* The part that runs starts in any of its initial states, the other in    *)
(* one of them.                                                            *)
LiveInit ==
  /\ part \in {"diagnoses", "gate"}
  /\ InferenceInit /\ Approval!Init
  /\ part = "gate" => apiUp /\ real
  /\ part = "diagnoses" => /\ target = [c \in Callers |-> CHOOSE r \in Requests : TRUE]
                           /\ verdict = [c \in Callers |-> "approve"]

Diagnoses(A) == part = "diagnoses" /\ A /\ UNCHANGED <<part, gateVars>>
Approves(A) == part = "gate" /\ A /\ UNCHANGED <<part, inferenceVars>>

LiveNext == Diagnoses(InferenceNext) \/ Approves(Approval!Next)

(* Time passes and incidents keep arriving, so that diagnoses are made     *)
(* again and again.  The loop runs every ready task and fires every due    *)
(* timer, and a thread that found its request runs on.  Nothing is assumed *)
(* of the API, of the humans, of resets or of config changes.              *)
Fairness ==
  /\ WF_liveVars(Diagnoses(Tick /\ UNCHANGED <<real, threshold, resultVars>>))
  /\ WF_liveVars(Diagnoses(Diagnose))
  /\ WF_liveVars(Approves(Approval!Pipeline))
  /\ \A r \in Requests : WF_liveVars(Approves(Approval!Waiting(r)))
  /\ \A c \in Callers : WF_liveVars(Approves(Approval!Answer(c)))

LiveSpec == LiveInit /\ [][LiveNext]_liveVars /\ Fairness
-----------------------------------------------------------------------------
(* A gate that waits comes back although nobody answers: HITLGate states   *)
(* it.  TimeoutPatches leaves null out, with which the wait never ends     *)
(* (store.py:317-319).                                                     *)
GateOpens == Approval!GateOpens
=============================================================================
