------------------------------ MODULE Remediation ------------------------------
(***************************************************************************)
(* One incident from its diagnosis to its report, by its actions: the      *)
(* remediation agent (agents/remediation_agent.py), the execution and      *)
(* approval part of run_pipeline (agents/pipeline.py) and the post-mortem  *)
(* agent (agents/postmortem_agent.py).                                     *)
(*                                                                         *)
(* A command is what is_destructive_command says of it, a cause the number *)
(* of keywords of each runbook template it contains.  The approval gate is *)
(* its outcome: HITLGate models how that comes about.                      *)
(***************************************************************************)
EXTENDS Naturals, Sequences, FiniteSets, FiniteSetsExt, Functions

CONSTANTS Causes,   \* the keyword counts a diagnosis may have
          Drafts    \* the runbooks a model may answer with

(* _RUNBOOK_LIBRARY, template by template: is the step's command           *)
(* destructive?  Memory leak, rollout, deadlock, disk, CPU, certificate.   *)
Library == <<<<FALSE, FALSE>>, <<FALSE>>, <<TRUE, FALSE>>, <<TRUE, TRUE, FALSE>>,
             <<FALSE>>, <<FALSE>>>>
Keywords == <<4, 4, 3, 4, 4, 4>>   \* how many match_keywords each has
DefaultTemplate == <<FALSE>>

Templates == DOMAIN Library

(* An action as the model may send it: its step number and its `executed`  *)
(* are taken over, its other flags are not.                                *)
Claims == [step : Nat, destructive : BOOLEAN, executed : BOOLEAN]

(* What the constants must satisfy.                                        *)
RemediationAssumption ==
  /\ \A cause \in Causes : \A t \in Templates : cause[t] \in 0..Keywords[t]
  /\ Drafts \subseteq Seq(Claims)

VARIABLES
  stage,     \* how far run_pipeline is
  source,    \* where the runbook came from
  cause,     \* the diagnosis it was made for
  actions,   \* RunbookProposal.actions
  lists,     \* its auto_executed_steps and blocked_steps
  verdicts,  \* the resolved requests: status of each action's request
  timeline,  \* the context's timeline entries on actions
  claimed,   \* history: actions whose `executed` the model set
  rca        \* the report

vars == <<stage, source, cause, actions, lists, verdicts, timeline, claimed, rca>>

Statuses == {"none", "PENDING", "APPROVED", "REJECTED", "TIMED_OUT"}
Entries == {"auto", "blocked", "approved", "rejected", "timed out"}
NoReport == [from |-> "none"]
NoLists == [auto |-> <<>>, blocked |-> <<>>]

TypeOK ==
  /\ stage \in {"diagnosed", "planned", "executed", "waiting", "decided", "settled", "reported"}
  /\ source \in {"none", "model", "simulation"}
  /\ cause \in Causes
  /\ \A i \in DOMAIN actions :
       actions[i] \in [step : Nat, destructive : BOOLEAN, hitl : BOOLEAN, executed : BOOLEAN]
  /\ lists \in [auto : Seq(Nat), blocked : Seq(Nat)]
  /\ verdicts \in [DOMAIN actions -> Statuses]
  /\ \A n \in DOMAIN timeline :
       timeline[n].what \in Entries /\ timeline[n].action \in DOMAIN actions
  /\ claimed \subseteq DOMAIN actions
  /\ rca.from \in {"none", "model", "simulation"}

Init == /\ stage = "diagnosed" /\ source = "none"
        /\ cause \in Causes
        /\ actions = <<>> /\ lists = NoLists /\ verdicts = <<>>
        /\ timeline = <<>> /\ claimed = {} /\ rca = NoReport
-----------------------------------------------------------------------------
(* _select_template.                                                       *)

(* The most matches, the first of several, the default without any.        *)
SelectTemplate(hits) ==
  LET best == Max({hits[t] : t \in Templates})
  IN  IF best = 0 THEN DefaultTemplate
      ELSE Library[Min({t \in Templates : hits[t] = best})]

(* _build_actions.                                                         *)
BuildActions(template) ==
  [i \in DOMAIN template |-> [step |-> i, destructive |-> template[i], executed |-> FALSE]]

(* The re-verification of run_remediation: is_destructive and              *)
(* hitl_required are derived anew, executed is left as it came.            *)
Verified(draft) ==
  [i \in DOMAIN draft |-> [step |-> draft[i].step,
                           destructive |-> draft[i].destructive,
                           hitl |-> draft[i].destructive,
                           executed |-> draft[i].executed]]

(* A set of indices in order, as a pass over the actions meets them.       *)
InOrder(S) ==
  CHOOSE order \in [1..Cardinality(S) -> S] :
    Range(order) = S /\ \A m, n \in DOMAIN order : m < n => order[m] < order[n]

StepsOf(plan, kind) ==
  LET chosen == InOrder({i \in DOMAIN plan : plan[i].destructive = kind})
  IN  [n \in DOMAIN chosen |-> plan[chosen[n]].step]

Propose(from, draft) ==
  /\ stage = "diagnosed" /\ stage' = "planned"
  /\ source' = from
  /\ actions' = Verified(draft)
  /\ lists' = [auto |-> StepsOf(actions', FALSE), blocked |-> StepsOf(actions', TRUE)]
  /\ verdicts' = [i \in DOMAIN draft |-> "none"]
  /\ claimed' = {i \in DOMAIN draft : draft[i].executed}
  /\ UNCHANGED <<cause, timeline, rca>>

(* run_remediation, with the model's answer or the local simulation.       *)
Plan == \/ \E draft \in Drafts : Propose("model", draft)
        \/ Propose("simulation", BuildActions(SelectTemplate(cause)))

Entry(what, i) == [what |-> what, action |-> i]

Destructive == {i \in DOMAIN actions : actions[i].destructive}

(* The entries a pass makes on a set of actions.                           *)
Entered(what, S) == [n \in DOMAIN InOrder(S) |-> Entry(what, InOrder(S)[n])]

(* Every action that is not destructive is executed, whatever the          *)
(* diagnosis' confidence and requires_human_review.                        *)
AutoExecute ==
  /\ stage = "planned" /\ stage' = "executed"
  /\ LET safe == (DOMAIN actions) \ Destructive
     IN  /\ actions' = [i \in DOMAIN actions |->
                          IF i \in safe THEN [actions[i] EXCEPT !.executed = TRUE] ELSE actions[i]]
         /\ timeline' = timeline \o Entered("auto", safe)
  /\ UNCHANGED <<source, cause, lists, verdicts, claimed, rca>>

(* Mutant: only destructive actions have a request's status.               *)
RequestSparsely ==
  /\ stage = "executed"
  /\ stage' = IF Destructive = {} THEN "settled" ELSE "waiting"
  /\ verdicts' = [i \in Destructive |-> "PENDING"]
  /\ timeline' = timeline \o Entered("blocked", Destructive)
  /\ UNCHANGED <<source, cause, actions, lists, claimed, rca>>

(* Mutant: one request per step number.                                    *)
RequestPerStep ==
  /\ stage = "executed"
  /\ LET asked == {i \in Destructive : \A j \in Destructive : actions[j].step = actions[i].step => i <= j}
     IN  /\ stage' = IF asked = {} THEN "settled" ELSE "waiting"
         /\ verdicts' = [i \in DOMAIN actions |-> IF i \in asked THEN "PENDING" ELSE "none"]
         /\ timeline' = timeline \o Entered("blocked", asked)
  /\ UNCHANGED <<source, cause, actions, lists, claimed, rca>>

(* One request for each destructive action; without any, on to the report. *)
RequestApprovals ==
  /\ stage = "executed"
  /\ stage' = IF Destructive = {} THEN "settled" ELSE "waiting"
  /\ verdicts' = [i \in DOMAIN actions |-> IF i \in Destructive THEN "PENDING" ELSE "none"]
  /\ timeline' = timeline \o Entered("blocked", Destructive)
  /\ UNCHANGED <<source, cause, actions, lists, claimed, rca>>

Pending == {i \in DOMAIN actions : verdicts[i] = "PENDING"}

(* A human's or the timeout's decision on one request.  Requests are       *)
(* decided in any order; await_hitl returns when all are.                  *)
Resolve(i) ==
  /\ stage = "waiting" /\ i \in Pending
  /\ \E status \in Statuses \ {"none", "PENDING"} : verdicts' = [verdicts EXCEPT ![i] = status]
  /\ stage' = IF Pending = {i} THEN "decided" ELSE "waiting"
  /\ UNCHANGED <<source, cause, actions, lists, timeline, claimed, rca>>

Outcome == [APPROVED |-> "approved", REJECTED |-> "rejected", TIMED_OUT |-> "timed out"]

(* Mutant: one approval lets the rest of the runbook run.                  *)
ApplyRunbook ==
  /\ stage = "decided" /\ stage' = "settled"
  /\ LET requests == InOrder(Destructive)
         agreed == \E i \in Destructive : verdicts[i] = "APPROVED"
     IN  /\ timeline' = timeline \o [n \in DOMAIN requests |-> Entry(Outcome[verdicts[requests[n]]], requests[n])]
         /\ actions' = [i \in DOMAIN actions |->
                          IF i \in Destructive /\ agreed THEN [actions[i] EXCEPT !.executed = TRUE] ELSE actions[i]]
  /\ UNCHANGED <<source, cause, lists, verdicts, claimed, rca>>

(* The loop over the resolved requests, in the requests' order: an         *)
(* approval executes the action; nothing else touches its `executed`.      *)
ApplyVerdicts ==
  /\ stage = "decided" /\ stage' = "settled"
  /\ LET requests == InOrder(Destructive)
     IN  timeline' = timeline \o [n \in DOMAIN requests |->
                                    Entry(Outcome[verdicts[requests[n]]], requests[n])]
  /\ actions' = [i \in DOMAIN actions |->
                   IF verdicts[i] = "APPROVED" THEN [actions[i] EXCEPT !.executed = TRUE]
                                               ELSE actions[i]]
  /\ UNCHANGED <<source, cause, lists, verdicts, claimed, rca>>

(* The actions remediation_taken calls "executed automatically".           *)
ExecutedSteps == {i \in DOMAIN actions : actions[i].executed}

(* run_postmortem: the local simulation derives the report's remediation   *)
(* and lessons from the runbook; of the model's report nothing is known.   *)
PostMortem ==
  /\ stage = "settled" /\ stage' = "reported"
  /\ rca' \in {[from |-> "model"],
               [from |-> "simulation", timeline |-> timeline, taken |-> ExecutedSteps,
                withheld |-> Destructive # {}]}
  /\ UNCHANGED <<source, cause, actions, lists, verdicts, timeline, claimed>>

Next == Plan \/ AutoExecute \/ RequestApprovals \/ ApplyVerdicts \/ PostMortem
        \/ \E i \in DOMAIN actions : Resolve(i)

Spec == Init /\ [][Next]_vars
-----------------------------------------------------------------------------
(* A destructive action the model did not call executed is executed only   *)
(* on an approval, and every safe or approved action is executed: run_-    *)
(* pipeline's two execution passes and the gate agree on each action.      *)
FateMatchesVerdict ==
  \A i \in (DOMAIN actions) \ claimed :
    LET due == i \notin Destructive \/ verdicts[i] = "APPROVED"
    IN  /\ actions[i].executed => due
        /\ stage \in {"settled", "reported"} /\ due => actions[i].executed

(* What the planner listed as blocked is what a human is asked about, one  *)
(* request for each entry, also when the model repeats step numbers; the   *)
(* trace's counts and the UI's lists are read from these lists.            *)
BlockedAreAsked ==
  stage \in {"waiting", "decided"} =>
    LET requests == InOrder({i \in DOMAIN actions : verdicts[i] # "none"})
    IN  lists.blocked = [n \in DOMAIN requests |-> actions[requests[n]].step]

(* The timeline tells each action's fate once: a safe one was executed; a  *)
(* destructive one was blocked and, later, ended as its request did.       *)
TimelineTellsFate ==
  stage \in {"settled", "reported"} =>
    \A i \in DOMAIN actions :
      LET about == {n \in DOMAIN timeline : timeline[n].action = i}
      IN  \E m, n \in about :
            /\ about = {m, n}
            /\ IF actions[i].destructive
               THEN m < n /\ timeline[m].what = "blocked" /\ timeline[n].what = Outcome[verdicts[i]]
               ELSE m = n /\ timeline[n].what = "auto"

(* A simulated report calls an action executed exactly if it is safe, was  *)
(* approved, or was executed according to the model; one that a human      *)
(* rejected, or that timed out, it does not.                               *)
ReportTellsOutcome ==
  rca.from = "simulation" =>
    /\ rca.taken \ claimed = {i \in (DOMAIN actions) \ claimed :
                                i \notin Destructive \/ verdicts[i] = "APPROVED"}
    /\ rca.withheld <=> \E n \in DOMAIN rca.timeline : rca.timeline[n].what = "blocked"

(* The three accounts of an incident's actions -- the runbook's lists, the *)
(* timeline and the report -- agree with the requests and their outcomes,  *)
(* hence with each other.                                                  *)
AccountsAgree == BlockedAreAsked /\ TimelineTellsFate /\ ReportTellsOutcome

(* The simulated runbook is the one for the cause: no template has more of *)
(* its keywords in it, and the default is used only when nothing matches.  *)
(* A shared keyword never shadows a better match (_select_template).       *)
BestRunbook ==
  source = "simulation" =>
    LET made == [i \in DOMAIN actions |-> actions[i].destructive]
    IN  IF \A t \in Templates : cause[t] = 0 THEN made = DefaultTemplate
        ELSE \E t \in Templates : made = Library[t] /\ \A u \in Templates : cause[u] <= cause[t]

(* "DESTRUCTIVE actions are NEVER auto-executed" (remediation_agent.py:14):*)
(* a destructive action shows as executed only after an approval.          *)
NeverAutoExecuted ==
  \A i \in DOMAIN actions :
    actions[i].destructive /\ actions[i].executed => verdicts[i] = "APPROVED"
=============================================================================
