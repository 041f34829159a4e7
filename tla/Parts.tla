--------------------------------- MODULE Parts ---------------------------------
(***************************************************************************)
(* Parts of the program that share no state: the triage agent, z-scores    *)
(* of metrics that are being read, the remediation of one incident, a      *)
(* process's configuration, and the history of several incidents.  A       *)
(* behaviour is one of a single part's; `part` says which.                 *)
(***************************************************************************)
EXTENDS AlertTriage

CONSTANTS
  Readings, MaxReadings,                                      \* of metrics
  Causes, Drafts,                                             \* of Remediation
  Tokens, Environments, StoreContents, Bases, AllowedKeys,    \* of Configuration
  Updates, MaxChanges,
  MaxIncidents, MaxVersion                                    \* of IncidentHistory

VARIABLES part, readings,
  stage, source, cause, actions, lists, verdicts, timeline, claimed, rca,
  stores, provider, keys, auth, base, overrides, history, reply, held,
  backend, live, restored, snapshot, index, request, born, kept, unread

runbookVars == <<stage, source, cause, actions, lists, verdicts, timeline, claimed, rca>>
configVars == <<stores, provider, keys, auth, base, overrides, history, reply, held>>
historyVars == <<backend, live, restored, snapshot, index, request, born, kept, unread>>

Runbook == INSTANCE Remediation
Config == INSTANCE Configuration
History == INSTANCE IncidentHistory

ASSUME PartsAssumption ==
  /\ Runbook!RemediationAssumption /\ Config!ConfigurationAssumption
  /\ MaxIncidents \in Nat /\ MaxVersion \in Nat \ {0}
  /\ Readings \subseteq [metric : STRING, value : Int] /\ MaxReadings \in Nat
-----------------------------------------------------------------------------
(* Metrics are read in any order, MaxReadings times in all.                *)
Read == /\ Len(readings) < MaxReadings
        /\ \E reading \in Readings : readings' = Append(readings, reading)

(* The part that runs starts in any of its initial states, the others in   *)
(* one of theirs.                                                          *)
PartsInit ==
  /\ part \in {"triage", "metric", "runbook", "config", "history"}
  /\ readings = <<>> /\ Init /\ Runbook!Init /\ Config!Init /\ History!Init
  /\ part # "runbook" => cause = CHOOSE c \in Causes : TRUE
  /\ part # "config" => /\ stores = [s \in Config!Stores |-> CHOOSE c \in StoreContents : TRUE]
                        /\ base = CHOOSE b \in Bases : TRUE

PartsNext ==
  /\ part' = part
  /\ \/ part = "triage" /\ Next /\ UNCHANGED <<readings, runbookVars, configVars, historyVars>>
     \/ part = "metric" /\ Read /\ UNCHANGED <<vars, runbookVars, configVars, historyVars>>
     \/ part = "runbook" /\ Runbook!Next /\ UNCHANGED <<vars, readings, configVars, historyVars>>
     \/ part = "config" /\ Config!Next /\ UNCHANGED <<vars, readings, runbookVars, historyVars>>
     \/ part = "history" /\ History!Next /\ UNCHANGED <<vars, readings, runbookVars, configVars>>

PartsSpec ==
  PartsInit /\ [][PartsNext]_<<part, readings, vars, runbookVars, configVars, historyVars>>
-----------------------------------------------------------------------------
(* Every variable of the four parts keeps its type.                        *)
PartsTypeOK == TypeOK /\ Runbook!TypeOK /\ Config!TypeOK /\ History!TypeOK

(* A metric with fewer than eight readings is never anomalous, however far *)
(* its last one is off: with n readings z is at most the root of n - 1     *)
(* (z_score_anomaly asks for only three).                                  *)
FewReadingsNeverAnomalous ==
  \A m \in AnomalousMetrics(readings) :
    Cardinality({i \in DOMAIN readings : readings[i].metric = m}) >= 8

(* The other parts' properties, stated there.                              *)

(* Safe and approved actions are executed, no other unless the model says  *)
(* so (run_pipeline).                                                      *)
FateMatchesVerdict == Runbook!FateMatchesVerdict

(* The runbook's lists, the timeline (pipeline.py) and the simulated RCA   *)
(* (postmortem_agent.py) agree with the requests and their outcomes.       *)
AccountsAgree == Runbook!AccountsAgree

(* A destructive action shows as executed only after an approval           *)
(* (remediation_agent.py:14).                                              *)
NeverAutoExecuted == Runbook!NeverAutoExecuted

(* Only holders of an ADMIN key of the process's start change what is in   *)
(* force (secrets.py, auth.py).                                            *)
ChangesAuthorised == Config!ChangesAuthorised

(* The configuration history explains what is in force, and each entry     *)
(* names the value it replaced (config_watcher.py).                        *)
HistoryTrue == Config!HistoryTrue

(* A refused update is done up to the refused key (update_config).         *)
RefusedInPart == Config!RefusedInPart

(* A snapshot saved in full is found by every later process                *)
(* (redis_store.py).                                                       *)
SavedStaysVisible == History!SavedStaysVisible

(* GET /incidents has every incident once (list_incident_summaries).       *)
ListedOnce == History!ListedOnce
=============================================================================
