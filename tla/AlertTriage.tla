------------------------------ MODULE AlertTriage ------------------------------
(***************************************************************************)
(* The triage agent (agents/triage_agent.py): alert batches, one incident  *)
(* each, are clustered, checked against the dedup cache, given a severity, *)
(* and searched for bursts and correlations.                               *)
(*                                                                         *)
(* run_triage has no await, so an incident is triaged in one step.  What a *)
(* cluster is keyed on (service, namespace, alert name) is a kind.  Hashes *)
(* are taken to be injective.                                              *)
(***************************************************************************)
EXTENDS AnomalyDetector

CONSTANTS
  Kinds,        \* what alerts can be about
  NamespaceOf,  \* the namespace of each kind
  KeywordsOf,   \* the severities of the SEVERITY_RULES its texts match
  HintOf,       \* the severity its severity_hint maps to
  Batches,      \* what is ingested: sequences of alerts
  DedupWindow, MaxClock

Severities == 1..4   \* P1 to P4
Absurd == -2         \* a started_at no calendar has: fromtimestamp raises

(* An alert, by its kind and its started_at.  A batch is never empty.      *)
Alerts == [kind : Kinds, at : Nat \cup {Absurd}]

ASSUME TriageAssumption ==
  /\ NamespaceOf \in [Kinds -> STRING]
  /\ KeywordsOf \in [Kinds -> SUBSET Severities]
  /\ HintOf \in [Kinds -> Severities]
  /\ Batches \subseteq Seq(Alerts) \ {<<>>}
  /\ DedupWindow \in Nat /\ MaxClock \in Nat

VARIABLES
  clock,
  seen,     \* _SEEN_FINGERPRINTS
  result,   \* the last TriageResult, and the batch it is about
  sighted,  \* history: when each kind last was an incident's primary cluster
  fresh     \* history: when this process last reported it as no duplicate

vars == <<clock, seen, result, sighted, fresh>>

Never == -1
Unknown == "unknown"

Moments == 0..MaxClock \cup {Never}

None == [source |-> "none"]

TypeOK ==
  /\ clock \in 0..MaxClock
  /\ seen \in [Kinds -> Moments] /\ sighted \in [Kinds -> Moments]
  /\ fresh \in [Kinds -> Moments]
  /\ result # None =>
       /\ result.source \in {"model", "simulation", "failed"}
       /\ result.batch \in Batches
       /\ result.fingerprint \in Kinds \cup {Unknown}
       /\ result.severity \in Severities
       /\ result.duplicate \in BOOLEAN /\ result.burst \in BOOLEAN
       /\ result.since \in Moments /\ result.sinceFresh \in Moments

Init == /\ clock = 0
        /\ seen = [k \in Kinds |-> Never]
        /\ result = None
        /\ sighted = [k \in Kinds |-> Never]
        /\ fresh = [k \in Kinds |-> Never]
-----------------------------------------------------------------------------
(* _cluster_alerts: the buckets, in the order their first alerts come.     *)
Cluster(batch, k) == {i \in DOMAIN batch : batch[i].kind = k}

KindsIn(batch) == {batch[i].kind : i \in DOMAIN batch}

(* max over the clusters: the largest, the earliest of several.            *)
Primary(batch) ==
  CHOOSE k \in KindsIn(batch) :
    \A other \in KindsIn(batch) \ {k} :
      LET size == Cardinality(Cluster(batch, k))
          others == Cardinality(Cluster(batch, other))
      IN  \/ size > others
          \/ size = others /\ Min(Cluster(batch, k)) < Min(Cluster(batch, other))

(* _is_duplicate: strictly within the window of the last sighting.         *)
IsDuplicate(k) == seen[k] # Never /\ clock - seen[k] < DedupWindow

(* Mutant: the cache remembers an incident only if it was no duplicate,    *)
(* and drops the others.                                                   *)
RememberFresh(k) ==
  seen' = [seen EXCEPT ![k] = IF IsDuplicate(k) THEN Never ELSE clock]

(* ... and every sighting, a duplicate's too, starts the window again.     *)
Remember(k) == seen' = [seen EXCEPT ![k] = clock]

Keywords(batch) == UNION {KeywordsOf[k] : k \in KindsIn(batch)}

(* _rule_based_severity: the worst keyword of any alert, else the volume.  *)
RuleSeverity(batch) ==
  IF Keywords(batch) # {} THEN Min(Keywords(batch))
  ELSE IF Len(batch) >= 3 THEN 2 ELSE 3

(* _alert_to_correlation_dict, with correlation_graph's scores.            *)
Nodes(batch) ==
  [i \in DOMAIN batch |-> [namespace |-> NamespaceOf[batch[i].kind],
                           score |-> 5 - HintOf[batch[i].kind]]]

StartTimes(batch) == [i \in DOMAIN batch |-> batch[i].at]

(* The model answers with a severity and a claim about duplication.        *)
Answers == [severity : Severities, duplicate : BOOLEAN]

(* The override after inference: the cache decides, not the model.         *)
Verdict(k, answer) == IsDuplicate(k)

Since(moment) == IF moment = Never THEN Never ELSE clock - moment

(* The result, with what the histories say of its primary cluster.         *)
Report(k, r) ==
  /\ result' = r
  /\ sighted' = [sighted EXCEPT ![k] = clock]
  /\ fresh' = IF r.duplicate \/ r.fingerprint = Unknown THEN fresh
              ELSE [fresh EXCEPT ![k] = clock]

(* The try block of run_triage with an answer, real or simulated.          *)
Complete(batch, source, answer) ==
  LET k == Primary(batch)
  IN  Report(k, [source |-> source, batch |-> batch, fingerprint |-> k,
                 severity |-> answer.severity, duplicate |-> Verdict(k, answer),
                 graph |-> CorrelationGraph(Nodes(batch)),
                 burst |-> IsBurst(StartTimes(batch)),
                 since |-> Since(sighted[k]), sinceFresh |-> Since(fresh[k])])

(* Its except branch.  The cache has been updated by then.                 *)
GiveUp(batch) ==
  LET k == Primary(batch)
  IN  Report(k, [source |-> "failed", batch |-> batch, fingerprint |-> Unknown, severity |-> 3,
                 duplicate |-> FALSE, graph |-> None, burst |-> FALSE,
                 since |-> Since(sighted[k]), sinceFresh |-> Since(fresh[k])])

(* run_triage.                                                             *)
Triage(batch) ==
  /\ result = None
  /\ Remember(Primary(batch))
  /\ IF \E i \in DOMAIN batch : batch[i].at = Absurd
     THEN GiveUp(batch)
     ELSE \/ \E answer \in Answers : Complete(batch, "model", answer)
          \/ Complete(batch, "simulation",
                      [severity |-> RuleSeverity(batch), duplicate |-> IsDuplicate(Primary(batch))])
  /\ UNCHANGED clock

(* The cache is a module variable: a new process starts without it.        *)
Restart == /\ seen' = [k \in Kinds |-> Never] /\ result' = None
           /\ fresh' = [k \in Kinds |-> Never]
           /\ UNCHANGED <<clock, sighted>>

(* run_pipeline takes the result, and the loop may go on to the next task. *)
HandOver == /\ result # None /\ result' = None
            /\ UNCHANGED <<clock, seen, sighted, fresh>>

(* Time passes, up to MaxClock; a triage takes none.                       *)
Tick == /\ result = None /\ clock < MaxClock /\ clock' = clock + 1
        /\ UNCHANGED <<seen, result, sighted, fresh>>

Next == (\E batch \in Batches : Triage(batch)) \/ HandOver \/ Restart \/ Tick

Spec == Init /\ [][Next]_vars
-----------------------------------------------------------------------------
(* Deduplication keeps its promise of one fresh incident per window: two   *)
(* incidents that one process reports as new under the same fingerprint    *)
(* are at least the window apart, whatever came in between, failures and   *)
(* duplicates included (_is_duplicate refreshes on every sighting).        *)
FreshOnesApart ==
  result # None /\ ~result.duplicate /\ result.fingerprint # Unknown =>
    result.sinceFresh = Never \/ result.sinceFresh >= DedupWindow

(* Nothing is called a duplicate out of the blue: less than the window     *)
(* before, there was an incident with the same primary cluster.  An alert  *)
(* that was a minority of an earlier batch does not count, nor does what   *)
(* the model claims, nor a failed incident's "unknown" fingerprint.        *)
DuplicateHasPredecessor ==
  result # None /\ result.duplicate =>
    /\ result.since \in 0..(DedupWindow - 1)
    /\ result.fingerprint = Primary(result.batch)

(* What is reported as new and what as a duplicate, together: the cache    *)
(* neither lets an incident through twice nor holds back a first one.      *)
DedupExact == FreshOnesApart /\ DuplicateHasPredecessor

(* Simulated triage is P1 whenever some alert shows a P1 keyword, and it   *)
(* is never P1 or P2 without either such a keyword or three alerts, which  *)
(* is what the agent's prompt demands of the model                         *)
(* (agents/prompt_templates.py:33-38).  The model's severity is not        *)
(* checked.                                                                *)
SeverityGrounded ==
  result # None /\ result.source = "simulation" =>
    LET shown == UNION {KeywordsOf[result.batch[i].kind] : i \in DOMAIN result.batch}
    IN  /\ 1 \in shown => result.severity = 1
        /\ result.severity <= 2 => shown \cap {1, 2} # {} \/ Len(result.batch) >= 3

(* All of the alerts start within the span.                                *)
Within(span, S) == \A i, j \in S : result.batch[i].at - result.batch[j].at <= span

Groups == {S \in SUBSET (DOMAIN result.batch) : Cardinality(S) = BurstThreshold}

(* What the code makes of a burst, which is less than it says (below): a   *)
(* reported one is BurstThreshold alerts that all lie within twice the     *)
(* window; BurstThreshold alerts that all lie within one window are always *)
(* reported.  Between the two the answer depends on an alert in the middle.*)
BurstBracketed ==
  result # None /\ result.source # "failed" =>
    /\ result.burst => \E S \in Groups : Within(2 * BurstWindow, S)
    /\ (\E S \in Groups : Within(BurstWindow, S)) => result.burst

(* anomaly_detector.py:72-73: "Burst = more than burst_threshold alerts    *)
(* within window_minutes of each other."  The code breaks it: the          *)
(* threshold itself is enough, and each need be close to one alert only.   *)
BurstAsDocumented ==
  result # None /\ result.source # "failed" /\ result.burst =>
    \E S \in SUBSET (DOMAIN result.batch) :
      Cardinality(S) > BurstThreshold /\ Within(BurstWindow, S)

(* The graph is sound: correlation is transitive, so a namespace's alerts  *)
(* form one group whatever the order they came in, and no alert is worse   *)
(* than the root cause.                                                    *)
GraphSound ==
  result # None /\ result.source # "failed" =>
    LET related(i, j) == i = j \/ <<i, j>> \in result.graph.edges \/ <<j, i>> \in result.graph.edges
        alerts == DOMAIN result.batch
    IN  /\ \A i, j, k \in alerts : related(i, j) /\ related(j, k) => related(i, k)
        /\ \A i \in alerts : HintOf[result.batch[result.graph.root].kind] <= HintOf[result.batch[i].kind]

(* GET /incidents/{id}/anomaly-analysis never answers HIGH or CRITICAL: it *)
(* passes no anomaly scores, and the other factors stop short of HIGH.     *)
AnalysisNeverHigh ==
  result # None =>
    \A alerts \in Nat, pending \in BOOLEAN :
      RiskLevel(EscalationRisk(result.severity, alerts, pending)) \in {"LOW", "MEDIUM"}
=============================================================================
