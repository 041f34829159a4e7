---------------------------- MODULE AnomalyDetector ----------------------------
(***************************************************************************)
(* The statistics of agents/anomaly_detector.py, over integers.            *)
(*                                                                         *)
(* Times are in units of which BurstWindow make window_minutes, risks in   *)
(* thousandths, confidences in tenths.  Analysis texts are left out.       *)
(***************************************************************************)
EXTENDS Integers, Sequences, FiniteSets, FiniteSetsExt, SequencesExt

CONSTANTS BurstWindow, BurstThreshold

ASSUME DetectorAssumption == BurstWindow \in Nat /\ BurstThreshold \in Nat \ {0}
-----------------------------------------------------------------------------
(* z_score_anomaly.                                                        *)
SumOf(values) ==
  LET sum[n \in 0..Len(values)] == IF n = 0 THEN 0 ELSE sum[n - 1] + values[n]
  IN  sum[Len(values)]

Squares(values) == [i \in DOMAIN values |-> values[i] * values[i]]

(* The population variance, times the square of the length.                *)
Spread(values) == Len(values) * SumOf(Squares(values)) - SumOf(values) * SumOf(values)

(* Mutant: the sample's deviation from the earlier readings only.          *)
ZScoreOfHistory(values) ==
  /\ Len(values) >= 3
  /\ LET before == Front(values)
         off == Len(before) * Last(values) - SumOf(before)
     IN  Spread(before) # 0 /\ 4 * off * off > 25 * Spread(before)

(* The last reading lies more than 2.5 deviations from the mean.  z is     *)
(* off over the root of Spread; squared, the comparison is in integers.    *)
ZScoreAnomaly(values) ==
  /\ Len(values) >= 3
  /\ LET off == Len(values) * Last(values) - SumOf(values)
     IN  Spread(values) # 0 /\ 4 * off * off > 25 * Spread(values)

(* metric_series: a metric's values, in the order of its readings.         *)
Series(history, m) ==
  LET upTo[n \in 0..Len(history)] ==
        IF n = 0 THEN <<>>
        ELSE IF history[n].metric = m THEN Append(upTo[n - 1], history[n].value)
        ELSE upTo[n - 1]
  IN  upTo[Len(history)]

(* analyze_incident_metrics: one verdict for each metric named.            *)
AnomalousMetrics(history) ==
  {m \in {history[i].metric : i \in DOMAIN history} : ZScoreAnomaly(Series(history, m))}
-----------------------------------------------------------------------------
(* detect_alert_burst.                                                     *)

Apart(s, t) == IF s > t THEN s - t ELSE t - s

(* Mutant: the window counts backwards and forwards in full.               *)
NearTwice(times, i) == {j \in DOMAIN times : Apart(times[i], times[j]) <= 3 * BurstWindow}

(* A row of the deltas matrix: the alerts within the window of alert i,    *)
(* on either side, itself included.                                        *)
Near(times, i) == {j \in DOMAIN times : Apart(times[i], times[j]) <= BurstWindow}

BurstCount(times) == Max({0} \cup {Cardinality(Near(times, i)) : i \in DOMAIN times})

IsBurst(times) == BurstCount(times) >= BurstThreshold
-----------------------------------------------------------------------------
(* correlation_graph.  A node has a score and a namespace.                 *)

Edges(nodes) ==
  {e \in (DOMAIN nodes) \X (DOMAIN nodes) :
     e[1] < e[2] /\ nodes[e[1]].namespace = nodes[e[2]].namespace}

(* The first of the highest scores, whatever its namespace.                *)
RootCause(nodes) ==
  CHOOSE i \in DOMAIN nodes :
    \A j \in DOMAIN nodes :
      nodes[i].score > nodes[j].score \/ (nodes[i].score = nodes[j].score /\ i <= j)

GraphConfidence(nodes) == Min({10, 5 + Cardinality(Edges(nodes))})

CorrelationGraph(nodes) ==
  [root |-> RootCause(nodes), edges |-> Edges(nodes), confidence |-> GraphConfidence(nodes)]
-----------------------------------------------------------------------------
(* predict_escalation_risk, as GET .../anomaly-analysis calls it: without  *)
(* anomaly scores, whose contribution is then zero.                        *)
SeverityContribution == <<240, 150, 90, 30>>   \* of P1 to P4

EscalationRisk(severity, alerts, pending) ==
  SeverityContribution[severity] + Min({200, 20 * alerts}) + (IF pending THEN 100 ELSE 0)

RiskLevel(risk) == IF risk > 800 THEN "CRITICAL"
                   ELSE IF risk > 600 THEN "HIGH"
                   ELSE IF risk > 400 THEN "MEDIUM" ELSE "LOW"
=============================================================================
