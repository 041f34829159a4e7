------------------------------ MODULE Parts_proofs ------------------------------
(***************************************************************************)
(* Triage, z-scores, the remediation of an incident, the configuration of  *)
(* a process and the history of several incidents, for any alerts and      *)
(* readings, causes, model answers, keys, stores, settings and updates,    *)
(* and for any number of incidents, actions and changes: one invariant for *)
(* each part, and, at the end, their composition.                          *)
(*                                                                         *)
(* The constants are as the assumptions say.                               *)
(***************************************************************************)
EXTENDS Parts, FiniteSetTheorems, SequenceTheorems, WellFoundedInduction, TLAPS
-----------------------------------------------------------------------------
(* Least and greatest elements of sets of natural numbers, as the choices  *)
(* of max(), min() and the first of several need them.                     *)

(* A nonempty set of natural numbers has a least one.                      *)
LEMMA LeastExists ==
  ASSUME NEW S, S \subseteq Nat, S # {}
  PROVE  \E x \in S : \A y \in S : x <= y
<1>1. PICK x \in S : \A y \in S : ~ (<<y, x>> \in OpToRel(<, Nat))
  BY WFMin, NatLessThanWellFounded
<1>2. \A y \in S : y < x => <<y, x>> \in OpToRel(<, Nat)
  BY DEF OpToRel
<1>3. \A y \in S : x <= y
  <2> SUFFICES ASSUME NEW y \in S PROVE x <= y
    OBVIOUS
  <2>1. ~ (y < x)
    BY <1>1, <1>2
  <2>2. x \in Nat /\ y \in Nat
    OBVIOUS
  <2> QED
    BY <2>1, <2>2
<1> QED
  BY <1>3

(* Min, the community modules' choice of one, is it.                       *)
LEMMA MinLeast ==
  ASSUME NEW S, S \subseteq Nat, S # {}
  PROVE  Min(S) \in S /\ \A y \in S : Min(S) <= y
  BY LeastExists DEF Min

(* With an upper bound there is a greatest one, and Max is it.             *)
LEMMA MaxGreatest ==
  ASSUME NEW bound \in Nat, NEW S, S \subseteq 0..bound, S # {}
  PROVE  Max(S) \in S /\ \A y \in S : y <= Max(S)
<1> DEFINE gaps == {bound - x : x \in S}
<1>1. gaps \subseteq Nat /\ gaps # {}
  <2>1. \A x \in S : x \in 0..bound
    OBVIOUS
  <2>2. \A x \in S : bound - x \in Nat
    BY <2>1
  <2> QED
    BY <2>2
<1>2. PICK g \in gaps : \A y \in gaps : g <= y
  BY <1>1, LeastExists
<1>3. PICK x \in S : g = bound - x
  BY <1>2
<1>4. \A y \in S : x >= y
  <2> SUFFICES ASSUME NEW y \in S PROVE x >= y
    OBVIOUS
  <2>1. bound - x <= bound - y
    BY <1>2, <1>3
  <2>2. x \in 0..bound /\ y \in 0..bound
    OBVIOUS
  <2> QED
    BY <2>1, <2>2
<1>5. Max(S) \in S /\ \A y \in S : Max(S) >= y
  BY <1>4 DEF Max
<1>6. \A y \in S : y <= Max(S)
  <2> SUFFICES ASSUME NEW y \in S PROVE y <= Max(S)
    OBVIOUS
  <2>1. Max(S) \in 0..bound /\ y \in 0..bound /\ Max(S) >= y
    BY <1>5
  <2> QED
    BY <2>1
<1> QED
  BY <1>5, <1>6

(* Of the elements with the least f there is one with the least g.         *)
LEMMA LeastOfTwo ==
  ASSUME NEW D, D # {}, NEW f \in [D -> Nat], NEW g \in [D -> Nat]
  PROVE  \E i \in D : \A j \in D : f[i] < f[j] \/ (f[i] = f[j] /\ g[i] <= g[j])
<1>1. PICK m \in D : \A j \in D : f[m] <= f[j]
  <2> DEFINE values == {f[i] : i \in D}
  <2>1. values \subseteq Nat /\ values # {}
    OBVIOUS
  <2>2. PICK x \in values : \A y \in values : x <= y
    BY <2>1, LeastExists
  <2> QED
    BY <2>2
<1> DEFINE best == {i \in D : f[i] = f[m]}
<1>2. PICK i \in best : \A j \in best : g[i] <= g[j]
  <2> DEFINE values == {g[i] : i \in best}
  <2>1. values \subseteq Nat /\ values # {}
    OBVIOUS
  <2>2. PICK x \in values : \A y \in values : x <= y
    BY <2>1, LeastExists
  <2> QED
    BY <2>2
<1>3. \A j \in D : f[i] < f[j] \/ (f[i] = f[j] /\ g[i] <= g[j])
  BY <1>1, <1>2
<1> QED
  BY <1>2, <1>3
-----------------------------------------------------------------------------
(* A batch's alerts, by their positions.                                   *)
LEMMA BatchTyped ==
  ASSUME NEW batch \in Batches
  PROVE  /\ Len(batch) \in Nat /\ DOMAIN batch = 1..Len(batch) /\ DOMAIN batch # {}
         /\ \A i \in DOMAIN batch : batch[i] \in Alerts /\ batch[i].kind \in Kinds
<1>1. batch \in Seq(Alerts) /\ batch # <<>>
  BY TriageAssumption DEF TriageAssumption
<1>2. Len(batch) \in Nat \ {0} /\ DOMAIN batch = 1..Len(batch)
  BY <1>1, EmptySeq, LenProperties
<1>3. \A i \in DOMAIN batch : batch[i] \in Alerts
  BY <1>1, <1>2, ElementOfSeq
<1> QED
  BY <1>2, <1>3 DEF Alerts

(* A cluster is a finite set of positions, empty only if its kind is not   *)
(* in the batch.                                                           *)
LEMMA ClusterTyped ==
  ASSUME NEW batch \in Batches, NEW k \in KindsIn(batch)
  PROVE  /\ k \in Kinds
         /\ Cluster(batch, k) \subseteq Nat /\ Cluster(batch, k) # {}
         /\ Cluster(batch, k) \subseteq DOMAIN batch
         /\ Cardinality(Cluster(batch, k)) \in 0..Len(batch)
<1>1. DOMAIN batch = 1..Len(batch) /\ Len(batch) \in Nat
  BY BatchTyped
<1>2. /\ k \in Kinds
      /\ Cluster(batch, k) \subseteq DOMAIN batch /\ Cluster(batch, k) # {}
  BY BatchTyped DEF Cluster, KindsIn
<1>3. IsFiniteSet(1..Len(batch)) /\ Cardinality(1..Len(batch)) = Len(batch)
  <2>1. Len(batch) \in Int /\ 1 \in Int
    BY <1>1
  <2>2. /\ IsFiniteSet(1..Len(batch))
        /\ Cardinality(1..Len(batch)) = IF 1 > Len(batch) THEN 0 ELSE Len(batch) - 1 + 1
    BY <2>1, FS_Interval
  <2> QED
    BY <1>1, <2>2
<1>4. /\ IsFiniteSet(Cluster(batch, k))
      /\ Cardinality(Cluster(batch, k)) <= Cardinality(1..Len(batch))
  BY <1>1, <1>2, <1>3, FS_Subset
<1>5. Cardinality(Cluster(batch, k)) \in Nat
  BY <1>4, FS_CardinalityType
<1>6. Cluster(batch, k) \subseteq Nat
  BY <1>1, <1>2
<1> QED
  BY <1>1, <1>2, <1>3, <1>4, <1>5, <1>6

(* There is a primary cluster, and its kind is one of the batch's: max     *)
(* over the clusters always finds one.                                     *)
LEMMA PrimaryExists ==
  ASSUME NEW batch \in Batches
  PROVE  Primary(batch) \in KindsIn(batch) /\ Primary(batch) \in Kinds
<1> DEFINE size(k) == Cardinality(Cluster(batch, k))
           smaller == [k \in KindsIn(batch) |-> Len(batch) - size(k)]
           first == [k \in KindsIn(batch) |-> Min(Cluster(batch, k))]
           Wins(k) == \A other \in KindsIn(batch) \ {k} :
                        \/ size(k) > size(other)
                        \/ size(k) = size(other) /\ Min(Cluster(batch, k)) < Min(Cluster(batch, other))
<1>1. Len(batch) \in Nat /\ KindsIn(batch) # {}
  BY BatchTyped DEF KindsIn
<1>2. \A k \in KindsIn(batch) : size(k) \in 0..Len(batch)
  BY ClusterTyped
<1>3. \A k \in KindsIn(batch) : /\ Min(Cluster(batch, k)) \in Cluster(batch, k)
                                /\ Min(Cluster(batch, k)) \in Nat
  BY ClusterTyped, MinLeast
<1>4. smaller \in [KindsIn(batch) -> Nat] /\ first \in [KindsIn(batch) -> Nat]
  BY <1>1, <1>2, <1>3
<1>5. PICK k \in KindsIn(batch) : \A other \in KindsIn(batch) :
        smaller[k] < smaller[other] \/ (smaller[k] = smaller[other] /\ first[k] <= first[other])
  <2> HIDE DEF smaller, first
  <2> QED
    BY <1>1, <1>4, LeastOfTwo
<1>6. Wins(k)
  <2> SUFFICES ASSUME NEW other \in KindsIn(batch) \ {k}
               PROVE  \/ size(k) > size(other)
                      \/ size(k) = size(other) /\ Min(Cluster(batch, k)) < Min(Cluster(batch, other))
    OBVIOUS
  <2>1. Min(Cluster(batch, k)) # Min(Cluster(batch, other))
    BY <1>3 DEF Cluster
  <2>2. size(k) \in 0..Len(batch) /\ size(other) \in 0..Len(batch)
    BY <1>2
  <2>3. \/ Len(batch) - size(k) < Len(batch) - size(other)
        \/ /\ Len(batch) - size(k) = Len(batch) - size(other)
           /\ Min(Cluster(batch, k)) <= Min(Cluster(batch, other))
    BY <1>5
  <2>4. Min(Cluster(batch, k)) \in Nat /\ Min(Cluster(batch, other)) \in Nat
    BY <1>3
  <2> HIDE DEF size
  <2> QED
    BY <1>1, <2>1, <2>2, <2>3, <2>4
<1>7. Primary(batch) = CHOOSE p \in KindsIn(batch) : Wins(p)
  BY DEF Primary
<1>8. Primary(batch) \in KindsIn(batch)
  <2> HIDE DEF Wins
  <2> QED
    BY <1>6, <1>7
<1> QED
  BY <1>8, ClusterTyped
-----------------------------------------------------------------------------
(* The keywords of a batch are severities.                                 *)
LEMMA KeywordsTyped ==
  ASSUME NEW batch \in Batches PROVE Keywords(batch) \subseteq Severities
  BY BatchTyped, TriageAssumption DEF TriageAssumption, Keywords, KindsIn

(* The severity rules answer with a severity.                              *)
LEMMA RuleTyped ==
  ASSUME NEW batch \in Batches PROVE RuleSeverity(batch) \in Severities
<1>1. Keywords(batch) \subseteq Severities
  BY KeywordsTyped
<1>2. CASE Keywords(batch) # {}
  <2>1. Keywords(batch) \subseteq Nat
    BY <1>1 DEF Severities
  <2>2. Min(Keywords(batch)) \in Keywords(batch)
    BY <1>2, <2>1, MinLeast
  <2> QED
    BY <1>1, <1>2, <2>2 DEF RuleSeverity
<1>3. CASE Keywords(batch) = {}
  BY <1>3 DEF RuleSeverity, Severities
<1> QED
  BY <1>2, <1>3

(* The verdicts on duplication and on a burst are Boolean.                 *)
LEMMA VerdictsBoolean ==
  ASSUME NEW batch, NEW k
  PROVE  IsDuplicate(k) \in BOOLEAN /\ IsBurst(StartTimes(batch)) \in BOOLEAN
<1>1. IsDuplicate(k) \in BOOLEAN
  BY DEF IsDuplicate
<1>2. IsBurst(StartTimes(batch)) \in BOOLEAN
  BY DEF IsBurst
<1> QED
  BY <1>1, <1>2

(* What every triage leaves behind, whoever answered.                      *)
Outcome(batch) ==
  LET k == Primary(batch)
  IN  /\ clock' = clock
      /\ seen' = [seen EXCEPT ![k] = clock]
      /\ sighted' = [sighted EXCEPT ![k] = clock]
      /\ fresh' = IF result'.duplicate \/ result'.fingerprint = Unknown THEN fresh
                  ELSE [fresh EXCEPT ![k] = clock]
      /\ result'.batch = batch
      /\ result'.source \in {"model", "simulation", "failed"}
      /\ result'.since = Since(sighted[k]) /\ result'.sinceFresh = Since(fresh[k])
      /\ result'.severity \in Severities
      /\ result'.burst \in BOOLEAN

(* What a triage that got an answer reports.                               *)
Answered(batch) ==
  /\ result'.fingerprint = Primary(batch)
  /\ result'.duplicate = IsDuplicate(Primary(batch))
  /\ result'.graph = CorrelationGraph(Nodes(batch))
  /\ result'.source = "simulation" => result'.severity = RuleSeverity(batch)

(* What one that failed does.                                              *)
GaveUp == /\ result'.source = "failed" /\ result'.fingerprint = Unknown
          /\ result'.duplicate = FALSE

(* A triage leaves an outcome, and it answers or gives up.                 *)
LEMMA Triaged ==
  ASSUME NEW batch \in Batches, Triage(batch)
  PROVE  Outcome(batch) /\ (Answered(batch) \/ GaveUp)
<1> DEFINE k == Primary(batch)
<1>1. /\ IsDuplicate(k) \in BOOLEAN /\ IsBurst(StartTimes(batch)) \in BOOLEAN
      /\ RuleSeverity(batch) \in Severities
  BY VerdictsBoolean, RuleTyped
<1>2. clock' = clock /\ seen' = [seen EXCEPT ![k] = clock]
  BY DEF Triage, Remember
<1>3. ASSUME NEW by \in {"model", "simulation"}, NEW answer \in Answers,
             Complete(batch, by, answer), by = "simulation" => answer.severity = RuleSeverity(batch)
      PROVE  Outcome(batch) /\ Answered(batch)
  <2>1. result' = [source |-> by, batch |-> batch, fingerprint |-> k,
                   severity |-> answer.severity, duplicate |-> IsDuplicate(k),
                   graph |-> CorrelationGraph(Nodes(batch)), burst |-> IsBurst(StartTimes(batch)),
                   since |-> Since(sighted[k]), sinceFresh |-> Since(fresh[k])]
    BY <1>3 DEF Complete, Report, Verdict
  <2>2. /\ sighted' = [sighted EXCEPT ![k] = clock]
        /\ fresh' = IF IsDuplicate(k) \/ k = Unknown THEN fresh ELSE [fresh EXCEPT ![k] = clock]
    BY <1>3 DEF Complete, Report, Verdict
  <2>3. /\ result'.source = by /\ result'.batch = batch /\ result'.fingerprint = k
        /\ result'.severity = answer.severity /\ result'.duplicate = IsDuplicate(k)
        /\ result'.graph = CorrelationGraph(Nodes(batch))
        /\ result'.burst = IsBurst(StartTimes(batch))
        /\ result'.since = Since(sighted[k]) /\ result'.sinceFresh = Since(fresh[k])
    BY <2>1
  <2>4. answer.severity \in Severities
    BY DEF Answers
  <2>5. Outcome(batch)
    BY <1>1, <1>2, <2>2, <2>3, <2>4 DEF Outcome
  <2>6. Answered(batch)
    BY <1>3, <2>3 DEF Answered
  <2> QED
    BY <2>5, <2>6
<1>4. CASE GiveUp(batch)
  <2>1. result' = [source |-> "failed", batch |-> batch, fingerprint |-> Unknown, severity |-> 3,
                   duplicate |-> FALSE, graph |-> None, burst |-> FALSE,
                   since |-> Since(sighted[k]), sinceFresh |-> Since(fresh[k])]
    BY <1>4 DEF GiveUp, Report
  <2>2. sighted' = [sighted EXCEPT ![k] = clock] /\ fresh' = fresh
    BY <1>4 DEF GiveUp, Report
  <2>3. /\ result'.source = "failed" /\ result'.batch = batch /\ result'.fingerprint = Unknown
        /\ result'.severity = 3 /\ result'.duplicate = FALSE /\ result'.burst = FALSE
        /\ result'.since = Since(sighted[k]) /\ result'.sinceFresh = Since(fresh[k])
    BY <2>1
  <2>4. /\ fresh' = IF result'.duplicate \/ result'.fingerprint = Unknown THEN fresh
                    ELSE [fresh EXCEPT ![k] = clock]
    BY <2>2, <2>3
  <2>5. result'.source \in {"model", "simulation", "failed"} /\ result'.severity \in Severities
    BY <2>3 DEF Severities
  <2>6. result'.burst \in BOOLEAN
    BY <2>3
  <2>7. Outcome(batch)
    BY <1>2, <2>2, <2>3, <2>4, <2>5, <2>6, Zenon DEF Outcome
  <2> QED
    BY <2>3, <2>7 DEF GaveUp
<1>5. CASE \E answer \in Answers : Complete(batch, "model", answer)
  BY <1>3, <1>5
<1>6. CASE Complete(batch, "simulation", [severity |-> RuleSeverity(batch), duplicate |-> IsDuplicate(k)])
  <2>1. [severity |-> RuleSeverity(batch), duplicate |-> IsDuplicate(k)] \in Answers
    BY <1>1 DEF Answers
  <2> QED
    BY <1>3, <1>6, <2>1
<1>7. \/ GiveUp(batch)
      \/ \E answer \in Answers : Complete(batch, "model", answer)
      \/ Complete(batch, "simulation", [severity |-> RuleSeverity(batch), duplicate |-> IsDuplicate(k)])
  BY DEF Triage
<1> QED
  BY <1>4, <1>5, <1>6, <1>7
-----------------------------------------------------------------------------
(* What the process remembers of a kind is its last sighting, and what it  *)
(* last reported as new it has sighted since or at that moment.            *)
Remembered ==
  \A k \in Kinds :
    /\ sighted[k] <= clock
    /\ seen[k] # Never => sighted[k] = seen[k]
    /\ fresh[k] # Never => seen[k] # Never /\ fresh[k] <= seen[k]

(* The inductive invariant.                                                *)
IInv == TypeOK /\ Remembered

(* A duration since a moment that is past is a moment.                     *)
LEMMA SinceTyped ==
  ASSUME clock \in 0..MaxClock, NEW moment \in Moments, moment <= clock
  PROVE  Since(moment) \in Moments
  BY TriageAssumption DEF TriageAssumption, Since, Moments, Never

(* A triage keeps the types and the memory.                                *)
LEMMA TriageKeeps ==
  ASSUME IInv, NEW batch \in Batches, Triage(batch) PROVE IInv'
<1> DEFINE k == Primary(batch)
<1> USE TriageAssumption DEF TriageAssumption
<1>1. Outcome(batch) /\ (Answered(batch) \/ GaveUp)
  BY Triaged
<1>2. k \in Kinds
  BY PrimaryExists
<1>3. /\ clock' = clock /\ clock \in 0..MaxClock /\ clock \in Moments
      /\ seen' = [seen EXCEPT ![k] = clock] /\ seen \in [Kinds -> Moments]
      /\ sighted' = [sighted EXCEPT ![k] = clock] /\ sighted \in [Kinds -> Moments]
      /\ fresh \in [Kinds -> Moments]
  BY <1>1 DEF Outcome, IInv, TypeOK, Moments
<1>4. fresh' = fresh \/ fresh' = [fresh EXCEPT ![k] = clock]
  BY <1>1 DEF Outcome
<1>5. /\ result'.source \in {"model", "simulation", "failed"} /\ result'.batch \in Batches
      /\ result'.severity \in Severities /\ result'.burst \in BOOLEAN
  BY <1>1 DEF Outcome
<1>6. result'.fingerprint \in Kinds \cup {Unknown} /\ result'.duplicate \in BOOLEAN
  BY <1>1, <1>2, VerdictsBoolean DEF Answered, GaveUp
<1>7. result'.since \in Moments /\ result'.sinceFresh \in Moments
  <2>1. sighted[k] \in Moments /\ sighted[k] <= clock
    BY <1>2, <1>3 DEF IInv, Remembered
  <2>2. fresh[k] \in Moments /\ fresh[k] <= clock
    <3>1. fresh[k] \in Moments /\ seen[k] \in Moments
      BY <1>2, <1>3
    <3>2. fresh[k] # Never => seen[k] # Never /\ fresh[k] <= seen[k] /\ sighted[k] = seen[k]
      BY <1>2 DEF IInv, Remembered
    <3> QED
      BY <1>3, <2>1, <3>1, <3>2 DEF Moments, Never
  <2> QED
    BY <1>1, <1>3, <2>1, <2>2, SinceTyped, ZenonT(60) DEF Outcome
<1>8. seen' \in [Kinds -> Moments] /\ sighted' \in [Kinds -> Moments] /\ fresh' \in [Kinds -> Moments]
  BY <1>3, <1>4
<1>9. TypeOK'
  BY <1>3, <1>5, <1>6, <1>7, <1>8 DEF TypeOK
<1>10. Remembered'
  <2> SUFFICES ASSUME NEW j \in Kinds
               PROVE  /\ sighted'[j] <= clock'
                      /\ seen'[j] # Never => sighted'[j] = seen'[j]
                      /\ fresh'[j] # Never => seen'[j] # Never /\ fresh'[j] <= seen'[j]
    BY DEF Remembered
  <2>1. /\ sighted[j] <= clock
        /\ seen[j] # Never => sighted[j] = seen[j]
        /\ fresh[j] # Never => seen[j] # Never /\ fresh[j] <= seen[j]
    BY DEF IInv, Remembered
  <2>2. fresh[j] \in Moments /\ seen[j] \in Moments
    BY <1>3
  <2>3. CASE j = k
    <3>1. seen'[j] = clock /\ sighted'[j] = clock /\ (fresh'[j] = fresh[j] \/ fresh'[j] = clock)
      BY <1>2, <1>3, <1>4, <2>3
    <3> QED
      BY <1>3, <2>1, <2>2, <3>1 DEF Moments, Never
  <2>4. CASE j # k
    <3>1. seen'[j] = seen[j] /\ sighted'[j] = sighted[j] /\ fresh'[j] = fresh[j]
      BY <1>2, <1>3, <1>4, <2>4
    <3> QED
      BY <1>3, <2>1, <3>1
  <2> QED
    BY <2>3, <2>4
<1> QED
  BY <1>9, <1>10 DEF IInv

(* Every step does.                                                        *)
LEMMA StepKeeps == ASSUME IInv, [Next]_vars PROVE IInv'
<1> USE TriageAssumption DEF TriageAssumption
<1>1. CASE \E batch \in Batches : Triage(batch)
  BY <1>1, TriageKeeps
<1>2. CASE HandOver
  BY <1>2 DEF HandOver, IInv, TypeOK, Remembered
<1>3. CASE Restart
  <2>1. TypeOK'
    BY <1>3 DEF Restart, IInv, TypeOK, Moments
  <2>2. Remembered'
    BY <1>3 DEF Restart, IInv, Remembered
  <2> QED
    BY <2>1, <2>2 DEF IInv
<1>4. CASE Tick
  <2>1. clock' = clock + 1 /\ clock \in 0..MaxClock /\ clock < MaxClock
    BY <1>4 DEF Tick, IInv, TypeOK
  <2>2. UNCHANGED <<seen, result, sighted, fresh>>
    BY <1>4 DEF Tick
  <2>3. TypeOK'
    BY <2>1, <2>2 DEF IInv, TypeOK
  <2>4. Remembered'
    <3> SUFFICES ASSUME NEW k \in Kinds PROVE sighted[k] <= clock + 1
      BY <2>1, <2>2 DEF IInv, Remembered
    <3>1. sighted[k] \in Moments /\ sighted[k] <= clock
      BY DEF IInv, TypeOK, Remembered
    <3> QED
      BY <2>1, <3>1 DEF Moments, Never
  <2> QED
    BY <2>3, <2>4 DEF IInv
<1>5. CASE UNCHANGED vars
  BY <1>5 DEF vars, IInv, TypeOK, Remembered
<1> QED
  BY <1>1, <1>2, <1>3, <1>4, <1>5 DEF Next

(* The cache and the histories agree in every reachable state.             *)
THEOREM Invariance == Spec => []IInv
<1>1. Init => IInv
  BY TriageAssumption DEF TriageAssumption, Init, IInv, TypeOK, Remembered, Moments, Never
<1> QED
  BY <1>1, StepKeeps, PTL DEF Spec

(* The triage agent's cache, result and histories keep their types.        *)
THEOREM TypeCorrect == Spec => []TypeOK
<1>1. IInv => TypeOK
  BY DEF IInv
<1> QED
  BY <1>1, Invariance, PTL
-----------------------------------------------------------------------------
(* A property of the last result holds of every result if a triage         *)
(* establishes it, since nothing else makes one.                           *)
LEMMA OthersKeepResult ==
  ASSUME [Next]_vars, ~ \E batch \in Batches : Triage(batch)
  PROVE  result' = result \/ result' = None
  BY DEF Next, HandOver, Restart, Tick, vars

(* A triage reports as new only what it last so reported a window ago, and *)
(* as a duplicate only what it saw within the window.                      *)
LEMMA TriageDedups ==
  ASSUME IInv, NEW batch \in Batches, Triage(batch) PROVE DedupExact'
<1> DEFINE k == Primary(batch)
<1> USE TriageAssumption DEF TriageAssumption
<1>1. Outcome(batch) /\ (Answered(batch) \/ GaveUp)
  BY Triaged
<1>2. k \in Kinds
  BY PrimaryExists
<1>3. /\ clock \in Nat /\ seen[k] \in Moments /\ sighted[k] \in Moments /\ fresh[k] \in Moments
      /\ sighted[k] <= clock
      /\ seen[k] # Never => sighted[k] = seen[k]
      /\ fresh[k] # Never => seen[k] # Never /\ fresh[k] <= seen[k]
  BY <1>2 DEF IInv, TypeOK, Remembered
<1>4. /\ result'.batch = batch
      /\ result'.since = Since(sighted[k]) /\ result'.sinceFresh = Since(fresh[k])
  BY <1>1 DEF Outcome
<1>5. CASE GaveUp
  <2>1. FreshOnesApart'
    BY <1>5 DEF FreshOnesApart, GaveUp
  <2>2. DuplicateHasPredecessor'
    BY <1>5 DEF DuplicateHasPredecessor, GaveUp
  <2> QED
    BY <2>1, <2>2 DEF DedupExact
<1>6. CASE Answered(batch)
  <2>1. result'.duplicate = IsDuplicate(k) /\ result'.fingerprint = k
    BY <1>6 DEF Answered
  <2>2. ASSUME ~IsDuplicate(k) PROVE Since(fresh[k]) = Never \/ Since(fresh[k]) >= DedupWindow
    BY <1>3, <2>2 DEF IsDuplicate, Since, Moments, Never
  <2>3. ASSUME IsDuplicate(k) PROVE Since(sighted[k]) \in 0..(DedupWindow - 1)
    BY <1>3, <2>3 DEF IsDuplicate, Since, Moments, Never
  <2>4. FreshOnesApart'
    BY <1>4, <2>1, <2>2 DEF FreshOnesApart
  <2>5. DuplicateHasPredecessor'
    BY <1>4, <2>1, <2>3 DEF DuplicateHasPredecessor
  <2> QED
    BY <2>4, <2>5 DEF DedupExact
<1> QED
  BY <1>1, <1>5, <1>6

(* Deduplication is exact: one report as new per window and fingerprint,   *)
(* and no duplicate without a sighting within the window, for any alerts,  *)
(* any window and any number of incidents, failed ones included.           *)
THEOREM Deduplicates == Spec => []DedupExact
<1>1. Init => DedupExact
  BY DEF Init, DedupExact, FreshOnesApart, DuplicateHasPredecessor
<1>2. IInv /\ DedupExact /\ [Next]_vars => DedupExact'
  <2> SUFFICES ASSUME IInv, DedupExact, [Next]_vars PROVE DedupExact'
    OBVIOUS
  <2>1. CASE \E batch \in Batches : Triage(batch)
    BY <2>1, TriageDedups
  <2>2. CASE ~ \E batch \in Batches : Triage(batch)
    <3>1. result' = result \/ result' = None
      BY <2>2, OthersKeepResult
    <3> QED
      BY <3>1 DEF DedupExact, FreshOnesApart, DuplicateHasPredecessor
  <2> QED
    BY <2>1, <2>2
<1> QED
  BY <1>1, <1>2, Invariance, PTL DEF Spec
-----------------------------------------------------------------------------
(* A simulated severity is what the keywords and the volume warrant.       *)
LEMMA RuleGrounded ==
  ASSUME NEW batch \in Batches
  PROVE  LET shown == UNION {KeywordsOf[batch[i].kind] : i \in DOMAIN batch}
         IN  /\ 1 \in shown => RuleSeverity(batch) = 1
             /\ RuleSeverity(batch) <= 2 => shown \cap {1, 2} # {} \/ Len(batch) >= 3
<1> DEFINE shown == UNION {KeywordsOf[batch[i].kind] : i \in DOMAIN batch}
<1>1. shown = Keywords(batch) /\ shown \subseteq Severities
  BY KeywordsTyped DEF Keywords, KindsIn
<1>2. Len(batch) \in Nat
  BY BatchTyped
<1>3. /\ 1 \in shown => RuleSeverity(batch) = 1
      /\ RuleSeverity(batch) <= 2 => shown \cap {1, 2} # {} \/ Len(batch) >= 3
  <2> HIDE DEF shown
  <2>1. CASE shown # {}
    <3>1. Min(shown) \in shown /\ \A y \in shown : Min(shown) <= y
      BY <1>1, <2>1, MinLeast DEF Severities
    <3>2. RuleSeverity(batch) = Min(shown)
      BY <1>1, <2>1 DEF RuleSeverity
    <3> QED
      BY <1>1, <3>1, <3>2 DEF Severities
  <2>2. CASE shown = {}
    BY <1>1, <1>2, <2>2 DEF RuleSeverity
  <2> QED
    BY <2>1, <2>2
<1> QED
  BY <1>3

(* Simulated triage answers P1 exactly as its keywords demand, for any     *)
(* keywords and batches.                                                   *)
THEOREM SeveritiesGrounded == Spec => []SeverityGrounded
<1>1. Init => SeverityGrounded
  BY DEF Init, SeverityGrounded
<1>2. SeverityGrounded /\ [Next]_vars => SeverityGrounded'
  <2> SUFFICES ASSUME SeverityGrounded, [Next]_vars PROVE SeverityGrounded'
    OBVIOUS
  <2>1. ASSUME NEW batch \in Batches, Triage(batch) PROVE SeverityGrounded'
    <3>1. Outcome(batch) /\ (Answered(batch) \/ GaveUp)
      BY <2>1, Triaged
    <3>2. result'.batch = batch
      BY <3>1 DEF Outcome
    <3>3. CASE GaveUp
      BY <3>3 DEF GaveUp, SeverityGrounded
    <3>4. CASE Answered(batch)
      BY <3>2, <3>4, RuleGrounded DEF Answered, SeverityGrounded
    <3> QED
      BY <3>1, <3>3, <3>4
  <2>2. CASE ~ \E batch \in Batches : Triage(batch)
    <3>1. result' = result \/ result' = None
      BY <2>2, OthersKeepResult
    <3> QED
      BY <3>1 DEF SeverityGrounded
  <2> QED
    BY <2>1, <2>2
<1> QED
  BY <1>1, <1>2, PTL DEF Spec
-----------------------------------------------------------------------------
(* An edge joins an earlier to a later node of the same namespace.         *)
LEMMA EdgeIff ==
  ASSUME NEW nodes, NEW i \in DOMAIN nodes, NEW j \in DOMAIN nodes
  PROVE  <<i, j>> \in Edges(nodes) <=> i < j /\ nodes[i].namespace = nodes[j].namespace
<1>1. <<i, j>> \in (DOMAIN nodes) \X (DOMAIN nodes)
  OBVIOUS
<1> QED
  BY <1>1 DEF Edges

(* The root cause exists: no node has a higher score.                      *)
LEMMA RootExists ==
  ASSUME NEW batch \in Batches
  PROVE  LET root == RootCause(Nodes(batch))
         IN  /\ root \in DOMAIN batch
             /\ \A i \in DOMAIN batch : HintOf[batch[root].kind] <= HintOf[batch[i].kind]
<1> DEFINE D == DOMAIN batch
           root == RootCause(Nodes(batch))
           score(i) == Nodes(batch)[i].score
           hint == [i \in D |-> HintOf[batch[i].kind]]
           self == [i \in D |-> i]
           Wins(i) == \A j \in D : score(i) > score(j) \/ (score(i) = score(j) /\ i <= j)
<1>1. D # {} /\ D \subseteq Nat
  BY BatchTyped
<1>2. \A i \in D : HintOf[batch[i].kind] \in 1..4
  BY BatchTyped, TriageAssumption DEF TriageAssumption, Severities
<1>3. DOMAIN Nodes(batch) = D /\ \A i \in D : score(i) = 5 - HintOf[batch[i].kind]
  BY DEF Nodes
<1>4. hint \in [D -> Nat] /\ self \in [D -> Nat]
  BY <1>1, <1>2
<1>5. PICK i \in D : \A j \in D : hint[i] < hint[j] \/ (hint[i] = hint[j] /\ self[i] <= self[j])
  <2> HIDE DEF D, hint, self
  <2> QED
    BY <1>1, <1>4, LeastOfTwo
<1>6. Wins(i)
  <2> SUFFICES ASSUME NEW j \in D
               PROVE  score(i) > score(j) \/ (score(i) = score(j) /\ i <= j)
    OBVIOUS
  <2>1. \/ HintOf[batch[i].kind] < HintOf[batch[j].kind]
        \/ HintOf[batch[i].kind] = HintOf[batch[j].kind] /\ i <= j
    BY <1>5
  <2>2. score(i) = 5 - HintOf[batch[i].kind] /\ score(j) = 5 - HintOf[batch[j].kind]
    BY <1>3
  <2>3. HintOf[batch[i].kind] \in 1..4 /\ HintOf[batch[j].kind] \in 1..4
    BY <1>2
  <2> QED
    BY <2>1, <2>2, <2>3
<1>7. root = CHOOSE r \in D : Wins(r)
  BY <1>3 DEF RootCause
<1>8. root \in D /\ Wins(root)
  <2> HIDE DEF Wins, root
  <2> QED
    BY <1>6, <1>7
<1>9. ASSUME NEW j \in D PROVE HintOf[batch[root].kind] <= HintOf[batch[j].kind]
  <2>1. score(root) >= score(j)
    <3>1. score(root) > score(j) \/ score(root) = score(j)
      BY <1>8
    <3>2. score(root) \in Int /\ score(j) \in Int
      BY <1>2, <1>3, <1>8
    <3> QED
      BY <3>1, <3>2
  <2>2. score(root) = 5 - HintOf[batch[root].kind] /\ score(j) = 5 - HintOf[batch[j].kind]
    BY <1>3, <1>8
  <2>3. HintOf[batch[root].kind] \in 1..4 /\ HintOf[batch[j].kind] \in 1..4
    BY <1>2, <1>8
  <2> QED
    BY <2>1, <2>2, <2>3
<1> QED
  BY <1>8, <1>9

(* The edges of a batch relate its alerts by namespace, in both directions.*)
LEMMA EdgesTransitive ==
  ASSUME NEW batch \in Batches
  PROVE  LET E == Edges(Nodes(batch))
             related(i, j) == i = j \/ <<i, j>> \in E \/ <<j, i>> \in E
         IN  \A i, j, k \in DOMAIN batch : related(i, j) /\ related(j, k) => related(i, k)
<1> DEFINE E == Edges(Nodes(batch))
           related(i, j) == i = j \/ <<i, j>> \in E \/ <<j, i>> \in E
           place(i) == Nodes(batch)[i].namespace
<1>1. DOMAIN batch \subseteq Nat /\ DOMAIN Nodes(batch) = DOMAIN batch
  BY BatchTyped DEF Nodes
<1>2. \A i, j \in DOMAIN batch : <<i, j>> \in E <=> i < j /\ place(i) = place(j)
  BY <1>1, EdgeIff
<1>3. \A i, j \in DOMAIN batch : related(i, j) <=> place(i) = place(j) \/ i = j
  <2> HIDE DEF E, place
  <2> SUFFICES ASSUME NEW i \in DOMAIN batch, NEW j \in DOMAIN batch
               PROVE  related(i, j) <=> place(i) = place(j) \/ i = j
    OBVIOUS
  <2>1. i \in Nat /\ j \in Nat
    BY <1>1
  <2>2. i < j \/ j < i \/ i = j
    BY <2>1
  <2> QED
    BY <1>2, <2>2
<1>4. \A i, j, k \in DOMAIN batch : related(i, j) /\ related(j, k) => related(i, k)
  <2> HIDE DEF related, place
  <2> QED
    BY <1>3
<1> QED
  BY <1>4

(* For any alerts and hints, the graph's groups are the namespaces and its *)
(* root cause is an alert that none is worse than.                         *)
THEOREM GraphsSound == Spec => []GraphSound
<1>1. Init => GraphSound
  BY DEF Init, GraphSound
<1>2. GraphSound /\ [Next]_vars => GraphSound'
  <2> SUFFICES ASSUME GraphSound, [Next]_vars PROVE GraphSound'
    OBVIOUS
  <2>1. ASSUME NEW batch \in Batches, Triage(batch) PROVE GraphSound'
    <3>1. Outcome(batch) /\ (Answered(batch) \/ GaveUp)
      BY <2>1, Triaged
    <3>2. result'.batch = batch
      BY <3>1 DEF Outcome
    <3>3. CASE GaveUp
      BY <3>3 DEF GaveUp, GraphSound
    <3>4. CASE Answered(batch)
      <4>1. /\ result'.graph.edges = Edges(Nodes(batch))
            /\ result'.graph.root = RootCause(Nodes(batch))
        BY <3>4 DEF Answered, CorrelationGraph
      <4> QED
        BY <3>2, <4>1, EdgesTransitive, RootExists DEF GraphSound
    <3> QED
      BY <3>1, <3>3, <3>4
  <2>2. CASE ~ \E batch \in Batches : Triage(batch)
    <3>1. result' = result \/ result' = None
      BY <2>2, OthersKeepResult
    <3> QED
      BY <3>1 DEF GraphSound
  <2> QED
    BY <2>1, <2>2
<1> QED
  BY <1>1, <1>2, PTL DEF Spec
-----------------------------------------------------------------------------
(* Of a finite set there is a subset of every size up to its own.          *)
LEMMA SubsetOfSize ==
  ASSUME NEW S, IsFiniteSet(S), NEW n \in 0..Cardinality(S)
  PROVE  \E T \in SUBSET S : Cardinality(T) = n
<1> DEFINE m == Cardinality(S)
<1>1. m \in Nat /\ ExistsBijection(1..m, S)
  BY FS_CardinalityType
<1> HIDE DEF m
<1>2. PICK f \in Bijection(1..m, S) : TRUE
  BY <1>1 DEF ExistsBijection
<1>3. /\ f \in [1..m -> S]
      /\ \A a, b \in 1..m : f[a] = f[b] => a = b
  BY <1>2 DEF Bijection, Injection, IsInjective
<1> DEFINE T == {f[i] : i \in 1..n}
           g == [i \in 1..n |-> f[i]]
<1>4. n \in Nat /\ 1..n \subseteq 1..m
  BY <1>1 DEF m
<1>5. T \subseteq S
  BY <1>3, <1>4
<1>6. g \in Bijection(1..n, T)
  BY <1>3, <1>4 DEF Bijection, Injection, Surjection, IsInjective
<1>7. IsFiniteSet(1..n) /\ Cardinality(1..n) = n
  BY <1>4, FS_Interval
<1>8. ExistsBijection(1..n, T)
  BY <1>6 DEF ExistsBijection
<1>9. Cardinality(T) = n
  <2> HIDE DEF T
  <2> QED
    BY <1>7, <1>8, FS_Bijection
<1> QED
  BY <1>5, <1>9

(* The count is that of the fullest row, and no row is fuller.             *)
LEMMA BurstCountIsMax ==
  ASSUME NEW times, IsFiniteSet(DOMAIN times)
  PROVE  /\ \A i \in DOMAIN times : Cardinality(Near(times, i)) <= BurstCount(times)
         /\ BurstCount(times) = 0 \/ \E i \in DOMAIN times : BurstCount(times) = Cardinality(Near(times, i))
         /\ BurstCount(times) \in Nat
<1> DEFINE D == DOMAIN times
           row(i) == Cardinality(Near(times, i))
           rows == {0} \cup {row(i) : i \in D}
<1>1. Cardinality(D) \in Nat
  BY FS_CardinalityType
<1>2. ASSUME NEW i \in D PROVE row(i) \in 0..Cardinality(D)
  <2>1. Near(times, i) \in SUBSET D
    BY DEF Near
  <2>2. Cardinality(Near(times, i)) \in Nat /\ Cardinality(Near(times, i)) <= Cardinality(D)
    BY <2>1, FS_Subset, FS_CardinalityType
  <2> QED
    BY <1>1, <2>2
<1>3. rows \subseteq 0..Cardinality(D) /\ rows # {}
  BY <1>1, <1>2
<1>4. BurstCount(times) = Max(rows)
  BY DEF BurstCount
<1>5. Max(rows) \in rows /\ \A y \in rows : y <= Max(rows)
  <2> HIDE DEF rows
  <2> QED
    BY <1>1, <1>3, MaxGreatest
<1>6. \A i \in D : row(i) \in rows
  OBVIOUS
<1>7. BurstCount(times) \in Nat
  BY <1>1, <1>3, <1>4, <1>5
<1> QED
  BY <1>4, <1>5, <1>6, <1>7

(* What a batch's start times say, when all of them are times.             *)
BracketedBy(batch, burst) ==
  LET within(span, S) == \A i, j \in S : batch[i].at - batch[j].at <= span
      groups == {S \in SUBSET (DOMAIN batch) : Cardinality(S) = BurstThreshold}
  IN  /\ burst => \E S \in groups : within(2 * BurstWindow, S)
      /\ (\E S \in groups : within(BurstWindow, S)) => burst

(* A full row is a group within twice the window; a group within the       *)
(* window is part of the row of each of its alerts.                        *)
LEMMA BurstIsBracketed ==
  ASSUME NEW batch \in Batches, \A i \in DOMAIN batch : batch[i].at # Absurd
  PROVE  BracketedBy(batch, IsBurst(StartTimes(batch)))
<1> DEFINE D == DOMAIN batch
           times == StartTimes(batch)
           groups == {S \in SUBSET D : Cardinality(S) = BurstThreshold}
<1>1. DOMAIN times = D /\ \A i \in D : times[i] = batch[i].at
  BY DEF StartTimes
<1>2. IsFiniteSet(D)
  BY BatchTyped, FS_Interval
<1>3. \A i \in D : times[i] \in Nat
  <2> SUFFICES ASSUME NEW i \in D PROVE times[i] \in Nat
    OBVIOUS
  <2>1. batch[i] \in Alerts /\ batch[i].at # Absurd
    BY BatchTyped
  <2> QED
    BY <1>1, <2>1 DEF Alerts
<1>4. BurstThreshold \in Nat \ {0} /\ BurstWindow \in Nat
  BY DetectorAssumption
<1>5. /\ \A i \in D : Cardinality(Near(times, i)) <= BurstCount(times)
      /\ BurstCount(times) = 0 \/ \E i \in D : BurstCount(times) = Cardinality(Near(times, i))
      /\ BurstCount(times) \in Nat
  <2> HIDE DEF times, D
  <2> QED
    BY <1>1, <1>2, BurstCountIsMax
<1>6. \A i, j \in D : j \in Near(times, i) <=>
        times[i] - times[j] <= BurstWindow /\ times[j] - times[i] <= BurstWindow
  <2> SUFFICES ASSUME NEW i \in D, NEW j \in D
               PROVE  j \in Near(times, i) <=>
                        times[i] - times[j] <= BurstWindow /\ times[j] - times[i] <= BurstWindow
    OBVIOUS
  <2>1. j \in Near(times, i) <=> Apart(times[i], times[j]) <= BurstWindow
    BY <1>1 DEF Near
  <2>2. times[i] \in Nat /\ times[j] \in Nat
    BY <1>3
  <2> HIDE DEF times
  <2> QED
    BY <1>4, <2>1, <2>2 DEF Apart
<1>7. \A i \in D : Near(times, i) \subseteq D
  BY <1>1 DEF Near
<1>8. IsBurst(times) => \E S \in groups : \A i, j \in S : times[i] - times[j] <= 2 * BurstWindow
  <2> HIDE DEF times, D
  <2> SUFFICES ASSUME IsBurst(times)
               PROVE  \E S \in groups : \A i, j \in S : times[i] - times[j] <= 2 * BurstWindow
    OBVIOUS
  <2>1. BurstCount(times) >= BurstThreshold
    BY DEF IsBurst
  <2>2. PICK i \in D : BurstCount(times) = Cardinality(Near(times, i))
    BY <1>4, <1>5, <2>1
  <2>3. IsFiniteSet(Near(times, i)) /\ BurstThreshold \in 0..Cardinality(Near(times, i))
    BY <1>2, <1>4, <1>5, <1>7, <2>1, <2>2, FS_Subset
  <2>4. PICK S \in SUBSET Near(times, i) : Cardinality(S) = BurstThreshold
    BY <2>3, SubsetOfSize
  <2>5. S \in groups
    BY <1>7, <2>4
  <2>6. ASSUME NEW a \in S, NEW b \in S PROVE times[a] - times[b] <= 2 * BurstWindow
    <3>1. a \in D /\ b \in D /\ a \in Near(times, i) /\ b \in Near(times, i)
      BY <1>7, <2>4
    <3>2. times[a] - times[i] <= BurstWindow /\ times[i] - times[b] <= BurstWindow
      BY <1>6, <3>1
    <3>3. times[a] \in Nat /\ times[b] \in Nat /\ times[i] \in Nat
      BY <1>3, <3>1
    <3> QED
      BY <1>4, <3>2, <3>3
  <2> QED
    BY <2>5, <2>6
<1>9. (\E S \in groups : \A i, j \in S : times[i] - times[j] <= BurstWindow) => IsBurst(times)
  <2> HIDE DEF times, D
  <2> SUFFICES ASSUME NEW S \in groups, \A i, j \in S : times[i] - times[j] <= BurstWindow
               PROVE  IsBurst(times)
    OBVIOUS
  <2>1. S \subseteq D /\ Cardinality(S) = BurstThreshold
    OBVIOUS
  <2>2. PICK i \in S : TRUE
    BY <1>4, <2>1, FS_EmptySet
  <2>3. S \subseteq Near(times, i)
    BY <1>6, <2>1, <2>2
  <2>4. IsFiniteSet(Near(times, i))
    BY <1>2, <1>7, <2>1, <2>2, FS_Subset
  <2>5. Cardinality(S) <= Cardinality(Near(times, i))
    BY <2>3, <2>4, FS_Subset
  <2>6. Cardinality(Near(times, i)) \in Nat
    BY <2>4, FS_CardinalityType
  <2> QED
    BY <1>4, <1>5, <2>1, <2>2, <2>5, <2>6 DEF IsBurst
<1> QED
  BY <1>1, <1>8, <1>9 DEF BracketedBy

(* Bursts are reported as bracketed, for any window, threshold and batch.  *)
THEOREM BurstsBracketed == Spec => []BurstBracketed
<1>1. Init => BurstBracketed
  BY DEF Init, BurstBracketed
<1>2. BurstBracketed /\ [Next]_vars => BurstBracketed'
  <2> SUFFICES ASSUME BurstBracketed, [Next]_vars PROVE BurstBracketed'
    OBVIOUS
  <2>1. ASSUME NEW batch \in Batches, Triage(batch) PROVE BurstBracketed'
    <3>1. CASE result'.source = "failed"
      BY <3>1 DEF BurstBracketed
    <3>2. CASE result'.source # "failed"
      <4>1. /\ \A i \in DOMAIN batch : batch[i].at # Absurd
            /\ result'.batch = batch /\ result'.burst = IsBurst(StartTimes(batch))
        BY <2>1, <3>2 DEF Triage, GiveUp, Complete, Report
      <4>2. BracketedBy(batch, result'.burst)
        BY <4>1, BurstIsBracketed
      <4> QED
        BY <4>1, <4>2 DEF BracketedBy, BurstBracketed, Within, Groups
    <3> QED
      BY <3>1, <3>2
  <2>2. CASE ~ \E batch \in Batches : Triage(batch)
    <3>1. result' = result \/ result' = None
      BY <2>2, OthersKeepResult
    <3> QED
      BY <3>1 DEF BurstBracketed, Within, Groups
  <2> QED
    BY <2>1, <2>2
<1> QED
  BY <1>1, <1>2, PTL DEF Spec
-----------------------------------------------------------------------------
(* Without anomaly scores the risk stops short of HIGH, for every severity *)
(* a triage can answer, any number of alerts, with or without approvals    *)
(* that are pending.                                                       *)
THEOREM NeverHigh == Spec => []AnalysisNeverHigh
<1>1. TypeOK => AnalysisNeverHigh
  <2> SUFFICES ASSUME TypeOK, result # None, NEW alerts \in Nat, NEW pending \in BOOLEAN
               PROVE  RiskLevel(EscalationRisk(result.severity, alerts, pending)) \in {"LOW", "MEDIUM"}
    BY DEF AnalysisNeverHigh
  <2> DEFINE volume == {200, 20 * alerts}
             risk == EscalationRisk(result.severity, alerts, pending)
  <2>1. result.severity \in 1..4
    BY DEF TypeOK, Severities
  <2>2. SeverityContribution[result.severity] \in 30..240
    BY <2>1 DEF SeverityContribution
  <2>3. Min(volume) \in Nat /\ Min(volume) <= 200
    <3>1. volume \subseteq Nat /\ volume # {}
      OBVIOUS
    <3> QED
      BY <3>1, MinLeast
  <2>4. risk \in Nat /\ risk <= 540
    BY <2>2, <2>3 DEF EscalationRisk
  <2> HIDE DEF risk
  <2>5. RiskLevel(risk) \in {"LOW", "MEDIUM"}
    BY <2>4 DEF RiskLevel
  <2> QED
    BY <2>5 DEF risk
<1> QED
  BY <1>1, TypeCorrect, PTL
-----------------------------------------------------------------------------
(* The remediation of one incident.                                        *)

(* The operators an instance brings are those that are here.               *)
LEMMA InstancedOperators ==
  \A S : /\ Runbook!Cardinality(S) = Cardinality(S) /\ Runbook!Range(S) = Range(S)
         /\ Runbook!Max(S) = Max(S) /\ Runbook!Min(S) = Min(S)
BY DEF Runbook!Cardinality, Cardinality, Runbook!Range, Range, Runbook!Max, Max, Runbook!Min, Min

(* What is asked of an order of a finite set.                              *)
Ordering(order, S) ==
  /\ order \in [1..Cardinality(S) -> S] /\ Range(order) = S
  /\ \A m, n \in DOMAIN order : m < n => order[m] < order[n]

(* Every set of positions has an order: its largest comes last.            *)
LEMMA OrderExists ==
  ASSUME NEW N \in Nat, NEW S, S \subseteq 1..N
  PROVE  IsFiniteSet(S) /\ Cardinality(S) \in Nat /\ \E order : Ordering(order, S)
<1> DEFINE T(n) == S \cap (1..n)
           bad == {n \in 0..N : ~ \E order : Ordering(order, T(n))}
<1>1. \A n \in 0..N : IsFiniteSet(T(n)) /\ Cardinality(T(n)) \in Nat
  <2> SUFFICES ASSUME NEW n \in 0..N PROVE IsFiniteSet(T(n)) /\ Cardinality(T(n)) \in Nat
    OBVIOUS
  <2>1. IsFiniteSet(1..n)
    BY FS_Interval
  <2>2. IsFiniteSet(T(n))
    BY <2>1, FS_Subset
  <2> QED
    BY <2>2, FS_CardinalityType
<1>2. bad = {}
  <2> SUFFICES ASSUME bad # {} PROVE FALSE
    OBVIOUS
  <2>1. PICK n \in bad : \A k \in bad : n <= k
    <3>1. bad \subseteq Nat
      OBVIOUS
    <3> HIDE DEF bad
    <3> QED
      BY <3>1, LeastExists
  <2>2. n # 0
    <3>1. T(0) = {}
      OBVIOUS
    <3>2. Cardinality({}) = 0
      BY FS_EmptySet
    <3>3. Ordering(<<>>, {})
      BY <3>2 DEF Ordering, Range
    <3> QED
      BY <3>1, <3>3
  <2>3. n \in 1..N /\ n - 1 \in 0..N /\ n - 1 < n
    BY <2>2
  <2>4. PICK order : Ordering(order, T(n - 1))
    <3>1. n - 1 \notin bad
      BY <2>1, <2>3
    <3> QED
      BY <2>3, <3>1
  <2>5. CASE n \notin S
    <3>1. T(n) = T(n - 1)
      BY <2>3, <2>5
    <3> QED
      BY <2>4, <3>1
  <2>6. CASE n \in S
    <3> DEFINE c == Cardinality(T(n - 1))
               more == [k \in 1..(c + 1) |-> IF k = c + 1 THEN n ELSE order[k]]
    <3>1. T(n) = T(n - 1) \cup {n} /\ n \notin T(n - 1) /\ \A i \in T(n - 1) : i < n
      BY <2>3, <2>6
    <3>2. c \in Nat /\ Cardinality(T(n)) = c + 1
      BY <1>1, <2>3, <3>1, FS_AddElement
    <3> HIDE DEF T
    <3>3. /\ order \in [1..c -> T(n - 1)] /\ Range(order) = T(n - 1)
          /\ \A m, k \in 1..c : m < k => order[m] < order[k]
      BY <2>4 DEF Ordering
    <3> HIDE DEF c
    <3>4. \A k \in 1..(c + 1) : k = c + 1 \/ k \in 1..c
      BY <3>2
    <3>5. more \in [1..(c + 1) -> T(n)]
      BY <3>1, <3>3, <3>4
    <3>6. Range(more) = T(n)
      <4>1. \A i \in T(n - 1) : \E k \in 1..c : order[k] = i
        BY <3>3 DEF Range
      <4>2. \A k \in 1..c : k \in 1..(c + 1) /\ k # c + 1 /\ more[k] = order[k]
        BY <3>2
      <4>3. c + 1 \in 1..(c + 1) /\ more[c + 1] = n
        BY <3>2
      <4>4. \A i \in T(n) : \E k \in 1..(c + 1) : more[k] = i
        BY <3>1, <4>1, <4>2, <4>3
      <4> HIDE DEF more
      <4> QED
        BY <3>5, <4>4 DEF Range
    <3>7. ASSUME NEW m \in 1..(c + 1), NEW k \in 1..(c + 1), m < k PROVE more[m] < more[k]
      <4>1. m \in 1..c
        BY <3>2, <3>7
      <4>2. CASE k = c + 1
        <5>1. more[k] = n /\ more[m] = order[m] /\ order[m] \in T(n - 1)
          BY <3>2, <3>3, <4>1, <4>2
        <5> QED
          BY <3>1, <5>1
      <4>3. CASE k \in 1..c
        BY <3>2, <3>3, <3>7, <4>1, <4>3
      <4> QED
        BY <3>4, <4>2, <4>3
    <3>8. DOMAIN more = 1..(c + 1)
      OBVIOUS
    <3> HIDE DEF more
    <3>9. Ordering(more, T(n))
      BY <3>2, <3>5, <3>6, <3>7, <3>8 DEF Ordering
    <3> QED
      BY <3>9 DEF T
  <2> QED
    BY <2>5, <2>6
<1>3. T(N) = S
  OBVIOUS
<1>4. N \in 0..N
  OBVIOUS
<1> QED
  BY <1>1, <1>2, <1>3, <1>4

(* So InOrder finds one.                                                   *)
LEMMA InOrderOrders ==
  ASSUME NEW N \in Nat, NEW S, S \subseteq 1..N
  PROVE  Cardinality(S) \in Nat /\ Ordering(Runbook!InOrder(S), S)
<1>1. Runbook!InOrder(S) = CHOOSE order : Ordering(order, S)
  BY InstancedOperators DEF Runbook!InOrder, Ordering
<1> QED
  BY <1>1, OrderExists

(* An action as RunbookProposal has it.                                    *)
Action == [step : Nat, destructive : BOOLEAN, hitl : BOOLEAN, executed : BOOLEAN]

(* The actions and what is known of each.                                  *)
RunbookTyped ==
  /\ stage \in {"diagnosed", "planned", "executed", "waiting", "decided", "settled", "reported"}
  /\ source \in {"none", "model", "simulation"} /\ cause \in Causes
  /\ \A i \in DOMAIN actions : actions[i] \in Action
  /\ \E n \in Nat : DOMAIN actions = 1..n
  /\ verdicts \in [DOMAIN actions -> Runbook!Statuses]
  /\ claimed \subseteq DOMAIN actions

(* Nothing is asked before its time, and nothing of a safe action.         *)
AskedInTime ==
  \A i \in DOMAIN actions :
    stage \in {"diagnosed", "planned", "executed"} \/ i \notin Runbook!Destructive => verdicts[i] = "none"

(* How far an action the model did not call executed is, stage by stage.   *)
ExecutedInTime ==
  \A i \in (DOMAIN actions) \ claimed :
    /\ stage \in {"diagnosed", "planned"} => ~actions[i].executed
    /\ stage \in {"executed", "waiting", "decided"} => (actions[i].executed <=> i \notin Runbook!Destructive)
    /\ stage \in {"settled", "reported"} =>
         (actions[i].executed <=> i \notin Runbook!Destructive \/ verdicts[i] = "APPROVED")

(* The inductive invariant.                                                *)
RunbookInv == RunbookTyped /\ AskedInTime /\ ExecutedInTime

(* Templates are sequences of Boolean values, so a simulated runbook is a  *)
(* sequence of claims that none is executed.                               *)
LEMMA BuiltTyped ==
  ASSUME NEW template \in Seq(BOOLEAN)
  PROVE  /\ DOMAIN Runbook!BuildActions(template) = DOMAIN template
         /\ \A i \in DOMAIN template :
              /\ Runbook!BuildActions(template)[i] \in Runbook!Claims
              /\ Runbook!BuildActions(template)[i].executed = FALSE
              /\ Runbook!BuildActions(template)[i].destructive = template[i]
<1>1. DOMAIN template = 1..Len(template) /\ Len(template) \in Nat
  BY LenProperties
<1>2. \A i \in DOMAIN template : i \in Nat /\ template[i] \in BOOLEAN
  BY <1>1, ElementOfSeq
<1> QED
  BY <1>1, <1>2 DEF Runbook!BuildActions, Runbook!Claims

(* The re-verification keeps a draft's steps and claims.                   *)
LEMMA VerifiedTyped ==
  ASSUME NEW draft, \A i \in DOMAIN draft : draft[i] \in Runbook!Claims
  PROVE  /\ DOMAIN Runbook!Verified(draft) = DOMAIN draft
         /\ \A i \in DOMAIN draft :
              /\ Runbook!Verified(draft)[i] \in Action
              /\ Runbook!Verified(draft)[i].destructive = draft[i].destructive
              /\ Runbook!Verified(draft)[i].executed = draft[i].executed
  BY DEF Runbook!Verified, Runbook!Claims, Action

(* A runbook, whoever made it.                                             *)
LEMMA ProposeKeeps ==
  ASSUME RunbookInv, NEW from \in {"model", "simulation"}, NEW draft,
         \A i \in DOMAIN draft : draft[i] \in Runbook!Claims,
         \E n \in Nat : DOMAIN draft = 1..n,
         Runbook!Propose(from, draft)
  PROVE  RunbookInv'
<1>1. /\ stage' = "planned" /\ source' = from /\ cause' = cause /\ actions' = Runbook!Verified(draft)
      /\ verdicts' = [i \in DOMAIN draft |-> "none"]
      /\ claimed' = {i \in DOMAIN draft : draft[i].executed}
  BY DEF Runbook!Propose
<1>2. DOMAIN actions' = DOMAIN draft
  BY <1>1, VerifiedTyped
<1>3. RunbookTyped'
  BY <1>1, <1>2, VerifiedTyped DEF RunbookInv, RunbookTyped, Runbook!Statuses
<1>4. AskedInTime'
  BY <1>1, <1>2 DEF AskedInTime
<1>5. ExecutedInTime'
  <2> SUFFICES ASSUME NEW i \in (DOMAIN actions') \ claimed' PROVE ~actions'[i].executed
    BY <1>1 DEF ExecutedInTime
  <2>1. i \in DOMAIN draft /\ ~draft[i].executed
    BY <1>1, <1>2
  <2>2. actions'[i].executed = draft[i].executed
    BY <1>1, <2>1, VerifiedTyped
  <2> QED
    BY <2>1, <2>2
<1> QED
  BY <1>3, <1>4, <1>5 DEF RunbookInv
-----------------------------------------------------------------------------
(* The runbook library.                                                    *)
LEMMA LibraryTyped ==
  /\ Runbook!Templates = 1..6
  /\ \A t \in Runbook!Templates : Runbook!Library[t] \in Seq(BOOLEAN) /\ Runbook!Keywords[t] \in 0..4
  /\ Runbook!DefaultTemplate \in Seq(BOOLEAN)
<1>1. Runbook!Templates = 1..6
  BY DEF Runbook!Templates, Runbook!Library
<1>2. \A t \in 1..6 : Runbook!Library[t] \in Seq(BOOLEAN)
  <2>1. /\ <<FALSE>> \in Seq(BOOLEAN) /\ <<FALSE, FALSE>> \in Seq(BOOLEAN)
        /\ <<TRUE, FALSE>> \in Seq(BOOLEAN) /\ <<TRUE, TRUE, FALSE>> \in Seq(BOOLEAN)
    OBVIOUS
  <2>2. /\ Runbook!Library[1] = <<FALSE, FALSE>> /\ Runbook!Library[2] = <<FALSE>> /\ Runbook!Library[3] = <<TRUE, FALSE>>
        /\ Runbook!Library[4] = <<TRUE, TRUE, FALSE>> /\ Runbook!Library[5] = <<FALSE>> /\ Runbook!Library[6] = <<FALSE>>
    BY DEF Runbook!Library
  <2> SUFFICES ASSUME NEW t \in 1..6 PROVE Runbook!Library[t] \in Seq(BOOLEAN)
    OBVIOUS
  <2>3. t = 1 \/ t = 2 \/ t = 3 \/ t = 4 \/ t = 5 \/ t = 6
    OBVIOUS
  <2> QED
    BY <2>1, <2>2, <2>3
<1>3. \A t \in 1..6 : Runbook!Keywords[t] \in 0..4
  BY DEF Runbook!Keywords
<1>4. Runbook!DefaultTemplate \in Seq(BOOLEAN)
  BY DEF Runbook!DefaultTemplate
<1> QED
  BY <1>1, <1>2, <1>3, <1>4

(* _select_template finds a template with the most matches, or takes the   *)
(* default if nothing matches.                                             *)
LEMMA SelectsBest ==
  ASSUME Runbook!RemediationAssumption, NEW hits \in Causes
  PROVE  /\ Runbook!SelectTemplate(hits) \in Seq(BOOLEAN)
         /\ IF \A t \in Runbook!Templates : hits[t] = 0 THEN Runbook!SelectTemplate(hits) = Runbook!DefaultTemplate
            ELSE \E t \in Runbook!Templates : /\ Runbook!SelectTemplate(hits) = Runbook!Library[t]
                                      /\ \A u \in Runbook!Templates : hits[u] <= hits[t]
<1> DEFINE counts == {hits[t] : t \in Runbook!Templates}
           best == Max(counts)
           winners == {t \in Runbook!Templates : hits[t] = best}
<1>1. \A t \in Runbook!Templates : hits[t] \in 0..4
  <2> SUFFICES ASSUME NEW t \in Runbook!Templates PROVE hits[t] \in 0..4
    OBVIOUS
  <2>1. hits[t] \in 0..Runbook!Keywords[t]
    BY DEF Runbook!RemediationAssumption
  <2>2. Runbook!Keywords[t] \in 0..4
    BY LibraryTyped
  <2> QED
    BY <2>1, <2>2
<1>2. best \in counts /\ \A y \in counts : y <= best
  <2>1. counts \subseteq 0..4 /\ counts # {} /\ 4 \in Nat
    BY <1>1, LibraryTyped
  <2> HIDE DEF counts
  <2> QED
    BY <2>1, MaxGreatest
<1>3. winners # {} /\ winners \subseteq Nat
  <2>1. PICK t \in Runbook!Templates : hits[t] = best
    BY <1>2
  <2>2. Runbook!Templates \subseteq Nat
    BY LibraryTyped
  <2> HIDE DEF best
  <2> QED
    BY <2>1, <2>2
<1>4. Min(winners) \in winners
  <2> HIDE DEF winners
  <2> QED
    BY <1>3, MinLeast
<1>5. Runbook!SelectTemplate(hits) = IF best = 0 THEN Runbook!DefaultTemplate ELSE Runbook!Library[Min(winners)]
  BY InstancedOperators DEF Runbook!SelectTemplate
<1>6. \A t \in Runbook!Templates : hits[t] <= best
  BY <1>2
<1> HIDE DEF best, counts
<1>7. CASE best = 0
  <2>1. \A t \in Runbook!Templates : hits[t] = 0
    BY <1>1, <1>6, <1>7
  <2> QED
    BY <1>5, <1>7, <2>1, LibraryTyped
<1>8. CASE best # 0
  <2>1. ~ \A t \in Runbook!Templates : hits[t] = 0
    BY <1>4, <1>8
  <2>2. PICK t \in Runbook!Templates : t = Min(winners) /\ hits[t] = best
    BY <1>4
  <2>3. Runbook!SelectTemplate(hits) = Runbook!Library[t] /\ \A u \in Runbook!Templates : hits[u] <= hits[t]
    BY <1>5, <1>6, <1>8, <2>2
  <2> QED
    BY <2>1, <2>3, LibraryTyped
<1> QED
  BY <1>7, <1>8
-----------------------------------------------------------------------------
(* A simulated runbook is still the template that was chosen for the cause.*)
AsTemplate ==
  source = "simulation" =>
    /\ DOMAIN actions = DOMAIN Runbook!SelectTemplate(cause)
    /\ \A i \in DOMAIN actions : actions[i].destructive = Runbook!SelectTemplate(cause)[i]

(* A step that changes no action but for its `executed`.                   *)
SameButExecuted ==
  /\ UNCHANGED <<source, cause, claimed>>
  /\ DOMAIN actions' = DOMAIN actions
  /\ \A i \in DOMAIN actions : /\ actions'[i] \in Action /\ actions'[i].step = actions[i].step
                               /\ actions'[i].destructive = actions[i].destructive

(* Planning: a draft of the model or a simulated runbook.                  *)
LEMMA PlanKeeps ==
  ASSUME Runbook!RemediationAssumption, RunbookInv, Runbook!Plan PROVE RunbookInv' /\ AsTemplate'
<1>1. cause \in Causes
  BY DEF RunbookInv, RunbookTyped
<1>2. ASSUME NEW draft \in Drafts, Runbook!Propose("model", draft) PROVE RunbookInv' /\ AsTemplate'
  <2>1. draft \in Seq(Runbook!Claims)
    BY DEF Runbook!RemediationAssumption
  <2>2. /\ \A i \in DOMAIN draft : draft[i] \in Runbook!Claims
        /\ \E n \in Nat : DOMAIN draft = 1..n
    BY <2>1, LenProperties, ElementOfSeq
  <2>3. source' = "model"
    BY <1>2 DEF Runbook!Propose
  <2> QED
    BY <1>2, <2>2, <2>3, ProposeKeeps DEF AsTemplate
<1>3. CASE Runbook!Propose("simulation", Runbook!BuildActions(Runbook!SelectTemplate(cause)))
  <2> DEFINE template == Runbook!SelectTemplate(cause)
             draft == Runbook!BuildActions(template)
  <2>1. template \in Seq(BOOLEAN)
    BY <1>1, SelectsBest
  <2>2. /\ DOMAIN draft = DOMAIN template
        /\ \A i \in DOMAIN draft : draft[i] \in Runbook!Claims /\ draft[i].destructive = template[i]
        /\ \E n \in Nat : DOMAIN draft = 1..n
    BY <2>1, BuiltTyped, LenProperties
  <2>3. actions' = Runbook!Verified(draft) /\ cause' = cause
    BY <1>3 DEF Runbook!Propose
  <2>4. /\ DOMAIN Runbook!Verified(draft) = DOMAIN draft
        /\ \A i \in DOMAIN draft : Runbook!Verified(draft)[i].destructive = draft[i].destructive
    <3> HIDE DEF draft
    <3> QED
      BY <2>2, VerifiedTyped
  <2>5. RunbookInv'
    <3> HIDE DEF draft
    <3>1. Runbook!Propose("simulation", draft)
      BY <1>3 DEF draft
    <3> QED
      BY <2>2, <3>1, ProposeKeeps
  <2>6. AsTemplate'
    <3>1. Runbook!SelectTemplate(cause)' = template
      BY <2>3 DEF Runbook!SelectTemplate
    <3> HIDE DEF draft, template
    <3> QED
      BY <2>2, <2>3, <2>4, <3>1 DEF AsTemplate, template
  <2> QED
    BY <2>5, <2>6
<1> QED
  BY <1>2, <1>3 DEF Runbook!Plan

(* The pass over the safe actions.                                         *)
LEMMA AutoExecuteKeeps ==
  ASSUME RunbookInv, Runbook!AutoExecute PROVE RunbookInv' /\ SameButExecuted
<1>1. /\ stage = "planned" /\ stage' = "executed" /\ UNCHANGED <<source, cause, verdicts, claimed>>
      /\ actions' = [i \in DOMAIN actions |->
                       IF i \in (DOMAIN actions) \ Runbook!Destructive
                       THEN [actions[i] EXCEPT !.executed = TRUE] ELSE actions[i]]
  BY DEF Runbook!AutoExecute
<1>2. \A i \in DOMAIN actions :
        /\ actions[i] \in Action
        /\ i \in Runbook!Destructive <=> actions[i].destructive
  BY DEF RunbookInv, RunbookTyped, Runbook!Destructive
<1>3. DOMAIN actions' = DOMAIN actions
  BY <1>1
<1>4. \A i \in DOMAIN actions :
        /\ actions'[i] \in Action /\ actions'[i].step = actions[i].step
        /\ actions'[i].destructive = actions[i].destructive
        /\ i \notin Runbook!Destructive => actions'[i].executed = TRUE
        /\ i \in Runbook!Destructive => actions'[i].executed = actions[i].executed
  <2> SUFFICES ASSUME NEW i \in DOMAIN actions
               PROVE  /\ actions'[i] \in Action /\ actions'[i].step = actions[i].step
                      /\ actions'[i].destructive = actions[i].destructive
                      /\ i \notin Runbook!Destructive => actions'[i].executed = TRUE
                      /\ i \in Runbook!Destructive => actions'[i].executed = actions[i].executed
    OBVIOUS
  <2>1. CASE i \in Runbook!Destructive
    BY <1>1, <1>2, <2>1
  <2>2. CASE i \notin Runbook!Destructive
    <3>1. actions'[i] = [actions[i] EXCEPT !.executed = TRUE]
      BY <1>1, <2>2
    <3> QED
      BY <1>2, <2>2, <3>1 DEF Action
  <2> QED
    BY <2>1, <2>2
<1>5. Runbook!Destructive' = Runbook!Destructive
  BY <1>3, <1>4 DEF Runbook!Destructive
<1>6. RunbookTyped'
  BY <1>1, <1>3, <1>4 DEF RunbookInv, RunbookTyped
<1>7. AskedInTime'
  BY <1>1, <1>3, <1>5 DEF RunbookInv, AskedInTime
<1>8. ExecutedInTime'
  <2> SUFFICES ASSUME NEW i \in (DOMAIN actions) \ claimed
               PROVE  actions'[i].executed <=> i \notin Runbook!Destructive
    BY <1>1, <1>3, <1>5 DEF ExecutedInTime
  <2>1. CASE i \in Runbook!Destructive
    <3>1. ~actions[i].executed
      BY <1>1 DEF RunbookInv, ExecutedInTime
    <3> QED
      BY <1>4, <2>1, <3>1
  <2>2. CASE i \notin Runbook!Destructive
    <3>1. actions'[i].executed = TRUE
      BY <1>4, <2>2
    <3> QED
      BY <2>2, <3>1
  <2> QED
    BY <2>1, <2>2
<1> QED
  BY <1>1, <1>3, <1>4, <1>6, <1>7, <1>8 DEF RunbookInv, SameButExecuted
(* The pass over the destructive ones.                                     *)
LEMMA RequestKeeps ==
  ASSUME RunbookInv, Runbook!RequestApprovals PROVE RunbookInv' /\ SameButExecuted
<1>1. /\ stage = "executed" /\ UNCHANGED <<source, cause, actions, claimed>>
      /\ stage' = IF Runbook!Destructive = {} THEN "settled" ELSE "waiting"
      /\ verdicts' = [i \in DOMAIN actions |-> IF i \in Runbook!Destructive THEN "PENDING" ELSE "none"]
  BY DEF Runbook!RequestApprovals
<1>2. RunbookTyped'
  BY <1>1 DEF RunbookInv, RunbookTyped, Runbook!Statuses
<1>3. Runbook!Destructive' = Runbook!Destructive
  BY <1>1 DEF Runbook!Destructive
<1>4. AskedInTime'
  BY <1>1, <1>3 DEF AskedInTime
<1>5. ExecutedInTime'
  BY <1>1, <1>3 DEF RunbookInv, ExecutedInTime
<1> QED
  BY <1>1, <1>2, <1>4, <1>5 DEF RunbookInv, RunbookTyped, SameButExecuted

(* One decision.                                                           *)
LEMMA ResolveKeeps ==
  ASSUME RunbookInv, NEW i \in DOMAIN actions, Runbook!Resolve(i) PROVE RunbookInv' /\ SameButExecuted
<1>1. /\ stage = "waiting" /\ i \in Runbook!Pending /\ UNCHANGED <<source, cause, actions, claimed>>
      /\ stage' \in {"waiting", "decided"}
  BY DEF Runbook!Resolve
<1>2. PICK status \in Runbook!Statuses : verdicts' = [verdicts EXCEPT ![i] = status]
  BY DEF Runbook!Resolve
<1>3. RunbookTyped'
  BY <1>1, <1>2 DEF RunbookInv, RunbookTyped
<1>4. Runbook!Destructive' = Runbook!Destructive
  BY <1>1 DEF Runbook!Destructive
<1>5. i \in Runbook!Destructive
  BY <1>1 DEF RunbookInv, AskedInTime, Runbook!Pending
<1>6. AskedInTime'
  BY <1>1, <1>2, <1>4, <1>5 DEF RunbookInv, RunbookTyped, AskedInTime
<1>7. ExecutedInTime'
  BY <1>1, <1>4 DEF RunbookInv, ExecutedInTime
<1> QED
  BY <1>1, <1>3, <1>6, <1>7 DEF RunbookInv, RunbookTyped, SameButExecuted

(* The pass over the resolved requests.                                    *)
LEMMA ApplyKeeps ==
  ASSUME RunbookInv, Runbook!ApplyVerdicts PROVE RunbookInv' /\ SameButExecuted
<1>1. /\ stage = "decided" /\ stage' = "settled" /\ UNCHANGED <<source, cause, verdicts, claimed>>
      /\ actions' = [i \in DOMAIN actions |->
                       IF verdicts[i] = "APPROVED" THEN [actions[i] EXCEPT !.executed = TRUE]
                                                   ELSE actions[i]]
  BY DEF Runbook!ApplyVerdicts
<1>2. \A i \in DOMAIN actions : actions[i] \in Action
  BY DEF RunbookInv, RunbookTyped
<1>3. DOMAIN actions' = DOMAIN actions
  BY <1>1
<1>4. \A i \in DOMAIN actions :
        /\ actions'[i] \in Action /\ actions'[i].step = actions[i].step
        /\ actions'[i].destructive = actions[i].destructive
        /\ verdicts[i] = "APPROVED" => actions'[i].executed = TRUE
        /\ verdicts[i] # "APPROVED" => actions'[i].executed = actions[i].executed
  <2> SUFFICES ASSUME NEW i \in DOMAIN actions
               PROVE  /\ actions'[i] \in Action /\ actions'[i].step = actions[i].step
                      /\ actions'[i].destructive = actions[i].destructive
                      /\ verdicts[i] = "APPROVED" => actions'[i].executed = TRUE
                      /\ verdicts[i] # "APPROVED" => actions'[i].executed = actions[i].executed
    OBVIOUS
  <2>1. CASE verdicts[i] # "APPROVED"
    BY <1>1, <1>2, <2>1
  <2>2. CASE verdicts[i] = "APPROVED"
    <3>1. actions'[i] = [actions[i] EXCEPT !.executed = TRUE]
      BY <1>1, <2>2
    <3> QED
      BY <1>2, <2>2, <3>1 DEF Action
  <2> QED
    BY <2>1, <2>2
<1>5. Runbook!Destructive' = Runbook!Destructive
  BY <1>3, <1>4 DEF Runbook!Destructive
<1>6. RunbookTyped'
  BY <1>1, <1>3, <1>4 DEF RunbookInv, RunbookTyped
<1>7. AskedInTime'
  BY <1>1, <1>3, <1>5 DEF RunbookInv, AskedInTime
<1>8. ExecutedInTime'
  <2> SUFFICES ASSUME NEW i \in (DOMAIN actions) \ claimed
               PROVE  actions'[i].executed <=> i \notin Runbook!Destructive \/ verdicts[i] = "APPROVED"
    BY <1>1, <1>3, <1>5 DEF ExecutedInTime
  <2>1. CASE verdicts[i] # "APPROVED"
    <3>1. actions'[i].executed = actions[i].executed
      BY <1>4, <2>1
    <3>2. actions[i].executed <=> i \notin Runbook!Destructive
      BY <1>1 DEF RunbookInv, ExecutedInTime
    <3> QED
      BY <2>1, <3>1, <3>2
  <2>2. CASE verdicts[i] = "APPROVED"
    <3>1. actions'[i].executed = TRUE
      BY <1>4, <2>2
    <3> QED
      BY <2>2, <3>1
  <2> QED
    BY <2>1, <2>2
<1> QED
  BY <1>1, <1>3, <1>4, <1>6, <1>7, <1>8 DEF RunbookInv, SameButExecuted

(* The report, and a step that changes nothing.                            *)
LEMMA ReportKeeps ==
  ASSUME RunbookInv, Runbook!PostMortem \/ UNCHANGED runbookVars PROVE RunbookInv' /\ SameButExecuted
<1>1. /\ UNCHANGED <<source, cause, actions, verdicts, claimed>>
      /\ stage' = stage \/ (stage = "settled" /\ stage' = "reported")
  BY DEF Runbook!PostMortem, runbookVars
<1>2. Runbook!Destructive' = Runbook!Destructive
  BY <1>1 DEF Runbook!Destructive
<1>3. RunbookTyped'
  BY <1>1 DEF RunbookInv, RunbookTyped
<1>4. AskedInTime' /\ ExecutedInTime'
  BY <1>1, <1>2 DEF RunbookInv, AskedInTime, ExecutedInTime
<1> QED
  BY <1>1, <1>3, <1>4 DEF RunbookInv, RunbookTyped, SameButExecuted

(* Every step but the plan leaves the runbook what it was.                 *)
LEMMA OthersKeep ==
  ASSUME RunbookInv, Runbook!Next \/ UNCHANGED runbookVars, ~Runbook!Plan
  PROVE  RunbookInv' /\ SameButExecuted
<1>1. CASE \E i \in DOMAIN actions : Runbook!Resolve(i)
  BY <1>1, ResolveKeeps
<1> QED
  BY <1>1, AutoExecuteKeeps, RequestKeeps, ApplyKeeps, ReportKeeps DEF Runbook!Next

(* Such a step leaves a simulated runbook its template.                    *)
LEMMA SameIsAsTemplate ==
  ASSUME AsTemplate, SameButExecuted PROVE AsTemplate'
<1>1. Runbook!SelectTemplate(cause)' = Runbook!SelectTemplate(cause)
  BY DEF SameButExecuted, Runbook!SelectTemplate
<1> QED
  BY <1>1 DEF AsTemplate, SameButExecuted
-----------------------------------------------------------------------------
(* The accounts of an incident's actions.                                  *)

(* The passes over the actions, as the timeline has them.                  *)
Safe == (DOMAIN actions) \ Runbook!Destructive
AutoPass == Runbook!Entered("auto", Safe)
BlockedPass == Runbook!Entered("blocked", Runbook!Destructive)
OutcomePass ==
  LET requests == Runbook!InOrder(Runbook!Destructive)
  IN  [n \in DOMAIN requests |-> Runbook!Entry(Runbook!Outcome[verdicts[requests[n]]], requests[n])]

(* Entries are about the runbook's actions.                                *)
TimelineEntry == [what : Runbook!Entries, action : DOMAIN actions]

(* What the timeline has at each stage.                                    *)
ToldInTime ==
  LET asked == (<<>> \o AutoPass) \o BlockedPass
  IN  /\ timeline \in Seq(TimelineEntry)
      /\ stage \in {"diagnosed", "planned"} => timeline = <<>>
      /\ stage = "executed" => timeline = <<>> \o AutoPass
      /\ stage \in {"waiting", "decided"} => timeline = asked
      /\ stage \in {"settled", "reported"} =>
           \/ timeline = asked \o OutcomePass
           \/ timeline = asked /\ Runbook!Destructive = {}

(* The planner's lists are those of the runbook.                           *)
ListedInTime ==
  /\ lists \in [auto : Seq(Nat), blocked : Seq(Nat)]
  /\ stage # "diagnosed" => lists = [auto |-> Runbook!StepsOf(actions, FALSE),
                                     blocked |-> Runbook!StepsOf(actions, TRUE)]

(* Every destructive action has been asked about, and then decided.        *)
DecidedInTime ==
  \A i \in Runbook!Destructive :
    /\ stage \in {"waiting", "decided"} => verdicts[i] # "none"
    /\ stage \in {"decided", "settled", "reported"} =>
         verdicts[i] \in {"APPROVED", "REJECTED", "TIMED_OUT"}

(* The report is of the end.                                               *)
ReportedInTime ==
  IF stage = "reported"
  THEN \/ rca = [from |-> "model"]
       \/ rca = [from |-> "simulation", timeline |-> timeline, taken |-> Runbook!ExecutedSteps,
                 withheld |-> Runbook!Destructive # {}]
  ELSE rca = Runbook!NoReport

(* The lists, the timeline, the requests and the report in step.           *)
AccountsInv == ToldInTime /\ ListedInTime /\ DecidedInTime /\ ReportedInTime

(* The passes of a runbook whose actions are the same but for `executed`.  *)
LEMMA PassesStay ==
  ASSUME RunbookInv, SameButExecuted
  PROVE  /\ Runbook!Destructive' = Runbook!Destructive
         /\ AutoPass' = AutoPass /\ BlockedPass' = BlockedPass
         /\ TimelineEntry' = TimelineEntry
         /\ \A kind \in BOOLEAN : Runbook!StepsOf(actions', kind) = Runbook!StepsOf(actions, kind)
         /\ verdicts' = verdicts => OutcomePass' = OutcomePass
<1>1. /\ DOMAIN actions' = DOMAIN actions
      /\ \A i \in DOMAIN actions : /\ actions'[i].step = actions[i].step
                                   /\ actions'[i].destructive = actions[i].destructive
  BY DEF SameButExecuted
<1>2. Runbook!Destructive' = Runbook!Destructive
  BY <1>1 DEF Runbook!Destructive
<1>3. AutoPass' = AutoPass
  BY <1>1, <1>2 DEF AutoPass, Safe
<1>4. BlockedPass' = BlockedPass
  BY <1>2 DEF BlockedPass
<1>5. TimelineEntry' = TimelineEntry
  BY <1>1 DEF TimelineEntry
<1>6. ASSUME NEW kind \in BOOLEAN
      PROVE  Runbook!StepsOf(actions', kind) = Runbook!StepsOf(actions, kind)
  <2> DEFINE chosen == {i \in DOMAIN actions : actions[i].destructive = kind}
  <2>1. {i \in DOMAIN actions' : actions'[i].destructive = kind} = chosen
    BY <1>1
  <2>2. PICK N \in Nat : DOMAIN actions = 1..N
    BY DEF RunbookInv, RunbookTyped
  <2>3. Ordering(Runbook!InOrder(chosen), chosen)
    BY <2>2, InOrderOrders
  <2>4. \A n \in DOMAIN Runbook!InOrder(chosen) : Runbook!InOrder(chosen)[n] \in DOMAIN actions
    BY <2>3 DEF Ordering
  <2> HIDE DEF chosen
  <2>5. Runbook!StepsOf(actions', kind) =
          [n \in DOMAIN Runbook!InOrder(chosen) |-> actions'[Runbook!InOrder(chosen)[n]].step]
    BY <2>1 DEF Runbook!StepsOf
  <2>6. Runbook!StepsOf(actions, kind) =
          [n \in DOMAIN Runbook!InOrder(chosen) |-> actions[Runbook!InOrder(chosen)[n]].step]
    BY DEF Runbook!StepsOf, chosen
  <2> QED
    BY <1>1, <2>4, <2>5, <2>6
<1>7. verdicts' = verdicts => OutcomePass' = OutcomePass
  BY <1>2 DEF OutcomePass
<1> QED
  BY <1>2, <1>3, <1>4, <1>5, <1>6, <1>7
(* The order of a set meets each member once.                              *)
LEMMA MetOnce ==
  ASSUME NEW S \in SUBSET Nat, NEW order, Ordering(order, S), Cardinality(S) \in Nat
  PROVE  \A i \in S : \E n \in 1..Cardinality(S) :
           order[n] = i /\ \A k \in 1..Cardinality(S) : order[k] = i => k = n
<1> DEFINE c == Cardinality(S)
<1>1. /\ DOMAIN order = 1..c /\ \A n \in 1..c : order[n] \in S
      /\ \A m, n \in 1..c : m < n => order[m] < order[n]
  BY DEF Ordering
<1>2. \A i \in S : \E n \in 1..c : order[n] = i
  BY <1>1 DEF Ordering, Range
<1> HIDE DEF c
<1>3. c \in Nat
  BY DEF c
<1> SUFFICES ASSUME NEW i \in S
             PROVE  \E n \in 1..c : order[n] = i /\ \A k \in 1..c : order[k] = i => k = n
  BY DEF c
<1>4. PICK n \in 1..c : order[n] = i
  BY <1>2
<1>5. ASSUME NEW k \in 1..c, order[k] = i, k # n PROVE FALSE
  <2>1. k < n \/ n < k
    BY <1>3, <1>5
  <2>2. i \in Nat /\ ~ (i < i)
    OBVIOUS
  <2> QED
    BY <1>1, <1>4, <1>5, <2>1, <2>2
<1> QED
  BY <1>4, <1>5

(* A pass is a sequence of entries on the members of its set, in order.    *)
LEMMA PassMade ==
  ASSUME RunbookInv, NEW S \in SUBSET DOMAIN actions, NEW word, \A i \in S : word[i] \in Runbook!Entries
  PROVE  LET order == Runbook!InOrder(S)
             pass == [n \in DOMAIN order |-> Runbook!Entry(word[order[n]], order[n])]
         IN  /\ Cardinality(S) \in Nat /\ Ordering(order, S)
             /\ pass \in Seq(TimelineEntry) /\ Len(pass) = Cardinality(S)
             /\ \A n \in 1..Cardinality(S) :
                  /\ order[n] \in S
                  /\ pass[n].what = word[order[n]] /\ pass[n].action = order[n]
<1> DEFINE order == Runbook!InOrder(S)
           c == Cardinality(S)
           pass == [n \in DOMAIN order |-> Runbook!Entry(word[order[n]], order[n])]
<1>1. PICK N \in Nat : DOMAIN actions = 1..N
  BY DEF RunbookInv, RunbookTyped
<1>2. c \in Nat /\ Ordering(order, S)
  BY <1>1, InOrderOrders
<1> HIDE DEF order, c
<1>3. DOMAIN order = 1..c /\ \A n \in 1..c : order[n] \in S
  BY <1>2 DEF Ordering, c
<1>4. \A n \in 1..c : /\ pass[n] \in TimelineEntry
                      /\ pass[n].what = word[order[n]] /\ pass[n].action = order[n]
  BY <1>3 DEF Runbook!Entry, TimelineEntry
<1>5. pass \in Seq(TimelineEntry) /\ Len(pass) = c
  <2>1. pass \in [1..c -> TimelineEntry]
    BY <1>3, <1>4
  <2> HIDE DEF pass
  <2> QED
    BY <1>2, <2>1, SeqDef, LenProperties
<1> QED
  BY <1>2, <1>3, <1>4, <1>5 DEF order, c

(* The pass that makes one kind of entry.                                  *)
LEMMA EnteredMade ==
  ASSUME RunbookInv, NEW S \in SUBSET DOMAIN actions, NEW what \in Runbook!Entries
  PROVE  /\ Cardinality(S) \in Nat /\ Ordering(Runbook!InOrder(S), S)
         /\ Runbook!Entered(what, S) \in Seq(TimelineEntry)
         /\ Len(Runbook!Entered(what, S)) = Cardinality(S)
         /\ \A n \in 1..Cardinality(S) :
              /\ Runbook!InOrder(S)[n] \in S
              /\ Runbook!Entered(what, S)[n].what = what
              /\ Runbook!Entered(what, S)[n].action = Runbook!InOrder(S)[n]
<1> DEFINE order == Runbook!InOrder(S)
           word == [i \in S |-> what]
           pass == [n \in DOMAIN order |-> Runbook!Entry(word[order[n]], order[n])]
<1>1. \A i \in S : word[i] \in Runbook!Entries
  OBVIOUS
<1> HIDE DEF word
<1>2. /\ Cardinality(S) \in Nat /\ Ordering(order, S)
      /\ pass \in Seq(TimelineEntry) /\ Len(pass) = Cardinality(S)
      /\ \A n \in 1..Cardinality(S) : /\ order[n] \in S
                                      /\ pass[n].what = word[order[n]] /\ pass[n].action = order[n]
  BY <1>1, PassMade
<1>3. Runbook!Entered(what, S) = pass
  <2>1. \A n \in DOMAIN order : order[n] \in S
    BY <1>2 DEF Ordering
  <2>2. \A n \in DOMAIN order : word[order[n]] = what
    BY <2>1 DEF word
  <2> QED
    BY <2>2 DEF Runbook!Entered
<1>4. \A n \in 1..Cardinality(S) : word[order[n]] = what
  BY <1>2 DEF word
<1> HIDE DEF pass
<1> QED
  BY <1>2, <1>3, <1>4

(* What a runbook whose requests are decided has in its passes.            *)
LEMMA OutcomeMade ==
  ASSUME RunbookInv,
         \A i \in Runbook!Destructive : verdicts[i] \in {"APPROVED", "REJECTED", "TIMED_OUT"}
  PROVE  /\ OutcomePass \in Seq(TimelineEntry)
         /\ Len(OutcomePass) = Cardinality(Runbook!Destructive)
         /\ \A n \in 1..Cardinality(Runbook!Destructive) :
              LET i == Runbook!InOrder(Runbook!Destructive)[n]
              IN  /\ OutcomePass[n].what = Runbook!Outcome[verdicts[i]] /\ OutcomePass[n].action = i
                  /\ Runbook!Outcome[verdicts[i]] \in {"approved", "rejected", "timed out"}
<1> DEFINE D == Runbook!Destructive
           order == Runbook!InOrder(D)
           word == [i \in D |-> Runbook!Outcome[verdicts[i]]]
           pass == [n \in DOMAIN order |-> Runbook!Entry(word[order[n]], order[n])]
<1>1. \A i \in D : Runbook!Outcome[verdicts[i]] \in {"approved", "rejected", "timed out"}
  <2> SUFFICES ASSUME NEW i \in D
               PROVE  Runbook!Outcome[verdicts[i]] \in {"approved", "rejected", "timed out"}
    OBVIOUS
  <2>1. verdicts[i] = "APPROVED" \/ verdicts[i] = "REJECTED" \/ verdicts[i] = "TIMED_OUT"
    OBVIOUS
  <2>2. /\ Runbook!Outcome["APPROVED"] = "approved" /\ Runbook!Outcome["REJECTED"] = "rejected"
        /\ Runbook!Outcome["TIMED_OUT"] = "timed out"
    BY DEF Runbook!Outcome
  <2> QED
    BY <2>1, <2>2
<1>2. D \in SUBSET DOMAIN actions /\ \A i \in D : word[i] \in Runbook!Entries
  BY <1>1 DEF Runbook!Entries, Runbook!Destructive
<1>3. \A i \in D : word[i] = Runbook!Outcome[verdicts[i]]
  OBVIOUS
<1> HIDE DEF word, D
<1>4. /\ Ordering(order, D)
      /\ pass \in Seq(TimelineEntry) /\ Len(pass) = Cardinality(D)
      /\ \A n \in 1..Cardinality(D) : /\ order[n] \in D
                                      /\ pass[n].what = word[order[n]] /\ pass[n].action = order[n]
  BY <1>2, PassMade
<1>5. OutcomePass = pass
  <2>1. \A n \in DOMAIN order : order[n] \in D
    BY <1>4 DEF Ordering
  <2>2. \A n \in DOMAIN order : word[order[n]] = Runbook!Outcome[verdicts[order[n]]]
    BY <1>3, <2>1
  <2>3. OutcomePass = [n \in DOMAIN order |-> Runbook!Entry(Runbook!Outcome[verdicts[order[n]]], order[n])]
    BY DEF OutcomePass, D
  <2> QED
    BY <2>2, <2>3
<1> HIDE DEF pass
<1> QED
  BY <1>1, <1>3, <1>4, <1>5 DEF D

(* The planner's lists are sequences of step numbers.                      *)
LEMMA StepsTyped ==
  ASSUME NEW plan, NEW N \in Nat, DOMAIN plan = 1..N, \A i \in DOMAIN plan : plan[i] \in Action,
         NEW kind
  PROVE  Runbook!StepsOf(plan, kind) \in Seq(Nat)
<1> DEFINE S == {i \in DOMAIN plan : plan[i].destructive = kind}
           order == Runbook!InOrder(S)
<1>1. S \subseteq 1..N
  OBVIOUS
<1>2. Runbook!StepsOf(plan, kind) = [n \in DOMAIN order |-> plan[order[n]].step]
  BY DEF Runbook!StepsOf
<1> HIDE DEF S
<1>3. Cardinality(S) \in Nat /\ Ordering(order, S)
  BY <1>1, InOrderOrders
<1> HIDE DEF order
<1>4. DOMAIN order = 1..Cardinality(S) /\ \A n \in 1..Cardinality(S) : plan[order[n]].step \in Nat
  BY <1>1, <1>3 DEF Ordering, Action
<1>5. Runbook!StepsOf(plan, kind) \in [1..Cardinality(S) -> Nat]
  BY <1>2, <1>4
<1> QED
  BY <1>3, <1>5, SeqDef

(* The passes extend the timeline.                                         *)
LEMMA PassesTyped ==
  ASSUME RunbookInv
  PROVE  AutoPass \in Seq(TimelineEntry) /\ BlockedPass \in Seq(TimelineEntry)
<1>1. Safe \in SUBSET DOMAIN actions /\ Runbook!Destructive \in SUBSET DOMAIN actions
  BY DEF Safe, Runbook!Destructive
<1>2. "auto" \in Runbook!Entries /\ "blocked" \in Runbook!Entries
  BY DEF Runbook!Entries
<1> QED
  BY <1>1, <1>2, EnteredMade DEF AutoPass, BlockedPass

(* Planning makes the lists.                                               *)
LEMMA PlanAccounts ==
  ASSUME RunbookInv, RunbookInv', AccountsInv, Runbook!Plan PROVE AccountsInv'
<1>1. PICK from, draft : Runbook!Propose(from, draft)
  BY DEF Runbook!Plan
<1>2. /\ stage = "diagnosed" /\ stage' = "planned" /\ UNCHANGED <<timeline, rca>>
      /\ lists' = [auto |-> Runbook!StepsOf(actions', FALSE), blocked |-> Runbook!StepsOf(actions', TRUE)]
  BY <1>1 DEF Runbook!Propose
<1>3. timeline = <<>> /\ rca = Runbook!NoReport
  BY <1>2 DEF AccountsInv, ToldInTime, ReportedInTime
<1>4. ToldInTime'
  <2>1. timeline' \in Seq(TimelineEntry')
    BY <1>2, <1>3, EmptySeq
  <2> QED
    BY <1>2, <1>3, <2>1 DEF ToldInTime
<1>5. ListedInTime'
  <2>1. PICK N \in Nat : DOMAIN actions' = 1..N
    BY DEF RunbookInv, RunbookTyped
  <2>2. \A i \in DOMAIN actions' : actions'[i] \in Action
    BY DEF RunbookInv, RunbookTyped
  <2>3. Runbook!StepsOf(actions', FALSE) \in Seq(Nat) /\ Runbook!StepsOf(actions', TRUE) \in Seq(Nat)
    BY <2>1, <2>2, StepsTyped
  <2>4. lists' \in [auto : Seq(Nat), blocked : Seq(Nat)]
    BY <1>2, <2>3
  <2> QED
    BY <1>2, <2>4 DEF ListedInTime
<1>6. DecidedInTime' /\ ReportedInTime'
  BY <1>2, <1>3 DEF DecidedInTime, ReportedInTime, Runbook!NoReport
<1> QED
  BY <1>4, <1>5, <1>6 DEF AccountsInv

(* The lists stay with the runbook.                                        *)
LEMMA ListsStay ==
  ASSUME RunbookInv, SameButExecuted, ListedInTime, lists' = lists,
         stage' = "diagnosed" => stage = "diagnosed", stage = "diagnosed" => stage' = "diagnosed"
  PROVE  ListedInTime'
<1>1. \A kind \in BOOLEAN : Runbook!StepsOf(actions', kind) = Runbook!StepsOf(actions, kind)
  BY PassesStay
<1> QED
  BY <1>1 DEF ListedInTime

(* The first pass tells of the safe actions.                               *)
LEMMA AutoExecuteAccounts ==
  ASSUME RunbookInv, SameButExecuted, AccountsInv, Runbook!AutoExecute PROVE AccountsInv'
<1>1. /\ stage = "planned" /\ stage' = "executed" /\ UNCHANGED <<lists, rca>>
      /\ timeline' = timeline \o AutoPass
  BY DEF Runbook!AutoExecute, AutoPass, Safe
<1>2. timeline = <<>> /\ timeline \in Seq(TimelineEntry) /\ rca = Runbook!NoReport
  BY <1>1 DEF AccountsInv, ToldInTime, ReportedInTime
<1>3. ToldInTime'
  <2>1. timeline' \in Seq(TimelineEntry)
    BY <1>1, <1>2, PassesTyped, ConcatProperties
  <2>2. TimelineEntry' = TimelineEntry /\ AutoPass' = AutoPass
    BY PassesStay
  <2> QED
    BY <1>1, <1>2, <2>1, <2>2 DEF ToldInTime
<1>4. ListedInTime'
  BY <1>1, ListsStay DEF AccountsInv
<1>5. DecidedInTime' /\ ReportedInTime'
  BY <1>1, <1>2 DEF DecidedInTime, ReportedInTime, Runbook!NoReport
<1> QED
  BY <1>3, <1>4, <1>5 DEF AccountsInv

(* The second tells of the destructive ones, and asks.                     *)
LEMMA RequestAccounts ==
  ASSUME RunbookInv, SameButExecuted, AccountsInv, Runbook!RequestApprovals PROVE AccountsInv'
<1>1. /\ stage = "executed" /\ UNCHANGED <<lists, rca>>
      /\ stage' = IF Runbook!Destructive = {} THEN "settled" ELSE "waiting"
      /\ verdicts' = [i \in DOMAIN actions |-> IF i \in Runbook!Destructive THEN "PENDING" ELSE "none"]
      /\ timeline' = timeline \o BlockedPass
  BY DEF Runbook!RequestApprovals, BlockedPass
<1>2. timeline = <<>> \o AutoPass /\ timeline \in Seq(TimelineEntry) /\ rca = Runbook!NoReport
  BY <1>1 DEF AccountsInv, ToldInTime, ReportedInTime
<1>3. /\ TimelineEntry' = TimelineEntry /\ AutoPass' = AutoPass /\ BlockedPass' = BlockedPass
      /\ Runbook!Destructive' = Runbook!Destructive
  BY PassesStay
<1>4. ToldInTime'
  <2>1. timeline' \in Seq(TimelineEntry)
    BY <1>1, <1>2, PassesTyped, ConcatProperties
  <2> QED
    BY <1>1, <1>2, <1>3, <2>1 DEF ToldInTime
<1>5. ListedInTime'
  BY <1>1, ListsStay DEF AccountsInv
<1>6. DecidedInTime'
  <2>1. \A i \in Runbook!Destructive : i \in DOMAIN actions
    BY DEF Runbook!Destructive
  <2> QED
    BY <1>1, <1>3, <2>1 DEF DecidedInTime
<1>7. ReportedInTime'
  BY <1>1, <1>2 DEF ReportedInTime, Runbook!NoReport
<1> QED
  BY <1>4, <1>5, <1>6, <1>7 DEF AccountsInv

(* A decision tells nothing yet.                                           *)
LEMMA ResolveAccounts ==
  ASSUME RunbookInv, SameButExecuted, AccountsInv, NEW i \in DOMAIN actions, Runbook!Resolve(i)
  PROVE  AccountsInv'
<1>1. /\ stage = "waiting" /\ UNCHANGED <<lists, timeline, rca>>
      /\ stage' = IF Runbook!Pending = {i} THEN "decided" ELSE "waiting"
  BY DEF Runbook!Resolve
<1>2. PICK status \in Runbook!Statuses \ {"none", "PENDING"} : verdicts' = [verdicts EXCEPT ![i] = status]
  BY DEF Runbook!Resolve
<1>3. /\ TimelineEntry' = TimelineEntry /\ AutoPass' = AutoPass /\ BlockedPass' = BlockedPass
      /\ Runbook!Destructive' = Runbook!Destructive
  BY PassesStay
<1>4. ToldInTime'
  BY <1>1, <1>3 DEF AccountsInv, ToldInTime
<1>5. ListedInTime'
  BY <1>1, ListsStay DEF AccountsInv
<1>6. DecidedInTime'
  <2>1. /\ DOMAIN verdicts = DOMAIN actions
        /\ \A j \in DOMAIN actions : verdicts[j] \in Runbook!Statuses
    BY DEF RunbookInv, RunbookTyped
  <2>2. \A j \in DOMAIN actions : verdicts'[j] = IF j = i THEN status ELSE verdicts[j]
    BY <1>2, <2>1
  <2>3. status \in {"APPROVED", "REJECTED", "TIMED_OUT"}
    BY <1>2 DEF Runbook!Statuses
  <2> SUFFICES ASSUME NEW j \in Runbook!Destructive
               PROVE  /\ verdicts'[j] # "none"
                      /\ stage' = "decided" => verdicts'[j] \in {"APPROVED", "REJECTED", "TIMED_OUT"}
    BY <1>1, <1>3 DEF DecidedInTime
  <2>4. j \in DOMAIN actions /\ verdicts[j] # "none"
    BY <1>1 DEF AccountsInv, DecidedInTime, Runbook!Destructive
  <2>5. CASE j = i
    BY <2>2, <2>3, <2>5
  <2>6. CASE j # i
    <3>1. verdicts'[j] = verdicts[j]
      BY <2>2, <2>4, <2>6
    <3>2. stage' = "decided" => verdicts[j] # "PENDING"
      BY <1>1, <2>4, <2>6 DEF Runbook!Pending
    <3> QED
      BY <2>1, <2>4, <3>1, <3>2 DEF Runbook!Statuses
  <2> QED
    BY <2>5, <2>6
<1>7. ReportedInTime'
  BY <1>1 DEF AccountsInv, ReportedInTime, Runbook!NoReport
<1> QED
  BY <1>4, <1>5, <1>6, <1>7 DEF AccountsInv

(* The third pass tells how the requests ended.                            *)
LEMMA ApplyAccounts ==
  ASSUME RunbookInv, SameButExecuted, AccountsInv, Runbook!ApplyVerdicts PROVE AccountsInv'
<1>1. /\ stage = "decided" /\ stage' = "settled" /\ UNCHANGED <<lists, verdicts, rca>>
      /\ timeline' = timeline \o OutcomePass
  BY DEF Runbook!ApplyVerdicts, OutcomePass
<1>2. /\ timeline = (<<>> \o AutoPass) \o BlockedPass /\ timeline \in Seq(TimelineEntry)
      /\ rca = Runbook!NoReport
  BY <1>1 DEF AccountsInv, ToldInTime, ReportedInTime
<1>3. /\ TimelineEntry' = TimelineEntry /\ AutoPass' = AutoPass /\ BlockedPass' = BlockedPass
      /\ OutcomePass' = OutcomePass /\ Runbook!Destructive' = Runbook!Destructive
  BY <1>1, PassesStay
<1>4. ToldInTime'
  <2>1. OutcomePass \in Seq(TimelineEntry)
    BY <1>1, OutcomeMade DEF AccountsInv, DecidedInTime
  <2>2. timeline' \in Seq(TimelineEntry)
    BY <1>1, <1>2, <2>1, ConcatProperties
  <2> QED
    BY <1>1, <1>2, <1>3, <2>2 DEF ToldInTime
<1>5. ListedInTime'
  BY <1>1, ListsStay DEF AccountsInv
<1>6. DecidedInTime' /\ ReportedInTime'
  BY <1>1, <1>2, <1>3 DEF AccountsInv, DecidedInTime, ReportedInTime, Runbook!NoReport
<1> QED
  BY <1>4, <1>5, <1>6 DEF AccountsInv

(* The report takes over what the others tell.                             *)
LEMMA ReportAccounts ==
  ASSUME RunbookInv, SameButExecuted, AccountsInv, Runbook!PostMortem \/ UNCHANGED runbookVars
  PROVE  AccountsInv'
<1>1. /\ UNCHANGED <<lists, actions, verdicts, timeline>>
      /\ \/ stage' = stage /\ rca' = rca
         \/ /\ stage = "settled" /\ stage' = "reported"
            /\ rca' \in {[from |-> "model"],
                         [from |-> "simulation", timeline |-> timeline, taken |-> Runbook!ExecutedSteps,
                          withheld |-> Runbook!Destructive # {}]}
  BY DEF Runbook!PostMortem, runbookVars
<1>2. /\ TimelineEntry' = TimelineEntry /\ AutoPass' = AutoPass /\ BlockedPass' = BlockedPass
      /\ OutcomePass' = OutcomePass /\ Runbook!Destructive' = Runbook!Destructive
  BY <1>1, PassesStay
<1>3. ToldInTime'
  BY <1>1, <1>2 DEF AccountsInv, ToldInTime
<1>4. ListedInTime'
  BY <1>1, ListsStay DEF AccountsInv
<1>5. DecidedInTime'
  BY <1>1, <1>2 DEF AccountsInv, DecidedInTime
<1>6. ReportedInTime'
  <2>1. Runbook!ExecutedSteps' = Runbook!ExecutedSteps
    BY <1>1 DEF Runbook!ExecutedSteps
  <2> QED
    BY <1>1, <1>2, <2>1 DEF AccountsInv, ReportedInTime
<1> QED
  BY <1>3, <1>4, <1>5, <1>6 DEF AccountsInv
(* A concatenation, read by position.                                      *)
LEMMA Appended ==
  ASSUME NEW S, NEW s \in Seq(S), NEW t \in Seq(S)
  PROVE  /\ s \o t \in Seq(S) /\ Len(s \o t) = Len(s) + Len(t)
         /\ DOMAIN (s \o t) = 1..(Len(s) + Len(t))
         /\ \A k \in 1..Len(s) : (s \o t)[k] = s[k]
         /\ \A k \in 1..Len(t) : (s \o t)[Len(s) + k] = t[k]
<1> DEFINE both == s \o t
           m == Len(s)
           n == Len(t)
<1>1. /\ both \in Seq(S) /\ Len(both) = m + n
      /\ \A k \in 1..(m + n) : both[k] = IF k <= m THEN s[k] ELSE t[k - m]
  BY ConcatProperties
<1>2. m \in Nat /\ n \in Nat
  BY LenProperties
<1> HIDE DEF both, m, n
<1>3. DOMAIN both = 1..(m + n)
  BY <1>1, LenProperties
<1>4. \A k \in 1..m : k \in 1..(m + n) /\ k <= m
  BY <1>2
<1>5. \A k \in 1..n : m + k \in 1..(m + n) /\ ~ (m + k <= m) /\ (m + k) - m = k
  BY <1>2
<1>6. \A k \in 1..m : both[k] = s[k]
  BY <1>1, <1>4
<1>7. \A k \in 1..n : both[m + k] = t[k]
  BY <1>1, <1>5
<1> QED
  BY <1>1, <1>3, <1>6, <1>7 DEF both, m, n

(* The whole timeline of a settled incident, read by position: the safe    *)
(* actions, the destructive ones, and these again with their outcomes.     *)
LEMMA TimelineRead ==
  ASSUME RunbookInv, AccountsInv, stage \in {"settled", "reported"}
  PROVE  LET a == Cardinality(Safe)
             d == Cardinality(Runbook!Destructive)
             safe == Runbook!InOrder(Safe)
             asked == Runbook!InOrder(Runbook!Destructive)
         IN  /\ a \in Nat /\ d \in Nat
             /\ Ordering(safe, Safe) /\ Ordering(asked, Runbook!Destructive)
             /\ DOMAIN timeline = 1..(a + d + d)
             /\ \A n \in 1..a : timeline[n].what = "auto" /\ timeline[n].action = safe[n]
             /\ \A n \in 1..d :
                  /\ timeline[a + n].what = "blocked" /\ timeline[a + n].action = asked[n]
                  /\ timeline[a + d + n].what = Runbook!Outcome[verdicts[asked[n]]]
                  /\ timeline[a + d + n].what \in {"approved", "rejected", "timed out"}
                  /\ timeline[a + d + n].action = asked[n]
<1> DEFINE a == Cardinality(Safe)
           D == Runbook!Destructive
           d == Cardinality(D)
           safe == Runbook!InOrder(Safe)
           asked == Runbook!InOrder(D)
           told == (<<>> \o AutoPass) \o BlockedPass
<1>1. /\ a \in Nat /\ Ordering(safe, Safe)
      /\ AutoPass \in Seq(TimelineEntry) /\ Len(AutoPass) = a
      /\ \A n \in 1..a : AutoPass[n].what = "auto" /\ AutoPass[n].action = safe[n]
  <2>1. Safe \in SUBSET DOMAIN actions /\ "auto" \in Runbook!Entries
    BY DEF Safe, Runbook!Entries
  <2> QED
    BY <2>1, EnteredMade DEF AutoPass
<1>2. /\ d \in Nat /\ Ordering(asked, D)
      /\ BlockedPass \in Seq(TimelineEntry) /\ Len(BlockedPass) = d
      /\ \A n \in 1..d : BlockedPass[n].what = "blocked" /\ BlockedPass[n].action = asked[n]
  <2>1. D \in SUBSET DOMAIN actions /\ "blocked" \in Runbook!Entries
    BY DEF Runbook!Destructive, Runbook!Entries
  <2> QED
    BY <2>1, EnteredMade DEF BlockedPass
<1>3. /\ OutcomePass \in Seq(TimelineEntry) /\ Len(OutcomePass) = d
      /\ \A n \in 1..d : /\ OutcomePass[n].what = Runbook!Outcome[verdicts[asked[n]]]
                         /\ OutcomePass[n].what \in {"approved", "rejected", "timed out"}
                         /\ OutcomePass[n].action = asked[n]
  <2>1. \A i \in D : verdicts[i] \in {"APPROVED", "REJECTED", "TIMED_OUT"}
    BY DEF AccountsInv, DecidedInTime
  <2> QED
    BY <2>1, OutcomeMade
<1>4. timeline = told \o OutcomePass \/ (timeline = told /\ D = {})
  BY DEF AccountsInv, ToldInTime
<1>5. D = {} => d = 0
  BY FS_EmptySet
<1> HIDE DEF a, d, D, safe, asked
<1>6. /\ <<>> \o AutoPass \in Seq(TimelineEntry) /\ Len(<<>> \o AutoPass) = a
      /\ \A n \in 1..a : (<<>> \o AutoPass)[n] = AutoPass[n]
  BY <1>1, EmptySeq, ConcatEmptySeq
<1>7. /\ told \in Seq(TimelineEntry) /\ Len(told) = a + d /\ DOMAIN told = 1..(a + d)
      /\ \A n \in 1..a : told[n] = AutoPass[n]
      /\ \A n \in 1..d : told[a + n] = BlockedPass[n]
  <2> DEFINE first == <<>> \o AutoPass
  <2> HIDE DEF first
  <2>1. /\ first \in Seq(TimelineEntry) /\ Len(first) = a
        /\ \A n \in 1..a : first[n] = AutoPass[n]
    BY <1>6 DEF first
  <2>2. /\ first \o BlockedPass \in Seq(TimelineEntry) /\ Len(first \o BlockedPass) = a + d
        /\ DOMAIN (first \o BlockedPass) = 1..(a + d)
        /\ \A n \in 1..a : (first \o BlockedPass)[n] = first[n]
        /\ \A n \in 1..d : (first \o BlockedPass)[a + n] = BlockedPass[n]
    <3>1. first \in Seq(TimelineEntry) /\ BlockedPass \in Seq(TimelineEntry)
      BY <1>2, <2>1
    <3>2. /\ first \o BlockedPass \in Seq(TimelineEntry)
          /\ Len(first \o BlockedPass) = Len(first) + Len(BlockedPass)
          /\ DOMAIN (first \o BlockedPass) = 1..(Len(first) + Len(BlockedPass))
          /\ \A n \in 1..Len(first) : (first \o BlockedPass)[n] = first[n]
          /\ \A n \in 1..Len(BlockedPass) : (first \o BlockedPass)[Len(first) + n] = BlockedPass[n]
      BY <3>1, Appended
    <3> QED
      BY <1>2, <2>1, <3>2
  <2>3. told = first \o BlockedPass
    BY DEF first
  <2> HIDE DEF told
  <2> QED
    BY <2>1, <2>2, <2>3
<1> HIDE DEF told
<1>8. /\ DOMAIN timeline = 1..(a + d + d)
      /\ \A n \in 1..a : timeline[n] = AutoPass[n]
      /\ \A n \in 1..d : timeline[a + n] = BlockedPass[n] /\ timeline[a + d + n] = OutcomePass[n]
  <2>1. CASE timeline = told /\ D = {}
    <3>1. d = 0 /\ a + d + d = a + d /\ 1..d = {}
      BY <1>1, <1>5, <2>1
    <3> QED
      BY <1>7, <2>1, <3>1
  <2>2. CASE timeline = told \o OutcomePass
    <3>1. a + d \in Nat /\ \A n \in 1..a : n \in 1..(a + d)
      BY <1>1, <1>2
    <3>2. \A n \in 1..d : a + n \in 1..(a + d)
      BY <1>1, <1>2
    <3>3. /\ DOMAIN (told \o OutcomePass) = 1..((a + d) + d)
          /\ \A n \in 1..(a + d) : (told \o OutcomePass)[n] = told[n]
          /\ \A n \in 1..d : (told \o OutcomePass)[(a + d) + n] = OutcomePass[n]
      <4>1. told \in Seq(TimelineEntry) /\ OutcomePass \in Seq(TimelineEntry)
        BY <1>3, <1>7
      <4>2. /\ DOMAIN (told \o OutcomePass) = 1..(Len(told) + Len(OutcomePass))
            /\ \A n \in 1..Len(told) : (told \o OutcomePass)[n] = told[n]
            /\ \A n \in 1..Len(OutcomePass) : (told \o OutcomePass)[Len(told) + n] = OutcomePass[n]
        BY <4>1, Appended
      <4> QED
        BY <1>3, <1>7, <4>2
    <3> QED
      BY <1>7, <2>2, <3>1, <3>2, <3>3
  <2> QED
    BY <1>4, <2>1, <2>2
<1>9. \A n \in 1..a : timeline[n].what = "auto" /\ timeline[n].action = safe[n]
  BY <1>1, <1>8
<1>10. \A n \in 1..d :
         /\ timeline[a + n].what = "blocked" /\ timeline[a + n].action = asked[n]
         /\ timeline[a + d + n].what = Runbook!Outcome[verdicts[asked[n]]]
         /\ timeline[a + d + n].what \in {"approved", "rejected", "timed out"}
         /\ timeline[a + d + n].action = asked[n]
  <2> SUFFICES ASSUME NEW n \in 1..d
               PROVE  /\ timeline[a + n].what = "blocked" /\ timeline[a + n].action = asked[n]
                      /\ timeline[a + d + n].what = Runbook!Outcome[verdicts[asked[n]]]
                      /\ timeline[a + d + n].what \in {"approved", "rejected", "timed out"}
                      /\ timeline[a + d + n].action = asked[n]
    OBVIOUS
  <2>1. timeline[a + n] = BlockedPass[n] /\ timeline[a + d + n] = OutcomePass[n]
    BY <1>8
  <2> QED
    BY <1>2, <1>3, <2>1
<1> QED
  BY <1>1, <1>2, <1>8, <1>9, <1>10 DEF a, d, D, safe, asked

(* So every action's fate is told once.                                    *)
LEMMA TimelineTells ==
  ASSUME RunbookInv, AccountsInv PROVE Runbook!TimelineTellsFate
<1> SUFFICES ASSUME stage \in {"settled", "reported"}, NEW i \in DOMAIN actions
             PROVE  \E m, n \in {k \in DOMAIN timeline : timeline[k].action = i} :
                      /\ {k \in DOMAIN timeline : timeline[k].action = i} = {m, n}
                      /\ IF actions[i].destructive
                         THEN m < n /\ timeline[m].what = "blocked"
                              /\ timeline[n].what = Runbook!Outcome[verdicts[i]]
                         ELSE m = n /\ timeline[n].what = "auto"
  BY DEF Runbook!TimelineTellsFate
<1> DEFINE about == {k \in DOMAIN timeline : timeline[k].action = i}
           a == Cardinality(Safe)
           D == Runbook!Destructive
           d == Cardinality(D)
           safe == Runbook!InOrder(Safe)
           asked == Runbook!InOrder(D)
<1>1. /\ a \in Nat /\ d \in Nat
      /\ Ordering(safe, Safe) /\ Ordering(asked, D)
      /\ DOMAIN timeline = 1..(a + d + d)
      /\ \A n \in 1..a : timeline[n].what = "auto" /\ timeline[n].action = safe[n]
      /\ \A n \in 1..d :
           /\ timeline[a + n].what = "blocked" /\ timeline[a + n].action = asked[n]
           /\ timeline[a + d + n].what = Runbook!Outcome[verdicts[asked[n]]]
           /\ timeline[a + d + n].action = asked[n]
  BY TimelineRead
<1>2. PICK N \in Nat : DOMAIN actions = 1..N
  BY DEF RunbookInv, RunbookTyped
<1>3. Safe \in SUBSET Nat /\ D \in SUBSET Nat
  BY <1>2 DEF Safe, Runbook!Destructive
<1>4. /\ \A j \in Safe : \E n \in 1..a : safe[n] = j /\ \A k \in 1..a : safe[k] = j => k = n
      /\ \A j \in D : \E n \in 1..d : asked[n] = j /\ \A k \in 1..d : asked[k] = j => k = n
  BY <1>1, <1>3, MetOnce
<1>5. (\A n \in 1..a : safe[n] \in Safe) /\ (\A n \in 1..d : asked[n] \in D)
  BY <1>1 DEF Ordering
<1>6. Safe \cap D = {} /\ (i \in Safe \/ i \in D) /\ (i \in D <=> actions[i].destructive)
  BY DEF Safe, Runbook!Destructive
<1> HIDE DEF a, d, D, safe, asked
<1>7. \A n \in 1..(a + d + d) :
        n \in 1..a \/ (n - a \in 1..d /\ a + (n - a) = n) \/ (n - a - d \in 1..d /\ a + d + (n - a - d) = n)
  BY <1>1
<1>8. CASE i \in Safe
  <2>1. PICK n \in 1..a : safe[n] = i /\ \A k \in 1..a : safe[k] = i => k = n
    BY <1>4, <1>8
  <2>2. n \in about
    <3>1. n \in 1..(a + d + d)
      BY <1>1, <2>1
    <3> QED
      BY <1>1, <2>1, <3>1
  <2>3. ASSUME NEW k \in about PROVE k = n
    <3>1. k \in 1..(a + d + d) /\ timeline[k].action = i
      BY <1>1
    <3>2. CASE k \in 1..a
      BY <1>1, <2>1, <3>1, <3>2
    <3>3. CASE k - a \in 1..d /\ a + (k - a) = k
      <4>1. timeline[a + (k - a)].action \in D
        BY <1>1, <1>5, <3>3
      <4> QED
        BY <1>6, <1>8, <3>1, <3>3, <4>1
    <3>4. CASE k - a - d \in 1..d /\ a + d + (k - a - d) = k
      <4>1. timeline[a + d + (k - a - d)].action \in D
        BY <1>1, <1>5, <3>4
      <4> QED
        BY <1>6, <1>8, <3>1, <3>4, <4>1
    <3> QED
      BY <1>7, <3>1, <3>2, <3>3, <3>4
  <2>4. ~ actions[i].destructive /\ timeline[n].what = "auto"
    BY <1>1, <1>6, <1>8, <2>1
  <2> HIDE DEF about
  <2>5. about = {n, n}
    BY <2>2, <2>3
  <2> QED
    BY <2>2, <2>4, <2>5 DEF about
<1>9. CASE i \in D
  <2>1. PICK n \in 1..d : asked[n] = i /\ \A k \in 1..d : asked[k] = i => k = n
    BY <1>4, <1>9
  <2>2. a + n \in 1..(a + d + d) /\ a + d + n \in 1..(a + d + d) /\ a + n < a + d + n
    BY <1>1, <2>1
  <2>3. /\ timeline[a + n].what = "blocked" /\ timeline[a + n].action = i
        /\ timeline[a + d + n].what = Runbook!Outcome[verdicts[i]] /\ timeline[a + d + n].action = i
    BY <1>1, <2>1
  <2>4. a + n \in about /\ a + d + n \in about
    BY <1>1, <2>2, <2>3
  <2>5. ASSUME NEW k \in about PROVE k = a + n \/ k = a + d + n
    <3>1. k \in 1..(a + d + d) /\ timeline[k].action = i
      BY <1>1
    <3>2. CASE k \in 1..a
      BY <1>1, <1>5, <1>6, <1>9, <3>1, <3>2
    <3>3. CASE k - a \in 1..d /\ a + (k - a) = k
      <4>1. timeline[a + (k - a)].action = asked[k - a]
        BY <1>1, <3>3
      <4>2. k - a = n
        BY <2>1, <3>1, <3>3, <4>1
      <4> QED
        BY <3>3, <4>2
    <3>4. CASE k - a - d \in 1..d /\ a + d + (k - a - d) = k
      <4>1. timeline[a + d + (k - a - d)].action = asked[k - a - d]
        BY <1>1, <3>4
      <4>2. k - a - d = n
        BY <2>1, <3>1, <3>4, <4>1
      <4> QED
        BY <3>4, <4>2
    <3> QED
      BY <1>7, <3>1, <3>2, <3>3, <3>4
  <2> HIDE DEF about
  <2>6. about = {a + n, a + d + n}
    BY <2>4, <2>5
  <2>7. actions[i].destructive
    BY <1>6, <1>9
  <2> QED
    BY <2>2, <2>3, <2>4, <2>6, <2>7 DEF about
<1> QED
  BY <1>6, <1>8, <1>9

(* What is listed as blocked is what was asked.                            *)
LEMMA BlockedAsked ==
  ASSUME RunbookInv, AccountsInv PROVE Runbook!BlockedAreAsked
<1> SUFFICES ASSUME stage \in {"waiting", "decided"} PROVE Runbook!BlockedAreAsked
  BY DEF Runbook!BlockedAreAsked
<1> DEFINE requests == {i \in DOMAIN actions : verdicts[i] # "none"}
           chosen == {i \in DOMAIN actions : actions[i].destructive = TRUE}
<1>1. requests = chosen
  <2>1. \A i \in DOMAIN actions : i \in Runbook!Destructive <=> actions[i].destructive = TRUE
    BY DEF RunbookInv, RunbookTyped, Action, Runbook!Destructive
  <2>2. \A i \in DOMAIN actions : verdicts[i] # "none" <=> i \in Runbook!Destructive
    BY DEF RunbookInv, AskedInTime, AccountsInv, DecidedInTime
  <2> QED
    BY <2>1, <2>2
<1>2. lists.blocked = Runbook!StepsOf(actions, TRUE)
  <2>1. stage # "diagnosed"
    OBVIOUS
  <2>2. lists = [auto |-> Runbook!StepsOf(actions, FALSE), blocked |-> Runbook!StepsOf(actions, TRUE)]
    BY <2>1 DEF AccountsInv, ListedInTime
  <2> QED
    BY <2>2
<1>3. Runbook!StepsOf(actions, TRUE) = [n \in DOMAIN Runbook!InOrder(chosen) |-> actions[Runbook!InOrder(chosen)[n]].step]
  BY DEF Runbook!StepsOf
<1> QED
  BY <1>1, <1>2, <1>3 DEF Runbook!BlockedAreAsked

(* The simulated report says what the actions say.                         *)
LEMMA ReportTells ==
  ASSUME RunbookInv, AccountsInv PROVE Runbook!ReportTellsOutcome
<1> SUFFICES ASSUME rca.from = "simulation" PROVE Runbook!ReportTellsOutcome
  BY DEF Runbook!ReportTellsOutcome
<1>1. /\ stage = "reported"
      /\ rca = [from |-> "simulation", timeline |-> timeline, taken |-> Runbook!ExecutedSteps,
                withheld |-> Runbook!Destructive # {}]
  <2>1. Runbook!NoReport.from = "none" /\ [from |-> "model"].from = "model"
    BY DEF Runbook!NoReport
  <2>2. rca # Runbook!NoReport /\ rca # [from |-> "model"]
    BY <2>1
  <2> QED
    BY <2>2 DEF AccountsInv, ReportedInTime
<1>2. rca.taken = Runbook!ExecutedSteps /\ rca.timeline = timeline
  BY <1>1
<1>3. rca.withheld <=> Runbook!Destructive # {}
  BY <1>1, Zenon
<1>4. rca.taken \ claimed = {i \in (DOMAIN actions) \ claimed :
                               i \notin Runbook!Destructive \/ verdicts[i] = "APPROVED"}
  <2>1. \A i \in (DOMAIN actions) \ claimed :
          actions[i].executed <=> i \notin Runbook!Destructive \/ verdicts[i] = "APPROVED"
    BY <1>1 DEF RunbookInv, ExecutedInTime
  <2>2. Runbook!ExecutedSteps = {i \in DOMAIN actions : actions[i].executed}
    BY DEF Runbook!ExecutedSteps
  <2> QED
    BY <1>2, <2>1, <2>2
<1>5. Runbook!Destructive # {} <=> \E n \in DOMAIN timeline : timeline[n].what = "blocked"
  <2> DEFINE a == Cardinality(Safe)
             D == Runbook!Destructive
             d == Cardinality(D)
             asked == Runbook!InOrder(D)
  <2>1. /\ a \in Nat /\ d \in Nat /\ Ordering(asked, D)
        /\ DOMAIN timeline = 1..(a + d + d)
        /\ \A n \in 1..a : timeline[n].what = "auto"
        /\ \A n \in 1..d : /\ timeline[a + n].what = "blocked"
                           /\ timeline[a + d + n].what \in {"approved", "rejected", "timed out"}
    BY <1>1, TimelineRead
  <2>2. /\ \A j \in D : \E n \in 1..d : asked[n] = j
        /\ \A n \in 1..d : asked[n] \in D
    BY <2>1 DEF Ordering, Range
  <2> HIDE DEF a, d, D, asked
  <2>3. a \in Nat /\ d \in Nat
    BY <2>1
  <2>4. D # {} => \E n \in DOMAIN timeline : timeline[n].what = "blocked"
    <3> SUFFICES ASSUME NEW j \in D PROVE \E n \in DOMAIN timeline : timeline[n].what = "blocked"
      OBVIOUS
    <3>1. PICK n \in 1..d : asked[n] = j
      BY <2>2
    <3>2. a + n \in 1..(a + d + d)
      BY <2>3, <3>1
    <3> QED
      BY <2>1, <3>2
  <2>5. ASSUME NEW n \in DOMAIN timeline, timeline[n].what = "blocked" PROVE D # {}
    <3>1. n \in 1..(a + d + d)
      BY <2>1
    <3>2. n \notin 1..a
      BY <2>1, <2>5
    <3>3. n - a \in 1..d \/ n - a - d \in 1..d
      BY <2>3, <3>1, <3>2
    <3> QED
      BY <2>2, <3>3
  <2> QED
    BY <2>4, <2>5 DEF D
<1>6. rca.withheld <=> \E n \in DOMAIN rca.timeline : rca.timeline[n].what = "blocked"
  BY <1>2, <1>3, <1>5, Zenon
<1> QED
  BY <1>4, <1>6, Zenon DEF Runbook!ReportTellsOutcome

(* Every type of the runbook's state.                                      *)
LEMMA RunbookTypeOK ==
  ASSUME RunbookInv, AccountsInv PROVE Runbook!TypeOK
<1>1. /\ stage \in {"diagnosed", "planned", "executed", "waiting", "decided", "settled", "reported"}
      /\ source \in {"none", "model", "simulation"} /\ cause \in Causes
      /\ \A i \in DOMAIN actions :
           actions[i] \in [step : Nat, destructive : BOOLEAN, hitl : BOOLEAN, executed : BOOLEAN]
      /\ verdicts \in [DOMAIN actions -> Runbook!Statuses]
      /\ claimed \subseteq DOMAIN actions
  BY DEF RunbookInv, RunbookTyped, Action
<1>2. lists \in [auto : Seq(Nat), blocked : Seq(Nat)]
  BY DEF AccountsInv, ListedInTime
<1>3. \A n \in DOMAIN timeline :
        timeline[n].what \in Runbook!Entries /\ timeline[n].action \in DOMAIN actions
  <2>1. timeline \in Seq(TimelineEntry)
    BY DEF AccountsInv, ToldInTime
  <2>2. \A n \in DOMAIN timeline : timeline[n] \in TimelineEntry
    BY <2>1, LenProperties, ElementOfSeq
  <2> QED
    BY <2>2 DEF TimelineEntry
<1>4. rca.from \in {"none", "model", "simulation"}
  BY DEF AccountsInv, ReportedInTime, Runbook!NoReport
<1> QED
  BY <1>1, <1>2, <1>3, <1>4 DEF Runbook!TypeOK
-----------------------------------------------------------------------------
(* The configuration of a process.                                         *)

(* A sequence, of whatever values.                                         *)
IsSequence(s) == s \in Seq(Range(s))

(* Its positions.                                                          *)
LEMMA SequenceBounds ==
  ASSUME NEW s, IsSequence(s)
  PROVE  Len(s) \in Nat /\ DOMAIN s = 1..Len(s)
BY LenProperties DEF IsSequence

(* One sequence after another.                                             *)
LEMMA Joined ==
  ASSUME NEW s, NEW t, IsSequence(s), IsSequence(t)
  PROVE  /\ IsSequence(s \o t) /\ Len(s \o t) = Len(s) + Len(t)
         /\ \A n \in 1..Len(s) : (s \o t)[n] = s[n]
         /\ \A n \in 1..Len(t) : (s \o t)[Len(s) + n] = t[n]
<1> DEFINE S == Range(s) \cup Range(t)
<1>1. Range(s) \subseteq S /\ Range(t) \subseteq S
  OBVIOUS
<1> HIDE DEF S
<1>2. s \in Seq(S) /\ t \in Seq(S)
  BY <1>1, SeqMonotonic DEF IsSequence
<1>3. /\ s \o t \in Seq(S) /\ Len(s \o t) = Len(s) + Len(t)
      /\ \A k \in 1..Len(s) : (s \o t)[k] = s[k]
      /\ \A k \in 1..Len(t) : (s \o t)[Len(s) + k] = t[k]
  BY <1>2, Appended
<1>4. IsSequence(s \o t)
  BY <1>3, SeqOfRange DEF IsSequence
<1> QED
  BY <1>3, <1>4

(* The entry that an earlier one of the history is replayed to.            *)
ReplayedIn(log, settings, key, n) ==
  LET about == {m \in 1..(n - 1) : log[m].key = key}
  IN  IF about = {} THEN settings[key]
      ELSE LET last == log[Max(about)]
           IN  IF last.op = "set" THEN last.new ELSE settings[key]

(* That is what the model's replay does.                                   *)
LEMMA ReplayedIs ==
  /\ \A key, n : Config!Replayed(key, n) = ReplayedIn(history, base, key, n)
  /\ \A key, n : Config!Replayed(key, n)' = ReplayedIn(history', base', key, n)
<1>1. \A S : Config!Max(S) = Max(S)
  BY DEF Config!Max, Max
<1> QED
  BY <1>1 DEF Config!Replayed, ReplayedIn

(* The last entry about a key is what counts.                              *)
LEMMA LastCounts ==
  ASSUME NEW log, NEW settings, NEW key, NEW n \in Nat, NEW m \in 1..(n - 1), log[m].key = key,
         \A k \in 1..(n - 1) : log[k].key = key => k <= m
  PROVE  ReplayedIn(log, settings, key, n) = IF log[m].op = "set" THEN log[m].new ELSE settings[key]
<1> DEFINE about == {k \in 1..(n - 1) : log[k].key = key}
<1>1. about \subseteq 0..n /\ m \in about /\ \A k \in about : k <= m
  OBVIOUS
<1>2. Max(about) = m
  <2> HIDE DEF about
  <2>1. Max(about) \in about /\ \A k \in about : k <= Max(about)
    BY <1>1, MaxGreatest
  <2>2. Max(about) \in 0..n /\ m \in 0..n /\ Max(about) <= m /\ m <= Max(about)
    <3>1. Max(about) \in 0..n /\ m \in 0..n
      BY <1>1, <2>1, Zenon
    <3>2. Max(about) <= m /\ m <= Max(about)
      BY <1>1, <2>1, Zenon
    <3> QED
      BY <3>1, <3>2
  <2> QED
    BY <2>2
<1> HIDE DEF about
<1>3. about # {}
  BY <1>1
<1> QED
  BY <1>2, <1>3 DEF ReplayedIn, about

(* Entries about other keys do not.                                        *)
LEMMA OthersDoNot ==
  ASSUME NEW log, NEW more, NEW settings, NEW key, NEW n \in Nat, NEW k \in Nat, k <= n,
         \A m \in 1..(k - 1) : more[m] = log[m],
         \A m \in 1..(n - 1) : m >= k => more[m].key # key
  PROVE  ReplayedIn(more, settings, key, n) = ReplayedIn(log, settings, key, k)
<1> DEFINE before == {m \in 1..(k - 1) : log[m].key = key}
           after == {m \in 1..(n - 1) : more[m].key = key}
<1>1. \A m \in 1..(n - 1) : m \in 1..(k - 1) \/ m >= k
  OBVIOUS
<1>2. \A m \in 1..(k - 1) : m \in 1..(n - 1)
  OBVIOUS
<1>3. before = after
  BY <1>1, <1>2
<1>4. before \subseteq 0..n
  OBVIOUS
<1>5. before # {} => Max(before) \in 1..(k - 1)
  <2> HIDE DEF before
  <2>1. before # {} => Max(before) \in before
    BY <1>4, MaxGreatest
  <2> QED
    BY <2>1 DEF before
<1> HIDE DEF before, after
<1>6. before # {} => more[Max(before)] = log[Max(before)]
  BY <1>5
<1> QED
  BY <1>3, <1>6 DEF ReplayedIn, before, after
-----------------------------------------------------------------------------
(* HotReloadConfig.set, for each of a sequence of different keys.          *)
LEMMA SetAllMakes ==
  ASSUME NEW items, NEW by, IsSequence(items), IsSequence(history),
         \A i, j \in DOMAIN items : items[i].key = items[j].key => i = j,
         Config!SetAll(items, by)
  PROVE  /\ DOMAIN overrides' = DOMAIN overrides \cup {items[i].key : i \in DOMAIN items}
         /\ \A i \in DOMAIN items : overrides'[items[i].key] = items[i].value
         /\ \A key \in DOMAIN overrides :
              (\A i \in DOMAIN items : items[i].key # key) => overrides'[key] = overrides[key]
         /\ IsSequence(history') /\ Len(history') = Len(history) + Len(items)
         /\ \A n \in 1..Len(history) : history'[n] = history[n]
         /\ \A i \in 1..Len(items) :
              history'[Len(history) + i] = Config!SetRecord(items[i], by, Config!Get(items[i].key))
<1> DEFINE keysSet == {items[i].key : i \in DOMAIN items}
           given(key) == CHOOSE item \in Config!Range(items) : item.key = key
           made == [i \in DOMAIN items |-> Config!SetRecord(items[i], by, Config!Get(items[i].key))]
<1>1. /\ overrides' = [key \in DOMAIN overrides \cup keysSet |->
                         IF key \in keysSet THEN given(key).value ELSE overrides[key]]
      /\ history' = history \o made
  BY DEF Config!SetAll
<1>2. \A i \in DOMAIN items : given(items[i].key) = items[i]
  <2> SUFFICES ASSUME NEW i \in DOMAIN items PROVE given(items[i].key) = items[i]
    OBVIOUS
  <2>1. Config!Range(items) = {items[j] : j \in DOMAIN items}
    BY DEF Config!Range
  <2>2. items[i] \in Config!Range(items)
    BY <2>1
  <2>3. given(items[i].key) \in Config!Range(items) /\ given(items[i].key).key = items[i].key
    BY <2>2
  <2>4. PICK j \in DOMAIN items : given(items[i].key) = items[j]
    BY <2>1, <2>3
  <2>5. j = i
    BY <2>3, <2>4
  <2> QED
    BY <2>4, <2>5
<1> HIDE DEF given
<1>3. DOMAIN overrides' = DOMAIN overrides \cup keysSet
  BY <1>1
<1>4. \A i \in DOMAIN items : overrides'[items[i].key] = items[i].value
  BY <1>1, <1>2
<1>5. \A key \in DOMAIN overrides :
        (\A i \in DOMAIN items : items[i].key # key) => overrides'[key] = overrides[key]
  BY <1>1
<1>6. IsSequence(made) /\ Len(made) = Len(items)
  <2>1. DOMAIN items = 1..Len(items) /\ Len(items) \in Nat
    BY SequenceBounds
  <2>2. made \in [1..Len(items) -> Range(made)]
    BY <2>1 DEF Range
  <2>3. DOMAIN made = 1..Len(items)
    BY <2>1
  <2> HIDE DEF made
  <2>4. made \in Seq(Range(made))
    BY <2>1, <2>2, SeqDef
  <2> QED
    BY <2>1, <2>3, <2>4, LenProperties DEF IsSequence
<1>7. \A i \in 1..Len(items) :
        made[i] = Config!SetRecord(items[i], by, Config!Get(items[i].key))
  BY SequenceBounds
<1> HIDE DEF made
<1>8. /\ IsSequence(history') /\ Len(history') = Len(history) + Len(made)
      /\ \A n \in 1..Len(history) : history'[n] = history[n]
      /\ \A n \in 1..Len(made) : history'[Len(history) + n] = made[n]
  <2>1. history' = history \o made
    BY <1>1
  <2>2. /\ IsSequence(history \o made) /\ Len(history \o made) = Len(history) + Len(made)
        /\ \A n \in 1..Len(history) : (history \o made)[n] = history[n]
        /\ \A n \in 1..Len(made) : (history \o made)[Len(history) + n] = made[n]
    BY <1>6, Joined
  <2> QED
    BY <2>1, <2>2
<1> QED
  BY <1>3, <1>4, <1>5, <1>6, <1>7, <1>8
-----------------------------------------------------------------------------
(* That a history is true, of given overrides and settings.                *)
GetIn(over, settings, key) == IF key \in DOMAIN over THEN over[key] ELSE settings[key]

(* The two halves of HistoryTrue.                                          *)
TrueIn(over, log, settings) ==
  /\ \A key \in DOMAIN settings :
       GetIn(over, settings, key) = ReplayedIn(log, settings, key, Len(log) + 1)
  /\ \A n \in DOMAIN log :
       log[n].op = "set" => log[n].old = ReplayedIn(log, settings, log[n].key, n)

(* They are HistoryTrue, of a state and of the next.                       *)
LEMMA TrueIs ==
  /\ Config!HistoryTrue <=> TrueIn(overrides, history, base)
  /\ Config!HistoryTrue' <=> TrueIn(overrides', history', base')
<1>1. \A S : Config!Max(S) = Max(S)
  BY DEF Config!Max, Max
<1>2. /\ \A key : Config!Get(key) = GetIn(overrides, base, key)
      /\ \A key : Config!Get(key)' = GetIn(overrides', base', key)
  BY DEF Config!Get, GetIn
<1>3. Config!HistoryExplains <=>
        \A key \in DOMAIN base :
          GetIn(overrides, base, key) = ReplayedIn(history, base, key, Len(history) + 1)
  BY <1>2, ReplayedIs DEF Config!HistoryExplains
<1>4. Config!HistoryExplains' <=>
        \A key \in DOMAIN base' :
          GetIn(overrides', base', key) = ReplayedIn(history', base', key, Len(history') + 1)
  BY <1>1 DEF Config!HistoryExplains, Config!Get, GetIn, Config!Replayed, ReplayedIn
<1>5. Config!OldValuesTrue <=>
        \A n \in DOMAIN history :
          history[n].op = "set" => history[n].old = ReplayedIn(history, base, history[n].key, n)
  BY ReplayedIs DEF Config!OldValuesTrue
<1>6. Config!OldValuesTrue' <=>
        \A n \in DOMAIN history' :
          history'[n].op = "set" => history'[n].old = ReplayedIn(history', base', history'[n].key, n)
  BY <1>1 DEF Config!OldValuesTrue, Config!Replayed, ReplayedIn
<1> QED
  BY <1>3, <1>4, <1>5, <1>6 DEF Config!HistoryTrue, TrueIn

(* A true history stays true when an update's keys are set ...             *)
LEMMA SetStaysTrue ==
  ASSUME NEW items, NEW by, IsSequence(items), IsSequence(history),
         \A i, j \in DOMAIN items : items[i].key = items[j].key => i = j,
         \A i \in DOMAIN items : items[i].key \in DOMAIN base,
         Config!SetAll(items, by), base' = base, Config!HistoryTrue
  PROVE  Config!HistoryTrue'
<1> DEFINE L == Len(history)
           k == Len(items)
<1>1. L \in Nat /\ k \in Nat /\ DOMAIN history = 1..L /\ DOMAIN items = 1..k
  BY SequenceBounds
<1>2. /\ DOMAIN overrides' = DOMAIN overrides \cup {items[i].key : i \in DOMAIN items}
      /\ \A i \in DOMAIN items : overrides'[items[i].key] = items[i].value
      /\ \A key \in DOMAIN overrides :
           (\A i \in DOMAIN items : items[i].key # key) => overrides'[key] = overrides[key]
  BY SetAllMakes
<1>3. /\ IsSequence(history') /\ Len(history') = L + k
      /\ \A n \in 1..L : history'[n] = history[n]
      /\ \A i \in 1..k : history'[L + i] = Config!SetRecord(items[i], by, Config!Get(items[i].key))
  BY SetAllMakes, ZenonT(60)
<1>4. TrueIn(overrides, history, base)
  BY TrueIs
<1>5. DOMAIN history' = 1..(L + k)
  BY <1>3, SequenceBounds
<1>6. \A key : Config!Get(key) = GetIn(overrides, base, key)
  BY DEF Config!Get, GetIn
<1> HIDE DEF L, k
<1>7. \A i \in 1..k : /\ history'[L + i].op = "set" /\ history'[L + i].key = items[i].key
                      /\ history'[L + i].old = GetIn(overrides, base, items[i].key)
                      /\ history'[L + i].new = items[i].value
  <2> SUFFICES ASSUME NEW i \in 1..k
               PROVE  /\ history'[L + i].op = "set" /\ history'[L + i].key = items[i].key
                      /\ history'[L + i].old = GetIn(overrides, base, items[i].key)
                      /\ history'[L + i].new = items[i].value
    OBVIOUS
  <2>1. history'[L + i] = [op |-> "set", key |-> items[i].key, by |-> by,
                           old |-> GetIn(overrides, base, items[i].key), new |-> items[i].value]
    BY <1>3, <1>6 DEF Config!SetRecord
  <2> QED
    BY <2>1
<1>8. \A n \in 1..(L + k) : n >= L + 1 => n - L \in 1..k /\ n = L + (n - L)
  BY <1>1
<1>9. \A key \in DOMAIN base : GetIn(overrides, base, key) = ReplayedIn(history, base, key, L + 1)
  BY <1>4 DEF TrueIn, L
<1>10. ASSUME NEW key \in DOMAIN base
       PROVE  GetIn(overrides', base, key) = ReplayedIn(history', base, key, L + k + 1)
  <2>1. CASE \E i \in DOMAIN items : items[i].key = key
    <3>1. PICK i \in 1..k : items[i].key = key
      BY <1>1, <2>1
    <3>2. GetIn(overrides', base, key) = items[i].value
      BY <1>1, <1>2, <3>1 DEF GetIn
    <3>3. L + i \in 1..((L + k + 1) - 1) /\ L + k + 1 \in Nat
      BY <1>1
    <3>4. ASSUME NEW m \in 1..((L + k + 1) - 1), history'[m].key = key PROVE m <= L + i
      <4>1. CASE m >= L + 1
        <5>1. m - L \in 1..k /\ m = L + (m - L)
          BY <1>1, <4>1
        <5>2. items[m - L].key = key
          BY <1>7, <3>4, <5>1
        <5>3. m - L = i
          BY <1>1, <3>1, <5>1, <5>2
        <5> QED
          BY <1>1, <5>3
      <4>2. CASE ~ (m >= L + 1)
        BY <1>1, <4>2
      <4> QED
        BY <4>1, <4>2
    <3>5. history'[L + i].key = key /\ history'[L + i].op = "set" /\ history'[L + i].new = items[i].value
      BY <1>7, <3>1
    <3>6. ReplayedIn(history', base, key, L + k + 1) =
            IF history'[L + i].op = "set" THEN history'[L + i].new ELSE base[key]
      BY <3>3, <3>4, <3>5, LastCounts
    <3> QED
      BY <3>2, <3>5, <3>6
  <2>2. CASE \A i \in DOMAIN items : items[i].key # key
    <3>1. GetIn(overrides', base, key) = GetIn(overrides, base, key)
      BY <1>2, <2>2 DEF GetIn
    <3>2. L + k + 1 \in Nat /\ L + 1 \in Nat /\ L + 1 <= L + k + 1 /\ (L + 1) - 1 = L /\ (L + k + 1) - 1 = L + k
      BY <1>1
    <3>3. \A m \in 1..((L + 1) - 1) : history'[m] = history[m]
      BY <1>3, <3>2
    <3>4. \A m \in 1..((L + k + 1) - 1) : m >= L + 1 => history'[m].key # key
      <4> SUFFICES ASSUME NEW m \in 1..((L + k + 1) - 1), m >= L + 1 PROVE history'[m].key # key
        OBVIOUS
      <4>1. m - L \in 1..k /\ m = L + (m - L)
        BY <1>8, <3>2
      <4>2. history'[m].key = items[m - L].key
        BY <1>7, <4>1
      <4> QED
        BY <1>1, <2>2, <4>1, <4>2
    <3>5. ReplayedIn(history', base, key, L + k + 1) = ReplayedIn(history, base, key, L + 1)
      BY <3>2, <3>3, <3>4, OthersDoNot
    <3> QED
      BY <1>9, <3>1, <3>5
  <2> QED
    BY <2>1, <2>2
<1>11. ASSUME NEW n \in 1..(L + k), history'[n].op = "set"
       PROVE  history'[n].old = ReplayedIn(history', base, history'[n].key, n)
  <2>1. CASE n \in 1..L
    <3>1. history'[n] = history[n] /\ n \in Nat /\ n <= n
      BY <1>3, <2>1
    <3>2. history[n].old = ReplayedIn(history, base, history[n].key, n)
      BY <1>1, <1>4, <1>11, <2>1, <3>1 DEF TrueIn
    <3>3. /\ \A m \in 1..(n - 1) : history'[m] = history[m]
          /\ \A m \in 1..(n - 1) : m >= n => history'[m].key # history[n].key
      <4>1. \A m \in 1..(n - 1) : m \in 1..L /\ ~ (m >= n)
        BY <1>1, <2>1
      <4> QED
        BY <1>3, <4>1
    <3>4. ReplayedIn(history', base, history[n].key, n) = ReplayedIn(history, base, history[n].key, n)
      BY <3>1, <3>3, OthersDoNot
    <3> QED
      BY <3>1, <3>2, <3>4
  <2>2. CASE n >= L + 1
    <3>1. PICK i \in 1..k : n = L + i
      BY <1>8, <2>2
    <3> DEFINE key == items[i].key
    <3>2. history'[n].key = key /\ history'[n].old = GetIn(overrides, base, key)
      BY <1>7, <3>1
    <3>3. GetIn(overrides, base, key) = ReplayedIn(history, base, key, L + 1)
      BY <1>1, <1>9
    <3>4. \A m \in 1..(n - 1) : m >= L + 1 => history'[m].key # key
      <4> SUFFICES ASSUME NEW m \in 1..(n - 1), m >= L + 1, history'[m].key = key PROVE FALSE
        OBVIOUS
      <4>1. m - L \in 1..k /\ m = L + (m - L) /\ m - L # i
        BY <1>1, <3>1
      <4>2. items[m - L].key = key
        BY <1>7, <4>1
      <4> QED
        BY <1>1, <4>1, <4>2
    <3> DEFINE from == L + 1
    <3>5. n \in Nat /\ from \in Nat /\ from <= n /\ from - 1 = L
      BY <1>1, <2>2
    <3>6. \A m \in 1..(from - 1) : history'[m] = history[m]
      BY <1>3, <3>5
    <3>7. \A m \in 1..(n - 1) : m >= from => history'[m].key # key
      BY <3>4
    <3> HIDE DEF key, from
    <3>8. ReplayedIn(history', base, key, n) = ReplayedIn(history, base, key, from)
      BY <3>5, <3>6, <3>7, OthersDoNot
    <3> QED
      BY <3>2, <3>3, <3>8 DEF from
  <2> QED
    BY <1>1, <2>1, <2>2
<1>12. TrueIn(overrides', history', base)
  BY <1>3, <1>5, <1>10, <1>11 DEF TrueIn
<1> QED
  BY <1>12, TrueIs
(* ... and when one is reset.                                              *)
LEMMA AppendedOne ==
  ASSUME NEW s, NEW e, IsSequence(s)
  PROVE  /\ IsSequence(Append(s, e)) /\ Len(Append(s, e)) = Len(s) + 1
         /\ \A n \in 1..Len(s) : Append(s, e)[n] = s[n]
         /\ Append(s, e)[Len(s) + 1] = e
<1> DEFINE S == Range(s) \cup {e}
<1>1. Range(s) \subseteq S /\ e \in S
  OBVIOUS
<1> HIDE DEF S
<1>2. s \in Seq(S)
  BY <1>1, SeqMonotonic DEF IsSequence
<1>3. /\ Append(s, e) \in Seq(S) /\ Len(Append(s, e)) = Len(s) + 1
      /\ \A n \in 1..Len(s) : Append(s, e)[n] = s[n]
      /\ Append(s, e)[Len(s) + 1] = e
  BY <1>1, <1>2, AppendProperties
<1>4. IsSequence(Append(s, e))
  BY <1>3, SeqOfRange DEF IsSequence
<1> QED
  BY <1>3, <1>4

(* HotReloadConfig.reset.                                                  *)
LEMMA ResetMakes ==
  ASSUME NEW key, NEW by, IsSequence(history), Config!Reset(key, by)
  PROVE  /\ DOMAIN overrides' = DOMAIN overrides \ {key}
         /\ \A k \in DOMAIN overrides : k # key => overrides'[k] = overrides[k]
         /\ IsSequence(history') /\ Len(history') = Len(history) + 1
         /\ \A n \in 1..Len(history) : history'[n] = history[n]
         /\ history'[Len(history) + 1] = Config!ResetRecord(key, by)
         /\ reply'.answer = "reset"
<1>1. /\ overrides' = [k \in DOMAIN overrides \ {key} |-> overrides[k]]
      /\ history' = Append(history, Config!ResetRecord(key, by))
      /\ reply' = [answer |-> "reset", key |-> key]
  BY DEF Config!Reset, Config!Restrict
<1>2. reply'.answer = "reset"
  BY <1>1
<1>3. /\ DOMAIN overrides' = DOMAIN overrides \ {key}
      /\ \A k \in DOMAIN overrides : k # key => overrides'[k] = overrides[k]
  BY <1>1
<1> DEFINE e == Config!ResetRecord(key, by)
<1> HIDE DEF e
<1>4. /\ IsSequence(Append(history, e)) /\ Len(Append(history, e)) = Len(history) + 1
      /\ \A n \in 1..Len(history) : Append(history, e)[n] = history[n]
      /\ Append(history, e)[Len(history) + 1] = e
  BY AppendedOne
<1>5. history' = Append(history, e)
  BY <1>1 DEF e
<1> QED
  BY <1>2, <1>3, <1>4, <1>5 DEF e

(* A reset is explained by its record.                                     *)
LEMMA ResetStaysTrue ==
  ASSUME NEW key, NEW by, IsSequence(history),
         Config!Reset(key, by), base' = base, Config!HistoryTrue
  PROVE  Config!HistoryTrue'
<1> DEFINE L == Len(history)
<1>1. L \in Nat /\ DOMAIN history = 1..L
  BY SequenceBounds
<1>2. /\ DOMAIN overrides' = DOMAIN overrides \ {key}
      /\ \A k \in DOMAIN overrides : k # key => overrides'[k] = overrides[k]
  BY ResetMakes
<1>3. /\ IsSequence(history') /\ Len(history') = L + 1
      /\ \A n \in 1..L : history'[n] = history[n]
      /\ history'[L + 1] = Config!ResetRecord(key, by)
  BY ResetMakes
<1>4. TrueIn(overrides, history, base)
  BY TrueIs
<1>5. DOMAIN history' = 1..(L + 1)
  BY <1>3, SequenceBounds
<1>6. history'[L + 1].op = "reset" /\ history'[L + 1].key = key
  BY <1>3 DEF Config!ResetRecord
<1>7. \A k \in DOMAIN base : GetIn(overrides, base, k) = ReplayedIn(history, base, k, L + 1)
  BY <1>4 DEF TrueIn
<1> HIDE DEF L
<1> DEFINE from == L + 1
           to == L + 2
<1>8. from \in Nat /\ to \in Nat /\ from <= to /\ from - 1 = L /\ to - 1 = L + 1 /\ to = L + 1 + 1
  BY <1>1
<1>9. \A m \in 1..(from - 1) : history'[m] = history[m]
  BY <1>3, <1>8
<1>10. ASSUME NEW k \in DOMAIN base
       PROVE  GetIn(overrides', base, k) = ReplayedIn(history', base, k, to)
  <2>1. CASE k = key
    <3>1. GetIn(overrides', base, k) = base[k]
      BY <1>2, <2>1 DEF GetIn
    <3>2. from \in 1..(to - 1) /\ history'[from].key = k /\ \A m \in 1..(to - 1) : history'[m].key = k => m <= from
      BY <1>1, <1>6, <1>8, <2>1
    <3> HIDE DEF from, to
    <3>3. ReplayedIn(history', base, k, to) = IF history'[from].op = "set" THEN history'[from].new ELSE base[k]
      BY <1>8, <3>2, LastCounts
    <3>4. history'[from].op = "reset"
      BY <1>6 DEF from
    <3> QED
      BY <3>1, <3>3, <3>4
  <2>2. CASE k # key
    <3>1. GetIn(overrides', base, k) = GetIn(overrides, base, k)
      BY <1>2, <2>2 DEF GetIn
    <3>2. \A m \in 1..(to - 1) : m >= from => history'[m].key # k
      <4> SUFFICES ASSUME NEW m \in 1..(to - 1), m >= from PROVE history'[m].key # k
        OBVIOUS
      <4>1. m = L + 1
        BY <1>1, <1>8
      <4> QED
        BY <1>6, <2>2, <4>1
    <3> HIDE DEF from, to
    <3>3. ReplayedIn(history', base, k, to) = ReplayedIn(history, base, k, from)
      BY <1>8, <1>9, <3>2, OthersDoNot
    <3> QED
      BY <1>7, <3>1, <3>3 DEF from
  <2> QED
    BY <2>1, <2>2
<1>11. ASSUME NEW n \in 1..(L + 1), history'[n].op = "set"
       PROVE  history'[n].old = ReplayedIn(history', base, history'[n].key, n)
  <2>1. n \in 1..L
    BY <1>1, <1>6, <1>11
  <2>2. history'[n] = history[n] /\ n \in Nat /\ n <= n
    BY <1>3, <2>1
  <2>3. history[n].old = ReplayedIn(history, base, history[n].key, n)
    BY <1>1, <1>4, <1>11, <2>1, <2>2 DEF TrueIn
  <2>4. /\ \A m \in 1..(n - 1) : history'[m] = history[m]
        /\ \A m \in 1..(n - 1) : m >= n => history'[m].key # history[n].key
    <3>1. \A m \in 1..(n - 1) : m \in 1..L /\ ~ (m >= n)
      BY <1>1, <2>1
    <3> QED
      BY <1>3, <3>1
  <2>5. ReplayedIn(history', base, history[n].key, n) = ReplayedIn(history, base, history[n].key, n)
    BY <2>2, <2>4, OthersDoNot
  <2> QED
    BY <2>2, <2>3, <2>5
<1>12. TrueIn(overrides', history', base)
  BY <1>3, <1>5, <1>8, <1>10, <1>11 DEF TrueIn
<1> QED
  BY <1>12, TrueIs
-----------------------------------------------------------------------------
(* The keys of an update that are done: up to the first that is refused.   *)
LEMMA LeadingDone ==
  ASSUME NEW update, IsSequence(update)
  PROVE  LET n == Config!Leading(update)
             done == SubSeq(update, 1, n)
         IN  /\ n \in 0..Len(update)
             /\ \A i \in 1..n : update[i].key \in AllowedKeys
             /\ n # Len(update) => update[n + 1].key \notin AllowedKeys
             /\ IsSequence(done) /\ Len(done) = n
             /\ \A i \in 1..n : done[i] = update[i]
<1> DEFINE S == {n \in 0..Len(update) : \A i \in 1..n : update[i].key \in AllowedKeys}
           n == Config!Leading(update)
           done == SubSeq(update, 1, n)
<1>1. Len(update) \in Nat /\ DOMAIN update = 1..Len(update)
  BY SequenceBounds
<1>2. n = Max(S)
  BY DEF Config!Leading, Config!Max, Max
<1>3. S \subseteq 0..Len(update) /\ 0 \in S
  BY <1>1
<1>4. n \in S /\ \A m \in S : m <= n
  <2> HIDE DEF S, n
  <2>1. S # {}
    BY <1>3
  <2> QED
    BY <1>1, <1>2, <1>3, <2>1, MaxGreatest
<1> HIDE DEF n
<1>5. n \in 0..Len(update) /\ \A i \in 1..n : update[i].key \in AllowedKeys
  BY <1>4
<1>6. ASSUME n # Len(update), update[n + 1].key \in AllowedKeys PROVE FALSE
  <2>1. n + 1 \in 0..Len(update) /\ \A i \in 1..(n + 1) : i \in 1..n \/ i = n + 1
    <3>1. n \in 0..Len(update) /\ Len(update) \in Nat /\ n # Len(update)
      BY <1>1, <1>5, <1>6
    <3> QED
      BY <3>1, SMTT(30)
  <2>2. n + 1 \in S
    BY <1>5, <1>6, <2>1
  <2>3. n + 1 <= n
    BY <1>4, <2>2
  <2> QED
    BY <1>1, <1>5, <2>3
<1>7. IsSequence(done) /\ Len(done) = n /\ \A i \in 1..n : done[i] = update[i]
  <2>1. n \in Int /\ 1 \in Int /\ \A i \in 1..n : update[i] \in Range(update)
    BY <1>1, <1>5 DEF Range
  <2>2. /\ done \in Seq(Range(update)) /\ Len(done) = IF 1 <= n THEN n - 1 + 1 ELSE 0
        /\ \A i \in 1..(n - 1 + 1) : done[i] = update[1 + i - 1]
    BY <2>1, SubSeqProperties
  <2>3. IsSequence(done)
    BY <2>2, SeqOfRange DEF IsSequence
  <2> HIDE DEF done
  <2>4. Len(done) = n /\ n - 1 + 1 = n /\ \A i \in 1..n : 1 + i - 1 = i
    BY <1>1, <1>5, <2>2
  <2> QED
    BY <2>2, <2>3, <2>4
<1> QED
  BY <1>5, <1>6, <1>7 DEF n
-----------------------------------------------------------------------------
(* The inductive invariant of the configuration.                           *)
ConfigTyped ==
  /\ stores \in [Config!Stores -> StoreContents]
  /\ provider \in Config!Stores \cup {"gcp", "environment", "none"}
  /\ keys \in [Config!KeyFields -> Tokens \cup {Config!NoToken}]
  /\ auth \in BOOLEAN /\ base \in Bases
  /\ DOMAIN overrides \subseteq AllowedKeys
  /\ IsSequence(history) /\ \A n \in DOMAIN history : history[n].op \in {"set", "reset"}
  /\ reply.answer \in {"none", "updated", "refused", "reset", "denied"}

(* Without a process nothing is in force.                                  *)
IdleIsEmpty ==
  provider = "none" => overrides = <<>> /\ history = <<>> /\ reply = Config!NoReply

(* The keys are what their sources had at the start.                       *)
KeysResolved ==
  \A f \in Config!KeyFields :
    keys[f] = IF held[f].entry # Config!Lacking THEN held[f].entry ELSE held[f].env

(* Each change was made with the key of an ADMIN field.                    *)
MadeByAdmin ==
  auth => \A n \in DOMAIN history :
            /\ history[n].by # Config!NoToken
            /\ \E f \in Config!KeyFields : Config!ScopeOf[f] = Config!Admin /\ keys[f] = history[n].by

(* What is in force, who put it there, and what the history says.          *)
ConfigInv ==
  /\ ConfigTyped /\ IdleIsEmpty /\ KeysResolved /\ MadeByAdmin
  /\ Config!HistoryTrue /\ Config!RefusedInPart

(* The four key fields and their scopes.                                   *)
LEMMA FieldsAre ==
  /\ Config!KeyFields = 1..4
  /\ \A f \in 1..4 : Config!ScopeOf[f] \in 1..3
BY DEF Config!KeyFields, Config!Fields, Config!ScopeOf

(* Who is admitted to an ADMIN endpoint has the key of an ADMIN field.     *)
LEMMA AdmittedIsAdmin ==
  ASSUME NEW token, auth, Config!Admits(token, Config!Admin)
  PROVE  /\ token # Config!NoToken
         /\ \E f \in Config!KeyFields : Config!ScopeOf[f] = Config!Admin /\ keys[f] = token
<1> DEFINE fields == Config!FieldsWith(token)
<1>1. /\ token # Config!NoToken /\ fields # {}
      /\ Config!ScopeOf[Config!Max(fields)] >= 3
  BY DEF Config!Admits, Config!Scope, Config!Admin
<1>2. fields \subseteq 0..4 /\ \A f \in fields : f \in 1..4 /\ keys[f] = token
  BY FieldsAre DEF Config!FieldsWith
<1>3. Config!Max(fields) \in fields
  <2>1. Config!Max(fields) = Max(fields)
    BY DEF Config!Max, Max
  <2> HIDE DEF fields
  <2> QED
    BY <1>1, <1>2, <2>1, MaxGreatest
<1> DEFINE f == Config!Max(fields)
<1>4. f \in 1..4 /\ keys[f] = token /\ Config!ScopeOf[f] >= 3
  BY <1>1, <1>2, <1>3
<1> HIDE DEF f
<1>5. Config!ScopeOf[f] = 3
  BY <1>4, FieldsAre
<1> QED
  BY <1>1, <1>4, <1>5, FieldsAre DEF Config!Admin

(* The first state has the invariant.                                      *)
LEMMA ConfigStarts == Config!Init => ConfigInv
<1> SUFFICES ASSUME Config!Init PROVE ConfigInv
  OBVIOUS
<1>1. /\ stores \in [Config!Stores -> StoreContents]
      /\ provider = "none" /\ keys = Config!NoKeys /\ held = Config!NothingHeld
      /\ auth = FALSE /\ base \in Bases
      /\ overrides = <<>> /\ history = <<>> /\ reply = Config!NoReply
  BY DEF Config!Init
<1>2. DOMAIN overrides = {} /\ DOMAIN history = {} /\ Len(history) = 0 /\ IsSequence(history)
  BY <1>1, EmptySeq DEF IsSequence
<1>3. reply.answer = "none"
  BY <1>1 DEF Config!NoReply
<1>4. ConfigTyped
  <2>1. keys \in [Config!KeyFields -> Tokens \cup {Config!NoToken}]
    BY <1>1 DEF Config!NoKeys
  <2> QED
    BY <1>1, <1>2, <1>3, <2>1 DEF ConfigTyped
<1>5. KeysResolved
  BY <1>1 DEF KeysResolved, Config!NoKeys, Config!NothingHeld
<1>6. Config!HistoryTrue
  <2>1. \A key : GetIn(overrides, base, key) = base[key]
    BY <1>2 DEF GetIn
  <2>2. \A key : ReplayedIn(history, base, key, 1) = base[key]
    <3>1. 1..(1 - 1) = {}
      OBVIOUS
    <3> QED
      BY <3>1 DEF ReplayedIn
  <2>3. TrueIn(overrides, history, base)
    BY <1>2, <2>1, <2>2 DEF TrueIn
  <2> QED
    BY <2>3, TrueIs
<1>7. Config!RefusedInPart
  BY <1>3 DEF Config!RefusedInPart
<1> QED
  BY <1>1, <1>4, <1>5, <1>6, <1>7 DEF ConfigInv, IdleIsEmpty, MadeByAdmin
(* Truth needs only what is recorded and what is in force.                 *)
LEMMA TrueStays ==
  ASSUME Config!HistoryTrue, UNCHANGED <<overrides, history, base>> PROVE Config!HistoryTrue'
  BY TrueIs

(* An empty history is true of no overrides.                               *)
LEMMA NothingIsTrue ==
  ASSUME overrides' = <<>>, history' = <<>> PROVE Config!HistoryTrue'
<1>1. DOMAIN overrides' = {} /\ DOMAIN history' = {} /\ Len(history') = 0
  OBVIOUS
<1>2. \A key : GetIn(overrides', base', key) = base'[key]
  BY <1>1 DEF GetIn
<1>3. \A key : ReplayedIn(history', base', key, 1) = base'[key]
  <2>1. 1..(1 - 1) = {}
    OBVIOUS
  <2> QED
    BY <2>1 DEF ReplayedIn
<1>4. TrueIn(overrides', history', base')
  BY <1>1, <1>2, <1>3 DEF TrueIn
<1> QED
  BY <1>4, TrueIs

(* A process starts, on whichever layer, with whatever it answers.         *)
LEMMA StartKeepsConfig ==
  ASSUME Config!ConfigurationAssumption, ConfigInv, Config!Start PROVE ConfigInv'
<1>1. /\ provider = "none" /\ auth' \in BOOLEAN /\ base' \in Bases
      /\ UNCHANGED <<stores, overrides, history, reply>>
  BY DEF Config!Start
<1>2. PICK usable \in SUBSET (Config!Stores \cup {"gcp"}), answering \in SUBSET Config!KeyFields,
           env \in Environments :
        /\ provider' = Config!Layer(usable)
        /\ keys' = [f \in Config!KeyFields |-> Config!Resolve(provider', answering, env, f)]
        /\ held' = [f \in Config!KeyFields |->
                      [entry |-> IF Config!Answers(provider', answering, f) THEN stores[provider'][f]
                                                                           ELSE Config!Lacking,
                       env |-> env[f]]]
  BY DEF Config!Start
<1>3. overrides = <<>> /\ history = <<>> /\ reply = Config!NoReply
  BY <1>1 DEF ConfigInv, IdleIsEmpty
<1>4. provider' \in Config!Stores \cup {"gcp", "environment"}
  BY <1>2 DEF Config!Layer, Config!Stores
<1>5. ASSUME NEW f \in Config!KeyFields
      PROVE  /\ Config!Resolve(provider', answering, env, f) \in Tokens \cup {Config!NoToken}
             /\ Config!Resolve(provider', answering, env, f) =
                  IF held'[f].entry # Config!Lacking THEN held'[f].entry ELSE held'[f].env
  <2>1. env[f] \in Tokens \cup {Config!NoToken}
    BY DEF Config!ConfigurationAssumption
  <2>2. CASE Config!Answers(provider', answering, f)
    <3>1. provider' \in Config!Stores /\ stores[provider'][f] # Config!Lacking
      BY <2>2 DEF Config!Answers
    <3>2. stores[provider'] \in StoreContents
      BY <3>1 DEF ConfigInv, ConfigTyped
    <3>3. stores[provider'][f] \in Tokens \cup {Config!NoToken}
      BY <3>1, <3>2 DEF Config!ConfigurationAssumption
    <3>4. held'[f].entry = stores[provider'][f]
      BY <1>2, <2>2
    <3> QED
      BY <2>2, <3>1, <3>3, <3>4 DEF Config!Resolve
  <2>3. CASE ~Config!Answers(provider', answering, f)
    <3>1. held'[f].entry = Config!Lacking /\ held'[f].env = env[f]
      BY <1>2, <2>3
    <3> QED
      BY <2>1, <2>3, <3>1 DEF Config!Resolve
  <2> QED
    BY <2>2, <2>3
<1>6. \A f \in Config!KeyFields : keys'[f] = Config!Resolve(provider', answering, env, f)
  BY <1>2
<1>7. keys' \in [Config!KeyFields -> Tokens \cup {Config!NoToken}]
  BY <1>2, <1>5
<1>8. IsSequence(history) /\ DOMAIN history = {} /\ DOMAIN overrides = {}
  BY <1>3 DEF ConfigInv, ConfigTyped
<1>9. ConfigTyped'
  BY <1>1, <1>4, <1>7 DEF ConfigInv, ConfigTyped
<1>10. IdleIsEmpty' /\ MadeByAdmin'
  BY <1>1, <1>3, <1>8 DEF IdleIsEmpty, MadeByAdmin
<1>11. KeysResolved'
  BY <1>5, <1>6 DEF KeysResolved
<1>12. Config!HistoryTrue'
  BY <1>1, <1>3, NothingIsTrue
<1>13. Config!RefusedInPart'
  BY <1>1, <1>3 DEF Config!RefusedInPart, Config!NoReply
<1> QED
  BY <1>9, <1>10, <1>11, <1>12, <1>13 DEF ConfigInv

(* It ends.                                                                *)
(* A process ends.                                                         *)
LEMMA StopKeepsConfig ==
  ASSUME ConfigInv, Config!Stop PROVE ConfigInv'
<1>1. /\ provider' = "none" /\ keys' = Config!NoKeys /\ held' = Config!NothingHeld /\ auth' = FALSE
      /\ overrides' = <<>> /\ history' = <<>> /\ reply' = Config!NoReply
      /\ UNCHANGED <<stores, base>>
  BY DEF Config!Stop
<1>2. DOMAIN overrides' = {} /\ DOMAIN history' = {} /\ IsSequence(history')
  BY <1>1, EmptySeq DEF IsSequence
<1>3. reply'.answer = "none"
  BY <1>1 DEF Config!NoReply
<1>4. keys' \in [Config!KeyFields -> Tokens \cup {Config!NoToken}]
  BY <1>1 DEF Config!NoKeys
<1>5. ConfigTyped'
  BY <1>1, <1>2, <1>3, <1>4 DEF ConfigInv, ConfigTyped
<1>6. IdleIsEmpty' /\ MadeByAdmin'
  BY <1>1 DEF IdleIsEmpty, MadeByAdmin, Config!NoReply
<1>7. KeysResolved'
  BY <1>1 DEF KeysResolved, Config!NoKeys, Config!NothingHeld
<1>8. Config!RefusedInPart'
  BY <1>3 DEF Config!RefusedInPart
<1> QED
  BY <1>1, <1>5, <1>6, <1>7, <1>8, NothingIsTrue DEF ConfigInv

(* A store's contents change, or a request is denied, or nothing happens.  *)
LEMMA RefusedStays ==
  ASSUME Config!RefusedInPart, UNCHANGED <<overrides, history, base>>,
         reply' = reply \/ reply'.answer = "denied"
  PROVE  Config!RefusedInPart'
<1>1. CASE reply'.answer = "denied"
  BY <1>1 DEF Config!RefusedInPart
<1>2. CASE reply' = reply
  <2>1. \A key : Config!Get(key)' = Config!Get(key)
    BY DEF Config!Get
  <2> QED
    BY <1>2, <2>1 DEF Config!RefusedInPart, Config!Get
<1> QED
  BY <1>1, <1>2

(* A step after which the same is in force.                                *)
LEMMA SettledKeeps ==
  ASSUME ConfigInv, stores' \in [Config!Stores -> StoreContents],
         UNCHANGED <<provider, keys, auth, base, held, overrides, history>>,
         reply' = reply \/ (provider # "none" /\ reply'.answer = "denied")
  PROVE  ConfigInv'
<1>1. ConfigTyped'
  BY DEF ConfigInv, ConfigTyped
<1>2. IdleIsEmpty' /\ KeysResolved' /\ MadeByAdmin'
  BY DEF ConfigInv, IdleIsEmpty, KeysResolved, MadeByAdmin, Config!NoReply
<1>3. Config!HistoryTrue' /\ Config!RefusedInPart'
  BY TrueStays, RefusedStays DEF ConfigInv
<1> QED
  BY <1>1, <1>2, <1>3 DEF ConfigInv

(* A store's contents change.                                              *)
LEMMA RotateKeeps ==
  ASSUME ConfigInv, NEW s \in Config!Stores, Config!Rotate(s) PROVE ConfigInv'
<1>1. PICK contents \in StoreContents : stores' = [stores EXCEPT ![s] = contents]
  BY DEF Config!Rotate
<1>2. UNCHANGED <<provider, keys, auth, base, held, overrides, history, reply>>
  BY DEF Config!Rotate
<1>3. stores' \in [Config!Stores -> StoreContents]
  BY <1>1 DEF ConfigInv, ConfigTyped
<1> QED
  BY <1>2, <1>3, SettledKeeps

(* A request is denied.                                                    *)
LEMMA DenyKeeps ==
  ASSUME ConfigInv, provider # "none", Config!Deny, UNCHANGED <<stores, provider, keys, auth, base, held>>
  PROVE  ConfigInv'
<1>1. reply'.answer = "denied" /\ UNCHANGED <<overrides, history>>
  BY DEF Config!Deny
<1>2. stores' \in [Config!Stores -> StoreContents]
  BY DEF ConfigInv, ConfigTyped
<1> QED
  BY <1>1, <1>2, SettledKeeps
(* What an update leaves behind, done or refused.                          *)
LEMMA UpdateKeeps ==
  ASSUME Config!ConfigurationAssumption, ConfigInv, provider # "none", NEW update \in Updates,
         NEW token, Config!Admits(token, Config!Admin), Config!Update(update, token),
         UNCHANGED <<stores, provider, keys, auth, base, held>>
  PROVE  ConfigInv'
<1> DEFINE n == Config!Leading(update)
           items == SubSeq(update, 1, n)
           L == Len(history)
<1>1. /\ IsSequence(update)
      /\ \A i, j \in DOMAIN update : update[i].key = update[j].key => i = j
      /\ AllowedKeys \subseteq DOMAIN base
  <2>1. Config!Range(update) = Range(update)
    BY DEF Config!Range, Range
  <2>2. base \in Bases
    BY DEF ConfigInv, ConfigTyped
  <2> QED
    BY <2>1, <2>2 DEF Config!ConfigurationAssumption, IsSequence
<1>2. /\ n \in 0..Len(update)
      /\ \A i \in 1..n : update[i].key \in AllowedKeys
      /\ n # Len(update) => update[n + 1].key \notin AllowedKeys
      /\ IsSequence(items) /\ Len(items) = n
      /\ \A i \in 1..n : items[i] = update[i]
  BY <1>1, LeadingDone
<1>3. /\ Config!SetAll(items, token)
      /\ reply' = [answer |-> IF n = Len(update) THEN "updated" ELSE "refused",
                   update |-> update, from |-> L]
  BY DEF Config!Update
<1> HIDE DEF items, n
<1>4. /\ Len(update) \in Nat /\ DOMAIN update = 1..Len(update)
      /\ DOMAIN items = 1..n /\ n \in Nat /\ \A i \in 1..n : i \in 1..Len(update)
  <2>1. Len(update) \in Nat /\ DOMAIN update = 1..Len(update) /\ DOMAIN items = 1..n
    BY <1>1, <1>2, SequenceBounds, SMTT(30)
  <2> QED
    BY <1>2, <2>1
<1>5. /\ \A i, j \in DOMAIN items : items[i].key = items[j].key => i = j
      /\ \A i \in DOMAIN items : items[i].key \in AllowedKeys
  BY <1>1, <1>2, <1>4
<1>6. IsSequence(history) /\ L \in Nat /\ DOMAIN history = 1..L
  BY SequenceBounds DEF ConfigInv, ConfigTyped
<1>7. /\ DOMAIN overrides' = DOMAIN overrides \cup {items[i].key : i \in DOMAIN items}
      /\ \A i \in DOMAIN items : overrides'[items[i].key] = items[i].value
      /\ IsSequence(history') /\ Len(history') = L + n
      /\ \A m \in 1..L : history'[m] = history[m]
      /\ \A i \in 1..n : history'[L + i] = Config!SetRecord(items[i], token, Config!Get(items[i].key))
  <2>1. /\ DOMAIN overrides' = DOMAIN overrides \cup {items[i].key : i \in DOMAIN items}
        /\ \A i \in DOMAIN items : overrides'[items[i].key] = items[i].value
        /\ IsSequence(history') /\ Len(history') = Len(history) + Len(items)
        /\ \A m \in 1..Len(history) : history'[m] = history[m]
        /\ \A i \in 1..Len(items) :
             history'[Len(history) + i] = Config!SetRecord(items[i], token, Config!Get(items[i].key))
    <3>1. /\ IsSequence(items) /\ IsSequence(history) /\ Config!SetAll(items, token)
          /\ \A i, j \in DOMAIN items : items[i].key = items[j].key => i = j
      BY <1>2, <1>3, <1>5, <1>6
    <3> QED
      BY <3>1, SetAllMakes, ZenonT(60)
  <2>2. Len(items) = n
    BY <1>2
  <2> QED
    BY <2>1, <2>2
<1>8. DOMAIN history' = 1..(L + n)
  BY <1>7, SequenceBounds
<1> HIDE DEF L
<1>9. \A m \in 1..(L + n) : m \in 1..L \/ (m - L \in 1..n /\ m = L + (m - L))
  BY <1>4, <1>6
<1>10. \A i \in 1..n : /\ history'[L + i].op = "set" /\ history'[L + i].key = items[i].key
                       /\ history'[L + i].by = token
  <2> SUFFICES ASSUME NEW i \in 1..n
               PROVE  /\ history'[L + i].op = "set" /\ history'[L + i].key = items[i].key
                      /\ history'[L + i].by = token
    OBVIOUS
  <2>1. history'[L + i] = [op |-> "set", key |-> items[i].key, by |-> token,
                           old |-> Config!Get(items[i].key), new |-> items[i].value]
    BY <1>7 DEF Config!SetRecord
  <2> QED
    BY <2>1
<1>11. /\ reply'.answer = (IF n = Len(update) THEN "updated" ELSE "refused")
       /\ reply'.update = update /\ reply'.from = L
  BY <1>3
<1>12. ConfigTyped'
  <2>1. DOMAIN overrides' \subseteq AllowedKeys
    BY <1>5, <1>7 DEF ConfigInv, ConfigTyped
  <2>2. \A m \in DOMAIN history' : history'[m].op \in {"set", "reset"}
    BY <1>6, <1>7, <1>8, <1>9, <1>10 DEF ConfigInv, ConfigTyped
  <2>3. reply'.answer \in {"none", "updated", "refused", "reset", "denied"}
    BY <1>11
  <2> QED
    BY <1>7, <2>1, <2>2, <2>3 DEF ConfigInv, ConfigTyped
<1>13. IdleIsEmpty' /\ KeysResolved'
  BY DEF ConfigInv, IdleIsEmpty, KeysResolved
<1>14. MadeByAdmin'
  <2> SUFFICES ASSUME auth, NEW m \in DOMAIN history'
               PROVE  /\ history'[m].by # Config!NoToken
                      /\ \E f \in Config!KeyFields :
                           Config!ScopeOf[f] = Config!Admin /\ keys[f] = history'[m].by
    BY DEF MadeByAdmin
  <2>1. CASE m \in 1..L
    <3>1. history'[m] = history[m] /\ m \in DOMAIN history
      BY <1>6, <1>7, <2>1
    <3> QED
      BY <3>1 DEF ConfigInv, MadeByAdmin
  <2>2. CASE m - L \in 1..n /\ m = L + (m - L)
    <3>1. history'[m].by = token
      BY <1>10, <2>2
    <3> QED
      BY <3>1, AdmittedIsAdmin
  <2> QED
    BY <1>8, <1>9, <2>1, <2>2
<1>15. Config!HistoryTrue'
  <2>1. \A i \in DOMAIN items : items[i].key \in DOMAIN base
    BY <1>1, <1>5
  <2> QED
    BY <1>2, <1>3, <1>5, <1>6, <2>1, SetStaysTrue DEF ConfigInv
<1>16. Config!RefusedInPart'
  <2> DEFINE made == SubSeq(history', L + 1, Len(history'))
  <2>1. Len(made) = n /\ DOMAIN made = 1..n /\ \A i \in 1..n : made[i] = history'[L + i]
    <3>1. L + 1 \in Int /\ L + n \in Int /\ \A m \in (L + 1)..(L + n) : history'[m] \in Range(history')
      BY <1>4, <1>6, <1>8 DEF Range
    <3> DEFINE cut == SubSeq(history', L + 1, L + n)
    <3>2. /\ cut \in Seq(Range(history'))
          /\ Len(cut) = IF L + 1 <= L + n THEN (L + n) - (L + 1) + 1 ELSE 0
          /\ \A i \in 1..((L + n) - (L + 1) + 1) : cut[i] = history'[(L + 1) + i - 1]
      BY <3>1, SubSeqProperties
    <3>3. made = cut
      BY <1>7
    <3> HIDE DEF cut, made
    <3>4. /\ (L + n) - (L + 1) + 1 = n /\ (L + 1 <= L + n => n >= 1) /\ (~ (L + 1 <= L + n) => n = 0)
          /\ \A i \in 1..n : (L + 1) + i - 1 = L + i
      BY <1>4, <1>6
    <3>5. Len(cut) = n /\ \A i \in 1..n : cut[i] = history'[L + i]
      BY <3>2, <3>4
    <3>6. DOMAIN cut = 1..n
      BY <3>2, <3>5, LenProperties
    <3> QED
      BY <3>3, <3>5, <3>6
  <2> HIDE DEF made
  <2>2. \A i \in 1..n : Config!Get(update[i].key)' = update[i].value
    <3> SUFFICES ASSUME NEW i \in 1..n PROVE Config!Get(update[i].key)' = update[i].value
      BY Zenon
    <3>1. items[i] = update[i] /\ i \in DOMAIN items
      BY <1>2, <1>4
    <3>2. update[i].key \in DOMAIN overrides' /\ overrides'[update[i].key] = update[i].value
      BY <1>7, <3>1
    <3> QED
      BY <3>2 DEF Config!Get
  <2>3. \A i \in DOMAIN made : made[i].key = update[i].key /\ update[i].value = Config!Get(update[i].key)'
    BY <1>2, <1>10, <2>1, <2>2
  <2>4. reply'.answer = "updated" <=> Len(made) = Len(update)
    BY <1>11, <2>1
  <2>5. reply'.answer = "refused" => update[Len(made) + 1].key \notin DOMAIN overrides'
    <3>1. DOMAIN overrides' \subseteq AllowedKeys
      BY <1>12 DEF ConfigTyped
    <3> QED
      BY <1>2, <1>11, <2>1, <3>1
  <2> QED
    BY <1>11, <2>3, <2>4, <2>5 DEF Config!RefusedInPart, made, Config!Get
<1> QED
  BY <1>12, <1>13, <1>14, <1>15, <1>16 DEF ConfigInv

(* What a reset leaves behind.                                             *)
LEMMA ResetKeeps ==
  ASSUME ConfigInv, provider # "none", NEW key, NEW token, Config!Admits(token, Config!Admin),
         Config!Reset(key, token), UNCHANGED <<stores, provider, keys, auth, base, held>>
  PROVE  ConfigInv'
<1> DEFINE L == Len(history)
<1>1. IsSequence(history) /\ L \in Nat /\ DOMAIN history = 1..L
  BY SequenceBounds DEF ConfigInv, ConfigTyped
<1>2. /\ DOMAIN overrides' = DOMAIN overrides \ {key}
      /\ IsSequence(history') /\ Len(history') = L + 1
      /\ \A n \in 1..L : history'[n] = history[n]
      /\ history'[L + 1] = Config!ResetRecord(key, token)
      /\ reply'.answer = "reset"
  BY <1>1, ResetMakes
<1>3. DOMAIN history' = 1..(L + 1)
  BY <1>2, SequenceBounds
<1> HIDE DEF L
<1>4. \A n \in 1..(L + 1) : n \in 1..L \/ n = L + 1
  BY <1>1
<1>5. history'[L + 1].op = "reset" /\ history'[L + 1].by = token
  BY <1>2 DEF Config!ResetRecord
<1>6. ConfigTyped'
  <2>1. \A m \in DOMAIN history' : history'[m].op \in {"set", "reset"}
    BY <1>1, <1>2, <1>3, <1>4, <1>5 DEF ConfigInv, ConfigTyped
  <2>2. DOMAIN overrides' \subseteq AllowedKeys
    BY <1>2 DEF ConfigInv, ConfigTyped
  <2> QED
    BY <1>2, <2>1, <2>2 DEF ConfigInv, ConfigTyped
<1>7. IdleIsEmpty' /\ KeysResolved'
  BY DEF ConfigInv, IdleIsEmpty, KeysResolved
<1>8. MadeByAdmin'
  <2> SUFFICES ASSUME auth, NEW m \in DOMAIN history'
               PROVE  /\ history'[m].by # Config!NoToken
                      /\ \E f \in Config!KeyFields :
                           Config!ScopeOf[f] = Config!Admin /\ keys[f] = history'[m].by
    BY DEF MadeByAdmin
  <2>1. CASE m \in 1..L
    <3>1. history'[m] = history[m] /\ m \in DOMAIN history
      BY <1>1, <1>2, <2>1
    <3> QED
      BY <3>1 DEF ConfigInv, MadeByAdmin
  <2>2. CASE m = L + 1
    BY <1>5, <2>2, AdmittedIsAdmin
  <2> QED
    BY <1>3, <1>4, <2>1, <2>2
<1>9. Config!HistoryTrue'
  BY <1>1, ResetStaysTrue DEF ConfigInv
<1>10. Config!RefusedInPart'
  BY <1>2 DEF Config!RefusedInPart
<1> QED
  BY <1>6, <1>7, <1>8, <1>9, <1>10 DEF ConfigInv

(* Every step keeps the invariant.                                         *)
LEMMA ConfigKeeps ==
  ASSUME Config!ConfigurationAssumption, ConfigInv, Config!Next \/ UNCHANGED configVars
  PROVE  ConfigInv'
<1>1. CASE UNCHANGED configVars
  <2>1. /\ UNCHANGED <<provider, keys, auth, base, held, overrides, history, reply>>
        /\ stores' \in [Config!Stores -> StoreContents]
    BY <1>1 DEF configVars, ConfigInv, ConfigTyped
  <2> QED
    BY <2>1, SettledKeeps
<1>2. ASSUME NEW token, NEW update \in Updates, Config!Patch(token, update) PROVE ConfigInv'
  <2>1. /\ provider # "none" /\ UNCHANGED <<stores, provider, keys, auth, base, held>>
        /\ IF Config!Admits(token, Config!Admin) THEN Config!Update(update, token) ELSE Config!Deny
    BY <1>2 DEF Config!Patch
  <2> QED
    BY <2>1, UpdateKeeps, DenyKeeps
<1>3. ASSUME NEW token, NEW key, Config!Delete(token, key) PROVE ConfigInv'
  <2>1. /\ provider # "none" /\ UNCHANGED <<stores, provider, keys, auth, base, held>>
        /\ IF Config!Admits(token, Config!Admin) THEN Config!Reset(key, token) ELSE Config!Deny
    BY <1>3 DEF Config!Delete
  <2> QED
    BY <2>1, ResetKeeps, DenyKeeps
<1> QED
  BY <1>1, <1>2, <1>3, StartKeepsConfig, StopKeepsConfig, RotateKeeps DEF Config!Next

(* What the invariant says of the checked properties.                      *)
LEMMA ConfigImplies ==
  ASSUME Config!ConfigurationAssumption, ConfigInv
  PROVE  Config!TypeOK /\ Config!ChangesAuthorised /\ Config!HistoryTrue /\ Config!RefusedInPart
<1>1. Config!TypeOK
  BY DEF ConfigInv, ConfigTyped, Config!TypeOK, Config!ConfigurationAssumption
<1>2. Config!ChangesAuthorised
  BY DEF ConfigInv, MadeByAdmin, KeysResolved, Config!ChangesAuthorised
<1> QED
  BY <1>1, <1>2 DEF ConfigInv
-----------------------------------------------------------------------------
(* The history of several incidents.                                       *)

(* Incidents by their numbers, and entries of a list.                      *)
Places == History!Incidents
Listed == [id : Places, state : Nat, restored : BOOLEAN]

(* Types, with the whole of a request.                                     *)
HistoryTyped ==
  /\ backend \in {"redis", "fakeredis", "none"}
  /\ live \in History!States /\ restored \in History!States /\ snapshot \in History!States
  /\ index \subseteq Places /\ kept \subseteq Places
  /\ born \in 0..MaxIncidents /\ unread \in BOOLEAN
  /\ \/ request = History!NoRequest
     \/ request \in [stage : {"live", "ids", "answered", "failed"},
                     views : History!States, entries : SUBSET Listed]

(* What is kept is in the index with its snapshot, and a start that read   *)
(* all of it, or the process that saved it, shows it.                      *)
KeptShown == \A i \in kept : /\ i \in index /\ snapshot[i] # 0
                             /\ backend = "redis" /\ ~unread => History!View(i) # 0

(* Numbers are not used twice: what a process creates was not there before *)
(* it started.                                                             *)
NumbersOnce ==
  /\ \A i \in Places : live[i] # 0 \/ restored[i] # 0 \/ snapshot[i] # 0 => i <= born
  /\ \A i \in Places : live[i] = 0 \/ restored[i] = 0
  /\ backend = "none" => live = History!Empty /\ request = History!NoRequest

(* While a list is made, an entry is either of a live incident, as it was  *)
(* when the request came, or a restored one's, added last; and what was    *)
(* visible then is in it, or restored and still to be added.               *)
ListSound ==
  request # History!NoRequest =>
    /\ \A e \in request.entries :
         IF live[e.id] # 0
         THEN e = [id |-> e.id, state |-> request.views[e.id], restored |-> FALSE]
         ELSE restored[e.id] # 0 /\ e = [id |-> e.id, state |-> restored[e.id], restored |-> TRUE]
    /\ \A i \in Places : request.views[i] # 0 =>
         /\ live[i] # 0 \/ restored[i] = request.views[i]
         /\ live[i] # 0 \/ request.stage = "answered" => \E e \in request.entries : e.id = i

(* The inductive invariant of the history.                                 *)
HistoryInv == HistoryTyped /\ KeptShown /\ NumbersOnce /\ ListSound
-----------------------------------------------------------------------------
(* The constants, as PartsAssumption has them.                             *)
LEMMA HistoryBounds == MaxIncidents \in Nat /\ MaxVersion \in Nat \ {0}
  BY PartsAssumption DEF PartsAssumption

(* An incident's state is a number.                                        *)
LEMMA StatesTyped ==
  \A s \in History!States : \A i \in Places : s[i] \in Nat
BY HistoryBounds DEF History!States, Places

(* No incidents at all.                                                    *)
LEMMA EmptyTyped ==
  /\ History!Empty \in History!States /\ \A i \in Places : History!Empty[i] = 0
  /\ Places \subseteq Nat
BY HistoryBounds DEF History!Empty, History!States, Places, History!Incidents

(* A list that is not being changed stays sound while nothing it is about  *)
(* changes.                                                                *)
LEMMA ListStays ==
  ASSUME ListSound, request' = request, restored' = restored,
         \A i \in Places : live'[i] # 0 <=> live[i] # 0,
         HistoryTyped
  PROVE  ListSound'
<1> SUFFICES ASSUME request # History!NoRequest PROVE ListSound'
  BY DEF ListSound, History!NoRequest
<1>1. \A e \in request.entries : e.id \in Places
  BY DEF HistoryTyped, Listed
<1>2. Places' = Places
  BY DEF Places, History!Incidents
<1> QED
  BY <1>1, <1>2 DEF ListSound

(* A save, complete or not, keeps what is kept.                            *)
LEMMA SaveKeeps ==
  ASSUME HistoryTyped, NEW i \in Places, NEW v \in 1..MaxVersion, History!Save(i, v)
  PROVE  /\ snapshot' \in History!States /\ index' \subseteq Places /\ kept' \subseteq Places
         /\ \A j \in Places : snapshot'[j] = snapshot[j] \/ (j = i /\ snapshot'[j] = v)
         /\ index \subseteq index' /\ \A j \in kept' : j \in kept \/ (j = i /\ i \in index' /\ snapshot'[i] = v)
<1>1. CASE UNCHANGED <<snapshot, index, kept>>
  BY <1>1 DEF HistoryTyped
<1>2. CASE /\ snapshot' = [snapshot EXCEPT ![i] = v]
           /\ \/ UNCHANGED <<index, kept>>
              \/ index' = index \cup {i} /\ kept' = kept \cup {i}
  <2>1. snapshot' \in History!States /\ snapshot'[i] = v /\ \A j \in Places : j # i => snapshot'[j] = snapshot[j]
    BY <1>2, HistoryBounds DEF HistoryTyped, History!States, Places
  <2> QED
    BY <1>2, <2>1 DEF HistoryTyped
<1> QED
  BY <1>1, <1>2 DEF History!Save, History!redisVars
(* A process begins, with what it can read.                                *)
LEMMA StartKeeps == HistoryInv /\ History!Start => HistoryInv'
<1> SUFFICES ASSUME HistoryInv, History!Start PROVE HistoryInv'
  OBVIOUS
<1> USE HistoryBounds
<1>1. HistoryTyped /\ KeptShown /\ NumbersOnce
  BY DEF HistoryInv
<1>2. /\ backend = "none" /\ backend' \in {"redis", "fakeredis"}
      /\ UNCHANGED <<live, snapshot, index, kept, request, born>>
  BY DEF History!Start, History!redisVars
<1>3. PICK failing \in SUBSET index :
        /\ restored' = [i \in Places |->
                          IF backend' = "redis" /\ i \in History!Readable(failing) THEN snapshot[i] ELSE 0]
        /\ unread' = (failing # {})
  BY DEF History!Start, Places
<1>4. live = History!Empty /\ request = History!NoRequest /\ \A i \in Places : live[i] = 0
  BY <1>1, <1>2, EmptyTyped DEF NumbersOnce
<1>5. \A i \in Places : restored'[i] = snapshot[i] \/ restored'[i] = 0
  BY <1>3
<1>6. restored' \in History!States
  BY <1>1, <1>3 DEF HistoryTyped, History!States, Places
<1>7. HistoryTyped'
  <2>1. unread' \in BOOLEAN
    BY <1>3
  <2> QED
    BY <1>1, <1>2, <1>4, <1>6, <2>1
       DEF HistoryTyped, Places, History!States, History!Incidents, History!NoRequest
<1>8. KeptShown'
  <2> SUFFICES ASSUME NEW i \in kept
               PROVE  /\ i \in index /\ snapshot[i] # 0
                      /\ backend' = "redis" /\ ~unread' => History!View(i)' # 0
    BY <1>2 DEF KeptShown
  <2>1. i \in index /\ snapshot[i] # 0 /\ i \in Places
    BY <1>1 DEF KeptShown, HistoryTyped
  <2>2. ASSUME backend' = "redis", ~unread' PROVE restored'[i] # 0
    <3>1. failing = {}
      BY <1>3, <2>2
    <3>2. i \in History!Readable(failing)
      BY <2>1, <3>1 DEF History!Readable
    <3> QED
      BY <1>3, <2>1, <2>2, <3>2
  <2> QED
    BY <1>2, <1>4, <2>1, <2>2 DEF History!View
<1>9. NumbersOnce'
  BY <1>1, <1>2, <1>4, <1>5 DEF NumbersOnce, Places, History!Incidents
<1>10. ListSound'
  BY <1>2, <1>4 DEF ListSound, History!NoRequest
<1> QED
  BY <1>7, <1>8, <1>9, <1>10 DEF HistoryInv

(* A process ends.                                                         *)
LEMMA StopKeeps == HistoryInv /\ History!Stop => HistoryInv'
<1> SUFFICES ASSUME HistoryInv, History!Stop PROVE HistoryInv'
  OBVIOUS
<1> USE HistoryBounds
<1>1. HistoryTyped /\ KeptShown /\ NumbersOnce
  BY DEF HistoryInv
<1>2. /\ backend' = "none" /\ live' = History!Empty /\ restored' = History!Empty
      /\ request' = History!NoRequest /\ unread' = FALSE
      /\ UNCHANGED <<snapshot, index, kept, born>>
  BY DEF History!Stop, History!redisVars
<1>3. History!Empty' = History!Empty
  BY DEF History!Empty, History!Incidents
<1>4. HistoryTyped'
  BY <1>1, <1>2, EmptyTyped
     DEF HistoryTyped, Places, History!States, History!Incidents, History!NoRequest
<1>5. KeptShown'
  BY <1>1, <1>2 DEF KeptShown
<1>6. NumbersOnce'
  BY <1>1, <1>2, <1>3, EmptyTyped DEF NumbersOnce, Places, History!Incidents, History!NoRequest
<1>7. ListSound'
  BY <1>2 DEF ListSound, History!NoRequest
<1> QED
  BY <1>4, <1>5, <1>6, <1>7 DEF HistoryInv

(* A new incident has a number of its own.                                 *)
LEMMA CreationKeeps == HistoryInv /\ History!Create => HistoryInv'
<1> SUFFICES ASSUME HistoryInv, History!Create PROVE HistoryInv'
  OBVIOUS
<1> USE HistoryBounds
<1> DEFINE new == born + 1
<1>1. HistoryTyped /\ KeptShown /\ NumbersOnce /\ ListSound
  BY DEF HistoryInv
<1>2. /\ backend # "none" /\ born < MaxIncidents /\ born' = new
      /\ live' = [live EXCEPT ![new] = 1] /\ History!Save(new, 1)
      /\ request' \in IF request.stage = "ids" THEN {request, [request EXCEPT !.stage = "failed"]}
                                               ELSE {request}
      /\ UNCHANGED <<backend, restored, unread>>
  BY DEF History!Create
<1>3. born \in Nat /\ new \in Places /\ new > born
  BY <1>1, <1>2 DEF HistoryTyped, Places, History!Incidents
<1>4. live[new] = 0 /\ restored[new] = 0 /\ snapshot[new] = 0
  BY <1>1, <1>3 DEF NumbersOnce
<1>5. /\ snapshot' \in History!States /\ index' \subseteq Places /\ kept' \subseteq Places
      /\ \A j \in Places : snapshot'[j] = snapshot[j] \/ (j = new /\ snapshot'[j] = 1)
      /\ index \subseteq index'
      /\ \A j \in kept' : j \in kept \/ (j = new /\ new \in index' /\ snapshot'[new] = 1)
  <2>1. 1 \in 1..MaxVersion
    OBVIOUS
  <2> QED
    BY <1>1, <1>2, <1>3, <2>1, SaveKeeps
<1>6. live' \in History!States /\ live'[new] = 1 /\ \A j \in Places : j # new => live'[j] = live[j]
  BY <1>1, <1>2, <1>3 DEF HistoryTyped, History!States, Places
<1> HIDE DEF new
<1>7. KeptShown'
  <2> SUFFICES ASSUME NEW i \in kept'
               PROVE  /\ i \in index' /\ snapshot'[i] # 0
                      /\ backend = "redis" /\ ~unread => History!View(i)' # 0
    BY <1>2 DEF KeptShown
  <2>1. CASE i = new
    BY <1>1, <1>5, <1>6, <2>1 DEF History!View, KeptShown
  <2>2. CASE i # new
    <3>1. i \in kept /\ i \in Places
      BY <1>1, <1>5, <2>2 DEF HistoryTyped
    <3>2. live'[i] = live[i] /\ restored'[i] = restored[i] /\ snapshot'[i] = snapshot[i]
      BY <1>2, <1>5, <1>6, <2>2, <3>1
    <3> QED
      BY <1>1, <1>5, <3>1, <3>2 DEF KeptShown, History!View
  <2> QED
    BY <2>1, <2>2
<1>8. NumbersOnce'
  <2>1. ASSUME NEW i \in Places
        PROVE  /\ live'[i] # 0 \/ restored'[i] # 0 \/ snapshot'[i] # 0 => i <= born'
               /\ live'[i] = 0 \/ restored'[i] = 0
    <3>1. CASE i = new
      BY <1>2, <1>3, <1>4, <3>1, EmptyTyped
    <3>2. CASE i # new
      <4>1. live'[i] = live[i] /\ restored'[i] = restored[i] /\ snapshot'[i] = snapshot[i]
        BY <1>2, <1>5, <1>6, <3>2
      <4>2. i \in Nat /\ born' = born + 1
        BY <1>2, EmptyTyped DEF new
      <4> QED
        BY <1>1, <1>3, <4>1, <4>2 DEF NumbersOnce
    <3> QED
      BY <3>1, <3>2
  <2> QED
    BY <1>2, <2>1 DEF NumbersOnce, Places, History!Incidents
<1>9. /\ request = History!NoRequest => request' = request
      /\ request # History!NoRequest =>
           /\ request' \in [stage : {"live", "ids", "answered", "failed"},
                            views : History!States, entries : SUBSET Listed]
           /\ request'.views = request.views /\ request'.entries = request.entries
           /\ request'.stage = "answered" => request.stage = "answered"
  <2>1. CASE request' = request
    BY <1>1, <2>1 DEF HistoryTyped
  <2>2. CASE request.stage = "ids" /\ request' = [request EXCEPT !.stage = "failed"]
    BY <1>1, <2>2 DEF HistoryTyped, History!NoRequest
  <2> QED
    BY <1>2, <2>1, <2>2
<1>10. HistoryTyped'
  <2>1. born' \in 0..MaxIncidents
    BY <1>2, <1>3 DEF new
  <2> QED
    BY <1>1, <1>2, <1>5, <1>6, <1>9, <2>1
       DEF HistoryTyped, Places, History!States, History!Incidents, History!NoRequest, Listed
<1>11. ListSound'
  <2>1. CASE request = History!NoRequest
    BY <1>9, <2>1 DEF ListSound, History!NoRequest
  <2>2. CASE request # History!NoRequest
    <3>1. \A e \in request.entries : e.id \in Places /\ e.id # new
      BY <1>1, <1>4, <2>2 DEF ListSound, HistoryTyped, Listed
    <3>2. request.views[new] = 0
      BY <1>1, <1>3, <1>4, <2>2 DEF ListSound
    <3>3. \A e \in request.entries :
            IF live'[e.id] # 0
            THEN e = [id |-> e.id, state |-> request.views[e.id], restored |-> FALSE]
            ELSE restored[e.id] # 0 /\ e = [id |-> e.id, state |-> restored[e.id], restored |-> TRUE]
      BY <1>1, <1>6, <2>2, <3>1 DEF ListSound
    <3>4. ASSUME NEW i \in Places, request.views[i] # 0
          PROVE  /\ live'[i] # 0 \/ restored[i] = request.views[i]
                 /\ live'[i] # 0 \/ request.stage = "answered" => \E e \in request.entries : e.id = i
      BY <1>1, <1>6, <2>2, <3>2, <3>4 DEF ListSound
    <3> QED
      BY <1>2, <1>9, <2>2, <3>3, <3>4 DEF ListSound, Places, History!Incidents, History!NoRequest
  <2> QED
    BY <2>1, <2>2
<1> QED
  BY <1>7, <1>8, <1>10, <1>11 DEF HistoryInv

(* An incident changes.                                                    *)
LEMMA HistoryChangeKeeps ==
  ASSUME HistoryInv, NEW c \in Places, History!Change(c) PROVE HistoryInv'
<1> USE HistoryBounds
<1>1. HistoryTyped /\ KeptShown /\ NumbersOnce /\ ListSound
  BY DEF HistoryInv
<1>2. /\ live[c] \in 1..(MaxVersion - 1) /\ live' = [live EXCEPT ![c] = @ + 1]
      /\ History!Save(c, live'[c]) /\ UNCHANGED <<backend, restored, request, born, unread>>
  BY DEF History!Change
<1>3. live[c] # 0 /\ live[c] + 1 \in 1..MaxVersion /\ live[c] + 1 \in 0..MaxVersion
  BY <1>2
<1>4. live' \in History!States /\ live'[c] = live[c] + 1 /\ \A j \in Places : j # c => live'[j] = live[j]
  BY <1>1, <1>2, <1>3 DEF HistoryTyped, History!States, Places
<1>5. /\ snapshot' \in History!States /\ index' \subseteq Places /\ kept' \subseteq Places
      /\ \A j \in Places : snapshot'[j] = snapshot[j] \/ (j = c /\ snapshot'[j] = live'[c])
      /\ index \subseteq index'
      /\ \A j \in kept' : j \in kept \/ (j = c /\ c \in index' /\ snapshot'[c] = live'[c])
  <2>1. live'[c] \in 1..MaxVersion
    BY <1>3, <1>4
  <2> QED
    BY <1>1, <1>2, <2>1, SaveKeeps
<1>6. live'[c] # 0 /\ \A j \in Places : live'[j] # 0 <=> live[j] # 0
  BY <1>3, <1>4
<1>7. KeptShown'
  <2> SUFFICES ASSUME NEW i \in kept'
               PROVE  /\ i \in index' /\ snapshot'[i] # 0
                      /\ backend = "redis" /\ ~unread => History!View(i)' # 0
    BY <1>2 DEF KeptShown
  <2>1. CASE i = c
    BY <1>1, <1>5, <1>6, <2>1 DEF History!View, KeptShown
  <2>2. CASE i # c
    <3>1. i \in kept /\ i \in Places
      BY <1>1, <1>5, <2>2 DEF HistoryTyped
    <3>2. live'[i] = live[i] /\ restored'[i] = restored[i] /\ snapshot'[i] = snapshot[i]
      BY <1>2, <1>4, <1>5, <2>2, <3>1
    <3> QED
      BY <1>1, <1>5, <3>1, <3>2 DEF KeptShown, History!View
  <2> QED
    BY <2>1, <2>2
<1>8. NumbersOnce'
  <2>1. backend = "none" => FALSE
    BY <1>1, <1>3, EmptyTyped DEF NumbersOnce
  <2>2. c <= born
    BY <1>1, <1>3 DEF NumbersOnce
  <2>3. \A i \in Places :
          /\ live'[i] # 0 \/ restored'[i] # 0 \/ snapshot'[i] # 0 => i <= born'
          /\ live'[i] = 0 \/ restored'[i] = 0
    BY <1>1, <1>2, <1>5, <1>6, <2>2 DEF NumbersOnce
  <2> QED
    BY <1>2, <2>1, <2>3 DEF NumbersOnce, Places, History!Incidents
<1>9. HistoryTyped'
  BY <1>1, <1>2, <1>4, <1>5
     DEF HistoryTyped, Places, History!States, History!Incidents, History!NoRequest, Listed
<1>10. ListSound'
  BY <1>1, <1>2, <1>6, ListStays
<1> QED
  BY <1>7, <1>8, <1>9, <1>10 DEF HistoryInv

(* A key expires.                                                          *)
LEMMA ExpiryKeeps ==
  ASSUME HistoryInv, NEW c \in Places, History!Expire(c) PROVE HistoryInv'
<1> USE HistoryBounds
<1>1. HistoryTyped /\ KeptShown /\ NumbersOnce /\ ListSound
  BY DEF HistoryInv
<1>2. /\ snapshot' = [snapshot EXCEPT ![c] = 0] /\ kept' = kept \ {c}
      /\ UNCHANGED <<backend, live, restored, index, request, born, unread>>
  BY DEF History!Expire
<1>3. /\ snapshot' \in History!States
      /\ \A i \in Places : snapshot'[i] = 0 \/ (i # c /\ snapshot'[i] = snapshot[i])
      /\ \A i \in Places : i # c => snapshot'[i] = snapshot[i]
  BY <1>1, <1>2 DEF HistoryTyped, History!States, Places
<1>4. KeptShown'
  <2>1. \A i \in kept' : i \in kept /\ i \in Places /\ i # c
    BY <1>1, <1>2 DEF HistoryTyped
  <2> QED
    BY <1>1, <1>2, <1>3, <2>1 DEF KeptShown, History!View
<1>5. NumbersOnce'
  BY <1>1, <1>2, <1>3 DEF NumbersOnce, Places, History!Incidents, History!Empty, History!NoRequest
<1>6. HistoryTyped'
  BY <1>1, <1>2, <1>3
     DEF HistoryTyped, Places, History!States, History!Incidents, History!NoRequest, Listed
<1>7. ListSound'
  BY <1>1, <1>2, ListStays
<1> QED
  BY <1>4, <1>5, <1>6, <1>7 DEF HistoryInv

(* The steps of a list leave everything else alone.                        *)
LEMMA OnlyRequest ==
  ASSUME HistoryInv, UNCHANGED <<backend, live, restored, snapshot, index, kept, born, unread>>,
         \/ request' = History!NoRequest
         \/ /\ backend # "none"
            /\ request' \in [stage : {"live", "ids", "answered", "failed"},
                             views : History!States, entries : SUBSET Listed],
         ListSound'
  PROVE  HistoryInv'
<1>1. HistoryTyped'
  BY DEF HistoryInv, HistoryTyped, Places, History!States, History!Incidents, History!NoRequest, Listed
<1>2. KeptShown'
  BY DEF HistoryInv, KeptShown, History!View
<1>3. NumbersOnce'
  BY DEF HistoryInv, NumbersOnce, Places, History!Incidents, History!Empty, History!NoRequest
<1> QED
  BY <1>1, <1>2, <1>3 DEF HistoryInv

(* A list begins with the live incidents ...                               *)
LEMMA ListKeeps == HistoryInv /\ History!List => HistoryInv'
<1> SUFFICES ASSUME HistoryInv, History!List PROVE HistoryInv'
  OBVIOUS
<1>1. HistoryTyped /\ NumbersOnce
  BY DEF HistoryInv
<1> DEFINE views == [i \in Places |-> History!View(i)]
           entries == {[id |-> i, state |-> live[i], restored |-> FALSE] : i \in History!LiveIds}
<1>2. /\ backend # "none"
      /\ request' = [stage |-> "live", views |-> views, entries |-> entries]
      /\ UNCHANGED <<backend, live, restored, snapshot, index, kept, born, unread>>
  BY DEF History!List, History!redisVars, Places
<1>3. \A i \in Places : live[i] \in 0..MaxVersion /\ restored[i] \in 0..MaxVersion /\ live[i] \in Nat
  BY <1>1, StatesTyped DEF HistoryTyped, History!States, Places
<1>4. views \in History!States
  BY <1>3 DEF History!View, History!States, Places
<1>5. \A i \in Places : views[i] = IF live[i] # 0 THEN live[i] ELSE restored[i]
  BY DEF History!View
<1>6. /\ \A e \in entries : /\ e.id \in Places /\ live[e.id] # 0
                          /\ e = [id |-> e.id, state |-> live[e.id], restored |-> FALSE]
      /\ \A i \in Places : live[i] # 0 => \E e \in entries : e.id = i
      /\ entries \subseteq Listed
  <2>1. History!LiveIds = {i \in Places : live[i] # 0}
    BY DEF History!LiveIds, Places
  <2>2. ASSUME NEW e \in entries
        PROVE  /\ e.id \in Places /\ live[e.id] # 0
               /\ e = [id |-> e.id, state |-> live[e.id], restored |-> FALSE] /\ e \in Listed
    <3>1. PICK i \in History!LiveIds : e = [id |-> i, state |-> live[i], restored |-> FALSE]
      OBVIOUS
    <3>2. e.id = i
      BY <3>1
    <3> QED
      BY <1>3, <2>1, <3>1, <3>2 DEF Listed
  <2>3. ASSUME NEW i \in Places, live[i] # 0 PROVE \E e \in entries : e.id = i
    <3>1. [id |-> i, state |-> live[i], restored |-> FALSE] \in entries
      BY <2>1, <2>3
    <3> QED
      BY <3>1
  <2> QED
    BY <2>2, <2>3
<1> HIDE DEF views, entries
<1>7. ListSound'
  <2>1. /\ request'.stage = "live" /\ request'.views = views /\ request'.entries = entries
        /\ Places' = Places
    BY <1>2 DEF Places, History!Incidents
  <2>2. \A e \in entries : e = [id |-> e.id, state |-> views[e.id], restored |-> FALSE] /\ live[e.id] # 0
    BY <1>5, <1>6
  <2>3. \A i \in Places : views[i] # 0 =>
          /\ live[i] # 0 \/ restored[i] = views[i]
          /\ live[i] # 0 => \E e \in entries : e.id = i
    BY <1>5, <1>6
  <2> QED
    BY <1>2, <2>1, <2>2, <2>3 DEF ListSound
<1>8. request' \in [stage : {"live", "ids", "answered", "failed"},
                   views : History!States, entries : SUBSET Listed]
  BY <1>2, <1>4, <1>6
<1> QED
  BY <1>2, <1>7, <1>8, OnlyRequest

(* ... takes their ids once more ...                                       *)
LEMMA ListIdsKeeps == HistoryInv /\ History!ListIds => HistoryInv'
<1> SUFFICES ASSUME HistoryInv, History!ListIds PROVE HistoryInv'
  OBVIOUS
<1>1. /\ request.stage = "live" /\ request' = [request EXCEPT !.stage = "ids"]
      /\ UNCHANGED <<backend, live, restored, snapshot, index, kept, born, unread>>
  BY DEF History!ListIds, History!redisVars
<1>2. request # History!NoRequest /\ backend # "none"
  BY <1>1 DEF HistoryInv, NumbersOnce, History!NoRequest
<1>3. /\ request' \in [stage : {"live", "ids", "answered", "failed"},
                       views : History!States, entries : SUBSET Listed]
      /\ request'.stage = "ids" /\ request'.views = request.views /\ request'.entries = request.entries
  BY <1>1, <1>2 DEF HistoryInv, HistoryTyped
<1>4. ListSound'
  BY <1>1, <1>2, <1>3 DEF HistoryInv, ListSound, Places, History!Incidents
<1> QED
  BY <1>1, <1>2, <1>3, <1>4, OnlyRequest

(* ... and adds the others.                                                *)
LEMMA ListOthersKeeps == HistoryInv /\ History!ListOthers => HistoryInv'
<1> SUFFICES ASSUME HistoryInv, History!ListOthers PROVE HistoryInv'
  OBVIOUS
<1> DEFINE others == {[id |-> i, state |-> restored[i], restored |-> TRUE]
                        : i \in History!Others(History!LiveIds)}
<1>1. /\ request.stage = "ids"
      /\ request' = [request EXCEPT !.stage = "answered", !.entries = @ \cup others]
      /\ UNCHANGED <<backend, live, restored, snapshot, index, kept, born, unread>>
  BY DEF History!ListOthers, History!redisVars
<1>2. request # History!NoRequest /\ backend # "none"
  BY <1>1 DEF HistoryInv, NumbersOnce, History!NoRequest
<1>3. \A i \in Places : restored[i] \in Nat
  BY StatesTyped DEF HistoryInv, HistoryTyped
<1>4. /\ \A e \in others : /\ e.id \in Places /\ live[e.id] = 0 /\ restored[e.id] # 0
                         /\ e = [id |-> e.id, state |-> restored[e.id], restored |-> TRUE]
      /\ \A i \in Places : live[i] = 0 /\ restored[i] # 0 => \E e \in others : e.id = i
      /\ others \subseteq Listed
  <2>1. \A i \in History!Others(History!LiveIds) : i \in Places /\ live[i] = 0 /\ restored[i] # 0
    BY DEF History!Others, History!LiveIds, Places
  <2>2. \A i \in Places : live[i] = 0 /\ restored[i] # 0 => i \in History!Others(History!LiveIds)
    BY DEF History!Others, History!LiveIds, Places
  <2>3. ASSUME NEW e \in others
        PROVE  /\ e.id \in Places /\ live[e.id] = 0 /\ restored[e.id] # 0
               /\ e = [id |-> e.id, state |-> restored[e.id], restored |-> TRUE] /\ e \in Listed
    <3>1. PICK i \in History!Others(History!LiveIds) :
            e = [id |-> i, state |-> restored[i], restored |-> TRUE]
      OBVIOUS
    <3>2. e.id = i
      BY <3>1
    <3> QED
      BY <1>3, <2>1, <3>1, <3>2 DEF Listed
  <2>4. ASSUME NEW i \in Places, live[i] = 0, restored[i] # 0 PROVE \E e \in others : e.id = i
    <3>1. [id |-> i, state |-> restored[i], restored |-> TRUE] \in others
      BY <2>2, <2>4
    <3> QED
      BY <3>1
  <2> QED
    BY <2>3, <2>4
<1> HIDE DEF others
<1>5. /\ request' \in [stage : {"live", "ids", "answered", "failed"},
                       views : History!States, entries : SUBSET Listed]
      /\ request'.stage = "answered" /\ request'.views = request.views
      /\ request'.entries = request.entries \cup others
  BY <1>1, <1>2, <1>4 DEF HistoryInv, HistoryTyped
<1>6. ListSound'
  <2>1. \A e \in request'.entries :
          IF live[e.id] # 0
          THEN e = [id |-> e.id, state |-> request.views[e.id], restored |-> FALSE]
          ELSE restored[e.id] # 0 /\ e = [id |-> e.id, state |-> restored[e.id], restored |-> TRUE]
    BY <1>2, <1>4, <1>5 DEF HistoryInv, ListSound
  <2>2. ASSUME NEW i \in Places, request.views[i] # 0
        PROVE  /\ live[i] # 0 \/ restored[i] = request.views[i]
               /\ \E e \in request'.entries : e.id = i
    BY <1>2, <1>4, <1>5, <2>2 DEF HistoryInv, ListSound
  <2> QED
    BY <1>1, <1>5, <2>1, <2>2 DEF ListSound, Places, History!Incidents
<1> QED
  BY <1>1, <1>2, <1>5, <1>6, OnlyRequest

(* It is answered.                                                         *)
LEMMA ListDoneKeeps == HistoryInv /\ History!ListDone => HistoryInv'
<1> SUFFICES ASSUME HistoryInv, History!ListDone PROVE HistoryInv'
  OBVIOUS
<1>1. /\ request' = History!NoRequest
      /\ UNCHANGED <<backend, live, restored, snapshot, index, kept, born, unread>>
  BY DEF History!ListDone, History!redisVars
<1>2. ListSound'
  BY <1>1 DEF ListSound, History!NoRequest
<1> QED
  BY <1>1, <1>2, OnlyRequest

(* Every step keeps the invariant, and the invariant has what is claimed.  *)
LEMMA HistoryKeeps ==
  ASSUME HistoryInv, History!Next \/ UNCHANGED historyVars PROVE HistoryInv'
<1>1. ASSUME NEW i \in Places, History!Change(i) \/ History!Expire(i) PROVE HistoryInv'
  BY <1>1, HistoryChangeKeeps, ExpiryKeeps
<1>2. CASE UNCHANGED historyVars
  <2>1. UNCHANGED <<backend, live, restored, snapshot, index, request, born, kept, unread>>
    BY <1>2 DEF historyVars
  <2>2. request' = History!NoRequest \/
        (backend # "none" /\ request' \in [stage : {"live", "ids", "answered", "failed"},
                                           views : History!States, entries : SUBSET Listed])
    BY <2>1 DEF HistoryInv, HistoryTyped, NumbersOnce
  <2>3. ListSound'
    BY <2>1, ListStays DEF HistoryInv
  <2> QED
    BY <2>1, <2>2, <2>3, OnlyRequest
<1> QED
  BY <1>1, <1>2, StartKeeps, StopKeeps, CreationKeeps, ListKeeps, ListIdsKeeps,
     ListOthersKeeps, ListDoneKeeps DEF History!Next, Places

(* The first state has the invariant.                                      *)
LEMMA HistoryStarts == History!Init => HistoryInv
<1> SUFFICES ASSUME History!Init PROVE HistoryInv
  OBVIOUS
<1>1. /\ backend = "none" /\ live = History!Empty /\ restored = History!Empty
      /\ snapshot = History!Empty /\ index = {} /\ request = History!NoRequest
      /\ born = 0 /\ kept = {} /\ unread = FALSE
  BY DEF History!Init
<1>2. HistoryTyped
  <2>1. unread \in BOOLEAN
    BY <1>1, Zenon
  <2>2. born \in 0..MaxIncidents
    BY <1>1, HistoryBounds
  <2> QED
    BY <1>1, <2>1, <2>2, EmptyTyped DEF HistoryTyped
<1>3. KeptShown /\ ListSound
  BY <1>1 DEF KeptShown, ListSound
<1>4. NumbersOnce
  BY <1>1, EmptyTyped DEF NumbersOnce
<1> QED
  BY <1>2, <1>3, <1>4 DEF HistoryInv

(* What the invariant says of the checked properties.                      *)
LEMMA HistoryImplies ==
  ASSUME HistoryInv PROVE History!TypeOK /\ SavedStaysVisible /\ ListedOnce
<1>1. History!TypeOK
  BY DEF HistoryInv, HistoryTyped, History!TypeOK, Places, History!NoRequest
<1>2. SavedStaysVisible
  BY DEF HistoryInv, KeptShown, SavedStaysVisible, History!SavedStaysVisible
<1>3. ListedOnce
  <2> SUFFICES ASSUME request.stage = "answered", NEW i \in Places
               PROVE  LET entries == {e \in request.entries : e.id = i}
                      IN  /\ \A d, e \in entries : d = e
                          /\ request.views[i] # 0 =>
                               \E e \in entries : e.state >= request.views[i] /\ e.restored = (live[i] = 0)
    BY DEF ListedOnce, History!ListedOnce, Places
  <2> DEFINE entries == {e \in request.entries : e.id = i}
             only == IF live[i] # 0 THEN [id |-> i, state |-> request.views[i], restored |-> FALSE]
                     ELSE [id |-> i, state |-> restored[i], restored |-> TRUE]
  <2>1. request # History!NoRequest
    BY DEF History!NoRequest
  <2>2. \A e \in entries : e = only
    BY <2>1 DEF HistoryInv, ListSound
  <2>3. \A d, e \in entries : d = e
    BY <2>2
  <2>4. ASSUME request.views[i] # 0
        PROVE  \E e \in entries : e.state >= request.views[i] /\ e.restored = (live[i] = 0)
    <3>1. PICK e \in entries : e = only
      BY <2>1, <2>2, <2>4 DEF HistoryInv, ListSound
    <3>2. request.views[i] \in Nat
      BY <2>1, StatesTyped DEF HistoryInv, HistoryTyped
    <3>3. live[i] # 0 \/ restored[i] = request.views[i]
      BY <2>1, <2>4 DEF HistoryInv, ListSound
    <3>4. e.state = request.views[i] /\ e.restored = (live[i] = 0)
      <4>1. CASE live[i] # 0
        BY <3>1, <4>1
      <4>2. CASE live[i] = 0
        BY <3>1, <3>3, <4>2
      <4> QED
        BY <4>1, <4>2
    <3>5. e.state >= request.views[i]
      BY <3>2, <3>4
    <3> QED
      BY <3>4, <3>5, Zenon
  <2> QED
    BY <2>3, <2>4
<1> QED
  BY <1>1, <1>2, <1>3
-----------------------------------------------------------------------------
(* z-scores.  Sums and series are recursive functions, so what they are    *)
(* is found by induction, as a set that has 0 and with each number the     *)
(* next one.                                                               *)
LEMMA UpTo ==
  ASSUME NEW N \in Nat, NEW S, 0 \in S, \A n \in 1..N : n - 1 \in S => n \in S
  PROVE  0..N \subseteq S
<1> DEFINE bad == {n \in 0..N : n \notin S}
<1>1. bad = {}
  <2> SUFFICES ASSUME bad # {} PROVE FALSE
    OBVIOUS
  <2>1. PICK n \in bad : \A k \in bad : n <= k
    <3>1. bad \subseteq Nat
      OBVIOUS
    <3> HIDE DEF bad
    <3> QED
      BY <3>1, LeastExists
  <2>2. n \in 1..N /\ n - 1 \in 0..N /\ n - 1 < n
    OBVIOUS
  <2>3. n - 1 \notin bad
    BY <2>1, <2>2
  <2> QED
    BY <2>2, <2>3
<1> QED
  BY <1>1

(* How such a function goes on.                                            *)
Stepwise(f, N, step) == \A n \in 1..N : f[n] = step[n][f[n - 1]]

(* A function that starts at `first` and goes on as `step` says exists.    *)
LEMMA StepsExist ==
  ASSUME NEW N \in Nat, NEW V, NEW first \in V, NEW step \in [1..N -> [V -> V]]
  PROVE  \E f \in [0..N -> V] : f[0] = first /\ Stepwise(f, N, step)
<1> DEFINE Steps(f, n) == f[0] = first /\ Stepwise(f, n, step)
           S == {n \in 0..N : \E f \in [0..n -> V] : Steps(f, n)}
<1>1. 0 \in S
  <2>1. [k \in 0..0 |-> first] \in [0..0 -> V] /\ Steps([k \in 0..0 |-> first], 0)
    BY DEF Stepwise
  <2>2. 0 \in 0..N
    OBVIOUS
  <2> HIDE DEF Steps
  <2> QED
    BY <2>1, <2>2
<1>2. ASSUME NEW n \in 1..N, n - 1 \in S PROVE n \in S
  <2>1. PICK f \in [0..(n - 1) -> V] : Steps(f, n - 1)
    BY <1>2
  <2> DEFINE g == [k \in 0..n |-> IF k = n THEN step[n][f[n - 1]] ELSE f[k]]
  <2>2. \A k \in 0..n : k = n \/ k \in 0..(n - 1)
    OBVIOUS
  <2>3. g \in [0..n -> V]
    <3>1. n - 1 \in 0..(n - 1)
      OBVIOUS
    <3> QED
      BY <2>2, <3>1
  <2>4. g[0] = first
    BY <2>1
  <2>5. ASSUME NEW k \in 1..n PROVE g[k] = step[k][g[k - 1]]
    <3>1. k - 1 \in 0..(n - 1) /\ g[k - 1] = f[k - 1]
      OBVIOUS
    <3>2. CASE k = n
      BY <3>1, <3>2
    <3>3. CASE k # n
      <4>1. k \in 1..(n - 1) /\ g[k] = f[k]
        BY <3>3
      <4> QED
        BY <2>1, <3>1, <4>1 DEF Stepwise
    <3> QED
      BY <3>2, <3>3
  <2> HIDE DEF g
  <2>6. Steps(g, n) /\ n \in 0..N
    BY <2>4, <2>5 DEF Stepwise
  <2> HIDE DEF Steps
  <2> QED
    BY <2>3, <2>6
<1>3. N \in 0..N
  OBVIOUS
<1> HIDE DEF S
<1>4. 0..N \subseteq S
  BY <1>1, <1>2, UpTo
<1> QED
  BY <1>3, <1>4 DEF S

(* What SumOf's sum is, all at once.                                       *)
IsSum(f, values) == f = [n \in 0..Len(values) |-> IF n = 0 THEN 0 ELSE f[n - 1] + values[n]]

(* SumOf is the last of the partial sums.                                  *)
LEMMA SumIsLast ==
  ASSUME NEW values \in Seq(Int)
  PROVE  \E s \in [0..Len(values) -> Int] :
           /\ s[0] = 0 /\ \A n \in 1..Len(values) : s[n] = s[n - 1] + values[n]
           /\ SumOf(values) = s[Len(values)]
<1> DEFINE N == Len(values)
           step == [n \in 1..N |-> [x \in Int |-> x + values[n]]]
<1>1. N \in Nat /\ DOMAIN values = 1..N /\ \A n \in 1..N : values[n] \in Int
  BY LenProperties, ElementOfSeq
<1>2. step \in [1..N -> [Int -> Int]]
  BY <1>1
<1>3. \A n \in 1..N, x \in Int : step[n][x] = x + values[n]
  OBVIOUS
<1> HIDE DEF step, N
<1>4. PICK s \in [0..N -> Int] : s[0] = 0 /\ \A n \in 1..N : s[n] = step[n][s[n - 1]]
  <2> DEFINE V == Int
             first == 0
  <2>1. N \in Nat /\ first \in V /\ step \in [1..N -> [V -> V]]
    BY <1>1, <1>2
  <2> HIDE DEF V, first
  <2>2. \E s \in [0..N -> V] : s[0] = first /\ Stepwise(s, N, step)
    BY <2>1, StepsExist
  <2> QED
    BY <2>2 DEF V, first, Stepwise
<1>5. \A n \in 1..N : n - 1 \in 0..N /\ n \in 0..N /\ n # 0
  BY <1>1
<1>6. \A n \in 1..N : s[n] = s[n - 1] + values[n]
  BY <1>3, <1>4, <1>5
<1>7. IsSum(s, values)
  <2>1. s = [n \in 0..N |-> s[n]]
    OBVIOUS
  <2>2. \A n \in 0..N : s[n] = IF n = 0 THEN 0 ELSE s[n - 1] + values[n]
    <3>1. \A n \in 0..N : n = 0 \/ n \in 1..N
      BY <1>1
    <3> QED
      BY <1>4, <1>6, <3>1
  <2> QED
    BY <2>1, <2>2 DEF IsSum, N
<1> DEFINE f == CHOOSE f : IsSum(f, values)
<1>8. IsSum(f, values) /\ SumOf(values) = f[N]
  BY <1>7 DEF SumOf, IsSum, N
<1> HIDE DEF f
<1>9. f[0] = 0 /\ \A n \in 1..N : f[n] = f[n - 1] + values[n]
  <2>1. f = [n \in 0..N |-> IF n = 0 THEN 0 ELSE f[n - 1] + values[n]]
    BY <1>8 DEF IsSum, N
  <2> QED
    BY <1>1, <1>5, <2>1
<1>10. \A n \in 0..N : f[n] = s[n]
  <2> DEFINE S == {n \in 0..N : f[n] = s[n]}
  <2>1. 0 \in S
    BY <1>1, <1>4, <1>9
  <2>2. ASSUME NEW n \in 1..N, n - 1 \in S PROVE n \in S
    BY <1>5, <1>6, <1>9, <2>2
  <2> HIDE DEF S
  <2>3. 0..N \subseteq S
    BY <1>1, <2>1, <2>2, UpTo
  <2> QED
    BY <2>3 DEF S
<1>11. SumOf(values) = s[N]
  BY <1>1, <1>8, <1>10
<1> QED
  BY <1>4, <1>6, <1>11 DEF N

(* The arithmetic of one more reading: a square is not negative.           *)
LEMMA SquareNatural == \A x \in Int : x * x \in Nat
<1> SUFFICES ASSUME NEW x \in Int PROVE x * x >= 0
  OBVIOUS
<1> QED
  OBVIOUS

(* A factor above zero can be left out.                                    *)
LEMMA FactorOut ==
  ASSUME NEW k \in Nat \ {0}, NEW x \in Int, k * x >= 0
  PROVE  x >= 0
  OBVIOUS

(* The square of a sum, which s is and q the sum of its squares, against   *)
(* the sum of squares, when there is one more.                             *)
LEMMA OneMoreSquare ==
  ASSUME NEW k \in Nat, NEW s \in Int, NEW q \in Int, NEW v \in Int,
         q >= 0, s * s <= k * q
  PROVE  (s + v) * (s + v) <= (k + 1) * (q + v * v)
<1> DEFINE more == q + k * (v * v) - 2 * (s * v)
<1>1. (k + 1) * (q + v * v) - (s + v) * (s + v) = (k * q - s * s) + more
  OBVIOUS
<1>2. more >= 0
  <2>1. CASE k = 0
    <3>1. s * s <= 0
      BY <2>1
    <3>2. s = 0
      BY <3>1
    <3> QED
      BY <2>1, <3>2
  <2>2. CASE k # 0
    <3> DEFINE d == s - k * v
    <3>1. k * more = (k * q - s * s) + d * d
      OBVIOUS
    <3>2. d \in Int /\ d * d >= 0
      <4>1. d \in Int
        OBVIOUS
      <4> HIDE DEF d
      <4> QED
        BY <4>1, SquareNatural
    <3>3. more \in Int /\ k \in Nat \ {0}
      BY <2>2
    <3> HIDE DEF more, d
    <3>4. k * more >= 0
      <4>1. k * q \in Int /\ s * s \in Int /\ d * d \in Int
        BY <3>2
      <4> QED
        BY <3>1, <3>2, <4>1
    <3> QED
      BY <3>3, <3>4, FactorOut
  <2> QED
    BY <2>1, <2>2
<1>3. /\ more \in Int /\ k * q \in Int /\ s * s \in Int
      /\ (k + 1) * (q + v * v) \in Int /\ (s + v) * (s + v) \in Int
  OBVIOUS
<1> HIDE DEF more
<1> QED
  BY <1>1, <1>2, <1>3

(* How far the last reading x is off, against the spread with it; s and q  *)
(* are the sum and the sum of squares of the k readings before.            *)
LEMMA OffAgainstSpread ==
  ASSUME NEW k \in Nat, NEW s \in Int, NEW q \in Int, NEW x \in Int,
         s * s <= k * q
  PROVE  LET off == (k + 1) * x - (s + x)
             spread == (k + 1) * (q + x * x) - (s + x) * (s + x)
         IN  off * off <= k * spread
<1> DEFINE off == (k + 1) * x - (s + x)
           spread == (k + 1) * (q + x * x) - (s + x) * (s + x)
           rest == k * q - s * s
<1>1. off = k * x - s
  OBVIOUS
<1>2. spread = (k + 1) * q + k * (x * x) - s * s - 2 * (s * x)
  OBVIOUS
<1>3. k * spread - off * off = (k + 1) * rest
  BY <1>1, <1>2
<1>4. rest \in Nat /\ off \in Int /\ spread \in Int
  OBVIOUS
<1> HIDE DEF off, spread, rest
<1>5. (k + 1) * rest >= 0
  BY <1>4
<1>6. k * spread \in Int /\ off * off \in Int
  BY <1>4
<1>7. off * off <= k * spread
  BY <1>3, <1>4, <1>5, <1>6, SMTT(60)
<1> QED
  BY <1>7 DEF off, spread

(* Spread and the last reading's distance from the mean, from the sums of  *)
(* the readings before it.                                                 *)
LEMMA SumsBefore ==
  ASSUME NEW values \in Seq(Int), Len(values) > 0
  PROVE  \E k \in Nat, s \in Int, q \in Int, x \in Int :
           /\ k + 1 = Len(values) /\ x = Last(values) /\ s * s <= k * q
           /\ SumOf(values) = s + x /\ SumOf(Squares(values)) = q + x * x
<1> DEFINE N == Len(values)
           squares == Squares(values)
<1>1. N \in Nat /\ DOMAIN values = 1..N /\ \A n \in 1..N : values[n] \in Int
  BY LenProperties, ElementOfSeq
<1>2. /\ squares = [n \in 1..N |-> values[n] * values[n]]
      /\ \A n \in 1..N : values[n] * values[n] \in Int
  BY <1>1 DEF Squares
<1>3. squares \in Seq(Int) /\ Len(squares) = N
  <2>1. squares \in [1..N -> Int]
    BY <1>2
  <2>2. DOMAIN squares = 1..N
    BY <1>2
  <2> HIDE DEF squares, N
  <2> QED
    BY <1>1, <2>1, <2>2, SeqDef, LenProperties
<1>4. PICK s \in [0..N -> Int] :
        /\ s[0] = 0 /\ \A n \in 1..N : s[n] = s[n - 1] + values[n]
        /\ SumOf(values) = s[N]
  BY SumIsLast
<1>5. PICK q \in [0..N -> Int] :
        /\ q[0] = 0 /\ \A n \in 1..N : q[n] = q[n - 1] + squares[n]
        /\ SumOf(squares) = q[N]
  <2> HIDE DEF squares
  <2> QED
    BY <1>3, SumIsLast
<1>6. \A n \in 1..N : q[n] = q[n - 1] + values[n] * values[n]
  BY <1>2, <1>5
<1> HIDE DEF N, squares
<1> DEFINE S == {n \in 0..N : q[n] >= 0 /\ s[n] * s[n] <= n * q[n]}
<1>7. 0 \in S
  BY <1>1, <1>4, <1>5
<1>8. ASSUME NEW n \in 1..N, n - 1 \in S PROVE n \in S
  <2> DEFINE k == n - 1
             a == s[n - 1]
             b == q[n - 1]
             v == values[n]
  <2>1. /\ k \in Nat /\ a \in Int /\ b \in Int /\ v \in Int
        /\ b >= 0 /\ a * a <= k * b
    <3>1. k \in Nat /\ k \in 0..N
      <4> HIDE DEF S
      <4> QED
        BY <1>1
    <3>2. b >= 0 /\ a * a <= k * b
      BY <1>8, Zenon
    <3> HIDE DEF S
    <3>3. a \in Int /\ b \in Int /\ v \in Int
      BY <1>1, <3>1
    <3> QED
      BY <3>1, <3>2, <3>3
  <2>2. s[n] = a + v /\ q[n] = b + v * v /\ n = k + 1 /\ n \in 0..N
    <3>1. s[n] = a + v /\ q[n] = b + v * v
      BY <1>4, <1>6, Zenon
    <3> HIDE DEF S
    <3>2. n = k + 1 /\ n \in 0..N
      BY <1>1
    <3> QED
      BY <3>1, <3>2
  <2> HIDE DEF k, a, b, v
  <2>3. (a + v) * (a + v) <= (k + 1) * (b + v * v)
    BY <2>1, OneMoreSquare
  <2>4. v * v \in Nat
    BY <2>1, SquareNatural
  <2>5. b + v * v >= 0
    BY <2>1, <2>4
  <2> QED
    BY <2>2, <2>3, <2>5
<1> HIDE DEF S
<1>9. 0..N \subseteq S
  BY <1>1, <1>7, <1>8, UpTo
<1>10. N \in 1..N /\ N - 1 \in 0..N /\ N - 1 \in Nat /\ (N - 1) + 1 = N
  BY <1>1 DEF N
<1>11. /\ s[N - 1] \in Int /\ q[N - 1] \in Int /\ values[N] \in Int
       /\ s[N - 1] * s[N - 1] <= (N - 1) * q[N - 1]
  BY <1>1, <1>9, <1>10 DEF S
<1>12. Last(values) = values[N]
  BY DEF Last, N
<1>13. SumOf(values) = s[N - 1] + values[N] /\ SumOf(squares) = q[N - 1] + values[N] * values[N]
  BY <1>4, <1>5, <1>6, <1>10
<1> QED
  BY <1>10, <1>11, <1>12, <1>13 DEF N, squares

(* With fewer than eight readings no last one is anomalous.                *)
LEMMA FewNotAnomalous ==
  ASSUME NEW values \in Seq(Int), ZScoreAnomaly(values)
  PROVE  Len(values) >= 8
<1>1. Len(values) \in Nat /\ Len(values) >= 3
  BY LenProperties DEF ZScoreAnomaly
<1>2. PICK k \in Nat, s \in Int, q \in Int, x \in Int :
        /\ k + 1 = Len(values) /\ x = Last(values) /\ s * s <= k * q
        /\ SumOf(values) = s + x /\ SumOf(Squares(values)) = q + x * x
  BY <1>1, SumsBefore
<1> DEFINE off == (k + 1) * x - (s + x)
           spread == (k + 1) * (q + x * x) - (s + x) * (s + x)
<1>3. off * off <= k * spread
  BY <1>2, OffAgainstSpread
<1>4. 4 * off * off > 25 * spread
  BY <1>2 DEF ZScoreAnomaly, Spread
<1>5. off \in Int /\ spread \in Int
  OBVIOUS
<1> HIDE DEF off, spread
<1>6. off * off \in Nat
  BY <1>5, SquareNatural
<1>7. 4 * off * off = 4 * (off * off)
  BY <1>5
<1>8. k >= 2
  BY <1>1, <1>2
<1>9. CASE k >= 7
  BY <1>2, <1>9
<1>10. CASE k \in 2..6
  <2>1. k * spread >= 0 /\ spread >= 0
    <3>1. k * spread \in Int
      BY <1>5
    <3>2. k * spread >= 0
      BY <1>3, <1>6, <3>1
    <3> QED
      BY <1>5, <1>8, <3>2, FactorOut
  <2>2. k * spread <= 6 * spread
    BY <1>5, <1>10, <2>1
  <2> QED
    BY <1>3, <1>4, <1>5, <1>6, <1>7, <2>1, <2>2
<1> QED
  BY <1>8, <1>9, <1>10

(* What Series' series are, all at once.                                   *)
IsSeries(f, read, m) ==
  f = [n \in 0..Len(read) |->
        IF n = 0 THEN <<>>
        ELSE IF read[n].metric = m THEN Append(f[n - 1], read[n].value)
        ELSE f[n - 1]]

(* A metric's series has an integer for each of its readings.              *)
LEMMA SeriesTyped ==
  ASSUME NEW read \in Seq([metric : STRING, value : Int]), NEW m
  PROVE  /\ Series(read, m) \in Seq(Int)
         /\ Len(Series(read, m)) = Cardinality({i \in DOMAIN read : read[i].metric = m})
<1> DEFINE N == Len(read)
           of(n) == {i \in 1..n : read[i].metric = m}
           step == [n \in 1..N |->
                     [t \in Seq(Int) |-> IF read[n].metric = m THEN Append(t, read[n].value) ELSE t]]
<1>1. N \in Nat /\ DOMAIN read = 1..N /\ \A n \in 1..N : read[n].value \in Int
  <2>1. N \in Nat /\ DOMAIN read = 1..N
    BY LenProperties
  <2>2. \A n \in 1..N : read[n] \in [metric : STRING, value : Int]
    BY ElementOfSeq
  <2> QED
    BY <2>1, <2>2
<1>2. ASSUME NEW n \in 1..N, NEW t \in Seq(Int)
      PROVE  /\ Append(t, read[n].value) \in Seq(Int)
             /\ Len(Append(t, read[n].value)) = Len(t) + 1
  BY <1>1, AppendProperties
<1>3. step \in [1..N -> [Seq(Int) -> Seq(Int)]]
  BY <1>2
<1>4. \A n \in 1..N, t \in Seq(Int) :
        step[n][t] = IF read[n].metric = m THEN Append(t, read[n].value) ELSE t
  OBVIOUS
<1>5. <<>> \in Seq(Int) /\ Len(<<>>) = 0
  BY EmptySeq
<1> HIDE DEF step, N
<1>6. PICK g \in [0..N -> Seq(Int)] : g[0] = <<>> /\ Stepwise(g, N, step)
  <2> DEFINE V == Seq(Int)
             first == <<>>
  <2>1. N \in Nat /\ first \in V /\ step \in [1..N -> [V -> V]]
    BY <1>1, <1>3, <1>5
  <2> HIDE DEF V, first
  <2>2. \E f \in [0..N -> V] : f[0] = first /\ Stepwise(f, N, step)
    BY <2>1, StepsExist
  <2> QED
    BY <2>2 DEF V, first
<1>7. \A n \in 1..N : n - 1 \in 0..N /\ n \in 0..N /\ n # 0
  BY <1>1
<1>8. \A n \in 1..N :
        g[n] = IF read[n].metric = m THEN Append(g[n - 1], read[n].value) ELSE g[n - 1]
  BY <1>4, <1>6, <1>7 DEF Stepwise
<1>9. IsSeries(g, read, m)
  <2>1. g = [n \in 0..N |-> g[n]]
    OBVIOUS
  <2>2. \A n \in 0..N : g[n] = IF n = 0 THEN <<>>
                               ELSE IF read[n].metric = m THEN Append(g[n - 1], read[n].value)
                               ELSE g[n - 1]
    <3>1. \A n \in 0..N : n = 0 \/ n \in 1..N
      BY <1>1
    <3> QED
      BY <1>6, <1>8, <3>1
  <2> QED
    BY <2>1, <2>2 DEF IsSeries, N
<1> DEFINE f == CHOOSE f : IsSeries(f, read, m)
<1>10. IsSeries(f, read, m) /\ Series(read, m) = f[N]
  BY <1>9 DEF Series, IsSeries, N
<1> HIDE DEF f
<1>11. /\ f[0] = <<>>
       /\ \A n \in 1..N :
            f[n] = IF read[n].metric = m THEN Append(f[n - 1], read[n].value) ELSE f[n - 1]
  <2> DEFINE next(n) == IF read[n].metric = m THEN Append(f[n - 1], read[n].value) ELSE f[n - 1]
             at(n) == IF n = 0 THEN <<>> ELSE next(n)
  <2>1. f = [n \in 0..N |-> at(n)]
    BY <1>10 DEF IsSeries, N
  <2>2. at(0) = <<>> /\ \A n \in 1..N : at(n) = next(n)
    BY <1>7
  <2> HIDE DEF at
  <2>3. 0 \in 0..N /\ \A n \in 0..N : f[n] = at(n)
    BY <1>1, <2>1
  <2>4. f[0] = <<>> /\ \A n \in 1..N : f[n] = next(n)
    BY <1>7, <2>2, <2>3
  <2> QED
    BY <2>4
<1> DEFINE S == {n \in 0..N : f[n] \in Seq(Int) /\ Len(f[n]) = Cardinality(of(n))}
<1>12. 0 \in S
  <2>1. of(0) = {}
    OBVIOUS
  <2>2. Cardinality(of(0)) = 0
    BY <2>1, FS_EmptySet
  <2> HIDE DEF of
  <2>3. f[0] \in Seq(Int) /\ Len(f[0]) = Cardinality(of(0)) /\ 0 \in 0..N
    BY <1>1, <1>5, <1>11, <2>2
  <2> QED
    BY <2>3
<1>13. ASSUME NEW n \in 1..N, n - 1 \in S PROVE n \in S
  <2>1. f[n - 1] \in Seq(Int) /\ Len(f[n - 1]) = Cardinality(of(n - 1))
    BY <1>13
  <2>2. CASE read[n].metric # m
    <3>1. of(n) = of(n - 1)
      BY <1>1, <2>2
    <3>2. f[n] = f[n - 1]
      BY <1>11, <2>2
    <3> HIDE DEF of
    <3> QED
      BY <1>7, <2>1, <3>1, <3>2
  <2>3. CASE read[n].metric = m
    <3>1. of(n) = of(n - 1) \cup {n} /\ n \notin of(n - 1)
      BY <1>1, <2>3
    <3>2. IsFiniteSet(of(n - 1))
      <4>1. IsFiniteSet(1..(n - 1))
        BY FS_Interval
      <4> QED
        BY <4>1, FS_Subset
    <3> HIDE DEF of
    <3>3. Cardinality(of(n)) = Cardinality(of(n - 1)) + 1
      BY <3>1, <3>2, FS_AddElement
    <3>4. f[n] = Append(f[n - 1], read[n].value)
      BY <1>11, <2>3
    <3>5. f[n] \in Seq(Int) /\ Len(f[n]) = Len(f[n - 1]) + 1
      BY <1>2, <2>1, <3>4
    <3> QED
      BY <1>7, <2>1, <3>3, <3>5
  <2> QED
    BY <2>2, <2>3
<1>14. 0..N \subseteq S
  <2> HIDE DEF S
  <2> QED
    BY <1>1, <1>12, <1>13, UpTo
<1>15. N \in 0..N /\ of(N) = {i \in DOMAIN read : read[i].metric = m}
  BY <1>1
<1> HIDE DEF of
<1>16. f[N] \in Seq(Int) /\ Len(f[N]) = Cardinality(of(N))
  BY <1>14, <1>15
<1> QED
  BY <1>10, <1>15, <1>16

(* Of a metric with fewer than eight readings, no verdict is ever that it  *)
(* is anomalous, whatever has been read of it and of others.               *)
THEOREM EightReadingsNeeded ==
  ASSUME NEW read \in Seq([metric : STRING, value : Int]), NEW m \in AnomalousMetrics(read)
  PROVE  Cardinality({i \in DOMAIN read : read[i].metric = m}) >= 8
<1>1. Series(read, m) \in Seq(Int) /\ ZScoreAnomaly(Series(read, m))
  BY SeriesTyped DEF AnomalousMetrics
<1>2. Len(Series(read, m)) >= 8
  BY <1>1, FewNotAnomalous
<1> QED
  BY <1>2, SeriesTyped
-----------------------------------------------------------------------------
(* The parts together.                                                     *)

(* The invariants of three of them, side by side.                          *)
PartsInv ==
  /\ RunbookInv /\ AsTemplate /\ AccountsInv
  /\ ConfigInv
  /\ HistoryInv

(* The runbook's first state has its invariants.                           *)
LEMMA RunbookStarts == Runbook!Init => RunbookInv /\ AsTemplate /\ AccountsInv
<1> SUFFICES ASSUME Runbook!Init PROVE RunbookInv /\ AsTemplate /\ AccountsInv
  OBVIOUS
<1>1. /\ stage = "diagnosed" /\ source = "none" /\ cause \in Causes
      /\ actions = <<>> /\ lists = Runbook!NoLists /\ verdicts = <<>>
      /\ timeline = <<>> /\ claimed = {} /\ rca = Runbook!NoReport
  BY DEF Runbook!Init
<1>2. DOMAIN actions = {} /\ DOMAIN verdicts = {} /\ \E n \in Nat : DOMAIN actions = 1..n
  <2>1. DOMAIN actions = 1..0
    BY <1>1
  <2> QED
    BY <1>1, <2>1
<1>3. verdicts \in [DOMAIN actions -> Runbook!Statuses]
  BY <1>1, <1>2
<1>4. RunbookInv /\ AsTemplate
  BY <1>1, <1>2, <1>3 DEF RunbookInv, RunbookTyped, AskedInTime, ExecutedInTime, AsTemplate
<1>5. ToldInTime
  BY <1>1, EmptySeq DEF ToldInTime
<1>6. ListedInTime
  <2>1. <<>> \in Seq(Nat)
    BY EmptySeq
  <2> QED
    BY <1>1, <2>1 DEF ListedInTime, Runbook!NoLists
<1>7. DecidedInTime /\ ReportedInTime
  BY <1>1 DEF DecidedInTime, ReportedInTime
<1> QED
  BY <1>4, <1>5, <1>6, <1>7 DEF AccountsInv

(* Its steps keep its invariants.                                          *)
LEMMA RunbookKeeps ==
  ASSUME Runbook!RemediationAssumption, RunbookInv, AsTemplate, AccountsInv,
         Runbook!Next \/ UNCHANGED runbookVars
  PROVE  (RunbookInv /\ AsTemplate /\ AccountsInv)'
<1>1. CASE Runbook!Plan
  BY <1>1, PlanKeeps, PlanAccounts
<1>2. CASE ~Runbook!Plan
  <2>1. RunbookInv' /\ SameButExecuted
    BY <1>2, OthersKeep
  <2>2. AsTemplate'
    BY <2>1, SameIsAsTemplate
  <2>3. AccountsInv'
    <3>1. ASSUME NEW i \in DOMAIN actions, Runbook!Resolve(i) PROVE AccountsInv'
      BY <2>1, <3>1, ResolveAccounts
    <3> QED
      BY <1>2, <2>1, <3>1, AutoExecuteAccounts, RequestAccounts, ApplyAccounts, ReportAccounts
      DEF Runbook!Next
  <2> QED
    BY <2>1, <2>2, <2>3
<1> QED
  BY <1>1, <1>2

(* A step of the composition is, for each part, a step of its own or none. *)
LEMMA EachSteps ==
  ASSUME [PartsNext]_<<part, readings, vars, runbookVars, configVars, historyVars>>
  PROVE  /\ [Next]_vars
         /\ Runbook!Next \/ UNCHANGED runbookVars
         /\ Config!Next \/ UNCHANGED configVars
         /\ History!Next \/ UNCHANGED historyVars
  BY DEF PartsNext

(* They hold throughout.                                                   *)
THEOREM PartsInvariance == PartsSpec => []PartsInv
<1>1. PartsInit => PartsInv
  <2> SUFFICES ASSUME PartsInit PROVE PartsInv
    OBVIOUS
  <2>1. Runbook!Init /\ Config!Init /\ History!Init
    BY DEF PartsInit
  <2> QED
    BY <2>1, RunbookStarts, ConfigStarts, HistoryStarts DEF PartsInv
<1>2. PartsInv /\ [PartsNext]_<<part, readings, vars, runbookVars, configVars, historyVars>>
        => PartsInv'
  <2> SUFFICES ASSUME PartsInv,
                      [PartsNext]_<<part, readings, vars, runbookVars, configVars, historyVars>>
               PROVE  PartsInv'
    OBVIOUS
  <2>1. /\ Runbook!Next \/ UNCHANGED runbookVars
        /\ Config!Next \/ UNCHANGED configVars
        /\ History!Next \/ UNCHANGED historyVars
    BY EachSteps
  <2>2. Runbook!RemediationAssumption /\ Config!ConfigurationAssumption
    BY PartsAssumption DEF PartsAssumption
  <2>3. (RunbookInv /\ AsTemplate /\ AccountsInv)'
    BY <2>1, <2>2, RunbookKeeps DEF PartsInv
  <2>4. ConfigInv'
    BY <2>1, <2>2, ConfigKeeps DEF PartsInv
  <2>5. HistoryInv'
    BY <2>1, HistoryKeeps DEF PartsInv
  <2> QED
    BY <2>3, <2>4, <2>5 DEF PartsInv
<1> QED
  BY <1>1, <1>2, PTL DEF PartsSpec

(* The composition's triage is a triage on its own, so that what is proved *)
(* of that holds here.                                                     *)
THEOREM TriageIsPart == PartsSpec => Spec
<1>1. PartsInit => Init
  BY DEF PartsInit
<1>2. [PartsNext]_<<part, readings, vars, runbookVars, configVars, historyVars>> => [Next]_vars
  BY EachSteps
<1> QED
  BY <1>1, <1>2, PTL DEF PartsSpec, Spec

(* Every variable keeps its type, for all values of the constants.         *)
THEOREM PartsTyped == PartsSpec => []PartsTypeOK
<1>1. TypeOK /\ PartsInv => PartsTypeOK
  <2> SUFFICES ASSUME TypeOK, PartsInv PROVE PartsTypeOK
    OBVIOUS
  <2>1. Config!ConfigurationAssumption
    BY PartsAssumption DEF PartsAssumption
  <2>2. Runbook!TypeOK /\ Config!TypeOK /\ History!TypeOK
    BY <2>1, RunbookTypeOK, ConfigImplies, HistoryImplies DEF PartsInv
  <2> QED
    BY <2>2 DEF PartsTypeOK
<1> QED
  BY <1>1, PartsInvariance, TriageIsPart, TypeCorrect, PTL

(* So it is in every state, for any readings, in any order and number.     *)
THEOREM FewNeverAnomalous == PartsSpec => []FewReadingsNeverAnomalous
<1> DEFINE Histories == Seq([metric : STRING, value : Int])
<1>1. PartsInit => readings \in Histories
  <2>1. <<>> \in Histories
    BY EmptySeq
  <2> QED
    BY <2>1 DEF PartsInit
<1>2. readings \in Histories /\ [PartsNext]_<<part, readings, vars, runbookVars, configVars, historyVars>>
        => (readings \in Histories)'
  <2> SUFFICES ASSUME readings \in Histories,
                      [PartsNext]_<<part, readings, vars, runbookVars, configVars, historyVars>>
               PROVE  readings' \in Histories
    OBVIOUS
  <2>1. CASE readings' = readings
    BY <2>1
  <2>2. CASE Read
    <3>1. PICK reading \in Readings : readings' = Append(readings, reading)
      BY <2>2 DEF Read
    <3>2. reading \in [metric : STRING, value : Int]
      BY PartsAssumption DEF PartsAssumption
    <3> QED
      BY <3>1, <3>2, AppendProperties
  <2> QED
    BY <2>1, <2>2 DEF PartsNext
<1>3. readings \in Histories => FewReadingsNeverAnomalous
  BY EightReadingsNeeded DEF FewReadingsNeverAnomalous
<1> QED
  BY <1>1, <1>2, <1>3, PTL DEF PartsSpec

(* For runbooks of any length, repeated step numbers included, and         *)
(* decisions in any order: without the model's say-so a destructive action *)
(* is executed only on an approval, and what is safe or approved is.       *)
THEOREM FatesMatch == PartsSpec => []FateMatchesVerdict
<1>1. PartsInv => FateMatchesVerdict
  BY DEF PartsInv, RunbookInv, RunbookTyped, ExecutedInTime,
         FateMatchesVerdict, Runbook!FateMatchesVerdict
<1> QED
  BY <1>1, PartsInvariance, PTL

(* For all of these the planner's lists, the timeline and the simulated    *)
(* report tell the same: what was asked, of whom it was approved, and what *)
(* was executed.                                                           *)
THEOREM AccountsMatch == PartsSpec => []AccountsAgree
<1>1. PartsInv => AccountsAgree
  <2> SUFFICES ASSUME PartsInv PROVE AccountsAgree
    OBVIOUS
  <2>1. Runbook!BlockedAreAsked /\ Runbook!TimelineTellsFate /\ Runbook!ReportTellsOutcome
    BY BlockedAsked, TimelineTells, ReportTells DEF PartsInv
  <2> QED
    BY <2>1 DEF AccountsAgree, Runbook!AccountsAgree
<1> QED
  BY <1>1, PartsInvariance, PTL

(* Whatever keywords a diagnosis has, the simulated runbook is the         *)
(* template with the most of them, or the default if it has none.          *)
THEOREM BestIsChosen == PartsSpec => []Runbook!BestRunbook
<1>1. PartsInv => Runbook!BestRunbook
  <2> SUFFICES ASSUME PartsInv, source = "simulation" PROVE Runbook!BestRunbook
    BY DEF Runbook!BestRunbook
  <2> DEFINE made == [i \in DOMAIN actions |-> actions[i].destructive]
  <2>1. cause \in Causes /\ Runbook!RemediationAssumption
    BY PartsAssumption DEF PartsInv, RunbookInv, RunbookTyped, PartsAssumption
  <2>2. /\ Runbook!SelectTemplate(cause) \in Seq(BOOLEAN)
        /\ IF \A t \in Runbook!Templates : cause[t] = 0
           THEN Runbook!SelectTemplate(cause) = Runbook!DefaultTemplate
           ELSE \E t \in Runbook!Templates :
                  /\ Runbook!SelectTemplate(cause) = Runbook!Library[t]
                  /\ \A u \in Runbook!Templates : cause[u] <= cause[t]
    BY <2>1, SelectsBest
  <2>3. made = Runbook!SelectTemplate(cause)
    <3>1. Runbook!SelectTemplate(cause) =
            [i \in DOMAIN Runbook!SelectTemplate(cause) |-> Runbook!SelectTemplate(cause)[i]]
      BY <2>2, LenProperties
    <3> QED
      BY <3>1 DEF PartsInv, AsTemplate
  <2> HIDE DEF made
  <2>4. IF \A t \in Runbook!Templates : cause[t] = 0 THEN made = Runbook!DefaultTemplate
        ELSE \E t \in Runbook!Templates :
               made = Runbook!Library[t] /\ \A u \in Runbook!Templates : cause[u] <= cause[t]
    BY <2>2, <2>3
  <2> QED
    BY <2>4 DEF Runbook!BestRunbook, made
<1> QED
  BY <1>1, PartsInvariance, PTL

(* For any stores, failures of them, environments and requests, across     *)
(* restarts and rotations: what is in force was changed only with keys     *)
(* that an ADMIN field had when the process started.                       *)
THEOREM ChangesByAdmins == PartsSpec => []ChangesAuthorised
<1>1. PartsInv => ChangesAuthorised
  <2>1. Config!ConfigurationAssumption
    BY PartsAssumption DEF PartsAssumption
  <2> QED
    BY <2>1, ConfigImplies DEF PartsInv, ChangesAuthorised
<1> QED
  BY <1>1, PartsInvariance, PTL

(* For updates and histories of any length, the history explains every     *)
(* value in force and every value replaced.                                *)
THEOREM HistoryIsTrue == PartsSpec => []HistoryTrue
<1>1. PartsInv => HistoryTrue
  BY DEF PartsInv, ConfigInv, HistoryTrue
<1> QED
  BY <1>1, PartsInvariance, PTL

(* A refused update is done exactly up to the refused key, an accepted one *)
(* in full, whatever keys it has.                                          *)
THEOREM RefusalsHalfDone == PartsSpec => []RefusedInPart
<1>1. PartsInv => RefusedInPart
  BY DEF PartsInv, ConfigInv, RefusedInPart
<1> QED
  BY <1>1, PartsInvariance, PTL

(* For any number of incidents, processes and failures, an incident saved  *)
(* in full is visible in every process that could read the store.          *)
THEOREM SavedVisible == PartsSpec => []SavedStaysVisible
<1>1. PartsInv => SavedStaysVisible
  BY HistoryImplies DEF PartsInv
<1> QED
  BY <1>1, PartsInvariance, PTL

(* For any number of incidents, a list made while the loop goes on has     *)
(* each of them once, none older than it was.                              *)
THEOREM ListedOnceEach == PartsSpec => []ListedOnce
<1>1. PartsInv => ListedOnce
  BY HistoryImplies DEF PartsInv
<1> QED
  BY <1>1, PartsInvariance, PTL
=============================================================================
