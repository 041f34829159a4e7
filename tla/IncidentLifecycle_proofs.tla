---------------------- MODULE IncidentLifecycle_proofs ----------------------
(***************************************************************************)
(* The incident and its copies, with Redis commands that fail or do not:   *)
(* no copy is resolved and incomplete, between hook calls Redis has what   *)
(* the pipeline found, a resolved incident is there in full, and no write  *)
(* loses what an earlier one had.                                          *)
(*                                                                         *)
(* The argument follows run_pipeline: which results and trace steps the    *)
(* incident has is known from the number of hook calls applied, which only *)
(* the handler's differ from.                                              *)
(***************************************************************************)
EXTENDS IncidentLifecycle, SequenceTheorems, TLAPS
-----------------------------------------------------------------------------
(* run_pipeline's hook calls, numbered.                                    *)
Do == <<"create", "result", "status", "result", "trace", "status", "result", "report", "trace",
        "status", "result", "trace", "execute", "status", "await", "execute", "status",
        "result", "trace", "status">>

What == <<"TRIAGING", "pipeline_metadata", "TRIAGING", "triage", "triage",
          "DIAGNOSING", "diagnosis", "diagnosis", "diagnosis", "REMEDIATING", "runbook", "runbook",
          "safe", "AWAITING_HITL", "decisions", "approved", "POST_MORTEM",
          "rca", "rca", "RESOLVED">>

(* The tables are of what PipelineHooks is.                                *)
LEMMA HookTable ==
  /\ Len(PipelineHooks) = 20
  /\ \A i \in 1..20 : PipelineHooks[i] = Hook(Do[i], What[i])
<1> DEFINE last == << Result("rca"), Trace("rca"), Status("RESOLVED") >>
           H == {Hook(Do[i], What[i]) : i \in 1..20}
<1>1. \A i \in 1..17 : UpToPostMortem[i] = Hook(Do[i], What[i])
  BY DEF UpToPostMortem, Hook, Status, Result, Trace, Do, What
<1>2. \A i \in 1..3 : last[i] = Hook(Do[i + 17], What[i + 17])
  BY DEF Hook, Status, Result, Trace, Do, What
<1>3. /\ Len(UpToPostMortem) = 17 /\ DOMAIN UpToPostMortem = 1..17
      /\ UpToPostMortem = [i \in 1..17 |-> UpToPostMortem[i]]
  BY DEF UpToPostMortem
<1>4. Len(last) = 3 /\ DOMAIN last = 1..3 /\ last = [i \in 1..3 |-> last[i]]
  OBVIOUS
<1>5. PipelineHooks = UpToPostMortem \o last
  BY DEF PipelineHooks
<1> HIDE DEF last
<1>6. UpToPostMortem \in Seq(H) /\ last \in Seq(H)
  <2>1. \A i \in 1..17 : UpToPostMortem[i] \in H
    BY <1>1
  <2>2. \A i \in 1..3 : last[i] \in H
    <3>1. \A i \in 1..3 : i + 17 \in 1..20
      OBVIOUS
    <3> QED
      BY <1>2, <3>1
  <2> HIDE DEF H
  <2>3. UpToPostMortem \in [1..17 -> H] /\ last \in [1..3 -> H]
    BY <1>3, <1>4, <2>1, <2>2
  <2>4. ASSUME NEW n \in Nat, NEW s \in [1..n -> H] PROVE s \in Seq(H)
    BY SeqDef
  <2> QED
    BY <2>3, <2>4
<1> HIDE DEF H
<1>7. /\ Len(UpToPostMortem \o last) = Len(UpToPostMortem) + Len(last)
      /\ \A i \in 1..(Len(UpToPostMortem) + Len(last)) :
           (UpToPostMortem \o last)[i] = IF i <= Len(UpToPostMortem) THEN UpToPostMortem[i]
                                         ELSE last[i - Len(UpToPostMortem)]
  BY <1>6, ConcatProperties
<1>8. ASSUME NEW i \in 1..20 PROVE PipelineHooks[i] = Hook(Do[i], What[i])
  <2>1. CASE i <= 17
    BY <1>1, <1>5, <1>7, <1>3, <1>4, <2>1
  <2>2. CASE i > 17
    <3>1. PipelineHooks[i] = last[i - 17]
      BY <1>5, <1>7, <1>3, <1>4, <2>2
    <3>2. i - 17 \in 1..3 /\ (i - 17) + 17 = i
      BY <2>2
    <3> QED
      BY <1>2, <3>1, <3>2
  <2> QED
    BY <2>1, <2>2
<1> QED
  BY <1>5, <1>7, <1>8, <1>3, <1>4
-----------------------------------------------------------------------------
(* The results and the trace when run_pipeline has made n of its calls.    *)
ResultsBy(n) ==
  {k \in {"pipeline_metadata", "triage", "diagnosis", "runbook", "rca"} :
     \/ k = "pipeline_metadata" /\ n >= 2
     \/ k = "triage" /\ n >= 4
     \/ k = "diagnosis" /\ n >= 7
     \/ k = "runbook" /\ n >= 11
     \/ k = "rca" /\ n >= 18}

TraceBy(n) == IF n < 5 THEN <<>> ELSE IF n < 9 THEN <<"triage">>
              ELSE IF n < 12 THEN <<"triage", "diagnosis">>
              ELSE IF n < 19 THEN <<"triage", "diagnosis", "runbook">>
              ELSE <<"triage", "diagnosis", "runbook", "rca">>

Traces == {TraceBy(n) : n \in 0..20}


(* The hook calls by what they do.                                         *)
LEMMA HookKinds ==
  \A i \in 1..20 :
    /\ Do[i] \in {"create", "status", "result", "trace", "report", "execute", "await"}
    /\ Do[i] = "create" <=> i = 1
    /\ Do[i] = "await" <=> i = 15
    /\ Do[i] = "status" => What[i] \in RangeOf(Rank) /\ (What[i] = "RESOLVED" <=> i = 20)
    /\ Do[i] = "result" => What[i] \in RangeOf(Stages) \cup {"pipeline_metadata"}
    /\ Do[i] = "trace" => What[i] \in RangeOf(Stages)
    /\ Do[i] = "execute" => What[i] \in {"safe", "approved"} /\ i \in {13, 16}
    /\ i = 20 => Do[i] = "status"
  BY DEF Do, What, RangeOf, Rank, Stages

(* What each adds.                                                         *)
LEMMA HookAdds ==
  \A i \in 1..20 :
    /\ ResultsBy(i) = IF Do[i] = "result" THEN ResultsBy(i - 1) \cup {What[i]} ELSE ResultsBy(i - 1)
    /\ TraceBy(i) = IF Do[i] = "trace" THEN Append(TraceBy(i - 1), What[i]) ELSE TraceBy(i - 1)
<1> SUFFICES ASSUME NEW i \in 1..20
             PROVE  /\ ResultsBy(i) = IF Do[i] = "result" THEN ResultsBy(i - 1) \cup {What[i]}
                                      ELSE ResultsBy(i - 1)
                    /\ TraceBy(i) = IF Do[i] = "trace" THEN Append(TraceBy(i - 1), What[i])
                                    ELSE TraceBy(i - 1)
  OBVIOUS
<1>1. (Do[i] = "result" <=> i \in {2, 4, 7, 11, 18}) /\ (Do[i] = "trace" <=> i \in {5, 9, 12, 19})
  BY DEF Do
<1>2. ASSUME i \notin {2, 4, 7, 11, 18} PROVE ResultsBy(i) = ResultsBy(i - 1)
  BY <1>2 DEF ResultsBy
<1>3. ASSUME i \notin {5, 9, 12, 19} PROVE TraceBy(i) = TraceBy(i - 1)
  BY <1>3 DEF TraceBy
<1>4. ASSUME i \in {2, 4, 7, 11, 18} PROVE ResultsBy(i) = ResultsBy(i - 1) \cup {What[i]}
  <2>1. /\ What[2] = "pipeline_metadata" /\ What[4] = "triage" /\ What[7] = "diagnosis"
        /\ What[11] = "runbook" /\ What[18] = "rca"
    BY DEF What
  <2>2. CASE i = 2
    BY <2>1, <2>2 DEF ResultsBy
  <2>3. CASE i = 4
    BY <2>1, <2>3 DEF ResultsBy
  <2>4. CASE i = 7
    BY <2>1, <2>4 DEF ResultsBy
  <2>5. CASE i = 11
    BY <2>1, <2>5 DEF ResultsBy
  <2>6. CASE i = 18
    BY <2>1, <2>6 DEF ResultsBy
  <2> QED
    BY <1>4, <2>2, <2>3, <2>4, <2>5, <2>6
<1>5. ASSUME i \in {5, 9, 12, 19} PROVE TraceBy(i) = Append(TraceBy(i - 1), What[i])
  <2>1. What[5] = "triage" /\ What[9] = "diagnosis" /\ What[12] = "runbook" /\ What[19] = "rca"
    BY DEF What
  <2>2. CASE i = 5
    BY <2>1, <2>2 DEF TraceBy
  <2>3. CASE i = 9
    BY <2>1, <2>3 DEF TraceBy
  <2>4. CASE i = 12
    BY <2>1, <2>4 DEF TraceBy
  <2>5. CASE i = 19
    BY <2>1, <2>5 DEF TraceBy
  <2> QED
    BY <1>5, <2>2, <2>3, <2>4, <2>5
<1> QED
  BY <1>1, <1>2, <1>3, <1>4, <1>5
-----------------------------------------------------------------------------
(* Two hook calls are one if they do the same.                             *)
LEMMA HookEqual ==
  \A d, w, e, x : Hook(d, w) = Hook(e, x) <=> d = e /\ w = x
  BY DEF Hook

(* What only a runbook with a destructive action has.                      *)
LEMMA InSection ==
  \A i \in 1..20 : PipelineHooks[i] \in HITLSection <=> i \in 14..16
<1>1. \A i \in 1..20 :
        PipelineHooks[i] \in HITLSection <=>
          \/ Do[i] = "status" /\ What[i] = "AWAITING_HITL"
          \/ Do[i] = "await" /\ What[i] = "decisions"
          \/ Do[i] = "execute" /\ What[i] = "approved"
  BY HookTable, HookEqual DEF HITLSection, Status
<1>2. \A i \in 1..20 :
        (\/ Do[i] = "status" /\ What[i] = "AWAITING_HITL"
         \/ Do[i] = "await" /\ What[i] = "decisions"
         \/ Do[i] = "execute" /\ What[i] = "approved") <=> i \in 14..16
  BY DEF Do, What
<1> QED
  BY <1>1, <1>2

(* The handler's two.                                                      *)
LEMMA HandlerTable ==
  /\ Len(ErrorHooks) = 2
  /\ ErrorHooks[1] = Trace("error") /\ ErrorHooks[2] = Status("ERROR")
  /\ \A i \in 1..2 : ErrorHooks[i] \notin HITLSection
<1>1. /\ Len(ErrorHooks) = 2
      /\ ErrorHooks[1] = Trace("error") /\ ErrorHooks[2] = Status("ERROR")
  BY DEF ErrorHooks
<1>2. Trace("error") \notin HITLSection /\ Status("ERROR") \notin HITLSection
  BY HookEqual DEF HITLSection, Status, Trace
<1> QED
  BY <1>1, <1>2

(* A set's least element, if it is known.                                  *)
LEMMA LeastIs ==
  ASSUME NEW S, S \subseteq Nat, NEW n \in S, \A j \in S : n <= j
  PROVE  (CHOOSE i \in S : \A j \in S : i <= j) = n
<1> DEFINE least == CHOOSE i \in S : \A j \in S : i <= j
<1>1. least \in S /\ \A j \in S : least <= j
  OBVIOUS
<1>2. least \in Nat /\ n \in Nat /\ n <= least /\ least <= n
  BY <1>1
<1> HIDE DEF least
<1>3. least = n
  BY <1>2
<1> QED
  BY <1>3 DEF least

(* To the next call, past the HITL section if nothing needs it.            *)
LEMMA AdvanceMain ==
  ASSUME run = "main", at \in 1..20, at \in 14..16 => destructive, Advance
  PROVE  /\ phase' = "apply"
         /\ at = 20 => run' = "done" /\ at' = at
         /\ at # 20 => /\ run' = "main" /\ at' \in 2..20
                       /\ at' = at + 1 \/ (at = 13 /\ at' = 17)
                       /\ at' \in 14..16 => destructive
<1> DEFINE later == {i \in (at + 1)..20 : destructive \/ i \notin 14..16}
<1>1. later = {i \in (at + 1)..Len(Hooks) : destructive \/ Hooks[i] \notin HITLSection}
  <2>1. Hooks = PipelineHooks
    BY DEF Hooks
  <2>2. \A i \in (at + 1)..20 : i \in 1..20
    OBVIOUS
  <2> QED
    BY <2>1, <2>2, HookTable, InSection
<1>2. /\ phase' = "apply"
      /\ IF later = {} THEN run' = "done" /\ at' = at
         ELSE run' = run /\ at' = CHOOSE i \in later : \A j \in later : i <= j
  <2> HIDE DEF later
  <2> QED
    BY <1>1 DEF Advance
<1>3. CASE at = 20
  <2>1. later = {}
    BY <1>3
  <2> HIDE DEF later
  <2> QED
    BY <1>2, <1>3, <2>1
<1>4. CASE at = 13 /\ ~destructive
  <2>1. later \subseteq Nat /\ 17 \in later /\ \A j \in later : 17 <= j
    BY <1>4
  <2> HIDE DEF later
  <2>2. (CHOOSE i \in later : \A j \in later : i <= j) = 17
    BY <2>1, LeastIs
  <2>3. at' = 17 /\ run' = run
    BY <1>2, <2>1, <2>2
  <2> QED
    BY <1>2, <1>4, <2>3
<1>5. CASE at # 20 /\ ~(at = 13 /\ ~destructive)
  <2>1. later \subseteq Nat /\ at + 1 \in later /\ \A j \in later : at + 1 <= j
    BY <1>5
  <2>2. at + 1 \in 2..20
    BY <1>5
  <2>3. at + 1 \in 14..16 => destructive
    BY <2>1
  <2> HIDE DEF later
  <2>4. (CHOOSE i \in later : \A j \in later : i <= j) = at + 1
    BY <2>1, LeastIs
  <2>5. at' = at + 1 /\ run' = run
    BY <1>2, <2>1, <2>4
  <2> QED
    BY <1>2, <1>5, <2>2, <2>3, <2>5
<1> QED
  BY <1>3, <1>4, <1>5

(* To the handler's second call, and to its end.                           *)
LEMMA AdvanceHandler ==
  ASSUME run = "handler", at \in 1..2, Advance
  PROVE  /\ phase' = "apply"
         /\ at = 1 => run' = "handler" /\ at' = 2
         /\ at = 2 => run' = "failed" /\ at' = at
<1> DEFINE later == {i \in (at + 1)..Len(Hooks) : destructive \/ Hooks[i] \notin HITLSection}
<1>1. later = (at + 1)..2
  <2>1. Hooks = ErrorHooks
    BY DEF Hooks
  <2>2. \A i \in (at + 1)..2 : i \in 1..2
    OBVIOUS
  <2> QED
    BY <2>1, <2>2, HandlerTable
<1>2. /\ phase' = "apply"
      /\ IF later = {} THEN run' = "failed" /\ at' = at
         ELSE run' = run /\ at' = CHOOSE i \in later : \A j \in later : i <= j
  <2> HIDE DEF later
  <2>1. IF later = {}
        THEN /\ run' = IF run = "handler" THEN "failed" ELSE "done"
             /\ phase' = "apply" /\ UNCHANGED at
        ELSE /\ at' = CHOOSE i \in later : \A j \in later : i <= j
             /\ phase' = "apply" /\ UNCHANGED run
    BY DEF Advance, later
  <2> QED
    BY <2>1
<1>3. CASE at = 1
  <2>1. later \subseteq Nat /\ 2 \in later /\ \A j \in later : 2 <= j
    BY <1>1, <1>3
  <2> HIDE DEF later
  <2>2. (CHOOSE i \in later : \A j \in later : i <= j) = 2
    BY <2>1, LeastIs
  <2>3. at' = 2 /\ run' = run
    BY <1>2, <2>1, <2>2
  <2> QED
    BY <1>2, <1>3, <2>3
<1>4. CASE at = 2
  <2>1. later = {}
    BY <1>1, <1>4
  <2> HIDE DEF later
  <2> QED
    BY <1>2, <1>4, <2>1
<1> QED
  BY <1>3, <1>4
-----------------------------------------------------------------------------
(* What a record's fields hold.                                            *)
AllResults == RangeOf(Stages) \cup {"pipeline_metadata"}
AllTraces == UNION {[1..n -> RangeOf(Stages) \cup {"error"}] : n \in 0..5}

LEMMA RecordsAre ==
  Records = [status : RangeOf(Rank), results : SUBSET AllResults, trace : AllTraces,
             reports : 0..1, ran : SUBSET {"safe", "approved"}, asking : BOOLEAN]
  BY DEF Records, AllResults, AllTraces

(* Only an incident has them.                                              *)
LEMMA SomethingOrNothing ==
  \A r \in Records :
    /\ r # Nothing /\ r.results \subseteq AllResults /\ r.trace \in AllTraces
    /\ r.asking \in BOOLEAN /\ r.status \in RangeOf(Rank)
<1> SUFFICES ASSUME NEW r \in Records
             PROVE  /\ r # Nothing /\ r.results \subseteq AllResults /\ r.trace \in AllTraces
                    /\ r.asking \in BOOLEAN /\ r.status \in RangeOf(Rank)
  OBVIOUS
<1>1. /\ r.results \subseteq AllResults /\ r.trace \in AllTraces
      /\ r.status \in RangeOf(Rank)
  BY RecordsAre
<1>2. r.asking \in BOOLEAN
  BY RecordsAre
<1>3. "none" \notin RangeOf(Rank)
  BY DEF RangeOf, Rank
<1>4. r # Nothing
  BY <1>1, <1>3 DEF Nothing
<1> QED
  BY <1>1, <1>2, <1>4

(* A trace has a length.                                                   *)
LEMMA TraceLength ==
  ASSUME NEW r \in Records PROVE Len(r.trace) \in Nat
<1>1. PICK n \in 0..5 : r.trace \in [1..n -> RangeOf(Stages) \cup {"error"}]
  BY SomethingOrNothing DEF AllTraces
<1>2. n \in Nat
  OBVIOUS
<1>3. r.trace \in Seq(RangeOf(Stages) \cup {"error"})
  BY <1>1, <1>2, SeqDef
<1> QED
  BY <1>3, LenProperties

(* A write leaves the results and the trace as they were, unless it is of  *)
(* them.                                                                   *)
Same(r, e) == e.results = r.results /\ e.trace = r.trace

(* So it is with the status, ...                                           *)
LEMMA StatusEdited ==
  ASSUME NEW r \in Records, NEW s \in RangeOf(Rank), NEW e, e = [r EXCEPT !.status = s]
  PROVE  e \in Records /\ e.status = s /\ Same(r, e) /\ e.asking = r.asking
<1>1. e \in Records
  BY RecordsAre
<1>2. e.status = s /\ Same(r, e) /\ e.asking = r.asking
  BY RecordsAre DEF Same
<1> QED
  BY <1>1, <1>2

(* ... the open requests, ...                                              *)
LEMMA AskingEdited ==
  ASSUME NEW r \in Records, NEW b \in BOOLEAN, NEW e, e = [r EXCEPT !.asking = b]
  PROVE  e \in Records /\ e.status = r.status /\ Same(r, e) /\ e.asking = b
<1>1. e \in Records
  BY RecordsAre
<1>2. e.status = r.status /\ Same(r, e)
  BY RecordsAre DEF Same
<1>3. e.asking = b
  BY RecordsAre, Zenon
<1> QED
  BY <1>1, <1>2, <1>3

(* ... the results, ...                                                    *)
LEMMA ResultEdited ==
  ASSUME NEW r \in Records, NEW k \in AllResults, NEW e, e = [r EXCEPT !.results = @ \cup {k}]
  PROVE  /\ e \in Records /\ e.status = r.status /\ e.asking = r.asking
         /\ e.trace = r.trace /\ e.results = r.results \cup {k}
<1>1. r.results \cup {k} \in SUBSET AllResults
  BY RecordsAre
<1>2. e \in Records
  BY <1>1, RecordsAre
<1>3. e.status = r.status /\ e.trace = r.trace /\ e.results = r.results \cup {k}
  BY RecordsAre
<1>4. e.asking = r.asking
  BY RecordsAre
<1> QED
  BY <1>2, <1>3, <1>4

(* ... the trace, ...                                                      *)
LEMMA TraceEdited ==
  ASSUME NEW r \in Records, NEW t \in AllTraces, NEW e, e = [r EXCEPT !.trace = t]
  PROVE  /\ e \in Records /\ e.status = r.status /\ e.asking = r.asking
         /\ e.trace = t /\ e.results = r.results
<1>1. e \in Records
  BY RecordsAre
<1>2. e.status = r.status /\ e.trace = t /\ e.results = r.results
  BY RecordsAre
<1>3. e.asking = r.asking
  BY RecordsAre
<1> QED
  BY <1>1, <1>2, <1>3

(* ... and what is executed or reported.                                   *)
LEMMA RestEdited ==
  ASSUME NEW r \in Records, NEW e,
         \/ e = [r EXCEPT !.reports = 1]
         \/ \E w \in {"safe", "approved"} : e = [r EXCEPT !.ran = @ \cup {w}]
  PROVE  e \in Records /\ e.status = r.status /\ Same(r, e) /\ e.asking = r.asking
<1>1. CASE e = [r EXCEPT !.reports = 1]
  <2>1. e \in Records
    BY <1>1, RecordsAre
  <2>2. e.status = r.status /\ Same(r, e) /\ e.asking = r.asking
    BY <1>1, RecordsAre DEF Same
  <2> QED
    BY <2>1, <2>2
<1>2. ASSUME NEW w \in {"safe", "approved"}, e = [r EXCEPT !.ran = @ \cup {w}]
      PROVE  e \in Records /\ e.status = r.status /\ Same(r, e) /\ e.asking = r.asking
  <2>1. r.ran \cup {w} \in SUBSET {"safe", "approved"}
    BY <1>2, RecordsAre
  <2>2. e \in Records
    BY <1>2, <2>1, RecordsAre
  <2>3. e.status = r.status /\ Same(r, e) /\ e.asking = r.asking
    BY <1>2, RecordsAre DEF Same
  <2> QED
    BY <2>2, <2>3
<1> QED
  BY <1>1, <1>2

(* The incident as it is created.                                          *)
LEMMA FreshIs ==
  /\ Fresh \in Records /\ Fresh.status = "TRIAGING" /\ Fresh.asking = FALSE
  /\ Fresh.results = ResultsBy(1) /\ Fresh.trace = TraceBy(1)
<1>1. Fresh.status = "TRIAGING" /\ Fresh.results = {} /\ Fresh.trace = <<>>
  BY DEF Fresh
<1>2. Fresh.asking = FALSE
  BY DEF Fresh
<1>3. "TRIAGING" \in RangeOf(Rank)
  BY DEF RangeOf, Rank
<1>4. <<>> \in AllTraces
  <2>1. <<>> \in [1..0 -> RangeOf(Stages) \cup {"error"}] /\ 0 \in 0..5
    OBVIOUS
  <2> QED
    BY <2>1 DEF AllTraces
<1>5. {} \subseteq AllResults /\ 0 \in 0..1 /\ {} \subseteq {"safe", "approved"} /\ FALSE \in BOOLEAN
  OBVIOUS
<1>6. Fresh \in Records
  BY <1>3, <1>4, <1>5, RecordsAre DEF Fresh
<1>7. ResultsBy(1) = {} /\ TraceBy(1) = <<>>
  BY DEF ResultsBy, TraceBy
<1> QED
  BY <1>1, <1>2, <1>6, <1>7

(* The pipeline's traces, and the handler's.                               *)
LEMMA TracesTyped ==
  /\ Traces = {<<>>, <<"triage">>, <<"triage", "diagnosis">>,
               <<"triage", "diagnosis", "runbook">>, Stages}
  /\ \A t \in Traces :
       /\ t \in Seq(RangeOf(Stages) \cup {"error"}) /\ Len(t) \in 0..4
       /\ t \in AllTraces /\ Append(t, "error") \in AllTraces
       /\ Len(Append(t, "error")) = Len(t) + 1
<1>1. Traces = {<<>>, <<"triage">>, <<"triage", "diagnosis">>,
                <<"triage", "diagnosis", "runbook">>, Stages}
  <2>1. \A n \in 0..20 : TraceBy(n) \in {<<>>, <<"triage">>, <<"triage", "diagnosis">>,
                                         <<"triage", "diagnosis", "runbook">>, Stages}
    BY DEF TraceBy, Stages
  <2>2. /\ TraceBy(0) = <<>> /\ TraceBy(5) = <<"triage">> /\ TraceBy(9) = <<"triage", "diagnosis">>
        /\ TraceBy(12) = <<"triage", "diagnosis", "runbook">> /\ TraceBy(20) = Stages
    BY DEF TraceBy, Stages
  <2>3. 0 \in 0..20 /\ 5 \in 0..20 /\ 9 \in 0..20 /\ 12 \in 0..20 /\ 20 \in 0..20
    OBVIOUS
  <2> QED
    BY <2>1, <2>2, <2>3 DEF Traces
<1> DEFINE A == RangeOf(Stages) \cup {"error"}
<1>2. \A k \in {"triage", "diagnosis", "runbook", "rca", "error"} : k \in A
  BY DEF RangeOf, Stages
<1> HIDE DEF A
<1>3. ASSUME NEW t \in Traces
      PROVE  \E n \in 0..4 : t \in [1..n -> A] /\ Len(t) = n
  <2>1. CASE t = <<>>
    <3>1. t \in [1..0 -> A] /\ Len(t) = 0
      BY <2>1
    <3> QED
      BY <3>1
  <2>2. CASE t = <<"triage">>
    <3>1. t \in [1..1 -> A] /\ Len(t) = 1
      BY <1>2, <2>2
    <3> QED
      BY <3>1
  <2>3. CASE t = <<"triage", "diagnosis">>
    <3>1. t \in [1..2 -> A] /\ Len(t) = 2
      BY <1>2, <2>3
    <3> QED
      BY <3>1
  <2>4. CASE t = <<"triage", "diagnosis", "runbook">>
    <3>1. t \in [1..3 -> A] /\ Len(t) = 3
      BY <1>2, <2>4
    <3> QED
      BY <3>1
  <2>5. CASE t = Stages
    <3>1. t \in [1..4 -> A] /\ Len(t) = 4
      BY <1>2, <2>5 DEF Stages
    <3> QED
      BY <3>1
  <2> QED
    BY <1>1, <2>1, <2>2, <2>3, <2>4, <2>5
<1>4. ASSUME NEW t \in Traces
      PROVE  /\ t \in Seq(A) /\ Len(t) \in 0..4
             /\ t \in AllTraces /\ Append(t, "error") \in AllTraces
             /\ Len(Append(t, "error")) = Len(t) + 1
  <2>1. PICK n \in 0..4 : t \in [1..n -> A] /\ Len(t) = n
    BY <1>3
  <2>2. "error" \in A /\ n \in Nat
    BY <1>2
  <2>3. t \in Seq(A)
    BY <2>1, <2>2, SeqDef
  <2>4. Append(t, "error") \in Seq(A) /\ Len(Append(t, "error")) = n + 1
    BY <2>1, <2>2, <2>3, AppendProperties
  <2>5. Append(t, "error") \in [1..(n + 1) -> A]
    BY <2>4, LenProperties
  <2>6. n \in 0..5 /\ n + 1 \in 0..5
    OBVIOUS
  <2> QED
    BY <2>1, <2>3, <2>4, <2>5, <2>6 DEF AllTraces, A
<1> QED
  BY <1>1, <1>4 DEF A
-----------------------------------------------------------------------------
(* How many of run_pipeline's hook calls have changed the incident.        *)
Passed == IF run = "main" /\ phase = "apply" THEN at - 1 ELSE at

(* A copy that may be shown.                                               *)
Complete(view) ==
  view.status = "RESOLVED" =>
    /\ RangeOf(Stages) \subseteq view.results
    /\ view.trace \in {Stages, Append(Stages, "error")}
    /\ ~view.asking

(* Where each task can be.                                                 *)
InRange ==
  /\ run = "handler" => at \in 1..2
  /\ run = "done" => at = 20 /\ phase = "apply"
  /\ run = "main" => /\ at \in 14..16 => destructive
                     /\ phase \in {"announce", "wait"} => at = 15
                     /\ at = 15 => phase \in {"apply", "announce", "wait", "publish"}
  /\ resetter = "clearing" => wasReset

(* There is an incident from the first call to the end of the process, and *)
(* no snapshot before.                                                     *)
Born ==
  /\ live = Nothing <=> run = "gone" \/ (run = "main" /\ at = 1 /\ phase = "apply")
  /\ live = Nothing /\ run # "gone" => snap = Nothing

(* Until something raises, the incident is what the calls made it.         *)
Ordered ==
  run \in {"main", "done"} /\ live # Nothing =>
    /\ live.results = ResultsBy(Passed) /\ live.trace = TraceBy(Passed)
    /\ live.status = "RESOLVED" => Passed = 20
    /\ live.asking => run = "main" /\ at = 15 /\ phase \in {"announce", "wait"}

(* The handler adds its own trace step, once.                              *)
Failed ==
  run \in {"handler", "failed", "died"} =>
    /\ live.trace \in Traces \cup {Append(t, "error") : t \in Traces}
    /\ run = "handler" /\ at = 1 /\ phase = "apply" =>
         live.trace \in Traces /\ (live.status = "RESOLVED" => live.trace = Stages)

(* Every copy may be shown, and the snapshot is not ahead of the incident. *)
Copies ==
  /\ Complete(live) /\ Complete(snap) /\ Complete(restored)
  /\ snap # Nothing /\ live # Nothing =>
       snap.results \subseteq live.results /\ Len(snap.trace) <= Len(live.trace)

(* The snapshot has what the incident has.                                 *)
InRedis == snap # Nothing /\ snap.results = live.results /\ snap.trace = live.trace

(* It does after each call that saves, and during those that do not.       *)
Durable ==
  /\ run \in {"main", "done"} /\ at > 1 /\ saved /\ (phase = "apply" \/ at = 15) => InRedis /\ indexed
  /\ run = "main" /\ phase = "index" => InRedis

(* From the last call on, the status stays, and the last snapshot is all.  *)
Kept ==
  ~wasReset =>
    /\ run = "main" /\ at = 20 /\ phase # "apply" => live.status = "RESOLVED"
    /\ run = "main" /\ at = 20 /\ phase = "index" => snap = live
    /\ run = "done" /\ saved => indexed /\ snap = live /\ live.status = "RESOLVED"

(* The inductive invariant.                                                *)
Rules == InRange /\ Born /\ Ordered /\ Failed /\ Copies /\ Durable /\ Kept

IInv == TypeOK /\ Rules
-----------------------------------------------------------------------------
(* What the type says, with the hooks counted.                             *)
LEMMA Ranges ==
  ASSUME TypeOK
  PROVE  /\ live \in Records \cup {Nothing} /\ snap \in Records \cup {Nothing}
         /\ restored \in Records \cup {Nothing}
         /\ at \in 1..20 /\ Passed \in 0..20
  BY HookTable DEF TypeOK, Passed

(* The state of the loop's steps.                                          *)
LEMMA RunningLive ==
  ASSUME IInv, Running, ~(run = "main" /\ at = 1 /\ phase = "apply")
  PROVE  live \in Records /\ live # Nothing
<1>1. live # Nothing
  BY DEF IInv, Rules, Born, Running
<1> QED
  BY <1>1, Ranges DEF IInv

(* Nothing happens between the hook calls of the HITL section but that.    *)
LEMMA TablesFlat ==
  /\ ResultsBy(16) = ResultsBy(13) /\ TraceBy(16) = TraceBy(13)
  /\ ResultsBy(20) = AllResults /\ TraceBy(20) = Stages
<1>1. ResultsBy(16) = ResultsBy(13)
  BY DEF ResultsBy
<1>2. TraceBy(16) = TraceBy(13) /\ TraceBy(20) = Stages
  BY DEF TraceBy, Stages
<1>3. AllResults = {"pipeline_metadata", "triage", "diagnosis", "runbook", "rca"}
  BY DEF AllResults, RangeOf, Stages
<1>4. ResultsBy(20) = {"pipeline_metadata", "triage", "diagnosis", "runbook", "rca"}
  BY DEF ResultsBy
<1> QED
  BY <1>1, <1>2, <1>3, <1>4

(* An exception in the pipeline or the handler.                            *)
LEMMA RaiseKeeps ==
  ASSUME IInv, Running, phase # "apply", Raise,
         UNCHANGED <<live, redisVars, resetter, destructive, wasReset>>
  PROVE  Rules'
<1> USE DEF redisVars
<1>1. /\ at' = 1 /\ phase' = "apply" /\ live' = live /\ snap' = snap /\ restored' = restored
      /\ run = "main" => run' = "handler"
      /\ run = "handler" => run' = "died"
      /\ run' # "main" /\ run' # "done" /\ run' # "gone"
  BY DEF Raise, Running
<1>2. live \in Records /\ live # Nothing
  BY RunningLive
<1>3. InRange'
  BY <1>1 DEF IInv, Rules, InRange
<1>4. Born'
  BY <1>1, <1>2 DEF Born
<1>5. Ordered' /\ Durable'
  BY <1>1 DEF Ordered, Durable
<1>6. Kept'
  BY <1>1 DEF Kept
<1>7. Copies'
  BY <1>1 DEF IInv, Rules, Copies
<1>8. Failed'
  <2>1. CASE run = "main"
    <3>1. live.trace = TraceBy(Passed) /\ (live.status = "RESOLVED" => Passed = 20)
      BY <1>2, <2>1 DEF IInv, Rules, Ordered
    <3>2. live.trace \in Traces
      BY <3>1, Ranges DEF Traces, IInv
    <3>3. live.status = "RESOLVED" => live.trace = Stages
      BY <3>1, TablesFlat
    <3> QED
      BY <1>1, <2>1, <3>2, <3>3 DEF Failed
  <2>2. CASE run = "handler"
    BY <1>1, <2>2 DEF IInv, Rules, Failed
  <2> QED
    BY <2>1, <2>2 DEF Running
<1> QED
  BY <1>3, <1>4, <1>5, <1>6, <1>7, <1>8 DEF Rules

(* A hook call that is over.                                               *)
LEMMA AdvanceKeeps ==
  ASSUME IInv, Running, phase \in {"publish", "save", "index"}, Advance,
         UNCHANGED <<live, snap, restored, resetter, destructive, wasReset>>,
         run = "main" /\ saved' => InRedis /\ indexed',
         run = "main" /\ at = 20 /\ ~wasReset /\ saved' => snap = live
  PROVE  Rules' /\ at' \in 1..20
<1>1. live \in Records /\ live # Nothing /\ at \in 1..20
  BY RunningLive, Ranges DEF IInv
<1>2. CASE run = "main"
  <2>1. /\ phase' = "apply"
        /\ at = 20 => run' = "done" /\ at' = at
        /\ at # 20 => /\ run' = "main" /\ at' \in 2..20
                      /\ at' = at + 1 \/ (at = 13 /\ at' = 17)
                      /\ at' \in 14..16 => destructive
    BY <1>1, <1>2, AdvanceMain DEF IInv, Rules, InRange
  <2>2. at' \in 1..20
    BY <1>1, <2>1
  <2>3. Passed = at
    BY <1>2 DEF Passed
  <2>4. /\ live.results = ResultsBy(at) /\ live.trace = TraceBy(at)
        /\ live.status = "RESOLVED" => at = 20
        /\ live.asking => at = 15 /\ phase \in {"announce", "wait"}
    BY <1>1, <1>2, <2>3 DEF IInv, Rules, Ordered
  <2>5. ResultsBy(Passed') = ResultsBy(at) /\ TraceBy(Passed') = TraceBy(at)
        /\ (at = 20 => Passed' = 20)
    <3>1. CASE at = 20
      BY <2>1, <3>1 DEF Passed
    <3>2. CASE at = 13 /\ at' = 17
      <4>1. Passed' = 16
        BY <2>1, <3>2 DEF Passed
      <4> QED
        BY <3>2, <4>1, TablesFlat
    <3>3. CASE at # 20 /\ at' = at + 1
      <4>1. Passed' = at
        BY <1>1, <2>1, <3>3 DEF Passed
      <4> QED
        BY <3>3, <4>1
    <3> QED
      BY <2>1, <3>1, <3>2, <3>3
  <2>6. InRange'
    BY <1>1, <2>1 DEF IInv, Rules, InRange
  <2>7. Born'
    BY <1>1, <2>1 DEF Born
  <2>8. Ordered'
    <3>1. ~live.asking
      BY <2>4
    <3> QED
      BY <2>4, <2>5, <3>1 DEF Ordered
  <2>9. Failed'
    BY <2>1 DEF Failed
  <2>10. Copies'
    BY DEF IInv, Rules, Copies
  <2>11. Durable'
    BY <1>2, <2>1 DEF Durable, InRedis
  <2>12. Kept'
    <3>1. at = 20 /\ ~wasReset => live.status = "RESOLVED"
      BY <1>2 DEF IInv, Rules, Kept
    <3> QED
      BY <1>2, <2>1, <3>1 DEF Kept
  <2> QED
    BY <2>2, <2>6, <2>7, <2>8, <2>9, <2>10, <2>11, <2>12 DEF Rules
<1>3. CASE run = "handler"
  <2>1. /\ phase' = "apply"
        /\ run' \in {"handler", "failed"} /\ at' \in 1..2 /\ at' # 1
    BY <1>3, AdvanceHandler DEF IInv, Rules, InRange
  <2>2. InRange'
    BY <2>1 DEF IInv, Rules, InRange
  <2>3. Born'
    BY <1>1, <2>1 DEF Born
  <2>4. Ordered' /\ Durable' /\ Kept'
    BY <2>1 DEF Ordered, Durable, Kept
  <2>5. Copies'
    BY DEF IInv, Rules, Copies
  <2>6. Failed'
    BY <1>3, <2>1 DEF IInv, Rules, Failed
  <2>7. at' \in 1..20
    BY <2>1
  <2> QED
    BY <2>2, <2>3, <2>4, <2>5, <2>6, <2>7 DEF Rules
<1> QED
  BY <1>2, <1>3 DEF Running

(* A hook call that goes on.                                               *)
LEMMA StandKeeps ==
  ASSUME IInv, Running,
         \/ phase = "announce" /\ phase' = "wait"
         \/ phase = "publish" /\ phase' = "save" /\ (run = "main" => at # 15),
         UNCHANGED <<live, redisVars, run, at, resetter, destructive, wasReset>>,
         saved' => saved
  PROVE  Rules'
<1> USE DEF redisVars
<1>1. live \in Records /\ live # Nothing /\ at \in 1..20
  BY RunningLive, Ranges DEF IInv
<1>2. InRange'
  BY DEF IInv, Rules, InRange
<1>3. Born'
  BY <1>1 DEF IInv, Rules, Born
<1>4. Ordered'
  <2>1. SUFFICES ASSUME run = "main" PROVE Ordered'
    BY DEF Ordered, Running
  <2>2. Passed = at /\ Passed' = at
    BY <2>1 DEF Passed
  <2>3. /\ live.results = ResultsBy(at) /\ live.trace = TraceBy(at)
        /\ live.status = "RESOLVED" => at = 20
        /\ live.asking => at = 15 /\ phase \in {"announce", "wait"}
    BY <1>1, <2>1, <2>2 DEF IInv, Rules, Ordered
  <2> QED
    BY <2>1, <2>2, <2>3 DEF Ordered
<1>5. Failed'
  BY DEF IInv, Rules, Failed, Running
<1>6. Copies'
  BY DEF IInv, Rules, Copies
<1>7. Durable'
  BY DEF IInv, Rules, Durable, InRedis, Running
<1>8. Kept'
  BY DEF IInv, Rules, Kept, Running
<1> QED
  BY <1>2, <1>3, <1>4, <1>5, <1>6, <1>7, <1>8 DEF Rules
-----------------------------------------------------------------------------
(* Where the loop's hook call is.                                          *)
LEMMA HereIs ==
  ASSUME IInv
  PROVE  /\ run = "main" => Here = Hook(Do[at], What[at]) /\ at \in 1..20
         /\ run = "handler" =>
              /\ at \in 1..2
              /\ Here = IF at = 1 THEN Hook("trace", "error") ELSE Hook("status", "ERROR")
<1>1. ASSUME run = "main" PROVE Here = Hook(Do[at], What[at]) /\ at \in 1..20
  <2>1. at \in 1..20 /\ Hooks = PipelineHooks
    BY <1>1, Ranges DEF IInv, Hooks
  <2> QED
    BY <2>1, HookTable DEF Here
<1>2. ASSUME run = "handler"
      PROVE  /\ at \in 1..2
             /\ Here = IF at = 1 THEN Hook("trace", "error") ELSE Hook("status", "ERROR")
  <2>1. at \in 1..2 /\ Hooks = ErrorHooks
    BY <1>2 DEF IInv, Rules, InRange, Hooks
  <2> QED
    BY <2>1, HandlerTable DEF Here, Trace, Status
<1> QED
  BY <1>1, <1>2

(* What the hook call of run_pipeline makes of the incident.               *)
LEMMA AppliedMain ==
  ASSUME IInv, run = "main", phase = "apply",
         \/ live' = Applied(Here)
         \/ Here = Hook("execute", "approved") /\ UNCHANGED live
  PROVE  /\ live' \in Records
         /\ live'.results = ResultsBy(at) /\ live'.trace = TraceBy(at)
         /\ live'.status = "RESOLVED" <=> at = 20
         /\ live'.asking => at = 15
         /\ at # 1 => live \in Records /\ live.results \subseteq live'.results
                      /\ Len(live.trace) <= Len(live'.trace)
         /\ at # 1 /\ Do[at] \notin {"result", "trace"} => Same(live, live')
<1> DEFINE h == Hook(Do[at], What[at])
<1>1. /\ at \in 1..20 /\ Here = h /\ h.do = Do[at] /\ h.what = What[at]
  BY HereIs DEF Hook
<1>2. CASE at = 1
  <2>1. Do[at] = "create"
    BY <1>1, <1>2, HookKinds
  <2>2. live' = Fresh
    BY <1>1, <2>1, HookEqual DEF Applied
  <2> QED
    BY <1>2, <2>1, <2>2, FreshIs
<1>3. CASE at # 1
  <2>1. live \in Records /\ live # Nothing
    BY <1>3, RunningLive DEF Running
  <2>2. /\ live.results = ResultsBy(at - 1) /\ live.trace = TraceBy(at - 1)
        /\ live.status = "RESOLVED" => at - 1 = 20
        /\ ~live.asking
    BY <1>3, <2>1 DEF IInv, Rules, Ordered, Passed
  <2>3. live.status # "RESOLVED"
    BY <1>1, <2>2
  <2>10. /\ live.trace \in Traces /\ TraceBy(at) \in Traces
         /\ Len(live.trace) \in Nat /\ Len(TraceBy(at)) \in Nat
    <3>1. at - 1 \in 0..20 /\ at \in 0..20
      BY <1>1
    <3>2. live.trace \in Traces /\ TraceBy(at) \in Traces
      BY <2>2, <3>1 DEF Traces
    <3> QED
      BY <3>2, TracesTyped
  <2>4. CASE Do[at] = "status"
    <3>1. live' = [live EXCEPT !.status = What[at]]
      BY <1>1, <2>4, HookEqual DEF Applied
    <3>2. What[at] \in RangeOf(Rank) /\ (What[at] = "RESOLVED" <=> at = 20)
      BY <1>1, <2>4, HookKinds
    <3>3. /\ live' \in Records /\ live'.status = What[at] /\ Same(live, live')
          /\ live'.asking = live.asking
      BY <2>1, <3>1, <3>2, StatusEdited
    <3>4. ResultsBy(at) = ResultsBy(at - 1) /\ TraceBy(at) = TraceBy(at - 1)
      BY <1>1, <2>4, HookAdds
    <3> QED
      BY <1>3, <2>1, <2>2, <2>4, <2>10, <3>2, <3>3, <3>4 DEF Same
  <2>5. CASE Do[at] = "result"
    <3>1. live' = [live EXCEPT !.results = @ \cup {What[at]}]
      BY <1>1, <2>5, HookEqual DEF Applied
    <3>2. What[at] \in AllResults /\ at # 20
      BY <1>1, <2>5, HookKinds DEF AllResults
    <3>3. /\ live' \in Records /\ live'.status = live.status /\ live'.asking = live.asking
          /\ live'.trace = live.trace /\ live'.results = live.results \cup {What[at]}
      BY <2>1, <3>1, <3>2, ResultEdited
    <3>4. ResultsBy(at) = ResultsBy(at - 1) \cup {What[at]} /\ TraceBy(at) = TraceBy(at - 1)
      BY <1>1, <2>5, HookAdds
    <3> QED
      BY <1>3, <2>1, <2>2, <2>3, <2>5, <2>10, <3>2, <3>3, <3>4
  <2>6. CASE Do[at] = "trace"
    <3>1. live' = [live EXCEPT !.trace = Append(@, What[at])]
      BY <1>1, <2>6, HookEqual DEF Applied
    <3>2. What[at] \in RangeOf(Stages) /\ at # 20
      BY <1>1, <2>6, HookKinds
    <3>3. ResultsBy(at) = ResultsBy(at - 1) /\ TraceBy(at) = Append(TraceBy(at - 1), What[at])
      BY <1>1, <2>6, HookAdds
    <3>4. Append(live.trace, What[at]) \in AllTraces
      BY <1>1, <2>2, <3>3, <2>10, TracesTyped
    <3>5. /\ live' \in Records /\ live'.status = live.status /\ live'.asking = live.asking
          /\ live'.trace = Append(live.trace, What[at]) /\ live'.results = live.results
      <4> DEFINE t == Append(live.trace, What[at])
      <4>1. t \in AllTraces /\ live' = [live EXCEPT !.trace = t]
        BY <3>1, <3>4
      <4> HIDE DEF t
      <4>2. /\ live' \in Records /\ live'.status = live.status /\ live'.asking = live.asking
            /\ live'.trace = t /\ live'.results = live.results
        BY <2>1, <4>1, TraceEdited
      <4> QED
        BY <4>2 DEF t
    <3>6. Len(live'.trace) = Len(live.trace) + 1
      BY <2>2, <2>10, <3>2, <3>5, TracesTyped, AppendProperties
    <3> QED
      BY <1>3, <2>1, <2>2, <2>3, <2>6, <2>10, <3>2, <3>3, <3>5, <3>6
  <2>7. CASE Do[at] \in {"report", "execute"}
    <3>1. \/ live' = [live EXCEPT !.reports = 1]
          \/ Do[at] = "execute" /\ live' = [live EXCEPT !.ran = @ \cup {What[at]}]
          \/ live' = live
      BY <1>1, <2>7, HookEqual DEF Applied
    <3>2. at # 20 /\ (Do[at] = "execute" => What[at] \in {"safe", "approved"})
      BY <1>1, <2>7, HookKinds
    <3>3. /\ live' \in Records /\ live'.status = live.status /\ Same(live, live')
          /\ live'.asking = live.asking
      <4>1. CASE live' = live
        BY <2>1, <4>1 DEF Same
      <4>2. CASE \/ live' = [live EXCEPT !.reports = 1]
                 \/ \E w \in {"safe", "approved"} : live' = [live EXCEPT !.ran = @ \cup {w}]
        BY <2>1, <4>2, RestEdited
      <4> QED
        BY <3>1, <3>2, <4>1, <4>2
    <3>4. ResultsBy(at) = ResultsBy(at - 1) /\ TraceBy(at) = TraceBy(at - 1)
      BY <1>1, <2>7, HookAdds
    <3> QED
      BY <1>3, <2>1, <2>2, <2>3, <2>7, <2>10, <3>2, <3>3, <3>4 DEF Same
  <2>8. CASE Do[at] = "await"
    <3>1. live' = [live EXCEPT !.asking = TRUE]
      BY <1>1, <2>8, HookEqual DEF Applied
    <3>2. at = 15
      BY <1>1, <2>8, HookKinds
    <3>3. live' \in Records /\ live'.status = live.status /\ Same(live, live')
      BY <2>1, <3>1, AskingEdited
    <3>4. ResultsBy(at) = ResultsBy(at - 1) /\ TraceBy(at) = TraceBy(at - 1)
      BY <1>1, <2>8, HookAdds
    <3> QED
      BY <1>3, <2>1, <2>2, <2>3, <2>8, <2>10, <3>2, <3>3, <3>4 DEF Same
  <2> QED
    BY <1>1, <1>3, <2>4, <2>5, <2>6, <2>7, <2>8, HookKinds
<1> QED
  BY <1>2, <1>3
-----------------------------------------------------------------------------
(* The pipeline's hook calls, as far as the store.                         *)
LEMMA ApplyMainKeeps ==
  ASSUME IInv, run = "main", Apply
  PROVE  Rules' /\ live' \in Records /\ at' \in 1..20
<1>1. /\ phase = "apply" /\ UNCHANGED <<snap, indexed, restored, saved, resetter, destructive, wasReset>>
      /\ \/ live' = Applied(Here)
         \/ Here = Hook("execute", "approved") /\ UNCHANGED live
  BY DEF Apply, LoopOnly, redisVars, givenVars
<1>2. /\ at \in 1..20 /\ Here = Hook(Do[at], What[at])
      /\ Here.do = Do[at] /\ Here.what = What[at]
  BY HereIs DEF Hook
<1>3. /\ live' \in Records
      /\ live'.results = ResultsBy(at) /\ live'.trace = TraceBy(at)
      /\ live'.status = "RESOLVED" <=> at = 20
      /\ live'.asking => at = 15
      /\ at # 1 => live \in Records /\ live.results \subseteq live'.results
                   /\ Len(live.trace) <= Len(live'.trace)
      /\ at # 1 /\ Do[at] \notin {"result", "trace"} => Same(live, live')
  BY <1>1, AppliedMain
<1>4. live' # Nothing
  BY <1>3, SomethingOrNothing
<1>5. /\ Do[at] \in {"create", "status", "result"} => phase' = "publish" /\ run' = run /\ at' = at
      /\ Do[at] = "trace" => phase' = "save" /\ run' = run /\ at' = at
      /\ Do[at] = "await" => phase' = "announce" /\ run' = run /\ at' = at
      /\ Do[at] \in {"report", "execute"} => Advance
  BY <1>2 DEF Apply, Summarises
<1>6. /\ Do[at] \in {"create", "status", "result", "trace", "report", "execute", "await"}
      /\ Do[at] = "create" <=> at = 1
      /\ Do[at] = "await" <=> at = 15
      /\ at = 20 => Do[at] = "status"
  BY <1>2, HookKinds
<1>7. Do[at] \in {"report", "execute"} =>
        /\ at \in {8, 13, 16} /\ phase' = "apply" /\ run' = "main" /\ at' \in 2..20 /\ at' # 20
        /\ at' = at + 1 \/ (at = 13 /\ at' = 17)
        /\ at' \in 14..16 => destructive
  <2>1. ASSUME Do[at] \in {"report", "execute"} PROVE at \in {8, 13, 16}
    BY <1>2, <2>1 DEF Do
  <2>2. at \in 14..16 => destructive
    BY DEF IInv, Rules, InRange
  <2> QED
    BY <1>2, <1>5, <2>1, <2>2, AdvanceMain
<1>8. /\ run' = "main" /\ at' \in 1..20 /\ ~(at' = 1 /\ phase' = "apply")
      /\ ResultsBy(Passed') = ResultsBy(at) /\ TraceBy(Passed') = TraceBy(at)
      /\ at = 20 => Passed' = 20
  <2>1. CASE Do[at] \notin {"report", "execute"}
    <3>1. run' = "main" /\ at' = at /\ phase' # "apply"
      BY <1>5, <1>6, <2>1
    <3>2. Passed' = at
      BY <3>1 DEF Passed
    <3> QED
      BY <1>2, <3>1, <3>2
  <2>2. CASE Do[at] \in {"report", "execute"}
    <3>1. Passed' = at' - 1
      BY <1>7, <2>2 DEF Passed
    <3>2. CASE at' = at + 1
      BY <1>2, <1>7, <2>2, <3>1, <3>2
    <3>3. CASE at = 13 /\ at' = 17
      BY <1>7, <2>2, <3>1, <3>3, TablesFlat
    <3> QED
      BY <1>7, <2>2, <3>2, <3>3
  <2> QED
    BY <2>1, <2>2
<1>9. InRange'
  <2>1. at' \in 14..16 => destructive'
    BY <1>1, <1>5, <1>6, <1>7 DEF IInv, Rules, InRange
  <2>2. phase' \in {"announce", "wait"} => at' = 15
    BY <1>5, <1>6, <1>7
  <2>3. at' = 15 => phase' \in {"apply", "announce", "wait", "publish"}
    BY <1>5, <1>6, <1>7
  <2>4. resetter' = "clearing" => wasReset'
    BY <1>1 DEF IInv, Rules, InRange
  <2> QED
    BY <1>8, <2>1, <2>2, <2>3, <2>4 DEF InRange
<1>10. Born'
  BY <1>4, <1>8 DEF Born
<1>11. Ordered'
  <2>1. live'.asking => phase' = "announce" /\ at' = 15
    BY <1>3, <1>5, <1>6
  <2> QED
    BY <1>3, <1>8, <2>1 DEF Ordered
<1>12. Failed'
  BY <1>8 DEF Failed
<1>13. Copies'
  <2>1. Complete(live')
    <3>1. ASSUME live'.status = "RESOLVED"
          PROVE  RangeOf(Stages) \subseteq live'.results /\ live'.trace = Stages /\ ~live'.asking
      BY <1>3, <3>1, TablesFlat DEF AllResults
    <3> QED
      BY <3>1 DEF Complete
  <2>2. Complete(snap) /\ Complete(restored)
    BY DEF IInv, Rules, Copies
  <2>3. ASSUME snap # Nothing
        PROVE  snap.results \subseteq live'.results /\ Len(snap.trace) <= Len(live'.trace)
    <3>1. at # 1
      <4>1. CASE at = 1
        <5>1. live = Nothing
          BY <1>1, <4>1 DEF IInv, Rules, Born
        <5> QED
          BY <2>3, <5>1 DEF IInv, Rules, Born
      <4> QED
        BY <4>1
    <3>2. live \in Records /\ live # Nothing
      BY <1>3, <3>1, SomethingOrNothing
    <3>3. snap.results \subseteq live.results /\ Len(snap.trace) <= Len(live.trace)
      BY <2>3, <3>2 DEF IInv, Rules, Copies
    <3>4. snap \in Records
      BY <2>3, Ranges DEF IInv
    <3>5. Len(snap.trace) \in Nat /\ Len(live.trace) \in Nat /\ Len(live'.trace) \in Nat
      BY <1>3, <3>2, <3>4, TraceLength
    <3> QED
      BY <1>3, <3>1, <3>3, <3>5
  <2> QED
    BY <1>1, <2>1, <2>2, <2>3 DEF Copies
<1>14. Durable'
  <2>1. phase' # "index"
    BY <1>5, <1>6, <1>7
  <2>2. ASSUME at' > 1, saved, phase' = "apply" \/ at' = 15 PROVE (InRedis /\ indexed)'
    <3>1. at # 1 /\ Do[at] \notin {"result", "trace"}
      BY <1>5, <1>6, <1>7, <2>2
    <3>2. InRedis /\ indexed
      BY <1>1, <1>2, <2>2, <3>1 DEF IInv, Rules, Durable
    <3> QED
      BY <1>1, <1>3, <3>1, <3>2 DEF InRedis, Same
  <2> QED
    BY <1>1, <1>8, <2>1, <2>2 DEF Durable
<1>15. Kept'
  <2>1. phase' # "index" /\ run' # "done"
    BY <1>5, <1>6, <1>7
  <2>2. at' = 20 /\ phase' # "apply" => live'.status = "RESOLVED"
    BY <1>3, <1>5, <1>6, <1>7
  <2> QED
    BY <2>1, <2>2 DEF Kept
<1> QED
  BY <1>3, <1>8, <1>9, <1>10, <1>11, <1>12, <1>13, <1>14, <1>15 DEF Rules
-----------------------------------------------------------------------------
(* The handler's hook calls, as far as the store.                          *)
LEMMA ApplyHandlerKeeps ==
  ASSUME IInv, run = "handler", Apply
  PROVE  Rules' /\ live' \in Records /\ at' \in 1..20
<1>1. /\ phase = "apply"
      /\ UNCHANGED <<snap, indexed, restored, saved, resetter, destructive, wasReset>>
  BY DEF Apply, LoopOnly, redisVars, givenVars
<1>2. /\ at \in 1..2
      /\ Here = IF at = 1 THEN Hook("trace", "error") ELSE Hook("status", "ERROR")
  BY HereIs
<1>3. live \in Records /\ live # Nothing
  BY RunningLive DEF Running
<1>4. /\ Here # Hook("execute", "approved") /\ live' = Applied(Here)
      /\ IF at = 1 THEN Here.do = "trace" /\ Here.what = "error"
         ELSE Here.do = "status" /\ Here.what = "ERROR"
  <2>1. Here # Hook("execute", "approved")
    BY <1>2, HookEqual
  <2>2. IF at = 1 THEN Here.do = "trace" /\ Here.what = "error"
        ELSE Here.do = "status" /\ Here.what = "ERROR"
    BY <1>2 DEF Hook
  <2> QED
    BY <2>1, <2>2 DEF Apply
<1>5. phase' = (IF at = 1 THEN "save" ELSE "publish") /\ run' = run /\ at' = at
  BY <1>2, <1>4 DEF Apply, Summarises
<1>6. live.trace \in Traces \cup {Append(t, "error") : t \in Traces}
  BY DEF IInv, Rules, Failed
<1>7. /\ live' \in Records /\ live'.results = live.results /\ live'.asking = live.asking
      /\ live'.trace \in Traces \cup {Append(t, "error") : t \in Traces}
      /\ Len(live.trace) <= Len(live'.trace)
      /\ live'.status = "RESOLVED" =>
           live.status = "RESOLVED" /\ live'.trace \in {Stages, Append(Stages, "error")}
  <2>1. Len(live.trace) \in Nat
    BY <1>3, TraceLength
  <2>2. CASE at = 1
    <3>1. live' = [live EXCEPT !.trace = Append(@, "error")]
      BY <1>4, <2>2 DEF Applied
    <3>2. live.trace \in Traces /\ (live.status = "RESOLVED" => live.trace = Stages)
      BY <1>1, <2>2 DEF IInv, Rules, Failed
    <3>3. /\ Append(live.trace, "error") \in AllTraces
          /\ Len(Append(live.trace, "error")) = Len(live.trace) + 1
      BY <3>2, TracesTyped
    <3>4. /\ live' \in Records /\ live'.status = live.status /\ live'.asking = live.asking
          /\ live'.trace = Append(live.trace, "error") /\ live'.results = live.results
      <4> DEFINE t == Append(live.trace, "error")
      <4>1. t \in AllTraces /\ live' = [live EXCEPT !.trace = t]
        BY <3>1, <3>3
      <4> HIDE DEF t
      <4>2. /\ live' \in Records /\ live'.status = live.status /\ live'.asking = live.asking
            /\ live'.trace = t /\ live'.results = live.results
        BY <1>3, <4>1, TraceEdited
      <4> QED
        BY <4>2 DEF t
    <3> QED
      BY <2>1, <3>2, <3>3, <3>4
  <2>3. CASE at # 1
    <3>1. live' = [live EXCEPT !.status = "ERROR"]
      BY <1>4, <2>3 DEF Applied
    <3>2. "ERROR" \in RangeOf(Rank)
      BY DEF RangeOf, Rank
    <3>3. /\ live' \in Records /\ live'.status = "ERROR" /\ Same(live, live')
          /\ live'.asking = live.asking
      BY <1>3, <3>1, <3>2, StatusEdited
    <3> QED
      BY <1>6, <2>1, <3>3 DEF Same
  <2> QED
    BY <2>2, <2>3
<1>8. live' # Nothing
  BY <1>7, SomethingOrNothing
<1>9. InRange'
  BY <1>1, <1>2, <1>5 DEF IInv, Rules, InRange
<1>10. Born'
  BY <1>5, <1>8 DEF Born
<1>11. Ordered' /\ Durable' /\ Kept'
  BY <1>5 DEF Ordered, Durable, Kept
<1>12. Failed'
  BY <1>5, <1>7 DEF Failed
<1>13. Copies'
  <2>1. Complete(live) /\ Complete(snap) /\ Complete(restored)
    BY DEF IInv, Rules, Copies
  <2>2. Complete(live')
    BY <1>7, <2>1 DEF Complete
  <2>3. ASSUME snap # Nothing
        PROVE  snap.results \subseteq live'.results /\ Len(snap.trace) <= Len(live'.trace)
    <3>1. snap.results \subseteq live.results /\ Len(snap.trace) <= Len(live.trace)
      BY <1>3, <2>3 DEF IInv, Rules, Copies
    <3>2. snap \in Records
      BY <2>3, Ranges DEF IInv
    <3>3. Len(snap.trace) \in Nat /\ Len(live.trace) \in Nat /\ Len(live'.trace) \in Nat
      BY <1>3, <1>7, <3>2, TraceLength
    <3> QED
      BY <1>7, <3>1, <3>3
  <2> QED
    BY <1>1, <2>1, <2>2, <2>3 DEF Copies
<1>14. at' \in 1..20
  BY <1>2, <1>5
<1> QED
  BY <1>7, <1>9, <1>10, <1>11, <1>12, <1>13, <1>14 DEF Rules
-----------------------------------------------------------------------------
(* The broadcast, and what it may raise.                                   *)
LEMMA PublishKeeps ==
  ASSUME IInv, Publish
  PROVE  Rules' /\ at' \in 1..20
<1>1. /\ Running /\ phase \in {"announce", "publish"}
      /\ UNCHANGED <<live, snap, indexed, restored, saved, resetter, destructive, wasReset>>
  BY DEF Publish, LoopOnly, redisVars, givenVars
<1>2. at \in 1..20
  BY Ranges DEF IInv
<1>3. CASE Raise
  <2>1. at' \in 1..20
    BY <1>3 DEF Raise
  <2> QED
    BY <1>1, <1>3, <2>1, RaiseKeeps DEF redisVars
<1>4. CASE phase = "announce" /\ phase' = "wait" /\ UNCHANGED <<run, at>>
  BY <1>1, <1>2, <1>4, StandKeeps DEF redisVars
<1>5. CASE phase = "publish" /\ Here.do = "await" /\ Advance
  <2>1. run = "main" /\ at = 15
    <3>1. run # "handler"
      <4>1. CASE run = "handler"
        <5>1. Here = Hook("trace", "error") \/ Here = Hook("status", "ERROR")
          BY <4>1, HereIs
        <5> QED
          BY <1>5, <5>1 DEF Hook
      <4> QED
        BY <4>1
    <3>2. run = "main"
      BY <1>1, <3>1 DEF Running
    <3>3. Do[at] = "await"
      BY <1>5, <3>2, HereIs DEF Hook
    <3> QED
      BY <1>2, <3>2, <3>3, HookKinds
  <2>2. saved' => InRedis /\ indexed'
    BY <1>1, <2>1 DEF IInv, Rules, Durable
  <2> QED
    BY <1>1, <1>5, <2>1, <2>2, AdvanceKeeps
<1>6. CASE phase = "publish" /\ Here.do # "await" /\ phase' = "save" /\ UNCHANGED <<run, at>>
  <2>1. run = "main" => at # 15
    <3>1. ASSUME run = "main", at = 15 PROVE FALSE
      <4>1. Here = Hook(Do[at], What[at]) /\ Do[at] = "await"
        BY <1>2, <3>1, HereIs, HookKinds
      <4> QED
        BY <1>6, <4>1 DEF Hook
    <3> QED
      BY <3>1
  <2> QED
    BY <1>1, <1>2, <1>6, <2>1, StandKeeps DEF redisVars
<1> QED
  BY <1>1, <1>3, <1>4, <1>5, <1>6 DEF Publish

(* The wait that fails.                                                    *)
LEMMA AbandonKeeps ==
  ASSUME IInv, Abandon
  PROVE  Rules' /\ at' \in 1..20
<1>1. /\ Running /\ phase # "apply" /\ Raise /\ at' = 1
      /\ UNCHANGED <<live, redisVars, resetter, destructive, wasReset>>
  BY DEF Abandon, Running, LoopOnly, givenVars, Raise
<1> QED
  BY <1>1, RaiseKeeps

(* The write of the snapshot.                                              *)
LEMMA SaveKeeps ==
  ASSUME IInv, Save
  PROVE  Rules' /\ at' \in 1..20
<1>1. /\ Running /\ phase = "save"
      /\ UNCHANGED <<live, indexed, restored, resetter, destructive, wasReset>>
  BY DEF Save, LoopOnly, givenVars
<1>2. at \in 1..20 /\ live \in Records /\ live # Nothing
  BY <1>1, Ranges, RunningLive DEF IInv
<1>3. CASE Raise /\ UNCHANGED snap
  <2>1. at' = 1 /\ UNCHANGED <<live, redisVars, resetter, destructive, wasReset>>
    BY <1>1, <1>3 DEF Raise, redisVars
  <2> QED
    BY <1>1, <1>3, <2>1, RaiseKeeps
<1>4. CASE saved' = FALSE /\ Advance /\ UNCHANGED snap
  BY <1>1, <1>4, AdvanceKeeps
<1>5. CASE snap' = live /\ phase' = "index" /\ UNCHANGED <<run, at, saved>>
  <2>1. run = "main" => at # 15
    BY <1>1 DEF IInv, Rules, InRange
  <2>2. InRange'
    BY <1>1, <1>5, <2>1 DEF IInv, Rules, InRange
  <2>3. Born'
    BY <1>1, <1>2, <1>5 DEF IInv, Rules, Born
  <2>4. Ordered'
    <3>1. SUFFICES ASSUME run = "main" PROVE Ordered'
      BY <1>1, <1>5 DEF Ordered, Running
    <3>2. Passed = at /\ Passed' = at
      BY <1>1, <1>5, <3>1 DEF Passed
    <3>3. /\ live.results = ResultsBy(at) /\ live.trace = TraceBy(at)
          /\ live.status = "RESOLVED" => at = 20
          /\ ~live.asking
      BY <1>1, <1>2, <3>1, <3>2 DEF IInv, Rules, Ordered
    <3> QED
      BY <1>1, <1>5, <3>1, <3>2, <3>3 DEF Ordered
  <2>5. Failed'
    BY <1>1, <1>5 DEF IInv, Rules, Failed
  <2>6. Copies'
    <3>1. Complete(live) /\ Complete(restored)
      BY DEF IInv, Rules, Copies
    <3>2. live.results \subseteq live.results /\ Len(live.trace) <= Len(live.trace)
      BY <1>2, TraceLength
    <3> QED
      BY <1>1, <1>5, <3>1, <3>2 DEF Copies
  <2>7. Durable'
    <3>1. InRedis'
      BY <1>1, <1>2, <1>5 DEF InRedis
    <3>2. run' # "done" /\ (run' = "main" => at' # 15) /\ phase' # "apply"
      BY <1>1, <1>5, <2>1 DEF Running
    <3> QED
      BY <3>1, <3>2 DEF Durable
  <2>8. Kept'
    BY <1>1, <1>5 DEF IInv, Rules, Kept, Running
  <2>9. at' \in 1..20
    BY <1>2, <1>5
  <2> QED
    BY <2>2, <2>3, <2>4, <2>5, <2>6, <2>7, <2>8, <2>9 DEF Rules
<1> QED
  BY <1>1, <1>3, <1>4, <1>5 DEF Save

(* And of the index.                                                       *)
LEMMA IndexKeeps ==
  ASSUME IInv, Index
  PROVE  Rules' /\ at' \in 1..20
<1>1. /\ Running /\ phase = "index" /\ Advance
      /\ UNCHANGED <<live, snap, restored, resetter, destructive, wasReset>>
      /\ saved' => indexed'
  BY DEF Index, LoopOnly, givenVars
<1>2. run = "main" => InRedis
  BY <1>1 DEF IInv, Rules, Durable
<1>3. run = "main" /\ at = 20 /\ ~wasReset => snap = live
  BY <1>1 DEF IInv, Rules, Kept
<1> QED
  BY <1>1, <1>2, <1>3, AdvanceKeeps
-----------------------------------------------------------------------------
(* A step that ends the asking, and may end the wait.                      *)
LEMMA AnsweredKeeps ==
  ASSUME IInv, live # Nothing, live' = [live EXCEPT !.asking = FALSE],
         phase' = phase \/ (phase = "wait" /\ phase' = "publish"),
         UNCHANGED <<redisVars, run, at, destructive, saved, wasReset>>,
         resetter' = resetter \/ resetter' = "idle",
         \/ live.asking
         \/ wasReset
         \/ run = "main" /\ at = 15
  PROVE  Rules' /\ live' \in Records /\ at' \in 1..20
<1> USE DEF redisVars
<1>1. live \in Records /\ at \in 1..20
  BY Ranges DEF IInv
<1>2. /\ live' \in Records /\ live'.status = live.status /\ Same(live, live')
      /\ live'.asking = FALSE /\ live' # Nothing
  BY <1>1, AskingEdited, SomethingOrNothing
<1>3. Passed' = Passed
  BY DEF Passed
<1>4. InRange'
  BY DEF IInv, Rules, InRange
<1>5. Born'
  BY <1>2 DEF IInv, Rules, Born
<1>6. Ordered'
  BY <1>2, <1>3 DEF IInv, Rules, Ordered, Same
<1>7. Failed'
  BY <1>2 DEF IInv, Rules, Failed, Same
<1>8. Copies'
  <2>1. Complete(live')
    BY <1>2 DEF IInv, Rules, Copies, Complete, Same
  <2> QED
    BY <1>2, <2>1 DEF IInv, Rules, Copies, Same
<1>9. Durable'
  <2>1. InRedis' <=> InRedis
    BY <1>2 DEF InRedis, Same
  <2>2. run = "main" /\ phase = "wait" => at = 15
    BY DEF IInv, Rules, InRange
  <2> QED
    BY <2>1, <2>2 DEF IInv, Rules, Durable
<1>10. Kept'
  <2>1. wasReset \/ ~((run = "main" /\ at = 20) \/ run = "done")
    <3>1. run \in {"main", "done"} /\ live.asking => run = "main" /\ at = 15
      BY DEF IInv, Rules, Ordered
    <3> QED
      BY <3>1
  <2> QED
    BY <2>1 DEF Kept
<1> QED
  BY <1>1, <1>2, <1>4, <1>5, <1>6, <1>7, <1>8, <1>9, <1>10 DEF Rules

(* The requests time out, ...                                              *)
LEMMA ExpireKeeps ==
  ASSUME IInv, Expire
  PROVE  Rules' /\ live' \in Records /\ at' \in 1..20
<1>1. /\ run = "main" /\ phase = "wait" /\ phase' = "publish"
      /\ live' = [live EXCEPT !.asking = FALSE]
      /\ UNCHANGED <<redisVars, run, at, destructive, saved, wasReset, resetter>>
  BY DEF Expire, LoopOnly, givenVars
<1>2. live # Nothing /\ at = 15
  BY <1>1, RunningLive DEF Running, IInv, Rules, InRange
<1> QED
  BY <1>1, <1>2, AnsweredKeeps

(* ... are decided ...                                                     *)
LEMMA DecideKeeps ==
  ASSUME IInv, Decide
  PROVE  Rules' /\ live' \in Records /\ at' \in 1..20
<1>1. /\ live # Nothing /\ (live.asking \/ wasReset) /\ live' = [live EXCEPT !.asking = FALSE]
      /\ phase' = phase \/ (phase = "wait" /\ phase' = "publish")
      /\ UNCHANGED <<redisVars, run, at, destructive, saved, wasReset, resetter>>
  BY DEF Decide, ThreadOnly, givenVars
<1> QED
  BY <1>1, AnsweredKeeps

(* ... or cleared by a reset, ...                                          *)
LEMMA ResetClearKeeps ==
  ASSUME IInv, ResetClear
  PROVE  Rules' /\ live' \in Records /\ at' \in 1..20
<1>1. /\ live # Nothing /\ live' = [live EXCEPT !.asking = FALSE] /\ phase' = phase
      /\ resetter = "clearing" /\ resetter' = "idle"
      /\ UNCHANGED <<redisVars, run, at, destructive, saved, wasReset>>
  BY DEF ResetClear, ThreadOnly, givenVars
<1>2. wasReset
  BY <1>1 DEF IInv, Rules, InRange
<1> QED
  BY <1>1, <1>2, AnsweredKeeps

(* ... which began with the status.                                        *)
LEMMA ResetStatusKeeps ==
  ASSUME IInv, ResetStatus
  PROVE  Rules' /\ live' \in Records /\ at' \in 1..20
<1>1. /\ live # Nothing /\ live' = [live EXCEPT !.status = "TRIAGING"] /\ wasReset' = TRUE
      /\ UNCHANGED <<snap, indexed, restored, run, at, phase, destructive, saved>>
  BY DEF ResetStatus, ThreadOnly, givenVars, redisVars
<1>2. live \in Records /\ at \in 1..20
  BY <1>1, Ranges DEF IInv
<1>3. "TRIAGING" \in RangeOf(Rank)
  BY DEF RangeOf, Rank
<1>4. /\ live' \in Records /\ live'.status = "TRIAGING" /\ Same(live, live')
      /\ live'.asking = live.asking /\ live' # Nothing
  BY <1>1, <1>2, <1>3, StatusEdited, SomethingOrNothing
<1>5. Passed' = Passed
  BY <1>1 DEF Passed
<1>6. InRange'
  BY <1>1 DEF IInv, Rules, InRange
<1>7. Born'
  BY <1>1, <1>4 DEF IInv, Rules, Born
<1>8. Ordered'
  BY <1>1, <1>4, <1>5 DEF IInv, Rules, Ordered, Same
<1>9. Failed'
  BY <1>1, <1>4 DEF IInv, Rules, Failed, Same
<1>10. Copies'
  <2>1. Complete(live')
    BY <1>4 DEF Complete
  <2> QED
    BY <1>1, <1>4, <2>1 DEF IInv, Rules, Copies, Same
<1>11. Durable'
  <2>1. InRedis' <=> InRedis
    BY <1>1, <1>4 DEF InRedis, Same
  <2> QED
    BY <1>1, <2>1 DEF IInv, Rules, Durable
<1>12. Kept'
  BY <1>1 DEF Kept
<1> QED
  BY <1>1, <1>2, <1>4, <1>6, <1>7, <1>8, <1>9, <1>10, <1>11, <1>12 DEF Rules
-----------------------------------------------------------------------------
(* The process ends, ...                                                   *)
LEMMA CrashKeeps ==
  ASSUME IInv, Crash
  PROVE  Rules'
<1>1. /\ live' = Nothing /\ restored' = Nothing /\ run' = "gone" /\ resetter' = "idle"
      /\ snap' = snap \/ snap' = Nothing
  BY DEF Crash
<1>2. Complete(Nothing)
  BY DEF Complete, Nothing
<1>3. Copies'
  BY <1>1, <1>2 DEF IInv, Rules, Copies
<1>4. InRange' /\ Born'
  BY <1>1 DEF InRange, Born
<1>5. Ordered' /\ Failed' /\ Durable' /\ Kept'
  BY <1>1 DEF Ordered, Failed, Durable, Kept
<1> QED
  BY <1>3, <1>4, <1>5 DEF Rules

(* ... and the next one reads what there is.                               *)
LEMMA RestartKeeps ==
  ASSUME IInv, Restart
  PROVE  Rules'
<1>1. /\ run = "gone"
      /\ restored' = snap \/ restored' = Nothing
      /\ UNCHANGED <<live, snap, indexed, run, at, phase, resetter, wasReset, destructive, saved>>
  BY DEF Restart, pipeVars, givenVars
<1>2. Complete(Nothing)
  BY DEF Complete, Nothing
<1>3. Copies'
  BY <1>1, <1>2 DEF IInv, Rules, Copies
<1>4. InRange'
  BY <1>1 DEF IInv, Rules, InRange
<1>5. Born'
  BY <1>1 DEF IInv, Rules, Born
<1>6. Ordered' /\ Failed' /\ Durable' /\ Kept'
  BY <1>1 DEF Ordered, Failed, Durable, Kept
<1> QED
  BY <1>3, <1>4, <1>5, <1>6 DEF Rules

(* The snapshot expires, with no call under way that relies on it.         *)
LEMMA LapseKeeps ==
  ASSUME IInv, Lapse
  PROVE  Rules'
<1>1. /\ snap # Nothing /\ snap' = Nothing /\ saved' = FALSE
      /\ Running => phase = "wait"
      /\ UNCHANGED <<live, indexed, restored, run, at, phase, resetter, wasReset, destructive>>
  BY DEF Lapse, pipeVars, givenVars
<1>2. Complete(Nothing)
  BY DEF Complete, Nothing
<1>3. Copies'
  BY <1>1, <1>2 DEF IInv, Rules, Copies
<1>4. InRange' /\ Failed'
  BY <1>1 DEF IInv, Rules, InRange, Failed
<1>5. Born'
  BY <1>1 DEF IInv, Rules, Born
<1>6. Ordered'
  <2>1. Passed' = Passed
    BY <1>1 DEF Passed
  <2> QED
    BY <1>1, <2>1 DEF IInv, Rules, Ordered
<1>7. Durable'
  BY <1>1 DEF Durable, Running
<1>8. Kept'
  <2>1. ~wasReset /\ run = "main" /\ at = 20 /\ phase # "apply" => live.status = "RESOLVED"
    BY DEF IInv, Rules, Kept
  <2> QED
    BY <1>1, <2>1 DEF Kept, Running
<1> QED
  BY <1>3, <1>4, <1>5, <1>6, <1>7, <1>8 DEF Rules

(* So every step keeps the invariant, if it keeps the types.               *)
LEMMA StepKeeps ==
  ASSUME IInv, [Next]_vars
  PROVE  Rules' /\ live' \in Records \cup {Nothing} /\ at' \in 1..20
<1> USE DEF IInv
<1>1. live \in Records \cup {Nothing} /\ at \in 1..20
  BY Ranges
<1>2. CASE Apply
  <2>1. Running
    BY <1>2 DEF Apply
  <2> QED
    BY <1>2, <2>1, ApplyMainKeeps, ApplyHandlerKeeps DEF Running
<1>3. CASE Publish
  <2>1. live' = live
    BY <1>3 DEF Publish
  <2> QED
    BY <1>1, <1>3, <2>1, PublishKeeps
<1>4. CASE Abandon
  <2>1. live' = live
    BY <1>4 DEF Abandon
  <2> QED
    BY <1>1, <1>4, <2>1, AbandonKeeps
<1>5. CASE Save
  <2>1. live' = live
    BY <1>5 DEF Save
  <2> QED
    BY <1>1, <1>5, <2>1, SaveKeeps
<1>6. CASE Index
  <2>1. live' = live
    BY <1>6 DEF Index
  <2> QED
    BY <1>1, <1>6, <2>1, IndexKeeps
<1>7. CASE Expire \/ Decide \/ ResetStatus \/ ResetClear
  BY <1>7, ExpireKeeps, DecideKeeps, ResetStatusKeeps, ResetClearKeeps
<1>8. CASE Crash
  <2>1. live' = Nothing /\ at' = at
    BY <1>8 DEF Crash
  <2> QED
    BY <1>1, <1>8, <2>1, CrashKeeps
<1>9. CASE Restart
  <2>1. live' = live /\ at' = at
    BY <1>9 DEF Restart, pipeVars
  <2> QED
    BY <1>1, <1>9, <2>1, RestartKeeps
<1>10. CASE Lapse
  <2>1. live' = live /\ at' = at
    BY <1>10 DEF Lapse, pipeVars
  <2> QED
    BY <1>1, <1>10, <2>1, LapseKeeps
<1>11. CASE UNCHANGED vars
  <2>1. UNCHANGED <<live, snap, indexed, restored, run, at, phase, resetter, destructive, wasReset, saved>>
    BY <1>11 DEF vars, redisVars, pipeVars, givenVars
  <2>2. Passed' = Passed
    BY <2>1 DEF Passed
  <2>3. InRange' /\ Born' /\ Copies'
    BY <2>1 DEF Rules, InRange, Born, Copies
  <2>4. Ordered' /\ Failed'
    BY <2>1, <2>2 DEF Rules, Ordered, Failed
  <2>5. Durable' /\ Kept'
    BY <2>1 DEF Rules, Durable, Kept, InRedis
  <2> QED
    BY <1>1, <2>1, <2>3, <2>4, <2>5 DEF Rules
<1> QED
  BY <1>2, <1>3, <1>4, <1>5, <1>6, <1>7, <1>8, <1>9, <1>10, <1>11 DEF Next, Loop
-----------------------------------------------------------------------------
(* Every step keeps the types.                                             *)
LEMMA TypesKept ==
  ASSUME IInv, [Next]_vars
  PROVE  TypeOK'
<1>1. TypeOK /\ live' \in Records \cup {Nothing} /\ at' \in 1..20
  BY StepKeeps DEF IInv
<1>2. /\ run' \in {"main", "handler", "done", "failed", "died", "gone"}
      /\ phase' \in {"apply", "announce", "wait", "publish", "save", "index"}
      /\ resetter' \in {"idle", "clearing"}
  <2>1. /\ run \in {"main", "handler", "done", "failed", "died", "gone"}
        /\ phase \in {"apply", "announce", "wait", "publish", "save", "index"}
        /\ resetter \in {"idle", "clearing"}
    BY <1>1 DEF TypeOK
  <2>2. Advance => run' \in {run, "failed", "done"} /\ phase' = "apply"
    BY DEF Advance
  <2>3. Raise => run' \in {"died", "handler"} /\ phase' = "apply"
    BY DEF Raise
  <2>4. CASE Apply
    <3>1. resetter' = resetter
      BY <2>4 DEF Apply, LoopOnly
    <3>2. Advance \/ (run' = run /\ phase' \in {"publish", "save", "announce"})
      BY <2>4 DEF Apply
    <3> QED
      BY <2>1, <2>2, <3>1, <3>2
  <2>5. CASE Publish
    <3>1. resetter' = resetter
      BY <2>5 DEF Publish, LoopOnly
    <3>2. Advance \/ Raise \/ (run' = run /\ phase' \in {"wait", "save"})
      BY <2>5 DEF Publish
    <3> QED
      BY <2>1, <2>2, <2>3, <3>1, <3>2
  <2>6. CASE Expire \/ Abandon
    <3>1. resetter' = resetter /\ (Raise \/ (run' = run /\ phase' = "publish"))
      BY <2>6 DEF Expire, Abandon, LoopOnly
    <3> QED
      BY <2>1, <2>3, <3>1
  <2>7. CASE Save \/ Index
    <3>1. resetter' = resetter /\ (Advance \/ Raise \/ (run' = run /\ phase' = "index"))
      BY <2>7 DEF Save, Index, LoopOnly
    <3> QED
      BY <2>1, <2>2, <2>3, <3>1
  <2>8. CASE Decide \/ ResetStatus \/ ResetClear
    <3>1. /\ run' = run /\ phase' \in {phase, "publish"}
          /\ resetter' \in {resetter, "idle", "clearing"}
      BY <2>8 DEF Decide, ResetStatus, ResetClear, ThreadOnly
    <3> QED
      BY <2>1, <3>1
  <2>9. CASE Crash \/ Restart \/ Lapse \/ UNCHANGED vars
    <3>1. run' \in {run, "gone"} /\ phase' = phase /\ resetter' \in {resetter, "idle"}
      BY <2>9 DEF Crash, Restart, Lapse, vars, pipeVars
    <3> QED
      BY <2>1, <3>1
  <2> QED
    BY <2>4, <2>5, <2>6, <2>7, <2>8, <2>9 DEF Next, Loop
<1>3. snap' \in Records \cup {Nothing} /\ restored' \in Records \cup {Nothing}
  <2>1. /\ live \in Records \cup {Nothing} /\ snap \in Records \cup {Nothing}
        /\ restored \in Records \cup {Nothing}
    BY <1>1 DEF TypeOK
  <2>2. snap' \in {snap, live, Nothing} /\ restored' \in {restored, snap, Nothing}
    BY DEF Next, Loop, Apply, Publish, Expire, Abandon, Save, Index, Decide, ResetStatus,
           ResetClear, Crash, Restart, Lapse, ThreadOnly, redisVars, vars
  <2> QED
    BY <2>1, <2>2
<1>4. indexed' \in BOOLEAN /\ saved' \in BOOLEAN /\ wasReset' \in BOOLEAN
  <2>1. indexed \in BOOLEAN /\ saved \in BOOLEAN /\ wasReset \in BOOLEAN
    BY <1>1, Zenon DEF TypeOK
  <2>2. indexed' = indexed \/ indexed' = TRUE \/ indexed' = FALSE
    BY DEF Next, Loop, Apply, Publish, Expire, Abandon, Save, Index, Decide, ResetStatus,
           ResetClear, Crash, Restart, Lapse, ThreadOnly, redisVars, vars
  <2>3. saved' = saved \/ saved' = TRUE \/ saved' = FALSE
    BY DEF Next, Loop, Apply, Publish, Expire, Abandon, Save, Index, Decide, ResetStatus,
           ResetClear, Crash, Restart, Lapse, ThreadOnly, vars
  <2>4. wasReset' = wasReset \/ wasReset' = TRUE
    BY DEF Next, Loop, Apply, Publish, Expire, Abandon, Save, Index, Decide, ResetStatus,
           ResetClear, Crash, Restart, Lapse, LoopOnly, vars
  <2> QED
    BY <2>1, <2>2, <2>3, <2>4, Zenon
<1>5. registered' \in BOOLEAN
  <2>1. registered \in BOOLEAN
    BY <1>1, Zenon DEF TypeOK
  <2>2. \/ registered' = registered \/ registered' = FALSE
        \/ registered' = (registered \/ Here.do = "await")
    BY DEF Next, Loop, Apply, Publish, Expire, Abandon, Save, Index, Decide, ResetStatus,
           ResetClear, Crash, Restart, Lapse, vars
  <2> QED
    BY <2>1, <2>2, Zenon
<1>6. torn' \in BOOLEAN
  <2>1. torn \in BOOLEAN
    BY <1>1, Zenon DEF TypeOK
  <2> DEFINE noticed == Running /\ registered /\ phase \in {"announce", "publish", "save"}
  <2>2. torn' = torn \/ torn' = FALSE \/ torn' = (torn \/ noticed)
    <3>1. CASE ResetClear
      BY <3>1 DEF ResetClear
    <3>2. CASE ~ResetClear
      BY <3>2 DEF Next, Loop, Apply, Publish, Expire, Abandon, Save, Index, Decide, ResetStatus,
                  Crash, Restart, Lapse, vars
    <3> QED
      BY <3>1, <3>2
  <2> HIDE DEF noticed
  <2> QED
    BY <2>1, <2>2, Zenon
<1>7. /\ external' \in BOOLEAN /\ destructive' \in BOOLEAN /\ noServices' \in BOOLEAN
      /\ timeout' \in Timeouts
  <2>1. /\ external \in BOOLEAN /\ destructive \in BOOLEAN /\ noServices \in BOOLEAN
        /\ timeout \in Timeouts
    BY <1>1, Zenon DEF TypeOK
  <2>2. UNCHANGED givenVars
    BY DEF Next, Loop, Apply, Publish, Expire, Abandon, Save, Index, Decide, ResetStatus,
           ResetClear, Crash, Restart, Lapse, LoopOnly, ThreadOnly, vars
  <2> QED
    BY <2>1, <2>2, Zenon DEF givenVars
<1> QED
  BY <1>1, <1>2, <1>3, <1>4, <1>5, <1>6, <1>7, HookTable, Zenon DEF TypeOK
-----------------------------------------------------------------------------
(* The first state has the invariant.                                      *)
LEMMA Starts == Init => IInv
<1> SUFFICES ASSUME Init PROVE IInv
  OBVIOUS
<1>1. /\ live = Nothing /\ snap = Nothing /\ restored = Nothing
      /\ run = "main" /\ at = 1 /\ phase = "apply" /\ resetter = "idle"
  BY DEF Init
<1>2. TypeOK
  <2>1. /\ registered \in BOOLEAN /\ indexed \in BOOLEAN /\ torn \in BOOLEAN
        /\ external \in BOOLEAN /\ destructive \in BOOLEAN /\ noServices \in BOOLEAN
        /\ timeout \in Timeouts /\ wasReset \in BOOLEAN /\ saved \in BOOLEAN
    BY Zenon DEF Init
  <2>2. at \in 1..Len(PipelineHooks)
    BY <1>1, HookTable
  <2> QED
    BY <1>1, <2>1, <2>2 DEF TypeOK
<1>3. Complete(Nothing)
  BY DEF Complete, Nothing
<1>4. InRange /\ Born /\ Copies
  BY <1>1, <1>3 DEF InRange, Born, Copies
<1>5. Ordered /\ Failed /\ Durable /\ Kept
  BY <1>1 DEF Ordered, Failed, Durable, Kept
<1> QED
  BY <1>2, <1>4, <1>5 DEF IInv, Rules

(* The invariant holds throughout.                                         *)
THEOREM Invariance == Spec => []IInv
<1>1. IInv /\ [Next]_vars => IInv'
  BY StepKeeps, TypesKept DEF IInv
<1> QED
  BY <1>1, Starts, PTL DEF Spec

(* Every variable keeps its type.                                          *)
THEOREM TypeCorrect == Spec => []TypeOK
<1>1. IInv => TypeOK
  BY DEF IInv
<1> QED
  BY <1>1, Invariance, PTL

(* Whatever threads, crashes, failing commands and exceptions intervene,   *)
(* no copy of the incident is ever RESOLVED without its results, its trace *)
(* in order, or with a request open.                                       *)
THEOREM ResolvedComplete == Spec => []ResolvedIsComplete
<1>1. IInv => ResolvedIsComplete
  BY DEF IInv, Rules, Copies, Complete, ResolvedIsComplete
<1> QED
  BY <1>1, Invariance, PTL

(* Between hook calls Redis has the results and the trace, unless the last *)
(* write failed or the key has expired.                                    *)
THEOREM Durability == Spec => []ResultsDurable
<1>1. IInv => ResultsDurable
  BY DEF IInv, Rules, Durable, InRedis, ResultsDurable
<1> QED
  BY <1>1, Invariance, PTL

(* Until it expires, a resolved incident's last snapshot is all of it.     *)
THEOREM CompletedKept == Spec => []CompletedSurvives
<1>1. IInv => CompletedSurvives
  <2> SUFFICES ASSUME IInv, run = "done", saved, ~wasReset
               PROVE  indexed /\ snap = live /\ snap.status = "RESOLVED"
    BY DEF CompletedSurvives
  <2> QED
    BY DEF IInv, Rules, Kept
<1> QED
  BY <1>1, Invariance, PTL

(* Until the key expires, no write loses what an earlier snapshot had.     *)
THEOREM GrowingSnapshots == Spec => SnapshotsGrow
<1> DEFINE Grow == snap # Nothing /\ live' # Nothing /\ ~Lapse =>
                     /\ snap' # Nothing
                     /\ snap.results \subseteq snap'.results
                     /\ Len(snap.trace) <= Len(snap'.trace)
<1>1. IInv /\ [Next]_vars => [Grow]_vars
  <2> SUFFICES ASSUME IInv, Next, snap # Nothing, live' # Nothing, ~Lapse
               PROVE  /\ snap' # Nothing /\ snap.results \subseteq snap'.results
                      /\ Len(snap.trace) <= Len(snap'.trace)
    OBVIOUS
  <2>1. CASE snap' = snap
    <3>1. Len(snap.trace) \in Nat
      BY Ranges, TraceLength DEF IInv
    <3> QED
      BY <2>1, <3>1
  <2>2. CASE Save /\ snap' = live
    <3>1. live \in Records /\ live # Nothing
      BY <2>2, RunningLive DEF Save
    <3> QED
      BY <2>2, <3>1 DEF IInv, Rules, Copies
  <2>3. snap' = snap \/ (Save /\ snap' = live)
    BY DEF Next, Loop, Apply, Publish, Expire, Abandon, Save, Index, Decide, ResetStatus,
           ResetClear, Crash, Restart, ThreadOnly, redisVars
  <2> QED
    BY <2>1, <2>2, <2>3
<1> HIDE DEF Grow
<1>2. Spec => [][Grow]_vars
  BY <1>1, Invariance, PTL DEF Spec
<1> QED
  BY <1>2 DEF SnapshotsGrow, Grow
=============================================================================
