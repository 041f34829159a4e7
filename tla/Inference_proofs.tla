---------------------------- MODULE Inference_proofs ----------------------------
(***************************************************************************)
(* Whatever the model answers, whatever the live threshold becomes and     *)
(* whatever the breaker does, for every setting of it: what is not to be   *)
(* trusted asks for a human, what comes from the model went through the    *)
(* guard, and the breaker is driven as it is alone.                        *)
(***************************************************************************)
EXTENDS Inference, TLAPS

(* A diagnosis as a whole, of each kind of source: the guard's report is   *)
(* about the hypothesis it is returned with, and failures ask for review.  *)
Sound ==
  /\ diagnosis.source \in {"none", "model", "simulation", "failed"}
  /\ UntrustedReviewed /\ ModelOutputVetted
-----------------------------------------------------------------------------
(* What is returned, case by case.                                         *)

LEMMA FailSound == ASSUME NEW logs, Fail(logs) PROVE Sound'
<1>1. /\ diagnosis'.of.review /\ diagnosis'.source = "failed"
  BY DEF Fail, Blank
<1> QED
  BY <1>1 DEF Sound, UntrustedReviewed, ModelOutputVetted

(* The gate returns the hypothesis it was given, marked for review if it   *)
(* is below the bar or its report failed, together with that report.       *)
LEMMA GateReturns ==
  ASSUME NEW h \in Hypotheses, NEW source, NEW report, report.passed \in BOOLEAN,
         NEW logs, Gate(h, source, report, logs), threshold # Unusable
  PROVE  /\ diagnosis'.source = source /\ validation' = report /\ diagnosis'.logs = logs
         /\ diagnosis'.bar = threshold /\ diagnosis'.of.confidence = h.confidence
         /\ diagnosis'.of.hedged = h.hedged /\ diagnosis'.of.cites = h.cites
         /\ h.confidence < threshold \/ ~report.passed => diagnosis'.of.review
<1> DEFINE marked == [h EXCEPT !.review = @ \/ h.confidence < threshold \/ ~report.passed]
<1>1. /\ diagnosis' = [of |-> marked, source |-> source, logs |-> logs, bar |-> threshold]
      /\ validation' = report
  BY DEF Gate
<1>2. /\ marked.confidence = h.confidence /\ marked.hedged = h.hedged /\ marked.cites = h.cites
      /\ marked.review = (h.review \/ h.confidence < threshold \/ ~report.passed)
  BY DEF Hypotheses
<1>3. h.confidence < threshold \/ ~report.passed => marked.review
  BY <1>2
<1> HIDE DEF marked
<1> QED
  BY <1>1, <1>2, <1>3

LEMMA GateSound ==
  ASSUME NEW h \in Hypotheses, NEW source \in {"model", "simulation"}, NEW report,
         report.passed \in BOOLEAN, NEW logs, Gate(h, source, report, logs),
         source = "model" => report = Report(h, logs) /\ Log("real", "hypothesis", report)
  PROVE  Sound'
<1>1. CASE threshold = Unusable
  BY <1>1, FailSound DEF Gate
<1>2. CASE threshold # Unusable
  <2>1. /\ diagnosis'.source = source /\ validation' = report /\ diagnosis'.logs = logs
        /\ diagnosis'.bar = threshold /\ diagnosis'.of.confidence = h.confidence
        /\ diagnosis'.of.hedged = h.hedged /\ diagnosis'.of.cites = h.cites
        /\ h.confidence < threshold \/ ~report.passed => diagnosis'.of.review
    BY <1>2, GateReturns
  <2>2. UntrustedReviewed'
    BY <2>1 DEF UntrustedReviewed
  <2>3. ASSUME source = "model" PROVE ModelOutputVetted'
    <3>1. report = Report(h, logs) /\ inferred'.blocked = (report.ran /\ ~report.passed)
      BY <2>3 DEF Log
    <3>2. report.ran = TRUE /\ report.passed = (~h.hedged /\ (logs => h.cites # "invented"))
      BY <3>1 DEF Report, CitationsValid
    <3>3. (h.hedged \/ (logs /\ h.cites = "invented")) <=> ~report.passed
      BY <3>2
    <3>4. inferred'.blocked <=> ~report.passed
      BY <3>1, <3>2
    <3>5. validation'.ran
      BY <2>1, <3>2
    <3> QED
      BY <2>1, <3>3, <3>4, <3>5 DEF ModelOutputVetted
  <2>4. ASSUME source # "model" PROVE ModelOutputVetted'
    BY <2>1, <2>4 DEF ModelOutputVetted
  <2> QED
    BY <2>1, <2>2, <2>3, <2>4 DEF Sound
<1> QED
  BY <1>1, <1>2

(* Reports are Boolean, with the guard's and without.                      *)
LEMMA ReportsBoolean ==
  /\ \A h, logs : Report(h, logs).passed \in BOOLEAN
  /\ NoReport.passed \in BOOLEAN
  BY DEF Report, NoReport

LEMMA FallbackSound ==
  ASSUME NEW logs \in BOOLEAN, NEW guarded, Fallback(logs, guarded)
  PROVE  Sound'
<1>1. PICK matched \in {FALSE, logs} :
        IF SimulationRaises(matched)
        THEN Fail(logs) /\ Log(IF real THEN "real" ELSE "simulation", "nothing", NoReport)
        ELSE \E h \in Simulated(matched) :
               LET report == IF guarded THEN Report(h, logs) ELSE NoReport
               IN  /\ Gate(h, "simulation", report, logs)
                   /\ Log("simulation", "hypothesis", report)
  BY Zenon DEF Fallback
<1>2. CASE SimulationRaises(matched)
  BY <1>1, <1>2, FailSound
<1>3. CASE ~SimulationRaises(matched)
  <2>1. PICK h \in Simulated(matched) :
          Gate(h, "simulation", IF guarded THEN Report(h, logs) ELSE NoReport, logs)
    BY <1>1, <1>3, Zenon
  <2>2. h \in Hypotheses
    BY DEF Simulated
  <2>3. (IF guarded THEN Report(h, logs) ELSE NoReport).passed \in BOOLEAN
    BY ReportsBoolean
  <2> QED
    BY <2>1, <2>2, <2>3, GateSound
<1> QED
  BY <1>2, <1>3

LEMMA UseAnswerSound ==
  ASSUME NEW logs \in BOOLEAN, UseAnswer(logs)
  PROVE  Sound'
<1>1. PICK h \in Hypotheses : /\ Gate(h, "model", Report(h, logs), logs)
                              /\ Log("real", "hypothesis", Report(h, logs))
  BY Zenon DEF UseAnswer
<1> QED
  BY <1>1, ReportsBoolean, GateSound

LEMMA StepSound == ASSUME Sound, [InferenceNext]_inferenceVars PROVE Sound'
<1>1. ASSUME NEW logs \in BOOLEAN, UseAnswer(logs) PROVE Sound'
  BY <1>1, UseAnswerSound
<1>2. ASSUME NEW logs \in BOOLEAN, Substitute(logs) \/ Rescue(logs) PROVE Sound'
  BY <1>2, FallbackSound DEF Substitute, Rescue
<1>3. CASE Around \/ PatchThreshold \/ UNCHANGED inferenceVars
  <2>1. UNCHANGED <<diagnosis, validation, inferred>>
    BY <1>3 DEF Around, PatchThreshold, inferenceVars, resultVars
  <2> QED
    BY <2>1 DEF Sound, UntrustedReviewed, ModelOutputVetted
<1> QED
  BY <1>1, <1>2, <1>3 DEF InferenceNext, Diagnose

LEMMA InitSound == InferenceInit => Sound
  BY DEF InferenceInit, Sound, UntrustedReviewed, ModelOutputVetted, Blank

(* The inductive invariant.                                                *)
LEMMA Invariance == InferenceSpec => []Sound
  BY InitSound, StepSound, PTL DEF InferenceSpec

(* Below the threshold then in force, after a failed report and after an   *)
(* internal error a human is asked, on every path through run_diagnosis.   *)
THEOREM Reviewed == InferenceSpec => []UntrustedReviewed
<1>1. Sound => UntrustedReviewed
  BY DEF Sound
<1> QED
  BY <1>1, Invariance, PTL

(* The model's output never passes the guard by (lyzr_inference.py).       *)
THEOREM Vetted == InferenceSpec => []ModelOutputVetted
<1>1. Sound => ModelOutputVetted
  BY DEF Sound
<1> QED
  BY <1>1, Invariance, PTL
-----------------------------------------------------------------------------
(* A diagnosis steps the breaker once, by one of its own actions, or       *)
(* leaves it alone; so does everything else.                               *)
LEMMA StepDrives == [InferenceNext]_inferenceVars => [Next]_vars
<1> SUFFICES ASSUME [InferenceNext]_inferenceVars PROVE Next \/ UNCHANGED vars
  OBVIOUS
<1>1. ASSUME NEW logs \in BOOLEAN, UseAnswer(logs) \/ Substitute(logs) \/ Rescue(logs)
      PROVE  Next \/ UNCHANGED vars
  <2>1. \/ CallReturns \/ CallBlocked \/ CallRaises
        \/ UNCHANGED vars
    BY <1>1 DEF UseAnswer, Substitute, Rescue
  <2> QED
    BY <2>1 DEF Next
<1>2. CASE Around
  BY <1>2 DEF Around, Next
<1>3. CASE PatchThreshold \/ UNCHANGED inferenceVars
  BY <1>3 DEF PatchThreshold, inferenceVars
<1> QED
  BY <1>1, <1>2, <1>3 DEF InferenceNext, Diagnose

(* However answers are used, replaced or rescued, the breaker behaves as   *)
(* CircuitBreaker says, so what is proved of that module holds here.       *)
THEOREM DrivesBreaker == InferenceSpec => BreakerDriven
<1>1. InferenceInit => Init
  BY DEF InferenceInit
<1> QED
  BY <1>1, StepDrives, PTL DEF InferenceSpec, BreakerDriven, Spec
=============================================================================
