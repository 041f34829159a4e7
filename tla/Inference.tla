------------------------------ MODULE Inference ------------------------------
(***************************************************************************)
(* One diagnosis after another by the Diagnostician: run_inference         *)
(* (agents/lyzr_inference.py) through its circuit breaker and the          *)
(* hallucination guard, and run_diagnosis around it                        *)
(* (agents/diagnostician_agent.py).  All of it runs on the event loop      *)
(* without an await: a diagnosis is one step, between which the clock, the *)
(* LLM API and the live configuration change.                              *)
(***************************************************************************)
EXTENDS CircuitBreaker

CONSTANT Patches   \* values PATCH /config/live may give confidence_threshold

(* Confidences and thresholds are grades: 0 for 0.0 up to TopGrade for     *)
(* 1.0.  A threshold may lie above every confidence, or be no number at    *)
(* all: PATCH does not look at the value.                                  *)
TopGrade == 2
Unusable == -1
BaseThreshold == 1

ASSUME InferenceAssumption == Patches \subseteq Unusable..(TopGrade + 1)

VARIABLES
  real,        \* the agent was created in the studio: SREAgent.is_real
  threshold,   \* live_config's confidence_threshold
  diagnosis,   \* what run_diagnosis returned last
  validation,  \* the validation report it returned with it
  inferred     \* what run_inference returned last, as its AIMS event tells

resultVars == <<diagnosis, validation, inferred>>
inferenceVars == <<vars, real, threshold, resultVars>>

Citations == {"none", "logged", "invented"}

(* A DiagnosisHypothesis, by what the guard and the gate look at: are its  *)
(* cited lines in the corpus, does its text hedge, does it ask for review. *)
Hypotheses == [confidence : 0..TopGrade, cites : Citations,
               hedged : BOOLEAN, review : BOOLEAN]

InferenceTypeOK ==
  /\ TypeOK
  /\ real \in BOOLEAN
  /\ threshold \in Unusable..(TopGrade + 1)
  /\ diagnosis.of \in Hypotheses
  /\ diagnosis.source \in {"none", "model", "simulation", "failed"}
  /\ diagnosis.logs \in BOOLEAN
  /\ diagnosis.bar \in Unusable..(TopGrade + 1)
  /\ validation \in [ran : BOOLEAN, passed : BOOLEAN]
  /\ inferred \in [mode : {"none", "real", "simulation"},
                   result : {"hypothesis", "nothing"}, blocked : BOOLEAN]

Blank == [confidence |-> 0, cites |-> "none", hedged |-> FALSE, review |-> TRUE]

InferenceInit ==
  /\ Init
  /\ real \in BOOLEAN
  /\ threshold = BaseThreshold
  /\ diagnosis = [of |-> Blank, source |-> "none", logs |-> FALSE, bar |-> BaseThreshold]
  /\ validation = [ran |-> FALSE, passed |-> FALSE]
  /\ inferred = [mode |-> "none", result |-> "nothing", blocked |-> FALSE]
-----------------------------------------------------------------------------
(* The hallucination guard: hedging phrases anywhere in the output, and,   *)
(* unless the corpus is empty, citations that are not in it.               *)
CitationsValid(h) == h.cites # "invented"

Report(h, logs) == [ran |-> TRUE, passed |-> ~h.hedged /\ (logs => CitationsValid(h))]

NoReport == [ran |-> FALSE, passed |-> TRUE]

(* _simulate: keyword matches in the retrieved lines are its evidence, and *)
(* without a match it asks for review.                                     *)
Simulated(matched) ==
  {h \in Hypotheses :
     IF matched THEN h.cites = "logged" /\ h.review = (h.confidence < threshold)
                ELSE h.cites = "none" /\ h.confidence = 0 /\ h.review}

(* Comparing a confidence with what is no number raises TypeError.         *)
SimulationRaises(matched) == matched /\ threshold = Unusable

(* The except branch of run_diagnosis.                                     *)
Fail(logs) ==
  /\ diagnosis' = [of |-> Blank, source |-> "failed", logs |-> logs, bar |-> threshold]
  /\ validation' = [ran |-> FALSE, passed |-> FALSE]

(* Mutant: a failed report is only logged.                                 *)
GateIgnoringReport(h, source, report, logs) ==
  IF threshold = Unusable THEN Fail(logs)
  ELSE /\ diagnosis' = [of |-> [h EXCEPT !.review = @ \/ h.confidence < threshold],
                        source |-> source, logs |-> logs, bar |-> threshold]
       /\ validation' = report

(* What run_diagnosis does with a hypothesis: the confidence gate against  *)
(* the live threshold, then the guard's report, or a passing one if there  *)
(* is none.                                                                *)
Gate(h, source, report, logs) ==
  IF threshold = Unusable THEN Fail(logs)
  ELSE /\ diagnosis' = [of |-> [h EXCEPT !.review = @ \/ h.confidence < threshold
                                                      \/ ~report.passed],
                        source |-> source, logs |-> logs, bar |-> threshold]
       /\ validation' = report

Log(mode, result, report) ==
  inferred' = [mode |-> mode, result |-> result,
               blocked |-> report.ran /\ ~report.passed]

(* run_inference's fallback.  If it raises, the outer except calls it      *)
(* again, it raises again, and None is returned with the mode untouched.   *)
Fallback(logs, guarded) ==
  \E matched \in {FALSE, logs} :
    IF SimulationRaises(matched)
    THEN Fail(logs) /\ Log(IF real THEN "real" ELSE "simulation", "nothing", NoReport)
    ELSE \E h \in Simulated(matched) :
           LET report == IF guarded THEN Report(h, logs) ELSE NoReport
           IN  /\ Gate(h, "simulation", report, logs)
               /\ Log("simulation", "hypothesis", report)

(* Mutants: the raw answer goes on without the guard; the agent is called  *)
(* whether its circuit is open or not.                                     *)
UseAnswerUnguarded(logs) ==
  /\ real /\ CallReturns
  /\ \E h \in Hypotheses : Gate(h, "model", NoReport, logs) /\ Log("real", "hypothesis", NoReport)
  /\ UNCHANGED <<real, threshold>>

UseAnswerPastBreaker(logs) ==
  /\ real /\ apiUp /\ OnSuccess
  /\ \E h \in Hypotheses :
       /\ Gate(h, "model", Report(h, logs), logs)
       /\ Log("real", "hypothesis", Report(h, logs))
  /\ UNCHANGED <<apiUp, real, threshold>>

(* The model answers, and its answer parses.                               *)
UseAnswer(logs) ==
  /\ real /\ CallReturns
  /\ \E h \in Hypotheses :
       /\ Gate(h, "model", Report(h, logs), logs)
       /\ Log("real", "hypothesis", Report(h, logs))
  /\ UNCHANGED <<real, threshold>>

(* There is no model; or the breaker refuses; or the answer is empty or    *)
(* does not parse, which the breaker has counted as a success.             *)
Substitute(logs) ==
  /\ \/ ~real /\ UNCHANGED vars
     \/ real /\ (CallBlocked \/ CallReturns)
  /\ Fallback(logs, TRUE)
  /\ UNCHANGED <<real, threshold>>

(* The call raises; call() counts it and, its fallback being None, raises  *)
(* again, past the guard, into the outer except.                           *)
Rescue(logs) ==
  /\ real /\ CallRaises
  /\ Fallback(logs, FALSE)
  /\ UNCHANGED <<real, threshold>>

Diagnose == \E logs \in BOOLEAN : UseAnswer(logs) \/ Substitute(logs) \/ Rescue(logs)

(* GET /circuit-breakers, PATCH and DELETE /config/live, time, the API.    *)
Around == /\ \/ Status \/ Tick \/ ApiChanges
          /\ UNCHANGED <<real, threshold, resultVars>>

PatchThreshold == /\ threshold' \in Patches \cup {BaseThreshold}
                  /\ UNCHANGED <<vars, real, resultVars>>

InferenceNext == Diagnose \/ Around \/ PatchThreshold

InferenceSpec == InferenceInit /\ [][InferenceNext]_inferenceVars
-----------------------------------------------------------------------------
(* Whatever the model claims of itself, a hypothesis below the threshold   *)
(* in force, one whose report failed, and one made up after an internal    *)
(* error all ask for a human (diagnostician_agent.py:237, 253, 266).       *)
UntrustedReviewed ==
  (diagnosis.of.confidence < diagnosis.bar \/ ~validation.passed)
    => diagnosis.of.review

(* What came from the model went through the guard, on every path: it does *)
(* not hedge and, where there are logs, cites nothing that is not in them, *)
(* or else its report failed and its AIMS event says blocked.              *)
ModelOutputVetted ==
  diagnosis.source = "model" =>
    /\ validation.ran
    /\ (diagnosis.of.hedged \/ (diagnosis.logs /\ diagnosis.of.cites = "invented"))
         <=> ~validation.passed
    /\ inferred.blocked <=> ~validation.passed

(* However answers are used, replaced or rescued afterwards, the breaker   *)
(* behaves as it does alone: no answer is counted, or taken, past an open  *)
(* circuit, and no path into the fallback leaves it in a state of its own. *)
BreakerDriven == Spec
=============================================================================
