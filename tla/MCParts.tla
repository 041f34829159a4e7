-------------------------------- MODULE MCParts --------------------------------
(* The values of Parts' constants.                                         *)
EXTENDS Parts
-----------------------------------------------------------------------------
(* Triage: a kind whose texts match keywords, and one whose texts match    *)
(* none.                                                                   *)
MCNamespaces == [k \in Kinds |-> IF k = "deadlock" THEN "database" ELSE "web"]
MCKeywords == [k \in Kinds |-> IF k = "deadlock" THEN {1, 4} ELSE {}]
MCHints == [k \in Kinds |-> IF k = "deadlock" THEN 3 ELSE 2]

(* Batches of one to three alerts of every mix of kinds, started together, *)
(* within one window, within two, and further apart.                       *)
MCBatches ==
  LET starts == {<<0>>, <<Absurd>>, <<0, 1>>, <<0, 0, 0>>, <<0, 1, 1>>, <<0, 1, 2>>,
                 <<0, 1, 3>>, <<0, 2, 3>>, <<0, 2, 4>>, <<1, Absurd, 1>>}
  IN  UNION {{[i \in DOMAIN s |-> [kind |-> mix[i], at |-> s[i]]] : mix \in [DOMAIN s -> Kinds]}
               : s \in starts}
-----------------------------------------------------------------------------
(* Readings of one metric, between which another's may come.               *)
MCReadings == {[metric |-> "latency", value |-> v] : v \in 0..2} \cup {[metric |-> "memory", value |-> 0]}
-----------------------------------------------------------------------------
(* Remediation: causes with keywords of at most two templates, up to two   *)
(* of each; up to two actions, which may have the same step number.        *)
MCCauses == {c \in [1..6 -> 0..2] : Cardinality({t \in 1..6 : c[t] > 0}) <= 2}
MCDrafts ==
  LET claims == [step : 1..2, destructive : BOOLEAN, executed : BOOLEAN]
  IN  UNION {[1..n -> claims] : n \in 0..2}
-----------------------------------------------------------------------------
(* Configuration: environments and stores in which keys are missing,       *)
(* empty, different, and shared by fields; updates whose later key stands, *)
(* and ones refused at their second and at their first key.                *)
MCEnvironments == {<<"k1", "", "", "">>, <<"k1", "k1", "k2", "k2">>}
MCContents == {<<"lacking", "k1", "k2", "">>, <<"k2", "k1", "lacking", "k1">>}
MCBases == {[threshold |-> 0, timeout |-> 0, workers |-> 0]}
Setting(key, value) == [key |-> key, value |-> value]
MCUpdates ==
  {<<Setting("threshold", 0)>>,
   <<Setting("threshold", 1), Setting("timeout", 1)>>,
   <<Setting("threshold", 1), Setting("workers", 1)>>,
   <<Setting("workers", 1), Setting("timeout", 1)>>}
=============================================================================
