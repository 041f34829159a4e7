----------------------------- MODULE MCLiveParts -----------------------------
(* Thresholds of every grade, above every grade, and unusable.             *)
EXTENDS LiveParts

AnyPatch == Unusable..(TopGrade + 1)
=============================================================================
