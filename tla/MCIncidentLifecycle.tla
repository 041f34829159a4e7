------------------------- MODULE MCIncidentLifecycle -------------------------
(* One incident is the whole model: incidents share nothing in the store   *)
(* but the dictionaries that hold them.                                    *)
EXTENDS IncidentLifecycle
=============================================================================
