----------------------------- MODULE MCIncidentFeed -----------------------------
(* Two incidents, one page, two requests at once.                          *)
EXTENDS IncidentFeed
=============================================================================
