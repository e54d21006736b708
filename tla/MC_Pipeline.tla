---------------------------- MODULE MC_Pipeline ----------------------------
(* Model-checking instance of Pipeline: two query texts, one of which the *)
(* backend rejects, and up to MaxQueries inserts.                          *)
EXTENDS Pipeline

MCQueries == {"q1", "qbad"}
MCBadQueries == {"qbad"}
=============================================================================
