--------------------------- MODULE MC_Transaction ---------------------------
(* Model-checking instance of Transaction: two foci (say a pipeline and a *)
(* table stream) competing for one transaction, and one session variable *)
(* with two values besides its default.                                  *)
EXTENDS Transaction

CONSTANTS f1, f2, v1, x0, x1, x2
MCFoci == {f1, f2}
MCVars == {v1}
MCValues == {x0, x1, x2}
=============================================================================
