----------------------------- MODULE MC_Cursor -----------------------------
(* Model-checking instance of Cursor: a two-row result, strides of up to  *)
(* two rows either way, and the ALL / BACKWARD ALL sentinels.             *)
EXTENDS Cursor

MCBackwardAll == -100
=============================================================================
