----------------------------- MODULE MCLoading -----------------------------
(* An instance of Loading for TLC.                                         *)
EXTENDS Loading

=============================================================================
