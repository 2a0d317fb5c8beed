----------------------------- MODULE MCScullMem -----------------------------
(* Instances of ScullMem for TLC.                                          *)
EXTENDS ScullMem

CONSTANTS p1, p2, a, b

=============================================================================
