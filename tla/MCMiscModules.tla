--------------------------- MODULE MCMiscModules ---------------------------
(* An instance of MiscModules for TLC.                                     *)
EXTENDS MiscModules

CONSTANTS p1, p2, p3

=============================================================================
