---------------------------- MODULE MCScullCopy -----------------------------
(* Instances of ScullCopy for TLC: two terminals and a process without.    *)
EXTENDS ScullCopy, TLC

CONSTANTS p1, p2, p3, p4, tty1, tty2

MCtty == (p1 :> tty1) @@ (p2 :> tty1) @@ (p3 :> tty2) @@ (p4 :> Nothing)

=============================================================================
