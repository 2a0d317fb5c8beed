---------------------------- MODULE AccessUsers ----------------------------
(***************************************************************************)
(* The processes that open scull_uid and scull_wuid, the two devices of    *)
(* scull/access.c that one user at a time may have, and their users.       *)
(***************************************************************************)
EXTENDS Integers, FiniteSets

CONSTANTS
    Procs,        \* the processes
    Privileged,   \* those with CAP_DAC_OVERRIDE
    Users,        \* the users
    Root,         \* the user KUIDT_INIT(0)
    uid, euid,    \* the real and the effective user of each process
    Nobody        \* no process, no user

ASSUME UserAssumption ==
    /\ IsFiniteSet(Procs)
    /\ Privileged \subseteq Procs
    /\ Root \in Users
    /\ uid \in [Procs -> Users]
    /\ euid \in [Procs -> Users]
    /\ Nobody \notin Procs \cup Users

=============================================================================
