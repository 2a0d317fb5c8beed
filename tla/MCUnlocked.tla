----------------------------- MODULE MCUnlocked -----------------------------
(* An instance of Globalmem and of ScullIoctl for TLC: the handlers that   *)
(* take no lock at all.  The two share nothing but the processes, so in a  *)
(* behaviour all processes use the same one.                               *)
EXTENDS Globalmem

CONSTANTS p1, p2, a, b

CONSTANTS
    Admins, Values,          \* of ScullIoctl
    QUANTUM_SIZE, QSET_SIZE

MCOffsets == {-1, 1, 3, 4, 7}

VARIABLES
    driver,  \* the one in use
    param, cmd, arg, tmp, err, ret, old, raced,
    step     \* the next step of each process in scull_ioctl

ioctl == <<param, cmd, arg, tmp, err, ret, old, raced, step>>

Ioctl == INSTANCE ScullIoctl WITH pc <- step

UnlockedInit == driver \in {"globalmem", "scull"} /\ Init /\ Ioctl!Init

UnlockedNext ==
    \/ driver = "globalmem" /\ Next /\ UNCHANGED <<driver, ioctl>>
    \/ driver = "scull" /\ Ioctl!Next /\ UNCHANGED <<driver, vars>>

UnlockedSpec == UnlockedInit /\ [][UnlockedNext]_<<driver, vars, ioctl>>

(* scull_ioctl: a number that an exchange of the quantum or a shift has    *)
(* replaced is lost to its caller by a race only.                          *)
LostOnlyByRace == Ioctl!LostOnlyByRace

(* scull_ioctl: only a call with CAP_SYS_ADMIN gives a parameter another   *)
(* value than its default.                                                 *)
OnlyAdminsTune == Ioctl!OnlyAdminsTune

=============================================================================
