---------------------------- MODULE OwnedDevice ----------------------------
(***************************************************************************)
(* What the access-controlled scull devices scull_uid and scull_wuid       *)
(* promise: while somebody has the device open it belongs to the user who  *)
(* found it free, and only that user's processes, those that act for that  *)
(* user, and the privileged ones may open it as well.                      *)
(***************************************************************************)
CONSTANTS
    Procs,       \* the processes
    Privileged,  \* those with CAP_DAC_OVERRIDE
    uid, euid,   \* the real and the effective user of each process
    Nobody       \* stands for the owner of a device that nobody has open

VARIABLES
    holders,     \* the processes that have the device open
    owner        \* the user the device belongs to

vars == <<holders, owner>>

Init ==
    /\ holders = {}
    /\ owner = Nobody

Acquire(p) ==
    /\ p \notin holders
    /\ \/ holders = {}
       \/ owner \in {uid[p], euid[p]}
       \/ p \in Privileged
    /\ holders' = holders \cup {p}
    /\ owner' = IF holders = {} THEN uid[p] ELSE owner

Release(p) ==
    /\ p \in holders
    /\ holders' = holders \ {p}
    /\ owner' = IF holders' = {} THEN Nobody ELSE owner

Next == \E p \in Procs : Acquire(p) \/ Release(p)

Spec == Init /\ [][Next]_vars

=============================================================================
