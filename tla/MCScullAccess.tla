--------------------------- MODULE MCScullAccess ---------------------------
(* An instance of ScullWuid and of ScullUid for TLC: processes of two      *)
(* users.  The two devices share nothing but the processes, so in a        *)
(* behaviour all processes use the same one.                               *)
EXTENDS ScullWuid, TLC

CONSTANTS p1, p2, p3, alice, bob

(* p1 is alice's, p2 bob's; p3 is bob's and acts for alice.                *)
MCuid  == (p1 :> alice) @@ (p2 :> bob) @@ (p3 :> bob)
MCeuid == (p1 :> alice) @@ (p2 :> bob) @@ (p3 :> alice)

VARIABLES
    device,         \* the one in use
    scull_u_count, scull_u_owner, scull_u_lock, trimmed,
    step            \* the next step of each process in scull_uid

uidvars == <<scull_u_count, scull_u_owner, scull_u_lock, trimmed, step>>

U == INSTANCE ScullUid WITH pc <- step

AccessInit == device \in {"scull_uid", "scull_wuid"} /\ Init /\ U!Init

AccessNext ==
    \/ device = "scull_wuid" /\ Next /\ UNCHANGED <<device, uidvars>>
    \/ device = "scull_uid" /\ U!Next /\ UNCHANGED <<device, vars>>

AccessSpec == AccessInit /\ [][AccessNext]_<<device, vars, uidvars>> /\ Fairness

(* The properties of scull_uid: the count is exact, a truncation hits the  *)
(* own user's calls only, and the device is one that a user owns.          *)
UidCountExact      == U!UidCountExact
TrimsOwn           == U!TrimsOwn
UidImplementsOwned == U!UidImplementsOwned

=============================================================================
