------------------------------ MODULE ScullUid ------------------------------
(***************************************************************************)
(* The device scull_uid of scull/access.c: one user at a time, and the     *)
(* open of any other user fails with EBUSY.  A process has at most one     *)
(* file of the device.                                                     *)
(*                                                                         *)
(* Count and owner are only touched under scull_u_lock, so a handler is    *)
(* the steps spin_lock, test, and everything up to spin_unlock.  scull_trim*)
(* runs inside that lock, but a read or a write of an open file does not   *)
(* take it: Busy processes are in such a call.                             *)
(***************************************************************************)
EXTENDS AccessUsers

VARIABLES
    scull_u_count,  \* how many files of the device are open
    scull_u_owner,  \* the user it belongs to
    scull_u_lock,   \* the process that holds the spinlock, or Nobody
    trimmed,        \* history: the processes whose call in progress lost its data
    pc              \* the next step of each process

vars == <<scull_u_count, scull_u_owner, scull_u_lock, trimmed, pc>>

LockedSteps == {"o_test", "o_take", "c_drop"}

Goto(p, step) == pc' = [pc EXCEPT ![p] = step]

spin_lock(p, from, to) ==
    /\ pc[p] = from
    /\ scull_u_lock = Nobody
    /\ scull_u_lock' = p
    /\ Goto(p, to)
    /\ UNCHANGED <<scull_u_count, scull_u_owner, trimmed>>

spin_unlock == scull_u_lock' = Nobody

OwnerMatches(p) == scull_u_owner \in {uid[p], euid[p]} \/ p \in Privileged

(* Both handlers start where their caller is and wait for the lock.        *)
Call(p, from, to) ==
    /\ pc[p] = from
    /\ Goto(p, to)
    /\ UNCHANGED <<scull_u_count, scull_u_owner, scull_u_lock, trimmed>>

-----------------------------------------------------------------------------
(* scull_u_open *)

(* Mutant: EBUSY is returned with the lock held.                           *)
scull_u_open_test_locked(p) ==
    /\ pc[p] = "o_test"
    /\ IF scull_u_count > 0 /\ ~OwnerMatches(p)
       THEN Goto(p, "closed")
       ELSE Goto(p, "o_take")
    /\ UNCHANGED <<scull_u_count, scull_u_owner, scull_u_lock, trimmed>>

(* Mutant: one open file is not enough to refuse another user.             *)
scull_u_open_test_two(p) ==
    /\ pc[p] = "o_test"
    /\ IF scull_u_count > 1 /\ ~OwnerMatches(p)
       THEN spin_unlock /\ Goto(p, "closed")
       ELSE Goto(p, "o_take") /\ UNCHANGED scull_u_lock
    /\ UNCHANGED <<scull_u_count, scull_u_owner, trimmed>>

scull_u_open_test(p) ==
    /\ pc[p] = "o_test"
    /\ IF scull_u_count > 0 /\ ~OwnerMatches(p)
       THEN spin_unlock /\ Goto(p, "closed")
       ELSE Goto(p, "o_take") /\ UNCHANGED scull_u_lock
    /\ UNCHANGED <<scull_u_count, scull_u_owner, trimmed>>

(* Mutant: only the first open is counted.                                 *)
scull_u_open_take_first(p) ==
    /\ pc[p] = "o_take"
    /\ scull_u_owner' = IF scull_u_count = 0 THEN uid[p] ELSE scull_u_owner
    /\ scull_u_count' = 1
    /\ \/ UNCHANGED trimmed
       \/ trimmed' = trimmed \cup {q \in Procs : pc[q] = "busy"}
    /\ spin_unlock
    /\ Goto(p, "open")

(* A write-only open trims the device, under the calls of other files.     *)
scull_u_open_take(p) ==
    /\ pc[p] = "o_take"
    /\ scull_u_owner' = IF scull_u_count = 0 THEN uid[p] ELSE scull_u_owner
    /\ scull_u_count' = scull_u_count + 1
    /\ \/ UNCHANGED trimmed
       \/ trimmed' = trimmed \cup {q \in Procs : pc[q] = "busy"}
    /\ spin_unlock
    /\ Goto(p, "open")

scull_u_open(p) ==
    \/ Call(p, "closed", "o_lock")
    \/ spin_lock(p, "o_lock", "o_test")
    \/ scull_u_open_test(p)
    \/ scull_u_open_take(p)

-----------------------------------------------------------------------------
(* scull_u_release *)

scull_u_release_drop(p) ==
    /\ pc[p] = "c_drop"
    /\ scull_u_count' = scull_u_count - 1
    /\ scull_u_owner' = IF scull_u_count' = 0 THEN Root ELSE scull_u_owner
    /\ spin_unlock
    /\ Goto(p, "closed")
    /\ UNCHANGED trimmed

scull_u_release(p) ==
    \/ Call(p, "open", "c_lock")
    \/ spin_lock(p, "c_lock", "c_drop")
    \/ scull_u_release_drop(p)

(* scull_read or scull_write through the open file (module ScullMem).      *)
UseCall(p) ==
    \/ Call(p, "open", "busy")
    \/ /\ pc[p] = "busy"
       /\ Goto(p, "open")
       /\ trimmed' = trimmed \ {p}
       /\ UNCHANGED <<scull_u_count, scull_u_owner, scull_u_lock>>

Init ==
    /\ scull_u_count = 0
    /\ scull_u_owner = Root
    /\ scull_u_lock = Nobody
    /\ trimmed = {}
    /\ pc = [p \in Procs |-> "closed"]

Next == \E p \in Procs : scull_u_open(p) \/ scull_u_release(p) \/ UseCall(p)

Spec == Init /\ [][Next]_vars

-----------------------------------------------------------------------------
(* Properties *)

(* The processes whose open has counted them and whose release has not yet *)
(* taken them off.                                                         *)
Holders == {p \in Procs : pc[p] \in {"open", "busy", "c_lock", "c_drop"}}

(* The count is the number of holders, and the lock is held by the one     *)
(* process between spin_lock and spin_unlock.                              *)
UidCountExact ==
    /\ scull_u_count = Cardinality(Holders)
    /\ \A p \in Procs : pc[p] \in LockedSteps <=> scull_u_lock = p

(* A write-only open may pull the data from under a read or a write in     *)
(* progress, but never from under another user's: the process that trims   *)
(* and the one that loses its data were both let in by the same owner.     *)
TrimsOwn ==
    [][\A p \in Procs \ Holders, q \in trimmed' \ trimmed :
          p \in Holders' => OwnerMatches(p) /\ OwnerMatches(q)]_vars

Owned == INSTANCE OwnedDevice
             WITH holders <- Holders,
                  owner   <- IF Holders = {} THEN Nobody ELSE scull_u_owner

(* scull_u_open and scull_u_release are those of a device that belongs to  *)
(* one user at a time.                                                     *)
UidImplementsOwned == Owned!Spec

=============================================================================
