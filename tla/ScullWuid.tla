----------------------------- MODULE ScullWuid -----------------------------
(***************************************************************************)
(* The device scull_wuid of scull/access.c: one user at a time, and the    *)
(* others wait in open.  A process has at most one file of the device.     *)
(*                                                                         *)
(* scull_w_lock is a spinlock, so its critical sections exclude each other *)
(* but not the wait for the device, which looks at scull_w_count and       *)
(* scull_w_owner without it: each store and each of those loads is a step. *)
(***************************************************************************)
EXTENDS AccessUsers

CONSTANTS
    Signallable,  \* the processes that may get a signal while they open the device
    OpenFlags     \* the open flags the processes use

ASSUME WuidAssumption ==
    /\ Signallable \subseteq Procs
    /\ OpenFlags \subseteq SUBSET {"O_WRONLY", "O_NONBLOCK"}

VARIABLES
    scull_w_count,  \* how many files of the device are open
    scull_w_owner,  \* the user it belongs to
    scull_w_lock,   \* the process that holds the spinlock, or Nobody
    scull_w_wait,   \* the processes queued in wait_event and not yet woken
    stored,         \* whether the device holds data
    f_flags,        \* the flags each process opened the device with
    sig,            \* the processes with a signal pending
    pc              \* the next step of each process

owning == <<scull_w_count, scull_w_owner>>
vars   == <<owning, scull_w_lock, scull_w_wait, stored, f_flags, sig, pc>>

LockedSteps == {"o_test", "o_owner", "o_count", "c_count", "c_owner"}
WaitSteps   == {"o_prep", "o_cond_count", "o_cond_owner", "o_sleep"}
OpenSteps   == {"o_lock", "o_test", "o_owner", "o_count"} \cup WaitSteps
CloseSteps  == {"c_lock", "c_count", "c_owner", "c_wake"}
Steps       == {"closed", "open"} \cup OpenSteps \cup CloseSteps

Goto(p, step) == pc' = [pc EXCEPT ![p] = step]

(* The system call ends, and with it the signal's wait to be handled.      *)
Return(p, step) ==
    /\ Goto(p, step)
    /\ sig' = sig \ {p}

spin_lock(p, from, to) ==
    /\ pc[p] = from
    /\ scull_w_lock = Nobody
    /\ scull_w_lock' = p
    /\ Goto(p, to)
    /\ UNCHANGED <<owning, scull_w_wait, stored, f_flags, sig>>

spin_unlock == scull_w_lock' = Nobody

(* The part of scull_w_available that does not depend on the count.        *)
OwnerMatches(p) == scull_w_owner \in {uid[p], euid[p]} \/ p \in Privileged

(* Mutant: one open file is not enough to refuse another user.             *)
scull_w_available_two(p) == scull_w_count <= 1 \/ OwnerMatches(p)

scull_w_available(p) == scull_w_count = 0 \/ OwnerMatches(p)

-----------------------------------------------------------------------------
(* scull_w_open *)

OpenCall(p) ==
    /\ pc[p] = "closed"
    /\ \E flags \in OpenFlags : f_flags' = [f_flags EXCEPT ![p] = flags]
    /\ Goto(p, "o_lock")
    /\ UNCHANGED <<owning, scull_w_lock, scull_w_wait, stored, sig>>

(* Mutant: EAGAIN is returned with the lock held.                          *)
scull_w_open_test_locked(p) ==
    /\ pc[p] = "o_test"
    /\ IF scull_w_available(p)
       THEN Goto(p, "o_owner") /\ UNCHANGED <<scull_w_lock, sig>>
       ELSE IF "O_NONBLOCK" \in f_flags[p]
            THEN Return(p, "closed") /\ UNCHANGED scull_w_lock
            ELSE spin_unlock /\ Goto(p, "o_prep") /\ UNCHANGED sig
    /\ UNCHANGED <<owning, scull_w_wait, stored, f_flags>>

(* Mutant: a write-only open trims before it knows whether it may open.    *)
scull_w_open_test_trims(p) ==
    /\ pc[p] = "o_test"
    /\ stored' = (stored /\ "O_WRONLY" \notin f_flags[p])
    /\ IF scull_w_available(p)
       THEN Goto(p, "o_owner") /\ UNCHANGED <<scull_w_lock, sig>>
       ELSE /\ spin_unlock
            /\ IF "O_NONBLOCK" \in f_flags[p]
               THEN Return(p, "closed")
               ELSE Goto(p, "o_prep") /\ UNCHANGED sig
    /\ UNCHANGED <<owning, scull_w_wait, f_flags>>

scull_w_open_test(p) ==
    /\ pc[p] = "o_test"
    /\ IF scull_w_available(p)
       THEN /\ Goto(p, "o_owner")
            /\ UNCHANGED <<scull_w_lock, sig>>
       ELSE /\ spin_unlock
            /\ IF "O_NONBLOCK" \in f_flags[p]
               THEN Return(p, "closed")
               ELSE Goto(p, "o_prep") /\ UNCHANGED sig
    /\ UNCHANGED <<owning, scull_w_wait, stored, f_flags>>

(* Mutant: queue and sleep without another look at the device.             *)
scull_w_open_prepare_blind(p) ==
    /\ pc[p] = "o_prep"
    /\ scull_w_wait' = scull_w_wait \cup {p}
    /\ Goto(p, "o_sleep")
    /\ UNCHANGED <<owning, scull_w_lock, stored, f_flags, sig>>

(* wait_event_interruptible: queue first, look afterwards, at the count    *)
(* and then at the owner.                                                  *)
scull_w_open_prepare(p) ==
    /\ pc[p] = "o_prep"
    /\ scull_w_wait' = scull_w_wait \cup {p}
    /\ Goto(p, "o_cond_count")
    /\ UNCHANGED <<owning, scull_w_lock, stored, f_flags, sig>>

scull_w_open_cond_count(p) ==
    /\ pc[p] = "o_cond_count"
    /\ IF scull_w_count = 0
       THEN /\ scull_w_wait' = scull_w_wait \ {p}
            /\ Goto(p, "o_lock")
       ELSE /\ Goto(p, "o_cond_owner")
            /\ UNCHANGED scull_w_wait
    /\ UNCHANGED <<owning, scull_w_lock, stored, f_flags, sig>>

scull_w_open_cond_owner(p) ==
    /\ pc[p] = "o_cond_owner"
    /\ \/ /\ OwnerMatches(p)
          /\ scull_w_wait' = scull_w_wait \ {p}
          /\ Goto(p, "o_lock")
          /\ UNCHANGED sig
       \/ /\ ~OwnerMatches(p)
          /\ p \in sig
          /\ scull_w_wait' = scull_w_wait \ {p}
          /\ Return(p, "closed")
       \/ /\ ~OwnerMatches(p)
          /\ p \notin sig
          /\ Goto(p, "o_sleep")
          /\ UNCHANGED <<scull_w_wait, sig>>
    /\ UNCHANGED <<owning, scull_w_lock, stored, f_flags>>

scull_w_open_wakeup(p) ==
    /\ pc[p] = "o_sleep"
    /\ p \notin scull_w_wait \/ p \in sig
    /\ Goto(p, "o_prep")
    /\ UNCHANGED <<owning, scull_w_lock, scull_w_wait, stored, f_flags, sig>>

(* Mutant: the owner is set as if the count had been raised already.       *)
scull_w_open_owner_late(p) ==
    /\ pc[p] = "o_owner"
    /\ scull_w_owner' = IF scull_w_count = 1 THEN uid[p] ELSE scull_w_owner
    /\ Goto(p, "o_count")
    /\ UNCHANGED <<scull_w_count, scull_w_lock, scull_w_wait, stored, f_flags, sig>>

scull_w_open_owner(p) ==
    /\ pc[p] = "o_owner"
    /\ scull_w_owner' = IF scull_w_count = 0 THEN uid[p] ELSE scull_w_owner
    /\ Goto(p, "o_count")
    /\ UNCHANGED <<scull_w_count, scull_w_lock, scull_w_wait, stored, f_flags, sig>>

(* scull_w_count++, scull_trim when the file is write-only, spin_unlock.   *)
scull_w_open_count(p) ==
    /\ pc[p] = "o_count"
    /\ scull_w_count' = scull_w_count + 1
    /\ stored' = (stored /\ "O_WRONLY" \notin f_flags[p])
    /\ spin_unlock
    /\ Return(p, "open")
    /\ UNCHANGED <<scull_w_owner, scull_w_wait, f_flags>>

scull_w_open(p) ==
    \/ OpenCall(p)
    \/ spin_lock(p, "o_lock", "o_test")
    \/ scull_w_open_test(p)
    \/ scull_w_open_prepare(p)
    \/ scull_w_open_cond_count(p)
    \/ scull_w_open_cond_owner(p)
    \/ scull_w_open_wakeup(p)
    \/ scull_w_open_owner(p)
    \/ scull_w_open_count(p)

-----------------------------------------------------------------------------
(* scull_w_release *)

ReleaseCall(p) ==
    /\ pc[p] = "open"
    /\ Goto(p, "c_lock")
    /\ UNCHANGED <<owning, scull_w_lock, scull_w_wait, stored, f_flags, sig>>

scull_w_release_count(p) ==
    /\ pc[p] = "c_count"
    /\ scull_w_count' = scull_w_count - 1
    /\ Goto(p, "c_owner")
    /\ UNCHANGED <<scull_w_owner, scull_w_lock, scull_w_wait, stored, f_flags, sig>>

(* The owner is reset, temp is the count, spin_unlock.                     *)
scull_w_release_owner(p) ==
    /\ pc[p] = "c_owner"
    /\ scull_w_owner' = IF scull_w_count = 0 THEN Root ELSE scull_w_owner
    /\ spin_unlock
    /\ Goto(p, IF scull_w_count = 0 THEN "c_wake" ELSE "closed")
    /\ UNCHANGED <<scull_w_count, scull_w_wait, stored, f_flags, sig>>

(* Mutant: nobody is woken.                                                *)
scull_w_release_wake_none(p) ==
    /\ pc[p] = "c_wake"
    /\ Goto(p, "closed")
    /\ UNCHANGED <<owning, scull_w_lock, scull_w_wait, stored, f_flags, sig>>

scull_w_release_wake(p) ==
    /\ pc[p] = "c_wake"
    /\ scull_w_wait' = {}
    /\ Goto(p, "closed")
    /\ UNCHANGED <<owning, scull_w_lock, stored, f_flags, sig>>

scull_w_release(p) ==
    \/ ReleaseCall(p)
    \/ spin_lock(p, "c_lock", "c_count")
    \/ scull_w_release_count(p)
    \/ scull_w_release_owner(p)
    \/ scull_w_release_wake(p)

-----------------------------------------------------------------------------
(* A write to the open device: scull_write, of which only that it leaves   *)
(* data behind matters here.                                               *)
scull_write(p) ==
    /\ pc[p] = "open"
    /\ stored' = TRUE
    /\ UNCHANGED <<owning, scull_w_lock, scull_w_wait, f_flags, sig, pc>>

Signal(p) ==
    /\ p \in Signallable \ sig
    /\ pc[p] \in OpenSteps
    /\ sig' = sig \cup {p}
    /\ UNCHANGED <<owning, scull_w_lock, scull_w_wait, stored, f_flags, pc>>

Init ==
    /\ scull_w_count = 0
    /\ scull_w_owner = Root
    /\ scull_w_lock = Nobody
    /\ scull_w_wait = {}
    /\ stored = FALSE
    /\ f_flags = [p \in Procs |-> {}]
    /\ sig = {}
    /\ pc = [p \in Procs |-> "closed"]

Next ==
    \E p \in Procs :
        \/ scull_w_open(p)
        \/ scull_w_release(p)
        \/ scull_write(p)
        \/ Signal(p)

Spec == Init /\ [][Next]_vars

-----------------------------------------------------------------------------
(* Properties *)

(* Every variable keeps its type.                                          *)
TypeOK ==
    /\ scull_w_count \in Int
    /\ scull_w_owner \in Users
    /\ scull_w_lock \in Procs \cup {Nobody}
    /\ scull_w_wait \subseteq Procs
    /\ stored \in BOOLEAN
    /\ f_flags \in [Procs -> SUBSET {"O_WRONLY", "O_NONBLOCK"}]
    /\ sig \subseteq Procs
    /\ pc \in [Procs -> Steps]

(* The processes whose open has counted them and whose release has not yet *)
(* taken them off.                                                         *)
Holders == {p \in Procs : pc[p] \in {"open", "c_lock", "c_count"}}

(* The count is the number of holders, so scull_w_release finds it zero    *)
(* exactly when the last of them goes; and the spinlock is held by the one *)
(* process that is between spin_lock and spin_unlock.                      *)
CountExact ==
    /\ scull_w_count = Cardinality(Holders)
    /\ \A p \in Procs : pc[p] \in LockedSteps <=> scull_w_lock = p

(* Nobody holds the device against its owner: every holder is one of the   *)
(* owner's processes, or acts for the owner, or is privileged.             *)
Exclusive == \A p \in Holders : OwnerMatches(p)

WakesUp(q) == pc[q] = "c_wake" \/ (pc[q] = "c_owner" /\ scull_w_count = 0)

(* A process sleeps on in scull_w_open, queued and not woken, beside a     *)
(* device it may open only while some release has yet to call wake_up,     *)
(* although it looks at count and owner at two moments, without the lock,  *)
(* and the device may change hands in between.                             *)
NoLostWakeup ==
    \A p \in Procs :
        pc[p] = "o_sleep" /\ p \in scull_w_wait /\ scull_w_available(p) =>
            \E q \in Procs : WakesUp(q)

Owned == INSTANCE OwnedDevice
             WITH holders <- Holders,
                  owner   <- IF Holders = {} THEN Nobody ELSE scull_w_owner

(* The open and release handlers, waiting included, are those of a device  *)
(* that belongs to one user at a time.                                     *)
ImplementsOwned == Owned!Spec

(* The data is truncated only by a process that then has the device, and   *)
(* never under the open file of another user, privileged ones excepted.    *)
TruncatesOwn ==
    [][stored /\ ~stored' =>
         \E p \in Procs \ Holders :
             /\ p \in Holders'
             /\ p \in Privileged \/ Holders = {} \/ OwnerMatches(p)]_vars

-----------------------------------------------------------------------------
(* Fairness: the scheduler runs every process that can run; the kernel's   *)
(* spinlocks serve those who spin in turn.                                 *)
Fairness ==
    \A p \in Procs :
        /\ SF_vars(spin_lock(p, "o_lock", "o_test") \/ spin_lock(p, "c_lock", "c_count"))
        /\ WF_vars(/\ pc[p] \notin {"closed", "open"}
                   /\ scull_w_open(p) \/ scull_w_release(p))

FairSpec == Spec /\ Fairness

(* No process stays in scull_w_open for ever beside a device that is free  *)
(* from some time on, or that belongs to its user from some time on.  (One *)
(* that others keep closing and opening can starve it.)                    *)
OpenReturns ==
    \A p \in Procs :
        /\ ~<>[](pc[p] \in OpenSteps /\ scull_w_count = 0)
        /\ ~<>[](pc[p] \in OpenSteps /\ OwnerMatches(p))

=============================================================================
