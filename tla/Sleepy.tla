------------------------------- MODULE Sleepy -------------------------------
(***************************************************************************)
(* misc_modules/sleepy.c: a read sleeps until a write sets flag, and then  *)
(* clears flag for the next one.  Nothing guards flag: each load and each  *)
(* store of it is a step.  Module MiscModules runs it beside the others.   *)
(***************************************************************************)
EXTENDS Naturals

CONSTANTS
    Procs,        \* the processes
    Signallable   \* those that may get a signal while they read

VARIABLES
    flag,    \* set by a write, cleared by a read
    wq,      \* the processes queued in wait_event and not yet woken
    sig,     \* the processes with a signal pending
    pc       \* the next step of each process

ReadSteps  == {"r_prep", "r_cond", "r_sleep", "r_clear"}
WriteSteps == {"w_set", "w_wake"}

Goto(p, step) == pc' = [pc EXCEPT ![p] = step]

Call(p, to) ==
    /\ pc[p] = "idle"
    /\ Goto(p, to)
    /\ UNCHANGED <<flag, wq, sig>>

-----------------------------------------------------------------------------
(* sleepy_read: wait_event_interruptible queues first and looks afterwards. *)

(* Mutant: queue and sleep without a look at flag.                         *)
sleepy_read_prepare_blind(p) ==
    /\ pc[p] = "r_prep"
    /\ wq' = wq \cup {p}
    /\ Goto(p, "r_sleep")
    /\ UNCHANGED <<flag, sig>>

sleepy_read_prepare(p) ==
    /\ pc[p] = "r_prep"
    /\ wq' = wq \cup {p}
    /\ Goto(p, "r_cond")
    /\ UNCHANGED <<flag, sig>>

(* Nobody looks at what wait_event_interruptible returns: a read that was  *)
(* interrupted goes on as if it had been woken.                            *)
sleepy_read_cond(p) ==
    /\ pc[p] = "r_cond"
    /\ IF flag /= 0 \/ p \in sig
       THEN wq' = wq \ {p} /\ Goto(p, "r_clear")
       ELSE Goto(p, "r_sleep") /\ UNCHANGED wq
    /\ UNCHANGED <<flag, sig>>

sleepy_read_wakeup(p) ==
    /\ pc[p] = "r_sleep"
    /\ p \notin wq \/ p \in sig
    /\ Goto(p, "r_prep")
    /\ UNCHANGED <<flag, wq, sig>>

sleepy_read_clear(p) ==
    /\ pc[p] = "r_clear"
    /\ flag' = 0
    /\ sig' = sig \ {p}
    /\ Goto(p, "idle")
    /\ UNCHANGED wq

sleepy_read(p) ==
    \/ Call(p, "r_prep")
    \/ sleepy_read_prepare(p)
    \/ sleepy_read_cond(p)
    \/ sleepy_read_wakeup(p)
    \/ sleepy_read_clear(p)

-----------------------------------------------------------------------------
(* sleepy_write *)

sleepy_write_set(p) ==
    /\ pc[p] = "w_set"
    /\ flag' = 1
    /\ Goto(p, "w_wake")
    /\ UNCHANGED <<wq, sig>>

(* Mutant: nobody is woken.                                                *)
sleepy_write_wake_none(p) ==
    /\ pc[p] = "w_wake"
    /\ Goto(p, "idle")
    /\ UNCHANGED <<flag, wq, sig>>

sleepy_write_wake(p) ==
    /\ pc[p] = "w_wake"
    /\ wq' = {}
    /\ Goto(p, "idle")
    /\ UNCHANGED <<flag, sig>>

sleepy_write(p) ==
    \/ Call(p, "w_set")
    \/ sleepy_write_set(p)
    \/ sleepy_write_wake(p)

Signal(p) ==
    /\ p \in Signallable \ sig
    /\ pc[p] \in ReadSteps
    /\ sig' = sig \cup {p}
    /\ UNCHANGED <<flag, wq, pc>>

Init ==
    /\ flag = 0
    /\ wq = {}

Caller(p) == sleepy_read(p) \/ sleepy_write(p)

-----------------------------------------------------------------------------
(* Properties *)

(* A reader sleeps on, queued and not woken, with flag set only while some *)
(* write has yet to call wake_up.                                          *)
NoLostWakeup ==
    \A p \in Procs :
        pc[p] = "r_sleep" /\ p \in wq /\ flag /= 0 =>
            \E q \in Procs : pc[q] = "w_wake"

(* A write gets at least one reader through when there is one: with a      *)
(* reader in its call, flag is cleared again, which only a reader on its   *)
(* way out does.                                                           *)
OneGetsThrough ==
    \A p \in Procs : pc[p] \in ReadSteps /\ flag /= 0 ~> flag = 0

=============================================================================
