----------------------------- MODULE Completion -----------------------------
(***************************************************************************)
(* completion/completion.c: a read waits for the completion my_comp, a     *)
(* write completes it.  The kernel's struct completion is external: a      *)
(* count of completions not yet used, and a queue of those who wait, which *)
(* both operations change under its lock.  The wait cannot be interrupted. *)
(***************************************************************************)
EXTENDS Naturals, Sequences

CONSTANTS
    Procs,     \* the processes
    MaxWrites  \* bound: no more writes than this

VARIABLES
    done,      \* completions that no read has used yet
    waitq,     \* the processes that wait, in order
    writes,    \* history: the writes that have returned
    passed,    \* history: the reads that have returned
    pc         \* the next step of each process

Goto(p, step) == pc' = [pc EXCEPT ![p] = step]

(* Use a completion, or queue up; a process that was woken and finds that  *)
(* another took its completion queues up again, behind the others.         *)
wait_for_completion(p) ==
    IF done > 0
    THEN /\ done' = done - 1
         /\ passed' = passed + 1
         /\ Goto(p, "idle")
         /\ UNCHANGED waitq
    ELSE /\ waitq' = Append(waitq, p)
         /\ Goto(p, "asleep")
         /\ UNCHANGED <<done, passed>>

(* Wake the first of those who wait.                                       *)
complete ==
    /\ done' = done + 1
    /\ IF waitq = << >>
       THEN UNCHANGED <<waitq, pc>>
       ELSE waitq' = Tail(waitq) /\ Goto(Head(waitq), "woken")

(* What complete_all does, which completion.c does not call: every waiter  *)
(* and every later read gets through.                                      *)
complete_all ==
    /\ done' = MaxWrites + 1
    /\ waitq' = << >>
    /\ pc' = [p \in DOMAIN pc |-> IF pc[p] = "asleep" THEN "woken" ELSE pc[p]]

completion_read(p) ==
    /\ pc[p] \in {"idle", "woken"}
    /\ wait_for_completion(p)
    /\ UNCHANGED writes

(* Mutant: the write lets all readers go, as its message says.             *)
completion_write_all(p) ==
    /\ pc[p] = "idle"
    /\ writes < MaxWrites
    /\ complete_all
    /\ writes' = writes + 1
    /\ UNCHANGED passed

(* Mutant: the write completes only beside readers that already wait.      *)
completion_write_waiters(p) ==
    /\ pc[p] = "idle"
    /\ writes < MaxWrites
    /\ IF waitq = << >> THEN UNCHANGED <<done, waitq, pc>> ELSE complete
    /\ writes' = writes + 1
    /\ UNCHANGED passed

completion_write(p) ==
    /\ pc[p] = "idle"
    /\ writes < MaxWrites
    /\ complete
    /\ writes' = writes + 1
    /\ UNCHANGED passed

Init ==
    /\ done = 0
    /\ waitq = << >>
    /\ writes = 0
    /\ passed = 0

Caller(p) == completion_read(p) \/ completion_write(p)

-----------------------------------------------------------------------------
(* Properties *)

(* A write lets one read through, now or later, and never a second: reads  *)
(* that come while others wait, and waiters that were overtaken, return no *)
(* more often than there were writes.                                      *)
OneReadPerWrite == passed <= writes

(* A read gets through while there were more writes than reads that        *)
(* returned, whether the writes came before it or while it slept.          *)
WritesLetReadsThrough ==
    \A p \in Procs : \A n \in 0 .. MaxWrites :
        pc[p] \in {"asleep", "woken"} /\ passed = n /\ writes > n ~> passed > n

=============================================================================
