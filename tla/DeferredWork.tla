---------------------------- MODULE DeferredWork ----------------------------
(***************************************************************************)
(* misc_modules/jiq.c and jit.c: a read sets work going that runs later,   *)
(* prints a line into the reader's buffer and sets itself going again,     *)
(* until left_loops runs out and it wakes the reader.  The work is a work  *)
(* item (jiq), a timer or a tasklet (jit), with one static structure each; *)
(* time, and so the delayed variants, is left out.                         *)
(*                                                                         *)
(* jiq counts down before it prints and its reader sleeps once; jit prints *)
(* before it counts down and its reader waits for left_loops to be 0.      *)
(***************************************************************************)
EXTENDS Naturals

CONSTANTS
    Procs,        \* the processes
    Signallable,  \* those that may get a signal while they read
    Loops,        \* the initial left_loops
    ReadsApart    \* hypothesis: no two reads of a structure overlap

VARIABLES
    d,        \* the three static structures
    reading,  \* the structure each process reads
    sig,      \* the processes with a signal pending
    pc        \* the next step of each process

Structures == {"cdata", "jitimer_data", "jitasklet_data"}

WaitSteps == {"j_sched", "j_sleep", "t_prep", "t_cond", "t_sleep"}
CopySteps == {"j_copy", "t_copy"}

(* Beside left_loops and the wait queue wq, of each structure: buf, the    *)
(* process into whose buffer it points; lines, those in each process's     *)
(* buffer; lost, the waiters whose queue was made anew under them; armed,  *)
(* whether the work is scheduled; step, where it is.                       *)
Idle == [left_loops |-> 0, buf |-> "none", lines |-> [p \in Procs |-> 0],
         wq |-> {}, lost |-> {}, armed |-> FALSE, step |-> "idle"]

Goto(p, step) == pc' = [pc EXCEPT ![p] = step]

(* No read of the structure and no work for it is under way, but for the   *)
(* wake_up of a timer that ran for the last time.                          *)
Quiet(s) ==
    /\ \A q \in Procs : reading[q] /= s
    /\ ~d[s].armed
    /\ d[s].step \in IF s = "jitimer_data" THEN {"idle", "wake"} ELSE {"idle"}

(* Where work is that is set up anew while it is queued or, in jit, while  *)
(* it runs: the kernel has it in a list twice, or runs it twice at once,   *)
(* or add_timer stops at a pending timer.  What it does then is left out.  *)
SetUpAnew(s) ==
    IF \/ d[s].armed
       \/ s = "jitimer_data" /\ d[s].step \in {"print", "dec"}
       \/ s = "jitasklet_data" /\ d[s].step /= "idle"
    THEN "corrupt"
    ELSE d[s].step

(* Nothing in the code keeps a second reader out.  It takes the structure  *)
(* over: the lines still to come go into its buffer, and those who wait in *)
(* the queue are no longer in it.                                          *)
Start(p, s, to, queue, armed) ==
    /\ pc[p] = "idle"
    /\ ReadsApart => Quiet(s)
    /\ reading' = [reading EXCEPT ![p] = s]
    /\ d' = [d EXCEPT ![s] = [left_loops |-> Loops, buf |-> p,
                              lines |-> [d[s].lines EXCEPT ![p] = 0],
                              wq |-> queue, lost |-> d[s].lost \cup d[s].wq,
                              armed |-> armed, step |-> SetUpAnew(s)]]
    /\ Goto(p, to)
    /\ UNCHANGED sig

(* Nobody wakes a waiter that is still queued, nor one that was lost.      *)
Woken(p, s) == p \notin d[s].wq \cup d[s].lost

(* The reader takes its entry out of the queue.  The entry of one that was *)
(* lost still points at the queue, so others may be lost with it.          *)
Unqueue(p, s, to) ==
    /\ \E gone \in IF p \in d[s].lost THEN SUBSET (d[s].wq \ {p}) ELSE {{}} :
           d' = [d EXCEPT ![s].wq = @ \ (gone \cup {p}), ![s].lost = (@ \cup gone) \ {p}]
    /\ Goto(p, to)
    /\ UNCHANGED <<reading, sig>>

(* Copy the buffer out and return.  jiq then frees it, jit only when the   *)
(* copy failed; nothing else is left of it.                                *)
Finish(p, from) ==
    /\ pc[p] = from
    /\ reading' = [reading EXCEPT ![p] = "none"]
    /\ sig' = sig \ {p}
    /\ Goto(p, "idle")
    /\ UNCHANGED d

-----------------------------------------------------------------------------
(* jiq: the reader queues itself, schedules the work and sleeps once.      *)

schedule_wq(p) ==
    /\ pc[p] = "j_sched"
    /\ d' = [d EXCEPT !["cdata"].armed = TRUE]
    /\ Goto(p, "j_sleep")
    /\ UNCHANGED <<reading, sig>>

(* schedule() returns when the reader was woken or has a signal.           *)
jiq_wq_wakeup(p) ==
    /\ pc[p] = "j_sleep"
    /\ Woken(p, "cdata") \/ p \in sig
    /\ Unqueue(p, "cdata", "j_copy")

jiq_wq(p) ==
    \/ Start(p, "cdata", "j_sched", {p}, FALSE)
    \/ schedule_wq(p)
    \/ jiq_wq_wakeup(p)
    \/ Finish(p, "j_copy")

(* A step of the work for structure s.                                     *)
WorkStep(s, from, new) ==
    /\ d[s].step = from
    /\ d' = [d EXCEPT ![s] = new]
    /\ UNCHANGED <<reading, sig, pc>>

Run(s, to) ==
    /\ d[s].armed
    /\ WorkStep(s, "idle", [d[s] EXCEPT !.armed = FALSE, !.step = to])

(* sprintf at buf, whosever buffer that is by now.                         *)
PrintLine(s, to) ==
    WorkStep(s, "print", [d[s] EXCEPT !.lines[d[s].buf] = @ + 1, !.step = to])

jiq_print ==
    \/ WorkStep("cdata", "dec", [d["cdata"] EXCEPT !.left_loops = @ - 1, !.step = "print"])
    \/ PrintLine("cdata", "test")

(* Mutant: the reader is woken after every line.                           *)
jiq_print_wq_every ==
    \/ Run("cdata", "dec")
    \/ jiq_print
    \/ WorkStep("cdata", "test",
           [d["cdata"] EXCEPT !.wq = {}, !.armed = d["cdata"].left_loops /= 0, !.step = "idle"])

jiq_print_wq ==
    \/ Run("cdata", "dec")
    \/ jiq_print
    \/ WorkStep("cdata", "test",
           IF d["cdata"].left_loops = 0
           THEN [d["cdata"] EXCEPT !.wq = {}, !.step = "idle"]
           ELSE [d["cdata"] EXCEPT !.armed = TRUE, !.step = "idle"])

-----------------------------------------------------------------------------
(* jit: the reader starts the work and waits for left_loops to be 0.       *)

(* wait_event_interruptible, whose result nobody looks at.                 *)
jit_wait(p) ==
    LET s == reading[p] IN
    \/ /\ pc[p] = "t_prep"
       /\ d' = [d EXCEPT ![s].wq = @ \cup {p}]
       /\ Goto(p, "t_cond")
       /\ UNCHANGED <<reading, sig>>
    \/ /\ pc[p] = "t_cond"
       /\ IF d[s].left_loops = 0 \/ p \in sig
          THEN Unqueue(p, s, "t_copy")
          ELSE Goto(p, "t_sleep") /\ UNCHANGED <<d, reading, sig>>
    \/ /\ pc[p] = "t_sleep"
       /\ Woken(p, s) \/ p \in sig
       /\ Unqueue(p, s, "t_prep")

jit_timer(p) ==
    \/ Start(p, "jitimer_data", "t_prep", {}, TRUE)
    \/ jit_wait(p)
    \/ Finish(p, "t_copy")

jit_tasklet(p) ==
    \/ Start(p, "jitasklet_data", "t_prep", {}, TRUE)
    \/ jit_wait(p)
    \/ Finish(p, "t_copy")

(* Count down, and schedule again or go on to the wake_up.                 *)
CountDown(s) ==
    WorkStep(s, "dec",
        [d[s] EXCEPT !.left_loops = @ - 1,
                     !.armed = d[s].left_loops > 1,
                     !.step = IF d[s].left_loops > 1 THEN "idle" ELSE "wake"])

Wake(s) == WorkStep(s, "wake", [d[s] EXCEPT !.wq = {}, !.step = "idle"])

(* Mutant: count down first, as jiq does, and print afterwards.            *)
jit_timer_fn_late ==
    \/ Run("jitimer_data", "dec")
    \/ WorkStep("jitimer_data", "dec",
           [d["jitimer_data"] EXCEPT !.left_loops = @ - 1, !.step = "print"])
    \/ WorkStep("jitimer_data", "print",
           [d["jitimer_data"] EXCEPT
               !.lines[d["jitimer_data"].buf] = @ + 1,
               !.armed = d["jitimer_data"].left_loops > 0,
               !.step = IF d["jitimer_data"].left_loops > 0 THEN "idle" ELSE "wake"])
    \/ Wake("jitimer_data")

jit_timer_fn ==
    \/ Run("jitimer_data", "print")
    \/ PrintLine("jitimer_data", "dec")
    \/ CountDown("jitimer_data")
    \/ Wake("jitimer_data")

(* Mutant: the last run wakes nobody.                                      *)
jit_tlet_fn_silent ==
    \/ Run("jitasklet_data", "print")
    \/ PrintLine("jitasklet_data", "dec")
    \/ CountDown("jitasklet_data")

jit_tlet_fn ==
    \/ Run("jitasklet_data", "print")
    \/ PrintLine("jitasklet_data", "dec")
    \/ CountDown("jitasklet_data")
    \/ Wake("jitasklet_data")

-----------------------------------------------------------------------------
Signal(p) ==
    /\ p \in Signallable \ sig
    /\ pc[p] \in WaitSteps
    /\ sig' = sig \cup {p}
    /\ UNCHANGED <<d, reading, pc>>

Init ==
    /\ d = [s \in Structures |-> Idle]
    /\ reading = [p \in Procs |-> "none"]

Work == jiq_print_wq \/ jit_timer_fn \/ jit_tlet_fn

-----------------------------------------------------------------------------
(* Properties *)

(* A read of jiq or jit that no signal cut short shows every line once,    *)
(* whenever it looks at left_loops and wherever the work is then.  jiq     *)
(* takes the length of the report from where buf points.                   *)
CompleteReport ==
    \A p \in Procs :
        pc[p] \in CopySteps /\ p \notin sig =>
            /\ d[reading[p]].lines[p] = Loops
            /\ pc[p] = "j_copy" => d["cdata"].buf = p

(* A read of jiq or jit returns.                                           *)
ReportReturns ==
    \A p \in Procs : pc[p] \in WaitSteps \cup CopySteps ~> pc[p] = "idle"

=============================================================================
