---------------------------- MODULE MiscModules ----------------------------
(***************************************************************************)
(* The drivers that make their callers wait: sleepy, completion, jiq, and  *)
(* the timer and the tasklet of jit.  They share nothing but the processes,*)
(* so in a behaviour all processes use the same one.                       *)
(***************************************************************************)
EXTENDS Naturals, Sequences

CONSTANTS
    Procs,        \* the processes
    Signallable,  \* those that may get a signal
    MaxWrites,    \* bound: no more writes of completion than this
    Loops,        \* the lines of a jiq or jit report
    ReadsApart    \* hypothesis: no two reads of a jiq or jit structure overlap

ASSUME MiscAssumption ==
    /\ "none" \notin Procs
    /\ Signallable \subseteq Procs
    /\ MaxWrites \in Nat
    /\ Loops \in Nat \ {0}
    /\ ReadsApart \in BOOLEAN

VARIABLES
    used,          \* the one in use
    flag, wq,      \* sleepy
    done, waitq,   \* completion
    writes, passed,
    d, reading,    \* jiq and jit
    sig,           \* the processes with a signal pending
    pc             \* the next step of each process

sleepy     == <<flag, wq>>
completion == <<done, waitq, writes, passed>>
deferred   == <<d, reading>>
vars       == <<used, sleepy, completion, deferred, sig, pc>>

S == INSTANCE Sleepy
C == INSTANCE Completion
W == INSTANCE DeferredWork

Init ==
    /\ used \in {"sleepy", "completion", "jiq", "jitimer", "jitasklet"}
    /\ S!Init
    /\ C!Init
    /\ W!Init
    /\ sig = {}
    /\ pc = [p \in Procs |-> "idle"]

Process(p) ==
    \/ used = "sleepy" /\ S!Caller(p) /\ UNCHANGED <<used, completion, deferred>>
    \/ used = "completion" /\ C!Caller(p) /\ UNCHANGED <<used, sleepy, deferred, sig>>
    \/ /\ \/ used = "jiq" /\ W!jiq_wq(p)
          \/ used = "jitimer" /\ W!jit_timer(p)
          \/ used = "jitasklet" /\ W!jit_tasklet(p)
       /\ UNCHANGED <<used, sleepy, completion>>

(* A process asleep in wait_for_completion cannot be interrupted.          *)
Signal(p) ==
    \/ S!Signal(p) /\ UNCHANGED <<used, completion, deferred>>
    \/ W!Signal(p) /\ UNCHANGED <<used, sleepy, completion>>

(* Work items, the timer and the tasklet.                                  *)
Work == W!Work /\ UNCHANGED <<used, sleepy, completion>>

Next == Work \/ \E p \in Procs : Process(p) \/ Signal(p)

(* The scheduler runs every process that can run, and the kernel runs the  *)
(* work that is due, each kind in a context of its own.  No process has to *)
(* make a call.                                                            *)
Fairness ==
    /\ \A p \in Procs : WF_vars(pc[p] /= "idle" /\ Process(p))
    /\ WF_vars(W!jiq_print_wq /\ UNCHANGED <<used, sleepy, completion>>)
    /\ WF_vars(W!jit_timer_fn /\ UNCHANGED <<used, sleepy, completion>>)
    /\ WF_vars(W!jit_tlet_fn /\ UNCHANGED <<used, sleepy, completion>>)

FairSpec == Init /\ [][Next]_vars /\ Fairness

-----------------------------------------------------------------------------
(* Properties: those of the drivers. *)

(* sleepy: no reader sleeps on beside a set flag nobody is about to signal.*)
NoLostWakeup == S!NoLostWakeup

(* sleepy: a write gets a reader through when there is one.                *)
OneGetsThrough == S!OneGetsThrough

(* completion: reads return no more often than there were writes.          *)
OneReadPerWrite == C!OneReadPerWrite

(* completion: a waiting read and a write nobody used get a read through.  *)
WritesLetReadsThrough == C!WritesLetReadsThrough

(* jiq and jit: a read that no signal cut short returns every line.        *)
CompleteReport == W!CompleteReport

(* jiq and jit: a read returns, and so does every wait it is built from.   *)
ReportReturns == W!ReportReturns

=============================================================================
