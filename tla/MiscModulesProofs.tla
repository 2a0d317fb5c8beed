------------------------- MODULE MiscModulesProofs --------------------------
(* Proofs about sleepy, completion, jiq and jit, for any processes, signals *)
(* and numbers of lines.                                                   *)
EXTENDS MiscModules, Integers, TLAPS

-----------------------------------------------------------------------------
(* The inductive invariant.                                                *)

SleepySteps     == {"idle"} \cup S!ReadSteps \cup S!WriteSteps
CompletionSteps == {"idle", "asleep", "woken"}
JiqSteps        == {"j_sched", "j_sleep", "j_copy"}
JitSteps        == {"t_prep", "t_cond", "t_sleep", "t_copy"}

(* The steps a process can be at while the driver u is in use.             *)
StepsOf(u) ==
    IF u = "sleepy" THEN SleepySteps
    ELSE IF u = "completion" THEN CompletionSteps
    ELSE IF u = "jiq" THEN {"idle"} \cup JiqSteps
    ELSE {"idle"} \cup JitSteps

Drivers == {"sleepy", "completion", "jiq", "jitimer", "jitasklet"}

PcTypes == used \in Drivers /\ pc \in [Procs -> StepsOf(used)]

(* completion: every write was used by one read or is there to be used.    *)
Accounted ==
    /\ done \in Nat /\ writes \in Nat /\ passed \in Nat
    /\ passed + done = writes

(* What holds whether reads of jiq and jit overlap or not.                 *)
Base == PcTypes /\ NoLostWakeup /\ Accounted

(* jiq and jit: the structures.                                            *)
Works == [left_loops : Nat, buf : Procs \cup {"none"}, lines : [Procs -> Nat],
          wq : SUBSET Procs, lost : SUBSET Procs, armed : BOOLEAN,
          step : {"idle", "dec", "print", "test", "wake"}]

(* The lines that are not yet in the buffer the structure w points into.   *)
Missing(w) == IF w.buf \in Procs THEN Loops - w.lines[w.buf] ELSE 0

JitStructures == {"jitimer_data", "jitasklet_data"}

DataTypes ==
    /\ d \in [W!Structures -> Works]
    /\ reading \in [Procs -> W!Structures \cup {"none"}]

(* The lines that are missing, from left_loops and where the work is: jiq  *)
(* has counted the line it is about to print, jit has not counted the line *)
(* it has just printed.  Work that has lines to print is in one place.     *)
JiqCounted ==
    /\ d["cdata"].step \in {"idle", "dec", "print", "test"}
    /\ Missing(d["cdata"]) = d["cdata"].left_loops + IF d["cdata"].step = "print" THEN 1 ELSE 0
    /\ d["cdata"].armed \/ d["cdata"].step = "dec" => d["cdata"].left_loops > 0
    /\ d["cdata"].armed => d["cdata"].step = "idle"

JitCounted(s) ==
    /\ d[s].step \in {"idle", "print", "dec", "wake"}
    /\ d[s].left_loops = Missing(d[s]) + IF d[s].step = "dec" THEN 1 ELSE 0
    /\ d[s].armed \/ d[s].step \in {"print", "dec"} => d[s].left_loops > 0
    /\ d[s].armed => d[s].step \in {"idle", "wake"}

Counted == JiqCounted /\ \A s \in JitStructures : JitCounted(s)

(* Who reads what; a structure has at most one reader.                     *)
Links ==
    /\ \A p \in Procs :
          /\ pc[p] \in JiqSteps <=> reading[p] = "cdata"
          /\ pc[p] \in JitSteps <=> reading[p] \in JitStructures
    /\ \A p, q \in Procs : reading[p] # "none" /\ reading[p] = reading[q] => p = q

(* The work for w is over.                                                 *)
Settled(w) == w.left_loops = 0 /\ ~w.armed /\ w.step = "idle"

(* What a reader of w at the given step may rely on.                       *)
Relies(p, step, w, cut) ==
    /\ step \in JiqSteps \cup JitSteps => w.buf = p
    /\ step = "j_sched" => w.left_loops > 0 /\ ~w.armed /\ w.step = "idle" /\ p \in w.wq
    /\ step = "j_sleep" => p \in w.wq \/ Settled(w)
    /\ step = "j_copy" => cut \/ Settled(w)
    /\ step = "t_copy" => cut \/ w.left_loops = 0

Readers == \A p \in Procs : Relies(p, pc[p], d[reading[p]], p \in sig)

Deferred == DataTypes /\ Counted /\ Links /\ Readers

MiscInv == Base /\ Deferred

-----------------------------------------------------------------------------
(* sleepy                                                                  *)

LEMMA SleepyStep ==
    ASSUME Base, NEW p \in Procs, used = "sleepy", used' = used, S!Caller(p)
    PROVE  PcTypes' /\ NoLostWakeup'
  <1> USE DEF S!Goto, S!ReadSteps, S!WriteSteps, SleepySteps
  <1>1. pc \in [Procs -> SleepySteps] /\ NoLostWakeup
    BY DEF Base, PcTypes, StepsOf
  <1>2. SUFFICES pc' \in [Procs -> SleepySteps] /\ NoLostWakeup'
    BY DEF PcTypes, StepsOf, Drivers
  <1>3. CASE S!Call(p, "r_prep") \/ S!Call(p, "w_set")
    BY <1>1, <1>3 DEF S!Call, NoLostWakeup, S!NoLostWakeup
  <1>4. CASE S!sleepy_read_prepare(p)
    BY <1>1, <1>4 DEF S!sleepy_read_prepare, NoLostWakeup, S!NoLostWakeup
  <1>5. CASE S!sleepy_read_cond(p)
    BY <1>1, <1>5 DEF S!sleepy_read_cond, NoLostWakeup, S!NoLostWakeup
  <1>6. CASE S!sleepy_read_wakeup(p)
    BY <1>1, <1>6 DEF S!sleepy_read_wakeup, NoLostWakeup, S!NoLostWakeup
  <1>7. CASE S!sleepy_read_clear(p)
    BY <1>1, <1>7 DEF S!sleepy_read_clear, NoLostWakeup, S!NoLostWakeup
  <1>8. CASE S!sleepy_write_set(p)
    BY <1>1, <1>8 DEF S!sleepy_write_set, NoLostWakeup, S!NoLostWakeup
  <1>9. CASE S!sleepy_write_wake(p)
    BY <1>1, <1>9 DEF S!sleepy_write_wake, NoLostWakeup, S!NoLostWakeup
  <1>10. QED
    BY <1>3, <1>4, <1>5, <1>6, <1>7, <1>8, <1>9 DEF S!Caller, S!sleepy_read, S!sleepy_write

-----------------------------------------------------------------------------
(* completion                                                              *)

LEMMA CompletionStep ==
    ASSUME Base, NEW p \in Procs, used = "completion", used' = used, C!Caller(p)
    PROVE  PcTypes' /\ Accounted'
  <1>1. pc \in [Procs -> CompletionSteps] /\ Accounted
    BY DEF Base, PcTypes, StepsOf
  <1>2. CASE C!completion_read(p)
    <2>1. Accounted'
      BY <1>1, <1>2 DEF C!completion_read, C!wait_for_completion, Accounted
    <2>2. pc' \in [Procs -> CompletionSteps]
      BY <1>1, <1>2 DEF C!completion_read, C!wait_for_completion, C!Goto, CompletionSteps
    <2>3. QED
      BY <2>1, <2>2 DEF PcTypes, StepsOf, Drivers
  <1>3. CASE C!completion_write(p)
    <2>1. Accounted'
      BY <1>1, <1>3 DEF C!completion_write, C!complete, Accounted
    <2>2. pc' = pc \/ \E q : pc' = [pc EXCEPT ![q] = "woken"]
      BY <1>3 DEF C!completion_write, C!complete, C!Goto
    <2>3. pc' \in [Procs -> CompletionSteps]
      BY <1>1, <2>2 DEF CompletionSteps
    <2>4. QED
      BY <2>1, <2>3 DEF PcTypes, StepsOf, Drivers
  <1>4. QED
    BY <1>2, <1>3 DEF C!Caller

-----------------------------------------------------------------------------
(* jiq and jit                                                             *)

(* What a step of the work for s leaves alone.                             *)
LEMMA WorkFrame ==
    ASSUME MiscInv, NEW s \in W!Structures, NEW from, NEW new, W!WorkStep(s, from, new)
    PROVE  /\ d[s].step = from /\ d'[s] = new /\ d[s] \in Works
           /\ \A t \in W!Structures \ {s} : d'[t] = d[t]
           /\ d' = [d EXCEPT ![s] = new]
           /\ pc' = pc /\ reading' = reading /\ sig' = sig
  BY DEF W!WorkStep, MiscInv, Deferred, DataTypes

(* A step of the work is right when its structure stays counted and its    *)
(* reader can still rely on what it relied on.                             *)
LEMMA WorkKeeps ==
    ASSUME MiscInv, NEW s \in W!Structures, NEW from, NEW new, W!WorkStep(s, from, new),
           new \in Works,
           s = "cdata" => JiqCounted',
           s \in JitStructures => JitCounted(s)',
           \A p \in Procs : reading[p] = s => Relies(p, pc[p], new, p \in sig)
    PROVE  Deferred'
  <1>1. DataTypes'
    BY WorkFrame DEF MiscInv, Deferred, DataTypes
  <1>2. Counted'
    <2>1. JiqCounted'
      BY WorkFrame DEF MiscInv, Deferred, Counted, JiqCounted, W!Structures
    <2>2. ASSUME NEW t \in JitStructures
          PROVE  JitCounted(t)'
      <3>1. t \in W!Structures /\ JitCounted(t)
        BY DEF MiscInv, Deferred, Counted, JitStructures, W!Structures
      <3>2. CASE t # s
        <4>1. d'[t] = d[t]
          BY <3>1, <3>2, WorkFrame
        <4>2. QED
          BY <3>1, <4>1 DEF JitCounted
      <3>3. QED
        BY <3>2
    <2>3. QED
      BY <2>1, <2>2 DEF Counted
  <1>3. Links'
    BY WorkFrame DEF MiscInv, Deferred, Links
  <1>4. Readers'
    <2> SUFFICES ASSUME NEW p \in Procs
                 PROVE  Relies(p, pc'[p], d'[reading'[p]], p \in sig')
      BY DEF Readers
    <2>1. pc'[p] = pc[p] /\ reading'[p] = reading[p] /\ sig' = sig
      BY WorkFrame
    <2>2. CASE reading[p] = s
      BY <2>1, <2>2, WorkFrame
    <2>3. CASE reading[p] \in W!Structures \ {s}
      <3>1. d'[reading[p]] = d[reading[p]]
        BY <2>3, WorkFrame
      <3>2. QED
        BY <2>1, <3>1 DEF MiscInv, Deferred, Readers
    <2>4. CASE reading[p] = "none"
      <3>1. pc[p] \notin JiqSteps \cup JitSteps
        BY <2>4 DEF MiscInv, Deferred, Links, JitStructures
      <3>2. QED
        BY <2>1, <3>1 DEF Relies, JiqSteps, JitSteps
    <2>5. QED
      BY <2>2, <2>3, <2>4 DEF MiscInv, Deferred, DataTypes
  <1>5. QED
    BY <1>1, <1>2, <1>3, <1>4 DEF Deferred

(* The reader of cdata is in jiq, the reader of another structure in jit.  *)
LEMMA ReaderSteps ==
    ASSUME MiscInv, NEW p \in Procs
    PROVE  /\ reading[p] = "cdata" => pc[p] \in JiqSteps /\ Relies(p, pc[p], d["cdata"], p \in sig)
           /\ \A s \in JitStructures :
                 reading[p] = s => pc[p] \in JitSteps /\ Relies(p, pc[p], d[s], p \in sig)
  BY DEF MiscInv, Deferred, Links, Readers

(* The lines that are missing, when the pointer or the buffer changes.     *)
LEMMA MissingInt ==
    ASSUME NEW w \in Works
    PROVE  Missing(w) \in Int
  BY MiscAssumption DEF Missing, Works

LEMMA MissingSame ==
    ASSUME NEW w, NEW new, new.buf = w.buf, new.lines = w.lines
    PROVE  Missing(new) = Missing(w)
  BY DEF Missing

LEMMA MissingLess ==
    ASSUME NEW w \in Works, w.buf \in Procs, NEW new, new.buf = w.buf,
           new.lines = [w.lines EXCEPT ![w.buf] = @ + 1]
    PROVE  Missing(new) = Missing(w) - 1
  <1>1. w.lines \in [Procs -> Nat]
    BY DEF Works
  <1>2. new.lines[w.buf] = w.lines[w.buf] + 1 /\ w.lines[w.buf] \in Nat
    BY <1>1
  <1>3. QED
    BY <1>2, MiscAssumption DEF Missing

(* What the work of jiq does to its structure, by the step it is at.       *)
JiqMove(w, new) ==
    /\ new.buf = w.buf
    /\ \/ /\ w.armed /\ ~new.armed /\ w.step = "idle" /\ new.step = "dec"
          /\ new.left_loops = w.left_loops /\ Missing(new) = Missing(w) /\ new.wq = w.wq
       \/ /\ w.step = "dec" /\ new.step = "print" /\ (new.armed <=> w.armed)
          /\ new.left_loops = w.left_loops - 1 /\ Missing(new) = Missing(w) /\ new.wq = w.wq
       \/ /\ w.step = "print" /\ new.step = "test" /\ (new.armed <=> w.armed)
          /\ new.left_loops = w.left_loops /\ Missing(new) = Missing(w) - 1 /\ new.wq = w.wq
       \/ /\ w.step = "test" /\ new.step = "idle"
          /\ new.left_loops = w.left_loops /\ Missing(new) = Missing(w)
          /\ IF w.left_loops = 0 THEN new.wq = {} /\ (new.armed <=> w.armed)
                                 ELSE new.wq = w.wq /\ new.armed

LEMMA JiqMoves ==
    ASSUME MiscInv, W!jiq_print_wq
    PROVE  \E from, new : /\ W!WorkStep("cdata", from, new) /\ new \in Works
                          /\ JiqMove(d["cdata"], new)
  <1> DEFINE w == d["cdata"]
  <1>1. "cdata" \in W!Structures /\ w \in Works /\ JiqCounted
    BY DEF MiscInv, Deferred, DataTypes, Counted, W!Structures
  <1>2. /\ w.left_loops \in Nat
        /\ w.step = "dec" => w.left_loops - 1 \in Nat
        /\ w.step = "print" => w.buf \in Procs
    BY <1>1 DEF JiqCounted, Works, Missing
  <1> HIDE DEF w
  <1>3. CASE W!Run("cdata", "dec")
    <2> DEFINE new == [w EXCEPT !.armed = FALSE, !.step = "dec"]
    <2>1. new \in Works
      BY <1>1 DEF Works
    <2>2. w.armed /\ w.step = "idle" /\ W!WorkStep("cdata", "idle", new)
      BY <1>3 DEF W!Run, W!WorkStep, w
    <2>3. JiqMove(w, new)
      BY <1>1, <2>2, MissingSame DEF JiqMove, Works
    <2>4. QED
      BY <2>1, <2>2, <2>3 DEF w
  <1>4. CASE W!WorkStep("cdata", "dec", [w EXCEPT !.left_loops = @ - 1, !.step = "print"])
    <2> DEFINE new == [w EXCEPT !.left_loops = @ - 1, !.step = "print"]
    <2>1. w.step = "dec"
      BY <1>4 DEF W!WorkStep, w
    <2>2. new \in Works
      BY <1>1, <1>2, <2>1 DEF Works
    <2>3. JiqMove(w, new)
      BY <1>1, <2>1, MissingSame DEF JiqMove, Works
    <2>4. QED
      BY <1>4, <2>2, <2>3 DEF w
  <1>5. CASE W!PrintLine("cdata", "test")
    <2> DEFINE new == [w EXCEPT !.lines[w.buf] = @ + 1, !.step = "test"]
    <2>1. w.step = "print" /\ W!WorkStep("cdata", "print", new)
      BY <1>5 DEF W!PrintLine, W!WorkStep, w
    <2>2. new \in Works
      <3>1. [w.lines EXCEPT ![w.buf] = @ + 1] \in [Procs -> Nat]
        BY <1>1, <1>2, <2>1 DEF Works
      <3>2. QED
        BY <1>1, <3>1 DEF Works
    <2>3. /\ new.buf = w.buf /\ new.lines = [w.lines EXCEPT ![w.buf] = @ + 1]
          /\ new.left_loops = w.left_loops /\ new.step = "test" /\ new.wq = w.wq
          /\ (new.armed <=> w.armed)
      BY <1>1 DEF Works
    <2>4. Missing(new) = Missing(w) - 1
      BY <1>1, <1>2, <2>1, <2>3, MissingLess
    <2>5. JiqMove(w, new)
      BY <2>1, <2>3, <2>4 DEF JiqMove
    <2>6. QED
      BY <2>1, <2>2, <2>5 DEF w
  <1>6. CASE W!WorkStep("cdata", "test", IF w.left_loops = 0
                                         THEN [w EXCEPT !.wq = {}, !.step = "idle"]
                                         ELSE [w EXCEPT !.armed = TRUE, !.step = "idle"])
    <2> DEFINE new == IF w.left_loops = 0 THEN [w EXCEPT !.wq = {}, !.step = "idle"]
                                          ELSE [w EXCEPT !.armed = TRUE, !.step = "idle"]
    <2>1. w.step = "test"
      BY <1>6 DEF W!WorkStep, w
    <2>2. new \in Works
      BY <1>1 DEF Works
    <2>3. JiqMove(w, new)
      BY <1>1, <2>1, MissingSame DEF JiqMove, Works
    <2>4. QED
      BY <1>6, <2>2, <2>3 DEF w
  <1>7. QED
    BY <1>3, <1>4, <1>5, <1>6 DEF W!jiq_print_wq, W!jiq_print, w

LEMMA JiqWork ==
    ASSUME MiscInv, W!jiq_print_wq
    PROVE  Deferred' /\ UNCHANGED <<pc, reading, sig>>
  <1>1. PICK from, new : /\ W!WorkStep("cdata", from, new) /\ new \in Works
                         /\ JiqMove(d["cdata"], new)
    BY JiqMoves
  <1>2. "cdata" \in W!Structures /\ "cdata" \notin JitStructures
    BY DEF W!Structures, JitStructures
  <1>3. d["cdata"] \in Works /\ JiqCounted
    BY DEF MiscInv, Deferred, DataTypes, Counted, W!Structures
  <1>4. JiqCounted'
    <2>1. d'["cdata"] = new
      BY <1>1, <1>2, WorkFrame
    <2>2. QED
      BY <1>1, <1>3, <2>1, MissingInt DEF JiqCounted, JiqMove, Works
  <1>5. ASSUME NEW p \in Procs, reading[p] = "cdata"
        PROVE  Relies(p, pc[p], new, p \in sig)
    <2>1. pc[p] \in JiqSteps /\ Relies(p, pc[p], d["cdata"], p \in sig)
      BY <1>5, ReaderSteps
    <2>2. QED
      BY <1>1, <1>3, <2>1, MissingInt DEF JiqCounted, JiqMove, Works, Relies, Settled, JiqSteps
  <1>6. QED
    BY <1>1, <1>2, <1>4, <1>5, WorkKeeps, WorkFrame

(* What the work of jit does to its structure, by the step it is at.       *)
JitMove(w, new) ==
    /\ new.buf = w.buf
    /\ \/ /\ w.armed /\ ~new.armed /\ w.step = "idle" /\ new.step = "print"
          /\ new.left_loops = w.left_loops /\ Missing(new) = Missing(w)
       \/ /\ w.step = "print" /\ new.step = "dec" /\ (new.armed <=> w.armed)
          /\ new.left_loops = w.left_loops /\ Missing(new) = Missing(w) - 1
       \/ /\ w.step = "dec" /\ new.step = IF w.left_loops > 1 THEN "idle" ELSE "wake"
          /\ (new.armed <=> w.left_loops > 1)
          /\ new.left_loops = w.left_loops - 1 /\ Missing(new) = Missing(w)
       \/ /\ w.step = "wake" /\ new.step = "idle" /\ (new.armed <=> w.armed)
          /\ new.left_loops = w.left_loops /\ Missing(new) = Missing(w)

JitWorkOn(s) ==
    W!Run(s, "print") \/ W!PrintLine(s, "dec") \/ W!CountDown(s) \/ W!Wake(s)

LEMMA JitMoves ==
    ASSUME MiscInv, NEW s \in JitStructures, JitWorkOn(s)
    PROVE  \E from, new : /\ W!WorkStep(s, from, new) /\ new \in Works
                          /\ JitMove(d[s], new)
  <1> DEFINE w == d[s]
  <1>1. s \in W!Structures /\ w \in Works /\ JitCounted(s)
    BY DEF MiscInv, Deferred, DataTypes, Counted, W!Structures, JitStructures
  <1>2. /\ w.left_loops \in Nat
        /\ w.step = "dec" => w.left_loops - 1 \in Nat
        /\ w.step = "print" => w.buf \in Procs
    BY <1>1 DEF JitCounted, Works, Missing
  <1> HIDE DEF w
  <1>3. CASE W!Run(s, "print")
    <2> DEFINE new == [w EXCEPT !.armed = FALSE, !.step = "print"]
    <2>1. new \in Works
      BY <1>1 DEF Works
    <2>2. w.armed /\ w.step = "idle" /\ W!WorkStep(s, "idle", new)
      BY <1>3 DEF W!Run, W!WorkStep, w
    <2>3. JitMove(w, new)
      BY <1>1, <2>2, MissingSame DEF JitMove, Works
    <2>4. QED
      BY <2>1, <2>2, <2>3 DEF w
  <1>4. CASE W!PrintLine(s, "dec")
    <2> DEFINE new == [w EXCEPT !.lines[w.buf] = @ + 1, !.step = "dec"]
    <2>1. w.step = "print" /\ W!WorkStep(s, "print", new)
      BY <1>4 DEF W!PrintLine, W!WorkStep, w
    <2>2. new \in Works
      <3>1. [w.lines EXCEPT ![w.buf] = @ + 1] \in [Procs -> Nat]
        BY <1>1, <1>2, <2>1 DEF Works
      <3>2. QED
        BY <1>1, <3>1 DEF Works
    <2>3. /\ new.buf = w.buf /\ new.lines = [w.lines EXCEPT ![w.buf] = @ + 1]
          /\ new.left_loops = w.left_loops /\ new.step = "dec" /\ new.wq = w.wq
          /\ (new.armed <=> w.armed)
      BY <1>1 DEF Works
    <2>4. Missing(new) = Missing(w) - 1
      BY <1>1, <1>2, <2>1, <2>3, MissingLess
    <2>5. JitMove(w, new)
      BY <2>1, <2>3, <2>4 DEF JitMove
    <2>6. QED
      BY <2>1, <2>2, <2>5 DEF w
  <1>5. CASE W!CountDown(s)
    <2> DEFINE new == [w EXCEPT !.left_loops = @ - 1, !.armed = w.left_loops > 1,
                                !.step = IF w.left_loops > 1 THEN "idle" ELSE "wake"]
    <2>1. w.step = "dec" /\ W!WorkStep(s, "dec", new)
      BY <1>5 DEF W!CountDown, W!WorkStep, w
    <2>2. new \in Works
      <3>1. CASE w.left_loops > 1
        <4>1. new = [w EXCEPT !.left_loops = @ - 1, !.armed = TRUE, !.step = "idle"]
          BY <3>1
        <4>2. QED
          BY <1>1, <1>2, <2>1, <4>1 DEF Works
      <3>2. CASE ~(w.left_loops > 1)
        <4>1. new = [w EXCEPT !.left_loops = @ - 1, !.armed = FALSE, !.step = "wake"]
          <5>1. (w.left_loops > 1) = FALSE
            BY <1>2, <3>2, SMT
          <5>2. (IF w.left_loops > 1 THEN "idle" ELSE "wake") = "wake"
            BY <3>2
          <5>3. QED
            BY <5>1, <5>2, Zenon
        <4>2. QED
          BY <1>1, <1>2, <2>1, <4>1 DEF Works
      <3>3. QED
        BY <3>1, <3>2
    <2>3. JitMove(w, new)
      BY <1>1, <2>1, MissingSame DEF JitMove, Works
    <2>4. QED
      BY <2>1, <2>2, <2>3 DEF w
  <1>6. CASE W!Wake(s)
    <2> DEFINE new == [w EXCEPT !.wq = {}, !.step = "idle"]
    <2>1. w.step = "wake" /\ W!WorkStep(s, "wake", new)
      BY <1>6 DEF W!Wake, W!WorkStep, w
    <2>2. new \in Works
      BY <1>1 DEF Works
    <2>3. JitMove(w, new)
      BY <1>1, <2>1, MissingSame DEF JitMove, Works
    <2>4. QED
      BY <2>1, <2>2, <2>3 DEF w
  <1>7. QED
    BY <1>3, <1>4, <1>5, <1>6 DEF JitWorkOn

LEMMA JitWork ==
    ASSUME MiscInv, NEW s \in JitStructures, JitWorkOn(s)
    PROVE  Deferred' /\ UNCHANGED <<pc, reading, sig>>
  <1>1. PICK from, new : /\ W!WorkStep(s, from, new) /\ new \in Works
                         /\ JitMove(d[s], new)
    BY JitMoves
  <1>2. s \in W!Structures /\ s # "cdata"
    BY DEF W!Structures, JitStructures
  <1>3. d[s] \in Works /\ JitCounted(s)
    BY <1>2 DEF MiscInv, Deferred, DataTypes, Counted
  <1>4. JitCounted(s)'
    <2>1. d'[s] = new
      BY <1>1, <1>2, WorkFrame
    <2>2. QED
      BY <1>1, <1>3, <2>1, MissingInt DEF JitCounted, JitMove, Works
  <1>5. ASSUME NEW p \in Procs, reading[p] = s
        PROVE  Relies(p, pc[p], new, p \in sig)
    <2>1. pc[p] \in JitSteps /\ Relies(p, pc[p], d[s], p \in sig)
      BY <1>5, ReaderSteps
    <2>2. d[s].left_loops = 0 => new.left_loops = 0
      BY <1>1, <1>3, MissingInt DEF JitCounted, JitMove, Works
    <2>3. new.buf = d[s].buf
      BY <1>1 DEF JitMove
    <2>4. QED
      BY <2>1, <2>2, <2>3 DEF Relies, JitSteps
  <1>6. QED
    BY <1>1, <1>2, <1>4, <1>5, WorkKeeps, WorkFrame

LEMMA WorkSteps ==
    ASSUME MiscInv, Work
    PROVE  Deferred'
  <1>1. CASE W!jit_timer_fn
    BY <1>1, JitWork DEF W!jit_timer_fn, JitWorkOn, JitStructures
  <1>2. CASE W!jit_tlet_fn
    BY <1>2, JitWork DEF W!jit_tlet_fn, JitWorkOn, JitStructures
  <1>3. QED
    BY <1>1, <1>2, JiqWork DEF Work, W!Work

-----------------------------------------------------------------------------
(* The readers of jiq and jit.                                             *)

(* A step of the reader p changes the structure s that only p reads, and   *)
(* keeps it counted.                                                       *)
ReaderStep(p, s, to) ==
    /\ s \in W!Structures
    /\ d'[s] \in Works /\ d' = [d EXCEPT ![s] = d'[s]]
    /\ \A q \in Procs \ {p} : reading[q] # s
    /\ s = "cdata" => JiqCounted'
    /\ s \in JitStructures => JitCounted(s)'
    /\ pc' = [pc EXCEPT ![p] = to]
    /\ \/ reading' = [reading EXCEPT ![p] = s] /\ sig' = sig
          /\ (s = "cdata" => to \in JiqSteps) /\ (s \in JitStructures => to \in JitSteps)
       \/ reading' = [reading EXCEPT ![p] = "none"] /\ sig' = sig \ {p} /\ to = "idle"
    /\ Relies(p, to, d'[s], p \in sig')

LEMMA ReaderKeeps ==
    ASSUME MiscInv, NEW p \in Procs, NEW s, NEW to, ReaderStep(p, s, to)
    PROVE  Deferred'
  <1>1. /\ d \in [W!Structures -> Works] /\ pc \in [Procs -> StepsOf(used)]
        /\ reading \in [Procs -> W!Structures \cup {"none"}]
    BY DEF MiscInv, Base, PcTypes, Deferred, DataTypes
  <1>2. /\ pc'[p] = to /\ reading'[p] \in {s, "none"}
        /\ \A q \in Procs : q # p => pc'[q] = pc[q] /\ reading'[q] = reading[q]
    BY <1>1 DEF ReaderStep
  <1>3. \A t \in W!Structures \ {s} : d'[t] = d[t]
    BY <1>1 DEF ReaderStep
  <1>4. DataTypes'
    BY <1>1 DEF ReaderStep, DataTypes
  <1>5. Counted'
    <2>1. JiqCounted'
      <3>1. CASE s = "cdata"
        BY <3>1 DEF ReaderStep
      <3>2. CASE s # "cdata"
        BY <1>3, <3>2 DEF MiscInv, Deferred, Counted, JiqCounted, W!Structures
      <3>3. QED
        BY <3>1, <3>2
    <2>2. ASSUME NEW t \in JitStructures
          PROVE  JitCounted(t)'
      <3>1. CASE s = t
        BY <3>1 DEF ReaderStep
      <3>2. CASE s # t
        <4>1. d'[t] = d[t]
          BY <1>3, <3>2 DEF JitStructures, W!Structures
        <4>2. QED
          BY <4>1 DEF MiscInv, Deferred, Counted, JitCounted
      <3>3. QED
        BY <3>1, <3>2
    <2>3. QED
      BY <2>1, <2>2 DEF Counted
  <1>6. Links'
    <2>1. \A q \in Procs : /\ pc'[q] \in JiqSteps <=> reading'[q] = "cdata"
                           /\ pc'[q] \in JitSteps <=> reading'[q] \in JitStructures
      <3>1. /\ pc'[p] \in JiqSteps <=> reading'[p] = "cdata"
            /\ pc'[p] \in JitSteps <=> reading'[p] \in JitStructures
        BY <1>1, <1>2 DEF ReaderStep, JiqSteps, JitSteps, JitStructures, W!Structures
      <3>2. QED
        BY <1>2, <3>1 DEF MiscInv, Deferred, Links
    <2>2. \A q, r \in Procs : reading'[q] # "none" /\ reading'[q] = reading'[r] => q = r
      BY <1>2 DEF ReaderStep, MiscInv, Deferred, Links
    <2>3. QED
      BY <2>1, <2>2 DEF Links
  <1>7. Readers'
    <2> SUFFICES ASSUME NEW q \in Procs
                 PROVE  Relies(q, pc'[q], d'[reading'[q]], q \in sig')
      BY DEF Readers
    <2>1. CASE q = p
      <3>1. CASE reading'[p] = s
        BY <1>2, <2>1, <3>1 DEF ReaderStep
      <3>2. CASE to = "idle"
        BY <1>2, <2>1, <3>2 DEF Relies, JiqSteps, JitSteps
      <3>3. QED
        BY <1>1, <1>2, <3>1, <3>2 DEF ReaderStep
    <2>2. CASE q # p /\ reading[q] = "none"
      <3>1. pc[q] \notin JiqSteps \cup JitSteps
        BY <2>2 DEF MiscInv, Deferred, Links, JitStructures
      <3>2. QED
        BY <1>2, <2>2, <3>1 DEF Relies, JiqSteps, JitSteps
    <2>3. CASE q # p /\ reading[q] # "none"
      <3>1. reading[q] \in W!Structures \ {s}
        BY <1>1, <2>3 DEF ReaderStep
      <3>2. d'[reading'[q]] = d[reading[q]]
        BY <1>2, <1>3, <2>3, <3>1
      <3>3. q \in sig' <=> q \in sig
        BY <2>3 DEF ReaderStep
      <3>4. Relies(q, pc[q], d[reading[q]], q \in sig)
        BY DEF MiscInv, Deferred, Readers
      <3>5. QED
        BY <1>2, <2>3, <3>2, <3>3, <3>4 DEF Relies
    <2>4. QED
      BY <2>1, <2>2, <2>3
  <1>8. QED
    BY <1>4, <1>5, <1>6, <1>7 DEF Deferred

(* A read that begins beside no other leaves the work where it is.         *)
Started(p, s, to, queue) ==
    /\ \A q \in Procs : reading[q] # s
    /\ pc' = [pc EXCEPT ![p] = to] /\ sig' = sig
    /\ reading' = [reading EXCEPT ![p] = s]
    /\ d'[s] \in Works /\ d' = [d EXCEPT ![s] = d'[s]]
    /\ d'[s].left_loops = Loops /\ d'[s].buf = p /\ Missing(d'[s]) = Loops
    /\ d'[s].wq = queue /\ d'[s].step = d[s].step
    /\ d[s].step \in IF s = "jitimer_data" THEN {"idle", "wake"} ELSE {"idle"}

LEMMA QuietStart ==
    ASSUME ReadsApart, MiscInv, NEW p \in Procs, NEW s \in W!Structures, NEW to,
           NEW queue \in SUBSET Procs, NEW armed \in BOOLEAN, W!Start(p, s, to, queue, armed)
    PROVE  Started(p, s, to, queue) /\ (d'[s].armed <=> armed)
  <1> DEFINE new == [left_loops |-> Loops, buf |-> p, lines |-> [d[s].lines EXCEPT ![p] = 0],
                     wq |-> queue, lost |-> d[s].lost \cup d[s].wq,
                     armed |-> armed, step |-> W!SetUpAnew(s)]
  <1>1. /\ W!Quiet(s) /\ reading' = [reading EXCEPT ![p] = s] /\ sig' = sig
        /\ d' = [d EXCEPT ![s] = new] /\ pc' = [pc EXCEPT ![p] = to]
    BY DEF W!Start, W!Goto
  <1>2. d \in [W!Structures -> Works] /\ d[s] \in Works
    BY DEF MiscInv, Deferred, DataTypes
  <1>3. /\ d[s].step \in IF s = "jitimer_data" THEN {"idle", "wake"} ELSE {"idle"}
        /\ ~d[s].armed /\ \A q \in Procs : reading[q] # s
    BY <1>1 DEF W!Quiet
  <1>4. W!SetUpAnew(s) = d[s].step
    BY <1>3 DEF W!SetUpAnew
  <1>5. d[s].lines \in [Procs -> Nat] /\ d[s].lost \in SUBSET Procs /\ d[s].wq \in SUBSET Procs
    BY <1>2 DEF Works
  <1>6. new.lines \in [Procs -> Nat] /\ new.lines[p] = 0
    BY <1>5
  <1>7. /\ new.left_loops = Loops /\ new.buf = p /\ new.wq = queue /\ new.armed = armed
        /\ new.step = d[s].step
    BY <1>4
  <1>8. new \in Works
    BY <1>3, <1>4, <1>5, MiscAssumption DEF Works
  <1>9. Missing(new) = Loops
    BY <1>6, <1>7, MiscAssumption DEF Missing
  <1> HIDE DEF new
  <1>10. d'[s] = new
    BY <1>1, <1>2
  <1>11. QED
    BY <1>1, <1>3, <1>7, <1>8, <1>9, <1>10 DEF Started

LEMMA JiqStart ==
    ASSUME ReadsApart, MiscInv, NEW p \in Procs, W!Start(p, "cdata", "j_sched", {p}, FALSE)
    PROVE  ReaderStep(p, "cdata", "j_sched")
  <1>1. "cdata" \in W!Structures /\ {p} \in SUBSET Procs /\ FALSE \in BOOLEAN
    BY DEF W!Structures
  <1>2. Started(p, "cdata", "j_sched", {p}) /\ ~d'["cdata"].armed
    BY <1>1, QuietStart, Zenon
  <1>3. d'["cdata"].step = "idle"
    BY <1>2 DEF Started
  <1>4. JiqCounted'
    BY <1>2, <1>3, MiscAssumption DEF JiqCounted, Started
  <1>5. Relies(p, "j_sched", d'["cdata"], p \in sig')
    BY <1>2, <1>3, MiscAssumption DEF Relies, Started
  <1>6. QED
    BY <1>1, <1>2, <1>4, <1>5 DEF ReaderStep, Started, JiqSteps, JitStructures

LEMMA JitStart ==
    ASSUME ReadsApart, MiscInv, NEW p \in Procs, NEW s \in JitStructures,
           W!Start(p, s, "t_prep", {}, TRUE)
    PROVE  ReaderStep(p, s, "t_prep")
  <1>1. s \in W!Structures /\ s # "cdata" /\ {} \in SUBSET Procs /\ TRUE \in BOOLEAN
    BY DEF W!Structures, JitStructures
  <1>2. Started(p, s, "t_prep", {}) /\ d'[s].armed
    BY <1>1, QuietStart, Zenon
  <1>3. d'[s].step \in {"idle", "wake"}
    BY <1>2 DEF Started
  <1>4. JitCounted(s)'
    BY <1>2, <1>3, MiscAssumption DEF JitCounted, Started
  <1>5. Relies(p, "t_prep", d'[s], p \in sig')
    BY <1>2 DEF Relies, Started
  <1>6. QED
    BY <1>1, <1>2, <1>4, <1>5 DEF ReaderStep, Started, JitSteps

(* The structure a reader is in has no other reader.                       *)
LEMMA SoleReader ==
    ASSUME MiscInv, NEW p \in Procs, pc[p] \in JiqSteps \cup JitSteps
    PROVE  /\ reading[p] \in W!Structures /\ d[reading[p]] \in Works
           /\ \A q \in Procs \ {p} : reading[q] # reading[p]
           /\ reading' = reading => reading' = [reading EXCEPT ![p] = reading[p]]
           /\ pc[p] \in JiqSteps => reading[p] = "cdata" /\ JiqCounted
           /\ pc[p] \in JitSteps => reading[p] \in JitStructures /\ JitCounted(reading[p])
           /\ Relies(p, pc[p], d[reading[p]], p \in sig)
  <1>1. /\ d \in [W!Structures -> Works] /\ reading \in [Procs -> W!Structures \cup {"none"}]
    BY DEF MiscInv, Deferred, DataTypes
  <1>2. /\ pc[p] \in JiqSteps => reading[p] = "cdata"
        /\ pc[p] \in JitSteps => reading[p] \in JitStructures
    BY DEF MiscInv, Deferred, Links
  <1>3. reading[p] \in W!Structures /\ reading[p] # "none"
    BY <1>2 DEF W!Structures, JitStructures
  <1>4. \A q \in Procs \ {p} : reading[q] # reading[p]
    BY <1>3 DEF MiscInv, Deferred, Links
  <1>5. QED
    BY <1>1, <1>2, <1>3, <1>4 DEF MiscInv, Deferred, Counted, Readers

(* A step of a reader that changes no more than armed, from a settled      *)
(* structure that still has lines to print, or the queue.                  *)
LEMMA Schedule ==
    ASSUME MiscInv, NEW p \in Procs, W!schedule_wq(p)
    PROVE  ReaderStep(p, "cdata", "j_sleep")
  <1> DEFINE w == d["cdata"]
  <1> DEFINE new == [w EXCEPT !.armed = TRUE]
  <1>1. pc[p] = "j_sched" /\ pc[p] \in JiqSteps
    BY DEF W!schedule_wq, JiqSteps
  <1>2. /\ w \in Works /\ JiqCounted /\ reading[p] = "cdata"
        /\ w.left_loops > 0 /\ w.step = "idle" /\ p \in w.wq /\ w.buf = p
    BY <1>1, SoleReader DEF Relies
  <1>3. d \in [W!Structures -> Works] /\ "cdata" \in W!Structures
    BY DEF MiscInv, Deferred, DataTypes, W!Structures
  <1>4. d' = [d EXCEPT !["cdata"] = new] /\ d'["cdata"] = new
    BY <1>3 DEF W!schedule_wq
  <1>5. /\ new \in Works /\ new.armed /\ new.step = "idle" /\ new.wq = w.wq
        /\ new.left_loops = w.left_loops /\ new.buf = w.buf /\ new.lines = w.lines
    BY <1>2 DEF Works
  <1> HIDE DEF new, w
  <1>6. JiqCounted'
    <2>1. Missing(new) = Missing(w)
      BY <1>5, MissingSame
    <2>2. QED
      BY <1>2, <1>4, <1>5, <2>1 DEF JiqCounted, w
  <1>7. Relies(p, "j_sleep", d'["cdata"], p \in sig')
    BY <1>2, <1>4, <1>5 DEF Relies
  <1>8. /\ pc' = [pc EXCEPT ![p] = "j_sleep"] /\ reading' = [reading EXCEPT ![p] = "cdata"]
        /\ sig' = sig /\ \A q \in Procs \ {p} : reading[q] # "cdata"
    BY <1>1, <1>2, SoleReader DEF W!schedule_wq, W!Goto
  <1>9. QED
    BY <1>3, <1>4, <1>5, <1>6, <1>7, <1>8 DEF ReaderStep, JiqSteps, JitStructures

(* A step of a reader that changes no more than the queues.                *)
Requeues(w, new) ==
    /\ new \in Works /\ new.left_loops = w.left_loops /\ new.buf = w.buf
    /\ new.lines = w.lines /\ new.step = w.step /\ (new.armed <=> w.armed)

LEMMA Requeue ==
    ASSUME MiscInv, NEW p \in Procs, pc[p] \in JiqSteps \cup JitSteps,
           NEW s, s = reading[p], NEW new, Requeues(d[s], new), d' = [d EXCEPT ![s] = new]
    PROVE  /\ d'[s] \in Works /\ d' = [d EXCEPT ![s] = d'[s]]
           /\ d'[s].left_loops = d[s].left_loops /\ d'[s].buf = p
           /\ Settled(d[s]) => Settled(d'[s])
           /\ s = "cdata" => JiqCounted'
           /\ s \in JitStructures => JitCounted(s)'
  <1>1. s \in W!Structures /\ d[s] \in Works /\ d \in [W!Structures -> Works] /\ d[s].buf = p
    BY SoleReader DEF MiscInv, Deferred, DataTypes, Relies
  <1>2. d'[s] = new
    BY <1>1
  <1>3. Missing(new) = Missing(d[s])
    BY MissingSame DEF Requeues
  <1>4. s = "cdata" => JiqCounted'
    BY <1>2, <1>3, SoleReader DEF Requeues, JiqCounted, MiscInv, Deferred, Counted
  <1>5. s \in JitStructures => JitCounted(s)'
    BY <1>2, <1>3, SoleReader DEF Requeues, JitCounted, MiscInv, Deferred, Counted
  <1>6. Settled(d[s]) => Settled(d'[s])
    BY <1>2 DEF Requeues, Settled
  <1>7. QED
    BY <1>1, <1>2, <1>4, <1>5, <1>6 DEF Requeues

(* The reader leaves the queue.                                            *)
LEMMA LeavesQueue ==
    ASSUME MiscInv, NEW p \in Procs, NEW s \in W!Structures, NEW to, W!Unqueue(p, s, to)
    PROVE  \E new : Requeues(d[s], new) /\ d' = [d EXCEPT ![s] = new]
  <1>1. d[s] \in Works
    BY DEF MiscInv, Deferred, DataTypes
  <1>2. PICK gone \in IF p \in d[s].lost THEN SUBSET (d[s].wq \ {p}) ELSE {{}} :
           d' = [d EXCEPT ![s].wq = @ \ (gone \cup {p}), ![s].lost = (@ \cup gone) \ {p}]
    BY DEF W!Unqueue
  <1> DEFINE new == [d[s] EXCEPT !.wq = @ \ (gone \cup {p}), !.lost = (@ \cup gone) \ {p}]
  <1>3. d[s].wq \in SUBSET Procs /\ d[s].lost \in SUBSET Procs /\ gone \in SUBSET Procs
    BY <1>1 DEF Works
  <1>4. d[s].wq \ (gone \cup {p}) \in SUBSET Procs /\ (d[s].lost \cup gone) \ {p} \in SUBSET Procs
    BY <1>3
  <1>5. Requeues(d[s], new)
    BY <1>1, <1>4 DEF Requeues, Works
  <1>6. d' = [d EXCEPT ![s] = new]
    BY <1>2
  <1>7. QED
    BY <1>5, <1>6

LEMMA JiqWakeup ==
    ASSUME MiscInv, NEW p \in Procs, W!jiq_wq_wakeup(p)
    PROVE  ReaderStep(p, "cdata", "j_copy")
  <1>1. pc[p] = "j_sleep" /\ pc[p] \in JiqSteps
    BY DEF W!jiq_wq_wakeup, JiqSteps
  <1>2. /\ reading[p] = "cdata" /\ d["cdata"] \in Works /\ "cdata" \in W!Structures
        /\ p \in d["cdata"].wq \/ Settled(d["cdata"])
    BY <1>1, SoleReader DEF Relies
  <1>3. PICK new : Requeues(d["cdata"], new) /\ d' = [d EXCEPT !["cdata"] = new]
    BY <1>2, LeavesQueue DEF W!jiq_wq_wakeup
  <1>4. /\ d'["cdata"] \in Works /\ d' = [d EXCEPT !["cdata"] = d'["cdata"]] /\ JiqCounted'
        /\ d'["cdata"].buf = p
        /\ Settled(d["cdata"]) => Settled(d'["cdata"])
    BY <1>1, <1>2, <1>3, Requeue
  <1>5. sig' = sig /\ pc' = [pc EXCEPT ![p] = "j_copy"] /\ reading' = reading
    BY DEF W!jiq_wq_wakeup, W!Unqueue, W!Goto
  <1>6. p \in sig' \/ Settled(d'["cdata"])
    BY <1>2, <1>4, <1>5 DEF W!jiq_wq_wakeup, W!Woken
  <1>7. Relies(p, "j_copy", d'["cdata"], p \in sig')
    <2>1. CASE p \in sig'
      BY <1>4, <2>1 DEF Relies
    <2>2. CASE Settled(d'["cdata"])
      BY <1>4, <2>2 DEF Relies
    <2>3. QED
      BY <1>6, <2>1, <2>2
  <1>8. reading' = [reading EXCEPT ![p] = "cdata"] /\ \A q \in Procs \ {p} : reading[q] # "cdata"
    BY <1>1, <1>2, <1>5, SoleReader
  <1>9. QED
    BY <1>2, <1>4, <1>5, <1>7, <1>8 DEF ReaderStep, JiqSteps, JitStructures

LEMMA ReaderFinish ==
    ASSUME MiscInv, NEW p \in Procs, NEW from \in W!CopySteps, W!Finish(p, from)
    PROVE  \E s : ReaderStep(p, s, "idle")
  <1>1. pc[p] \in JiqSteps \cup JitSteps
    BY DEF W!Finish, W!CopySteps, JiqSteps, JitSteps
  <1>2. PICK s : s = reading[p]
    OBVIOUS
  <1>3. d \in [W!Structures -> Works]
    BY DEF MiscInv, Deferred, DataTypes
  <1>4. /\ s \in W!Structures /\ d[s] \in Works /\ \A q \in Procs \ {p} : reading[q] # s
        /\ d' = d /\ pc' = [pc EXCEPT ![p] = "idle"] /\ sig' = sig \ {p}
        /\ reading' = [reading EXCEPT ![p] = "none"]
    BY <1>1, <1>2, SoleReader DEF W!Finish, W!Goto
  <1>5. /\ s = "cdata" => JiqCounted'
        /\ s \in JitStructures => JitCounted(s)'
    BY <1>4 DEF MiscInv, Deferred, Counted, JiqCounted, JitCounted
  <1>6. Relies(p, "idle", d'[s], p \in sig')
    BY DEF Relies, JiqSteps, JitSteps
  <1>7. ReaderStep(p, s, "idle")
    BY <1>3, <1>4, <1>5, <1>6 DEF ReaderStep
  <1>8. QED
    BY <1>7

LEMMA JitWait ==
    ASSUME MiscInv, NEW p \in Procs, W!jit_wait(p)
    PROVE  \E s : \E to \in JitSteps : ReaderStep(p, s, to)
  <1>1. pc[p] \in {"t_prep", "t_cond", "t_sleep"} /\ pc[p] \in JitSteps
    BY DEF W!jit_wait, JitSteps
  <1>2. PICK s : s = reading[p]
    OBVIOUS
  <1>3. /\ s \in JitStructures /\ s \in W!Structures /\ s # "cdata" /\ d[s] \in Works
        /\ \A q \in Procs \ {p} : reading[q] # s
        /\ reading' = reading => reading' = [reading EXCEPT ![p] = s]
    BY <1>1, <1>2, SoleReader DEF JitStructures
  <1>4. ASSUME NEW new, Requeues(d[s], new), d' = [d EXCEPT ![s] = new], NEW to \in JitSteps,
               pc' = [pc EXCEPT ![p] = to], sig' = sig, reading' = reading,
               to = "t_copy" => p \in sig \/ d[s].left_loops = 0
        PROVE  ReaderStep(p, s, to)
    <2>1. /\ d'[s] \in Works /\ d' = [d EXCEPT ![s] = d'[s]] /\ JitCounted(s)'
          /\ d'[s].left_loops = d[s].left_loops /\ d'[s].buf = p
      BY <1>1, <1>2, <1>3, <1>4, Requeue, ZenonT(60)
    <2>2. reading' = [reading EXCEPT ![p] = s]
      BY <1>3, <1>4
    <2>3. Relies(p, to, d'[s], p \in sig')
      BY <1>4, <2>1 DEF Relies, JitSteps
    <2>4. QED
      BY <1>3, <1>4, <2>1, <2>2, <2>3 DEF ReaderStep
  <1>5. CASE pc[p] = "t_prep" /\ d' = [d EXCEPT ![s].wq = @ \cup {p}]
             /\ pc' = [pc EXCEPT ![p] = "t_cond"] /\ UNCHANGED <<reading, sig>>
    <2> DEFINE new == [d[s] EXCEPT !.wq = @ \cup {p}]
    <2>1. d[s].wq \cup {p} \in SUBSET Procs
      BY <1>3 DEF Works
    <2>2. Requeues(d[s], new)
      BY <1>3, <2>1 DEF Requeues, Works
    <2>3. d' = [d EXCEPT ![s] = new]
      BY <1>5
    <2>4. ReaderStep(p, s, "t_cond")
      BY <1>4, <1>5, <2>2, <2>3 DEF JitSteps
    <2>5. QED
      BY <2>4 DEF JitSteps
  <1>6. CASE \E to \in {"t_copy", "t_prep"} :
                /\ W!Unqueue(p, s, to)
                /\ to = "t_copy" => p \in sig \/ d[s].left_loops = 0
    <2>1. PICK to \in {"t_copy", "t_prep"} :
                /\ W!Unqueue(p, s, to)
                /\ to = "t_copy" => p \in sig \/ d[s].left_loops = 0
      BY <1>6
    <2>2. PICK new : Requeues(d[s], new) /\ d' = [d EXCEPT ![s] = new]
      BY <1>3, <2>1, LeavesQueue
    <2>3. pc' = [pc EXCEPT ![p] = to] /\ sig' = sig /\ reading' = reading /\ to \in JitSteps
      BY <2>1 DEF W!Unqueue, W!Goto, JitSteps
    <2>4. ReaderStep(p, s, to)
      BY <1>4, <2>1, <2>2, <2>3
    <2>5. QED
      BY <2>3, <2>4
  <1>7. CASE pc' = [pc EXCEPT ![p] = "t_sleep"] /\ UNCHANGED <<d, reading, sig>>
    <2>1. Requeues(d[s], d[s])
      BY <1>3 DEF Requeues
    <2>2. d' = [d EXCEPT ![s] = d[s]]
      BY <1>3, <1>7 DEF MiscInv, Deferred, DataTypes
    <2>3. ReaderStep(p, s, "t_sleep")
      BY <1>4, <1>7, <2>1, <2>2 DEF JitSteps
    <2>4. QED
      BY <2>3 DEF JitSteps
  <1>8. QED
    BY <1>2, <1>5, <1>6, <1>7 DEF W!jit_wait, W!Goto

(* While a driver other than jiq and jit is in use, nothing reads them.    *)
LEMMA DeferredUnused ==
    ASSUME MiscInv, used \in {"sleepy", "completion"}, used' = used, PcTypes', UNCHANGED deferred
    PROVE  Deferred'
  <1>1. \A p \in Procs : /\ pc[p] \notin JiqSteps \cup JitSteps
                         /\ pc'[p] \notin JiqSteps \cup JitSteps
    BY DEF MiscInv, Base, PcTypes, StepsOf, SleepySteps, CompletionSteps, JiqSteps, JitSteps,
           S!ReadSteps, S!WriteSteps
  <1>2. d' = d /\ reading' = reading
    BY DEF deferred
  <1>3. Readers'
    BY <1>1 DEF Readers, Relies, JiqSteps, JitSteps
  <1>4. Links'
    BY <1>1, <1>2 DEF MiscInv, Deferred, Links
  <1>5. DataTypes' /\ Counted'
    BY <1>2 DEF MiscInv, Deferred, DataTypes, Counted, JiqCounted, JitCounted
  <1>6. QED
    BY <1>3, <1>4, <1>5 DEF Deferred

-----------------------------------------------------------------------------
(* All drivers                                                             *)

(* What the readers of jiq and jit, their work and signals change.         *)
LEMMA DeferredMoves ==
    ASSUME Base, NEW p \in Procs,
           \/ used = "jiq" /\ W!jiq_wq(p)
           \/ used = "jitimer" /\ W!jit_timer(p)
           \/ used = "jitasklet" /\ W!jit_tasklet(p)
    PROVE  \E to \in StepsOf(used) : pc' = [pc EXCEPT ![p] = to]
  <1>1. CASE used = "jiq" /\ W!jiq_wq(p)
    BY <1>1 DEF W!jiq_wq, W!Start, W!schedule_wq, W!jiq_wq_wakeup, W!Unqueue, W!Finish, W!Goto,
                StepsOf, JiqSteps
  <1>2. CASE used = "jitimer" /\ W!jit_timer(p)
    BY <1>2 DEF W!jit_timer, W!Start, W!jit_wait, W!Unqueue, W!Finish, W!Goto, StepsOf, JitSteps
  <1>3. CASE used = "jitasklet" /\ W!jit_tasklet(p)
    BY <1>3 DEF W!jit_tasklet, W!Start, W!jit_wait, W!Unqueue, W!Finish, W!Goto, StepsOf, JitSteps
  <1>4. QED
    BY <1>1, <1>2, <1>3

LEMMA BaseStep ==
    ASSUME Base, [Next]_vars
    PROVE  Base'
  <1>1. ASSUME NEW p \in Procs, used = "sleepy", S!Caller(p), UNCHANGED <<used, completion>>
        PROVE  Base'
    BY <1>1, SleepyStep DEF Base, Accounted, completion
  <1>2. ASSUME NEW p \in Procs, used = "completion", C!Caller(p), UNCHANGED <<used, sleepy>>
        PROVE  Base'
    <2>1. PcTypes' /\ Accounted'
      BY <1>2, CompletionStep
    <2>2. \A q \in Procs : pc'[q] # "r_sleep"
      BY <1>2, <2>1 DEF PcTypes, StepsOf, CompletionSteps
    <2>3. QED
      BY <2>1, <2>2 DEF Base, NoLostWakeup, S!NoLostWakeup
  <1>3. ASSUME NEW p \in Procs, UNCHANGED <<used, sleepy, completion>>,
               \/ used = "jiq" /\ W!jiq_wq(p)
               \/ used = "jitimer" /\ W!jit_timer(p)
               \/ used = "jitasklet" /\ W!jit_tasklet(p)
        PROVE  Base'
    <2>1. PICK to \in StepsOf(used) : pc' = [pc EXCEPT ![p] = to]
      BY <1>3, DeferredMoves
    <2>2. PcTypes'
      BY <1>3, <2>1 DEF Base, PcTypes
    <2>3. \A q \in Procs : pc'[q] # "r_sleep"
      BY <1>3, <2>2 DEF PcTypes, StepsOf, JiqSteps, JitSteps
    <2>4. QED
      BY <1>3, <2>2, <2>3 DEF Base, NoLostWakeup, S!NoLostWakeup, Accounted, completion
  <1>4. ASSUME UNCHANGED <<used, sleepy, completion, pc>>, sig \subseteq sig'
        PROVE  Base'
    BY <1>4 DEF Base, PcTypes, NoLostWakeup, S!NoLostWakeup, Accounted, sleepy, completion
  <1>5. CASE Work
    BY <1>4, <1>5 DEF Work, W!Work, W!jiq_print_wq, W!jiq_print, W!jit_timer_fn, W!jit_tlet_fn,
                      W!Run, W!PrintLine, W!CountDown, W!Wake, W!WorkStep
  <1>6. CASE \E p \in Procs : Process(p)
    BY <1>1, <1>2, <1>3, <1>6 DEF Process
  <1>7. CASE \E p \in Procs : Signal(p)
    BY <1>4, <1>7 DEF Signal, S!Signal, W!Signal, sleepy
  <1>8. CASE UNCHANGED vars
    BY <1>4, <1>8 DEF vars
  <1>9. QED
    BY <1>5, <1>6, <1>7, <1>8 DEF Next

LEMMA BaseAlways == FairSpec => []Base
  <1>1. Init => Base
    BY DEF Init, S!Init, C!Init, Base, PcTypes, Drivers, StepsOf, SleepySteps, CompletionSteps,
           NoLostWakeup, S!NoLostWakeup, Accounted
  <1>2. Base /\ [Next]_vars => Base'
    BY BaseStep
  <1>3. QED
    BY <1>1, <1>2, PTL DEF FairSpec

LEMMA ProcessStep ==
    ASSUME ReadsApart, MiscInv, PcTypes', NEW p \in Procs, Process(p)
    PROVE  Deferred'
  <1>1. CASE used \in {"sleepy", "completion"} /\ UNCHANGED <<used, deferred>>
    BY <1>1, DeferredUnused
  <1>2. CASE \/ used = "jiq" /\ W!jiq_wq(p)
             \/ used = "jitimer" /\ W!jit_timer(p)
             \/ used = "jitasklet" /\ W!jit_tasklet(p)
    <2>1. CASE used = "jiq" /\ W!jiq_wq(p)
      BY <2>1, JiqStart, Schedule, JiqWakeup, ReaderFinish, ReaderKeeps DEF W!jiq_wq, W!CopySteps
    <2>2. CASE used = "jitimer" /\ W!jit_timer(p)
      BY <2>2, JitStart, JitWait, ReaderFinish, ReaderKeeps
         DEF W!jit_timer, JitStructures, W!CopySteps
    <2>3. CASE used = "jitasklet" /\ W!jit_tasklet(p)
      BY <2>3, JitStart, JitWait, ReaderFinish, ReaderKeeps
         DEF W!jit_tasklet, JitStructures, W!CopySteps
    <2>4. QED
      BY <1>2, <2>1, <2>2, <2>3
  <1>3. QED
    BY <1>1, <1>2 DEF Process

LEMMA SignalStep ==
    ASSUME MiscInv, UNCHANGED <<d, reading, pc>>, sig \subseteq sig'
    PROVE  Deferred'
  <1>1. DataTypes' /\ Counted' /\ Links'
    BY DEF MiscInv, Deferred, DataTypes, Counted, JiqCounted, JitCounted, Links
  <1>2. Readers'
    BY DEF MiscInv, Deferred, Readers, Relies
  <1>3. QED
    BY <1>1, <1>2 DEF Deferred

LEMMA MiscAlways == ReadsApart => (FairSpec => []MiscInv)
  <1> SUFFICES ASSUME ReadsApart
               PROVE  FairSpec => []MiscInv
    OBVIOUS
  <1>1. Init => Deferred
    <2> SUFFICES ASSUME Init
                 PROVE  Deferred
      OBVIOUS
    <2>1. d = [s \in W!Structures |-> W!Idle] /\ reading = [p \in Procs |-> "none"]
          /\ pc = [p \in Procs |-> "idle"]
      BY DEF Init, W!Init
    <2>2. DataTypes
      <3>1. W!Idle \in Works
        BY DEF W!Idle, Works
      <3>2. QED
        BY <2>1, <3>1 DEF DataTypes
    <2>3. Counted
      <3>1. ASSUME NEW s \in W!Structures
            PROVE  d[s].left_loops = 0 /\ Missing(d[s]) = 0 /\ d[s].step = "idle" /\ ~d[s].armed
        BY <2>1, MiscAssumption DEF W!Idle, Missing
      <3>2. QED
        BY <3>1 DEF Counted, JiqCounted, JitCounted, W!Structures, JitStructures
    <2>4. Links /\ Readers
      BY <2>1 DEF Links, Readers, Relies, JiqSteps, JitSteps, JitStructures
    <2>5. QED
      BY <2>2, <2>3, <2>4 DEF Deferred
  <1>2. Base' /\ MiscInv /\ [Next]_vars => Deferred'
    <2> SUFFICES ASSUME Base', MiscInv, [Next]_vars
                 PROVE  Deferred'
      OBVIOUS
    <2>1. CASE Work
      BY <2>1, WorkSteps
    <2>2. CASE \E p \in Procs : Process(p)
      BY <2>2, ProcessStep DEF Base
    <2>3. CASE \E p \in Procs : Signal(p)
      BY <2>3, SignalStep DEF Signal, S!Signal, W!Signal, deferred
    <2>4. CASE UNCHANGED vars
      BY <2>4, SignalStep DEF vars, deferred
    <2>5. QED
      BY <2>1, <2>2, <2>3, <2>4 DEF Next
  <1>3. QED
    BY <1>1, <1>2, BaseAlways, PTL DEF FairSpec, MiscInv

-----------------------------------------------------------------------------
(* sleepy: wait_event_interruptible loses no wakeup: a reader sleeps on    *)
(* beside a set flag only while a write has yet to call wake_up.           *)
THEOREM SleepyLosesNoWakeup == FairSpec => []NoLostWakeup
  <1>1. Base => NoLostWakeup
    BY DEF Base
  <1>2. QED
    BY <1>1, BaseAlways, PTL

(* completion: a read returns only for a write of its own: however many    *)
(* processes read and write, and whoever overtakes whom, reads return no   *)
(* more often than there were writes.                                      *)
THEOREM EveryReadHasItsWrite == FairSpec => []OneReadPerWrite
  <1>1. Base => OneReadPerWrite
    BY DEF Base, Accounted, OneReadPerWrite, C!OneReadPerWrite
  <1>2. QED
    BY <1>1, BaseAlways, PTL

(* jiq and jit: while no two reads of a structure overlap, a read that no  *)
(* signal cut short shows every line once, for any number of lines.        *)
THEOREM ReportsComplete == ReadsApart => (FairSpec => []CompleteReport)
  <1> SUFFICES ASSUME ReadsApart
               PROVE  FairSpec => []CompleteReport
    OBVIOUS
  <1>1. MiscInv => CompleteReport
    <2> SUFFICES ASSUME MiscInv, NEW p \in Procs, pc[p] \in W!CopySteps, p \notin sig
                 PROVE  /\ d[reading[p]].lines[p] = Loops
                        /\ pc[p] = "j_copy" => d["cdata"].buf = p
      BY DEF CompleteReport, W!CompleteReport
    <2>1. PICK w : w = d[reading[p]]
      OBVIOUS
    <2>2. /\ w \in Works /\ w.buf = p /\ Missing(w) = 0
          /\ pc[p] = "j_copy" => reading[p] = "cdata"
      <3>1. CASE pc[p] = "j_copy"
        BY <2>1, <3>1, SoleReader DEF JiqSteps, Relies, Settled, JiqCounted, Works
      <3>2. CASE pc[p] = "t_copy"
        <4>1. JitCounted(reading[p]) /\ w.left_loops = 0 /\ w \in Works /\ w.buf = p
          BY <2>1, <3>2, SoleReader DEF JitSteps, Relies
        <4>2. QED
          BY <2>1, <3>2, <4>1, MissingInt DEF JitCounted
      <3>3. QED
        BY <3>1, <3>2 DEF W!CopySteps
    <2>3. w.lines[p] = Loops
      BY <2>2, MiscAssumption DEF Missing, Works
    <2>4. QED
      BY <2>1, <2>2, <2>3
  <1>2. QED
    BY <1>1, MiscAlways, PTL

=============================================================================
