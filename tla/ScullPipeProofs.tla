-------------------------- MODULE ScullPipeProofs --------------------------
(* Proofs about ScullPipe, for any number of processes and any buffer size. *)
EXTENDS ScullPipe, FiniteSetTheorems, SequenceTheorems, TLAPS

-----------------------------------------------------------------------------
(* The semaphore: what each step does to dev->sem, polls or not.           *)

Shape == sem \in Nat /\ pc \in [Procs -> Steps]

Quiet == Steps \ PollSteps

Moves(p) == \A q \in Procs \ {p} : pc'[q] = pc[q]

Enter(p) ==
    /\ pc[p] \notin CriticalSteps
    /\ sem > 0
    /\ sem' = sem - 1
    /\ Moves(p)
    /\ pc' \in [Procs -> Steps]
    /\ pc'[p] \in CriticalSteps

Leave(p) ==
    /\ pc[p] \in CriticalSteps
    /\ sem' = sem + 1
    /\ Moves(p)
    /\ pc' \in [Procs -> Steps]
    /\ pc'[p] \in Quiet \ CriticalSteps

Stay(p) ==
    /\ sem' = sem
    /\ Moves(p)
    /\ pc' \in [Procs -> Steps]
    /\ pc'[p] \in Quiet
    /\ pc'[p] \in CriticalSteps <=> pc[p] \in CriticalSteps

LEMMA LockCounts ==
    ASSUME Shape, NEW p \in Procs,
           \/ scull_p_open_nreaders(p) \/ scull_p_open_nwriters(p)
           \/ scull_p_release_nreaders(p) \/ scull_p_release_nwriters(p)
           \/ scull_p_release_sum(p)
    PROVE  Stay(p)
  <1> USE DEF Shape, Goto, Keep, Load, StoreReaders, StoreWriters, Moves, Quiet, Steps,
              CriticalSteps, OpenSteps, CloseSteps, ReadSteps, WriteSteps, PollSteps, Stay
  <1>1. CASE scull_p_open_nreaders(p)
    BY <1>1 DEF scull_p_open_nreaders
  <1>2. CASE scull_p_open_nwriters(p)
    BY <1>2 DEF scull_p_open_nwriters
  <1>3. CASE scull_p_release_nreaders(p)
    BY <1>3 DEF scull_p_release_nreaders
  <1>4. CASE scull_p_release_nwriters(p)
    BY <1>4 DEF scull_p_release_nwriters
  <1>5. CASE scull_p_release_sum(p)
    BY <1>5 DEF scull_p_release_sum
  <1>6. QED
    BY <1>1, <1>2, <1>3, <1>4, <1>5

LEMMA LockOpen ==
    ASSUME Shape, NEW p \in Procs, scull_p_open(p)
    PROVE  Enter(p) \/ Leave(p) \/ Stay(p)
  <1> USE DEF Shape, Goto, Return, Up, Down, DownInterrupted, Moves, Quiet, Steps,
              CriticalSteps, OpenSteps, CloseSteps, ReadSteps, WriteSteps, PollSteps
  <1>1. CASE OpenCall(p)
    BY <1>1 DEF OpenCall, Stay
  <1>2. CASE Down(p, "o_down", "o_test")
    BY <1>2 DEF Enter
  <1>3. CASE scull_p_open_interrupted(p)
    BY <1>3 DEF scull_p_open_interrupted, Stay
  <1>4. CASE scull_p_open_test(p)
    BY <1>4 DEF scull_p_open_test, Stay
  <1>5. CASE scull_p_open_ENOMEM(p)
    BY <1>5 DEF scull_p_open_ENOMEM, Leave
  <1>6. CASE scull_p_open_alloc(p)
    BY <1>6 DEF scull_p_open_alloc, Stay
  <1>7. CASE scull_p_open_setup(p)
    BY <1>7 DEF scull_p_open_setup, Stay
  <1>8. CASE scull_p_open_nreaders(p) \/ scull_p_open_nwriters(p)
    BY <1>8, LockCounts
  <1>9. CASE scull_p_open_up(p)
    BY <1>9 DEF scull_p_open_up, Leave
  <1>10. QED
    BY <1>1, <1>2, <1>3, <1>4, <1>5, <1>6, <1>7, <1>8, <1>9 DEF scull_p_open

LEMMA LockRelease ==
    ASSUME Shape, NEW p \in Procs, scull_p_release(p)
    PROVE  Enter(p) \/ Leave(p) \/ Stay(p)
  <1> USE DEF Shape, Goto, Return, Up, Down, DownInterrupted, Moves, Quiet, Steps,
              CriticalSteps, OpenSteps, CloseSteps, ReadSteps, WriteSteps, PollSteps
  <1>1. CASE ReleaseCall(p)
    BY <1>1 DEF ReleaseCall, Stay
  <1>2. CASE Down(p, "c_down", "c_nr")
    BY <1>2 DEF Enter
  <1>3. CASE scull_p_release_interrupted(p)
    BY <1>3 DEF scull_p_release_interrupted, Stay
  <1>4. CASE \/ scull_p_release_nreaders(p) \/ scull_p_release_nwriters(p)
             \/ scull_p_release_sum(p)
    BY <1>4, LockCounts
  <1>5. CASE scull_p_release_last(p)
    BY <1>5 DEF scull_p_release_last, Stay
  <1>6. CASE scull_p_release_free(p)
    BY <1>6 DEF scull_p_release_free, Stay
  <1>7. CASE scull_p_release_up(p)
    BY <1>7 DEF scull_p_release_up, Leave
  <1>8. QED
    BY <1>1, <1>2, <1>3, <1>4, <1>5, <1>6, <1>7 DEF scull_p_release

LEMMA LockRead ==
    ASSUME Shape, NEW p \in Procs, scull_p_read(p)
    PROVE  Enter(p) \/ Leave(p) \/ Stay(p)
  <1> USE DEF Shape, Goto, Return, Up, Down, DownInterrupted, Moves, Quiet, Steps,
              CriticalSteps, OpenSteps, CloseSteps, ReadSteps, WriteSteps, PollSteps
  <1>1. CASE ReadCall(p)
    BY <1>1 DEF ReadCall, Stay
  <1>2. CASE Down(p, "r_down", "r_check")
    BY <1>2 DEF Enter
  <1>3. CASE scull_p_read_interrupted(p)
    BY <1>3 DEF scull_p_read_interrupted, Stay
  <1>4. CASE scull_p_read_check(p)
    BY <1>4 DEF scull_p_read_check, Stay, Leave
  <1>5. CASE scull_p_read_prepare(p)
    BY <1>5 DEF scull_p_read_prepare, Stay
  <1>6. CASE scull_p_read_cond(p)
    BY <1>6 DEF scull_p_read_cond, Stay
  <1>7. CASE scull_p_read_wakeup(p)
    BY <1>7 DEF scull_p_read_wakeup, Stay
  <1>8. CASE scull_p_read_EFAULT(p)
    BY <1>8 DEF scull_p_read_EFAULT, Leave
  <1>9. ASSUME NEW request \in 0 .. MaxRequest, scull_p_read_copy(p, request)
        PROVE  Stay(p)
    BY <1>9 DEF scull_p_read_copy, Stay
  <1>10. CASE scull_p_read_move(p)
    BY <1>10 DEF scull_p_read_move, Stay
  <1>11. CASE scull_p_read_put(p)
    BY <1>11 DEF scull_p_read_put, Leave
  <1>12. CASE scull_p_read_wake(p)
    BY <1>12 DEF scull_p_read_wake, Stay
  <1>13. QED
    BY <1>1, <1>2, <1>3, <1>4, <1>5, <1>6, <1>7, <1>8, <1>9, <1>10, <1>11, <1>12
       DEF scull_p_read

LEMMA LockWrite ==
    ASSUME Shape, NEW p \in Procs, scull_p_write(p)
    PROVE  Enter(p) \/ Leave(p) \/ Stay(p)
  <1> USE DEF Shape, Goto, Return, Up, Down, DownInterrupted, Moves, Quiet, Steps,
              CriticalSteps, OpenSteps, CloseSteps, ReadSteps, WriteSteps, PollSteps
  <1>1. CASE WriteCall(p)
    BY <1>1 DEF WriteCall, Stay
  <1>2. CASE Down(p, "w_down", "w_space")
    BY <1>2 DEF Enter
  <1>3. CASE scull_p_write_interrupted(p)
    BY <1>3 DEF scull_p_write_interrupted, Stay
  <1>4. CASE scull_getwritespace(p)
    BY <1>4 DEF scull_getwritespace, Stay, Leave
  <1>5. CASE scull_getwritespace_prepare(p)
    BY <1>5 DEF scull_getwritespace_prepare, Stay
  <1>6. CASE scull_getwritespace_cond(p)
    BY <1>6 DEF scull_getwritespace_cond, Stay
  <1>7. CASE scull_getwritespace_wakeup(p)
    BY <1>7 DEF scull_getwritespace_wakeup, Stay
  <1>8. CASE scull_getwritespace_finish(p)
    BY <1>8 DEF scull_getwritespace_finish, Stay
  <1>9. ASSUME NEW request \in 0 .. MaxRequest, scull_p_write_EFAULT(p, request)
        PROVE  Leave(p)
    BY <1>9 DEF scull_p_write_EFAULT, Leave
  <1>10. ASSUME NEW request \in 0 .. MaxRequest, scull_p_write_copy(p, request)
         PROVE  Stay(p)
    BY <1>10 DEF scull_p_write_copy, Stay
  <1>11. CASE scull_p_write_move(p)
    BY <1>11 DEF scull_p_write_move, Stay
  <1>12. CASE scull_p_write_put(p)
    BY <1>12 DEF scull_p_write_put, Stay
  <1>13. CASE scull_p_write_wrap(p)
    BY <1>13 DEF scull_p_write_wrap, Leave, Stay
  <1>14. CASE scull_p_write_zero(p)
    BY <1>14 DEF scull_p_write_zero, Leave
  <1>15. CASE scull_p_write_wake(p)
    BY <1>15 DEF scull_p_write_wake, Stay
  <1>16. QED
    BY <1>1, <1>2, <1>3, <1>4, <1>5, <1>6, <1>7, <1>8, <1>9, <1>10, <1>11, <1>12,
       <1>13, <1>14, <1>15 DEF scull_p_write

-----------------------------------------------------------------------------
(* The semaphore that scull_p_poll keeps.                                  *)

PollersPoll == \A p \in Procs : pc[p] \in PollSteps => p \in Pollers

PollInv == Shape /\ PollersPoll

LEMMA PollIsStep ==
    ASSUME PollInv, NEW p \in Procs, scull_p_poll(p)
    PROVE  p \in Pollers /\ Moves(p) /\ Shape'
  <1> USE DEF PollInv, Shape, PollersPoll, PollSteps, Moves, Goto, Return, Up,
              DownInterrupted, Steps
  <1>1. CASE PollCall(p)
    BY <1>1 DEF PollCall
  <1>2. CASE scull_p_poll_down(p)
    BY <1>2 DEF scull_p_poll_down
  <1>3. CASE scull_p_poll_interrupted(p)
    BY <1>3 DEF scull_p_poll_interrupted
  <1>4. CASE scull_p_poll_mask(p)
    BY <1>4 DEF scull_p_poll_mask
  <1>5. QED
    BY <1>1, <1>2, <1>3, <1>4 DEF scull_p_poll

LEMMA PollersStep ==
    ASSUME PollInv, [Next]_vars
    PROVE  PollInv'
  <1>1. ASSUME NEW p \in Procs, Enter(p) \/ Leave(p) \/ Stay(p)
        PROVE  PollInv'
    <2>1. pc'[p] \notin PollSteps /\ Moves(p)
      BY <1>1 DEF Enter, Leave, Stay, Quiet, CriticalSteps, OpenSteps, CloseSteps, PollSteps
    <2>2. Shape'
      BY <1>1 DEF Enter, Leave, Stay, PollInv, Shape
    <2>3. QED
      BY <2>1, <2>2 DEF PollInv, PollersPoll, Moves
  <1>2. ASSUME NEW p \in Procs, scull_p_poll(p)
        PROVE  PollInv'
    BY <1>2, PollIsStep DEF PollInv, PollersPoll, Moves
  <1>3. CASE UNCHANGED <<sem, pc>>
    BY <1>3 DEF PollInv, Shape, PollersPoll
  <1>4. QED
    BY <1>1, <1>2, <1>3, LockOpen, LockRelease, LockRead, LockWrite
       DEF PollInv, Next, vars, scull_p_fasync, Signal

LEMMA PollAlways == Spec => []PollInv
  <1>1. Init => PollInv
    BY DEF Init, PollInv, Shape, PollersPoll, PollSteps, Steps
  <1>2. QED
    BY <1>1, PollersStep, PTL DEF Spec

(* Nothing enters or leaves a critical section while the device is wedged. *)
LEMMA WedgedStep ==
    ASSUME PollInv, Wedged, ~Wedged', [Next]_vars
    PROVE  \E p \in Pollers : scull_p_poll_mask(p)
  <1>1. ASSUME NEW p \in Procs, Enter(p) \/ Leave(p) \/ Stay(p)
        PROVE  FALSE
    <2>1. Stay(p)
      BY <1>1 DEF Enter, Leave, Wedged, InCritical
    <2>2. sem' = sem /\ \A q \in Procs : pc'[q] \in CriticalSteps <=> pc[q] \in CriticalSteps
      BY <2>1 DEF Stay, Moves
    <2>3. QED
      BY <2>2 DEF Wedged, InCritical
  <1>2. CASE UNCHANGED <<sem, pc>>
    BY <1>2 DEF Wedged, InCritical
  <1>3. ASSUME NEW p \in Procs, scull_p_poll(p)
        PROVE  scull_p_poll_mask(p)
    <2>1. sem' = sem => \E q \in Procs : pc'[q] \in CriticalSteps
      BY DEF Wedged, InCritical
    <2>2. CASE PollCall(p) \/ scull_p_poll_interrupted(p)
      BY <2>1, <2>2 DEF PollCall, scull_p_poll_interrupted, Goto, PollInv, Shape, Wedged,
                        InCritical, CriticalSteps, OpenSteps, CloseSteps
    <2>3. ~scull_p_poll_down(p)
      BY DEF scull_p_poll_down, Wedged
    <2>4. QED
      BY <1>3, <2>2, <2>3 DEF scull_p_poll
  <1>4. QED
    BY <1>1, <1>2, <1>3, LockOpen, LockRelease, LockRead, LockWrite, PollIsStep
       DEF PollInv, Next, vars, scull_p_fasync, Signal

(* A semaphore that scull_p_poll has kept is never given back by open,     *)
(* release, read or write: only a later poll that a signal cuts short      *)
(* does, on its way through the up it should not reach.                    *)
THEOREM WedgedByPoll == Spec => OnlyPollUnwedges
  <1>1. PollInv /\ [Next]_vars =>
            [Wedged /\ ~Wedged' => \E p \in Pollers : scull_p_poll_mask(p)]_vars
    BY WedgedStep
  <1>2. QED
    BY <1>1, PollAlways, PTL DEF Spec, OnlyPollUnwedges

-----------------------------------------------------------------------------
(* Mutual exclusion, where nobody polls.                                   *)

NoPolls == \A p \in Procs : pc[p] \notin PollSteps

Exclusive == Shape /\ SemaphoreExact /\ NoPolls

LEMMA NoPollStep ==
    ASSUME NoPolls, Pollers = {}, NEW p \in Procs
    PROVE  ~scull_p_poll(p)
  BY DEF NoPolls, PollSteps, scull_p_poll, PollCall, scull_p_poll_down,
         scull_p_poll_interrupted, scull_p_poll_mask, DownInterrupted

LEMMA EnterExclusive ==
    ASSUME Exclusive, NEW p \in Procs, Enter(p)
    PROVE  Exclusive'
  <1> USE DEF Exclusive
  <1>1. pc'[p] \in CriticalSteps /\ \A q \in Procs \ {p} : pc'[q] = pc[q]
    BY DEF Enter, Moves
  <1>2. sem = 1 /\ sem' = 0 /\ \A q \in Procs : ~InCritical(q)
    BY DEF Enter, SemaphoreExact
  <1>3. \A q \in Procs : InCritical(q)' <=> q = p
    BY <1>1, <1>2 DEF InCritical
  <1>4. SemaphoreExact'
    BY <1>2, <1>3 DEF SemaphoreExact
  <1>5. NoPolls'
    BY <1>1 DEF NoPolls, CriticalSteps, OpenSteps, CloseSteps, PollSteps
  <1>6. QED
    BY <1>2, <1>4, <1>5 DEF Enter, Shape

LEMMA LeaveExclusive ==
    ASSUME Exclusive, NEW p \in Procs, Leave(p)
    PROVE  Exclusive'
  <1> USE DEF Exclusive
  <1>1. /\ pc'[p] \in Quiet \ CriticalSteps
        /\ \A q \in Procs \ {p} : pc'[q] = pc[q]
    BY DEF Leave, Moves
  <1>2. sem = 0 /\ sem' = 1 /\ \A q \in Procs : InCritical(q) <=> q = p
    BY DEF Leave, SemaphoreExact, InCritical
  <1>3. \A q \in Procs : ~InCritical(q)'
    BY <1>1, <1>2 DEF InCritical
  <1>4. SemaphoreExact'
    BY <1>2, <1>3 DEF SemaphoreExact
  <1>5. NoPolls'
    BY <1>1 DEF NoPolls, Quiet
  <1>6. QED
    BY <1>2, <1>4, <1>5 DEF Leave, Shape

LEMMA StayExclusive ==
    ASSUME Exclusive, NEW p \in Procs, Stay(p)
    PROVE  Exclusive'
  <1> USE DEF Exclusive
  <1>1. /\ pc'[p] \in Quiet
        /\ pc'[p] \in CriticalSteps <=> pc[p] \in CriticalSteps
        /\ \A q \in Procs \ {p} : pc'[q] = pc[q]
        /\ sem' = sem
    BY DEF Stay, Moves
  <1>2. \A q \in Procs : pc'[q] \in CriticalSteps <=> pc[q] \in CriticalSteps
    BY <1>1
  <1>3. SemaphoreExact'
    BY <1>1, <1>2 DEF SemaphoreExact, InCritical
  <1>4. NoPolls'
    BY <1>1 DEF NoPolls, Quiet
  <1>5. QED
    BY <1>1, <1>3, <1>4 DEF Stay, Shape

LEMMA ExclusiveStep ==
    ASSUME Exclusive, Pollers = {}, [Next]_vars
    PROVE  Exclusive'
  <1>1. CASE UNCHANGED <<sem, pc>>
    BY <1>1 DEF Exclusive, Shape, SemaphoreExact, NoPolls, InCritical
  <1>2. ASSUME NEW p \in Procs, Enter(p) \/ Leave(p) \/ Stay(p)
        PROVE  Exclusive'
    BY <1>2, EnterExclusive, LeaveExclusive, StayExclusive
  <1>3. QED
    BY <1>1, <1>2, NoPollStep, LockOpen, LockRelease, LockRead, LockWrite
       DEF Exclusive, Next, vars, scull_p_fasync, Signal

LEMMA ExclusiveAlways == Pollers = {} => (Spec => []Exclusive)
  <1> SUFFICES ASSUME Pollers = {}
               PROVE  Spec => []Exclusive
    OBVIOUS
  <1>1. Init => Exclusive
    BY DEF Init, Exclusive, Shape, SemaphoreExact, NoPolls, InCritical, CriticalSteps,
           OpenSteps, CloseSteps, PollSteps, Steps
  <1>2. Exclusive /\ [Next]_vars => Exclusive'
    BY ExclusiveStep
  <1>3. QED
    BY <1>1, <1>2, PTL DEF Spec

(* Where no process polls, every path through open, release, read and      *)
(* write gives back the semaphore exactly once, and at most one process is *)
(* between its down and its up.                                            *)
THEOREM MutualExclusion == Pollers = {} => (Spec => []SemaphoreExact)
  <1>1. Exclusive => SemaphoreExact
    BY DEF Exclusive
  <1>2. QED
    BY <1>1, ExclusiveAlways, PTL

-----------------------------------------------------------------------------
(* Arithmetic of the circular buffer.                                      *)

(* What % computes in spacefree: r + N - w is less than 2N.                *)
LEMMA ModSmall ==
    ASSUME NEW N \in Nat \ {0}, NEW x \in 0 .. N - 1
    PROVE  x % N = x /\ (x + N) % N = x
  OBVIOUS

LEMMA SpaceFree ==
    ASSUME TypeOK
    PROVE  /\ wp = rp => spacefree = buffersize - 1
           /\ wp < rp => spacefree = rp - wp - 1
           /\ rp < wp => spacefree = rp + buffersize - wp - 1
  <1> USE PipeAssumption DEF TypeOK, Offset
  <1>1. CASE wp = rp
    BY <1>1 DEF spacefree
  <1>2. CASE wp < rp
    <2> DEFINE x == rp - wp
    <2>1. x \in 0 .. buffersize - 1 /\ buffersize \in Nat \ {0}
      BY <1>2
    <2>2. (x + buffersize) % buffersize = x
      BY <2>1, ModSmall
    <2>3. rp + buffersize - wp = x + buffersize
      OBVIOUS
    <2>4. QED
      BY <1>2, <2>1, <2>2, <2>3 DEF spacefree, Rem
  <1>3. CASE rp < wp
    <2> DEFINE x == rp + buffersize - wp
    <2>1. x \in 0 .. buffersize - 1 /\ buffersize \in Nat \ {0}
      BY <1>3
    <2>2. x % buffersize = x
      BY <2>1, ModSmall
    <2>3. QED
      BY <1>3, <2>1, <2>2 DEF spacefree, Rem
  <1>4. QED
    BY <1>1, <1>2, <1>3

-----------------------------------------------------------------------------
(* The buffer's life, where nobody polls: what a handler has tested,       *)
(* loaded and copied still holds when it acts on it.                       *)

(* Only files opened for it are in the middle of a read or of a write.     *)
ModesMatch ==
    \A p \in Procs :
        /\ pc[p] \in ReadSteps => FMODE_READ(f_flags[p])
        /\ pc[p] \in WriteSteps => FMODE_WRITE(f_flags[p])

Allocated == nreaders + nwriters > 0 => buffer /= NULL

(* wp = end and rp at the start would be a full circle.                    *)
Apart(r, w) == r = 0 => w /= buffersize

(* Only a write on its way to the wrap leaves wp at the end, and then rp   *)
(* is not at the start.                                                    *)
Pointers ==
    /\ wp = buffersize => \E p \in Procs : pc[p] \in {"w_wrap", "w_zero"}
    /\ Apart(rp, wp)

(* An open or a close between its down and its up.                         *)
HeldFiles(p) ==
    /\ pc[p] \in {"o_alloc", "o_setup"} => nreaders + nwriters <= 0
    /\ pc[p] = "o_alloc" => buffer = NULL
    /\ pc[p] \in OpenSteps \ {"o_test", "o_alloc"} => buffer /= NULL
    /\ pc[p] = "o_nr_put" => local[p] = nreaders /\ FMODE_READ(f_flags[p])
    /\ pc[p] = "o_nw_put" => local[p] = nwriters /\ FMODE_WRITE(f_flags[p])
    /\ pc[p] = "c_nr_put" => local[p] = nreaders /\ FMODE_READ(f_flags[p])
    /\ pc[p] = "c_nw_put" => local[p] = nwriters /\ FMODE_WRITE(f_flags[p])
    /\ pc[p] = "c_last" => local[p] = nreaders
    /\ pc[p] = "c_free" => nreaders + nwriters = 0

(* What a read may take with n bytes, and where it moves rp.               *)
Takes(n) ==
    /\ n \in Nat
    /\ rp /= wp
    /\ rp < wp => n <= wp - rp
    /\ ~(rp < wp) => n <= buffersize - rp

Advance(n) == IF rp + n = buffersize THEN 0 ELSE rp + n

HeldRead(p) ==
    LET n == Len(ubuf[p]) IN
    /\ pc[p] = "r_copy" => rp /= wp
    /\ pc[p] \in {"r_move", "r_put"} =>
         Takes(n) /\ ubuf[p] = [i \in 1 .. n |-> buffer[rp + i - 1]]
    /\ pc[p] = "r_put" => local[p] = Advance(n)

(* What a write may add with n bytes.                                      *)
Fits(n) ==
    /\ n \in Nat
    /\ rp > wp => n <= rp - wp - 1
    /\ ~(rp > wp) => n <= buffersize - wp /\ n <= rp + buffersize - wp - 1

HeldWrite(p) ==
    /\ pc[p] \in {"w_copy", "w_move", "w_put"} => spacefree /= 0
    /\ pc[p] = "w_move" =>
         Fits(local[p]) /\ \A i \in wp .. wp + local[p] - 1 : buffer[i] \in Byte
    /\ pc[p] = "w_put" =>
         Fits(local[p] - wp) /\ \A i \in wp .. local[p] - 1 : buffer[i] \in Byte
    /\ pc[p] = "w_zero" => wp = buffersize

Held(p) == HeldFiles(p) /\ HeldRead(p) /\ HeldWrite(p)

HeldAll == \A p \in Procs : Held(p)

MemoryInv == TypeOK /\ CountsCover /\ ModesMatch /\ Allocated /\ Pointers /\ HeldAll

LockInv == MemoryInv /\ Exclusive

LEMMA OpenFinite ==
    /\ IsFiniteSet(OpenReaders) /\ Cardinality(OpenReaders) \in Nat
    /\ IsFiniteSet(OpenWriters) /\ Cardinality(OpenWriters) \in Nat
  <1>1. IsFiniteSet(OpenReaders) /\ IsFiniteSet(OpenWriters)
    BY PipeAssumption, FS_Subset DEF OpenReaders, OpenWriters
  <1>2. QED
    BY <1>1, FS_CardinalityType

LEMMA OpenFiniteNext ==
    /\ IsFiniteSet(OpenReaders') /\ Cardinality(OpenReaders') \in Nat
    /\ IsFiniteSet(OpenWriters') /\ Cardinality(OpenWriters') \in Nat
  <1>1. IsFiniteSet(OpenReaders') /\ IsFiniteSet(OpenWriters')
    BY PipeAssumption, FS_Subset DEF OpenReaders, OpenWriters
  <1>2. QED
    BY <1>1, FS_CardinalityType

(* A counted file is a reason for a count to be positive.                  *)
LEMMA InUseCounted ==
    ASSUME TypeOK, CountsCover, OpenReaders \cup OpenWriters /= {}
    PROVE  nreaders + nwriters > 0
  <1>1. PICK p : p \in OpenReaders \cup OpenWriters
    OBVIOUS
  <1>2. p \in OpenReaders => Cardinality(OpenReaders) > 0
    BY OpenFinite, FS_EmptySet
  <1>3. p \in OpenWriters => Cardinality(OpenWriters) > 0
    BY OpenFinite, FS_EmptySet
  <1>4. QED
    BY <1>1, <1>2, <1>3, OpenFinite DEF CountsCover, TypeOK

LEMMA InUseCountedNext ==
    ASSUME TypeOK', CountsCover', OpenReaders' \cup OpenWriters' /= {}
    PROVE  nreaders' + nwriters' > 0
  <1>1. PICK p : p \in OpenReaders' \cup OpenWriters'
    OBVIOUS
  <1>2. p \in OpenReaders' => Cardinality(OpenReaders') > 0
    BY OpenFiniteNext, FS_EmptySet
  <1>3. p \in OpenWriters' => Cardinality(OpenWriters') > 0
    BY OpenFiniteNext, FS_EmptySet
  <1>4. PICK a, b, c, d : a = nreaders' /\ b = Cardinality(OpenReaders') /\ c = nwriters'
                            /\ d = Cardinality(OpenWriters')
    OBVIOUS
  <1>5. a \in Int /\ c \in Int /\ b \in Nat /\ d \in Nat /\ a >= b /\ c >= d
    BY <1>4, OpenFiniteNext DEF CountsCover, TypeOK
  <1>6. b > 0 \/ d > 0
    BY <1>1, <1>2, <1>3, <1>4
  <1>7. a + c > 0
    BY <1>5, <1>6
  <1>8. QED
    BY <1>4, <1>7

LEMMA InUseAllocated ==
    ASSUME MemoryInv
    PROVE  BufferLive
  BY InUseCounted DEF MemoryInv, Allocated, BufferLive

(* What a read or a write finds under rp and wp.                           *)
LEMMA BufferThere ==
    ASSUME MemoryInv, NEW p \in Procs, pc[p] \in ReadSteps \cup WriteSteps
    PROVE  buffer \in Memory /\ p \in OpenReaders \cup OpenWriters
  <1>1. p \in OpenReaders \cup OpenWriters
    BY DEF MemoryInv, ModesMatch, OpenReaders, OpenWriters, NotYetRead, NotYetWrite,
           NoMoreRead, NoMoreWrite, ReadSteps, WriteSteps
  <1>2. QED
    BY <1>1, InUseAllocated DEF BufferLive, MemoryInv, TypeOK

(* Counts that move with the files go on covering them.                    *)
LEMMA CoverKept ==
    ASSUME TypeOK, TypeOK', CountsCover, Surplus' = Surplus
    PROVE  CountsCover'
  <1>1. /\ nreaders' - Cardinality(OpenReaders') = nreaders - Cardinality(OpenReaders)
        /\ nwriters' - Cardinality(OpenWriters') = nwriters - Cardinality(OpenWriters)
    BY DEF Surplus
  <1>2. /\ nreaders \in Int /\ nwriters \in Int /\ nreaders' \in Int /\ nwriters' \in Int
        /\ Cardinality(OpenReaders) \in Int /\ Cardinality(OpenReaders') \in Int
        /\ Cardinality(OpenWriters) \in Int /\ Cardinality(OpenWriters') \in Int
    BY OpenFinite, OpenFiniteNext DEF TypeOK
  <1>3. nreaders >= Cardinality(OpenReaders) /\ nwriters >= Cardinality(OpenWriters)
    BY DEF CountsCover
  <1>4. nreaders' >= Cardinality(OpenReaders') /\ nwriters' >= Cardinality(OpenWriters')
    <2>1. PICK a, b, c, d : a = nreaders /\ b = nreaders' /\ c = Cardinality(OpenReaders)
                              /\ d = Cardinality(OpenReaders')
      OBVIOUS
    <2>2. PICK e, f, g, h : e = nwriters /\ f = nwriters' /\ g = Cardinality(OpenWriters)
                              /\ h = Cardinality(OpenWriters')
      OBVIOUS
    <2>3. /\ a \in Int /\ b \in Int /\ c \in Int /\ d \in Int /\ b - d = a - c /\ a >= c
          /\ e \in Int /\ f \in Int /\ g \in Int /\ h \in Int /\ f - h = e - g /\ e >= g
      BY <1>1, <1>2, <1>3, <2>1, <2>2
    <2>4. b >= d /\ f >= h
      BY <2>3
    <2>5. QED
      BY <2>1, <2>2, <2>4
  <1>5. QED
    BY <1>4 DEF CountsCover

(* A step that leaves the process on the same side of open and close       *)
(* leaves the counted files alone.                                         *)
SameSide(p, step) ==
    /\ FMODE_READ(f_flags[p]) =>
         (pc[p] \in NotYetRead \cup NoMoreRead <=> step \in NotYetRead \cup NoMoreRead)
    /\ FMODE_WRITE(f_flags[p]) =>
         (pc[p] \in NotYetWrite \cup NoMoreWrite <=> step \in NotYetWrite \cup NoMoreWrite)

LEMMA SameFiles ==
    ASSUME TypeOK, NEW p \in Procs, NEW step, Goto(p, step), UNCHANGED f_flags,
           SameSide(p, step)
    PROVE  OpenReaders' = OpenReaders /\ OpenWriters' = OpenWriters
  BY DEF TypeOK, Goto, SameSide, OpenReaders, OpenWriters

(* What every step but an interrupted release keeps.                       *)
Keeps == MemoryInv' /\ Surplus' = Surplus

Modes(p, step) ==
    /\ step \in ReadSteps => FMODE_READ(f_flags[p])
    /\ step \in WriteSteps => FMODE_WRITE(f_flags[p])

LEMMA ModesKept ==
    ASSUME TypeOK, ModesMatch, NEW p \in Procs, NEW step, Goto(p, step), UNCHANGED f_flags,
           Modes(p, step)
    PROVE  ModesMatch'
  BY DEF TypeOK, ModesMatch, Goto, Modes

(* A process that is alone between down and up answers only for itself.    *)
LEMMA HeldAlone ==
    ASSUME Exclusive, NEW p \in Procs, Moves(p), pc[p] \in CriticalSteps \/ sem > 0,
           Held(p)'
    PROVE  HeldAll'
  <1>1. \A q \in Procs \ {p} : pc'[q] \notin CriticalSteps
    BY DEF Exclusive, SemaphoreExact, InCritical, Moves
  <1>2. ASSUME NEW q \in Procs \ {p}
        PROVE  Held(q)'
    BY <1>1 DEF Held, HeldFiles, HeldRead, HeldWrite, CriticalSteps, OpenSteps, CloseSteps
  <1>3. QED
    BY <1>2 DEF HeldAll

LEMMA PointersAlone ==
    ASSUME Exclusive, Pointers, NEW p \in Procs, pc[p] \in CriticalSteps \/ sem > 0,
           pc[p] \notin {"w_wrap", "w_zero"}
    PROVE  wp /= buffersize
  BY DEF Exclusive, SemaphoreExact, InCritical, CriticalSteps, Pointers

(* A step between a down and an up that leaves the counts alone.           *)
LEMMA CriticalKeeps ==
    ASSUME LockInv, TypeOK', NEW p \in Procs, NEW step \in Steps, Goto(p, step),
           pc[p] \in CriticalSteps \/ sem > 0,
           UNCHANGED <<f_flags, counts>>, SameSide(p, step), Modes(p, step),
           Allocated', Pointers', Held(p)'
    PROVE  Keeps
  <1> USE DEF LockInv, MemoryInv
  <1>1. OpenReaders' = OpenReaders /\ OpenWriters' = OpenWriters
    BY SameFiles
  <1>2. Surplus' = Surplus
    BY <1>1 DEF Surplus, counts
  <1>3. CountsCover' /\ ModesMatch'
    BY <1>2, CoverKept, ModesKept
  <1>4. Moves(p)
    BY DEF Goto, Moves, TypeOK
  <1>5. HeldAll'
    BY <1>4, HeldAlone
  <1>6. QED
    BY <1>2, <1>3, <1>5 DEF Keeps

(* A step outside of them that leaves the buffer and the counts alone.     *)
LEMMA OutsideKeeps ==
    ASSUME LockInv, TypeOK', NEW p \in Procs, NEW step \in Steps \ CriticalSteps,
           Goto(p, step), pc[p] \notin CriticalSteps,
           UNCHANGED <<f_flags, counts, ring, local>>, SameSide(p, step), Modes(p, step),
           \A q \in Procs \ {p} : ubuf'[q] = ubuf[q]
    PROVE  Keeps
  <1> USE DEF LockInv, MemoryInv
  <1>1. OpenReaders' = OpenReaders /\ OpenWriters' = OpenWriters
    BY SameFiles
  <1>2. Surplus' = Surplus
    BY <1>1 DEF Surplus, counts
  <1>3. CountsCover' /\ ModesMatch'
    BY <1>2, CoverKept, ModesKept
  <1>4. Allocated'
    BY DEF Allocated, counts, ring
  <1>5. /\ \A q \in Procs \ {p} : pc'[q] = pc[q]
        /\ pc'[p] = step
    BY DEF Goto, TypeOK
  <1>6. Pointers'
    BY <1>5 DEF Pointers, Apart, ring, CriticalSteps
  <1>7. Held(p)'
    BY <1>5 DEF Held, HeldFiles, HeldRead, HeldWrite, CriticalSteps, OpenSteps, CloseSteps
  <1>8. ASSUME NEW q \in Procs \ {p}
        PROVE  Held(q)'
    <2>1. HeldFiles(q)'
      BY <1>5 DEF HeldAll, Held, HeldFiles, ring, counts
    <2>2. HeldRead(q)'
      BY <1>5 DEF HeldAll, Held, HeldRead, Takes, Advance, ring
    <2>3. HeldWrite(q)'
      BY <1>5 DEF HeldAll, Held, HeldWrite, Fits, spacefree, ring
    <2>4. QED
      BY <2>1, <2>2, <2>3 DEF Held
  <1>9. QED
    BY <1>2, <1>3, <1>4, <1>6, <1>7, <1>8 DEF Keeps, HeldAll

(* Where a process remembers nothing that another could make untrue.       *)
FreeSteps == (Steps \ CriticalSteps) \cup
             {"o_test", "c_nr", "c_nw", "c_sum", "c_up", "r_check", "w_space", "w_wrap"}

LEMMA HeldFree ==
    ASSUME NEW p \in Procs, pc'[p] \in FreeSteps
    PROVE  Held(p)'
  BY DEF FreeSteps, Held, HeldFiles, HeldRead, HeldWrite, CriticalSteps, OpenSteps, CloseSteps

(* A step between a down and an up, or the down, that leaves the buffer    *)
(* alone as well.                                                          *)
LEMMA RingKeeps ==
    ASSUME LockInv, TypeOK', NEW p \in Procs, NEW step \in Steps, Goto(p, step),
           pc[p] \in CriticalSteps \/ sem > 0, pc[p] \notin {"w_wrap", "w_zero"},
           UNCHANGED <<f_flags, counts, ring>>, SameSide(p, step), Modes(p, step),
           Held(p)'
    PROVE  Keeps
  <1>1. Allocated'
    BY DEF LockInv, MemoryInv, Allocated, counts, ring
  <1>2. Pointers'
    BY PointersAlone DEF LockInv, MemoryInv, Pointers, Apart, ring
  <1>3. QED
    BY <1>1, <1>2, CriticalKeeps

(* Before a file is counted and after it is uncounted its flags may change.*)
LEMMA UncountedKeeps ==
    ASSUME LockInv, TypeOK', NEW p \in Procs, NEW step \in {"closed", "o_down"},
           Goto(p, step), pc[p] \in {"closed", "o_down", "o_alloc", "c_up"},
           \A q \in Procs \ {p} : f_flags'[q] = f_flags[q],
           UNCHANGED <<rp, wp, counts, local, ubuf>>,
           buffer' = buffer \/ (pc[p] = "o_alloc" /\ buffer' = NULL)
    PROVE  Keeps
  <1> USE DEF LockInv, MemoryInv
  <1>1. pc'[p] = step /\ \A q \in Procs \ {p} : pc'[q] = pc[q]
    BY DEF Goto, TypeOK
  <1>2. OpenReaders' = OpenReaders /\ OpenWriters' = OpenWriters
    BY <1>1 DEF OpenReaders, OpenWriters, NotYetRead, NotYetWrite, NoMoreRead, NoMoreWrite
  <1>3. Surplus' = Surplus
    BY <1>2 DEF Surplus, counts
  <1>4. CountsCover'
    BY <1>3, CoverKept
  <1>5. ModesMatch'
    BY <1>1 DEF ModesMatch, ReadSteps, WriteSteps
  <1>6. Allocated'
    <2>1. HeldFiles(p)
      BY DEF HeldAll, Held
    <2>2. QED
      BY <2>1, PipeAssumption DEF HeldFiles, Allocated, counts, TypeOK
  <1>7. Pointers'
    BY <1>1 DEF Pointers, Apart
  <1>8. HeldAll'
    <2>1. Held(p)'
      BY <1>1, HeldFree DEF FreeSteps, Steps, CriticalSteps, OpenSteps, CloseSteps
    <2>2. CASE pc[p] \in CriticalSteps
      BY <1>1, <2>1, <2>2, HeldAlone DEF Moves
    <2>3. CASE pc[p] \notin CriticalSteps
      <3>1. buffer' = buffer
        BY <2>3 DEF CriticalSteps, OpenSteps
      <3>2. ASSUME NEW q \in Procs \ {p}
            PROVE  Held(q)'
        <4>1. HeldFiles(q)'
          BY <1>1, <3>1 DEF HeldAll, Held, HeldFiles, counts
        <4>2. HeldRead(q)'
          BY <1>1, <3>1 DEF HeldAll, Held, HeldRead, Takes, Advance
        <4>3. HeldWrite(q)'
          BY <1>1, <3>1 DEF HeldAll, Held, HeldWrite, Fits, spacefree
        <4>4. QED
          BY <4>1, <4>2, <4>3 DEF Held
      <3>3. QED
        BY <2>1, <3>2 DEF HeldAll
    <2>4. QED
      BY <2>2, <2>3
  <1>9. QED
    BY <1>3, <1>4, <1>5, <1>6, <1>7, <1>8 DEF Keeps

LEMMA DownKeeps ==
    ASSUME LockInv, NEW p \in Procs, NEW from, NEW to,
           <<from, to>> \in {<<"o_down", "o_test">>, <<"c_down", "c_nr">>,
                             <<"r_down", "r_check">>, <<"w_down", "w_space">>},
           Down(p, from, to)
    PROVE  Keeps
  <1> USE DEF LockInv, MemoryInv
  <1>1. /\ pc[p] = from /\ Goto(p, to) /\ sem > 0 /\ to \in Steps /\ sem' \in Nat
        /\ UNCHANGED <<ring, counts, queues, files, sig, ubuf, local>>
    BY DEF Down, Steps, OpenSteps, CloseSteps, ReadSteps, WriteSteps, TypeOK
  <1>2. TypeOK'
    BY <1>1 DEF TypeOK, Goto, ring, counts, queues, files
  <1>3. pc'[p] = to
    BY <1>1 DEF TypeOK, Goto
  <1>4. Held(p)'
    BY <1>3, HeldFree DEF FreeSteps
  <1>5. SameSide(p, to)
    BY <1>1 DEF SameSide, NotYetRead, NotYetWrite, NoMoreRead, NoMoreWrite
  <1>6. Modes(p, to)
    BY <1>1 DEF Modes, ModesMatch, ReadSteps, WriteSteps
  <1>7. pc[p] \notin {"w_wrap", "w_zero"}
    BY <1>1
  <1>8. QED
    BY <1>1, <1>2, <1>4, <1>5, <1>6, <1>7, RingKeeps DEF files

-----------------------------------------------------------------------------
(* Reads.                                                                  *)

(* The calls, waits and returns of a read, which do not touch the buffer.  *)
LEMMA ReadOutside ==
    ASSUME LockInv, NEW p \in Procs,
           \/ ReadCall(p)
           \/ scull_p_read_interrupted(p)
           \/ scull_p_read_prepare(p)
           \/ scull_p_read_cond(p)
           \/ scull_p_read_wakeup(p)
           \/ scull_p_read_wake(p)
    PROVE  Keeps
  <1> USE DEF LockInv, MemoryInv, ModesMatch, TypeOK, Goto, Return, DownInterrupted,
              Steps, CriticalSteps, OpenSteps, CloseSteps, ReadSteps, WriteSteps,
              ring, counts, queues, files, SameSide, Modes, NotYetRead, NotYetWrite,
              NoMoreRead, NoMoreWrite
  <1>1. CASE ReadCall(p)
    <2>1. TypeOK'
      BY <1>1 DEF ReadCall
    <2>2. QED
      BY <1>1, <2>1, OutsideKeeps DEF ReadCall
  <1>2. CASE scull_p_read_interrupted(p)
    <2>1. TypeOK'
      BY <1>2 DEF scull_p_read_interrupted
    <2>2. QED
      BY <1>2, <2>1, OutsideKeeps DEF scull_p_read_interrupted
  <1>3. CASE scull_p_read_prepare(p)
    <2>1. TypeOK'
      BY <1>3 DEF scull_p_read_prepare
    <2>2. QED
      BY <1>3, <2>1, OutsideKeeps DEF scull_p_read_prepare
  <1>4. CASE scull_p_read_cond(p)
    <2>1. TypeOK'
      BY <1>4 DEF scull_p_read_cond
    <2>2. PICK step \in {"r_down", "open", "r_sleep"} : Goto(p, step)
      BY <1>4 DEF scull_p_read_cond
    <2>3. QED
      BY <1>4, <2>1, <2>2, OutsideKeeps DEF scull_p_read_cond
  <1>5. CASE scull_p_read_wakeup(p)
    <2>1. TypeOK'
      BY <1>5 DEF scull_p_read_wakeup
    <2>2. QED
      BY <1>5, <2>1, OutsideKeeps DEF scull_p_read_wakeup
  <1>6. CASE scull_p_read_wake(p)
    <2>1. << >> \in Seq(Byte \cup {Junk})
      OBVIOUS
    <2>2. TypeOK'
      BY <1>6, <2>1 DEF scull_p_read_wake
    <2>3. QED
      BY <1>6, <2>2, OutsideKeeps DEF scull_p_read_wake
  <1>7. QED
    BY <1>1, <1>2, <1>3, <1>4, <1>5, <1>6

LEMMA ReadChecks ==
    ASSUME LockInv, NEW p \in Procs, scull_p_read_check(p) \/ scull_p_read_EFAULT(p)
    PROVE  Keeps
  <1> USE DEF LockInv, MemoryInv
  <1>1. PICK step \in {"r_copy", "open", "r_prep"} :
            /\ Goto(p, step) /\ (step = "r_copy" => rp /= wp)
            /\ sem' \in Nat /\ sig' \subseteq Procs
    BY DEF scull_p_read_check, scull_p_read_EFAULT, Up, Return, Goto, TypeOK
  <1>2. pc[p] \in {"r_check", "r_copy"} /\ UNCHANGED <<ring, counts, queues, files, ubuf, local>>
    BY DEF scull_p_read_check, scull_p_read_EFAULT
  <1>3. TypeOK'
    BY <1>1, <1>2 DEF TypeOK, Goto, Steps, ReadSteps, ring, counts, queues, files
  <1>4. pc'[p] = step
    BY <1>1 DEF TypeOK, Goto
  <1>5. Held(p)'
    <2>1. CASE step = "r_copy"
      BY <1>1, <1>2, <1>4, <2>1
         DEF Held, HeldFiles, HeldRead, HeldWrite, OpenSteps, ring
    <2>2. CASE step /= "r_copy"
      BY <1>4, <2>2, HeldFree
         DEF FreeSteps, Steps, ReadSteps, CriticalSteps, OpenSteps, CloseSteps
    <2>3. QED
      BY <2>1, <2>2
  <1>6. SameSide(p, step) /\ Modes(p, step) /\ pc[p] \in CriticalSteps
    BY <1>2 DEF SameSide, Modes, ModesMatch, NotYetRead, NotYetWrite, NoMoreRead, NoMoreWrite,
                ReadSteps, WriteSteps, CriticalSteps
  <1>7. step \in Steps
    BY DEF Steps, ReadSteps
  <1>8. QED
    BY <1>1, <1>2, <1>3, <1>5, <1>6, <1>7, RingKeeps DEF files

(* What a read copies lies between rp and wp, whatever the request.        *)
LEMMA ReadCopies ==
    ASSUME LockInv, NEW p \in Procs, NEW request \in Nat, scull_p_read_copy(p, request)
    PROVE  /\ Takes(ReadCount(request))
           /\ \A i \in 1 .. ReadCount(request) :
                 rp + i - 1 \in Offset /\ buffer[rp + i - 1] \in Byte \cup {Junk}
           /\ ubuf' = [ubuf EXCEPT ![p] = [i \in 1 .. ReadCount(request) |-> buffer[rp + i - 1]]]
  <1> USE DEF LockInv, MemoryInv
  <1>1. pc[p] = "r_copy" /\ rp /= wp
    BY DEF scull_p_read_copy, HeldAll, Held, HeldRead
  <1>2. Takes(ReadCount(request))
    BY <1>1, PipeAssumption DEF Takes, ReadCount, Clamp, TypeOK, Offset
  <1>3. PICK n : n = ReadCount(request)
    OBVIOUS
  <1>4. n \in Nat /\ rp + n <= buffersize
    BY <1>2, <1>3, PipeAssumption DEF Takes, TypeOK, Offset
  <1>5. \A i \in 1 .. n : rp + i - 1 \in Offset
    BY <1>4, PipeAssumption DEF TypeOK, Offset
  <1>6. buffer \in Memory
    BY <1>1, BufferThere DEF ReadSteps
  <1>7. \A i \in 1 .. n : buffer[rp + i - 1] \in Byte \cup {Junk}
    BY <1>5, <1>6 DEF Memory
  <1>8. [i \in 1 .. n |-> IF buffer /= NULL /\ rp + i - 1 \in Offset
                          THEN buffer[rp + i - 1] ELSE Junk]
          = [i \in 1 .. n |-> buffer[rp + i - 1]]
    BY <1>5, <1>6, PipeAssumption
  <1>9. QED
    BY <1>2, <1>3, <1>5, <1>7, <1>8 DEF scull_p_read_copy

LEMMA ReadCopyKeeps ==
    ASSUME LockInv, NEW p \in Procs, NEW request \in Nat, scull_p_read_copy(p, request)
    PROVE  Keeps
  <1> USE DEF LockInv, MemoryInv
  <1>1. PICK n : n = ReadCount(request)
    OBVIOUS
  <1>2. PICK bytes : bytes = [i \in 1 .. n |-> buffer[rp + i - 1]]
    OBVIOUS
  <1>3. Takes(n) /\ n \in Nat /\ ubuf' = [ubuf EXCEPT ![p] = bytes]
    BY <1>1, <1>2, ReadCopies DEF Takes
  <1>4. bytes \in Seq(Byte \cup {Junk}) /\ Len(bytes) = n
    <2>1. \A i \in 1 .. n : buffer[rp + i - 1] \in Byte \cup {Junk}
      BY <1>1, ReadCopies
    <2>2. bytes \in [1 .. n -> Byte \cup {Junk}]
      BY <1>2, <2>1
    <2>3. QED
      BY <1>3, <2>2
  <1>5. /\ pc[p] = "r_copy" /\ Goto(p, "r_move")
        /\ UNCHANGED <<ring, counts, sem, queues, files, sig, local>>
    BY DEF scull_p_read_copy
  <1>6. TypeOK'
    BY <1>3, <1>4, <1>5 DEF TypeOK, Goto, Steps, ReadSteps, ring, counts, queues, files
  <1>7. pc'[p] = "r_move" /\ ubuf'[p] = bytes
    BY <1>3, <1>5 DEF TypeOK, Goto
  <1>8. Held(p)'
    <2>1. Takes(n)' /\ bytes = [i \in 1 .. n |-> buffer'[rp' + i - 1]]
      BY <1>2, <1>3, <1>5 DEF Takes, ring
    <2>2. QED
      BY <1>4, <1>7, <2>1 DEF Held, HeldFiles, HeldRead, HeldWrite, OpenSteps, ring
  <1>9. SameSide(p, "r_move") /\ Modes(p, "r_move") /\ pc[p] \in CriticalSteps
    BY <1>5 DEF SameSide, Modes, ModesMatch, NotYetRead, NotYetWrite, NoMoreRead, NoMoreWrite,
                ReadSteps, WriteSteps, CriticalSteps
  <1>10. "r_move" \in Steps
    BY DEF Steps, ReadSteps
  <1>11. QED
    BY <1>5, <1>6, <1>8, <1>9, <1>10, RingKeeps DEF files

LEMMA ReadMoveKeeps ==
    ASSUME LockInv, NEW p \in Procs, scull_p_read_move(p)
    PROVE  Keeps
  <1> USE DEF LockInv, MemoryInv
  <1>1. PICK n : n = Len(ubuf[p])
    OBVIOUS
  <1>2. /\ pc[p] = "r_move" /\ Goto(p, "r_put")
        /\ local' = [local EXCEPT ![p] = Advance(n)]
        /\ UNCHANGED <<ring, counts, sem, queues, files, sig, ubuf>>
    BY <1>1 DEF scull_p_read_move, Keep, Advance
  <1>3. Takes(n) /\ ubuf[p] = [i \in 1 .. n |-> buffer[rp + i - 1]]
    BY <1>1, <1>2 DEF HeldAll, Held, HeldRead
  <1>4. Advance(n) \in Int
    BY <1>3 DEF Takes, Advance, TypeOK, Offset
  <1>5. TypeOK'
    BY <1>2, <1>4 DEF TypeOK, Goto, Steps, ReadSteps, ring, counts, queues, files
  <1>6. pc'[p] = "r_put" /\ local'[p] = Advance(n) /\ ubuf'[p] = ubuf[p]
    BY <1>2 DEF TypeOK, Goto
  <1>7. Held(p)'
    <2>1. /\ Takes(n)' /\ ubuf'[p] = [i \in 1 .. n |-> buffer'[rp' + i - 1]]
          /\ Advance(n)' = Advance(n) /\ Len(ubuf'[p]) = n
      BY <1>1, <1>2, <1>3, <1>6 DEF Takes, Advance, ring
    <2>2. QED
      BY <1>6, <2>1 DEF Held, HeldFiles, HeldRead, HeldWrite, OpenSteps, ring
  <1>8. SameSide(p, "r_put") /\ Modes(p, "r_put") /\ pc[p] \in CriticalSteps
    BY <1>2 DEF SameSide, Modes, ModesMatch, NotYetRead, NotYetWrite, NoMoreRead, NoMoreWrite,
                ReadSteps, WriteSteps, CriticalSteps
  <1>9. "r_put" \in Steps
    BY DEF Steps, ReadSteps
  <1>10. QED
    BY <1>2, <1>5, <1>7, <1>8, <1>9, RingKeeps DEF files

LEMMA ReadPutKeeps ==
    ASSUME LockInv, NEW p \in Procs, scull_p_read_put(p)
    PROVE  Keeps
  <1> USE DEF LockInv, MemoryInv
  <1>1. PICK n : n = Len(ubuf[p])
    OBVIOUS
  <1>2. /\ pc[p] = "r_put" /\ Goto(p, "r_wake") /\ sem' = sem + 1
        /\ rp' = local[p] /\ local' = [local EXCEPT ![p] = 0]
        /\ UNCHANGED <<buffer, wp, counts, queues, files, sig, ubuf>>
    BY DEF scull_p_read_put, Keep, Up
  <1>3. Takes(n) /\ rp' = Advance(n)
    BY <1>1, <1>2 DEF HeldAll, Held, HeldRead
  <1>4. rp' \in Offset
    BY <1>3, PipeAssumption DEF Takes, Advance, TypeOK, Offset
  <1>5. TypeOK'
    BY <1>2, <1>4 DEF TypeOK, Goto, Steps, ReadSteps, counts, queues, files
  <1>6. pc'[p] = "r_wake"
    BY <1>2 DEF TypeOK, Goto
  <1>7. Held(p)'
    BY <1>6, HeldFree DEF FreeSteps, Steps, ReadSteps, CriticalSteps, OpenSteps, CloseSteps
  <1>8. SameSide(p, "r_wake") /\ Modes(p, "r_wake") /\ pc[p] \in CriticalSteps
    BY <1>2 DEF SameSide, Modes, ModesMatch, NotYetRead, NotYetWrite, NoMoreRead, NoMoreWrite,
                ReadSteps, WriteSteps, CriticalSteps
  <1>9. wp /= buffersize
    BY <1>2, <1>8, PointersAlone
  <1>10. Allocated' /\ Pointers'
    BY <1>2, <1>9 DEF Allocated, Pointers, Apart, counts
  <1>11. "r_wake" \in Steps
    BY DEF Steps, ReadSteps
  <1>12. QED
    BY <1>2, <1>5, <1>7, <1>8, <1>10, <1>11, CriticalKeeps DEF files

LEMMA ReadKeeps ==
    ASSUME LockInv, NEW p \in Procs, scull_p_read(p)
    PROVE  Keeps
  <1>1. ASSUME NEW request \in 0 .. MaxRequest, scull_p_read_copy(p, request)
        PROVE  Keeps
    BY <1>1, ReadCopyKeeps, PipeAssumption
  <1>2. QED
    BY <1>1, ReadOutside, ReadChecks, ReadMoveKeeps, ReadPutKeeps, DownKeeps DEF scull_p_read

-----------------------------------------------------------------------------
(* Writes.                                                                 *)

(* The calls, waits and returns of a write.                                *)
LEMMA WriteOutside ==
    ASSUME LockInv, NEW p \in Procs,
           \/ WriteCall(p)
           \/ scull_p_write_interrupted(p)
           \/ scull_getwritespace_prepare(p)
           \/ scull_getwritespace_cond(p)
           \/ scull_getwritespace_wakeup(p)
           \/ scull_getwritespace_finish(p)
           \/ scull_p_write_wake(p)
    PROVE  Keeps
  <1> USE DEF LockInv, MemoryInv, ModesMatch, TypeOK, Goto, Return, DownInterrupted,
              Steps, CriticalSteps, OpenSteps, CloseSteps, ReadSteps, WriteSteps,
              ring, counts, queues, files, SameSide, Modes, NotYetRead, NotYetWrite,
              NoMoreRead, NoMoreWrite
  <1>1. CASE WriteCall(p)
    <2>1. TypeOK'
      BY <1>1 DEF WriteCall
    <2>2. QED
      BY <1>1, <2>1, OutsideKeeps DEF WriteCall
  <1>2. CASE scull_p_write_interrupted(p)
    <2>1. TypeOK'
      BY <1>2 DEF scull_p_write_interrupted
    <2>2. QED
      BY <1>2, <2>1, OutsideKeeps DEF scull_p_write_interrupted
  <1>3. CASE scull_getwritespace_prepare(p)
    <2>1. TypeOK'
      BY <1>3 DEF scull_getwritespace_prepare
    <2>2. QED
      BY <1>3, <2>1, OutsideKeeps DEF scull_getwritespace_prepare
  <1>4. CASE scull_getwritespace_cond(p)
    <2>1. TypeOK'
      BY <1>4 DEF scull_getwritespace_cond
    <2>2. PICK step \in {"w_sleep", "w_fin"} : Goto(p, step)
      BY <1>4 DEF scull_getwritespace_cond
    <2>3. QED
      BY <1>4, <2>1, <2>2, OutsideKeeps DEF scull_getwritespace_cond
  <1>5. CASE scull_getwritespace_wakeup(p)
    <2>1. TypeOK'
      BY <1>5 DEF scull_getwritespace_wakeup
    <2>2. QED
      BY <1>5, <2>1, OutsideKeeps DEF scull_getwritespace_wakeup
  <1>6. CASE scull_getwritespace_finish(p)
    <2>1. TypeOK'
      BY <1>6 DEF scull_getwritespace_finish
    <2>2. PICK step \in {"open", "w_down"} : Goto(p, step)
      BY <1>6 DEF scull_getwritespace_finish
    <2>3. QED
      BY <1>6, <2>1, <2>2, OutsideKeeps DEF scull_getwritespace_finish
  <1>7. CASE scull_p_write_wake(p)
    <2>1. TypeOK'
      BY <1>7 DEF scull_p_write_wake
    <2>2. QED
      BY <1>7, <2>1, OutsideKeeps DEF scull_p_write_wake
  <1>8. QED
    BY <1>1, <1>2, <1>3, <1>4, <1>5, <1>6, <1>7

LEMMA SpaceKeeps ==
    ASSUME LockInv, NEW p \in Procs, scull_getwritespace(p)
    PROVE  Keeps
  <1> USE DEF LockInv, MemoryInv
  <1>1. PICK step \in {"w_copy", "open", "w_prep"} :
            /\ Goto(p, step) /\ (step = "w_copy" => spacefree /= 0)
            /\ sem' \in Nat /\ sig' \subseteq Procs
    BY DEF scull_getwritespace, Up, Return, Goto, TypeOK
  <1>2. pc[p] = "w_space" /\ UNCHANGED <<ring, counts, queues, files, ubuf, local>>
    BY DEF scull_getwritespace
  <1>3. TypeOK'
    BY <1>1, <1>2 DEF TypeOK, Goto, Steps, WriteSteps, ring, counts, queues, files
  <1>4. pc'[p] = step
    BY <1>1 DEF TypeOK, Goto
  <1>5. Held(p)'
    <2>1. CASE step = "w_copy"
      BY <1>1, <1>2, <1>4, <2>1
         DEF Held, HeldFiles, HeldRead, HeldWrite, OpenSteps, spacefree, ring
    <2>2. CASE step /= "w_copy"
      BY <1>4, <2>2, HeldFree
         DEF FreeSteps, Steps, WriteSteps, CriticalSteps, OpenSteps, CloseSteps
    <2>3. QED
      BY <2>1, <2>2
  <1>6. SameSide(p, step) /\ Modes(p, step) /\ pc[p] \in CriticalSteps
    BY <1>2 DEF SameSide, Modes, ModesMatch, NotYetRead, NotYetWrite, NoMoreRead, NoMoreWrite,
                ReadSteps, WriteSteps, CriticalSteps
  <1>7. step \in Steps
    BY DEF Steps, WriteSteps
  <1>8. QED
    BY <1>1, <1>2, <1>3, <1>5, <1>6, <1>7, RingKeeps DEF files

(* What a write copies fits between wp and rp, whatever the request.       *)
LEMMA WriteFits ==
    ASSUME TypeOK, Apart(rp, wp), spacefree /= 0, NEW request \in Nat
    PROVE  Fits(WriteCount(request))
  <1>1. PICK s : s = spacefree
    OBVIOUS
  <1>2. CASE rp > wp
    <2>1. s = rp - wp - 1 /\ s \in Nat
      BY <1>1, <1>2, SpaceFree DEF TypeOK, Offset
    <2>2. WriteCount(request) = Clamp(Clamp(request, rp - wp), s)
      BY <1>1, <1>2 DEF WriteCount
    <2>3. QED
      BY <1>2, <2>1, <2>2, PipeAssumption DEF Fits, Clamp, TypeOK, Offset
  <1>3. CASE ~(rp > wp)
    <2>1. s = rp + buffersize - wp - 1
      BY <1>1, <1>3, SpaceFree, PipeAssumption DEF TypeOK, Offset
    <2>2. s \in Nat
      BY <1>1, <1>3, <2>1, PipeAssumption DEF Apart, TypeOK, Offset
    <2>3. WriteCount(request) = Clamp(Clamp(request, buffersize - wp), s)
      BY <1>1, <1>3 DEF WriteCount
    <2>4. QED
      BY <1>3, <2>1, <2>2, <2>3, PipeAssumption DEF Fits, Clamp, TypeOK, Offset
  <1>4. QED
    BY <1>2, <1>3

(* The copy stays in the buffer and leaves bytes there.                    *)
LEMMA CopyInBytes ==
    ASSUME TypeOK, buffer \in Memory, NEW n \in Nat, Fits(n), CopyIn(n)
    PROVE  /\ buffer' \in Memory
           /\ \A i \in wp .. wp + n - 1 : i \in Offset /\ buffer'[i] \in Byte
           /\ \A i \in Offset : i \notin wp .. wp + n - 1 => buffer'[i] = buffer[i]
  <1>1. PICK bytes \in [1 .. n -> Byte] :
            buffer' = [i \in Offset |-> IF i \in wp .. wp + n - 1
                                        THEN bytes[i - wp + 1] ELSE buffer[i]]
    BY PipeAssumption DEF CopyIn
  <1>2. \A i \in wp .. wp + n - 1 : i \in Offset /\ i - wp + 1 \in 1 .. n
    BY PipeAssumption DEF Fits, TypeOK, Offset
  <1>3. \A i \in wp .. wp + n - 1 : bytes[i - wp + 1] \in Byte
    BY <1>2
  <1>4. \A i \in Offset : buffer[i] \in Byte \cup {Junk}
    BY DEF Memory
  <1>5. QED
    BY <1>1, <1>2, <1>3, <1>4 DEF Memory

LEMMA WriteCopies ==
    ASSUME LockInv, NEW p \in Procs, pc[p] = "w_copy", NEW n,
           \E request \in Nat : n = WriteCount(request)
    PROVE  n \in Nat /\ Fits(n) /\ buffer \in Memory /\ wp /= buffersize
  <1>1. spacefree /= 0
    BY DEF LockInv, MemoryInv, HeldAll, Held, HeldWrite
  <1>2. Fits(n)
    BY <1>1, WriteFits DEF LockInv, MemoryInv, Pointers
  <1>3. buffer \in Memory
    BY BufferThere DEF LockInv, WriteSteps
  <1>4. wp /= buffersize
    BY PointersAlone DEF LockInv, MemoryInv, CriticalSteps
  <1>5. QED
    BY <1>2, <1>3, <1>4 DEF Fits

LEMMA WriteCopyKeeps ==
    ASSUME LockInv, NEW p \in Procs, NEW request \in Nat,
           scull_p_write_EFAULT(p, request) \/ scull_p_write_copy(p, request)
    PROVE  Keeps
  <1> USE DEF LockInv, MemoryInv
  <1>1. PICK n : n = WriteCount(request)
    OBVIOUS
  <1>2. /\ pc[p] = "w_copy" /\ CopyIn(n)
        /\ UNCHANGED <<rp, wp, counts, queues, files, ubuf>>
    BY <1>1 DEF scull_p_write_EFAULT, scull_p_write_copy
  <1>3. n \in Nat /\ Fits(n) /\ buffer \in Memory /\ wp /= buffersize
    BY <1>1, <1>2, WriteCopies
  <1>4. buffer' \in Memory /\ \A i \in wp .. wp + n - 1 : buffer'[i] \in Byte
    BY <1>2, <1>3, CopyInBytes
  <1>5. PICK step \in {"open", "w_move"} :
            /\ Goto(p, step) /\ (step = "w_move" => local'[p] = n)
            /\ sem' \in Nat /\ sig' \subseteq Procs /\ local' \in [Procs -> Int]
    BY <1>1, <1>3 DEF scull_p_write_EFAULT, scull_p_write_copy, Up, Return, Goto, Keep, TypeOK
  <1>6. TypeOK'
    BY <1>2, <1>4, <1>5 DEF TypeOK, Goto, Steps, WriteSteps, counts, queues, files
  <1>7. pc'[p] = step
    BY <1>5 DEF TypeOK, Goto
  <1>8. Held(p)'
    <2>1. CASE step = "w_move"
      <3>1. Fits(n)' /\ spacefree' = spacefree /\ spacefree /= 0
        BY <1>2, <1>3 DEF Fits, spacefree, HeldAll, Held, HeldWrite
      <3>2. QED
        BY <1>2, <1>4, <1>5, <1>7, <2>1, <3>1
           DEF Held, HeldFiles, HeldRead, HeldWrite, OpenSteps
    <2>2. CASE step /= "w_move"
      BY <1>7, <2>2, HeldFree
         DEF FreeSteps, Steps, CriticalSteps, OpenSteps, CloseSteps
    <2>3. QED
      BY <2>1, <2>2
  <1>9. SameSide(p, step) /\ Modes(p, step) /\ pc[p] \in CriticalSteps
    BY <1>2 DEF SameSide, Modes, ModesMatch, NotYetRead, NotYetWrite, NoMoreRead, NoMoreWrite,
                ReadSteps, WriteSteps, CriticalSteps
  <1>10. Allocated' /\ Pointers'
    BY <1>2, <1>3, <1>4, PipeAssumption DEF Allocated, Pointers, Apart, counts
  <1>11. step \in Steps
    BY DEF Steps, WriteSteps
  <1>12. QED
    BY <1>2, <1>5, <1>6, <1>8, <1>9, <1>10, <1>11, CriticalKeeps DEF files

LEMMA WriteMoveKeeps ==
    ASSUME LockInv, NEW p \in Procs, scull_p_write_move(p)
    PROVE  Keeps
  <1> USE DEF LockInv, MemoryInv
  <1>1. PICK n : n = local[p]
    OBVIOUS
  <1>2. /\ pc[p] = "w_move" /\ Goto(p, "w_put")
        /\ local' = [local EXCEPT ![p] = wp + n]
        /\ UNCHANGED <<ring, counts, sem, queues, files, sig, ubuf>>
    BY <1>1 DEF scull_p_write_move, Keep
  <1>3. Fits(n) /\ \A i \in wp .. wp + n - 1 : buffer[i] \in Byte
    BY <1>1, <1>2 DEF HeldAll, Held, HeldWrite
  <1>4. spacefree /= 0
    BY <1>2 DEF HeldAll, Held, HeldWrite
  <1>5. wp + n \in Int /\ (wp + n) - wp = n
    BY <1>3 DEF Fits, TypeOK
  <1>6. TypeOK'
    BY <1>2, <1>5 DEF TypeOK, Goto, Steps, WriteSteps, ring, counts, queues, files
  <1>7. pc'[p] = "w_put" /\ local'[p] = wp + n
    BY <1>2 DEF TypeOK, Goto
  <1>8. Held(p)'
    <2>1. Fits(n)' /\ spacefree' = spacefree
      BY <1>2, <1>3 DEF Fits, spacefree, ring
    <2>2. (local[p] - wp)' = n
      BY <1>2, <1>5, <1>7 DEF ring
    <2>3. Fits(local[p] - wp)'
      BY <2>1, <2>2 DEF Fits
    <2>4. \A i \in wp' .. local'[p] - 1 : buffer'[i] \in Byte
      <3>1. wp' = wp /\ buffer' = buffer
        BY <1>2 DEF ring
      <3>2. (wp' .. local'[p] - 1) = (wp .. wp + n - 1)
        BY <1>3, <1>7, <3>1 DEF Fits, TypeOK
      <3>3. QED
        BY <1>3, <3>1, <3>2
    <2>5. QED
      BY <1>4, <1>7, <2>1, <2>3, <2>4
         DEF Held, HeldFiles, HeldRead, HeldWrite, OpenSteps, ring
  <1>9. SameSide(p, "w_put") /\ Modes(p, "w_put") /\ pc[p] \in CriticalSteps
    BY <1>2 DEF SameSide, Modes, ModesMatch, NotYetRead, NotYetWrite, NoMoreRead, NoMoreWrite,
                ReadSteps, WriteSteps, CriticalSteps
  <1>10. "w_put" \in Steps
    BY DEF Steps, WriteSteps
  <1>11. QED
    BY <1>2, <1>6, <1>8, <1>9, <1>10, RingKeeps DEF files

(* wp goes to the end at most, and then rp is not at the start.            *)
LEMMA WritePutKeeps ==
    ASSUME LockInv, NEW p \in Procs, scull_p_write_put(p)
    PROVE  Keeps
  <1> USE DEF LockInv, MemoryInv
  <1>1. /\ pc[p] = "w_put" /\ Goto(p, "w_wrap")
        /\ wp' = local[p] /\ local' = [local EXCEPT ![p] = 0]
        /\ UNCHANGED <<buffer, rp, counts, sem, queues, files, sig, ubuf>>
    BY DEF scull_p_write_put, Keep
  <1>2. PICK n : n = local[p] - wp
    OBVIOUS
  <1>3. Fits(n) /\ local[p] = wp + n
    BY <1>1, <1>2 DEF HeldAll, Held, HeldWrite, TypeOK
  <1>4. wp + n \in 0 .. buffersize /\ Apart(rp, wp + n)
    BY <1>3, PipeAssumption DEF Fits, Apart, TypeOK, Offset
  <1>5. TypeOK'
    BY <1>1, <1>3, <1>4 DEF TypeOK, Goto, Steps, WriteSteps, counts, queues, files
  <1>6. pc'[p] = "w_wrap"
    BY <1>1 DEF TypeOK, Goto
  <1>7. Held(p)'
    BY <1>6, HeldFree DEF FreeSteps
  <1>8. SameSide(p, "w_wrap") /\ Modes(p, "w_wrap") /\ pc[p] \in CriticalSteps
    BY <1>1 DEF SameSide, Modes, ModesMatch, NotYetRead, NotYetWrite, NoMoreRead, NoMoreWrite,
                ReadSteps, WriteSteps, CriticalSteps
  <1>9. Allocated' /\ Pointers'
    BY <1>1, <1>3, <1>4, <1>6 DEF Allocated, Pointers, Apart, counts
  <1>10. "w_wrap" \in Steps
    BY DEF Steps, WriteSteps
  <1>11. QED
    BY <1>1, <1>5, <1>7, <1>8, <1>9, <1>10, CriticalKeeps DEF files

LEMMA WriteWrapKeeps ==
    ASSUME LockInv, NEW p \in Procs, scull_p_write_wrap(p)
    PROVE  Keeps
  <1> USE DEF LockInv, MemoryInv
  <1>1. PICK step \in {"w_zero", "w_wake"} :
            /\ Goto(p, step) /\ (step = "w_zero" <=> wp = buffersize) /\ sem' \in Nat
    BY DEF scull_p_write_wrap, Up, TypeOK
  <1>2. pc[p] = "w_wrap" /\ UNCHANGED <<ring, counts, queues, files, sig, ubuf, local>>
    BY DEF scull_p_write_wrap
  <1>3. TypeOK'
    BY <1>1, <1>2 DEF TypeOK, Goto, Steps, WriteSteps, ring, counts, queues, files
  <1>4. pc'[p] = step
    BY <1>1 DEF TypeOK, Goto
  <1>5. Held(p)'
    BY <1>1, <1>2, <1>4 DEF Held, HeldFiles, HeldRead, HeldWrite, OpenSteps, ring
  <1>6. SameSide(p, step) /\ Modes(p, step) /\ pc[p] \in CriticalSteps
    BY <1>2 DEF SameSide, Modes, ModesMatch, NotYetRead, NotYetWrite, NoMoreRead, NoMoreWrite,
                ReadSteps, WriteSteps, CriticalSteps
  <1>7. Allocated' /\ Pointers'
    BY <1>1, <1>2, <1>4 DEF Allocated, Pointers, Apart, counts, ring
  <1>8. step \in Steps
    BY DEF Steps, WriteSteps
  <1>9. QED
    BY <1>1, <1>2, <1>3, <1>5, <1>6, <1>7, <1>8, CriticalKeeps DEF files

LEMMA WriteZeroKeeps ==
    ASSUME LockInv, NEW p \in Procs, scull_p_write_zero(p)
    PROVE  Keeps
  <1> USE DEF LockInv, MemoryInv
  <1>1. /\ pc[p] = "w_zero" /\ Goto(p, "w_wake") /\ wp' = 0 /\ sem' = sem + 1
        /\ UNCHANGED <<buffer, rp, counts, queues, files, sig, ubuf, local>>
    BY DEF scull_p_write_zero, Up
  <1>2. TypeOK'
    BY <1>1, PipeAssumption DEF TypeOK, Goto, Steps, WriteSteps, counts, queues, files
  <1>3. pc'[p] = "w_wake"
    BY <1>1 DEF TypeOK, Goto
  <1>4. Held(p)'
    BY <1>3, HeldFree DEF FreeSteps, Steps, WriteSteps, CriticalSteps, OpenSteps, CloseSteps
  <1>5. SameSide(p, "w_wake") /\ Modes(p, "w_wake") /\ pc[p] \in CriticalSteps
    BY <1>1 DEF SameSide, Modes, ModesMatch, NotYetRead, NotYetWrite, NoMoreRead, NoMoreWrite,
                ReadSteps, WriteSteps, CriticalSteps
  <1>6. Allocated' /\ Pointers'
    BY <1>1, PipeAssumption DEF Allocated, Pointers, Apart, counts
  <1>7. "w_wake" \in Steps
    BY DEF Steps, WriteSteps
  <1>8. QED
    BY <1>1, <1>2, <1>4, <1>5, <1>6, <1>7, CriticalKeeps DEF files

LEMMA WriteKeeps ==
    ASSUME LockInv, NEW p \in Procs, scull_p_write(p)
    PROVE  Keeps
  <1>1. ASSUME NEW request \in 0 .. MaxRequest,
               scull_p_write_EFAULT(p, request) \/ scull_p_write_copy(p, request)
        PROVE  Keeps
    BY <1>1, WriteCopyKeeps, PipeAssumption
  <1>2. QED
    BY <1>1, WriteOutside, SpaceKeeps, WriteMoveKeeps, WritePutKeeps, WriteWrapKeeps,
       WriteZeroKeeps, DownKeeps DEF scull_p_write

-----------------------------------------------------------------------------
(* Opens and closes.                                                       *)

(* A step between a down and an up that moves a count with its files.      *)
LEMMA CountKeeps ==
    ASSUME LockInv, TypeOK', NEW p \in Procs, NEW step \in Steps, Goto(p, step),
           pc[p] \in CriticalSteps, pc[p] \notin {"w_wrap", "w_zero"},
           UNCHANGED <<f_flags, ring>>, Surplus' = Surplus, Modes(p, step),
           Allocated', Held(p)'
    PROVE  Keeps
  <1> USE DEF LockInv, MemoryInv
  <1>1. CountsCover' /\ ModesMatch'
    BY CoverKept, ModesKept
  <1>2. Moves(p)
    BY DEF Goto, Moves, TypeOK
  <1>3. HeldAll'
    BY <1>2, HeldAlone
  <1>4. Pointers'
    BY PointersAlone DEF Pointers, Apart, ring
  <1>5. QED
    BY <1>1, <1>3, <1>4 DEF Keeps

(* A count that moves by the change of a set keeps its distance from it.   *)
LEMMA SurplusIn ==
    ASSUME NEW n \in Int, NEW S, IsFiniteSet(S), NEW p, p \notin S
    PROVE  (n + 1) - Cardinality(S \cup {p}) = n - Cardinality(S)
  <1>1. Cardinality(S \cup {p}) = Cardinality(S) + 1 /\ Cardinality(S) \in Nat
    BY FS_AddElement, FS_CardinalityType
  <1>2. PICK c, d : c = Cardinality(S) /\ d = Cardinality(S \cup {p})
    OBVIOUS
  <1>3. d = c + 1 /\ c \in Nat
    BY <1>1, <1>2
  <1>4. (n + 1) - d = n - c
    BY <1>3
  <1>5. QED
    BY <1>2, <1>4

LEMMA SurplusOut ==
    ASSUME NEW n \in Int, NEW S, IsFiniteSet(S), NEW p \in S
    PROVE  (n + (-1)) - Cardinality(S \ {p}) = n - Cardinality(S)
  <1>1. Cardinality(S \ {p}) = Cardinality(S) - 1 /\ Cardinality(S) \in Nat
    BY FS_RemoveElement, FS_CardinalityType
  <1>2. PICK c, d : c = Cardinality(S) /\ d = Cardinality(S \ {p})
    OBVIOUS
  <1>3. d = c - 1 /\ c \in Nat
    BY <1>1, <1>2
  <1>4. (n + (-1)) - d = n - c
    BY <1>3
  <1>5. QED
    BY <1>2, <1>4

(* Between the load and the store of a count nobody else changes it.       *)
LEMMA StoreReadersSurplus ==
    ASSUME LockInv, NEW p \in Procs,
           \/ StoreReaders(p, "o_nr_put", 1, "o_nw")
           \/ StoreReaders(p, "c_nr_put", -1, "c_nw")
    PROVE  Surplus' = Surplus /\ TypeOK' /\ (pc[p] = "c_nr_put" => nreaders' = nreaders + (-1))
  <1> USE DEF LockInv, MemoryInv
  <1>1. pc[p] \in {"o_nr_put", "c_nr_put"} => local[p] = nreaders /\ FMODE_READ(f_flags[p])
    BY DEF HeldAll, Held, HeldFiles
  <1>2. TypeOK' /\ OpenWriters' = OpenWriters /\ nwriters' = nwriters
    <2>1. nreaders' \in Int /\ nwriters' \in Int
      <3>1. local[p] \in Int /\ nreaders \in Int /\ nwriters \in Int
        BY DEF TypeOK
      <3>2. QED
        BY <3>1 DEF StoreReaders
    <2>2. TypeOK'
      <3>1. local' = [local EXCEPT ![p] = 0] /\ \E step \in {"o_nw", "c_nw"} : Goto(p, step)
        BY DEF StoreReaders, Keep
      <3>2. local' \in [Procs -> Int] /\ pc' \in [Procs -> Steps]
        BY <3>1 DEF TypeOK, Goto, Steps, OpenSteps, CloseSteps
      <3>3. QED
        BY <2>1, <3>2 DEF StoreReaders, TypeOK, ring, queues, files
    <2>3. QED
      BY <2>2 DEF StoreReaders, TypeOK, Goto, OpenWriters, NotYetRead, NotYetWrite, NoMoreWrite, files
  <1>3. nreaders' - Cardinality(OpenReaders') = nreaders - Cardinality(OpenReaders)
    <2>1. CASE StoreReaders(p, "o_nr_put", 1, "o_nw")
      <3>1. nreaders' = nreaders + 1 /\ p \notin OpenReaders /\ OpenReaders' = OpenReaders \cup {p}
        BY <1>1, <2>1 DEF StoreReaders, TypeOK, Goto, OpenReaders, NotYetRead, NoMoreRead,
                          NoMoreWrite, files
      <3>2. QED
        BY <3>1, SurplusIn, OpenFinite DEF TypeOK
    <2>2. CASE StoreReaders(p, "c_nr_put", -1, "c_nw")
      <3>1. nreaders' = nreaders + (-1) /\ p \in OpenReaders /\ OpenReaders' = OpenReaders \ {p}
        BY <1>1, <2>2 DEF StoreReaders, TypeOK, Goto, OpenReaders, NotYetRead, NoMoreRead,
                          NoMoreWrite, files
      <3>2. QED
        BY <3>1, SurplusOut, OpenFinite DEF TypeOK
    <2>3. QED
      BY <2>1, <2>2
  <1>4. QED
    BY <1>1, <1>2, <1>3 DEF Surplus, StoreReaders

LEMMA StoreWritersSurplus ==
    ASSUME LockInv, NEW p \in Procs,
           \/ StoreWriters(p, "o_nw_put", 1, "o_up")
           \/ StoreWriters(p, "c_nw_put", -1, "c_sum")
    PROVE  Surplus' = Surplus /\ TypeOK' /\ (pc[p] = "c_nw_put" => nwriters' = nwriters + (-1))
  <1> USE DEF LockInv, MemoryInv
  <1>1. pc[p] \in {"o_nw_put", "c_nw_put"} => local[p] = nwriters /\ FMODE_WRITE(f_flags[p])
    BY DEF HeldAll, Held, HeldFiles
  <1>2. TypeOK' /\ OpenReaders' = OpenReaders /\ nreaders' = nreaders
    <2>1. nreaders' \in Int /\ nwriters' \in Int
      <3>1. local[p] \in Int /\ nreaders \in Int /\ nwriters \in Int
        BY DEF TypeOK
      <3>2. QED
        BY <3>1 DEF StoreWriters
    <2>2. TypeOK'
      <3>1. local' = [local EXCEPT ![p] = 0] /\ \E step \in {"o_up", "c_sum"} : Goto(p, step)
        BY DEF StoreWriters, Keep
      <3>2. local' \in [Procs -> Int] /\ pc' \in [Procs -> Steps]
        BY <3>1 DEF TypeOK, Goto, Steps, OpenSteps, CloseSteps
      <3>3. QED
        BY <2>1, <3>2 DEF StoreWriters, TypeOK, ring, queues, files
    <2>3. QED
      BY <2>2 DEF StoreWriters, TypeOK, Goto, OpenReaders, NotYetRead, NoMoreRead, NoMoreWrite, files
  <1>3. nwriters' - Cardinality(OpenWriters') = nwriters - Cardinality(OpenWriters)
    <2>1. CASE StoreWriters(p, "o_nw_put", 1, "o_up")
      <3>1. nwriters' = nwriters + 1 /\ p \notin OpenWriters /\ OpenWriters' = OpenWriters \cup {p}
        BY <1>1, <2>1 DEF StoreWriters, TypeOK, Goto, OpenWriters, NotYetRead, NotYetWrite,
                          NoMoreWrite, files
      <3>2. QED
        BY <3>1, SurplusIn, OpenFinite DEF TypeOK
    <2>2. CASE StoreWriters(p, "c_nw_put", -1, "c_sum")
      <3>1. nwriters' = nwriters + (-1) /\ p \in OpenWriters /\ OpenWriters' = OpenWriters \ {p}
        BY <1>1, <2>2 DEF StoreWriters, TypeOK, Goto, OpenWriters, NotYetRead, NotYetWrite,
                          NoMoreWrite, files
      <3>2. QED
        BY <3>1, SurplusOut, OpenFinite DEF TypeOK
    <2>3. QED
      BY <2>1, <2>2
  <1>4. QED
    BY <1>1, <1>2, <1>3 DEF Surplus, StoreWriters

LEMMA LoadKeeps ==
    ASSUME LockInv, NEW p \in Procs,
           \/ Load(p, "o_nr", FMODE_READ(f_flags[p]), nreaders, "o_nr_put", "o_nw")
           \/ Load(p, "o_nw", FMODE_WRITE(f_flags[p]), nwriters, "o_nw_put", "o_up")
           \/ Load(p, "c_nr", FMODE_READ(f_flags[p]), nreaders, "c_nr_put", "c_nw")
           \/ Load(p, "c_nw", FMODE_WRITE(f_flags[p]), nwriters, "c_nw_put", "c_sum")
           \/ Load(p, "c_sum", TRUE, nreaders, "c_last", "c_last")
    PROVE  Keeps
  <1> USE DEF LockInv, MemoryInv
  <1>1. PICK step \in {"o_nr_put", "o_nw", "o_nw_put", "o_up", "c_nr_put", "c_nw",
                       "c_nw_put", "c_sum", "c_last"} :
          /\ Goto(p, step)
          /\ <<pc[p], step>> \in
               {<<"o_nr", "o_nr_put">>, <<"o_nr", "o_nw">>, <<"o_nw", "o_nw_put">>,
                <<"o_nw", "o_up">>, <<"c_nr", "c_nr_put">>, <<"c_nr", "c_nw">>,
                <<"c_nw", "c_nw_put">>, <<"c_nw", "c_sum">>, <<"c_sum", "c_last">>}
          /\ local' \in [Procs -> Int]
          /\ step \in {"o_nr_put", "c_nr_put"} =>
                 local'[p] = nreaders /\ FMODE_READ(f_flags[p])
          /\ step \in {"o_nw_put", "c_nw_put"} =>
                 local'[p] = nwriters /\ FMODE_WRITE(f_flags[p])
          /\ step = "c_last" => local'[p] = nreaders
          /\ <<pc[p], step>> \in {<<"o_nr", "o_nw">>, <<"c_nr", "c_nw">>} =>
                 ~FMODE_READ(f_flags[p])
          /\ <<pc[p], step>> \in {<<"o_nw", "o_up">>, <<"c_nw", "c_sum">>} =>
                 ~FMODE_WRITE(f_flags[p])
    BY DEF Load, Keep, TypeOK
  <1>2. UNCHANGED <<ring, counts, sem, queues, files, sig, ubuf>>
    BY DEF Load
  <1>3. TypeOK'
    BY <1>1, <1>2 DEF TypeOK, Goto, Steps, OpenSteps, CloseSteps, ring, counts, queues, files
  <1>4. pc'[p] = step
    BY <1>1 DEF TypeOK, Goto
  <1>5. Held(p)'
    <2>1. pc[p] \in OpenSteps \ {"o_test", "o_alloc"} => buffer /= NULL
      BY DEF HeldAll, Held, HeldFiles
    <2>2. step \in OpenSteps => pc[p] \in OpenSteps \ {"o_test", "o_alloc"}
      BY <1>1 DEF OpenSteps
    <2>3. HeldFiles(p)'
      BY <1>1, <1>2, <1>4, <2>1, <2>2 DEF HeldFiles, ring, counts, files
    <2>4. HeldRead(p)' /\ HeldWrite(p)'
      BY <1>4 DEF HeldRead, HeldWrite
    <2>5. QED
      BY <2>3, <2>4 DEF Held
  <1>6. pc[p] \in CriticalSteps /\ pc[p] \notin {"w_wrap", "w_zero"}
    BY <1>1 DEF CriticalSteps, OpenSteps, CloseSteps
  <1>7. SameSide(p, step)
    BY <1>1 DEF SameSide, NotYetRead, NotYetWrite, NoMoreRead, NoMoreWrite
  <1>8. Modes(p, step)
    BY DEF Modes, ReadSteps, WriteSteps
  <1>9. step \in Steps
    BY DEF Steps, OpenSteps, CloseSteps
  <1>10. QED
    BY <1>1, <1>2, <1>3, <1>5, <1>6, <1>7, <1>8, <1>9, RingKeeps DEF files

LEMMA StoreKeeps ==
    ASSUME LockInv, NEW p \in Procs,
           \/ StoreReaders(p, "o_nr_put", 1, "o_nw")
           \/ StoreWriters(p, "o_nw_put", 1, "o_up")
           \/ StoreReaders(p, "c_nr_put", -1, "c_nw")
           \/ StoreWriters(p, "c_nw_put", -1, "c_sum")
    PROVE  Keeps
  <1> USE DEF LockInv, MemoryInv
  <1>1. PICK step \in {"o_nw", "o_up", "c_nw", "c_sum"} :
          /\ Goto(p, step)
          /\ <<pc[p], step>> \in {<<"o_nr_put", "o_nw">>, <<"o_nw_put", "o_up">>,
                                  <<"c_nr_put", "c_nw">>, <<"c_nw_put", "c_sum">>}
    BY DEF StoreReaders, StoreWriters
  <1>2. UNCHANGED <<ring, sem, queues, files, sig, ubuf>>
    BY DEF StoreReaders, StoreWriters
  <1>3. Surplus' = Surplus /\ TypeOK'
    BY StoreReadersSurplus, StoreWritersSurplus
  <1>4. pc'[p] = step
    BY <1>1 DEF TypeOK, Goto
  <1>5. pc[p] \in OpenSteps \ {"o_test", "o_alloc"} => buffer /= NULL
    BY DEF HeldAll, Held, HeldFiles
  <1>6. Held(p)'
    <2>1. step \in OpenSteps => pc[p] \in OpenSteps \ {"o_test", "o_alloc"}
      BY <1>1 DEF OpenSteps
    <2>2. HeldFiles(p)'
      BY <1>2, <1>4, <1>5, <2>1 DEF HeldFiles, ring
    <2>3. HeldRead(p)' /\ HeldWrite(p)'
      BY <1>4 DEF HeldRead, HeldWrite
    <2>4. QED
      BY <2>2, <2>3 DEF Held
  <1>7. Allocated'
    <2>1. CASE pc[p] \in {"o_nr_put", "o_nw_put"}
      BY <1>2, <1>5, <2>1 DEF Allocated, OpenSteps, ring
    <2>2. CASE pc[p] = "c_nr_put"
      <3>1. nreaders' = nreaders + (-1) /\ nwriters' = nwriters
        BY <2>2, StoreReadersSurplus DEF StoreReaders, StoreWriters
      <3>2. QED
        BY <1>2, <3>1 DEF Allocated, TypeOK, ring
    <2>3. CASE pc[p] = "c_nw_put"
      <3>1. nwriters' = nwriters + (-1) /\ nreaders' = nreaders
        BY <2>3, StoreWritersSurplus DEF StoreReaders, StoreWriters
      <3>2. QED
        BY <1>2, <3>1 DEF Allocated, TypeOK, ring
    <2>4. QED
      BY <1>1, <2>1, <2>2, <2>3
  <1>8. pc[p] \in CriticalSteps /\ pc[p] \notin {"w_wrap", "w_zero"}
    BY <1>1 DEF CriticalSteps, OpenSteps, CloseSteps
  <1>9. Modes(p, step)
    BY DEF Modes, ReadSteps, WriteSteps
  <1>10. step \in Steps
    BY DEF Steps, OpenSteps, CloseSteps
  <1>11. QED
    BY <1>1, <1>2, <1>3, <1>6, <1>7, <1>8, <1>9, <1>10, CountKeeps DEF files

(* The buffer comes while nobody counts on it.                             *)
LEMMA OpenBufferKeeps ==
    ASSUME LockInv, NEW p \in Procs,
           scull_p_open_test(p) \/ scull_p_open_alloc(p) \/ scull_p_open_setup(p)
    PROVE  Keeps
  <1> USE DEF LockInv, MemoryInv
  <1>1. PICK step \in {"o_alloc", "o_setup", "o_nr"} :
          /\ Goto(p, step)
          /\ <<pc[p], step>> \in {<<"o_test", "o_alloc">>, <<"o_test", "o_nr">>,
                                  <<"o_alloc", "o_setup">>, <<"o_setup", "o_nr">>}
          /\ step = "o_alloc" => buffer = NULL
          /\ pc[p] = "o_test" /\ step = "o_nr" => buffer /= NULL
    BY DEF scull_p_open_test, scull_p_open_alloc, scull_p_open_setup
  <1>2. /\ UNCHANGED <<counts, sem, queues, files, sig, ubuf, local>>
        /\ (rp' = rp /\ wp' = wp) \/ (rp' = 0 /\ wp' = 0)
        /\ buffer' = buffer \/ buffer' \in Memory
        /\ pc[p] = "o_setup" \/ step = "o_alloc" \/ pc[p] = "o_test" => buffer' = buffer
        /\ step = "o_setup" => buffer' \in Memory
    BY <1>1 DEF scull_p_open_test, scull_p_open_alloc, scull_p_open_setup, ring, Memory
  <1>3. TypeOK'
    BY <1>1, <1>2, PipeAssumption
       DEF TypeOK, Goto, Steps, OpenSteps, Offset, counts, queues, files
  <1>4. pc'[p] = step
    BY <1>1 DEF TypeOK, Goto
  <1>5. HeldFiles(p)
    BY DEF HeldAll, Held
  <1>6. step \in {"o_alloc", "o_setup"} => nreaders + nwriters <= 0
    BY <1>1, <1>5 DEF HeldFiles, Allocated, TypeOK
  <1>7. step \in {"o_setup", "o_nr"} => buffer' /= NULL
    BY <1>1, <1>2, <1>5, PipeAssumption DEF HeldFiles, OpenSteps
  <1>8. Held(p)'
    <2>1. HeldFiles(p)'
      BY <1>1, <1>2, <1>4, <1>6, <1>7 DEF HeldFiles, counts
    <2>2. HeldRead(p)' /\ HeldWrite(p)'
      BY <1>4 DEF HeldRead, HeldWrite
    <2>3. QED
      BY <2>1, <2>2 DEF Held
  <1>9. pc[p] \in CriticalSteps /\ pc[p] \notin {"w_wrap", "w_zero"}
    BY <1>1 DEF CriticalSteps, OpenSteps
  <1>10. Allocated'
    BY <1>2, PipeAssumption DEF Allocated, counts
  <1>11. Pointers'
    <2>1. wp /= buffersize
      BY <1>9, PointersAlone
    <2>2. QED
      BY <1>2, <2>1, PipeAssumption DEF Pointers, Apart
  <1>12. SameSide(p, step) /\ Modes(p, step)
    BY <1>1 DEF SameSide, Modes, NotYetRead, NotYetWrite, NoMoreRead, NoMoreWrite,
                ReadSteps, WriteSteps
  <1>13. step \in Steps
    BY DEF Steps, OpenSteps
  <1>14. QED
    BY <1>1, <1>2, <1>3, <1>8, <1>9, <1>10, <1>11, <1>12, <1>13, CriticalKeeps DEF files

(* The steps of open and close that only change the flags or the place.    *)
LEMMA EndsKeep ==
    ASSUME LockInv, NEW p \in Procs,
           \/ OpenCall(p) \/ scull_p_open_interrupted(p) \/ scull_p_open_ENOMEM(p)
           \/ scull_p_release_up(p)
    PROVE  Keeps
  <1> USE DEF LockInv, MemoryInv
  <1>1. PICK step \in {"closed", "o_down"}, flags \in SUBSET FlagBits :
          /\ Goto(p, step) /\ f_flags' = [f_flags EXCEPT ![p] = flags]
          /\ pc[p] \in {"closed", "o_down", "o_alloc", "c_up"}
          /\ buffer' = buffer \/ (pc[p] = "o_alloc" /\ buffer' = NULL)
          /\ sem' \in Nat /\ sig' \subseteq Procs
    <2>1. CASE OpenCall(p)
      BY <2>1, PipeAssumption DEF OpenCall, TypeOK, ring
    <2>2. {} \in SUBSET FlagBits
      OBVIOUS
    <2>3. CASE scull_p_open_interrupted(p)
      BY <2>2, <2>3 DEF scull_p_open_interrupted, DownInterrupted, Return, TypeOK, ring
    <2>4. CASE scull_p_open_ENOMEM(p)
      <3>1. /\ pc[p] = "o_alloc" /\ Goto(p, "closed") /\ buffer' = NULL
            /\ f_flags' = [f_flags EXCEPT ![p] = {}]
            /\ sem' \in Nat /\ sig' \subseteq Procs
        BY <2>4 DEF scull_p_open_ENOMEM, Return, Up, TypeOK
      <3>2. QED
        BY <2>2, <3>1
    <2>5. CASE scull_p_release_up(p)
      <3>1. /\ pc[p] = "c_up" /\ Goto(p, "closed") /\ buffer' = buffer
            /\ f_flags' = [f_flags EXCEPT ![p] = {}]
            /\ sem' \in Nat /\ sig' \subseteq Procs
        BY <2>5 DEF scull_p_release_up, Return, Up, TypeOK, ring
      <3>2. QED
        BY <2>2, <3>1
    <2>6. QED
      BY <2>1, <2>3, <2>4, <2>5
  <1>2. UNCHANGED <<rp, wp, counts, queues, async_queue, ubuf, local>>
    BY DEF OpenCall, scull_p_open_interrupted, scull_p_open_ENOMEM, scull_p_release_up, ring
  <1>3. TypeOK'
    BY <1>1, <1>2 DEF TypeOK, Goto, Steps, counts, queues
  <1>4. \A q \in Procs \ {p} : f_flags'[q] = f_flags[q]
    BY <1>1 DEF TypeOK
  <1>5. QED
    BY <1>1, <1>2, <1>3, <1>4, UncountedKeeps

LEMMA OpenUpKeeps ==
    ASSUME LockInv, NEW p \in Procs, scull_p_open_up(p)
    PROVE  Keeps
  <1> USE DEF LockInv, MemoryInv
  <1>1. /\ pc[p] = "o_up" /\ Goto(p, "open") /\ sem' \in Nat /\ sig' \subseteq Procs
        /\ UNCHANGED <<ring, counts, queues, files, ubuf, local>>
    BY DEF scull_p_open_up, Up, Return, TypeOK
  <1>2. TypeOK'
    BY <1>1 DEF TypeOK, Goto, Steps, ring, counts, queues, files
  <1>3. Held(p)'
    BY <1>1, HeldFree DEF TypeOK, Goto, FreeSteps, Steps, CriticalSteps, OpenSteps, CloseSteps
  <1>4. SameSide(p, "open") /\ Modes(p, "open") /\ pc[p] \in CriticalSteps
    BY <1>1 DEF SameSide, Modes, NotYetRead, NotYetWrite, NoMoreRead, NoMoreWrite,
                ReadSteps, WriteSteps, CriticalSteps, OpenSteps
  <1>5. "open" \in Steps
    BY DEF Steps
  <1>6. QED
    BY <1>1, <1>2, <1>3, <1>4, <1>5, RingKeeps DEF files

LEMMA OpenKeeps ==
    ASSUME LockInv, NEW p \in Procs, scull_p_open(p)
    PROVE  Keeps
  <1>1. CASE Down(p, "o_down", "o_test")
    BY <1>1, DownKeeps
  <1>2. CASE scull_p_open_nreaders(p) \/ scull_p_open_nwriters(p)
    BY <1>2, LoadKeeps, StoreKeeps DEF scull_p_open_nreaders, scull_p_open_nwriters
  <1>3. QED
    BY <1>1, <1>2, EndsKeep, OpenBufferKeeps, OpenUpKeeps DEF scull_p_open

LEMMA ReleaseCallKeeps ==
    ASSUME LockInv, NEW p \in Procs, ReleaseCall(p)
    PROVE  Keeps
  <1> USE DEF LockInv, MemoryInv
  <1>1. /\ pc[p] = "open" /\ Goto(p, "c_down") /\ async_queue' \subseteq Procs
        /\ UNCHANGED <<ring, counts, sem, queues, f_flags, sig, ubuf, local>>
    BY DEF ReleaseCall, TypeOK
  <1>2. TypeOK'
    BY <1>1 DEF TypeOK, Goto, Steps, ring, counts, queues
  <1>3. SameSide(p, "c_down") /\ Modes(p, "c_down") /\ pc[p] \notin CriticalSteps
    BY <1>1 DEF SameSide, Modes, NotYetRead, NotYetWrite, NoMoreRead, NoMoreWrite,
                ReadSteps, WriteSteps, CriticalSteps, OpenSteps, CloseSteps
  <1>4. "c_down" \in Steps \ CriticalSteps
    BY DEF Steps, CriticalSteps, OpenSteps, CloseSteps
  <1>5. QED
    BY <1>1, <1>2, <1>3, <1>4, OutsideKeeps

(* The buffer goes while nobody counts on it.                              *)
LEMMA ReleaseBufferKeeps ==
    ASSUME LockInv, NEW p \in Procs, scull_p_release_last(p) \/ scull_p_release_free(p)
    PROVE  Keeps
  <1> USE DEF LockInv, MemoryInv
  <1>1. PICK step \in {"c_free", "c_up"} :
          /\ Goto(p, step)
          /\ pc[p] \in {"c_last", "c_free"} /\ (pc[p] = "c_free" => step = "c_up")
          /\ pc[p] = "c_last" /\ step = "c_free" => local[p] + nwriters = 0
          /\ local' \in [Procs -> Int]
          /\ buffer' = buffer \/ (pc[p] = "c_free" /\ buffer' = NULL)
    BY DEF scull_p_release_last, scull_p_release_free, Keep, TypeOK, ring
  <1>2. UNCHANGED <<rp, wp, counts, sem, queues, files, sig, ubuf>>
    BY DEF scull_p_release_last, scull_p_release_free, ring
  <1>3. TypeOK'
    BY <1>1, <1>2 DEF TypeOK, Goto, Steps, CloseSteps, counts, queues, files
  <1>4. pc'[p] = step
    BY <1>1 DEF TypeOK, Goto
  <1>5. HeldFiles(p)
    BY DEF HeldAll, Held
  <1>6. step = "c_free" => nreaders + nwriters = 0
    BY <1>1, <1>5 DEF HeldFiles
  <1>7. pc[p] = "c_free" => nreaders + nwriters = 0
    BY <1>5 DEF HeldFiles
  <1>8. Held(p)'
    BY <1>2, <1>4, <1>6 DEF Held, HeldFiles, HeldRead, HeldWrite, OpenSteps, counts
  <1>9. pc[p] \in CriticalSteps /\ pc[p] \notin {"w_wrap", "w_zero"}
    BY <1>1 DEF CriticalSteps, CloseSteps
  <1>10. Allocated'
    BY <1>1, <1>2, <1>7 DEF Allocated, counts
  <1>11. Pointers'
    <2>1. wp /= buffersize
      BY <1>9, PointersAlone
    <2>2. QED
      BY <1>2, <2>1 DEF Pointers, Apart
  <1>12. SameSide(p, step) /\ Modes(p, step)
    BY <1>1 DEF SameSide, Modes, NotYetRead, NotYetWrite, NoMoreRead, NoMoreWrite,
                ReadSteps, WriteSteps
  <1>13. step \in Steps
    BY DEF Steps, CloseSteps
  <1>14. QED
    BY <1>1, <1>2, <1>3, <1>8, <1>9, <1>10, <1>11, <1>12, <1>13, CriticalKeeps DEF files

(* An interrupted close drops a counted file and leaves the counts above.  *)
LEMMA InterruptedKeeps ==
    ASSUME LockInv, NEW p \in Procs, scull_p_release_interrupted(p)
    PROVE  MemoryInv'
  <1> USE DEF LockInv, MemoryInv
  <1>1. /\ pc[p] = "c_down" /\ Goto(p, "closed") /\ sig' \subseteq Procs
        /\ f_flags' = [f_flags EXCEPT ![p] = {}]
        /\ UNCHANGED <<ring, counts, sem, queues, async_queue, ubuf, local>>
    BY DEF scull_p_release_interrupted, DownInterrupted, Return, TypeOK
  <1>2. TypeOK'
    <2>1. {} \in SUBSET FlagBits
      OBVIOUS
    <2>2. QED
      BY <1>1, <2>1 DEF TypeOK, Goto, Steps, ring, counts, queues
  <1>3. /\ pc'[p] = "closed"
        /\ \A q \in Procs \ {p} : pc'[q] = pc[q] /\ f_flags'[q] = f_flags[q]
    BY <1>1 DEF TypeOK, Goto
  <1>4. CountsCover'
    <2>1. OpenReaders' \subseteq OpenReaders /\ OpenWriters' \subseteq OpenWriters
      BY <1>3 DEF OpenReaders, OpenWriters, NotYetRead, NotYetWrite
    <2>2. /\ Cardinality(OpenReaders') <= Cardinality(OpenReaders)
          /\ Cardinality(OpenWriters') <= Cardinality(OpenWriters)
      BY <2>1, OpenFinite, FS_Subset
    <2>3. PICK a, b, c, d : a = Cardinality(OpenReaders') /\ b = Cardinality(OpenReaders)
                              /\ c = Cardinality(OpenWriters') /\ d = Cardinality(OpenWriters)
      OBVIOUS
    <2>4. /\ a \in Nat /\ b \in Nat /\ c \in Nat /\ d \in Nat /\ a <= b /\ c <= d
          /\ nreaders >= b /\ nwriters >= d
      BY <2>2, <2>3, OpenFinite, OpenFiniteNext DEF CountsCover
    <2>5. nreaders >= a /\ nwriters >= c
      BY <2>4 DEF TypeOK
    <2>6. QED
      BY <1>1, <2>3, <2>5 DEF CountsCover, counts
  <1>5. ModesMatch'
    BY <1>3 DEF ModesMatch, ReadSteps, WriteSteps
  <1>6. Allocated'
    BY <1>1 DEF Allocated, counts, ring
  <1>7. Pointers'
    BY <1>1, <1>3 DEF Pointers, Apart, ring
  <1>8. Held(p)'
    BY <1>3, HeldFree DEF FreeSteps, Steps, CriticalSteps, OpenSteps, CloseSteps
  <1>9. ASSUME NEW q \in Procs \ {p}
        PROVE  Held(q)'
    <2>1. HeldFiles(q)'
      BY <1>1, <1>3 DEF HeldAll, Held, HeldFiles, ring, counts
    <2>2. HeldRead(q)'
      <3>1. pc'[q] = pc[q] /\ UNCHANGED <<buffer, rp, wp, ubuf, local>>
        BY <1>1, <1>3 DEF ring
      <3>2. HeldRead(q)
        BY DEF HeldAll, Held
      <3>3. QED
        BY <3>1, <3>2 DEF HeldRead, Takes, Advance
    <2>3. HeldWrite(q)'
      BY <1>1, <1>3 DEF HeldAll, Held, HeldWrite, Fits, spacefree, ring
    <2>4. QED
      BY <2>1, <2>2, <2>3 DEF Held
  <1>10. QED
    BY <1>2, <1>4, <1>5, <1>6, <1>7, <1>8, <1>9 DEF HeldAll

LEMMA ReleaseKeeps ==
    ASSUME LockInv, NEW p \in Procs, scull_p_release(p)
    PROVE  Keeps \/ (scull_p_release_interrupted(p) /\ MemoryInv')
  <1>1. CASE Down(p, "c_down", "c_nr")
    BY <1>1, DownKeeps
  <1>2. CASE scull_p_release_nreaders(p)
    BY <1>2, LoadKeeps, StoreKeeps DEF scull_p_release_nreaders
  <1>3. CASE scull_p_release_nwriters(p)
    BY <1>3, LoadKeeps, StoreKeeps DEF scull_p_release_nwriters
  <1>4. CASE scull_p_release_sum(p)
    BY <1>4, LoadKeeps DEF scull_p_release_sum
  <1>5. QED
    BY <1>1, <1>2, <1>3, <1>4, EndsKeep, ReleaseCallKeeps, ReleaseBufferKeeps,
       InterruptedKeeps DEF scull_p_release

-----------------------------------------------------------------------------
(* Every step.                                                             *)

(* F_SETFL cannot change the access mode.                                  *)
LEMMA ModesStay ==
    ASSUME LockInv, NEW p \in Procs, scull_p_fasync(p) \/ Signal(p)
    PROVE  /\ f_flags' \in [Procs -> SUBSET FlagBits]
           /\ async_queue' \subseteq Procs
           /\ \A q \in Procs : /\ FMODE_READ(f_flags'[q]) <=> FMODE_READ(f_flags[q])
                               /\ FMODE_WRITE(f_flags'[q]) <=> FMODE_WRITE(f_flags[q])
  <1> USE DEF LockInv, MemoryInv
  <1>1. CASE Signal(p)
    BY <1>1 DEF Signal, TypeOK, files
  <1>2. CASE scull_p_fasync(p)
    <2>1. PICK flag \in SetflFlags, on \in BOOLEAN :
            /\ f_flags' = [f_flags EXCEPT
                             ![p] = IF on THEN @ \cup {flag} ELSE @ \ {flag}]
            /\ async_queue' \subseteq Procs
      BY <1>2 DEF scull_p_fasync, TypeOK
    <2>2. flag \in FlagBits /\ flag \notin {"O_WRONLY", "O_RDWR"}
      BY PipeAssumption DEF FlagBits
    <2>3. QED
      BY <2>1, <2>2 DEF TypeOK, FMODE_READ, FMODE_WRITE
  <1>3. QED
    BY <1>1, <1>2

LEMMA FasyncKeeps ==
    ASSUME LockInv, NEW p \in Procs, scull_p_fasync(p) \/ Signal(p)
    PROVE  Keeps
  <1> USE DEF LockInv, MemoryInv
  <1>1. UNCHANGED <<ring, counts, sem, queues, ubuf, local, pc>>
    BY DEF scull_p_fasync, Signal
  <1>2. /\ f_flags' \in [Procs -> SUBSET FlagBits]
        /\ async_queue' \subseteq Procs
        /\ \A q \in Procs : /\ FMODE_READ(f_flags'[q]) <=> FMODE_READ(f_flags[q])
                            /\ FMODE_WRITE(f_flags'[q]) <=> FMODE_WRITE(f_flags[q])
    BY ModesStay
  <1>3. TypeOK'
    BY <1>1, <1>2 DEF TypeOK, scull_p_fasync, Signal, ring, counts, queues
  <1>4. OpenReaders' = OpenReaders /\ OpenWriters' = OpenWriters
    BY <1>1, <1>2 DEF OpenReaders, OpenWriters
  <1>5. Surplus' = Surplus
    BY <1>1, <1>4 DEF Surplus, counts
  <1>6. CountsCover'
    BY <1>3, <1>5, CoverKept
  <1>7. ModesMatch'
    BY <1>1, <1>2 DEF ModesMatch
  <1>8. Allocated' /\ Pointers'
    BY <1>1 DEF Allocated, Pointers, Apart, counts, ring
  <1>9. ASSUME NEW q \in Procs
        PROVE  Held(q)'
    <2>1. HeldFiles(q)'
      BY <1>1, <1>2 DEF HeldAll, Held, HeldFiles, ring, counts
    <2>2. HeldRead(q)'
      BY <1>1 DEF HeldAll, Held, HeldRead, Takes, Advance, ring
    <2>3. HeldWrite(q)'
      BY <1>1 DEF HeldAll, Held, HeldWrite, Fits, spacefree, ring
    <2>4. QED
      BY <2>1, <2>2, <2>3 DEF Held
  <1>10. QED
    BY <1>3, <1>5, <1>6, <1>7, <1>8, <1>9 DEF Keeps, HeldAll

LEMMA StutterKeeps ==
    ASSUME LockInv, UNCHANGED vars
    PROVE  Keeps
  <1> USE DEF LockInv, MemoryInv, vars, ring, counts, queues, files
  <1>1. TypeOK' /\ Surplus' = Surplus /\ CountsCover'
    BY DEF TypeOK, Surplus, CountsCover, OpenReaders, OpenWriters
  <1>2. ModesMatch' /\ Allocated' /\ Pointers'
    BY DEF ModesMatch, Allocated, Pointers, Apart
  <1>3. HeldAll'
    BY DEF HeldAll, Held, HeldFiles, HeldRead, HeldWrite, Takes, Advance, Fits, spacefree
  <1>4. QED
    BY <1>1, <1>2, <1>3 DEF Keeps

LEMMA StepKeeps ==
    ASSUME LockInv, Pollers = {}, [Next]_vars
    PROVE  MemoryInv' /\ (Surplus' = Surplus \/ \E p \in Procs : scull_p_release_interrupted(p))
  <1>1. CASE UNCHANGED vars
    BY <1>1, StutterKeeps DEF Keeps
  <1>2. ASSUME NEW p \in Procs,
               \/ scull_p_open(p) \/ scull_p_read(p) \/ scull_p_write(p)
               \/ scull_p_fasync(p) \/ Signal(p)
        PROVE  MemoryInv' /\ Surplus' = Surplus
    BY <1>2, OpenKeeps, ReadKeeps, WriteKeeps, FasyncKeeps DEF Keeps
  <1>3. ASSUME NEW p \in Procs, scull_p_release(p)
        PROVE  MemoryInv' /\ (Surplus' = Surplus \/ scull_p_release_interrupted(p))
    BY <1>3, ReleaseKeeps DEF Keeps
  <1>4. \A p \in Procs : ~scull_p_poll(p)
    BY NoPollStep DEF LockInv, Exclusive
  <1>5. QED
    BY <1>1, <1>2, <1>3, <1>4 DEF Next

LEMMA LockStep ==
    ASSUME LockInv, Pollers = {}, [Next]_vars
    PROVE  LockInv'
  BY StepKeeps, ExclusiveStep DEF LockInv

LEMMA MemoryInit ==
    ASSUME Init
    PROVE  MemoryInv
  <1> USE PipeAssumption DEF Init
  <1>1. TypeOK
    <2>1. << >> \in Seq(Byte \cup {Junk}) /\ {} \in SUBSET FlagBits
      OBVIOUS
    <2>2. QED
      BY <2>1 DEF TypeOK, Offset, Steps
  <1>2. CountsCover
    <2>1. OpenReaders = {} /\ OpenWriters = {}
      BY DEF OpenReaders, OpenWriters, NotYetRead, NotYetWrite
    <2>2. Cardinality(OpenReaders) = 0 /\ Cardinality(OpenWriters) = 0
      BY <2>1, FS_EmptySet
    <2>3. QED
      BY <2>2 DEF CountsCover
  <1>3. ModesMatch
    BY DEF ModesMatch, ReadSteps, WriteSteps
  <1>4. Allocated /\ Pointers
    BY DEF Allocated, Pointers, Apart
  <1>5. HeldAll
    BY DEF HeldAll, Held, HeldFiles, HeldRead, HeldWrite, OpenSteps
  <1>6. QED
    BY <1>1, <1>2, <1>3, <1>4, <1>5 DEF MemoryInv

LEMMA LockAlways == Pollers = {} => (Spec => []LockInv)
  <1> SUFFICES ASSUME Pollers = {}
               PROVE  Spec => []LockInv
    OBVIOUS
  <1>1. Init => LockInv
    BY MemoryInit DEF LockInv, Init, Exclusive, Shape, SemaphoreExact, NoPolls, InCritical,
           CriticalSteps, OpenSteps, CloseSteps, PollSteps, Steps
  <1>2. LockInv /\ [Next]_vars => LockInv'
    BY LockStep
  <1>3. QED
    BY <1>1, <1>2, PTL DEF Spec

(* Where no process polls, every variable keeps its type and rp and wp     *)
(* point into the buffer, although the copy and the move of a pointer are  *)
(* steps of their own.                                                     *)
THEOREM TypeCorrect == Pollers = {} => (Spec => []TypeOK)
  <1>1. LockInv => TypeOK
    BY DEF LockInv, MemoryInv
  <1>2. QED
    BY <1>1, LockAlways, PTL

(* Where no process polls, no count falls below the number of files it     *)
(* stands for: no load and store of nreaders or nwriters loses another.    *)
THEOREM CountsNeverShort == Pollers = {} => (Spec => []CountsCover)
  <1>1. LockInv => CountsCover
    BY DEF LockInv, MemoryInv
  <1>2. QED
    BY <1>1, LockAlways, PTL

(* Where no process polls, whoever has the device open for reading or for  *)
(* writing has a buffer: no release frees it between another open's test   *)
(* of dev->buffer and its counting.                                        *)
THEOREM BufferNeverFreedInUse == Pollers = {} => (Spec => []BufferLive)
  <1>1. LockInv => BufferLive
    BY InUseAllocated DEF LockInv
  <1>2. QED
    BY <1>1, LockAlways, PTL

-----------------------------------------------------------------------------
(* Wakeups, where nobody polls.                                            *)

Wakeups == NoLostReaderWakeup /\ NoLostWriterWakeup

WakeInv == LockInv /\ Wakeups

(* Where a write has moved wp and has yet to wake the readers.             *)
WillWake == {"w_wrap", "w_zero", "w_wake"}

(* The steps that leave rp and wp alone.  One that goes to sleep has seen  *)
(* the queue's condition false, and one that was to wake a queue does.     *)
LEMMA FrameWake ==
    ASSUME Wakeups, NEW p \in Procs, Moves(p), UNCHANGED <<rp, wp>>,
           inq' \subseteq inq \cup {p},
           outq' \subseteq outq \cup {p},
           pc'[p] = "r_sleep" => rp = wp,
           pc'[p] = "w_sleep" => spacefree = 0,
           pc[p] \in WillWake => pc'[p] \in WillWake \/ inq' = {},
           pc[p] = "r_wake" => outq' = {}
    PROVE  Wakeups'
  <1>1. spacefree' = spacefree
    BY DEF spacefree
  <1>2. NoLostReaderWakeup'
    BY DEF Wakeups, NoLostReaderWakeup, Moves, WillWake
  <1>3. NoLostWriterWakeup'
    BY <1>1 DEF Wakeups, NoLostWriterWakeup, Moves
  <1>4. QED
    BY <1>2, <1>3 DEF Wakeups

(* The pointers of a fresh buffer: nobody can be asleep beside it.         *)
LEMMA SetupWakes ==
    ASSUME WakeInv, NEW p \in Procs, scull_p_open_setup(p)
    PROVE  Wakeups'
  <1> USE DEF WakeInv, LockInv, MemoryInv
  <1>1. nreaders + nwriters <= 0
    BY DEF scull_p_open_setup, HeldAll, Held, HeldFiles
  <1>2. OpenReaders \cup OpenWriters = {}
    BY <1>1, InUseCounted DEF TypeOK
  <1>3. \A q \in Procs : pc[q] \notin ReadSteps \cup WriteSteps
    BY <1>2, BufferThere
  <1>4. pc'[p] = "o_nr" /\ \A q \in Procs \ {p} : pc'[q] = pc[q]
    BY DEF scull_p_open_setup, Goto, TypeOK
  <1>5. \A q \in Procs : pc'[q] \notin ReadSteps \cup WriteSteps
    BY <1>3, <1>4 DEF ReadSteps, WriteSteps
  <1>6. QED
    BY <1>5 DEF Wakeups, NoLostReaderWakeup, NoLostWriterWakeup, ReadSteps, WriteSteps

LEMMA OpenWakes ==
    ASSUME WakeInv, NEW p \in Procs, scull_p_open(p)
    PROVE  Wakeups'
  <1> USE DEF WakeInv, LockInv, MemoryInv, TypeOK, Moves, Goto, Return, Down,
              DownInterrupted, ring, queues, WillWake
  <1>1. CASE OpenCall(p) \/ scull_p_open_interrupted(p) \/ Down(p, "o_down", "o_test")
    BY <1>1, FrameWake DEF OpenCall, scull_p_open_interrupted
  <1>2. CASE scull_p_open_test(p)
    BY <1>2, FrameWake DEF scull_p_open_test
  <1>3. CASE scull_p_open_ENOMEM(p) \/ scull_p_open_alloc(p)
    BY <1>3, FrameWake DEF scull_p_open_ENOMEM, scull_p_open_alloc
  <1>4. CASE scull_p_open_nreaders(p)
    BY <1>4, FrameWake DEF scull_p_open_nreaders, Load, StoreReaders
  <1>5. CASE scull_p_open_nwriters(p)
    BY <1>5, FrameWake DEF scull_p_open_nwriters, Load, StoreWriters
  <1>6. CASE scull_p_open_up(p)
    BY <1>6, FrameWake DEF scull_p_open_up
  <1>7. QED
    BY <1>1, <1>2, <1>3, <1>4, <1>5, <1>6, SetupWakes DEF scull_p_open

LEMMA ReleaseWakes ==
    ASSUME WakeInv, NEW p \in Procs, scull_p_release(p)
    PROVE  Wakeups'
  <1> USE DEF WakeInv, LockInv, MemoryInv, TypeOK, Moves, Goto, Return, Down,
              DownInterrupted, ring, queues, WillWake
  <1>1. CASE ReleaseCall(p) \/ scull_p_release_interrupted(p) \/ Down(p, "c_down", "c_nr")
    BY <1>1, FrameWake DEF ReleaseCall, scull_p_release_interrupted
  <1>2. CASE scull_p_release_nreaders(p)
    BY <1>2, FrameWake DEF scull_p_release_nreaders, Load, StoreReaders
  <1>3. CASE scull_p_release_nwriters(p)
    BY <1>3, FrameWake DEF scull_p_release_nwriters, Load, StoreWriters
  <1>4. CASE scull_p_release_sum(p)
    BY <1>4, FrameWake DEF scull_p_release_sum, Load
  <1>5. CASE scull_p_release_last(p)
    BY <1>5, FrameWake DEF scull_p_release_last
  <1>6. CASE scull_p_release_free(p) \/ scull_p_release_up(p)
    BY <1>6, FrameWake DEF scull_p_release_free, scull_p_release_up
  <1>7. QED
    BY <1>1, <1>2, <1>3, <1>4, <1>5, <1>6 DEF scull_p_release

(* A read that moves rp has taken from a buffer that was not empty; it is  *)
(* on its way to wake the writers.                                         *)
LEMMA ReadPutWakes ==
    ASSUME WakeInv, NEW p \in Procs, scull_p_read_put(p)
    PROVE  Wakeups'
  <1> USE DEF WakeInv, LockInv, MemoryInv
  <1>1. /\ pc[p] = "r_put" /\ pc'[p] = "r_wake"
        /\ \A q \in Procs \ {p} : pc'[q] = pc[q]
        /\ wp' = wp /\ inq' = inq /\ outq' = outq
    BY DEF scull_p_read_put, Goto, TypeOK, queues
  <1>2. rp /= wp
    BY <1>1 DEF HeldAll, Held, HeldRead, Takes
  <1>3. NoLostReaderWakeup'
    BY <1>1, <1>2 DEF Wakeups, NoLostReaderWakeup
  <1>4. NoLostWriterWakeup'
    BY <1>1 DEF NoLostWriterWakeup
  <1>5. QED
    BY <1>3, <1>4 DEF Wakeups

LEMMA ReadWakes ==
    ASSUME WakeInv, NEW p \in Procs, scull_p_read(p)
    PROVE  Wakeups'
  <1> USE DEF WakeInv, LockInv, MemoryInv, TypeOK, Moves, Goto, Return, Down,
              DownInterrupted, ring, queues, WillWake
  <1>1. CASE ReadCall(p)
    BY <1>1, FrameWake DEF ReadCall
  <1>2. CASE Down(p, "r_down", "r_check")
    BY <1>2, FrameWake
  <1>3. CASE scull_p_read_interrupted(p)
    BY <1>3, FrameWake DEF scull_p_read_interrupted
  <1>4. CASE scull_p_read_check(p)
    BY <1>4, FrameWake DEF scull_p_read_check
  <1>5. CASE scull_p_read_prepare(p)
    BY <1>5, FrameWake DEF scull_p_read_prepare
  <1>6. CASE scull_p_read_cond(p)
    BY <1>6, FrameWake DEF scull_p_read_cond
  <1>7. CASE scull_p_read_wakeup(p)
    BY <1>7, FrameWake DEF scull_p_read_wakeup
  <1>8. CASE scull_p_read_EFAULT(p)
    BY <1>8, FrameWake DEF scull_p_read_EFAULT
  <1>9. ASSUME NEW request \in 0 .. MaxRequest, scull_p_read_copy(p, request)
        PROVE  Wakeups'
    BY <1>9, FrameWake DEF scull_p_read_copy
  <1>10. CASE scull_p_read_move(p)
    BY <1>10, FrameWake DEF scull_p_read_move
  <1>11. CASE scull_p_read_put(p)
    BY <1>11, ReadPutWakes
  <1>12. CASE scull_p_read_wake(p)
    BY <1>12, FrameWake DEF scull_p_read_wake
  <1>13. QED
    BY <1>1, <1>2, <1>3, <1>4, <1>5, <1>6, <1>7, <1>8, <1>9, <1>10, <1>11, <1>12
       DEF scull_p_read

(* A write that moves wp has seen room; if it leaves some, the reader that *)
(* made it has yet to wake the writers.                                    *)
LEMMA WritePutWakes ==
    ASSUME WakeInv, NEW p \in Procs, scull_p_write_put(p)
    PROVE  Wakeups'
  <1> USE DEF WakeInv, LockInv, MemoryInv
  <1>1. /\ pc[p] = "w_put" /\ pc'[p] = "w_wrap"
        /\ \A q \in Procs \ {p} : pc'[q] = pc[q]
        /\ rp' = rp /\ inq' = inq /\ outq' = outq
    BY DEF scull_p_write_put, Goto, TypeOK, queues
  <1>2. spacefree /= 0
    BY <1>1 DEF HeldAll, Held, HeldWrite
  <1>3. NoLostReaderWakeup'
    BY <1>1 DEF NoLostReaderWakeup
  <1>4. NoLostWriterWakeup'
    BY <1>1, <1>2 DEF Wakeups, NoLostWriterWakeup
  <1>5. QED
    BY <1>3, <1>4 DEF Wakeups

(* Wrapping wp from the end to the start makes no room.                    *)
LEMMA WriteZeroWakes ==
    ASSUME WakeInv, NEW p \in Procs, scull_p_write_zero(p)
    PROVE  Wakeups'
  <1> USE DEF WakeInv, LockInv, MemoryInv
  <1>1. /\ pc[p] = "w_zero" /\ pc'[p] = "w_wake" /\ wp' = 0
        /\ \A q \in Procs \ {p} : pc'[q] = pc[q]
        /\ rp' = rp /\ inq' = inq /\ outq' = outq
    BY DEF scull_p_write_zero, Goto, TypeOK, queues
  <1>2. wp = buffersize
    BY <1>1 DEF HeldAll, Held, HeldWrite
  <1>3. spacefree = rp - 1 /\ rp \in Nat /\ rp /= 0
    <2>1. rp < wp /\ buffersize \in Nat /\ rp \in Nat
      BY <1>2, PipeAssumption DEF TypeOK, Offset
    <2>2. spacefree = rp + buffersize - wp - 1
      BY <2>1, SpaceFree
    <2>3. rp /= 0
      BY <1>2 DEF Pointers, Apart
    <2>4. QED
      BY <1>2, <2>1, <2>2, <2>3
  <1>4. spacefree' = spacefree
    <2>1. wp' /= rp' /\ rp' + buffersize - wp' = rp + buffersize
      BY <1>1, <1>3, PipeAssumption
    <2>2. (rp + buffersize) % buffersize = rp
      <3>1. rp \in 0 .. buffersize - 1 /\ buffersize \in Nat \ {0}
        BY PipeAssumption DEF TypeOK, Offset
      <3>2. QED
        BY <3>1, ModSmall
    <2>3. Rem(rp' + buffersize - wp', buffersize) = rp
      BY <1>3, <2>1, <2>2, PipeAssumption DEF Rem
    <2>4. QED
      BY <1>3, <2>1, <2>3 DEF spacefree
  <1>5. NoLostReaderWakeup'
    BY <1>1 DEF NoLostReaderWakeup
  <1>6. NoLostWriterWakeup'
    BY <1>1, <1>4 DEF Wakeups, NoLostWriterWakeup
  <1>7. QED
    BY <1>5, <1>6 DEF Wakeups

LEMMA WriteWakes ==
    ASSUME WakeInv, NEW p \in Procs, scull_p_write(p)
    PROVE  Wakeups'
  <1> USE DEF WakeInv, LockInv, MemoryInv, TypeOK, Moves, Goto, Return, Down,
              DownInterrupted, ring, queues, WillWake
  <1>1. CASE WriteCall(p)
    BY <1>1, FrameWake DEF WriteCall
  <1>2. CASE Down(p, "w_down", "w_space")
    BY <1>2, FrameWake
  <1>3. CASE scull_p_write_interrupted(p)
    BY <1>3, FrameWake DEF scull_p_write_interrupted
  <1>4. CASE scull_getwritespace(p)
    BY <1>4, FrameWake DEF scull_getwritespace
  <1>5. CASE scull_getwritespace_prepare(p)
    BY <1>5, FrameWake DEF scull_getwritespace_prepare
  <1>6. CASE scull_getwritespace_cond(p)
    BY <1>6, FrameWake DEF scull_getwritespace_cond
  <1>7. CASE scull_getwritespace_wakeup(p)
    BY <1>7, FrameWake DEF scull_getwritespace_wakeup
  <1>8. CASE scull_getwritespace_finish(p)
    BY <1>8, FrameWake DEF scull_getwritespace_finish
  <1>9. ASSUME NEW request \in 0 .. MaxRequest, scull_p_write_EFAULT(p, request)
        PROVE  Wakeups'
    BY <1>9, FrameWake DEF scull_p_write_EFAULT
  <1>10. ASSUME NEW request \in 0 .. MaxRequest, scull_p_write_copy(p, request)
         PROVE  Wakeups'
    BY <1>10, FrameWake DEF scull_p_write_copy
  <1>11. CASE scull_p_write_move(p)
    BY <1>11, FrameWake DEF scull_p_write_move
  <1>12. CASE scull_p_write_put(p)
    BY <1>12, WritePutWakes
  <1>13. CASE scull_p_write_wrap(p)
    BY <1>13, FrameWake DEF scull_p_write_wrap
  <1>14. CASE scull_p_write_zero(p)
    BY <1>14, WriteZeroWakes
  <1>15. CASE scull_p_write_wake(p)
    BY <1>15, FrameWake DEF scull_p_write_wake
  <1>16. QED
    BY <1>1, <1>2, <1>3, <1>4, <1>5, <1>6, <1>7, <1>8, <1>9, <1>10, <1>11, <1>12,
       <1>13, <1>14, <1>15 DEF scull_p_write

LEMMA WakeAlways == Pollers = {} => (Spec => []WakeInv)
  <1> SUFFICES ASSUME Pollers = {}
               PROVE  Spec => []WakeInv
    OBVIOUS
  <1>1. Init => Wakeups
    BY DEF Init, Wakeups, NoLostReaderWakeup, NoLostWriterWakeup
  <1>2. WakeInv /\ [Next]_vars => Wakeups'
    <2> SUFFICES ASSUME WakeInv, [Next]_vars
                 PROVE  Wakeups'
      OBVIOUS
    <2>1. CASE UNCHANGED <<rp, wp, inq, outq, pc>>
      BY <2>1 DEF WakeInv, Wakeups, NoLostReaderWakeup, NoLostWriterWakeup, spacefree
    <2>2. \A p \in Procs : ~scull_p_poll(p)
      BY NoPollStep DEF WakeInv, LockInv, Exclusive
    <2>3. ASSUME NEW p \in Procs, scull_p_fasync(p) \/ Signal(p)
          PROVE  UNCHANGED <<rp, wp, inq, outq, pc>>
      BY <2>3 DEF scull_p_fasync, Signal, ring, queues
    <2>4. QED
      BY <2>1, <2>2, <2>3, OpenWakes, ReleaseWakes, ReadWakes, WriteWakes
         DEF Next, vars, ring, queues
  <1>3. WakeInv <=> LockInv /\ Wakeups
    BY DEF WakeInv
  <1>4. QED
    BY <1>1, <1>2, <1>3, LockAlways, PTL DEF Spec

(* Where no process polls, no reader sleeps on beside bytes to read: the   *)
(* order of prepare_to_wait, test and wake_up loses no wakeup.             *)
THEOREM ReaderWoken == Pollers = {} => (Spec => []NoLostReaderWakeup)
  <1>1. WakeInv => NoLostReaderWakeup
    BY DEF WakeInv, Wakeups
  <1>2. QED
    BY <1>1, WakeAlways, PTL

(* Likewise no writer sleeps on beside room to write, although it sleeps   *)
(* on a value of spacefree() that it reads without the semaphore.          *)
THEOREM WriterWoken == Pollers = {} => (Spec => []NoLostWriterWakeup)
  <1>1. WakeInv => NoLostWriterWakeup
    BY DEF WakeInv, Wakeups
  <1>2. QED
    BY <1>1, WakeAlways, PTL

-----------------------------------------------------------------------------
(* The counts follow the files.                                            *)

(* A step of a read or of a write leaves the file and the counts alone.    *)
Unfiled(p) ==
    /\ Moves(p)
    /\ {pc[p], pc'[p]} \subseteq ReadSteps \cup WriteSteps \cup {"open"}
    /\ UNCHANGED <<f_flags, counts>>
    /\ buffer' = NULL <=> buffer = NULL

LEMMA ReadUnfiled ==
    ASSUME LockInv, NEW p \in Procs, scull_p_read(p)
    PROVE  Unfiled(p) /\ buffer' = buffer
  <1> USE DEF Unfiled, Moves, LockInv, MemoryInv, TypeOK, Goto, Return, Down,
              DownInterrupted, ReadSteps, ring, files
  <1>1. CASE \/ ReadCall(p) \/ Down(p, "r_down", "r_check") \/ scull_p_read_interrupted(p)
             \/ scull_p_read_check(p) \/ scull_p_read_EFAULT(p)
    BY <1>1 DEF ReadCall, scull_p_read_interrupted, scull_p_read_check, scull_p_read_EFAULT
  <1>2. CASE \/ scull_p_read_prepare(p) \/ scull_p_read_cond(p) \/ scull_p_read_wakeup(p)
    BY <1>2 DEF scull_p_read_prepare, scull_p_read_cond, scull_p_read_wakeup
  <1>3. CASE \/ scull_p_read_move(p) \/ scull_p_read_put(p) \/ scull_p_read_wake(p)
    BY <1>3 DEF scull_p_read_move, scull_p_read_put, scull_p_read_wake
  <1>4. ASSUME NEW request \in 0 .. MaxRequest, scull_p_read_copy(p, request)
        PROVE  Unfiled(p) /\ buffer' = buffer
    BY <1>4 DEF scull_p_read_copy
  <1>5. QED
    BY <1>1, <1>2, <1>3, <1>4 DEF scull_p_read

LEMMA WriteUnfiled ==
    ASSUME LockInv, NEW p \in Procs, scull_p_write(p)
    PROVE  Unfiled(p)
  <1> USE DEF Unfiled, Moves, LockInv, MemoryInv, TypeOK, Goto, Return, Down,
              DownInterrupted, WriteSteps, ring, files
  <1>1. CASE \/ WriteCall(p) \/ Down(p, "w_down", "w_space") \/ scull_p_write_interrupted(p)
             \/ scull_getwritespace(p)
    BY <1>1 DEF WriteCall, scull_p_write_interrupted, scull_getwritespace
  <1>2. CASE \/ scull_getwritespace_prepare(p) \/ scull_getwritespace_cond(p)
             \/ scull_getwritespace_wakeup(p) \/ scull_getwritespace_finish(p)
    BY <1>2 DEF scull_getwritespace_prepare, scull_getwritespace_cond,
                scull_getwritespace_wakeup, scull_getwritespace_finish
  <1>3. CASE scull_p_write_move(p) \/ scull_p_write_put(p) \/ scull_p_write_wrap(p)
    BY <1>3 DEF scull_p_write_move, scull_p_write_put, scull_p_write_wrap
  <1>4. CASE scull_p_write_zero(p) \/ scull_p_write_wake(p)
    BY <1>4 DEF scull_p_write_zero, scull_p_write_wake
  <1>5. ASSUME NEW request \in Nat,
               scull_p_write_EFAULT(p, request) \/ scull_p_write_copy(p, request)
        PROVE  Unfiled(p)
    <2>1. PICK n : n = WriteCount(request)
      OBVIOUS
    <2>2. pc[p] = "w_copy" /\ CopyIn(n) /\ UNCHANGED <<f_flags, counts>>
      BY <1>5, <2>1 DEF scull_p_write_EFAULT, scull_p_write_copy
    <2>3. n \in Nat /\ Fits(n) /\ buffer \in Memory
      BY <2>1, <2>2, WriteCopies
    <2>4. buffer \in Memory /\ buffer' \in Memory
      BY <2>2, <2>3, CopyInBytes
    <2>5. pc'[p] \in {"open", "w_move"} /\ \A q \in Procs \ {p} : pc'[q] = pc[q]
      BY <1>5 DEF scull_p_write_EFAULT, scull_p_write_copy
    <2>6. QED
      BY <2>2, <2>4, <2>5, PipeAssumption
  <1>6. QED
    BY <1>1, <1>2, <1>3, <1>4, <1>5, PipeAssumption DEF scull_p_write

(* Nobody opens the device with access mode 3, which is counted neither as *)
(* a reader nor as a writer.                                               *)
EveryModeCounts ==
    \A p \in Procs : \A flags \in OpenFlags[p] : FMODE_READ(flags) \/ FMODE_WRITE(flags)

(* Under it every file has a mode, and a buffer has a count unless an open *)
(* or a close is about to see to it.                                       *)
Busy == (OpenSteps \cup CloseSteps) \ {"o_up", "c_up"}

InUse ==
    buffer /= NULL => nreaders + nwriters > 0 \/ \E p \in Procs : pc[p] \in Busy

FilesCount ==
    \A p \in Procs : pc[p] /= "closed" => FMODE_READ(f_flags[p]) \/ FMODE_WRITE(f_flags[p])

CountedInv == InUse /\ FilesCount

LEMMA InUseFrame ==
    ASSUME InUse, NEW p \in Procs, Moves(p), UNCHANGED counts,
           buffer' /= NULL => buffer /= NULL, pc[p] \notin Busy
    PROVE  InUse'
  BY DEF InUse, Moves, counts

LEMMA InUseBusy ==
    ASSUME NEW p \in Procs, pc'[p] \in Busy
    PROVE  InUse'
  BY DEF InUse

LEMMA FilesFrame ==
    ASSUME FilesCount, NEW p \in Procs, Moves(p),
           \A q \in Procs \ {p} : f_flags'[q] = f_flags[q],
           pc'[p] /= "closed" => FMODE_READ(f_flags'[p]) \/ FMODE_WRITE(f_flags'[p])
    PROVE  FilesCount'
  BY DEF FilesCount, Moves

LEMMA OpenCounted ==
    ASSUME LockInv, MemoryInv', CountedInv, EveryModeCounts, NEW p \in Procs, scull_p_open(p)
    PROVE  CountedInv'
  <1> USE DEF LockInv, MemoryInv, CountedInv
  <1>1. CASE OpenCall(p)
    <2>1. /\ pc[p] = "closed" /\ pc'[p] = "o_down" /\ Moves(p)
          /\ f_flags'[p] \in OpenFlags[p] /\ \A q \in Procs \ {p} : f_flags'[q] = f_flags[q]
          /\ UNCHANGED <<buffer, counts>>
      BY <1>1 DEF OpenCall, TypeOK, Goto, Moves, ring
    <2>2. QED
      BY <2>1, InUseFrame, FilesFrame DEF Busy, OpenSteps, CloseSteps, EveryModeCounts
  <1>2. CASE scull_p_open_interrupted(p) \/ scull_p_open_ENOMEM(p)
    <2>1. /\ pc[p] \in {"o_down", "o_alloc"} /\ pc'[p] = "closed" /\ Moves(p)
          /\ \A q \in Procs \ {p} : f_flags'[q] = f_flags[q]
          /\ (buffer' = NULL \/ pc[p] = "o_down") /\ (buffer' = buffer \/ buffer' = NULL)
          /\ UNCHANGED counts
      BY <1>2 DEF scull_p_open_interrupted, scull_p_open_ENOMEM, DownInterrupted, Return,
                  TypeOK, Goto, Moves, ring
    <2>2. CASE buffer' = NULL
      BY <2>1, <2>2, FilesFrame DEF InUse
    <2>3. CASE buffer' /= NULL
      BY <2>1, <2>3, InUseFrame, FilesFrame DEF Busy, OpenSteps, CloseSteps
    <2>4. QED
      BY <2>2, <2>3
  <1>3. CASE \/ Down(p, "o_down", "o_test") \/ scull_p_open_test(p) \/ scull_p_open_alloc(p)
             \/ scull_p_open_setup(p) \/ scull_p_open_nreaders(p) \/ scull_p_open_nwriters(p)
             \/ scull_p_open_up(p)
    <2>1. Moves(p) /\ f_flags' = f_flags /\ pc[p] /= "closed"
      BY <1>3 DEF Down, scull_p_open_test, scull_p_open_alloc, scull_p_open_setup,
                  scull_p_open_nreaders, scull_p_open_nwriters, scull_p_open_up, Load,
                  StoreReaders, StoreWriters, Return, TypeOK, Goto, Moves, files
    <2>2. FilesCount'
      BY <2>1, FilesFrame DEF FilesCount
    <2>3. pc'[p] \in Busy \cup {"o_up", "open"}
      BY <1>3 DEF Down, scull_p_open_test, scull_p_open_alloc, scull_p_open_setup,
                  scull_p_open_nreaders, scull_p_open_nwriters, scull_p_open_up, Load,
                  StoreReaders, StoreWriters, Return, TypeOK, Goto, Busy, OpenSteps
    <2>4. CASE pc'[p] \in {"o_up", "open"}
      <3>1. p \in OpenReaders' \cup OpenWriters'
        BY <2>2, <2>4 DEF FilesCount, OpenReaders, OpenWriters, NotYetRead, NotYetWrite,
                          NoMoreRead, NoMoreWrite
      <3>2. nreaders' + nwriters' > 0
        <4>1. (OpenReaders \cup OpenWriters /= {})'
          BY <3>1
        <4>2. TypeOK' /\ CountsCover'
          OBVIOUS
        <4>3. (nreaders + nwriters > 0)'
          BY <4>1, <4>2, InUseCountedNext
        <4>4. QED
          BY <4>3
      <3>3. QED
        BY <2>2, <3>2 DEF InUse
    <2>5. QED
      BY <2>2, <2>3, <2>4, InUseBusy
  <1>4. QED
    BY <1>1, <1>2, <1>3 DEF scull_p_open

LEMMA ReleaseCounted ==
    ASSUME LockInv, CountedInv, NEW p \in Procs, scull_p_release(p)
    PROVE  CountedInv'
  <1> USE DEF LockInv, MemoryInv, CountedInv
  <1>1. CASE ReleaseCall(p) \/ scull_p_release_interrupted(p) \/ scull_p_release_up(p)
    <2>1. /\ pc[p] \in {"open", "c_down", "c_up"} /\ Moves(p)
          /\ \A q \in Procs \ {p} : f_flags'[q] = f_flags[q]
          /\ pc'[p] = "closed" \/ f_flags'[p] = f_flags[p]
          /\ UNCHANGED <<buffer, counts>>
      BY <1>1 DEF ReleaseCall, scull_p_release_interrupted, scull_p_release_up, Return,
                  DownInterrupted, TypeOK, Goto, Moves, ring
    <2>2. QED
      BY <2>1, InUseFrame, FilesFrame DEF FilesCount, Busy, OpenSteps, CloseSteps
  <1>2. CASE \/ Down(p, "c_down", "c_nr") \/ scull_p_release_nreaders(p)
             \/ scull_p_release_nwriters(p) \/ scull_p_release_sum(p)
    <2>1. Moves(p) /\ f_flags' = f_flags /\ pc[p] /= "closed" /\ pc'[p] \in Busy
      BY <1>2 DEF Down, scull_p_release_nreaders, scull_p_release_nwriters, scull_p_release_sum,
                  Load, StoreReaders, StoreWriters, TypeOK, Goto, Moves, files, Busy, CloseSteps
    <2>2. QED
      BY <2>1, FilesFrame, InUseBusy DEF FilesCount
  <1>3. CASE scull_p_release_last(p)
    <2>1. /\ pc[p] = "c_last" /\ pc'[p] \in {"c_free", "c_up"} /\ Moves(p)
          /\ f_flags' = f_flags /\ UNCHANGED counts
          /\ pc'[p] = "c_up" => local[p] + nwriters /= 0
      BY <1>3 DEF scull_p_release_last, TypeOK, Goto, Moves, files
    <2>2. local[p] = nreaders
      BY <2>1 DEF HeldAll, Held, HeldFiles
    <2>3. nreaders >= 0 /\ nwriters >= 0
      BY OpenFinite DEF CountsCover, TypeOK
    <2>4. pc'[p] = "c_up" => nreaders + nwriters > 0
      BY <2>1, <2>2, <2>3 DEF TypeOK
    <2>5. InUse'
      <3>1. CASE pc'[p] = "c_free"
        BY <3>1, InUseBusy DEF Busy, CloseSteps
      <3>2. CASE pc'[p] = "c_up"
        BY <2>1, <2>4, <3>2 DEF InUse, counts
      <3>3. QED
        BY <2>1, <3>1, <3>2
    <2>6. QED
      BY <2>1, <2>5, FilesFrame DEF FilesCount
  <1>4. CASE scull_p_release_free(p)
    <2>1. /\ pc[p] = "c_free" /\ Moves(p) /\ f_flags' = f_flags /\ buffer' = NULL
      BY <1>4 DEF scull_p_release_free, TypeOK, Goto, Moves, files
    <2>2. QED
      BY <2>1, FilesFrame DEF FilesCount, InUse
  <1>5. QED
    BY <1>1, <1>2, <1>3, <1>4 DEF scull_p_release

LEMMA CountedStep ==
    ASSUME LockInv, MemoryInv', CountedInv, EveryModeCounts, Pollers = {}, [Next]_vars
    PROVE  CountedInv'
  <1> USE DEF LockInv, MemoryInv, CountedInv
  <1>1. ASSUME NEW p \in Procs, scull_p_read(p) \/ scull_p_write(p)
        PROVE  CountedInv'
    <2>1. Unfiled(p)
      BY <1>1, ReadUnfiled, WriteUnfiled
    <2>2. pc[p] \notin Busy \cup {"closed"}
      BY <2>1 DEF Unfiled, Busy, OpenSteps, CloseSteps, ReadSteps, WriteSteps
    <2>3. InUse'
      BY <2>1, <2>2, InUseFrame DEF Unfiled
    <2>4. FilesCount'
      BY <2>1, <2>2, FilesFrame DEF FilesCount, Unfiled
    <2>5. QED
      BY <2>3, <2>4
  <1>2. ASSUME NEW p \in Procs, scull_p_fasync(p) \/ Signal(p)
        PROVE  CountedInv'
    <2>1. UNCHANGED <<buffer, counts, pc>>
      BY <1>2 DEF scull_p_fasync, Signal, ring
    <2>2. \A q \in Procs : /\ FMODE_READ(f_flags'[q]) <=> FMODE_READ(f_flags[q])
                           /\ FMODE_WRITE(f_flags'[q]) <=> FMODE_WRITE(f_flags[q])
      BY <1>2, ModesStay
    <2>3. QED
      BY <2>1, <2>2 DEF InUse, FilesCount, counts
  <1>3. CASE UNCHANGED vars
    BY <1>3 DEF vars, ring, counts, files, InUse, FilesCount
  <1>4. \A p \in Procs : ~scull_p_poll(p)
    BY NoPollStep DEF Exclusive
  <1>5. QED
    BY <1>1, <1>2, <1>3, <1>4, OpenCounted, ReleaseCounted DEF Next

(* Where no process polls, and if only files opened for reading or for     *)
(* writing exist, the counts move with the files at every step but an      *)
(* interrupted close, and the last close to bring them to zero frees the   *)
(* buffer.                                                                 *)
THEOREM CountsTrackFiles ==
    Pollers = {} /\ EveryModeCounts => (Spec => CountsFollowFiles)
  <1> SUFFICES ASSUME Pollers = {}, EveryModeCounts
               PROVE  Spec => CountsFollowFiles
    OBVIOUS
  <1>1. Init => CountedInv
    BY DEF Init, CountedInv, InUse, FilesCount
  <1>2. LockInv /\ LockInv' /\ CountedInv /\ [Next]_vars => CountedInv'
    BY CountedStep DEF LockInv
  <1>3. LockInv /\ [Next]_vars =>
            (Surplus' = Surplus \/ \E p \in Procs : scull_p_release_interrupted(p))
    BY StepKeeps
  <1>4. LockInv' /\ CountedInv' =>
            ((\A p \in Procs : pc'[p] = "closed") /\ nreaders' + nwriters' = 0 => buffer' = NULL)
    <2>1. "closed" \notin Busy
      BY DEF Busy, OpenSteps, CloseSteps
    <2>2. SUFFICES ASSUME CountedInv', \A p \in Procs : pc'[p] = "closed",
                          nreaders' + nwriters' = 0
                   PROVE  buffer' = NULL
      OBVIOUS
    <2>3. ~(nreaders' + nwriters' > 0)
      BY <2>2
    <2>4. ~(\E p \in Procs : pc'[p] \in Busy)
      BY <2>1, <2>2
    <2>5. QED
      BY <2>2, <2>3, <2>4 DEF CountedInv, InUse
  <1>5. LockInv /\ LockInv' /\ CountedInv' /\ [Next]_vars =>
            [/\ Surplus' = Surplus \/ \E p \in Procs : scull_p_release_interrupted(p)
             /\ (\A p \in Procs : pc'[p] = "closed") /\ nreaders' + nwriters' = 0
                  => buffer' = NULL]_vars
    BY <1>3, <1>4
  <1>6. QED
    BY <1>1, <1>2, <1>5, LockAlways, PTL DEF Spec, CountsFollowFiles

-----------------------------------------------------------------------------
(* The circular buffer as a sequence, for any buffer and pointers.         *)

Cell == Byte \cup {Junk}

Filled(r, w) == IF w >= r THEN w - r ELSE w + buffersize - r

(* Where the k-th byte lies.                                               *)
Index(r, k) == (r + k - 1) % buffersize

Stored(buf, r, w) ==
    IF buf = NULL THEN << >> ELSE [k \in 1 .. Filled(r, w) |-> buf[Index(r, k)]]

LEMMA ContentsStored ==
    ASSUME \A p \in Procs : pc[p] /= "o_setup"
    PROVE  Contents = Stored(buffer, rp, wp)
  BY DEF Contents, Stored, Filled, Index

LEMMA ContentsStoredNext ==
    ASSUME \A p \in Procs : pc'[p] /= "o_setup"
    PROVE  Contents' = Stored(buffer', rp', wp')
  BY DEF Contents, Stored, Filled, Index

LEMMA IndexIs ==
    ASSUME NEW r \in Offset, NEW k \in 1 .. buffersize
    PROVE  /\ r + k - 1 < buffersize => Index(r, k) = r + k - 1
           /\ r + k - 1 >= buffersize => Index(r, k) = r + k - 1 - buffersize
           /\ Index(r, k) \in Offset
  <1> USE PipeAssumption DEF Offset
  <1>1. CASE r + k - 1 < buffersize
    <2>1. r + k - 1 \in 0 .. buffersize - 1 /\ buffersize \in Nat \ {0}
      BY <1>1
    <2>2. Index(r, k) = r + k - 1
      BY <2>1, ModSmall DEF Index
    <2>3. QED
      BY <1>1, <2>1, <2>2
  <1>2. CASE r + k - 1 >= buffersize
    <2> DEFINE x == r + k - 1 - buffersize
    <2>1. x \in 0 .. buffersize - 1 /\ buffersize \in Nat \ {0} /\ x + buffersize = r + k - 1
      BY <1>2
    <2>2. (x + buffersize) % buffersize = x
      BY <2>1, ModSmall
    <2>3. Index(r, k) = x
      BY <2>1, <2>2 DEF Index
    <2>4. QED
      BY <1>2, <2>1, <2>3
  <1>3. QED
    BY <1>1, <1>2

LEMMA FilledIs ==
    ASSUME NEW r \in Offset, NEW w \in 0 .. buffersize, Apart(r, w)
    PROVE  Filled(r, w) \in 0 .. buffersize - 1
  BY PipeAssumption DEF Filled, Offset, Apart

LEMMA StoredIs ==
    ASSUME NEW buf \in Memory, NEW r \in Offset, NEW w \in 0 .. buffersize, Apart(r, w)
    PROVE  /\ Stored(buf, r, w) \in Seq(Cell)
           /\ Len(Stored(buf, r, w)) = Filled(r, w)
           /\ \A k \in 1 .. Filled(r, w) : Stored(buf, r, w)[k] = buf[Index(r, k)]
  <1>1. Filled(r, w) \in Nat /\ Filled(r, w) <= buffersize - 1
    BY FilledIs, PipeAssumption
  <1>2. \A k \in 1 .. Filled(r, w) : buf[Index(r, k)] \in Cell
    <2> SUFFICES ASSUME NEW k \in 1 .. Filled(r, w)
                 PROVE  buf[Index(r, k)] \in Cell
      OBVIOUS
    <2>1. Index(r, k) \in Offset
      BY <1>1, IndexIs, PipeAssumption
    <2>2. QED
      BY <2>1 DEF Memory, Cell
  <1>3. Stored(buf, r, w) = [k \in 1 .. Filled(r, w) |-> buf[Index(r, k)]]
    BY PipeAssumption DEF Stored
  <1>4. PICK n \in Nat : n = Filled(r, w)
    BY <1>1
  <1>5. Stored(buf, r, w) \in [1 .. n -> Cell]
    BY <1>2, <1>3, <1>4
  <1>6. QED
    BY <1>3, <1>4, <1>5

(* A read of n bytes that stops at wp and at the end takes the first n.    *)
LEMMA StoredRead ==
    ASSUME NEW buf \in Memory, NEW r \in Offset, NEW w \in Offset, r /= w,
           NEW n \in Nat, r < w => n <= w - r, ~(r < w) => n <= buffersize - r,
           NEW r2, r2 = IF r + n = buffersize THEN 0 ELSE r + n
    PROVE  /\ r2 \in Offset
           /\ n <= Len(Stored(buf, r, w))
           /\ [i \in 1 .. n |-> buf[r + i - 1]] = SubSeq(Stored(buf, r, w), 1, n)
           /\ Stored(buf, r2, w) =
                SubSeq(Stored(buf, r, w), n + 1, Len(Stored(buf, r, w)))
  <1> USE PipeAssumption
  <1>1. w \in 0 .. buffersize /\ Apart(r, w) /\ Apart(r2, w)
    BY DEF Offset, Apart
  <1>2. r2 \in Offset
    BY DEF Offset
  <1>3. n <= Filled(r, w) /\ Filled(r2, w) = Filled(r, w) - n
    BY DEF Filled, Offset
  <1>4. PICK s, L : s = Stored(buf, r, w) /\ L = Filled(r, w)
    OBVIOUS
  <1>5. s \in Seq(Cell) /\ Len(s) = L /\ L \in 0 .. buffersize - 1
    BY <1>1, <1>4, StoredIs, FilledIs
  <1>6. \A k \in 1 .. L : s[k] = buf[Index(r, k)] /\ s[k] \in Cell
    BY <1>1, <1>4, <1>5, StoredIs
  <1>7. [i \in 1 .. n |-> buf[r + i - 1]] = SubSeq(s, 1, n)
    <2>1. \A i \in 1 .. n : s[i] = buf[r + i - 1]
      <3> SUFFICES ASSUME NEW i \in 1 .. n
                   PROVE  s[i] = buf[r + i - 1]
        OBVIOUS
      <3>1. i \in 1 .. L /\ i \in 1 .. buffersize /\ r + i - 1 < buffersize
        BY <1>3, <1>4, <1>5 DEF Offset
      <3>2. QED
        BY <1>6, <3>1, IndexIs
    <2>2. SubSeq(s, 1, n) = [i \in 1 .. n |-> s[i]]
      OBVIOUS
    <2>3. QED
      BY <2>1, <2>2
  <1>8. Stored(buf, r2, w) = SubSeq(s, n + 1, L)
    <2>1. PICK t, u : t = Stored(buf, r2, w) /\ u = SubSeq(s, n + 1, L)
      OBVIOUS
    <2>2. t \in Seq(Cell) /\ Len(t) = L - n /\ \A k \in 1 .. L - n : t[k] = buf[Index(r2, k)]
      BY <1>1, <1>2, <1>3, <1>4, <2>1, StoredIs
    <2>3. \A k \in n + 1 .. L : s[k] \in Cell
      BY <1>5, <1>6
    <2>4. n + 1 \in Int /\ L \in Int /\ n <= L
      BY <1>3, <1>4, <1>5
    <2>5. /\ u \in Seq(Cell) /\ Len(u) = L - n
          /\ \A k \in 1 .. L - n : u[k] = s[n + k]
      <3>1. /\ u \in Seq(Cell)
            /\ Len(u) = IF n + 1 <= L THEN L - (n + 1) + 1 ELSE 0
            /\ \A i \in 1 .. L - (n + 1) + 1 : u[i] = s[(n + 1) + i - 1]
        BY <2>1, <2>3, <2>4, SubSeqProperties
      <3>2. QED
        BY <2>4, <3>1
    <2>6. ASSUME NEW k \in 1 .. L - n
          PROVE  t[k] = u[k]
      <3>1. n + k \in 1 .. L /\ n + k \in 1 .. buffersize /\ k \in 1 .. buffersize
        BY <1>5, <2>4
      <3>2. u[k] = buf[Index(r, n + k)] /\ t[k] = buf[Index(r2, k)]
        BY <1>6, <2>2, <2>5, <3>1
      <3>3. Index(r, n + k) = Index(r2, k)
        <4>1. CASE r + n = buffersize
          <5>1. r2 = 0 /\ r + (n + k) - 1 >= buffersize /\ r + (n + k) - 1 - buffersize = k - 1
            BY <4>1 DEF Offset
          <5>2. Index(r, n + k) = k - 1
            BY <3>1, <5>1, IndexIs
          <5>3. Index(r2, k) = k - 1
            BY <1>2, <3>1, <5>1, IndexIs DEF Offset
          <5>4. QED
            BY <5>2, <5>3
        <4>2. CASE r + n /= buffersize
          <5>1. r2 + k - 1 = r + (n + k) - 1
            BY <4>2 DEF Offset
          <5>2. QED
            BY <5>1 DEF Index
        <4>3. QED
          BY <4>1, <4>2
      <3>4. QED
        BY <3>2, <3>3
    <2>7. t = u
      BY <2>2, <2>5, <2>6, SeqEqual
    <2>8. QED
      BY <2>1, <2>7
  <1>9. QED
    BY <1>2, <1>3, <1>4, <1>5, <1>7, <1>8

(* The n places a write may use hold none of the bytes still to be read.   *)
LEMMA FilledElsewhere ==
    ASSUME NEW r \in Offset, NEW w \in Offset,
           NEW n \in Nat, r > w => n <= r - w - 1, ~(r > w) => n <= buffersize - w,
           NEW k \in 1 .. Filled(r, w)
    PROVE  Index(r, k) \in Offset /\ Index(r, k) \notin w .. w + n - 1
  <1> USE PipeAssumption
  <1>1. PICK x, L : x = Index(r, k) /\ L = Filled(r, w)
    OBVIOUS
  <1>2. L \in Nat /\ L <= buffersize - 1 /\ k \in 1 .. L
    <2>1. Apart(r, w) /\ w \in 0 .. buffersize
      BY DEF Apart, Offset
    <2>2. QED
      BY <1>1, <2>1, FilledIs
  <1>3. k \in 1 .. buffersize
    BY <1>2
  <1>4. /\ r + k - 1 < buffersize => x = r + k - 1
        /\ r + k - 1 >= buffersize => x = r + k - 1 - buffersize
        /\ x \in Offset
    BY <1>1, <1>3, IndexIs
  <1>5. x \notin w .. w + n - 1
    <2>1. CASE r > w
      <3>1. L = w + buffersize - r
        BY <1>1, <2>1 DEF Filled, Offset
      <3>2. QED
        BY <1>2, <1>4, <2>1, <3>1 DEF Offset
    <2>2. CASE ~(r > w)
      <3>1. L = w - r
        BY <1>1, <2>2 DEF Filled, Offset
      <3>2. QED
        BY <1>2, <1>4, <2>2, <3>1 DEF Offset
    <2>3. QED
      BY <2>1, <2>2
  <1>6. QED
    BY <1>1, <1>4, <1>5

(* A copy into them changes no byte still to be read.                      *)
LEMMA StoredCopy ==
    ASSUME NEW buf \in Memory, NEW buf2 \in Memory, NEW r \in Offset, NEW w \in Offset,
           NEW n \in Nat, r > w => n <= r - w - 1, ~(r > w) => n <= buffersize - w,
           \A i \in Offset : i \notin w .. w + n - 1 => buf2[i] = buf[i]
    PROVE  Stored(buf2, r, w) = Stored(buf, r, w)
  <1>1. \A k \in 1 .. Filled(r, w) : buf2[Index(r, k)] = buf[Index(r, k)]
    BY FilledElsewhere
  <1>2. QED
    BY <1>1, PipeAssumption DEF Stored

LEMMA ConcatIs ==
    ASSUME NEW a \in Seq(Cell), NEW c \in Seq(Cell)
    PROVE  /\ a \o c \in Seq(Cell) /\ Len(a \o c) = Len(a) + Len(c)
           /\ \A k \in 1 .. Len(a) + Len(c) :
                (a \o c)[k] = IF k <= Len(a) THEN a[k] ELSE c[k - Len(a)]
  BY ConcatProperties

(* Moving wp past n bytes, short of rp and no further than the end,        *)
(* appends them.                                                           *)
LEMMA StoredWrite ==
    ASSUME NEW buf \in Memory, NEW r \in Offset, NEW w \in Offset,
           NEW n \in Nat, r > w => n <= r - w - 1,
           ~(r > w) => n <= buffersize - w /\ n <= r + buffersize - w - 1,
           NEW bytes \in [1 .. n -> Byte],
           \A i \in 1 .. n : bytes[i] = buf[w + i - 1]
    PROVE  /\ w + n \in 0 .. buffersize /\ Apart(r, w + n)
           /\ Len(Stored(buf, r, w)) + n <= buffersize - 1
           /\ Stored(buf, r, w + n) = Stored(buf, r, w) \o bytes
  <1> USE PipeAssumption
  <1>1. w \in 0 .. buffersize /\ Apart(r, w) /\ w + n \in 0 .. buffersize /\ Apart(r, w + n)
    BY DEF Offset, Apart
  <1>2. Filled(r, w + n) = Filled(r, w) + n
    BY DEF Filled, Offset
  <1>3. PICK s, t, L : s = Stored(buf, r, w) /\ t = Stored(buf, r, w + n) /\ L = Filled(r, w)
    OBVIOUS
  <1>4. /\ s \in Seq(Cell) /\ Len(s) = L /\ L \in Nat
        /\ \A k \in 1 .. L : s[k] = buf[Index(r, k)]
    BY <1>1, <1>3, StoredIs, FilledIs
  <1>5. L + n <= buffersize - 1
    <2>1. Filled(r, w + n) \in 0 .. buffersize - 1
      BY <1>1, FilledIs
    <2>2. QED
      BY <1>2, <1>3, <2>1
  <1>6. /\ t \in Seq(Cell) /\ Len(t) = L + n
        /\ \A k \in 1 .. L + n : t[k] = buf[Index(r, k)]
    <2>1. /\ Stored(buf, r, w + n) \in Seq(Cell)
          /\ Len(Stored(buf, r, w + n)) = Filled(r, w + n)
          /\ \A k \in 1 .. Filled(r, w + n) : Stored(buf, r, w + n)[k] = buf[Index(r, k)]
      BY <1>1, StoredIs
    <2>2. QED
      BY <1>2, <1>3, <2>1
  <1>7. bytes \in Seq(Cell) /\ Len(bytes) = n
    BY DEF Cell
  <1>8. PICK u : u = s \o bytes
    OBVIOUS
  <1>9. /\ u \in Seq(Cell) /\ Len(u) = L + n
        /\ \A k \in 1 .. L + n : u[k] = IF k <= L THEN s[k] ELSE bytes[k - L]
    <2>1. /\ s \o bytes \in Seq(Cell) /\ Len(s \o bytes) = Len(s) + Len(bytes)
          /\ \A k \in 1 .. Len(s) + Len(bytes) :
               (s \o bytes)[k] = IF k <= Len(s) THEN s[k] ELSE bytes[k - Len(s)]
      BY <1>4, <1>7, ConcatIs
    <2>2. QED
      BY <1>4, <1>7, <1>8, <2>1
  <1>10. ASSUME NEW k \in 1 .. L + n
         PROVE  t[k] = u[k]
    <2>1. k \in 1 .. buffersize
      BY <1>4, <1>5
    <2>2. PICK x : x = Index(r, k)
      OBVIOUS
    <2>3. x \in Offset /\ x = IF r + k - 1 < buffersize THEN r + k - 1 ELSE r + k - 1 - buffersize
      <3>1. /\ r + k - 1 < buffersize => x = r + k - 1
            /\ r + k - 1 >= buffersize => x = r + k - 1 - buffersize
            /\ x \in Offset
        BY <2>1, <2>2, IndexIs
      <3>2. QED
        BY <2>1, <3>1 DEF Offset
    <2>4. CASE k <= L
      <3>1. t[k] = buf[x]
        BY <1>6, <2>2
      <3>2. u[k] = s[k] /\ s[k] = buf[x]
        BY <1>4, <1>9, <2>2, <2>4
      <3>3. QED
        BY <3>1, <3>2
    <2>5. CASE k > L
      <3>1. x = w + (k - L) - 1 /\ x \in Offset
        <4>1. CASE r > w
          <5>1. L = w + buffersize - r
            BY <1>3, <4>1 DEF Filled, Offset
          <5>2. QED
            BY <2>1, <2>3, <2>5, <4>1, <5>1 DEF Offset
        <4>2. CASE ~(r > w)
          <5>1. L = w - r
            BY <1>3, <4>2 DEF Filled, Offset
          <5>2. r + k - 1 < buffersize
            BY <2>5, <4>2, <5>1 DEF Offset
          <5>3. QED
            BY <2>1, <2>3, <2>5, <4>2, <5>1, <5>2 DEF Offset
        <4>3. QED
          BY <4>1, <4>2
      <3>2. k - L \in 1 .. n
        BY <1>4, <2>5
      <3>3. bytes[k - L] = buf[x]
        BY <3>1, <3>2
      <3>4. t[k] = buf[x]
        BY <1>6, <2>2
      <3>5. u[k] = bytes[k - L]
        BY <1>4, <1>9, <2>5
      <3>6. QED
        BY <3>3, <3>4, <3>5
    <2>6. QED
      BY <1>4, <2>4, <2>5
  <1>11. t = u
    BY <1>6, <1>9, <1>10, SeqEqual
  <1>12. QED
    BY <1>1, <1>3, <1>4, <1>5, <1>8, <1>11

(* Wrapping wp from the end to the start changes no byte.                  *)
LEMMA StoredWrap ==
    ASSUME NEW buf, NEW r \in Offset, NEW w \in 0 .. buffersize, Apart(r, w),
           NEW w2, w2 = IF w = buffersize THEN 0 ELSE w
    PROVE  Stored(buf, r, w2) = Stored(buf, r, w) /\ w2 \in Offset
  <1>1. Filled(r, w2) = Filled(r, w) /\ w2 \in Offset
    BY PipeAssumption DEF Filled, Offset, Apart
  <1>2. QED
    BY <1>1 DEF Stored

-----------------------------------------------------------------------------
(* The device implements BoundedFifo, where nobody polls.                  *)

Reading == {"r_move", "r_put", "r_wake"}

(* A read has bytes in hand only between its copy and its return.          *)
UbufOK == \A p \in Procs : pc[p] \notin Reading => ubuf[p] = << >>

FifoInv == LockInv /\ UbufOK

LEMMA ContentsKept ==
    ASSUME NEW p \in Procs, Moves(p), UNCHANGED ring, pc[p] /= "o_setup", pc'[p] /= "o_setup"
    PROVE  Contents' = Contents
  <1>1. (\E q \in Procs : pc'[q] = "o_setup") <=> (\E q \in Procs : pc[q] = "o_setup")
    BY DEF Moves
  <1>2. QED
    BY <1>1 DEF Contents, ring

LEMMA DeliveredKept ==
    ASSUME UbufOK, NEW p \in Procs, Moves(p), UNCHANGED ubuf, pc[p] /= "r_put",
           pc[p] = "r_wake" <=> pc'[p] = "r_wake", pc'[p] \in Reading \/ pc[p] \notin Reading
    PROVE  Delivered' = Delivered
  <1>1. \A q \in Procs :
           (IF pc'[q] \in {"r_move", "r_put"} THEN << >> ELSE ubuf[q])
             = (IF pc[q] \in {"r_move", "r_put"} THEN << >> ELSE ubuf[q])
    BY DEF Moves, UbufOK, Reading
  <1>2. QED
    BY <1>1 DEF Delivered

LEMMA UbufKept ==
    ASSUME UbufOK, NEW p \in Procs, Moves(p), UNCHANGED ubuf,
           pc'[p] \in Reading \/ pc[p] \notin Reading
    PROVE  UbufOK'
  BY DEF UbufOK, Moves

LEMMA UsersKept ==
    ASSUME NEW p \in Procs, Unfiled(p)
    PROVE  (OpenReaders \cup OpenWriters)' = OpenReaders \cup OpenWriters
  BY DEF Unfiled, Moves, OpenReaders, OpenWriters, NotYetRead, NotYetWrite, NoMoreRead,
         NoMoreWrite, ReadSteps, WriteSteps

(* Steps of a read or a write that touch neither the ring nor what was     *)
(* read.                                                                   *)
LEMMA StillFifo ==
    ASSUME FifoInv, NEW p \in Procs, Unfiled(p), UNCHANGED <<ring, ubuf>>,
           pc[p] \notin {"r_put", "r_wake"}, pc'[p] /= "r_wake",
           pc'[p] \in Reading \/ pc[p] \notin Reading
    PROVE  UbufOK' /\ UNCHANGED Fifo!vars
  <1>1. Moves(p) /\ pc[p] /= "o_setup" /\ pc'[p] /= "o_setup"
    BY DEF Unfiled, ReadSteps, WriteSteps
  <1>2. UbufOK' /\ Delivered' = Delivered /\ Contents' = Contents
    BY <1>1, ContentsKept, DeliveredKept, UbufKept DEF FifoInv
  <1>3. QED
    BY <1>2, UsersKept DEF Fifo!vars

(* While a process reads or writes between down and up, nobody sets up.    *)
LEMMA NoSetup ==
    ASSUME LockInv, NEW p \in Procs, Unfiled(p), pc[p] \in CriticalSteps
    PROVE  \A q \in Procs : pc[q] /= "o_setup" /\ pc'[q] /= "o_setup"
  <1>1. pc[p] /= "o_setup" /\ pc'[p] /= "o_setup" /\ Moves(p)
    BY DEF Unfiled, ReadSteps, WriteSteps
  <1>2. \A q \in Procs \ {p} : pc[q] \notin CriticalSteps
    BY DEF LockInv, Exclusive, SemaphoreExact, InCritical
  <1>3. QED
    BY <1>1, <1>2 DEF Moves, CriticalSteps, OpenSteps

LEMMA FifoReadCopy ==
    ASSUME FifoInv, NEW p \in Procs, NEW request \in 0 .. MaxRequest,
           scull_p_read_copy(p, request), Unfiled(p)
    PROVE  UbufOK' /\ UNCHANGED Fifo!vars
  <1> USE DEF FifoInv, LockInv, MemoryInv
  <1>1. /\ pc[p] = "r_copy" /\ pc'[p] = "r_move" /\ Moves(p) /\ UNCHANGED ring
        /\ \A q \in Procs \ {p} : ubuf'[q] = ubuf[q]
    BY DEF scull_p_read_copy, Goto, Moves, TypeOK
  <1>2. UbufOK'
    BY <1>1 DEF UbufOK, Moves, Reading
  <1>3. Delivered' = Delivered
    <2>1. \A q \in Procs :
             (IF pc'[q] \in {"r_move", "r_put"} THEN << >> ELSE ubuf'[q])
               = (IF pc[q] \in {"r_move", "r_put"} THEN << >> ELSE ubuf[q])
      BY <1>1 DEF Moves, UbufOK, Reading
    <2>2. QED
      BY <2>1 DEF Delivered
  <1>4. QED
    BY <1>1, <1>2, <1>3, ContentsKept, UsersKept DEF Fifo!vars

LEMMA FifoReadPut ==
    ASSUME FifoInv, NEW p \in Procs, scull_p_read_put(p), Unfiled(p)
    PROVE  UbufOK' /\ \E n \in 0 .. buffersize - 1 : Fifo!Get(p, n)
  <1> USE PipeAssumption DEF FifoInv, LockInv, MemoryInv
  <1>1. PICK n : n = Len(ubuf[p])
    OBVIOUS
  <1>2. /\ pc[p] = "r_put" /\ pc'[p] = "r_wake" /\ Moves(p) /\ rp' = local[p]
        /\ UNCHANGED <<buffer, wp, ubuf>>
    BY DEF scull_p_read_put, Goto, Moves, TypeOK
  <1>3. /\ Takes(n) /\ rp' = Advance(n)
        /\ ubuf[p] = [i \in 1 .. n |-> buffer[rp + i - 1]]
    BY <1>1, <1>2 DEF HeldAll, Held, HeldRead
  <1>4. buffer \in Memory /\ rp \in Offset /\ wp \in Offset
    <2>1. buffer \in Memory
      BY <1>2, BufferThere DEF ReadSteps
    <2>2. wp /= buffersize
      BY <1>2, PointersAlone DEF CriticalSteps
    <2>3. QED
      BY <2>1, <2>2 DEF TypeOK, Offset
  <1>5. /\ n <= Len(Stored(buffer, rp, wp))
        /\ ubuf[p] = SubSeq(Stored(buffer, rp, wp), 1, n)
        /\ Stored(buffer, rp', wp) =
                SubSeq(Stored(buffer, rp, wp), n + 1, Len(Stored(buffer, rp, wp)))
    <2>1. PICK b, r, w, r2 : b = buffer /\ r = rp /\ w = wp /\ r2 = rp'
      OBVIOUS
    <2>2. /\ n <= Len(Stored(b, r, w))
          /\ [i \in 1 .. n |-> b[r + i - 1]] = SubSeq(Stored(b, r, w), 1, n)
          /\ Stored(b, r2, w) = SubSeq(Stored(b, r, w), n + 1, Len(Stored(b, r, w)))
      <3>1. /\ b \in Memory /\ r \in Offset /\ w \in Offset /\ r /= w /\ n \in Nat
            /\ r < w => n <= w - r
            /\ ~(r < w) => n <= buffersize - r
            /\ r2 = IF r + n = buffersize THEN 0 ELSE r + n
        BY <1>3, <1>4, <2>1 DEF Takes, Advance
      <3>2. QED
        BY <3>1, StoredRead
    <2>3. QED
      BY <1>3, <2>1, <2>2
  <1>6. Contents = Stored(buffer, rp, wp) /\ Contents' = Stored(buffer, rp', wp)
    <2>1. pc[p] \in CriticalSteps
      BY <1>2 DEF CriticalSteps
    <2>2. \A q \in Procs : pc[q] /= "o_setup" /\ pc'[q] /= "o_setup"
      BY <2>1, NoSetup
    <2>3. QED
      BY <1>2, <2>2, ContentsStored, ContentsStoredNext
  <1>7. Delivered[p] = << >> /\ Delivered' = [Delivered EXCEPT ![p] = ubuf[p]]
    <2>1. Delivered[p] = << >>
      BY <1>2 DEF Delivered
    <2>2. \A q \in Procs :
             (IF pc'[q] \in {"r_move", "r_put"} THEN << >> ELSE ubuf[q])
               = (IF q = p THEN ubuf[p]
                  ELSE IF pc[q] \in {"r_move", "r_put"} THEN << >> ELSE ubuf[q])
      BY <1>2 DEF Moves
    <2>3. Delivered' = [q \in Procs |-> IF q = p THEN ubuf[p] ELSE Delivered[q]]
      BY <1>2, <2>2 DEF Delivered
    <2>4. [Delivered EXCEPT ![p] = ubuf[p]]
            = [q \in Procs |-> IF q = p THEN ubuf[p] ELSE Delivered[q]]
      BY DEF Delivered
    <2>5. QED
      BY <2>1, <2>3, <2>4
  <1>8. n \in 0 .. buffersize - 1
    <2>1. Apart(rp, wp) /\ wp \in 0 .. buffersize
      BY <1>4 DEF Apart, Offset
    <2>2. Len(Stored(buffer, rp, wp)) = Filled(rp, wp) /\ Filled(rp, wp) \in 0 .. buffersize - 1
      BY <1>4, <2>1, StoredIs, FilledIs
    <2>3. QED
      BY <1>3, <1>5, <2>2 DEF Takes
  <1>9. p \in OpenReaders
    BY <1>2 DEF ModesMatch, OpenReaders, NotYetRead, NoMoreRead, NoMoreWrite, ReadSteps
  <1>10. Fifo!Get(p, n)
    BY <1>5, <1>6, <1>7, <1>9, UsersKept DEF Fifo!Get
  <1>11. UbufOK'
    BY <1>2, UbufKept DEF Reading
  <1>12. QED
    BY <1>8, <1>10, <1>11

LEMMA FifoReadWake ==
    ASSUME FifoInv, NEW p \in Procs, scull_p_read_wake(p), Unfiled(p)
    PROVE  UbufOK' /\ Fifo!Return(p)
  <1> USE DEF FifoInv, LockInv, MemoryInv
  <1>1. /\ pc[p] = "r_wake" /\ pc'[p] = "open" /\ Moves(p) /\ UNCHANGED ring
        /\ ubuf' = [ubuf EXCEPT ![p] = << >>]
    BY DEF scull_p_read_wake, Return, Goto, Moves, TypeOK
  <1>2. /\ ubuf'[p] = << >>
        /\ \A q \in Procs \ {p} : ubuf'[q] = ubuf[q]
    BY <1>1 DEF TypeOK
  <1>3. UbufOK'
    BY <1>1, <1>2 DEF UbufOK, Moves
  <1>4. Delivered' = [Delivered EXCEPT ![p] = << >>]
    <2>1. \A q \in Procs :
             (IF pc'[q] \in {"r_move", "r_put"} THEN << >> ELSE ubuf'[q])
               = (IF q = p THEN << >>
                  ELSE IF pc[q] \in {"r_move", "r_put"} THEN << >> ELSE ubuf[q])
      BY <1>1, <1>2 DEF Moves
    <2>2. Delivered' = [q \in Procs |-> IF q = p THEN << >> ELSE Delivered[q]]
      BY <2>1 DEF Delivered
    <2>3. [Delivered EXCEPT ![p] = << >>]
            = [q \in Procs |-> IF q = p THEN << >> ELSE Delivered[q]]
      BY DEF Delivered
    <2>4. QED
      BY <2>2, <2>3
  <1>5. Contents' = Contents
    BY <1>1, ContentsKept
  <1>6. QED
    BY <1>3, <1>4, <1>5, UsersKept DEF Fifo!Return

LEMMA FifoRead ==
    ASSUME FifoInv, NEW p \in Procs, scull_p_read(p)
    PROVE  UbufOK' /\ (Fifo!Next \/ UNCHANGED Fifo!vars)
  <1>1. Unfiled(p)
    BY ReadUnfiled DEF FifoInv
  <1>2. ASSUME NEW request \in 0 .. MaxRequest, scull_p_read_copy(p, request)
        PROVE  UbufOK' /\ UNCHANGED Fifo!vars
    BY <1>1, <1>2, FifoReadCopy
  <1>3. CASE scull_p_read_put(p)
    BY <1>1, <1>3, FifoReadPut DEF Fifo!Next
  <1>4. CASE scull_p_read_wake(p)
    BY <1>1, <1>4, FifoReadWake DEF Fifo!Next
  <1>5. CASE \/ ReadCall(p) \/ Down(p, "r_down", "r_check") \/ scull_p_read_interrupted(p)
             \/ scull_p_read_check(p) \/ scull_p_read_EFAULT(p)
    <2>1. /\ UNCHANGED <<ring, ubuf>> /\ pc[p] \notin Reading
          /\ pc'[p] \in {"open", "r_down", "r_check", "r_copy", "r_prep"}
      BY <1>5 DEF ReadCall, Down, scull_p_read_interrupted, DownInterrupted, scull_p_read_check,
                  scull_p_read_EFAULT, Return, Goto, Reading, FifoInv, LockInv, MemoryInv, TypeOK
    <2>2. QED
      BY <1>1, <2>1, StillFifo DEF Reading
  <1>6. CASE scull_p_read_prepare(p) \/ scull_p_read_cond(p) \/ scull_p_read_wakeup(p)
    <2>1. /\ UNCHANGED <<ring, ubuf>> /\ pc[p] \notin Reading
          /\ pc'[p] \in {"open", "r_down", "r_prep", "r_cond", "r_sleep"}
      BY <1>6 DEF scull_p_read_prepare, scull_p_read_cond, scull_p_read_wakeup,
                  Return, Goto, Reading, FifoInv, LockInv, MemoryInv, TypeOK
    <2>2. QED
      BY <1>1, <2>1, StillFifo DEF Reading
  <1>7. CASE scull_p_read_move(p)
    <2>1. UNCHANGED <<ring, ubuf>> /\ pc[p] = "r_move" /\ pc'[p] = "r_put"
      BY <1>7 DEF scull_p_read_move, Goto, FifoInv, LockInv, MemoryInv, TypeOK
    <2>2. QED
      BY <1>1, <2>1, StillFifo DEF Reading
  <1>8. QED
    BY <1>2, <1>3, <1>4, <1>5, <1>6, <1>7 DEF scull_p_read

(* What a write copies in, whole or not, is not yet part of the stream.    *)
LEMMA FifoWriteCopy ==
    ASSUME FifoInv, NEW p \in Procs, NEW request \in Nat, Unfiled(p),
           scull_p_write_EFAULT(p, request) \/ scull_p_write_copy(p, request)
    PROVE  UbufOK' /\ UNCHANGED Fifo!vars
  <1> USE PipeAssumption DEF FifoInv, LockInv, MemoryInv
  <1>1. PICK n : n = WriteCount(request)
    OBVIOUS
  <1>2. /\ pc[p] = "w_copy" /\ pc'[p] \in {"open", "w_move"} /\ CopyIn(n)
        /\ UNCHANGED <<rp, wp, ubuf>>
    BY <1>1 DEF scull_p_write_EFAULT, scull_p_write_copy, Return, Goto, TypeOK
  <1>3. n \in Nat /\ Fits(n) /\ buffer \in Memory /\ wp /= buffersize
    BY <1>1, <1>2, WriteCopies
  <1>4. /\ buffer' \in Memory
        /\ \A i \in Offset : i \notin wp .. wp + n - 1 => buffer'[i] = buffer[i]
    BY <1>2, <1>3, CopyInBytes
  <1>5. Stored(buffer', rp, wp) = Stored(buffer, rp, wp)
    <2>1. PICK b, b2, r, w : b = buffer /\ b2 = buffer' /\ r = rp /\ w = wp
      OBVIOUS
    <2>2. /\ b \in Memory /\ b2 \in Memory /\ r \in Offset /\ w \in Offset
          /\ r > w => n <= r - w - 1
          /\ ~(r > w) => n <= buffersize - w
          /\ \A i \in Offset : i \notin w .. w + n - 1 => b2[i] = b[i]
      BY <1>3, <1>4, <2>1 DEF Fits, TypeOK, Offset
    <2>3. Stored(b2, r, w) = Stored(b, r, w)
      BY <1>3, <2>2, StoredCopy
    <2>4. QED
      BY <2>1, <2>3
  <1>6. Contents = Stored(buffer, rp, wp) /\ Contents' = Stored(buffer', rp, wp)
    <2>1. pc[p] \in CriticalSteps
      BY <1>2 DEF CriticalSteps
    <2>2. \A q \in Procs : pc[q] /= "o_setup" /\ pc'[q] /= "o_setup"
      BY <2>1, NoSetup
    <2>3. QED
      BY <1>2, <2>2, ContentsStored, ContentsStoredNext
  <1>7. UbufOK' /\ Delivered' = Delivered
    BY <1>2, DeliveredKept, UbufKept DEF Unfiled, Reading
  <1>8. QED
    BY <1>5, <1>6, <1>7, UsersKept DEF Fifo!vars

(* The stream grows when wp moves.                                         *)
LEMMA FifoWritePut ==
    ASSUME FifoInv, NEW p \in Procs, scull_p_write_put(p), Unfiled(p)
    PROVE  /\ UbufOK'
           /\ \E n \in 0 .. buffersize - 1 : \E bytes \in [1 .. n -> Byte] : Fifo!Put(p, bytes)
  <1> USE PipeAssumption DEF FifoInv, LockInv, MemoryInv
  <1>1. /\ pc[p] = "w_put" /\ pc'[p] = "w_wrap" /\ wp' = local[p]
        /\ UNCHANGED <<buffer, rp, ubuf>>
    BY DEF scull_p_write_put, Goto, TypeOK
  <1>2. PICK n : n = local[p] - wp
    OBVIOUS
  <1>3. /\ Fits(n) /\ n \in Nat /\ wp' = wp + n
        /\ \A i \in wp .. wp + n - 1 : buffer[i] \in Byte
    <2>1. Fits(n) /\ \A i \in wp .. local[p] - 1 : buffer[i] \in Byte
      BY <1>1, <1>2 DEF HeldAll, Held, HeldWrite
    <2>2. n \in Nat /\ local[p] = wp + n
      BY <1>2, <2>1 DEF Fits, TypeOK
    <2>3. (wp .. local[p] - 1) = (wp .. wp + n - 1)
      BY <2>2 DEF TypeOK
    <2>4. QED
      BY <1>1, <2>1, <2>2, <2>3
  <1>4. buffer \in Memory /\ rp \in Offset /\ wp \in Offset
    <2>1. buffer \in Memory
      BY <1>1, BufferThere DEF WriteSteps
    <2>2. wp /= buffersize
      BY <1>1, PointersAlone DEF CriticalSteps
    <2>3. QED
      BY <2>1, <2>2 DEF TypeOK, Offset
  <1>5. PICK bytes : bytes = [i \in 1 .. n |-> buffer[wp + i - 1]]
    OBVIOUS
  <1>6. bytes \in [1 .. n -> Byte] /\ \A i \in 1 .. n : bytes[i] = buffer[wp + i - 1]
    <2>1. \A i \in 1 .. n : wp + i - 1 \in wp .. wp + n - 1
      BY <1>3, <1>4 DEF Offset
    <2>2. QED
      BY <1>3, <1>5, <2>1
  <1>7. /\ Len(Stored(buffer, rp, wp)) + n <= buffersize - 1
        /\ Stored(buffer, rp, wp + n) = Stored(buffer, rp, wp) \o bytes
    <2>1. PICK b, r, w : b = buffer /\ r = rp /\ w = wp
      OBVIOUS
    <2>2. /\ b \in Memory /\ r \in Offset /\ w \in Offset
          /\ r > w => n <= r - w - 1
          /\ ~(r > w) => n <= buffersize - w /\ n <= r + buffersize - w - 1
          /\ \A i \in 1 .. n : bytes[i] = b[w + i - 1]
      BY <1>3, <1>4, <1>6, <2>1 DEF Fits
    <2>3. PICK m, data : m = n /\ data = bytes
      OBVIOUS
    <2>4. /\ m \in Nat /\ data \in [1 .. m -> Byte]
          /\ r > w => m <= r - w - 1
          /\ ~(r > w) => m <= buffersize - w /\ m <= r + buffersize - w - 1
          /\ \A i \in 1 .. m : data[i] = b[w + i - 1]
      BY <1>3, <1>6, <2>2, <2>3
    <2>5. b \in Memory /\ r \in Offset /\ w \in Offset
      BY <2>2
    <2>6. /\ Len(Stored(b, r, w)) + m <= buffersize - 1
          /\ Stored(b, r, w + m) = Stored(b, r, w) \o data
      BY ONLY <2>4, <2>5, StoredWrite
    <2>7. QED
      BY <2>1, <2>3, <2>6
  <1>8. Contents = Stored(buffer, rp, wp) /\ Contents' = Stored(buffer, rp, wp + n)
    <2>1. pc[p] \in CriticalSteps
      BY <1>1 DEF CriticalSteps
    <2>2. \A q \in Procs : pc[q] /= "o_setup" /\ pc'[q] /= "o_setup"
      BY <2>1, NoSetup
    <2>3. QED
      BY <1>1, <1>3, <2>2, ContentsStored, ContentsStoredNext
  <1>9. n \in 0 .. buffersize - 1 /\ Len(bytes) = n
    <2>1. Apart(rp, wp) /\ wp \in 0 .. buffersize
      BY <1>4 DEF Apart, Offset
    <2>2. Len(Stored(buffer, rp, wp)) = Filled(rp, wp) /\ Filled(rp, wp) \in 0 .. buffersize - 1
      BY <1>4, <2>1, StoredIs, FilledIs
    <2>3. QED
      BY <1>3, <1>6, <1>7, <2>2
  <1>10. p \in OpenWriters
    BY <1>1 DEF ModesMatch, OpenWriters, NotYetRead, NotYetWrite, NoMoreWrite, WriteSteps
  <1>11. UbufOK' /\ Delivered' = Delivered
    BY <1>1, DeliveredKept, UbufKept DEF Unfiled, Reading
  <1>12. Fifo!Put(p, bytes)
    BY <1>7, <1>8, <1>9, <1>10, <1>11, UsersKept DEF Fifo!Put
  <1>13. QED
    BY <1>6, <1>9, <1>11, <1>12

LEMMA FifoWriteZero ==
    ASSUME FifoInv, NEW p \in Procs, scull_p_write_zero(p), Unfiled(p)
    PROVE  UbufOK' /\ UNCHANGED Fifo!vars
  <1> USE PipeAssumption DEF FifoInv, LockInv, MemoryInv
  <1>1. /\ pc[p] = "w_zero" /\ pc'[p] = "w_wake" /\ wp' = 0
        /\ UNCHANGED <<buffer, rp, ubuf>>
    BY DEF scull_p_write_zero, Goto, TypeOK
  <1>2. wp = buffersize
    BY <1>1 DEF HeldAll, Held, HeldWrite
  <1>3. Stored(buffer, rp, wp') = Stored(buffer, rp, wp)
    <2>1. PICK b, r, w, w2 : b = buffer /\ r = rp /\ w = wp /\ w2 = wp'
      OBVIOUS
    <2>2. /\ r \in Offset /\ w \in 0 .. buffersize /\ Apart(r, w)
          /\ w2 = IF w = buffersize THEN 0 ELSE w
      BY <1>1, <1>2, <2>1 DEF Pointers, TypeOK
    <2>3. Stored(b, r, w2) = Stored(b, r, w)
      BY <2>2, StoredWrap
    <2>4. QED
      BY <2>1, <2>3
  <1>4. Contents = Stored(buffer, rp, wp) /\ Contents' = Stored(buffer, rp, wp')
    <2>1. pc[p] \in CriticalSteps
      BY <1>1 DEF CriticalSteps
    <2>2. \A q \in Procs : pc[q] /= "o_setup" /\ pc'[q] /= "o_setup"
      BY <2>1, NoSetup
    <2>3. QED
      BY <1>1, <2>2, ContentsStored, ContentsStoredNext
  <1>5. UbufOK' /\ Delivered' = Delivered
    BY <1>1, DeliveredKept, UbufKept DEF Unfiled, Reading
  <1>6. QED
    BY <1>3, <1>4, <1>5, UsersKept DEF Fifo!vars

LEMMA FifoWrite ==
    ASSUME FifoInv, NEW p \in Procs, scull_p_write(p)
    PROVE  UbufOK' /\ (Fifo!Next \/ UNCHANGED Fifo!vars)
  <1>1. Unfiled(p)
    BY WriteUnfiled DEF FifoInv
  <1>2. ASSUME NEW request \in 0 .. MaxRequest,
               scull_p_write_EFAULT(p, request) \/ scull_p_write_copy(p, request)
        PROVE  UbufOK' /\ UNCHANGED Fifo!vars
    BY <1>1, <1>2, FifoWriteCopy, PipeAssumption
  <1>3. CASE scull_p_write_put(p)
    BY <1>1, <1>3, FifoWritePut DEF Fifo!Next
  <1>4. CASE scull_p_write_zero(p)
    BY <1>1, <1>4, FifoWriteZero
  <1>5. CASE \/ WriteCall(p) \/ Down(p, "w_down", "w_space") \/ scull_p_write_interrupted(p)
             \/ scull_getwritespace(p)
    <2>1. /\ UNCHANGED <<ring, ubuf>> /\ pc[p] \notin Reading
          /\ pc'[p] \in {"open", "w_down", "w_space", "w_copy", "w_prep"}
      BY <1>5 DEF WriteCall, Down, scull_p_write_interrupted, DownInterrupted,
                  scull_getwritespace, Return, Goto, Reading, FifoInv, LockInv, MemoryInv, TypeOK
    <2>2. QED
      BY <1>1, <2>1, StillFifo DEF Reading
  <1>6. CASE \/ scull_getwritespace_prepare(p) \/ scull_getwritespace_cond(p)
             \/ scull_getwritespace_wakeup(p) \/ scull_getwritespace_finish(p)
    <2>1. /\ UNCHANGED <<ring, ubuf>> /\ pc[p] \notin Reading
          /\ pc'[p] \in {"open", "w_down", "w_cond", "w_sleep", "w_fin"}
      BY <1>6 DEF scull_getwritespace_prepare, scull_getwritespace_cond,
                  scull_getwritespace_wakeup, scull_getwritespace_finish,
                  Return, Goto, Reading, FifoInv, LockInv, MemoryInv, TypeOK
    <2>2. QED
      BY <1>1, <2>1, StillFifo DEF Reading
  <1>7. CASE scull_p_write_move(p) \/ scull_p_write_wrap(p) \/ scull_p_write_wake(p)
    <2>1. /\ UNCHANGED <<ring, ubuf>> /\ pc[p] \notin Reading
          /\ pc'[p] \in {"open", "w_put", "w_zero", "w_wake"}
      BY <1>7 DEF scull_p_write_move, scull_p_write_wrap, scull_p_write_wake, Goto, Reading,
                  FifoInv, LockInv, MemoryInv, TypeOK
    <2>2. QED
      BY <1>1, <2>1, StillFifo DEF Reading
  <1>8. QED
    BY <1>2, <1>3, <1>4, <1>5, <1>6, <1>7 DEF scull_p_write

(* No buffer and a buffer whose pointers are being set up are as empty as  *)
(* a new one.                                                              *)
LEMMA FifoBuffer ==
    ASSUME FifoInv, NEW p \in Procs,
           scull_p_open_ENOMEM(p) \/ scull_p_open_alloc(p) \/ scull_p_open_setup(p)
    PROVE  Contents' = Contents
  <1> USE DEF FifoInv, LockInv, MemoryInv
  <1>1. CASE scull_p_open_ENOMEM(p)
    <2>1. pc[p] = "o_alloc" /\ buffer' = NULL
      BY <1>1 DEF scull_p_open_ENOMEM
    <2>2. buffer = NULL
      BY <2>1 DEF HeldAll, Held, HeldFiles
    <2>3. QED
      BY <2>1, <2>2 DEF Contents
  <1>2. CASE scull_p_open_alloc(p)
    <2>1. pc[p] = "o_alloc" /\ pc'[p] = "o_setup"
      BY <1>2 DEF scull_p_open_alloc, Goto, TypeOK
    <2>2. buffer = NULL
      BY <2>1 DEF HeldAll, Held, HeldFiles
    <2>3. QED
      BY <2>1, <2>2 DEF Contents
  <1>3. CASE scull_p_open_setup(p)
    <2>1. /\ pc[p] = "o_setup" /\ rp' = 0 /\ wp' = 0
      BY <1>3 DEF scull_p_open_setup
    <2>2. Contents = << >>
      BY <2>1 DEF Contents
    <2>3. Contents' = << >>
      BY <2>1 DEF Contents
    <2>4. QED
      BY <2>2, <2>3
  <1>4. QED
    BY <1>1, <1>2, <1>3

LEMMA FifoOpen ==
    ASSUME FifoInv, NEW p \in Procs, scull_p_open(p)
    PROVE  UbufOK' /\ (Fifo!Open(p) \/ UNCHANGED Fifo!vars)
  <1> USE DEF FifoInv, LockInv, MemoryInv
  <1>1. /\ Moves(p) /\ UNCHANGED ubuf /\ \A q \in Procs \ {p} : f_flags'[q] = f_flags[q]
        /\ pc[p] \in OpenSteps \cup {"closed", "o_down"}
        /\ pc'[p] \in OpenSteps \cup {"closed", "o_down", "open"}
        /\ p \in OpenReaders \cup OpenWriters => p \in (OpenReaders \cup OpenWriters)'
    <2> USE DEF Moves, TypeOK, Goto, Return, OpenSteps, OpenReaders, OpenWriters, NotYetRead,
                NotYetWrite, NoMoreRead, NoMoreWrite, files
    <2>1. CASE OpenCall(p) \/ scull_p_open_interrupted(p) \/ Down(p, "o_down", "o_test")
      BY <2>1 DEF OpenCall, scull_p_open_interrupted, DownInterrupted, Down
    <2>2. CASE scull_p_open_test(p)
      BY <2>2 DEF scull_p_open_test
    <2>3. CASE scull_p_open_ENOMEM(p)
      BY <2>3 DEF scull_p_open_ENOMEM
    <2>4. CASE scull_p_open_alloc(p) \/ scull_p_open_setup(p)
      BY <2>4 DEF scull_p_open_alloc, scull_p_open_setup
    <2>5. CASE scull_p_open_nreaders(p)
      BY <2>5 DEF scull_p_open_nreaders, Load, StoreReaders
    <2>6. CASE scull_p_open_nwriters(p)
      BY <2>6 DEF scull_p_open_nwriters, Load, StoreWriters
    <2>7. CASE scull_p_open_up(p)
      BY <2>7 DEF scull_p_open_up
    <2>8. QED
      BY <2>1, <2>2, <2>3, <2>4, <2>5, <2>6, <2>7 DEF scull_p_open
  <1>2. Contents' = Contents
    <2>1. CASE scull_p_open_ENOMEM(p) \/ scull_p_open_alloc(p) \/ scull_p_open_setup(p)
      BY <2>1, FifoBuffer
    <2>2. CASE \/ OpenCall(p) \/ scull_p_open_interrupted(p) \/ Down(p, "o_down", "o_test")
               \/ scull_p_open_test(p) \/ scull_p_open_nreaders(p) \/ scull_p_open_nwriters(p)
               \/ scull_p_open_up(p)
      <3>1. UNCHANGED ring /\ pc[p] /= "o_setup" /\ pc'[p] /= "o_setup"
        BY <2>2 DEF OpenCall, scull_p_open_interrupted, DownInterrupted, Down, scull_p_open_test,
                    scull_p_open_nreaders, scull_p_open_nwriters, scull_p_open_up, Load,
                    StoreReaders, StoreWriters, Return, Goto, TypeOK
      <3>2. QED
        BY <1>1, <3>1, ContentsKept
    <2>3. QED
      BY <2>1, <2>2 DEF scull_p_open
  <1>3. UbufOK' /\ Delivered' = Delivered
    <2>1. pc[p] \notin Reading /\ pc'[p] \notin Reading
      BY <1>1 DEF Reading, OpenSteps
    <2>2. QED
      BY <1>1, <2>1, DeliveredKept, UbufKept DEF Reading
  <1>4. (OpenReaders \cup OpenWriters)' \in {OpenReaders \cup OpenWriters,
                                            (OpenReaders \cup OpenWriters) \cup {p}}
    <2>1. \A q \in Procs \ {p} :
             q \in (OpenReaders \cup OpenWriters)' <=> q \in OpenReaders \cup OpenWriters
      BY <1>1 DEF Moves, OpenReaders, OpenWriters
    <2>2. (OpenReaders \cup OpenWriters)' \subseteq Procs /\ OpenReaders \cup OpenWriters \subseteq Procs
      BY DEF OpenReaders, OpenWriters
    <2>3. QED
      BY <1>1, <2>1, <2>2
  <1>5. QED
    BY <1>2, <1>3, <1>4 DEF Fifo!Open, Fifo!vars

(* The buffer is freed only by the last user, and its bytes with it.       *)
LEMMA FifoRelease ==
    ASSUME FifoInv, NEW p \in Procs, scull_p_release(p)
    PROVE  UbufOK' /\ (Fifo!Close(p) \/ UNCHANGED Fifo!vars)
  <1> USE DEF FifoInv, LockInv, MemoryInv
  <1>1. /\ Moves(p) /\ UNCHANGED ubuf /\ \A q \in Procs \ {p} : f_flags'[q] = f_flags[q]
        /\ pc[p] \in CloseSteps \cup {"open", "c_down"}
        /\ pc'[p] \in CloseSteps \cup {"closed", "c_down"}
        /\ p \in (OpenReaders \cup OpenWriters)' => p \in OpenReaders \cup OpenWriters
    <2> USE DEF Moves, TypeOK, Goto, Return, CloseSteps, OpenReaders, OpenWriters, NotYetRead,
                NotYetWrite, NoMoreRead, NoMoreWrite, files
    <2>1. CASE ReleaseCall(p) \/ scull_p_release_interrupted(p) \/ Down(p, "c_down", "c_nr")
      BY <2>1 DEF ReleaseCall, scull_p_release_interrupted, DownInterrupted, Down
    <2>2. CASE scull_p_release_nreaders(p)
      BY <2>2 DEF scull_p_release_nreaders, Load, StoreReaders
    <2>3. CASE scull_p_release_nwriters(p)
      BY <2>3 DEF scull_p_release_nwriters, Load, StoreWriters
    <2>4. CASE scull_p_release_sum(p) \/ scull_p_release_last(p)
      BY <2>4 DEF scull_p_release_sum, scull_p_release_last, Load
    <2>5. CASE scull_p_release_free(p) \/ scull_p_release_up(p)
      BY <2>5 DEF scull_p_release_free, scull_p_release_up
    <2>6. QED
      BY <2>1, <2>2, <2>3, <2>4, <2>5 DEF scull_p_release
  <1>2. UbufOK' /\ Delivered' = Delivered
    <2>1. pc[p] \notin Reading /\ pc'[p] \notin Reading
      BY <1>1 DEF Reading, CloseSteps
    <2>2. QED
      BY <1>1, <2>1, DeliveredKept, UbufKept DEF Reading
  <1>3. (OpenReaders \cup OpenWriters)' \in {OpenReaders \cup OpenWriters,
                                            (OpenReaders \cup OpenWriters) \ {p}}
    <2>1. \A q \in Procs \ {p} :
             q \in (OpenReaders \cup OpenWriters)' <=> q \in OpenReaders \cup OpenWriters
      BY <1>1 DEF Moves, OpenReaders, OpenWriters
    <2>2. (OpenReaders \cup OpenWriters)' \subseteq Procs /\ OpenReaders \cup OpenWriters \subseteq Procs
      BY DEF OpenReaders, OpenWriters
    <2>3. QED
      BY <1>1, <2>1, <2>2
  <1>4. CASE ~scull_p_release_free(p)
    <2>1. UNCHANGED ring /\ pc[p] /= "o_setup" /\ pc'[p] /= "o_setup"
      BY <1>1, <1>4 DEF scull_p_release, ReleaseCall, scull_p_release_interrupted, Down,
                  scull_p_release_nreaders, scull_p_release_nwriters, scull_p_release_sum,
                  scull_p_release_last, scull_p_release_up, Load, StoreReaders, StoreWriters,
                  CloseSteps
    <2>2. Contents' = Contents
      BY <1>1, <2>1, ContentsKept
    <2>3. QED
      BY <1>2, <1>3, <2>2 DEF Fifo!Close, Fifo!vars
  <1>5. CASE scull_p_release_free(p)
    <2>1. pc[p] = "c_free" /\ buffer' = NULL
      BY <1>5 DEF scull_p_release_free
    <2>2. nreaders + nwriters = 0
      BY <2>1 DEF HeldAll, Held, HeldFiles
    <2>3. OpenReaders \cup OpenWriters = {}
      BY <2>2, InUseCounted
    <2>4. (OpenReaders \cup OpenWriters)' = {} /\ Contents' = << >>
      BY <1>3, <2>1, <2>3 DEF Contents
    <2>5. QED
      BY <1>2, <2>3, <2>4 DEF Fifo!Close
  <1>6. QED
    BY <1>4, <1>5

LEMMA FifoOthers ==
    ASSUME FifoInv, NEW p \in Procs, scull_p_fasync(p) \/ Signal(p)
    PROVE  UbufOK' /\ UNCHANGED Fifo!vars
  <1>1. UNCHANGED <<buffer, rp, wp, ubuf, pc>>
    BY DEF scull_p_fasync, Signal, ring
  <1>2. UbufOK' /\ Contents' = Contents /\ Delivered' = Delivered
    BY <1>1 DEF FifoInv, UbufOK, Contents, Delivered
  <1>3. \A q \in Procs : /\ FMODE_READ(f_flags'[q]) <=> FMODE_READ(f_flags[q])
                         /\ FMODE_WRITE(f_flags'[q]) <=> FMODE_WRITE(f_flags[q])
    BY ModesStay DEF FifoInv
  <1>4. OpenReaders' = OpenReaders /\ OpenWriters' = OpenWriters
    BY <1>1, <1>3 DEF OpenReaders, OpenWriters
  <1>5. QED
    BY <1>2, <1>4 DEF Fifo!vars

LEMMA FifoStep ==
    ASSUME FifoInv, Pollers = {}, [Next]_vars
    PROVE  UbufOK' /\ [Fifo!Next]_(Fifo!vars)
  <1>1. \A p \in Procs : ~scull_p_poll(p)
    BY NoPollStep DEF FifoInv, LockInv, Exclusive
  <1>2. ASSUME NEW p \in Procs, scull_p_open(p) \/ scull_p_release(p)
        PROVE  UbufOK' /\ (Fifo!Next \/ UNCHANGED Fifo!vars)
    BY <1>2, FifoOpen, FifoRelease DEF Fifo!Next
  <1>3. CASE UNCHANGED vars
    <2>1. UNCHANGED <<buffer, rp, wp, ubuf, pc, f_flags>>
      BY <1>3 DEF vars, ring, files
    <2>2. QED
      BY <2>1 DEF FifoInv, UbufOK, Contents, Delivered, OpenReaders, OpenWriters, Fifo!vars
  <1>4. QED
    BY <1>1, <1>2, <1>3, FifoRead, FifoWrite, FifoOthers DEF Next

(* Where no process polls, the device is a bounded first-in first-out      *)
(* stream: for every buffer size, every number of readers and writers and  *)
(* every mix of requests, faults and interrupted calls, no byte is lost,   *)
(* doubled, reordered or overwritten between scull_p_write and             *)
(* scull_p_read, and none is dropped but by the last close.                *)
THEOREM IsBoundedFifo == Pollers = {} => (Spec => ImplementsFifo)
  <1> SUFFICES ASSUME Pollers = {}
               PROVE  Spec => ImplementsFifo
    OBVIOUS
  <1>1. Init => UbufOK /\ Fifo!Init
    <2> SUFFICES ASSUME Init
                 PROVE  UbufOK /\ Fifo!Init
      OBVIOUS
    <2>1. UbufOK
      BY DEF Init, UbufOK
    <2>2. OpenReaders \cup OpenWriters = {}
      BY DEF Init, OpenReaders, OpenWriters, NotYetRead, NotYetWrite
    <2>3. Contents = << >> /\ Delivered = [p \in Procs |-> << >>]
      BY DEF Init, Contents, Delivered
    <2>4. QED
      BY <2>1, <2>2, <2>3 DEF Fifo!Init
  <1>2. FifoInv <=> LockInv /\ UbufOK
    BY DEF FifoInv
  <1>3. FifoInv /\ [Next]_vars => UbufOK' /\ [Fifo!Next]_(Fifo!vars)
    BY FifoStep
  <1>4. QED
    BY <1>1, <1>2, <1>3, LockAlways, PTL DEF Spec, ImplementsFifo, Fifo!Spec

=============================================================================
