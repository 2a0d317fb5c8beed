----------------------------- MODULE ScullPipe -----------------------------
(***************************************************************************)
(* The scull pipe device, scull/pipe.c: a circular buffer that processes   *)
(* read and write through open files, guarded by a semaphore, with one     *)
(* wait queue for readers (inq) and one for writers (outq).                *)
(*                                                                         *)
(* A process has at most one file of the device.  A system call is the     *)
(* sequence of steps its handler takes between the points where another    *)
(* process can see or change the device: each down, each up, each change   *)
(* of a wait queue and, since scull_p_poll can let two processes in at     *)
(* once, each access between down and up: a test, a copy, a load and the   *)
(* store that depends on it are steps of their own.  pc says which step    *)
(* comes next; it is "closed" or "open" between system calls.              *)
(***************************************************************************)
EXTENDS Integers, Sequences, FiniteSets

CONSTANTS
    Procs,        \* the processes
    Pollers,      \* those that also call poll(2) or select(2)
    Signallable,  \* those that may get a signal while in a system call
    buffersize,   \* scull_p_buffer, the size of the circular buffer
    Byte,         \* the values of a byte
    Junk,         \* what memory fresh from kmalloc holds
    NULL,         \* the null pointer
    OpenFlags,    \* OpenFlags[p]: the open flags process p may use
    SetflFlags,   \* the flags processes change with fcntl(F_SETFL)
    MaxRequest,   \* bound: the largest count of a read or a write
    MaxCounted,   \* bound: no release is interrupted above this many users
    MaxDrift,     \* bound: no file is opened with a count further from zero
    MaxOffset     \* bound: nothing is copied from or to a higher offset

FlagBits == {"O_WRONLY", "O_RDWR", "O_NONBLOCK", "FASYNC", "O_LARGEFILE"}
Offset   == 0 .. buffersize - 1
Memory   == [Offset -> Byte \cup {Junk}]

ASSUME PipeAssumption ==
    /\ IsFiniteSet(Procs)
    /\ Pollers \subseteq Procs
    /\ Signallable \subseteq Procs
    /\ buffersize \in Nat /\ buffersize >= 2
    /\ Junk \notin Byte
    /\ NULL \notin Memory
    /\ OpenFlags \in [Procs -> SUBSET SUBSET FlagBits]
    /\ SetflFlags \subseteq {"O_NONBLOCK", "FASYNC"}
    /\ MaxRequest \in Nat
    /\ MaxCounted \in Nat
    /\ MaxDrift \in Nat
    /\ MaxOffset \in Nat /\ MaxOffset >= buffersize

VARIABLES
    buffer,       \* the buffer's bytes, or NULL before the first open
    rp, wp,       \* where to read and where to write, as offsets into buffer
    nreaders,     \* number of openings for reading
    nwriters,     \* number of openings for writing
    sem,          \* the count of the semaphore
    inq, outq,    \* the processes queued on each wait queue and not yet woken
    async_queue,  \* the processes whose file asked for SIGIO
    f_flags,      \* the flags of each process's file
    sig,          \* the processes with a signal pending
    ubuf,         \* the bytes the read in progress has put into user memory
    local,        \* what the handler has loaded or computed and not yet stored
    pc            \* the next step of each process

ring   == <<buffer, rp, wp>>
counts == <<nreaders, nwriters>>
queues == <<inq, outq>>
files  == <<async_queue, f_flags>>
vars   == <<ring, counts, sem, queues, files, sig, ubuf, local, pc>>

-----------------------------------------------------------------------------
(* The steps of the handlers.  In those of CriticalSteps a process has     *)
(* passed down_interruptible and not reached up.                           *)

OpenSteps     == {"o_test", "o_alloc", "o_setup", "o_nr", "o_nr_put",
                  "o_nw", "o_nw_put", "o_up"}
CloseSteps    == {"c_nr", "c_nr_put", "c_nw", "c_nw_put", "c_sum", "c_last",
                  "c_free", "c_up"}
CriticalSteps == OpenSteps \cup CloseSteps
                     \cup {"r_check", "r_copy", "r_move", "r_put", "w_space",
                           "w_copy", "w_move", "w_put", "w_wrap", "w_zero"}
ReadSteps     == {"r_down", "r_check", "r_copy", "r_move", "r_put", "r_wake",
                  "r_prep", "r_cond", "r_sleep"}
WriteSteps    == {"w_down", "w_space", "w_copy", "w_move", "w_put", "w_wrap",
                  "w_zero", "w_wake", "w_prep", "w_cond", "w_sleep", "w_fin"}
PollSteps     == {"p_down", "p_mask"}
Steps         == {"closed", "o_down", "open", "c_down"} \cup OpenSteps
                     \cup CloseSteps \cup ReadSteps \cup WriteSteps \cup PollSteps

InSyscall(p) == pc[p] \notin {"closed", "open"}
InCritical(p) == pc[p] \in CriticalSteps

(* OPEN_FMODE: the access mode 0 reads, 1 writes, 2 does both and 3 none.  *)
FMODE_READ(flags)  == "O_WRONLY" \notin flags
FMODE_WRITE(flags) == ("O_WRONLY" \in flags) /= ("O_RDWR" \in flags)

(* The files that scull_p_open has counted in nreaders or in nwriters, and *)
(* scull_p_release has not yet uncounted.                                  *)
NotYetRead  == {"closed", "o_down", "o_test", "o_alloc", "o_setup", "o_nr", "o_nr_put"}
NotYetWrite == NotYetRead \cup {"o_nw", "o_nw_put"}
NoMoreWrite == {"c_sum", "c_last", "c_free", "c_up"}
NoMoreRead  == NoMoreWrite \cup {"c_nw", "c_nw_put"}

OpenReaders == {p \in Procs : /\ pc[p] \notin NotYetRead \cup NoMoreRead
                              /\ FMODE_READ(f_flags[p])}
OpenWriters == {p \in Procs : /\ pc[p] \notin NotYetWrite \cup NoMoreWrite
                              /\ FMODE_WRITE(f_flags[p])}

Goto(p, step) == pc' = [pc EXCEPT ![p] = step]

(* Going back to user mode delivers the signals that are pending.          *)
Return(p, step) ==
    /\ Goto(p, step)
    /\ sig' = sig \ {p}

(* down_interruptible: it takes the semaphore whenever it is free, signal  *)
(* or not; a signal ends only the wait for a semaphore that is taken.      *)
Down(p, from, to) ==
    /\ pc[p] = from
    /\ sem > 0
    /\ sem' = sem - 1
    /\ Goto(p, to)
    /\ UNCHANGED <<ring, counts, queues, files, sig, ubuf, local>>

DownInterrupted(p, from) ==
    /\ pc[p] = from
    /\ sem = 0
    /\ p \in sig

Up == sem' = sem + 1

Keep(p, value) == local' = [local EXCEPT ![p] = value]

(* count++ and count--: a load, skipped when the file is not of that kind, *)
(* and a store.                                                            *)
Load(p, from, wanted, count, to, skip) ==
    /\ pc[p] = from
    /\ IF wanted
       THEN Keep(p, count) /\ Goto(p, to)
       ELSE Goto(p, skip) /\ UNCHANGED local
    /\ UNCHANGED <<ring, counts, sem, queues, files, sig, ubuf>>

StoreReaders(p, from, change, to) ==
    /\ pc[p] = from
    /\ nreaders' = local[p] + change
    /\ Keep(p, 0)
    /\ Goto(p, to)
    /\ UNCHANGED <<ring, nwriters, sem, queues, files, sig, ubuf>>

StoreWriters(p, from, change, to) ==
    /\ pc[p] = from
    /\ nwriters' = local[p] + change
    /\ Keep(p, 0)
    /\ Goto(p, to)
    /\ UNCHANGED <<ring, nreaders, sem, queues, files, sig, ubuf>>

-----------------------------------------------------------------------------
(* C's % goes towards zero; it is negative when the pointers have run past *)
(* each other.                                                             *)
Rem(x, n) == IF x >= 0 THEN x % n ELSE -((-x) % n)

(* Mutant: no byte is kept free to tell a full buffer from an empty one.   *)
spacefree_full ==
    IF wp = rp THEN buffersize ELSE Rem(rp + buffersize - wp, buffersize)

spacefree ==
    IF wp = rp
    THEN buffersize - 1
    ELSE Rem(rp + buffersize - wp, buffersize) - 1

(* count = (count > limit) ? limit : count, where count is a size_t: a     *)
(* negative limit is converted to one above every count.                   *)
Clamp(count, limit) == IF limit >= 0 /\ count > limit THEN limit ELSE count

ReadCount(request) ==
    Clamp(request, IF rp < wp THEN wp - rp ELSE buffersize - rp)

WriteCount(request) ==
    Clamp(Clamp(request, IF rp > wp THEN rp - wp ELSE buffersize - wp),
          spacefree)

-----------------------------------------------------------------------------
(* scull_p_open *)

OpenCall(p) ==
    /\ pc[p] = "closed"
    /\ {nreaders, nwriters} \subseteq -MaxDrift .. MaxDrift
    /\ \E flags \in OpenFlags[p] : f_flags' = [f_flags EXCEPT ![p] = flags]
    /\ Goto(p, "o_down")
    /\ UNCHANGED <<ring, counts, sem, queues, async_queue, sig, ubuf, local>>

scull_p_open_interrupted(p) ==
    /\ DownInterrupted(p, "o_down")
    /\ f_flags' = [f_flags EXCEPT ![p] = {}]
    /\ Return(p, "closed")
    /\ UNCHANGED <<ring, counts, sem, queues, async_queue, ubuf, local>>

scull_p_open_test(p) ==
    /\ pc[p] = "o_test"
    /\ Goto(p, IF buffer = NULL THEN "o_alloc" ELSE "o_nr")
    /\ UNCHANGED <<ring, counts, sem, queues, files, sig, ubuf, local>>

(* What kmalloc returns goes to dev->buffer before it is looked at.        *)
scull_p_open_ENOMEM(p) ==
    /\ pc[p] = "o_alloc"
    /\ buffer' = NULL
    /\ Up
    /\ f_flags' = [f_flags EXCEPT ![p] = {}]
    /\ Return(p, "closed")
    /\ UNCHANGED <<rp, wp, counts, queues, async_queue, ubuf, local>>

scull_p_open_alloc(p) ==
    /\ pc[p] = "o_alloc"
    /\ buffer' = [i \in Offset |-> Junk]
    /\ Goto(p, "o_setup")
    /\ UNCHANGED <<rp, wp, counts, sem, queues, files, sig, ubuf, local>>

scull_p_open_setup(p) ==
    /\ pc[p] = "o_setup"
    /\ rp' = 0
    /\ wp' = 0
    /\ Goto(p, "o_nr")
    /\ UNCHANGED <<buffer, counts, sem, queues, files, sig, ubuf, local>>

scull_p_open_nreaders(p) ==
    \/ Load(p, "o_nr", FMODE_READ(f_flags[p]), nreaders, "o_nr_put", "o_nw")
    \/ StoreReaders(p, "o_nr_put", 1, "o_nw")

(* Mutant: a file for reading and writing is counted as a reader only.     *)
scull_p_open_nwriters_else(p) ==
    \/ Load(p, "o_nw", ~FMODE_READ(f_flags[p]), nwriters, "o_nw_put", "o_up")
    \/ StoreWriters(p, "o_nw_put", 1, "o_up")

scull_p_open_nwriters(p) ==
    \/ Load(p, "o_nw", FMODE_WRITE(f_flags[p]), nwriters, "o_nw_put", "o_up")
    \/ StoreWriters(p, "o_nw_put", 1, "o_up")

scull_p_open_up(p) ==
    /\ pc[p] = "o_up"
    /\ Up
    /\ Return(p, "open")
    /\ UNCHANGED <<ring, counts, queues, files, ubuf, local>>

scull_p_open(p) ==
    \/ OpenCall(p)
    \/ Down(p, "o_down", "o_test")
    \/ scull_p_open_interrupted(p)
    \/ scull_p_open_test(p)
    \/ scull_p_open_ENOMEM(p)
    \/ scull_p_open_alloc(p)
    \/ scull_p_open_setup(p)
    \/ scull_p_open_nreaders(p)
    \/ scull_p_open_nwriters(p)
    \/ scull_p_open_up(p)

-----------------------------------------------------------------------------
(* scull_p_release: close(2) has begun to free the file, so the process is *)
(* without it at the end, whether or not the handler was interrupted.      *)

ReleaseCall(p) ==
    /\ pc[p] = "open"
    /\ async_queue' = async_queue \ {p}
    /\ Goto(p, "c_down")
    /\ UNCHANGED <<ring, counts, sem, queues, f_flags, sig, ubuf, local>>

scull_p_release_interrupted(p) ==
    /\ DownInterrupted(p, "c_down")
    /\ nreaders + nwriters <= MaxCounted
    /\ f_flags' = [f_flags EXCEPT ![p] = {}]
    /\ Return(p, "closed")
    /\ UNCHANGED <<ring, counts, sem, queues, async_queue, ubuf, local>>

(* Mutant: a reader is not taken off the count.                            *)
scull_p_release_nreaders_keeps(p) ==
    Load(p, "c_nr", FALSE, nreaders, "c_nr_put", "c_nw")

scull_p_release_nreaders(p) ==
    \/ Load(p, "c_nr", FMODE_READ(f_flags[p]), nreaders, "c_nr_put", "c_nw")
    \/ StoreReaders(p, "c_nr_put", -1, "c_nw")

scull_p_release_nwriters(p) ==
    \/ Load(p, "c_nw", FMODE_WRITE(f_flags[p]), nwriters, "c_nw_put", "c_sum")
    \/ StoreWriters(p, "c_nw_put", -1, "c_sum")

(* The sum of the counts, loaded one after the other.                      *)
scull_p_release_sum(p) == Load(p, "c_sum", TRUE, nreaders, "c_last", "c_last")

(* Mutant: the last writer frees the buffer, readers or not.               *)
scull_p_release_last_writers(p) ==
    /\ pc[p] = "c_last"
    /\ Goto(p, IF nwriters = 0 THEN "c_free" ELSE "c_up")
    /\ Keep(p, 0)
    /\ UNCHANGED <<ring, counts, sem, queues, files, sig, ubuf>>

scull_p_release_last(p) ==
    /\ pc[p] = "c_last"
    /\ Goto(p, IF local[p] + nwriters = 0 THEN "c_free" ELSE "c_up")
    /\ Keep(p, 0)
    /\ UNCHANGED <<ring, counts, sem, queues, files, sig, ubuf>>

(* kfree and the store of NULL: one step, as memory that has been freed is *)
(* read like memory that is not there.                                     *)
scull_p_release_free(p) ==
    /\ pc[p] = "c_free"
    /\ buffer' = NULL
    /\ Goto(p, "c_up")
    /\ UNCHANGED <<rp, wp, counts, sem, queues, files, sig, ubuf, local>>

scull_p_release_up(p) ==
    /\ pc[p] = "c_up"
    /\ Up
    /\ f_flags' = [f_flags EXCEPT ![p] = {}]
    /\ Return(p, "closed")
    /\ UNCHANGED <<ring, counts, queues, async_queue, ubuf, local>>

scull_p_release(p) ==
    \/ ReleaseCall(p)
    \/ Down(p, "c_down", "c_nr")
    \/ scull_p_release_interrupted(p)
    \/ scull_p_release_nreaders(p)
    \/ scull_p_release_nwriters(p)
    \/ scull_p_release_sum(p)
    \/ scull_p_release_last(p)
    \/ scull_p_release_free(p)
    \/ scull_p_release_up(p)

-----------------------------------------------------------------------------
(* scull_p_read.  The handler asks for f_flags to be O_NONBLOCK and        *)
(* nothing else before it gives up on an empty buffer.                     *)

ReadCall(p) ==
    /\ pc[p] = "open"
    /\ FMODE_READ(f_flags[p])
    /\ Goto(p, "r_down")
    /\ UNCHANGED <<ring, counts, sem, queues, files, sig, ubuf, local>>

(* Mutant: up although the down failed.                                    *)
scull_p_read_interrupted_up(p) ==
    /\ DownInterrupted(p, "r_down")
    /\ Up
    /\ Return(p, "open")
    /\ UNCHANGED <<ring, counts, queues, files, ubuf, local>>

scull_p_read_interrupted(p) ==
    /\ DownInterrupted(p, "r_down")
    /\ Return(p, "open")
    /\ UNCHANGED <<ring, counts, sem, queues, files, ubuf, local>>

scull_p_read_check(p) ==
    /\ pc[p] = "r_check"
    /\ IF rp /= wp
       THEN /\ Goto(p, "r_copy")
            /\ UNCHANGED <<sem, sig>>
       ELSE /\ Up
            /\ IF f_flags[p] = {"O_NONBLOCK"}
               THEN Return(p, "open")
               ELSE Goto(p, "r_prep") /\ UNCHANGED sig
    /\ UNCHANGED <<ring, counts, queues, files, ubuf, local>>

(* Mutant: queue and sleep without another look at the buffer.             *)
scull_p_read_prepare_blind(p) ==
    /\ pc[p] = "r_prep"
    /\ inq' = inq \cup {p}
    /\ Goto(p, "r_sleep")
    /\ UNCHANGED <<ring, counts, sem, outq, files, sig, ubuf, local>>

(* wait_event_interruptible(inq, rp != wp): queue first, look afterwards.  *)
scull_p_read_prepare(p) ==
    /\ pc[p] = "r_prep"
    /\ inq' = inq \cup {p}
    /\ Goto(p, "r_cond")
    /\ UNCHANGED <<ring, counts, sem, outq, files, sig, ubuf, local>>

scull_p_read_cond(p) ==
    /\ pc[p] = "r_cond"
    /\ \/ /\ rp /= wp
          /\ inq' = inq \ {p}
          /\ Goto(p, "r_down")
          /\ UNCHANGED sig
       \/ /\ rp = wp
          /\ p \in sig
          /\ inq' = inq \ {p}
          /\ Return(p, "open")
       \/ /\ rp = wp
          /\ p \notin sig
          /\ Goto(p, "r_sleep")
          /\ UNCHANGED <<inq, sig>>
    /\ UNCHANGED <<ring, counts, sem, outq, files, ubuf, local>>

scull_p_read_wakeup(p) ==
    /\ pc[p] = "r_sleep"
    /\ p \notin inq \/ p \in sig
    /\ Goto(p, "r_prep")
    /\ UNCHANGED <<ring, counts, sem, queues, files, sig, ubuf, local>>

scull_p_read_EFAULT(p) ==
    /\ pc[p] = "r_copy"
    /\ Up
    /\ Return(p, "open")
    /\ UNCHANGED <<ring, counts, queues, files, ubuf, local>>

(* copy_to_user: past the end of the buffer, and where there is none, lie  *)
(* bytes of somebody else.                                                 *)
scull_p_read_copy(p, request) ==
    /\ pc[p] = "r_copy"
    /\ rp <= MaxOffset
    /\ ubuf' = [ubuf EXCEPT ![p] =
                  [i \in 1 .. ReadCount(request) |->
                     IF buffer /= NULL /\ rp + i - 1 \in Offset
                     THEN buffer[rp + i - 1] ELSE Junk]]
    /\ Goto(p, "r_move")
    /\ UNCHANGED <<ring, counts, sem, queues, files, sig, local>>

(* Mutant: rp is not wrapped at the end of the buffer.                     *)
scull_p_read_move_nowrap(p) ==
    /\ pc[p] = "r_move"
    /\ Keep(p, rp + Len(ubuf[p]))
    /\ Goto(p, "r_put")
    /\ UNCHANGED <<ring, counts, sem, queues, files, sig, ubuf>>

scull_p_read_move(p) ==
    LET count == Len(ubuf[p]) IN
    /\ pc[p] = "r_move"
    /\ Keep(p, IF rp + count = buffersize THEN 0 ELSE rp + count)
    /\ Goto(p, "r_put")
    /\ UNCHANGED <<ring, counts, sem, queues, files, sig, ubuf>>

scull_p_read_put(p) ==
    /\ pc[p] = "r_put"
    /\ rp' = local[p]
    /\ Keep(p, 0)
    /\ Up
    /\ Goto(p, "r_wake")
    /\ UNCHANGED <<buffer, wp, counts, queues, files, sig, ubuf>>

(* Mutant: the wrong queue is woken.                                       *)
scull_p_read_wake_inq(p) ==
    /\ pc[p] = "r_wake"
    /\ inq' = {}
    /\ ubuf' = [ubuf EXCEPT ![p] = << >>]
    /\ Return(p, "open")
    /\ UNCHANGED <<ring, counts, sem, outq, files, local>>

scull_p_read_wake(p) ==
    /\ pc[p] = "r_wake"
    /\ outq' = {}
    /\ ubuf' = [ubuf EXCEPT ![p] = << >>]
    /\ Return(p, "open")
    /\ UNCHANGED <<ring, counts, sem, inq, files, local>>

scull_p_read(p) ==
    \/ ReadCall(p)
    \/ Down(p, "r_down", "r_check")
    \/ scull_p_read_interrupted(p)
    \/ scull_p_read_check(p)
    \/ scull_p_read_prepare(p)
    \/ scull_p_read_cond(p)
    \/ scull_p_read_wakeup(p)
    \/ scull_p_read_EFAULT(p)
    \/ \E request \in 0 .. MaxRequest : scull_p_read_copy(p, request)
    \/ scull_p_read_move(p)
    \/ scull_p_read_put(p)
    \/ scull_p_read_wake(p)

-----------------------------------------------------------------------------
(* scull_p_write, and scull_getwritespace that it waits in.                *)

WriteCall(p) ==
    /\ pc[p] = "open"
    /\ FMODE_WRITE(f_flags[p])
    /\ Goto(p, "w_down")
    /\ UNCHANGED <<ring, counts, sem, queues, files, sig, ubuf, local>>

scull_p_write_interrupted(p) ==
    /\ DownInterrupted(p, "w_down")
    /\ Return(p, "open")
    /\ UNCHANGED <<ring, counts, sem, queues, files, ubuf, local>>

scull_getwritespace(p) ==
    /\ pc[p] = "w_space"
    /\ IF spacefree /= 0
       THEN /\ Goto(p, "w_copy")
            /\ UNCHANGED <<sem, sig>>
       ELSE /\ Up
            /\ IF "O_NONBLOCK" \in f_flags[p]
               THEN Return(p, "open")
               ELSE Goto(p, "w_prep") /\ UNCHANGED sig
    /\ UNCHANGED <<ring, counts, queues, files, ubuf, local>>

scull_getwritespace_prepare(p) ==
    /\ pc[p] = "w_prep"
    /\ outq' = outq \cup {p}
    /\ Goto(p, "w_cond")
    /\ UNCHANGED <<ring, counts, sem, inq, files, sig, ubuf, local>>

(* Mutant: schedule without another look at the buffer.                    *)
scull_getwritespace_cond_blind(p) ==
    /\ pc[p] = "w_cond"
    /\ Goto(p, "w_sleep")
    /\ UNCHANGED <<ring, counts, sem, queues, files, sig, ubuf, local>>

scull_getwritespace_cond(p) ==
    /\ pc[p] = "w_cond"
    /\ Goto(p, IF spacefree = 0 THEN "w_sleep" ELSE "w_fin")
    /\ UNCHANGED <<ring, counts, sem, queues, files, sig, ubuf, local>>

scull_getwritespace_wakeup(p) ==
    /\ pc[p] = "w_sleep"
    /\ p \notin outq \/ p \in sig
    /\ Goto(p, "w_fin")
    /\ UNCHANGED <<ring, counts, sem, queues, files, sig, ubuf, local>>

scull_getwritespace_finish(p) ==
    /\ pc[p] = "w_fin"
    /\ outq' = outq \ {p}
    /\ IF p \in sig
       THEN Return(p, "open")
       ELSE Goto(p, "w_down") /\ UNCHANGED sig
    /\ UNCHANGED <<ring, counts, sem, inq, files, ubuf, local>>

(* copy_from_user, to where wp points.  One that faults has copied what    *)
(* comes before the fault and cleared the rest: bytes of its own in either *)
(* case.  Past the end of the buffer it changes memory of somebody else.   *)
CopyIn(count) ==
    IF buffer = NULL
    THEN UNCHANGED buffer
    ELSE \E bytes \in [1 .. count -> Byte] :
            buffer' = [i \in Offset |-> IF i \in wp .. wp + count - 1
                                        THEN bytes[i - wp + 1] ELSE buffer[i]]

(* Mutant: the error path keeps the semaphore.                             *)
scull_p_write_EFAULT_noup(p, request) ==
    /\ pc[p] = "w_copy"
    /\ WriteCount(request) > 0
    /\ CopyIn(WriteCount(request))
    /\ Return(p, "open")
    /\ UNCHANGED <<rp, wp, counts, sem, queues, files, ubuf, local>>

scull_p_write_EFAULT(p, request) ==
    /\ pc[p] = "w_copy"
    /\ wp <= MaxOffset
    /\ WriteCount(request) > 0
    /\ CopyIn(WriteCount(request))
    /\ Up
    /\ Return(p, "open")
    /\ UNCHANGED <<rp, wp, counts, queues, files, ubuf, local>>

scull_p_write_copy(p, request) ==
    /\ pc[p] = "w_copy"
    /\ wp <= MaxOffset
    /\ CopyIn(WriteCount(request))
    /\ Keep(p, WriteCount(request))
    /\ Goto(p, "w_move")
    /\ UNCHANGED <<rp, wp, counts, sem, queues, files, sig, ubuf>>

(* wp is moved first and wrapped afterwards: in between it equals end.     *)
scull_p_write_move(p) ==
    /\ pc[p] = "w_move"
    /\ Keep(p, wp + local[p])
    /\ Goto(p, "w_put")
    /\ UNCHANGED <<ring, counts, sem, queues, files, sig, ubuf>>

scull_p_write_put(p) ==
    /\ pc[p] = "w_put"
    /\ wp' = local[p]
    /\ Keep(p, 0)
    /\ Goto(p, "w_wrap")
    /\ UNCHANGED <<buffer, rp, counts, sem, queues, files, sig, ubuf>>

scull_p_write_wrap(p) ==
    /\ pc[p] = "w_wrap"
    /\ IF wp = buffersize
       THEN Goto(p, "w_zero") /\ UNCHANGED sem
       ELSE Up /\ Goto(p, "w_wake")
    /\ UNCHANGED <<ring, counts, queues, files, sig, ubuf, local>>

scull_p_write_zero(p) ==
    /\ pc[p] = "w_zero"
    /\ wp' = 0
    /\ Up
    /\ Goto(p, "w_wake")
    /\ UNCHANGED <<buffer, rp, counts, queues, files, sig, ubuf, local>>

(* Mutant: the wrong queue is woken.                                       *)
scull_p_write_wake_outq(p) ==
    /\ pc[p] = "w_wake"
    /\ outq' = {}
    /\ sig' = (sig \cup {q \in async_queue : InSyscall(q)}) \ {p}
    /\ Goto(p, "open")
    /\ UNCHANGED <<ring, counts, sem, inq, files, ubuf, local>>

(* wake_up_interruptible(inq), then SIGIO to the owners of async_queue.    *)
scull_p_write_wake(p) ==
    /\ pc[p] = "w_wake"
    /\ inq' = {}
    /\ sig' = (sig \cup {q \in async_queue : InSyscall(q)}) \ {p}
    /\ Goto(p, "open")
    /\ UNCHANGED <<ring, counts, sem, outq, files, ubuf, local>>

scull_p_write(p) ==
    \/ WriteCall(p)
    \/ Down(p, "w_down", "w_space")
    \/ scull_p_write_interrupted(p)
    \/ scull_getwritespace(p)
    \/ scull_getwritespace_prepare(p)
    \/ scull_getwritespace_cond(p)
    \/ scull_getwritespace_wakeup(p)
    \/ scull_getwritespace_finish(p)
    \/ \E request \in 0 .. MaxRequest : \/ scull_p_write_EFAULT(p, request)
                                       \/ scull_p_write_copy(p, request)
    \/ scull_p_write_move(p)
    \/ scull_p_write_put(p)
    \/ scull_p_write_wrap(p)
    \/ scull_p_write_zero(p)
    \/ scull_p_write_wake(p)

-----------------------------------------------------------------------------
(* scull_p_poll.  It leaves as soon as down_interruptible succeeds, with   *)
(* the semaphore taken, and carries on, to end in an up, when the wait for *)
(* the semaphore was interrupted.  The mask it computes changes no state,  *)
(* and the queue entries poll_wait adds go away with the system call.      *)

PollCall(p) ==
    /\ p \in Pollers
    /\ pc[p] = "open"
    /\ Goto(p, "p_down")
    /\ UNCHANGED <<ring, counts, sem, queues, files, sig, ubuf, local>>

scull_p_poll_down(p) ==
    /\ pc[p] = "p_down"
    /\ sem > 0
    /\ sem' = sem - 1
    /\ Return(p, "open")
    /\ UNCHANGED <<ring, counts, queues, files, ubuf, local>>

scull_p_poll_interrupted(p) ==
    /\ DownInterrupted(p, "p_down")
    /\ Goto(p, "p_mask")
    /\ UNCHANGED <<ring, counts, sem, queues, files, sig, ubuf, local>>

scull_p_poll_mask(p) ==
    /\ pc[p] = "p_mask"
    /\ Up
    /\ Return(p, "open")
    /\ UNCHANGED <<ring, counts, queues, files, ubuf, local>>

scull_p_poll(p) ==
    \/ PollCall(p)
    \/ scull_p_poll_down(p)
    \/ scull_p_poll_interrupted(p)
    \/ scull_p_poll_mask(p)

-----------------------------------------------------------------------------
(* fcntl(F_SETFL) calls scull_p_fasync when it changes FASYNC: then the    *)
(* file joins or leaves async_queue.                                       *)
scull_p_fasync(p) ==
    /\ pc[p] = "open"
    /\ \E flag \in SetflFlags, on \in BOOLEAN :
          LET With(S, x) == IF on THEN S \cup {x} ELSE S \ {x} IN
          /\ f_flags' = [f_flags EXCEPT ![p] = With(@, flag)]
          /\ async_queue' = IF flag = "FASYNC" THEN With(async_queue, p)
                            ELSE async_queue
    /\ UNCHANGED <<ring, counts, sem, queues, sig, ubuf, local, pc>>

(* A signal for a process in a system call; outside of one it is handled   *)
(* at once and the device sees nothing of it.                              *)
Signal(p) ==
    /\ p \in Signallable \ sig
    /\ InSyscall(p)
    /\ sig' = sig \cup {p}
    /\ UNCHANGED <<ring, counts, sem, queues, files, ubuf, local, pc>>

Init ==
    /\ buffer = NULL
    /\ rp = 0
    /\ wp = 0
    /\ nreaders = 0
    /\ nwriters = 0
    /\ sem = 1
    /\ inq = {}
    /\ outq = {}
    /\ async_queue = {}
    /\ f_flags = [p \in Procs |-> {}]
    /\ sig = {}
    /\ ubuf = [p \in Procs |-> << >>]
    /\ local = [p \in Procs |-> 0]
    /\ pc = [p \in Procs |-> "closed"]

Next ==
    \E p \in Procs :
        \/ scull_p_open(p)
        \/ scull_p_release(p)
        \/ scull_p_read(p)
        \/ scull_p_write(p)
        \/ scull_p_poll(p)
        \/ scull_p_fasync(p)
        \/ Signal(p)

Spec == Init /\ [][Next]_vars

-----------------------------------------------------------------------------
(* Properties *)

(* Every variable keeps its type; in particular, where nobody polls, rp    *)
(* always points into the buffer and wp at most at its end.                *)
TypeOK ==
    /\ buffer \in Memory \cup {NULL}
    /\ rp \in Offset
    /\ wp \in 0 .. buffersize
    /\ nreaders \in Int
    /\ nwriters \in Int
    /\ sem \in Nat
    /\ inq \subseteq Procs
    /\ outq \subseteq Procs
    /\ async_queue \subseteq Procs
    /\ f_flags \in [Procs -> SUBSET FlagBits]
    /\ sig \subseteq Procs
    /\ ubuf \in [Procs -> Seq(Byte \cup {Junk})]
    /\ local \in [Procs -> Int]
    /\ pc \in [Procs -> Steps]

(* Every path through every handler, its early returns and its error paths *)
(* included, gives back exactly what it took of dev->sem: the semaphore is *)
(* down while some process is between a down and an up, never more than    *)
(* one process is, and it is up otherwise.                                 *)
SemaphoreExact ==
    /\ sem \in {0, 1}
    /\ sem = 0 <=> \E p \in Procs : InCritical(p)
    /\ \A p, q \in Procs : InCritical(p) /\ InCritical(q) => p = q

(* scull_p_release may free the buffer only when no other file can reach   *)
(* it: where nobody polls, a process with the device open for reading or   *)
(* writing, wherever it is in its system call, has a buffer under its      *)
(* pointers, although the test of dev->buffer, the counts, the sum and the *)
(* kfree are steps of their own.                                           *)
BufferLive == OpenReaders \cup OpenWriters /= {} => buffer /= NULL

(* Where nobody polls, the counts that decide when to free are never below *)
(* the number of files they stand for: no update is lost, and although an  *)
(* interrupted release leaves them above it.                               *)
CountsCover ==
    /\ nreaders >= Cardinality(OpenReaders)
    /\ nwriters >= Cardinality(OpenWriters)

(* Where nobody polls, the counts follow the files through every open and  *)
(* every close but an interrupted one; the close that brings them to zero  *)
(* has freed the buffer.                                                   *)
Surplus == <<nreaders - Cardinality(OpenReaders), nwriters - Cardinality(OpenWriters)>>

CountsFollowFiles ==
    [][/\ Surplus' = Surplus \/ \E p \in Procs : scull_p_release_interrupted(p)
       /\ (\A p \in Procs : pc'[p] = "closed") /\ nreaders' + nwriters' = 0 => buffer' = NULL]_vars

(* No wakeup of a reader is lost: one sleeps in scull_p_read, queued and   *)
(* not woken, beside a non-empty buffer only while some scull_p_write has  *)
(* yet to call wake_up.                                                    *)
NoLostReaderWakeup ==
    \A p \in Procs :
        pc[p] = "r_sleep" /\ p \in inq /\ rp /= wp =>
            \E q \in Procs : pc[q] \in {"w_wrap", "w_zero", "w_wake"}

(* No wakeup of a writer is lost: one sleeps in scull_getwritespace, queued*)
(* and not woken, beside a buffer with room only while some scull_p_read   *)
(* has yet to call wake_up.                                                *)
NoLostWriterWakeup ==
    \A p \in Procs :
        pc[p] = "w_sleep" /\ p \in outq /\ spacefree /= 0 =>
            \E q \in Procs : pc[q] = "r_wake"

(* A read hands out only bytes that some write has put into the buffer.    *)
OnlyWrittenBytes == \A p \in Procs : ubuf[p] \in Seq(Byte)

(* The bytes between rp and wp, oldest first: none before the pointers are *)
(* set up for a new buffer.                                                *)
Contents ==
    LET length == IF wp >= rp THEN wp - rp ELSE wp + buffersize - rp
    IN  IF buffer = NULL \/ \E p \in Procs : pc[p] = "o_setup" THEN << >>
        ELSE [k \in 1 .. length |-> buffer[(rp + k - 1) % buffersize]]

(* A read has taken its bytes once it has moved rp.                        *)
Delivered == [p \in Procs |-> IF pc[p] \in {"r_move", "r_put"} THEN << >> ELSE ubuf[p]]

Fifo == INSTANCE BoundedFifo
            WITH Capacity  <- buffersize - 1,
                 stream    <- Contents,
                 delivered <- Delivered,
                 users     <- OpenReaders \cup OpenWriters

(* The device is a bounded first-in first-out stream of bytes: every step  *)
(* of every handler is a step of BoundedFifo or leaves its state alone, so *)
(* no byte is lost, doubled, reordered or overwritten, wrapped or not.     *)
ImplementsFifo == Fifo!Spec

Wedged == sem = 0 /\ \A p \in Procs : ~InCritical(p)

(* Once scull_p_poll has walked off with the semaphore, nothing gets it    *)
(* back but another poll, cut short by a signal.                           *)
OnlyPollUnwedges ==
    [][Wedged /\ ~Wedged' => \E p \in Pollers : scull_p_poll_mask(p)]_vars

-----------------------------------------------------------------------------
(* Fairness: the scheduler runs every process that can run, and a          *)
(* semaphore serves those who wait for it in turn, so a process that keeps *)
(* finding it free is served.  No process has to make or to finish a call. *)
Fairness ==
    \A p \in Procs :
        /\ SF_vars(\/ Down(p, "o_down", "o_test")
                   \/ Down(p, "c_down", "c_nr")
                   \/ Down(p, "r_down", "r_check")
                   \/ Down(p, "w_down", "w_space"))
        /\ WF_vars(/\ InSyscall(p)
                   /\ \/ scull_p_open(p)
                      \/ scull_p_release(p)
                      \/ scull_p_read(p)
                      \/ scull_p_write(p))

FairSpec == Spec /\ Fairness

(* A read under way with bytes in the buffer returns, unless the buffer is *)
(* emptied by another reader.                                              *)
ReadReturns ==
    \A p \in Procs :
        pc[p] \in ReadSteps /\ rp /= wp ~> pc[p] = "open" \/ rp = wp

(* A write under way with room in the buffer returns, unless another       *)
(* writer fills it.                                                        *)
WriteReturns ==
    \A p \in Procs :
        pc[p] \in WriteSteps /\ spacefree /= 0 ~> pc[p] = "open" \/ spacefree = 0

=============================================================================
