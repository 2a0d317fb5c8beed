# A verification of mydrivers in TLA+

`mydrivers` is a set of Linux character drivers. The largest is `scull`: memory
devices, pipe devices and four devices with access control. This directory
models the drivers' handlers in TLA+, checks the models with TLC on small
instances, and proves every safety property the runs check with TLAPS, for every
instance. Every definition follows the C code; `PROJECT.json` has the lines.

## The system

| Part | State | Operations | What is hard |
|---|---|---|---|
| pipe device, `scull/pipe.c` | circular buffer with `rp`, `wp`; reader and writer counts; semaphore; two wait queues; SIGIO list | open, release, read, write, poll, fasync | waits outside the semaphore, unlocked loads of `rp` and `wp`, signals at every wait, life of the buffer |
| memory device, `common_scull/base_scull.c`, `scull/main.c`, `scullc/main.c`, `scullp/main.c` | list of items, arrays and blocks; geometry; size; semaphore | open (trims), release, read, write | geometry and size read before the down, trim without the semaphore, failing allocations, blocks from three allocators |
| ioctl, `base_scull.c` | `scull_quantum`, `scull_qset_n` | thirteen commands | no lock, capability checks, faults of the user's pointer |
| `scull_single`, `scull/access.c` | a memory device | open, release | its exclusion is commented out |
| `scull_uid`, `scull/access.c` | count, owner, spinlock | open, release | a check and an update; trim under calls in progress |
| `scull_wuid`, `scull/access.c` | count, owner, spinlock, wait queue | open (waits), release (wakes) | the wait looks at count and owner without the lock |
| `scull_copy`, `scull/access.c` | list of devices by terminal, spinlock | open (creates), release, cleanup | racing first opens, trim after the unlock, allocation under a spinlock |
| proc files, `scull/proc.c` | none of their own | read, seq iteration | list head read before the down, a buffer without a limit |
| loading, the `*_init` and `*_exit` functions of every module | what is registered and allocated | init, exit | failure paths, devices in use before init has returned |
| `globalmem` | a block of memory | read, write, llseek, ioctl | no lock, truncated offsets |
| `completion` | a completion | read, write | overtaking readers |
| `sleepy` | `flag`, a wait queue | read, write | `flag` has no lock |
| `jiq`, `jit` | one structure each for the work item, the timer and the tasklet | proc read, work, timer, tasklet | the work runs on beside the reader and writes into its buffer; all readers share the structure |
| `misc_progs`, scripts, `hello` | | | user programs and shell around the drivers |

The memory device is the base of the access-controlled ones: they call
`scull_trim` from their own open and use `scull_read`, `scull_write` and
`scull_ioctl` as they are. The ioctl's two globals become the geometry of a
device at its next trim. The pipe has its own data but shares the ioctl. The
files in `/proc` walk the data of the memory devices. `globalmem`, `completion`,
`sleepy`, `jiq` and `jit` share nothing with `scull` or with each other.

## Modules

| Module | Models | Abstract specification |
|---|---|---|
| `ScullPipe` | the six handlers of `pipe.c` | `BoundedFifo` |
| `ScullMem` | read, write, trim, follow, open, release of a memory device of `scull`, `scullc` or `scullp`, and the readers of `/proc/scullmem` and `/proc/scullseq` | `SparseFile` |
| `ScullIoctl` | `scull_ioctl` | |
| `AccessUsers` | the processes and users of the next two | |
| `ScullWuid` | `scull_w_open`, `scull_w_release` | `OwnedDevice` |
| `ScullUid` | `scull_u_open`, `scull_u_release` | `OwnedDevice` |
| `ScullCopy` | the list of `scull_copy` and its handlers | |
| `Loading` | the init and exit functions of eight modules, and users of their devices meanwhile | |
| `Globalmem` | read, write, llseek, ioctl of `globalmem` | |
| `Sleepy`, `Completion` | read and write of these drivers | |
| `DeferredWork` | the work item of `jiq`, the timer and the tasklet of `jit`, and their readers | |
| `MiscModules` | composes the last three: the processes use one of the drivers | |
| `MC...` | instances for TLC | |
| `ScullPipeProofs`, `ScullMemProofs`, `ScullWuidProofs`, `ScullUidProofs`, `ScullCopyProofs`, `GlobalmemProofs`, `MiscModulesProofs`, `LoadingProofs` | theorems, each about the module of its name; `ScullMemProofs` also has those about `ScullIoctl`, which it instantiates | |

All of them are built alike. A process has at most one file of the device. A
system call is the sequence of steps that its handler takes between the points
where another process can see or change shared state: each down and up, each
lock and unlock, each unlocked load or store, each change of a wait queue. `pc`
says which step a process takes next, the actions carry the handler's name and
the name of the step, and the disjunction with the handler's own name
(`scull_p_read(p)`) is the whole handler. Everything between two such points is
one action: what runs under a lock that every user of the data takes cannot be
seen in between.

The pipe's semaphore is no such lock. `scull_p_poll` leaves with the semaphore
when its down succeeds, and does an up when its down was interrupted
(`pipe.c:183`), so two processes can be between a down and an up at once. Inside
the critical sections of `ScullPipe` each test, each copy, each load and each
store that depends on it is therefore a step: the test of `dev->buffer`, the
`kmalloc`, the pointers, the load and the store of either count, the two loads
of their sum, the `kfree`; the copy of a read or a write, the load of `rp` or
`wp` after it, and the store. `local` has what a handler has loaded and not yet
stored.

Kernel services are external and modelled by what the drivers can see of them:

* `down_interruptible` takes the semaphore whenever it is free, and fails only
  when it is taken and a signal is pending.
* `wait_event_interruptible` queues the process, looks at the condition, then
  sleeps; a wakeup takes every process off the queue. Its first look, before
  it queues, is left out: it does what queueing and finding the condition true
  does.
* A signal matters inside a system call only and is gone when the call returns.
* A write's SIGIO goes to the processes whose file is on `async_queue`.
* `copy_to_user`, `copy_from_user`, `kmalloc` may fail at every call. A
  `copy_from_user` that fails has copied the bytes before the fault and set the
  rest to zero, in the driver's memory.

What the modules abstract:

* A byte is a member of a small set; memory fresh from `kmalloc` holds `Junk`.
  Pointers into the pipe's buffer are offsets.
* `rp != wp`, `spacefree()` and the limits of a count are read in one step. The
  transient `wp == end` is kept as a step. Outside the buffer, where pointers
  get when two processes push them at once, lie other bytes than the device's
  (`Junk`); `%` is C's, which goes towards zero, and a negative limit is
  converted to a `size_t` above every count.
* In `ScullMem`, `wild` becomes true when memory is used that is not, or no
  longer, the device's. It is the ghost variable behind `InBounds`.
* In `ScullUid`, `ScullWuid` and `ScullCopy` the data of the device is what the
  properties need of it: whether there is any, whose call loses it, who wrote it.
* `type` in `ScullMem` says where a block comes from: `kmalloc` of `quantum`
  bytes, the cache of `scullc`, whose objects have the quantum of load time, or
  whole pages (`PAGE` bytes). A `scullp` device starts with a quantum of whole
  pages; only `scull` has the ioctl that changes the geometry. A read of a file
  in `/proc` takes the head of the list, then the semaphore, then walks; what it
  prints is left out, what it follows is not.
* In `Loading` an init function is the sequence of its calls that can fail, each
  with what its failure path gives back and how the function goes on; an exit
  function is the sequence of what it frees and what it relies on. A resource
  is a name. A device can be opened from its `cdev_add` on; `rmmod` waits until
  none is open, as the kernel's use count does. `wild` becomes true when a user
  or an exit function relies on memory that is not there; the model stops then.
  A module has one life, one device is open at a time.
* In `Loading` the work a read has left behind is a resource too: with its
  buffer alive (`Work`), or freed (`Stray`). So is the buffer that a read of `jit`
  never frees (`Sbuf`).
* In `DeferredWork` there is no time: work that is scheduled runs at some later
  step, so the delayed work of `jiq` is the work of `jiq`. Each line, each count
  and each wakeup of the work is a step. Nothing in the code keeps a second read
  out while one is under way, or while the work of one that a signal cut short
  is: it takes over the one structure that all readers share, with its buffer
  pointer, its count and its wait queue, and the waiters queued until then are
  lost. The constant `ReadsApart` is the hypothesis that this does not happen.
  Work that is set up anew while the kernel has it queued, or runs it, is
  `corrupt`, and what it does from then on is left out.
* `ScullIoctl` has two history variables: the number that the store of a call
  replaced (`old`), and the calls whose parameter another one stored to after
  they loaded it (`raced`). So have `Completion` (the writes and the reads that
  returned) and `Globalmem` (the memory that a call met, whether it met another
  call, and what it copied).
* `globalmem` copies byte by byte; an `unsigned int` has `UINT` values. The
  request size is below `UINT`, as the kernel's limit on a transfer guarantees.

Definitions marked `Mutant` are faulty variants of the definition after them.
No specification uses them; replacing the definition by its mutant makes the
property named in `PROJECT.json` fail.

## Runs

| Run | What it shows |
|---|---|
| `pipe` | a reader and a signalled writer, under fair scheduling: the ring buffer implements `BoundedFifo`; pointers in range, exact semaphore, no lost wakeup; reads and writes return |
| `pipe_files` | nobody polls; every access mode, files that change `O_NONBLOCK` and `FASYNC`, SIGIO from the device itself: exact semaphore, the buffer is alive while a file needs it, the counts are never short, and they lose track of the files through an interrupted close only |
| `pipe_poll` | a poll wedges the device and only an interrupted poll frees it, with two processes in the critical section |
| `pipe_poll_race` (violation) | the extra up lets two readers in; one gets bytes nobody wrote |
| `mem_file` | two processes, truncations without company, all three types of device, a reader of `/proc`: the device implements `SparseFile`, in bounds, of one geometry, with an exact semaphore |
| `mem_trim_race` (violation) | a truncation frees memory that a read or a write is using |
| `access` | `scull_wuid`: exact count, exclusion, no lost wakeup, truncations by holders only, `OwnedDevice`; no opener waits for ever beside a device that stays available to it. `scull_uid`: exact count, `OwnedDevice`, truncations hit the own user's calls only |
| `copy` | one device per terminal, private and persistent |
| `loading` | every call of every init function failing or not: a module that is refused or unloaded has given everything back and nothing touches what is not there, but for the flaws listed below, which the properties name |
| `misc` | `sleepy`: no lost wakeup, a write gets a reader through; `completion`: each write lets one read through, now or later, and no second; `jiq` and `jit`, their reads apart: a read returns, with every line unless a signal cuts it short |
| `misc_overlap` (violation) | overlapping reads of `jiq` or `jit`: one returns without its lines |
| `unlocked` | `globalmem`: no access outside the memory; between calls that do not overlap the memory is a file, faults half way through a copy included. `scull_ioctl`: an exchange of the quantum and a shift report the number they replaced, unless another store came between their load and their store; without the capability a parameter can be reset and not changed otherwise |

`access` and `unlocked` run two components each. These share nothing but the
processes, so in each behaviour the processes use one of the two.

The violations are disagreements between the code and what its comments say;
`findings` in `PROJECT.json` quotes them. `InBounds` appears twice: with
`TrimAlone` the users are assumed to open the device write-only only while
nobody else uses it, the exclusion that `scull_s_open` has commented out, and
the property holds; without the assumption it does not. `CompleteReport` appears
twice in the same way, with and without `ReadsApart`.

What a poll breaks. Beside a process that polls and is signalled, `TypeOK`,
`SemaphoreExact`, `BufferLive`, `CountsCover`, `CountsFollowFiles`, both wakeup
properties and `ImplementsFifo` are all false of the code and of the model: two
readers move `rp` past the end of the buffer, two updates of a count lose one, a
release frees the buffer between another process's test of it and its count.
They are checked and proved for processes that do not poll. `pipe_poll_race`
has one of the ways it goes wrong, and `OnlyPollUnwedges` is what is left.

Seen while modelling, and not checked by a run of its own:

* `scull_p_read` compares `f_flags` with `O_NONBLOCK` (`pipe.c:59`) where
  `scull_getwritespace` tests the bit (`pipe.c:107`): a nonblocking file with any
  other flag sleeps in read. `scull_p_read_check` has the comparison.
* An exchange of the quantum or a shift is two steps (`base_scull.c:276`): a number
  that another process stores between them is lost, and neither call reports it.
  `LostOnlyByRace` shows that no number is lost in another way.
* An exchange of the qset puts the new number to the caller (`base_scull.c:311`),
  where that of the quantum puts the old one; `SCULL_IOCX_put` does the same, and
  `LostOnlyByRace` leaves it out.
* A set or an exchange whose `__get_user` faults has stored 0 in the parameter
  (`base_scull.c:263`).
* `scull_access_cleanup` trims the devices of `scull_copy` and frees none of the
  list items (`access.c:369`); hence `Item` in `Leaks`.
* `scull_init` returns 0 when `kmalloc` or `cdev_add` fails (`main.c:90`), and
  ignores the result of `scull_p_init` (`main.c:111`): the module stays, its
  first devices stay registered in an array that was freed, and its exit
  function uses that array. `scullc` and `scullp` do the same. These are the
  `Hidden` failures of `Loading`; `StaysInside` shows that no other failure has
  such an effect.
* `scullc` makes its cache after its devices are live (`scullc/main.c:106`); a
  write in between allocates from a cache that is not there.
* A read of `jiq` or `jit` that a signal cuts short leaves its work running. In
  `jiq` the buffer is freed under it (`jiq.c:132`), and neither module waits for
  it when it is unloaded (`jiq.c:192`). `StaysInside` names both.
* `jit` frees the buffer of a timer or tasklet read only when the copy to the
  user failed (`jit.c:205`, `jit.c:277`); hence `Sbuf` in `Leaks`.
* Overlapping reads of `jiq` or `jit` lose waiters, too: `init_waitqueue_head`
  (`jiq.c:118`, `jit.c:198`) empties a queue that the first reader is in, and no
  wakeup reaches it any more, so `ReportReturns` needs `ReadsApart` as well. A
  `schedule_work` that comes after the other reader's work has ended takes
  `left_loops` below zero, and the work goes on.
* `proc_read` takes the head of the list before the semaphore (`proc.c:28`). A
  first write in between makes the report have a size and no items. A trim in
  between frees what it follows, like everything that holds a pointer then.
* `globalmem_write` returns 0 after a write that moved the position
  (`globalmem.c:83`).
* One write to `sleepy` wakes all readers, and the first to run clears `flag`:
  the others sleep again (`sleepy.c:22`). Hence `OneGetsThrough` says one.

### Bounds

Buffers, blocks and arrays have two to four elements: enough to be empty, partly
full, full and wrapped, and for a request to be cut at each of the limits in the
code. `MaxRequest` is one less than the buffer of the pipe, which is what fits
into it, and at least a block of the memory device. `MaxCounted`
stops the leak of an interrupted close, which would count for ever. `MaxDrift`
and `MaxOffset` do the same for what only polls can do: counts that lost updates
take away from zero, and pointers that two processes push past the end. Where
nobody polls the two cut nothing off: `pipe` and `pipe_files` reach neither
bound. `MaxPos` and
`MaxSize` stop writes at position four: two items, arrays of one or two blocks
and blocks of one, two or (`scullp`) four bytes, so that all three divisions of
a position see their boundary. `MaxItems` lets the module of `scull_copy` be
loaded three times. `loading` has two devices of each kind, so that a failure
can come before, between and after them, and two files in `/proc` for the eight
of `jit`. Three `MaxWrites` let completions pile up beside three processes; three
`Loops` are a first, a middle and a last line.
Two processes suffice for the data paths of memory and pipe, and for the pipe's
wakeups since its proofs cover any number; the waits of `scull_wuid`, `sleepy`
and `completion` are run with three, since a thief, a waiter and a waker
are three. No symmetry is used: the processes differ in flags, users or
terminals.

Runs without deadlock checking are those in which everybody may rightly sleep
with nobody left to wake them (`misc`), in which a module's life ends
(`loading`), or in which a poll has taken the semaphore away from everybody
(`pipe_poll`, `pipe_poll_race`).

### Fairness

Weak fairness for the steps of a call in progress: the scheduler runs what can
run. Strong fairness for taking a semaphore or a spinlock: both serve those who
wait in turn. Work items, the timer and the tasklet run when they are due, each
in a context of its own (weak fairness). No process has to make a call, and no signal has to come. Then
`ReadReturns` and `WriteReturns` still need their escape (another process may
empty or fill the buffer first), and `OpenReturns` promises nothing to a process
that waits for a device which others close and open again all the time: the
wait in `scull_w_open` is not fair to it.

## Proofs

Every invariant, action property and refinement that a passing run checks is
also a theorem, for every set of processes and every value of the sizes, counts
and bounds that satisfies the `ASSUME`s of the modules (finitely many processes,
a pipe buffer of at least two bytes, positive geometries, distinct model values).
TLC evaluates these in every run. Some theorems have one of four hypotheses on
the users (`Pollers = {}`, `EveryModeCounts`, `TrimAlone`, `ReadsApart`), which
their statements name; each is necessary, since the property is false for the
code without it.

**Pipe** (`ScullPipeProofs`).

* `WedgedByPoll`: `OnlyPollUnwedges`, whoever polls and however many processes
  that lets into the critical section. It needs little: who is at which step, and
  that the semaphore's count is not negative (`PollInv`).

All the others have the hypothesis `Pollers = {}`, without which they are false.

* `MutualExclusion`: `SemaphoreExact`. `Exclusive` adds that no process is in
  poll. This comes first, as nothing of what follows survives two processes in
  the critical section.
* `TypeCorrect`, `CountsNeverShort`, `BufferNeverFreedInUse`: `TypeOK`,
  `CountsCover` and `BufferLive`. `LockInv` adds, for each step between a down and
  an up, what the handler knows there (`HeldAll`): that the count it has loaded
  is the count, that the sum it has half loaded is right, how many bytes it may
  move; further that a file that can be read or written was opened so, and that a
  positive count means an allocated buffer (`Allocated`).
* `ReaderWoken`, `WriterWoken`: the two wakeup properties. They are
  inductive on top of `LockInv` (`WakeInv`): what a handler knows between its test
  and its store keeps the buffer from becoming empty or full behind a sleeper's
  back unseen.
* `IsBoundedFifo`: `ImplementsFifo`. A read takes effect at its store of `rp`, a
  write at its store of `wp`; the copies before and the wrap after them are
  stutters. `FifoInv` adds to `LockInv` that a read has bytes in hand only between
  its copy and its return; that they are still what the buffer holds when `rp`
  moves is in `HeldAll`. The lemmas before it say how the sequence of bytes between
  the two offsets changes when a read moves `rp` and a write moves `wp`, wrapped
  or not.
* `CountsTrackFiles`: `CountsFollowFiles`, when moreover nobody opens
  with access mode 3 (`EveryModeCounts`). Such a file counts neither as a reader
  nor as a writer, and one whose close is interrupted leaves a buffer beside two
  counts of zero. `CountedInv` says that there is no such state otherwise.

**Memory device** (`ScullMemProofs`).

* `SemaphoreKept`: `SemaphoreExact`, whoever truncates when.
* `MemoryInBounds`, `MemoryUniform`: `InBounds` and `GeometryUniform`, under the
  hypothesis `TrimAlone`, without which the first is false (run
  `mem_trim_race`). `MemInv` says that a truncating open is alone (`Alone`), that
  what a call sampled before its down is still so and what it found is still
  there (`Current`), that every block and array of the list has the present
  geometry, and that a quantum fits into a block (`QuantumFits`: the quantum of
  `scullc` and `scullp` cannot be changed by ioctl).
* `IsSparseFile`: `ImplementsFile`, also under `TrimAlone`. `FileInv` adds that
  every block begins at a position of the file (`Within`) and that a write does
  (`WritesInside`). The lemmas split a position into item, slot and offset and
  show that a transfer cut at the end of a block moves a run of positions, that
  `scull_follow`, a new array and a new block change no byte, and that storing a
  block changes one. A write that faults is a `FailedWrite` of the abstract file:
  some of its bytes, zeros for the others, and nothing outside its request.
* `SwapsUnlessRaced`, `TunedByAdmins`: `LostOnlyByRace` and `OnlyAdminsTune` of
  `ScullIoctl`. `SwapInv` says that a call which has loaded a parameter has the
  capability and, unless it was raced, holds the parameter's present value, and
  that one which has stored holds what its store replaced.

**Access control.** `ScullWuidProofs` proves `CountsHolders`, `OwnerExcludes`,
`OpenerWoken`, `TruncatesOwnData` and `IsOwnedDevice` (`CountExact`, `Exclusive`,
`NoLostWakeup`, `TruncatesOwn`, `ImplementsOwned`). Next to the first three,
`WuidInv` has `Admitted` (a process between the test and the count was let in by
the present owner or found the device free) and `Looked` (a process that has
read a positive count and not yet the owner has not missed a wakeup); the last
two need `Taken` (who found the device free has made itself the owner).
`ScullUidProofs` proves `CountsHolders`, `TrimsOwnCalls` and `IsOwnedDevice`
(`UidCountExact`, `TrimsOwn`, `UidImplementsOwned`) from `UidInv`, the same without
the wait. `ScullCopyProofs` proves `OneEach`,
`CopiesPrivate` and `DataPersists` (`OneDevicePerTty`, `PrivateCopy`,
`Persistent`): `CopyInv` adds that a process with the lock that found no device
for its terminal is right (`Looked`), that each file is on the device of its
terminal (`OwnDevice`) and each device was written from there (`OwnWriters`).

**The other drivers.** `GlobalmemProofs` proves `StaysInMemory` and
`CallsActAsOnFile` (`InMemory`, `FileBetweenCalls`): `MemInv` says that a count was
cut to what lies behind the position (`Fits`), and of a call that has met no
other what it has made of each byte so far (`Apart`). `MiscModulesProofs` proves
`SleepyLosesNoWakeup`, `EveryReadHasItsWrite` (`OneReadPerWrite`) and, under
`ReadsApart`, `ReportsComplete`. Completions not yet used and reads that returned
add up to the writes (`Accounted`); `Deferred` says for `jiq` and `jit` where reader
and work are relative to each other. `LoadingProofs` proves `NothingElseLeaks` and
`TouchesOwnMemory` (`GivesBack`, `StaysInside`) for any number of devices and
files in `/proc`. It first shows of each of the eight init and exit functions
what the sequence of its calls looks like (`InitShape`, `ExitShape`); `LoadInv`
then says that all a module has is on the list of what its exit frees, or of what
it is known to lose (`Owned`),
what exit has passed is freed (`Passed`), that without a hidden failure the
arrays and the cache are there as long as anything uses them (`Sound`), and that
after one the exit function does not get past its first use of what is missing
(`Doomed`).

Model-checked only: the liveness properties `ReadReturns`, `WriteReturns`,
`OpenReturns`, `OneGetsThrough`, `WritesLetReadsThrough` and `ReportReturns` (the
prover has neither fairness nor `ENABLED`), and the three violations.

## Not modelled, and the plan

In this order:

1. A geometry of 0 from the ioctl: the next read or write divides by it, in the
   kernel, with the semaphore taken; the model's geometries are positive.
2. What the kernel does with work that is set up anew while it is queued.
3. Processors and preemption, for the allocation under `scull_c_lock`.
4. `asyntest` composed with the pipe's SIGIO.

Left out for good: `hello` and the shell scripts (printing, `insmod`, `mknod`),
`setconsole`, `setlevel` (one system call each), `jitcurrent` and the delay files
of `jit` (they read clocks and share nothing), and the text of every report.
