------------------------------ MODULE ScullMem ------------------------------
(***************************************************************************)
(* A memory device of scull, scullc or scullp: common_scull/base_scull.c   *)
(* with the open of main.c and the readers of scull/proc.c.  The data is a *)
(* list of items, each an array of qset pointers to blocks of quantum      *)
(* bytes, which come from kmalloc, a slab cache or whole pages.            *)
(*                                                                         *)
(* read and write look at quantum, qset and size before they take the      *)
(* semaphore, and scull_trim, called by an open for writing, takes none:   *)
(* both are steps of their own.  A process has at most one file.           *)
(***************************************************************************)
EXTENDS Integers, Sequences, FiniteSets

CONSTANTS
    Procs,       \* the processes
    Tuners,      \* those that change the geometry with ioctl
    Truncaters,  \* those that may open the device write-only
    TrimAlone,   \* whether they do so only while nobody else uses it
    Signallable, \* those that may get a signal
    Reporters,   \* those that read the files in /proc
    Types,       \* the device types of the run: "basic", "c" and "p"
    PAGE,        \* PAGE_SIZE << scull_order
    Byte,        \* the values of a byte that is written
    Zero,        \* the byte memset stores
    Junk,        \* what memory fresh from kmalloc holds
    NULL,        \* the null pointer
    QUANTUM_SIZE, QSET_SIZE,  \* the geometry the module starts with
    Sizes,       \* the quantum and qset values that ioctl sets
    MaxRequest,  \* bound: the largest count of a read or a write
    MaxPos,      \* bound: no write starts past this position
    MaxSize      \* bound: no write starts with a larger size than this

ASSUME MemAssumption ==
    /\ IsFiniteSet(Procs)
    /\ Tuners \subseteq Procs
    /\ Truncaters \subseteq Procs
    /\ TrimAlone \in BOOLEAN
    /\ Signallable \subseteq Procs
    /\ Reporters \subseteq Procs
    /\ Types \subseteq {"basic", "c", "p"}
    /\ PAGE \in Nat /\ PAGE >= QUANTUM_SIZE
    /\ Zero \notin Byte /\ Junk \notin Byte \cup {Zero}
    /\ QUANTUM_SIZE \in Nat \ {0} /\ QSET_SIZE \in Nat \ {0}
    /\ Sizes \subseteq Nat \ {0}
    /\ MaxRequest \in Nat
    /\ MaxPos \in Nat /\ MaxSize \in Nat
    /\ \A n \in Sizes \cup {QUANTUM_SIZE} : (MaxPos + 1) % n = 0
    /\ (MaxPos + 1) % PAGE = 0

(* The null pointer leads to no array and to no block.                     *)
ASSUME NullAssumption ==
    \A n \in Sizes \cup {QSET_SIZE}, k \in Sizes \cup {QUANTUM_SIZE, PAGE} :
        LET blocks == [0 .. k - 1 -> Byte \cup {Zero, Junk}]
        IN  NULL \notin blocks /\ NULL \notin [0 .. n - 1 -> {NULL} \cup blocks]

VARIABLES
    type,         \* the type of the device, fixed by the module it belongs to
    scull_quantum, scull_qset_n,  \* the geometry the next trim will install
    quantum, qset,  \* the geometry of the device
    size,         \* what the device takes for its size
    data,         \* the list of items
    freed,        \* whether data points to memory that was given back
    sem,          \* the count of the semaphore
    f_pos,        \* the position of each file
    call,         \* the local variables of the call each process is in
    dangling,     \* the calls whose block was freed after they found it
    wild,         \* whether memory was used that is not the device's own
    got,          \* what the last read of each process returned, until its next call
    sig,          \* the processes with a signal pending
    pc            \* the next step of each process

globals == <<type, scull_quantum, scull_qset_n>>
shape   == <<quantum, qset, size>>
memory  == <<data, freed, dangling, wild>>
calls   == <<f_pos, call, got>>
vars    == <<globals, shape, memory, sem, calls, sig, pc>>

CriticalSteps == {"r_find", "r_copy", "w_find", "w_copy", "p_walk", "s_walk"}
Steps == {"closed", "o_trim", "o_reset", "open", "r_down", "w_down", "p_down", "s_down"}
            \cup CriticalSteps

InCritical(p) == pc[p] \in CriticalSteps

Goto(p, step) == pc' = [pc EXCEPT ![p] = step]

NoCall == [head |-> FALSE, quantum |-> 0, qset |-> 0, left |-> 0, item |-> 0, s_pos |-> 0, q_pos |-> 0]

(* The system call ends: its local variables are gone, and the pending     *)
(* signals are handled.  A read of a file in /proc has no file on the      *)
(* device.                                                                 *)
Return(p) ==
    /\ Goto(p, IF pc[p] \in {"p_down", "p_walk", "s_down", "s_walk"} THEN "closed" ELSE "open")
    /\ sig' = sig \ {p}
    /\ call' = [call EXCEPT ![p] = NoCall]

(* count = (count > limit) ? limit : count, where count is a size_t: a     *)
(* negative limit is converted to one above every count.                   *)
Clamp(count, limit) == IF limit >= 0 /\ count > limit THEN limit ELSE count

Down(p, from, to) ==
    /\ pc[p] = from
    /\ sem > 0
    /\ sem' = sem - 1
    /\ Goto(p, to)
    /\ UNCHANGED <<globals, shape, memory, calls, sig>>

DownInterrupted(p, from) ==
    /\ pc[p] = from
    /\ sem = 0
    /\ p \in sig
    /\ Return(p)
    /\ UNCHANGED <<globals, shape, memory, sem, f_pos, got>>

Up == sem' = sem + 1

-----------------------------------------------------------------------------
(* scull_open and scull_trim *)

(* scull_open excludes nobody.  TrimAlone is an assumption about the users *)
(* instead: the exclusion that scull_s_open has commented out.             *)
Others(p, steps) == \E q \in Procs \ {p} : pc[q] \in steps

scull_open(p) ==
    /\ pc[p] = "closed"
    /\ TrimAlone => ~Others(p, {"o_trim", "o_reset"})
    /\ \/ Goto(p, "open")
       \/ /\ p \in Truncaters
          /\ TrimAlone => ~Others(p, Steps \ {"closed"})
          /\ Goto(p, "o_trim")
    /\ UNCHANGED <<globals, shape, memory, sem, calls, sig>>

(* The calls that hold a pointer into the data.                            *)
Copying == {p \in Procs : pc[p] \in {"r_copy", "w_copy"} \/ call[p].head}

(* Every block, every array and every item goes back to the allocator; the *)
(* calls that hold a pointer into them are not asked.  The loop takes every*)
(* array to have qset pointers.                                            *)
scull_trim_free(p) ==
    /\ pc[p] = "o_trim"
    /\ freed' = (data /= << >>)
    /\ dangling' = dangling \cup Copying
    /\ wild' = (wild \/ freed \/ \E n \in 1 .. Len(data) :
                                   data[n] /= NULL /\ qset - 1 \notin DOMAIN data[n])
    /\ Goto(p, "o_reset")
    /\ UNCHANGED <<globals, shape, data, sem, calls, sig>>

scull_trim_reset(p) ==
    /\ pc[p] = "o_reset"
    /\ size' = 0
    /\ data' = << >>
    /\ freed' = FALSE
    /\ qset' = scull_qset_n
    /\ quantum' = scull_quantum
    /\ dangling' = dangling \cup Copying
    /\ Return(p)
    /\ UNCHANGED <<globals, wild, sem, f_pos, got>>

scull_release(p) ==
    /\ pc[p] = "open"
    /\ Goto(p, "closed")
    /\ f_pos' = [f_pos EXCEPT ![p] = 0]
    /\ got' = [got EXCEPT ![p] = << >>]
    /\ UNCHANGED <<globals, shape, memory, sem, call, sig>>

(* An ioctl that sets one of the two globals (module ScullIoctl has them   *)
(* all); the device follows at its next trim.  scullc and scullp have none.*)
scull_ioctl(p) ==
    /\ type = "basic"
    /\ p \in Tuners
    /\ pc[p] = "open"
    /\ \E n \in Sizes :
          \/ scull_quantum' = n /\ UNCHANGED scull_qset_n
          \/ scull_qset_n' = n /\ UNCHANGED scull_quantum
    /\ UNCHANGED <<type, shape, memory, sem, calls, sig, pc>>

-----------------------------------------------------------------------------
(* What read and write compute from what they looked at before the down.   *)

Sample(p) ==
    call' = [call EXCEPT ![p] = [NoCall EXCEPT !.quantum = quantum,
                                               !.qset = qset,
                                               !.left = size - f_pos[p]]]

(* Mutant: the item is found as if it held a single block.                 *)
Place_block(p) ==
    LET rest == f_pos[p] % (call[p].quantum * call[p].qset)
    IN  [call[p] EXCEPT !.item  = f_pos[p] \div call[p].quantum,
                        !.s_pos = rest \div call[p].quantum,
                        !.q_pos = rest % call[p].quantum]

Place(p) ==
    LET itemsize == call[p].quantum * call[p].qset
        rest     == f_pos[p] % itemsize
    IN  [call[p] EXCEPT !.item  = f_pos[p] \div itemsize,
                        !.s_pos = rest \div call[p].quantum,
                        !.q_pos = rest % call[p].quantum]

(* scull_follow: the list with an item at this index, empty ones added.    *)
scull_follow(item) ==
    [i \in 1 .. (IF Len(data) > item THEN Len(data) ELSE item + 1) |->
        IF i <= Len(data) THEN data[i] ELSE NULL]

ArrayAt(list, item) == list[item + 1]

(* The block a call is about, when pointer s_pos lies inside the array.    *)
BlockAt(list, where) == ArrayAt(list, where.item)[where.s_pos]

InArray(list, where) == where.s_pos \in DOMAIN ArrayAt(list, where.item)

(* The pointer p is about leads to n bytes of a live block.                *)
Usable(p, n) ==
    /\ p \notin dangling
    /\ ~freed
    /\ call[p].q_pos + n <= Cardinality(DOMAIN BlockAt(data, call[p]))

-----------------------------------------------------------------------------
(* scull_read *)

ReadCall(p) ==
    /\ pc[p] = "open"
    /\ Sample(p)
    /\ got' = [got EXCEPT ![p] = << >>]
    /\ Goto(p, "r_down")
    /\ UNCHANGED <<globals, shape, memory, sem, f_pos, sig>>

(* Mutant: the early return keeps the semaphore.                           *)
scull_read_eof_noup(p) ==
    /\ pc[p] = "r_find"
    /\ f_pos[p] >= size
    /\ got' = [got EXCEPT ![p] = << >>]
    /\ Return(p)
    /\ UNCHANGED <<globals, shape, memory, sem, f_pos>>

(* At or past the size there is nothing to read.                           *)
scull_read_eof(p) ==
    /\ pc[p] = "r_find"
    /\ f_pos[p] >= size
    /\ got' = [got EXCEPT ![p] = << >>]
    /\ Up
    /\ Return(p)
    /\ UNCHANGED <<globals, shape, memory, f_pos>>

(* scull_follow adds the items that are missing, on a read as well.  A     *)
(* pointer past the end of the array is taken for a hole, or for anything. *)
Hole(list, where) ==
    \/ ArrayAt(list, where.item) = NULL
    \/ ~InArray(list, where)
    \/ BlockAt(list, where) = NULL

Outside(list, where) ==
    ArrayAt(list, where.item) /= NULL /\ ~InArray(list, where)

scull_read_find(p) ==
    LET where == Place(p)
        list  == scull_follow(where.item)
    IN
    /\ pc[p] = "r_find"
    /\ f_pos[p] < size
    /\ data' = list
    /\ wild' = (wild \/ freed \/ Outside(list, where))
    /\ IF Hole(list, where)
       THEN /\ got' = [got EXCEPT ![p] = << >>]
            /\ Up
            /\ Return(p)
       ELSE /\ call' = [call EXCEPT ![p] = where]
            /\ Goto(p, "r_copy")
            /\ UNCHANGED <<got, sem, sig>>
    /\ UNCHANGED <<globals, shape, freed, dangling, f_pos>>

(* kmalloc failed for one of the items that were missing.                  *)
scull_read_ENOMEM(p) ==
    LET item == Place(p).item IN
    /\ pc[p] = "r_find"
    /\ f_pos[p] < size
    /\ \E n \in Len(data) .. item : data' = scull_follow(n - 1)
    /\ got' = [got EXCEPT ![p] = << >>]
    /\ Up
    /\ Return(p)
    /\ UNCHANGED <<globals, shape, freed, dangling, wild, f_pos>>

ReadCount(p, request) ==
    Clamp(Clamp(request, call[p].left), call[p].quantum - call[p].q_pos)

scull_read_EFAULT(p) ==
    /\ pc[p] = "r_copy"
    /\ got' = [got EXCEPT ![p] = << >>]
    /\ dangling' = dangling \ {p}
    /\ Up
    /\ Return(p)
    /\ UNCHANGED <<globals, shape, data, freed, wild, f_pos>>

scull_read_copy(p, request) ==
    LET count == ReadCount(p, request) IN
    /\ pc[p] = "r_copy"
    /\ IF Usable(p, count)
       THEN /\ got' = [got EXCEPT ![p] =
                  [i \in 1 .. count |-> BlockAt(data, call[p])[call[p].q_pos + i - 1]]]
            /\ UNCHANGED wild
       ELSE /\ wild' = TRUE
            /\ got' = [got EXCEPT ![p] = [i \in 1 .. count |-> Junk]]
    /\ f_pos' = [f_pos EXCEPT ![p] = @ + count]
    /\ dangling' = dangling \ {p}
    /\ Up
    /\ Return(p)
    /\ UNCHANGED <<globals, shape, data, freed>>

scull_read(p) ==
    \/ ReadCall(p)
    \/ Down(p, "r_down", "r_find")
    \/ DownInterrupted(p, "r_down")
    \/ scull_read_eof(p)
    \/ scull_read_find(p)
    \/ scull_read_ENOMEM(p)
    \/ scull_read_EFAULT(p)
    \/ \E request \in 0 .. MaxRequest : scull_read_copy(p, request)

-----------------------------------------------------------------------------
(* scull_write *)

WriteCall(p) ==
    /\ pc[p] = "open"
    /\ f_pos[p] <= MaxPos
    /\ size <= MaxSize
    /\ Sample(p)
    /\ got' = [got EXCEPT ![p] = << >>]
    /\ Goto(p, "w_down")
    /\ UNCHANGED <<globals, shape, memory, sem, f_pos, sig>>

(* Mutant: a new block has the size the next trim will install.            *)
scull_alloc_global == scull_quantum

(* The bytes of a new block: the device's quantum, an object of the cache  *)
(* made when the module was loaded, or the pages of the device's order.    *)
scull_alloc ==
    CASE type = "basic" -> quantum
      [] type = "c"     -> QUANTUM_SIZE
      [] type = "p"     -> PAGE

(* A new array has the qset read before the down; of a new block the       *)
(* quantum read before the down is set to zero.                            *)
NewArray(p) == [s \in 0 .. call[p].qset - 1 |-> NULL]
NewBlock(p) == [i \in 0 .. scull_alloc - 1 |-> IF i < call[p].quantum THEN Zero ELSE Junk]

WithArray(p, list, where) ==
    IF ArrayAt(list, where.item) = NULL
    THEN [list EXCEPT ![where.item + 1] = NewArray(p)]
    ELSE list

scull_write_find(p) ==
    LET where == Place(p)
        list  == WithArray(p, scull_follow(where.item), where)
    IN
    /\ pc[p] = "w_find"
    /\ IF InArray(list, where)
       THEN /\ data' = IF BlockAt(list, where) = NULL
                       THEN [list EXCEPT ![where.item + 1][where.s_pos] = NewBlock(p)]
                       ELSE list
            /\ wild' = (wild \/ freed \/ (/\ BlockAt(list, where) = NULL
                                          /\ call[p].quantum > scull_alloc))
            /\ call' = [call EXCEPT ![p] = where]
            /\ Goto(p, "w_copy")
            /\ UNCHANGED <<sem, sig>>
       ELSE /\ data' = list
            /\ wild' = TRUE
            /\ Up
            /\ Return(p)
    /\ UNCHANGED <<globals, shape, freed, dangling, f_pos, got>>

(* kmalloc failed: for an item, for the array, or for the block.           *)
scull_write_ENOMEM(p) ==
    LET where == Place(p)
        list  == scull_follow(where.item)
    IN
    /\ pc[p] = "w_find"
    /\ \/ \E n \in Len(data) .. where.item : data' = scull_follow(n - 1)
       \/ /\ ArrayAt(list, where.item) = NULL
          /\ data' = list
       \/ /\ InArray(WithArray(p, list, where), where)
          /\ BlockAt(WithArray(p, list, where), where) = NULL
          /\ data' = WithArray(p, list, where)
    /\ Up
    /\ Return(p)
    /\ UNCHANGED <<globals, shape, freed, dangling, wild, f_pos, got>>

(* Mutant: the count is not cut at the end of the block.                   *)
WriteCount_unclamped(p, request) == request

(* Here the device's quantum is the limit, not the one read before.        *)
WriteCount(p, request) == Clamp(request, quantum - call[p].q_pos)

(* copy_from_user puts one of the choices of count bytes into the block.   *)
CopyIn(p, count, choices) ==
    LET at == call[p] IN
    IF Usable(p, count)
    THEN /\ \E bytes \in choices :
               data' = [data EXCEPT ![at.item + 1][at.s_pos] =
                          [i \in DOMAIN @ |-> IF i \in at.q_pos .. at.q_pos + count - 1
                                              THEN bytes[i - at.q_pos + 1] ELSE @[i]]]
         /\ UNCHANGED wild
    ELSE wild' = TRUE /\ UNCHANGED data

(* What copy_from_user leaves when it faults: the bytes before the fault   *)
(* are copied, and the rest is set to zero.                                *)
Faulted(count) ==
    {[i \in 1 .. count |-> IF i <= n THEN bytes[i] ELSE Zero] :
        n \in 0 .. count - 1, bytes \in [1 .. count -> Byte]}

(* The copy failed: the block has changed, the position and the size have  *)
(* not.                                                                    *)
scull_write_EFAULT(p, request) ==
    LET count == WriteCount(p, request) IN
    /\ pc[p] = "w_copy"
    /\ count > 0
    /\ CopyIn(p, count, Faulted(count))
    /\ dangling' = dangling \ {p}
    /\ Up
    /\ Return(p)
    /\ UNCHANGED <<globals, shape, freed, f_pos, got>>

scull_write_copy(p, request) ==
    LET count == WriteCount(p, request) IN
    /\ pc[p] = "w_copy"
    /\ CopyIn(p, count, [1 .. count -> Byte])
    /\ f_pos' = [f_pos EXCEPT ![p] = @ + count]
    /\ size' = size + count
    /\ dangling' = dangling \ {p}
    /\ Up
    /\ Return(p)
    /\ UNCHANGED <<globals, quantum, qset, freed, got>>

scull_write(p) ==
    \/ WriteCall(p)
    \/ Down(p, "w_down", "w_find")
    \/ DownInterrupted(p, "w_down")
    \/ scull_write_find(p)
    \/ scull_write_ENOMEM(p)
    \/ \E request \in 0 .. MaxRequest :
          scull_write_EFAULT(p, request) \/ scull_write_copy(p, request)

-----------------------------------------------------------------------------
(* proc_read and scull_seq_show, which report on the device: the head of   *)
(* the list is taken before the down and followed after it.                *)

ReportCall(p, to) ==
    /\ type = "basic"
    /\ p \in Reporters
    /\ pc[p] = "closed"
    /\ TrimAlone => ~Others(p, {"o_trim", "o_reset"})
    /\ call' = [call EXCEPT ![p].head = (data /= << >>)]
    /\ Goto(p, to)
    /\ UNCHANGED <<globals, shape, memory, sem, f_pos, got, sig>>

(* The walk visits every item and, of the last one's array, qset pointers. *)
ReportWalk(p, from) ==
    LET last == data[Len(data)] IN
    /\ pc[p] = from
    /\ wild' = (wild \/ (/\ call[p].head
                         /\ \/ freed \/ p \in dangling
                            \/ last /= NULL /\ qset - 1 \notin DOMAIN last))
    /\ dangling' = dangling \ {p}
    /\ Up
    /\ Return(p)
    /\ UNCHANGED <<globals, shape, data, freed, f_pos, got>>

proc_read(p) ==
    \/ ReportCall(p, "p_down")
    \/ Down(p, "p_down", "p_walk")
    \/ DownInterrupted(p, "p_down")
    \/ ReportWalk(p, "p_walk")

scull_seq_show(p) ==
    \/ ReportCall(p, "s_down")
    \/ Down(p, "s_down", "s_walk")
    \/ DownInterrupted(p, "s_down")
    \/ ReportWalk(p, "s_walk")

Signal(p) ==
    /\ p \in Signallable \ sig
    /\ pc[p] \notin {"closed", "open"}
    /\ sig' = sig \cup {p}
    /\ UNCHANGED <<globals, shape, memory, sem, calls, pc>>

-----------------------------------------------------------------------------
(* The device as scull_init leaves it: a page of scullp is its quantum.    *)
Init ==
    /\ type \in Types
    /\ scull_quantum = QUANTUM_SIZE
    /\ scull_qset_n = QSET_SIZE
    /\ quantum = IF type = "p" THEN PAGE ELSE QUANTUM_SIZE
    /\ qset = QSET_SIZE
    /\ size = 0
    /\ data = << >>
    /\ freed = FALSE
    /\ sem = 1
    /\ f_pos = [p \in Procs |-> 0]
    /\ call = [p \in Procs |-> NoCall]
    /\ dangling = {}
    /\ wild = FALSE
    /\ got = [p \in Procs |-> << >>]
    /\ sig = {}
    /\ pc = [p \in Procs |-> "closed"]

Next ==
    \E p \in Procs :
        \/ scull_open(p)
        \/ scull_trim_free(p)
        \/ scull_trim_reset(p)
        \/ scull_release(p)
        \/ scull_ioctl(p)
        \/ scull_read(p)
        \/ scull_write(p)
        \/ proc_read(p)
        \/ scull_seq_show(p)
        \/ Signal(p)

Spec == Init /\ [][Next]_vars

-----------------------------------------------------------------------------
(* Properties *)

(* Every path through read and write gives back exactly what it took of    *)
(* dev->sem, and one call at a time is between its down and its up.        *)
SemaphoreExact ==
    /\ sem \in {0, 1}
    /\ sem = 0 <=> \E p \in Procs : InCritical(p)
    /\ \A p, q \in Procs : InCritical(p) /\ InCritical(q) => p = q

(* read, write and trim touch no memory but live blocks and arrays of the  *)
(* device, inside their bounds.                                            *)
InBounds == ~wild

(* What scull_trim relies on to free everything once: every array has the  *)
(* device's qset of pointers, and every block the bytes that scull_alloc   *)
(* gives now, which hold a quantum.  The quantum of scullp shrinks at the  *)
(* first trim while its blocks stay pages.                                 *)
GeometryUniform ==
    \A n \in 1 .. Len(data) :
        data[n] /= NULL =>
            /\ DOMAIN data[n] = 0 .. qset - 1
            /\ quantum <= scull_alloc
            /\ \A s \in DOMAIN data[n] :
                  data[n][s] /= NULL => DOMAIN data[n][s] = 0 .. scull_alloc - 1

(* The byte at a position, by the geometry of the device.                  *)
ByteAt(i) ==
    LET item  == i \div (quantum * qset)
        s_pos == (i % (quantum * qset)) \div quantum
    IN  IF item >= Len(data) THEN Zero
        ELSE IF data[item + 1] = NULL THEN Zero
        ELSE IF data[item + 1][s_pos] = NULL THEN Zero
        ELSE data[item + 1][s_pos][i % quantum]

File == INSTANCE SparseFile
            WITH Positions <- 0 .. MaxPos,
                 content   <- [i \in 0 .. MaxPos |-> ByteAt(i)]

(* The device is a file: what scull_write puts at a position scull_read    *)
(* finds there, for every process, across items, arrays and blocks, until  *)
(* scull_trim; a write whose copy faults leaves the bytes before the fault *)
(* and zeros for the rest of its block, and nothing else.                  *)
ImplementsFile == File!Spec

=============================================================================
