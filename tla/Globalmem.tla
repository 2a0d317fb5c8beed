----------------------------- MODULE Globalmem ------------------------------
(***************************************************************************)
(* globalmem/globalmem.c: one fixed block of memory that processes read,   *)
(* write, seek in and clear.  No lock is taken: a copy or a clear goes     *)
(* byte by byte, and other calls come in between.  A process has at most   *)
(* one file, whose position only its own calls change.                     *)
(***************************************************************************)
EXTENDS Integers, Sequences

CONSTANTS
    Procs,           \* the processes
    Byte,            \* the values of a byte
    Zero,            \* the byte that kzalloc and memset store
    GLOBALMEM_SIZE,  \* the size of the memory
    UINT,            \* how many values an unsigned int has
    Offsets,         \* the offsets the processes seek to
    MaxRequest       \* bound: the largest count of a read or a write

Address == 0 .. GLOBALMEM_SIZE - 1

ASSUME GlobalmemAssumption ==
    /\ Zero \in Byte
    /\ GLOBALMEM_SIZE \in Nat \ {0}
    /\ UINT \in Nat /\ UINT > GLOBALMEM_SIZE /\ UINT > MaxRequest
    /\ Offsets \subseteq Int
    /\ MaxRequest \in Nat

VARIABLES
    mem,     \* the memory
    f_pos,   \* the position of each file
    call,    \* the call each process is in: its kind, pos, count and progress
    copied,  \* the bytes it has copied to or from the user
    alone,   \* history: the process whose call has met no other, in a set
    before,  \* history: the memory when that call began
    pc       \* "idle", or "copy" while in a call

vars == <<mem, f_pos, call, copied, alone, before, pc>>

NoCall == [kind |-> "none", pos |-> 0, count |-> 0, done |-> 0]

Blank == [i \in Address |-> Zero]

Finish(p) ==
    /\ pc' = [pc EXCEPT ![p] = "idle"]
    /\ call' = [call EXCEPT ![p] = NoCall]
    /\ copied' = [copied EXCEPT ![p] = << >>]
    /\ alone' = alone \ {p}
    /\ before' = IF p \in alone THEN Blank ELSE before

Start(p, kind, pos, count) ==
    /\ pc[p] = "idle"
    /\ pc' = [pc EXCEPT ![p] = "copy"]
    /\ call' = [call EXCEPT ![p] =
                   [kind |-> kind, pos |-> pos, count |-> count, done |-> 0]]
    /\ IF \A q \in Procs \ {p} : pc[q] = "idle"
       THEN alone' = {p} /\ before' = mem
       ELSE alone' = {} /\ before' = Blank
    /\ UNCHANGED <<mem, f_pos, copied>>

Copying(p, kind) ==
    /\ pc[p] = "copy"
    /\ call[p].kind = kind
    /\ call[p].done < call[p].count

Copied(p, kind) ==
    /\ pc[p] = "copy"
    /\ call[p].kind = kind
    /\ call[p].done = call[p].count

Advance(p) == call' = [call EXCEPT ![p].done = @ + 1]

Here(p) == call[p].pos + call[p].done

-----------------------------------------------------------------------------
(* Mutant: the count is not cut at the end of the memory.                  *)
Count_unclamped(p, size) == size

(* At or past the end both read and write return EINVAL.                   *)
Count(p, size) ==
    IF f_pos[p] + size >= GLOBALMEM_SIZE THEN GLOBALMEM_SIZE - f_pos[p] ELSE size

TransferCall(p, kind, size) ==
    /\ f_pos[p] < GLOBALMEM_SIZE
    /\ Start(p, kind, f_pos[p], Count(p, size))

(* copy_to_user or copy_from_user stops at a byte it cannot access.  The   *)
(* bytes before it are copied, and the position stays; copy_from_user then *)
(* sets the rest of the bytes in the memory to zero.                       *)
EFAULT(p) ==
    \/ /\ Copying(p, "read")
       /\ Finish(p)
       /\ UNCHANGED <<mem, f_pos>>
    \/ /\ Copying(p, "write")
       /\ call' = [call EXCEPT ![p].kind = "fault"]
       /\ UNCHANGED <<mem, f_pos, copied, alone, before, pc>>

(* memset, one byte at a time: of MEM_CLEAR, and of a write that faulted.  *)
memset(p, kind) ==
    \/ /\ Copying(p, kind)
       /\ mem' = [mem EXCEPT ![Here(p)] = Zero]
       /\ Advance(p)
       /\ UNCHANGED <<f_pos, copied, alone, before, pc>>
    \/ /\ Copied(p, kind)
       /\ Finish(p)
       /\ UNCHANGED <<mem, f_pos>>

globalmem_read_byte(p) ==
    /\ Copying(p, "read")
    /\ copied' = [copied EXCEPT ![p] = Append(@, mem[Here(p)])]
    /\ Advance(p)
    /\ UNCHANGED <<mem, f_pos, alone, before, pc>>

globalmem_read_return(p) ==
    /\ Copied(p, "read")
    /\ f_pos' = [f_pos EXCEPT ![p] = @ + call[p].count]
    /\ Finish(p)
    /\ UNCHANGED mem

globalmem_read(p) ==
    \/ \E size \in 0 .. MaxRequest : TransferCall(p, "read", size)
    \/ globalmem_read_byte(p)
    \/ globalmem_read_return(p)

globalmem_write_byte(p) ==
    /\ Copying(p, "write")
    /\ \E b \in Byte : /\ mem' = [mem EXCEPT ![Here(p)] = b]
                       /\ copied' = [copied EXCEPT ![p] = Append(@, b)]
    /\ Advance(p)
    /\ UNCHANGED <<f_pos, alone, before, pc>>

(* The position moves by count; the number returned is zero.               *)
globalmem_write_return(p) ==
    /\ Copied(p, "write")
    /\ f_pos' = [f_pos EXCEPT ![p] = @ + call[p].count]
    /\ Finish(p)
    /\ UNCHANGED mem

globalmem_write(p) ==
    \/ \E size \in 0 .. MaxRequest : TransferCall(p, "write", size)
    \/ globalmem_write_byte(p)
    \/ globalmem_write_return(p)
    \/ memset(p, "fault")

(* Mutant: the last byte is forgotten.                                     *)
globalmem_ioctl_short(p) ==
    \/ Start(p, "clear", 0, GLOBALMEM_SIZE - 1)
    \/ memset(p, "clear")

(* MEM_CLEAR *)
globalmem_ioctl(p) ==
    \/ Start(p, "clear", 0, GLOBALMEM_SIZE)
    \/ memset(p, "clear")

(* Where a seek that is not refused goes.  From the start the offset is    *)
(* converted to an unsigned int, from the position it is not.              *)
SeekTarget(p, offset, orig) ==
    IF orig = 0 THEN offset % UINT ELSE f_pos[p] + offset

globalmem_llseek(p, offset, orig) ==
    /\ pc[p] = "idle"
    /\ (IF orig = 0 THEN offset ELSE f_pos[p] + offset) >= 0
    /\ SeekTarget(p, offset, orig) < GLOBALMEM_SIZE
    /\ f_pos' = [f_pos EXCEPT ![p] = SeekTarget(p, offset, orig)]
    /\ UNCHANGED <<mem, call, copied, alone, before, pc>>

Init ==
    /\ mem = [i \in Address |-> Zero]
    /\ f_pos = [p \in Procs |-> 0]
    /\ call = [p \in Procs |-> NoCall]
    /\ copied = [p \in Procs |-> << >>]
    /\ alone = {}
    /\ before = Blank
    /\ pc = [p \in Procs |-> "idle"]

Operation(p) ==
    \/ globalmem_read(p)
    \/ globalmem_write(p)
    \/ EFAULT(p)
    \/ globalmem_ioctl(p)
    \/ \E offset \in Offsets, orig \in {0, 1} : globalmem_llseek(p, offset, orig)

Next == \E p \in Procs : Operation(p)

Spec == Init /\ [][Next]_vars

-----------------------------------------------------------------------------
(* Properties *)

(* Whatever is sought, read and written, a position is in the memory or    *)
(* just past it, and no copy in progress will leave the memory.            *)
InMemory ==
    \A p \in Procs :
        /\ f_pos[p] \in 0 .. GLOBALMEM_SIZE
        /\ call[p].pos >= 0 /\ call[p].pos + call[p].count <= GLOBALMEM_SIZE

(* What a call that has met no other leaves of the memory it found: a read *)
(* all of it; a write and a clear their bytes at their place, zeros where  *)
(* nothing was copied, and the rest as it was.                             *)
After(p) ==
    [i \in Address |->
        LET n == i - call[p].pos + 1
        IN  IF call[p].kind = "read" \/ n \notin 1 .. call[p].count THEN before[i]
            ELSE IF n <= Len(copied[p]) THEN copied[p][n] ELSE Zero]

(* Between calls that do not overlap the memory is a file, although each   *)
(* call goes byte by byte without a lock: a read gives what is there, a    *)
(* write, whole or cut short by a fault, changes the bytes from its        *)
(* position on and no others, a clear all of them, and the position moves  *)
(* by what was transferred.                                                *)
FileBetweenCalls ==
    [][\A p \in alone :
          pc'[p] = "idle" =>
             /\ mem' = After(p)
             /\ call[p].kind = "clear" => mem' = Blank
             /\ call[p].kind = "read" =>
                   \A n \in 1 .. Len(copied[p]) : copied[p][n] = before[call[p].pos + n - 1]
             /\ \/ f_pos'[p] = f_pos[p] + Len(copied[p])
                \/ f_pos'[p] = f_pos[p] /\ Len(copied[p]) < call[p].count]_vars

=============================================================================
