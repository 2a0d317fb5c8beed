---------------------------- MODULE SparseFile -----------------------------
(***************************************************************************)
(* What a scull memory device promises: it is a file.  Positions that were *)
(* never written read as zero, a write replaces the bytes at the file      *)
(* position, even one that then fails, and opening may truncate.  How much *)
(* a single read or write moves is up to the device.                       *)
(***************************************************************************)
EXTENDS Naturals, Sequences

CONSTANTS
    Procs,      \* the processes, each with at most one file of the device
    Positions,  \* the positions of the file, an initial segment of Nat
    Byte,       \* the values of a byte
    Zero        \* the byte that was never written

VARIABLES
    content,    \* the byte at every position
    f_pos,      \* the position of each process's file
    got         \* what the last read of each process returned, until its next call

vars == <<content, f_pos, got>>

Init ==
    /\ content = [i \in Positions |-> Zero]
    /\ f_pos = [p \in Procs |-> 0]
    /\ got = [p \in Procs |-> << >>]

Close(p) ==
    /\ f_pos' = [f_pos EXCEPT ![p] = 0]
    /\ got' = [got EXCEPT ![p] = << >>]
    /\ UNCHANGED content

Forget(p) ==
    /\ got' = [got EXCEPT ![p] = << >>]
    /\ UNCHANGED <<content, f_pos>>

Truncate ==
    /\ UNCHANGED <<f_pos, got>>
    /\ content' = [i \in Positions |-> Zero]

Read(p, n) ==
    /\ got' = [got EXCEPT ![p] = [i \in 1 .. n |-> content[f_pos[p] + i - 1]]]
    /\ f_pos' = [f_pos EXCEPT ![p] = @ + n]
    /\ UNCHANGED content

Overwrite(p, bytes) ==
    content' = [i \in Positions |->
                  IF i \in f_pos[p] .. f_pos[p] + Len(bytes) - 1
                  THEN bytes[i - f_pos[p] + 1] ELSE content[i]]

Write(p, bytes) ==
    /\ f_pos' = [f_pos EXCEPT ![p] = @ + Len(bytes)]
    /\ UNCHANGED got
    /\ Overwrite(p, bytes)

(* A write that fails may have got some of its bytes to the file; zeros    *)
(* take the place of the others.  The position stays.                      *)
FailedWrite(p, bytes) ==
    /\ UNCHANGED <<f_pos, got>>
    /\ \E n \in 0 .. Len(bytes) - 1 :
          Overwrite(p, [i \in 1 .. Len(bytes) |-> IF i <= n THEN bytes[i] ELSE Zero])

Next ==
    \/ \E p \in Procs :
          \/ Close(p)
          \/ Forget(p)
          \/ \E n \in Positions \cup {i + 1 : i \in Positions} :
                /\ f_pos[p] + n - 1 \in Positions \cup {f_pos[p] - 1}
                /\ \/ Read(p, n)
                   \/ \E bytes \in [1 .. n -> Byte] : Write(p, bytes) \/ FailedWrite(p, bytes)
    \/ Truncate

Spec == Init /\ [][Next]_vars

=============================================================================
