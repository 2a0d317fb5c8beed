---------------------------- MODULE BoundedFifo ----------------------------
(***************************************************************************)
(* What a scull pipe device promises the processes that use it, whatever   *)
(* it does inside: one first-in first-out stream of bytes, of a bounded    *)
(* length, shared by every process that has the device open.  A write      *)
(* appends some bytes, a read takes some from the front, and bytes are     *)
(* dropped only when nobody is left who could read or write them.          *)
(***************************************************************************)
EXTENDS Naturals, Sequences

CONSTANTS
    Procs,      \* the processes
    Byte,       \* the values a byte may have
    Capacity    \* how many bytes the stream may hold

VARIABLES
    stream,     \* the bytes written and not yet read, oldest first
    delivered,  \* what the read in progress of each process has taken
    users       \* the processes that have the device open to read or to write

vars == <<stream, delivered, users>>

Init ==
    /\ stream = << >>
    /\ delivered = [p \in Procs |-> << >>]
    /\ users = {}

Open(p) ==
    /\ users' = users \cup {p}
    /\ UNCHANGED <<stream, delivered>>

(* The bytes nobody has read survive a close, except that the last one may *)
(* throw them away.                                                        *)
Close(p) ==
    /\ users' = users \ {p}
    /\ stream' = stream \/ (users' = {} /\ stream' = << >>)
    /\ UNCHANGED delivered

Put(p, bytes) ==
    /\ p \in users
    /\ Len(stream) + Len(bytes) <= Capacity
    /\ stream' = stream \o bytes
    /\ UNCHANGED <<delivered, users>>

Get(p, n) ==
    /\ p \in users
    /\ delivered[p] = << >>
    /\ n <= Len(stream)
    /\ delivered' = [delivered EXCEPT ![p] = SubSeq(stream, 1, n)]
    /\ stream' = SubSeq(stream, n + 1, Len(stream))
    /\ UNCHANGED users

Return(p) ==
    /\ delivered' = [delivered EXCEPT ![p] = << >>]
    /\ UNCHANGED <<stream, users>>

Next ==
    \E p \in Procs :
        \/ Open(p)
        \/ Close(p)
        \/ \E n \in 0 .. Capacity : \E bytes \in [1 .. n -> Byte] : Put(p, bytes)
        \/ \E n \in 0 .. Capacity : Get(p, n)
        \/ Return(p)

Spec == Init /\ [][Next]_vars

=============================================================================
