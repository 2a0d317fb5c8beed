--------------------------- MODULE ScullMemProofs ---------------------------
(* Proofs about ScullMem, for any processes, geometries and bounds.        *)
EXTENDS ScullMem, FiniteSetTheorems, SequenceTheorems, TLAPS

-----------------------------------------------------------------------------
(* The semaphore, whoever truncates when.                                  *)

PcType == pc \in [Procs -> Steps]

SemInv == PcType /\ SemaphoreExact

(* A step of p takes the semaphore, gives it back, or does neither.        *)
SemMove(p) ==
    /\ pc' = [pc EXCEPT ![p] = pc'[p]]
    /\ pc'[p] \in Steps
    /\ \/ sem > 0 /\ sem' = sem - 1 /\ pc[p] \notin CriticalSteps /\ pc'[p] \in CriticalSteps
       \/ sem' = sem + 1 /\ pc[p] \in CriticalSteps /\ pc'[p] \notin CriticalSteps
       \/ sem' = sem /\ (pc[p] \in CriticalSteps <=> pc'[p] \in CriticalSteps)

LEMMA SemKeeps ==
    ASSUME SemInv, NEW p \in Procs, SemMove(p)
    PROVE  SemInv'
  <1>1. PcType' /\ \A q \in Procs \ {p} : pc'[q] = pc[q]
    BY DEF SemInv, PcType, SemMove
  <1>2. CASE sem > 0 /\ sem' = sem - 1 /\ pc[p] \notin CriticalSteps /\ pc'[p] \in CriticalSteps
    BY <1>1, <1>2 DEF SemInv, SemaphoreExact, InCritical
  <1>3. CASE sem' = sem + 1 /\ pc[p] \in CriticalSteps /\ pc'[p] \notin CriticalSteps
    BY <1>1, <1>3 DEF SemInv, SemaphoreExact, InCritical
  <1>4. CASE sem' = sem /\ (pc[p] \in CriticalSteps <=> pc'[p] \in CriticalSteps)
    BY <1>1, <1>4 DEF SemInv, SemaphoreExact, InCritical
  <1>5. QED
    BY <1>2, <1>3, <1>4 DEF SemMove

LEMMA SemCalls ==
    ASSUME SemInv, NEW p \in Procs,
           \/ scull_open(p) \/ scull_trim_free(p) \/ scull_trim_reset(p) \/ scull_release(p)
           \/ scull_ioctl(p) \/ ReadCall(p) \/ WriteCall(p)
           \/ ReportCall(p, "p_down") \/ ReportCall(p, "s_down") \/ Signal(p)
    PROVE  SemMove(p)
  <1> USE DEF SemInv, PcType, SemMove, Goto, Return, Steps, CriticalSteps
  <1>1. CASE scull_open(p)
    BY <1>1 DEF scull_open
  <1>2. CASE scull_trim_free(p)
    BY <1>2 DEF scull_trim_free
  <1>3. CASE scull_trim_reset(p)
    BY <1>3 DEF scull_trim_reset
  <1>4. CASE scull_release(p)
    BY <1>4 DEF scull_release
  <1>5. CASE scull_ioctl(p)
    BY <1>5 DEF scull_ioctl
  <1>6. CASE ReadCall(p)
    BY <1>6 DEF ReadCall
  <1>7. CASE WriteCall(p)
    BY <1>7 DEF WriteCall
  <1>8. CASE ReportCall(p, "p_down") \/ ReportCall(p, "s_down")
    BY <1>8 DEF ReportCall
  <1>9. CASE Signal(p)
    BY <1>9 DEF Signal
  <1>10. QED
    BY <1>1, <1>2, <1>3, <1>4, <1>5, <1>6, <1>7, <1>8, <1>9

LEMMA SemDowns ==
    ASSUME SemInv, NEW p \in Procs,
           NEW from \in {"r_down", "w_down", "p_down", "s_down"}, NEW to \in CriticalSteps,
           Down(p, from, to) \/ DownInterrupted(p, from)
    PROVE  SemMove(p)
  BY DEF SemInv, PcType, SemMove, Goto, Return, Steps, CriticalSteps, Down, DownInterrupted

LEMMA SemReads ==
    ASSUME SemInv, NEW p \in Procs,
           \/ scull_read_eof(p) \/ scull_read_find(p) \/ scull_read_ENOMEM(p)
           \/ scull_read_EFAULT(p) \/ \E request \in 0 .. MaxRequest : scull_read_copy(p, request)
    PROVE  SemMove(p)
  <1> USE DEF SemInv, PcType, SemMove, Goto, Return, Steps, CriticalSteps, Up
  <1>1. CASE scull_read_eof(p)
    BY <1>1 DEF scull_read_eof
  <1>2. CASE scull_read_find(p)
    <2>1. /\ pc[p] = "r_find"
          /\ \/ pc' = [pc EXCEPT ![p] = "open"] /\ sem' = sem + 1
             \/ pc' = [pc EXCEPT ![p] = "r_copy"] /\ sem' = sem
      BY <1>2 DEF scull_read_find
    <2>2. QED
      BY <2>1
  <1>3. CASE scull_read_ENOMEM(p)
    BY <1>3 DEF scull_read_ENOMEM
  <1>4. CASE scull_read_EFAULT(p)
    BY <1>4 DEF scull_read_EFAULT
  <1>5. ASSUME NEW request \in 0 .. MaxRequest, scull_read_copy(p, request)
        PROVE  SemMove(p)
    BY <1>5 DEF scull_read_copy
  <1>6. QED
    BY <1>1, <1>2, <1>3, <1>4, <1>5

LEMMA SemWrites ==
    ASSUME SemInv, NEW p \in Procs,
           \/ scull_write_find(p) \/ scull_write_ENOMEM(p)
           \/ \E request \in 0 .. MaxRequest :
                 scull_write_EFAULT(p, request) \/ scull_write_copy(p, request)
           \/ ReportWalk(p, "p_walk") \/ ReportWalk(p, "s_walk")
    PROVE  SemMove(p)
  <1> USE DEF SemInv, PcType, SemMove, Goto, Return, Steps, CriticalSteps, Up
  <1>1. CASE scull_write_find(p)
    <2>1. /\ pc[p] = "w_find"
          /\ \/ pc' = [pc EXCEPT ![p] = "open"] /\ sem' = sem + 1
             \/ pc' = [pc EXCEPT ![p] = "w_copy"] /\ sem' = sem
      BY <1>1 DEF scull_write_find
    <2>2. QED
      BY <2>1
  <1>2. CASE scull_write_ENOMEM(p)
    BY <1>2 DEF scull_write_ENOMEM
  <1>3. ASSUME NEW request \in 0 .. MaxRequest, scull_write_EFAULT(p, request)
        PROVE  SemMove(p)
    BY <1>3 DEF scull_write_EFAULT
  <1>4. ASSUME NEW request \in 0 .. MaxRequest, scull_write_copy(p, request)
        PROVE  SemMove(p)
    BY <1>4 DEF scull_write_copy
  <1>5. CASE ReportWalk(p, "p_walk") \/ ReportWalk(p, "s_walk")
    BY <1>5 DEF ReportWalk
  <1>6. QED
    BY <1>1, <1>2, <1>3, <1>4, <1>5

LEMMA SemAlways == Spec => []SemInv
  <1>1. Init => SemInv
    BY DEF Init, SemInv, PcType, SemaphoreExact, InCritical, Steps, CriticalSteps
  <1>2. SemInv /\ [Next]_vars => SemInv'
    <2> SUFFICES ASSUME SemInv, [Next]_vars
                 PROVE  SemInv'
      OBVIOUS
    <2>1. ASSUME NEW p \in Procs, scull_read(p)
          PROVE  SemMove(p)
      BY <2>1, SemCalls, SemDowns, SemReads DEF scull_read, CriticalSteps
    <2>2. ASSUME NEW p \in Procs, scull_write(p)
          PROVE  SemMove(p)
      BY <2>2, SemCalls, SemDowns, SemWrites DEF scull_write, CriticalSteps
    <2>3. ASSUME NEW p \in Procs, proc_read(p) \/ scull_seq_show(p)
          PROVE  SemMove(p)
      BY <2>3, SemCalls, SemDowns, SemWrites DEF proc_read, scull_seq_show, CriticalSteps
    <2>4. CASE Next
      BY <2>1, <2>2, <2>3, <2>4, SemCalls, SemKeeps DEF Next
    <2>5. CASE UNCHANGED vars
      BY <2>5 DEF vars, SemInv, PcType, SemaphoreExact, InCritical
    <2>6. QED
      BY <2>4, <2>5
  <1>3. QED
    BY <1>1, <1>2, PTL DEF Spec

(* Every path through read, write and the readers of /proc gives back      *)
(* exactly what it took of dev->sem, also where it fails or is interrupted,*)
(* and one call at a time is between its down and its up.                  *)
THEOREM SemaphoreKept == Spec => []SemaphoreExact
  <1>1. SemInv => SemaphoreExact
    BY DEF SemInv
  <1>2. QED
    BY <1>1, SemAlways, PTL

-----------------------------------------------------------------------------
(* Arithmetic of the geometry.                                             *)

LEMMA DivMod ==
    ASSUME NEW m \in Nat \ {0}, NEW i \in Nat
    PROVE  /\ i \div m \in Nat /\ (i % m) \in 0 .. m - 1
           /\ i = m * (i \div m) + (i % m)
  OBVIOUS

(* Quotient and remainder are unique.                                      *)
LEMMA SameDivMod ==
    ASSUME NEW m \in Nat \ {0}, NEW a \in Int, NEW b \in Int,
           NEW r \in 0 .. m - 1, NEW s \in 0 .. m - 1, m * a + r = m * b + s
    PROVE  a = b /\ r = s
  <1>1. m * (a - b) = s - r
    OBVIOUS
  <1>2. CASE a - b >= 1
    <2>1. m * (a - b) >= m
      BY <1>2
    <2>2. QED
      BY <1>1, <2>1
  <1>3. CASE a - b <= -1
    <2>1. m * (b - a) >= m
      BY <1>3
    <2>2. m * (b - a) = r - s
      OBVIOUS
    <2>3. QED
      BY <2>1, <2>2
  <1>4. CASE a = b
    BY <1>4
  <1>5. QED
    BY <1>2, <1>3, <1>4

LEMMA DivModUnique ==
    ASSUME NEW m \in Nat \ {0}, NEW i \in Nat, NEW k \in Nat, NEW r \in 0 .. m - 1,
           i = m * k + r
    PROVE  i \div m = k /\ (i % m) = r
  BY DivMod, SameDivMod

LEMMA ItemSize ==
    ASSUME NEW q \in Nat \ {0}, NEW n \in Nat \ {0}
    PROVE  q * n \in Nat \ {0}
  OBVIOUS

(* The item, the slot and the offset of position i, when an item is n      *)
(* blocks of q bytes, are those of block number i \div q.                  *)
LEMMA Nested ==
    ASSUME NEW q \in Nat \ {0}, NEW n \in Nat \ {0}, NEW i \in Nat
    PROVE  /\ i \div (q * n) = (i \div q) \div n
           /\ (i % (q * n)) \div q = (i \div q) % n
           /\ (i % (q * n)) % q = i % q
  <1> DEFINE b == i \div q
             o == i % q
             k == b \div n
             s == b % n
  <1>1. b \in Nat /\ o \in 0 .. q - 1 /\ i = q * b + o
    BY DivMod
  <1> HIDE DEF b, o
  <1>2. k \in Nat /\ s \in 0 .. n - 1 /\ b = n * k + s
    BY <1>1, DivMod
  <1> HIDE DEF k, s
  <1>3. i = (q * n) * k + (q * s + o)
    <2>1. q * b = q * (n * k) + q * s
      BY <1>1, <1>2
    <2>2. q * (n * k) = (q * n) * k
      BY <1>2
    <2>3. (q * n) \in Int /\ (q * n) * k \in Int /\ q * s \in Int
      BY <1>2
    <2>4. QED
      BY <1>1, <2>1, <2>2, <2>3
  <1>4. q * s + o \in 0 .. (q * n) - 1
    <2>1. q * s <= q * (n - 1)
      BY <1>2
    <2>2. q * (n - 1) = q * n - q
      OBVIOUS
    <2>3. q * s \in Nat /\ q * n \in Nat
      BY <1>2
    <2>4. QED
      BY <1>1, <2>1, <2>2, <2>3
  <1>5. i \div (q * n) = k /\ (i % (q * n)) = q * s + o
    BY <1>2, <1>3, <1>4, DivModUnique, ItemSize
  <1>6. (q * s + o) \div q = s /\ ((q * s + o) % q) = o
    <2>1. q * s + o \in Nat
      BY <1>1, <1>2
    <2>2. QED
      BY <1>1, <1>2, <2>1, DivModUnique
  <1>7. QED
    BY <1>5, <1>6 DEF b, o, k, s

ItemOf(i, q, n)   == i \div (q * n)
SlotOf(i, q, n)   == (i % (q * n)) \div q
OffsetOf(i, q, n) == (i % (q * n)) % q

LEMMA InGeometry ==
    ASSUME NEW q \in Nat \ {0}, NEW n \in Nat \ {0}, NEW i \in Nat
    PROVE  /\ ItemOf(i, q, n) \in Nat /\ SlotOf(i, q, n) \in Nat /\ OffsetOf(i, q, n) \in Nat
           /\ SlotOf(i, q, n) \in 0 .. n - 1 /\ OffsetOf(i, q, n) \in 0 .. q - 1
           /\ OffsetOf(i, q, n) = (i % q)
  <1>1. i \div q \in Nat /\ (i % q) \in 0 .. q - 1
    BY DivMod
  <1>2. ((i \div q) % n) \in 0 .. n - 1
    BY <1>1, DivMod
  <1>3. ItemOf(i, q, n) \in Nat
    BY DivMod, ItemSize DEF ItemOf
  <1>4. SlotOf(i, q, n) = ((i \div q) % n)
    BY Nested DEF SlotOf
  <1>5. OffsetOf(i, q, n) = (i % q)
    BY Nested DEF OffsetOf
  <1>6. QED
    BY <1>1, <1>2, <1>3, <1>4, <1>5

-----------------------------------------------------------------------------
(* The memory, when a truncating open is alone.                            *)

Blocks == [0 .. scull_alloc - 1 -> Byte \cup {Zero, Junk}]
Arrays == [0 .. qset - 1 -> {NULL} \cup Blocks]
Lists  == Seq({NULL} \cup Arrays)

CallType == [head : BOOLEAN, quantum : Nat, qset : Nat, left : Int,
             item : Nat, s_pos : Nat, q_pos : Nat]

ScalarTypes ==
    /\ type \in {"basic", "c", "p"}
    /\ scull_quantum \in Nat \ {0} /\ scull_qset_n \in Nat \ {0}
    /\ quantum \in Nat \ {0} /\ qset \in Nat \ {0}
    /\ size \in Nat
    /\ f_pos \in [Procs -> Nat]
    /\ call \in [Procs -> CallType]

(* What makes a block of scull_alloc bytes hold a quantum: only scull has  *)
(* the ioctl, and scullp starts with a page for its quantum.               *)
QuantumFits ==
    /\ type # "basic" => scull_quantum = QUANTUM_SIZE
    /\ type = "c" => quantum = QUANTUM_SIZE
    /\ type = "p" => quantum <= PAGE

TransferSteps == {"r_down", "r_find", "r_copy", "w_down", "w_find", "w_copy"}
IdleSteps     == {"closed", "open", "o_trim", "o_reset"}
TrimSteps     == {"o_trim", "o_reset"}
CopySteps     == {"r_copy", "w_copy"}

Alone == \A p \in Procs : pc[p] \in TrimSteps => \A q \in Procs \ {p} : pc[q] = "closed"

(* What a call sampled before its down is still so, and what it found is   *)
(* still there.                                                            *)
Current(p) ==
    /\ pc[p] \in IdleSteps => ~call[p].head
    /\ pc[p] \in TransferSteps => /\ call[p].quantum = quantum /\ call[p].qset = qset
                                  /\ ~call[p].head
    /\ call[p].head => data # << >>
    /\ pc[p] \in CopySteps => /\ call[p].item = ItemOf(f_pos[p], quantum, qset)
                              /\ call[p].s_pos = SlotOf(f_pos[p], quantum, qset)
                              /\ call[p].q_pos = OffsetOf(f_pos[p], quantum, qset)
                              /\ call[p].item + 1 \in 1 .. Len(data)
                              /\ ArrayAt(data, call[p].item) \in Arrays
                              /\ BlockAt(data, call[p]) \in Blocks

Clean == ~wild /\ dangling = {} /\ (freed => \E p \in Procs : pc[p] = "o_reset")

MemInv ==
    /\ SemInv /\ ScalarTypes /\ QuantumFits /\ Alone /\ Clean
    /\ data \in Lists
    /\ \A p \in Procs : Current(p)

LEMMA AllocHolds ==
    ASSUME ScalarTypes, QuantumFits
    PROVE  scull_alloc \in Nat \ {0} /\ quantum <= scull_alloc
  BY MemAssumption DEF ScalarTypes, QuantumFits, scull_alloc

(* Every step of p that is not a step of a trim leaves the geometry alone. *)
SameGeometry == UNCHANGED <<type, quantum, qset>>

LEMMA SameBlocks ==
    ASSUME SameGeometry
    PROVE  /\ scull_alloc' = scull_alloc
           /\ Blocks' = Blocks /\ Arrays' = Arrays /\ Lists' = Lists
  BY DEF SameGeometry, scull_alloc, Blocks, Arrays, Lists

(* scull_follow extends the list with empty items.                         *)
LEMMA Follow ==
    ASSUME MemInv, NEW item \in Int, item >= -1
    PROVE  /\ scull_follow(item) \in Lists
           /\ Len(scull_follow(item)) >= Len(data) /\ Len(scull_follow(item)) >= item + 1
           /\ Len(scull_follow(item)) \in Nat
           /\ \A n \in 1 .. Len(scull_follow(item)) :
                 scull_follow(item)[n] = IF n <= Len(data) THEN data[n] ELSE NULL
           /\ data # << >> => scull_follow(item) # << >>
  <1> DEFINE S == {NULL} \cup Arrays
             n == IF Len(data) > item THEN Len(data) ELSE item + 1
             list == [i \in 1 .. n |-> IF i <= Len(data) THEN data[i] ELSE NULL]
  <1>1. data \in Seq(S) /\ Len(data) \in Nat
    BY LenProperties DEF MemInv, Lists
  <1>2. n \in Nat /\ n >= Len(data) /\ n >= item + 1
    BY <1>1
  <1>3. \A i \in 1 .. n : (IF i <= Len(data) THEN data[i] ELSE NULL) \in S
    BY <1>1, ElementOfSeq
  <1> HIDE DEF n, S
  <1>4. list \in Seq(S) /\ Len(list) = n
    BY <1>2, <1>3
  <1>5. scull_follow(item) = list
    BY DEF scull_follow, n
  <1>6. data # << >> => list # << >>
    <2>1. data # << >> => Len(data) # 0
      BY <1>1, EmptySeq
    <2>2. list = << >> => Len(list) = 0
      BY <1>4, EmptySeq
    <2>3. QED
      BY <1>1, <1>2, <1>4, <2>1, <2>2
  <1>7. QED
    BY <1>1, <1>2, <1>4, <1>5, <1>6 DEF Lists, S

(* Where a transfer goes, by what it sampled.                              *)
LEMMA PlaceIs ==
    ASSUME MemInv, NEW p \in Procs, pc[p] \in TransferSteps
    PROVE  /\ Place(p) \in CallType
           /\ Place(p).quantum = quantum /\ Place(p).qset = qset /\ ~Place(p).head
           /\ Place(p).left = call[p].left
           /\ Place(p).item = ItemOf(f_pos[p], quantum, qset)
           /\ Place(p).s_pos = SlotOf(f_pos[p], quantum, qset)
           /\ Place(p).q_pos = OffsetOf(f_pos[p], quantum, qset)
           /\ Place(p).item \in Nat
           /\ Place(p).s_pos \in 0 .. qset - 1
           /\ Place(p).q_pos \in 0 .. quantum - 1
  <1> DEFINE it == ItemOf(f_pos[p], quantum, qset)
             sp == SlotOf(f_pos[p], quantum, qset)
             qp == OffsetOf(f_pos[p], quantum, qset)
  <1>1. /\ f_pos[p] \in Nat /\ quantum \in Nat \ {0} /\ qset \in Nat \ {0}
        /\ call[p] \in CallType /\ call[p].quantum = quantum /\ call[p].qset = qset
        /\ ~call[p].head
    BY DEF MemInv, ScalarTypes, Current
  <1>2. /\ it \in Nat /\ sp \in Nat /\ qp \in Nat
        /\ sp \in 0 .. qset - 1 /\ qp \in 0 .. quantum - 1
    BY <1>1, InGeometry
  <1>3. Place(p) = [call[p] EXCEPT !.item = it, !.s_pos = sp, !.q_pos = qp]
    BY <1>1 DEF Place, ItemOf, SlotOf, OffsetOf
  <1> HIDE DEF it, sp, qp
  <1>4. QED
    <2>1. Place(p) \in CallType
      BY <1>1, <1>2, <1>3 DEF CallType
    <2>2. /\ Place(p).quantum = call[p].quantum /\ Place(p).qset = call[p].qset
          /\ Place(p).left = call[p].left
          /\ Place(p).item = it /\ Place(p).s_pos = sp /\ Place(p).q_pos = qp
      BY <1>1, <1>3 DEF CallType
    <2>3. Place(p).head = call[p].head
      BY <1>1, <1>3 DEF CallType
    <2>4. QED
      BY <1>1, <1>2, <2>1, <2>2, <2>3 DEF it, sp, qp

(* A step of p that is not a step of a trim: what it may change, and what  *)
(* it has to leave true for p itself.                                      *)
Keep(p) ==
    /\ pc[p] \notin TrimSteps
    /\ pc'[p] \in TrimSteps => \A q \in Procs \ {p} : pc[q] = "closed"
    /\ (\E q \in Procs \ {p} : pc[q] \in TrimSteps) => pc'[p] = "closed"
    /\ call' = [call EXCEPT ![p] = call'[p]] /\ call'[p] \in CallType
    /\ f_pos' = [f_pos EXCEPT ![p] = f_pos'[p]] /\ f_pos'[p] \in Nat
    /\ size' \in Nat /\ UNCHANGED <<globals, quantum, qset>>
    /\ ~wild' /\ dangling' = {} /\ freed' = freed
    /\ data' \in Lists /\ (data # << >> => data' # << >>)
    /\ data' = data \/ pc[p] \in CriticalSteps
    /\ Current(p)'

LEMMA KeepsInv ==
    ASSUME MemInv, NEW p \in Procs, SemMove(p), Keep(p)
    PROVE  MemInv'
  <1>1. /\ SemInv' /\ \A q \in Procs \ {p} : pc'[q] = pc[q] /\ call'[q] = call[q]
                                               /\ f_pos'[q] = f_pos[q]
    BY SemKeeps DEF MemInv, SemInv, PcType, SemMove, Keep, ScalarTypes
  <1>2. ScalarTypes' /\ QuantumFits'
    BY DEF MemInv, ScalarTypes, QuantumFits, Keep, globals
  <1>3. Alone'
    BY <1>1 DEF MemInv, Alone, Keep, TrimSteps
  <1>4. Clean'
    BY <1>1 DEF MemInv, Clean, Keep, TrimSteps
  <1>5. /\ quantum' = quantum /\ qset' = qset /\ type' = type
        /\ Blocks' = Blocks /\ Arrays' = Arrays /\ Lists' = Lists
    BY SameBlocks DEF Keep, SameGeometry, globals
  <1>6. data' \in Lists'
    BY <1>5 DEF Keep
  <1>7. ASSUME NEW q \in Procs
        PROVE  Current(q)'
    <2>1. CASE q = p
      BY <2>1 DEF Keep
    <2>2. CASE q # p
      <3>1. pc'[q] = pc[q] /\ call'[q] = call[q] /\ f_pos'[q] = f_pos[q] /\ Current(q)
        BY <1>1, <2>2 DEF MemInv
      <3>2. pc[q] \in CopySteps => data' = data
        BY <2>2 DEF Keep, MemInv, SemInv, SemaphoreExact, InCritical, CriticalSteps, CopySteps
      <3>3. QED
        BY <1>5, <3>1, <3>2 DEF Current, Keep, ArrayAt, BlockAt
    <2>3. QED
      BY <2>1, <2>2
  <1>8. QED
    BY <1>1, <1>2, <1>3, <1>4, <1>6, <1>7 DEF MemInv

(* Nobody truncates beside a process that uses the device.                 *)
LEMMA NoTrimmer ==
    ASSUME MemInv, NEW p \in Procs, pc[p] \notin TrimSteps \cup {"closed"}
    PROVE  ~freed /\ \A q \in Procs : pc[q] \notin TrimSteps
  BY DEF MemInv, Alone, Clean, TrimSteps

(* A step inside a call, by a process that goes on in it.                  *)
LEMMA KeepInside ==
    ASSUME MemInv, NEW p \in Procs, SemMove(p), pc[p] \notin TrimSteps \cup {"closed"},
           pc'[p] \notin TrimSteps,
           UNCHANGED <<globals, quantum, qset, freed>>, size' \in Nat,
           call' = [call EXCEPT ![p] = call'[p]], call'[p] \in CallType,
           f_pos' = [f_pos EXCEPT ![p] = f_pos'[p]], f_pos'[p] \in Nat,
           ~wild', dangling' = {},
           data' \in Lists, data # << >> => data' # << >>,
           data' = data \/ pc[p] \in CriticalSteps, Current(p)'
    PROVE  Keep(p)
  BY NoTrimmer DEF Keep

(* A step that returns from a system call.                                 *)
LEMMA KeepReturn ==
    ASSUME MemInv, NEW p \in Procs, SemMove(p), pc[p] \notin TrimSteps \cup {"closed"}, Return(p),
           UNCHANGED <<globals, quantum, qset, freed>>, size' \in Nat,
           f_pos' = [f_pos EXCEPT ![p] = f_pos'[p]], f_pos'[p] \in Nat,
           ~wild', dangling' = {},
           data' \in Lists, data # << >> => data' # << >>,
           data' = data \/ pc[p] \in CriticalSteps
    PROVE  Keep(p)
  <1>1. NoCall \in CallType /\ ~NoCall.head
    BY DEF NoCall, CallType
  <1>2. pc'[p] \in {"closed", "open"} /\ call'[p] = NoCall
    BY DEF Return, Goto, MemInv, SemInv, PcType, ScalarTypes
  <1>3. Current(p)'
    BY <1>1, <1>2 DEF Current, IdleSteps, TransferSteps, CopySteps
  <1>4. call' = [call EXCEPT ![p] = call'[p]]
    BY <1>2 DEF Return
  <1>5. QED
    BY <1>1, <1>2, <1>3, <1>4, KeepInside DEF TrimSteps

LEMMA Unmoved ==
    ASSUME MemInv, NEW p \in Procs
    PROVE  /\ f_pos[p] \in Nat /\ call[p] \in CallType /\ size \in Nat /\ data \in Lists
           /\ f_pos = [f_pos EXCEPT ![p] = f_pos[p]] /\ call = [call EXCEPT ![p] = call[p]]
           /\ ~wild /\ dangling = {} /\ Current(p)
  BY DEF MemInv, ScalarTypes, Clean

-----------------------------------------------------------------------------
(* The steps outside the critical section.                                 *)

LEMMA OpenKeeps ==
    ASSUME TrimAlone, MemInv, NEW p \in Procs, scull_open(p)
    PROVE  Keep(p)
  <1>1. /\ pc[p] = "closed" /\ pc'[p] \in {"open", "o_trim"}
        /\ \A q \in Procs \ {p} : pc[q] \notin TrimSteps
        /\ pc'[p] = "o_trim" => \A q \in Procs \ {p} : pc[q] = "closed"
        /\ \A q \in Procs \ {p} : pc'[q] = pc[q]
    BY DEF scull_open, Others, Goto, MemInv, SemInv, PcType, TrimSteps
  <1>2. /\ UNCHANGED <<globals, quantum, qset, size, data, freed, f_pos, call>>
        /\ wild' = wild /\ dangling' = dangling
    BY DEF scull_open, shape, memory, calls
  <1>3. Current(p)'
    BY <1>1, <1>2 DEF MemInv, Current, IdleSteps, TransferSteps, CopySteps
  <1>4. QED
    BY <1>1, <1>2, <1>3, Unmoved DEF Keep, TrimSteps

LEMMA ReleaseKeeps ==
    ASSUME MemInv, NEW p \in Procs, scull_release(p)
    PROVE  Keep(p)
  <1>1. pc[p] = "open" /\ pc'[p] = "closed" /\ f_pos' = [f_pos EXCEPT ![p] = 0] /\ f_pos'[p] = 0
    BY DEF scull_release, Goto, MemInv, SemInv, PcType, ScalarTypes
  <1>2. /\ UNCHANGED <<globals, quantum, qset, size, data, freed, call>>
        /\ wild' = wild /\ dangling' = dangling
    BY DEF scull_release, shape, memory
  <1>3. Current(p)'
    BY <1>1, <1>2 DEF MemInv, Current, IdleSteps, TransferSteps, CopySteps
  <1>4. SemMove(p)
    BY SemCalls DEF MemInv
  <1>5. QED
    BY <1>1, <1>2, <1>3, <1>4, Unmoved, KeepInside, ZenonT(30) DEF TrimSteps

(* What Sample stores.                                                     *)
Fresh(q, n, left) == [NoCall EXCEPT !.quantum = q, !.qset = n, !.left = left]

LEMMA Sampled ==
    ASSUME NEW q \in Nat, NEW n \in Nat, NEW left \in Int
    PROVE  /\ Fresh(q, n, left) \in CallType /\ ~Fresh(q, n, left).head
           /\ Fresh(q, n, left).quantum = q /\ Fresh(q, n, left).qset = n
           /\ Fresh(q, n, left).left = left
  <1>1. NoCall \in CallType
    BY DEF NoCall, CallType
  <1>2. Fresh(q, n, left) \in CallType
    BY <1>1 DEF CallType, Fresh
  <1>3. /\ Fresh(q, n, left).quantum = q /\ Fresh(q, n, left).qset = n
        /\ Fresh(q, n, left).left = left
    BY <1>1 DEF CallType, Fresh
  <1>4. ~Fresh(q, n, left).head
    BY DEF NoCall, Fresh
  <1>5. QED
    BY <1>2, <1>3, <1>4

LEMMA SampleKeeps ==
    ASSUME MemInv, NEW p \in Procs, ReadCall(p) \/ WriteCall(p)
    PROVE  Keep(p)
  <1> DEFINE new == Fresh(quantum, qset, size - f_pos[p])
  <1>1. pc[p] = "open" /\ pc'[p] \in {"r_down", "w_down"}
    BY DEF ReadCall, WriteCall, Goto, MemInv, SemInv, PcType
  <1>2. /\ UNCHANGED <<globals, quantum, qset, size, data, freed, f_pos>>
        /\ wild' = wild /\ dangling' = dangling
    BY DEF ReadCall, WriteCall, shape, memory
  <1>3. call' = [call EXCEPT ![p] = new]
    BY DEF ReadCall, WriteCall, Sample, Fresh
  <1>4. call'[p] = new
    BY <1>3 DEF MemInv, ScalarTypes
  <1>5. /\ new \in CallType /\ new.quantum = quantum /\ new.qset = qset /\ ~new.head
        /\ new.left = size - f_pos[p]
    <2>1. quantum \in Nat /\ qset \in Nat /\ size - f_pos[p] \in Int
      BY Unmoved DEF MemInv, ScalarTypes
    <2>2. QED
      BY <2>1, Sampled
  <1> HIDE DEF new
  <1>6. Current(p)'
    BY <1>1, <1>2, <1>4, <1>5 DEF Current, IdleSteps, TransferSteps, CopySteps
  <1>7. SemMove(p)
    BY SemCalls DEF MemInv
  <1>8. QED
    BY <1>1, <1>2, <1>3, <1>4, <1>5, <1>6, <1>7, Unmoved, KeepInside DEF TrimSteps

LEMMA DownKeeps ==
    ASSUME MemInv, NEW p \in Procs,
           \/ Down(p, "r_down", "r_find") \/ Down(p, "w_down", "w_find")
           \/ Down(p, "p_down", "p_walk") \/ Down(p, "s_down", "s_walk")
    PROVE  Keep(p)
  <1>1. \/ pc[p] \in {"r_down", "w_down"} /\ pc'[p] \in {"r_find", "w_find"}
        \/ pc[p] \in {"p_down", "s_down"} /\ pc'[p] \in {"p_walk", "s_walk"}
    BY DEF Down, Goto, MemInv, SemInv, PcType
  <1>2. /\ UNCHANGED <<globals, quantum, qset, size, data, freed, f_pos, call>>
        /\ wild' = wild /\ dangling' = dangling
    BY DEF Down, shape, memory, calls
  <1>3. Current(p)'
    BY <1>1, <1>2 DEF MemInv, Current, IdleSteps, TransferSteps, CopySteps
  <1>4. SemMove(p)
    BY SemDowns DEF MemInv, CriticalSteps
  <1>5. QED
    BY <1>1, <1>2, <1>3, <1>4, Unmoved, KeepInside DEF TrimSteps

LEMMA InterruptedKeeps ==
    ASSUME MemInv, NEW p \in Procs,
           NEW from \in {"r_down", "w_down", "p_down", "s_down"}, DownInterrupted(p, from)
    PROVE  Keep(p)
  <1>1. pc[p] = from /\ Return(p)
    BY DEF DownInterrupted
  <1>2. /\ UNCHANGED <<globals, quantum, qset, size, data, freed, f_pos>>
        /\ wild' = wild /\ dangling' = dangling
    BY DEF DownInterrupted, shape, memory
  <1>3. SemMove(p)
    BY SemDowns DEF MemInv, CriticalSteps
  <1>4. QED
    BY <1>1, <1>2, <1>3, Unmoved, KeepReturn DEF TrimSteps

LEMMA SignalKeeps ==
    ASSUME MemInv, NEW p \in Procs, Signal(p)
    PROVE  MemInv'
  <1>1. UNCHANGED <<globals, quantum, qset, size, data, freed, dangling, wild, f_pos, call, sem, pc>>
    BY DEF Signal, shape, memory, calls
  <1>2. SemInv' /\ ScalarTypes' /\ QuantumFits' /\ Alone' /\ Clean'
    BY <1>1 DEF MemInv, SemInv, PcType, SemaphoreExact, InCritical, ScalarTypes, QuantumFits,
                Alone, Clean, globals
  <1>3. data' \in Lists' /\ \A q \in Procs : Current(q)'
    BY <1>1, SameBlocks DEF MemInv, SameGeometry, globals, Current, ArrayAt, BlockAt
  <1>4. QED
    BY <1>2, <1>3 DEF MemInv

(* The ioctl changes what the next trim installs, nothing else.            *)
LEMMA IoctlKeeps ==
    ASSUME MemInv, NEW p \in Procs, scull_ioctl(p)
    PROVE  MemInv'
  <1>1. /\ UNCHANGED <<type, quantum, qset, size, data, freed, dangling, wild, f_pos, call, sem, pc>>
        /\ type = "basic" /\ scull_quantum' \in Nat \ {0} /\ scull_qset_n' \in Nat \ {0}
    BY MemAssumption DEF scull_ioctl, shape, memory, calls, MemInv, ScalarTypes
  <1>2. SemInv' /\ ScalarTypes' /\ QuantumFits' /\ Alone' /\ Clean'
    BY <1>1 DEF MemInv, SemInv, PcType, SemaphoreExact, InCritical, ScalarTypes, QuantumFits,
                Alone, Clean
  <1>3. data' \in Lists' /\ \A q \in Procs : Current(q)'
    BY <1>1, SameBlocks DEF MemInv, SameGeometry, Current, ArrayAt, BlockAt
  <1>4. QED
    BY <1>2, <1>3 DEF MemInv

-----------------------------------------------------------------------------
(* scull_trim, which finds nobody else in a call.                          *)

LEMMA ListElements ==
    ASSUME MemInv
    PROVE  /\ Len(data) \in Nat /\ data \in Seq({NULL} \cup Arrays)
           /\ \A n \in 1 .. Len(data) : data[n] \in {NULL} \cup Arrays
           /\ \A n \in 1 .. Len(data) : data[n] # NULL => DOMAIN data[n] = 0 .. qset - 1
           /\ data # << >> => Len(data) \in 1 .. Len(data)
           /\ qset - 1 \in 0 .. qset - 1
  <1>1. Len(data) \in Nat /\ data \in Seq({NULL} \cup Arrays)
    BY LenProperties DEF MemInv, Lists
  <1>2. \A n \in 1 .. Len(data) : data[n] \in {NULL} \cup Arrays
    BY <1>1, ElementOfSeq
  <1>3. \A n \in 1 .. Len(data) : data[n] # NULL => DOMAIN data[n] = 0 .. qset - 1
    BY <1>2 DEF Arrays
  <1>4. data # << >> => Len(data) \in 1 .. Len(data)
    BY <1>1, EmptySeq
  <1>5. qset - 1 \in 0 .. qset - 1
    BY DEF MemInv, ScalarTypes
  <1>6. QED
    BY <1>1, <1>2, <1>3, <1>4, <1>5

LEMMA TrimsAlone ==
    ASSUME MemInv, NEW p \in Procs, pc[p] \in TrimSteps
    PROVE  /\ \A q \in Procs \ {p} : pc[q] = "closed"
           /\ Copying = {}
           /\ freed => pc[p] = "o_reset"
  <1>1. \A q \in Procs \ {p} : pc[q] = "closed"
    BY DEF MemInv, Alone
  <1>2. \A q \in Procs : pc[q] \in IdleSteps
    BY <1>1 DEF IdleSteps, TrimSteps
  <1>3. \A q \in Procs : ~call[q].head /\ pc[q] \notin {"r_copy", "w_copy"}
    BY <1>2 DEF MemInv, Current, IdleSteps
  <1>4. Copying = {}
    BY <1>3 DEF Copying
  <1>5. QED
    BY <1>1, <1>4 DEF MemInv, Clean

LEMMA TrimFree ==
    ASSUME MemInv, NEW p \in Procs, scull_trim_free(p)
    PROVE  MemInv'
  <1>1. pc[p] = "o_trim" /\ pc[p] \in TrimSteps /\ ~freed
        /\ \A q \in Procs \ {p} : pc[q] = "closed"
    BY TrimsAlone DEF scull_trim_free, TrimSteps
  <1>2. /\ UNCHANGED <<globals, quantum, qset, size, data, f_pos, call>>
        /\ pc'[p] = "o_reset" /\ \A q \in Procs \ {p} : pc'[q] = pc[q]
    BY DEF scull_trim_free, shape, calls, Goto, MemInv, SemInv, PcType
  <1>3. dangling' = {}
    BY <1>1, TrimsAlone DEF scull_trim_free, MemInv, Clean
  <1>4. ~wild'
    BY <1>1, ListElements DEF scull_trim_free, MemInv, Clean
  <1>5. SemInv'
    BY SemCalls, SemKeeps DEF MemInv
  <1>6. ScalarTypes' /\ QuantumFits'
    BY <1>2 DEF MemInv, ScalarTypes, QuantumFits, globals
  <1>7. Alone' /\ Clean'
    BY <1>1, <1>2, <1>3, <1>4 DEF Alone, Clean, TrimSteps
  <1>8. data' \in Lists'
    BY <1>2, SameBlocks DEF MemInv, SameGeometry, globals
  <1>9. ASSUME NEW q \in Procs
        PROVE  Current(q)'
    <2>1. pc[q] \in IdleSteps /\ pc'[q] \in IdleSteps /\ call'[q] = call[q]
      BY <1>1, <1>2 DEF IdleSteps
    <2>2. QED
      BY <2>1 DEF MemInv, Current, IdleSteps, TransferSteps, CopySteps
  <1>10. QED
    BY <1>5, <1>6, <1>7, <1>8, <1>9 DEF MemInv

LEMMA TrimReset ==
    ASSUME MemInv, NEW p \in Procs, scull_trim_reset(p)
    PROVE  MemInv'
  <1>1. pc[p] = "o_reset" /\ pc[p] \in TrimSteps
        /\ \A q \in Procs \ {p} : pc[q] = "closed"
    BY TrimsAlone DEF scull_trim_reset, TrimSteps
  <1>2. /\ UNCHANGED <<globals, wild, f_pos>> /\ quantum' = scull_quantum /\ qset' = scull_qset_n
        /\ size' = 0 /\ data' = << >> /\ freed' = FALSE
        /\ call' = [call EXCEPT ![p] = NoCall]
        /\ pc'[p] = "open" /\ \A q \in Procs \ {p} : pc'[q] = pc[q]
    BY <1>1 DEF scull_trim_reset, Return, Goto, MemInv, SemInv, PcType
  <1>3. dangling' = {}
    BY <1>1, TrimsAlone DEF scull_trim_reset, MemInv, Clean
  <1>4. SemInv'
    BY SemCalls, SemKeeps DEF MemInv
  <1>5. NoCall \in CallType /\ ~NoCall.head
    BY DEF NoCall, CallType
  <1>6. ScalarTypes' /\ QuantumFits'
    BY <1>2, <1>5, MemAssumption DEF MemInv, ScalarTypes, QuantumFits, globals
  <1>7. Alone' /\ Clean'
    BY <1>1, <1>2, <1>3 DEF MemInv, Alone, Clean, TrimSteps
  <1>8. data' \in Lists'
    BY <1>2 DEF Lists
  <1>9. ASSUME NEW q \in Procs
        PROVE  Current(q)'
    <2>1. pc[q] \in IdleSteps /\ pc'[q] \in IdleSteps /\ (call'[q] = call[q] \/ call'[q] = NoCall)
      BY <1>1, <1>2 DEF IdleSteps, MemInv, ScalarTypes
    <2>2. ~call[q].head
      BY <2>1 DEF MemInv, Current
    <2>3. ~call'[q].head
      BY <1>5, <2>1, <2>2
    <2>4. QED
      BY <2>1, <2>3 DEF Current, IdleSteps, TransferSteps, CopySteps
  <1>10. QED
    BY <1>4, <1>6, <1>7, <1>8, <1>9 DEF MemInv

-----------------------------------------------------------------------------
(* Reports and reads.                                                      *)

LEMMA ReportCallKeeps ==
    ASSUME TrimAlone, MemInv, NEW p \in Procs, NEW to \in {"p_down", "s_down"}, ReportCall(p, to)
    PROVE  Keep(p)
  <1>1. /\ pc[p] = "closed" /\ pc'[p] = to
        /\ \A q \in Procs \ {p} : pc[q] \notin TrimSteps /\ pc'[q] = pc[q]
    BY DEF ReportCall, Others, Goto, MemInv, SemInv, PcType, TrimSteps
  <1>2. /\ UNCHANGED <<globals, quantum, qset, size, data, freed, f_pos>>
        /\ wild' = wild /\ dangling' = dangling
    BY DEF ReportCall, shape, memory
  <1>3. /\ call' = [call EXCEPT ![p] = [call[p] EXCEPT !.head = (data /= << >>)]]
        /\ call'[p] = [call[p] EXCEPT !.head = (data /= << >>)]
    BY DEF ReportCall, MemInv, ScalarTypes
  <1>4. call'[p] \in CallType /\ (call'[p].head => data # << >>)
    <2>1. CASE data = << >>
      <3>1. (data /= << >>) = FALSE
        BY <2>1
      <3>2. call'[p] = [call[p] EXCEPT !.head = FALSE]
        BY <1>3, <3>1, Zenon
      <3>3. QED
        BY <3>2, Unmoved DEF CallType
    <2>2. CASE data # << >>
      <3>1. (data /= << >>) = TRUE
        BY <2>2
      <3>2. call'[p] = [call[p] EXCEPT !.head = TRUE]
        BY <1>3, <3>1, Zenon
      <3>3. QED
        BY <2>2, <3>2, Unmoved DEF CallType
    <2>3. QED
      BY <2>1, <2>2
  <1>5. Current(p)'
    BY <1>1, <1>2, <1>4 DEF Current, IdleSteps, TransferSteps, CopySteps
  <1>6. QED
    BY <1>1, <1>2, <1>3, <1>4, <1>5, Unmoved DEF Keep, TrimSteps

LEMMA ReportWalkKeeps ==
    ASSUME MemInv, NEW p \in Procs, NEW from \in {"p_walk", "s_walk"}, ReportWalk(p, from)
    PROVE  Keep(p)
  <1>1. pc[p] = from /\ Return(p) /\ pc[p] \notin TrimSteps \cup {"closed"}
    BY DEF ReportWalk, TrimSteps
  <1>2. UNCHANGED <<globals, quantum, qset, size, data, freed, f_pos>>
    BY DEF ReportWalk, shape
  <1>3. ~wild' /\ dangling' = {}
    <2>1. ~freed /\ ~wild /\ dangling = {} /\ (call[p].head => data # << >>)
      BY <1>1, NoTrimmer, Unmoved DEF Current
    <2>2. QED
      BY <2>1, ListElements DEF ReportWalk
  <1>4. SemMove(p)
    BY SemWrites DEF MemInv
  <1>5. QED
    BY <1>1, <1>2, <1>3, <1>4, Unmoved, KeepReturn

(* The list that scull_follow returns, and what is at the place of p.      *)
LEMMA Found ==
    ASSUME MemInv, NEW p \in Procs, pc[p] \in TransferSteps,
           NEW list, list = scull_follow(Place(p).item)
    PROVE  /\ list \in Seq({NULL} \cup Arrays) /\ (data # << >> => list # << >>)
           /\ Place(p).item + 1 \in 1 .. Len(list)
           /\ ArrayAt(list, Place(p).item) \in {NULL} \cup Arrays
           /\ ArrayAt(list, Place(p).item) \in Arrays =>
                 /\ InArray(list, Place(p))
                 /\ BlockAt(list, Place(p)) \in {NULL} \cup Blocks
  <1>1. Place(p).item \in Nat /\ Place(p).s_pos \in 0 .. qset - 1
    BY PlaceIs
  <1>2. /\ list \in Seq({NULL} \cup Arrays) /\ (data # << >> => list # << >>)
        /\ Len(list) \in Nat /\ Len(list) >= Place(p).item + 1
    <2>1. PICK item \in Int : item = Place(p).item /\ item >= -1
      BY <1>1
    <2>2. list = scull_follow(item)
      BY <2>1
    <2>3. QED
      BY <2>1, <2>2, Follow DEF Lists
  <1>3. Place(p).item + 1 \in 1 .. Len(list)
    BY <1>1, <1>2
  <1>4. ArrayAt(list, Place(p).item) \in {NULL} \cup Arrays
    BY <1>2, <1>3, ElementOfSeq DEF ArrayAt
  <1>5. ASSUME ArrayAt(list, Place(p).item) \in Arrays
        PROVE  InArray(list, Place(p)) /\ BlockAt(list, Place(p)) \in {NULL} \cup Blocks
    BY <1>1, <1>5 DEF Arrays, InArray, BlockAt
  <1>6. QED
    BY <1>2, <1>3, <1>4, <1>5

LEMMA ReadEofKeeps ==
    ASSUME MemInv, NEW p \in Procs, scull_read_eof(p) \/ scull_read_EFAULT(p)
    PROVE  Keep(p)
  <1>1. pc[p] \in {"r_find", "r_copy"} /\ Return(p)
    BY DEF scull_read_eof, scull_read_EFAULT
  <1>2. /\ UNCHANGED <<globals, quantum, qset, size, data, freed, wild, f_pos>> /\ dangling' = {}
    BY Unmoved DEF scull_read_eof, scull_read_EFAULT, shape, memory
  <1>3. SemMove(p)
    BY SemReads DEF MemInv
  <1>4. QED
    BY <1>1, <1>2, <1>3, Unmoved, KeepReturn DEF TrimSteps

LEMMA ReadNoMemory ==
    ASSUME MemInv, NEW p \in Procs, scull_read_ENOMEM(p)
    PROVE  Keep(p)
  <1>1. pc[p] = "r_find" /\ Return(p) /\ pc[p] \in TransferSteps
    BY DEF scull_read_ENOMEM, TransferSteps
  <1>2. UNCHANGED <<globals, quantum, qset, size, freed, wild, f_pos, dangling>>
    BY DEF scull_read_ENOMEM, shape
  <1>3. PICK n \in Len(data) .. Place(p).item : data' = scull_follow(n - 1)
    BY DEF scull_read_ENOMEM
  <1>4. n - 1 \in Int /\ n - 1 >= -1
    BY <1>1, ListElements, PlaceIs
  <1>5. data' \in Lists /\ (data # << >> => data' # << >>)
    BY <1>3, <1>4, Follow
  <1>6. SemMove(p)
    BY SemReads DEF MemInv
  <1>7. QED
    BY <1>1, <1>2, <1>5, <1>6, Unmoved, KeepReturn DEF TrimSteps, CriticalSteps

LEMMA ReadFind ==
    ASSUME MemInv, NEW p \in Procs, scull_read_find(p)
    PROVE  Keep(p)
  <1> DEFINE where == Place(p)
             list == scull_follow(where.item)
  <1>1. pc[p] = "r_find" /\ pc[p] \in TransferSteps /\ pc[p] \in CriticalSteps
        /\ pc[p] \notin TrimSteps \cup {"closed"}
    BY DEF scull_read_find, TransferSteps, CriticalSteps, TrimSteps
  <1>2. /\ UNCHANGED <<globals, quantum, qset, size, freed, f_pos, dangling>> /\ data' = list
        /\ wild' = (wild \/ freed \/ Outside(list, where))
    BY DEF scull_read_find, shape
  <1>3. list \in Lists /\ (data # << >> => list # << >>)
    BY <1>1, Found DEF Lists
  <1>4. ~Outside(list, where)
    BY <1>1, Found DEF Outside
  <1>5. ~wild'
    BY <1>1, <1>2, <1>4, NoTrimmer, Unmoved
  <1>6. SemMove(p)
    BY SemReads DEF MemInv
  <1>7. CASE Hole(list, where)
    <2>1. Return(p)
      BY <1>7 DEF scull_read_find
    <2>2. QED
      BY <1>1, <1>2, <1>3, <1>5, <1>6, <2>1, Unmoved, KeepReturn
  <1>8. CASE ~Hole(list, where)
    <2>1. call' = [call EXCEPT ![p] = where] /\ pc'[p] = "r_copy"
      BY <1>8 DEF scull_read_find, Goto, MemInv, SemInv, PcType
    <2>2. call'[p] = where
      BY <2>1 DEF MemInv, ScalarTypes
    <2>3. /\ where.item + 1 \in 1 .. Len(list)
          /\ ArrayAt(list, where.item) \in Arrays /\ BlockAt(list, where) \in Blocks
      BY <1>1, <1>8, Found DEF Hole
    <2> HIDE DEF list, where
    <2>4. Arrays' = Arrays /\ Blocks' = Blocks
      BY <1>2, SameBlocks DEF SameGeometry, globals
    <2>5. Current(p)'
      <3>1. /\ where.item = ItemOf(f_pos[p], quantum, qset)
            /\ where.s_pos = SlotOf(f_pos[p], quantum, qset)
            /\ where.q_pos = OffsetOf(f_pos[p], quantum, qset)
            /\ where.quantum = quantum /\ where.qset = qset /\ ~where.head
        BY <1>1, PlaceIs DEF where
      <3>2. /\ ArrayAt(data', call'[p].item) \in Arrays' /\ BlockAt(data', call'[p]) \in Blocks'
            /\ call'[p].item + 1 \in 1 .. Len(data')
        BY <1>2, <2>2, <2>3, <2>4
      <3>3. QED
        BY <1>2, <2>1, <2>2, <3>1, <3>2 DEF Current, IdleSteps, TransferSteps, CopySteps
    <2>6. where \in CallType
      BY <1>1, PlaceIs DEF where
    <2>7. QED
      BY <1>1, <1>2, <1>3, <1>5, <1>6, <2>1, <2>2, <2>5, <2>6, Unmoved, KeepInside DEF TrimSteps
  <1>9. QED
    BY <1>7, <1>8

(* A copy of no more bytes than the block has left is in bounds.           *)
LEMMA CopyPlace ==
    ASSUME MemInv, NEW p \in Procs, pc[p] \in CopySteps
    PROVE  /\ call[p].q_pos \in 0 .. quantum - 1 /\ call[p].s_pos \in 0 .. qset - 1
           /\ call[p].item + 1 \in 1 .. Len(data) /\ call[p].item \in Nat
           /\ call[p].quantum = quantum /\ call[p].left \in Int
           /\ ArrayAt(data, call[p].item) \in Arrays /\ BlockAt(data, call[p]) \in Blocks
           /\ \A n \in Nat : call[p].q_pos + n <= quantum => Usable(p, n)
  <1>1. quantum \in Nat \ {0} /\ qset \in Nat \ {0} /\ f_pos[p] \in Nat /\ call[p] \in CallType
    BY DEF MemInv, ScalarTypes
  <1>2. Current(p) /\ pc[p] \in TransferSteps /\ pc[p] \notin TrimSteps \cup {"closed"}
    BY DEF MemInv, CopySteps, TransferSteps, TrimSteps
  <1>3. /\ call[p].q_pos = OffsetOf(f_pos[p], quantum, qset)
        /\ call[p].s_pos = SlotOf(f_pos[p], quantum, qset)
        /\ call[p].item + 1 \in 1 .. Len(data) /\ call[p].quantum = quantum
        /\ ArrayAt(data, call[p].item) \in Arrays /\ BlockAt(data, call[p]) \in Blocks
    BY <1>2 DEF Current
  <1>4. call[p].q_pos \in 0 .. quantum - 1 /\ call[p].s_pos \in 0 .. qset - 1
    <2>1. PICK pos, q, k : pos = f_pos[p] /\ q = quantum /\ k = qset
      OBVIOUS
    <2>2. OffsetOf(pos, q, k) \in 0 .. q - 1 /\ SlotOf(pos, q, k) \in 0 .. k - 1
      BY <1>1, <2>1, InGeometry
    <2>3. QED
      BY <1>3, <2>1, <2>2, Zenon
  <1>5. call[p].item \in Nat /\ call[p].left \in Int
    BY <1>1 DEF CallType
  <1>6. ASSUME NEW n \in Nat, call[p].q_pos + n <= quantum
        PROVE  Usable(p, n)
    <2>1. DOMAIN BlockAt(data, call[p]) = 0 .. scull_alloc - 1
      BY <1>3 DEF Blocks
    <2>2. scull_alloc \in Nat \ {0} /\ quantum <= scull_alloc
      BY AllocHolds DEF MemInv
    <2>3. Cardinality(0 .. scull_alloc - 1) = scull_alloc
      BY <2>2, FS_Interval
    <2>4. ~freed /\ p \notin dangling
      BY <1>2, NoTrimmer, Unmoved
    <2>5. call[p].q_pos + n <= Cardinality(DOMAIN BlockAt(data, call[p]))
      BY <1>1, <1>4, <1>6, <2>1, <2>2, <2>3
    <2>6. QED
      BY <2>4, <2>5 DEF Usable
  <1>7. QED
    BY <1>3, <1>4, <1>5, <1>6

LEMMA Counts ==
    ASSUME MemInv, NEW p \in Procs, pc[p] \in CopySteps, NEW request \in Nat
    PROVE  /\ ReadCount(p, request) \in Nat /\ call[p].q_pos + ReadCount(p, request) <= quantum
           /\ WriteCount(p, request) \in Nat /\ call[p].q_pos + WriteCount(p, request) <= quantum
  <1>1. /\ quantum \in Nat /\ call[p].q_pos \in 0 .. quantum - 1 /\ call[p].quantum = quantum
        /\ call[p].left \in Int
    BY CopyPlace DEF MemInv, ScalarTypes
  <1>2. Clamp(request, call[p].left) \in Nat
    BY <1>1 DEF Clamp
  <1>3. QED
    BY <1>1, <1>2 DEF ReadCount, WriteCount, Clamp

LEMMA ReadCopy ==
    ASSUME MemInv, NEW p \in Procs, NEW request \in 0 .. MaxRequest, scull_read_copy(p, request)
    PROVE  Keep(p)
  <1>1. pc[p] = "r_copy" /\ pc[p] \in CopySteps /\ Return(p) /\ request \in Nat
    BY MemAssumption DEF scull_read_copy, CopySteps
  <1> DEFINE count == ReadCount(p, request)
  <1>2. count \in Nat /\ Usable(p, count)
    BY <1>1, Counts, CopyPlace
  <1>3. /\ UNCHANGED <<globals, quantum, qset, size, data, freed>> /\ dangling' = {}
        /\ f_pos' = [f_pos EXCEPT ![p] = @ + count]
    BY Unmoved DEF scull_read_copy, shape
  <1>4. ~wild'
    BY <1>2, Unmoved DEF scull_read_copy
  <1>5. SemMove(p)
    BY SemReads DEF MemInv
  <1> HIDE DEF count
  <1>6. f_pos'[p] = f_pos[p] + count /\ f_pos' = [f_pos EXCEPT ![p] = f_pos'[p]] /\ f_pos'[p] \in Nat
    BY <1>2, <1>3 DEF MemInv, ScalarTypes
  <1>7. QED
    BY <1>1, <1>3, <1>4, <1>5, <1>6, Unmoved, KeepReturn DEF TrimSteps

-----------------------------------------------------------------------------
(* Writes.                                                                 *)

(* The list with an array at the place of p.                               *)
LEMMA Arrayed ==
    ASSUME MemInv, NEW p \in Procs, pc[p] \in TransferSteps,
           NEW list, list = WithArray(p, scull_follow(Place(p).item), Place(p))
    PROVE  /\ list \in Seq({NULL} \cup Arrays) /\ (data # << >> => list # << >>)
           /\ Len(list) \in Nat /\ Place(p).item + 1 \in 1 .. Len(list)
           /\ ArrayAt(list, Place(p).item) \in Arrays
           /\ InArray(list, Place(p)) /\ BlockAt(list, Place(p)) \in {NULL} \cup Blocks
  <1>1. PICK bare : bare = scull_follow(Place(p).item)
    OBVIOUS
  <1>2. /\ bare \in Seq({NULL} \cup Arrays) /\ (data # << >> => bare # << >>)
        /\ Place(p).item + 1 \in 1 .. Len(bare)
        /\ ArrayAt(bare, Place(p).item) \in {NULL} \cup Arrays
    BY <1>1, Found
  <1>3. NewArray(p) \in Arrays
    BY DEF NewArray, Arrays, MemInv, Current
  <1>4. Place(p).s_pos \in 0 .. qset - 1
    BY PlaceIs
  <1>5. list = IF ArrayAt(bare, Place(p).item) = NULL
               THEN [bare EXCEPT ![Place(p).item + 1] = NewArray(p)] ELSE bare
    BY <1>1 DEF WithArray
  <1>6. /\ list \in Seq({NULL} \cup Arrays) /\ Len(list) = Len(bare) /\ Len(list) \in Nat
        /\ ArrayAt(list, Place(p).item) \in Arrays
    <2>1. CASE ArrayAt(bare, Place(p).item) = NULL
      <3>1. PICK n : n = Place(p).item + 1
        OBVIOUS
      <3>2. list = [bare EXCEPT ![n] = NewArray(p)] /\ n \in 1 .. Len(bare)
        BY <1>2, <1>5, <2>1, <3>1
      <3>3. /\ list \in Seq({NULL} \cup Arrays) /\ Len(list) = Len(bare)
            /\ list[n] = NewArray(p)
        BY <1>2, <1>3, <3>2, ExceptSeq
      <3>4. QED
        BY <1>2, <1>3, <3>1, <3>3, LenProperties DEF ArrayAt
    <2>2. CASE ArrayAt(bare, Place(p).item) # NULL
      BY <1>2, <1>5, <2>2, LenProperties
    <2>3. QED
      BY <2>1, <2>2
  <1>7. data # << >> => list # << >>
    <2>1. Len(list) # 0
      BY <1>2, <1>6
    <2>2. QED
      BY <2>1, EmptySeq
  <1>8. InArray(list, Place(p)) /\ BlockAt(list, Place(p)) \in {NULL} \cup Blocks
    BY <1>4, <1>6 DEF Arrays, InArray, BlockAt
  <1>9. QED
    BY <1>2, <1>6, <1>7, <1>8

(* Storing a block in an array of a list.                                  *)
LEMMA StoreBlock ==
    ASSUME NEW list \in Seq({NULL} \cup Arrays), NEW n \in 1 .. Len(list),
           list[n] \in Arrays, NEW k \in 0 .. qset - 1, NEW block \in Blocks
    PROVE  /\ [list EXCEPT ![n][k] = block] \in Seq({NULL} \cup Arrays)
           /\ Len([list EXCEPT ![n][k] = block]) = Len(list)
           /\ [list EXCEPT ![n][k] = block][n] \in Arrays
           /\ [list EXCEPT ![n][k] = block][n][k] = block
           /\ [list EXCEPT ![n][k] = block] # << >>
  <1> DEFINE array == [list[n] EXCEPT ![k] = block]
             new == [list EXCEPT ![n] = array]
  <1>1. array \in Arrays /\ array[k] = block
    BY DEF Arrays
  <1>2. [list EXCEPT ![n][k] = block] = new
    OBVIOUS
  <1> HIDE DEF array
  <1>3. new \in Seq({NULL} \cup Arrays) /\ Len(new) = Len(list) /\ new[n] = array
    BY <1>1, ExceptSeq
  <1>4. new # << >>
    <2>1. Len(new) # 0
      BY <1>3, LenProperties
    <2>2. QED
      BY <2>1, EmptySeq
  <1>5. QED
    BY <1>1, <1>2, <1>3, <1>4

LEMMA NewBlockFits ==
    ASSUME MemInv, NEW p \in Procs
    PROVE  NewBlock(p) \in Blocks
  BY DEF NewBlock, Blocks

LEMMA WriteFind ==
    ASSUME MemInv, NEW p \in Procs, scull_write_find(p)
    PROVE  Keep(p)
  <1> DEFINE where == Place(p)
             list == WithArray(p, scull_follow(where.item), where)
  <1>1. pc[p] = "w_find" /\ pc[p] \in TransferSteps /\ pc[p] \in CriticalSteps
        /\ pc[p] \notin TrimSteps \cup {"closed"}
    BY DEF scull_write_find, TransferSteps, CriticalSteps, TrimSteps
  <1>2. UNCHANGED <<globals, quantum, qset, size, freed, f_pos, dangling>>
    BY DEF scull_write_find, shape
  <1>3. /\ list \in Seq({NULL} \cup Arrays) /\ (data # << >> => list # << >>)
        /\ Len(list) \in Nat /\ where.item + 1 \in 1 .. Len(list)
        /\ ArrayAt(list, where.item) \in Arrays
        /\ InArray(list, where) /\ BlockAt(list, where) \in {NULL} \cup Blocks
    BY <1>1, Arrayed
  <1>4. /\ data' = IF BlockAt(list, where) = NULL
                   THEN [list EXCEPT ![where.item + 1][where.s_pos] = NewBlock(p)] ELSE list
        /\ wild' = (wild \/ freed \/ (BlockAt(list, where) = NULL /\ call[p].quantum > scull_alloc))
        /\ call' = [call EXCEPT ![p] = where] /\ pc'[p] = "w_copy"
    BY <1>3 DEF scull_write_find, Goto, MemInv, SemInv, PcType
  <1>5. ~wild'
    <2>1. call[p].quantum = quantum /\ quantum <= scull_alloc /\ quantum \in Nat /\ scull_alloc \in Nat
      BY <1>1, AllocHolds DEF MemInv, Current, ScalarTypes
    <2>2. ~(call[p].quantum > scull_alloc)
      BY <2>1
    <2>3. QED
      BY <1>1, <1>4, <2>2, NoTrimmer, Unmoved
  <1>6. call'[p] = where
    BY <1>4 DEF MemInv, ScalarTypes
  <1>7. /\ where \in CallType
        /\ where.item = ItemOf(f_pos[p], quantum, qset)
        /\ where.s_pos = SlotOf(f_pos[p], quantum, qset)
        /\ where.q_pos = OffsetOf(f_pos[p], quantum, qset)
        /\ where.quantum = quantum /\ where.qset = qset /\ ~where.head
        /\ where.s_pos \in 0 .. qset - 1 /\ where.item \in Nat
    BY <1>1, PlaceIs
  <1> HIDE DEF list, where
  <1>8. /\ data' \in Seq({NULL} \cup Arrays) /\ (data # << >> => data' # << >>)
        /\ where.item + 1 \in 1 .. Len(data')
        /\ ArrayAt(data', where.item) \in Arrays /\ BlockAt(data', where) \in Blocks
    <2>1. CASE BlockAt(list, where) = NULL
      <3>1. PICK n, k : n = where.item + 1 /\ k = where.s_pos
        OBVIOUS
      <3>2. /\ data' = [list EXCEPT ![n][k] = NewBlock(p)]
            /\ n \in 1 .. Len(list) /\ list[n] \in Arrays /\ k \in 0 .. qset - 1
        BY <1>3, <1>4, <1>7, <2>1, <3>1 DEF ArrayAt
      <3>3. /\ data' \in Seq({NULL} \cup Arrays) /\ Len(data') = Len(list)
            /\ data'[n] \in Arrays /\ data'[n][k] = NewBlock(p) /\ data' # << >>
        BY <1>3, <3>2, StoreBlock, NewBlockFits
      <3>4. QED
        BY <1>3, <3>1, <3>3, NewBlockFits DEF ArrayAt, BlockAt
    <2>2. CASE BlockAt(list, where) # NULL
      BY <1>3, <1>4, <2>2
    <2>3. QED
      BY <2>1, <2>2
  <1>9. Arrays' = Arrays /\ Blocks' = Blocks
    BY <1>2, SameBlocks DEF SameGeometry, globals
  <1>10. Current(p)'
    <2>1. /\ ArrayAt(data', call'[p].item) \in Arrays' /\ BlockAt(data', call'[p]) \in Blocks'
          /\ call'[p].item + 1 \in 1 .. Len(data')
      BY <1>6, <1>8, <1>9
    <2>2. QED
      BY <1>2, <1>4, <1>6, <1>7, <2>1 DEF Current, IdleSteps, TransferSteps, CopySteps
  <1>11. SemMove(p)
    BY SemWrites DEF MemInv
  <1>12. QED
    BY <1>1, <1>2, <1>4, <1>5, <1>6, <1>7, <1>8, <1>10, <1>11, Unmoved, KeepInside
       DEF TrimSteps, Lists

LEMMA WriteNoMemory ==
    ASSUME MemInv, NEW p \in Procs, scull_write_ENOMEM(p)
    PROVE  Keep(p)
  <1>1. pc[p] = "w_find" /\ Return(p) /\ pc[p] \in TransferSteps
    BY DEF scull_write_ENOMEM, TransferSteps
  <1>2. UNCHANGED <<globals, quantum, qset, size, freed, wild, f_pos, dangling>>
    BY DEF scull_write_ENOMEM, shape
  <1>3. data' \in Lists /\ (data # << >> => data' # << >>)
    <2>1. CASE \E n \in Len(data) .. Place(p).item : data' = scull_follow(n - 1)
      <3>1. PICK n \in Len(data) .. Place(p).item : data' = scull_follow(n - 1)
        BY <2>1
      <3>2. n - 1 \in Int /\ n - 1 >= -1
        BY <1>1, <3>1, ListElements, PlaceIs
      <3>3. QED
        BY <3>1, <3>2, Follow
    <2>2. CASE data' = scull_follow(Place(p).item)
      BY <1>1, <2>2, Found DEF Lists
    <2>3. CASE data' = WithArray(p, scull_follow(Place(p).item), Place(p))
      BY <1>1, <2>3, Arrayed DEF Lists
    <2>4. QED
      BY <2>1, <2>2, <2>3 DEF scull_write_ENOMEM
  <1>4. SemMove(p)
    BY SemWrites DEF MemInv
  <1>5. QED
    BY <1>1, <1>2, <1>3, <1>4, Unmoved, KeepReturn DEF TrimSteps, CriticalSteps

(* A block with some of its bytes replaced.                                *)
Patched(block, from, count, bytes) ==
    [i \in DOMAIN block |-> IF i \in from .. from + count - 1 THEN bytes[i - from + 1] ELSE block[i]]

LEMMA PatchedFits ==
    ASSUME NEW block \in Blocks, NEW from \in Nat, NEW count \in Nat,
           NEW bytes \in [1 .. count -> Byte \cup {Zero}]
    PROVE  Patched(block, from, count, bytes) \in Blocks
  <1>1. DOMAIN block = 0 .. scull_alloc - 1
    BY DEF Blocks
  <1>2. ASSUME NEW i \in 0 .. scull_alloc - 1
        PROVE  (IF i \in from .. from + count - 1 THEN bytes[i - from + 1] ELSE block[i])
                  \in Byte \cup {Zero, Junk}
    <2>1. CASE i \in from .. from + count - 1
      <3>1. i - from + 1 \in 1 .. count
        BY <2>1
      <3>2. QED
        BY <2>1, <3>1
    <2>2. CASE i \notin from .. from + count - 1
      BY <2>2 DEF Blocks
    <2>3. QED
      BY <2>1, <2>2
  <1>3. QED
    BY <1>1, <1>2 DEF Patched, Blocks

LEMMA Torn ==
    ASSUME NEW count \in Nat
    PROVE  Faulted(count) \subseteq [1 .. count -> Byte \cup {Zero}]
  <1> SUFFICES ASSUME NEW n \in 0 .. count - 1, NEW bytes \in [1 .. count -> Byte]
               PROVE  [i \in 1 .. count |-> IF i <= n THEN bytes[i] ELSE Zero]
                         \in [1 .. count -> Byte \cup {Zero}]
    BY DEF Faulted
  <1>1. QED
    OBVIOUS

(* What copy_from_user leaves in the block, whole or cut short.            *)
LEMMA CopyInKeeps ==
    ASSUME MemInv, NEW p \in Procs, NEW request \in 0 .. MaxRequest, pc[p] = "w_copy",
           NEW choices, choices \subseteq [1 .. WriteCount(p, request) -> Byte \cup {Zero}],
           CopyIn(p, WriteCount(p, request), choices)
    PROVE  /\ WriteCount(p, request) \in Nat /\ wild' = wild
           /\ data' \in Lists /\ data' # << >>
  <1>1. pc[p] \in CopySteps /\ request \in Nat
    BY MemAssumption DEF CopySteps
  <1> DEFINE count == WriteCount(p, request)
             at == call[p]
  <1>2. count \in Nat /\ Usable(p, count)
    BY <1>1, Counts, CopyPlace
  <1>3. wild' = wild
    BY <1>2 DEF CopyIn
  <1>4. PICK bytes \in choices :
          data' = [data EXCEPT ![at.item + 1][at.s_pos] =
                     [i \in DOMAIN @ |-> IF i \in at.q_pos .. at.q_pos + count - 1
                                         THEN bytes[i - at.q_pos + 1] ELSE @[i]]]
    BY <1>2 DEF CopyIn
  <1>5. /\ at.item + 1 \in 1 .. Len(data) /\ data[at.item + 1] \in Arrays
        /\ at.s_pos \in 0 .. qset - 1 /\ data[at.item + 1][at.s_pos] \in Blocks /\ at.q_pos \in Nat
    BY <1>1, CopyPlace DEF ArrayAt, BlockAt, MemInv, ScalarTypes
  <1>6. PICK block : block = Patched(data[at.item + 1][at.s_pos], at.q_pos, count, bytes)
    OBVIOUS
  <1>7. block \in Blocks
    <2>1. bytes \in [1 .. count -> Byte \cup {Zero}]
      BY <1>4
    <2>2. QED
      BY <1>2, <1>5, <1>6, <2>1, PatchedFits
  <1>8. data' = [data EXCEPT ![at.item + 1][at.s_pos] = block]
    BY <1>4, <1>6 DEF Patched
  <1> HIDE DEF count, at
  <1>9. data' \in Lists /\ data' # << >>
    <2>1. PICK n, k : n = at.item + 1 /\ k = at.s_pos
      OBVIOUS
    <2>2. data' = [data EXCEPT ![n][k] = block] /\ data \in Seq({NULL} \cup Arrays)
      BY <1>8, <2>1, ListElements
    <2>3. n \in 1 .. Len(data) /\ data[n] \in Arrays /\ k \in 0 .. qset - 1
      BY <1>5, <2>1
    <2>4. PICK list : list = data
      OBVIOUS
    <2>5. /\ [list EXCEPT ![n][k] = block] \in Seq({NULL} \cup Arrays)
          /\ [list EXCEPT ![n][k] = block] # << >>
      BY <1>7, <2>2, <2>3, <2>4, StoreBlock, SMTT(30)
    <2>6. QED
      BY <2>2, <2>4, <2>5 DEF Lists
  <1>10. QED
    BY <1>2, <1>3, <1>9 DEF count

LEMMA WriteFault ==
    ASSUME MemInv, NEW p \in Procs, NEW request \in 0 .. MaxRequest, scull_write_EFAULT(p, request)
    PROVE  Keep(p)
  <1>1. /\ pc[p] = "w_copy" /\ Return(p) /\ request \in Nat
        /\ CopyIn(p, WriteCount(p, request), Faulted(WriteCount(p, request)))
    BY MemAssumption DEF scull_write_EFAULT
  <1>2. UNCHANGED <<globals, quantum, qset, size, freed, f_pos>> /\ dangling' = {}
    BY Unmoved DEF scull_write_EFAULT, shape
  <1>3. wild' = wild /\ data' \in Lists /\ data' # << >>
    <2>1. WriteCount(p, request) \in Nat
      BY <1>1, Counts DEF CopySteps
    <2>2. QED
      BY <1>1, <2>1, Torn, CopyInKeeps
  <1>4. SemMove(p)
    BY SemWrites DEF MemInv
  <1>5. QED
    BY <1>1, <1>2, <1>3, <1>4, Unmoved, KeepReturn DEF TrimSteps, CriticalSteps

LEMMA WriteCopy ==
    ASSUME MemInv, NEW p \in Procs, NEW request \in 0 .. MaxRequest, scull_write_copy(p, request)
    PROVE  Keep(p)
  <1>1. /\ pc[p] = "w_copy" /\ Return(p)
        /\ CopyIn(p, WriteCount(p, request), [1 .. WriteCount(p, request) -> Byte])
    BY DEF scull_write_copy
  <1>2. PICK count : count = WriteCount(p, request)
    OBVIOUS
  <1>3. count \in Nat /\ wild' = wild /\ data' \in Lists /\ data' # << >>
    <2>1. [1 .. WriteCount(p, request) -> Byte] \subseteq [1 .. WriteCount(p, request) -> Byte \cup {Zero}]
      OBVIOUS
    <2>2. QED
      BY <1>1, <1>2, <2>1, CopyInKeeps
  <1>4. /\ UNCHANGED <<globals, quantum, qset, freed>> /\ dangling' = {} /\ size' = size + count
        /\ f_pos' = [f_pos EXCEPT ![p] = @ + count]
    BY <1>2, Unmoved DEF scull_write_copy
  <1>5. /\ f_pos'[p] = f_pos[p] + count /\ f_pos' = [f_pos EXCEPT ![p] = f_pos'[p]]
        /\ f_pos'[p] \in Nat /\ size' \in Nat
    BY <1>3, <1>4 DEF MemInv, ScalarTypes
  <1>6. SemMove(p)
    BY SemWrites DEF MemInv
  <1>7. QED
    BY <1>1, <1>3, <1>4, <1>5, <1>6, Unmoved, KeepReturn DEF TrimSteps, CriticalSteps

-----------------------------------------------------------------------------
LEMMA MemStep ==
    ASSUME TrimAlone, MemInv, [Next]_vars
    PROVE  MemInv'
  <1>1. ASSUME NEW p \in Procs, scull_read(p)
        PROVE  MemInv'
    <2>1. SemMove(p)
      BY <1>1, SemCalls, SemDowns, SemReads DEF scull_read, CriticalSteps, MemInv
    <2>2. Keep(p)
      BY <1>1, SampleKeeps, DownKeeps, InterruptedKeeps, ReadEofKeeps, ReadFind, ReadNoMemory,
         ReadCopy DEF scull_read
    <2>3. QED
      BY <2>1, <2>2, KeepsInv
  <1>2. ASSUME NEW p \in Procs, scull_write(p)
        PROVE  MemInv'
    <2>1. SemMove(p)
      BY <1>2, SemCalls, SemDowns, SemWrites DEF scull_write, CriticalSteps, MemInv
    <2>2. Keep(p)
      BY <1>2, SampleKeeps, DownKeeps, InterruptedKeeps, WriteFind, WriteNoMemory, WriteFault,
         WriteCopy DEF scull_write
    <2>3. QED
      BY <2>1, <2>2, KeepsInv
  <1>3. ASSUME NEW p \in Procs, proc_read(p) \/ scull_seq_show(p)
        PROVE  MemInv'
    <2>1. SemMove(p)
      BY <1>3, SemCalls, SemDowns, SemWrites DEF proc_read, scull_seq_show, CriticalSteps, MemInv
    <2>2. Keep(p)
      BY <1>3, ReportCallKeeps, DownKeeps, InterruptedKeeps, ReportWalkKeeps
         DEF proc_read, scull_seq_show
    <2>3. QED
      BY <2>1, <2>2, KeepsInv
  <1>4. ASSUME NEW p \in Procs, scull_open(p) \/ scull_release(p)
        PROVE  MemInv'
    BY <1>4, OpenKeeps, ReleaseKeeps, SemCalls, KeepsInv DEF MemInv
  <1>5. CASE Next
    BY <1>1, <1>2, <1>3, <1>4, <1>5, TrimFree, TrimReset, IoctlKeeps, SignalKeeps DEF Next
  <1>6. CASE UNCHANGED vars
    <2>1. UNCHANGED <<globals, quantum, qset, size, data, freed, dangling, wild, f_pos, call, sem, pc>>
      BY <1>6 DEF vars, shape, memory, calls
    <2>2. SemInv' /\ ScalarTypes' /\ QuantumFits' /\ Alone' /\ Clean'
      BY <2>1 DEF MemInv, SemInv, PcType, SemaphoreExact, InCritical, ScalarTypes, QuantumFits,
                  Alone, Clean, globals
    <2>3. data' \in Lists' /\ \A q \in Procs : Current(q)'
      BY <2>1, SameBlocks DEF MemInv, SameGeometry, globals, Current, ArrayAt, BlockAt
    <2>4. QED
      BY <2>2, <2>3 DEF MemInv
  <1>7. QED
    BY <1>5, <1>6

LEMMA MemInit == Init => MemInv
  <1> SUFFICES ASSUME Init
               PROVE  MemInv
    OBVIOUS
  <1>1. SemInv
    BY DEF Init, SemInv, PcType, SemaphoreExact, InCritical, Steps, CriticalSteps
  <1>2. NoCall \in CallType /\ ~NoCall.head
    BY DEF NoCall, CallType
  <1>3. ScalarTypes /\ QuantumFits
    BY <1>2, MemAssumption DEF Init, ScalarTypes, QuantumFits
  <1>4. Alone /\ Clean
    BY DEF Init, Alone, Clean, TrimSteps
  <1>5. data \in Lists
    BY DEF Init, Lists
  <1>6. \A p \in Procs : Current(p)
    BY <1>2 DEF Init, Current, IdleSteps, TransferSteps, CopySteps
  <1>7. QED
    BY <1>1, <1>3, <1>4, <1>5, <1>6 DEF MemInv

LEMMA MemAlways == TrimAlone => (Spec => []MemInv)
  <1> SUFFICES ASSUME TrimAlone
               PROVE  Spec => []MemInv
    OBVIOUS
  <1>1. MemInv /\ [Next]_vars => MemInv'
    BY MemStep
  <1>2. QED
    BY <1>1, MemInit, PTL DEF Spec

(* As long as nobody truncates the device beside another user, read,       *)
(* write, trim and the readers of /proc touch no memory but live blocks    *)
(* and arrays of the device, inside their bounds, for scull, scullc and    *)
(* scullp and any sequence of geometries set by ioctl.                     *)
THEOREM MemoryInBounds == TrimAlone => (Spec => []InBounds)
  <1>1. MemInv => InBounds
    BY DEF MemInv, Clean, InBounds
  <1>2. QED
    BY <1>1, MemAlways, PTL

(* Then every array has the device's qset of pointers and every block the  *)
(* bytes that scull_alloc gives now, which hold a quantum: what scull_trim *)
(* relies on to free everything once.                                      *)
THEOREM MemoryUniform == TrimAlone => (Spec => []GeometryUniform)
  <1>1. MemInv => GeometryUniform
    <2> SUFFICES ASSUME MemInv, NEW n \in 1 .. Len(data), data[n] # NULL
                 PROVE  /\ DOMAIN data[n] = 0 .. qset - 1
                        /\ quantum <= scull_alloc
                        /\ \A s \in DOMAIN data[n] :
                              data[n][s] /= NULL => DOMAIN data[n][s] = 0 .. scull_alloc - 1
      BY DEF GeometryUniform
    <2>1. data[n] \in Arrays
      BY ListElements
    <2>2. quantum <= scull_alloc
      BY AllocHolds DEF MemInv
    <2>3. QED
      BY <2>1, <2>2 DEF Arrays, Blocks
  <1>2. QED
    BY <1>1, MemAlways, PTL

-----------------------------------------------------------------------------
(* The device as a file.                                                   *)

(* The block behind pointer s of an item, if there is one.                 *)
BlockOf(list, item, s) ==
    IF item >= Len(list) THEN NULL
    ELSE IF list[item + 1] = NULL THEN NULL
    ELSE list[item + 1][s]

(* The geometries the device can have.                                     *)
Geometries ==
    /\ scull_quantum \in Sizes \cup {QUANTUM_SIZE}
    /\ scull_qset_n \in Sizes \cup {QSET_SIZE}
    /\ qset \in Sizes \cup {QSET_SIZE}
    /\ quantum \in Sizes \cup {QUANTUM_SIZE, PAGE}
    /\ type = "basic" => quantum \in Sizes \cup {QUANTUM_SIZE}

WriteSteps == {"w_down", "w_find", "w_copy"}

WritesInside == \A p \in Procs : pc[p] \in WriteSteps => f_pos[p] <= MaxPos

(* Every block begins at a position of the file.                           *)
Within ==
    \A item \in Nat, s \in 0 .. qset - 1 :
        BlockOf(data, item, s) # NULL => quantum * (qset * item + s) <= MaxPos

FileInv == MemInv /\ Geometries /\ WritesInside /\ Within

LEMMA NullApart ==
    ASSUME MemInv, Geometries
    PROVE  /\ NULL \notin Blocks /\ NULL \notin Arrays
           /\ ((MaxPos + 1) % quantum) = 0
  <1>1. scull_alloc \in Sizes \cup {QUANTUM_SIZE, PAGE}
    BY DEF Geometries, MemInv, ScalarTypes, scull_alloc
  <1>2. qset \in Sizes \cup {QSET_SIZE}
    BY DEF Geometries
  <1>3. NULL \notin Blocks /\ NULL \notin Arrays
    BY <1>1, <1>2, NullAssumption DEF Blocks, Arrays
  <1>4. ((MaxPos + 1) % quantum) = 0
    BY MemAssumption DEF Geometries
  <1>5. QED
    BY <1>3, <1>4

-----------------------------------------------------------------------------
(* Positions and blocks.                                                   *)

(* The number of the block that holds position i.                          *)
LEMMA BlockNumber ==
    ASSUME NEW q \in Nat \ {0}, NEW n \in Nat \ {0}, NEW i \in Nat
    PROVE  /\ n * ItemOf(i, q, n) + SlotOf(i, q, n) = i \div q
           /\ i \div q \in Nat /\ (i % q) \in 0 .. q - 1
           /\ i = q * (i \div q) + (i % q)
           /\ ItemOf(i, q, n) = (i \div q) \div n
           /\ SlotOf(i, q, n) = ((i \div q) % n)
  <1>1. i \div q \in Nat /\ (i % q) \in 0 .. q - 1 /\ i = q * (i \div q) + (i % q)
    BY DivMod
  <1>2. PICK b \in Nat : b = i \div q
    BY <1>1
  <1>3. b = n * (b \div n) + (b % n)
    BY DivMod
  <1>4. ItemOf(i, q, n) = b \div n /\ SlotOf(i, q, n) = (b % n)
    BY <1>2, Nested, ZenonT(30) DEF ItemOf, SlotOf
  <1>5. QED
    BY <1>1, <1>2, <1>3, <1>4

(* A block that begins at a position of the file ends at one.              *)
LEMMA BlockInside ==
    ASSUME NEW q \in Nat \ {0}, NEW b \in Nat, NEW m \in Nat, (m + 1) % q = 0, q * b <= m
    PROVE  q * b + q <= m + 1
  <1>1. PICK t \in Nat : m + 1 = q * t
    <2>1. (m + 1) \in Nat
      OBVIOUS
    <2>2. m + 1 = q * ((m + 1) \div q) + 0 /\ (m + 1) \div q \in Nat
      BY <2>1, DivMod
    <2>3. QED
      BY <2>2
  <1>2. q * b < q * t
    BY <1>1
  <1>3. b < t
    <2>1. CASE b >= t
      <3>1. q * (b - t) >= 0
        BY <2>1
      <3>2. q * (b - t) = q * b - q * t
        BY <1>1
      <3>3. QED
        BY <1>2, <3>1, <3>2
    <2>2. QED
      BY <2>1
  <1>4. q * (b + 1) <= q * t
    <2>1. q * (t - (b + 1)) >= 0
      BY <1>3
    <2>2. q * (t - (b + 1)) = q * t - q * (b + 1)
      OBVIOUS
    <2>3. QED
      BY <2>1, <2>2
  <1>5. q * (b + 1) = q * b + q
    OBVIOUS
  <1>6. QED
    BY <1>1, <1>4, <1>5

(* The bytes that a transfer of c bytes at pos moves lie in one block, in  *)
(* their order.                                                            *)
LEMMA OneBlock ==
    ASSUME NEW q \in Nat \ {0}, NEW n \in Nat \ {0}, NEW pos \in Nat, NEW c \in Nat,
           OffsetOf(pos, q, n) + c <= q, NEW j \in pos .. pos + c - 1
    PROVE  /\ ItemOf(j, q, n) = ItemOf(pos, q, n) /\ SlotOf(j, q, n) = SlotOf(pos, q, n)
           /\ (j % q) = OffsetOf(pos, q, n) + (j - pos)
  <1>1. PICK b, o : b = pos \div q /\ o = (pos % q)
    OBVIOUS
  <1>2. b \in Nat /\ o \in 0 .. q - 1 /\ pos = q * b + o /\ OffsetOf(pos, q, n) = o
    BY <1>1, DivMod, InGeometry
  <1>3. PICK r : r = o + (j - pos)
    OBVIOUS
  <1>4. r \in 0 .. q - 1 /\ j \in Nat
    BY <1>2, <1>3
  <1>5. j = q * b + r
    <2>1. q * b \in Nat
      BY <1>2
    <2>2. QED
      BY <1>2, <1>3, <2>1
  <1>6. j \div q = b /\ (j % q) = r
    BY <1>2, <1>4, <1>5, DivModUnique
  <1>7. ItemOf(j, q, n) = b \div n /\ SlotOf(j, q, n) = (b % n)
    BY <1>4, <1>6, BlockNumber
  <1>8. ItemOf(pos, q, n) = b \div n /\ SlotOf(pos, q, n) = (b % n)
    BY <1>1, BlockNumber
  <1>9. QED
    BY <1>2, <1>3, <1>6, <1>7, <1>8, Zenon

(* And no other byte of that block is among them.                          *)
LEMMA OnlyThose ==
    ASSUME NEW q \in Nat \ {0}, NEW n \in Nat \ {0}, NEW pos \in Nat, NEW c \in Nat,
           NEW j \in Nat,
           ItemOf(j, q, n) = ItemOf(pos, q, n), SlotOf(j, q, n) = SlotOf(pos, q, n),
           (j % q) \in OffsetOf(pos, q, n) .. OffsetOf(pos, q, n) + c - 1
    PROVE  /\ j \in pos .. pos + c - 1
           /\ (j % q) - OffsetOf(pos, q, n) = j - pos
  <1>1. PICK b, o : b = pos \div q /\ o = (pos % q)
    OBVIOUS
  <1>2. b \in Nat /\ o \in 0 .. q - 1 /\ pos = q * b + o /\ OffsetOf(pos, q, n) = o
    BY <1>1, DivMod, InGeometry
  <1>3. j \div q = b /\ j = q * (j \div q) + (j % q) /\ (j % q) \in 0 .. q - 1
    <2>1. j \div q = n * ItemOf(j, q, n) + SlotOf(j, q, n)
      BY BlockNumber, ZenonT(30)
    <2>2. b = n * ItemOf(pos, q, n) + SlotOf(pos, q, n)
      BY <1>1, BlockNumber, ZenonT(30)
    <2>3. QED
      BY <2>1, <2>2, DivMod
  <1>4. PICK r \in 0 .. q - 1 : r = (j % q)
    BY <1>3
  <1>5. j = q * b + r /\ q * b \in Nat
    <2>1. j = q * b + r
      BY <1>3, <1>4, Zenon
    <2>2. QED
      BY <1>2, <2>1
  <1>6. r \in o .. o + c - 1
    BY <1>2, <1>4
  <1>7. QED
    BY <1>2, <1>4, <1>5, <1>6

-----------------------------------------------------------------------------
(* What the lists that scull_read and scull_write make hold.               *)

LEMMA FollowHolds ==
    ASSUME MemInv, NEW last \in Int, last >= -1, NEW item \in Nat, NEW s
    PROVE  BlockOf(scull_follow(last), item, s) = BlockOf(data, item, s)
  <1>1. PICK list : list = scull_follow(last)
    OBVIOUS
  <1>2. /\ Len(list) \in Nat /\ Len(list) >= Len(data)
        /\ \A n \in 1 .. Len(list) : list[n] = IF n <= Len(data) THEN data[n] ELSE NULL
    BY <1>1, Follow
  <1>3. Len(data) \in Nat
    BY ListElements
  <1>4. CASE item >= Len(list)
    BY <1>1, <1>2, <1>3, <1>4 DEF BlockOf
  <1>5. CASE item < Len(list)
    <2>1. list[item + 1] = IF item + 1 <= Len(data) THEN data[item + 1] ELSE NULL
      BY <1>2, <1>5
    <2>2. CASE item < Len(data)
      BY <1>1, <1>2, <1>3, <1>5, <2>1, <2>2 DEF BlockOf
    <2>3. CASE item >= Len(data)
      BY <1>1, <1>2, <1>3, <1>5, <2>1, <2>3 DEF BlockOf
    <2>4. QED
      BY <1>3, <2>2, <2>3
  <1>6. QED
    BY <1>2, <1>4, <1>5

(* A new array points to no block.                                         *)
LEMMA ArrayHolds ==
    ASSUME MemInv, NEW p \in Procs, pc[p] \in TransferSteps,
           NEW item \in Nat, NEW s \in 0 .. qset - 1
    PROVE  BlockOf(WithArray(p, scull_follow(Place(p).item), Place(p)), item, s)
             = BlockOf(data, item, s)
  <1>1. PICK bare, n : bare = scull_follow(Place(p).item) /\ n = Place(p).item + 1
    OBVIOUS
  <1>2. /\ bare \in Seq({NULL} \cup Arrays) /\ n \in 1 .. Len(bare) /\ Len(bare) \in Nat
    BY <1>1, Found, LenProperties
  <1>3. BlockOf(bare, item, s) = BlockOf(data, item, s)
    <2>1. PICK last \in Int : last = Place(p).item /\ last >= -1
      BY PlaceIs
    <2>2. QED
      BY <1>1, <2>1, FollowHolds
  <1>4. PICK list : list = WithArray(p, scull_follow(Place(p).item), Place(p))
    OBVIOUS
  <1>5. list = IF bare[n] = NULL THEN [bare EXCEPT ![n] = NewArray(p)] ELSE bare
    BY <1>1, <1>4 DEF WithArray, ArrayAt
  <1>6. CASE bare[n] = NULL
    <2>1. NewArray(p) \in {NULL} \cup Arrays /\ NewArray(p)[s] = NULL
      BY DEF NewArray, Arrays, MemInv, Current
    <2>2. PICK array : array = NewArray(p)
      OBVIOUS
    <2>3. list = [bare EXCEPT ![n] = array]
      BY <1>5, <1>6, <2>2
    <2>4. Len(list) = Len(bare) /\ list[n] = array /\ \A i \in 1 .. Len(bare) : i # n => list[i] = bare[i]
      BY <1>2, <2>1, <2>2, <2>3, ExceptSeq
    <2>5. CASE item >= Len(list)
      BY <1>3, <1>4, <2>4, <2>5 DEF BlockOf
    <2>6. CASE item < Len(list) /\ item + 1 = n
      BY <1>2, <1>3, <1>4, <1>6, <2>1, <2>2, <2>4, <2>6 DEF BlockOf
    <2>7. CASE item < Len(list) /\ item + 1 # n
      BY <1>2, <1>3, <1>4, <2>4, <2>7 DEF BlockOf
    <2>8. QED
      BY <1>2, <2>4, <2>5, <2>6, <2>7
  <1>7. CASE bare[n] # NULL
    BY <1>3, <1>4, <1>5, <1>7
  <1>8. QED
    BY <1>6, <1>7

Stored(new, list, n, k, block) == new = [list EXCEPT ![n][k] = block]

LEMMA StoreHolds ==
    ASSUME NULL \notin Arrays,
           NEW list \in Seq({NULL} \cup Arrays), NEW n \in 1 .. Len(list),
           list[n] \in Arrays, NEW k \in 0 .. qset - 1, NEW block \in Blocks,
           NEW new, Stored(new, list, n, k, block),
           NEW item \in Nat, NEW s \in 0 .. qset - 1
    PROVE  BlockOf(new, item, s)
             = IF item + 1 = n /\ s = k THEN block ELSE BlockOf(list, item, s)
  <1> DEFINE array == [list[n] EXCEPT ![k] = block]
  <1>1. array \in Arrays /\ array[s] = IF s = k THEN block ELSE list[n][s]
    BY DEF Arrays
  <1>2. new = [list EXCEPT ![n] = array]
    BY DEF Stored
  <1> HIDE DEF array
  <1>3. /\ Len(list) \in Nat /\ Len(new) = Len(list) /\ new[n] = array
        /\ \A i \in 1 .. Len(list) : i # n => new[i] = list[i]
    BY <1>1, <1>2, ExceptSeq, LenProperties
  <1>4. array # NULL /\ list[n] # NULL
    BY <1>1
  <1>5. CASE item >= Len(list)
    BY <1>3, <1>5 DEF BlockOf
  <1>6. CASE item < Len(list) /\ item + 1 = n
    <2>1. BlockOf(new, item, s) = array[s] /\ BlockOf(list, item, s) = list[n][s]
      BY <1>3, <1>4, <1>6 DEF BlockOf
    <2>2. QED
      BY <1>1, <1>6, <2>1
  <1>7. CASE item < Len(list) /\ item + 1 # n
    BY <1>3, <1>7 DEF BlockOf
  <1>8. QED
    BY <1>3, <1>5, <1>6, <1>7

-----------------------------------------------------------------------------
(* The bytes of the file.                                                  *)

Content == [i \in 0 .. MaxPos |-> ByteAt(i)]

ByteOf(block, o) == IF block = NULL THEN Zero ELSE block[o]

LEMMA ByteAtIs ==
    ASSUME NEW i \in Nat
    PROVE  ByteAt(i) = ByteOf(BlockOf(data, ItemOf(i, quantum, qset), SlotOf(i, quantum, qset)),
                              i % quantum)
  BY DEF ByteAt, ByteOf, BlockOf, ItemOf, SlotOf

(* The blocks of the list stay as they are; a block that is new is zero up *)
(* to the quantum and begins at a position of the file.                    *)
SameBlock(item, s) == BlockOf(data', item, s) = BlockOf(data, item, s)

ZeroBlock(item, s) ==
    /\ BlockOf(data, item, s) = NULL
    /\ quantum * (qset * item + s) <= MaxPos
    /\ \A o \in 0 .. quantum - 1 : ByteOf(BlockOf(data', item, s), o) = Zero

SameBytes == \A item \in Nat, s \in 0 .. qset - 1 : SameBlock(item, s) \/ ZeroBlock(item, s)

LEMMA BytesStay ==
    ASSUME MemInv, Within, UNCHANGED <<quantum, qset>>, SameBytes
    PROVE  Within' /\ Content' = Content
  <1>1. Within'
    <2> SUFFICES ASSUME NEW item \in Nat, NEW s \in 0 .. qset - 1, BlockOf(data', item, s) # NULL
                 PROVE  quantum * (qset * item + s) <= MaxPos
      BY DEF Within, BlockOf
    <2>1. CASE SameBlock(item, s)
      BY <2>1 DEF SameBlock, Within
    <2>2. CASE ZeroBlock(item, s)
      BY <2>2 DEF ZeroBlock
    <2>3. QED
      BY <2>1, <2>2 DEF SameBytes
  <1>2. ASSUME NEW i \in 0 .. MaxPos
        PROVE  ByteAt(i)' = ByteAt(i)
    <2>1. PICK item, s, o : item = ItemOf(i, quantum, qset) /\ s = SlotOf(i, quantum, qset)
                              /\ o = (i % quantum)
      OBVIOUS
    <2>2. i \in Nat /\ quantum \in Nat \ {0} /\ qset \in Nat \ {0}
      BY MemAssumption DEF MemInv, ScalarTypes
    <2>3. item \in Nat /\ s \in 0 .. qset - 1 /\ o \in 0 .. quantum - 1
      BY <2>1, <2>2, InGeometry
    <2>4. ByteAt(i) = ByteOf(BlockOf(data, item, s), o)
      BY <2>1, <2>2, ByteAtIs
    <2>5. ByteAt(i)' = ByteOf(BlockOf(data', item, s), o)
      BY <2>1 DEF ByteAt, ByteOf, BlockOf, ItemOf, SlotOf
    <2>6. CASE SameBlock(item, s)
      BY <2>4, <2>5, <2>6 DEF SameBlock
    <2>7. CASE ZeroBlock(item, s)
      BY <2>3, <2>4, <2>5, <2>7 DEF ZeroBlock, ByteOf
    <2>8. QED
      BY <2>3, <2>6, <2>7 DEF SameBytes
  <1>3. Content' = [i \in 0 .. MaxPos |-> ByteAt(i)']
    BY DEF Content
  <1>4. QED
    BY <1>1, <1>2, <1>3 DEF Content

LEMMA Untouched ==
    ASSUME data' = data
    PROVE  SameBytes
  BY DEF SameBytes, SameBlock

(* The steps of the file.                                                  *)
FileStep == [File!Next]_(File!vars)

(* What a step has to show: the blocks stay inside, the position of a      *)
(* write too, and the step is one of the file.                             *)
Files(p) ==
    /\ UNCHANGED <<globals, quantum, qset>>
    /\ pc' = [pc EXCEPT ![p] = pc'[p]]
    /\ f_pos' = [f_pos EXCEPT ![p] = f_pos'[p]]
    /\ pc'[p] \in WriteSteps => f_pos'[p] <= MaxPos
    /\ Within'
    /\ FileStep

LEMMA FilesKeeps ==
    ASSUME FileInv, NEW p \in Procs, Files(p)
    PROVE  Geometries' /\ WritesInside' /\ Within' /\ FileStep
  <1>1. Geometries'
    BY DEF FileInv, Geometries, Files, globals
  <1>2. WritesInside'
    BY DEF FileInv, WritesInside, Files, MemInv, SemInv, PcType, ScalarTypes
  <1>3. QED
    BY <1>1, <1>2 DEF Files

(* A step that moves no byte: it may forget what the last read returned.   *)
LEMMA QuietStep ==
    ASSUME FileInv, NEW p \in Procs, UNCHANGED <<quantum, qset, f_pos>>, SameBytes,
           got' = got \/ got' = [got EXCEPT ![p] = << >>]
    PROVE  Within' /\ FileStep
  <1>1. Within' /\ Content' = Content
    BY BytesStay DEF FileInv
  <1>2. CASE got' = got
    BY <1>1, <1>2 DEF FileStep, File!vars, Content
  <1>3. CASE got' = [got EXCEPT ![p] = << >>]
    <2>1. File!Forget(p)
      BY <1>1, <1>3 DEF File!Forget, Content
    <2>2. QED
      BY <1>1, <2>1 DEF FileStep, File!Next
  <1>4. QED
    BY <1>2, <1>3

LEMMA QuietFiles ==
    ASSUME FileInv, NEW p \in Procs, SemMove(p), UNCHANGED <<globals, quantum, qset, f_pos>>,
           pc'[p] \in WriteSteps => f_pos[p] <= MaxPos, SameBytes,
           got' = got \/ got' = [got EXCEPT ![p] = << >>]
    PROVE  Files(p)
  <1>1. Within' /\ FileStep
    BY QuietStep
  <1>2. f_pos' = [f_pos EXCEPT ![p] = f_pos'[p]]
    BY DEF FileInv, MemInv, ScalarTypes
  <1>3. QED
    BY <1>1, <1>2 DEF Files, SemMove

LEMMA FileCalls ==
    ASSUME FileInv, NEW p \in Procs, SemMove(p),
           \/ scull_open(p) \/ ReadCall(p) \/ WriteCall(p)
           \/ Down(p, "r_down", "r_find") \/ Down(p, "w_down", "w_find")
           \/ Down(p, "p_down", "p_walk") \/ Down(p, "s_down", "s_walk")
           \/ ReportCall(p, "p_down") \/ ReportCall(p, "s_down")
    PROVE  Files(p)
  <1>1. /\ UNCHANGED <<globals, quantum, qset, f_pos, data>>
        /\ got' = got \/ got' = [got EXCEPT ![p] = << >>]
    BY DEF scull_open, ReadCall, WriteCall, Down, ReportCall, shape, memory, calls
  <1>2. pc'[p] \in WriteSteps => f_pos[p] <= MaxPos
    BY DEF scull_open, ReadCall, WriteCall, Down, ReportCall, Goto, WriteSteps,
           FileInv, WritesInside, MemInv, SemInv, PcType
  <1>3. QED
    BY <1>1, <1>2, Untouched, QuietFiles

(* A call that returns is not in a write.                                  *)
LEMMA Returned ==
    ASSUME FileInv, NEW p \in Procs, Return(p)
    PROVE  pc'[p] \notin WriteSteps
  BY DEF FileInv, MemInv, SemInv, PcType, Return, Goto, WriteSteps

LEMMA FileReturns ==
    ASSUME FileInv, NEW p \in Procs, SemMove(p),
           \/ DownInterrupted(p, "r_down") \/ DownInterrupted(p, "w_down")
           \/ DownInterrupted(p, "p_down") \/ DownInterrupted(p, "s_down")
           \/ scull_read_eof(p) \/ scull_read_EFAULT(p)
           \/ ReportWalk(p, "p_walk") \/ ReportWalk(p, "s_walk")
    PROVE  Files(p)
  <1>1. /\ UNCHANGED <<globals, quantum, qset, f_pos, data>>
        /\ got' = got \/ got' = [got EXCEPT ![p] = << >>]
        /\ Return(p)
    BY DEF DownInterrupted, scull_read_eof, scull_read_EFAULT, ReportWalk, shape, memory
  <1>2. QED
    BY <1>1, Returned, Untouched, QuietFiles

LEMMA FileRelease ==
    ASSUME FileInv, NEW p \in Procs, SemMove(p), scull_release(p)
    PROVE  Files(p)
  <1>1. /\ UNCHANGED <<globals, quantum, qset, data>> /\ pc'[p] = "closed"
        /\ f_pos' = [f_pos EXCEPT ![p] = 0] /\ f_pos' = [f_pos EXCEPT ![p] = f_pos'[p]]
        /\ got' = [got EXCEPT ![p] = << >>]
    BY DEF scull_release, shape, memory, Goto, FileInv, MemInv, SemInv, PcType, ScalarTypes
  <1>2. Within' /\ Content' = Content
    BY <1>1, Untouched, BytesStay DEF FileInv
  <1>3. File!Close(p)
    BY <1>1, <1>2 DEF File!Close, Content
  <1>4. FileStep
    BY <1>3 DEF FileStep, File!Next
  <1>5. QED
    BY <1>1, <1>2, <1>4 DEF Files, SemMove, WriteSteps

(* Items that scull_follow adds hold no block.                             *)
LEMMA Followed ==
    ASSUME MemInv, NEW last \in Int, last >= -1, data' = scull_follow(last)
    PROVE  SameBytes
  BY FollowHolds DEF SameBytes, SameBlock

LEMMA FileFinds ==
    ASSUME FileInv, NEW p \in Procs, SemMove(p), scull_read_find(p) \/ scull_read_ENOMEM(p)
    PROVE  Files(p)
  <1>1. MemInv /\ pc[p] = "r_find" /\ pc[p] \in TransferSteps
    BY DEF scull_read_find, scull_read_ENOMEM, FileInv, TransferSteps
  <1>2. /\ UNCHANGED <<globals, quantum, qset, f_pos>>
        /\ got' = got \/ got' = [got EXCEPT ![p] = << >>]
    BY DEF scull_read_find, scull_read_ENOMEM, shape
  <1>3. pc'[p] \in {"open", "r_copy"}
    BY <1>1 DEF scull_read_find, scull_read_ENOMEM, Return, Goto, MemInv, SemInv, PcType
  <1>4. SameBytes
    <2>1. PICK last \in Int : last >= -1 /\ data' = scull_follow(last)
      <3>1. Place(p).item \in Nat /\ Len(data) \in Nat
        BY <1>1, PlaceIs, ListElements
      <3>2. CASE scull_read_find(p)
        BY <3>1, <3>2 DEF scull_read_find
      <3>3. CASE scull_read_ENOMEM(p)
        <4>1. PICK n \in Len(data) .. Place(p).item : data' = scull_follow(n - 1)
          BY <3>3 DEF scull_read_ENOMEM
        <4>2. n - 1 \in Int /\ n - 1 >= -1
          BY <3>1, <4>1
        <4>3. QED
          BY <4>1, <4>2
      <3>4. QED
        BY <3>2, <3>3
    <2>2. QED
      BY <1>1, <2>1, Followed
  <1>5. QED
    BY <1>2, <1>3, <1>4, QuietFiles DEF WriteSteps

LEMMA FileNoMemory ==
    ASSUME FileInv, NEW p \in Procs, SemMove(p), scull_write_ENOMEM(p)
    PROVE  Files(p)
  <1>1. MemInv /\ pc[p] = "w_find" /\ pc[p] \in TransferSteps /\ Return(p)
    BY DEF scull_write_ENOMEM, FileInv, TransferSteps
  <1>2. UNCHANGED <<globals, quantum, qset, f_pos, got>>
    BY DEF scull_write_ENOMEM, shape
  <1>3. Place(p).item \in Nat /\ Len(data) \in Nat
    BY <1>1, PlaceIs, ListElements
  <1>4. SameBytes
    <2>1. CASE \E n \in Len(data) .. Place(p).item : data' = scull_follow(n - 1)
      <3>1. PICK n \in Len(data) .. Place(p).item : data' = scull_follow(n - 1)
        BY <2>1
      <3>2. n - 1 \in Int /\ n - 1 >= -1
        BY <1>3, <3>1
      <3>3. QED
        BY <1>1, <3>1, <3>2, Followed
    <2>2. CASE data' = scull_follow(Place(p).item)
      <3>1. PICK last \in Int : last = Place(p).item /\ last >= -1
        BY <1>3
      <3>2. QED
        BY <1>1, <2>2, <3>1, Followed
    <2>3. CASE data' = WithArray(p, scull_follow(Place(p).item), Place(p))
      BY <1>1, <2>3, ArrayHolds DEF SameBytes, SameBlock
    <2>4. QED
      BY <2>1, <2>2, <2>3 DEF scull_write_ENOMEM
  <1>5. QED
    BY <1>1, <1>2, <1>4, Returned, QuietFiles

(* The block of a position of the file begins at one.                      *)
LEMMA BeginsInside ==
    ASSUME NEW q \in Nat \ {0}, NEW n \in Nat \ {0}, NEW i \in Nat, NEW m \in Nat, i <= m
    PROVE  q * (n * ItemOf(i, q, n) + SlotOf(i, q, n)) <= m
  <1>1. PICK b \in Nat : b = i \div q /\ i = q * b + (i % q) /\ (i % q) \in 0 .. q - 1
    BY DivMod
  <1>2. n * ItemOf(i, q, n) + SlotOf(i, q, n) = b
    BY <1>1, BlockNumber
  <1>3. q * b <= i
    <2>1. q * b \in Nat
      BY <1>1
    <2>2. QED
      BY <1>1, <2>1
  <1>4. q * b <= m
    BY <1>1, <1>3
  <1>5. QED
    BY <1>2, <1>4

LEMMA FileWriteFind ==
    ASSUME FileInv, NEW p \in Procs, SemMove(p), scull_write_find(p)
    PROVE  Files(p)
  <1>1. MemInv /\ pc[p] = "w_find" /\ pc[p] \in TransferSteps /\ f_pos[p] <= MaxPos
    BY DEF scull_write_find, FileInv, TransferSteps, WritesInside, WriteSteps
  <1>2. UNCHANGED <<globals, quantum, qset, f_pos, got>>
    BY DEF scull_write_find, shape
  <1>3. PICK where, list : where = Place(p) /\ list = WithArray(p, scull_follow(where.item), where)
    OBVIOUS
  <1>4. /\ list \in Seq({NULL} \cup Arrays) /\ where.item + 1 \in 1 .. Len(list)
        /\ ArrayAt(list, where.item) \in Arrays /\ InArray(list, where) /\ Len(list) \in Nat
    BY <1>1, <1>3, Arrayed
  <1>5. data' = IF BlockAt(list, where) = NULL
                THEN [list EXCEPT ![where.item + 1][where.s_pos] = NewBlock(p)] ELSE list
    BY <1>3, <1>4 DEF scull_write_find
  <1>6. \A item \in Nat, s \in 0 .. qset - 1 : BlockOf(list, item, s) = BlockOf(data, item, s)
    BY <1>1, <1>3, ArrayHolds
  <1>7. /\ where.item = ItemOf(f_pos[p], quantum, qset) /\ where.item \in Nat
        /\ where.s_pos = SlotOf(f_pos[p], quantum, qset) /\ where.s_pos \in 0 .. qset - 1
    BY <1>1, <1>3, PlaceIs
  <1>8. SameBytes
    <2>1. CASE BlockAt(list, where) # NULL
      BY <1>5, <1>6, <2>1 DEF SameBytes, SameBlock
    <2>2. CASE BlockAt(list, where) = NULL
      <3>1. PICK n, k, block : n = where.item + 1 /\ k = where.s_pos /\ block = NewBlock(p)
        OBVIOUS
      <3>2. /\ data' = [list EXCEPT ![n][k] = block] /\ block \in Blocks
            /\ n \in 1 .. Len(list) /\ list[n] \in Arrays /\ k \in 0 .. qset - 1
        BY <1>1, <1>4, <1>5, <1>7, <2>2, <3>1, NewBlockFits DEF ArrayAt
      <3>3. NULL \notin Arrays
        BY <1>1, NullApart DEF FileInv
      <3>4. ASSUME NEW item \in Nat, NEW s \in 0 .. qset - 1
            PROVE  BlockOf(data', item, s)
                     = IF item + 1 = n /\ s = k THEN block ELSE BlockOf(list, item, s)
        <4>1. PICK new : new = data'
          OBVIOUS
        <4>2. Stored(new, list, n, k, block)
          BY <3>2, <4>1 DEF Stored
        <4>3. BlockOf(new, item, s)
                = IF item + 1 = n /\ s = k THEN block ELSE BlockOf(list, item, s)
          <5>1. list \in Seq({NULL} \cup Arrays) /\ n \in 1 .. Len(list) /\ list[n] \in Arrays
                /\ k \in 0 .. qset - 1 /\ block \in Blocks
            BY <1>4, <3>2
          <5>2. QED
            BY <3>3, <4>2, <5>1, StoreHolds
        <4>4. QED
          BY <4>1, <4>3, Zenon
      <3>5. ASSUME NEW item \in Nat, NEW s \in 0 .. qset - 1, item + 1 = n, s = k
            PROVE  ZeroBlock(item, s)
        <4>1. item = where.item /\ s = where.s_pos
          BY <1>7, <3>1, <3>5
        <4>2. BlockOf(list, item, s) = NULL
          BY <1>4, <2>2, <4>1 DEF BlockOf, BlockAt, ArrayAt
        <4>3. quantum * (qset * item + s) <= MaxPos
          BY <1>1, <1>7, <4>1, BeginsInside, MemAssumption DEF MemInv, ScalarTypes
        <4>4. ASSUME NEW o \in 0 .. quantum - 1
              PROVE  ByteOf(block, o) = Zero
          <5>1. call[p].quantum = quantum /\ quantum \in Nat /\ scull_alloc \in Nat
                /\ quantum <= scull_alloc
            BY <1>1, AllocHolds DEF MemInv, Current, ScalarTypes
          <5>2. o \in 0 .. scull_alloc - 1 /\ o < call[p].quantum
            BY <5>1
          <5>3. NewBlock(p)[o] = Zero
            BY <5>2 DEF NewBlock
          <5>4. QED
            BY <3>1, <5>3 DEF ByteOf
        <4>5. BlockOf(data', item, s) = block
          BY <3>4, <3>5
        <4>6. QED
          BY <1>6, <4>2, <4>3, <4>4, <4>5 DEF ZeroBlock
      <3>6. ASSUME NEW item \in Nat, NEW s \in 0 .. qset - 1, ~(item + 1 = n /\ s = k)
            PROVE  SameBlock(item, s)
        BY <1>6, <3>4, <3>6 DEF SameBlock
      <3>7. QED
        BY <3>5, <3>6 DEF SameBytes
    <2>3. QED
      BY <2>1, <2>2
  <1>9. QED
    BY <1>1, <1>2, <1>8, QuietFiles

(* What a call that copies is about, as positions of the file.             *)
LEMMA Span ==
    ASSUME FileInv, NEW p \in Procs, pc[p] \in CopySteps, NEW c \in Nat,
           call[p].q_pos + c <= quantum
    PROVE  /\ f_pos[p] + c <= MaxPos + 1
           /\ call[p].item = ItemOf(f_pos[p], quantum, qset)
           /\ call[p].s_pos = SlotOf(f_pos[p], quantum, qset)
           /\ call[p].q_pos = OffsetOf(f_pos[p], quantum, qset)
           /\ BlockOf(data, call[p].item, call[p].s_pos) = BlockAt(data, call[p])
           /\ BlockAt(data, call[p]) # NULL
  <1>1. /\ MemInv /\ quantum \in Nat \ {0} /\ qset \in Nat \ {0} /\ f_pos[p] \in Nat
        /\ MaxPos \in Nat
    BY MemAssumption DEF FileInv, MemInv, ScalarTypes
  <1>2. /\ call[p].item = ItemOf(f_pos[p], quantum, qset)
        /\ call[p].s_pos = SlotOf(f_pos[p], quantum, qset)
        /\ call[p].q_pos = OffsetOf(f_pos[p], quantum, qset)
    BY <1>1 DEF MemInv, Current
  <1>3. /\ call[p].item + 1 \in 1 .. Len(data) /\ call[p].item \in Nat
        /\ call[p].s_pos \in 0 .. qset - 1 /\ call[p].q_pos \in 0 .. quantum - 1
        /\ ArrayAt(data, call[p].item) \in Arrays /\ BlockAt(data, call[p]) \in Blocks
    BY <1>1, CopyPlace
  <1>4. NULL \notin Blocks /\ NULL \notin Arrays /\ ((MaxPos + 1) % quantum) = 0
    BY <1>1, NullApart DEF FileInv
  <1>5. BlockAt(data, call[p]) # NULL /\ ArrayAt(data, call[p].item) # NULL
    BY <1>3, <1>4
  <1>6. BlockOf(data, call[p].item, call[p].s_pos) = BlockAt(data, call[p])
    <2>1. Len(data) \in Nat
      BY <1>1, ListElements
    <2>2. QED
      BY <1>3, <1>5, <2>1 DEF BlockOf, BlockAt, ArrayAt
  <1>7. quantum * (qset * call[p].item + call[p].s_pos) <= MaxPos
    BY <1>3, <1>5, <1>6 DEF FileInv, Within
  <1>8. PICK q, n, pos, b : q = quantum /\ n = qset /\ pos = f_pos[p] /\ b = pos \div q
    OBVIOUS
  <1>9. /\ n * ItemOf(pos, q, n) + SlotOf(pos, q, n) = b /\ b \in Nat
        /\ pos = q * b + (pos % q) /\ OffsetOf(pos, q, n) = (pos % q)
    <2>1. q \in Nat \ {0} /\ n \in Nat \ {0} /\ pos \in Nat
      BY <1>1, <1>8
    <2>2. /\ n * ItemOf(pos, q, n) + SlotOf(pos, q, n) = pos \div q /\ pos \div q \in Nat
          /\ pos = q * (pos \div q) + (pos % q)
      BY <2>1, BlockNumber
    <2>3. OffsetOf(pos, q, n) = (pos % q)
      BY <2>1, InGeometry
    <2>4. QED
      BY <1>8, <2>2, <2>3, Zenon
  <1>10. q * b <= MaxPos /\ q * b \in Nat
    <2>1. qset * call[p].item + call[p].s_pos = b
      BY <1>2, <1>8, <1>9, Zenon
    <2>2. q * b <= MaxPos
      BY <1>7, <1>8, <2>1
    <2>3. QED
      BY <1>1, <1>8, <1>9, <2>2
  <1>11. q * b + q <= MaxPos + 1
    BY <1>1, <1>4, <1>8, <1>9, <1>10, BlockInside
  <1>12. pos = q * b + call[p].q_pos
    BY <1>2, <1>8, <1>9, Zenon
  <1>13. f_pos[p] + c <= MaxPos + 1
    <2>1. PICK t \in Nat : t = q * b
      BY <1>10
    <2>2. t + quantum <= MaxPos + 1 /\ f_pos[p] = t + call[p].q_pos
      BY <1>8, <1>11, <1>12, <2>1
    <2>3. QED
      BY <1>1, <1>3, <2>2
  <1>14. QED
    BY <1>2, <1>5, <1>6, <1>13

(* A transfer of c bytes at pos stays in the file.                         *)
LEMMA InFile ==
    ASSUME NEW pos \in Nat, NEW c \in Nat, pos + c <= MaxPos + 1
    PROVE  /\ c \in 0 .. MaxPos \cup {i + 1 : i \in 0 .. MaxPos}
           /\ pos + c - 1 \in 0 .. MaxPos \cup {pos - 1}
           /\ \A i \in 1 .. c : pos + i - 1 \in 0 .. MaxPos /\ pos + i - 1 \in pos .. pos + c - 1
  <1>1. MaxPos \in Nat
    BY MemAssumption
  <1>2. CASE c = 0
    BY <1>1, <1>2
  <1>3. CASE c >= 1
    <2>1. c - 1 \in 0 .. MaxPos /\ c = (c - 1) + 1
      BY <1>1, <1>3
    <2>2. c \in {i + 1 : i \in 0 .. MaxPos}
      BY <2>1
    <2>3. QED
      BY <1>1, <1>3, <2>2
  <1>4. QED
    BY <1>2, <1>3

(* The bytes scull_read copies are those of the file at its position.      *)
LEMMA FileRead ==
    ASSUME FileInv, NEW p \in Procs, SemMove(p), NEW request \in 0 .. MaxRequest,
           scull_read_copy(p, request)
    PROVE  Files(p)
  <1>1. /\ MemInv /\ pc[p] = "r_copy" /\ pc[p] \in CopySteps /\ Return(p) /\ request \in Nat
        /\ f_pos[p] \in Nat /\ quantum \in Nat \ {0} /\ qset \in Nat \ {0}
    BY MemAssumption DEF scull_read_copy, CopySteps, FileInv, MemInv, ScalarTypes
  <1>2. PICK count : count = ReadCount(p, request)
    OBVIOUS
  <1>3. count \in Nat /\ call[p].q_pos + count <= quantum /\ Usable(p, count)
    BY <1>1, <1>2, Counts, CopyPlace
  <1>4. /\ UNCHANGED <<globals, quantum, qset, data>>
        /\ f_pos' = [f_pos EXCEPT ![p] = @ + count]
        /\ got' = [got EXCEPT ![p] =
                     [i \in 1 .. count |-> BlockAt(data, call[p])[call[p].q_pos + i - 1]]]
    BY <1>2, <1>3 DEF scull_read_copy, shape
  <1>5. PICK pos, block, o : pos = f_pos[p] /\ block = BlockAt(data, call[p]) /\ o = call[p].q_pos
    OBVIOUS
  <1>6. /\ pos \in Nat /\ pos + count <= MaxPos + 1 /\ block # NULL
        /\ o = OffsetOf(pos, quantum, qset) /\ o + count <= quantum
        /\ BlockOf(data, ItemOf(pos, quantum, qset), SlotOf(pos, quantum, qset)) = block
    BY <1>1, <1>3, <1>5, Span
  <1>7. o \in Nat
    BY <1>1, <1>5, CopyPlace
  <1>8. ASSUME NEW i \in 1 .. count
        PROVE  block[o + i - 1] = Content[pos + i - 1]
    <2>1. PICK j : j = pos + i - 1
      OBVIOUS
    <2>2. j \in 0 .. MaxPos /\ j \in pos .. pos + count - 1 /\ j \in Nat
      BY <1>3, <1>6, <2>1, InFile, MemAssumption
    <2>3. /\ ItemOf(j, quantum, qset) = ItemOf(pos, quantum, qset)
          /\ SlotOf(j, quantum, qset) = SlotOf(pos, quantum, qset)
          /\ (j % quantum) = o + (j - pos)
      BY <1>1, <1>3, <1>6, <2>2, OneBlock
    <2>4. o + (j - pos) = o + i - 1
      BY <1>3, <1>6, <1>7, <2>1
    <2>5. ByteAt(j) = ByteOf(block, o + i - 1)
      BY <1>6, <2>2, <2>3, <2>4, ByteAtIs
    <2>6. ByteAt(j) = block[o + i - 1]
      BY <1>6, <2>5 DEF ByteOf
    <2>7. QED
      BY <2>1, <2>2, <2>6 DEF Content
  <1>9. got' = [got EXCEPT ![p] = [i \in 1 .. count |-> Content[pos + i - 1]]]
    BY <1>4, <1>5, <1>8
  <1>10. Within' /\ Content' = Content
    BY <1>1, <1>4, Untouched, BytesStay DEF FileInv
  <1>11. File!Read(p, count)
    <2>1. got' = [got EXCEPT ![p] = [i \in 1 .. count |-> Content[f_pos[p] + i - 1]]]
      BY <1>5, <1>9
    <2>2. File!Read(p, count) <=> /\ got' = [got EXCEPT ![p] =
                                              [i \in 1 .. count |-> Content[f_pos[p] + i - 1]]]
                                  /\ f_pos' = [f_pos EXCEPT ![p] = @ + count]
                                  /\ UNCHANGED Content
      BY DEF File!Read, Content
    <2>3. QED
      BY <1>4, <1>10, <2>1, <2>2
  <1>12. FileStep
    <2>1. /\ count \in 0 .. MaxPos \cup {i + 1 : i \in 0 .. MaxPos}
          /\ pos + count - 1 \in 0 .. MaxPos \cup {pos - 1}
      BY <1>3, <1>6, InFile
    <2>2. QED
      BY <1>5, <1>11, <2>1 DEF FileStep, File!Next
  <1>13. pc'[p] \notin WriteSteps
    BY <1>1, Returned
  <1>14. f_pos' = [f_pos EXCEPT ![p] = f_pos'[p]]
    BY <1>4 DEF FileInv, MemInv, ScalarTypes
  <1>15. QED
    BY <1>4, <1>10, <1>12, <1>13, <1>14 DEF Files, SemMove

LEMMA FileReset ==
    ASSUME FileInv, NEW p \in Procs, scull_trim_reset(p)
    PROVE  Geometries' /\ WritesInside' /\ Within' /\ FileStep
  <1>1. /\ UNCHANGED <<globals, f_pos, got>> /\ quantum' = scull_quantum /\ qset' = scull_qset_n
        /\ data' = << >> /\ pc[p] = "o_reset" /\ Return(p)
    BY DEF scull_trim_reset
  <1>2. Geometries'
    BY <1>1 DEF FileInv, Geometries, globals
  <1>3. WritesInside'
    BY <1>1 DEF FileInv, WritesInside, WriteSteps, MemInv, SemInv, PcType, Return, Goto
  <1>4. ASSUME NEW item \in Nat, NEW s
        PROVE  BlockOf(data', item, s) = NULL
    BY <1>1 DEF BlockOf
  <1>5. Within'
    BY <1>4 DEF Within, BlockOf
  <1>6. Content' = [i \in 0 .. MaxPos |-> Zero]
    <2>1. quantum' \in Nat \ {0} /\ qset' \in Nat \ {0}
      BY <1>1 DEF FileInv, MemInv, ScalarTypes
    <2>2. ASSUME NEW i \in 0 .. MaxPos
          PROVE  ByteAt(i)' = Zero
      <3>1. PICK q, n, item, s : q = quantum' /\ n = qset' /\ item = i \div (q * n)
                                   /\ s = (i % (q * n)) \div q
        OBVIOUS
      <3>2. q \in Nat \ {0} /\ n \in Nat \ {0} /\ i \in Nat
        BY <2>1, <3>1, MemAssumption
      <3>3. item \in Nat
        BY <3>1, <3>2, ItemSize, DivMod
      <3>4. Len(data') = 0
        BY <1>1
      <3>5. item >= Len(data')
        BY <3>3, <3>4
      <3>6. QED
        BY <3>1, <3>5 DEF ByteAt
    <2>3. QED
      BY <2>2 DEF Content
  <1>7. File!Truncate
    BY <1>1, <1>6 DEF File!Truncate, Content
  <1>8. QED
    BY <1>2, <1>3, <1>5, <1>7 DEF FileStep, File!Next

(* The block of position pos is the only one that is replaced.             *)
Replaced(pos, new) ==
    \A item \in Nat, s \in 0 .. qset - 1 :
        BlockOf(data', item, s)
          = IF item = ItemOf(pos, quantum, qset) /\ s = SlotOf(pos, quantum, qset)
            THEN new ELSE BlockOf(data, item, s)

(* A write at pos changes the bytes of the file that it is given, and no   *)
(* other.                                                                  *)
LEMMA BytesChange ==
    ASSUME FileInv, NEW pos \in Nat, NEW c \in Nat, NEW bytes,
           NEW block \in Blocks, NEW o \in Nat, o = OffsetOf(pos, quantum, qset), o + c <= quantum,
           BlockOf(data, ItemOf(pos, quantum, qset), SlotOf(pos, quantum, qset)) = block,
           UNCHANGED <<quantum, qset>>, Replaced(pos, Patched(block, o, c, bytes)),
           Patched(block, o, c, bytes) # NULL,
           NEW j \in 0 .. MaxPos
    PROVE  ByteAt(j)' = IF j \in pos .. pos + c - 1 THEN bytes[j - pos + 1] ELSE ByteAt(j)
  <1>1. MemInv /\ quantum \in Nat \ {0} /\ qset \in Nat \ {0} /\ j \in Nat
    BY MemAssumption DEF FileInv, MemInv, ScalarTypes
  <1>2. PICK item, s, r : item = ItemOf(j, quantum, qset) /\ s = SlotOf(j, quantum, qset)
                            /\ r = (j % quantum)
    OBVIOUS
  <1>3. item \in Nat /\ s \in 0 .. qset - 1 /\ r \in 0 .. quantum - 1
    BY <1>1, <1>2, InGeometry
  <1>4. ByteAt(j) = ByteOf(BlockOf(data, item, s), r)
    BY <1>1, <1>2, ByteAtIs
  <1>5. ByteAt(j)' = ByteOf(BlockOf(data', item, s), r)
    BY <1>2 DEF ByteAt, ByteOf, BlockOf, ItemOf, SlotOf
  <1>6. CASE item = ItemOf(pos, quantum, qset) /\ s = SlotOf(pos, quantum, qset)
    <2>1. block # NULL
      BY <1>1, NullApart DEF FileInv
    <2>2. ByteAt(j) = block[r] /\ ByteAt(j)' = Patched(block, o, c, bytes)[r]
      BY <1>3, <1>4, <1>5, <1>6, <2>1 DEF ByteOf, Replaced
    <2>3. r \in DOMAIN block
      <3>1. scull_alloc \in Nat /\ quantum <= scull_alloc
        BY <1>1, AllocHolds DEF MemInv
      <3>2. DOMAIN block = 0 .. scull_alloc - 1
        BY DEF Blocks
      <3>3. QED
        BY <1>1, <1>3, <3>1, <3>2
    <2>4. Patched(block, o, c, bytes)[r]
            = IF r \in o .. o + c - 1 THEN bytes[r - o + 1] ELSE block[r]
      BY <2>3 DEF Patched
    <2>5. CASE r \in o .. o + c - 1
      <3>1. j \in pos .. pos + c - 1 /\ r - o = j - pos
        <4>1. /\ ItemOf(j, quantum, qset) = ItemOf(pos, quantum, qset)
              /\ SlotOf(j, quantum, qset) = SlotOf(pos, quantum, qset)
              /\ (j % quantum) \in OffsetOf(pos, quantum, qset)
                                    .. OffsetOf(pos, quantum, qset) + c - 1
          BY <1>2, <1>6, <2>5, Zenon
        <4>2. j \in pos .. pos + c - 1 /\ (j % quantum) - OffsetOf(pos, quantum, qset) = j - pos
          BY <1>1, <4>1, OnlyThose
        <4>3. QED
          BY <1>2, <4>2, Zenon
      <3>2. QED
        BY <2>2, <2>4, <2>5, <3>1
    <2>6. CASE r \notin o .. o + c - 1
      <3>1. j \notin pos .. pos + c - 1
        <4>1. ASSUME j \in pos .. pos + c - 1
              PROVE  r = o + (j - pos)
          BY <1>1, <1>2, <4>1, OneBlock
        <4>2. QED
          BY <1>3, <2>6, <4>1
      <3>2. QED
        BY <2>2, <2>4, <2>6, <3>1
    <2>7. QED
      BY <2>5, <2>6
  <1>7. CASE ~(item = ItemOf(pos, quantum, qset) /\ s = SlotOf(pos, quantum, qset))
    <2>1. ByteAt(j)' = ByteAt(j)
      BY <1>3, <1>4, <1>5, <1>7 DEF Replaced
    <2>2. j \notin pos .. pos + c - 1
      BY <1>1, <1>2, <1>7, OneBlock
    <2>3. QED
      BY <2>1, <2>2
  <1>8. QED
    BY <1>6, <1>7

(* The file after copy_from_user has put bytes where p's position is.      *)
OverwrittenBy(p, count, bytes) ==
    /\ Len(bytes) = count
    /\ Content' = [i \in 0 .. MaxPos |-> IF i \in f_pos[p] .. f_pos[p] + Len(bytes) - 1
                                         THEN bytes[i - f_pos[p] + 1] ELSE Content[i]]

LEMMA Overwritten ==
    ASSUME FileInv, NEW p \in Procs, NEW request \in 0 .. MaxRequest, pc[p] = "w_copy",
           UNCHANGED <<globals, quantum, qset>>,
           NEW count, count = WriteCount(p, request),
           NEW choices, choices \subseteq [1 .. count -> Byte \cup {Zero}],
           CopyIn(p, count, choices)
    PROVE  /\ count \in Nat /\ f_pos[p] \in Nat /\ f_pos[p] + count <= MaxPos + 1
           /\ Within' /\ \E bytes \in choices : OverwrittenBy(p, count, bytes)
  <1>1. /\ MemInv /\ pc[p] = "w_copy" /\ pc[p] \in CopySteps /\ request \in Nat
        /\ f_pos[p] \in Nat /\ quantum \in Nat \ {0} /\ qset \in Nat \ {0}
    BY MemAssumption DEF CopySteps, FileInv, MemInv, ScalarTypes
  <1>3. count \in Nat /\ call[p].q_pos + count <= quantum /\ Usable(p, count)
    BY <1>1, Counts, CopyPlace
  <1>4. UNCHANGED <<globals, quantum, qset>>
    OBVIOUS
  <1>5. PICK n, k, o : n = call[p].item + 1 /\ k = call[p].s_pos /\ o = call[p].q_pos
    OBVIOUS
  <1>6. PICK bytes \in choices :
          data' = [data EXCEPT ![n][k] = [i \in DOMAIN @ |-> IF i \in o .. o + count - 1
                                                             THEN bytes[i - o + 1] ELSE @[i]]]
    <2>1. PICK bytes \in choices :
             data' = [data EXCEPT ![call[p].item + 1][call[p].s_pos] =
                        [i \in DOMAIN @ |->
                           IF i \in call[p].q_pos .. call[p].q_pos + count - 1
                           THEN bytes[i - call[p].q_pos + 1] ELSE @[i]]]
      BY <1>3 DEF CopyIn
    <2>2. data' = [data EXCEPT ![n][k] = [i \in DOMAIN @ |-> IF i \in o .. o + count - 1
                                                             THEN bytes[i - o + 1] ELSE @[i]]]
      BY <1>5, <2>1
    <2>3. QED
      BY <2>1, <2>2
  <1>7. PICK pos, block, new : /\ pos = f_pos[p] /\ block = data[n][k]
                               /\ new = Patched(block, o, count, bytes)
    OBVIOUS
  <1>8. /\ n \in 1 .. Len(data) /\ data[n] \in Arrays /\ k \in 0 .. qset - 1
        /\ block \in Blocks /\ o \in Nat /\ n - 1 \in Nat /\ call[p].item = n - 1
        /\ block = BlockAt(data, call[p])
    BY <1>1, <1>5, <1>7, CopyPlace, SMTT(30) DEF ArrayAt, BlockAt
  <1>9. /\ pos \in Nat /\ pos + count <= MaxPos + 1
        /\ o = OffsetOf(pos, quantum, qset) /\ o + count <= quantum
        /\ n - 1 = ItemOf(pos, quantum, qset) /\ k = SlotOf(pos, quantum, qset)
        /\ BlockOf(data, ItemOf(pos, quantum, qset), SlotOf(pos, quantum, qset)) = block
    BY <1>1, <1>3, <1>5, <1>7, <1>8, Span
  <1>10. new \in Blocks
    BY <1>3, <1>6, <1>7, <1>8, PatchedFits
  <1>11. Stored(data', data, n, k, new)
    BY <1>6, <1>7 DEF Stored, Patched
  <1>12. NULL \notin Blocks /\ NULL \notin Arrays /\ new # NULL /\ block # NULL
    BY <1>1, <1>8, <1>10, NullApart DEF FileInv
  <1>13. ASSUME NEW item \in Nat, NEW s \in 0 .. qset - 1
         PROVE  BlockOf(data', item, s)
                  = IF item = n - 1 /\ s = k THEN new ELSE BlockOf(data, item, s)
    <2>1. PICK list, after : list = data /\ after = data'
      OBVIOUS
    <2>2. list \in Seq({NULL} \cup Arrays) /\ n \in 1 .. Len(list) /\ list[n] \in Arrays
      BY <1>1, <1>8, <2>1, ListElements
    <2>3. Stored(after, list, n, k, new)
      BY <1>11, <2>1, Zenon
    <2>4. BlockOf(after, item, s) = IF item + 1 = n /\ s = k THEN new ELSE BlockOf(list, item, s)
      <3>1. NULL \notin Arrays /\ k \in 0 .. qset - 1 /\ new \in Blocks
        BY <1>8, <1>10, <1>12
      <3>2. QED
        BY <2>2, <2>3, <3>1, StoreHolds
    <2>5. item + 1 = n <=> item = n - 1
      BY <1>8
    <2>6. QED
      BY <2>1, <2>4, <2>5, Zenon
  <1>14. Within'
    <2> SUFFICES ASSUME NEW item \in Nat, NEW s \in 0 .. qset - 1, BlockOf(data', item, s) # NULL
                 PROVE  quantum * (qset * item + s) <= MaxPos
      BY <1>4 DEF Within, BlockOf
    <2>1. BlockOf(data, item, s) # NULL
      BY <1>9, <1>12, <1>13
    <2>2. QED
      BY <2>1 DEF FileInv, Within
  <1>15. ASSUME NEW j \in 0 .. MaxPos
         PROVE  ByteAt(j)' = IF j \in pos .. pos + count - 1 THEN bytes[j - pos + 1] ELSE ByteAt(j)
    <2>1. Replaced(pos, Patched(block, o, count, bytes))
      BY <1>7, <1>9, <1>13, Zenon DEF Replaced
    <2>2. Patched(block, o, count, bytes) # NULL /\ UNCHANGED <<quantum, qset>>
      BY <1>4, <1>7, <1>12
    <2>3. QED
      BY <1>3, <1>8, <1>9, <2>1, <2>2, BytesChange, SMTT(30)
  <1>16. Len(bytes) = count
    BY <1>3, <1>6
  <1>17. Content' = [i \in 0 .. MaxPos |-> IF i \in f_pos[p] .. f_pos[p] + Len(bytes) - 1
                                           THEN bytes[i - f_pos[p] + 1] ELSE Content[i]]
    <2>1. Content' = [i \in 0 .. MaxPos |-> ByteAt(i)']
      BY DEF Content
    <2>2. ASSUME NEW i \in 0 .. MaxPos
          PROVE  ByteAt(i)' = IF i \in f_pos[p] .. f_pos[p] + Len(bytes) - 1
                              THEN bytes[i - f_pos[p] + 1] ELSE Content[i]
      BY <1>7, <1>15, <1>16 DEF Content
    <2>3. QED
      BY <2>1, <2>2
  <1>18. QED
    BY <1>3, <1>6, <1>7, <1>9, <1>14, <1>16, <1>17 DEF OverwrittenBy

LEMMA FileWrite ==
    ASSUME FileInv, NEW p \in Procs, SemMove(p), NEW request \in 0 .. MaxRequest,
           scull_write_copy(p, request)
    PROVE  Files(p)
  <1>1. PICK count : count = WriteCount(p, request)
    OBVIOUS
  <1>2. /\ pc[p] = "w_copy" /\ Return(p) /\ UNCHANGED <<globals, quantum, qset, got>>
        /\ f_pos' = [f_pos EXCEPT ![p] = @ + count]
        /\ CopyIn(p, count, [1 .. count -> Byte])
    BY <1>1 DEF scull_write_copy
  <1>3. [1 .. count -> Byte] \subseteq [1 .. count -> Byte \cup {Zero}]
    OBVIOUS
  <1>4. /\ count \in Nat /\ f_pos[p] \in Nat /\ f_pos[p] + count <= MaxPos + 1
        /\ Within' /\ \E bytes \in [1 .. count -> Byte] : OverwrittenBy(p, count, bytes)
    BY <1>1, <1>2, <1>3, Overwritten
  <1>5. PICK bytes \in [1 .. count -> Byte] : OverwrittenBy(p, count, bytes)
    BY <1>4
  <1>6. File!Write(p, bytes)
    <2>1. File!Write(p, bytes) <=>
            /\ f_pos' = [f_pos EXCEPT ![p] = @ + Len(bytes)]
            /\ UNCHANGED got
            /\ Content' = [i \in 0 .. MaxPos |-> IF i \in f_pos[p] .. f_pos[p] + Len(bytes) - 1
                                                 THEN bytes[i - f_pos[p] + 1] ELSE Content[i]]
      BY DEF File!Write, File!Overwrite, Content
    <2>2. QED
      BY <1>2, <1>5, <2>1 DEF OverwrittenBy
  <1>7. FileStep
    <2>1. /\ count \in 0 .. MaxPos \cup {i + 1 : i \in 0 .. MaxPos}
          /\ f_pos[p] + count - 1 \in 0 .. MaxPos \cup {f_pos[p] - 1}
      BY <1>4, InFile
    <2>2. QED
      BY <1>5, <1>6, <2>1 DEF FileStep, File!Next
  <1>8. pc'[p] \notin WriteSteps
    BY <1>2, Returned
  <1>9. f_pos' = [f_pos EXCEPT ![p] = f_pos'[p]]
    BY <1>2 DEF FileInv, MemInv, ScalarTypes
  <1>10. QED
    BY <1>2, <1>4, <1>7, <1>8, <1>9 DEF Files, SemMove

LEMMA FileFault ==
    ASSUME FileInv, NEW p \in Procs, SemMove(p), NEW request \in 0 .. MaxRequest,
           scull_write_EFAULT(p, request)
    PROVE  Files(p)
  <1>1. PICK count : count = WriteCount(p, request)
    OBVIOUS
  <1>2. /\ pc[p] = "w_copy" /\ Return(p) /\ UNCHANGED <<globals, quantum, qset, got, f_pos>>
        /\ CopyIn(p, count, Faulted(count))
    BY <1>1 DEF scull_write_EFAULT, shape
  <1>3. count \in Nat
    BY <1>1, <1>2, Counts, MemAssumption DEF FileInv, CopySteps
  <1>4. /\ f_pos[p] \in Nat /\ f_pos[p] + count <= MaxPos + 1
        /\ Within' /\ \E torn \in Faulted(count) : OverwrittenBy(p, count, torn)
    BY <1>1, <1>2, <1>3, Torn, Overwritten
  <1>5. PICK torn \in Faulted(count) : OverwrittenBy(p, count, torn)
    BY <1>4
  <1>6. PICK n \in 0 .. count - 1, bytes \in [1 .. count -> Byte] :
           torn = [i \in 1 .. count |-> IF i <= n THEN bytes[i] ELSE Zero]
    BY <1>5 DEF Faulted
  <1>7. Len(bytes) = count
    BY <1>3, <1>6
  <1>8. File!Overwrite(p, torn)
    <2>1. File!Overwrite(p, torn) <=>
            Content' = [i \in 0 .. MaxPos |-> IF i \in f_pos[p] .. f_pos[p] + Len(torn) - 1
                                              THEN torn[i - f_pos[p] + 1] ELSE Content[i]]
      BY DEF File!Overwrite, Content
    <2>2. QED
      BY <1>5, <2>1 DEF OverwrittenBy
  <1>9. File!FailedWrite(p, bytes)
    BY <1>2, <1>6, <1>7, <1>8 DEF File!FailedWrite
  <1>10. FileStep
    <2>1. /\ count \in 0 .. MaxPos \cup {i + 1 : i \in 0 .. MaxPos}
          /\ f_pos[p] + count - 1 \in 0 .. MaxPos \cup {f_pos[p] - 1}
      BY <1>3, <1>4, InFile
    <2>2. QED
      BY <1>6, <1>9, <2>1 DEF FileStep, File!Next
  <1>11. pc'[p] \notin WriteSteps
    BY <1>2, Returned
  <1>12. f_pos' = [f_pos EXCEPT ![p] = f_pos'[p]]
    BY <1>2 DEF FileInv, MemInv, ScalarTypes
  <1>13. QED
    BY <1>2, <1>4, <1>10, <1>11, <1>12 DEF Files, SemMove

-----------------------------------------------------------------------------
LEMMA FileInit ==
    ASSUME Init
    PROVE  FileInv /\ File!Init
  <1>1. MemInv
    BY MemInit
  <1>2. Geometries /\ WritesInside
    BY DEF Init, Geometries, WritesInside, WriteSteps
  <1>3. data = << >> /\ Len(data) = 0
    BY DEF Init
  <1>4. Within
    BY <1>3 DEF Within, BlockOf
  <1>5. ASSUME NEW i \in 0 .. MaxPos
        PROVE  ByteAt(i) = Zero
    <2>1. i \in Nat /\ quantum \in Nat \ {0} /\ qset \in Nat \ {0}
      BY <1>1, MemAssumption DEF MemInv, ScalarTypes
    <2>2. ItemOf(i, quantum, qset) \in Nat
      BY <2>1, InGeometry
    <2>3. BlockOf(data, ItemOf(i, quantum, qset), SlotOf(i, quantum, qset)) = NULL
      BY <1>3, <2>2 DEF BlockOf
    <2>4. QED
      BY <2>1, <2>3, ByteAtIs DEF ByteOf
  <1>6. File!Init
    BY <1>5 DEF Init, File!Init
  <1>7. QED
    BY <1>1, <1>2, <1>4, <1>6 DEF FileInv

(* A step that leaves the memory and the positions alone.                  *)
LEMMA FileStays ==
    ASSUME FileInv, Geometries', UNCHANGED <<quantum, qset, data, f_pos, got>>,
           WritesInside'
    PROVE  Geometries' /\ WritesInside' /\ Within' /\ FileStep
  <1>1. Within' /\ Content' = Content
    BY Untouched, BytesStay DEF FileInv
  <1>2. QED
    BY <1>1 DEF FileStep, File!vars, Content

LEMMA FileNext ==
    ASSUME FileInv, [Next]_vars
    PROVE  Geometries' /\ WritesInside' /\ Within' /\ FileStep
  <1>1. ASSUME NEW p \in Procs, scull_read(p)
        PROVE  SemMove(p) /\ Files(p)
    <2>1. SemMove(p)
      BY <1>1, SemCalls, SemDowns, SemReads DEF scull_read, CriticalSteps, FileInv, MemInv
    <2>2. Files(p)
      BY <1>1, <2>1, FileCalls, FileReturns, FileFinds, FileRead DEF scull_read
    <2>3. QED
      BY <2>1, <2>2
  <1>2. ASSUME NEW p \in Procs, scull_write(p)
        PROVE  SemMove(p) /\ Files(p)
    <2>1. SemMove(p)
      BY <1>2, SemCalls, SemDowns, SemWrites DEF scull_write, CriticalSteps, FileInv, MemInv
    <2>2. Files(p)
      BY <1>2, <2>1, FileCalls, FileReturns, FileWriteFind, FileNoMemory, FileWrite, FileFault
         DEF scull_write
    <2>3. QED
      BY <2>1, <2>2
  <1>3. ASSUME NEW p \in Procs, proc_read(p) \/ scull_seq_show(p)
        PROVE  Files(p)
    <2>1. SemMove(p)
      BY <1>3, SemCalls, SemDowns, SemWrites
         DEF proc_read, scull_seq_show, CriticalSteps, FileInv, MemInv
    <2>2. QED
      BY <1>3, <2>1, FileCalls, FileReturns DEF proc_read, scull_seq_show
  <1>4. ASSUME NEW p \in Procs, scull_open(p) \/ scull_release(p)
        PROVE  Files(p)
    BY <1>4, SemCalls, FileCalls, FileRelease DEF FileInv, MemInv
  <1>5. ASSUME NEW p \in Procs, scull_trim_free(p)
        PROVE  Geometries' /\ WritesInside' /\ Within' /\ FileStep
    <2>1. UNCHANGED <<globals, quantum, qset, data, f_pos, got>>
      BY <1>5 DEF scull_trim_free, shape, calls
    <2>2. Geometries'
      BY <2>1 DEF FileInv, Geometries, globals
    <2>3. WritesInside'
      BY <1>5, <2>1 DEF scull_trim_free, Goto, FileInv, WritesInside, WriteSteps, MemInv, SemInv,
                        PcType
    <2>4. QED
      BY <2>1, <2>2, <2>3, FileStays
  <1>6. ASSUME NEW p \in Procs, scull_ioctl(p)
        PROVE  Geometries' /\ WritesInside' /\ Within' /\ FileStep
    <2>1. UNCHANGED <<type, quantum, qset, data, f_pos, got, pc>>
      BY <1>6 DEF scull_ioctl, shape, memory, calls
    <2>2. Geometries' /\ WritesInside'
      BY <1>6, <2>1 DEF scull_ioctl, FileInv, Geometries, WritesInside
    <2>3. QED
      BY <2>1, <2>2, FileStays
  <1>7. ASSUME UNCHANGED <<globals, shape, memory, calls, pc>>
        PROVE  Geometries' /\ WritesInside' /\ Within' /\ FileStep
    <2>1. UNCHANGED <<globals, quantum, qset, data, f_pos, got, pc>>
      BY <1>7 DEF shape, memory, calls
    <2>2. Geometries' /\ WritesInside'
      BY <2>1 DEF FileInv, Geometries, WritesInside, globals
    <2>3. QED
      BY <2>1, <2>2, FileStays
  <1>8. CASE Next
    <2>1. PICK p \in Procs : \/ scull_open(p) \/ scull_trim_free(p) \/ scull_trim_reset(p)
                             \/ scull_release(p) \/ scull_ioctl(p) \/ scull_read(p)
                             \/ scull_write(p) \/ proc_read(p) \/ scull_seq_show(p) \/ Signal(p)
      BY <1>8 DEF Next
    <2>2. CASE Files(p)
      BY <2>2, FilesKeeps
    <2>3. CASE Signal(p)
      BY <1>7, <2>3 DEF Signal
    <2>4. QED
      BY <1>1, <1>2, <1>3, <1>4, <1>5, <1>6, <2>1, <2>2, <2>3, FileReset
  <1>9. CASE UNCHANGED vars
    BY <1>7, <1>9 DEF vars
  <1>10. QED
    BY <1>8, <1>9

(* As long as nobody truncates the device beside another user, it is a     *)
(* file: what scull_write puts at a position scull_read finds there, for   *)
(* every process, across items, arrays and blocks, until scull_trim; a     *)
(* position that was never written reads as zero, also where scull_follow, *)
(* a failed allocation or a smaller quantum of scullp left the list with   *)
(* items, arrays or bytes that nobody wrote.                               *)
THEOREM IsSparseFile == TrimAlone => (Spec => ImplementsFile)
  <1> SUFFICES ASSUME TrimAlone
               PROVE  Spec => ImplementsFile
    OBVIOUS
  <1>1. Init => FileInv /\ File!Init
    BY FileInit
  <1>2. FileInv /\ [Next]_vars => FileInv'
    <2> SUFFICES ASSUME FileInv, [Next]_vars
                 PROVE  FileInv'
      OBVIOUS
    <2>1. MemInv'
      BY MemStep DEF FileInv
    <2>2. QED
      BY <2>1, FileNext DEF FileInv
  <1>3. FileInv /\ [Next]_vars => [File!Next]_(File!vars)
    BY FileNext DEF FileStep
  <1>4. QED
    BY <1>1, <1>2, <1>3, PTL DEF Spec, ImplementsFile, File!Spec

-----------------------------------------------------------------------------
(* The commands of scull_ioctl, any processes with and without             *)
(* CAP_SYS_ADMIN, any numbers passed.                                      *)

CONSTANTS Admins, Values

VARIABLES param, cmd, arg, tmp, err, ret, old, raced, step

Ioctl == INSTANCE ScullIoctl WITH pc <- step

(* What an eXchange or a sHift holds of its parameter, unless another      *)
(* process stored to it: before the store tmp is the number that is there, *)
(* after it the number that was there.                                     *)
SwapInv ==
    /\ DOMAIN cmd = Procs /\ DOMAIN arg = Procs /\ DOMAIN tmp = Procs /\ DOMAIN old = Procs
    /\ DOMAIN err = Procs /\ DOMAIN ret = Procs /\ DOMAIN step = Procs
    /\ DOMAIN param = Ioctl!Params
    /\ \A p \in Procs : cmd[p].param \in Ioctl!Params
    /\ \A p \in Procs : cmd[p].cap => p \in Admins
    /\ \A p \in Procs : step[p] = "store" => cmd[p].cap
    /\ \A p \in Procs : step[p] = "store" /\ p \notin raced => tmp[p] = param[cmd[p].param]
    /\ \A p \in Procs : step[p] = "put" /\ p \notin raced => tmp[p] = old[p]

(* What a step of p leaves of the calls.                                   *)
Moves(p) ==
    /\ \A q \in Procs \ {p} : /\ step'[q] = step[q] /\ cmd'[q] = cmd[q]
                               /\ tmp'[q] = tmp[q] /\ old'[q] = old[q]
    /\ DOMAIN cmd' = Procs /\ DOMAIN arg' = Procs /\ DOMAIN tmp' = Procs /\ DOMAIN old' = Procs
    /\ DOMAIN err' = Procs /\ DOMAIN ret' = Procs /\ DOMAIN step' = Procs
    /\ DOMAIN param' = Ioctl!Params
    /\ cmd'[p].param \in Ioctl!Params
    /\ cmd'[p].cap => p \in Admins
    /\ step'[p] = "store" => cmd'[p].cap /\ tmp'[p] = param'[cmd'[p].param]
    /\ step'[p] = "put" /\ p \notin raced' => tmp'[p] = old'[p]

(* Whoever changes a parameter is seen to by the calls that loaded it.     *)
Noticed(p) ==
    /\ raced \ {p} \subseteq raced'
    /\ \A k \in Ioctl!Params : param'[k] # param[k] =>
          /\ \A q \in Procs \ {p} : step[q] = "store" /\ cmd[q].param = k => q \in raced'
          /\ param'[k] = Ioctl!Default[k] \/ (cmd[p].cap /\ step'[p] # step[p])

(* What a call that ends well gives back.                                  *)
GivesOld(p) ==
    /\ step[p] # "idle" /\ step'[p] = "idle" /\ err'[p] = "none" /\ p \notin raced'
    /\ cmd[p].op = "sHift" \/ (cmd[p].op = "eXchange" /\ cmd[p].param = "quantum")
    => ret'[p] = old'[p]

LEMMA IoctlSteps ==
    ASSUME SwapInv, NEW p \in Procs, Ioctl!scull_ioctl(p)
    PROVE  Moves(p) /\ Noticed(p) /\ GivesOld(p)
  <1> USE DEF SwapInv, Moves, Noticed, GivesOld, Ioctl!Finish, Ioctl!Fail, Ioctl!Succeed,
              Ioctl!Continue, Ioctl!Is, Ioctl!NoCmd, Ioctl!Params, Ioctl!NoStore, Ioctl!Store,
              Ioctl!StoreTo
  <1>1. CASE Ioctl!IoctlCall(p)
    BY <1>1 DEF Ioctl!IoctlCall
  <1>2. CASE Ioctl!Refused(p)
    BY <1>2 DEF Ioctl!Refused
  <1>3. CASE Ioctl!NotPermitted(p)
    BY <1>3 DEF Ioctl!NotPermitted
  <1>4. CASE Ioctl!SCULL_IOCRESET(p)
    BY <1>4 DEF Ioctl!SCULL_IOCRESET, Ioctl!Default
  <1>5. CASE Ioctl!SCULL_IOCS(p)
    BY <1>5 DEF Ioctl!SCULL_IOCS
  <1>6. CASE Ioctl!SCULL_IOCT(p)
    BY <1>6 DEF Ioctl!SCULL_IOCT
  <1>7. CASE Ioctl!SCULL_IOCG(p)
    BY <1>7 DEF Ioctl!SCULL_IOCG
  <1>8. CASE Ioctl!SCULL_IOCQ(p)
    BY <1>8 DEF Ioctl!SCULL_IOCQ
  <1>9. CASE Ioctl!TakeTmp(p)
    BY <1>9 DEF Ioctl!TakeTmp
  <1>10. CASE Ioctl!SCULL_IOCX_get(p)
    BY <1>10 DEF Ioctl!SCULL_IOCX_get
  <1>11. CASE Ioctl!SCULL_IOCX_put(p)
    BY <1>11 DEF Ioctl!SCULL_IOCX_put
  <1>12. CASE Ioctl!SCULL_IOCH(p)
    BY <1>12 DEF Ioctl!SCULL_IOCH
  <1>13. QED
    BY <1>1, <1>2, <1>3, <1>4, <1>5, <1>6, <1>7, <1>8, <1>9, <1>10, <1>11, <1>12
       DEF Ioctl!scull_ioctl

LEMMA SwapKeeps ==
    ASSUME SwapInv, NEW p \in Procs, Moves(p), Noticed(p)
    PROVE  SwapInv'
  <1>1. ASSUME NEW q \in Procs, step'[q] = "store", q \notin raced'
        PROVE  tmp'[q] = param'[cmd'[q].param]
    BY <1>1 DEF SwapInv, Moves, Noticed
  <1>2. ASSUME NEW q \in Procs, step'[q] = "put", q \notin raced'
        PROVE  tmp'[q] = old'[q]
    BY <1>2 DEF SwapInv, Moves, Noticed
  <1>3. QED
    BY <1>1, <1>2 DEF SwapInv, Moves, Ioctl!Params

LEMMA SwapAlways == Ioctl!Spec => []SwapInv
  <1>1. Ioctl!Init => SwapInv
    BY DEF Ioctl!Init, SwapInv, Ioctl!NoCmd, Ioctl!Params, Ioctl!Default
  <1>2. SwapInv /\ [Ioctl!Next]_(Ioctl!vars) => SwapInv'
    <2> SUFFICES ASSUME SwapInv, [Ioctl!Next]_(Ioctl!vars)
                 PROVE  SwapInv'
      OBVIOUS
    <2>1. CASE Ioctl!Next
      BY <2>1, IoctlSteps, SwapKeeps DEF Ioctl!Next
    <2>2. CASE UNCHANGED Ioctl!vars
      BY <2>2 DEF Ioctl!vars, SwapInv
    <2>3. QED
      BY <2>1, <2>2
  <1>3. QED
    BY <1>1, <1>2, PTL DEF Ioctl!Spec

(* An eXchange of the quantum and a sHift give the caller the number that  *)
(* their store replaced, however the loads and stores of several calls     *)
(* interleave, unless another process stored to the parameter after their  *)
(* load.                                                                   *)
THEOREM SwapsUnlessRaced == Ioctl!Spec => Ioctl!LostOnlyByRace
  <1>1. SwapInv /\ [Ioctl!Next]_(Ioctl!vars) =>
          [\A p \in Procs, k \in Ioctl!Params :
              /\ Ioctl!Swapped(p, k)
              /\ p \notin raced'
              /\ cmd[p].op = "sHift" \/ k = "quantum"
              => ret'[p] = old'[p]]_(Ioctl!vars)
    <2> SUFFICES ASSUME SwapInv, Ioctl!Next, NEW q \in Procs, NEW k \in Ioctl!Params,
                        Ioctl!Swapped(q, k), q \notin raced', cmd[q].op = "sHift" \/ k = "quantum"
                 PROVE  ret'[q] = old'[q]
      OBVIOUS
    <2>1. PICK p \in Procs : Ioctl!scull_ioctl(p)
      BY DEF Ioctl!Next
    <2>2. Moves(p) /\ GivesOld(p)
      BY <2>1, IoctlSteps
    <2>3. q = p
      BY <2>2 DEF Moves, Ioctl!Swapped
    <2>4. QED
      BY <2>2, <2>3 DEF GivesOld, Ioctl!Swapped
  <1>2. QED
    BY <1>1, SwapAlways, PTL DEF Ioctl!Spec, Ioctl!LostOnlyByRace

(* A parameter gets a number other than its default only from a call with  *)
(* CAP_SYS_ADMIN.                                                          *)
THEOREM TunedByAdmins == Ioctl!Spec => Ioctl!OnlyAdminsTune
  <1>1. SwapInv /\ [Ioctl!Next]_(Ioctl!vars) =>
          [\A k \in Ioctl!Params :
              param'[k] /= param[k] =>
                 \/ param'[k] = Ioctl!Default[k]
                 \/ \E p \in Admins : cmd[p].cap /\ step'[p] /= step[p]]_(Ioctl!vars)
    <2> SUFFICES ASSUME SwapInv, Ioctl!Next, NEW k \in Ioctl!Params, param'[k] /= param[k]
                 PROVE  \/ param'[k] = Ioctl!Default[k]
                        \/ \E p \in Admins : cmd[p].cap /\ step'[p] /= step[p]
      OBVIOUS
    <2>1. PICK p \in Procs : Ioctl!scull_ioctl(p)
      BY DEF Ioctl!Next
    <2>2. Noticed(p)
      BY <2>1, IoctlSteps
    <2>3. QED
      BY <2>2 DEF Noticed, SwapInv
  <1>2. QED
    BY <1>1, SwapAlways, PTL DEF Ioctl!Spec, Ioctl!OnlyAdminsTune

=============================================================================
