-------------------------- MODULE GlobalmemProofs ---------------------------
(* Proofs about Globalmem, for any processes, bytes, sizes and offsets.    *)
EXTENDS Globalmem, SequenceTheorems, TLAPS

-----------------------------------------------------------------------------
(* The inductive invariant.                                                *)

Kinds == {"none", "read", "write", "fault", "clear"}

Calls == [kind : Kinds, pos : Nat, count : Nat, done : Nat]

Types ==
    /\ mem \in [Address -> Byte]
    /\ f_pos \in [Procs -> 0 .. GLOBALMEM_SIZE]
    /\ call \in [Procs -> Calls]
    /\ copied \in [Procs -> Seq(Byte)]
    /\ alone \subseteq Procs
    /\ before \in [Address -> Byte]
    /\ pc \in [Procs -> {"idle", "copy"}]

(* The call of p stays in the memory and has done part of its count; a     *)
(* transfer started at the position of the file, which no one else moves,  *)
(* and has copied one byte for each that it has done, until it faults.  A  *)
(* clear is of the whole memory.                                           *)
Fits(p) ==
    /\ call[p].pos + call[p].count <= GLOBALMEM_SIZE
    /\ call[p].done <= call[p].count
    /\ call[p].kind \in {"read", "write"} => call[p].pos = f_pos[p]
    /\ call[p].kind \in {"read", "write"} => Len(copied[p]) = call[p].done
    /\ call[p].kind \in {"none", "clear"} => Len(copied[p]) = 0
    /\ call[p].kind = "fault" => Len(copied[p]) <= call[p].done /\ Len(copied[p]) < call[p].count
    /\ call[p].kind = "clear" => call[p].pos = 0 /\ call[p].count = GLOBALMEM_SIZE
    /\ pc[p] = "idle" => call[p] = NoCall

(* What the call of p has made so far of the byte at i.                    *)
Sofar(p, i) ==
    LET n == i - call[p].pos + 1
    IN  IF call[p].kind = "read" \/ n \notin 1 .. call[p].done THEN before[i]
        ELSE IF n <= Len(copied[p]) THEN copied[p][n] ELSE Zero

Progress(p) ==
    /\ \A i \in Address : mem[i] = Sofar(p, i)
    /\ call[p].kind = "read" =>
          \A n \in 1 .. Len(copied[p]) : copied[p][n] = before[call[p].pos + n - 1]

(* A call that has met no other is the only one.                           *)
Apart ==
    \A p \in alone :
        /\ pc[p] = "copy"
        /\ \A q \in Procs \ {p} : pc[q] = "idle"
        /\ Progress(p)

MemInv == Types /\ (\A p \in Procs : Fits(p)) /\ Apart

Moves(p) ==
    \A q \in Procs \ {p} : /\ call'[q] = call[q] /\ copied'[q] = copied[q]
                           /\ f_pos'[q] = f_pos[q] /\ pc'[q] = pc[q]

(* A step of p keeps the invariant.                                        *)
Keeps(p) == Types' /\ Moves(p) /\ Fits(p)' /\ Apart'

LEMMA BlankFits == Blank \in [Address -> Byte]
  BY GlobalmemAssumption DEF Blank

LEMMA StartStep ==
    ASSUME MemInv, NEW p \in Procs, NEW kind \in {"read", "write", "clear"}, NEW pos \in Nat,
           NEW count \in Nat, pos + count <= GLOBALMEM_SIZE,
           kind \in {"read", "write"} => pos = f_pos[p],
           kind = "clear" => pos = 0 /\ count = GLOBALMEM_SIZE,
           Start(p, kind, pos, count)
    PROVE  Keeps(p)
  <1>1. pc[p] = "idle" /\ call[p] = NoCall /\ Len(copied[p]) = 0
    BY DEF MemInv, Fits, Start, NoCall
  <1>2. call'[p] = [kind |-> kind, pos |-> pos, count |-> count, done |-> 0]
    BY DEF Start, MemInv, Types
  <1>3. Types'
    <2>1. alone' \subseteq Procs /\ before' \in [Address -> Byte]
      BY BlankFits DEF Start, MemInv, Types
    <2>2. [kind |-> kind, pos |-> pos, count |-> count, done |-> 0] \in Calls
      BY DEF Calls, Kinds
    <2>3. QED
      BY <2>1, <2>2 DEF Start, MemInv, Types
  <1>4. Moves(p)
    BY DEF Start, Moves, MemInv, Types
  <1>5. Fits(p)'
    BY <1>1, <1>2 DEF Start, Fits, MemInv, Types
  <1>6. Apart'
    <2> SUFFICES ASSUME NEW x \in alone'
                 PROVE  /\ pc'[x] = "copy"
                        /\ \A q \in Procs \ {x} : pc'[q] = "idle"
                        /\ Progress(x)'
      BY DEF Apart
    <2>1. x = p /\ before' = mem /\ \A q \in Procs \ {p} : pc[q] = "idle"
      BY DEF Start
    <2>2. pc'[p] = "copy" /\ \A q \in Procs \ {p} : pc'[q] = "idle"
      BY <2>1 DEF Start, MemInv, Types
    <2>3. UNCHANGED <<mem, copied>>
      BY DEF Start
    <2>4. Progress(p)'
      BY <1>1, <1>2, <2>1, <2>3 DEF Progress, Sofar
    <2>5. QED
      BY <2>1, <2>2, <2>4
  <1>7. QED
    BY <1>3, <1>4, <1>5, <1>6 DEF Keeps

LEMMA FinishStep ==
    ASSUME MemInv, NEW p \in Procs, pc[p] = "copy", Finish(p), mem' = mem,
           f_pos' = f_pos \/ f_pos' = [f_pos EXCEPT ![p] = @ + call[p].count],
           call[p].kind \in {"read", "write"} \/ f_pos' = f_pos
    PROVE  Keeps(p)
  <1>1. /\ pc' = [pc EXCEPT ![p] = "idle"]
        /\ call' = [call EXCEPT ![p] = NoCall] /\ copied' = [copied EXCEPT ![p] = << >>]
        /\ alone' = alone \ {p} /\ before' \in {before, Blank}
    BY DEF Finish
  <1>2. call'[p] = NoCall /\ copied'[p] = << >>
    BY <1>1 DEF MemInv, Types
  <1>3. f_pos' \in [Procs -> 0 .. GLOBALMEM_SIZE]
    <2>1. /\ f_pos \in [Procs -> 0 .. GLOBALMEM_SIZE] /\ call[p].count \in Nat
          /\ call[p].pos + call[p].count <= GLOBALMEM_SIZE
          /\ call[p].kind \in {"read", "write"} => call[p].pos = f_pos[p]
      BY DEF MemInv, Types, Calls, Fits
    <2>2. QED
      BY <2>1, GlobalmemAssumption
  <1>4. Types'
    <2>1. NoCall \in Calls
      BY DEF NoCall, Calls, Kinds
    <2>2. << >> \in Seq(Byte)
      OBVIOUS
    <2>3. QED
      BY <1>1, <1>3, <2>1, <2>2, BlankFits DEF MemInv, Types
  <1>5. Moves(p)
    BY <1>1 DEF Moves, MemInv, Types
  <1>6. Fits(p)'
    BY <1>2, GlobalmemAssumption DEF Fits, NoCall
  <1>7. Apart'
    BY <1>1 DEF MemInv, Apart, Types
  <1>8. QED
    BY <1>4, <1>5, <1>6, <1>7 DEF Keeps

(* One byte of a copy: the place is in the memory.                         *)
LEMMA Place ==
    ASSUME MemInv, NEW p \in Procs, NEW kind, Copying(p, kind)
    PROVE  Here(p) \in Address
  BY GlobalmemAssumption DEF MemInv, Types, Calls, Fits, Copying, Here, Address

LEMMA AdvanceStep ==
    ASSUME MemInv, NEW p \in Procs, NEW kind, Copying(p, kind), Advance(p)
    PROVE  /\ call' \in [Procs -> Calls] /\ call[p] \in Calls
           /\ \A q \in Procs \ {p} : call'[q] = call[q]
           /\ call'[p].kind = call[p].kind /\ call'[p].pos = call[p].pos
           /\ call'[p].count = call[p].count /\ call'[p].done = call[p].done + 1
           /\ call'[p].done <= call'[p].count
           /\ pc[p] = "copy"
  <1>1. call \in [Procs -> Calls] /\ call[p] \in Calls
    BY DEF MemInv, Types
  <1>2. call' = [call EXCEPT ![p] = [call[p] EXCEPT !.done = call[p].done + 1]]
    BY DEF Advance
  <1>3. /\ call'[p] = [call[p] EXCEPT !.done = call[p].done + 1]
        /\ \A q \in Procs \ {p} : call'[q] = call[q]
    BY <1>1, <1>2
  <1>4. /\ [call[p] EXCEPT !.done = call[p].done + 1] \in Calls
        /\ call'[p].kind = call[p].kind /\ call'[p].pos = call[p].pos
        /\ call'[p].count = call[p].count /\ call'[p].done = call[p].done + 1
    BY <1>1, <1>3 DEF Calls
  <1>5. call' \in [Procs -> Calls]
    BY <1>1, <1>2, <1>4
  <1>6. QED
    BY <1>1, <1>3, <1>4, <1>5 DEF Copying, Calls

(* The call that has met no other is p's, when p is in one.                *)
LEMMA OnlyOne ==
    ASSUME MemInv, NEW p \in Procs, pc[p] = "copy", UNCHANGED <<alone, pc>>,
           p \in alone => Progress(p)'
    PROVE  Apart'
  BY DEF MemInv, Apart, Types

LEMMA Lengthened ==
    ASSUME NEW s \in Seq(Byte), NEW b \in Byte
    PROVE  /\ Append(s, b) \in Seq(Byte) /\ Len(s) \in Nat /\ Len(Append(s, b)) = Len(s) + 1
           /\ Append(s, b)[Len(s) + 1] = b
           /\ \A n \in 1 .. Len(s) : Append(s, b)[n] = s[n]
  BY AppendProperties, LenProperties

LEMMA ReadByte ==
    ASSUME MemInv, NEW p \in Procs, globalmem_read_byte(p)
    PROVE  Keeps(p)
  <1>1. /\ Copying(p, "read") /\ Advance(p) /\ Here(p) \in Address
        /\ UNCHANGED <<mem, f_pos, alone, before, pc>>
    BY Place DEF globalmem_read_byte
  <1>2. mem[Here(p)] \in Byte /\ copied[p] \in Seq(Byte)
    BY <1>1 DEF MemInv, Types
  <1>3. copied'[p] = Append(copied[p], mem[Here(p)]) /\ copied' \in [Procs -> Seq(Byte)]
        /\ Len(copied'[p]) = Len(copied[p]) + 1
    BY <1>2, Lengthened DEF globalmem_read_byte, MemInv, Types
  <1>4. Types'
    BY <1>1, <1>3, AdvanceStep DEF MemInv, Types
  <1>5. Moves(p)
    BY <1>1, AdvanceStep DEF globalmem_read_byte, Moves, MemInv, Types
  <1>6. Fits(p)'
    BY <1>1, <1>3, AdvanceStep DEF Fits, MemInv, Copying, Calls
  <1>7. ASSUME p \in alone
        PROVE  Progress(p)'
    <2>1. Progress(p) /\ call[p].kind = "read" /\ call'[p].kind = "read"
          /\ call'[p].pos = call[p].pos
      BY <1>1, <1>7, AdvanceStep DEF MemInv, Apart, Copying
    <2>2. \A i \in Address : mem'[i] = before'[i]
      BY <1>1, <2>1 DEF Progress, Sofar
    <2>3. ASSUME NEW n \in 1 .. Len(copied'[p])
          PROVE  copied'[p][n] = before'[call'[p].pos + n - 1]
      <3>1. Len(copied[p]) = call[p].done /\ call[p] \in Calls
        BY <2>1 DEF MemInv, Types, Fits
      <3>2. CASE n = Len(copied[p]) + 1
        <4>1. call'[p].pos + n - 1 = Here(p)
          BY <2>1, <3>1, <3>2 DEF Here, Calls
        <4>2. copied'[p][n] = mem[Here(p)]
          BY <1>2, <1>3, <3>2, Lengthened
        <4>3. QED
          BY <1>1, <2>2, <4>1, <4>2
      <3>3. CASE n \in 1 .. Len(copied[p])
        <4>1. copied'[p][n] = copied[p][n]
          BY <1>2, <1>3, <3>3, Lengthened
        <4>2. QED
          BY <1>1, <2>1, <3>3, <4>1 DEF Progress
      <3>4. QED
        BY <1>3, <3>1, <3>2, <3>3 DEF Calls
    <2>4. QED
      BY <2>1, <2>2, <2>3 DEF Progress, Sofar
  <1>8. Apart'
    BY <1>1, <1>7, OnlyOne DEF Copying
  <1>9. QED
    BY <1>4, <1>5, <1>6, <1>8 DEF Keeps

(* A byte that a write or a memset puts at its place.                      *)
LEMMA Stores ==
    ASSUME MemInv, NEW p \in Procs, NEW kind \in {"write", "fault", "clear"}, Copying(p, kind),
           NEW b \in Byte, mem' = [mem EXCEPT ![Here(p)] = b],
           Advance(p), UNCHANGED <<f_pos, alone, before, pc>>,
           copied' \in [Procs -> Seq(Byte)],
           \A q \in Procs \ {p} : copied'[q] = copied[q],
           \/ kind = "write" /\ copied'[p] = Append(copied[p], b)
           \/ kind # "write" /\ copied' = copied /\ b = Zero
    PROVE  Keeps(p)
  <1>1. /\ Here(p) \in Address /\ pc[p] = "copy" /\ call[p].kind = kind
        /\ copied[p] \in Seq(Byte) /\ Len(copied[p]) \in Nat
    BY Place, LenProperties DEF Copying, MemInv, Types
  <1>2. Types'
    BY <1>1, AdvanceStep DEF MemInv, Types
  <1>3. Moves(p)
    BY AdvanceStep DEF Moves
  <1>4. Fits(p)'
    <2>1. CASE kind = "write"
      <3>1. Len(copied'[p]) = Len(copied[p]) + 1
        BY <1>1, <2>1, Lengthened
      <3>2. QED
        BY <1>1, <2>1, <3>1, AdvanceStep DEF Fits, MemInv, Calls
    <2>2. CASE kind # "write"
      BY <1>1, <2>2, AdvanceStep DEF Fits, MemInv, Calls
    <2>3. QED
      BY <2>1, <2>2
  <1>5. ASSUME p \in alone
        PROVE  Progress(p)'
    <2>1. Progress(p)
      BY <1>5 DEF MemInv, Apart
    <2>2. /\ call'[p].kind = kind /\ call'[p].pos = call[p].pos /\ call[p] \in Calls
          /\ call'[p].done = call[p].done + 1 /\ Fits(p)
      BY <1>1, AdvanceStep DEF MemInv
    <2>3. ASSUME NEW i \in Address
          PROVE  mem'[i] = Sofar(p, i)'
      <3>1. i \in Int /\ call[p].pos \in Nat /\ call[p].done \in Nat
        BY <2>2, GlobalmemAssumption DEF Address, Calls
      <3>2. mem'[i] = IF i = Here(p) THEN b ELSE mem[i]
        BY <1>1 DEF MemInv, Types
      <3>3. CASE i = Here(p)
        <4>1. i - call'[p].pos + 1 = call[p].done + 1
          BY <2>2, <3>1, <3>3 DEF Here
        <4>2. CASE kind = "write"
          <5>1. Len(copied[p]) = call[p].done /\ copied'[p] = Append(copied[p], b)
            BY <1>1, <2>2, <4>2 DEF Fits
          <5>2. Len(copied'[p]) = call[p].done + 1 /\ copied'[p][call[p].done + 1] = b
            BY <1>1, <5>1, Lengthened
          <5>3. QED
            BY <2>2, <3>1, <3>2, <3>3, <4>1, <4>2, <5>2 DEF Sofar
        <4>3. CASE kind # "write"
          <5>1. Len(copied'[p]) <= call[p].done /\ b = Zero
            BY <1>1, <2>2, <3>1, <4>3 DEF Fits
          <5>2. QED
            BY <1>1, <2>2, <3>1, <3>2, <3>3, <4>1, <4>3, <5>1 DEF Sofar
        <4>4. QED
          BY <4>2, <4>3
      <3>4. CASE i # Here(p)
        <4>1. i - call[p].pos + 1 # call[p].done + 1
          <5>1. PICK at, done : at = call[p].pos /\ done = call[p].done
            OBVIOUS
          <5>2. at \in Nat /\ done \in Nat /\ i # at + done
            BY <3>1, <3>4, <5>1 DEF Here
          <5>3. i - at + 1 # done + 1
            BY <3>1, <5>2
          <5>4. QED
            BY <5>1, <5>3
        <4>2. ASSUME NEW n \in 1 .. call[p].done
              PROVE  /\ n <= Len(copied'[p]) <=> n <= Len(copied[p])
                     /\ n <= Len(copied[p]) => copied'[p][n] = copied[p][n]
          <5>1. CASE kind = "write"
            <6>1. Len(copied[p]) = call[p].done /\ copied'[p] = Append(copied[p], b)
              BY <1>1, <2>2, <5>1 DEF Fits
            <6>2. QED
              BY <1>1, <3>1, <6>1, Lengthened
          <5>2. CASE kind # "write"
            BY <5>2
          <5>3. QED
            BY <5>1, <5>2
        <4>3. mem[i] = Sofar(p, i)
          BY <2>1 DEF Progress
        <4>4. QED
          <5>1. PICK n : n = i - call[p].pos + 1
            OBVIOUS
          <5>2. /\ Sofar(p, i) = IF n \notin 1 .. call[p].done THEN before[i]
                               ELSE IF n <= Len(copied[p]) THEN copied[p][n] ELSE Zero
                /\ Sofar(p, i)' = IF n \notin 1 .. call[p].done + 1 THEN before[i]
                               ELSE IF n <= Len(copied'[p]) THEN copied'[p][n] ELSE Zero
            BY <1>1, <2>2, <5>1 DEF Sofar
          <5>3. n \in 1 .. call[p].done + 1 <=> n \in 1 .. call[p].done
            <6>1. PICK m : m = call[p].done
              OBVIOUS
            <6>2. n \in Int /\ m \in Nat /\ n # m + 1
              BY <3>1, <4>1, <5>1, <6>1
            <6>3. n \in 1 .. m + 1 <=> n \in 1 .. m
              BY ONLY <6>2
            <6>4. QED
              BY <6>1, <6>3
          <5>4. QED
            BY <3>2, <3>4, <4>2, <4>3, <5>2, <5>3
      <3>5. QED
        BY <3>3, <3>4
    <2>4. QED
      BY <2>2, <2>3 DEF Progress
  <1>6. Apart'
    BY <1>1, <1>5, OnlyOne
  <1>7. QED
    BY <1>2, <1>3, <1>4, <1>6 DEF Keeps

LEMMA WriteByte ==
    ASSUME MemInv, NEW p \in Procs, globalmem_write_byte(p)
    PROVE  Keeps(p)
  <1>1. PICK b \in Byte : /\ mem' = [mem EXCEPT ![Here(p)] = b]
                          /\ copied' = [copied EXCEPT ![p] = Append(@, b)]
    BY DEF globalmem_write_byte
  <1>2. copied \in [Procs -> Seq(Byte)] /\ Append(copied[p], b) \in Seq(Byte)
    BY <1>1, Lengthened DEF MemInv, Types
  <1>3. /\ copied' \in [Procs -> Seq(Byte)] /\ copied'[p] = Append(copied[p], b)
        /\ \A q \in Procs \ {p} : copied'[q] = copied[q]
    BY <1>1, <1>2
  <1>4. QED
    BY <1>1, <1>3, Stores DEF globalmem_write_byte

LEMMA Memset ==
    ASSUME MemInv, NEW p \in Procs, NEW kind \in {"fault", "clear"}, memset(p, kind)
    PROVE  Keeps(p)
  <1>1. CASE /\ Copying(p, kind) /\ mem' = [mem EXCEPT ![Here(p)] = Zero]
             /\ Advance(p) /\ UNCHANGED <<f_pos, copied, alone, before, pc>>
    <2>1. copied' \in [Procs -> Seq(Byte)] /\ Zero \in Byte
      BY <1>1, GlobalmemAssumption DEF MemInv, Types
    <2>2. QED
      BY <1>1, <2>1, Stores
  <1>2. CASE Copied(p, kind) /\ Finish(p) /\ UNCHANGED <<mem, f_pos>>
    BY <1>2, FinishStep DEF Copied
  <1>3. QED
    BY <1>1, <1>2 DEF memset

(* A write that faults keeps what it has copied.                           *)
LEMMA Fault ==
    ASSUME MemInv, NEW p \in Procs, Copying(p, "write"), call' = [call EXCEPT ![p].kind = "fault"],
           UNCHANGED <<mem, f_pos, copied, alone, before, pc>>
    PROVE  Keeps(p)
  <1>1. call \in [Procs -> Calls] /\ call[p] \in Calls /\ pc[p] = "copy" /\ call[p].kind = "write"
    BY DEF MemInv, Types, Copying
  <1>2. /\ call'[p] \in Calls /\ call' \in [Procs -> Calls]
        /\ call'[p].kind = "fault" /\ call'[p].pos = call[p].pos
        /\ call'[p].count = call[p].count /\ call'[p].done = call[p].done
        /\ \A q \in Procs \ {p} : call'[q] = call[q]
    BY <1>1 DEF Calls, Kinds
  <1>3. Types' /\ Moves(p)
    BY <1>2 DEF MemInv, Types, Moves
  <1>4. Fits(p)'
    BY <1>1, <1>2 DEF MemInv, Fits, Copying, Calls
  <1>5. p \in alone => Progress(p)'
    BY <1>1, <1>2 DEF MemInv, Apart, Progress, Sofar
  <1>6. Apart'
    BY <1>1, <1>5, OnlyOne
  <1>7. QED
    BY <1>3, <1>4, <1>6 DEF Keeps

(* TransferCall cuts the count at the end of the memory.                   *)
LEMMA Transfer ==
    ASSUME MemInv, NEW p \in Procs, NEW kind \in {"read", "write"},
           NEW size \in 0 .. MaxRequest, TransferCall(p, kind, size)
    PROVE  Keeps(p)
  <1>1. /\ Count(p, size) \in Nat /\ f_pos[p] \in Nat
        /\ f_pos[p] + Count(p, size) <= GLOBALMEM_SIZE
    BY GlobalmemAssumption DEF TransferCall, Count, MemInv, Types
  <1>2. Start(p, kind, f_pos[p], Count(p, size))
    BY DEF TransferCall
  <1>3. QED
    BY <1>1, <1>2, StartStep

(* The unsigned conversion cannot produce an offset outside the memory     *)
(* that the test lets through.                                             *)
LEMMA Seek ==
    ASSUME MemInv, NEW p \in Procs, NEW offset \in Offsets, NEW orig \in {0, 1},
           globalmem_llseek(p, offset, orig)
    PROVE  Keeps(p)
  <1>1. /\ offset \in Int /\ f_pos \in [Procs -> 0 .. GLOBALMEM_SIZE]
        /\ GLOBALMEM_SIZE \in Nat /\ UINT \in Nat /\ UINT > 0
    BY GlobalmemAssumption DEF MemInv, Types
  <1>2. SeekTarget(p, offset, orig) \in 0 .. GLOBALMEM_SIZE
    <2>1. CASE orig = 0
      <3>1. offset % UINT \in 0 .. UINT - 1
        BY <1>1
      <3>2. QED
        BY <1>1, <2>1, <3>1 DEF globalmem_llseek, SeekTarget
    <2>2. CASE orig = 1
      BY <1>1, <2>2 DEF globalmem_llseek, SeekTarget
    <2>3. QED
      BY <2>1, <2>2
  <1>3. pc[p] = "idle" /\ call[p] = NoCall /\ UNCHANGED <<mem, call, copied, alone, before, pc>>
    BY DEF globalmem_llseek, MemInv, Fits
  <1>4. Types'
    BY <1>1, <1>2, <1>3 DEF globalmem_llseek, MemInv, Types
  <1>5. Moves(p)
    BY <1>3 DEF globalmem_llseek, Moves, MemInv, Types
  <1>6. Fits(p)'
    <2>1. Fits(p) /\ call[p].kind = "none"
      BY <1>3 DEF MemInv, NoCall
    <2>2. QED
      BY <1>3, <2>1 DEF Fits
  <1>7. Apart'
    BY <1>3 DEF MemInv, Apart, Progress, Sofar
  <1>8. QED
    BY <1>4, <1>5, <1>6, <1>7 DEF Keeps

LEMMA OperationStep ==
    ASSUME MemInv, NEW p \in Procs, Operation(p)
    PROVE  Keeps(p)
  <1>1. CASE globalmem_read(p)
    <2>1. CASE globalmem_read_return(p)
      BY <2>1, FinishStep DEF globalmem_read_return, Copied
    <2>2. QED
      BY <1>1, <2>1, Transfer, ReadByte DEF globalmem_read
  <1>2. CASE globalmem_write(p)
    <2>1. CASE globalmem_write_return(p)
      BY <2>1, FinishStep DEF globalmem_write_return, Copied
    <2>2. QED
      BY <1>2, <2>1, Transfer, WriteByte, Memset DEF globalmem_write
  <1>3. CASE EFAULT(p)
    <2>1. CASE Copying(p, "read") /\ Finish(p) /\ UNCHANGED <<mem, f_pos>>
      BY <2>1, FinishStep DEF Copying
    <2>2. QED
      BY <1>3, <2>1, Fault DEF EFAULT
  <1>4. CASE globalmem_ioctl(p)
    <2>1. CASE Start(p, "clear", 0, GLOBALMEM_SIZE)
      BY <2>1, StartStep, GlobalmemAssumption
    <2>2. QED
      BY <1>4, <2>1, Memset DEF globalmem_ioctl
  <1>5. CASE \E offset \in Offsets, orig \in {0, 1} : globalmem_llseek(p, offset, orig)
    BY <1>5, Seek
  <1>6. QED
    BY <1>1, <1>2, <1>3, <1>4, <1>5 DEF Operation

LEMMA MemAlways == Spec => []MemInv
  <1>1. Init => MemInv
    <2> SUFFICES ASSUME Init
                 PROVE  MemInv
      OBVIOUS
    <2>1. NoCall \in Calls /\ << >> \in Seq(Byte)
      BY DEF NoCall, Calls, Kinds
    <2>2. Types
      BY <2>1, BlankFits, GlobalmemAssumption DEF Init, Types
    <2>3. \A p \in Procs : Fits(p)
      <3> SUFFICES ASSUME NEW p \in Procs
                   PROVE  Fits(p)
        OBVIOUS
      <3>1. call[p] = NoCall /\ Len(copied[p]) = 0
        BY DEF Init
      <3>2. QED
        BY <3>1, GlobalmemAssumption DEF Fits, NoCall
    <2>4. Apart
      BY DEF Init, Apart
    <2>5. QED
      BY <2>2, <2>3, <2>4 DEF MemInv
  <1>2. MemInv /\ [Next]_vars => MemInv'
    <2> SUFFICES ASSUME MemInv, [Next]_vars
                 PROVE  MemInv'
      OBVIOUS
    <2>1. CASE Next
      <3>1. PICK p \in Procs : Operation(p)
        BY <2>1 DEF Next
      <3>2. Types' /\ Moves(p) /\ Fits(p)' /\ Apart'
        BY <3>1, OperationStep DEF Keeps
      <3>3. \A q \in Procs : Fits(q)'
        BY <3>2 DEF MemInv, Moves, Fits
      <3>4. QED
        BY <3>2, <3>3 DEF MemInv
    <2>2. CASE UNCHANGED vars
      BY <2>2 DEF vars, MemInv, Types, Fits, Apart, Progress, Sofar
    <2>3. QED
      BY <2>1, <2>2
  <1>3. QED
    BY <1>1, <1>2, PTL DEF Spec

-----------------------------------------------------------------------------
(* Whatever is sought with globalmem_llseek, and whatever is read and      *)
(* written, a position is in the memory or just past it, and no copy of    *)
(* globalmem_read, globalmem_write or MEM_CLEAR leaves the memory.         *)
THEOREM StaysInMemory == Spec => []InMemory
  <1>1. MemInv => InMemory
    <2> SUFFICES ASSUME MemInv, NEW p \in Procs
                 PROVE  /\ f_pos[p] \in 0 .. GLOBALMEM_SIZE
                        /\ call[p].pos >= 0
                        /\ call[p].pos + call[p].count <= GLOBALMEM_SIZE
      BY DEF InMemory
    <2>1. call[p] \in Calls /\ Fits(p) /\ f_pos[p] \in 0 .. GLOBALMEM_SIZE
      BY DEF MemInv, Types
    <2>2. QED
      BY <2>1 DEF Fits, Calls
  <1>2. QED
    BY <1>1, MemAlways, PTL

(* How a call ends: all of its count is done, or a read stops at a fault.  *)
Ends(p) ==
    /\ UNCHANGED mem
    /\ call[p].done = call[p].count \/ call[p].kind = "read"
    /\ \/ /\ call[p].kind \in {"read", "write"} /\ call[p].done = call[p].count
          /\ f_pos'[p] = f_pos[p] + call[p].count
       \/ /\ call[p].kind = "read" /\ call[p].done < call[p].count
          /\ f_pos'[p] = f_pos[p]
       \/ call[p].kind \in {"clear", "fault"} /\ f_pos'[p] = f_pos[p]

LEMMA EndStep ==
    ASSUME MemInv, NEW p \in Procs, NEW q \in Procs, Operation(q), pc[p] = "copy", pc'[p] = "idle"
    PROVE  Ends(p)
  <1>1. q = p
    BY OperationStep DEF Keeps, Moves
  <1>2. pc \in [Procs -> {"idle", "copy"}] /\ f_pos \in [Procs -> 0 .. GLOBALMEM_SIZE]
    BY DEF MemInv, Types
  <1>3. CASE globalmem_read(p)
    BY <1>2, <1>3 DEF globalmem_read, TransferCall, Start, globalmem_read_byte,
                      globalmem_read_return, Copied, Ends
  <1>4. CASE globalmem_write(p)
    BY <1>2, <1>4 DEF globalmem_write, TransferCall, Start, globalmem_write_byte,
                      globalmem_write_return, Copied, Ends, memset
  <1>5. CASE EFAULT(p)
    BY <1>2, <1>5 DEF EFAULT, Copying, Ends
  <1>6. CASE globalmem_ioctl(p)
    BY <1>2, <1>6 DEF globalmem_ioctl, Start, memset, Copied, Ends
  <1>7. CASE \E offset \in Offsets, orig \in {0, 1} : globalmem_llseek(p, offset, orig)
    BY <1>7 DEF globalmem_llseek
  <1>8. QED
    BY <1>1, <1>3, <1>4, <1>5, <1>6, <1>7 DEF Operation

(* Between calls that do not overlap the memory is a file, although each   *)
(* call goes byte by byte without a lock: what globalmem_read gives,       *)
(* globalmem_write and MEM_CLEAR leave, also where copy_from_user faults   *)
(* and clears the rest, and how far the position moves.                    *)
THEOREM CallsActAsOnFile == Spec => FileBetweenCalls
  <1>1. MemInv /\ [Next]_vars =>
          [\A p \in alone :
             pc'[p] = "idle" =>
                /\ mem' = After(p)
                /\ call[p].kind = "clear" => mem' = Blank
                /\ call[p].kind = "read" =>
                      \A n \in 1 .. Len(copied[p]) : copied[p][n] = before[call[p].pos + n - 1]
                /\ \/ f_pos'[p] = f_pos[p] + Len(copied[p])
                   \/ f_pos'[p] = f_pos[p] /\ Len(copied[p]) < call[p].count]_vars
    <2> SUFFICES ASSUME MemInv, Next, NEW p \in alone, pc'[p] = "idle"
                 PROVE  /\ mem' = After(p)
                        /\ call[p].kind = "clear" => mem' = Blank
                        /\ call[p].kind = "read" =>
                              \A n \in 1 .. Len(copied[p]) :
                                 copied[p][n] = before[call[p].pos + n - 1]
                        /\ \/ f_pos'[p] = f_pos[p] + Len(copied[p])
                           \/ f_pos'[p] = f_pos[p] /\ Len(copied[p]) < call[p].count
      OBVIOUS
    <2>1. /\ p \in Procs /\ pc[p] = "copy" /\ Progress(p) /\ Fits(p) /\ call[p] \in Calls
          /\ f_pos[p] \in Nat /\ mem \in [Address -> Byte]
      BY GlobalmemAssumption DEF MemInv, Types, Apart
    <2>2. Ends(p)
      BY <2>1, EndStep DEF Next
    <2>3. ASSUME NEW i \in Address
          PROVE  mem[i] = After(p)[i]
      BY <2>1, <2>2 DEF After, Progress, Sofar, Ends
    <2>4. mem' = After(p)
      BY <2>1, <2>2, <2>3 DEF After, Ends
    <2>5. \/ f_pos'[p] = f_pos[p] + Len(copied[p])
          \/ f_pos'[p] = f_pos[p] /\ Len(copied[p]) < call[p].count
      BY <2>1, <2>2 DEF Ends, Fits, Calls
    <2>6. ASSUME call[p].kind = "clear"
          PROVE  After(p) = Blank
      <3>1. call[p].pos = 0 /\ call[p].count = GLOBALMEM_SIZE /\ Len(copied[p]) = 0
        BY <2>1, <2>6 DEF Fits
      <3>2. ASSUME NEW i \in Address
            PROVE  After(p)[i] = Zero
        <4>1. i \in Int /\ i + 1 \in 1 .. GLOBALMEM_SIZE /\ i - 0 + 1 = i + 1
          BY GlobalmemAssumption DEF Address
        <4>2. ~(i + 1 <= 0)
          BY <4>1
        <4>3. QED
          BY <2>6, <3>1, <4>1, <4>2 DEF After
      <3>3. QED
        BY <3>2 DEF After, Blank
    <2>7. QED
      BY <2>1, <2>4, <2>5, <2>6 DEF Progress
  <1>2. QED
    BY <1>1, MemAlways, PTL DEF Spec, FileBetweenCalls

=============================================================================
