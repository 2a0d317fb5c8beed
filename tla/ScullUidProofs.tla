--------------------------- MODULE ScullUidProofs ---------------------------
(* Proofs about ScullUid, for any processes, users and privileges.         *)
EXTENDS ScullUid, FiniteSetTheorems, TLAPS

-----------------------------------------------------------------------------
(* The inductive invariant.                                                *)

HolderSteps == {"open", "busy", "c_lock", "c_drop"}

Steps == {"closed", "o_lock", "o_test", "o_take"} \cup HolderSteps

Types ==
    /\ scull_u_count \in Int
    /\ scull_u_owner \in Users
    /\ scull_u_lock \in Procs \cup {Nobody}
    /\ trimmed \subseteq Procs
    /\ pc \in [Procs -> Steps]

(* Nobody has the device open against its owner.                           *)
Exclusive == \A p \in Holders : OwnerMatches(p)

(* What scull_u_open found under the lock stays true until it unlocks.     *)
Admitted == \A p \in Procs : pc[p] = "o_take" => scull_u_count = 0 \/ OwnerMatches(p)

UidInv == Types /\ UidCountExact /\ Exclusive /\ Admitted

Moves(p) == \A q \in Procs \ {p} : pc'[q] = pc[q]

LEMMA HoldersFinite ==
    IsFiniteSet(Holders) /\ Cardinality(Holders) \in Nat
  <1>1. IsFiniteSet(Holders)
    BY UserAssumption, FS_Subset DEF Holders
  <1>2. QED
    BY <1>1, FS_CardinalityType

LEMMA NobodyLeft ==
    ASSUME UidCountExact
    PROVE  scull_u_count = 0 <=> Holders = {}
  BY HoldersFinite, FS_EmptySet DEF UidCountExact

(* Two processes cannot both be between spin_lock and spin_unlock.         *)
LEMMA OneLocked ==
    ASSUME UidCountExact, NEW p \in Procs, pc[p] \in LockedSteps,
           NEW q \in Procs \ {p}
    PROVE  pc[q] \notin LockedSteps
  BY DEF UidCountExact

(* A step of p keeps the lock with whom it belongs.                        *)
LockFollows(p) ==
    \/ scull_u_lock' = scull_u_lock /\ (pc[p] \in LockedSteps <=> pc'[p] \in LockedSteps)
    \/ scull_u_lock = Nobody /\ scull_u_lock' = p /\ pc'[p] \in LockedSteps
    \/ pc[p] \in LockedSteps /\ scull_u_lock' = Nobody /\ pc'[p] \notin LockedSteps

LEMMA LockExact ==
    ASSUME UidInv, NEW p \in Procs, Moves(p), LockFollows(p)
    PROVE  \A q \in Procs : pc'[q] \in LockedSteps <=> scull_u_lock' = q
  BY UserAssumption DEF UidInv, UidCountExact, Moves, LockFollows

(* A step that changes neither the count nor the owner nor who holds the   *)
(* device.                                                                 *)
LEMMA Frame ==
    ASSUME UidInv, Types', NEW p \in Procs, Moves(p), LockFollows(p),
           UNCHANGED <<scull_u_count, scull_u_owner>>,
           pc[p] \in HolderSteps <=> pc'[p] \in HolderSteps,
           pc'[p] = "o_take" => scull_u_count = 0 \/ OwnerMatches(p)
    PROVE  UidInv' /\ Holders' = Holders
  <1>1. Holders' = Holders
    BY DEF Holders, HolderSteps, Moves
  <1>2. UidCountExact'
    BY <1>1, LockExact DEF UidInv, UidCountExact
  <1>3. Exclusive' /\ Admitted'
    BY <1>1 DEF UidInv, Exclusive, Admitted, OwnerMatches, Moves, Holders
  <1>4. QED
    BY <1>1, <1>2, <1>3 DEF UidInv

-----------------------------------------------------------------------------
(* The two steps that change the count, under the lock.                    *)

LEMMA OpenTake ==
    ASSUME UidInv, NEW p \in Procs, scull_u_open_take(p)
    PROVE  /\ UidInv'
           /\ p \notin Holders /\ Holders' = Holders \cup {p}
           /\ Holders = {} \/ OwnerMatches(p)
           /\ scull_u_owner' = IF Holders = {} THEN uid[p] ELSE scull_u_owner
  <1>1. Types'
    <2>1. trimmed' \subseteq Procs
      BY DEF UidInv, Types, scull_u_open_take
    <2>2. scull_u_owner' \in Users /\ scull_u_count' \in Int
      BY UserAssumption DEF UidInv, Types, scull_u_open_take
    <2>3. scull_u_lock' \in Procs \cup {Nobody} /\ pc' \in [Procs -> Steps]
      BY DEF UidInv, Types, scull_u_open_take, Goto, Steps, HolderSteps, spin_unlock
    <2>4. QED
      BY <2>1, <2>2, <2>3 DEF Types
  <1>2. Moves(p) /\ pc[p] = "o_take" /\ pc'[p] = "open"
    BY DEF UidInv, Types, scull_u_open_take, Goto, Moves
  <1>3. p \notin Holders /\ Holders' = Holders \cup {p}
    BY <1>2 DEF Holders, Moves
  <1>4. Cardinality(Holders') = Cardinality(Holders) + 1
    BY <1>3, HoldersFinite, FS_AddElement
  <1>5. UidCountExact'
    <2>1. LockFollows(p)
      BY <1>2 DEF scull_u_open_take, spin_unlock, LockFollows, LockedSteps
    <2>2. QED
      BY <1>2, <1>4, <2>1, LockExact DEF UidInv, UidCountExact, scull_u_open_take
  <1>6. (scull_u_count = 0 <=> Holders = {}) /\ (scull_u_count = 0 \/ OwnerMatches(p))
    BY <1>2, NobodyLeft DEF UidInv, Admitted
  <1>7. Exclusive'
    <2>1. CASE Holders = {}
      BY <1>3, <1>6, <2>1 DEF Exclusive, OwnerMatches, scull_u_open_take
    <2>2. CASE Holders # {}
      BY <1>3, <1>6, <2>2 DEF UidInv, Exclusive, OwnerMatches, scull_u_open_take
    <2>3. QED
      BY <2>1, <2>2
  <1>8. Admitted'
    BY <1>2, OneLocked DEF UidInv, Admitted, Moves, LockedSteps
  <1>9. scull_u_owner' = IF Holders = {} THEN uid[p] ELSE scull_u_owner
    BY <1>6 DEF scull_u_open_take
  <1>10. QED
    BY <1>1, <1>3, <1>5, <1>6, <1>7, <1>8, <1>9 DEF UidInv

LEMMA ReleaseDrop ==
    ASSUME UidInv, NEW p \in Procs, scull_u_release_drop(p)
    PROVE  /\ UidInv'
           /\ p \in Holders /\ Holders' = Holders \ {p}
           /\ Holders' # {} => scull_u_owner' = scull_u_owner
  <1>1. Types'
    BY UserAssumption DEF UidInv, Types, scull_u_release_drop, Goto, Steps, spin_unlock
  <1>2. Moves(p) /\ pc[p] = "c_drop" /\ pc'[p] = "closed"
    BY DEF UidInv, Types, scull_u_release_drop, Goto, Moves
  <1>3. p \in Holders /\ Holders' = Holders \ {p}
    BY <1>2 DEF Holders, Moves
  <1>4. Cardinality(Holders') = Cardinality(Holders) - 1
    BY <1>3, HoldersFinite, FS_RemoveElement
  <1>5. UidCountExact'
    <2>1. LockFollows(p)
      BY <1>2 DEF scull_u_release_drop, spin_unlock, LockFollows, LockedSteps
    <2>2. QED
      BY <1>2, <1>4, <2>1, LockExact DEF UidInv, UidCountExact, scull_u_release_drop
  <1>6. Holders' # {} => scull_u_owner' = scull_u_owner
    <2>1. IsFiniteSet(Holders')
      BY <1>3, HoldersFinite, FS_Subset
    <2>2. scull_u_count' = 0 => Holders' = {}
      BY <1>5, <2>1, FS_EmptySet DEF UidCountExact
    <2>3. QED
      BY <2>2 DEF scull_u_release_drop
  <1>7. Exclusive'
    BY <1>3, <1>6 DEF UidInv, Exclusive, OwnerMatches
  <1>8. Admitted'
    BY <1>2, OneLocked DEF UidInv, Admitted, Moves, LockedSteps
  <1>9. QED
    BY <1>1, <1>3, <1>5, <1>6, <1>7, <1>8 DEF UidInv

(* Every other step leaves the holders, the count and the owner alone.     *)
LEMMA OtherSteps ==
    ASSUME UidInv, NEW p \in Procs,
           \/ Call(p, "closed", "o_lock") \/ Call(p, "open", "c_lock") \/ UseCall(p)
           \/ spin_lock(p, "o_lock", "o_test") \/ spin_lock(p, "c_lock", "c_drop")
           \/ scull_u_open_test(p)
    PROVE  UidInv' /\ Holders' = Holders /\ scull_u_owner' = scull_u_owner
           /\ trimmed' \subseteq trimmed
  <1>1. CASE Call(p, "closed", "o_lock")
    BY <1>1, Frame DEF Call, UidInv, Types, Goto, Moves, LockFollows, LockedSteps, Steps,
                       HolderSteps
  <1>2. CASE Call(p, "open", "c_lock")
    BY <1>2, Frame DEF Call, UidInv, Types, Goto, Moves, LockFollows, LockedSteps, Steps,
                       HolderSteps
  <1>3. CASE UseCall(p)
    <2>1. /\ Types' /\ Moves(p) /\ UNCHANGED <<scull_u_count, scull_u_owner, scull_u_lock>>
          /\ pc[p] \in {"open", "busy"} /\ pc'[p] \in {"open", "busy"}
          /\ trimmed' \subseteq trimmed
      BY <1>3 DEF UseCall, Call, UidInv, Types, Goto, Moves, Steps, HolderSteps
    <2>2. QED
      BY <2>1, Frame DEF LockFollows, LockedSteps, HolderSteps
  <1>4. CASE spin_lock(p, "o_lock", "o_test")
    BY <1>4, Frame DEF spin_lock, UidInv, Types, Goto, Moves, LockFollows, LockedSteps, Steps,
                       HolderSteps
  <1>5. CASE spin_lock(p, "c_lock", "c_drop")
    BY <1>5, Frame DEF spin_lock, UidInv, Types, Goto, Moves, LockFollows, LockedSteps, Steps,
                       HolderSteps
  <1>6. CASE scull_u_open_test(p)
    <2>1. /\ Types' /\ Moves(p) /\ UNCHANGED <<scull_u_count, scull_u_owner, trimmed>>
          /\ pc[p] = "o_test" /\ pc'[p] \in {"closed", "o_take"}
      BY <1>6 DEF scull_u_open_test, spin_unlock, UidInv, Types, Goto, Moves, Steps
    <2>2. /\ pc'[p] = "o_take" => scull_u_lock' = scull_u_lock
          /\ pc'[p] = "closed" => scull_u_lock' = Nobody
          /\ pc'[p] = "o_take" => scull_u_count = 0 \/ OwnerMatches(p)
      <3>1. Cardinality(Holders) \in Nat /\ scull_u_count = Cardinality(Holders)
        BY HoldersFinite DEF UidInv, UidCountExact
      <3>2. QED
        BY <1>6, <3>1 DEF scull_u_open_test, spin_unlock, UidInv, Types, Goto
    <2>3. LockFollows(p)
      BY <2>1, <2>2 DEF LockFollows, LockedSteps
    <2>4. QED
      BY <2>1, <2>2, <2>3, Frame DEF HolderSteps
  <1>7. QED
    BY <1>1, <1>2, <1>3, <1>4, <1>5, <1>6

LEMMA Idle ==
    ASSUME UidInv, UNCHANGED vars
    PROVE  UidInv' /\ Holders' = Holders
  BY DEF UidInv, vars, Types, UidCountExact, Exclusive, Admitted, Holders, OwnerMatches

(* The steps of Next, sorted by what they do to the device.                *)
LEMMA StepCases ==
    ASSUME Next
    PROVE  \E p \in Procs :
              \/ scull_u_open_take(p)
              \/ scull_u_release_drop(p)
              \/ \/ Call(p, "closed", "o_lock") \/ Call(p, "open", "c_lock") \/ UseCall(p)
                 \/ spin_lock(p, "o_lock", "o_test") \/ spin_lock(p, "c_lock", "c_drop")
                 \/ scull_u_open_test(p)
  BY DEF Next, scull_u_open, scull_u_release

LEMMA UidAlways == Spec => []UidInv
  <1>1. Init => UidInv
    <2> SUFFICES ASSUME Init
                 PROVE  UidInv
      OBVIOUS
    <2>1. Types
      BY UserAssumption DEF Init, Types, Steps
    <2>2. Holders = {}
      BY DEF Init, Holders
    <2>3. UidCountExact
      <3>1. scull_u_count = Cardinality(Holders)
        BY <2>2, FS_EmptySet DEF Init
      <3>2. \A p \in Procs : pc[p] \notin LockedSteps /\ scull_u_lock # p
        BY UserAssumption DEF Init, LockedSteps
      <3>3. QED
        BY <3>1, <3>2 DEF UidCountExact
    <2>4. QED
      BY <2>1, <2>2, <2>3 DEF Init, UidInv, Exclusive, Admitted
  <1>2. UidInv /\ [Next]_vars => UidInv'
    <2> SUFFICES ASSUME UidInv, [Next]_vars
                 PROVE  UidInv'
      OBVIOUS
    <2>1. CASE Next
      BY <2>1, StepCases, OpenTake, ReleaseDrop, OtherSteps
    <2>2. QED
      BY <2>1, Idle
  <1>3. QED
    BY <1>1, <1>2, PTL DEF Spec

-----------------------------------------------------------------------------
(* scull_u_count is the number of processes that have the device open, and *)
(* the spinlock excludes.                                                  *)
THEOREM CountsHolders == Spec => []UidCountExact
  <1>1. UidInv => UidCountExact
    BY DEF UidInv
  <1>2. QED
    BY <1>1, UidAlways, PTL

(* The scull_trim of a write-only scull_u_open pulls the data only from    *)
(* under calls of processes that the owner lets in, and only a process the *)
(* owner lets in does so.                                                  *)
THEOREM TrimsOwnCalls == Spec => TrimsOwn
  <1>1. ASSUME UidInv, [Next]_vars
        PROVE  [\A p \in Procs \ Holders, q \in trimmed' \ trimmed :
                   p \in Holders' => OwnerMatches(p) /\ OwnerMatches(q)]_vars
    <2> SUFFICES ASSUME NEW p \in Procs \ Holders, NEW q \in trimmed' \ trimmed,
                        p \in Holders', Next
                 PROVE  OwnerMatches(p) /\ OwnerMatches(q)
      BY <1>1
    <2>1. PICK r \in Procs : scull_u_open_take(r)
      BY <1>1, StepCases, ReleaseDrop, OtherSteps DEF scull_u_release_drop
    <2>2. r = p /\ (Holders = {} \/ OwnerMatches(p))
      BY <1>1, <2>1, OpenTake
    <2>3. q \in Holders
      BY <2>1 DEF scull_u_open_take, Holders
    <2>4. QED
      BY <1>1, <2>2, <2>3 DEF UidInv, Exclusive
  <1>2. QED
    BY <1>1, UidAlways, PTL DEF Spec, TrimsOwn

(* scull_uid is a device that belongs to one user at a time, for any       *)
(* processes, users and privileges: every step of a handler opens it,      *)
(* closes it, or cannot be seen from outside.                              *)
THEOREM IsOwnedDevice == Spec => UidImplementsOwned
  <1>1. Init => Owned!Init
    BY DEF Init, Owned!Init, Holders
  <1>2. UidInv /\ [Next]_vars => [Owned!Next]_(Owned!vars)
    <2> SUFFICES ASSUME UidInv, [Next]_vars
                 PROVE  Owned!Next \/ UNCHANGED Owned!vars
      BY DEF Owned!vars
    <2>1. ASSUME NEW p \in Procs, scull_u_open_take(p)
          PROVE  Owned!Acquire(p)
      BY <2>1, OpenTake DEF Owned!Acquire, OwnerMatches
    <2>2. ASSUME NEW p \in Procs, scull_u_release_drop(p)
          PROVE  Owned!Release(p)
      BY <2>2, ReleaseDrop DEF Owned!Release
    <2>3. CASE Next
      <3>1. PICK p \in Procs :
              \/ Owned!Acquire(p) \/ Owned!Release(p)
              \/ Holders' = Holders /\ scull_u_owner' = scull_u_owner
        BY <2>1, <2>2, <2>3, StepCases, OtherSteps
      <3>2. QED
        BY <3>1 DEF Owned!Next, Owned!vars
    <2>4. CASE UNCHANGED vars
      BY <2>4, Idle DEF vars, Owned!vars
    <2>5. QED
      BY <2>3, <2>4
  <1>3. QED
    BY <1>1, <1>2, UidAlways, PTL DEF Spec, UidImplementsOwned, Owned!Spec

=============================================================================
