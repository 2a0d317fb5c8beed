-------------------------- MODULE ScullWuidProofs --------------------------
(* Proofs about ScullWuid, for any processes, users and privileges.        *)
EXTENDS ScullWuid, FiniteSetTheorems, TLAPS

-----------------------------------------------------------------------------
(* The inductive invariant.                                                *)

HolderSteps == {"open", "c_lock", "c_count"}


(* What scull_w_open found under the lock stays true until it unlocks.     *)
Admitted ==
    \A p \in Procs : /\ pc[p] = "o_owner" => scull_w_available(p)
                     /\ pc[p] = "o_count" => OwnerMatches(p)

Pending == \E q \in Procs : WakesUp(q)

(* A process that has looked at the count and not yet at the owner.        *)
Looked ==
    \A p \in Procs :
        pc[p] = "o_cond_owner" /\ p \in scull_w_wait /\ scull_w_count = 0 => Pending

WuidInv ==
    /\ TypeOK
    /\ CountExact
    /\ Exclusive
    /\ Admitted
    /\ Looked
    /\ NoLostWakeup

Moves(p) == \A q \in Procs \ {p} : pc'[q] = pc[q]

LEMMA HoldersFinite ==
    IsFiniteSet(Holders) /\ Cardinality(Holders) \in Nat
  <1>1. IsFiniteSet(Holders)
    BY UserAssumption, WuidAssumption, FS_Subset DEF Holders
  <1>2. QED
    BY <1>1, FS_CardinalityType

LEMMA NobodyLeft ==
    ASSUME CountExact, scull_w_count = 0
    PROVE  Holders = {}
  BY HoldersFinite, FS_EmptySet DEF CountExact

(* Two processes cannot both be between spin_lock and spin_unlock.         *)
LEMMA OneLocked ==
    ASSUME CountExact, NEW p \in Procs, pc[p] \in LockedSteps,
           NEW q \in Procs \ {p}
    PROVE  pc[q] \notin LockedSteps
  BY DEF CountExact

LEMMA CountFrame ==
    ASSUME WuidInv, NEW p \in Procs, Moves(p), UNCHANGED scull_w_count,
           pc[p] \in HolderSteps <=> pc'[p] \in HolderSteps,
           \/ scull_w_lock' = scull_w_lock /\ (pc[p] \in LockedSteps <=> pc'[p] \in LockedSteps)
           \/ scull_w_lock = Nobody /\ scull_w_lock' = p /\ pc'[p] \in LockedSteps
           \/ pc[p] \in LockedSteps /\ scull_w_lock' = Nobody /\ pc'[p] \notin LockedSteps
    PROVE  CountExact' /\ Holders' = Holders
  <1>1. Holders' = Holders
    BY DEF Holders, HolderSteps, Moves
  <1>2. ASSUME NEW q \in Procs
        PROVE  pc'[q] \in LockedSteps <=> scull_w_lock' = q
    BY UserAssumption, WuidAssumption DEF WuidInv, CountExact, Moves
  <1>3. QED
    BY <1>1, <1>2 DEF WuidInv, CountExact

(* The steps that store neither to the count nor to the owner.             *)
LEMMA Frame ==
    ASSUME WuidInv, TypeOK', NEW p \in Procs, Moves(p), UNCHANGED owning,
           CountExact', Holders' = Holders,
           pc[p] # "c_owner", pc'[p] # "o_count",
           pc'[p] = "o_owner" => scull_w_available(p),
           scull_w_wait' \subseteq scull_w_wait \cup {p},
           pc'[p] = "o_cond_owner" => scull_w_count # 0,
           pc'[p] = "o_sleep" => pc[p] = "o_cond_owner" /\ ~OwnerMatches(p)
                                   /\ scull_w_wait' = scull_w_wait,
           pc[p] = "c_wake" => scull_w_wait' = {}
    PROVE  WuidInv'
  <1>1. \A q \in Procs : /\ OwnerMatches(q)' <=> OwnerMatches(q)
                         /\ scull_w_available(q)' <=> scull_w_available(q)
    BY DEF OwnerMatches, scull_w_available, owning
  <1>2. Exclusive'
    BY <1>1 DEF WuidInv, Exclusive, Holders
  <1>3. Admitted'
    BY <1>1 DEF WuidInv, Admitted, Moves
  <1>4. scull_w_wait' # {} => (Pending => Pending')
    BY DEF Pending, WakesUp, Moves, owning
  <1>5. Looked'
    BY <1>4 DEF WuidInv, Looked, Moves, owning
  <1>6. NoLostWakeup'
    <2> SUFFICES ASSUME NEW q \in Procs, pc'[q] = "o_sleep", q \in scull_w_wait',
                        scull_w_available(q)'
                 PROVE  Pending'
      BY DEF NoLostWakeup, Pending
    <2>1. scull_w_available(q)
      BY <1>1
    <2>2. CASE q = p
      BY <1>4, <2>1, <2>2 DEF WuidInv, Looked, scull_w_available
    <2>3. CASE q # p
      BY <1>4, <2>1, <2>3 DEF WuidInv, NoLostWakeup, Pending, Moves
    <2>4. QED
      BY <2>2, <2>3
  <1>7. QED
    BY <1>2, <1>3, <1>5, <1>6 DEF WuidInv

-----------------------------------------------------------------------------
(* The four steps that store to the count or to the owner.                 *)

(* While one of them runs, whoever is about to wake the queue is past the  *)
(* lock.                                                                   *)
LEMMA WakerOutside ==
    ASSUME WuidInv, NEW p \in Procs, pc[p] \in LockedSteps, pc[p] # "c_owner", Pending
    PROVE  \E q \in Procs \ {p} : pc[q] = "c_wake"
  BY OneLocked DEF WuidInv, Pending, WakesUp, LockedSteps

LEMMA OpenOwner ==
    ASSUME WuidInv, NEW p \in Procs, scull_w_open_owner(p)
    PROVE  WuidInv'
  <1>1. TypeOK'
    BY UserAssumption, WuidAssumption
    DEF WuidInv, TypeOK, scull_w_open_owner, Goto, Steps, OpenSteps
  <1>2. /\ pc[p] = "o_owner" /\ pc'[p] = "o_count" /\ Moves(p)
        /\ scull_w_count' = scull_w_count /\ scull_w_wait' = scull_w_wait
        /\ scull_w_lock' = scull_w_lock
    BY DEF WuidInv, TypeOK, scull_w_open_owner, Goto, Moves
  <1>3. CountExact' /\ Holders' = Holders
    BY <1>2, CountFrame DEF HolderSteps, LockedSteps
  <1>4. CASE scull_w_count = 0
    <2>1. Holders = {} /\ scull_w_owner' = uid[p]
      BY <1>4, NobodyLeft DEF WuidInv, scull_w_open_owner
    <2>2. Exclusive'
      BY <1>3, <2>1 DEF Exclusive
    <2>3. Admitted'
      <3>1. \A q \in Procs \ {p} : pc[q] \notin LockedSteps
        BY <1>2, OneLocked DEF WuidInv, LockedSteps
      <3>2. \A q \in Procs \ {p} : pc'[q] \notin {"o_owner", "o_count"}
        BY <1>2, <3>1 DEF Moves, LockedSteps
      <3>3. OwnerMatches(p)'
        BY <2>1 DEF OwnerMatches
      <3>4. QED
        BY <1>2, <3>2, <3>3 DEF Admitted
    <2>4. Pending => Pending'
      BY <1>2, WakerOutside DEF Pending, WakesUp, Moves, LockedSteps
    <2>5. \A q \in Procs : pc[q] \in {"o_cond_owner", "o_sleep"} /\ q \in scull_w_wait => Pending
      BY <1>4 DEF WuidInv, Looked, NoLostWakeup, Pending, scull_w_available
    <2>6. \A q \in Procs : pc'[q] \in {"o_cond_owner", "o_sleep"} => pc[q] = pc'[q]
      BY <1>2 DEF Moves
    <2>7. Looked' /\ NoLostWakeup'
      BY <1>2, <2>4, <2>5, <2>6 DEF Looked, NoLostWakeup, Pending
    <2>8. QED
      BY <1>1, <1>3, <2>2, <2>3, <2>7 DEF WuidInv
  <1>5. CASE scull_w_count # 0
    <2>1. scull_w_owner' = scull_w_owner
      BY <1>5 DEF scull_w_open_owner
    <2>2. \A q \in Procs : /\ OwnerMatches(q)' <=> OwnerMatches(q)
                           /\ scull_w_available(q)' <=> scull_w_available(q)
      BY <1>2, <2>1 DEF OwnerMatches, scull_w_available
    <2>3. Exclusive'
      BY <1>3, <2>2 DEF WuidInv, Exclusive, Holders
    <2>4. Admitted'
      BY <1>2, <1>5, <2>2 DEF WuidInv, Admitted, Moves, scull_w_available
    <2>5. Looked'
      BY <1>2, <1>5 DEF Looked
    <2>6. Pending => Pending'
      BY <1>2, WakerOutside DEF Pending, WakesUp, Moves, LockedSteps
    <2>7. NoLostWakeup'
      BY <1>2, <2>2, <2>6 DEF WuidInv, NoLostWakeup, Pending, Moves
    <2>8. QED
      BY <1>1, <1>3, <2>3, <2>4, <2>5, <2>7 DEF WuidInv
  <1>6. QED
    BY <1>4, <1>5

LEMMA OpenCount ==
    ASSUME WuidInv, NEW p \in Procs, scull_w_open_count(p)
    PROVE  WuidInv'
  <1>1. TypeOK'
    BY DEF WuidInv, TypeOK, scull_w_open_count, Return, Goto, Steps, spin_unlock
  <1>2. /\ pc[p] = "o_count" /\ pc'[p] = "open" /\ Moves(p)
        /\ scull_w_count' = scull_w_count + 1 /\ scull_w_wait' = scull_w_wait
        /\ scull_w_owner' = scull_w_owner /\ scull_w_lock' = Nobody
    BY DEF WuidInv, TypeOK, scull_w_open_count, Return, Goto, Moves, spin_unlock
  <1>3. p \notin Holders /\ Holders' = Holders \cup {p}
    BY <1>2 DEF Holders, Moves
  <1>4. Cardinality(Holders') = Cardinality(Holders) + 1
    BY <1>3, HoldersFinite, FS_AddElement
  <1>5. scull_w_count' = Cardinality(Holders') /\ scull_w_count' # 0
    BY <1>2, <1>4, HoldersFinite DEF WuidInv, CountExact
  <1>6. \A q \in Procs \ {p} : pc[q] \notin LockedSteps
    BY <1>2, OneLocked DEF WuidInv, LockedSteps
  <1>7. \A q \in Procs : pc'[q] \notin LockedSteps
    BY <1>2, <1>6 DEF Moves, LockedSteps
  <1>8. CountExact'
    BY <1>2, <1>5, <1>7, UserAssumption, WuidAssumption DEF CountExact
  <1>9. \A q \in Procs : OwnerMatches(q)' <=> OwnerMatches(q)
    BY <1>2 DEF OwnerMatches
  <1>10. Exclusive'
    BY <1>2, <1>3, <1>9 DEF WuidInv, Exclusive, Admitted, Holders
  <1>11. Admitted' /\ Looked'
    BY <1>5, <1>7 DEF Admitted, Looked, LockedSteps
  <1>12. NoLostWakeup'
    <2>1. Pending => Pending'
      BY <1>2, WakerOutside DEF Pending, WakesUp, Moves, LockedSteps
    <2>2. QED
      BY <1>2, <1>5, <1>9, <2>1 DEF WuidInv, NoLostWakeup, Pending, Moves, scull_w_available
  <1>13. QED
    BY <1>1, <1>8, <1>10, <1>11, <1>12 DEF WuidInv

LEMMA ReleaseCount ==
    ASSUME WuidInv, NEW p \in Procs, scull_w_release_count(p)
    PROVE  WuidInv'
  <1>1. TypeOK'
    BY DEF WuidInv, TypeOK, scull_w_release_count, Goto, Steps, CloseSteps
  <1>2. /\ pc[p] = "c_count" /\ pc'[p] = "c_owner" /\ Moves(p)
        /\ scull_w_count' = scull_w_count - 1 /\ scull_w_wait' = scull_w_wait
        /\ scull_w_owner' = scull_w_owner /\ scull_w_lock' = scull_w_lock
    BY DEF WuidInv, TypeOK, scull_w_release_count, Goto, Moves
  <1>3. p \in Holders /\ Holders' = Holders \ {p}
    BY <1>2 DEF Holders, Moves
  <1>4. Cardinality(Holders') = Cardinality(Holders) - 1
    BY <1>3, HoldersFinite, FS_RemoveElement
  <1>5. scull_w_count' = Cardinality(Holders')
    BY <1>2, <1>4, HoldersFinite DEF WuidInv, CountExact
  <1>6. ASSUME NEW q \in Procs
        PROVE  pc'[q] \in LockedSteps <=> scull_w_lock' = q
    BY <1>2 DEF WuidInv, CountExact, Moves, LockedSteps
  <1>7. CountExact'
    BY <1>5, <1>6 DEF CountExact
  <1>8. \A q \in Procs : OwnerMatches(q)' <=> OwnerMatches(q)
    BY <1>2 DEF OwnerMatches
  <1>9. Exclusive'
    BY <1>3, <1>8 DEF WuidInv, Exclusive, Holders
  <1>10. \A q \in Procs \ {p} : pc[q] \notin LockedSteps
    BY <1>2, OneLocked DEF WuidInv, LockedSteps
  <1>11. Admitted'
    BY <1>2, <1>10 DEF Admitted, Moves, LockedSteps
  <1>12. scull_w_count' = 0 => Pending'
    BY <1>2 DEF Pending, WakesUp
  <1>13. Pending => Pending'
    BY <1>2, WakerOutside DEF Pending, WakesUp, Moves, LockedSteps
  <1>14. Looked'
    BY <1>12 DEF Looked
  <1>15. NoLostWakeup'
    BY <1>2, <1>8, <1>12, <1>13
       DEF WuidInv, NoLostWakeup, Pending, Moves, scull_w_available
  <1>16. QED
    BY <1>1, <1>7, <1>9, <1>11, <1>14, <1>15 DEF WuidInv

LEMMA ReleaseOwner ==
    ASSUME WuidInv, NEW p \in Procs, scull_w_release_owner(p)
    PROVE  WuidInv'
  <1>1. TypeOK'
    BY UserAssumption, WuidAssumption
    DEF WuidInv, TypeOK, scull_w_release_owner, Goto, Steps, CloseSteps,
                          spin_unlock
  <1>2. /\ pc[p] = "c_owner" /\ Moves(p)
        /\ pc'[p] = IF scull_w_count = 0 THEN "c_wake" ELSE "closed"
        /\ scull_w_count' = scull_w_count /\ scull_w_wait' = scull_w_wait
        /\ scull_w_lock' = Nobody
    BY DEF WuidInv, TypeOK, scull_w_release_owner, Goto, Moves, spin_unlock
  <1>3. CountExact' /\ Holders' = Holders
    BY <1>2, CountFrame DEF HolderSteps, LockedSteps
  <1>4. \A q \in Procs \ {p} : pc[q] \notin LockedSteps
    BY <1>2, OneLocked DEF WuidInv, LockedSteps
  <1>5. Admitted'
    BY <1>2, <1>4 DEF Admitted, Moves, LockedSteps
  <1>6. CASE scull_w_count = 0
    <2>1. Exclusive'
      BY <1>3, <1>6, NobodyLeft DEF WuidInv, Exclusive
    <2>2. Pending'
      BY <1>2, <1>6 DEF Pending, WakesUp
    <2>3. QED
      BY <1>1, <1>3, <1>5, <2>1, <2>2 DEF WuidInv, Looked, NoLostWakeup, Pending
  <1>7. CASE scull_w_count # 0
    <2>1. scull_w_owner' = scull_w_owner
      BY <1>7 DEF scull_w_release_owner
    <2>2. \A q \in Procs : /\ OwnerMatches(q)' <=> OwnerMatches(q)
                           /\ scull_w_available(q)' <=> scull_w_available(q)
      BY <1>2, <2>1 DEF OwnerMatches, scull_w_available
    <2>3. Exclusive'
      BY <1>3, <2>2 DEF WuidInv, Exclusive, Holders
    <2>4. Looked'
      BY <1>2, <1>7 DEF Looked
    <2>5. Pending => Pending'
      BY <1>2, <1>7 DEF Pending, WakesUp, Moves
    <2>6. NoLostWakeup'
      BY <1>2, <1>7, <2>2, <2>5 DEF WuidInv, NoLostWakeup, Pending, Moves
    <2>7. QED
      BY <1>1, <1>3, <1>5, <2>3, <2>4, <2>6 DEF WuidInv
  <1>8. QED
    BY <1>6, <1>7

-----------------------------------------------------------------------------
(* The other steps.                                                        *)

LEMMA LockFrame ==
    ASSUME WuidInv, NEW p \in Procs, NEW from, NEW to,
           <<from, to>> \in {<<"o_lock", "o_test">>, <<"c_lock", "c_count">>},
           spin_lock(p, from, to)
    PROVE  WuidInv'
  <1> USE DEF spin_lock, Goto, owning
  <1>1. TypeOK'
    BY DEF WuidInv, TypeOK, Steps, OpenSteps, CloseSteps
  <1>2. Moves(p) /\ pc[p] = from /\ pc'[p] = to
    BY DEF WuidInv, TypeOK, Moves
  <1>3. CountExact' /\ Holders' = Holders
    BY <1>2, CountFrame DEF HolderSteps, LockedSteps
  <1>4. QED
    BY <1>1, <1>2, <1>3, Frame

LEMMA OpenFrame ==
    ASSUME WuidInv, NEW p \in Procs,
           \/ OpenCall(p)
           \/ scull_w_open_test(p)
           \/ scull_w_open_prepare(p)
           \/ scull_w_open_cond_count(p)
           \/ scull_w_open_cond_owner(p)
           \/ scull_w_open_wakeup(p)
    PROVE  WuidInv'
  <1> USE DEF Goto, Return, spin_unlock, owning
  <1>1. CASE OpenCall(p)
    <2>1. TypeOK'
      <3>1. \A flags \in OpenFlags : flags \in SUBSET {"O_WRONLY", "O_NONBLOCK"}
        BY UserAssumption, WuidAssumption
      <3>2. QED
        BY <1>1, <3>1 DEF OpenCall, WuidInv, TypeOK, Steps, OpenSteps
    <2>2. Moves(p) /\ pc[p] = "closed" /\ pc'[p] = "o_lock"
      BY <1>1 DEF OpenCall, WuidInv, TypeOK, Moves
    <2>3. CountExact' /\ Holders' = Holders
      BY <1>1, <2>2, CountFrame DEF OpenCall, HolderSteps, LockedSteps
    <2>4. QED
      BY <1>1, <2>1, <2>2, <2>3, Frame DEF OpenCall
  <1>2. CASE scull_w_open_test(p)
    <2>1. TypeOK'
      BY <1>2 DEF scull_w_open_test, WuidInv, TypeOK, Steps, OpenSteps, WaitSteps
    <2>2. /\ Moves(p) /\ pc[p] = "o_test"
          /\ \/ pc'[p] = "o_owner" /\ scull_w_available(p) /\ scull_w_lock' = scull_w_lock
             \/ pc'[p] \in {"closed", "o_prep"} /\ scull_w_lock' = Nobody
      BY <1>2 DEF scull_w_open_test, WuidInv, TypeOK, Moves
    <2>3. CountExact' /\ Holders' = Holders
      BY <1>2, <2>2, CountFrame DEF scull_w_open_test, HolderSteps, LockedSteps
    <2>4. QED
      BY <1>2, <2>1, <2>2, <2>3, Frame DEF scull_w_open_test
  <1>3. CASE scull_w_open_prepare(p)
    <2>1. TypeOK'
      BY <1>3 DEF scull_w_open_prepare, WuidInv, TypeOK, Steps, OpenSteps, WaitSteps
    <2>2. Moves(p) /\ pc[p] = "o_prep" /\ pc'[p] = "o_cond_count"
      BY <1>3 DEF scull_w_open_prepare, WuidInv, TypeOK, Moves
    <2>3. CountExact' /\ Holders' = Holders
      BY <1>3, <2>2, CountFrame DEF scull_w_open_prepare, HolderSteps, LockedSteps
    <2>4. QED
      BY <1>3, <2>1, <2>2, <2>3, Frame DEF scull_w_open_prepare
  <1>4. CASE scull_w_open_cond_count(p)
    <2>1. TypeOK'
      BY <1>4 DEF scull_w_open_cond_count, WuidInv, TypeOK, Steps, OpenSteps, WaitSteps
    <2>2. /\ Moves(p) /\ pc[p] = "o_cond_count"
          /\ \/ pc'[p] = "o_lock"
             \/ pc'[p] = "o_cond_owner" /\ scull_w_count # 0
      BY <1>4 DEF scull_w_open_cond_count, WuidInv, TypeOK, Moves
    <2>3. CountExact' /\ Holders' = Holders
      BY <1>4, <2>2, CountFrame DEF scull_w_open_cond_count, HolderSteps, LockedSteps
    <2>4. QED
      BY <1>4, <2>1, <2>2, <2>3, Frame DEF scull_w_open_cond_count
  <1>5. CASE scull_w_open_cond_owner(p)
    <2>1. TypeOK'
      BY <1>5 DEF scull_w_open_cond_owner, WuidInv, TypeOK, Steps, OpenSteps, WaitSteps
    <2>2. /\ Moves(p) /\ pc[p] = "o_cond_owner"
          /\ \/ pc'[p] \in {"o_lock", "closed"} /\ scull_w_wait' = scull_w_wait \ {p}
             \/ /\ pc'[p] = "o_sleep" /\ ~OwnerMatches(p)
                /\ scull_w_wait' = scull_w_wait
      BY <1>5 DEF scull_w_open_cond_owner, WuidInv, TypeOK, Moves
    <2>3. CountExact' /\ Holders' = Holders
      BY <1>5, <2>2, CountFrame DEF scull_w_open_cond_owner, HolderSteps, LockedSteps
    <2>4. QED
      BY <1>5, <2>1, <2>2, <2>3, Frame DEF scull_w_open_cond_owner
  <1>6. CASE scull_w_open_wakeup(p)
    <2>1. TypeOK'
      BY <1>6 DEF scull_w_open_wakeup, WuidInv, TypeOK, Steps, OpenSteps, WaitSteps
    <2>2. Moves(p) /\ pc[p] = "o_sleep" /\ pc'[p] = "o_prep"
      BY <1>6 DEF scull_w_open_wakeup, WuidInv, TypeOK, Moves
    <2>3. CountExact' /\ Holders' = Holders
      BY <1>6, <2>2, CountFrame DEF scull_w_open_wakeup, HolderSteps, LockedSteps
    <2>4. QED
      BY <1>6, <2>1, <2>2, <2>3, Frame DEF scull_w_open_wakeup
  <1>7. QED
    BY <1>1, <1>2, <1>3, <1>4, <1>5, <1>6

LEMMA ReleaseFrame ==
    ASSUME WuidInv, NEW p \in Procs, ReleaseCall(p) \/ scull_w_release_wake(p)
    PROVE  WuidInv'
  <1> USE DEF Goto, owning
  <1>1. CASE ReleaseCall(p)
    <2>1. TypeOK'
      BY <1>1 DEF ReleaseCall, WuidInv, TypeOK, Steps, CloseSteps
    <2>2. Moves(p) /\ pc[p] = "open" /\ pc'[p] = "c_lock"
      BY <1>1 DEF ReleaseCall, WuidInv, TypeOK, Moves
    <2>3. CountExact' /\ Holders' = Holders
      BY <1>1, <2>2, CountFrame DEF ReleaseCall, HolderSteps, LockedSteps
    <2>4. QED
      BY <1>1, <2>1, <2>2, <2>3, Frame DEF ReleaseCall
  <1>2. CASE scull_w_release_wake(p)
    <2>1. TypeOK'
      BY <1>2 DEF scull_w_release_wake, WuidInv, TypeOK, Steps
    <2>2. Moves(p) /\ pc[p] = "c_wake" /\ pc'[p] = "closed" /\ scull_w_wait' = {}
      BY <1>2 DEF scull_w_release_wake, WuidInv, TypeOK, Moves
    <2>3. CountExact' /\ Holders' = Holders
      BY <1>2, <2>2, CountFrame DEF scull_w_release_wake, HolderSteps, LockedSteps
    <2>4. QED
      BY <1>2, <2>1, <2>2, <2>3, Frame DEF scull_w_release_wake
  <1>3. QED
    BY <1>1, <1>2

LEMMA Still ==
    ASSUME WuidInv, TypeOK', UNCHANGED <<owning, scull_w_lock, scull_w_wait, pc>>
    PROVE  WuidInv'
  BY DEF WuidInv, owning, CountExact, Exclusive, Admitted, Looked, NoLostWakeup, Holders,
         OwnerMatches, scull_w_available, WakesUp, Pending

-----------------------------------------------------------------------------

LEMMA WuidAlways == Spec => []WuidInv
  <1>1. Init => WuidInv
    <2> SUFFICES ASSUME Init
                 PROVE  WuidInv
      OBVIOUS
    <2>1. TypeOK
      <3>1. stored \in BOOLEAN
        BY Zenon DEF Init
      <3>2. f_flags \in [Procs -> SUBSET {"O_WRONLY", "O_NONBLOCK"}] /\ pc \in [Procs -> Steps]
        BY DEF Init, Steps
      <3>3. /\ scull_w_count \in Int /\ scull_w_owner \in Users
            /\ scull_w_lock \in Procs \cup {Nobody}
            /\ scull_w_wait \subseteq Procs /\ sig \subseteq Procs
        BY UserAssumption, WuidAssumption DEF Init
      <3>4. QED
        BY <3>1, <3>2, <3>3 DEF TypeOK
    <2>2. Holders = {}
      BY DEF Init, Holders
    <2>3. CountExact
      <3>1. scull_w_count = Cardinality(Holders)
        BY <2>2, FS_EmptySet DEF Init
      <3>2. \A p \in Procs : pc[p] \notin LockedSteps /\ scull_w_lock # p
        BY UserAssumption, WuidAssumption DEF Init, LockedSteps
      <3>3. QED
        BY <3>1, <3>2 DEF CountExact
    <2>4. QED
      BY <2>1, <2>2, <2>3 DEF Init, WuidInv, Exclusive, Admitted, Looked, NoLostWakeup
  <1>2. WuidInv /\ [Next]_vars => WuidInv'
    <2> SUFFICES ASSUME WuidInv, [Next]_vars
                 PROVE  WuidInv'
      OBVIOUS
    <2>1. ASSUME NEW p \in Procs, scull_w_open(p)
          PROVE  WuidInv'
      BY <2>1, LockFrame, OpenFrame, OpenOwner, OpenCount DEF scull_w_open
    <2>2. ASSUME NEW p \in Procs, scull_w_release(p)
          PROVE  WuidInv'
      BY <2>2, LockFrame, ReleaseFrame, ReleaseCount, ReleaseOwner DEF scull_w_release
    <2>3. ASSUME NEW p \in Procs, scull_write(p)
          PROVE  WuidInv'
      <3>1. TypeOK'
        BY <2>3 DEF scull_write, WuidInv, TypeOK, owning
      <3>2. QED
        BY <2>3, <3>1, Still DEF scull_write
    <2>4. ASSUME NEW p \in Procs, Signal(p)
          PROVE  WuidInv'
      <3>1. TypeOK'
        BY <2>4 DEF Signal, WuidInv, TypeOK, owning
      <3>2. QED
        BY <2>4, <3>1, Still DEF Signal
    <2>5. CASE UNCHANGED vars
      <3>1. TypeOK'
        BY <2>5 DEF vars, WuidInv, TypeOK, owning
      <3>2. QED
        BY <2>5, <3>1, Still DEF vars
    <2>6. QED
      BY <2>1, <2>2, <2>3, <2>4, <2>5 DEF Next
  <1>3. QED
    BY <1>1, <1>2, PTL DEF Spec

(* scull_w_count is the number of processes that have the device open, and *)
(* the spinlock excludes: the release that finds zero is the last one.     *)
THEOREM CountsHolders == Spec => []CountExact
  <1>1. WuidInv => CountExact
    BY DEF WuidInv
  <1>2. QED
    BY <1>1, WuidAlways, PTL

(* Whatever the processes, their users and their privileges, nobody has    *)
(* scull_wuid open whom its owner excludes.                                *)
THEOREM OwnerExcludes == Spec => []Exclusive
  <1>1. WuidInv => Exclusive
    BY DEF WuidInv
  <1>2. QED
    BY <1>1, WuidAlways, PTL

(* No process sleeps on in scull_w_open beside a device it may open, though *)
(* it looks at the count and at the owner without the spinlock.            *)
THEOREM OpenerWoken == Spec => []NoLostWakeup
  <1>1. WuidInv => NoLostWakeup
    BY DEF WuidInv
  <1>2. QED
    BY <1>1, WuidAlways, PTL

-----------------------------------------------------------------------------
(* Refinement.                                                             *)

(* The steps that change nothing a user of the device can see.             *)
Unseen(p) ==
    \/ OpenCall(p) \/ spin_lock(p, "o_lock", "o_test") \/ scull_w_open_test(p)
    \/ scull_w_open_prepare(p) \/ scull_w_open_cond_count(p) \/ scull_w_open_cond_owner(p)
    \/ scull_w_open_wakeup(p) \/ scull_w_open_owner(p)
    \/ ReleaseCall(p) \/ spin_lock(p, "c_lock", "c_count")
    \/ scull_w_release_owner(p) \/ scull_w_release_wake(p)
    \/ scull_write(p) \/ Signal(p)

LEMMA StepCases ==
    ASSUME Next
    PROVE  \E p \in Procs : scull_w_open_count(p) \/ scull_w_release_count(p) \/ Unseen(p)
  BY DEF Next, scull_w_open, scull_w_release, Unseen

LEMMA UnseenStays ==
    ASSUME WuidInv, NEW p \in Procs, Unseen(p)
    PROVE  /\ Holders' = Holders
           /\ Holders # {} => scull_w_owner' = scull_w_owner
           /\ scull_w_count' = scull_w_count
           /\ stored => stored'
  <1>1. Holders' = Holders
    <2>1. \A q \in Procs : pc'[q] \in HolderSteps <=> pc[q] \in HolderSteps
      <3> USE DEF Goto, Return, HolderSteps, WuidInv, TypeOK
      <3>1. CASE OpenCall(p) \/ spin_lock(p, "o_lock", "o_test") \/ scull_w_open_test(p)
        BY <3>1 DEF OpenCall, spin_lock, scull_w_open_test
      <3>2. CASE scull_w_open_prepare(p) \/ scull_w_open_wakeup(p) \/ scull_w_open_owner(p)
        BY <3>2 DEF scull_w_open_prepare, scull_w_open_wakeup, scull_w_open_owner
      <3>3. CASE scull_w_open_cond_count(p) \/ scull_w_open_cond_owner(p)
        BY <3>3 DEF scull_w_open_cond_count, scull_w_open_cond_owner
      <3>4. CASE ReleaseCall(p) \/ spin_lock(p, "c_lock", "c_count")
        BY <3>4 DEF ReleaseCall, spin_lock
      <3>5. CASE scull_w_release_owner(p) \/ scull_w_release_wake(p)
        BY <3>5 DEF scull_w_release_owner, scull_w_release_wake
      <3>6. CASE scull_write(p) \/ Signal(p)
        BY <3>6 DEF scull_write, Signal
      <3>7. QED
        BY <3>1, <3>2, <3>3, <3>4, <3>5, <3>6 DEF Unseen
    <2>2. QED
      BY <2>1 DEF Holders, HolderSteps
  <1>2. Holders # {} => scull_w_owner' = scull_w_owner
    <2>1. CASE scull_w_open_owner(p) \/ scull_w_release_owner(p)
      BY <2>1, NobodyLeft DEF WuidInv, scull_w_open_owner, scull_w_release_owner
    <2>2. CASE ~(scull_w_open_owner(p) \/ scull_w_release_owner(p))
      BY <2>2 DEF Unseen, OpenCall, spin_lock, scull_w_open_test, scull_w_open_prepare,
                  scull_w_open_cond_count, scull_w_open_cond_owner, scull_w_open_wakeup,
                  ReleaseCall, scull_w_release_wake, scull_write, Signal, owning
    <2>3. QED
      BY <2>1, <2>2
  <1>3. scull_w_count' = scull_w_count /\ (stored => stored')
    BY DEF Unseen, OpenCall, spin_lock, scull_w_open_test, scull_w_open_prepare,
           scull_w_open_cond_count, scull_w_open_cond_owner, scull_w_open_wakeup,
           scull_w_open_owner, ReleaseCall, scull_w_release_owner, scull_w_release_wake,
           scull_write, Signal, owning
  <1>4. QED
    BY <1>1, <1>2, <1>3

(* A process about to be the first holder has made its user the owner.     *)
Taken == \A p \in Procs : pc[p] = "o_count" /\ scull_w_count = 0 => scull_w_owner = uid[p]

LEMMA TakenStep ==
    ASSUME WuidInv, Taken, [Next]_vars
    PROVE  Taken'
  <1> SUFFICES ASSUME NEW q \in Procs, pc'[q] = "o_count", scull_w_count' = 0
               PROVE  scull_w_owner' = uid[q]
    BY DEF Taken
  <1>1. CASE UNCHANGED vars
    BY <1>1 DEF vars, owning, Taken
  <1>2. ASSUME NEW p \in Procs, scull_w_open_count(p)
        PROVE  FALSE
    <2>1. scull_w_count' = Cardinality(Holders) + 1
      BY <1>2 DEF WuidInv, CountExact, scull_w_open_count
    <2>2. QED
      BY <2>1, HoldersFinite
  <1>3. ASSUME NEW p \in Procs, scull_w_release_count(p)
        PROVE  FALSE
    <2>1. pc[p] = "c_count" /\ pc'[p] = "c_owner" /\ (q # p => pc[q] = "o_count")
      BY <1>3 DEF WuidInv, TypeOK, scull_w_release_count, Goto
    <2>2. QED
      BY <2>1, OneLocked DEF WuidInv, LockedSteps
  <1>4. ASSUME NEW p \in Procs, scull_w_open_owner(p)
        PROVE  scull_w_owner' = uid[q]
    <2>1. pc[p] = "o_owner" /\ (q # p => pc[q] = "o_count") /\ scull_w_count = 0
      BY <1>4 DEF WuidInv, TypeOK, scull_w_open_owner, Goto
    <2>2. q = p
      BY <2>1, OneLocked DEF WuidInv, LockedSteps
    <2>3. QED
      BY <1>4, <2>1, <2>2 DEF scull_w_open_owner
  <1>5. ASSUME NEW p \in Procs, scull_w_release_owner(p)
        PROVE  FALSE
    <2>1. pc[p] = "c_owner" /\ pc[q] = "o_count"
      BY <1>5 DEF WuidInv, TypeOK, scull_w_release_owner, Goto
    <2>2. QED
      BY <2>1, OneLocked DEF WuidInv, LockedSteps
  <1>6. ASSUME NEW p \in Procs, Unseen(p), ~scull_w_open_owner(p), ~scull_w_release_owner(p)
        PROVE  scull_w_owner' = uid[q]
    <2>1. UNCHANGED owning
      BY <1>6 DEF Unseen, OpenCall, spin_lock, scull_w_open_test, scull_w_open_prepare,
                  scull_w_open_cond_count, scull_w_open_cond_owner, scull_w_open_wakeup,
                  ReleaseCall, scull_w_release_wake, scull_write, Signal
    <2>2. pc[q] = "o_count"
      <3> USE DEF Goto, Return, WuidInv, TypeOK
      <3>1. CASE OpenCall(p) \/ spin_lock(p, "o_lock", "o_test") \/ scull_w_open_test(p)
        BY <3>1 DEF OpenCall, spin_lock, scull_w_open_test
      <3>2. CASE scull_w_open_prepare(p) \/ scull_w_open_wakeup(p)
        BY <3>2 DEF scull_w_open_prepare, scull_w_open_wakeup
      <3>3. CASE scull_w_open_cond_count(p) \/ scull_w_open_cond_owner(p)
        BY <3>3 DEF scull_w_open_cond_count, scull_w_open_cond_owner
      <3>4. CASE ReleaseCall(p) \/ spin_lock(p, "c_lock", "c_count") \/ scull_w_release_wake(p)
        BY <3>4 DEF ReleaseCall, spin_lock, scull_w_release_wake
      <3>5. CASE scull_write(p) \/ Signal(p)
        BY <3>5 DEF scull_write, Signal
      <3>6. QED
        BY <1>6, <3>1, <3>2, <3>3, <3>4, <3>5 DEF Unseen
    <2>3. QED
      BY <2>1, <2>2 DEF Taken, owning
  <1>7. QED
    BY <1>1, <1>2, <1>3, <1>4, <1>5, <1>6, StepCases

LEMMA TakenAlways == Spec => [](WuidInv /\ Taken)
  <1>1. Init => Taken
    BY DEF Init, Taken
  <1>2. WuidInv /\ Taken /\ [Next]_vars => Taken'
    BY TakenStep
  <1>3. QED
    BY <1>1, <1>2, WuidAlways, PTL DEF Spec

LEMMA Opens ==
    ASSUME WuidInv, NEW p \in Procs, scull_w_open_count(p)
    PROVE  /\ p \notin Holders /\ Holders' = Holders \cup {p}
           /\ OwnerMatches(p) /\ scull_w_owner' = scull_w_owner
           /\ scull_w_count = 0 <=> Holders = {}
  <1>1. p \notin Holders /\ Holders' = Holders \cup {p}
    BY DEF WuidInv, TypeOK, scull_w_open_count, Return, Goto, Holders
  <1>2. OwnerMatches(p) /\ scull_w_owner' = scull_w_owner
    BY DEF WuidInv, Admitted, scull_w_open_count
  <1>3. scull_w_count = 0 <=> Holders = {}
    BY NobodyLeft, FS_EmptySet DEF WuidInv, CountExact
  <1>4. QED
    BY <1>1, <1>2, <1>3

LEMMA Closes ==
    ASSUME WuidInv, NEW p \in Procs, scull_w_release_count(p)
    PROVE  /\ p \in Holders /\ Holders' = Holders \ {p}
           /\ scull_w_owner' = scull_w_owner /\ stored' = stored
  BY DEF WuidInv, TypeOK, scull_w_release_count, Goto, Holders

(* Only an open that gets the device truncates its data, and it is one     *)
(* that the owner lets in.                                                 *)
THEOREM TruncatesOwnData == Spec => TruncatesOwn
  <1>1. ASSUME WuidInv, [Next]_vars
        PROVE  [stored /\ ~stored' =>
                  \E p \in Procs \ Holders :
                      /\ p \in Holders'
                      /\ p \in Privileged \/ Holders = {} \/ OwnerMatches(p)]_vars
    <2> SUFFICES ASSUME Next, stored, ~stored'
                 PROVE  \E p \in Procs \ Holders :
                            /\ p \in Holders'
                            /\ p \in Privileged \/ Holders = {} \/ OwnerMatches(p)
      BY <1>1
    <2>1. PICK p \in Procs : scull_w_open_count(p)
      BY <1>1, StepCases, UnseenStays, Closes
    <2>2. QED
      BY <1>1, <2>1, Opens
  <1>2. QED
    BY <1>1, WuidAlways, PTL DEF Spec, TruncatesOwn

(* scull_wuid, its wait included, is a device that belongs to one user at  *)
(* a time, for any processes, users, privileges and signals.               *)
THEOREM IsOwnedDevice == Spec => ImplementsOwned
  <1>1. Init => Owned!Init
    BY DEF Init, Owned!Init, Holders
  <1>2. WuidInv /\ Taken /\ [Next]_vars => [Owned!Next]_(Owned!vars)
    <2> SUFFICES ASSUME WuidInv, Taken, [Next]_vars
                 PROVE  Owned!Next \/ UNCHANGED Owned!vars
      BY DEF Owned!vars
    <2>1. ASSUME NEW p \in Procs, scull_w_open_count(p)
          PROVE  Owned!Acquire(p)
      <3>1. Holders = {} => scull_w_owner = uid[p]
        BY <2>1, Opens DEF Taken, scull_w_open_count
      <3>2. QED
        BY <2>1, <3>1, Opens DEF Owned!Acquire, OwnerMatches
    <2>2. ASSUME NEW p \in Procs, scull_w_release_count(p)
          PROVE  Owned!Release(p)
      BY <2>2, Closes DEF Owned!Release
    <2>3. ASSUME NEW p \in Procs, Unseen(p)
          PROVE  UNCHANGED Owned!vars
      BY <2>3, UnseenStays DEF Owned!vars
    <2>4. CASE UNCHANGED vars
      BY <2>4 DEF vars, owning, Owned!vars, Holders
    <2>5. QED
      BY <2>1, <2>2, <2>3, <2>4, StepCases DEF Owned!Next
  <1>3. QED
    BY <1>1, <1>2, TakenAlways, PTL DEF Spec, ImplementsOwned, Owned!Spec

=============================================================================
