--------------------------- MODULE ScullCopyProofs --------------------------
(* Proofs about ScullCopy, for any processes, terminals and allocations.   *)
EXTENDS ScullCopy, SequenceTheorems, TLAPS

-----------------------------------------------------------------------------
(* The inductive invariant.                                                *)

Item        == [key : Ttys, writers : SUBSET Procs]
LockedSteps == {"o_look", "o_alloc"}
FileSteps   == {"o_trim", "open"}
Steps       == {"closed", "o_lock"} \cup LockedSteps \cup FileSteps

Types ==
    /\ item \in Seq(Item)
    /\ scull_c_list \in Seq(1 .. Len(item))
    /\ scull_c_lock \in Procs \cup {Nothing}
    /\ private_data \in [Procs -> Nat \cup {Nothing}]
    /\ f_flags \in [Procs -> BOOLEAN]
    /\ loaded \in BOOLEAN
    /\ pc \in [Procs -> Steps]

LockExact == \A p \in Procs : pc[p] \in LockedSteps <=> scull_c_lock = p

(* A process without a terminal, and any process while the module is not   *)
(* loaded, is not in a call.                                               *)
Callers == \A p \in Procs : pc[p] # "closed" => loaded /\ tty[p] \in Ttys

(* What scull_c_lookfor_device did not find is still not there.            *)
Looked == \A p \in Procs : pc[p] = "o_alloc" => Matches(p) = {}

(* A file's device is on the list, under the terminal of its process.      *)
OwnDevice == \A p \in Procs : pc[p] \in FileSteps => private_data[p] \in Matches(p)

(* A device was written to from its own terminal only.                     *)
OwnWriters == \A i \in 1 .. Len(item) : \A q \in item[i].writers : q \in Procs /\ tty[q] = item[i].key

CopyInv ==
    /\ Types
    /\ LockExact
    /\ Callers
    /\ Looked
    /\ OwnDevice
    /\ OwnWriters
    /\ OneDevicePerTty

Moves(p) == \A q \in Procs \ {p} : pc'[q] = pc[q]

(* A step of p keeps the lock with whom it belongs.                        *)
LockFollows(p) ==
    \/ scull_c_lock' = scull_c_lock /\ (pc[p] \in LockedSteps <=> pc'[p] \in LockedSteps)
    \/ scull_c_lock = Nothing /\ scull_c_lock' = p /\ pc'[p] \in LockedSteps
    \/ pc[p] \in LockedSteps /\ scull_c_lock' = Nothing /\ pc'[p] \notin LockedSteps

LEMMA LockKept ==
    ASSUME CopyInv, NEW p \in Procs, Moves(p), LockFollows(p)
    PROVE  LockExact'
  BY CopyAssumption DEF CopyInv, LockExact, Moves, LockFollows

(* Two processes cannot both be between spin_lock and spin_unlock.         *)
LEMMA OneLocked ==
    ASSUME CopyInv, NEW p \in Procs, pc[p] \in LockedSteps, NEW q \in Procs \ {p}
    PROVE  pc[q] \notin LockedSteps
  BY DEF CopyInv, LockExact

LEMMA OnListType ==
    ASSUME Types
    PROVE  OnList \subseteq 1 .. Len(item)
  BY DEF Types, OnList

-----------------------------------------------------------------------------
(* scull_trim empties the devices it is given and does nothing else.       *)
LEMMA Trims ==
    ASSUME NEW list \in Seq(Item), NEW ids
    PROVE  /\ scull_trim(list, ids) \in Seq(Item)
           /\ Len(scull_trim(list, ids)) = Len(list)
           /\ \A i \in 1 .. Len(list) :
                 scull_trim(list, ids)[i] =
                    IF i \in ids THEN [list[i] EXCEPT !.writers = {}] ELSE list[i]
  <1>1. \A i \in 1 .. Len(list) : list[i] \in Item
    BY ElementOfSeq
  <1>2. \A i \in 1 .. Len(list) :
           (IF i \in ids THEN [list[i] EXCEPT !.writers = {}] ELSE list[i]) \in Item
    BY <1>1 DEF Item
  <1>3. Len(list) \in Nat
    BY LenProperties
  <1>4. QED
    BY <1>2, <1>3, IsASeq, LenProperties DEF scull_trim

(* The items after a step that allocates none: the same keys, and no new   *)
(* writer but from the terminal of the item.                               *)
SameKeys ==
    /\ item' \in Seq(Item)
    /\ Len(item') = Len(item)
    /\ \A i \in 1 .. Len(item) :
          /\ item'[i].key = item[i].key
          /\ \A q \in item'[i].writers : q \in Procs /\ tty[q] = item[i].key

LEMMA Frame ==
    ASSUME CopyInv, SameKeys, UNCHANGED <<scull_c_list, loaded>>,
           NEW p \in Procs, Moves(p), LockFollows(p), pc' \in [Procs -> Steps],
           scull_c_lock' \in Procs \cup {Nothing},
           private_data' \in [Procs -> Nat \cup {Nothing}],
           f_flags' \in [Procs -> BOOLEAN],
           \A q \in Procs \ {p} : private_data'[q] = private_data[q],
           pc'[p] # "closed" => loaded /\ tty[p] \in Ttys,
           pc'[p] = "o_alloc" => Matches(p) = {},
           pc'[p] \in FileSteps => private_data'[p] \in Matches(p)
    PROVE  CopyInv'
  <1>1. Types'
    BY DEF CopyInv, Types, SameKeys
  <1>2. OnList' = OnList /\ OnList \subseteq 1 .. Len(item)
    BY OnListType DEF OnList, CopyInv
  <1>3. \A q \in Procs : Matches(q)' = Matches(q)
    BY <1>2 DEF Matches, SameKeys
  <1>4. LockExact' /\ Callers' /\ Looked' /\ OwnDevice'
    BY <1>3, LockKept DEF CopyInv, Callers, Looked, OwnDevice, Moves
  <1>5. OwnWriters'
    BY DEF OwnWriters, SameKeys
  <1>6. OneDevicePerTty'
    <2>1. \A i \in 1 .. Len(scull_c_list) : scull_c_list[i] \in 1 .. Len(item)
      BY ElementOfSeq DEF CopyInv, Types
    <2>2. QED
      BY <2>1, SMTT(30) DEF CopyInv, OneDevicePerTty, SameKeys
  <1>7. QED
    BY <1>1, <1>4, <1>5, <1>6 DEF CopyInv

LEMMA ItemsStay ==
    ASSUME CopyInv, UNCHANGED item
    PROVE  SameKeys
  BY DEF CopyInv, Types, OwnWriters, SameKeys

LEMMA ItemsTrimmed ==
    ASSUME CopyInv, NEW ids, item' = scull_trim(item, ids)
    PROVE  SameKeys
  <1>1. item \in Seq(Item) /\ \A i \in 1 .. Len(item) : item[i] \in Item
    BY ElementOfSeq DEF CopyInv, Types
  <1>2. /\ item' \in Seq(Item) /\ Len(item') = Len(item)
        /\ \A i \in 1 .. Len(item) :
              item'[i] = IF i \in ids THEN [item[i] EXCEPT !.writers = {}] ELSE item[i]
    BY <1>1, Trims
  <1>3. \A i \in 1 .. Len(item) :
           item'[i].key = item[i].key /\ item'[i].writers \subseteq item[i].writers
    BY <1>1, <1>2 DEF Item
  <1>4. QED
    BY <1>2, <1>3 DEF CopyInv, OwnWriters, SameKeys

-----------------------------------------------------------------------------
(* The handlers.                                                           *)

LEMMA LookupSteps ==
    ASSUME CopyInv, NEW p \in Procs,
           OpenCall(p) \/ spin_lock(p) \/ scull_c_lookfor_device(p) \/ scull_c_open_ENOMEM(p)
    PROVE  CopyInv'
  <1>1. CASE OpenCall(p)
    <2>1. f_flags' \in [Procs -> BOOLEAN]
      BY <1>1, Zenon DEF OpenCall, CopyInv, Types
    <2>2. /\ pc' \in [Procs -> Steps] /\ Moves(p) /\ pc[p] = "closed" /\ pc'[p] = "o_lock"
          /\ UNCHANGED <<item, scull_c_list, scull_c_lock, private_data, loaded>>
          /\ loaded /\ tty[p] \in Ttys
      BY <1>1, CopyAssumption DEF OpenCall, Goto, CopyInv, Types, Steps, Moves
    <2>3. LockFollows(p) /\ SameKeys
      BY <2>2, ItemsStay DEF LockFollows, LockedSteps
    <2>4. QED
      BY <2>1, <2>2, <2>3, Frame DEF CopyInv, Types, FileSteps
  <1>2. CASE spin_lock(p)
    <2>1. /\ pc' \in [Procs -> Steps] /\ Moves(p) /\ pc[p] = "o_lock" /\ pc'[p] = "o_look"
          /\ scull_c_lock = Nothing /\ scull_c_lock' = p
          /\ UNCHANGED <<item, scull_c_list, private_data, f_flags, loaded>>
      BY <1>2 DEF spin_lock, Goto, CopyInv, Types, Steps, LockedSteps, Moves
    <2>2. LockFollows(p) /\ SameKeys /\ loaded /\ tty[p] \in Ttys
      BY <2>1, ItemsStay DEF LockFollows, LockedSteps, CopyInv, Callers
    <2>3. QED
      BY <2>1, <2>2, Frame DEF CopyInv, Types, FileSteps
  <1>3. CASE scull_c_lookfor_device(p)
    <2>1. /\ pc' \in [Procs -> Steps] /\ Moves(p) /\ pc[p] = "o_look"
          /\ UNCHANGED <<item, scull_c_list, f_flags, loaded>>
      BY <1>3 DEF scull_c_lookfor_device, Goto, CopyInv, Types, Steps, LockedSteps, FileSteps,
                  Moves
    <2>2. SameKeys /\ loaded /\ tty[p] \in Ttys
      BY <2>1, ItemsStay DEF CopyInv, Callers
    <2>3. CASE Matches(p) # {}
      <3>1. PICK i \in Matches(p) : private_data' = [private_data EXCEPT ![p] = i]
        BY <1>3, <2>3 DEF scull_c_lookfor_device
      <3>2. i \in Nat
        BY OnListType DEF Matches, CopyInv, Types
      <3>3. scull_c_lock' = Nothing /\ pc'[p] = "o_trim"
        BY <1>3, <2>3 DEF scull_c_lookfor_device, spin_unlock, Goto, CopyInv, Types
      <3>4. /\ private_data' \in [Procs -> Nat \cup {Nothing}] /\ private_data'[p] = i
            /\ \A q \in Procs \ {p} : private_data'[q] = private_data[q]
        BY <3>1, <3>2 DEF CopyInv, Types
      <3>5. LockFollows(p)
        BY <2>1, <3>3 DEF LockFollows, LockedSteps
      <3>6. QED
        BY <2>1, <2>2, <3>1, <3>3, <3>4, <3>5, Frame DEF CopyInv, Types
    <2>4. CASE Matches(p) = {}
      <3>1. UNCHANGED <<scull_c_lock, private_data>> /\ pc'[p] = "o_alloc"
        BY <1>3, <2>4 DEF scull_c_lookfor_device, Goto, CopyInv, Types
      <3>2. LockFollows(p)
        BY <2>1, <3>1 DEF LockFollows, LockedSteps
      <3>3. QED
        BY <2>1, <2>2, <2>4, <3>1, <3>2, Frame DEF CopyInv, Types, FileSteps
    <2>5. QED
      BY <2>3, <2>4
  <1>4. CASE scull_c_open_ENOMEM(p)
    <2>1. /\ pc' \in [Procs -> Steps] /\ Moves(p) /\ pc[p] = "o_alloc" /\ pc'[p] = "closed"
          /\ scull_c_lock' = Nothing
          /\ UNCHANGED <<item, scull_c_list, private_data, f_flags, loaded>>
      BY <1>4 DEF scull_c_open_ENOMEM, spin_unlock, Goto, CopyInv, Types, Steps, Moves
    <2>2. LockFollows(p) /\ SameKeys
      BY <2>1, ItemsStay DEF LockFollows, LockedSteps
    <2>3. QED
      BY <2>1, <2>2, Frame DEF CopyInv, Types, FileSteps
  <1>5. QED
    BY <1>1, <1>2, <1>3, <1>4

(* The new device is in front of the list, and the first of its terminal.  *)
LEMMA AddStep ==
    ASSUME CopyInv, NEW p \in Procs, scull_c_lookfor_device_add(p)
    PROVE  CopyInv'
  <1> DEFINE new   == Len(item) + 1
             fresh == [key |-> tty[p], writers |-> {}]
  <1>1. pc[p] = "o_alloc" /\ loaded /\ tty[p] \in Ttys /\ Matches(p) = {}
    BY DEF scull_c_lookfor_device_add, CopyInv, Callers, Looked
  <1>2. fresh \in Item /\ item \in Seq(Item) /\ Len(item) \in Nat
    BY <1>1, LenProperties DEF Item, CopyInv, Types
  <1>3. /\ item' \in Seq(Item) /\ Len(item') = new /\ item'[new] = fresh
        /\ \A i \in 1 .. Len(item) : item'[i] = item[i]
    BY <1>2, AppendProperties DEF scull_c_lookfor_device_add
  <1>4. /\ scull_c_list \in Seq(1 .. new) /\ <<new>> \in Seq(1 .. new)
        /\ Len(<<new>>) = 1 /\ <<new>>[1] = new /\ Len(scull_c_list) \in Nat
    <2>1. 1 .. Len(item) \subseteq 1 .. new /\ new \in 1 .. new
      BY <1>2
    <2>2. scull_c_list \in Seq(1 .. new)
      BY <2>1, SeqMonotonic DEF CopyInv, Types
    <2>3. QED
      BY <2>1, <2>2, LenProperties
  <1>5. /\ scull_c_list' \in Seq(1 .. new) /\ Len(scull_c_list') = Len(scull_c_list) + 1
        /\ \A i \in 1 .. Len(scull_c_list) + 1 :
              scull_c_list'[i] = IF i = 1 THEN new ELSE scull_c_list[i - 1]
    <2>1. scull_c_list' = <<new>> \o scull_c_list
      BY DEF scull_c_lookfor_device_add
    <2> HIDE DEF new
    <2>2. QED
      BY <1>4, <2>1, ConcatProperties
  <1>6. OnList' = OnList \cup {new}
    <2>1. ASSUME NEW i \in 1 .. Len(scull_c_list)
          PROVE  /\ i + 1 \in 1 .. Len(scull_c_list')
                 /\ scull_c_list'[i + 1] = scull_c_list[i]
      BY <1>4, <1>5, SMTT(30)
    <2>2. ASSUME NEW i \in 1 .. Len(scull_c_list')
          PROVE  scull_c_list'[i] \in OnList \cup {new}
      <3>1. CASE i = 1
        BY <1>5, <3>1
      <3>2. CASE i # 1
        <4>1. i - 1 \in 1 .. Len(scull_c_list) /\ scull_c_list'[i] = scull_c_list[i - 1]
          BY <1>4, <1>5, <3>2
        <4>2. QED
          BY <4>1 DEF OnList
      <3>3. QED
        BY <3>1, <3>2
    <2>3. new \in OnList'
      <3>1. 1 \in 1 .. Len(scull_c_list') /\ scull_c_list'[1] = new
        BY <1>4, <1>5
      <3>2. QED
        BY <3>1 DEF OnList
    <2>4. OnList \subseteq OnList'
      BY <2>1 DEF OnList
    <2>5. OnList' \subseteq OnList \cup {new}
      BY <2>2 DEF OnList
    <2>6. QED
      BY <2>3, <2>4, <2>5
  <1>7. OnList \subseteq 1 .. Len(item)
    BY OnListType DEF CopyInv
  <1>8. /\ pc' \in [Procs -> Steps] /\ Moves(p) /\ pc'[p] = "o_trim"
        /\ scull_c_lock' = Nothing /\ UNCHANGED <<f_flags, loaded>>
        /\ private_data' \in [Procs -> Nat \cup {Nothing}] /\ private_data'[p] = new
        /\ \A q \in Procs \ {p} : private_data'[q] = private_data[q]
    BY <1>2 DEF scull_c_lookfor_device_add, spin_unlock, Goto, CopyInv, Types, Steps, FileSteps,
                Moves
  <1>9. Types'
    BY <1>3, <1>5, <1>8 DEF CopyInv, Types
  <1>10. LockExact'
    <2>1. LockFollows(p)
      BY <1>1, <1>8 DEF LockFollows, LockedSteps
    <2>2. QED
      BY <1>8, <2>1, LockKept
  <1>11. Callers'
    BY <1>1, <1>8 DEF CopyInv, Callers, Moves
  <1>12. Looked'
    BY <1>1, <1>8, OneLocked DEF Looked, Moves, LockedSteps
  <1>13. OwnDevice'
    <2>1. \A q \in Procs : Matches(q) \subseteq Matches(q)'
      BY <1>3, <1>6, <1>7 DEF Matches
    <2>2. new \in Matches(p)'
      BY <1>3, <1>6 DEF Matches
    <2>3. QED
      BY <1>8, <2>1, <2>2 DEF CopyInv, OwnDevice, Moves
  <1>14. OwnWriters'
    BY <1>2, <1>3 DEF CopyInv, OwnWriters
  <1>15. OneDevicePerTty'
    <2>1. ASSUME NEW i \in 1 .. Len(scull_c_list)
          PROVE  /\ scull_c_list[i] \in 1 .. Len(item)
                 /\ item[scull_c_list[i]].key # tty[p]
      BY <1>1, <1>7 DEF OnList, Matches
    <2>2. ASSUME NEW i \in 1 .. Len(scull_c_list'), NEW j \in 1 .. Len(scull_c_list'),
                 item'[scull_c_list'[i]].key = item'[scull_c_list'[j]].key
          PROVE  i = j
      <3>1. item'[new].key = tty[p]
        BY <1>3
      <3>2. ASSUME NEW k \in 1 .. Len(scull_c_list'), k # 1
            PROVE  /\ k - 1 \in 1 .. Len(scull_c_list)
                   /\ item'[scull_c_list'[k]] = item[scull_c_list[k - 1]]
        <4>1. k - 1 \in 1 .. Len(scull_c_list) /\ scull_c_list'[k] = scull_c_list[k - 1]
          BY <1>4, <1>5, <3>2
        <4>2. QED
          BY <1>3, <2>1, <4>1
      <3>3. 1 \in 1 .. Len(scull_c_list') /\ scull_c_list'[1] = new
        BY <1>4, <1>5
      <3>4. CASE i = 1 \/ j = 1
        BY <2>1, <2>2, <3>1, <3>2, <3>3, <3>4, SMTT(30)
      <3>5. CASE i # 1 /\ j # 1
        <4>1. i - 1 = j - 1
          BY <2>2, <3>2, <3>5, SMTT(30) DEF CopyInv, OneDevicePerTty
        <4>2. QED
          BY <4>1, <1>4, <1>5
      <3>6. QED
        BY <3>4, <3>5
    <2>3. QED
      BY <2>2 DEF OneDevicePerTty
  <1>16. QED
    BY <1>9, <1>10, <1>11, <1>12, <1>13, <1>14, <1>15 DEF CopyInv

LEMMA OpenedSteps ==
    ASSUME CopyInv, NEW p \in Procs,
           scull_c_open_trim(p) \/ scull_c_release(p) \/ scull_write(p)
    PROVE  CopyInv'
  <1>1. CASE scull_c_open_trim(p)
    <2>1. /\ pc' \in [Procs -> Steps] /\ Moves(p) /\ pc[p] = "o_trim" /\ pc'[p] = "open"
          /\ UNCHANGED <<scull_c_list, scull_c_lock, private_data, f_flags, loaded>>
      BY <1>1 DEF scull_c_open_trim, Goto, CopyInv, Types, Steps, FileSteps, Moves
    <2>2. SameKeys
      BY <1>1, ItemsStay, ItemsTrimmed DEF scull_c_open_trim
    <2>3. LockFollows(p) /\ loaded /\ tty[p] \in Ttys /\ private_data[p] \in Matches(p)
      BY <2>1 DEF LockFollows, LockedSteps, CopyInv, Callers, OwnDevice, FileSteps
    <2>4. QED
      BY <2>1, <2>2, <2>3, Frame DEF CopyInv, Types
  <1>2. CASE scull_c_release(p)
    <2>1. /\ pc' \in [Procs -> Steps] /\ Moves(p) /\ pc[p] = "open" /\ pc'[p] = "closed"
          /\ private_data' \in [Procs -> Nat \cup {Nothing}]
          /\ \A q \in Procs \ {p} : private_data'[q] = private_data[q]
          /\ UNCHANGED <<item, scull_c_list, scull_c_lock, f_flags, loaded>>
      BY <1>2 DEF scull_c_release, Goto, CopyInv, Types, Steps, Moves
    <2>2. LockFollows(p) /\ SameKeys
      BY <2>1, ItemsStay DEF LockFollows, LockedSteps
    <2>3. QED
      BY <2>1, <2>2, Frame DEF CopyInv, Types, FileSteps
  <1>3. CASE scull_write(p)
    <2> DEFINE d == private_data[p]
    <2>1. /\ pc[p] = "open" /\ d \in OnList /\ item[d].key = tty[p]
          /\ UNCHANGED <<scull_c_list, scull_c_lock, private_data, f_flags, loaded, pc>>
      BY <1>3 DEF scull_write, CopyInv, OwnDevice, FileSteps, Matches
    <2>2. d \in 1 .. Len(item)
      BY <2>1, OnListType DEF CopyInv
    <2>3. item \in Seq(Item) /\ item[d] \in Item
      BY <2>2, ElementOfSeq DEF CopyInv, Types
    <2>4. item' = [item EXCEPT ![d] = [item[d] EXCEPT !.writers = item[d].writers \cup {p}]]
      BY <1>3 DEF scull_write
    <2>5. [item[d] EXCEPT !.writers = item[d].writers \cup {p}] \in Item
      BY <2>3 DEF Item
    <2>6. /\ item' \in Seq(Item) /\ Len(item') = Len(item)
          /\ \A i \in 1 .. Len(item) :
                item'[i] = IF i = d THEN [item[d] EXCEPT !.writers = item[d].writers \cup {p}]
                                    ELSE item[i]
      BY <2>2, <2>3, <2>4, <2>5, ExceptSeq
    <2>7. SameKeys
      BY <2>1, <2>3, <2>6 DEF SameKeys, CopyInv, OwnWriters, Item
    <2>8. Moves(p) /\ LockFollows(p) /\ loaded /\ tty[p] \in Ttys /\ d \in Matches(p)
      BY <2>1 DEF Moves, LockFollows, CopyInv, Callers, Matches
    <2>9. QED
      BY <2>1, <2>7, <2>8, Frame DEF CopyInv, Types
  <1>4. QED
    BY <1>1, <1>2, <1>3

LEMMA ModuleSteps ==
    ASSUME CopyInv, scull_access_cleanup \/ scull_access_init
    PROVE  CopyInv'
  <1>1. \A p \in Procs : pc[p] = "closed" /\ pc'[p] = "closed"
    BY DEF scull_access_cleanup, scull_access_init, CopyInv, Callers
  <1>2. LockExact' /\ Callers' /\ Looked' /\ OwnDevice'
    BY <1>1 DEF scull_access_cleanup, scull_access_init, CopyInv, LockExact, Callers, Looked,
                OwnDevice, LockedSteps, FileSteps
  <1>3. CASE scull_access_cleanup
    <2>1. SameKeys /\ UNCHANGED scull_c_list
      BY <1>3, ItemsTrimmed DEF scull_access_cleanup
    <2>2. loaded' \in BOOLEAN
      BY <1>3, Zenon DEF scull_access_cleanup
    <2>3. Types'
      BY <1>3, <2>1, <2>2 DEF scull_access_cleanup, CopyInv, Types, SameKeys
    <2>4. OwnWriters'
      BY <2>1 DEF OwnWriters, SameKeys
    <2>5. OneDevicePerTty'
      <3>1. \A i \in 1 .. Len(scull_c_list) : scull_c_list[i] \in 1 .. Len(item)
        BY ElementOfSeq DEF CopyInv, Types
      <3>2. QED
        BY <2>1, <3>1, SMTT(30) DEF CopyInv, OneDevicePerTty, SameKeys
    <2>6. QED
      BY <1>2, <2>3, <2>4, <2>5 DEF CopyInv
  <1>4. CASE scull_access_init
    <2>1. loaded' \in BOOLEAN
      BY <1>4, Zenon DEF scull_access_init
    <2>2. scull_c_list' \in Seq(1 .. Len(item)) /\ Len(scull_c_list') = 0
      BY <1>4, EmptySeq DEF scull_access_init
    <2>3. Types'
      BY <1>4, <2>1, <2>2 DEF scull_access_init, CopyInv, Types
    <2>4. OwnWriters' /\ OneDevicePerTty'
      BY <1>4, <2>2 DEF scull_access_init, CopyInv, OwnWriters, OneDevicePerTty
    <2>5. QED
      BY <1>2, <2>3, <2>4 DEF CopyInv
  <1>5. QED
    BY <1>3, <1>4

-----------------------------------------------------------------------------
LEMMA CopyAlways == Spec => []CopyInv
  <1>1. Init => CopyInv
    <2> SUFFICES ASSUME Init
                 PROVE  CopyInv
      OBVIOUS
    <2>1. f_flags \in [Procs -> BOOLEAN] /\ loaded \in BOOLEAN
      BY Zenon DEF Init
    <2>2. Len(item) = 0 /\ Len(scull_c_list) = 0 /\ item \in Seq(Item)
          /\ scull_c_list \in Seq(1 .. Len(item))
      BY EmptySeq DEF Init
    <2>3. Types
      BY <2>1, <2>2 DEF Init, Types, Steps
    <2>4. \A p \in Procs : pc[p] = "closed" /\ scull_c_lock # p
      BY CopyAssumption DEF Init
    <2>5. LockExact /\ Callers /\ Looked /\ OwnDevice
      BY <2>4 DEF LockExact, Callers, Looked, OwnDevice, LockedSteps, FileSteps
    <2>6. OwnWriters /\ OneDevicePerTty
      BY <2>2 DEF OwnWriters, OneDevicePerTty
    <2>7. QED
      BY <2>3, <2>5, <2>6 DEF CopyInv
  <1>2. CopyInv /\ [Next]_vars => CopyInv'
    <2> SUFFICES ASSUME CopyInv, [Next]_vars
                 PROVE  CopyInv'
      OBVIOUS
    <2>1. ASSUME NEW p \in Procs, scull_c_open(p)
          PROVE  CopyInv'
      BY <2>1, LookupSteps, AddStep, OpenedSteps DEF scull_c_open
    <2>2. CASE UNCHANGED vars
      BY <2>2 DEF vars, CopyInv, Types, LockExact, Callers, Looked, OwnDevice, OwnWriters,
                  OneDevicePerTty, Matches, OnList
    <2>3. QED
      BY <2>1, <2>2, OpenedSteps, ModuleSteps DEF Next
  <1>3. QED
    BY <1>1, <1>2, PTL DEF Spec

(* However the first opens from a terminal race, and whatever allocations  *)
(* fail, the list of scull_copy never has two devices for one terminal.    *)
THEOREM OneEach == Spec => []OneDevicePerTty
  <1>1. CopyInv => OneDevicePerTty
    BY DEF CopyInv
  <1>2. QED
    BY <1>1, CopyAlways, PTL

(* Files share a device exactly when their processes share the terminal,   *)
(* and a device holds data from its own terminal only.                     *)
THEOREM CopiesPrivate == Spec => []PrivateCopy
  <1>1. CopyInv => PrivateCopy
    <2> SUFFICES ASSUME CopyInv, NEW p \in Procs, NEW q \in Procs, pc[p] \in FileSteps
                 PROVE  /\ pc[q] \in FileSteps =>
                              (private_data[p] = private_data[q] <=> tty[p] = tty[q])
                        /\ q \in item[private_data[p]].writers => tty[q] = tty[p]
      BY DEF PrivateCopy, FileSteps
    <2>1. /\ private_data[p] \in OnList /\ item[private_data[p]].key = tty[p]
          /\ private_data[p] \in 1 .. Len(item)
      BY OnListType DEF CopyInv, OwnDevice, Matches
    <2>2. ASSUME pc[q] \in FileSteps, tty[p] = tty[q]
          PROVE  private_data[p] = private_data[q]
      <3>1. private_data[q] \in OnList /\ item[private_data[q]].key = tty[q]
        BY <2>2 DEF CopyInv, OwnDevice, Matches
      <3>2. PICK i \in 1 .. Len(scull_c_list), j \in 1 .. Len(scull_c_list) :
              private_data[p] = scull_c_list[i] /\ private_data[q] = scull_c_list[j]
        BY <2>1, <3>1 DEF OnList
      <3>3. i = j
        BY <2>1, <2>2, <3>1, <3>2 DEF CopyInv, OneDevicePerTty
      <3>4. QED
        BY <3>2, <3>3
    <2>3. ASSUME pc[q] \in FileSteps, private_data[p] = private_data[q]
          PROVE  tty[p] = tty[q]
      BY <2>1, <2>3 DEF CopyInv, OwnDevice, Matches
    <2>4. q \in item[private_data[p]].writers => tty[q] = tty[p]
      BY <2>1 DEF CopyInv, OwnWriters
    <2>5. QED
      BY <2>2, <2>3, <2>4
  <1>2. QED
    BY <1>1, CopyAlways, PTL

(* Data leaves a device of scull_copy only in the scull_trim of a          *)
(* write-only open from its own terminal, or with the module.              *)
THEOREM DataPersists == Spec => Persistent
  <1>1. ASSUME CopyInv, [Next]_vars
        PROVE  [\A i \in 1 .. Len(item) :
                   item[i].writers /= {} /\ item'[i].writers = {} =>
                       \/ ~loaded'
                       \/ \E p \in Procs : /\ tty[p] = item[i].key
                                           /\ f_flags[p]
                                           /\ pc[p] /= "open" /\ pc'[p] = "open"]_vars
    <2> SUFFICES ASSUME Next, NEW i \in 1 .. Len(item),
                        item[i].writers # {}, item'[i].writers = {}, loaded'
                 PROVE  \E p \in Procs : /\ tty[p] = item[i].key
                                         /\ f_flags[p]
                                         /\ pc[p] # "open" /\ pc'[p] = "open"
      BY <1>1
    <2>1. item \in Seq(Item) /\ item[i] \in Item /\ item' # item
      BY <1>1, ElementOfSeq DEF CopyInv, Types
    <2>2. ASSUME NEW p \in Procs, scull_c_lookfor_device_add(p)
          PROVE  FALSE
      <3>1. [key |-> tty[p], writers |-> {}] \in Item
        BY <1>1, <2>2 DEF scull_c_lookfor_device_add, CopyInv, Callers, Item
      <3>2. item'[i] = item[i]
        BY <2>1, <2>2, <3>1, AppendProperties DEF scull_c_lookfor_device_add
      <3>3. QED
        BY <3>2
    <2>3. ASSUME NEW p \in Procs, scull_write(p)
          PROVE  FALSE
      <3>1. private_data[p] \in 1 .. Len(item)
        BY <1>1, <2>3, OnListType DEF scull_write, CopyInv, OwnDevice, FileSteps, Matches
      <3>2. item[private_data[p]] \in Item
        BY <1>1, <3>1, ElementOfSeq DEF CopyInv, Types
      <3>3. item'[i] = IF i = private_data[p]
                       THEN [item[i] EXCEPT !.writers = item[i].writers \cup {p}] ELSE item[i]
        <4>1. item' = [item EXCEPT ![private_data[p]] =
                          [item[private_data[p]] EXCEPT !.writers =
                              item[private_data[p]].writers \cup {p}]]
          BY <2>3 DEF scull_write
        <4>2. [item[private_data[p]] EXCEPT !.writers =
                  item[private_data[p]].writers \cup {p}] \in Item
          BY <3>2 DEF Item
        <4>3. QED
          BY <2>1, <3>1, <4>1, <4>2, ExceptSeq
      <3>4. QED
        BY <2>1, <3>3 DEF Item
    <2>4. ASSUME NEW p \in Procs, scull_c_open_trim(p)
          PROVE  /\ tty[p] = item[i].key
                 /\ f_flags[p]
                 /\ pc[p] # "open" /\ pc'[p] = "open"
      <3>1. f_flags[p] /\ item' = scull_trim(item, {private_data[p]})
        <4>1. item' = IF f_flags[p] THEN scull_trim(item, {private_data[p]}) ELSE item
          BY <2>4 DEF scull_c_open_trim
        <4>2. item' # item
          BY <2>1
        <4>3. QED
          BY <4>1, <4>2, Zenon
      <3>2. i = private_data[p]
        <4> DEFINE ids == {private_data[p]}
        <4>1. item' = scull_trim(item, ids)
          BY <3>1, Zenon
        <4> HIDE DEF ids
        <4>2. item'[i] = IF i \in ids THEN [item[i] EXCEPT !.writers = {}] ELSE item[i]
          BY <2>1, <4>1, Trims
        <4>3. i \in ids
          BY <4>2
        <4>4. QED
          BY <4>3 DEF ids
      <3>3. pc[p] = "o_trim" /\ pc'[p] = "open"
        BY <1>1, <2>4 DEF scull_c_open_trim, Goto, CopyInv, Types
      <3>4. tty[p] = item[i].key
        BY <1>1, <3>2, <3>3 DEF CopyInv, OwnDevice, FileSteps, Matches
      <3>5. QED
        BY <3>1, <3>3, <3>4
    <2>5. PICK p \in Procs : \/ scull_c_lookfor_device_add(p) \/ scull_c_open_trim(p)
                             \/ scull_write(p)
      BY <2>1 DEF Next, scull_c_open, OpenCall, spin_lock, scull_c_lookfor_device,
                  scull_c_open_ENOMEM, scull_c_release, scull_access_cleanup, scull_access_init
    <2>6. QED
      BY <2>2, <2>3, <2>4, <2>5
  <1>2. QED
    BY <1>1, CopyAlways, PTL DEF Spec, Persistent

=============================================================================
