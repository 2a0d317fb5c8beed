------------------------------ MODULE ScullCopy -----------------------------
(***************************************************************************)
(* The device scull_copy of scull/access.c: every controlling terminal has *)
(* a device of its own, made by the first open from that terminal and kept *)
(* on scull_c_list until the module goes.  A process has at most one file. *)
(*                                                                         *)
(* scull_c_lock guards the list.  The trim of a write-only open comes      *)
(* after the unlock.                                                       *)
(***************************************************************************)
EXTENDS Integers, Sequences

CONSTANTS
    Procs,       \* the processes
    Ttys,        \* the device numbers of the terminals
    tty,         \* the controlling terminal of each process, or Nothing
    Nothing,     \* no terminal, no process, no device
    MaxItems     \* bound: no list item is allocated above this many

ASSUME CopyAssumption ==
    /\ tty \in [Procs -> Ttys \cup {Nothing}]
    /\ Nothing \notin Ttys \cup Procs \cup Nat
    /\ MaxItems \in Nat

VARIABLES
    item,          \* every scull_listitem allocated: its key (the terminal) and its
                   \* writers, who has written to it since it was last trimmed
    scull_c_list,  \* the items on the list, as indices of item, newest first
    scull_c_lock,  \* the process that holds the spinlock, or Nothing
    private_data,  \* the item behind each process's file, or Nothing
    f_flags,       \* whether each process's file is write-only
    loaded,        \* whether the module is loaded
    pc             \* the next step of each process

vars == <<item, scull_c_list, scull_c_lock, private_data, f_flags, loaded, pc>>

Goto(p, step) == pc' = [pc EXCEPT ![p] = step]

OnList == {scull_c_list[i] : i \in 1 .. Len(scull_c_list)}

scull_trim(list, ids) ==
    [i \in 1 .. Len(list) |-> IF i \in ids THEN [list[i] EXCEPT !.writers = {}]
                              ELSE list[i]]

-----------------------------------------------------------------------------
(* scull_c_open.  A process without a terminal gets EINVAL.                *)
OpenCall(p) ==
    /\ loaded
    /\ pc[p] = "closed"
    /\ tty[p] /= Nothing
    /\ \E wronly \in BOOLEAN : f_flags' = [f_flags EXCEPT ![p] = wronly]
    /\ Goto(p, "o_lock")
    /\ UNCHANGED <<item, scull_c_list, scull_c_lock, private_data, loaded>>

(* Mutant: the lock is not waited for.                                     *)
spin_lock_none(p) ==
    /\ pc[p] = "o_lock"
    /\ Goto(p, "o_look")
    /\ UNCHANGED <<item, scull_c_list, scull_c_lock, private_data, f_flags, loaded>>

spin_lock(p) ==
    /\ pc[p] = "o_lock"
    /\ scull_c_lock = Nothing
    /\ scull_c_lock' = p
    /\ Goto(p, "o_look")
    /\ UNCHANGED <<item, scull_c_list, private_data, f_flags, loaded>>

spin_unlock == scull_c_lock' = Nothing

(* Mutant: the key is not compared.                                        *)
Matches_any(p) == OnList

(* The items of the list that list_for_each_entry stops at.                *)
Matches(p) == {i \in OnList : item[i].key = tty[p]}

scull_c_lookfor_device(p) ==
    /\ pc[p] = "o_look"
    /\ IF Matches(p) /= {}
       THEN /\ \E i \in Matches(p) : private_data' = [private_data EXCEPT ![p] = i]
            /\ spin_unlock
            /\ Goto(p, "o_trim")
       ELSE /\ Goto(p, "o_alloc")
            /\ UNCHANGED <<scull_c_lock, private_data>>
    /\ UNCHANGED <<item, scull_c_list, f_flags, loaded>>

scull_c_lookfor_device_add(p) ==
    LET new == Len(item) + 1 IN
    /\ pc[p] = "o_alloc"
    /\ new <= MaxItems
    /\ item' = Append(item, [key |-> tty[p], writers |-> {}])
    /\ scull_c_list' = <<new>> \o scull_c_list
    /\ private_data' = [private_data EXCEPT ![p] = new]
    /\ spin_unlock
    /\ Goto(p, "o_trim")
    /\ UNCHANGED <<f_flags, loaded>>

scull_c_open_ENOMEM(p) ==
    /\ pc[p] = "o_alloc"
    /\ spin_unlock
    /\ Goto(p, "closed")
    /\ UNCHANGED <<item, scull_c_list, private_data, f_flags, loaded>>

(* Mutant: every open trims.                                               *)
scull_c_open_trim_always(p) ==
    /\ pc[p] = "o_trim"
    /\ item' = scull_trim(item, {private_data[p]})
    /\ Goto(p, "open")
    /\ UNCHANGED <<scull_c_list, scull_c_lock, private_data, f_flags, loaded>>

scull_c_open_trim(p) ==
    /\ pc[p] = "o_trim"
    /\ item' = IF f_flags[p] THEN scull_trim(item, {private_data[p]}) ELSE item
    /\ Goto(p, "open")
    /\ UNCHANGED <<scull_c_list, scull_c_lock, private_data, f_flags, loaded>>

scull_c_open(p) ==
    \/ OpenCall(p)
    \/ spin_lock(p)
    \/ scull_c_lookfor_device(p)
    \/ scull_c_lookfor_device_add(p)
    \/ scull_c_open_ENOMEM(p)
    \/ scull_c_open_trim(p)

(* The device stays on the list when its file is closed.                   *)
scull_c_release(p) ==
    /\ pc[p] = "open"
    /\ private_data' = [private_data EXCEPT ![p] = Nothing]
    /\ Goto(p, "closed")
    /\ UNCHANGED <<item, scull_c_list, scull_c_lock, f_flags, loaded>>

(* scull_write of module ScullMem, as far as this device can tell.         *)
scull_write(p) ==
    /\ pc[p] = "open"
    /\ item' = [item EXCEPT ![private_data[p]].writers = @ \cup {p}]
    /\ UNCHANGED <<scull_c_list, scull_c_lock, private_data, f_flags, loaded, pc>>

-----------------------------------------------------------------------------
(* The module can go when no file is open or being opened: .owner counts   *)
(* them.  scull_access_cleanup trims the device of every item.             *)
scull_access_cleanup ==
    /\ loaded
    /\ \A p \in Procs : pc[p] = "closed"
    /\ item' = scull_trim(item, OnList)
    /\ loaded' = FALSE
    /\ UNCHANGED <<scull_c_list, scull_c_lock, private_data, f_flags, pc>>

(* Loading the module again starts with an empty list.                     *)
scull_access_init ==
    /\ ~loaded
    /\ loaded' = TRUE
    /\ scull_c_list' = << >>
    /\ UNCHANGED <<item, scull_c_lock, private_data, f_flags, pc>>

Init ==
    /\ item = << >>
    /\ scull_c_list = << >>
    /\ scull_c_lock = Nothing
    /\ private_data = [p \in Procs |-> Nothing]
    /\ f_flags = [p \in Procs |-> FALSE]
    /\ loaded = TRUE
    /\ pc = [p \in Procs |-> "closed"]

Next ==
    \/ scull_access_cleanup
    \/ scull_access_init
    \/ \E p \in Procs :
          \/ scull_c_open(p)
          \/ scull_c_release(p)
          \/ scull_write(p)

Spec == Init /\ [][Next]_vars

-----------------------------------------------------------------------------
(* Properties *)

(* The list has one device for a terminal, although the first opens from   *)
(* a terminal may race: what scull_c_lookfor_device did not find is not    *)
(* there when it adds it.                                                  *)
OneDevicePerTty ==
    \A i, j \in 1 .. Len(scull_c_list) :
        item[scull_c_list[i]].key = item[scull_c_list[j]].key => i = j

(* Two processes share a device exactly when they share the terminal, and  *)
(* what a process finds in its device was written from its own terminal,   *)
(* whatever opens, closes and allocation failures went before.             *)
PrivateCopy ==
    \A p, q \in Procs :
        pc[p] \in {"o_trim", "open"} =>
            /\ pc[q] \in {"o_trim", "open"} =>
                  (private_data[p] = private_data[q] <=> tty[p] = tty[q])
            /\ q \in item[private_data[p]].writers => tty[q] = tty[p]

(* The data of a device outlives its files: it goes only in the trim of a  *)
(* write-only open from the same terminal, or when the module goes.        *)
Persistent ==
    [][\A i \in 1 .. Len(item) :
          item[i].writers /= {} /\ item'[i].writers = {} =>
              \/ ~loaded'
              \/ \E p \in Procs : /\ tty[p] = item[i].key
                                  /\ f_flags[p]
                                  /\ pc[p] /= "open" /\ pc'[p] = "open"]_vars

=============================================================================
