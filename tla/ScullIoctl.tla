----------------------------- MODULE ScullIoctl -----------------------------
(***************************************************************************)
(* scull_ioctl of common_scull/base_scull.c: the commands that read and    *)
(* change scull_quantum and scull_qset_n, the geometry for the next trim.  *)
(* No lock is taken, so each load and each store of a parameter is a step. *)
(***************************************************************************)
EXTENDS Integers

CONSTANTS
    Procs,       \* the processes
    Admins,      \* those that may have CAP_SYS_ADMIN when they call
    Values,      \* the values the processes pass
    QUANTUM_SIZE, QSET_SIZE  \* the defaults

Params == {"quantum", "qset"}
Ops    == {"Reset", "Set", "Tell", "Get", "Query", "eXchange", "sHift", "unknown"}

Default == [k \in Params |-> IF k = "quantum" THEN QUANTUM_SIZE ELSE QSET_SIZE]

VARIABLES
    param,     \* scull_quantum and scull_qset_n
    cmd,       \* the command of each process: operation, parameter, capability
    arg,       \* the number it passes, or the int its pointer points to
    tmp,       \* the local variable tmp
    err,       \* the error the last call ended with, or "none"
    ret,       \* the number it gave the caller
    old,       \* history: the number that the store of each call replaced
    raced,     \* history: the calls whose parameter another one stored to after they loaded it
    pc         \* the next step of each process

vars == <<param, cmd, arg, tmp, err, ret, old, raced, pc>>

NoCmd == [op |-> "unknown", param |-> "quantum", cap |-> FALSE]

Is(p, op, step) == pc[p] = step /\ cmd[p].op = op

(* The local variables of the call are gone.                               *)
Finish(p, error, number) ==
    /\ pc' = [pc EXCEPT ![p] = "idle"]
    /\ err' = [err EXCEPT ![p] = error]
    /\ ret' = [ret EXCEPT ![p] = number]
    /\ cmd' = [cmd EXCEPT ![p] = NoCmd]
    /\ arg' = [arg EXCEPT ![p] = 0]
    /\ tmp' = [tmp EXCEPT ![p] = 0]

Fail(p, error) == Finish(p, error, 0)

Succeed(p, number) == Finish(p, "none", number)

Continue(p, step) ==
    /\ pc' = [pc EXCEPT ![p] = step]
    /\ UNCHANGED <<cmd, arg, err, ret>>

(* One store.  What it replaced is noted for p, and that it happened for   *)
(* the calls which have loaded the parameter and not yet stored to it.     *)
StoreTo(p, k, value) ==
    /\ param' = [param EXCEPT ![k] = value]
    /\ old' = [old EXCEPT ![p] = param[k]]
    /\ raced' = raced \cup {q \in Procs \ {p} : pc[q] = "store" /\ cmd[q].param = k}

Store(p, value) == StoreTo(p, cmd[p].param, value)

NoStore == UNCHANGED <<param, old, raced>>

-----------------------------------------------------------------------------
(* A process with CAP_SYS_ADMIN may have dropped it for this call.         *)
IoctlCall(p) ==
    /\ pc[p] = "idle"
    /\ \E op \in Ops, k \in Params, v \in Values, c \in BOOLEAN :
          /\ c => p \in Admins
          /\ cmd' = [cmd EXCEPT ![p] = [op |-> op, param |-> k, cap |-> c]]
          /\ arg' = [arg EXCEPT ![p] = v]
    /\ pc' = [pc EXCEPT ![p] = "start"]
    /\ err' = [err EXCEPT ![p] = "none"]
    /\ ret' = [ret EXCEPT ![p] = 0]
    /\ old' = [old EXCEPT ![p] = 0]
    /\ raced' = raced \ {p}
    /\ UNCHANGED <<param, tmp>>

(* access_ok refuses the pointer; or the command is not one of scull's.    *)
Refused(p) ==
    /\ pc[p] = "start"
    /\ \/ Fail(p, "EFAULT")
       \/ cmd[p].op = "unknown" /\ Fail(p, "ENOTTY")
    /\ NoStore

(* Set, Tell, eXchange and sHift want CAP_SYS_ADMIN; Reset does not.       *)
NotPermitted(p) ==
    /\ pc[p] = "start"
    /\ cmd[p].op \in {"Set", "Tell", "eXchange", "sHift"}
    /\ ~cmd[p].cap
    /\ Fail(p, "EPERM")
    /\ NoStore

SCULL_IOCRESET(p) ==
    \/ /\ Is(p, "Reset", "start")
       /\ StoreTo(p, "quantum", QUANTUM_SIZE)
       /\ Continue(p, "second")
       /\ UNCHANGED tmp
    \/ /\ Is(p, "Reset", "second")
       /\ StoreTo(p, "qset", QSET_SIZE)
       /\ Succeed(p, 0)

(* __get_user(x, ptr): x becomes the value, or zero when the access faults. *)
SCULL_IOCS(p) ==
    /\ Is(p, "Set", "start")
    /\ cmd[p].cap
    /\ \/ Store(p, arg[p]) /\ Succeed(p, 0)
       \/ Store(p, 0) /\ Fail(p, "EFAULT")

SCULL_IOCT(p) ==
    /\ Is(p, "Tell", "start")
    /\ cmd[p].cap
    /\ Store(p, arg[p])
    /\ Succeed(p, 0)

SCULL_IOCG(p) ==
    /\ Is(p, "Get", "start")
    /\ Succeed(p, param[cmd[p].param]) \/ Fail(p, "EFAULT")
    /\ NoStore

SCULL_IOCQ(p) ==
    /\ Is(p, "Query", "start")
    /\ Succeed(p, param[cmd[p].param])
    /\ NoStore

(* Mutant: the capability is not asked for.                                *)
TakeTmp_anyone(p) ==
    /\ pc[p] = "start"
    /\ cmd[p].op \in {"eXchange", "sHift"}
    /\ tmp' = [tmp EXCEPT ![p] = param[cmd[p].param]]
    /\ Continue(p, "store")
    /\ NoStore

(* eXchange and sHift load the parameter in one step and store in the next. *)
TakeTmp(p) ==
    /\ pc[p] = "start"
    /\ cmd[p].op \in {"eXchange", "sHift"}
    /\ cmd[p].cap
    /\ tmp' = [tmp EXCEPT ![p] = param[cmd[p].param]]
    /\ Continue(p, "store")
    /\ NoStore

(* The __get_user of an exchange, and then its __put_user: of tmp for the  *)
(* quantum, of the parameter itself, loaded again, for the qset.           *)
SCULL_IOCX_get(p) ==
    /\ Is(p, "eXchange", "store")
    /\ \/ /\ Store(p, arg[p])
          /\ Continue(p, "put")
          /\ UNCHANGED tmp
       \/ /\ Store(p, 0)
          /\ Fail(p, "EFAULT")

SCULL_IOCX_put(p) ==
    /\ Is(p, "eXchange", "put")
    /\ \/ Succeed(p, IF cmd[p].param = "quantum" THEN tmp[p] ELSE param["qset"])
       \/ Fail(p, "EFAULT")
    /\ NoStore

(* Mutant: the number returned is the new one.                             *)
SCULL_IOCH_new(p) ==
    /\ Is(p, "sHift", "store")
    /\ Store(p, arg[p])
    /\ Succeed(p, arg[p])

SCULL_IOCH(p) ==
    /\ Is(p, "sHift", "store")
    /\ Store(p, arg[p])
    /\ Succeed(p, tmp[p])

Init ==
    /\ param = Default
    /\ cmd = [p \in Procs |-> NoCmd]
    /\ arg = [p \in Procs |-> 0]
    /\ tmp = [p \in Procs |-> 0]
    /\ err = [p \in Procs |-> "none"]
    /\ ret = [p \in Procs |-> 0]
    /\ old = [p \in Procs |-> 0]
    /\ raced = {}
    /\ pc = [p \in Procs |-> "idle"]

scull_ioctl(p) ==
    \/ IoctlCall(p)
    \/ Refused(p)
    \/ NotPermitted(p)
    \/ SCULL_IOCRESET(p)
    \/ SCULL_IOCS(p)
    \/ SCULL_IOCT(p)
    \/ SCULL_IOCG(p)
    \/ SCULL_IOCQ(p)
    \/ TakeTmp(p)
    \/ SCULL_IOCX_get(p)
    \/ SCULL_IOCX_put(p)
    \/ SCULL_IOCH(p)

Next == \E p \in Procs : scull_ioctl(p)

Spec == Init /\ [][Next]_vars

-----------------------------------------------------------------------------
(* Properties *)

(* The calls that end well and were to give back the old number.           *)
Swapped(p, k) ==
    /\ pc[p] /= "idle" /\ pc'[p] = "idle" /\ err'[p] = "none"
    /\ cmd[p].op \in {"eXchange", "sHift"} /\ cmd[p].param = k

(* An eXchange of the quantum and a sHift give the caller the number that  *)
(* their store replaced, through the unlocked load, store and copy to the  *)
(* user, unless another process stored to the parameter after their load.  *)
LostOnlyByRace ==
    [][\A p \in Procs, k \in Params :
          /\ Swapped(p, k)
          /\ p \notin raced'
          /\ cmd[p].op = "sHift" \/ k = "quantum"
          => ret'[p] = old'[p]]_vars

(* A parameter that differs from its default was put there by a call with  *)
(* CAP_SYS_ADMIN: everybody may reset both, in two stores, and a process   *)
(* that lacks the capability cannot change either in any other way, also   *)
(* beside a privileged one that is half through its own command.           *)
OnlyAdminsTune ==
    [][\A k \in Params :
          param'[k] /= param[k] =>
             \/ param'[k] = Default[k]
             \/ \E p \in Admins : cmd[p].cap /\ pc'[p] /= pc[p]]_vars

=============================================================================
