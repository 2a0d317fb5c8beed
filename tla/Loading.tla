------------------------------ MODULE Loading ------------------------------
(***************************************************************************)
(* Loading and unloading the modules: the order in which the init          *)
(* functions register and allocate, what they undo when a call fails, and  *)
(* what the exit functions give back, while users open the devices that    *)
(* are already there.                                                      *)
(*                                                                         *)
(* An init function is the sequence of its calls that can fail, an exit    *)
(* function the sequence of what it frees.  A resource is a pair of a kind *)
(* and a number.                                                           *)
(***************************************************************************)
EXTENDS Naturals, Sequences, FiniteSets

CONSTANTS
    Mods,        \* the modules to look at
    nr_devs,     \* scull_nr_devs
    p_nr_devs,   \* scull_p_nr_devs
    a_nr_devs,   \* scull_access_nr_devs; the last is scull_copy
    nr_files     \* the files that jiq or jit makes in /proc

ModuleNames == {"scull", "scullc", "scullp", "globalmem", "completion", "sleepy", "jiq", "jit"}

ASSUME LoadingAssumption ==
    /\ Mods \subseteq ModuleNames
    /\ nr_devs \in Nat \ {0} /\ p_nr_devs \in Nat \ {0}
    /\ a_nr_devs \in Nat \ {0} /\ nr_files \in Nat \ {0}

VARIABLES
    mod,      \* the module
    phase,    \* "init", "live", "exit", "gone", or "refused": insmod failed
    at,       \* the next call of the init or of the exit function
    held,     \* what the module has and has not given back
    failed,   \* the calls of the init function that failed
    open,     \* the devices that users have open
    wild      \* whether memory was used that is not the module's own

vars == <<mod, phase, at, held, failed, open, wild>>

Region   == <<"region", 0>>
Devices  == <<"devices", 0>>
PRegion  == <<"p_region", 0>>
PDevices == <<"p_devices", 0>>
Cache    == <<"scull_cache", 0>>
Item     == <<"scull_listitem", 0>>
Sbuf     == <<"sbuf", 0>>   \* the buffer of a read of jit
Work     == <<"work", 0>>   \* work whose read has returned
Stray    == <<"work", 1>>   \* such work, and the buffer it prints into is freed

(* A call of an init function: what it takes, what the function gives back *)
(* when it fails, and how it goes on then: with an "error", with success   *)
(* ("return"), with the caller ("out"), or regardless ("next").            *)
Call(part, res, undo, then) == [part |-> part, takes |-> res, undo |-> undo, then |-> then]

(* A step of an exit function: what it frees and what it relies on.        *)
Free(frees, touches) == [frees |-> frees, touches |-> touches]

-----------------------------------------------------------------------------
(* The init functions *)

scull_setup_cdev == [i \in 1 .. nr_devs |-> Call("main", <<"cdev", i>>, {Devices, Region}, "return")]

(* res is still 0 where kmalloc, cdev_add or kmem_cache_create fails.      *)
scull_init_devices ==
    <<Call("main", Region, {}, "error"), Call("main", Devices, {Region}, "return")>>
        \o scull_setup_cdev

scull_create_proc ==
    <<Call("proc", <<"scullmem", 0>>, {}, "next"), Call("proc", <<"scullseq", 0>>, {}, "next")>>

(* scull_init does not look at what scull_p_init and scull_access_init     *)
(* return.                                                                 *)
scull_p_init ==
    <<Call("pipe", PRegion, {}, "out"), Call("pipe", PDevices, {PRegion}, "out")>>
        \o [i \in 1 .. p_nr_devs |-> Call("pipe", <<"p_cdev", i>>, {PDevices, PRegion}, "out")]

scull_access_init ==
    [k \in 1 .. 2 * a_nr_devs |->
        IF k % 2 = 1 THEN Call("access", <<"a_region", (k + 1) \div 2>>, {}, "out")
                     ELSE Call("access", <<"a_cdev", k \div 2>>, {}, "next")]

scull_init  == scull_init_devices \o scull_create_proc \o scull_p_init \o scull_access_init
scullc_init == scull_init_devices \o <<Call("main", Cache, {Devices, Region}, "return")>>
scullp_init == scull_init_devices \o <<Call("main", Cache, {Devices, Region}, "return")>>

(* Mutant: the number of the device is kept when there is no memory.       *)
globalmem_init_keeps ==
    <<Call("main", Region, {}, "error"), Call("main", Devices, {}, "error"),
      Call("main", <<"cdev", 1>>, {}, "next")>>

globalmem_init ==
    <<Call("main", Region, {}, "error"), Call("main", Devices, {Region}, "error"),
      Call("main", <<"cdev", 1>>, {}, "next")>>

completion_init ==
    <<Call("main", Region, {}, "error"), Call("main", Devices, {Region}, "error"),
      Call("main", <<"cdev", 1>>, {}, "next")>>

sleepy_init == <<Call("main", Region, {}, "error"), Call("main", <<"cdev", 1>>, {}, "next")>>

jiq_init == [i \in 1 .. nr_files |-> Call("main", <<"file", i>>, {}, "next")]
jit_init == [i \in 1 .. nr_files |-> Call("main", <<"file", i>>, {}, "next")]

InitOf(m) ==
    CASE m = "scull"      -> scull_init
      [] m = "scullc"     -> scullc_init
      [] m = "scullp"     -> scullp_init
      [] m = "globalmem"  -> globalmem_init
      [] m = "completion" -> completion_init
      [] m = "sleepy"     -> sleepy_init
      [] m = "jiq"        -> jiq_init
      [] m = "jit"        -> jit_init

-----------------------------------------------------------------------------
(* The exit functions *)

scull_remove_proc == <<Free({<<"scullmem", 0>>}, {}), Free({<<"scullseq", 0>>}, {})>>

(* Each device is trimmed and its cdev deleted before the array goes.      *)
scull_exit_devices ==
    [i \in 1 .. nr_devs |-> Free({<<"data", i>>, <<"cdev", i>>}, {Devices})]
        \o <<Free({Region}, {}), Free({Devices}, {})>>

scull_p_cleanup ==
    [i \in 1 .. p_nr_devs |-> Free({<<"p_cdev", i>>, <<"p_buffer", i>>}, {PDevices})]
        \o <<Free({PRegion}, {}), Free({PDevices}, {})>>

(* The devices are static.  The loop over the list trims the data of the   *)
(* items and frees no item.                                                *)
scull_access_cleanup ==
    [i \in 1 .. a_nr_devs |-> Free({<<"a_cdev", i>>, <<"a_data", i>>, <<"a_region", i>>}, {})]

(* Mutant: the array of devices goes before the devices.                   *)
scull_exit_early ==
    scull_remove_proc \o <<Free({Region}, {}), Free({Devices}, {})>>
        \o scull_exit_devices \o scull_p_cleanup \o scull_access_cleanup

scull_exit  == scull_remove_proc \o scull_exit_devices \o scull_p_cleanup \o scull_access_cleanup
scullc_exit == scull_exit_devices \o <<Free({Cache}, {})>>
scullp_exit == scull_exit_devices \o <<Free({Cache}, {})>>

globalmem_exit ==
    <<Free({<<"cdev", 1>>}, {Devices}), Free({Devices}, {}), Free({Region}, {})>>

completion_exit ==
    <<Free({<<"cdev", 1>>}, {Devices}), Free({Devices}, {}), Free({Region}, {})>>

sleepy_exit == <<Free({<<"cdev", 1>>}, {}), Free({Region}, {})>>

(* Nothing waits for a work item, a timer or a tasklet.                    *)
jiq_cleanup == [i \in 1 .. nr_files |-> Free({<<"file", i>>}, {})]
jit_cleanup == [i \in 1 .. nr_files |-> Free({<<"file", i>>}, {})]

ExitOf(m) ==
    CASE m = "scull"      -> scull_exit
      [] m = "scullc"     -> scullc_exit
      [] m = "scullp"     -> scullp_exit
      [] m = "globalmem"  -> globalmem_exit
      [] m = "completion" -> completion_exit
      [] m = "sleepy"     -> sleepy_exit
      [] m = "jiq"        -> jiq_cleanup
      [] m = "jit"        -> jit_cleanup

-----------------------------------------------------------------------------
(* The kernel runs the init function, and the exit function of a module    *)
(* that nobody uses.                                                       *)

calls == InitOf(mod)
frees == ExitOf(mod)

(* Where init is after a call: the next one, or past the rest of its part. *)
PastPart(k) ==
    CHOOSE n \in k + 1 .. Len(calls) + 1 :
        /\ \A i \in k .. n - 1 : calls[i].part = calls[k].part
        /\ n <= Len(calls) => calls[n].part /= calls[k].part

InitSucceeds ==
    /\ phase = "init"
    /\ at <= Len(calls)
    /\ held' = held \cup {calls[at].takes}
    /\ at' = at + 1
    /\ UNCHANGED <<mod, phase, failed, open, wild>>

InitFails ==
    /\ phase = "init"
    /\ at <= Len(calls)
    /\ held' = held \ calls[at].undo
    /\ failed' = failed \cup {calls[at].takes}
    /\ CASE calls[at].then = "error"  -> phase' = "refused" /\ UNCHANGED at
         [] calls[at].then = "return" -> phase' = "live" /\ at' = 1
         [] calls[at].then = "out"    -> at' = PastPart(at) /\ UNCHANGED phase
         [] calls[at].then = "next"   -> at' = at + 1 /\ UNCHANGED phase
    /\ UNCHANGED <<mod, open, wild>>

InitReturns ==
    /\ phase = "init"
    /\ at > Len(calls)
    /\ phase' = "live"
    /\ at' = 1
    /\ UNCHANGED <<mod, held, failed, open, wild>>

Rmmod ==
    /\ phase = "live"
    /\ open = {}
    /\ phase' = "exit"
    /\ UNCHANGED <<mod, at, held, failed, open, wild>>

(* scull_trim gives the blocks of a scullc device back to scull_cache.     *)
TrimsBlocks == mod = "scullc" /\ \E r \in frees[at].frees \cap held : r[1] = "data"

ExitStep ==
    /\ phase = "exit"
    /\ ~wild
    /\ at <= Len(frees)
    /\ wild' = \/ ~(frees[at].touches \subseteq held)
               \/ TrimsBlocks /\ Cache \notin held
    /\ held' = held \ frees[at].frees
    /\ at' = at + 1
    /\ UNCHANGED <<mod, phase, failed, open>>

ExitReturns ==
    /\ phase = "exit"
    /\ ~wild
    /\ at > Len(frees)
    /\ phase' = "gone"
    /\ UNCHANGED <<mod, at, held, failed, open, wild>>

-----------------------------------------------------------------------------
(* Users: a device can be opened from its cdev_add on, also while init     *)
(* still runs.                                                             *)

Cdevs == {r \in held : r[1] \in {"cdev", "p_cdev", "a_cdev"}}

(* The memory the cdev lies in; the one of sleepy and those of the access  *)
(* devices are static.                                                     *)
Inside(c) ==
    CASE c[1] = "p_cdev" -> {PDevices}
      [] c[1] = "a_cdev" -> {}
      [] c[1] = "cdev"   -> IF mod = "sleepy" THEN {} ELSE {Devices}

(* What using the device makes it keep: data, a buffer, an item of the     *)
(* list of scull_copy.                                                     *)
Keeps(c) ==
    CASE c[1] = "p_cdev" -> {<<"p_buffer", c[2]>>}
      [] c[1] = "a_cdev" -> {<<"a_data", c[2]>>} \cup (IF c[2] = a_nr_devs THEN {Item} ELSE {})
      [] c[1] = "cdev"   -> IF mod \in {"scull", "scullc", "scullp"} THEN {<<"data", c[2]>>} ELSE {}

(* Bound: one device is open at a time.                                    *)
Open(c) ==
    /\ phase \in {"init", "live"}
    /\ open = {}
    /\ ~wild
    /\ open' = {c}
    /\ wild' = ~(Inside(c) \subseteq held)
    /\ UNCHANGED <<mod, phase, at, held, failed>>

(* A block of scullc comes from scull_cache.                               *)
Use(c) ==
    /\ c \in open
    /\ ~wild
    /\ wild' = \/ ~(Inside(c) \subseteq held)
               \/ mod = "scullc" /\ Cache \notin held
    /\ held' = held \cup Keeps(c)
    /\ UNCHANGED <<mod, phase, at, failed, open>>

(* The last close of a pipe frees its buffer, unless it is interrupted.    *)
Close(c) ==
    /\ c \in open
    /\ open' = open \ {c}
    /\ \/ UNCHANGED held
       \/ c[1] = "p_cdev" /\ held' = held \ Keeps(c)
    /\ UNCHANGED <<mod, phase, at, failed, wild>>

Readable == phase \in {"init", "live"} /\ \E i \in 1 .. nr_files : <<"file", i>> \in held

(* jit frees the buffer of a timer or tasklet read only when the copy to   *)
(* the user fails.                                                         *)
ReadReturns ==
    /\ mod = "jit"
    /\ Readable
    /\ held' = held \cup {Sbuf}
    /\ UNCHANGED <<mod, phase, at, failed, open, wild>>

(* A read of a jiq or jit file that a signal cuts short returns before its *)
(* work item, timer or tasklet has run for the last time; jiq always frees *)
(* the buffer then.                                                        *)
ReadCutShort ==
    /\ mod \in {"jiq", "jit"}
    /\ Readable
    /\ \/ held' = held \cup {Stray}
       \/ mod = "jit" /\ held' = held \cup {Work, Sbuf}
    /\ UNCHANGED <<mod, phase, at, failed, open, wild>>

(* The work prints, with the code of the module, into its buffer.          *)
WorkRuns(w) ==
    /\ w \in held
    /\ held' = held \ {w}
    /\ wild' = (wild \/ w = Stray \/ phase = "gone")
    /\ UNCHANGED <<mod, phase, at, failed, open>>

Init ==
    /\ mod \in Mods
    /\ phase = "init"
    /\ at = 1
    /\ held = {}
    /\ failed = {}
    /\ open = {}
    /\ wild = FALSE

Next ==
    \/ InitSucceeds \/ InitFails \/ InitReturns
    \/ Rmmod \/ ExitStep \/ ExitReturns
    \/ \E c \in Cdevs : Open(c) \/ Use(c) \/ Close(c)
    \/ ReadReturns \/ ReadCutShort \/ \E w \in {Work, Stray} : WorkRuns(w)

Spec == Init /\ [][Next]_vars

-----------------------------------------------------------------------------
(* Properties *)

(* The calls whose failure the init functions hide from the kernel although*)
(* exit relies on what they were to give.                                  *)
Hidden == {calls[k].takes : k \in {i \in 1 .. Len(calls) :
             \/ calls[i].then = "return"
             \/ calls[i].then = "out" /\ calls[i].part = "pipe"}}

(* What a module is known to lose: the items of the list of scull_copy,    *)
(* the buffers of jit, and work nobody cancels.                            *)
Leaks(m) ==
    CASE m = "scull" -> {Item}
      [] m = "jiq"   -> {Stray}
      [] m = "jit"   -> {Sbuf, Work, Stray}
      [] OTHER       -> {}

(* Whatever fails, in whatever order, a module that was refused or that was*)
(* unloaded has given everything back but what it is known to lose.        *)
(* Nothing is claimed of an exit function that touched memory the module   *)
(* does not have: its run ends there.                                      *)
GivesBack == phase \in {"gone", "refused"} => held \subseteq Leaks(mod)

(* No user, no work and no exit function touches memory the module does    *)
(* not have, but for four flaws: a failure init hid, a device of scullc    *)
(* used before its cache is there, work that outlives the module, and work *)
(* that outlives the buffer of a read that a signal cut short.             *)
StaysInside ==
    [][wild' /\ ~wild => \/ failed \cap Hidden /= {}
                         \/ mod = "scullc" /\ phase = "init"
                         \/ mod = "jit" /\ phase = "gone" /\ Work \in held
                         \/ mod \in {"jiq", "jit"} /\ Stray \in held]_vars

=============================================================================
