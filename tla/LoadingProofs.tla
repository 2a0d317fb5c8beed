--------------------------- MODULE LoadingProofs ---------------------------
(* Proofs about Loading, for any number of devices of each kind.           *)
EXTENDS Loading, SequenceTheorems, TLAPS

-----------------------------------------------------------------------------
(* What a module can own, what its init function does and what its exit    *)
(* function does, call by call.                                            *)

Scullish    == {"scull", "scullc", "scullp"}
UsesDevices == Scullish \cup {"globalmem", "completion"}

Numbered(kinds, n) == {<<kind, i>> : kind \in kinds, i \in 1 .. n}

Resources(m) ==
    CASE m = "scull" -> {Region, Devices, PRegion, PDevices, <<"scullmem", 0>>, <<"scullseq", 0>>}
                            \cup Numbered({"cdev", "data"}, nr_devs)
                            \cup Numbered({"p_cdev", "p_buffer"}, p_nr_devs)
                            \cup Numbered({"a_cdev", "a_data", "a_region"}, a_nr_devs)
      [] m \in {"scullc", "scullp"} -> {Region, Devices, Cache}
                            \cup Numbered({"cdev", "data"}, nr_devs)
      [] m \in {"globalmem", "completion"} -> {Region, Devices, <<"cdev", 1>>}
      [] m = "sleepy" -> {Region, <<"cdev", 1>>}
      [] m \in {"jiq", "jit"} -> Numbered({"file"}, nr_files)

(* Where scull_p_init allocates the pipe devices.                          *)
PAlloc == nr_devs + 6

(* A call whose failure init hides, told by the call and by what it takes. *)
Hides(c) == c.then = "return" \/ (c.then = "out" /\ c.part = "pipe")

HiddenKinds == {"devices", "cdev", "scull_cache", "p_region", "p_devices", "p_cdev"}

CallFacts(m, k, c) ==
    /\ c.takes \in Resources(m)
    /\ c.then \in {"error", "return", "out", "next"}
    /\ Hides(c) <=> m \in Scullish /\ c.takes[1] \in HiddenKinds
    /\ m \in UsesDevices /\ k = 1 => c.then = "error" /\ c.takes = Region /\ c.undo = {}
    /\ c.then = "error" => \/ k = 1 /\ c.undo = {}
                           \/ k = 2 /\ c.undo = {Region} /\ m \in UsesDevices
    /\ c.then = "return" => /\ m \in Scullish
                            /\ k > 1
                            /\ c.undo \subseteq {Devices, Region}
                            /\ k > 2 => Devices \in c.undo
    /\ c.then = "next" => c.undo = {}
    /\ c.then = "out" => m = "scull" /\ c.part \in {"pipe", "access"}
    /\ c.then = "out" => IF c.part = "pipe" THEN c.undo \subseteq {PDevices, PRegion}
                                            ELSE c.undo = {}
    /\ c.then = "out" /\ c.part = "pipe" /\ k > PAlloc => PDevices \in c.undo
    /\ c.takes = Devices <=> m \in UsesDevices /\ k = 2
    /\ m \in {"globalmem", "completion"} /\ k = 2 => c.then = "error"
    /\ c.takes = PDevices <=> m = "scull" /\ k = PAlloc
    /\ c.takes[1] = "p_cdev" => k > PAlloc
    /\ m = "scull" /\ k \in {PAlloc - 1, PAlloc} => c.part = "pipe" /\ c.then = "out"
    /\ m = "scull" => (c.part = "pipe" <=> k \in PAlloc - 1 .. PAlloc + p_nr_devs)
    /\ m = "scull" => (c.part = "access" <=> k > PAlloc + p_nr_devs)
    /\ c.part \in {"main", "proc", "pipe", "access"}

InitFacts(m) ==
    /\ Len(InitOf(m)) \in Nat
    /\ m \in UsesDevices => Len(InitOf(m)) >= 2
    /\ m \in {"scullc", "scullp"} =>
         Len(InitOf(m)) > 2 /\ InitOf(m)[Len(InitOf(m))].takes = Cache
    /\ m = "scull" => Len(InitOf(m)) > PAlloc + p_nr_devs
    /\ \A k \in 1 .. Len(InitOf(m)) : CallFacts(m, k, InitOf(m)[k])

(* Where the exit functions free the arrays, and where they first use one. *)
DevFree(m) == CASE m = "scull" -> nr_devs + 4
                [] m \in {"scullc", "scullp"} -> nr_devs + 2
                [] OTHER -> 2
PFree == nr_devs + p_nr_devs + 6
FirstDev(m) == IF m = "scull" THEN 3 ELSE 1
FirstPipe == nr_devs + 5

FreeFacts(m, k, f) ==
    /\ f.touches \subseteq {Devices, PDevices}
    /\ Devices \in f.touches => m \in UsesDevices /\ k < DevFree(m)
    /\ PDevices \in f.touches => m = "scull" /\ k < PFree
    /\ Devices \in f.frees => k = DevFree(m)
    /\ PDevices \in f.frees => k = PFree
    /\ Cache \in f.frees => k = Len(ExitOf(m))
    /\ m \in Scullish /\ k = FirstDev(m) => Devices \in f.touches
    /\ m = "scull" /\ k = FirstPipe => PDevices \in f.touches

ExitFacts(m) ==
    /\ Len(ExitOf(m)) \in Nat
    /\ m \in Scullish => FirstDev(m) <= Len(ExitOf(m))
    /\ m = "scull" => FirstPipe <= Len(ExitOf(m))
    /\ \A k \in 1 .. Len(ExitOf(m)) : FreeFacts(m, k, ExitOf(m)[k])
    /\ \A r \in Resources(m) : \E k \in 1 .. Len(ExitOf(m)) : r \in ExitOf(m)[k].frees

-----------------------------------------------------------------------------
(* The inductive invariant.                                                *)

Phases == {"init", "live", "exit", "gone", "refused"}

Places ==
    /\ mod \in ModuleNames
    /\ phase \in Phases
    /\ phase = "init" => at \in 1 .. Len(calls) + 1
    /\ phase = "live" => at = 1
    /\ phase = "exit" => at \in 1 .. Len(frees) + 1 /\ open = {}
    /\ phase = "gone" => at = Len(frees) + 1

(* All that a module has is on the list of what exit frees, but for the    *)
(* items of scull_copy, for buffers of jit and for work.                   *)
Owned == held \subseteq Resources(mod) \cup Leaks(mod)

(* Init has nothing before its first call, no memory for the devices and   *)
(* no cdev before its second, and nothing of the pipes before PAlloc.      *)
Begun ==
    phase = "init" =>
        /\ at = 1 => held = {} /\ failed = {}
        /\ at = 2 /\ mod \in UsesDevices => held = {Region} /\ failed = {}
        /\ mod = "scull" /\ at <= PAlloc => \A r \in held : r[1] \notin {"p_cdev", "p_devices"}

Refused == phase = "refused" => held = {} /\ failed \cap Hidden = {}

(* What exit has passed it has freed.                                      *)
Passed ==
    phase \in {"exit", "gone"} => \A k \in 1 .. at - 1 : held \cap frees[k].frees = {}

(* Without a hidden failure the arrays and the cache are there until exit  *)
(* frees them.                                                             *)
Sound ==
    failed \cap Hidden = {} =>
        /\ mod \in UsesDevices /\ (\/ phase = "init" /\ at > 2
                                   \/ phase = "live"
                                   \/ phase = "exit" /\ at <= DevFree(mod)) => Devices \in held
        /\ mod = "scull" /\ (\/ phase = "init" /\ at > PAlloc
                             \/ phase = "live"
                             \/ phase = "exit" /\ at <= PFree) => PDevices \in held
        /\ mod = "scullc" /\ (\/ phase = "init" /\ at > Len(calls)
                              \/ phase = "live"
                              \/ phase = "exit" /\ at <= Len(frees)) => Cache \in held

(* After a hidden one an array is missing, and exit does not get past the  *)
(* first step that uses it.                                                *)
Doomed ==
    failed \cap Hidden /= {} =>
        /\ mod \in Scullish
        /\ \/ /\ phase \in {"live", "exit"}
              /\ Devices \notin held
              /\ phase = "exit" => wild \/ at <= FirstDev(mod)
           \/ /\ mod = "scull"
              /\ phase \in {"init", "live", "exit"}
              /\ PDevices \notin held
              /\ phase = "init" => at > PAlloc
              /\ phase = "exit" => wild \/ at <= FirstPipe

LoadInv == Places /\ Owned /\ Begun /\ Refused /\ Passed /\ Sound /\ Doomed

-----------------------------------------------------------------------------
(* The init and exit functions have the shapes above.                      *)

(* s is a sequence of n elements.                                          *)
IsSeq(s, n) == n \in Nat /\ s = [i \in 1 .. n |-> s[i]]

LEMMA SeqLen ==
    ASSUME NEW s, NEW n, IsSeq(s, n)
    PROVE  /\ s \in Seq({s[i] : i \in 1 .. n})
           /\ Len(s) = n /\ n \in Nat /\ DOMAIN s = 1 .. n
  <1>1. s \in [1 .. n -> {s[i] : i \in 1 .. n}] /\ n \in Nat
    BY DEF IsSeq
  <1>2. QED
    BY <1>1

(* u is s with its n elements followed by t with its k.                    *)
Joined(u, s, n, t, k) ==
    /\ IsSeq(u, n + k)
    /\ \A i \in 1 .. n : u[i] = s[i]
    /\ \A i \in 1 .. k : u[n + i] = t[i]

LEMMA Concat ==
    ASSUME NEW s, NEW n, NEW t, NEW k, IsSeq(s, n), IsSeq(t, k)
    PROVE  Joined(s \o t, s, n, t, k)
  <1>1. PICK S : S = {s[i] : i \in 1 .. n} \cup {t[i] : i \in 1 .. k}
    OBVIOUS
  <1>2. n \in Nat /\ k \in Nat /\ s \in [1 .. n -> S] /\ t \in [1 .. k -> S]
    BY <1>1 DEF IsSeq
  <1>3. s \in Seq(S) /\ t \in Seq(S) /\ Len(s) = n /\ Len(t) = k
    BY <1>2
  <1>4. PICK u : u = s \o t
    OBVIOUS
  <1>5. /\ u \in Seq(S) /\ Len(u) = n + k
        /\ \A i \in 1 .. n + k : u[i] = IF i <= n THEN s[i] ELSE t[i - n]
    <2>1. /\ s \o t \in Seq(S) /\ Len(s \o t) = Len(s) + Len(t)
          /\ \A i \in 1 .. Len(s) + Len(t) :
               (s \o t)[i] = IF i <= Len(s) THEN s[i] ELSE t[i - Len(s)]
      BY <1>3, ConcatProperties
    <2>2. QED
      BY <1>3, <1>4, <2>1
  <1>6. u \in [1 .. n + k -> S]
    BY <1>5, LenProperties
  <1>7. ASSUME NEW i \in 1 .. k
        PROVE  u[n + i] = t[i]
    <2>1. PICK j : j = n + i
      OBVIOUS
    <2>2. j \in 1 .. n + k /\ ~(j <= n) /\ j - n = i
      BY <1>2, <2>1
    <2>3. u[j] = IF j <= n THEN s[j] ELSE t[j - n]
      BY <1>5, <2>2
    <2>4. QED
      BY <2>1, <2>2, <2>3
  <1>8. \A i \in 1 .. n : u[i] = s[i]
    BY <1>2, <1>5
  <1>9. n + k \in Nat /\ u = [i \in 1 .. n + k |-> u[i]]
    BY <1>2, <1>6
  <1>10. QED
    BY <1>4, <1>7, <1>8, <1>9 DEF IsSeq, Joined

LEMMA Counts == nr_devs \in Nat \ {0} /\ p_nr_devs \in Nat \ {0} /\ a_nr_devs \in Nat \ {0}
                   /\ nr_files \in Nat \ {0}
  BY LoadingAssumption

LEMMA Pair ==
    ASSUME NEW a, NEW b
    PROVE  IsSeq(<<a, b>>, 2) /\ <<a, b>>[1] = a /\ <<a, b>>[2] = b
  BY DEF IsSeq

LEMMA DevicesShape ==
    /\ IsSeq(scull_init_devices, 2 + nr_devs)
    /\ scull_init_devices[1] = Call("main", Region, {}, "error")
    /\ scull_init_devices[2] = Call("main", Devices, {Region}, "return")
    /\ \A i \in 1 .. nr_devs : scull_init_devices[2 + i] =
          Call("main", <<"cdev", i>>, {Devices, Region}, "return")
  <1>1. PICK a, b : /\ a = Call("main", Region, {}, "error")
                    /\ b = Call("main", Devices, {Region}, "return")
    OBVIOUS
  <1>2. PICK s, n : s = <<a, b>> /\ n = 2
    OBVIOUS
  <1>3. IsSeq(s, n) /\ s[1] = a /\ s[2] = b
    BY <1>2, Pair
  <1>4. PICK t, k : t = scull_setup_cdev /\ k = nr_devs
    OBVIOUS
  <1>5. IsSeq(t, k)
    BY <1>4, Counts DEF IsSeq, scull_setup_cdev
  <1>6. Joined(s \o t, s, n, t, k)
    BY <1>3, <1>5, Concat
  <1>7. scull_init_devices = s \o t
    BY <1>1, <1>2, <1>4 DEF scull_init_devices
  <1>8. \A i \in 1 .. k : t[i] = Call("main", <<"cdev", i>>, {Devices, Region}, "return")
    BY <1>4 DEF scull_setup_cdev
  <1>9. 1 \in 1 .. n /\ 2 \in 1 .. n /\ n = 2
    BY <1>2
  <1>10. QED
    BY <1>1, <1>3, <1>4, <1>6, <1>7, <1>8, <1>9 DEF Joined

LEMMA Single ==
    ASSUME NEW a
    PROVE  IsSeq(<<a>>, 1) /\ <<a>>[1] = a
  BY DEF IsSeq

(* u is a, b, c and d, one after the other.                                *)
Joined4(u, a, na, b, nb, c, nc, d, nd) ==
    /\ IsSeq(u, na + nb + nc + nd)
    /\ \A i \in 1 .. na : u[i] = a[i]
    /\ \A i \in 1 .. nb : u[na + i] = b[i]
    /\ \A i \in 1 .. nc : u[na + nb + i] = c[i]
    /\ \A i \in 1 .. nd : u[na + nb + nc + i] = d[i]

LEMMA Concat4 ==
    ASSUME NEW a, NEW na, NEW b, NEW nb, NEW c, NEW nc, NEW d, NEW nd,
           IsSeq(a, na), IsSeq(b, nb), IsSeq(c, nc), IsSeq(d, nd)
    PROVE  Joined4(a \o b \o c \o d, a, na, b, nb, c, nc, d, nd)
  <1>1. na \in Nat /\ nb \in Nat /\ nc \in Nat /\ nd \in Nat
    BY DEF IsSeq
  <1>2. PICK u, nu : u = a \o b /\ nu = na + nb
    OBVIOUS
  <1>3. Joined(u, a, na, b, nb) /\ IsSeq(u, nu)
    <2>1. Joined(u, a, na, b, nb)
      BY <1>2, Concat
    <2>2. QED
      BY <1>2, <2>1 DEF Joined
  <1>4. PICK v, nv : v = u \o c /\ nv = nu + nc
    OBVIOUS
  <1>5. Joined(v, u, nu, c, nc) /\ IsSeq(v, nv)
    <2>1. Joined(v, u, nu, c, nc)
      BY <1>3, <1>4, Concat
    <2>2. QED
      BY <1>4, <2>1 DEF Joined
  <1>6. PICK w : w = v \o d
    OBVIOUS
  <1>7. Joined(w, v, nv, d, nd)
    BY <1>5, <1>6, Concat
  <1>8. ASSUME NEW i \in 1 .. na
        PROVE  w[i] = a[i]
    <2>1. i \in 1 .. nu /\ i \in 1 .. nv
      BY <1>1, <1>2, <1>4
    <2>2. w[i] = v[i] /\ v[i] = u[i] /\ u[i] = a[i]
      BY <1>3, <1>5, <1>7, <2>1 DEF Joined
    <2>3. QED
      BY <2>2
  <1>9. ASSUME NEW i \in 1 .. nb
        PROVE  w[na + i] = b[i]
    <2>1. PICK j : j = na + i
      OBVIOUS
    <2>2. j \in 1 .. nu /\ j \in 1 .. nv
      BY <1>1, <1>2, <1>4, <2>1
    <2>3. w[j] = v[j] /\ v[j] = u[j]
      BY <1>5, <1>7, <2>2 DEF Joined
    <2>4. u[na + i] = b[i]
      BY <1>3 DEF Joined
    <2>5. QED
      BY <2>1, <2>3, <2>4
  <1>10. ASSUME NEW i \in 1 .. nc
         PROVE  w[nu + i] = c[i]
    <2>1. PICK j : j = nu + i
      OBVIOUS
    <2>2. j \in 1 .. nv
      BY <1>1, <1>2, <1>4, <2>1
    <2>3. w[j] = v[j]
      BY <1>7, <2>2 DEF Joined
    <2>4. v[nu + i] = c[i]
      BY <1>5 DEF Joined
    <2>5. QED
      BY <2>1, <2>3, <2>4
  <1>11. \A i \in 1 .. nd : w[nv + i] = d[i]
    BY <1>7 DEF Joined
  <1>12. IsSeq(w, nv + nd)
    BY <1>7 DEF Joined
  <1>13. w = a \o b \o c \o d /\ nu = na + nb /\ nv = na + nb + nc
    BY <1>2, <1>4, <1>6
  <1>14. Joined4(w, a, na, b, nb, c, nc, d, nd)
    BY <1>8, <1>9, <1>10, <1>11, <1>12, <1>13 DEF Joined4
  <1>15. QED
    BY <1>13, <1>14

LEMMA PipesShape ==
    /\ IsSeq(scull_p_init, 2 + p_nr_devs)
    /\ scull_p_init[1] = Call("pipe", PRegion, {}, "out")
    /\ scull_p_init[2] = Call("pipe", PDevices, {PRegion}, "out")
    /\ \A i \in 1 .. p_nr_devs : scull_p_init[2 + i] =
          Call("pipe", <<"p_cdev", i>>, {PDevices, PRegion}, "out")
  <1>1. PICK a, b : /\ a = Call("pipe", PRegion, {}, "out")
                    /\ b = Call("pipe", PDevices, {PRegion}, "out")
    OBVIOUS
  <1>2. PICK s, n : s = <<a, b>> /\ n = 2
    OBVIOUS
  <1>3. IsSeq(s, n) /\ s[1] = a /\ s[2] = b
    BY <1>2, Pair
  <1>4. PICK t, k : /\ t = [i \in 1 .. p_nr_devs |->
                              Call("pipe", <<"p_cdev", i>>, {PDevices, PRegion}, "out")]
                    /\ k = p_nr_devs
    OBVIOUS
  <1>5. IsSeq(t, k)
    BY <1>4, Counts DEF IsSeq
  <1>6. Joined(s \o t, s, n, t, k)
    BY <1>3, <1>5, Concat
  <1>7. scull_p_init = s \o t
    BY <1>1, <1>2, <1>4 DEF scull_p_init
  <1>8. \A i \in 1 .. k : t[i] = Call("pipe", <<"p_cdev", i>>, {PDevices, PRegion}, "out")
    BY <1>4
  <1>9. 1 \in 1 .. n /\ 2 \in 1 .. n /\ n = 2
    BY <1>2
  <1>10. QED
    BY <1>1, <1>3, <1>4, <1>6, <1>7, <1>8, <1>9 DEF Joined

(* The calls of scull_access_init in pairs.                                *)
AccessCall(k) ==
    IF k % 2 = 1 THEN Call("access", <<"a_region", (k + 1) \div 2>>, {}, "out")
                 ELSE Call("access", <<"a_cdev", k \div 2>>, {}, "next")

LEMMA AccessShape ==
    /\ IsSeq(scull_access_init, 2 * a_nr_devs)
    /\ \A k \in 1 .. 2 * a_nr_devs :
         \E i \in 1 .. a_nr_devs :
            \/ scull_access_init[k] = Call("access", <<"a_region", i>>, {}, "out")
            \/ scull_access_init[k] = Call("access", <<"a_cdev", i>>, {}, "next")
  <1>1. 2 * a_nr_devs \in Nat
    BY Counts
  <1>2. IsSeq(scull_access_init, 2 * a_nr_devs)
    BY <1>1 DEF IsSeq, scull_access_init
  <1>3. ASSUME NEW k \in 1 .. 2 * a_nr_devs
        PROVE  \E i \in 1 .. a_nr_devs :
            \/ scull_access_init[k] = Call("access", <<"a_region", i>>, {}, "out")
            \/ scull_access_init[k] = Call("access", <<"a_cdev", i>>, {}, "next")
    <2>1. scull_access_init[k] = AccessCall(k)
      BY DEF scull_access_init, AccessCall
    <2>2. CASE k % 2 = 1
      <3>1. (k + 1) \div 2 \in 1 .. a_nr_devs
        BY <2>2, Counts
      <3>2. QED
        BY <2>1, <2>2, <3>1 DEF AccessCall
    <2>3. CASE k % 2 /= 1
      <3>1. k \div 2 \in 1 .. a_nr_devs
        BY <2>3, Counts
      <3>2. QED
        BY <2>1, <2>3, <3>1 DEF AccessCall
    <2>4. QED
      BY <2>2, <2>3
  <1>4. QED
    BY <1>2, <1>3

LEMMA ProcShape ==
    /\ IsSeq(scull_create_proc, 2)
    /\ scull_create_proc[1] = Call("proc", <<"scullmem", 0>>, {}, "next")
    /\ scull_create_proc[2] = Call("proc", <<"scullseq", 0>>, {}, "next")
  BY Pair DEF scull_create_proc

LEMMA ScullInitShape ==
    Joined4(scull_init, scull_init_devices, 2 + nr_devs, scull_create_proc, 2,
            scull_p_init, 2 + p_nr_devs, scull_access_init, 2 * a_nr_devs)
  <1>1. PICK a, na, b, nb, c, nc, d, nd :
          /\ a = scull_init_devices /\ na = 2 + nr_devs
          /\ b = scull_create_proc /\ nb = 2
          /\ c = scull_p_init /\ nc = 2 + p_nr_devs
          /\ d = scull_access_init /\ nd = 2 * a_nr_devs
    OBVIOUS
  <1>2. IsSeq(a, na) /\ IsSeq(b, nb) /\ IsSeq(c, nc) /\ IsSeq(d, nd)
    BY <1>1, DevicesShape, ProcShape, PipesShape, AccessShape
  <1>3. Joined4(a \o b \o c \o d, a, na, b, nb, c, nc, d, nd)
    BY <1>2, Concat4
  <1>4. scull_init = a \o b \o c \o d
    BY <1>1 DEF scull_init
  <1>5. QED
    BY <1>1, <1>3, <1>4

LEMMA InNumbered ==
    ASSUME NEW kinds, NEW n, NEW kind \in kinds, NEW i \in 1 .. n
    PROVE  <<kind, i>> \in Numbered(kinds, n)
  BY DEF Numbered

(* The kinds of the calls of scull's init, with their places.              *)
LEMMA ScullCalls ==
    ASSUME NEW k \in 1 .. PAlloc + p_nr_devs + 2 * a_nr_devs
    PROVE  \/ k = 1 /\ scull_init[k] = Call("main", Region, {}, "error")
           \/ k = 2 /\ scull_init[k] = Call("main", Devices, {Region}, "return")
           \/ \E i \in 1 .. nr_devs :
                k = 2 + i /\ scull_init[k] = Call("main", <<"cdev", i>>, {Devices, Region}, "return")
           \/ k = nr_devs + 3 /\ scull_init[k] = Call("proc", <<"scullmem", 0>>, {}, "next")
           \/ k = nr_devs + 4 /\ scull_init[k] = Call("proc", <<"scullseq", 0>>, {}, "next")
           \/ k = nr_devs + 5 /\ scull_init[k] = Call("pipe", PRegion, {}, "out")
           \/ k = PAlloc /\ scull_init[k] = Call("pipe", PDevices, {PRegion}, "out")
           \/ \E i \in 1 .. p_nr_devs :
                /\ k = PAlloc + i
                /\ scull_init[k] = Call("pipe", <<"p_cdev", i>>, {PDevices, PRegion}, "out")
           \/ \E i \in 1 .. a_nr_devs :
                /\ k > PAlloc + p_nr_devs
                /\ \/ scull_init[k] = Call("access", <<"a_region", i>>, {}, "out")
                   \/ scull_init[k] = Call("access", <<"a_cdev", i>>, {}, "next")
  <1>1. PICK u, a, na, b, nb, c, nc, d, nd :
          /\ u = scull_init
          /\ a = scull_init_devices /\ na = 2 + nr_devs
          /\ b = scull_create_proc /\ nb = 2
          /\ c = scull_p_init /\ nc = 2 + p_nr_devs
          /\ d = scull_access_init /\ nd = 2 * a_nr_devs
    OBVIOUS
  <1>2. Joined4(u, a, na, b, nb, c, nc, d, nd)
    BY <1>1, ScullInitShape
  <1>3. k \in 1 .. na + nb + nc + nd /\ na \in Nat /\ nb \in Nat /\ nc \in Nat /\ nd \in Nat
    BY <1>1, Counts DEF PAlloc
  <1>4. CASE k <= na
    <2>1. u[k] = a[k]
      BY <1>2, <1>3, <1>4 DEF Joined4
    <2>2. CASE k \in {1, 2}
      BY <1>1, <2>1, <2>2, DevicesShape
    <2>3. CASE k \notin {1, 2}
      <3>1. PICK i \in 1 .. nr_devs : k = 2 + i
        <4>1. k - 2 \in 1 .. nr_devs /\ k = 2 + (k - 2)
          BY <1>1, <1>4, <2>3, Counts
        <4>2. QED
          BY <4>1
      <3>2. a[2 + i] = Call("main", <<"cdev", i>>, {Devices, Region}, "return")
        BY <1>1, DevicesShape
      <3>3. QED
        BY <1>1, <2>1, <3>1, <3>2
    <2>4. QED
      BY <2>2, <2>3
  <1>5. CASE k > na /\ k <= na + nb
    <2>1. k = na + 1 \/ k = na + 2
      BY <1>1, <1>3, <1>5
    <2>2. u[na + 1] = b[1] /\ u[na + 2] = b[2]
      BY <1>1, <1>2 DEF Joined4
    <2>3. na + 1 = nr_devs + 3 /\ na + 2 = nr_devs + 4
      BY <1>1, Counts
    <2>4. QED
      BY <1>1, <2>1, <2>2, <2>3, ProcShape
  <1>6. CASE k > na + nb /\ k <= na + nb + nc
    <2>1. PICK j \in 1 .. nc : k = na + nb + j
      <3>1. k - (na + nb) \in 1 .. nc /\ k = na + nb + (k - (na + nb))
        BY <1>3, <1>6
      <3>2. QED
        BY <3>1
    <2>2. u[na + nb + j] = c[j]
      BY <1>2 DEF Joined4
    <2>3. CASE j = 1
      <3>1. k = nr_devs + 5
        BY <1>1, <2>1, <2>3, Counts
      <3>2. QED
        BY <1>1, <2>1, <2>2, <2>3, <3>1, PipesShape
    <2>4. CASE j = 2
      <3>1. k = PAlloc
        BY <1>1, <2>1, <2>4, Counts DEF PAlloc
      <3>2. QED
        BY <1>1, <2>1, <2>2, <2>4, <3>1, PipesShape
    <2>5. CASE j \notin {1, 2}
      <3>1. PICK i \in 1 .. p_nr_devs : j = 2 + i
        <4>1. j - 2 \in 1 .. p_nr_devs /\ j = 2 + (j - 2)
          BY <1>1, <2>5, Counts
        <4>2. QED
          BY <4>1
      <3>2. k = PAlloc + i
        BY <1>1, <2>1, <3>1, Counts DEF PAlloc
      <3>3. c[2 + i] = Call("pipe", <<"p_cdev", i>>, {PDevices, PRegion}, "out")
        BY <1>1, PipesShape
      <3>4. QED
        BY <1>1, <2>1, <2>2, <3>1, <3>2, <3>3
    <2>6. QED
      BY <2>3, <2>4, <2>5
  <1>7. CASE k > na + nb + nc
    <2>1. PICK j \in 1 .. nd : k = na + nb + nc + j
      <3>1. k - (na + nb + nc) \in 1 .. nd /\ k = na + nb + nc + (k - (na + nb + nc))
        BY <1>3, <1>7
      <3>2. QED
        BY <3>1
    <2>2. u[na + nb + nc + j] = d[j]
      BY <1>2 DEF Joined4
    <2>3. k > PAlloc + p_nr_devs
      BY <1>1, <1>7, Counts DEF PAlloc
    <2>4. QED
      BY <1>1, <2>1, <2>2, <2>3, AccessShape
  <1>8. \/ k <= na
        \/ k > na /\ k <= na + nb
        \/ k > na + nb /\ k <= na + nb + nc
        \/ k > na + nb + nc
    BY <1>3
  <1>9. QED
    BY <1>4, <1>5, <1>6, <1>7, <1>8, Zenon

LEMMA ScullTakes ==
    /\ {Region, Devices, PRegion, PDevices, <<"scullmem", 0>>, <<"scullseq", 0>>}
          \subseteq Resources("scull")
    /\ \A i \in 1 .. nr_devs : {<<"cdev", i>>, <<"data", i>>} \subseteq Resources("scull")
    /\ \A i \in 1 .. p_nr_devs : {<<"p_cdev", i>>, <<"p_buffer", i>>} \subseteq Resources("scull")
    /\ \A i \in 1 .. a_nr_devs :
          {<<"a_cdev", i>>, <<"a_data", i>>, <<"a_region", i>>} \subseteq Resources("scull")
  BY InNumbered DEF Resources

LEMMA FieldsOf ==
    ASSUME NEW p, NEW r, NEW u, NEW t, NEW c, c = Call(p, r, u, t)
    PROVE  c.part = p /\ c.takes = r /\ c.undo = u /\ c.then = t
  BY DEF Call

LEMMA KindsOf ==
    /\ Region[1] = "region" /\ Devices[1] = "devices" /\ Cache[1] = "scull_cache"
    /\ PRegion[1] = "p_region" /\ PDevices[1] = "p_devices"
    /\ Item[1] = "scull_listitem" /\ Work[1] = "work"
    /\ \A kind, i : <<kind, i>>[1] = kind
  BY DEF Region, Devices, Cache, PRegion, PDevices, Item, Work

LEMMA LeakKinds ==
    /\ Item[1] = "scull_listitem" /\ Work[1] = "work" /\ Stray[1] = "work" /\ Sbuf[1] = "sbuf"
    /\ Work /= Stray
    /\ \A m \in ModuleNames : \A r \in Leaks(m) : r[1] \in {"scull_listitem", "sbuf", "work"}
  <1>1. /\ Item[1] = "scull_listitem" /\ Work[1] = "work" /\ Stray[1] = "work"
        /\ Sbuf[1] = "sbuf" /\ Work[2] = 0 /\ Stray[2] = 1
    BY DEF Item, Work, Stray, Sbuf
  <1>2. \A m \in ModuleNames : Leaks(m) \subseteq {Item, Sbuf, Work, Stray}
    BY DEF Leaks, ModuleNames
  <1>3. Work /= Stray
    BY <1>1
  <1>4. QED
    BY <1>1, <1>2, <1>3

LEMMA ScullInitFacts == InitFacts("scull")
  <1>1. IsSeq(scull_init, 2 + nr_devs + 2 + (2 + p_nr_devs) + 2 * a_nr_devs)
    BY ScullInitShape DEF Joined4
  <1>2. PICK n : n = PAlloc + p_nr_devs + 2 * a_nr_devs
    OBVIOUS
  <1>3. 2 + nr_devs + 2 + (2 + p_nr_devs) + 2 * a_nr_devs = n /\ n \in Nat
    BY <1>2, Counts DEF PAlloc
  <1>4. Len(scull_init) = n
    BY <1>1, <1>3, SeqLen
  <1>5. ASSUME NEW k \in 1 .. n
        PROVE  CallFacts("scull", k, scull_init[k])
    <2> DEFINE c == scull_init[k]
    <2> SUFFICES CallFacts("scull", k, c)
      OBVIOUS
    <2>1. PAlloc \in Nat /\ PAlloc = nr_devs + 6 /\ k \in Nat /\ k >= 1
      BY Counts, <1>3 DEF PAlloc
    <2> HIDE DEF c
    <2>2. CASE k = 1 /\ c = Call("main", Region, {}, "error")
      <3>1. /\ c.part = "main" /\ c.undo = {} /\ c.then = "error"
            /\ c.takes = Region /\ c.takes[1] = "region"
        BY <2>2, FieldsOf, KindsOf
      <3>2. c.takes \in Resources("scull")
        BY <2>2, <3>1, ScullTakes
      <3>3. QED
        BY <2>1, <2>2, <3>1, <3>2, KindsOf, Counts
           DEF CallFacts, Hides, HiddenKinds, Scullish, UsesDevices
    <2>3. CASE k = 2 /\ c = Call("main", Devices, {Region}, "return")
      <3>1. /\ c.part = "main" /\ c.undo = {Region} /\ c.then = "return"
            /\ c.takes = Devices /\ c.takes[1] = "devices"
        BY <2>3, FieldsOf, KindsOf
      <3>2. c.takes \in Resources("scull")
        BY <2>3, <3>1, ScullTakes
      <3>3. QED
        BY <2>1, <2>3, <3>1, <3>2, KindsOf, Counts
           DEF CallFacts, Hides, HiddenKinds, Scullish, UsesDevices
    <2>4. ASSUME NEW i \in 1 .. nr_devs, k = 2 + i,
                 c = Call("main", <<"cdev", i>>, {Devices, Region}, "return")
          PROVE  CallFacts("scull", k, c)
      <3>1. /\ c.part = "main" /\ c.undo = {Devices, Region} /\ c.then = "return"
            /\ c.takes = <<"cdev", i>> /\ c.takes[1] = "cdev"
        BY <2>4, FieldsOf, KindsOf
      <3>2. c.takes \in Resources("scull")
        BY <2>4, <3>1, ScullTakes
      <3>3. c.takes /= Devices /\ c.takes /= PDevices
        BY <3>1, KindsOf
      <3>4. k > 2 /\ k < PAlloc - 1 /\ k \notin PAlloc - 1 .. PAlloc + p_nr_devs /\ ~(k > PAlloc + p_nr_devs)
        BY <2>1, <2>4, Counts
      <3>5. QED
        BY <2>1, <3>1, <3>2, <3>3, <3>4
           DEF CallFacts, Hides, HiddenKinds, Scullish, UsesDevices
    <2>5. CASE k = nr_devs + 3 /\ c = Call("proc", <<"scullmem", 0>>, {}, "next")
      <3>1. /\ c.part = "proc" /\ c.undo = {} /\ c.then = "next"
            /\ c.takes = <<"scullmem", 0>> /\ c.takes[1] = "scullmem"
        BY <2>5, FieldsOf, KindsOf
      <3>2. c.takes \in Resources("scull")
        BY <2>5, <3>1, ScullTakes
      <3>3. QED
        BY <2>1, <2>5, <3>1, <3>2, KindsOf, Counts
           DEF CallFacts, Hides, HiddenKinds, Scullish, UsesDevices
    <2>6. CASE k = nr_devs + 4 /\ c = Call("proc", <<"scullseq", 0>>, {}, "next")
      <3>1. /\ c.part = "proc" /\ c.undo = {} /\ c.then = "next"
            /\ c.takes = <<"scullseq", 0>> /\ c.takes[1] = "scullseq"
        BY <2>6, FieldsOf, KindsOf
      <3>2. c.takes \in Resources("scull")
        BY <2>6, <3>1, ScullTakes
      <3>3. QED
        BY <2>1, <2>6, <3>1, <3>2, KindsOf, Counts
           DEF CallFacts, Hides, HiddenKinds, Scullish, UsesDevices
    <2>7. CASE k = nr_devs + 5 /\ c = Call("pipe", PRegion, {}, "out")
      <3>1. /\ c.part = "pipe" /\ c.undo = {} /\ c.then = "out"
            /\ c.takes = PRegion /\ c.takes[1] = "p_region"
        BY <2>7, FieldsOf, KindsOf
      <3>2. c.takes \in Resources("scull")
        BY <2>7, <3>1, ScullTakes
      <3>3. QED
        BY <2>1, <2>7, <3>1, <3>2, KindsOf, Counts
           DEF CallFacts, Hides, HiddenKinds, Scullish, UsesDevices
    <2>8. CASE k = PAlloc /\ c = Call("pipe", PDevices, {PRegion}, "out")
      <3>1. /\ c.part = "pipe" /\ c.undo = {PRegion} /\ c.then = "out"
            /\ c.takes = PDevices /\ c.takes[1] = "p_devices"
        BY <2>8, FieldsOf, KindsOf
      <3>2. c.takes \in Resources("scull")
        BY <2>8, <3>1, ScullTakes
      <3>3. QED
        BY <2>1, <2>8, <3>1, <3>2, KindsOf, Counts
           DEF CallFacts, Hides, HiddenKinds, Scullish, UsesDevices
    <2>9. ASSUME NEW i \in 1 .. p_nr_devs, k = PAlloc + i,
                 c = Call("pipe", <<"p_cdev", i>>, {PDevices, PRegion}, "out")
          PROVE  CallFacts("scull", k, c)
      <3>1. /\ c.part = "pipe" /\ c.undo = {PDevices, PRegion} /\ c.then = "out"
            /\ c.takes = <<"p_cdev", i>> /\ c.takes[1] = "p_cdev"
        BY <2>9, FieldsOf, KindsOf
      <3>2. c.takes \in Resources("scull")
        BY <2>9, <3>1, ScullTakes
      <3>3. c.takes /= Devices /\ c.takes /= PDevices
        BY <3>1, KindsOf
      <3>4. k > 2 /\ k > PAlloc /\ k \in PAlloc - 1 .. PAlloc + p_nr_devs /\ ~(k > PAlloc + p_nr_devs)
        BY <2>1, <2>9, Counts
      <3>5. QED
        BY <2>1, <3>1, <3>2, <3>3, <3>4
           DEF CallFacts, Hides, HiddenKinds, Scullish, UsesDevices
    <2>10. ASSUME NEW i \in 1 .. a_nr_devs, k > PAlloc + p_nr_devs,
                  \/ c = Call("access", <<"a_region", i>>, {}, "out")
                  \/ c = Call("access", <<"a_cdev", i>>, {}, "next")
           PROVE  CallFacts("scull", k, c)
      <3>1. /\ c.part = "access" /\ c.undo = {} /\ c.then \in {"out", "next"}
            /\ \/ c.takes = <<"a_region", i>> /\ c.takes[1] = "a_region"
               \/ c.takes = <<"a_cdev", i>> /\ c.takes[1] = "a_cdev"
        BY <2>10, FieldsOf, KindsOf
      <3>2. c.takes \in Resources("scull")
        BY <2>10, <3>1, ScullTakes
      <3>3. QED
        BY <2>1, <2>10, <3>1, <3>2, KindsOf, Counts
           DEF CallFacts, Hides, HiddenKinds, Scullish, UsesDevices
    <2>11. k \in 1 .. PAlloc + p_nr_devs + 2 * a_nr_devs
      BY <1>2
    <2>12. QED
      BY <2>2, <2>3, <2>4, <2>5, <2>6, <2>7, <2>8, <2>9, <2>10, <2>11, ScullCalls, Zenon DEF c
  <1>6. InitOf("scull") = scull_init
    BY DEF InitOf
  <1>7. n > PAlloc + p_nr_devs /\ n >= 2
    BY <1>2, Counts DEF PAlloc
  <1>8. QED
    BY <1>3, <1>4, <1>5, <1>6, <1>7 DEF InitFacts

LEMMA CacheTakes ==
    ASSUME NEW m \in {"scullc", "scullp"}
    PROVE  /\ {Region, Devices, Cache} \subseteq Resources(m)
           /\ \A i \in 1 .. nr_devs : {<<"cdev", i>>, <<"data", i>>} \subseteq Resources(m)
  BY InNumbered DEF Resources

LEMMA CacheInitFacts ==
    ASSUME NEW m \in {"scullc", "scullp"}
    PROVE  InitFacts(m)
  <1>0. m = "scullc" \/ m = "scullp"
    OBVIOUS
  <1>1. PICK a, na, b, nb, e : /\ a = scull_init_devices /\ na = 2 + nr_devs
                               /\ b = <<e>> /\ nb = 1
                               /\ e = Call("main", Cache, {Devices, Region}, "return")
    OBVIOUS
  <1>2. IsSeq(a, na) /\ IsSeq(b, nb) /\ b[1] = e
    BY <1>1, DevicesShape, Single
  <1>3. PICK u, n : u = InitOf(m) /\ n = nr_devs + 3
    OBVIOUS
  <1>4. u = a \o b
    BY <1>0, <1>1, <1>3 DEF InitOf, scullc_init, scullp_init
  <1>5. Joined(u, a, na, b, nb)
    BY <1>2, <1>4, Concat
  <1>6. n \in Nat /\ n = na + nb /\ n = na + 1 /\ n > 2
    BY <1>1, <1>3, Counts
  <1>7. IsSeq(u, n)
    BY <1>5, <1>6 DEF Joined
  <1>8. Len(u) = n
    BY <1>7, SeqLen
  <1>9. u[n] = e
    <2>1. u[na + 1] = b[1]
      BY <1>1, <1>5 DEF Joined
    <2>2. QED
      BY <1>2, <1>6, <2>1
  <1>10. e.takes = Cache
    BY <1>1, FieldsOf
  <1>11. ASSUME NEW k \in 1 .. n
         PROVE  CallFacts(m, k, u[k])
    <2> DEFINE c == u[k]
    <2> SUFFICES CallFacts(m, k, c)
      OBVIOUS
    <2>1. PAlloc \in Nat /\ PAlloc = nr_devs + 6 /\ k \in Nat /\ k >= 1
      BY Counts, <1>6 DEF PAlloc
    <2> HIDE DEF c
    <2>2. CASE k = 1 /\ c = Call("main", Region, {}, "error")
      <3>1. /\ c.part = "main" /\ c.undo = {} /\ c.then = "error"
            /\ c.takes = Region /\ c.takes[1] = "region"
        BY <2>2, FieldsOf, KindsOf
      <3>2. c.takes \in Resources(m)
        BY <2>2, <3>1, CacheTakes
      <3>3. QED
        BY <1>0, <2>1, <2>2, <3>1, <3>2, KindsOf, Counts
           DEF CallFacts, Hides, HiddenKinds, Scullish, UsesDevices
    <2>3. CASE k = 2 /\ c = Call("main", Devices, {Region}, "return")
      <3>1. /\ c.part = "main" /\ c.undo = {Region} /\ c.then = "return"
            /\ c.takes = Devices /\ c.takes[1] = "devices"
        BY <2>3, FieldsOf, KindsOf
      <3>2. c.takes \in Resources(m)
        BY <2>3, <3>1, CacheTakes
      <3>3. QED
        BY <1>0, <2>1, <2>3, <3>1, <3>2, KindsOf, Counts, SMTT(30)
           DEF CallFacts, Hides, HiddenKinds, Scullish, UsesDevices
    <2>4. ASSUME NEW i \in 1 .. nr_devs, k = 2 + i,
                 c = Call("main", <<"cdev", i>>, {Devices, Region}, "return")
          PROVE  CallFacts(m, k, c)
      <3>1. /\ c.part = "main" /\ c.undo = {Devices, Region} /\ c.then = "return"
            /\ c.takes = <<"cdev", i>> /\ c.takes[1] = "cdev"
        BY <2>4, FieldsOf, KindsOf
      <3>2. c.takes \in Resources(m)
        BY <2>4, <3>1, CacheTakes
      <3>3. c.takes /= Devices /\ c.takes /= PDevices
        BY <3>1, KindsOf
      <3>4. k > 2
        BY <2>1, <2>4, Counts
      <3>5. QED
        BY <1>0, <2>1, <3>1, <3>2, <3>3, <3>4
           DEF CallFacts, Hides, HiddenKinds, Scullish, UsesDevices
    <2>5. CASE k = nr_devs + 3 /\ c = Call("main", Cache, {Devices, Region}, "return")
      <3>1. /\ c.part = "main" /\ c.undo = {Devices, Region} /\ c.then = "return"
            /\ c.takes = Cache /\ c.takes[1] = "scull_cache"
        BY <2>5, FieldsOf, KindsOf
      <3>2. c.takes \in Resources(m)
        BY <2>5, <3>1, CacheTakes
      <3>3. QED
        BY <1>0, <2>1, <2>5, <3>1, <3>2, KindsOf, Counts
           DEF CallFacts, Hides, HiddenKinds, Scullish, UsesDevices
    <2>6. CASE k = n
      BY <1>1, <1>3, <1>9, <2>5, <2>6 DEF c
    <2>7. CASE k /= n
      <3>1. k \in 1 .. na
        BY <1>1, <1>6, <2>7, <2>1, Counts
      <3>2. c = a[k]
        BY <1>5, <3>1 DEF Joined, c
      <3>3. CASE k = 1
        BY <1>1, <2>2, <3>2, <3>3, DevicesShape
      <3>4. CASE k = 2
        BY <1>1, <2>3, <3>2, <3>4, DevicesShape
      <3>5. CASE k > 2
        <4>1. PICK i \in 1 .. nr_devs : k = 2 + i
          <5>1. k - 2 \in 1 .. nr_devs /\ k = 2 + (k - 2)
            BY <1>1, <3>1, <3>5, Counts
          <5>2. QED
            BY <5>1
        <4>2. a[2 + i] = Call("main", <<"cdev", i>>, {Devices, Region}, "return")
          BY <1>1, DevicesShape
        <4>3. QED
          BY <2>4, <3>2, <4>1, <4>2
      <3>6. QED
        BY <2>1, <3>3, <3>4, <3>5
    <2>8. QED
      BY <2>6, <2>7
  <1>12. m \notin {"scull"}
    BY <1>0
  <1>13. QED
    BY <1>0, <1>3, <1>6, <1>8, <1>9, <1>10, <1>11, <1>12 DEF InitFacts, UsesDevices, Scullish

LEMMA OneTakes ==
    ASSUME NEW m \in {"globalmem", "completion"}
    PROVE  {Region, Devices, <<"cdev", 1>>} \subseteq Resources(m)
  BY DEF Resources

LEMMA OneInitFacts ==
    ASSUME NEW m \in {"globalmem", "completion"}
    PROVE  InitFacts(m)
  <1>0. m = "globalmem" \/ m = "completion"
    OBVIOUS
  <1>1. PICK a, b, e : /\ a = Call("main", Region, {}, "error")
                       /\ b = Call("main", Devices, {Region}, "error")
                       /\ e = Call("main", <<"cdev", 1>>, {}, "next")
    OBVIOUS
  <1>2. PICK u : u = InitOf(m)
    OBVIOUS
  <1>3. u = <<a, b, e>>
    BY <1>0, <1>1, <1>2 DEF InitOf, globalmem_init, completion_init
  <1>4. Len(u) = 3 /\ u[1] = a /\ u[2] = b /\ u[3] = e
    BY <1>3
  <1>5. ASSUME NEW k \in 1 .. 3
        PROVE  CallFacts(m, k, u[k])
    <2> DEFINE c == u[k]
    <2> SUFFICES CallFacts(m, k, c)
      OBVIOUS
    <2>1. PAlloc \in Nat /\ PAlloc > 6 /\ k \in {1, 2, 3}
      BY Counts DEF PAlloc
    <2> HIDE DEF c
    <2>2. CASE k = 1 /\ c = Call("main", Region, {}, "error")
      <3>1. /\ c.part = "main" /\ c.undo = {} /\ c.then = "error"
            /\ c.takes = Region /\ c.takes[1] = "region"
        BY <2>2, FieldsOf, KindsOf
      <3>2. c.takes \in Resources(m)
        BY <2>2, <3>1, OneTakes
      <3>3. QED
        BY <1>0, <2>1, <2>2, <3>1, <3>2, KindsOf, Counts
           DEF CallFacts, Hides, HiddenKinds, Scullish, UsesDevices
    <2>3. CASE k = 2 /\ c = Call("main", Devices, {Region}, "error")
      <3>1. /\ c.part = "main" /\ c.undo = {Region} /\ c.then = "error"
            /\ c.takes = Devices /\ c.takes[1] = "devices"
        BY <2>3, FieldsOf, KindsOf
      <3>2. c.takes \in Resources(m)
        BY <2>3, <3>1, OneTakes
      <3>3. Devices /= PDevices /\ "devices" /= "p_cdev"
        BY KindsOf
      <3>4. QED
        BY <1>0, <2>1, <2>3, <3>1, <3>2, <3>3
           DEF CallFacts, Hides, HiddenKinds, Scullish, UsesDevices
    <2>4. CASE k = 3 /\ c = Call("main", <<"cdev", 1>>, {}, "next")
      <3>1. /\ c.part = "main" /\ c.undo = {} /\ c.then = "next"
            /\ c.takes = <<"cdev", 1>> /\ c.takes[1] = "cdev"
        BY <2>4, FieldsOf, KindsOf
      <3>2. c.takes \in Resources(m)
        BY <2>4, <3>1, OneTakes
      <3>3. QED
        BY <1>0, <2>1, <2>4, <3>1, <3>2, KindsOf, Counts
           DEF CallFacts, Hides, HiddenKinds, Scullish, UsesDevices
    <2>5. QED
      BY <1>1, <1>4, <2>1, <2>2, <2>3, <2>4 DEF c
  <1>6. QED
    BY <1>0, <1>2, <1>4, <1>5 DEF InitFacts

LEMMA SleepyInitFacts == InitFacts("sleepy")
  <1>0. PICK m : m = "sleepy"
    OBVIOUS
  <1>1. PICK u, a, b : /\ u = InitOf(m)
                       /\ a = Call("main", Region, {}, "error")
                       /\ b = Call("main", <<"cdev", 1>>, {}, "next")
    OBVIOUS
  <1>2. u = <<a, b>>
    BY <1>0, <1>1 DEF InitOf, sleepy_init
  <1>3. Len(u) = 2 /\ u[1] = a /\ u[2] = b
    BY <1>2
  <1>4. ASSUME NEW k \in 1 .. 2
        PROVE  CallFacts(m, k, u[k])
    <2> DEFINE c == u[k]
    <2> SUFFICES CallFacts(m, k, c)
      OBVIOUS
    <2>1. PAlloc \in Nat /\ PAlloc > 6 /\ k \in {1, 2}
      BY Counts DEF PAlloc
    <2> HIDE DEF c
    <2>2. CASE k = 1 /\ c = Call("main", Region, {}, "error")
      <3>1. /\ c.part = "main" /\ c.undo = {} /\ c.then = "error"
            /\ c.takes = Region /\ c.takes[1] = "region"
        BY <2>2, FieldsOf, KindsOf
      <3>2. c.takes \in Resources(m)
        BY <2>2, <3>1, <1>0 DEF Resources
      <3>3. QED
        BY <1>0, <2>1, <2>2, <3>1, <3>2, KindsOf, Counts
           DEF CallFacts, Hides, HiddenKinds, Scullish, UsesDevices
    <2>3. CASE k = 2 /\ c = Call("main", <<"cdev", 1>>, {}, "next")
      <3>1. /\ c.part = "main" /\ c.undo = {} /\ c.then = "next"
            /\ c.takes = <<"cdev", 1>> /\ c.takes[1] = "cdev"
        BY <2>3, FieldsOf, KindsOf
      <3>2. c.takes \in Resources(m)
        BY <2>3, <3>1, <1>0 DEF Resources
      <3>3. QED
        BY <1>0, <2>1, <2>3, <3>1, <3>2, KindsOf, Counts
           DEF CallFacts, Hides, HiddenKinds, Scullish, UsesDevices
    <2>4. QED
      BY <1>1, <1>3, <2>1, <2>2, <2>3 DEF c
  <1>5. QED
    BY <1>0, <1>1, <1>3, <1>4 DEF InitFacts, UsesDevices, Scullish

LEMMA FilesInitFacts ==
    ASSUME NEW m \in {"jiq", "jit"}
    PROVE  InitFacts(m)
  <1>0. m = "jiq" \/ m = "jit"
    OBVIOUS
  <1>1. PICK u, n : u = InitOf(m) /\ n = nr_files
    OBVIOUS
  <1>2. u = [i \in 1 .. n |-> Call("main", <<"file", i>>, {}, "next")] /\ n \in Nat
    BY <1>0, <1>1, Counts DEF InitOf, jiq_init, jit_init
  <1>3. Len(u) = n
    <2>1. IsSeq(u, n)
      BY <1>2 DEF IsSeq
    <2>2. QED
      BY <2>1, SeqLen
  <1>4. ASSUME NEW k \in 1 .. n
        PROVE  CallFacts(m, k, u[k])
    <2> DEFINE c == u[k]
    <2> SUFFICES CallFacts(m, k, c)
      OBVIOUS
    <2>1. PAlloc \in Nat /\ PAlloc > 6 /\ k \in Nat
      BY Counts, <1>2 DEF PAlloc
    <2>2. c = Call("main", <<"file", k>>, {}, "next")
      BY <1>2
    <2> HIDE DEF c
    <2>3. /\ c.part = "main" /\ c.undo = {} /\ c.then = "next"
          /\ c.takes = <<"file", k>> /\ c.takes[1] = "file"
      BY <2>2, FieldsOf, KindsOf
    <2>4. c.takes \in Resources(m)
      BY <1>0, <1>1, <2>3, InNumbered DEF Resources
    <2>5. QED
      BY <1>0, <2>1, <2>3, <2>4, KindsOf, Counts
         DEF CallFacts, Hides, HiddenKinds, Scullish, UsesDevices
  <1>5. QED
    BY <1>0, <1>1, <1>2, <1>3, <1>4 DEF InitFacts, UsesDevices, Scullish

LEMMA InitShape ==
    ASSUME NEW m \in ModuleNames
    PROVE  InitFacts(m)
  BY ScullInitFacts, CacheInitFacts, OneInitFacts, SleepyInitFacts, FilesInitFacts DEF ModuleNames

LEMMA ExitDevicesShape ==
    /\ IsSeq(scull_exit_devices, nr_devs + 2)
    /\ \A i \in 1 .. nr_devs :
         scull_exit_devices[i] = Free({<<"data", i>>, <<"cdev", i>>}, {Devices})
    /\ scull_exit_devices[nr_devs + 1] = Free({Region}, {})
    /\ scull_exit_devices[nr_devs + 2] = Free({Devices}, {})
  <1>1. PICK a, b : a = Free({Region}, {}) /\ b = Free({Devices}, {})
    OBVIOUS
  <1>2. PICK t, k : t = <<a, b>> /\ k = 2
    OBVIOUS
  <1>3. IsSeq(t, k) /\ t[1] = a /\ t[2] = b
    BY <1>2, Pair
  <1>4. PICK s, n : /\ s = [i \in 1 .. nr_devs |-> Free({<<"data", i>>, <<"cdev", i>>}, {Devices})]
                    /\ n = nr_devs
    OBVIOUS
  <1>5. IsSeq(s, n)
    BY <1>4, Counts DEF IsSeq
  <1>6. Joined(s \o t, s, n, t, k)
    BY <1>3, <1>5, Concat
  <1>7. scull_exit_devices = s \o t
    BY <1>1, <1>2, <1>4 DEF scull_exit_devices
  <1>8. \A i \in 1 .. n : s[i] = Free({<<"data", i>>, <<"cdev", i>>}, {Devices})
    BY <1>4
  <1>9. 1 \in 1 .. k /\ 2 \in 1 .. k /\ k = 2
    BY <1>2
  <1>10. QED
    BY <1>1, <1>3, <1>4, <1>6, <1>7, <1>8, <1>9 DEF Joined

LEMMA ExitPipesShape ==
    /\ IsSeq(scull_p_cleanup, p_nr_devs + 2)
    /\ \A i \in 1 .. p_nr_devs :
         scull_p_cleanup[i] = Free({<<"p_cdev", i>>, <<"p_buffer", i>>}, {PDevices})
    /\ scull_p_cleanup[p_nr_devs + 1] = Free({PRegion}, {})
    /\ scull_p_cleanup[p_nr_devs + 2] = Free({PDevices}, {})
  <1>1. PICK a, b : a = Free({PRegion}, {}) /\ b = Free({PDevices}, {})
    OBVIOUS
  <1>2. PICK t, k : t = <<a, b>> /\ k = 2
    OBVIOUS
  <1>3. IsSeq(t, k) /\ t[1] = a /\ t[2] = b
    BY <1>2, Pair
  <1>4. PICK s, n :
          /\ s = [i \in 1 .. p_nr_devs |-> Free({<<"p_cdev", i>>, <<"p_buffer", i>>}, {PDevices})]
          /\ n = p_nr_devs
    OBVIOUS
  <1>5. IsSeq(s, n)
    BY <1>4, Counts DEF IsSeq
  <1>6. Joined(s \o t, s, n, t, k)
    BY <1>3, <1>5, Concat
  <1>7. scull_p_cleanup = s \o t
    BY <1>1, <1>2, <1>4 DEF scull_p_cleanup
  <1>8. \A i \in 1 .. n : s[i] = Free({<<"p_cdev", i>>, <<"p_buffer", i>>}, {PDevices})
    BY <1>4
  <1>9. 1 \in 1 .. k /\ 2 \in 1 .. k /\ k = 2
    BY <1>2
  <1>10. QED
    BY <1>1, <1>3, <1>4, <1>6, <1>7, <1>8, <1>9 DEF Joined

(* What scull's exit frees at each of its places.                          *)
LEMMA ScullFrees ==
    /\ IsSeq(scull_exit, nr_devs + p_nr_devs + a_nr_devs + 6)
    /\ scull_exit[1] = Free({<<"scullmem", 0>>}, {})
    /\ scull_exit[2] = Free({<<"scullseq", 0>>}, {})
    /\ \A i \in 1 .. nr_devs :
         scull_exit[2 + i] = Free({<<"data", i>>, <<"cdev", i>>}, {Devices})
    /\ scull_exit[nr_devs + 3] = Free({Region}, {})
    /\ scull_exit[nr_devs + 4] = Free({Devices}, {})
    /\ \A i \in 1 .. p_nr_devs :
         scull_exit[nr_devs + 4 + i] = Free({<<"p_cdev", i>>, <<"p_buffer", i>>}, {PDevices})
    /\ scull_exit[nr_devs + p_nr_devs + 5] = Free({PRegion}, {})
    /\ scull_exit[nr_devs + p_nr_devs + 6] = Free({PDevices}, {})
    /\ \A i \in 1 .. a_nr_devs :
         scull_exit[nr_devs + p_nr_devs + 6 + i] =
            Free({<<"a_cdev", i>>, <<"a_data", i>>, <<"a_region", i>>}, {})
  <1>1. PICK u, a, na, b, nb, c, nc, d, nd :
          /\ u = scull_exit
          /\ a = scull_remove_proc /\ na = 2
          /\ b = scull_exit_devices /\ nb = nr_devs + 2
          /\ c = scull_p_cleanup /\ nc = p_nr_devs + 2
          /\ d = scull_access_cleanup /\ nd = a_nr_devs
    OBVIOUS
  <1>2. /\ IsSeq(a, na) /\ a[1] = Free({<<"scullmem", 0>>}, {})
        /\ a[2] = Free({<<"scullseq", 0>>}, {})
    BY <1>1, Pair DEF scull_remove_proc
  <1>3. IsSeq(d, nd)
    BY <1>1, Counts DEF IsSeq, scull_access_cleanup
  <1>4. IsSeq(b, nb) /\ IsSeq(c, nc)
    BY <1>1, ExitDevicesShape, ExitPipesShape
  <1>5. u = a \o b \o c \o d
    BY <1>1 DEF scull_exit
  <1>6. Joined4(a \o b \o c \o d, a, na, b, nb, c, nc, d, nd)
    BY <1>2, <1>3, <1>4, Concat4
  <1>7. Joined4(u, a, na, b, nb, c, nc, d, nd)
    BY <1>5, <1>6
  <1>8. /\ na + nb + nc + nd = nr_devs + p_nr_devs + a_nr_devs + 6
        /\ na + nb = nr_devs + 4 /\ na + nb + nc = nr_devs + p_nr_devs + 6
        /\ na + (nr_devs + 1) = nr_devs + 3 /\ na + (nr_devs + 2) = nr_devs + 4
        /\ na + nb + (p_nr_devs + 1) = nr_devs + p_nr_devs + 5
        /\ na + nb + (p_nr_devs + 2) = nr_devs + p_nr_devs + 6
        /\ \A i \in 1 .. nr_devs : i \in 1 .. nb
        /\ \A i \in 1 .. p_nr_devs : i \in 1 .. nc
        /\ nr_devs + 1 \in 1 .. nb /\ nr_devs + 2 \in 1 .. nb
        /\ p_nr_devs + 1 \in 1 .. nc /\ p_nr_devs + 2 \in 1 .. nc
        /\ 1 \in 1 .. na /\ 2 \in 1 .. na
    BY <1>1, Counts
  <1>9. /\ IsSeq(u, na + nb + nc + nd)
        /\ u[1] = a[1] /\ u[2] = a[2]
        /\ \A i \in 1 .. nb : u[na + i] = b[i]
        /\ \A i \in 1 .. nc : u[na + nb + i] = c[i]
        /\ \A i \in 1 .. nd : u[na + nb + nc + i] = d[i]
    BY <1>7, <1>8 DEF Joined4
  <1>10. /\ \A i \in 1 .. nr_devs : u[2 + i] = Free({<<"data", i>>, <<"cdev", i>>}, {Devices})
         /\ u[nr_devs + 3] = Free({Region}, {})
         /\ u[nr_devs + 4] = Free({Devices}, {})
    <2>1. u[na + (nr_devs + 1)] = b[nr_devs + 1] /\ u[na + (nr_devs + 2)] = b[nr_devs + 2]
      BY <1>8, <1>9
    <2>2. \A i \in 1 .. nr_devs : u[na + i] = b[i]
      BY <1>8, <1>9
    <2>3. QED
      BY <1>1, <1>8, <2>1, <2>2, ExitDevicesShape
  <1>11. /\ \A i \in 1 .. p_nr_devs :
              u[nr_devs + 4 + i] = Free({<<"p_cdev", i>>, <<"p_buffer", i>>}, {PDevices})
         /\ u[nr_devs + p_nr_devs + 5] = Free({PRegion}, {})
         /\ u[nr_devs + p_nr_devs + 6] = Free({PDevices}, {})
    <2>1. /\ u[na + nb + (p_nr_devs + 1)] = c[p_nr_devs + 1]
          /\ u[na + nb + (p_nr_devs + 2)] = c[p_nr_devs + 2]
      BY <1>8, <1>9
    <2>2. \A i \in 1 .. p_nr_devs : u[na + nb + i] = c[i]
      BY <1>8, <1>9
    <2>3. QED
      BY <1>1, <1>8, <2>1, <2>2, ExitPipesShape
  <1>12. \A i \in 1 .. a_nr_devs :
           u[nr_devs + p_nr_devs + 6 + i] =
             Free({<<"a_cdev", i>>, <<"a_data", i>>, <<"a_region", i>>}, {})
    BY <1>1, <1>8, <1>9 DEF scull_access_cleanup
  <1>13. QED
    BY <1>1, <1>2, <1>8, <1>9, <1>10, <1>11, <1>12

LEMMA FreeFields ==
    ASSUME NEW x, NEW t, NEW f, f = Free(x, t)
    PROVE  f.frees = x /\ f.touches = t
  BY DEF Free

LEMMA ScullExitFacts == ExitFacts("scull")
  <1>0. PICK m, n, u : /\ m = "scull" /\ u = ExitOf(m)
                       /\ n = nr_devs + p_nr_devs + a_nr_devs + 6
    OBVIOUS
  <1>1. /\ DevFree(m) = nr_devs + 4 /\ FirstDev(m) = 3
        /\ PFree = nr_devs + p_nr_devs + 6 /\ FirstPipe = nr_devs + 5
    BY <1>0 DEF DevFree, FirstDev, PFree, FirstPipe
  <1>2. u = scull_exit /\ n \in Nat
    BY <1>0, Counts DEF ExitOf
  <1>3. Len(u) = n
    BY <1>0, <1>2, ScullFrees, SeqLen
  <1>4. ASSUME NEW k \in 1 .. n
        PROVE  FreeFacts(m, k, u[k])
    <2> DEFINE f == u[k]
    <2> SUFFICES FreeFacts(m, k, f)
      OBVIOUS
    <2>1. k \in Nat /\ k >= 1 /\ Len(ExitOf(m)) = n
      BY <1>0, <1>2, <1>3
    <2> HIDE DEF f
    <2>2. CASE k = 1
      <3>1. f.frees = {<<"scullmem", 0>>} /\ f.touches = {}
        <4>1. f = Free({<<"scullmem", 0>>}, {})
          BY <1>2, <2>2, ScullFrees DEF f
        <4>2. QED
          BY <4>1, FreeFields
      <3>2. QED
        BY <1>0, <1>1, <2>1, <2>2, <3>1, KindsOf, Counts DEF FreeFacts, Scullish, UsesDevices
    <2>3. CASE k = 2
      <3>1. f.frees = {<<"scullseq", 0>>} /\ f.touches = {}
        <4>1. f = Free({<<"scullseq", 0>>}, {})
          BY <1>2, <2>3, ScullFrees DEF f
        <4>2. QED
          BY <4>1, FreeFields
      <3>2. QED
        BY <1>0, <1>1, <2>1, <2>3, <3>1, KindsOf, Counts DEF FreeFacts, Scullish, UsesDevices
    <2>4. CASE k \in 3 .. nr_devs + 2
      <3>1. PICK i \in 1 .. nr_devs : k = 2 + i
        <4>1. k - 2 \in 1 .. nr_devs /\ k = 2 + (k - 2)
          BY <2>4, Counts
        <4>2. QED
          BY <4>1
      <3>2. f.frees = {<<"data", i>>, <<"cdev", i>>} /\ f.touches = {Devices}
        <4>1. f = Free({<<"data", i>>, <<"cdev", i>>}, {Devices})
          BY <1>2, <3>1, ScullFrees DEF f
        <4>2. QED
          BY <4>1, FreeFields
      <3>3. Devices \notin f.frees /\ PDevices \notin f.frees /\ Cache \notin f.frees
        BY <3>2, KindsOf
      <3>4. k < nr_devs + 4 /\ k /= nr_devs + 5
        BY <2>4, Counts
      <3>5. QED
        BY <1>0, <1>1, <3>2, <3>3, <3>4, KindsOf DEF FreeFacts, Scullish, UsesDevices
    <2>5. CASE k = nr_devs + 3
      <3>1. f.frees = {Region} /\ f.touches = {}
        <4>1. f = Free({Region}, {})
          BY <1>2, <2>5, ScullFrees DEF f
        <4>2. QED
          BY <4>1, FreeFields
      <3>2. k /= 3 /\ k /= nr_devs + 5
        BY <2>5, Counts
      <3>3. QED
        BY <1>0, <1>1, <3>1, <3>2, KindsOf DEF FreeFacts, Scullish, UsesDevices
    <2>6. CASE k = nr_devs + 4
      <3>1. f.frees = {Devices} /\ f.touches = {}
        <4>1. f = Free({Devices}, {})
          BY <1>2, <2>6, ScullFrees DEF f
        <4>2. QED
          BY <4>1, FreeFields
      <3>2. k /= 3 /\ k /= nr_devs + 5
        BY <2>6, Counts
      <3>3. QED
        BY <1>0, <1>1, <2>6, <3>1, <3>2, KindsOf DEF FreeFacts, Scullish, UsesDevices
    <2>7. CASE k \in nr_devs + 5 .. nr_devs + p_nr_devs + 4
      <3>1. PICK i \in 1 .. p_nr_devs : k = nr_devs + 4 + i
        <4>1. k - (nr_devs + 4) \in 1 .. p_nr_devs /\ k = nr_devs + 4 + (k - (nr_devs + 4))
          BY <2>7, Counts
        <4>2. QED
          BY <4>1
      <3>2. f.frees = {<<"p_cdev", i>>, <<"p_buffer", i>>} /\ f.touches = {PDevices}
        <4>1. f = Free({<<"p_cdev", i>>, <<"p_buffer", i>>}, {PDevices})
          BY <1>2, <3>1, ScullFrees DEF f
        <4>2. QED
          BY <4>1, FreeFields
      <3>3. Devices \notin f.frees /\ PDevices \notin f.frees /\ Cache \notin f.frees
        BY <3>2, KindsOf
      <3>4. k < nr_devs + p_nr_devs + 6 /\ k /= 3
        BY <2>7, Counts
      <3>5. QED
        BY <1>0, <1>1, <3>2, <3>3, <3>4, KindsOf DEF FreeFacts, Scullish, UsesDevices
    <2>8. CASE k = nr_devs + p_nr_devs + 5
      <3>1. f.frees = {PRegion} /\ f.touches = {}
        <4>1. f = Free({PRegion}, {})
          BY <1>2, <2>8, ScullFrees DEF f
        <4>2. QED
          BY <4>1, FreeFields
      <3>2. k /= 3 /\ k /= nr_devs + 5
        BY <2>8, Counts
      <3>3. QED
        BY <1>0, <1>1, <3>1, <3>2, KindsOf DEF FreeFacts, Scullish, UsesDevices
    <2>9. CASE k = nr_devs + p_nr_devs + 6
      <3>1. f.frees = {PDevices} /\ f.touches = {}
        <4>1. f = Free({PDevices}, {})
          BY <1>2, <2>9, ScullFrees DEF f
        <4>2. QED
          BY <4>1, FreeFields
      <3>2. k /= 3 /\ k /= nr_devs + 5
        BY <2>9, Counts
      <3>3. QED
        BY <1>0, <1>1, <2>9, <3>1, <3>2, KindsOf DEF FreeFacts, Scullish, UsesDevices
    <2>10. CASE k > nr_devs + p_nr_devs + 6
      <3>1. PICK i \in 1 .. a_nr_devs : k = nr_devs + p_nr_devs + 6 + i
        <4>1. /\ k - (nr_devs + p_nr_devs + 6) \in 1 .. a_nr_devs
              /\ k = nr_devs + p_nr_devs + 6 + (k - (nr_devs + p_nr_devs + 6))
          BY <1>0, <2>1, <2>10, Counts
        <4>2. QED
          BY <4>1
      <3>2. f.frees = {<<"a_cdev", i>>, <<"a_data", i>>, <<"a_region", i>>} /\ f.touches = {}
        <4>1. f = Free({<<"a_cdev", i>>, <<"a_data", i>>, <<"a_region", i>>}, {})
          BY <1>2, <3>1, ScullFrees DEF f
        <4>2. QED
          BY <4>1, FreeFields
      <3>3. Devices \notin f.frees /\ PDevices \notin f.frees /\ Cache \notin f.frees
        BY <3>2, KindsOf
      <3>4. k /= 3 /\ k /= nr_devs + 5
        BY <2>10, Counts
      <3>5. QED
        BY <1>0, <1>1, <3>2, <3>3, <3>4, KindsOf DEF FreeFacts, Scullish, UsesDevices
    <2>11. \/ k \in {1, 2} \/ k \in 3 .. nr_devs + 2
           \/ k \in {nr_devs + 3, nr_devs + 4} \/ k \in nr_devs + 5 .. nr_devs + p_nr_devs + 4
           \/ k \in {nr_devs + p_nr_devs + 5, nr_devs + p_nr_devs + 6}
           \/ k > nr_devs + p_nr_devs + 6
      BY <2>1, Counts
    <2>12. QED
      BY <2>2, <2>3, <2>4, <2>5, <2>6, <2>7, <2>8, <2>9, <2>10, <2>11
  <1>5. ASSUME NEW r \in Resources(m)
        PROVE  \E k \in 1 .. n : r \in u[k].frees
    <2>1. \/ r \in {Region, Devices, PRegion, PDevices, <<"scullmem", 0>>, <<"scullseq", 0>>}
          \/ \E i \in 1 .. nr_devs : r \in {<<"data", i>>, <<"cdev", i>>}
          \/ \E i \in 1 .. p_nr_devs : r \in {<<"p_cdev", i>>, <<"p_buffer", i>>}
          \/ \E i \in 1 .. a_nr_devs : r \in {<<"a_cdev", i>>, <<"a_data", i>>, <<"a_region", i>>}
      BY <1>0 DEF Resources, Numbered
    <2>2. /\ 1 \in 1 .. n /\ 2 \in 1 .. n /\ nr_devs + 3 \in 1 .. n /\ nr_devs + 4 \in 1 .. n
          /\ nr_devs + p_nr_devs + 5 \in 1 .. n /\ nr_devs + p_nr_devs + 6 \in 1 .. n
          /\ \A i \in 1 .. nr_devs : 2 + i \in 1 .. n
          /\ \A i \in 1 .. p_nr_devs : nr_devs + 4 + i \in 1 .. n
          /\ \A i \in 1 .. a_nr_devs : nr_devs + p_nr_devs + 6 + i \in 1 .. n
      BY <1>0, Counts
    <2>3. CASE r \in {Region, Devices, PRegion, PDevices, <<"scullmem", 0>>, <<"scullseq", 0>>}
      <3>1. /\ <<"scullmem", 0>> \in u[1].frees /\ <<"scullseq", 0>> \in u[2].frees
            /\ Region \in u[nr_devs + 3].frees /\ Devices \in u[nr_devs + 4].frees
            /\ PRegion \in u[nr_devs + p_nr_devs + 5].frees
            /\ PDevices \in u[nr_devs + p_nr_devs + 6].frees
        BY <1>2, ScullFrees DEF Free
      <3>2. QED
        BY <2>2, <2>3, <3>1
    <2>4. ASSUME NEW i \in 1 .. nr_devs, r \in {<<"data", i>>, <<"cdev", i>>}
          PROVE  \E k \in 1 .. n : r \in u[k].frees
      <3>1. PICK k \in 1 .. n : k = 2 + i
        BY <2>2
      <3>2. u[k] = Free({<<"data", i>>, <<"cdev", i>>}, {Devices})
        BY <1>2, <3>1, ScullFrees
      <3>3. QED
        BY <2>4, <3>2, FreeFields
    <2>5. ASSUME NEW i \in 1 .. p_nr_devs, r \in {<<"p_cdev", i>>, <<"p_buffer", i>>}
          PROVE  \E k \in 1 .. n : r \in u[k].frees
      <3>1. PICK k \in 1 .. n : k = nr_devs + 4 + i
        BY <2>2
      <3>2. u[k] = Free({<<"p_cdev", i>>, <<"p_buffer", i>>}, {PDevices})
        BY <1>2, <3>1, ScullFrees
      <3>3. QED
        BY <2>5, <3>2, FreeFields
    <2>6. ASSUME NEW i \in 1 .. a_nr_devs, r \in {<<"a_cdev", i>>, <<"a_data", i>>, <<"a_region", i>>}
          PROVE  \E k \in 1 .. n : r \in u[k].frees
      <3>1. PICK k \in 1 .. n : k = nr_devs + p_nr_devs + 6 + i
        BY <2>2
      <3>2. u[k] = Free({<<"a_cdev", i>>, <<"a_data", i>>, <<"a_region", i>>}, {})
        BY <1>2, <3>1, ScullFrees
      <3>3. QED
        BY <2>6, <3>2, FreeFields
    <2>7. QED
      BY <2>1, <2>3, <2>4, <2>5, <2>6, Zenon
  <1>6. FirstDev(m) <= n /\ FirstPipe <= n
    BY <1>0, <1>1, Counts
  <1>7. QED
    BY <1>0, <1>2, <1>3, <1>4, <1>5, <1>6 DEF ExitFacts

LEMMA CacheExitFacts ==
    ASSUME NEW m \in {"scullc", "scullp"}
    PROVE  ExitFacts(m)
  <1>0. (m = "scullc" \/ m = "scullp") /\ m /= "scull"
    OBVIOUS
  <1>1. DevFree(m) = nr_devs + 2 /\ FirstDev(m) = 1
    BY <1>0 DEF DevFree, FirstDev
  <1>2. PICK u, n, a, na, b, nb, e :
          /\ u = ExitOf(m) /\ n = nr_devs + 3
          /\ a = scull_exit_devices /\ na = nr_devs + 2
          /\ b = <<e>> /\ nb = 1 /\ e = Free({Cache}, {})
    OBVIOUS
  <1>3. IsSeq(a, na) /\ IsSeq(b, nb) /\ b[1] = e
    BY <1>2, ExitDevicesShape, Single
  <1>4. u = a \o b
    BY <1>0, <1>2 DEF ExitOf, scullc_exit, scullp_exit
  <1>5. Joined(u, a, na, b, nb)
    BY <1>3, <1>4, Concat
  <1>6. /\ n \in Nat /\ n = na + nb /\ n = na + 1 /\ na \in Nat
        /\ 1 \in 1 .. n /\ n \in 1 .. n
    BY <1>2, Counts
  <1>7. Len(u) = n
    <2>1. IsSeq(u, n)
      BY <1>5, <1>6 DEF Joined
    <2>2. QED
      BY <2>1, SeqLen
  <1>8. u[n] = e
    <2>1. u[na + 1] = b[1]
      BY <1>2, <1>5 DEF Joined
    <2>2. QED
      BY <1>3, <1>6, <2>1
  <1>9. \A k \in 1 .. na : u[k] = a[k]
    BY <1>5 DEF Joined
  <1>10. ASSUME NEW k \in 1 .. n
         PROVE  FreeFacts(m, k, u[k])
    <2> DEFINE f == u[k]
    <2> SUFFICES FreeFacts(m, k, f)
      OBVIOUS
    <2>1. k \in Nat /\ k >= 1 /\ Len(ExitOf(m)) = n
      BY <1>2, <1>6, <1>7
    <2> HIDE DEF f
    <2>2. CASE k \in 1 .. nr_devs
      <3>1. f.frees = {<<"data", k>>, <<"cdev", k>>} /\ f.touches = {Devices}
        <4>1. k \in 1 .. na
          BY <1>2, <2>2, Counts
        <4>2. f = Free({<<"data", k>>, <<"cdev", k>>}, {Devices})
          BY <1>2, <1>9, <2>2, <4>1, ExitDevicesShape DEF f
        <4>3. QED
          BY <4>2, FreeFields
      <3>2. Devices \notin f.frees /\ PDevices \notin f.frees /\ Cache \notin f.frees
        BY <3>1, KindsOf
      <3>3. k < nr_devs + 2
        BY <2>2, Counts
      <3>4. QED
        BY <1>0, <1>1, <3>1, <3>2, <3>3, KindsOf DEF FreeFacts, Scullish, UsesDevices
    <2>3. CASE k = nr_devs + 1
      <3>1. f.frees = {Region} /\ f.touches = {}
        <4>1. k \in 1 .. na
          BY <1>2, <2>3, Counts
        <4>2. f = Free({Region}, {})
          BY <1>2, <1>9, <2>3, <4>1, ExitDevicesShape DEF f
        <4>3. QED
          BY <4>2, FreeFields
      <3>2. k /= 1
        BY <2>3, Counts
      <3>3. QED
        BY <1>0, <1>1, <3>1, <3>2, KindsOf DEF FreeFacts, Scullish, UsesDevices
    <2>4. CASE k = nr_devs + 2
      <3>1. f.frees = {Devices} /\ f.touches = {}
        <4>1. k \in 1 .. na
          BY <1>2, <2>4, Counts
        <4>2. f = Free({Devices}, {})
          BY <1>2, <1>9, <2>4, <4>1, ExitDevicesShape DEF f
        <4>3. QED
          BY <4>2, FreeFields
      <3>2. k /= 1
        BY <2>4, Counts
      <3>3. QED
        BY <1>0, <1>1, <2>4, <3>1, <3>2, KindsOf DEF FreeFacts, Scullish, UsesDevices
    <2>5. CASE k = n
      <3>1. f.frees = {Cache} /\ f.touches = {}
        BY <1>2, <1>8, <2>5, FreeFields DEF f
      <3>2. k /= 1
        BY <1>2, <2>5, Counts
      <3>3. QED
        BY <1>0, <1>1, <2>1, <2>5, <3>1, <3>2, KindsOf DEF FreeFacts, Scullish, UsesDevices
    <2>6. k \in 1 .. nr_devs \/ k \in {nr_devs + 1, nr_devs + 2, n}
      BY <1>2, <2>1, Counts
    <2>7. QED
      BY <2>2, <2>3, <2>4, <2>5, <2>6
  <1>11. ASSUME NEW r \in Resources(m)
         PROVE  \E k \in 1 .. n : r \in u[k].frees
    <2>1. \/ r \in {Region, Devices, Cache}
          \/ \E i \in 1 .. nr_devs : r \in {<<"data", i>>, <<"cdev", i>>}
      BY <1>0 DEF Resources, Numbered
    <2>2. /\ nr_devs + 1 \in 1 .. na /\ nr_devs + 2 \in 1 .. na
          /\ \A k \in 1 .. na : k \in 1 .. n
          /\ \A i \in 1 .. nr_devs : i \in 1 .. na
      BY <1>2, Counts
    <2>3. CASE r = Region
      <3>1. PICK k \in 1 .. na : k = nr_devs + 1
        BY <2>2
      <3>2. u[k] = Free({Region}, {})
        BY <1>2, <1>9, <3>1, ExitDevicesShape
      <3>3. QED
        BY <2>2, <2>3, <3>2, FreeFields
    <2>4. CASE r = Devices
      <3>1. PICK k \in 1 .. na : k = nr_devs + 2
        BY <2>2
      <3>2. u[k] = Free({Devices}, {})
        BY <1>2, <1>9, <3>1, ExitDevicesShape
      <3>3. QED
        BY <2>2, <2>4, <3>2, FreeFields
    <2>5. CASE r = Cache
      <3>1. u[n].frees = {Cache}
        BY <1>2, <1>8, FreeFields
      <3>2. QED
        BY <1>6, <2>5, <3>1
    <2>6. ASSUME NEW i \in 1 .. nr_devs, r \in {<<"data", i>>, <<"cdev", i>>}
          PROVE  \E k \in 1 .. n : r \in u[k].frees
      <3>1. i \in 1 .. na /\ i \in 1 .. n
        BY <2>2
      <3>2. u[i] = Free({<<"data", i>>, <<"cdev", i>>}, {Devices})
        BY <1>2, <1>9, <3>1, ExitDevicesShape
      <3>3. QED
        BY <2>6, <3>1, <3>2, FreeFields
    <2>7. QED
      BY <2>1, <2>3, <2>4, <2>5, <2>6
  <1>12. FirstDev(m) <= n
    BY <1>1, <1>6
  <1>13. QED
    BY <1>0, <1>2, <1>6, <1>7, <1>10, <1>11, <1>12 DEF ExitFacts

LEMMA OneExitFacts ==
    ASSUME NEW m \in {"globalmem", "completion"}
    PROVE  ExitFacts(m)
  <1>0. m = "globalmem" \/ m = "completion"
    OBVIOUS
  <1>1. DevFree(m) = 2
    BY <1>0 DEF DevFree
  <1>2. PICK u, a, b, e : /\ u = ExitOf(m)
                          /\ a = Free({<<"cdev", 1>>}, {Devices})
                          /\ b = Free({Devices}, {})
                          /\ e = Free({Region}, {})
    OBVIOUS
  <1>3. u = <<a, b, e>>
    BY <1>0, <1>2 DEF ExitOf, globalmem_exit, completion_exit
  <1>4. Len(u) = 3 /\ u[1] = a /\ u[2] = b /\ u[3] = e
    BY <1>3
  <1>5. /\ a.frees = {<<"cdev", 1>>} /\ a.touches = {Devices}
        /\ b.frees = {Devices} /\ b.touches = {}
        /\ e.frees = {Region} /\ e.touches = {}
    BY <1>2, FreeFields
  <1>6. ASSUME NEW k \in 1 .. 3
        PROVE  FreeFacts(m, k, u[k])
    <2>1. CASE k = 1
      BY <1>0, <1>1, <1>4, <1>5, <2>1, KindsOf DEF FreeFacts, UsesDevices, Scullish
    <2>2. CASE k = 2
      BY <1>0, <1>1, <1>4, <1>5, <2>2, KindsOf DEF FreeFacts, UsesDevices, Scullish
    <2>3. CASE k = 3
      BY <1>0, <1>1, <1>4, <1>5, <2>3, KindsOf DEF FreeFacts, UsesDevices, Scullish
    <2>4. QED
      BY <2>1, <2>2, <2>3
  <1>7. ASSUME NEW r \in Resources(m)
        PROVE  \E k \in 1 .. 3 : r \in u[k].frees
    <2>1. r \in {Region, Devices, <<"cdev", 1>>}
      BY <1>0 DEF Resources
    <2>2. 1 \in 1 .. 3 /\ 2 \in 1 .. 3 /\ 3 \in 1 .. 3
      OBVIOUS
    <2>3. QED
      BY <1>4, <1>5, <2>1, <2>2
  <1>8. QED
    BY <1>0, <1>2, <1>4, <1>6, <1>7 DEF ExitFacts, Scullish

LEMMA SleepyExitFacts == ExitFacts("sleepy")
  <1>0. PICK m : m = "sleepy"
    OBVIOUS
  <1>1. PICK u, a, b : /\ u = ExitOf(m)
                       /\ a = Free({<<"cdev", 1>>}, {})
                       /\ b = Free({Region}, {})
    OBVIOUS
  <1>2. u = <<a, b>>
    BY <1>0, <1>1 DEF ExitOf, sleepy_exit
  <1>3. Len(u) = 2 /\ u[1] = a /\ u[2] = b
    BY <1>2
  <1>4. /\ a.frees = {<<"cdev", 1>>} /\ a.touches = {}
        /\ b.frees = {Region} /\ b.touches = {}
    BY <1>1, FreeFields
  <1>5. ASSUME NEW k \in 1 .. 2
        PROVE  FreeFacts(m, k, u[k])
    <2>1. CASE k = 1
      BY <1>0, <1>3, <1>4, <2>1, KindsOf DEF FreeFacts, UsesDevices, Scullish
    <2>2. CASE k = 2
      BY <1>0, <1>3, <1>4, <2>2, KindsOf DEF FreeFacts, UsesDevices, Scullish
    <2>3. QED
      BY <2>1, <2>2
  <1>6. ASSUME NEW r \in Resources(m)
        PROVE  \E k \in 1 .. 2 : r \in u[k].frees
    <2>1. r \in {Region, <<"cdev", 1>>}
      BY <1>0 DEF Resources
    <2>2. 1 \in 1 .. 2 /\ 2 \in 1 .. 2
      OBVIOUS
    <2>3. QED
      BY <1>3, <1>4, <2>1, <2>2
  <1>7. QED
    BY <1>0, <1>1, <1>3, <1>5, <1>6 DEF ExitFacts, Scullish

LEMMA FilesExitFacts ==
    ASSUME NEW m \in {"jiq", "jit"}
    PROVE  ExitFacts(m)
  <1>0. m = "jiq" \/ m = "jit"
    OBVIOUS
  <1>1. PICK u, n : u = ExitOf(m) /\ n = nr_files
    OBVIOUS
  <1>2. u = [i \in 1 .. n |-> Free({<<"file", i>>}, {})] /\ n \in Nat
    BY <1>0, <1>1, Counts DEF ExitOf, jiq_cleanup, jit_cleanup
  <1>3. Len(u) = n
    <2>1. IsSeq(u, n)
      BY <1>2 DEF IsSeq
    <2>2. QED
      BY <2>1, SeqLen
  <1>4. \A k \in 1 .. n : u[k].frees = {<<"file", k>>} /\ u[k].touches = {}
    BY <1>2 DEF Free
  <1>5. ASSUME NEW k \in 1 .. n
        PROVE  FreeFacts(m, k, u[k])
    BY <1>0, <1>4, KindsOf DEF FreeFacts, UsesDevices, Scullish
  <1>6. ASSUME NEW r \in Resources(m)
        PROVE  \E k \in 1 .. n : r \in u[k].frees
    <2>1. PICK i \in 1 .. n : r = <<"file", i>>
      BY <1>0, <1>1 DEF Resources, Numbered
    <2>2. QED
      BY <1>4, <2>1
  <1>7. QED
    BY <1>0, <1>1, <1>2, <1>3, <1>5, <1>6 DEF ExitFacts, Scullish

LEMMA ExitShape ==
    ASSUME NEW m \in ModuleNames
    PROVE  ExitFacts(m)
  BY ScullExitFacts, CacheExitFacts, OneExitFacts, SleepyExitFacts, FilesExitFacts DEF ModuleNames

-----------------------------------------------------------------------------
(* What can be told of a resource from its kind, and of a failure from the *)
(* call that failed.                                                       *)

LEMMA ResourceKinds ==
    ASSUME NEW m \in ModuleNames, NEW r \in Resources(m)
    PROVE  /\ r[1] \notin {"work", "scull_listitem"}
           /\ r[1] = "cdev" => m \in UsesDevices \cup {"sleepy"}
           /\ r[1] = "cdev" /\ m \in Scullish => \E i \in 1 .. nr_devs : r = <<"cdev", i>>
           /\ r[1] = "p_cdev" => m = "scull" /\ \E i \in 1 .. p_nr_devs : r = <<"p_cdev", i>>
           /\ r[1] = "a_cdev" => m = "scull" /\ \E i \in 1 .. a_nr_devs : r = <<"a_cdev", i>>
  <1>1. CASE m = "scull"
    BY <1>1, KindsOf DEF Resources, Numbered, UsesDevices, Scullish
  <1>2. CASE m \in {"scullc", "scullp"}
    BY <1>2, KindsOf DEF Resources, Numbered, UsesDevices, Scullish
  <1>3. CASE m \in {"globalmem", "completion"}
    BY <1>3, KindsOf DEF Resources, Numbered, UsesDevices, Scullish
  <1>4. CASE m = "sleepy"
    BY <1>4, KindsOf DEF Resources, Numbered, UsesDevices, Scullish
  <1>5. CASE m \in {"jiq", "jit"}
    BY <1>5, KindsOf DEF Resources, Numbered, UsesDevices, Scullish
  <1>6. QED
    BY <1>1, <1>2, <1>3, <1>4, <1>5 DEF ModuleNames

LEMMA CallsOf ==
    ASSUME mod \in ModuleNames
    PROVE  /\ Len(calls) \in Nat /\ Len(frees) \in Nat
           /\ mod \in UsesDevices => Len(calls) >= 2
           /\ mod \in {"scullc", "scullp"} => Len(calls) > 2 /\ calls[Len(calls)].takes = Cache
           /\ mod = "scull" => Len(calls) > PAlloc + p_nr_devs
           /\ \A k \in 1 .. Len(calls) : CallFacts(mod, k, calls[k])
  BY InitShape, ExitShape DEF InitFacts, ExitFacts, calls, frees

LEMMA FreesOf ==
    ASSUME mod \in ModuleNames
    PROVE  /\ mod \in Scullish => FirstDev(mod) <= Len(frees)
           /\ mod = "scull" => FirstPipe <= Len(frees)
           /\ \A k \in 1 .. Len(frees) : FreeFacts(mod, k, frees[k])
           /\ \A r \in Resources(mod) : \E k \in 1 .. Len(frees) : r \in frees[k].frees
  BY ExitShape DEF ExitFacts, frees

LEMMA HiddenCall ==
    ASSUME mod \in ModuleNames, NEW k \in 1 .. Len(calls)
    PROVE  calls[k].takes \in Hidden <=> Hides(calls[k])
  <1>1. CASE Hides(calls[k])
    BY <1>1 DEF Hidden, Hides
  <1>2. CASE calls[k].takes \in Hidden
    <2>1. PICK i \in 1 .. Len(calls) : calls[i].takes = calls[k].takes /\ Hides(calls[i])
      BY <1>2 DEF Hidden, Hides
    <2>2. mod \in Scullish /\ calls[i].takes[1] \in HiddenKinds
      BY <2>1, CallsOf DEF CallFacts
    <2>3. Hides(calls[k]) <=> mod \in Scullish /\ calls[k].takes[1] \in HiddenKinds
      BY CallsOf DEF CallFacts
    <2>4. Hides(calls[k])
      BY <2>1, <2>2, <2>3
    <2>5. QED
      BY <1>2, <2>4
  <1>3. QED
    BY <1>1, <1>2

(* scull_init goes on after the part that failed.                          *)
LEMMA PastPartIs ==
    ASSUME mod \in ModuleNames, NEW k \in 1 .. Len(calls), calls[k].then = "out"
    PROVE  /\ PastPart(k) \in k + 1 .. Len(calls) + 1
           /\ PastPart(k) > PAlloc
  <1>1. PICK n : n = Len(calls)
    OBVIOUS
  <1>2. n \in Nat /\ k \in 1 .. n /\ k \in Nat /\ PAlloc \in Nat /\ p_nr_devs \in Nat
    BY <1>1, CallsOf, Counts DEF PAlloc
  <1>3. /\ mod = "scull" /\ n > PAlloc + p_nr_devs
        /\ calls[k].part \in {"pipe", "access"}
        /\ \A i \in 1 .. n : calls[i].part = "pipe" <=> i \in PAlloc - 1 .. PAlloc + p_nr_devs
        /\ \A i \in 1 .. n : calls[i].part = "access" <=> i > PAlloc + p_nr_devs
    BY <1>1, CallsOf DEF CallFacts
  <1> DEFINE P(x) == /\ \A i \in k .. x - 1 : calls[i].part = calls[k].part
                     /\ x <= Len(calls) => calls[x].part /= calls[k].part
  <1>4. \E x \in k + 1 .. n + 1 : P(x)
    <2>1. CASE calls[k].part = "pipe"
      <3>1. PICK x : x = PAlloc + p_nr_devs + 1
        OBVIOUS
      <3>2. k \in PAlloc - 1 .. PAlloc + p_nr_devs
        BY <1>1, <1>3, <2>1
      <3>3. x \in k + 1 .. n + 1 /\ x \in 1 .. n /\ x \notin PAlloc - 1 .. PAlloc + p_nr_devs
        BY <1>2, <1>3, <3>1, <3>2
      <3>4. ASSUME NEW i \in k .. x - 1
            PROVE  calls[i].part = "pipe"
        <4>1. i \in 1 .. n /\ i \in PAlloc - 1 .. PAlloc + p_nr_devs
          BY <1>2, <1>3, <3>1, <3>2
        <4>2. QED
          BY <1>3, <4>1
      <3>5. calls[x].part /= "pipe"
        BY <1>3, <3>3
      <3>6. QED
        BY <2>1, <3>3, <3>4, <3>5
    <2>2. CASE calls[k].part = "access"
      <3>1. n + 1 \in k + 1 .. n + 1 /\ ~(n + 1 <= n)
        BY <1>2
      <3>2. ASSUME NEW i \in k .. (n + 1) - 1
            PROVE  calls[i].part = "access"
        <4>1. k > PAlloc + p_nr_devs
          BY <1>1, <1>3, <2>2
        <4>2. i \in 1 .. n /\ i > PAlloc + p_nr_devs
          BY <1>2, <4>1
        <4>3. QED
          BY <1>3, <4>2
      <3>3. QED
        BY <1>1, <2>2, <3>1, <3>2
    <2>3. QED
      BY <1>3, <2>1, <2>2
  <1>5. PICK y : y = PastPart(k)
    OBVIOUS
  <1>6. y \in k + 1 .. n + 1 /\ P(y)
    <2>1. y = CHOOSE x \in k + 1 .. n + 1 : P(x)
      BY <1>1, <1>5 DEF PastPart
    <2> HIDE DEF P
    <2>2. QED
      BY <1>4, <2>1
  <1>7. y > PAlloc
    <2>1. CASE calls[k].part = "pipe"
      <3>1. k \in PAlloc - 1 .. PAlloc + p_nr_devs
        BY <1>1, <1>3, <2>1
      <3>2. CASE y = PAlloc
        <4>1. y \in 1 .. n /\ y \in PAlloc - 1 .. PAlloc + p_nr_devs
          BY <1>2, <1>3, <1>6, <3>2
        <4>2. calls[y].part = "pipe"
          BY <1>3, <4>1
        <4>3. calls[y].part /= calls[k].part
          BY <1>1, <1>6, <4>1
        <4>4. QED
          BY <2>1, <4>2, <4>3
      <3>3. QED
        BY <1>2, <1>6, <3>1, <3>2
    <2>2. CASE calls[k].part = "access"
      BY <1>1, <1>2, <1>3, <1>6, <2>2
    <2>3. QED
      BY <1>3, <2>1, <2>2
  <1>8. QED
    BY <1>1, <1>5, <1>6, <1>7

-----------------------------------------------------------------------------
(* The steps of the kernel keep the invariant.                             *)

LEMMA SameMod ==
    ASSUME mod' = mod
    PROVE  calls' = calls /\ frees' = frees /\ Hidden' = Hidden
  BY DEF calls, frees, Hidden

LEMMA InitSucceedsKeeps ==
    ASSUME LoadInv, InitSucceeds
    PROVE  LoadInv'
  <1>1. /\ phase = "init" /\ at <= Len(calls) /\ at' = at + 1
        /\ held' = held \cup {calls[at].takes}
        /\ mod' = mod /\ phase' = phase /\ failed' = failed /\ open' = open /\ wild' = wild
    BY DEF InitSucceeds
  <1>2. calls' = calls /\ frees' = frees /\ Hidden' = Hidden
    BY <1>1, SameMod
  <1>3. mod \in ModuleNames /\ at \in 1 .. Len(calls) /\ Len(calls) \in Nat /\ PAlloc \in Nat
    BY <1>1, CallsOf, Counts DEF LoadInv, Places, PAlloc
  <1>4. PICK c : c = calls[at] /\ CallFacts(mod, at, c)
    BY <1>3, CallsOf
  <1>5. Places'
    BY <1>1, <1>2, <1>3 DEF LoadInv, Places
  <1>6. Owned'
    <2>1. c.takes \in Resources(mod)
      BY <1>3, <1>4 DEF CallFacts
    <2>2. QED
      BY <1>1, <1>4, <2>1 DEF LoadInv, Owned
  <1>7. Begun'
    <2>1. at' /= 1
      BY <1>1, <1>3
    <2>2. ASSUME at' = 2, mod \in UsesDevices
          PROVE  held' = {Region} /\ failed' = {}
      <3>1. at = 1
        BY <1>1, <1>3, <2>2
      <3>2. held = {} /\ failed = {}
        BY <1>1, <3>1 DEF LoadInv, Begun
      <3>3. c.takes = Region
        BY <1>4, <2>2, <3>1 DEF CallFacts
      <3>4. QED
        BY <1>1, <1>4, <3>2, <3>3
    <2>3. ASSUME mod = "scull", at' <= PAlloc
          PROVE  \A r \in held' : r[1] \notin {"p_cdev", "p_devices"}
      <3>1. at < PAlloc /\ at <= PAlloc
        BY <1>1, <1>3, <2>3
      <3>2. c.takes[1] /= "p_cdev"
        BY <1>3, <1>4, <3>1 DEF CallFacts
      <3>3. c.takes[1] /= "p_devices"
        <4>1. c.part /= "pipe" \/ c.takes /= PDevices
          BY <1>3, <1>4, <3>1 DEF CallFacts
        <4>2. QED
          BY <1>3, <1>4, <2>3, <3>1, KindsOf DEF CallFacts, Resources, Numbered
      <3>4. \A r \in held : r[1] \notin {"p_cdev", "p_devices"}
        BY <1>1, <2>3, <3>1 DEF LoadInv, Begun
      <3>5. QED
        BY <1>1, <1>4, <3>2, <3>3, <3>4
    <2>4. QED
      BY <1>1, <2>1, <2>2, <2>3 DEF Begun
  <1>8. Refused' /\ Passed'
    BY <1>1 DEF Refused, Passed
  <1>9. Sound'
    <2>1. ASSUME failed \cap Hidden = {}, mod \in UsesDevices, at' > 2
          PROVE  Devices \in held'
      <3>1. CASE at = 2
        BY <1>1, <1>4, <2>1, <3>1 DEF CallFacts
      <3>2. CASE at > 2
        BY <1>1, <2>1, <3>2 DEF LoadInv, Sound
      <3>3. QED
        BY <1>1, <1>3, <2>1, <3>1, <3>2
    <2>2. ASSUME failed \cap Hidden = {}, mod = "scull", at' > PAlloc
          PROVE  PDevices \in held'
      <3>1. CASE at = PAlloc
        BY <1>1, <1>4, <2>2, <3>1 DEF CallFacts
      <3>2. CASE at > PAlloc
        BY <1>1, <2>2, <3>2 DEF LoadInv, Sound
      <3>3. QED
        BY <1>1, <1>3, <2>2, <3>1, <3>2
    <2>3. ASSUME failed \cap Hidden = {}, mod = "scullc", at' > Len(calls)
          PROVE  Cache \in held'
      <3>1. at = Len(calls)
        BY <1>1, <1>3, <2>3
      <3>2. QED
        BY <1>1, <1>3, <2>3, <3>1, CallsOf
    <2>4. QED
      BY <1>1, <1>2, <2>1, <2>2, <2>3 DEF Sound
  <1>10. Doomed'
    <2>1. SUFFICES ASSUME failed \cap Hidden /= {}
                   PROVE  /\ mod \in Scullish /\ mod = "scull"
                          /\ PDevices \notin held' /\ at' > PAlloc
      BY <1>1, <1>2 DEF Doomed
    <2>2. mod = "scull" /\ PDevices \notin held /\ at > PAlloc
      BY <1>1, <2>1 DEF LoadInv, Doomed
    <2>3. c.takes /= PDevices
      BY <1>3, <1>4, <2>2 DEF CallFacts
    <2>4. QED
      BY <1>1, <1>3, <1>4, <2>2, <2>3 DEF Scullish
  <1>11. QED
    BY <1>5, <1>6, <1>7, <1>8, <1>9, <1>10 DEF LoadInv

LEMMA InitFailsKeeps ==
    ASSUME LoadInv, InitFails
    PROVE  LoadInv'
  <1>1. /\ phase = "init" /\ at <= Len(calls)
        /\ held' = held \ calls[at].undo
        /\ failed' = failed \cup {calls[at].takes}
        /\ mod' = mod /\ open' = open /\ wild' = wild
    BY DEF InitFails
  <1>2. calls' = calls /\ frees' = frees /\ Hidden' = Hidden
    BY <1>1, SameMod
  <1>3. mod \in ModuleNames /\ at \in 1 .. Len(calls) /\ Len(calls) \in Nat /\ PAlloc \in Nat
    BY <1>1, CallsOf, Counts DEF LoadInv, Places, PAlloc
  <1>4. PICK c : c = calls[at] /\ CallFacts(mod, at, c)
    BY <1>3, CallsOf
  <1>5. c.takes \in Hidden <=> Hides(c)
    BY <1>3, <1>4, HiddenCall
  <1>6. held' \subseteq held /\ held' = held \ c.undo /\ failed' = failed \cup {c.takes}
    BY <1>1, <1>4
  <1>7. Owned'
    BY <1>1, <1>6 DEF LoadInv, Owned
  <1>8. CASE c.then = "error"
    <2>1. phase' = "refused" /\ at' = at
      BY <1>4, <1>8 DEF InitFails
    <2>2. held' = {} /\ failed = {}
      <3>1. CASE at = 1 /\ c.undo = {}
        BY <1>1, <1>6, <3>1 DEF LoadInv, Begun
      <3>2. CASE at = 2 /\ c.undo = {Region} /\ mod \in UsesDevices
        BY <1>1, <1>6, <3>2 DEF LoadInv, Begun
      <3>3. QED
        BY <1>4, <1>8, <3>1, <3>2 DEF CallFacts
    <2>3. failed' \cap Hidden = {}
      <3>1. c.takes \notin Hidden
        BY <1>5, <1>8 DEF Hides
      <3>2. QED
        BY <1>6, <2>2, <3>1
    <2>4. Places' /\ Begun' /\ Passed'
      BY <1>1, <2>1 DEF LoadInv, Places, Begun, Passed, Phases
    <2>5. Refused' /\ Doomed'
      BY <1>2, <2>2, <2>3 DEF Refused, Doomed
    <2>6. Sound'
      BY <2>1 DEF Sound
    <2>7. QED
      BY <1>7, <2>4, <2>5, <2>6 DEF LoadInv
  <1>9. CASE c.then = "return"
    <2>1. phase' = "live" /\ at' = 1
      BY <1>4, <1>9 DEF InitFails
    <2>2. mod \in Scullish /\ at > 1 /\ (at > 2 => Devices \in c.undo)
      BY <1>4, <1>9 DEF CallFacts
    <2>3. Devices \notin held'
      <3>1. CASE at = 2
        <4>1. held = {Region}
          BY <1>1, <2>2, <3>1 DEF LoadInv, Begun, UsesDevices
        <4>2. QED
          BY <1>6, <4>1, KindsOf
      <3>2. CASE at > 2
        BY <1>6, <2>2, <3>2
      <3>3. QED
        BY <1>3, <2>2, <3>1, <3>2
    <2>4. failed' \cap Hidden /= {}
      <3>1. c.takes \in Hidden
        BY <1>5, <1>9 DEF Hides
      <3>2. QED
        BY <1>6, <3>1
    <2>5. Places' /\ Begun' /\ Passed' /\ Refused'
      BY <1>1, <2>1 DEF LoadInv, Places, Begun, Passed, Refused, Phases
    <2>6. Sound'
      BY <1>2, <2>4 DEF Sound
    <2>7. Doomed'
      BY <1>1, <2>1, <2>2, <2>3 DEF Doomed
    <2>8. QED
      BY <1>7, <2>5, <2>6, <2>7 DEF LoadInv
  <1>10. CASE c.then \in {"out", "next"}
    <2>1. phase' = "init" /\ at' \in at + 1 .. Len(calls) + 1
      <3>1. CASE c.then = "out"
        <4>1. at' = PastPart(at) /\ phase' = phase
          BY <1>4, <3>1 DEF InitFails
        <4>2. PastPart(at) \in at + 1 .. Len(calls) + 1
          BY <1>3, <1>4, <3>1, PastPartIs
        <4>3. QED
          BY <1>1, <4>1, <4>2
      <3>2. CASE c.then = "next"
        <4>1. at' = at + 1 /\ phase' = phase
          BY <1>4, <3>2 DEF InitFails
        <4>2. QED
          BY <1>1, <1>3, <4>1
      <3>3. QED
        BY <1>10, <3>1, <3>2
    <2>2. at' > at /\ at' \in Nat /\ at' > 1 /\ (at' > 2 \/ at = 1)
      BY <1>3, <2>1
    <2>3. c.then = "out" => at' > PAlloc
      <3>1. SUFFICES ASSUME c.then = "out" PROVE at' > PAlloc
        OBVIOUS
      <3>2. at' = PastPart(at)
        BY <1>4, <3>1 DEF InitFails
      <3>3. QED
        BY <1>3, <1>4, <3>1, <3>2, PastPartIs
    <2>4. c.then = "next" => at' = at + 1 /\ c.undo = {}
      <3>1. c.then = "next" => at' = at + 1
        BY <1>4 DEF InitFails
      <3>2. c.then = "next" => c.undo = {}
        BY <1>4 DEF CallFacts
      <3>3. QED
        BY <3>1, <3>2
    <2>5. Places'
      BY <1>1, <1>2, <1>3, <2>1 DEF LoadInv, Places
    <2>6. Begun'
      <3>1. ~(at' = 2 /\ mod \in UsesDevices)
        BY <1>4, <1>10, <2>2 DEF CallFacts
      <3>2. ASSUME mod = "scull", at' <= PAlloc
            PROVE  \A r \in held' : r[1] \notin {"p_cdev", "p_devices"}
        <4>1. at <= PAlloc
          BY <1>3, <2>2, <3>2
        <4>2. QED
          BY <1>1, <1>6, <3>2, <4>1 DEF LoadInv, Begun
      <3>3. QED
        BY <1>1, <2>2, <3>1, <3>2 DEF Begun
    <2>7. Refused' /\ Passed'
      BY <2>1 DEF Refused, Passed
    <2>8. Sound'
      <3>1. SUFFICES ASSUME failed' \cap Hidden = {}
                     PROVE  /\ mod \in UsesDevices /\ at' > 2 => Devices \in held'
                            /\ mod = "scull" /\ at' > PAlloc => PDevices \in held'
                            /\ mod = "scullc" /\ at' > Len(calls) => Cache \in held'
        BY <1>1, <1>2, <2>1 DEF Sound
      <3>2. failed \cap Hidden = {} /\ ~Hides(c)
        BY <1>5, <1>6, <3>1
      <3>3. c.undo = {}
        BY <1>4, <1>10, <2>4, <3>2 DEF CallFacts, Hides
      <3>4. held' = held
        BY <1>6, <3>3
      <3>5. ASSUME mod \in UsesDevices, at' > 2
            PROVE  Devices \in held
        <4>1. at /= 1
          BY <1>4, <1>10, <3>5 DEF CallFacts
        <4>2. at /= 2
          <5>1. CASE mod \in Scullish
            BY <1>4, <3>2, <5>1, KindsOf DEF CallFacts, HiddenKinds, UsesDevices
          <5>2. CASE mod \notin Scullish
            <6>1. mod \in {"globalmem", "completion"}
              BY <3>5, <5>2 DEF UsesDevices
            <6>2. QED
              BY <1>4, <1>10, <6>1 DEF CallFacts
          <5>3. QED
            BY <5>1, <5>2
        <4>3. at > 2
          BY <1>3, <4>1, <4>2
        <4>4. QED
          BY <1>1, <3>2, <3>5, <4>3 DEF LoadInv, Sound
      <3>6. ASSUME mod = "scull", at' > PAlloc
            PROVE  PDevices \in held
        <4>1. at /= PAlloc
          BY <1>4, <3>2, <3>6, KindsOf DEF CallFacts, Hides, PAlloc
        <4>2. ~(at < PAlloc)
          <5>1. CASE c.then = "next"
            BY <1>3, <2>4, <3>6, <4>1, <5>1
          <5>2. CASE c.then = "out"
            <6>1. c.part = "access"
              BY <1>4, <3>2, <5>2 DEF CallFacts, Hides
            <6>2. at > PAlloc + p_nr_devs
              BY <1>4, <3>6, <6>1 DEF CallFacts
            <6>3. QED
              BY <1>3, <6>2, Counts
          <5>3. QED
            BY <1>10, <5>1, <5>2
        <4>3. at > PAlloc
          BY <1>3, <4>1, <4>2
        <4>4. QED
          BY <1>1, <3>2, <3>6, <4>3 DEF LoadInv, Sound
      <3>7. ASSUME mod = "scullc", at' > Len(calls)
            PROVE  FALSE
        <4>1. c.then = "next"
          BY <1>4, <1>10, <3>7 DEF CallFacts
        <4>2. at = Len(calls)
          BY <1>3, <2>4, <3>7, <4>1
        <4>3. c.takes = Cache
          BY <1>3, <1>4, <3>7, <4>2, CallsOf
        <4>4. QED
          BY <1>4, <3>2, <3>7, <4>3, KindsOf DEF CallFacts, HiddenKinds, Scullish
      <3>8. QED
        BY <3>4, <3>5, <3>6, <3>7
    <2>9. Doomed'
      <3>1. SUFFICES ASSUME failed' \cap Hidden /= {}
                     PROVE  mod = "scull" /\ PDevices \notin held' /\ at' > PAlloc
        BY <1>1, <1>2, <2>1 DEF Doomed, Scullish
      <3>2. CASE failed \cap Hidden /= {}
        <4>1. mod = "scull" /\ PDevices \notin held /\ at > PAlloc
          BY <1>1, <3>2 DEF LoadInv, Doomed
        <4>2. QED
          BY <1>3, <1>6, <2>2, <4>1
      <3>3. CASE failed \cap Hidden = {}
        <4>1. Hides(c)
          BY <1>5, <1>6, <3>1, <3>3
        <4>2. c.then = "out" /\ c.part = "pipe" /\ mod = "scull"
          BY <1>4, <1>10, <4>1 DEF Hides, CallFacts
        <4>3. PDevices \notin held'
          <5>1. CASE at > PAlloc
            BY <1>4, <1>6, <4>2, <5>1 DEF CallFacts
          <5>2. CASE at <= PAlloc
            BY <1>1, <1>6, <4>2, <5>2, KindsOf DEF LoadInv, Begun
          <5>3. QED
            BY <1>3, <5>1, <5>2
        <4>4. QED
          BY <2>3, <4>2, <4>3
      <3>4. QED
        BY <3>2, <3>3
    <2>10. QED
      BY <1>7, <2>5, <2>6, <2>7, <2>8, <2>9 DEF LoadInv
  <1>11. QED
    BY <1>4, <1>8, <1>9, <1>10 DEF CallFacts

LEMMA InitReturnsKeeps ==
    ASSUME LoadInv, InitReturns
    PROVE  LoadInv'
  <1>1. /\ phase = "init" /\ at > Len(calls) /\ phase' = "live" /\ at' = 1
        /\ mod' = mod /\ held' = held /\ failed' = failed /\ open' = open /\ wild' = wild
    BY DEF InitReturns
  <1>2. calls' = calls /\ frees' = frees /\ Hidden' = Hidden
    BY <1>1, SameMod
  <1>3. /\ mod \in ModuleNames /\ Len(calls) \in Nat /\ PAlloc \in Nat
        /\ mod \in UsesDevices => at > 2
        /\ mod = "scull" => at > PAlloc
    BY <1>1, CallsOf, Counts DEF LoadInv, Places, PAlloc
  <1>4. Places' /\ Owned' /\ Begun' /\ Refused' /\ Passed'
    BY <1>1 DEF LoadInv, Places, Owned, Begun, Refused, Passed, Phases
  <1>5. Sound'
    BY <1>1, <1>2, <1>3 DEF LoadInv, Sound
  <1>6. Doomed'
    BY <1>1, <1>2 DEF LoadInv, Doomed
  <1>7. QED
    BY <1>4, <1>5, <1>6 DEF LoadInv

(* Where exit frees the arrays, and where it uses them first.              *)
LEMMA ExitPlaces ==
    ASSUME mod \in ModuleNames
    PROVE  /\ DevFree(mod) \in Nat /\ DevFree(mod) >= 1 /\ PFree \in Nat /\ PFree >= 1
           /\ FirstDev(mod) \in Nat /\ FirstDev(mod) >= 1 /\ FirstPipe \in Nat /\ FirstPipe >= 1
           /\ Len(frees) \in Nat
           /\ mod = "scullc" => 1 <= Len(frees)
  <1>1. FirstDev(mod) \in Nat /\ FirstDev(mod) >= 1
    BY DEF FirstDev
  <1>2. PFree \in Nat /\ PFree >= 1 /\ FirstPipe \in Nat /\ FirstPipe >= 1
    BY Counts DEF PFree, FirstPipe
  <1>3. DevFree(mod) \in Nat /\ DevFree(mod) >= 1
    BY Counts DEF DevFree, ModuleNames
  <1>4. QED
    BY <1>1, <1>2, <1>3, CallsOf, FreesOf DEF Scullish

LEMMA RmmodKeeps ==
    ASSUME LoadInv, Rmmod
    PROVE  LoadInv'
  <1>1. /\ phase = "live" /\ open = {} /\ phase' = "exit" /\ at' = at /\ at = 1
        /\ mod' = mod /\ held' = held /\ failed' = failed /\ open' = open /\ wild' = wild
    BY DEF Rmmod, LoadInv, Places
  <1>2. calls' = calls /\ frees' = frees /\ Hidden' = Hidden
    BY <1>1, SameMod
  <1>3. mod \in ModuleNames
    BY DEF LoadInv, Places
  <1>4. Places' /\ Owned' /\ Begun' /\ Refused'
    BY <1>1, <1>2, <1>3, ExitPlaces DEF LoadInv, Places, Owned, Begun, Refused, Phases
  <1>5. Passed'
    BY <1>1 DEF Passed
  <1>6. Sound'
    BY <1>1, <1>2, <1>3, ExitPlaces DEF LoadInv, Sound
  <1>7. Doomed'
    BY <1>1, <1>2, <1>3, ExitPlaces DEF LoadInv, Doomed
  <1>8. QED
    BY <1>4, <1>5, <1>6, <1>7 DEF LoadInv

LEMMA ExitStepKeeps ==
    ASSUME LoadInv, ExitStep
    PROVE  LoadInv'
  <1>1. /\ phase = "exit" /\ ~wild /\ at <= Len(frees) /\ at' = at + 1
        /\ held' = held \ frees[at].frees
        /\ mod' = mod /\ phase' = phase /\ failed' = failed /\ open' = open
    BY DEF ExitStep
  <1>2. calls' = calls /\ frees' = frees /\ Hidden' = Hidden
    BY <1>1, SameMod
  <1>3. mod \in ModuleNames /\ at \in 1 .. Len(frees) /\ at \in Nat
    BY <1>1, ExitPlaces DEF LoadInv, Places
  <1>4. PICK f : f = frees[at] /\ FreeFacts(mod, at, f)
    BY <1>3, FreesOf
  <1>5. Places' /\ Owned' /\ Begun' /\ Refused'
    BY <1>1, <1>2, <1>3, ExitPlaces DEF LoadInv, Places, Owned, Begun, Refused, Phases
  <1>6. Passed'
    <2>1. SUFFICES ASSUME NEW k \in 1 .. at' - 1
                   PROVE  held' \cap frees[k].frees = {}
      BY <1>2 DEF Passed
    <2>2. CASE k = at
      BY <1>1, <2>2
    <2>3. CASE k /= at
      <3>1. k \in 1 .. at - 1
        BY <1>1, <1>3, <2>3
      <3>2. QED
        BY <1>1, <3>1 DEF LoadInv, Passed
    <2>4. QED
      BY <2>2, <2>3
  <1>7. Sound'
    <2>1. SUFFICES ASSUME failed \cap Hidden = {}
                   PROVE  /\ mod \in UsesDevices /\ at' <= DevFree(mod) => Devices \in held'
                          /\ mod = "scull" /\ at' <= PFree => PDevices \in held'
                          /\ mod = "scullc" /\ at' <= Len(frees) => Cache \in held'
      BY <1>1, <1>2 DEF Sound
    <2>2. mod \in UsesDevices /\ at' <= DevFree(mod) => Devices \in held'
      <3>1. SUFFICES ASSUME mod \in UsesDevices, at' <= DevFree(mod)
                     PROVE  Devices \in held'
        OBVIOUS
      <3>2. at <= DevFree(mod) /\ at /= DevFree(mod)
        BY <1>1, <1>3, <3>1, ExitPlaces
      <3>3. Devices \in held /\ Devices \notin f.frees
        BY <1>1, <1>4, <2>1, <3>1, <3>2 DEF LoadInv, Sound, FreeFacts
      <3>4. QED
        BY <1>1, <1>4, <3>3
    <2>3. mod = "scull" /\ at' <= PFree => PDevices \in held'
      <3>1. SUFFICES ASSUME mod = "scull", at' <= PFree
                     PROVE  PDevices \in held'
        OBVIOUS
      <3>2. at <= PFree /\ at /= PFree
        BY <1>1, <1>3, <3>1, ExitPlaces
      <3>3. PDevices \in held /\ PDevices \notin f.frees
        BY <1>1, <1>4, <2>1, <3>1, <3>2 DEF LoadInv, Sound, FreeFacts
      <3>4. QED
        BY <1>1, <1>4, <3>3
    <2>4. mod = "scullc" /\ at' <= Len(frees) => Cache \in held'
      <3>1. SUFFICES ASSUME mod = "scullc", at' <= Len(frees)
                     PROVE  Cache \in held'
        OBVIOUS
      <3>2. at <= Len(frees) /\ at /= Len(frees)
        BY <1>1, <1>3, <3>1, ExitPlaces
      <3>3. Cache \in held /\ Cache \notin f.frees
        BY <1>1, <1>4, <2>1, <3>1, <3>2 DEF LoadInv, Sound, FreeFacts, frees
      <3>4. QED
        BY <1>1, <1>4, <3>3
    <2>5. QED
      BY <2>2, <2>3, <2>4
  <1>8. Doomed'
    <2>1. SUFFICES ASSUME failed \cap Hidden /= {}
                   PROVE  Doomed'
      BY <1>1, <1>2 DEF Doomed
    <2>2. mod \in Scullish
      BY <2>1 DEF LoadInv, Doomed
    <2>3. ASSUME NEW r \in f.touches, r \notin held
          PROVE  wild'
      BY <1>4, <2>3 DEF ExitStep
    <2>4. CASE Devices \notin held /\ at <= FirstDev(mod)
      <3>1. wild' \/ at' <= FirstDev(mod)
        <4>1. CASE at = FirstDev(mod)
          BY <1>4, <2>2, <2>3, <2>4, <4>1 DEF FreeFacts
        <4>2. CASE at /= FirstDev(mod)
          BY <1>1, <1>3, <2>4, <4>2, ExitPlaces
        <4>3. QED
          BY <4>1, <4>2
      <3>2. Devices \notin held'
        BY <1>1, <2>4
      <3>3. QED
        BY <1>1, <2>2, <3>1, <3>2 DEF Doomed
    <2>5. CASE mod = "scull" /\ PDevices \notin held /\ at <= FirstPipe
      <3>1. wild' \/ at' <= FirstPipe
        <4>1. CASE at = FirstPipe
          BY <1>4, <2>2, <2>3, <2>5, <4>1 DEF FreeFacts
        <4>2. CASE at /= FirstPipe
          BY <1>1, <1>3, <2>5, <4>2, ExitPlaces
        <4>3. QED
          BY <4>1, <4>2
      <3>2. PDevices \notin held'
        BY <1>1, <2>5
      <3>3. QED
        BY <1>1, <2>2, <2>5, <3>1, <3>2 DEF Doomed
    <2>6. QED
      BY <1>1, <2>1, <2>4, <2>5 DEF LoadInv, Doomed
  <1>9. QED
    BY <1>5, <1>6, <1>7, <1>8 DEF LoadInv

LEMMA ExitReturnsKeeps ==
    ASSUME LoadInv, ExitReturns
    PROVE  LoadInv'
  <1>1. /\ phase = "exit" /\ ~wild /\ at > Len(frees) /\ phase' = "gone" /\ at' = at
        /\ mod' = mod /\ held' = held /\ failed' = failed /\ open' = open /\ wild' = wild
    BY DEF ExitReturns
  <1>2. calls' = calls /\ frees' = frees /\ Hidden' = Hidden
    BY <1>1, SameMod
  <1>3. mod \in ModuleNames /\ at \in Nat /\ at = Len(frees) + 1
    BY <1>1, ExitPlaces DEF LoadInv, Places
  <1>4. Places' /\ Owned' /\ Begun' /\ Refused'
    BY <1>1, <1>2, <1>3 DEF LoadInv, Places, Owned, Begun, Refused, Phases
  <1>5. Passed'
    BY <1>1, <1>2 DEF LoadInv, Passed
  <1>6. Sound'
    BY <1>1 DEF Sound
  <1>7. failed \cap Hidden = {}
    <2>1. SUFFICES ASSUME failed \cap Hidden /= {} PROVE FALSE
      OBVIOUS
    <2>2. \/ mod \in Scullish /\ at <= FirstDev(mod)
          \/ mod = "scull" /\ at <= FirstPipe
      BY <1>1, <2>1 DEF LoadInv, Doomed
    <2>3. QED
      BY <1>1, <1>3, <2>2, FreesOf, ExitPlaces
  <1>8. Doomed'
    BY <1>1, <1>2, <1>7 DEF Doomed
  <1>9. QED
    BY <1>4, <1>5, <1>6, <1>8 DEF LoadInv

-----------------------------------------------------------------------------
(* The steps of users, and of work, keep it because they are harmless: the *)
(* arrays and the cache stay, and what they add is data.                   *)

AddedKinds == {"data", "p_buffer", "a_data", "scull_listitem", "sbuf", "work"}

Early == phase = "init" /\ (at = 1 \/ (at = 2 /\ mod \in UsesDevices))

Harmless ==
    /\ mod' = mod /\ phase' = phase /\ at' = at /\ failed' = failed
    /\ wild => wild'
    /\ phase = "exit" => open' = {}
    /\ \A r \in {Region, Devices, PDevices, Cache} : r \in held => r \in held'
    /\ \A r \in held' : \/ r \in held
                        \/ /\ phase \in {"init", "live"} /\ ~Early
                           /\ r \in Resources(mod) \cup Leaks(mod)
                           /\ r[1] \in AddedKinds

LEMMA HarmlessKeeps ==
    ASSUME LoadInv, Harmless
    PROVE  LoadInv'
  <1>1. /\ mod' = mod /\ phase' = phase /\ at' = at /\ failed' = failed
        /\ wild => wild'
    BY DEF Harmless
  <1>2. calls' = calls /\ frees' = frees /\ Hidden' = Hidden
    BY <1>1, SameMod
  <1>3. \A r \in {Devices, PDevices, Cache} : r \in held' <=> r \in held
    BY KindsOf DEF Harmless, AddedKinds
  <1>4. Places'
    BY <1>1, <1>2 DEF LoadInv, Places, Harmless
  <1>5. Owned'
    BY <1>1 DEF LoadInv, Owned, Harmless
  <1>6. Begun'
    <2>1. phase = "init" /\ at = 1 => held' = {} /\ failed' = {}
      BY <1>1 DEF LoadInv, Begun, Harmless, Early
    <2>2. phase = "init" /\ at = 2 /\ mod \in UsesDevices => held' = {Region} /\ failed' = {}
      BY <1>1 DEF LoadInv, Begun, Harmless, Early
    <2>3. phase = "init" /\ mod = "scull" /\ at <= PAlloc =>
             \A r \in held' : r[1] \notin {"p_cdev", "p_devices"}
      BY DEF LoadInv, Begun, Harmless, AddedKinds
    <2>4. QED
      BY <1>1, <2>1, <2>2, <2>3 DEF Begun
  <1>7. Refused'
    BY <1>1, <1>2 DEF LoadInv, Refused, Harmless
  <1>8. Passed'
    BY <1>1, <1>2 DEF LoadInv, Passed, Harmless
  <1>9. Sound'
    BY <1>1, <1>2, <1>3 DEF LoadInv, Sound
  <1>10. Doomed'
    BY <1>1, <1>2, <1>3 DEF LoadInv, Doomed
  <1>11. QED
    BY <1>4, <1>5, <1>6, <1>7, <1>8, <1>9, <1>10 DEF LoadInv

(* A module that is gone has nothing exit frees.                           *)
LEMMA GoneHasNothing ==
    ASSUME LoadInv, phase = "gone"
    PROVE  held \cap Resources(mod) = {}
  <1>1. mod \in ModuleNames /\ Len(frees) \in Nat /\ at = Len(frees) + 1
    BY ExitPlaces DEF LoadInv, Places
  <1>2. \A k \in 1 .. Len(frees) : held \cap frees[k].frees = {}
    BY <1>1 DEF LoadInv, Passed
  <1>3. QED
    BY <1>1, <1>2, FreesOf

(* A device that can be used belongs to a module that is there, and has    *)
(* the memory it lies in unless a failure was hidden.                      *)
LEMMA CdevLives ==
    ASSUME LoadInv, NEW c \in Cdevs
    PROVE  /\ c \in held /\ c \in Resources(mod) /\ mod \in ModuleNames
           /\ c[1] \in {"cdev", "p_cdev", "a_cdev"}
           /\ phase \in {"init", "live", "exit"}
           /\ ~Early
           /\ failed \cap Hidden = {} /\ phase /= "exit" => Inside(c) \subseteq held
  <1>1. c \in held /\ c[1] \in {"cdev", "p_cdev", "a_cdev"} /\ mod \in ModuleNames
    BY DEF Cdevs, LoadInv, Places
  <1>2. c \in Resources(mod)
    BY <1>1, LeakKinds DEF LoadInv, Owned, Places
  <1>3. phase \in {"init", "live", "exit"}
    BY <1>1, <1>2, GoneHasNothing DEF LoadInv, Places, Phases, Refused
  <1>4. ~Early
    BY <1>1, KindsOf DEF LoadInv, Begun, Early
  <1>5. ASSUME failed \cap Hidden = {}, phase /= "exit"
        PROVE  Inside(c) \subseteq held
    <2>1. CASE c[1] = "p_cdev"
      <3>1. mod = "scull"
        BY <1>1, <1>2, <2>1, ResourceKinds
      <3>2. ~(phase = "init" /\ at <= PAlloc)
        BY <1>1, <2>1, <3>1 DEF LoadInv, Begun
      <3>3. phase = "live" \/ (phase = "init" /\ at > PAlloc)
        BY <1>1, <1>3, <1>5, <3>2, CallsOf, Counts DEF LoadInv, Places, PAlloc
      <3>4. PDevices \in held
        BY <1>5, <3>1, <3>3 DEF LoadInv, Sound
      <3>5. QED
        BY <2>1, <3>4 DEF Inside
    <2>2. CASE c[1] = "a_cdev"
      BY <2>2 DEF Inside
    <2>3. CASE c[1] = "cdev" /\ mod = "sleepy"
      BY <2>3 DEF Inside
    <2>4. CASE c[1] = "cdev" /\ mod /= "sleepy"
      <3>1. mod \in UsesDevices
        BY <1>1, <1>2, <2>4, ResourceKinds
      <3>2. phase = "live" \/ (phase = "init" /\ at > 2)
        BY <1>1, <1>3, <1>4, <1>5, <3>1, CallsOf DEF LoadInv, Places, Early
      <3>3. Devices \in held
        BY <1>5, <3>1, <3>2 DEF LoadInv, Sound
      <3>4. QED
        BY <2>4, <3>3 DEF Inside
    <2>5. QED
      BY <1>1, <2>1, <2>2, <2>3, <2>4
  <1>6. QED
    BY <1>1, <1>2, <1>3, <1>4, <1>5

LEMMA KeepsIsData ==
    ASSUME mod \in ModuleNames, NEW c \in Resources(mod), c[1] \in {"cdev", "p_cdev", "a_cdev"}
    PROVE  \A r \in Keeps(c) : /\ r \in Resources(mod) \cup Leaks(mod)
                               /\ r[1] \in AddedKinds
  <1>1. CASE c[1] = "p_cdev"
    <2>1. mod = "scull" /\ \E i \in 1 .. p_nr_devs : c = <<"p_cdev", i>>
      BY <1>1, ResourceKinds
    <2>2. PICK i \in 1 .. p_nr_devs : c = <<"p_cdev", i>>
      BY <2>1
    <2>3. Keeps(c) = {<<"p_buffer", i>>}
      BY <2>2 DEF Keeps
    <2>4. <<"p_buffer", i>> \in Resources(mod)
      BY <2>1, ScullTakes
    <2>5. QED
      BY <2>3, <2>4, KindsOf DEF AddedKinds
  <1>2. CASE c[1] = "a_cdev"
    <2>1. mod = "scull" /\ \E i \in 1 .. a_nr_devs : c = <<"a_cdev", i>>
      BY <1>2, ResourceKinds
    <2>2. PICK i \in 1 .. a_nr_devs : c = <<"a_cdev", i>>
      BY <2>1
    <2>3. Keeps(c) \subseteq {<<"a_data", i>>, Item}
      BY <2>2 DEF Keeps
    <2>4. <<"a_data", i>> \in Resources(mod)
      BY <2>1, ScullTakes
    <2>5. Item \in Leaks(mod)
      BY <2>1 DEF Leaks
    <2>6. QED
      BY <2>3, <2>4, <2>5, KindsOf DEF AddedKinds
  <1>3. CASE c[1] = "cdev" /\ mod \in Scullish
    <2>1. \E i \in 1 .. nr_devs : c = <<"cdev", i>>
      BY <1>3, ResourceKinds
    <2>2. PICK i \in 1 .. nr_devs : c = <<"cdev", i>>
      BY <2>1
    <2>3. Keeps(c) = {<<"data", i>>}
      BY <1>3, <2>2 DEF Keeps, Scullish
    <2>4. <<"data", i>> \in Resources(mod)
      BY <1>3, ScullTakes, CacheTakes DEF Scullish
    <2>5. QED
      BY <2>3, <2>4, KindsOf DEF AddedKinds
  <1>4. CASE c[1] = "cdev" /\ mod \notin Scullish
    <2>1. Keeps(c) = {}
      BY <1>4 DEF Keeps, Scullish
    <2>2. QED
      BY <2>1
  <1>5. QED
    BY <1>1, <1>2, <1>3, <1>4

LEMMA OpenIsHarmless ==
    ASSUME LoadInv, NEW c \in Cdevs, Open(c)
    PROVE  Harmless
  BY DEF Open, Harmless

LEMMA UseIsHarmless ==
    ASSUME LoadInv, NEW c \in Cdevs, Use(c)
    PROVE  Harmless
  <1>1. /\ c \in open /\ ~wild /\ held' = held \cup Keeps(c)
        /\ mod' = mod /\ phase' = phase /\ at' = at /\ failed' = failed /\ open' = open
    BY DEF Use
  <1>2. phase /= "exit"
    BY <1>1 DEF LoadInv, Places
  <1>3. phase \in {"init", "live"} /\ ~Early
    BY <1>2, CdevLives
  <1>4. \A r \in Keeps(c) : r \in Resources(mod) \cup Leaks(mod) /\ r[1] \in AddedKinds
    BY CdevLives, KeepsIsData
  <1>5. QED
    BY <1>1, <1>2, <1>3, <1>4 DEF Harmless

LEMMA CloseIsHarmless ==
    ASSUME LoadInv, NEW c \in Cdevs, Close(c)
    PROVE  Harmless
  <1>1. /\ c \in open /\ open' = open \ {c}
        /\ mod' = mod /\ phase' = phase /\ at' = at /\ failed' = failed /\ wild' = wild
        /\ held' = held \/ (c[1] = "p_cdev" /\ held' = held \ Keeps(c))
    BY DEF Close
  <1>2. phase /= "exit"
    BY <1>1 DEF LoadInv, Places
  <1>3. \A r \in Keeps(c) : r[1] \in AddedKinds
    BY CdevLives, KeepsIsData
  <1>4. \A r \in {Region, Devices, PDevices, Cache} : r \notin Keeps(c)
    BY <1>3, KindsOf DEF AddedKinds
  <1>5. QED
    BY <1>1, <1>2, <1>4 DEF Harmless

LEMMA ReadIsHarmless ==
    ASSUME LoadInv, ReadReturns \/ ReadCutShort
    PROVE  Harmless
  <1>1. /\ phase \in {"init", "live"} /\ held /= {} /\ mod \in {"jiq", "jit"}
        /\ mod' = mod /\ phase' = phase /\ at' = at /\ failed' = failed
        /\ open' = open /\ wild' = wild
    BY DEF ReadReturns, ReadCutShort, Readable
  <1>2. PICK more : /\ held' = held \cup more
                    /\ \/ more \subseteq {Stray}
                       \/ mod = "jit" /\ more \subseteq {Work, Sbuf}
    <2>1. CASE ReadReturns
      BY <2>1 DEF ReadReturns
    <2>2. CASE ReadCutShort
      <3>1. \/ held' = held \cup {Stray}
            \/ mod = "jit" /\ held' = held \cup {Work, Sbuf}
        BY <2>2 DEF ReadCutShort
      <3>2. QED
        BY <3>1
    <2>3. QED
      BY <2>1, <2>2
  <1>3. \A r \in more : r \in Leaks(mod) /\ r[1] \in AddedKinds
    BY <1>1, <1>2, LeakKinds DEF Leaks, AddedKinds
  <1>4. ~Early
    BY <1>1 DEF LoadInv, Begun, Early, UsesDevices, Scullish
  <1>5. QED
    BY <1>1, <1>2, <1>3, <1>4 DEF Harmless

LEMMA WorkIsHarmless ==
    ASSUME LoadInv, NEW w \in {Work, Stray}, WorkRuns(w)
    PROVE  Harmless
  BY KindsOf, LeakKinds DEF WorkRuns, Harmless, LoadInv, Places

LEMMA LoadingInductive == LoadInv /\ [Next]_vars => LoadInv'
  <1> SUFFICES ASSUME LoadInv, [Next]_vars
               PROVE  LoadInv'
    OBVIOUS
  <1>1. CASE InitSucceeds
    BY <1>1, InitSucceedsKeeps
  <1>2. CASE InitFails
    BY <1>2, InitFailsKeeps
  <1>3. CASE InitReturns
    BY <1>3, InitReturnsKeeps
  <1>4. CASE Rmmod
    BY <1>4, RmmodKeeps
  <1>5. CASE ExitStep
    BY <1>5, ExitStepKeeps
  <1>6. CASE ExitReturns
    BY <1>6, ExitReturnsKeeps
  <1>7. ASSUME NEW c \in Cdevs, Open(c) \/ Use(c) \/ Close(c)
        PROVE  LoadInv'
    BY <1>7, OpenIsHarmless, UseIsHarmless, CloseIsHarmless, HarmlessKeeps
  <1>8. CASE ReadReturns \/ ReadCutShort
    BY <1>8, ReadIsHarmless, HarmlessKeeps
  <1>9. ASSUME NEW w \in {Work, Stray}, WorkRuns(w)
        PROVE  LoadInv'
    BY <1>9, WorkIsHarmless, HarmlessKeeps
  <1>10. CASE UNCHANGED vars
    <2>1. Harmless
      BY <1>10 DEF vars, Harmless, LoadInv, Places
    <2>2. QED
      BY <2>1, HarmlessKeeps
  <1>11. QED
    BY <1>1, <1>2, <1>3, <1>4, <1>5, <1>6, <1>7, <1>8, <1>9, <1>10 DEF Next

LEMMA LoadingBegins == Init => LoadInv
  <1> SUFFICES ASSUME Init PROVE LoadInv
    OBVIOUS
  <1>1. /\ mod \in ModuleNames /\ phase = "init" /\ at = 1 /\ held = {} /\ failed = {}
        /\ open = {} /\ wild = FALSE
    BY LoadingAssumption DEF Init
  <1>2. Places
    BY <1>1, CallsOf DEF Places, Phases
  <1>3. Owned /\ Begun /\ Refused /\ Passed
    BY <1>1 DEF Owned, Begun, Refused, Passed
  <1>4. Sound
    BY <1>1, CallsOf, Counts DEF Sound, PAlloc
  <1>5. Doomed
    BY <1>1 DEF Doomed
  <1>6. QED
    BY <1>2, <1>3, <1>4, <1>5 DEF LoadInv

LEMMA LoadingInvariant == Spec => []LoadInv
  BY LoadingBegins, LoadingInductive, PTL DEF Spec

-----------------------------------------------------------------------------
(* The theorems.                                                           *)

(* For any number of devices and files and whatever call fails, insmod     *)
(* that is refused and rmmod that comes to its end leave nothing behind    *)
(* but the items of scull_copy, the buffers of jit and work nobody         *)
(* cancelled.                                                              *)
THEOREM NothingElseLeaks == Spec => []GivesBack
  <1>1. LoadInv => GivesBack
    <2> SUFFICES ASSUME LoadInv, phase \in {"gone", "refused"}
                 PROVE  held \subseteq Leaks(mod)
      BY DEF GivesBack
    <2>1. CASE phase = "refused"
      BY <2>1 DEF LoadInv, Refused
    <2>2. CASE phase = "gone"
      <3>1. held \cap Resources(mod) = {}
        BY <2>2, GoneHasNothing
      <3>2. QED
        BY <3>1 DEF LoadInv, Owned
    <2>3. QED
      BY <2>1, <2>2
  <1>2. QED
    BY <1>1, LoadingInvariant, PTL

(* A step of a user, of work or of an exit function that touches memory    *)
(* the module does not have comes from one of the four known flaws.        *)
THEOREM TouchesOwnMemory == Spec => StaysInside
  <1> DEFINE Excused == \/ failed \cap Hidden /= {}
                        \/ mod = "scullc" /\ phase = "init"
                        \/ mod = "jit" /\ phase = "gone" /\ Work \in held
                        \/ mod \in {"jiq", "jit"} /\ Stray \in held
  <1>1. LoadInv /\ [Next]_vars => [wild' /\ ~wild => Excused]_vars
    <2> SUFFICES ASSUME LoadInv, Next, wild', ~wild, failed \cap Hidden = {}
                 PROVE  Excused
      OBVIOUS
    <2> HIDE DEF Excused
    <2>0. mod \in ModuleNames
      BY DEF LoadInv, Places
    <2>1. CASE \/ InitSucceeds \/ InitFails \/ InitReturns \/ Rmmod \/ ExitReturns
               \/ ReadReturns \/ ReadCutShort
      BY <2>1 DEF InitSucceeds, InitFails, InitReturns, Rmmod, ExitReturns, ReadReturns,
                  ReadCutShort
    <2>2. CASE ExitStep
      <3>1. phase = "exit" /\ at <= Len(frees) /\ at \in 1 .. Len(frees)
        BY <2>0, <2>2, ExitPlaces DEF ExitStep, LoadInv, Places
      <3>2. PICK f : f = frees[at] /\ FreeFacts(mod, at, f)
        BY <2>0, <3>1, FreesOf
      <3>3. f.touches \subseteq held
        <4>1. Devices \in f.touches => Devices \in held
          BY <2>0, <3>1, <3>2, ExitPlaces DEF LoadInv, Sound, FreeFacts
        <4>2. PDevices \in f.touches => PDevices \in held
          BY <2>0, <3>1, <3>2, ExitPlaces DEF LoadInv, Sound, FreeFacts
        <4>3. QED
          BY <3>2, <4>1, <4>2 DEF FreeFacts
      <3>4. mod = "scullc" => Cache \in held
        BY <3>1 DEF LoadInv, Sound
      <3>5. QED
        BY <2>2, <3>2, <3>3, <3>4 DEF ExitStep, TrimsBlocks
    <2>3. ASSUME NEW c \in Cdevs, Open(c)
          PROVE  Excused
      <3>1. Inside(c) \subseteq held
        BY <2>3, CdevLives DEF Open
      <3>2. QED
        BY <2>3, <3>1 DEF Open
    <2>4. ASSUME NEW c \in Cdevs, Use(c)
          PROVE  Excused
      <3>1. phase \in {"init", "live"}
        <4>1. phase /= "exit"
          BY <2>4 DEF Use, LoadInv, Places
        <4>2. QED
          BY <4>1, CdevLives
      <3>2. Inside(c) \subseteq held
        BY <3>1, CdevLives
      <3>3. mod = "scullc" /\ Cache \notin held
        BY <2>4, <3>2 DEF Use
      <3>4. phase /= "live"
        BY <3>3 DEF LoadInv, Sound
      <3>5. QED
        BY <3>1, <3>3, <3>4 DEF Excused
    <2>5. ASSUME NEW c \in Cdevs, Close(c)
          PROVE  Excused
      BY <2>5 DEF Close
    <2>6. ASSUME NEW w \in {Work, Stray}, WorkRuns(w)
          PROVE  Excused
      <3>1. w \in held /\ (w = Stray \/ phase = "gone")
        BY <2>6 DEF WorkRuns
      <3>2. w[1] = "work"
        BY LeakKinds
      <3>3. w \in Leaks(mod)
        BY <2>0, <3>1, <3>2, ResourceKinds DEF LoadInv, Owned
      <3>4. mod \in {"jiq", "jit"} /\ (w = Work => mod = "jit")
        <4>1. Work /= Stray /\ Work /= Item /\ Stray /= Item
          BY LeakKinds
        <4>2. QED
          BY <2>0, <3>3, <4>1 DEF Leaks, ModuleNames
      <3>5. QED
        BY <3>1, <3>4 DEF Excused
    <2>7. QED
      BY <2>1, <2>2, <2>3, <2>4, <2>5, <2>6 DEF Next
  <1>2. QED
    BY <1>1, LoadingInvariant, PTL DEF Spec, StaysInside

=============================================================================
