----------------------------- MODULE ProgramsProofs -----------------------------
(***************************************************************************)
(* Theorems about the small programs of MCPrograms, for every width of an  *)
(* int and every MAX_INCREMENT_COUNT, every number of character devices,   *)
(* every set of platform devices and regions, every size of the vmalloc    *)
(* test and every set of frames: first for each program, then for the      *)
(* specification that the run checks.                                      *)
(***************************************************************************)
EXTENDS MCPrograms, FiniteSetTheorems, SequenceTheorems, TLAPS

-----------------------------------------------------------------------------
(* MutexCounter: the increment, which both of its programs rest on *)

Inside == {"load", "store", "unlock"}

\* The thread that holds the mutex, and no other, is between lock and unlock.
Exclusive == \A t \in Threads : at[t] \in Inside <=> mutex = t

\* The value that was loaded is still that of the counter.
LoadedValid == \A t \in Threads : at[t] = "store" => temp[t] = counter

Places == {"none", "created", "loop", "lock", "load", "store", "unlock", "sleep", "returned"}

CountingInv ==
  /\ mutex \in Threads \cup {NoThread}
  /\ counter \in CInt /\ increments \in CInt
  /\ at \in [Threads -> Places] /\ temp \in [Threads -> CInt]
  /\ Exclusive /\ LoadedValid
  /\ counter = increments

\* A thread that takes the mutex, increments or gives the mutex back disturbs
\* nothing that the increment of the other rests on.
LEMMA IncrementSteps ==
  ASSUME CountingInv, NEW t \in Threads, NEW next \in {"sleep", "loop"},
         Lock(t) \/ Load(t) \/ Store(t) \/ Unlock(t, next)
  PROVE  CountingInv'
<1> USE DEF CountingInv, Exclusive, LoadedValid, Inside, Places, Threads, NoThread, Go
<1>1. CASE Lock(t)
  BY <1>1 DEF Lock
<1>2. CASE Load(t)
  BY <1>2 DEF Load
<1>3. CASE Store(t)
  <2>1. counter' = increments' /\ counter' \in CInt
    BY <1>3, IntAssumption DEF Store, CInt
  <2>2. \A u \in Threads : at'[u] = "store" => u # t
    BY <1>3 DEF Store
  <2> QED
    BY <1>3, <2>1, <2>2 DEF Store
<1>4. CASE Unlock(t, next)
  BY <1>4 DEF Unlock
<1> QED
  BY <1>1, <1>2, <1>3, <1>4

\* A step of a thread that is outside of the critical section and stays outside.
LEMMA OutsideStep ==
  ASSUME CountingInv, NEW t \in Threads, NEW from \in Places \ Inside, NEW to \in Places \ Inside,
         Go(t, from, to), UNCHANGED <<mutex, counter, temp, increments>>
  PROVE  CountingInv'
BY DEF CountingInv, Exclusive, LoadedValid, Inside, Places, Threads, NoThread, Go

-----------------------------------------------------------------------------
(* 02_Mutex_Kernel *)

Running == {"loop", "lock", "load", "store", "unlock", "sleep"}

Modules == {"none", "unloaded", "create", "wake", "live", "stop", "wait", "failed"}

\* Where the threads are while insmod or rmmod is at each step: created one by
\* one, woken one by one, stopped one by one.
Lifecycle ==
  \A t \in Threads :
    /\ module[1] = "none" => at[t] = "none"
    /\ module[1] \in {"create", "failed"} =>
         at[t] = IF t < module[2] THEN "created" ELSE "none"
    /\ module[1] = "wake" =>
         at[t] \in IF t < module[2] THEN Running \cup {"returned"} ELSE {"created"}
    /\ module[1] = "live" => at[t] \in Running \cup {"returned"}
    /\ module[1] \in {"stop", "wait"} =>
         at[t] \in IF t < module[2] THEN {"returned"} ELSE Running \cup {"returned"}
    /\ module[1] = "unloaded" => at[t] = "returned"

KernelInv ==
  /\ CountingInv
  /\ module \in Modules \X Threads
  /\ should_stop \subseteq Threads
  /\ Lifecycle
  /\ i = [t \in Threads |-> 0] /\ main = <<"create", 1>> /\ printed = 0

LEMMA KernelInit == MutexInit => KernelInv
BY IntAssumption DEF MutexInit, KernelInv, CountingInv, Exclusive, LoadedValid, Inside, Places,
   Threads, NoThread, CInt, Modules, Lifecycle

\* A thread that runs stays one that runs or has returned.
LEMMA KernelThreadStep ==
  ASSUME KernelInv, NEW t \in Threads, KernelThread(t)
  PROVE  KernelInv'
<1>1. CountingInv'
  <2>1. CASE ShouldStop(t)
    <3>1. PICK to \in {"returned", "lock"} : Go(t, "loop", to)
      BY <2>1 DEF ShouldStop
    <3> QED
      BY <2>1, <3>1, OutsideStep DEF ShouldStop, KernelInv, Places, Inside
  <2>2. CASE Sleep(t)
    BY <2>2, OutsideStep DEF Sleep, KernelInv, Places, Inside
  <2>3. CASE Lock(t) \/ Load(t) \/ Store(t) \/ Unlock(t, "sleep")
    BY <2>3, IncrementSteps DEF KernelInv
  <2> QED
    BY <2>1, <2>2, <2>3 DEF KernelThread
<1>2. /\ at[t] \in Running /\ at'[t] \in Running \cup {"returned"}
      /\ \A u \in Threads \ {t} : at'[u] = at[u]
  BY DEF KernelThread, ShouldStop, Lock, Load, Store, Unlock, Sleep, Go, Running,
     KernelInv, CountingInv
<1>3. UNCHANGED <<module, should_stop, i, main, printed>>
  BY DEF KernelThread, kernel, race
<1>4. Lifecycle'
  BY <1>2, <1>3 DEF KernelInv, Lifecycle, Running, Threads, Modules
<1> QED
  BY <1>1, <1>3, <1>4 DEF KernelInv

\* insmod and rmmod: their steps touch no thread inside of the critical section.
LEMMA ModuleSteps ==
  ASSUME KernelInv,
         Insmod \/ Create \/ WakeUp \/ Rmmod \/ Stop \/ Stopped
  PROVE  KernelInv'
<1> USE DEF KernelInv, Threads, Modules
<1>1. CASE Insmod
  <2>1. mutex = NoThread
    BY <1>1 DEF Insmod, CountingInv, Exclusive, Lifecycle, Inside
  <2> QED
    BY <1>1, <2>1, IntAssumption
    DEF Insmod, race, CountingInv, Exclusive, LoadedValid, Lifecycle, Inside, Places, NoThread, CInt
<1>2. CASE Create
  <2>1. CASE UNCHANGED at
    BY <1>2, <2>1
    DEF Create, race, CountingInv, Exclusive, LoadedValid, Lifecycle, Following, Go
  <2>2. CASE /\ Go(module[2], "none", "created")
             /\ module' = Following("create", module[2], "wake")
    <3>1. CountingInv'
      BY <1>2, <2>2, OutsideStep DEF Create, Places, Inside
    <3>2. \A t \in Threads : at[t] = IF t < module[2] THEN "created" ELSE "none"
      BY <1>2 DEF Create, Lifecycle
    <3>3. \A t \in Threads : at'[t] = IF t <= module[2] THEN "created" ELSE "none"
      BY <2>2, <3>2 DEF CountingInv, Go
    <3>4. Lifecycle'
      BY <2>2, <3>3 DEF Lifecycle, Following
    <3> QED
      BY <1>2, <2>2, <3>1, <3>4 DEF Create, race, Following
  <2> QED
    BY <1>2, <2>1, <2>2 DEF Create
<1>3. CASE WakeUp
  <2>1. CountingInv'
    BY <1>3, OutsideStep DEF WakeUp, Places, Inside
  <2>2. Lifecycle'
    BY <1>3 DEF WakeUp, CountingInv, Lifecycle, Following, Go, Running
  <2> QED
    BY <1>3, <2>1, <2>2 DEF WakeUp, race, Following
<1>4. CASE Rmmod
  BY <1>4 DEF Rmmod, counting, race, CountingInv, Exclusive, LoadedValid, Lifecycle, Running
<1>5. CASE Stop
  BY <1>5 DEF Stop, counting, race, CountingInv, Exclusive, LoadedValid, Lifecycle, Running
<1>6. CASE Stopped
  BY <1>6
  DEF Stopped, counting, race, CountingInv, Exclusive, LoadedValid, Lifecycle, Running, Following
<1> QED
  BY <1>1, <1>2, <1>3, <1>4, <1>5, <1>6

LEMMA KernelSteps == KernelInv /\ [KernelNext]_mutex_vars => KernelInv'
<1>1. ASSUME KernelInv, KernelNext PROVE KernelInv'
  BY <1>1, KernelThreadStep, ModuleSteps DEF KernelNext
<1>2. ASSUME KernelInv, UNCHANGED mutex_vars PROVE KernelInv'
  BY <1>2 DEF mutex_vars, counting, kernel, race, KernelInv, CountingInv, Exclusive,
     LoadedValid, Lifecycle
<1> QED
  BY <1>1, <1>2

\* The invariant of the kernel module, from which the three theorems about it
\* follow: mutual exclusion, the loaded value, and the life of the threads.
THEOREM KernelInvariance == KernelSpec => []KernelInv
  BY KernelInit, KernelSteps, PTL DEF KernelSpec

\* In 02_Mutex_Kernel the counter is the number of stores, however func_1 and
\* func_2 overlap and however often the module is loaded.
THEOREM KernelCounterExact == KernelSpec => []CounterExact
<1>1. KernelInv => CounterExact
  BY DEF KernelInv, CountingInv, CounterExact
<1> QED
  BY <1>1, KernelInvariance, PTL

\* After rmmod both threads have returned; the thread that an insmod leaves behind
\* whose second kthread_create failed was never woken.
THEOREM KernelThreadsStopped == KernelSpec => []NoThreadRunsUnloaded
<1>1. KernelInv => NoThreadRunsUnloaded
  BY DEF KernelInv, Lifecycle, NoThreadRunsUnloaded
<1> QED
  BY <1>1, KernelInvariance, PTL

LEMMA KernelTypes == KernelInv => MutexTypeOK
  BY IntAssumption
  DEF KernelInv, CountingInv, MutexTypeOK, Places, Modules, CInt, Threads

-----------------------------------------------------------------------------
(* race.c *)

\* A remainder is the only number below R that a multiple of R is away.
LEMMA ModuloUnique ==
  ASSUME NEW R \in Nat \ {0}, NEW q \in Nat, NEW s \in 0 .. R - 1
  PROVE  (R * q + s) % R = s
<1> DEFINE m == R * q + s
           p == m \div R
           r == m % R
<1>1. m \in Nat /\ m = R * p + r /\ p \in Nat /\ r \in 0 .. R - 1
  <2>1. R * q \in Nat
    OBVIOUS
  <2>2. m \in Nat
    BY <2>1
  <2> HIDE DEF m
  <2> QED
    BY <2>2
<1>2. R * q + s = R * p + r
  BY <1>1
<1> HIDE DEF m, p, r
<1>3. ASSUME NEW a \in Nat, NEW b \in Nat, a > b PROVE R * a >= R * b + R
  <2>1. PICK d \in Nat : a = b + 1 + d
    BY <1>3
  <2>2. R * a = R * b + R + R * d /\ R * d \in Nat /\ R * b \in Nat
    BY <2>1
  <2> QED
    BY <2>2
<1>4. p = q
  <2>1. R * p \in Nat /\ R * q \in Nat
    BY <1>1
  <2>2. ~ (p > q)
    BY <1>1, <1>2, <1>3, <2>1
  <2>3. ~ (q > p)
    BY <1>1, <1>2, <1>3, <2>1
  <2> QED
    BY <1>1, <2>2, <2>3
<1> QED
  BY <1>1, <1>2, <1>4 DEF r, m

\* An int that counts on from n modulo R is the count modulo R.
LEMMA WrapOnce ==
  ASSUME NEW n \in Nat, NEW R \in Nat \ {0}
  PROVE  ((n % R) + 1) % R = (n + 1) % R
<1> DEFINE q == n \div R
           r == n % R
<1>1. n = R * q + r /\ q \in Nat /\ r \in 0 .. R - 1
  OBVIOUS
<1> HIDE DEF q, r
<1>2. CASE r + 1 < R
  <2>1. n + 1 = R * q + (r + 1) /\ r + 1 \in 0 .. R - 1
    BY <1>1, <1>2
  <2>2. (n + 1) % R = r + 1
    BY <2>1, <1>1, ModuloUnique
  <2>3. (R * 0 + (r + 1)) % R = r + 1
    BY <2>1, ModuloUnique
  <2> QED
    BY <1>1, <2>2, <2>3 DEF r
<1>3. CASE r + 1 = R
  <2>1. n + 1 = R * (q + 1) + 0 /\ 0 \in 0 .. R - 1
    BY <1>1, <1>3
  <2>2. (n + 1) % R = 0
    BY <2>1, <1>1, ModuloUnique
  <2>3. (R * 1 + 0) % R = 0
    BY ModuloUnique
  <2> QED
    BY <1>1, <1>3, <2>2, <2>3 DEF r
<1> QED
  BY <1>1, <1>2, <1>3

\* The increments a thread has stored.
Stored(t) == i[t] + IF at[t] = "unlock" THEN 1 ELSE 0

RacePlaces == {"none", "loop", "lock", "load", "store", "unlock", "returned"}

\* A thread in a round has rounds left, one that has returned has none, and main
\* has waited for the threads it has joined.
Rounds ==
  \A t \in Threads :
    /\ at[t] \in RacePlaces
    /\ at[t] \in {"lock", "load", "store", "unlock"} => i[t] < MAX_INCREMENT_COUNT
    /\ at[t] = "returned" => i[t] = MAX_INCREMENT_COUNT
    /\ main[1] = "join" /\ t < main[2] => at[t] = "returned"
    /\ main[1] \in {"print", "done"} => at[t] = "returned"

RaceInv ==
  /\ CountingInv
  /\ i \in [Threads -> 0 .. MAX_INCREMENT_COUNT]
  /\ main \in {"create", "join", "print", "done"} \X Threads
  /\ printed \in CInt
  /\ module = <<"none", 1>> /\ should_stop = {}
  /\ Rounds
  /\ increments = (Stored(1) + Stored(2)) % INT_RANGE
  /\ main[1] = "done" => printed = (2 * MAX_INCREMENT_COUNT) % INT_RANGE

LEMMA RaceInit == MutexInit => RaceInv
<1>1. 0 % INT_RANGE = 0
  BY ModuloUnique, IntAssumption
<1> QED
  BY <1>1, IntAssumption
  DEF MutexInit, RaceInv, CountingInv, Exclusive, LoadedValid, Inside, Places, Threads, NoThread,
      CInt, Rounds, RacePlaces, Stored

\* One step of a thread: what it has stored and what has been counted grow together.
LEMMA RaceThreadStep ==
  ASSUME RaceInv, NEW t \in Threads, RaceThread(t)
  PROVE  RaceInv'
<1>1. CountingInv'
  <2>1. CASE For(t)
    <3>1. PICK to \in {"returned", "lock"} : Go(t, "loop", to)
      BY <2>1 DEF For
    <3> QED
      BY <2>1, <3>1, OutsideStep DEF For, RaceInv, Places, Inside
  <2>2. CASE Lock(t) \/ Load(t) \/ Store(t) \/ Unlock(t, "loop")
    BY <2>2, IncrementSteps DEF RaceInv
  <2> QED
    BY <2>1, <2>2 DEF RaceThread
<1>2. UNCHANGED <<module, should_stop, main, printed>>
  BY DEF RaceThread, kernel
<1>3. at \in [Threads -> Places] /\ i \in [Threads -> 0 .. MAX_INCREMENT_COUNT]
  BY DEF RaceInv, CountingInv
<1>4. i' \in [Threads -> 0 .. MAX_INCREMENT_COUNT]
  <2>1. CASE Unlock(t, "loop") /\ i' = [i EXCEPT ![t] = @ + 1]
    BY <1>3, <2>1, IntAssumption DEF Unlock, Go, RaceInv, Rounds
  <2> QED
    BY <1>3, <2>1 DEF RaceThread, For
<1>5. \A u \in Threads \ {t} : at'[u] = at[u] /\ i'[u] = i[u]
  BY <1>3 DEF RaceThread, For, Lock, Load, Store, Unlock, Go
<1>6. Rounds'
  <2>1. CASE For(t)
    BY <1>2, <1>3, <1>5, <2>1, IntAssumption DEF For, Go, RaceInv, Rounds, RacePlaces, Threads
  <2>2. CASE (Lock(t) \/ Load(t) \/ Store(t)) /\ UNCHANGED i
    BY <1>2, <1>3, <1>5, <2>2 DEF Lock, Load, Store, Go, RaceInv, Rounds, RacePlaces, Threads
  <2>3. CASE Unlock(t, "loop")
    BY <1>2, <1>3, <1>5, <2>3 DEF Unlock, Go, RaceInv, Rounds, RacePlaces, Threads
  <2> QED
    BY <2>1, <2>2, <2>3 DEF RaceThread
<1>7. increments' = (Stored(1)' + Stored(2)') % INT_RANGE
  <2>1. CASE Store(t)
    <3>1. Stored(1)' + Stored(2)' = Stored(1) + Stored(2) + 1
      <4>1. UNCHANGED i
        BY <2>1 DEF RaceThread, For, Unlock, Store, Go
      <4>2. Stored(t)' = Stored(t) + 1
        BY <1>3, <2>1, <4>1 DEF Store, Go, Stored
      <4>3. \A u \in Threads \ {t} : Stored(u)' = Stored(u)
        BY <1>5 DEF Stored
      <4>4. Stored(1) \in Nat /\ Stored(2) \in Nat
        BY <1>3, IntAssumption DEF Stored, Threads
      <4> QED
        BY <4>2, <4>3, <4>4 DEF Threads
    <3>2. Stored(1) + Stored(2) \in Nat
      BY <1>3, IntAssumption DEF Stored, Threads
    <3> QED
      BY <2>1, <3>1, <3>2, WrapOnce, IntAssumption DEF Store, RaceInv
  <2>2. CASE ~ Store(t)
    <3>1. Stored(t)' = Stored(t)
      BY <1>3, <2>2 DEF RaceThread, For, Lock, Load, Unlock, Go, Stored
    <3>2. \A u \in Threads \ {t} : Stored(u)' = Stored(u)
      BY <1>5 DEF Stored
    <3>3. increments' = increments
      BY <2>2 DEF RaceThread, For, Lock, Load, Unlock
    <3> QED
      BY <3>1, <3>2, <3>3 DEF RaceInv, Threads
  <2> QED
    BY <2>1, <2>2
<1> QED
  BY <1>1, <1>2, <1>4, <1>6, <1>7 DEF RaceInv

\* main: create and join move no count; print comes after both threads are done.
LEMMA MainSteps ==
  ASSUME RaceInv, PthreadCreate \/ PthreadJoin \/ PrintCounter
  PROVE  RaceInv'
<1> USE DEF RaceInv, Threads
<1>1. CASE PthreadCreate
  <2>1. CountingInv'
    BY <1>1, OutsideStep DEF PthreadCreate, Places, Inside
  <2>2. Rounds'
    BY <1>1 DEF PthreadCreate, CountingInv, Rounds, RacePlaces, Following, Go
  <2>3. Stored(1)' = Stored(1) /\ Stored(2)' = Stored(2)
    BY <1>1 DEF PthreadCreate, CountingInv, Stored, Go
  <2> QED
    BY <1>1, <2>1, <2>2, <2>3 DEF PthreadCreate, kernel, Following
<1>2. CASE PthreadJoin
  <2>1. CountingInv' /\ Stored(1)' = Stored(1) /\ Stored(2)' = Stored(2)
    BY <1>2 DEF PthreadJoin, counting, CountingInv, Exclusive, LoadedValid, Stored
  <2>2. Rounds'
    BY <1>2 DEF PthreadJoin, counting, Rounds, Following
  <2> QED
    BY <1>2, <2>1, <2>2 DEF PthreadJoin, counting, kernel, Following
<1>3. CASE PrintCounter
  <2>1. CountingInv' /\ Stored(1)' = Stored(1) /\ Stored(2)' = Stored(2)
    BY <1>3 DEF PrintCounter, counting, CountingInv, Exclusive, LoadedValid, Stored
  <2>2. Rounds'
    BY <1>3 DEF PrintCounter, counting, Rounds
  <2>3. Stored(1) + Stored(2) = 2 * MAX_INCREMENT_COUNT
    BY <1>3, IntAssumption DEF PrintCounter, Rounds, Stored
  <2>4. printed' \in CInt /\ printed' = (2 * MAX_INCREMENT_COUNT) % INT_RANGE
    BY <1>3, <2>3 DEF PrintCounter, CountingInv
  <2> QED
    BY <1>3, <2>1, <2>2, <2>4 DEF PrintCounter, counting, kernel
<1> QED
  BY <1>1, <1>2, <1>3

LEMMA RaceSteps == RaceInv /\ [RaceNext]_mutex_vars => RaceInv'
<1>1. ASSUME RaceInv, RaceNext PROVE RaceInv'
  BY <1>1, RaceThreadStep, MainSteps DEF RaceNext
<1>2. ASSUME RaceInv, UNCHANGED mutex_vars PROVE RaceInv'
  BY <1>2 DEF mutex_vars, counting, kernel, race, RaceInv, CountingInv, Exclusive,
     LoadedValid, Rounds, Stored
<1> QED
  BY <1>1, <1>2

\* The invariant of race.c: it adds to that of the increment what each thread has
\* stored, and that main prints only when both have returned.
THEOREM RaceInvariance == RaceSpec => []RaceInv
  BY RaceInit, RaceSteps, PTL DEF RaceSpec

\* race.c prints twice MAX_INCREMENT_COUNT (as an int), however the threads overlap.
THEOREM RaceCounterExact == RaceSpec => []CounterExact
<1>1. RaceInv => CounterExact
  BY DEF RaceInv, CountingInv, CounterExact
<1> QED
  BY <1>1, RaceInvariance, PTL

-----------------------------------------------------------------------------
(* PlatformProbe *)

\* The failures that test_probe does not notice.
Unnoticed == {"ioremap_control", "ioremap_data", "irq_rx", "irq_tx"}

BeforeControl == {"devm_kzalloc", "get_control", "ioremap_control"}
BeforeData    == {"get_data", "ioremap_data"}
AfterData     == {"irq_rx", "irq_tx", "device-name", "buffer-size", "bound"}

\* What a device holds at each call of its probe.
Progress(d) ==
  /\ probe[d] \in {"unbound", "devm_kzalloc"} => d \notin dtc_data
  /\ probe[d] \in {"get_control", "ioremap_control"} \cup BeforeData \cup AfterData => d \in dtc_data
  /\ probe[d] \in {"unbound"} \cup BeforeControl => claimed[d] = {}
  /\ probe[d] \in BeforeControl => missing[d] = {}
  /\ probe[d] \in BeforeData =>
       /\ missing[d] \subseteq {"ioremap_control"}
       /\ claimed[d] = IF missing[d] = {} THEN {Control[d]} ELSE {}
  /\ probe[d] \in AfterData =>
       /\ missing[d] \subseteq Unnoticed
       /\ claimed[d] = Mapped(d)
       /\ Control[d] = Data[d] => missing[d] \cap {"ioremap_control", "ioremap_data"} # {}

\* A region belongs to one device.
OneOwner == \A d, e \in Devices : d # e => claimed[d] \cap claimed[e] = {}

ProbeInv == ProbeTypeOK /\ (\A d \in Devices : Progress(d)) /\ OneOwner

LEMMA InitProbe == ProbeInit => ProbeInv
BY DEF ProbeInit, ProbeInv, ProbeTypeOK, Progress, OneOwner, Calls, BeforeControl, BeforeData, AfterData

\* A step of one device that claims only what is free leaves the others alone: the
\* invariant follows from types and from the progress of that device.
LEMMA OneDevice ==
  ASSUME ProbeInv, ProbeTypeOK', NEW d \in Devices, Progress(d)',
         \A e \in Devices \ {d} : /\ probe'[e] = probe[e] /\ claimed'[e] = claimed[e]
                                  /\ missing'[e] = missing[e]
                                  /\ e \in dtc_data' <=> e \in dtc_data
                                  /\ claimed'[d] \cap claimed[e] = {}
  PROVE  ProbeInv'
<1>1. \A e \in Devices \ {d} : Progress(e)'
  BY DEF ProbeInv, Progress, Mapped
<1>2. OneOwner'
  BY DEF ProbeInv, OneOwner
<1> QED
  BY <1>1, <1>2 DEF ProbeInv

\* A failing call: it is noticed, or one of those that are not.
LEMMA FailsStep ==
  ASSUME ProbeInv, NEW d \in Devices, NEW call \in Calls, NEW next,
         Fails(d, call, next),
         \/ next = "release"
         \/ call = "ioremap_control" /\ next = "get_data"
         \/ call = "ioremap_data" /\ next = "irq_rx"
         \/ call = "irq_rx" /\ next = "irq_tx"
         \/ call = "irq_tx" /\ next = "device-name"
  PROVE  ProbeInv'
<1>1. ProbeTypeOK'
  BY DEF ProbeInv, ProbeTypeOK, Fails, Advances, Calls
<1>2. /\ probe[d] = call /\ probe'[d] = next
      /\ missing'[d] = missing[d] \cup {call}
      /\ claimed' = claimed /\ dtc_data' = dtc_data
      /\ \A e \in Devices \ {d} : probe'[e] = probe[e] /\ missing'[e] = missing[e]
  BY DEF ProbeInv, ProbeTypeOK, Fails, Advances
<1>3. Progress(d)
  BY DEF ProbeInv
<1>4. Progress(d)'
  BY <1>2, <1>3 DEF Progress, Mapped, Unnoticed, BeforeControl, BeforeData, AfterData
<1>5. \A e \in Devices \ {d} : claimed'[d] \cap claimed[e] = {}
  BY <1>2 DEF ProbeInv, OneOwner
<1> QED
  BY <1>1, <1>2, <1>4, <1>5, OneDevice

\* A call that succeeds and takes nothing.
LEMMA PassesStep ==
  ASSUME ProbeInv, NEW d \in Devices, NEW call, NEW next,
         Advances(d, call, next), UNCHANGED <<dtc_data, claimed, missing>>,
         <<call, next>> \in {<<"get_control", "ioremap_control">>, <<"get_data", "ioremap_data">>,
                             <<"irq_rx", "irq_tx">>, <<"irq_tx", "device-name">>,
                             <<"device-name", "buffer-size">>, <<"buffer-size", "bound">>,
                             <<"bound", "release">>}
  PROVE  ProbeInv'
<1>1. ProbeTypeOK'
  BY DEF ProbeInv, ProbeTypeOK, Advances, Calls
<1>2. /\ probe[d] = call /\ probe'[d] = next
      /\ \A e \in Devices \ {d} : probe'[e] = probe[e]
  BY DEF ProbeInv, ProbeTypeOK, Advances
<1>3. Progress(d)
  BY DEF ProbeInv
<1>4. Progress(d)'
  BY <1>2, <1>3 DEF Progress, Mapped, BeforeControl, BeforeData, AfterData
<1>5. \A e \in Devices \ {d} : claimed'[d] \cap claimed[e] = {}
  BY DEF ProbeInv, OneOwner
<1> QED
  BY <1>1, <1>2, <1>4, <1>5, OneDevice

\* A region that is mapped was nobody's.
LEMMA ClaimStep ==
  ASSUME ProbeInv, NEW d \in Devices, NEW call, NEW region, NEW next,
         \A e \in Devices : region \notin claimed[e],
         Advances(d, call, next), claimed' = [claimed EXCEPT ![d] = @ \cup {region}],
         UNCHANGED <<dtc_data, missing>>,
         \/ call = "ioremap_control" /\ region = Control[d] /\ next = "get_data"
         \/ call = "ioremap_data" /\ region = Data[d] /\ next = "irq_rx"
  PROVE  ProbeInv'
<1>1. region \in Regions
  BY NodeAssumption
<1>2. ProbeTypeOK'
  BY <1>1 DEF ProbeInv, ProbeTypeOK, Advances, Calls
<1>3. /\ probe[d] = call /\ probe'[d] = next
      /\ claimed'[d] = claimed[d] \cup {region}
      /\ \A e \in Devices \ {d} : probe'[e] = probe[e] /\ claimed'[e] = claimed[e]
  BY DEF ProbeInv, ProbeTypeOK, Advances
<1>4. Progress(d) /\ region \notin claimed[d]
  BY DEF ProbeInv
<1>5. Progress(d)'
  <2>1. CASE call = "ioremap_control"
    BY <1>3, <1>4, <2>1 DEF Progress, Mapped, BeforeControl, BeforeData, AfterData
  <2>2. CASE call = "ioremap_data"
    BY <1>3, <1>4, <2>2 DEF Progress, Mapped, Unnoticed, BeforeControl, BeforeData, AfterData
  <2> QED
    BY <2>1, <2>2
<1>6. \A e \in Devices \ {d} : claimed'[d] \cap claimed[e] = {}
  BY <1>3 DEF ProbeInv, OneOwner
<1> QED
  BY <1>2, <1>3, <1>5, <1>6, OneDevice

LEMMA CoreSteps ==
  ASSUME ProbeInv, NEW d \in Devices, Match(d) \/ AllocateData(d) \/ ReleaseAll(d)
  PROVE  ProbeInv'
<1>1. CASE Fails(d, "devm_kzalloc", "release")
  BY <1>1, FailsStep DEF Calls
<1>2. CASE ~ Fails(d, "devm_kzalloc", "release")
  <2>1. ProbeTypeOK'
    BY <1>2 DEF ProbeInv, ProbeTypeOK, Match, AllocateData, ReleaseAll, Advances, Calls
  <2>2. \A e \in Devices \ {d} : /\ probe'[e] = probe[e] /\ claimed'[e] = claimed[e]
                                 /\ missing'[e] = missing[e]
                                 /\ e \in dtc_data' <=> e \in dtc_data
    BY <1>2 DEF ProbeInv, ProbeTypeOK, Match, AllocateData, ReleaseAll, Advances
  <2>3. claimed'[d] \subseteq claimed[d]
    BY <1>2 DEF ProbeInv, ProbeTypeOK, Match, AllocateData, ReleaseAll
  <2>4. Progress(d)'
    BY <1>2 DEF ProbeInv, ProbeTypeOK, Progress, Match, AllocateData, ReleaseAll, Advances,
       BeforeControl, BeforeData, AfterData
  <2>5. \A e \in Devices \ {d} : claimed'[d] \cap claimed[e] = {}
    BY <2>3 DEF ProbeInv, OneOwner
  <2> QED
    BY <2>1, <2>2, <2>4, <2>5, OneDevice
<1> QED
  BY <1>1, <1>2

LEMMA ProbeStep ==
  ASSUME ProbeInv, NEW d \in Devices, test_probe(d) \/ test_remove(d)
  PROVE  ProbeInv'
<1>1. CASE AllocateData(d)
  BY <1>1, CoreSteps
<1>2. CASE LookUp(d, "get_control", "ioremap_control")
  BY <1>2, PassesStep, FailsStep DEF LookUp, Calls
<1>3. CASE IoremapResource(d, "ioremap_control", Control[d], "get_data")
  BY <1>3, ClaimStep, FailsStep DEF IoremapResource, Calls
<1>4. CASE LookUp(d, "get_data", "ioremap_data")
  BY <1>4, PassesStep, FailsStep DEF LookUp, Calls
<1>5. CASE IoremapResource(d, "ioremap_data", Data[d], "irq_rx")
  BY <1>5, ClaimStep, FailsStep DEF IoremapResource, Calls
<1>6. CASE GetIrq(d, "irq_rx", "irq_tx")
  BY <1>6, PassesStep, FailsStep DEF GetIrq, Calls
<1>7. CASE GetIrq(d, "irq_tx", "device-name")
  BY <1>7, PassesStep, FailsStep DEF GetIrq, Calls
<1>8. CASE LookUp(d, "device-name", "buffer-size")
  BY <1>8, PassesStep, FailsStep DEF LookUp, Calls
<1>9. CASE LookUp(d, "buffer-size", "bound")
  BY <1>9, PassesStep, FailsStep DEF LookUp, Calls
<1>10. CASE test_remove(d)
  BY <1>10, PassesStep DEF test_remove
<1> QED
  BY <1>1, <1>2, <1>3, <1>4, <1>5, <1>6, <1>7, <1>8, <1>9, <1>10 DEF test_probe

LEMMA ProbeSteps == ProbeInv /\ [ProbeNext]_probe_vars => ProbeInv'
<1>1. ASSUME ProbeInv, ProbeNext PROVE ProbeInv'
  BY <1>1, CoreSteps, ProbeStep DEF ProbeNext
<1>2. ASSUME ProbeInv, UNCHANGED probe_vars PROVE ProbeInv'
  BY <1>2 DEF probe_vars, ProbeInv, ProbeTypeOK, Progress, Mapped, OneOwner
<1> QED
  BY <1>1, <1>2

\* The invariant: what each device holds at each call, and that no region is held
\* twice.
THEOREM ProbeInvariance == ProbeSpec => []ProbeInv
  BY InitProbe, ProbeSteps, PTL DEF ProbeSpec

\* A bound device has its data and the regions it did not lose in a call whose
\* result test_probe does not look at, no region has two devices, and an unbound
\* device holds nothing.
THEOREM ProbesHold == ProbeSpec => []ProbeHolds
<1>1. ProbeInv => ProbeHolds
  BY DEF ProbeInv, ProbeHolds, Progress, OneOwner, Unnoticed, AfterData
<1> QED
  BY <1>1, ProbeInvariance, PTL

-----------------------------------------------------------------------------
(* CharAdvance *)

\* The first n devices, and those from n on.
Devs(m, n) == {"cdev", "device"} \X (m .. n)

\* What is registered at each call of insmod and of its unwinding.
Registered ==
  /\ driver = "alloc_chrdev_region" => held = {} /\ itr = 0
  /\ driver = "class_create" => held = {Region} /\ itr = 0
  /\ driver = "cdev_add" => held = {Region, Class} \cup Devs(0, itr - 1)
  /\ driver = "device_create" => held = {Region, Class} \cup Devs(0, itr - 1) \cup {Cdev(itr)}
  /\ driver = "cdev_deinit" =>
       held \ {Device(itr)} = {Region, Class} \cup Devs(0, itr - 1) \cup {Cdev(itr)}
  /\ driver = "cdev_deinit_cdev" => held = {Region, Class} \cup Devs(0, itr - 1) \cup {Cdev(itr)}
  /\ driver = "class_deinit" => held = {Region, Class} \cup Devs(0, itr - 1)
  /\ driver = "unregister_chrdev" => held = {Region} \cup Devs(0, itr - 1)
  /\ driver = "failed" => held = Devs(0, itr - 1)

Looping == {"cdev_add", "device_create", "cdev_deinit", "cdev_deinit_cdev"}

\* The loop of insmod never gets past the second device.
CharInv ==
  /\ driver \in {"failed"} \cup InitCalls \cup UnwindCalls
  /\ itr \in -1 .. 1
  /\ files \subseteq Minors
  /\ driver \in Looping => itr \in 0 .. 1
  /\ Registered

\* One device more, at either end.
LEMMA OneDeviceMore ==
  ASSUME NEW m \in Int, NEW n \in Int, m <= n
  PROVE  /\ Devs(m, n) = Devs(m, n - 1) \cup {Cdev(n), Device(n)}
         /\ Devs(m, n) = Devs(m + 1, n) \cup {Cdev(m), Device(m)}
         /\ Cdev(n) \notin Devs(m, n - 1) /\ Device(n) \notin Devs(m, n - 1)
         /\ Cdev(m) \notin Devs(m + 1, n) /\ Device(m) \notin Devs(m + 1, n)
<1>1. m .. n = (m .. n - 1) \cup {n} /\ n \notin m .. n - 1
  OBVIOUS
<1>2. m .. n = (m + 1 .. n) \cup {m} /\ m \notin m + 1 .. n
  OBVIOUS
<1>3. \A S, x : {"cdev", "device"} \X (S \cup {x})
                  = ({"cdev", "device"} \X S) \cup {<<"cdev", x>>, <<"device", x>>}
  OBVIOUS
<1>4. \A S, x, k : <<k, x>> \in {"cdev", "device"} \X S => x \in S
  OBVIOUS
<1> HIDE DEF Devs
<1>5. /\ Devs(m, n) = Devs(m, n - 1) \cup {Cdev(n), Device(n)}
      /\ Devs(m, n) = Devs(m + 1, n) \cup {Cdev(m), Device(m)}
  BY <1>1, <1>2, <1>3, Zenon DEF Devs, Cdev, Device
<1> QED
  BY <1>1, <1>2, <1>4, <1>5 DEF Devs, Cdev, Device

\* The four kinds of registration are told apart by their names, a device by its number.
LEMMA Kinds ==
  /\ Region # Class
  /\ \A n : /\ Cdev(n) # Region /\ Cdev(n) # Class /\ Device(n) # Region /\ Device(n) # Class
            /\ Cdev(n) # Device(n)
  /\ \A m, n : Region \notin Devs(m, n) /\ Class \notin Devs(m, n)
BY DEF Region, Class, Cdev, Device, Devs

LEMMA NoDevs == \A m, n \in Int : n < m => Devs(m, n) = {}
BY DEF Devs

LEMMA InitChar == CharInit => CharInv
BY DEF CharInit, CharInv, Registered, InitCalls, UnwindCalls, Looping

\* insmod: one registration more, or on to the unwinding.
LEMMA InitCallStep ==
  ASSUME CharInv, dev_driver_init
  PROVE  CharInv'
<1> USE DeviceAssumption
<1> USE DEF CharInv, Registered, InitCalls, UnwindCalls, Looping, Acquire
<1>0. Devs(0, 0 - 1) = {}
  BY NoDevs
<1>1. CASE Acquire("alloc_chrdev_region", Region, "class_create", "failed") /\ UNCHANGED itr
  BY <1>0, <1>1
<1>2. CASE Acquire("class_create", Class, "cdev_add", "unregister_chrdev") /\ UNCHANGED itr
  <2>1. driver = "class_create" /\ held = {Region} /\ itr = 0 /\ itr' = 0 /\ files' = files
    BY <1>2
  <2>2. \/ driver' = "cdev_add" /\ held' = {Region, Class} \cup Devs(0, itr' - 1)
        \/ driver' = "unregister_chrdev" /\ held' = {Region} \cup Devs(0, itr' - 1)
    BY <1>0, <1>2, <2>1
  <2> QED
    BY <2>1, <2>2
<1>3. CASE Acquire("cdev_add", Cdev(itr), "device_create", "class_deinit") /\ UNCHANGED itr
  <2>1. driver = "cdev_add" /\ itr \in 0 .. 1 /\ itr' = itr /\ files' = files
    BY <1>3
  <2>2. \/ driver' = "device_create"
           /\ held' = {Region, Class} \cup Devs(0, itr' - 1) \cup {Cdev(itr')}
        \/ driver' = "class_deinit" /\ held' = {Region, Class} \cup Devs(0, itr' - 1)
    BY <1>3, <2>1
  <2> QED
    BY <2>1, <2>2
<1>4. CASE /\ Acquire("device_create", Device(itr),
                       IF itr + 1 < DVC_MAX_COUNT THEN "cdev_add" ELSE "loaded", "cdev_deinit")
           /\ NameTaken => driver' = "cdev_deinit"
           /\ itr' = IF driver' = "cdev_deinit" THEN itr ELSE itr + 1
  <2>1. /\ driver = "device_create" /\ itr \in 0 .. 1 /\ files' = files
        /\ held = {Region, Class} \cup Devs(0, itr - 1) \cup {Cdev(itr)}
    BY <1>4
  <2>2. CASE driver' = "cdev_deinit"
    <3>1. held' = held /\ itr' = itr
      BY <1>4, <2>2
    <3>2. Device(itr) \notin held
      BY <2>1, OneDeviceMore, Kinds
    <3>3. held' \ {Device(itr')} = {Region, Class} \cup Devs(0, itr' - 1) \cup {Cdev(itr')}
      BY <2>1, <3>1, <3>2
    <3> QED
      BY <2>1, <2>2, <3>1, <3>3
  <2>3. CASE driver' # "cdev_deinit"
    <3>1. itr = 0
      <4>1. CASE itr = 1
        <5>1. Device(0) \in Devs(0, 0)
          BY OneDeviceMore
        <5>2. Device(0) \in held /\ 0 \in Minors
          BY <2>1, <4>1, <5>1 DEF Minors
        <5> QED
          BY <1>4, <2>3, <5>2 DEF NameTaken
      <4> QED
        BY <2>1, <4>1
    <3>2. held' = held \cup {Device(0)} /\ itr' = 1 /\ driver' = "cdev_add"
      BY <1>4, <2>3, <3>1
    <3>3. Devs(0, 0) = Devs(0, 0 - 1) \cup {Cdev(0), Device(0)}
      BY OneDeviceMore
    <3>4. held' = {Region, Class} \cup Devs(0, itr' - 1)
      BY <2>1, <3>1, <3>2, <3>3
    <3> QED
      BY <2>1, <3>2, <3>4
  <2> QED
    BY <2>2, <2>3
<1> QED
  BY <1>1, <1>2, <1>3, <1>4 DEF dev_driver_init

\* The unwinding: back from the device that failed, then class and region.
LEMMA UnwindStep ==
  ASSUME CharInv, CdevDeinit \/ ClassDeinit
  PROVE  CharInv'
<1> USE DeviceAssumption
<1> USE DEF CharInv, Registered, InitCalls, UnwindCalls, Looping, GiveBack
<1>1. CASE GiveBack("cdev_deinit", Device(itr), "cdev_deinit_cdev") /\ UNCHANGED itr
  BY <1>1
<1>2. CASE /\ GiveBack("cdev_deinit_cdev", Cdev(itr), IF itr > 0 THEN "cdev_deinit" ELSE "class_deinit")
           /\ itr' = itr - 1
  <2>1. /\ driver = "cdev_deinit_cdev" /\ itr \in 0 .. 1 /\ files' = files
        /\ held = {Region, Class} \cup Devs(0, itr - 1) \cup {Cdev(itr)}
        /\ held' = held \ {Cdev(itr)} /\ itr' = itr - 1
        /\ driver' = IF itr > 0 THEN "cdev_deinit" ELSE "class_deinit"
    BY <1>2
  <2>2. Cdev(itr) \notin {Region, Class} \cup Devs(0, itr - 1)
    BY <2>1, OneDeviceMore, Kinds
  <2>3. held' = {Region, Class} \cup Devs(0, itr')
    BY <2>1, <2>2
  <2>4. CASE itr > 0
    <3>1. itr' \in 0 .. 1 /\ itr' \in Int /\ 0 <= itr'
      BY <2>1, <2>4
    <3>2. /\ Devs(0, itr') = Devs(0, itr' - 1) \cup {Cdev(itr'), Device(itr')}
          /\ Device(itr') \notin Devs(0, itr' - 1)
      BY <3>1, OneDeviceMore
    <3>3. held' \ {Device(itr')} = {Region, Class} \cup Devs(0, itr' - 1) \cup {Cdev(itr')}
      BY <2>3, <3>2, Kinds
    <3> QED
      BY <2>1, <2>4, <3>1, <3>3
  <2>5. CASE ~(itr > 0)
    <3>1. itr' = -1
      BY <2>1, <2>5
    <3>2. Devs(0, itr') = {} /\ Devs(0, itr' - 1) = {}
      BY <3>1, NoDevs
    <3> QED
      BY <2>1, <2>3, <2>5, <3>1, <3>2
  <2> QED
    BY <2>4, <2>5
<1>3. CASE GiveBack("class_deinit", Class, "unregister_chrdev") /\ UNCHANGED itr
  <2>1. held' = {Region} \cup Devs(0, itr - 1)
    BY <1>3, Kinds
  <2> QED
    BY <1>3, <2>1
<1>4. CASE GiveBack("unregister_chrdev", Region, "failed") /\ UNCHANGED itr
  <2>1. held' = Devs(0, itr - 1)
    BY <1>4, Kinds
  <2> QED
    BY <1>4, <2>1
<1> QED
  BY <1>1, <1>2, <1>3, <1>4 DEF CdevDeinit, ClassDeinit

LEMMA FileSteps ==
  ASSUME CharInv, NEW n \in Minors, Open(n) \/ Release(n)
  PROVE  CharInv'
<1>1. UNCHANGED <<driver, itr, held>>
  BY DEF Open, Release
<1>2. files' \subseteq Minors
  BY DEF CharInv, Open, Release
<1> QED
  BY <1>1, <1>2 DEF CharInv, Registered

LEMMA CharSteps == CharInv /\ [CharNext]_char_vars => CharInv'
<1>1. ASSUME CharInv, CharNext PROVE CharInv'
  BY <1>1, InitCallStep, UnwindStep, FileSteps DEF CharNext
<1>2. ASSUME CharInv, UNCHANGED char_vars PROVE CharInv'
  BY <1>2 DEF char_vars, CharInv, Registered
<1> QED
  BY <1>1, <1>2

LEMMA CharFacts == CharInv => CharTypeOK /\ CharLeftBehind
<1> SUFFICES ASSUME CharInv PROVE CharTypeOK /\ CharLeftBehind
  OBVIOUS
<1>1. CharLeftBehind
  BY DEF CharInv, Registered, CharLeftBehind, Devs, InitCalls, UnwindCalls
<1> DEFINE All == {Region, Class} \cup ({"cdev", "device"} \X Minors)
<1>2. itr \in -1 .. 1 /\ 0 .. 1 \subseteq Minors
  BY DeviceAssumption DEF CharInv, Minors
<1>3. Devs(0, itr - 1) \subseteq All
  <2>1. 0 .. itr - 1 \subseteq Minors
    BY <1>2
  <2> QED
    BY <2>1 DEF Devs
<1>4. driver \in Looping => {Cdev(itr), Device(itr)} \subseteq All
  BY <1>2 DEF CharInv, Cdev, Device
<1> HIDE DEF Cdev, Device, Region, Class
<1>5. held \subseteq All
  BY <1>3, <1>4 DEF CharInv, Registered, Looping, InitCalls, UnwindCalls
<1>6. itr \in -1 .. DVC_MAX_COUNT
  BY <1>2, DeviceAssumption
<1> QED
  BY <1>1, <1>5, <1>6 DEF CharInv, CharTypeOK

-----------------------------------------------------------------------------
(* VmallocCheck *)

\* Of the pages the loop has been through: those found, and those behind a break.
FoundTo(k) == {n \in Found : n <= k}
BreaksTo(k) == {n \in Breaks : n <= k}

\* Which buffers are allocated at each step of insmod and rmmod.
Buffers ==
  /\ kbuffer <=> lab \in {"vmalloc", "check", "free_kbuffer", "loaded"}
  /\ vbuffer <=> lab \in {"check", "loaded", "vfree"}

\* The loop: what is counted is what the pages so far show, and prev_pfn is the
\* frame of the last of them that was found.
Counted ==
  /\ page_num = Cardinality(FoundTo(offset))
  /\ discontig_count = Cardinality(BreaksTo(offset))
  /\ page_num # 0 =>
       \E m \in FoundTo(offset) : prev_pfn = page[m] /\ \A k \in FoundTo(offset) : k <= m

VmallocInv ==
  /\ VmallocTypeOK
  /\ discontig_count <= page_num
  /\ Buffers
  /\ lab \in {"kmalloc", "vmalloc"} => offset = 0 /\ page_num = 0 /\ discontig_count = 0
  /\ lab \in {"check", "loaded"} => page \in Layouts /\ Counted
  /\ lab = "loaded" => offset = VMALLOC_TEST_PAGES

LEMMA InitVmalloc == VmallocInit => VmallocInv
<1> SUFFICES ASSUME VmallocInit PROVE VmallocInv
  OBVIOUS
<1>1. 0 \in 0 .. VMALLOC_TEST_PAGES /\ 0 \in 0 .. 0
  BY PageAssumption
<1>2. VmallocTypeOK
  BY <1>1 DEF VmallocInit, VmallocTypeOK
<1>3. Buffers
  BY DEF VmallocInit, Buffers
<1> QED
  BY <1>2, <1>3 DEF VmallocInit, VmallocInv

LEMMA CountsFinite ==
  \A k : IsFiniteSet(FoundTo(k)) /\ IsFiniteSet(BreaksTo(k))
<1>1. IsFiniteSet(Pages)
  BY PageAssumption, FS_Interval DEF Pages
<1>2. \A k : FoundTo(k) \subseteq Pages /\ BreaksTo(k) \subseteq Pages
  BY DEF FoundTo, BreaksTo, Found, Breaks
<1> QED
  BY <1>1, <1>2, FS_Subset

\* One round of the loop counts one page: the page found before it, if any, is the
\* one whose frame prev_pfn holds.
LEMMA CheckPageStep ==
  ASSUME VmallocInv, CheckPage
  PROVE  VmallocInv'
<1>0. PICK n : n = offset + 1
  OBVIOUS
<1> DEFINE pfn == page[n]
<1>1. /\ lab = "check" /\ offset \in 0 .. VMALLOC_TEST_PAGES /\ offset < VMALLOC_TEST_PAGES
      /\ offset' = n /\ UNCHANGED <<lab, kbuffer, vbuffer, page>>
      /\ page \in Layouts /\ Counted /\ VMALLOC_TEST_PAGES \in Nat
      /\ page_num \in 0 .. offset /\ discontig_count \in 0 .. VMALLOC_TEST_PAGES
      /\ prev_pfn \in Frames \cup {0} /\ discontig_count <= page_num
  BY <1>0, PageAssumption DEF VmallocInv, VmallocTypeOK, CheckPage
<1>2. n \in Pages /\ n \in Nat /\ n # 0 /\ offset < n /\ pfn \in Frames \cup {NoFrame}
  BY <1>0, <1>1 DEF Pages, Layouts
<1>3. Found' = Found /\ Breaks' = Breaks
  BY <1>1 DEF Found, Breaks, FoundNext
<1>4. Found \subseteq Pages /\ Breaks \subseteq Found /\ Pages \subseteq Nat /\ n \notin FoundTo(offset)
  <2>1. Found \subseteq Pages /\ Breaks \subseteq Found /\ Pages \subseteq Nat
    BY DEF Found, Breaks, Pages
  <2> QED
    BY <1>1, <1>2, <2>1 DEF FoundTo
<1>9. (\A k \in Nat : k < n <=> k <= offset) /\ (\A k \in Found : k \in Nat)
  <2>1. \A k \in Nat : k < n <=> k <= offset
    BY <1>0, <1>1
  <2>2. \A k \in Found : k \in Nat
    BY <1>4
  <2> QED
    BY <2>1, <2>2
<1>5. /\ FoundTo(n) = FoundTo(offset) \cup ({n} \cap Found)
      /\ BreaksTo(n) = BreaksTo(offset) \cup ({n} \cap Breaks)
      /\ n \notin BreaksTo(offset)
  <2>1. \A k \in Nat : k <= n <=> k <= offset \/ k = n
    BY <1>0, <1>1
  <2>2. \A k \in Found : k \in Nat
    BY <1>4
  <2>3. n \notin BreaksTo(offset)
    BY <1>1, <1>2, <2>2 DEF BreaksTo
  <2> QED
    BY <1>4, <2>1, <2>2, <2>3 DEF FoundTo, BreaksTo
<1>6. FoundTo(n)' = FoundTo(n) /\ BreaksTo(n)' = BreaksTo(n)
  BY <1>1, <1>3 DEF FoundTo, BreaksTo
<1>7. CASE pfn = NoFrame
  <2>1. UNCHANGED <<prev_pfn, page_num, discontig_count>>
    BY <1>0, <1>7 DEF CheckPage
  <2>2. n \notin Found /\ n \notin Breaks
    BY <1>7 DEF Found, Breaks
  <2>3. FoundTo(n) = FoundTo(offset) /\ BreaksTo(n) = BreaksTo(offset)
    BY <1>5, <2>2
  <2>4. Counted'
    <3>1. offset' = n /\ page' = page
      BY <1>1
    <3> HIDE DEF pfn
    <3> QED
      BY <1>1, <1>3, <2>1, <2>3, <3>1 DEF Counted, FoundTo, BreaksTo
  <2>5. offset' \in 0 .. VMALLOC_TEST_PAGES /\ page_num \in 0 .. offset'
    BY <1>0, <1>1
  <2>6. VmallocTypeOK'
    BY <1>1, <2>1, <2>5 DEF VmallocInv, VmallocTypeOK
  <2>7. Buffers'
    BY <1>1 DEF VmallocInv, Buffers
  <2> QED
    BY <1>1, <2>1, <2>4, <2>6, <2>7 DEF VmallocInv
<1>8. CASE pfn # NoFrame
  <2> DEFINE contig == page_num = 0 \/ pfn = prev_pfn + 1
  <2>1. /\ discontig_count' = IF contig THEN discontig_count ELSE discontig_count + 1
        /\ prev_pfn' = pfn /\ page_num' = page_num + 1
    BY <1>0, <1>8 DEF CheckPage
  <2>2. n \in Found /\ FoundTo(n) = FoundTo(offset) \cup {n}
    BY <1>2, <1>5, <1>8 DEF Found
  <2>3. page_num' = Cardinality(FoundTo(n))
    BY <1>1, <1>4, <2>1, <2>2, CountsFinite, FS_AddElement DEF Counted
  <2>4. n \in Breaks <=> ~contig
    <3>1. \A m \in Found : m < n => m \in FoundTo(offset)
      BY <1>9 DEF FoundTo
    <3>2. CASE page_num = 0
      <4>1. FoundTo(offset) = {}
        BY <1>1, <3>2, CountsFinite, FS_EmptySet DEF Counted
      <4>2. n \notin Breaks
        BY <3>1, <4>1 DEF Breaks, FoundNext
      <4> QED
        BY <3>2, <4>2
    <3>3. CASE page_num # 0
      <4>1. PICK m \in FoundTo(offset) : prev_pfn = page[m] /\ \A k \in FoundTo(offset) : k <= m
        BY <1>1, <3>3 DEF Counted
      <4>2. m \in Found /\ m \in Nat /\ m < n
        BY <1>9, <4>1 DEF FoundTo
      <4>3. FoundNext(m, n)
        <5>1. \A k \in Found : k < n => k <= m
          BY <3>1, <4>1
        <5>2. \A k \in Found : k \in Nat
          BY <1>4
        <5> QED
          BY <2>2, <4>2, <5>1, <5>2 DEF FoundNext
      <4>4. \A l \in Found : FoundNext(l, n) => l = m
        <5> SUFFICES ASSUME NEW l \in Found, FoundNext(l, n) PROVE l = m
          OBVIOUS
        <5>1. l \in Nat /\ l < n /\ ~ (l < m /\ m < n)
          BY <1>4, <4>2 DEF FoundNext
        <5>2. l <= m
          BY <3>1, <4>1, <5>1
        <5> QED
          BY <4>2, <5>1, <5>2
      <4>5. n \in Breaks <=> page[n] # page[m] + 1
        BY <2>2, <4>2, <4>3, <4>4 DEF Breaks
      <4> QED
        BY <3>3, <4>1, <4>5
    <3> QED
      BY <3>2, <3>3
  <2> HIDE DEF contig
  <2>5. discontig_count' = Cardinality(BreaksTo(n))
    <3>1. CASE contig
      <4>1. BreaksTo(n) = BreaksTo(offset)
        BY <1>5, <2>4, <3>1
      <4> QED
        BY <1>1, <2>1, <3>1, <4>1 DEF Counted
    <3>2. CASE ~contig
      <4>1. BreaksTo(n) = BreaksTo(offset) \cup {n}
        BY <1>5, <2>4, <3>2
      <4> QED
        BY <1>1, <1>5, <2>1, <3>2, <4>1, CountsFinite, FS_AddElement DEF Counted
    <3> QED
      BY <3>1, <3>2
  <2>6. n \in FoundTo(n) /\ \A k \in FoundTo(n) : k <= n
    BY <1>2, <2>2 DEF FoundTo
  <2>7. Counted'
    <3>1. offset' = n /\ page' = page /\ pfn = page[n] /\ FoundTo(n)' = FoundTo(n) /\ BreaksTo(n)' = BreaksTo(n)
      BY <1>1, <1>6
    <3>2. FoundTo(offset)' = FoundTo(n) /\ BreaksTo(offset)' = BreaksTo(n)
      BY <1>1, <1>3 DEF FoundTo, BreaksTo
    <3> HIDE DEF pfn
    <3> QED
      BY <2>1, <2>3, <2>5, <2>6, <3>1, <3>2 DEF Counted
  <2>8. /\ page_num' \in 0 .. offset' /\ discontig_count' <= page_num'
        /\ discontig_count' \in 0 .. VMALLOC_TEST_PAGES /\ prev_pfn' \in Frames \cup {0}
        /\ offset' \in 0 .. VMALLOC_TEST_PAGES
    <3>1. /\ offset' = offset + 1 /\ page_num' = page_num + 1
          /\ discontig_count' \in {discontig_count, discontig_count + 1}
      BY <1>0, <1>1, <2>1
    <3>2. prev_pfn' \in Frames
      BY <1>2, <1>8, <2>1
    <3>3. /\ offset \in 0 .. VMALLOC_TEST_PAGES - 1 /\ page_num \in 0 .. offset
          /\ discontig_count \in 0 .. page_num
      BY <1>1
    <3> HIDE DEF pfn
    <3> QED
      BY <1>1, <3>1, <3>2, <3>3
  <2> QED
    BY <1>1, <2>7, <2>8 DEF VmallocInv, VmallocTypeOK, Buffers
<1> QED
  BY <1>7, <1>8

LEMMA VmallocOtherSteps ==
  ASSUME VmallocInv, AllocateK \/ AllocateV \/ CheckDone \/ FreeKbuffer \/ CleanK \/ CleanV
  PROVE  VmallocInv'
<1> USE DEF VmallocInv, VmallocTypeOK, Buffers, scan
<1>1. CASE AllocateK
  <2>1. CASE kbuffer' = TRUE /\ lab' = "vmalloc"
    <3>1. kbuffer' /\ kbuffer' \in BOOLEAN
      BY <2>1
    <3> QED
      BY <1>1, <2>1, <3>1 DEF AllocateK
  <2>2. CASE UNCHANGED kbuffer /\ lab' = "failed"
    BY <1>1, <2>2 DEF AllocateK
  <2> QED
    BY <1>1, <2>1, <2>2 DEF AllocateK
<1>2. CASE AllocateV
  <2>1. CASE lab' = "check" /\ page' \in Layouts /\ vbuffer' = TRUE
    <3>1. /\ offset' = 0 /\ page_num' = 0 /\ discontig_count' = 0
      BY <1>2 DEF AllocateV
    <3>2. \A m \in Found' : m \in Nat /\ ~(m <= 0)
      BY DEF Found, Pages
    <3>3. FoundTo(0)' = {} /\ BreaksTo(0)' = {}
      BY <3>2 DEF FoundTo, BreaksTo, Breaks
    <3>4. FoundTo(offset)' = {} /\ BreaksTo(offset)' = {}
      BY <3>1, <3>3 DEF FoundTo, BreaksTo
    <3>5. Counted'
      BY <3>1, <3>4, FS_EmptySet DEF Counted
    <3> QED
      BY <1>2, <2>1, <3>1, <3>5 DEF AllocateV
  <2>2. CASE UNCHANGED <<vbuffer, page>> /\ lab' = "free_kbuffer"
    BY <1>2, <2>2 DEF AllocateV
  <2> QED
    BY <1>2, <2>1, <2>2 DEF AllocateV
<1>3. CASE CheckDone
  <2>1. Counted'
    BY <1>3 DEF CheckDone, Counted, FoundTo, BreaksTo, Found, Breaks, FoundNext
  <2> QED
    BY <1>3, <2>1 DEF CheckDone
<1>4. CASE FreeKbuffer
  BY <1>4 DEF FreeKbuffer
<1>5. CASE CleanK
  BY <1>5 DEF CleanK
<1>6. CASE CleanV
  BY <1>6 DEF CleanV
<1> QED
  BY <1>1, <1>2, <1>3, <1>4, <1>5, <1>6

LEMMA VmallocSteps == VmallocInv /\ [VmallocNext]_vmalloc_vars => VmallocInv'
<1>1. ASSUME VmallocInv, VmallocNext PROVE VmallocInv'
  BY <1>1, CheckPageStep, VmallocOtherSteps DEF VmallocNext
<1>2. ASSUME VmallocInv, UNCHANGED vmalloc_vars PROVE VmallocInv'
  BY <1>2 DEF vmalloc_vars, scan, VmallocInv, VmallocTypeOK, Buffers, Counted, FoundTo, BreaksTo,
     Found, Breaks, FoundNext
<1> QED
  BY <1>1, <1>2

LEMMA VmallocFacts == VmallocInv => VmallocTypeOK /\ VmallocLeftBehind /\ DiscontigExact
<1> SUFFICES ASSUME VmallocInv PROVE VmallocTypeOK /\ VmallocLeftBehind /\ DiscontigExact
  OBVIOUS
<1>1. VmallocTypeOK /\ VmallocLeftBehind
  BY DEF VmallocInv, VmallocTypeOK, Buffers, VmallocLeftBehind
<1>2. FoundTo(VMALLOC_TEST_PAGES) = Found /\ BreaksTo(VMALLOC_TEST_PAGES) = Breaks
  BY PageAssumption DEF FoundTo, BreaksTo, Found, Breaks, Pages
<1>3. DiscontigExact
  BY <1>2 DEF VmallocInv, Counted, DiscontigExact
<1> QED
  BY <1>1, <1>3

-----------------------------------------------------------------------------
(* ExceptionVectors *)

\* An instruction that names registers and slots.
Instructions == [op : {"str", "ldr", "mov", "bl"}, to : Int, from : Int]

\* The slot from which restore_context loads the k-th system register, of ELR_EL1,
\* SPSR_EL1, ESR_EL1 and FAR_EL1.
SlotOf(k) == IF k = 2 THEN EsrSlot ELSE 31 + k

\* Where the elements of a sequence stand when another one follows or comes before it.
LEMMA ConcatAt ==
  ASSUME NEW a \in Seq(Instructions), NEW b \in Seq(Instructions)
  PROVE  /\ a \o b \in Seq(Instructions) /\ Len(a \o b) = Len(a) + Len(b)
         /\ \A e \in 1 .. Len(a) : (a \o b)[e] = a[e]
         /\ \A e \in 1 .. Len(b) : (a \o b)[Len(a) + e] = b[e]
<1>1. /\ a \o b \in Seq(Instructions) /\ Len(a \o b) = Len(a) + Len(b)
      /\ \A e \in 1 .. Len(a) + Len(b) : (a \o b)[e] = IF e <= Len(a) THEN a[e] ELSE b[e - Len(a)]
  BY ConcatProperties
<1> DEFINE both == a \o b
           m == Len(a)
           n == Len(b)
<1>2. m \in Nat /\ n \in Nat
  OBVIOUS
<1> HIDE DEF both, m, n
<1>3. /\ both \in Seq(Instructions) /\ Len(both) = m + n
      /\ \A e \in 1 .. m + n : both[e] = IF e <= m THEN a[e] ELSE b[e - m]
  BY <1>1 DEF both, m, n
<1>4. \A e \in 1 .. m : both[e] = a[e]
  BY <1>2, <1>3
<1>5. \A e \in 1 .. n : both[m + e] = b[e]
  <2> TAKE e \in 1 .. n
  <2>1. m + e \in 1 .. m + n /\ ~(m + e <= m) /\ (m + e) - m = e
    BY <1>2
  <2> QED
    BY <1>3, <2>1
<1> QED
  BY <1>3, <1>4, <1>5 DEF both, m, n

\* save_context, instruction by instruction.
LEMMA SaveShape ==
  /\ save_context \in Seq(Instructions) /\ Len(save_context) = 40
  /\ \A e \in 1 .. 31 : save_context[e] = Save(e - 1, e - 1)
  /\ \A k \in 0 .. 3 : /\ save_context[32 + 2 * k] = Move(20 + k, 31 + k)
                       /\ save_context[33 + 2 * k] = Save(20 + k, 31 + k)
  /\ save_context[40] = Move(0, Other)
<1> DEFINE last == << Move(0, Other) >>
           all == SaveGeneral \o SaveSystem
<1>1. /\ SaveGeneral \in Seq(Instructions) /\ Len(SaveGeneral) = 31
      /\ \A e \in 1 .. 31 : SaveGeneral[e] = Save(e - 1, e - 1)
  <2>1. \A e \in 1 .. 31 : Save(e - 1, e - 1) \in Instructions
    BY DEF Save, Instructions
  <2> QED
    BY <2>1 DEF SaveGeneral
<1>2. SaveSystem \in Seq(Instructions) /\ Len(SaveSystem) = 8
  BY DEF SaveSystem, Move, Save, Instructions, ELR_EL1, SPSR_EL1, ESR_EL1, FAR_EL1
<1>3. \A k \in 0 .. 3 : /\ SaveSystem[1 + 2 * k] = Move(20 + k, 31 + k)
                       /\ SaveSystem[2 + 2 * k] = Save(20 + k, 31 + k)
  BY DEF SaveSystem, Move, Save, ELR_EL1, SPSR_EL1, ESR_EL1, FAR_EL1
<1>4. last \in Seq(Instructions) /\ Len(last) = 1 /\ last[1] = Move(0, Other)
  BY DEF Move, Other, Instructions
<1> HIDE DEF last, all
<1>5. /\ all \in Seq(Instructions) /\ Len(all) = 31 + 8
      /\ \A e \in 1 .. 31 : all[e] = SaveGeneral[e]
      /\ \A e \in 1 .. 8 : all[31 + e] = SaveSystem[e]
  <2>1. /\ SaveGeneral \o SaveSystem \in Seq(Instructions) /\ Len(SaveGeneral \o SaveSystem) = Len(SaveGeneral) + Len(SaveSystem)
        /\ \A e \in 1 .. Len(SaveGeneral) : (SaveGeneral \o SaveSystem)[e] = SaveGeneral[e]
        /\ \A e \in 1 .. Len(SaveSystem) : (SaveGeneral \o SaveSystem)[Len(SaveGeneral) + e] = SaveSystem[e]
    BY <1>1, <1>2, ConcatAt, Zenon
  <2> QED
    BY <2>1, <1>1, <1>2, Zenon DEF all
<1>6. /\ Len(all) = 39
      /\ \A e \in 1 .. 31 : all[e] = SaveGeneral[e]
  BY <1>5
<1>7. /\ all \o last \in Seq(Instructions) /\ Len(all \o last) = 39 + 1
      /\ \A e \in 1 .. 39 : (all \o last)[e] = all[e]
      /\ \A e \in 1 .. 1 : (all \o last)[39 + e] = last[e]
  <2>1. /\ all \o last \in Seq(Instructions) /\ Len(all \o last) = Len(all) + Len(last)
        /\ \A e \in 1 .. Len(all) : (all \o last)[e] = all[e]
        /\ \A e \in 1 .. Len(last) : (all \o last)[Len(all) + e] = last[e]
    BY <1>4, <1>5, <1>6, ConcatAt, Zenon
  <2> QED
    BY <2>1, <1>4, <1>5, <1>6, Zenon
<1>8. save_context = all \o last
  BY DEF save_context, all, last
<1>9. /\ save_context \in Seq(Instructions) /\ Len(save_context) = 40
      /\ \A e \in 1 .. 39 : save_context[e] = all[e]
      /\ save_context[40] = last[1]
  <2>1. 39 + 1 = 40 /\ 1 \in 1 .. 1
    OBVIOUS
  <2> QED
    BY <1>7, <1>8, <2>1, Zenon
<1>10. \A e \in 1 .. 31 : save_context[e] = Save(e - 1, e - 1)
  <2> TAKE e \in 1 .. 31
  <2>1. e \in 1 .. 39
    OBVIOUS
  <2> QED
    BY <1>1, <1>5, <1>9, <2>1, Zenon
<1>11. \A k \in 0 .. 3 : /\ save_context[32 + 2 * k] = Move(20 + k, 31 + k)
                        /\ save_context[33 + 2 * k] = Save(20 + k, 31 + k)
  <2> TAKE k \in 0 .. 3
  <2>1. all[31 + (1 + 2 * k)] = SaveSystem[1 + 2 * k] /\ all[31 + (2 + 2 * k)] = SaveSystem[2 + 2 * k]
    <3>1. 1 + 2 * k \in 1 .. 8 /\ 2 + 2 * k \in 1 .. 8
      OBVIOUS
    <3> QED
      BY <1>5, <3>1, Zenon
  <2>2. 31 + (1 + 2 * k) = 32 + 2 * k /\ 31 + (2 + 2 * k) = 33 + 2 * k
    OBVIOUS
  <2>3. 32 + 2 * k \in 1 .. 39 /\ 33 + 2 * k \in 1 .. 39
    OBVIOUS
  <2> QED
    BY <1>3, <1>9, <2>1, <2>2, <2>3, Zenon
<1> QED
  BY <1>4, <1>9, <1>10, <1>11

\* restore_context, instruction by instruction.
LEMMA RestoreShape ==
  /\ restore_context \in Seq(Instructions) /\ Len(restore_context) = 39
  /\ \A k \in 0 .. 3 : /\ restore_context[1 + 2 * k] = Restore(20 + k, SlotOf(k))
                       /\ restore_context[2 + 2 * k] = Move(31 + k, 20 + k)
  /\ \A e \in 1 .. 31 : restore_context[8 + e] = Restore(31 - e, 31 - e)
<1> DEFINE system == << Restore(20, 31), Move(ELR_EL1, 20), Restore(21, 32), Move(SPSR_EL1, 21),
                        Restore(22, EsrSlot), Move(ESR_EL1, 22), Restore(23, 34), Move(FAR_EL1, 23) >>
           general == [e \in 1 .. 31 |-> Restore(31 - e, 31 - e)]
<1>1. EsrSlot \in Int
  BY DEF EsrSlot
<1>2. system \in Seq(Instructions) /\ Len(system) = 8
  BY <1>1 DEF Restore, Move, Instructions, ELR_EL1, SPSR_EL1, ESR_EL1, FAR_EL1
<1>3. \A k \in 0 .. 3 : /\ system[1 + 2 * k] = Restore(20 + k, SlotOf(k))
                       /\ system[2 + 2 * k] = Move(31 + k, 20 + k)
  BY <1>1 DEF Restore, Move, ELR_EL1, SPSR_EL1, ESR_EL1, FAR_EL1, SlotOf
<1>4. /\ general \in Seq(Instructions) /\ Len(general) = 31
      /\ \A e \in 1 .. 31 : general[e] = Restore(31 - e, 31 - e)
  <2>1. \A e \in 1 .. 31 : Restore(31 - e, 31 - e) \in Instructions
    BY DEF Restore, Instructions
  <2> QED
    BY <2>1
<1>5. restore_context = system \o general
  BY DEF restore_context
<1> HIDE DEF system, general
<1>6. /\ restore_context \in Seq(Instructions) /\ Len(restore_context) = 8 + 31
      /\ \A e \in 1 .. 8 : restore_context[e] = system[e]
      /\ \A e \in 1 .. 31 : restore_context[8 + e] = general[e]
  <2>1. /\ system \o general \in Seq(Instructions) /\ Len(system \o general) = Len(system) + Len(general)
        /\ \A e \in 1 .. Len(system) : (system \o general)[e] = system[e]
        /\ \A e \in 1 .. Len(general) : (system \o general)[Len(system) + e] = general[e]
    BY <1>2, <1>4, <1>5, ConcatAt, Zenon
  <2> QED
    BY <2>1, <1>2, <1>4, <1>5, Zenon
<1>7. \A k \in 0 .. 3 : /\ restore_context[1 + 2 * k] = Restore(20 + k, SlotOf(k))
                       /\ restore_context[2 + 2 * k] = Move(31 + k, 20 + k)
  <2> TAKE k \in 0 .. 3
  <2>1. 1 + 2 * k \in 1 .. 8 /\ 2 + 2 * k \in 1 .. 8
    OBVIOUS
  <2> QED
    BY <1>3, <1>6, <2>1
<1>8. Len(restore_context) = 39
  BY <1>6
<1> QED
  BY <1>4, <1>6, <1>7, <1>8

\* A vector, instruction by instruction.
LEMMA VectorShape ==
  /\ Len(Vector) = 80 /\ CallAt = 41
  /\ \A e \in 1 .. 31 : Vector[e] = Save(e - 1, e - 1)
  /\ \A k \in 0 .. 3 : /\ Vector[32 + 2 * k] = Move(20 + k, 31 + k)
                       /\ Vector[33 + 2 * k] = Save(20 + k, 31 + k)
  /\ Vector[40] = Move(0, Other) /\ Vector[41] = Call
  /\ \A k \in 0 .. 3 : /\ Vector[42 + 2 * k] = Restore(20 + k, SlotOf(k))
                       /\ Vector[43 + 2 * k] = Move(31 + k, 20 + k)
  /\ \A r \in 0 .. 30 : Vector[80 - r] = Restore(r, r)
<1> DEFINE call == << Call >>
           front == save_context \o call
<1>1. call \in Seq(Instructions) /\ Len(call) = 1 /\ call[1] = Call
  BY DEF Call, Other, Instructions
<1> HIDE DEF call, front
<1>2. /\ front \in Seq(Instructions) /\ Len(front) = 40 + 1
      /\ \A e \in 1 .. 40 : front[e] = save_context[e]
      /\ \A e \in 1 .. 1 : front[40 + e] = call[e]
  <2>1. /\ save_context \o call \in Seq(Instructions) /\ Len(save_context \o call) = Len(save_context) + Len(call)
        /\ \A e \in 1 .. Len(save_context) : (save_context \o call)[e] = save_context[e]
        /\ \A e \in 1 .. Len(call) : (save_context \o call)[Len(save_context) + e] = call[e]
    BY <1>1, SaveShape, ConcatAt, Zenon
  <2> QED
    BY <2>1, <1>1, SaveShape, Zenon DEF front
<1>3. Len(front) = 41 /\ front[41] = Call
  BY <1>1, <1>2
<1>4. Vector = front \o restore_context
  BY DEF Vector, front, call
<1>5. /\ Len(Vector) = 41 + 39
      /\ \A e \in 1 .. 41 : Vector[e] = front[e]
      /\ \A e \in 1 .. 39 : Vector[41 + e] = restore_context[e]
  <2>1. /\ front \o restore_context \in Seq(Instructions) /\ Len(front \o restore_context) = Len(front) + Len(restore_context)
        /\ \A e \in 1 .. Len(front) : (front \o restore_context)[e] = front[e]
        /\ \A e \in 1 .. Len(restore_context) : (front \o restore_context)[Len(front) + e] = restore_context[e]
    BY <1>2, <1>3, <1>4, RestoreShape, ConcatAt, Zenon
  <2> QED
    BY <2>1, <1>2, <1>3, <1>4, RestoreShape, Zenon
<1>6. /\ \A e \in 1 .. 40 : Vector[e] = save_context[e]
      /\ Vector[41] = Call
  BY <1>2, <1>3, <1>5
<1>7. CallAt = 41
  BY SaveShape DEF CallAt
<1>8. \A e \in 1 .. 31 : Vector[e] = Save(e - 1, e - 1)
  <2>1. \A e \in 1 .. 31 : e \in 1 .. 40
    OBVIOUS
  <2> QED
    BY <1>6, <2>1, SaveShape, Zenon
<1>9. /\ \A k \in 0 .. 3 : /\ Vector[32 + 2 * k] = Move(20 + k, 31 + k)
                           /\ Vector[33 + 2 * k] = Save(20 + k, 31 + k)
      /\ Vector[40] = Move(0, Other)
  <2>1. \A k \in 0 .. 3 : 32 + 2 * k \in 1 .. 40 /\ 33 + 2 * k \in 1 .. 40
    OBVIOUS
  <2>2. 40 \in 1 .. 40
    OBVIOUS
  <2> QED
    BY <1>6, <2>1, <2>2, SaveShape, Zenon
<1>10. \A k \in 0 .. 3 : /\ Vector[42 + 2 * k] = Restore(20 + k, SlotOf(k))
                        /\ Vector[43 + 2 * k] = Move(31 + k, 20 + k)
  <2> TAKE k \in 0 .. 3
  <2>1. /\ Vector[41 + (1 + 2 * k)] = restore_context[1 + 2 * k]
        /\ Vector[41 + (2 + 2 * k)] = restore_context[2 + 2 * k]
    BY <1>5
  <2>2. 41 + (1 + 2 * k) = 42 + 2 * k /\ 41 + (2 + 2 * k) = 43 + 2 * k
    OBVIOUS
  <2> QED
    BY <2>1, <2>2, RestoreShape
<1>11. \A r \in 0 .. 30 : Vector[80 - r] = Restore(r, r)
  <2> TAKE r \in 0 .. 30
  <2> DEFINE e == 31 - r
  <2>1. e \in 1 .. 31 /\ 8 + e \in 1 .. 39 /\ 31 - e = r /\ 41 + (8 + e) = 80 - r
    OBVIOUS
  <2> HIDE DEF e
  <2>2. restore_context[8 + e] = Restore(r, r)
    BY <2>1, RestoreShape
  <2>3. Vector[41 + (8 + e)] = restore_context[8 + e]
    BY <1>5, <2>1
  <2> QED
    BY <2>1, <2>2, <2>3
<1>12. Len(Vector) = 80
  BY <1>5
<1> QED
  BY <1>6, <1>7, <1>8, <1>9, <1>10, <1>11, <1>12

\* Where every value is before each instruction.
AtMain ==
  /\ step = 0 => /\ \A r \in XRegs : cpu[r] = r
                 /\ pc = 31 /\ pstate = 32
                 /\ cpu[33] \in {Other, EsrSlot}
  /\ step # 0 => pc = Other /\ pstate = Other

Saving ==
  /\ step \in 1 .. 32 => \A r \in XRegs : cpu[r] = r
  /\ step \in 1 .. 41 => \A r \in 31 .. 34 : cpu[r] = r
  /\ \A s \in 0 .. 30 : s + 2 <= step => pt_regs[s] = s
  /\ \A k \in 0 .. 3 : /\ step = 33 + 2 * k => cpu[20 + k] = 31 + k
                       /\ 34 + 2 * k <= step => pt_regs[31 + k] = 31 + k

Restoring ==
  /\ \A k \in 0 .. 3 : /\ step = 43 + 2 * k => cpu[20 + k] = SlotOf(k)
                       /\ 44 + 2 * k <= step => cpu[31 + k] = SlotOf(k)
  /\ \A r \in 0 .. 30 : 81 - r <= step => cpu[r] = r

VectorInv == VectorTypeOK /\ step <= 81 /\ AtMain /\ Saving /\ Restoring

LEMMA InitVector == VectorInit => VectorInv
  BY DEF VectorInit, VectorInv, VectorTypeOK, AtMain, Saving, Restoring, XRegs, Slots, Other,
     ELR_EL1, SPSR_EL1

\* What Execute does at an instruction of each kind.
LEMMA Executed ==
  ASSUME Execute, NEW a, NEW b
  PROVE  /\ step' = step + 1 /\ UNCHANGED <<image, pc, pstate>>
         /\ Vector[step] = Save(a, b) => /\ pt_regs' = [pt_regs EXCEPT ![b] = cpu[a]]
                                         /\ UNCHANGED cpu
         /\ Vector[step] = Restore(a, b) => /\ cpu' = [cpu EXCEPT ![a] = pt_regs[b]]
                                            /\ UNCHANGED pt_regs
         /\ Vector[step] = Move(a, b) => /\ cpu' = [cpu EXCEPT ![a] = Value(b)]
                                         /\ UNCHANGED pt_regs
         /\ Vector[step] = Call => /\ UNCHANGED pt_regs
                                   /\ \E used \in {0 .. 18, {}} :
                                        cpu' = [r \in Slots |-> IF r \in used \cup {30} THEN Other ELSE cpu[r]]
<1>1. step' = step + 1 /\ UNCHANGED <<image, pc, pstate>>
  BY DEF Execute
<1>2. ASSUME Vector[step] = Save(a, b)
      PROVE  pt_regs' = [pt_regs EXCEPT ![b] = cpu[a]] /\ UNCHANGED cpu
  BY <1>2 DEF Execute, Save
<1>3. ASSUME Vector[step] = Restore(a, b)
      PROVE  cpu' = [cpu EXCEPT ![a] = pt_regs[b]] /\ UNCHANGED pt_regs
  BY <1>3 DEF Execute, Restore
<1>4. ASSUME Vector[step] = Move(a, b)
      PROVE  cpu' = [cpu EXCEPT ![a] = Value(b)] /\ UNCHANGED pt_regs
  BY <1>4 DEF Execute, Move
<1>5. ASSUME Vector[step] = Call
      PROVE  /\ UNCHANGED pt_regs
             /\ \E used \in {0 .. 18, {}} :
                  cpu' = [r \in Slots |-> IF r \in used \cup {30} THEN Other ELSE cpu[r]]
  BY <1>5 DEF Execute, Call
<1> QED
  BY <1>1, <1>2, <1>3, <1>4, <1>5

LEMMA TakeExceptionStep == VectorInv /\ TakeException => VectorInv'
  BY DEF VectorInv, VectorTypeOK, AtMain, Saving, Restoring, TakeException, XRegs, Slots, Other,
     ELR_EL1, SPSR_EL1, ESR_EL1, FAR_EL1

LEMMA EretStep == VectorInv /\ Eret => VectorInv'
  BY VectorShape DEF VectorInv, VectorTypeOK, AtMain, Saving, Restoring, Eret, XRegs, Slots, Other,
     ELR_EL1, SPSR_EL1, SlotOf, EsrSlot

\* The two halves of save_context and of restore_context, and the call.
LEMMA ExecuteStep == VectorInv /\ Execute => VectorInv'
<1> SUFFICES ASSUME VectorInv, Execute PROVE VectorInv'
  OBVIOUS
<1> USE DEF VectorInv, VectorTypeOK, AtMain, Saving, Restoring, XRegs, Slots, Other
<1>1. step \in 1 .. 80 /\ step' = step + 1 /\ UNCHANGED <<image, pc, pstate>>
  BY VectorShape DEF Execute
<1>2. \A k : SlotOf(k)' = SlotOf(k)
  BY <1>1 DEF SlotOf, EsrSlot
<1>3. \A k \in 0 .. 3 : \E j \in 0 .. 3 : SlotOf(k) = 31 + j
  BY DEF SlotOf, EsrSlot
<1>4. CASE step \in 1 .. 31
  <2> PICK a \in 0 .. 30 : step = a + 1
    BY <1>4
  <2>1. Vector[step] = Save(a, a)
    BY <1>4, VectorShape
  <2>2. pt_regs' = [pt_regs EXCEPT ![a] = cpu[a]] /\ UNCHANGED cpu
    BY <2>1, Executed
  <2> QED
    BY <1>1, <1>2, <2>2
<1>5. ASSUME NEW k \in 0 .. 3, step = 32 + 2 * k PROVE VectorInv'
  <2>1. Vector[step] = Move(20 + k, 31 + k)
    BY <1>5, VectorShape
  <2>2. cpu' = [cpu EXCEPT ![20 + k] = Value(31 + k)] /\ UNCHANGED pt_regs
    BY <2>1, Executed
  <2>3. Value(31 + k) = 31 + k
    BY <1>5 DEF Value
  <2> QED
    BY <1>1, <1>2, <1>5, <2>2, <2>3
<1>6. ASSUME NEW k \in 0 .. 3, step = 33 + 2 * k PROVE VectorInv'
  <2>1. Vector[step] = Save(20 + k, 31 + k)
    BY <1>6, VectorShape
  <2>2. pt_regs' = [pt_regs EXCEPT ![31 + k] = cpu[20 + k]] /\ UNCHANGED cpu
    BY <2>1, Executed
  <2> QED
    BY <1>1, <1>2, <1>6, <2>2
<1>7. CASE step = 40
  <2>1. cpu' = [cpu EXCEPT ![0] = Value(Other)] /\ UNCHANGED pt_regs
    BY <1>7, VectorShape, Executed
  <2> QED
    BY <1>1, <1>2, <1>7, <2>1 DEF Value
<1>8. CASE step = 41
  <2>1. UNCHANGED pt_regs
    BY <1>8, VectorShape, Executed
  <2>2. PICK used \in {0 .. 18, {}} :
          cpu' = [r \in Slots |-> IF r \in used \cup {30} THEN Other ELSE cpu[r]]
    BY <1>8, VectorShape, Executed
  <2> QED
    BY <1>1, <1>2, <1>8, <2>1, <2>2
<1>9. ASSUME NEW k \in 0 .. 3, step = 42 + 2 * k PROVE VectorInv'
  <2>1. Vector[step] = Restore(20 + k, SlotOf(k))
    BY <1>9, VectorShape
  <2>2. cpu' = [cpu EXCEPT ![20 + k] = pt_regs[SlotOf(k)]] /\ UNCHANGED pt_regs
    BY <2>1, Executed
  <2>3. pt_regs[SlotOf(k)] = SlotOf(k) /\ SlotOf(k) \in 31 .. 34
    BY <1>3, <1>9
  <2> QED
    BY <1>1, <1>2, <1>9, <2>2, <2>3
<1>10. ASSUME NEW k \in 0 .. 3, step = 43 + 2 * k PROVE VectorInv'
  <2>1. Vector[step] = Move(31 + k, 20 + k)
    BY <1>10, VectorShape
  <2>2. cpu' = [cpu EXCEPT ![31 + k] = Value(20 + k)] /\ UNCHANGED pt_regs
    BY <2>1, Executed
  <2>3. Value(20 + k) = SlotOf(k) /\ SlotOf(k) \in 31 .. 34
    BY <1>3, <1>10 DEF Value
  <2> QED
    BY <1>1, <1>2, <1>10, <2>2, <2>3
<1>11. CASE step \in 50 .. 80
  <2> PICK r \in 0 .. 30 : step = 80 - r
    BY <1>11
  <2>1. Vector[step] = Restore(r, r)
    BY VectorShape
  <2>2. cpu' = [cpu EXCEPT ![r] = pt_regs[r]] /\ UNCHANGED pt_regs
    BY <2>1, Executed
  <2> QED
    BY <1>1, <1>2, <1>11, <2>2
<1>12. step \in 32 .. 39 => \E k \in 0 .. 3 : step = 32 + 2 * k \/ step = 33 + 2 * k
  OBVIOUS
<1>13. step \in 42 .. 49 => \E k \in 0 .. 3 : step = 42 + 2 * k \/ step = 43 + 2 * k
  OBVIOUS
<1>14. step \in 1 .. 31 \/ step \in 32 .. 39 \/ step = 40 \/ step = 41 \/ step \in 42 .. 49 \/ step \in 50 .. 80
  BY <1>1
<1> HIDE DEF VectorInv
<1> QED
  BY <1>4, <1>5, <1>6, <1>7, <1>8, <1>9, <1>10, <1>11, <1>12, <1>13, <1>14

LEMMA VectorSteps == VectorInv /\ [VectorNext]_vector_vars => VectorInv'
<1>1. ASSUME VectorInv, UNCHANGED vector_vars PROVE VectorInv'
  BY <1>1 DEF vector_vars, VectorInv, VectorTypeOK, AtMain, Saving, Restoring, SlotOf, EsrSlot
<1> QED
  BY <1>1, TakeExceptionStep, ExecuteStep, EretStep DEF VectorNext

LEMMA VectorFacts == VectorInv => VectorTypeOK /\ Transparent
<1> SUFFICES ASSUME VectorInv PROVE VectorTypeOK /\ Transparent
  OBVIOUS
<1>1. VectorTypeOK
  BY DEF VectorInv
<1>2. ASSUME step = CallAt PROVE pt_regs = [s \in Slots |-> s]
  <2>1. \A s \in Slots : s \in 0 .. 30 \/ \E k \in 0 .. 3 : s = 31 + k
    BY DEF Slots
  <2>2. \A s \in Slots : pt_regs[s] = s
    BY <1>2, <2>1, VectorShape DEF VectorInv, Saving
  <2> QED
    BY <1>1, <2>2 DEF VectorTypeOK
<1>3. step = 0 => /\ \A r \in XRegs : cpu[r] = r
                 /\ pc = ELR_EL1 /\ pstate = SPSR_EL1
                 /\ cpu[ESR_EL1] \in {Other, IF image = "02_Abort" THEN SPSR_EL1 ELSE ESR_EL1}
  BY DEF VectorInv, AtMain, ELR_EL1, SPSR_EL1, ESR_EL1, EsrSlot
<1> QED
  BY <1>1, <1>2, <1>3 DEF Transparent

-----------------------------------------------------------------------------
(* The programs side by side *)

\* Only the program that was chosen takes steps; the others stay where they start.
ProgramsInv ==
  /\ program \in Programs
  /\ program = "race" => RaceInv
  /\ program # "race" => KernelInv
  /\ CharInv /\ ProbeInv /\ VmallocInv /\ VectorInv

LEMMA ProgramsInit == Init => ProgramsInv
  BY KernelInit, RaceInit, InitChar, InitProbe, InitVmalloc, InitVector DEF Init, ProgramsInv

\* A program that takes no step keeps its invariant.
LEMMA OthersStay ==
  /\ KernelInv /\ UNCHANGED mutex_vars => KernelInv'
  /\ RaceInv /\ UNCHANGED mutex_vars => RaceInv'
  /\ CharInv /\ UNCHANGED char_vars => CharInv'
  /\ ProbeInv /\ UNCHANGED probe_vars => ProbeInv'
  /\ VmallocInv /\ UNCHANGED vmalloc_vars => VmallocInv'
  /\ VectorInv /\ UNCHANGED vector_vars => VectorInv'
<1>1. KernelInv /\ UNCHANGED mutex_vars => KernelInv'
  BY KernelSteps
<1>2. RaceInv /\ UNCHANGED mutex_vars => RaceInv'
  BY RaceSteps
<1>3. ProbeInv /\ UNCHANGED probe_vars => ProbeInv'
  BY ProbeSteps
<1> QED
  BY <1>1, <1>2, <1>3, CharSteps, VmallocSteps, VectorSteps

LEMMA ProgramsSteps == ProgramsInv /\ [Next]_vars => ProgramsInv'
<1> SUFFICES ASSUME ProgramsInv, [Next]_vars PROVE ProgramsInv'
  OBVIOUS
<1> USE OthersStay DEF ProgramsInv
<1>1. CASE UNCHANGED vars
  BY <1>1 DEF vars
<1>2. CASE /\ program = "mutex_driver" /\ KernelNext
           /\ UNCHANGED <<program, char_vars, probe_vars, vmalloc_vars, vector_vars>>
  <2>1. KernelInv'
    BY <1>2, KernelSteps
  <2> QED
    BY <1>2, <2>1
<1>3. CASE /\ program = "race" /\ RaceNext
           /\ UNCHANGED <<program, char_vars, probe_vars, vmalloc_vars, vector_vars>>
  <2>1. RaceInv'
    BY <1>3, RaceSteps
  <2> QED
    BY <1>3, <2>1
<1>4. CASE /\ program = "char_advance" /\ CharNext
           /\ UNCHANGED <<program, mutex_vars, probe_vars, vmalloc_vars, vector_vars>>
  BY <1>4, CharSteps
<1>5. CASE /\ program = "platform_driver" /\ ProbeNext
           /\ UNCHANGED <<program, mutex_vars, char_vars, vmalloc_vars, vector_vars>>
  BY <1>5, ProbeSteps
<1>6. CASE /\ program = "vmalloc_lab" /\ VmallocNext
           /\ UNCHANGED <<program, mutex_vars, char_vars, probe_vars, vector_vars>>
  BY <1>6, VmallocSteps
<1>7. CASE /\ program = "bare_metal" /\ VectorNext
           /\ UNCHANGED <<program, mutex_vars, char_vars, probe_vars, vmalloc_vars>>
  BY <1>7, VectorSteps
<1> QED
  BY <1>1, <1>2, <1>3, <1>4, <1>5, <1>6, <1>7 DEF Next

\* The invariants of all programs hold together: that of the program which runs by
\* its own steps, those of the others as they stand still.
THEOREM Invariance == Spec => []ProgramsInv
  BY ProgramsInit, ProgramsSteps, PTL DEF Spec

\* Every variable of every program keeps its type; in particular the loop counters
\* of insmod stay within its devices, threads, pages and instructions.
THEOREM TypeCorrect == Spec => []TypeOK
<1>1. RaceInv => MutexTypeOK
  BY IntAssumption DEF RaceInv, CountingInv, Places, RacePlaces, Rounds, Threads, MutexTypeOK
<1>2. KernelInv => MutexTypeOK
  BY KernelTypes
<1>3. ProgramsInv => TypeOK
  BY <1>1, <1>2, CharFacts, VmallocFacts, VectorFacts DEF ProgramsInv, ProbeInv, TypeOK
<1> QED
  BY <1>3, Invariance, PTL

\* For any number of devices above one, insmod of 02_Advance fails, and leaves
\* nothing or the first device; the vmalloc module leaves nothing behind.
THEOREM NothingLeft == Spec => []LeftBehind
<1>1. ProgramsInv => LeftBehind
  BY CharFacts, VmallocFacts DEF ProgramsInv, LeftBehind
<1> QED
  BY <1>1, Invariance, PTL

\* check_discontig counts every page that has a frame, and every place where the
\* frame of one that it found is not the next after that of the one found before.
THEOREM CountsExact == Spec => []DiscontigExact
<1>1. ProgramsInv => DiscontigExact
  BY VmallocFacts DEF ProgramsInv
<1> QED
  BY <1>1, Invariance, PTL

\* A vector gives its handler all registers in struct pt_regs and main() back all
\* that it had, in both images.
THEOREM VectorsTransparent == Spec => []Transparent
<1>1. ProgramsInv => Transparent
  BY VectorFacts DEF ProgramsInv
<1> QED
  BY <1>1, Invariance, PTL
=============================================================================
