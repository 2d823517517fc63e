----------------------------- MODULE MutexCounter -----------------------------
(***************************************************************************)
(* A counter that two threads increment under a mutex, in two programs:    *)
(* the kernel module 04_Kernel_Sync/02_Mutex_Kernel/main.c (of which       *)
(* 03_Semaphore_Kernel/main.c is a copy), whose threads are stopped by     *)
(* rmmod, and 01_Mutex_User_Space/race.c, whose threads are joined.        *)
(*                                                                         *)
(* counter + 1 is a load and a store.  An int has INT_RANGE values, read   *)
(* as unsigned; the kernel is built with -fno-strict-overflow.  Left out:  *)
(* the log, the variants without ENABLE_MUTEX, a pthread_create that fails *)
(* (race.c would join a thread that it never got).                         *)
(***************************************************************************)
EXTENDS Integers

CONSTANTS
  INT_RANGE,            \* 2^32 in C
  MAX_INCREMENT_COUNT

ASSUME IntAssumption == INT_RANGE \in Nat \ {0} /\ MAX_INCREMENT_COUNT \in Nat

Threads == 1 .. 2       \* thread_1 and thread_2, p1 and p2
NoThread == 0

VARIABLES
  mutex,        \* the thread that holds kernel_mutex_lock or lock
  counter,
  at,           \* where each thread is
  temp,         \* the value of counter that each thread has loaded
  increments,   \* history: stores so far, as an int
  module,       \* kernel: where insmod or rmmod is
  should_stop,  \* kernel: the threads told to stop
  i,            \* race.c: the loop counter of each thread
  main,         \* race.c: where main is
  printed       \* race.c: the value that main prints

counting == <<mutex, counter, at, temp, increments>>
kernel   == <<module, should_stop>>
race     == <<i, main, printed>>
mutex_vars == <<counting, kernel, race>>

CInt == 0 .. INT_RANGE - 1

MutexTypeOK ==
  /\ mutex \in Threads \cup {NoThread}
  /\ counter \in CInt /\ increments \in CInt /\ printed \in CInt
  /\ at \in [Threads -> {"none", "created", "loop", "lock", "load", "store",
                         "unlock", "sleep", "returned"}]
  /\ temp \in [Threads -> CInt]
  /\ module \in {"none", "unloaded", "create", "wake", "live", "stop", "wait", "failed"} \X Threads
  /\ should_stop \subseteq Threads
  /\ i \in [Threads -> 0 .. MAX_INCREMENT_COUNT]
  /\ main \in {"create", "join", "print", "done"} \X Threads

MutexInit ==
  /\ mutex = NoThread /\ counter = 0 /\ increments = 0
  /\ at = [t \in Threads |-> "none"] /\ temp = [t \in Threads |-> 0]
  /\ module = <<"none", 1>> /\ should_stop = {}
  /\ i = [t \in Threads |-> 0] /\ main = <<"create", 1>> /\ printed = 0

-----------------------------------------------------------------------------
(* The increment, the same in func_1, func_2 and func *)

Go(t, from, to) == at[t] = from /\ at' = [at EXCEPT ![t] = to]

\* Mutant: as with ENABLE_MUTEX 0.
LockNot(t) ==
  /\ Go(t, "lock", "load")
  /\ mutex' = t
  /\ UNCHANGED <<counter, temp, increments>>

Lock(t) ==
  /\ mutex = NoThread /\ Go(t, "lock", "load")
  /\ mutex' = t
  /\ UNCHANGED <<counter, temp, increments>>

Load(t) ==
  /\ Go(t, "load", "store")
  /\ temp' = [temp EXCEPT ![t] = counter]
  /\ UNCHANGED <<mutex, counter, increments>>

Store(t) ==
  /\ Go(t, "store", "unlock")
  /\ counter' = (temp[t] + 1) % INT_RANGE
  /\ increments' = (increments + 1) % INT_RANGE
  /\ UNCHANGED <<mutex, temp>>

\* Mutant: a path of the loop that leaves the mutex locked.
UnlockNot(t, next) ==
  /\ Go(t, "unlock", next)
  /\ UNCHANGED <<mutex, counter, temp, increments>>

Unlock(t, next) ==
  /\ Go(t, "unlock", next)
  /\ mutex' = NoThread
  /\ UNCHANGED <<counter, temp, increments>>

-----------------------------------------------------------------------------
(* The kernel module *)

\* while (!kthread_should_stop())
ShouldStop(t) ==
  /\ Go(t, "loop", IF t \in should_stop THEN "returned" ELSE "lock")
  /\ UNCHANGED <<mutex, counter, temp, increments>>

\* msleep(1)
Sleep(t) ==
  /\ Go(t, "sleep", "loop")
  /\ UNCHANGED <<mutex, counter, temp, increments>>

KernelThread(t) ==
  /\ ShouldStop(t) \/ Lock(t) \/ Load(t) \/ Store(t) \/ Unlock(t, "sleep") \/ Sleep(t)
  /\ UNCHANGED <<kernel, race>>

\* What insmod or rmmod does for one thread and then for the next.
Following(step, t, next) == IF t = 1 THEN <<step, 2>> ELSE <<next, 1>>

\* A module that was unloaded is loaded again with its data as at first.
Insmod ==
  /\ module[1] \in {"none", "unloaded"}
  /\ module' = <<"create", 1>>
  /\ counter' = 0 /\ increments' = 0
  /\ at' = [t \in Threads |-> "none"]
  /\ should_stop' = {}
  /\ UNCHANGED <<mutex, temp, race>>

\* Mutant: kthread_run.
CreateRuns ==
  /\ module[1] = "create"
  /\ \/ /\ Go(module[2], "none", "loop")
        /\ module' = Following("create", module[2], "wake")
     \/ /\ module' = <<"failed", module[2]>>
        /\ UNCHANGED at
  /\ UNCHANGED <<mutex, counter, temp, increments, should_stop, race>>

\* kthread_create, and the return when it fails.
Create ==
  /\ module[1] = "create"
  /\ \/ /\ Go(module[2], "none", "created")
        /\ module' = Following("create", module[2], "wake")
     \/ /\ module' = <<"failed", module[2]>>
        /\ UNCHANGED at
  /\ UNCHANGED <<mutex, counter, temp, increments, should_stop, race>>

\* wake_up_process
WakeUp ==
  /\ module[1] = "wake"
  /\ Go(module[2], "created", "loop")
  /\ module' = Following("wake", module[2], "live")
  /\ UNCHANGED <<mutex, counter, temp, increments, should_stop, race>>

Rmmod ==
  /\ module[1] = "live"
  /\ module' = <<"stop", 1>>
  /\ UNCHANGED <<counting, should_stop, race>>

\* kthread_stop
Stop ==
  /\ module[1] = "stop"
  /\ should_stop' = should_stop \cup {module[2]}
  /\ module' = <<"wait", module[2]>>
  /\ UNCHANGED <<counting, race>>

Stopped ==
  /\ module[1] = "wait" /\ at[module[2]] = "returned"
  /\ module' = Following("stop", module[2], "unloaded")
  /\ UNCHANGED <<counting, should_stop, race>>

KernelNext ==
  \/ \E t \in Threads : KernelThread(t)
  \/ Insmod \/ Create \/ WakeUp \/ Rmmod \/ Stop \/ Stopped

KernelSpec == MutexInit /\ [][KernelNext]_mutex_vars

\* Every thread and an insmod or rmmod that has begun go on.  A waiter that a
\* mutex has passed over gets it handed: mutex_lock is strongly fair.
KernelFairness ==
  /\ \A t \in Threads : /\ WF_mutex_vars(KernelThread(t))
                        /\ SF_mutex_vars(KernelThread(t) /\ at[t] = "lock")
  /\ WF_mutex_vars(Create \/ WakeUp \/ Stop \/ Stopped)

-----------------------------------------------------------------------------
(* race.c *)

\* for (i = 0; i < MAX_INCREMENT_COUNT; i++)
For(t) ==
  /\ Go(t, "loop", IF i[t] < MAX_INCREMENT_COUNT THEN "lock" ELSE "returned")
  /\ UNCHANGED <<mutex, counter, temp, increments, i>>

RaceThread(t) ==
  /\ \/ For(t)
     \/ (Lock(t) \/ Load(t) \/ Store(t)) /\ UNCHANGED i
     \/ Unlock(t, "loop") /\ i' = [i EXCEPT ![t] = @ + 1]
  /\ UNCHANGED <<kernel, main, printed>>

PthreadCreate ==
  /\ main[1] = "create"
  /\ Go(main[2], "none", "loop")
  /\ main' = Following("create", main[2], "join")
  /\ UNCHANGED <<mutex, counter, temp, increments, kernel, i, printed>>

PthreadJoin ==
  /\ main[1] = "join" /\ at[main[2]] = "returned"
  /\ main' = Following("join", main[2], "print")
  /\ UNCHANGED <<counting, kernel, i, printed>>

PrintCounter ==
  /\ main[1] = "print"
  /\ main' = <<"done", 1>> /\ printed' = counter
  /\ UNCHANGED <<counting, kernel, i>>

RaceNext == (\E t \in Threads : RaceThread(t)) \/ PthreadCreate \/ PthreadJoin \/ PrintCounter

RaceSpec == MutexInit /\ [][RaceNext]_mutex_vars

-----------------------------------------------------------------------------
(* Properties *)

\* However the threads overlap, no increment is lost: the counter is the number
\* of stores, and race.c prints what both loops together have counted.
CounterExact ==
  /\ counter = increments
  /\ main[1] = "done" => printed = (2 * MAX_INCREMENT_COUNT) % INT_RANGE

\* No thread outlives the module, and one that a failing insmod leaves behind
\* (the first, when the second is not created) is one that was never woken: no
\* thread runs func_1 or func_2 of a module that is gone.
NoThreadRunsUnloaded ==
  /\ module[1] = "unloaded" => \A t \in Threads : at[t] \in {"none", "returned"}
  /\ module[1] = "failed" =>
       \A t \in Threads : at[t] = IF t < module[2] THEN "created" ELSE "none"

\* kthread_stop ends both threads, whoever holds or waits for the mutex.
RmmodEnds == module[1] = "stop" ~> module[1] = "unloaded"
=============================================================================
