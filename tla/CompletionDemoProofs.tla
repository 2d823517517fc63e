------------------------- MODULE CompletionDemoProofs -------------------------
(***************************************************************************)
(* Safety of CompletionDemo for every number of waiters, every set of      *)
(* readers and every UINT_MAX > 1: one read per complete(), and a gate     *)
(* that stays open.                                                        *)
(***************************************************************************)
EXTENDS CompletionDemo, TLAPS

\* What complete(&init_done) has given and reads have taken.
Given == init_done + served

\* The worker completes init_done once in the life of the module: before that
\* nothing is given, and a new insmod finds the old worker gone.
WorkerCompletesOnce ==
  /\ pc[Worker] \in {"new", "run", "failed"} => Given = 0
  /\ pc[Worker] = "loop" => Given = 1
  /\ Given \in {0, 1}
  /\ module = "loading" /\ at = 0 => pc[Worker] = "none" /\ Given = 0
  /\ module = "stopping" /\ at > 0 => pc[Worker] = "none"
  /\ module \in {"unloaded", "remove_status", "remove_release"} => pc[Worker] = "none"

\* The gate is shut or open to all, never for a number of threads.
GateBinary == release_gate \in {0, UINT_MAX}

Inv == TypeOK /\ WorkerCompletesOnce /\ GateBinary

\* A module that is not loaded has no worker and has given nothing.
LEMMA InitInv == Init => Inv
BY UIntAssumption, WaitersAssumption
DEF Init, Inv, TypeOK, WorkerCompletesOnce, GateBinary, Given, Dones, Threads, Worker, Waiters, ThreadPC

-----------------------------------------------------------------------------
(* The steps, sorted by what they can disturb *)

\* insmod and rmmod.
LEMMA ModuleStep ==
  ASSUME Inv, InitModule \/ InitStep \/ ExitModule \/ ExitStep
  PROVE  Inv'
<1> USE UIntAssumption, WaitersAssumption
    DEF Inv, TypeOK, WorkerCompletesOnce, GateBinary, Given, Dones, Threads, Worker, Waiters, ThreadPC
<1>1. CASE InitModule
  BY <1>1 DEF InitModule
<1>2. CASE RunThread
  BY <1>2 DEF RunThread
<1>3. CASE InitDone
  BY <1>3 DEF InitDone
<1>4. CASE ExitModule
  BY <1>4 DEF ExitModule
<1>5. CASE ThreadStopped
  BY <1>5 DEF ThreadStopped
<1>6. CASE StopOfFailedThread
  BY <1>6 DEF StopOfFailedThread
<1>7. CASE RemoveStatus \/ StatusRemoved \/ ExitDone
  BY <1>7 DEF RemoveStatus, StatusRemoved, ExitDone
<1> QED
  BY <1>1, <1>2, <1>3, <1>4, <1>5, <1>6, <1>7 DEF InitStep, ExitStep

\* The threads: only the worker's complete() gives, and it finds nothing given.
LEMMA ThreadsStep ==
  ASSUME Inv, NEW t \in Threads, ThreadStep(t)
  PROVE  Inv'
<1> USE UIntAssumption, WaitersAssumption
    DEF Inv, TypeOK, WorkerCompletesOnce, GateBinary, Given, Dones, Threads, Worker, Waiters, ThreadPC
<1>1. CASE StartThread(t)
  BY <1>1 DEF StartThread, ShouldStop
<1>2. CASE t = Worker /\ WorkerCompletes
  BY <1>2 DEF WorkerCompletes, Complete
<1>3. CASE t \in Waiters /\ WaiterPasses(t)
  BY <1>3 DEF WaiterPasses, MayPass, Pass
<1>4. CASE LeaveLoop(t)
  BY <1>4 DEF LeaveLoop, ShouldStop
<1> QED
  BY <1>1, <1>2, <1>3, <1>4 DEF ThreadStep

\* The proc entries: a read takes what was given, for one permission is not all.
LEMMA EntryStep ==
  ASSUME Inv, NEW r \in Readers, BeginRead(r) \/ ReadPasses(r)
  PROVE  Inv'
<1> USE UIntAssumption
    DEF Inv, TypeOK, WorkerCompletesOnce, GateBinary, Given, Dones
<1>1. CASE BeginRead(r)
  BY <1>1 DEF BeginRead
<1>2. CASE ReadPasses(r)
  BY <1>2 DEF ReadPasses, MayPass, Pass
<1> QED
  BY <1>1, <1>2

\* complete_all(&release_gate) sets the gate to the one other value it has.
LEMMA ReleaseStep ==
  ASSUME Inv, Release
  PROVE  Inv'
BY UIntAssumption DEF Inv, TypeOK, WorkerCompletesOnce, GateBinary, Given, Dones, Release, CompleteAll

\* Every step keeps the invariant.
LEMMA NextInv == Inv /\ [Next]_vars => Inv'
<1> SUFFICES ASSUME Inv, [Next]_vars PROVE Inv'
  OBVIOUS
<1>1. CASE Next
  BY <1>1, ModuleStep, ThreadsStep, EntryStep, ReleaseStep DEF Next
<1>2. CASE UNCHANGED vars
  BY <1>2 DEF vars, Inv, TypeOK, WorkerCompletesOnce, GateBinary, Given
<1> QED
  BY <1>1, <1>2

-----------------------------------------------------------------------------

\* The inductive invariant, in every state of every behaviour.
THEOREM Invariance == Spec => []Inv
BY InitInv, NextInv, PTL DEF Spec

\* Every variable of completion_demo.c keeps its type; in particular neither
\* completion counts below 0 or past UINT_MAX.
THEOREM TypeCorrect == Spec => []TypeOK
<1>1. Inv => TypeOK
  BY DEF Inv
<1> QED
  BY <1>1, Invariance, PTL

\* The one complete(&init_done) of worker_fn answers at most one read, however
\* many processes read and however often the module is loaded.
THEOREM ReadsCounted == Spec => []OneReadPerComplete
<1>1. Inv => OneReadPerComplete
  BY DEF Inv, WorkerCompletesOnce, OneReadPerComplete, Given
<1> QED
  BY <1>1, Invariance, PTL

\* complete_all(&release_gate) opens the gate until the next insmod, however many
\* threads go through it.
THEOREM GateKept == Spec => GateStaysOpen
<1>1. Inv /\ [Next]_vars => [release_gate # 0 => release_gate' # 0 \/ InitModule]_vars
  <2> SUFFICES ASSUME Inv, Next, release_gate # 0, ~ InitModule
               PROVE  release_gate' # 0
    BY DEF vars
  <2>1. release_gate = UINT_MAX /\ UINT_MAX # 0
    BY UIntAssumption DEF Inv, GateBinary
  <2> QED
    BY <2>1 DEF Next, InitStep, RunThread, InitDone, ExitModule, ExitStep, ThreadStopped,
       StopOfFailedThread, RemoveStatus, StatusRemoved, ExitDone, ThreadStep, StartThread,
       WorkerCompletes, WaiterPasses, Pass, LeaveLoop, BeginRead, ReadPasses, Release, CompleteAll
<1> QED
  BY <1>1, Invariance, PTL DEF Spec, GateStaysOpen
=============================================================================
