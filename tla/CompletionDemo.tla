--------------------------- MODULE CompletionDemo ---------------------------
(***************************************************************************)
(* 04_Kernel_Sync/04_spinLocks_Kernel/exercise/completion_demo.c: a worker *)
(* thread that completes init_done once, NUM_WAITERS threads that wait for *)
(* release_gate, reads of /proc/completion_demo that wait for init_done, a *)
(* write to /proc/completion_demo_release that opens release_gate, and     *)
(* loading and unloading, which starts and stops the threads one by one.   *)
(*                                                                         *)
(* Thread 0 is worker_thread and thread i + 1 is waiters[i].  A thread     *)
(* that kthread_run has created is "new" until it is first scheduled: a    *)
(* kthread_stop that comes before that ends it without running it.         *)
(* Neither wait can be interrupted.  Left out: log messages, msleep, the   *)
(* text of the answer, copy_to_user.                                       *)
(***************************************************************************)
EXTENDS KCompletion, FiniteSets

CONSTANTS
  NUM_WAITERS,   \* threads that wait for release_gate
  Readers        \* processes that read /proc/completion_demo

ASSUME WaitersAssumption == NUM_WAITERS \in Nat
ASSUME ReadersAssumption == IsFiniteSet(Readers)

Worker == 0
Waiters == 1 .. NUM_WAITERS
Threads == {Worker} \cup Waiters

VARIABLES
  module,        \* where the module is between insmod and rmmod
  at,            \* the thread that insmod starts or rmmod stops now
  init_done,     \* completion of pattern 1
  release_gate,  \* completion of pattern 2
  pc,            \* program counter of every thread
  reader,        \* program counter of every reading process
  served         \* how many reads have passed init_done since insmod

vars == <<module, at, init_done, release_gate, pc, reader, served>>

ThreadPC == {"none", "new", "run", "loop", "done", "failed"}

TypeOK ==
  /\ module \in {"unloaded", "loading", "live", "stopping", "remove_status",
                 "remove_release", "oops"}
  /\ at \in 0 .. NUM_WAITERS + 1
  /\ init_done \in Dones /\ release_gate \in Dones
  /\ pc \in [Threads -> ThreadPC]
  /\ reader \in [Readers -> {"idle", "wait"}]
  /\ served \in Nat

Init ==
  /\ module = "unloaded" /\ at = 0
  /\ init_done = 0 /\ release_gate = 0
  /\ pc = [t \in Threads |-> "none"]
  /\ reader = [r \in Readers |-> "idle"]
  /\ served = 0

\* The two proc entries; an rmmod that oopsed in kthread_stop has removed neither.
StatusEntry  == module \in {"loading", "live", "stopping", "oops"}
ReleaseEntry == StatusEntry \/ module = "remove_status"

-----------------------------------------------------------------------------
(* completion_demo_init: nothing it calls is checked for failure *)

InitModule ==
  /\ module = "unloaded"
  /\ module' = "loading" /\ at' = 0
  /\ init_done' = 0 /\ release_gate' = 0
  /\ served' = 0
  /\ UNCHANGED <<pc, reader>>

\* Mutant: the loop over waiters[] runs once too often.
RunThreadPastEnd ==
  /\ module = "loading" /\ at <= NUM_WAITERS + 1
  /\ \E state \in {"new", "failed"} : pc' = [pc EXCEPT ![at] = state]
  /\ at' = at + 1
  /\ UNCHANGED <<module, init_done, release_gate, reader, served>>

RunThread ==
  /\ module = "loading" /\ at <= NUM_WAITERS
  /\ \E state \in {"new", "failed"} : pc' = [pc EXCEPT ![at] = state]
  /\ at' = at + 1
  /\ UNCHANGED <<module, init_done, release_gate, reader, served>>

InitDone ==
  /\ module = "loading" /\ at = NUM_WAITERS + 1
  /\ module' = "live"
  /\ UNCHANGED <<at, init_done, release_gate, pc, reader, served>>

-----------------------------------------------------------------------------
(* completion_demo_exit *)

ExitModule ==
  /\ module = "live"
  /\ module' = "stopping" /\ at' = 0
  /\ UNCHANGED <<init_done, release_gate, pc, reader, served>>

\* kthread_stop(thread at) returns.
ThreadStopped ==
  /\ module = "stopping" /\ at <= NUM_WAITERS /\ pc[at] = "done"
  /\ pc' = [pc EXCEPT ![at] = "none"]
  /\ at' = at + 1
  /\ UNCHANGED <<module, init_done, release_gate, reader, served>>

\* kthread_stop of an error pointer: the kernel oopses and rmmod never ends.
StopOfFailedThread ==
  /\ module = "stopping" /\ at <= NUM_WAITERS /\ pc[at] = "failed"
  /\ module' = "oops"
  /\ UNCHANGED <<at, init_done, release_gate, pc, reader, served>>

\* remove_proc_entry of the status entry: no new reads; waits for those inside.
RemoveStatus ==
  /\ module = "stopping" /\ at = NUM_WAITERS + 1
  /\ module' = "remove_status"
  /\ UNCHANGED <<at, init_done, release_gate, pc, reader, served>>

StatusRemoved ==
  /\ module = "remove_status" /\ \A r \in Readers : reader[r] = "idle"
  /\ module' = "remove_release"
  /\ UNCHANGED <<at, init_done, release_gate, pc, reader, served>>

ExitDone ==
  /\ module = "remove_release"
  /\ module' = "unloaded"
  /\ UNCHANGED <<at, init_done, release_gate, pc, reader, served>>

-----------------------------------------------------------------------------
(* The threads *)

\* kthread_should_stop() in thread t
ShouldStop(t) == module = "stopping" /\ at = t

\* The kernel's start of a thread, before its function.
StartThread(t) ==
  /\ pc[t] = "new"
  /\ pc' = [pc EXCEPT ![t] = IF ShouldStop(t) THEN "done" ELSE "run"]
  /\ UNCHANGED <<module, at, init_done, release_gate, reader, served>>

\* Mutant: the worker completes init_done again on every pass of its loop.
WorkerCompletesTwice ==
  /\ pc[Worker] \in {"run", "loop"} /\ init_done < UINT_MAX
  /\ init_done' = Complete(init_done)
  /\ pc' = [pc EXCEPT ![Worker] = "loop"]
  /\ UNCHANGED <<module, at, release_gate, reader, served>>

\* worker_fn: complete(&init_done)
WorkerCompletes ==
  /\ pc[Worker] = "run"
  /\ init_done' = Complete(init_done)
  /\ pc' = [pc EXCEPT ![Worker] = "loop"]
  /\ UNCHANGED <<module, at, release_gate, reader, served>>

\* waiter_fn: wait_for_completion(&release_gate)
WaiterPasses(w) ==
  /\ pc[w] = "run" /\ MayPass(release_gate)
  /\ release_gate' = Pass(release_gate)
  /\ pc' = [pc EXCEPT ![w] = "loop"]
  /\ UNCHANGED <<module, at, init_done, reader, served>>

\* Mutant: the loop of the threads does not ask kthread_should_stop.
LeaveLoopNever(t) == FALSE /\ UNCHANGED vars

\* Both functions end once kthread_should_stop() is true.
LeaveLoop(t) ==
  /\ pc[t] = "loop" /\ ShouldStop(t)
  /\ pc' = [pc EXCEPT ![t] = "done"]
  /\ UNCHANGED <<module, at, init_done, release_gate, reader, served>>

ThreadStep(t) == \/ StartThread(t)
                 \/ t = Worker /\ WorkerCompletes
                 \/ t \in Waiters /\ WaiterPasses(t)
                 \/ LeaveLoop(t)

-----------------------------------------------------------------------------
(* The proc entries *)

BeginRead(r) ==
  /\ reader[r] = "idle" /\ StatusEntry
  /\ reader' = [reader EXCEPT ![r] = "wait"]
  /\ UNCHANGED <<module, at, init_done, release_gate, pc, served>>

\* status_read: wait_for_completion(&init_done) returns.
ReadPasses(r) ==
  /\ reader[r] = "wait" /\ MayPass(init_done)
  /\ init_done' = Pass(init_done)
  /\ reader' = [reader EXCEPT ![r] = "idle"]
  /\ served' = served + 1
  /\ UNCHANGED <<module, at, release_gate, pc>>

\* Mutant: complete() in the place of complete_all().
ReleaseOne ==
  /\ ReleaseEntry /\ release_gate < UINT_MAX
  /\ release_gate' = Complete(release_gate)
  /\ UNCHANGED <<module, at, init_done, pc, reader, served>>

\* release_write
Release ==
  /\ ReleaseEntry
  /\ release_gate' = CompleteAll(release_gate)
  /\ UNCHANGED <<module, at, init_done, pc, reader, served>>

-----------------------------------------------------------------------------

InitStep == RunThread \/ InitDone
ExitStep == \/ ThreadStopped \/ StopOfFailedThread
            \/ RemoveStatus \/ StatusRemoved \/ ExitDone

Next ==
  \/ InitModule \/ InitStep
  \/ ExitModule \/ ExitStep
  \/ \E t \in Threads : ThreadStep(t)
  \/ \E r \in Readers : BeginRead(r) \/ ReadPasses(r)
  \/ Release

Spec == Init /\ [][Next]_vars

(***************************************************************************)
(* Fairness: insmod, rmmod, threads and readers are scheduled.  A read     *)
(* needs strong fairness, for another read may take the permission first:  *)
(* complete() wakes the oldest sleeper, so that none is passed over for    *)
(* ever.  Nobody has to load, unload, read or release.                     *)
(***************************************************************************)
Fairness ==
  /\ WF_vars(InitStep) /\ WF_vars(ExitStep)
  /\ \A t \in Threads : WF_vars(ThreadStep(t))
  /\ \A r \in Readers : SF_vars(ReadPasses(r))

FairSpec == Spec /\ Fairness

-----------------------------------------------------------------------------
(* Properties *)

\* The permission of the one complete(&init_done) is used at most once: a read
\* is answered only after the worker's init, and one read at most between
\* insmod and rmmod.
OneReadPerComplete ==
  /\ init_done + served <= 1
  /\ pc[Worker] = "loop" => init_done + served = 1
  /\ pc[Worker] \in {"new", "run", "failed"} => init_done + served = 0

\* Pattern 2: the gate, once open, stays open however many threads go through,
\* until the module is loaded again.
GateStaysOpen ==
  [][release_gate # 0 => release_gate' # 0 \/ InitModule]_vars

\* Every thread that waits at the gate when it opens gets through.
ReleaseFreesAll ==
  \A w \in Waiters : release_gate # 0 /\ pc[w] = "run" ~> pc[w] # "run"

\* rmmod ends, or it hangs for one of the three reasons the code leaves open:
\* a waiter that nobody releases, a read that nobody answers, a thread that
\* was never created.
GateHang == module = "stopping" /\ at \in Waiters /\ pc[at] = "run" /\ release_gate = 0
ReadHang == module = "remove_status" /\ init_done = 0 /\ \E r \in Readers : reader[r] = "wait"
UnloadEndsUnlessWaiting ==
  module \in {"stopping", "remove_status"} ~>
    module = "unloaded" \/ GateHang \/ ReadHang \/ module = "oops"

\* EXERCISES.md: a second cat /proc/completion_demo, after the init, returns.
SecondReadReturns ==
  \A r \in Readers :
    pc[Worker] = "loop" /\ reader[r] = "wait" ~> reader[r] = "idle" \/ module = "oops"
=============================================================================
