------------------------------- MODULE IrqDemo -------------------------------
(***************************************************************************)
(* 04_Kernel_Sync/04_spinLocks_Kernel/exercise/irq_demo.c: events that are *)
(* counted under a spinlock in hard interrupt context (a real interrupt,   *)
(* or an hrtimer in its place) or by a write to /proc/irq_demo_trigger,    *)
(* bottom halves (the interrupt's thread, or a work item) that complete    *)
(* event_done, reads of /proc/irq_demo that wait for it with a timeout,    *)
(* and loading and unloading.                                              *)
(*                                                                         *)
(* A context is anything that runs code of the module.  The hard handler   *)
(* runs on top of whatever its CPU was doing, unless interrupts are off    *)
(* there; a process chooses a CPU when it takes the spinlock and keeps it  *)
(* until it releases it, for preemption is off in between.  The critical   *)
(* section is two steps, so that an update could be lost.                  *)
(*                                                                         *)
(* Left out: log messages, the sleep of the bottom half, the text of the   *)
(* answer, copy_to_user, the period of the timer (it may fire any time).   *)
(***************************************************************************)
EXTENDS KCompletion, FiniteSets

CONSTANTS
  CPUs,
  Writers,      \* processes that write to /proc/irq_demo_trigger
  Readers,      \* processes that read /proc/irq_demo
  Hard,         \* the hard handler: hard_isr or fallback_timer_fn
  Worker,       \* the kernel worker that runs fallback_bottom_half
  IrqThread,    \* the thread of request_threaded_irq
  Nobody,       \* owner of a free lock, CPU of a context that holds none
  MaxEvents     \* bound: events between an insmod and the next

Processes == Writers \cup Readers
Halves    == {Worker, IrqThread}
Contexts  == Processes \cup Halves \cup {Hard}

ASSUME ContextsAssumption ==
  /\ IsFiniteSet(Processes) /\ Writers \cap Readers = {}
  /\ Cardinality(Contexts) = Cardinality(Processes) + 3
  /\ Nobody \notin Contexts \cup CPUs
ASSUME EventsAssumption == MaxEvents \in Nat /\ MaxEvents < UINT_MAX

VARIABLES
  module,          \* where the module is between insmod and rmmod
  using_fallback,  \* hrtimer and work item instead of the real interrupt
  event_count,
  event_done,      \* the completion
  irq_lock,        \* owner of the spinlock
  irqs_off,        \* irqs_off[c]: CPU c takes no interrupt
  cpu,             \* cpu[x]: where context x runs its handler or critical section
  pc,              \* program counter of every context
  reg,             \* the event_count that a context has loaded
  work_pending,    \* fallback_bottom_half is queued
  line,            \* an edge of the real interrupt is latched
  masked,          \* IRQF_ONESHOT: the line is masked until its thread is done
  fired,           \* history: events begun since insmod
  covered,         \* history: events that a finished bottom half came after
  served,          \* history: reads answered since insmod
  triggered        \* history: a write queued work since the last cancel_work_sync

lock    == <<irq_lock, irqs_off, cpu>>
halves  == <<work_pending, line, masked>>
history == <<fired, covered, served, triggered>>
vars == <<module, using_fallback, event_count, event_done, lock, pc, reg, halves, history>>

Modules == {"unloaded", "loading", "live", "quiesce", "cancel", "remove_read",
            "remove_trigger", "oops"}

TypeOK ==
  /\ module \in Modules /\ using_fallback \in BOOLEAN
  /\ event_count \in 0 .. MaxEvents /\ event_done \in Dones
  /\ irq_lock \in Contexts \cup {Nobody}
  /\ irqs_off \in [CPUs -> BOOLEAN]
  /\ cpu \in [Contexts -> CPUs \cup {Nobody}]
  /\ pc \in [Contexts -> {"idle", "wait", "lock", "locked", "schedule", "woken", "run"}]
  /\ reg \in [Contexts -> 0 .. MaxEvents]
  /\ work_pending \in BOOLEAN /\ line \in BOOLEAN /\ masked \in BOOLEAN
  /\ fired \in 0 .. MaxEvents /\ covered \in 0 .. MaxEvents /\ served \in 0 .. MaxEvents
  /\ triggered \in BOOLEAN

Init ==
  /\ module = "unloaded" /\ using_fallback = TRUE
  /\ event_count = 0 /\ event_done = 0
  /\ irq_lock = Nobody
  /\ irqs_off = [c \in CPUs |-> FALSE]
  /\ cpu = [x \in Contexts |-> Nobody]
  /\ pc = [x \in Contexts |-> "idle"]
  /\ reg = [x \in Contexts |-> 0]
  /\ work_pending = FALSE /\ line = FALSE /\ masked = FALSE
  /\ fired = 0 /\ covered = 0 /\ served = 0 /\ triggered = FALSE

ReadEntry    == module \in {"loading", "live", "quiesce", "cancel"}
TriggerEntry == ReadEntry \/ module = "remove_read"

\* The interrupt handler or the timer is installed.
Attached == module \in {"live", "quiesce"}

Goto(x, label) == pc' = [pc EXCEPT ![x] = label]

-----------------------------------------------------------------------------
(* irq_demo_init *)

\* An insmod that finds work of the last one still queued is left out: that work
\* crashes first (WorkerStarts).
InitModule ==
  /\ module = "unloaded" /\ ~work_pending /\ pc[Worker] = "idle"
  /\ module' = "loading"
  /\ using_fallback' \in BOOLEAN
  /\ event_count' = 0 /\ event_done' = 0
  /\ line' = FALSE /\ masked' = FALSE
  /\ fired' = 0 /\ covered' = 0 /\ served' = 0 /\ triggered' = FALSE
  /\ UNCHANGED <<lock, pc, reg, work_pending>>

\* hrtimer_start, or request_threaded_irq, which may fail: then the entries are
\* removed again and insmod fails.
Attach ==
  /\ module = "loading"
  /\ \/ module' = "live"
     \/ ~using_fallback /\ module' = "remove_read"
  /\ UNCHANGED <<using_fallback, event_count, event_done, lock, pc, reg, halves, history>>

-----------------------------------------------------------------------------
(* irq_demo_exit *)

ExitModule ==
  /\ module = "live"
  /\ module' = "quiesce"
  /\ UNCHANGED <<using_fallback, event_count, event_done, lock, pc, reg, halves, history>>

\* Mutant: hrtimer_try_to_cancel, disable_irq_nosync: the handler may still run.
SourceNotAwaited ==
  /\ module = "quiesce"
  /\ module' = "cancel"
  /\ UNCHANGED <<using_fallback, event_count, event_done, lock, pc, reg, halves, history>>

\* free_irq or hrtimer_cancel returns: no handler is running, none will start.
SourceStopped ==
  /\ module = "quiesce" /\ pc[Hard] = "idle" /\ pc[IrqThread] = "idle"
  /\ module' = "cancel"
  /\ UNCHANGED <<using_fallback, event_count, event_done, lock, pc, reg, halves, history>>

\* cancel_work_sync: the item is taken off the queue and is not running.
CancelWork ==
  /\ module = "cancel" /\ pc[Worker] = "idle"
  /\ work_pending' = FALSE
  /\ triggered' = FALSE
  /\ module' = "remove_read"
  /\ UNCHANGED <<using_fallback, event_count, event_done, lock, pc, reg, line, masked,
                 fired, covered, served>>

\* remove_proc_entry waits for the calls inside the entry.
ReadRemoved ==
  /\ module = "remove_read" /\ \A r \in Readers : pc[r] = "idle"
  /\ module' = "remove_trigger"
  /\ UNCHANGED <<using_fallback, event_count, event_done, lock, pc, reg, halves, history>>

TriggerRemoved ==
  /\ module = "remove_trigger" /\ \A w \in Writers : pc[w] = "idle"
  /\ module' = "unloaded"
  /\ UNCHANGED <<using_fallback, event_count, event_done, lock, pc, reg, halves, history>>

-----------------------------------------------------------------------------
(* The spinlock *)

InIrq(c) == pc[Hard] # "idle" /\ cpu[Hard] = c

\* Mutant: spin_lock, which leaves interrupts on.
LockIrqsOn(t, c) ==
  /\ pc[t] = "lock" /\ irq_lock = Nobody /\ ~InIrq(c)
  /\ irq_lock' = t
  /\ cpu' = [cpu EXCEPT ![t] = c]
  /\ reg' = [reg EXCEPT ![t] = event_count]
  /\ Goto(t, "locked")
  /\ UNCHANGED <<module, using_fallback, event_count, event_done, irqs_off, halves, history>>

\* Mutant: local_irq_save without the lock.
LockOtherCpuIgnored(t, c) ==
  /\ pc[t] = "lock" /\ ~irqs_off[c] /\ ~InIrq(c)
  /\ irq_lock' = t
  /\ irqs_off' = [irqs_off EXCEPT ![c] = TRUE]
  /\ cpu' = [cpu EXCEPT ![t] = c]
  /\ reg' = [reg EXCEPT ![t] = event_count]
  /\ Goto(t, "locked")
  /\ UNCHANGED <<module, using_fallback, event_count, event_done, halves, history>>

\* spin_lock_irqsave by a process on CPU c, and the load of event_count.
LockIrqsave(t, c) ==
  /\ pc[t] = "lock" /\ irq_lock = Nobody /\ ~InIrq(c)
  /\ irq_lock' = t
  /\ irqs_off' = [irqs_off EXCEPT ![c] = TRUE]
  /\ cpu' = [cpu EXCEPT ![t] = c]
  /\ reg' = [reg EXCEPT ![t] = event_count]
  /\ Goto(t, "locked")
  /\ UNCHANGED <<module, using_fallback, event_count, event_done, halves, history>>

\* The same in the hard handler, whose CPU has interrupts off already.
LockInHandler ==
  /\ pc[Hard] = "lock" /\ irq_lock = Nobody
  /\ irq_lock' = Hard
  /\ reg' = [reg EXCEPT ![Hard] = event_count]
  /\ Goto(Hard, "locked")
  /\ UNCHANGED <<module, using_fallback, event_count, event_done, irqs_off, cpu, halves, history>>

\* spin_unlock_irqrestore by a process: interrupts were on before.  Its local
\* copy of event_count is dead from here on.
Unlock(t) ==
  /\ reg' = [reg EXCEPT ![t] = 0]
  /\ irq_lock' = Nobody
  /\ irqs_off' = [irqs_off EXCEPT ![cpu[t]] = FALSE]
  /\ cpu' = [cpu EXCEPT ![t] = Nobody]

-----------------------------------------------------------------------------
(* Hard interrupt context: hard_isr and fallback_timer_fn *)

\* The board raises the line; an edge that is latched already is not noticed.
Edge ==
  /\ module = "live" /\ ~using_fallback /\ ~line
  /\ line' = TRUE
  /\ UNCHANGED <<module, using_fallback, event_count, event_done, lock, pc, reg,
                 work_pending, masked, history>>

EnterHandler(c) ==
  /\ Attached /\ pc[Hard] = "idle" /\ ~irqs_off[c]
  /\ fired < MaxEvents
  /\ \/ using_fallback /\ UNCHANGED <<line, masked>>
     \/ ~using_fallback /\ line /\ ~masked /\ line' = FALSE /\ masked' = TRUE
  /\ cpu' = [cpu EXCEPT ![Hard] = c]
  /\ fired' = fired + 1
  /\ Goto(Hard, "lock")
  /\ UNCHANGED <<module, using_fallback, event_count, event_done, irq_lock, irqs_off, reg,
                 work_pending, covered, served, triggered>>

\* Mutant: do_hard_isr_work counts twice.
CountInHandlerTwice ==
  /\ pc[Hard] = "locked"
  /\ event_count' = reg[Hard] + 2
  /\ reg' = [reg EXCEPT ![Hard] = 0]
  /\ irq_lock' = Nobody
  /\ Goto(Hard, "schedule")
  /\ UNCHANGED <<module, using_fallback, event_done, irqs_off, cpu, halves, history>>

\* do_hard_isr_work: event_count++ and the end of the critical section.
CountInHandler ==
  /\ pc[Hard] = "locked"
  /\ event_count' = reg[Hard] + 1
  /\ reg' = [reg EXCEPT ![Hard] = 0]
  /\ irq_lock' = Nobody
  /\ Goto(Hard, "schedule")
  /\ UNCHANGED <<module, using_fallback, event_done, irqs_off, cpu, halves, history>>

\* Mutant: hard_isr returns IRQ_HANDLED.
LeaveHandlerHandled ==
  /\ pc[Hard] = "schedule"
  /\ cpu' = [cpu EXCEPT ![Hard] = Nobody]
  /\ Goto(Hard, "idle")
  /\ work_pending' = IF using_fallback THEN TRUE ELSE work_pending
  /\ UNCHANGED <<module, using_fallback, event_count, event_done, irq_lock, irqs_off, reg,
                 line, masked, history>>

\* schedule_work, which does nothing if the item is queued already, or
\* IRQ_WAKE_THREAD; the handler returns.
LeaveHandler ==
  /\ pc[Hard] = "schedule"
  /\ cpu' = [cpu EXCEPT ![Hard] = Nobody]
  /\ IF using_fallback
       THEN work_pending' = TRUE /\ pc' = [pc EXCEPT ![Hard] = "idle"]
       ELSE pc' = [pc EXCEPT ![Hard] = "idle", ![IrqThread] = "woken"] /\ UNCHANGED work_pending
  /\ UNCHANGED <<module, using_fallback, event_count, event_done, irq_lock, irqs_off, reg,
                 line, masked, history>>

-----------------------------------------------------------------------------
(* do_bottom_half_work, in the worker or in the interrupt's thread *)

WorkerStarts ==
  /\ work_pending /\ pc[Worker] = "idle" /\ module # "oops"
  /\ work_pending' = FALSE
  /\ reg' = [reg EXCEPT ![Worker] = event_count]
  /\ Goto(Worker, "run")
  /\ module' = IF module = "unloaded" THEN "oops" ELSE module  \* its code is gone
  /\ UNCHANGED <<using_fallback, event_count, event_done, lock, line, masked, history>>

IrqThreadStarts ==
  /\ pc[IrqThread] = "woken"
  /\ reg' = [reg EXCEPT ![IrqThread] = event_count]
  /\ Goto(IrqThread, "run")
  /\ UNCHANGED <<module, using_fallback, event_count, event_done, lock, halves, history>>

\* Mutant: complete_all(&event_done).
BottomHalfCompletesAll(b) ==
  /\ pc[b] = "run" /\ module # "oops"
  /\ event_done' = CompleteAll(event_done)
  /\ covered' = IF covered < reg[b] THEN reg[b] ELSE covered
  /\ reg' = [reg EXCEPT ![b] = 0]
  /\ masked' = IF b = IrqThread THEN FALSE ELSE masked
  /\ module' = IF module = "unloaded" THEN "oops" ELSE module
  /\ Goto(b, "idle")
  /\ UNCHANGED <<using_fallback, event_count, lock, work_pending, line,
                 fired, served, triggered>>

\* complete(&event_done).  A thread that runs on in an unloaded module crashes.
BottomHalfDone(b) ==
  /\ pc[b] = "run" /\ module # "oops"
  /\ event_done' = Complete(event_done)
  /\ covered' = IF covered < reg[b] THEN reg[b] ELSE covered
  /\ reg' = [reg EXCEPT ![b] = 0]
  /\ masked' = IF b = IrqThread THEN FALSE ELSE masked
  /\ module' = IF module = "unloaded" THEN "oops" ELSE module
  /\ Goto(b, "idle")
  /\ UNCHANGED <<using_fallback, event_count, lock, work_pending, line,
                 fired, served, triggered>>

-----------------------------------------------------------------------------
(* irq_demo_trigger_write *)

BeginTrigger(w) ==
  /\ pc[w] = "idle" /\ TriggerEntry
  /\ fired < MaxEvents
  /\ fired' = fired + 1
  /\ Goto(w, "lock")
  /\ UNCHANGED <<module, using_fallback, event_count, event_done, lock, reg, halves,
                 covered, served, triggered>>

CountInTrigger(w) ==
  /\ pc[w] = "locked" /\ ~InIrq(cpu[w])
  /\ event_count' = reg[w] + 1
  /\ Unlock(w)
  /\ Goto(w, "schedule")
  /\ UNCHANGED <<module, using_fallback, event_done, halves, history>>

ScheduleWork(w) ==
  /\ pc[w] = "schedule"
  /\ work_pending' = TRUE
  /\ triggered' = TRUE
  /\ Goto(w, "idle")
  /\ UNCHANGED <<module, using_fallback, event_count, event_done, lock, reg, line, masked,
                 fired, covered, served>>

-----------------------------------------------------------------------------
(* irq_demo_read *)

BeginRead(r) ==
  /\ pc[r] = "idle" /\ ReadEntry
  /\ Goto(r, "wait")
  /\ UNCHANGED <<module, using_fallback, event_count, event_done, lock, reg, halves, history>>

WaitDone(r) ==
  /\ pc[r] = "wait" /\ MayPass(event_done)
  /\ event_done' = Pass(event_done)
  /\ served' = served + 1
  /\ Goto(r, "lock")
  /\ UNCHANGED <<module, using_fallback, event_count, lock, reg, halves, fired, covered, triggered>>

\* Mutant: wait_for_completion, without a timeout.
WaitForever(r) == FALSE /\ UNCHANGED vars

\* Ten seconds have passed, or a signal has come: -ETIMEDOUT.
WaitFails(r) ==
  /\ pc[r] = "wait" /\ ~MayPass(event_done)
  /\ Goto(r, "idle")
  /\ UNCHANGED <<module, using_fallback, event_count, event_done, lock, reg, halves, history>>

\* The critical section ends, and reg[r] is what the read reports.
EndRead(r) ==
  /\ pc[r] = "locked" /\ ~InIrq(cpu[r])
  /\ Unlock(r)
  /\ Goto(r, "idle")
  /\ UNCHANGED <<module, using_fallback, event_count, event_done, halves, history>>

-----------------------------------------------------------------------------

ExitStep == SourceStopped \/ CancelWork \/ ReadRemoved \/ TriggerRemoved
HardStep == CountInHandler \/ LeaveHandler
WriterStep(w) == CountInTrigger(w) \/ ScheduleWork(w)
ReaderStep(r) == WaitDone(r) \/ WaitFails(r) \/ EndRead(r)
TakeLock(t)   == \E c \in CPUs : LockIrqsave(t, c)

Next ==
  \/ InitModule \/ Attach \/ ExitModule \/ ExitStep
  \/ Edge \/ \E c \in CPUs : EnterHandler(c)
  \/ LockInHandler \/ HardStep
  \/ WorkerStarts \/ IrqThreadStarts
  \/ \E b \in Halves : BottomHalfDone(b)
  \/ \E t \in Processes : TakeLock(t)
  \/ \E w \in Writers : BeginTrigger(w) \/ WriterStep(w)
  \/ \E r \in Readers : BeginRead(r) \/ ReaderStep(r)

Spec == Init /\ [][Next]_vars

(***************************************************************************)
(* Fairness: what has begun is scheduled.  Spinlocks serve their waiters   *)
(* in turn (strong fairness); rmmod is strongly fair because the calls it  *)
(* waits in keep new work out until they return.  A read that waits is     *)
(* answered or times out.  Nobody has to load, unload, trigger or read,    *)
(* and no event has to happen.                                             *)
(***************************************************************************)
Fairness ==
  /\ WF_vars(Attach) /\ SF_vars(ExitStep)
  /\ WF_vars(HardStep) /\ SF_vars(LockInHandler)
  /\ WF_vars(WorkerStarts) /\ WF_vars(IrqThreadStarts)
  /\ \A b \in Halves : WF_vars(BottomHalfDone(b))
  /\ \A t \in Processes : SF_vars(TakeLock(t))
  /\ \A w \in Writers : WF_vars(WriterStep(w))
  /\ \A r \in Readers : WF_vars(ReaderStep(r))

FairSpec == Spec /\ Fairness

-----------------------------------------------------------------------------
(* Properties *)

Number(S) == Cardinality(S)
Counters == Writers \cup {Hard}

\* The hard handler never runs on top of a process that holds irq_lock: it
\* would spin for ever on a lock whose owner it keeps from running.
HolderNotInterrupted == irq_lock \in Processes => ~InIrq(cpu[irq_lock])

\* No event is lost or counted twice, whatever CPUs and contexts count at once.
EventCountExact ==
  event_count + Number({x \in Counters : pc[x] \in {"lock", "locked"}}) = fired

\* A read is never answered without an event of its own: each answer, each
\* permission left and each bottom half to come stands for another event.
AnswersBacked ==
  event_done + served
    + Number({b \in Halves : pc[b] # "idle"}) + (IF work_pending THEN 1 ELSE 0)
  <= event_count - Number({x \in Counters : pc[x] = "schedule"})

\* After rmmod nothing of the module is queued or running, unless a write to
\* /proc/irq_demo_trigger queued it after cancel_work_sync.
NothingLeft == /\ ~work_pending
               /\ \A x \in Contexts : pc[x] = "idle"
QuietUnlessTriggered == module = "unloaded" /\ ~triggered => NothingLeft

\* Although queueing the work item twice runs it once, every event is followed
\* by a bottom half that began after it, unless the module is being removed.
EventReachesBottomHalf ==
  \A n \in 1 .. MaxEvents : event_count >= n ~> covered >= n \/ module # "live"

\* rmmod (and an insmod without its interrupt) always ends: every wait of the
\* module has a timeout.
UnloadEnds ==
  module \in {"quiesce", "cancel", "remove_read", "remove_trigger"} ~>
    module \in {"unloaded", "oops"}

\* The comments of irq_demo_exit: once the calls of irq_demo_exit have returned,
\* every handler of the module has finished.
NothingRunsAfterUnload == module = "unloaded" => NothingLeft
=============================================================================
