------------------------------- MODULE SemDemo -------------------------------
(***************************************************************************)
(* 04_Kernel_Sync/03_Semaphore_Kernel/semaphore/sem_demo.c: a pool of      *)
(* POOL_SIZE buffer slots between one producer thread and the processes    *)
(* that write to /proc/sem_demo, counted by two semaphores and guarded by  *)
(* a mutex, with loading and unloading of the module around it.            *)
(*                                                                         *)
(* Each task has a program counter; a critical section is several steps,   *)
(* so that it is the mutex, not the model, that keeps them apart.          *)
(*                                                                         *)
(* kthread_stop interrupts a sleep of the thread in down_interruptible on  *)
(* kernels since Linux 6.0, which set TIF_NOTIFY_SIGNAL in it, and not on  *)
(* older ones.  The repository builds for either, so StopSignals says      *)
(* which of the two kernels runs.                                          *)
(*                                                                         *)
(* Left out: log messages, msleep (a task may rest at any step), the       *)
(* bytes of the report.                                                    *)
(***************************************************************************)
EXTENDS KSemaphore, FiniteSets

CONSTANTS
  POOL_SIZE,    \* slots of the buffer
  IntModulus,   \* a C int counts modulo this
  StopSignals,  \* kthread_stop sets TIF_NOTIFY_SIGNAL: Linux 6.0 and later
  Consumers,    \* processes that write to /proc/sem_demo
  Readers,      \* processes that read /proc/sem_demo
  Producer,     \* the thread sem_demo_producer
  Nobody        \* owner of a mutex that is free; value not read yet

Tasks == {Producer} \cup Consumers \cup Readers

ASSUME PoolAssumption == POOL_SIZE \in Nat \ {0}
ASSUME StopAssumption == StopSignals \in BOOLEAN
ASSUME IntAssumption == IntModulus \in Nat /\ IntModulus > POOL_SIZE
ASSUME TasksAssumption ==
  /\ IsFiniteSet(Consumers)
  /\ Consumers \cap Readers = {}
  /\ Producer \notin Consumers \cup Readers
  /\ Nobody \notin Tasks \cup Int

VARIABLES
  module,         \* where the module is between insmod and rmmod
  free_slots,     \* semaphore: empty slots
  filled_slots,   \* semaphore: filled slots
  buf_lock,       \* owner of the mutex
  buffer,         \* the slots
  prod_idx,       \* next slot to fill
  cons_idx,       \* next slot to drain
  produced_count,
  consumed_count,
  value,          \* producer_fn's local: the next value
  pc,             \* program counter of every task
  consumed_value, \* demo_proc_write's local, for every consumer
  report          \* the counts a reader has evaluated so far

pool == <<buffer, prod_idx, cons_idx, produced_count, consumed_count, value>>
sems == <<free_slots, filled_slots>>
vars == <<module, free_slots, filled_slots, buf_lock, pool, pc, consumed_value, report>>

Slots  == 0 .. POOL_SIZE - 1
CInt   == 0 .. IntModulus - 1
Locals == CInt \cup {Nobody}
NoReport == [free |-> Nobody, filled |-> Nobody]

\* The proc entry exists, so that a write or a read can begin.
ProcEntry == module \in {"created", "live", "stopping"}

ProducerPC == {"none", "loop", "down", "wait", "lock", "locked", "advance", "up", "done"}
ConsumerPC == {"idle", "down", "wait", "lock", "locked", "advance", "up"}
ReaderPC   == {"idle", "lock", "locked"}

TypeOK ==
  /\ module \in {"unloaded", "created", "live", "stopping", "removing"}
  /\ free_slots \in Semaphores({Producer})
  /\ filled_slots \in Semaphores(Consumers)
  /\ buf_lock \in Tasks \cup {Nobody}
  /\ buffer \in [Slots -> CInt]
  /\ prod_idx \in Slots /\ cons_idx \in Slots
  /\ produced_count \in CInt /\ consumed_count \in CInt /\ value \in CInt
  /\ pc \in [Tasks -> ProducerPC \cup ConsumerPC]
  /\ pc[Producer] \in ProducerPC
  /\ \A c \in Consumers : pc[c] \in ConsumerPC
  /\ \A r \in Readers : pc[r] \in ReaderPC
  /\ consumed_value \in [Consumers -> Locals]
  /\ report \in [Readers -> [free : Nat \cup {Nobody}, filled : Nat \cup {Nobody}]]

Init ==
  /\ module = "unloaded"
  /\ free_slots = SemaInit(0) /\ filled_slots = SemaInit(0)
  /\ buf_lock = Nobody
  /\ buffer = [s \in Slots |-> 0]
  /\ prod_idx = 0 /\ cons_idx = 0
  /\ produced_count = 0 /\ consumed_count = 0 /\ value = 0
  /\ pc = [t \in Tasks |-> IF t = Producer THEN "none" ELSE "idle"]
  /\ consumed_value = [c \in Consumers |-> Nobody]
  /\ report = [r \in Readers |-> NoReport]

-----------------------------------------------------------------------------
(* insmod and rmmod *)

\* sem_demo_init up to proc_create, which may fail and end insmod.
InitModule ==
  /\ module = "unloaded"
  /\ module' \in {"created", "unloaded"}
  /\ free_slots' = SemaInit(POOL_SIZE) /\ filled_slots' = SemaInit(0)
  /\ buf_lock' = Nobody
  /\ prod_idx' = 0 /\ cons_idx' = 0
  /\ produced_count' = 0 /\ consumed_count' = 0
  /\ buffer' = [s \in Slots |-> 0]
  /\ UNCHANGED <<value, pc, consumed_value, report>>

\* kthread_run succeeds; producer_fn begins with value = 0.
RunProducer ==
  /\ module = "created"
  /\ module' = "live"
  /\ value' = 0
  /\ pc' = [pc EXCEPT ![Producer] = "loop"]
  /\ UNCHANGED <<sems, buf_lock, buffer, prod_idx, cons_idx, produced_count,
                 consumed_count, consumed_value, report>>

\* kthread_run fails: sem_demo_init goes into proc_remove.
RunProducerFails ==
  /\ module = "created"
  /\ module' = "removing"
  /\ UNCHANGED <<sems, buf_lock, pool, pc, consumed_value, report>>

\* rmmod: sem_demo_exit enters kthread_stop, which sets the stop flag.
ExitModule ==
  /\ module = "live"
  /\ module' = "stopping"
  /\ UNCHANGED <<sems, buf_lock, pool, pc, consumed_value, report>>

\* kthread_stop returns once producer_fn has returned; then proc_remove.
ProducerStopped ==
  /\ module = "stopping" /\ pc[Producer] = "done"
  /\ module' = "removing"
  /\ pc' = [pc EXCEPT ![Producer] = "none"]
  /\ UNCHANGED <<sems, buf_lock, pool, consumed_value, report>>

\* proc_remove returns once no read or write of the entry is in progress.
ProcRemoved ==
  /\ module = "removing"
  /\ \A t \in Consumers \cup Readers : pc[t] = "idle"
  /\ module' = "unloaded"
  /\ UNCHANGED <<sems, buf_lock, pool, pc, consumed_value, report>>

-----------------------------------------------------------------------------
(* mutex_lock and waking up, the same for every task *)

\* Mutant: the mutex is not taken.
LockBufferNoMutex(t) ==
  /\ pc[t] = "lock"
  /\ buf_lock' = t
  /\ pc' = [pc EXCEPT ![t] = "locked"]
  /\ UNCHANGED <<module, sems, pool, consumed_value, report>>

LockBuffer(t) ==
  /\ pc[t] = "lock" /\ buf_lock = Nobody
  /\ buf_lock' = t
  /\ pc' = [pc EXCEPT ![t] = "locked"]
  /\ UNCHANGED <<module, sems, pool, consumed_value, report>>

\* A sleeper that up() has served returns from down_interruptible.
Wake(t, sem) ==
  /\ pc[t] = "wait" /\ t \notin Waiters(sem)
  /\ pc' = [pc EXCEPT ![t] = "lock"]
  /\ UNCHANGED <<module, sems, buf_lock, pool, consumed_value, report>>

-----------------------------------------------------------------------------
(* producer_fn *)

\* Mutant: the loop does not ask kthread_should_stop.
CheckStopNever ==
  /\ pc[Producer] = "loop"
  /\ pc' = [pc EXCEPT ![Producer] = "down"]
  /\ UNCHANGED <<module, sems, buf_lock, pool, consumed_value, report>>

CheckStop ==
  /\ pc[Producer] = "loop"
  /\ pc' = [pc EXCEPT ![Producer] = IF module = "stopping" THEN "done" ELSE "down"]
  /\ UNCHANGED <<module, sems, buf_lock, pool, consumed_value, report>>

DownFree ==
  /\ pc[Producer] = "down"
  /\ \/ /\ free_slots.count > 0
        /\ free_slots' = Take(free_slots)
        /\ pc' = [pc EXCEPT ![Producer] = "lock"]
     \/ /\ free_slots.count = 0
        /\ free_slots' = Sleep(free_slots, Producer)
        /\ pc' = [pc EXCEPT ![Producer] = "wait"]
  /\ UNCHANGED <<module, filled_slots, buf_lock, pool, consumed_value, report>>

\* kthread_stop ends the sleep on a full pool: producer_fn breaks out of its
\* loop without a slot.  A sleeper that up() served first is not interrupted.
ProducerInterrupted ==
  /\ StopSignals /\ module = "stopping"
  /\ pc[Producer] = "wait" /\ Producer \in Waiters(free_slots)
  /\ free_slots' = GiveUp(free_slots, Producer)
  /\ pc' = [pc EXCEPT ![Producer] = "done"]
  /\ UNCHANGED <<module, filled_slots, buf_lock, pool, consumed_value, report>>

FillSlot ==
  /\ pc[Producer] = "locked"
  /\ buffer' = [buffer EXCEPT ![prod_idx] = value]
  /\ pc' = [pc EXCEPT ![Producer] = "advance"]
  /\ UNCHANGED <<module, sems, buf_lock, prod_idx, cons_idx, produced_count,
                 consumed_count, value, consumed_value, report>>

\* Mutant: prod_idx is not wrapped.
AdvanceProducerNoWrap ==
  /\ pc[Producer] = "advance"
  /\ prod_idx' = prod_idx + 1
  /\ produced_count' = (produced_count + 1) % IntModulus
  /\ value' = (value + 1) % IntModulus
  /\ buf_lock' = Nobody
  /\ pc' = [pc EXCEPT ![Producer] = "up"]
  /\ UNCHANGED <<module, sems, buffer, cons_idx, consumed_count, consumed_value, report>>

AdvanceProducer ==
  /\ pc[Producer] = "advance"
  /\ prod_idx' = (prod_idx + 1) % POOL_SIZE
  /\ produced_count' = (produced_count + 1) % IntModulus
  /\ value' = (value + 1) % IntModulus
  /\ buf_lock' = Nobody
  /\ pc' = [pc EXCEPT ![Producer] = "up"]
  /\ UNCHANGED <<module, sems, buffer, cons_idx, consumed_count, consumed_value, report>>

\* Mutant: up(&filled_slots) only for the first value of an empty pool.
UpFilledIfFirst ==
  /\ pc[Producer] = "up"
  /\ filled_slots' = IF (produced_count - consumed_count) % IntModulus = 1
                       THEN Up(filled_slots) ELSE filled_slots
  /\ pc' = [pc EXCEPT ![Producer] = "loop"]
  /\ UNCHANGED <<module, free_slots, buf_lock, pool, consumed_value, report>>

UpFilled ==
  /\ pc[Producer] = "up"
  /\ filled_slots' = Up(filled_slots)
  /\ pc' = [pc EXCEPT ![Producer] = "loop"]
  /\ UNCHANGED <<module, free_slots, buf_lock, pool, consumed_value, report>>

ProducerStep == CheckStop \/ DownFree \/ Wake(Producer, free_slots)
                \/ ProducerInterrupted \/ FillSlot \/ AdvanceProducer \/ UpFilled

-----------------------------------------------------------------------------
(* demo_proc_write *)

BeginWrite(c) ==
  /\ pc[c] = "idle" /\ ProcEntry
  /\ pc' = [pc EXCEPT ![c] = "down"]
  /\ UNCHANGED <<module, sems, buf_lock, pool, consumed_value, report>>

DownFilled(c) ==
  /\ pc[c] = "down"
  /\ \/ /\ filled_slots.count > 0
        /\ filled_slots' = Take(filled_slots)
        /\ pc' = [pc EXCEPT ![c] = "lock"]
     \/ /\ filled_slots.count = 0
        /\ filled_slots' = Sleep(filled_slots, c)
        /\ pc' = [pc EXCEPT ![c] = "wait"]
  /\ UNCHANGED <<module, free_slots, buf_lock, pool, consumed_value, report>>

\* Mutant: the result of down_interruptible is not looked at.
InterruptIgnored(c) ==
  /\ pc[c] = "wait" /\ c \in Waiters(filled_slots)
  /\ filled_slots' = GiveUp(filled_slots, c)
  /\ pc' = [pc EXCEPT ![c] = "lock"]
  /\ UNCHANGED <<module, free_slots, buf_lock, pool, consumed_value, report>>

\* A signal ends the sleep: -ERESTARTSYS, and nothing is consumed.
Interrupt(c) ==
  /\ pc[c] = "wait" /\ c \in Waiters(filled_slots)
  /\ filled_slots' = GiveUp(filled_slots, c)
  /\ pc' = [pc EXCEPT ![c] = "idle"]
  /\ UNCHANGED <<module, free_slots, buf_lock, pool, consumed_value, report>>

ReadSlot(c) ==
  /\ pc[c] = "locked"
  /\ consumed_value' = [consumed_value EXCEPT ![c] = buffer[cons_idx]]
  /\ pc' = [pc EXCEPT ![c] = "advance"]
  /\ UNCHANGED <<module, sems, buf_lock, pool, report>>

AdvanceConsumer(c) ==
  /\ pc[c] = "advance"
  /\ cons_idx' = (cons_idx + 1) % POOL_SIZE
  /\ consumed_count' = (consumed_count + 1) % IntModulus
  /\ buf_lock' = Nobody
  /\ pc' = [pc EXCEPT ![c] = "up"]
  /\ UNCHANGED <<module, sems, buffer, prod_idx, produced_count, value, consumed_value, report>>

UpFree(c) ==
  /\ pc[c] = "up"
  /\ free_slots' = Up(free_slots)
  /\ consumed_value' = [consumed_value EXCEPT ![c] = Nobody]
  /\ pc' = [pc EXCEPT ![c] = "idle"]
  /\ UNCHANGED <<module, filled_slots, buf_lock, pool, report>>

ConsumerStep(c) == DownFilled(c) \/ Wake(c, filled_slots) \/ ReadSlot(c)
                   \/ AdvanceConsumer(c) \/ UpFree(c)

-----------------------------------------------------------------------------
(* demo_proc_read.  The two counts of the semaphores are read under         *)
(* buf_lock, not under the semaphores' own locks, and C does not say which  *)
(* argument of scnprintf is evaluated first.                                *)

\* Mutant: demo_proc_read does not take buf_lock.
BeginReadNoMutex(r) ==
  /\ pc[r] = "idle" /\ ProcEntry
  /\ pc' = [pc EXCEPT ![r] = "locked"]
  /\ UNCHANGED <<module, sems, buf_lock, pool, consumed_value, report>>

BeginRead(r) ==
  /\ pc[r] = "idle" /\ ProcEntry
  /\ pc' = [pc EXCEPT ![r] = "lock"]
  /\ UNCHANGED <<module, sems, buf_lock, pool, consumed_value, report>>

ReadCount(r) ==
  /\ pc[r] = "locked"
  /\ \/ /\ report[r].free = Nobody
        /\ report' = [report EXCEPT ![r].free = free_slots.count]
     \/ /\ report[r].filled = Nobody
        /\ report' = [report EXCEPT ![r].filled = filled_slots.count]
  /\ UNCHANGED <<module, sems, buf_lock, pool, pc, consumed_value>>

EndRead(r) ==
  /\ pc[r] = "locked" /\ report[r].free # Nobody /\ report[r].filled # Nobody
  /\ report' = [report EXCEPT ![r] = NoReport]
  /\ buf_lock' = Nobody
  /\ pc' = [pc EXCEPT ![r] = "idle"]
  /\ UNCHANGED <<module, sems, pool, consumed_value>>

ReaderStep(r) == ReadCount(r) \/ EndRead(r)

-----------------------------------------------------------------------------

ModuleStep == \/ InitModule \/ RunProducer \/ RunProducerFails
              \/ ExitModule \/ ProducerStopped \/ ProcRemoved

Next ==
  \/ ModuleStep
  \/ \E t \in Tasks : LockBuffer(t)
  \/ ProducerStep
  \/ \E c \in Consumers : BeginWrite(c) \/ ConsumerStep(c) \/ Interrupt(c)
  \/ \E r \in Readers : BeginRead(r) \/ ReaderStep(r)

Spec == Init /\ [][Next]_vars

(***************************************************************************)
(* Fairness.  The scheduler runs every runnable task (weak fairness of its *)
(* steps).  mutex_lock is strongly fair: a kernel mutex queues its waiters *)
(* and hands itself over to one that has waited too long.  Nothing obliges *)
(* a user to load, unload, read, write or send a signal.                   *)
(***************************************************************************)
Fairness ==
  /\ WF_vars(RunProducer \/ RunProducerFails)
  /\ WF_vars(ProducerStopped \/ ProcRemoved)
  /\ WF_vars(ProducerStep)
  /\ \A c \in Consumers : WF_vars(ConsumerStep(c))
  /\ \A r \in Readers : WF_vars(ReaderStep(r))
  /\ \A t \in Tasks : SF_vars(LockBuffer(t))

FairSpec == Spec /\ Fairness

-----------------------------------------------------------------------------
(* Properties *)

\* The tasks asleep in down_interruptible that no up() has served yet.
Asleep == Waiters(free_slots) \cup Waiters(filled_slots)

\* The tasks that own a slot: they were given its unit, perhaps in their sleep,
\* and have not yet passed it on.
SlotOwners ==
  {t \in Consumers \cup {Producer} :
     \/ pc[t] \in {"lock", "locked", "advance", "up"}
     \/ pc[t] = "wait" /\ t \notin Asleep}

\* No slot is lost or invented (SEM_EXERCISES.md: the two counts add up to
\* POOL_SIZE when nothing is in progress): free units, filled units and the
\* slots in the hands of a task add up to POOL_SIZE, whatever was interrupted.
SlotConservation ==
  module # "unloaded" =>
    free_slots.count + filled_slots.count + Cardinality(SlotOwners) = POOL_SIZE

\* The mutex belongs to the task that is between lock and unlock, so there is
\* at most one such task.
LockOwner == \A t \in Tasks : pc[t] \in {"locked", "advance"} <=> buf_lock = t

\* Values produced and not yet consumed.
Backlog == (produced_count - consumed_count) % IntModulus

\* What cat /proc/sem_demo prints agrees with itself, although neither
\* semaphore is locked while its count is read: there are never more filled
\* slots than values waiting, nor more free slots than the rest of the pool.
ReportConsistent ==
  \A r \in Readers :
    /\ report[r].filled # Nobody => report[r].filled <= Backlog
    /\ report[r].free # Nobody => report[r].free <= POOL_SIZE - Backlog

\* The pool is a FIFO: every write to /proc/sem_demo gets the oldest value that
\* nobody else got, and a slot is not filled again before it was drained.
Queue == INSTANCE BoundedQueue WITH
           Capacity <- POOL_SIZE, Modulus <- IntModulus,
           Takers <- Consumers, Nothing <- Nobody,
           queue <- [i \in 1 .. Backlog |-> buffer[(cons_idx + i - 1) % POOL_SIZE]],
           next <- produced_count,
           taken <- [c \in Consumers |-> IF pc[c] = "up" THEN consumed_value[c] ELSE Nobody]
PoolIsQueue == Queue!Spec

\* While the producer runs, a writer that sleeps on the empty pool is served
\* (or gives up): neither semaphore loses a wake-up.
WriterServed ==
  \A c \in Consumers : pc[c] = "wait" ~> pc[c] # "wait" \/ module # "live"

\* insmod and rmmod end, or hang in one of the known ways: proc_remove (of
\* rmmod, or of an insmod without a thread) with a writer asleep on an empty
\* pool, and, only where kthread_stop does not interrupt the sleep,
\* kthread_stop with the producer asleep on a full pool.
FullPoolHang  == ~StopSignals /\ module = "stopping" /\ Producer \in Waiters(free_slots)
EmptyPoolHang == module = "removing" /\ Waiters(filled_slots) # {}
UnloadHangsOnlyOnSleeper ==
  module \in {"created", "stopping", "removing"} ~>
    module \in {"live", "unloaded"} \/ FullPoolHang \/ EmptyPoolHang

\* The comment on down_interruptible in producer_fn: kthread_stop ends the
\* producer instead of leaving it stuck.  False where ~StopSignals.
KthreadStopEndsProducer == module = "stopping" ~> module # "stopping"
=============================================================================
