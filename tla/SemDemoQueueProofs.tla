-------------------------- MODULE SemDemoQueueProofs --------------------------
(***************************************************************************)
(* The pool of sem_demo.c is a bounded FIFO queue, and its report agrees   *)
(* with itself, for every POOL_SIZE, every width of int and every finite   *)
(* set of writers and readers: the refinement of BoundedQueue.             *)
(***************************************************************************)
EXTENDS SemDemoProofs

USE TasksAssumption, PoolAssumption, IntAssumption

-----------------------------------------------------------------------------
(* The invariant: the two semaphores, the two indices, the two counters    *)
(* and the contents of the buffer tell the same story.                     *)

\* The tasks that own a filled slot: producer_fn before up(&filled_slots), and a
\* writer, perhaps in its sleep, until it has drained its slot.
FilledOwners ==
  {t \in Consumers \cup {Producer} :
     \/ t = Producer /\ pc[t] = "up"
     \/ t # Producer /\ pc[t] \in {"lock", "locked", "advance"}
     \/ t # Producer /\ pc[t] = "wait" /\ t \notin Waiters(filled_slots)}

\* A value waits for every filled slot, counted or in somebody's hands, and the
\* producer goes on behind the last of them.
CountInv == Backlog = filled_slots.count + Cardinality(FilledOwners)
IndexInv == prod_idx = (cons_idx + Backlog) % POOL_SIZE

\* What producer_fn puts in is the number of values before it, and what a writer
\* takes is what the slot at cons_idx holds.
ValueInv ==
  /\ module = "created" => produced_count = 0
  /\ pc[Producer] # "none" => value = produced_count
  /\ pc[Producer] = "advance" => buffer[prod_idx] = value
  /\ \A k \in Consumers : pc[k] = "advance" => consumed_value[k] = buffer[cons_idx]
  /\ \A k \in Consumers : pc[k] \in {"advance", "up"} => consumed_value[k] \in CInt

\* A report is begun and ended under buf_lock.
ReportInv ==
  /\ \A r \in Readers : pc[r] # "locked" => report[r] = NoReport
  /\ ReportConsistent

Story == CountInv /\ IndexInv /\ ValueInv /\ ReportInv

-----------------------------------------------------------------------------
(* Counting modulo *)

LEMMA ModWraps ==
  ASSUME NEW n \in Nat \ {0}, NEW a \in 0 .. n - 1
  PROVE  a % n = a /\ (a + n) % n = a /\ (a - n) % n = a
<1>1. a % n = a
  OBVIOUS
<1>2. (a + n) % n = a
  OBVIOUS
<1>3. (a - n) % n = a
  OBVIOUS
<1> QED
  BY <1>1, <1>2, <1>3

\* The slot i places behind slot s.
LEMMA SlotBehind ==
  ASSUME NEW s \in Slots, NEW i \in 0 .. POOL_SIZE
  PROVE  /\ (s + i) % POOL_SIZE \in Slots
         /\ (s + i) % POOL_SIZE = IF s + i < POOL_SIZE THEN s + i ELSE s + i - POOL_SIZE
<1>1. CASE s + i < POOL_SIZE
  BY <1>1, ModWraps DEF Slots
<1>2. CASE ~(s + i < POOL_SIZE)
  <2>1. s + i - POOL_SIZE \in 0 .. POOL_SIZE - 1
    BY <1>2 DEF Slots
  <2>2. ((s + i - POOL_SIZE) + POOL_SIZE) % POOL_SIZE = s + i - POOL_SIZE
    BY <2>1, ModWraps
  <2>3. (s + i - POOL_SIZE) + POOL_SIZE = s + i
    BY DEF Slots
  <2> QED
    BY <1>2, <2>1, <2>2, <2>3 DEF Slots
<1> QED
  BY <1>1, <1>2

\* Two places less than POOL_SIZE apart are two slots.
LEMMA SlotsDiffer ==
  ASSUME NEW s \in Slots, NEW i \in 0 .. POOL_SIZE - 1, NEW j \in 0 .. POOL_SIZE - 1, i # j
  PROVE  (s + i) % POOL_SIZE # (s + j) % POOL_SIZE
<1> DEFINE u == (s + i) % POOL_SIZE
           v == (s + j) % POOL_SIZE
<1>1. i \in 0 .. POOL_SIZE /\ j \in 0 .. POOL_SIZE
  OBVIOUS
<1>2. /\ u = IF s + i < POOL_SIZE THEN s + i ELSE s + i - POOL_SIZE
      /\ v = IF s + j < POOL_SIZE THEN s + j ELSE s + j - POOL_SIZE
  BY <1>1, SlotBehind
<1> HIDE DEF u, v
<1>3. u # v
  BY <1>2 DEF Slots
<1> QED
  BY <1>3 DEF u, v

\* One place further on, from the producer's end ...
LEMMA SlotAfter ==
  ASSUME NEW s \in Slots, NEW i \in 0 .. POOL_SIZE - 1
  PROVE  (((s + i) % POOL_SIZE) + 1) % POOL_SIZE = (s + (i + 1)) % POOL_SIZE
<1>1. i \in 0 .. POOL_SIZE /\ i + 1 \in 0 .. POOL_SIZE /\ 1 \in 0 .. POOL_SIZE
  OBVIOUS
<1> DEFINE u == (s + i) % POOL_SIZE
<1>2. u \in Slots /\ u = IF s + i < POOL_SIZE THEN s + i ELSE s + i - POOL_SIZE
  BY <1>1, SlotBehind
<1>3. (s + (i + 1)) % POOL_SIZE =
        IF s + (i + 1) < POOL_SIZE THEN s + (i + 1) ELSE s + (i + 1) - POOL_SIZE
  BY <1>1, SlotBehind
<1> HIDE DEF u
<1>4. (u + 1) % POOL_SIZE = IF u + 1 < POOL_SIZE THEN u + 1 ELSE u + 1 - POOL_SIZE
  BY <1>1, <1>2, SlotBehind
<1>5. (u + 1) % POOL_SIZE = (s + (i + 1)) % POOL_SIZE
  BY <1>2, <1>3, <1>4 DEF Slots
<1> QED
  BY <1>5 DEF u

\* ... and from the consumers'.
LEMMA SlotBefore ==
  ASSUME NEW s \in Slots, NEW i \in 1 .. POOL_SIZE
  PROVE  (((s + 1) % POOL_SIZE) + (i - 1)) % POOL_SIZE = (s + i) % POOL_SIZE
<1>1. i \in 0 .. POOL_SIZE /\ i - 1 \in 0 .. POOL_SIZE /\ 1 \in 0 .. POOL_SIZE
  OBVIOUS
<1> DEFINE u == (s + 1) % POOL_SIZE
<1>2. u \in Slots /\ u = IF s + 1 < POOL_SIZE THEN s + 1 ELSE s + 1 - POOL_SIZE
  BY <1>1, SlotBehind
<1>3. (s + i) % POOL_SIZE = IF s + i < POOL_SIZE THEN s + i ELSE s + i - POOL_SIZE
  BY <1>1, SlotBehind
<1> HIDE DEF u
<1>4. (u + (i - 1)) % POOL_SIZE =
        IF u + (i - 1) < POOL_SIZE THEN u + (i - 1) ELSE u + (i - 1) - POOL_SIZE
  BY <1>1, <1>2, SlotBehind
<1>5. (u + (i - 1)) % POOL_SIZE = (s + i) % POOL_SIZE
  BY <1>2, <1>3, <1>4 DEF Slots
<1> QED
  BY <1>5 DEF u

\* The difference of two counters that wrap.
LEMMA Difference ==
  ASSUME NEW p \in CInt, NEW q \in CInt
  PROVE  /\ (p - q) % IntModulus \in CInt
         /\ (p - q) % IntModulus = IF q <= p THEN p - q ELSE p - q + IntModulus
<1>1. CASE q <= p
  <2>1. p - q \in 0 .. IntModulus - 1
    BY <1>1 DEF CInt
  <2> QED
    BY <1>1, <2>1, ModWraps DEF CInt
<1>2. CASE ~(q <= p)
  <2>1. p - q + IntModulus \in 0 .. IntModulus - 1
    BY <1>2 DEF CInt
  <2>2. ((p - q + IntModulus) - IntModulus) % IntModulus = p - q + IntModulus
    BY <2>1, ModWraps
  <2>3. (p - q + IntModulus) - IntModulus = p - q
    BY DEF CInt
  <2> QED
    BY <1>2, <2>1, <2>2, <2>3 DEF CInt
<1> QED
  BY <1>1, <1>2

LEMMA CounterNext ==
  ASSUME NEW p \in CInt
  PROVE  /\ (p + 1) % IntModulus \in CInt
         /\ (p + 1) % IntModulus = IF p + 1 < IntModulus THEN p + 1 ELSE 0
<1>1. CASE p + 1 < IntModulus
  BY <1>1, ModWraps DEF CInt
<1>2. CASE ~(p + 1 < IntModulus)
  <2>1. p + 1 = 0 + IntModulus /\ 0 \in 0 .. IntModulus - 1
    BY <1>2 DEF CInt
  <2> QED
    BY <1>2, <2>1, ModWraps DEF CInt
<1> QED
  BY <1>1, <1>2

\* produced_count++ makes the difference one more, consumed_count++ one less.
LEMMA DifferenceNext ==
  ASSUME NEW p \in CInt, NEW q \in CInt,
         NEW p1, p1 = (p + 1) % IntModulus, NEW q1, q1 = (q + 1) % IntModulus
  PROVE  /\ (p - q) % IntModulus < IntModulus - 1
              => (p1 - q) % IntModulus = ((p - q) % IntModulus) + 1
         /\ (p - q) % IntModulus > 0
              => (p - q1) % IntModulus = ((p - q) % IntModulus) - 1
<1>1. /\ p1 \in CInt /\ p1 = IF p + 1 < IntModulus THEN p + 1 ELSE 0
      /\ q1 \in CInt /\ q1 = IF q + 1 < IntModulus THEN q + 1 ELSE 0
  BY CounterNext
<1>2. /\ (p - q) % IntModulus = IF q <= p THEN p - q ELSE p - q + IntModulus
      /\ (p1 - q) % IntModulus = IF q <= p1 THEN p1 - q ELSE p1 - q + IntModulus
      /\ (p - q1) % IntModulus = IF q1 <= p THEN p - q1 ELSE p - q1 + IntModulus
  BY <1>1, Difference
<1>3. (p - q) % IntModulus < IntModulus - 1 => (p1 - q) % IntModulus = ((p - q) % IntModulus) + 1
  BY <1>1, <1>2 DEF CInt
<1>4. (p - q) % IntModulus > 0 => (p - q1) % IntModulus = ((p - q) % IntModulus) - 1
  BY <1>1, <1>2 DEF CInt
<1> QED
  BY <1>3, <1>4

-----------------------------------------------------------------------------
(* The counts *)

LEMMA FilledFinite == IsFiniteSet(FilledOwners) /\ Cardinality(FilledOwners) \in Nat
<1>1. IsFiniteSet(Consumers \cup {Producer})
  BY FS_AddElement
<1> QED
  BY <1>1, FS_Subset, FS_CardinalityType DEF FilledOwners

LEMMA CountsTyped ==
  ASSUME TypeOK
  PROVE  /\ Backlog \in CInt /\ Backlog \in Nat
         /\ free_slots.count \in Nat /\ filled_slots.count \in Nat
BY Difference DEF TypeOK, Semaphores, Backlog, CInt

\* Conservation of slots, seen from both ends: the values waiting are at least
\* the filled units and at most what the free units leave, and whoever holds a
\* slot of one kind makes the bound strict.
LEMMA BacklogBounds ==
  ASSUME IInv, CountInv, module # "unloaded"
  PROVE  /\ Backlog \in 0 .. POOL_SIZE
         /\ filled_slots.count <= Backlog /\ free_slots.count <= POOL_SIZE - Backlog
         /\ pc[Producer] \in {"lock", "locked", "advance"} => Backlog < POOL_SIZE
         /\ \A t \in FilledOwners : Backlog > 0
<1>1. FilledOwners \subseteq SlotOwners
  BY SleepersAreWorkers DEF IInv, FilledOwners, SlotOwners, Asleep
<1>2. Cardinality(FilledOwners) <= Cardinality(SlotOwners)
  BY <1>1, OwnersFinite, FS_Subset
<1>3. free_slots.count + filled_slots.count + Cardinality(SlotOwners) = POOL_SIZE
  BY DEF IInv, SlotConservation
<1>4. /\ Backlog \in Nat /\ free_slots.count \in Nat /\ filled_slots.count \in Nat
      /\ Cardinality(FilledOwners) \in Nat /\ Cardinality(SlotOwners) \in Nat
      /\ Backlog = filled_slots.count + Cardinality(FilledOwners)
  BY CountsTyped, FilledFinite, OwnersFinite DEF IInv, CountInv
<1>5. pc[Producer] \in {"lock", "locked", "advance"} => Backlog < POOL_SIZE
  <2> SUFFICES ASSUME pc[Producer] \in {"lock", "locked", "advance"} PROVE Backlog < POOL_SIZE
    OBVIOUS
  <2>1. Producer \in SlotOwners /\ Producer \notin FilledOwners
    BY DEF SlotOwners, FilledOwners
  <2>2. FilledOwners \subseteq SlotOwners \ {Producer}
    BY <1>1, <2>1
  <2>3. /\ IsFiniteSet(SlotOwners \ {Producer})
        /\ Cardinality(SlotOwners \ {Producer}) = Cardinality(SlotOwners) - 1
    BY <2>1, OwnersFinite, FS_RemoveElement
  <2>4. Cardinality(FilledOwners) <= Cardinality(SlotOwners) - 1
    BY <2>2, <2>3, FS_Subset
  <2> QED
    BY <1>3, <1>4, <2>4
<1>6. \A t \in FilledOwners : Backlog > 0
  <2> SUFFICES ASSUME NEW t \in FilledOwners PROVE Backlog > 0
    OBVIOUS
  <2>1. Cardinality(FilledOwners) # 0
    BY FilledFinite, FS_EmptySet
  <2> QED
    BY <1>4, <2>1
<1> QED
  BY <1>2, <1>3, <1>4, <1>5, <1>6

\* A task moves, and the tasks asleep on the empty pool are the others they were.
LEMMA FilledElsewhere ==
  ASSUME TypeOK, NEW t \in Tasks, NEW p, pc' = [pc EXCEPT ![t] = p],
         Waiters(filled_slots)' \ {t} = Waiters(filled_slots) \ {t}
  PROVE  /\ FilledOwners' \ {t} = FilledOwners \ {t}
         /\ t \in FilledOwners' <=>
              /\ t \in Consumers \cup {Producer}
              /\ \/ t = Producer /\ p = "up"
                 \/ t # Producer /\ p \in {"lock", "locked", "advance"}
                 \/ t # Producer /\ p = "wait" /\ t \notin Waiters(filled_slots)'
<1>1. pc'[t] = p /\ \A u \in Tasks \ {t} : pc'[u] = pc[u]
  BY DEF TypeOK
<1>2. FilledOwners' \ {t} = FilledOwners \ {t}
  BY <1>1 DEF FilledOwners, Tasks
<1> QED
  BY <1>1, <1>2 DEF FilledOwners

-----------------------------------------------------------------------------
(* The steps *)

\* A step that moves one task in control only, and perhaps a unit of a semaphore.
LEMMA ControlRest ==
  ASSUME IInv, Story, NEW t \in Tasks, NEW p, pc' = [pc EXCEPT ![t] = p],
         p \notin {"advance", "up"},
         t = Producer /\ p # "none" => pc[Producer] # "none",
         module' = "created" => module = "created",
         UNCHANGED pool,
         \A k \in Consumers \ {t} : consumed_value'[k] = consumed_value[k],
         \A r \in Readers \ {t} : report'[r] = report[r],
         t \in Readers => report'[t] = NoReport
  PROVE  Backlog' = Backlog /\ IndexInv' /\ ValueInv' /\ ReportInv'
<1> USE DEF Story
<1>1. pc'[t] = p /\ \A u \in Tasks \ {t} : pc'[u] = pc[u]
  BY DEF IInv, TypeOK
<1>2. /\ prod_idx' = prod_idx /\ cons_idx' = cons_idx /\ buffer' = buffer /\ value' = value
      /\ produced_count' = produced_count /\ consumed_count' = consumed_count
      /\ Backlog' = Backlog
  BY DEF pool, Backlog
<1>3. IndexInv'
  BY <1>2 DEF IndexInv
<1>4. ValueInv'
  BY <1>1, <1>2 DEF ValueInv, Tasks
<1>5. ReportInv'
  BY <1>1, <1>2 DEF ReportInv, ReportConsistent, NoReport, Tasks
<1> QED
  BY <1>2, <1>3, <1>4, <1>5

\* The same when the filled units and their owners are not concerned.
LEMMA ControlStory ==
  ASSUME IInv, Story, NEW t \in Tasks, NEW p, pc' = [pc EXCEPT ![t] = p],
         p \notin {"advance", "up"},
         t = Producer /\ p # "none" => pc[Producer] # "none",
         module' = "created" => module = "created",
         UNCHANGED pool,
         Waiters(filled_slots)' \ {t} = Waiters(filled_slots) \ {t},
         filled_slots.count' = filled_slots.count,
         t \in FilledOwners <=> t \in FilledOwners',
         \A k \in Consumers \ {t} : consumed_value'[k] = consumed_value[k],
         \A r \in Readers \ {t} : report'[r] = report[r],
         t \in Readers => report'[t] = NoReport
  PROVE  Story'
<1> USE DEF Story
<1>1. Backlog' = Backlog /\ IndexInv' /\ ValueInv' /\ ReportInv'
  BY ControlRest
<1>2. CountInv'
  <2>1. FilledOwners' \ {t} = FilledOwners \ {t}
    BY FilledElsewhere DEF IInv
  <2>2. FilledOwners' = FilledOwners
    BY <2>1
  <2> QED
    BY <1>1, <2>2 DEF CountInv
<1> QED
  BY <1>1, <1>2

\* insmod and rmmod: a new insmod starts from an empty pool.
LEMMA ModuleStory ==
  ASSUME IInv, Story, ModuleStep
  PROVE  Story'
<1> USE DEF Story
<1>0. TypeOK /\ Producer \in Tasks
  BY DEF IInv, Tasks
<1>1. CASE InitModule
  <2>1. /\ \A u \in Consumers \cup Readers : pc[u] = "idle"
        /\ pc[Producer] = "none" /\ pc' = pc /\ report' = report
    BY <1>1 DEF IInv, Lifecycle, InitModule
  <2>2. FilledOwners' = {}
    BY <2>1 DEF FilledOwners
  <2>3. Backlog' = 0
    <3>1. Backlog' = (0 - 0) % IntModulus
      BY <1>1 DEF InitModule, Backlog
    <3> QED
      BY <3>1
  <2>4. CountInv'
    BY <1>1, <2>2, <2>3, FS_EmptySet DEF InitModule, SemaInit, CountInv
  <2>5. IndexInv'
    BY <1>1, <2>3 DEF InitModule, IndexInv
  <2>6. ValueInv' /\ ReportInv'
    BY <1>1, <2>1 DEF InitModule, ValueInv, ReportInv, ReportConsistent, NoReport
  <2> QED
    BY <2>4, <2>5, <2>6
<1>2. CASE RunProducer
  <2>1. /\ module = "created" /\ module' = "live" /\ value' = 0 /\ produced_count = 0
        /\ pc[Producer] = "none" /\ pc' = [pc EXCEPT ![Producer] = "loop"]
        /\ UNCHANGED <<sems, buffer, prod_idx, cons_idx, produced_count, consumed_count,
                       consumed_value, report>>
    BY <1>2 DEF IInv, Lifecycle, RunProducer, ValueInv
  <2>2. pc'[Producer] = "loop" /\ \A u \in Tasks \ {Producer} : pc'[u] = pc[u]
    BY <1>0, <2>1 DEF TypeOK
  <2>3. FilledOwners' = FilledOwners
    BY <2>1, <2>2 DEF FilledOwners, Tasks, sems
  <2>4. CountInv' /\ IndexInv'
    BY <2>1, <2>3 DEF CountInv, IndexInv, Backlog, sems
  <2>5. ValueInv' /\ ReportInv'
    BY <2>1, <2>2 DEF ValueInv, ReportInv, ReportConsistent, Tasks, Backlog
  <2> QED
    BY <2>4, <2>5
<1>3. CASE RunProducerFails \/ ExitModule \/ ProcRemoved
  <2>1. /\ UNCHANGED <<sems, pool, pc, consumed_value, report>> /\ module' # "created"
    BY <1>3 DEF RunProducerFails, ExitModule, ProcRemoved
  <2>2. FilledOwners' = FilledOwners /\ Backlog' = Backlog
    BY <2>1 DEF FilledOwners, Backlog, sems, pool
  <2> QED
    BY <2>1, <2>2 DEF CountInv, IndexInv, ValueInv, ReportInv, ReportConsistent, sems, pool
<1>4. CASE ProducerStopped
  <2> DEFINE p == "none"
  <2>1. /\ pc[Producer] = "done" /\ pc' = [pc EXCEPT ![Producer] = p]
        /\ module' = "removing" /\ UNCHANGED <<sems, pool, consumed_value, report>>
    BY <1>4 DEF ProducerStopped
  <2>2. filled_slots' = filled_slots /\ Producer \notin Readers
    BY <2>1 DEF sems
  <2>3. Producer \notin FilledOwners /\ Producer \notin FilledOwners'
    BY <1>0, <2>1 DEF FilledOwners, TypeOK
  <2>4. /\ Waiters(filled_slots)' \ {Producer} = Waiters(filled_slots) \ {Producer}
        /\ filled_slots.count' = filled_slots.count
        /\ Producer \in FilledOwners <=> Producer \in FilledOwners'
        /\ \A k \in Consumers \ {Producer} : consumed_value'[k] = consumed_value[k]
        /\ \A r \in Readers \ {Producer} : report'[r] = report[r]
    BY <2>1, <2>2, <2>3
  <2>5. /\ p \notin {"advance", "up"} /\ ~(Producer = Producer /\ p # "none")
        /\ ~(module' = "created") /\ UNCHANGED pool
    BY <2>1
  <2> HIDE DEF p
  <2> QED
    BY <1>0, <2>1, <2>2, <2>4, <2>5, ControlStory
<1> QED
  BY <1>1, <1>2, <1>3, <1>4 DEF ModuleStep

\* The lock, the loop of producer_fn, the beginnings and the ends of calls.
LEMMA PlainStory ==
  ASSUME IInv, Story,
         \/ CheckStop \/ Wake(Producer, free_slots) \/ ProducerInterrupted
         \/ \E t \in Tasks : LockBuffer(t)
         \/ \E c \in Consumers : BeginWrite(c) \/ Wake(c, filled_slots) \/ Interrupt(c) \/ UpFree(c)
         \/ \E r \in Readers : BeginRead(r) \/ EndRead(r)
  PROVE  Story'
<1>1. PICK t \in Tasks :
        \/ t = Producer /\ (CheckStop \/ Wake(Producer, free_slots) \/ ProducerInterrupted)
        \/ LockBuffer(t)
        \/ t \in Consumers /\ (BeginWrite(t) \/ Wake(t, filled_slots) \/ Interrupt(t) \/ UpFree(t))
        \/ t \in Readers /\ (BeginRead(t) \/ EndRead(t))
  BY DEF Tasks
<1>2. PICK p \in {"done", "down", "lock", "locked", "idle"} : pc' = [pc EXCEPT ![t] = p]
  BY <1>1 DEF ProducerInterrupted, CheckStop, Wake, LockBuffer, BeginWrite,
     Interrupt, UpFree, BeginRead, EndRead
<1>3. UNCHANGED <<module, pool>>
  BY <1>1 DEF ProducerInterrupted, CheckStop, Wake, LockBuffer, BeginWrite,
     Interrupt, UpFree, BeginRead, EndRead
<1>4. /\ Waiters(filled_slots)' \ {t} = Waiters(filled_slots) \ {t}
      /\ filled_slots.count' = filled_slots.count
  <2>1. CASE t \in Consumers /\ Interrupt(t)
    BY <2>1, GiveUpProperties DEF Interrupt, IInv, TypeOK, SleepersWait
  <2>2. CASE ~(t \in Consumers /\ Interrupt(t))
    <3>1. filled_slots' = filled_slots
      BY <1>1, <2>2 DEF ProducerInterrupted, CheckStop, Wake, LockBuffer, BeginWrite, UpFree, BeginRead, EndRead, sems
    <3> QED
      BY <3>1
  <2> QED
    BY <2>1, <2>2
<1>5. t \in FilledOwners <=> t \in FilledOwners'
  <2>1. pc'[t] = p
    BY <1>2 DEF IInv, TypeOK
  <2>2. t = Producer => p # "up" /\ pc[t] # "up"
    BY <1>1, <1>2, <2>1 DEF ProducerInterrupted, CheckStop, Wake, LockBuffer, IInv, TypeOK, Tasks
  <2>3. CASE t \in Readers
    BY <2>3 DEF FilledOwners
  <2>4. CASE t = Producer
    BY <2>1, <2>2, <2>4 DEF FilledOwners
  <2>5. CASE t \in Consumers
    BY <1>1, <2>1, <2>5 DEF FilledOwners, ProducerInterrupted, CheckStop, Wake, LockBuffer, BeginWrite, Interrupt, UpFree,
       BeginRead, EndRead, IInv, TypeOK
  <2> QED
    BY <2>3, <2>4, <2>5 DEF Tasks
<1>6. /\ \A k \in Consumers \ {t} : consumed_value'[k] = consumed_value[k]
      /\ \A r \in Readers \ {t} : report'[r] = report[r]
      /\ t \in Readers => report'[t] = NoReport
  <2>1. /\ consumed_value \in [Consumers -> Locals]
        /\ report \in [Readers -> [free : Nat \cup {Nobody}, filled : Nat \cup {Nobody}]]
        /\ \A r \in Readers : pc[r] # "locked" => report[r] = NoReport
    BY DEF IInv, TypeOK, Story, ReportInv
  <2> QED
    BY <1>1, <2>1 DEF ProducerInterrupted, CheckStop, Wake, LockBuffer, BeginWrite,
     Interrupt, UpFree, BeginRead, EndRead
<1>7. t = Producer /\ p # "none" => pc[Producer] # "none"
  BY <1>1 DEF ProducerInterrupted, CheckStop, Wake, LockBuffer
<1> QED
  BY <1>2, <1>3, <1>4, <1>5, <1>6, <1>7, ControlStory


\* down_interruptible(&free_slots): the filled slots are not concerned.
LEMMA DownFreeStory ==
  ASSUME IInv, Story, DownFree
  PROVE  Story'
<1>1. PICK p \in {"lock", "wait"} : pc' = [pc EXCEPT ![Producer] = p]
  BY DEF DownFree
<1>2. /\ pc[Producer] = "down" /\ Producer \in Tasks /\ Producer \notin Readers
      /\ UNCHANGED <<module, pool>> /\ filled_slots' = filled_slots
      /\ consumed_value' = consumed_value /\ report' = report
  BY DEF DownFree, Tasks
<1>3. pc'[Producer] = p
  BY <1>1, <1>2 DEF IInv, TypeOK
<1>4. /\ Waiters(filled_slots)' \ {Producer} = Waiters(filled_slots) \ {Producer}
      /\ filled_slots.count' = filled_slots.count
      /\ Producer \in FilledOwners <=> Producer \in FilledOwners'
      /\ \A k \in Consumers \ {Producer} : consumed_value'[k] = consumed_value[k]
      /\ \A r \in Readers \ {Producer} : report'[r] = report[r]
  BY <1>2, <1>3 DEF FilledOwners
<1> QED
  BY <1>1, <1>2, <1>4, ControlStory

\* buffer[prod_idx] = value: whoever reads the slot at cons_idx is not between
\* reading it and unlocking.
LEMMA FillStory ==
  ASSUME IInv, Story, FillSlot
  PROVE  Story'
<1> USE DEF Story
<1>1. /\ pc[Producer] = "locked" /\ Producer \in Tasks
      /\ pc' = [pc EXCEPT ![Producer] = "advance"]
      /\ buffer' = [buffer EXCEPT ![prod_idx] = value]
      /\ UNCHANGED <<module, filled_slots, prod_idx, cons_idx, produced_count, consumed_count,
                     value, consumed_value, report>>
  BY DEF FillSlot, Tasks, sems
<1>2. pc'[Producer] = "advance" /\ \A u \in Tasks \ {Producer} : pc'[u] = pc[u]
  BY <1>1 DEF IInv, TypeOK
<1>3. \A k \in Consumers : pc[k] # "advance" /\ pc'[k] = pc[k]
  BY <1>1, <1>2 DEF IInv, LockOwner, Tasks
<1>4. FilledOwners' = FilledOwners
  BY <1>1, <1>2 DEF FilledOwners, Tasks
<1>5. CountInv' /\ IndexInv'
  BY <1>1, <1>4 DEF CountInv, IndexInv, Backlog
<1>6. buffer'[prod_idx] = value
  BY <1>1 DEF IInv, TypeOK
<1>7. ValueInv'
  BY <1>1, <1>2, <1>3, <1>6 DEF ValueInv
<1>8. ReportInv'
  BY <1>1, <1>2 DEF ReportInv, ReportConsistent, Backlog, Tasks
<1> QED
  BY <1>5, <1>7, <1>8

\* Whoever advances an index holds buf_lock, so that no reader is between its
\* two counts.
LEMMA NoReader ==
  ASSUME IInv, ReportInv, NEW t \in Consumers \cup {Producer}, pc[t] = "advance"
  PROVE  \A r \in Readers : pc[r] # "locked" /\ report[r] = NoReport
BY DEF IInv, LockOwner, ReportInv, Tasks

\* prod_idx and produced_count go on: one value more, in the producer's hands.
LEMMA AdvanceProducerStory ==
  ASSUME IInv, Story, AdvanceProducer
  PROVE  /\ Story'
         /\ Backlog < POOL_SIZE /\ Backlog' = Backlog + 1
<1> USE DEF Story
<1>1. /\ pc[Producer] = "advance" /\ Producer \in Tasks
      /\ pc' = [pc EXCEPT ![Producer] = "up"]
      /\ prod_idx' = (prod_idx + 1) % POOL_SIZE
      /\ produced_count' = (produced_count + 1) % IntModulus
      /\ value' = (value + 1) % IntModulus
      /\ UNCHANGED <<module, filled_slots, buffer, cons_idx, consumed_count, consumed_value, report>>
  BY DEF AdvanceProducer, Tasks, sems
<1>2. pc'[Producer] = "up" /\ \A u \in Tasks \ {Producer} : pc'[u] = pc[u]
  BY <1>1 DEF IInv, TypeOK
<1>3. module # "unloaded" /\ module # "created"
  BY <1>1 DEF IInv, Lifecycle
<1>4. Backlog \in 0 .. POOL_SIZE - 1 /\ Backlog < POOL_SIZE
  <2>1. Backlog \in 0 .. POOL_SIZE /\ Backlog < POOL_SIZE
    BY <1>1, <1>3, BacklogBounds
  <2> QED
    BY <2>1
<1>5. Backlog' = Backlog + 1
  <2>1. produced_count \in CInt /\ consumed_count \in CInt
    BY DEF IInv, TypeOK
  <2>2. (produced_count - consumed_count) % IntModulus < IntModulus - 1
          => (produced_count' - consumed_count) % IntModulus
               = ((produced_count - consumed_count) % IntModulus) + 1
    BY <1>1, <2>1, DifferenceNext
  <2>3. Backlog < IntModulus - 1
    BY <1>4
  <2> QED
    BY <1>1, <2>2, <2>3 DEF Backlog
<1>6. CountInv'
  <2>1. FilledOwners' \ {Producer} = FilledOwners \ {Producer}
    BY <1>1, <1>2 DEF FilledOwners, Tasks
  <2>2. Producer \in FilledOwners' /\ Producer \notin FilledOwners
    BY <1>1, <1>2 DEF FilledOwners
  <2>3. FilledOwners' = FilledOwners \cup {Producer}
    BY <2>1, <2>2
  <2>4. Cardinality(FilledOwners') = Cardinality(FilledOwners) + 1
    BY <2>2, <2>3, FilledFinite, FS_AddElement
  <2>5. filled_slots.count \in Nat /\ Cardinality(FilledOwners) \in Nat
    BY CountsTyped, FilledFinite DEF IInv
  <2> QED
    BY <1>1, <1>5, <2>4, <2>5 DEF CountInv
<1>7. IndexInv'
  <2>1. cons_idx \in Slots
    BY DEF IInv, TypeOK
  <2>2. (((cons_idx + Backlog) % POOL_SIZE) + 1) % POOL_SIZE = (cons_idx + (Backlog + 1)) % POOL_SIZE
    BY <1>4, <2>1, SlotAfter
  <2> QED
    BY <1>1, <1>5, <2>2 DEF IndexInv
<1>8. ValueInv'
  <2>1. \A k \in Consumers : pc[k] # "advance" /\ pc'[k] = pc[k]
    BY <1>1, <1>2 DEF IInv, LockOwner, Tasks
  <2>2. value' = produced_count'
    BY <1>1 DEF ValueInv
  <2> QED
    BY <1>1, <1>2, <1>3, <2>1, <2>2 DEF ValueInv
<1>9. ReportInv'
  <2>1. \A r \in Readers : report[r] = NoReport
    BY <1>1, NoReader
  <2> QED
    BY <1>1, <2>1 DEF ReportInv, ReportConsistent, NoReport
<1> QED
  BY <1>4, <1>5, <1>6, <1>7, <1>8, <1>9

\* cons_idx and consumed_count go on: the oldest value leaves, with its owner.
LEMMA AdvanceConsumerStory ==
  ASSUME IInv, Story, NEW c \in Consumers, AdvanceConsumer(c)
  PROVE  /\ Story'
         /\ Backlog \in 1 .. POOL_SIZE /\ Backlog' = Backlog - 1
<1> USE DEF Story
<1>1. /\ pc[c] = "advance" /\ c \in Tasks /\ c # Producer
      /\ pc' = [pc EXCEPT ![c] = "up"]
      /\ cons_idx' = (cons_idx + 1) % POOL_SIZE
      /\ consumed_count' = (consumed_count + 1) % IntModulus
      /\ UNCHANGED <<module, filled_slots, buffer, prod_idx, produced_count, value,
                     consumed_value, report>>
  BY DEF AdvanceConsumer, Tasks, sems
<1>2. pc'[c] = "up" /\ \A u \in Tasks \ {c} : pc'[u] = pc[u]
  BY <1>1 DEF IInv, TypeOK
<1>3. module # "unloaded"
  BY <1>1 DEF IInv, Lifecycle
<1>4. c \in FilledOwners
  BY <1>1 DEF FilledOwners
<1>5. Backlog \in 1 .. POOL_SIZE
  <2>1. Backlog \in 0 .. POOL_SIZE /\ Backlog > 0
    BY <1>3, <1>4, BacklogBounds
  <2> QED
    BY <2>1
<1>6. Backlog' = Backlog - 1
  <2>1. produced_count \in CInt /\ consumed_count \in CInt
    BY DEF IInv, TypeOK
  <2>2. (produced_count - consumed_count) % IntModulus > 0
          => (produced_count - consumed_count') % IntModulus
               = ((produced_count - consumed_count) % IntModulus) - 1
    BY <1>1, <2>1, DifferenceNext
  <2>3. Backlog > 0
    BY <1>5
  <2> QED
    BY <1>1, <2>2, <2>3 DEF Backlog
<1>7. CountInv'
  <2>1. FilledOwners' \ {c} = FilledOwners \ {c}
    BY <1>1, <1>2 DEF FilledOwners, Tasks
  <2>2. c \notin FilledOwners'
    BY <1>1, <1>2 DEF FilledOwners
  <2>3. FilledOwners' = FilledOwners \ {c}
    BY <2>1, <2>2
  <2>4. Cardinality(FilledOwners') = Cardinality(FilledOwners) - 1
    BY <1>4, <2>3, FilledFinite, FS_RemoveElement
  <2>5. filled_slots.count \in Nat /\ Cardinality(FilledOwners) \in Nat
    BY CountsTyped, FilledFinite DEF IInv
  <2> QED
    BY <1>1, <1>6, <2>4, <2>5 DEF CountInv
<1>8. IndexInv'
  <2>1. cons_idx \in Slots
    BY DEF IInv, TypeOK
  <2>2. (((cons_idx + 1) % POOL_SIZE) + (Backlog - 1)) % POOL_SIZE = (cons_idx + Backlog) % POOL_SIZE
    BY <1>5, <2>1, SlotBefore
  <2> QED
    BY <1>1, <1>6, <2>2 DEF IndexInv
<1>9. ValueInv'
  <2>1. pc[Producer] # "advance" /\ \A k \in Consumers \ {c} : pc[k] # "advance"
    BY <1>1 DEF IInv, LockOwner, Tasks
  <2>2. pc'[Producer] = pc[Producer] /\ \A k \in Consumers \ {c} : pc'[k] = pc[k]
    BY <1>1, <1>2 DEF Tasks
  <2> QED
    BY <1>1, <1>2, <2>1, <2>2 DEF ValueInv
<1>10. ReportInv'
  <2>1. \A r \in Readers : report[r] = NoReport
    BY <1>1, NoReader
  <2> QED
    BY <1>1, <2>1 DEF ReportInv, ReportConsistent, NoReport
<1> QED
  BY <1>5, <1>6, <1>7, <1>8, <1>9, <1>10

\* up(&filled_slots): the producer's slot becomes a filled unit, or the slot of
\* the oldest sleeper.
LEMMA UpFilledStory ==
  ASSUME IInv, Story, UpFilled
  PROVE  Story'
<1> USE DEF Story
<1> DEFINE p == "loop"
<1>1. /\ pc[Producer] = "up" /\ Producer \in Tasks /\ Producer \notin Readers
      /\ pc' = [pc EXCEPT ![Producer] = p]
      /\ filled_slots' = Up(filled_slots)
      /\ UNCHANGED <<module, pool, consumed_value, report>>
  BY DEF UpFilled, Tasks
<1>2. /\ p \notin {"advance", "up"}
      /\ pc[Producer] # "none"
      /\ module' = "created" => module = "created"
      /\ \A k \in Consumers \ {Producer} : consumed_value'[k] = consumed_value[k]
      /\ \A r \in Readers \ {Producer} : report'[r] = report[r]
  BY <1>1
<1>3. pc'[Producer] = "loop" /\ \A u \in Tasks \ {Producer} : pc'[u] = pc[u]
  BY <1>1 DEF IInv, TypeOK
<1>4. Backlog' = Backlog /\ IndexInv' /\ ValueInv' /\ ReportInv'
  <2> HIDE DEF p
  <2> QED
    BY <1>1, <1>2, ControlRest
<1>5. /\ filled_slots \in Semaphores(Consumers) /\ Distinct(filled_slots)
      /\ filled_slots.count \in Nat
      /\ \A h \in Waiters(filled_slots) : h \in Consumers /\ pc[h] = "wait"
  BY SleepersAreWorkers, CountsTyped DEF IInv, TypeOK, SleepersWait, Asleep
<1>6. /\ Producer \in FilledOwners
      /\ Cardinality(FilledOwners) \in Nat
      /\ IsFiniteSet(FilledOwners \ {Producer})
      /\ Cardinality(FilledOwners \ {Producer}) = Cardinality(FilledOwners) - 1
  <2>1. Producer \in FilledOwners
    BY <1>1 DEF FilledOwners
  <2> QED
    BY <2>1, FilledFinite, FS_RemoveElement
<1>7. CASE filled_slots.wait_list = << >>
  <2>1. filled_slots'.count = filled_slots.count + 1 /\ filled_slots'.wait_list = filled_slots.wait_list
    BY <1>1, <1>5, <1>7, UpProperties
  <2>2. Waiters(filled_slots)' = Waiters(filled_slots)
    BY <2>1 DEF Waiters
  <2>3. FilledOwners' = FilledOwners \ {Producer}
    BY <1>3, <2>2 DEF FilledOwners, Tasks
  <2> QED
    BY <1>4, <1>5, <1>6, <2>1, <2>3 DEF CountInv
<1>8. CASE filled_slots.wait_list # << >>
  <2> DEFINE h == Head(filled_slots.wait_list)
  <2>1. /\ filled_slots'.count = filled_slots.count
        /\ h \in Waiters(filled_slots)
        /\ Waiters(filled_slots)' = Waiters(filled_slots) \ {h}
    BY <1>1, <1>5, <1>8, HandOffProperties
  <2> HIDE DEF h
  <2>2. h \in Consumers /\ pc[h] = "wait" /\ h # Producer
    BY <1>5, <2>1
  <2>3. FilledOwners' = (FilledOwners \ {Producer}) \cup {h}
    BY <1>3, <2>1, <2>2 DEF FilledOwners, Tasks
  <2>4. h \notin FilledOwners \ {Producer}
    BY <2>1, <2>2 DEF FilledOwners
  <2>5. Cardinality(FilledOwners') = Cardinality(FilledOwners \ {Producer}) + 1
    BY <1>6, <2>3, <2>4, FS_AddElement
  <2> QED
    BY <1>4, <1>5, <1>6, <2>1, <2>5 DEF CountInv
<1> QED
  BY <1>7, <1>8

\* down_interruptible(&filled_slots): a filled unit becomes the writer's slot, or
\* the writer sleeps.
LEMMA DownFilledStory ==
  ASSUME IInv, Story, NEW c \in Consumers, DownFilled(c)
  PROVE  Story'
<1> USE DEF Story
<1>1. PICK p \in {"lock", "wait"} :
        /\ pc' = [pc EXCEPT ![c] = p]
        /\ p = "lock" => filled_slots.count > 0 /\ filled_slots' = Take(filled_slots)
        /\ p = "wait" => filled_slots' = Sleep(filled_slots, c)
  BY DEF DownFilled
<1>2. /\ pc[c] = "down" /\ c \in Tasks /\ c \notin Readers /\ c # Producer
      /\ UNCHANGED <<module, pool, consumed_value, report>>
  BY DEF DownFilled, Tasks
<1>3. pc'[c] = p /\ \A u \in Tasks \ {c} : pc'[u] = pc[u]
  BY <1>1, <1>2 DEF IInv, TypeOK
<1>4. Backlog' = Backlog /\ IndexInv' /\ ValueInv' /\ ReportInv'
  <2>1. /\ \A k \in Consumers \ {c} : consumed_value'[k] = consumed_value[k]
        /\ \A r \in Readers \ {c} : report'[r] = report[r]
    BY <1>2
  <2> QED
    BY <1>1, <1>2, <2>1, ControlRest
<1>5. /\ filled_slots \in Semaphores(Consumers) /\ Distinct(filled_slots)
      /\ filled_slots.count \in Nat /\ c \notin Waiters(filled_slots)
  BY <1>2, CountsTyped DEF IInv, TypeOK, SleepersWait, Asleep
<1>6. c \notin FilledOwners
  BY <1>2 DEF FilledOwners
<1>7. CASE p = "lock"
  <2>1. /\ filled_slots'.count = filled_slots.count - 1
        /\ filled_slots'.wait_list = filled_slots.wait_list
    BY <1>1, <1>5, <1>7, TakeProperties
  <2>2. Waiters(filled_slots)' = Waiters(filled_slots)
    BY <2>1 DEF Waiters
  <2>3. FilledOwners' = FilledOwners \cup {c}
    BY <1>2, <1>3, <1>7, <2>2 DEF FilledOwners, Tasks
  <2>4. Cardinality(FilledOwners') = Cardinality(FilledOwners) + 1
    BY <1>6, <2>3, FilledFinite, FS_AddElement
  <2> QED
    BY <1>4, <1>5, <2>1, <2>4, FilledFinite DEF CountInv
<1>8. CASE p = "wait"
  <2>1. /\ filled_slots'.count = filled_slots.count
        /\ Waiters(filled_slots)' = Waiters(filled_slots) \cup {c}
    BY <1>1, <1>5, <1>8, SleepProperties
  <2>2. FilledOwners' = FilledOwners
    BY <1>2, <1>3, <1>6, <1>8, <2>1 DEF FilledOwners, Tasks
  <2> QED
    BY <1>4, <2>1, <2>2 DEF CountInv
<1> QED
  BY <1>1, <1>7, <1>8

\* The writer copies the oldest value.
LEMMA ReadSlotStory ==
  ASSUME IInv, Story, NEW c \in Consumers, ReadSlot(c)
  PROVE  Story'
<1> USE DEF Story
<1>1. /\ pc[c] = "locked" /\ c \in Tasks /\ c # Producer
      /\ pc' = [pc EXCEPT ![c] = "advance"]
      /\ consumed_value' = [consumed_value EXCEPT ![c] = buffer[cons_idx]]
      /\ UNCHANGED <<module, filled_slots, buffer, prod_idx, cons_idx, produced_count,
                     consumed_count, value, report>>
  BY DEF ReadSlot, Tasks, sems, pool
<1>2. pc'[c] = "advance" /\ \A u \in Tasks \ {c} : pc'[u] = pc[u]
  BY <1>1 DEF IInv, TypeOK
<1>3. FilledOwners' = FilledOwners
  BY <1>1, <1>2 DEF FilledOwners, Tasks
<1>4. CountInv' /\ IndexInv'
  BY <1>1, <1>3 DEF CountInv, IndexInv, Backlog
<1>5. /\ consumed_value'[c] = buffer[cons_idx] /\ buffer[cons_idx] \in CInt
      /\ \A k \in Consumers \ {c} : consumed_value'[k] = consumed_value[k]
  BY <1>1 DEF IInv, TypeOK
<1>6. ValueInv'
  <2>1. \A k \in Consumers \ {c} : pc'[k] = pc[k] /\ pc[k] # "advance"
    BY <1>1, <1>2 DEF IInv, LockOwner, Tasks
  <2>2. pc'[Producer] = pc[Producer]
    BY <1>1, <1>2 DEF Tasks
  <2> QED
    BY <1>1, <1>2, <1>5, <2>1, <2>2 DEF ValueInv
<1>7. ReportInv'
  BY <1>1, <1>2 DEF ReportInv, ReportConsistent, Backlog, Tasks
<1> QED
  BY <1>4, <1>6, <1>7

\* demo_proc_read: each count is within what the values waiting leave it.
LEMMA ReadCountStory ==
  ASSUME IInv, Story, NEW r \in Readers, ReadCount(r)
  PROVE  Story'
<1> USE DEF Story
<1>1. /\ pc[r] = "locked"
      /\ UNCHANGED <<module, sems, pool, pc, consumed_value>>
      /\ \/ report' = [report EXCEPT ![r].free = free_slots.count]
         \/ report' = [report EXCEPT ![r].filled = filled_slots.count]
  BY DEF ReadCount
<1>2. module # "unloaded"
  BY <1>1 DEF IInv, Lifecycle
<1>3. filled_slots.count <= Backlog /\ free_slots.count <= POOL_SIZE - Backlog
  BY <1>2, BacklogBounds
<1>4. FilledOwners' = FilledOwners /\ Backlog' = Backlog
  BY <1>1 DEF FilledOwners, Backlog, sems, pool
<1>5. CountInv' /\ IndexInv' /\ ValueInv'
  BY <1>1, <1>4 DEF CountInv, IndexInv, ValueInv, sems, pool
<1>6. ReportInv'
  <2>1. report \in [Readers -> [free : Nat \cup {Nobody}, filled : Nat \cup {Nobody}]]
    BY DEF IInv, TypeOK
  <2>2. /\ \A q \in Readers \ {r} : report'[q] = report[q]
        /\ \/ report'[r].free = free_slots.count /\ report'[r].filled = report[r].filled
           \/ report'[r].filled = filled_slots.count /\ report'[r].free = report[r].free
    BY <1>1, <2>1
  <2> QED
    BY <1>1, <1>3, <1>4, <2>2 DEF ReportInv, ReportConsistent
<1> QED
  BY <1>5, <1>6

LEMMA InitStory == Init => Story
<1> SUFFICES ASSUME Init PROVE Story
  OBVIOUS
<1>1. FilledOwners = {}
  BY DEF Init, FilledOwners, Tasks
<1>2. Backlog = 0
  <2>1. Backlog = (0 - 0) % IntModulus
    BY DEF Init, Backlog
  <2> QED
    BY <2>1
<1>3. CountInv
  BY <1>1, <1>2, FS_EmptySet DEF Init, SemaInit, CountInv
<1>4. IndexInv
  BY <1>2 DEF Init, IndexInv
<1>5. ValueInv
  BY DEF Init, ValueInv, Tasks
<1>6. ReportInv
  BY DEF Init, ReportInv, ReportConsistent, NoReport
<1> QED
  BY <1>3, <1>4, <1>5, <1>6 DEF Story

LEMMA NextStory ==
  ASSUME IInv, Story, [Next]_vars
  PROVE  Story'
<1>1. CASE ModuleStep
  BY <1>1, ModuleStory
<1>2. CASE \E t \in Tasks : LockBuffer(t)
  BY <1>2, PlainStory
<1>3. CASE ProducerStep
  BY <1>3, PlainStory, DownFreeStory, FillStory, AdvanceProducerStory, UpFilledStory DEF ProducerStep
<1>4. ASSUME NEW c \in Consumers, BeginWrite(c) \/ ConsumerStep(c) \/ Interrupt(c)
      PROVE  Story'
  BY <1>4, PlainStory, DownFilledStory, ReadSlotStory, AdvanceConsumerStory DEF ConsumerStep
<1>5. ASSUME NEW r \in Readers, BeginRead(r) \/ ReaderStep(r)
      PROVE  Story'
  BY <1>5, PlainStory, ReadCountStory DEF ReaderStep
<1>6. CASE UNCHANGED vars
  <2>1. FilledOwners' = FilledOwners /\ Backlog' = Backlog
    BY <1>6 DEF FilledOwners, Backlog, vars, sems, pool
  <2> QED
    BY <1>6, <2>1 DEF Story, CountInv, IndexInv, ValueInv, ReportInv, ReportConsistent, vars, sems, pool
<1> QED
  BY <1>1, <1>2, <1>3, <1>4, <1>5, <1>6 DEF Next

\* Semaphores, indices, counters and buffer agree in every state: the two counts are
\* the values that wait and the free slots, but for what a task holds.
THEOREM StoryHolds == Spec => []Story
<1>1. IInv /\ Story /\ [Next]_vars => Story'
  BY NextStory
<1> QED
  BY <1>1, InitStory, Invariance, PTL DEF Spec

\* What a read of /proc/sem_demo reports is consistent, although demo_proc_read takes
\* the two counts one after the other and up() does not wait for buf_lock.
THEOREM ReportTrue == Spec => []ReportConsistent
<1>1. Story => ReportConsistent
  BY DEF Story, ReportInv
<1> QED
  BY <1>1, StoryHolds, PTL

-----------------------------------------------------------------------------
(* The refinement of BoundedQueue *)

\* What the queue's variables queue and taken are here; next is produced_count.
Waiting == [i \in 1 .. Backlog |-> buffer[(cons_idx + i - 1) % POOL_SIZE]]
Held    == [c \in Consumers |-> IF pc[c] = "up" THEN consumed_value[c] ELSE Nobody]

LEMMA WaitingTyped ==
  ASSUME TypeOK
  PROVE  /\ Waiting \in Seq(CInt) /\ Len(Waiting) = Backlog
         /\ \A i \in 1 .. Backlog : Waiting[i] = buffer[(cons_idx + (i - 1)) % POOL_SIZE]
<1>1. Backlog \in Nat
  BY CountsTyped
<1>2. \A i \in 1 .. Backlog : buffer[(cons_idx + i - 1) % POOL_SIZE] \in CInt
  <2> TAKE i \in 1 .. Backlog
  <2>1. cons_idx + i - 1 \in Int
    BY <1>1 DEF TypeOK, Slots
  <2>2. (cons_idx + i - 1) % POOL_SIZE \in Slots
    BY <2>1 DEF Slots
  <2> QED
    BY <2>2 DEF TypeOK
<1>3. Waiting \in Seq(CInt) /\ Len(Waiting) = Backlog
  BY <1>1, <1>2, LenProperties DEF Waiting
<1>4. \A i \in 1 .. Backlog : Waiting[i] = buffer[(cons_idx + (i - 1)) % POOL_SIZE]
  <2> TAKE i \in 1 .. Backlog
  <2>1. cons_idx + i - 1 = cons_idx + (i - 1)
    BY <1>1 DEF TypeOK, Slots
  <2> QED
    BY <2>1 DEF Waiting
<1> QED
  BY <1>3, <1>4

LEMMA QueueVariables == Queue!vars = <<Waiting, produced_count, Held>>
BY DEF Queue!vars, Waiting, Held

LEMMA QueueStutters ==
  ASSUME UNCHANGED <<Waiting, produced_count, Held>>
  PROVE  UNCHANGED Queue!vars
BY DEF Queue!vars, Waiting, Held

LEMMA QueueProduces ==
  ASSUME Len(Waiting) < POOL_SIZE,
         Waiting' = Append(Waiting, produced_count),
         produced_count' = (produced_count + 1) % IntModulus,
         Held' = Held
  PROVE  Queue!Next
BY DEF Queue!Next, Queue!Produce, Waiting, Held

LEMMA QueueConsumes ==
  ASSUME NEW c \in Consumers, Waiting # << >>, Held[c] = Nobody,
         Held' = [Held EXCEPT ![c] = Head(Waiting)],
         Waiting' = Tail(Waiting),
         produced_count' = produced_count
  PROVE  Queue!Next
BY DEF Queue!Next, Queue!Consume, Waiting, Held

LEMMA QueueReturns ==
  ASSUME NEW c \in Consumers, Held[c] # Nobody,
         Held' = [Held EXCEPT ![c] = Nobody],
         Waiting' = Waiting, produced_count' = produced_count
  PROVE  Queue!Next
BY DEF Queue!Next, Queue!Return, Waiting, Held

LEMMA QueueReloads ==
  ASSUME Held = [c \in Consumers |-> Nobody], Held' = Held,
         Waiting' = << >>, produced_count' = 0
  PROVE  Queue!Next
BY DEF Queue!Next, Queue!Reload, Waiting, Held

\* Append and Tail, place by place.
LEMMA PlaceByPlace ==
  ASSUME NEW S, NEW w \in Seq(S), NEW e \in S
  PROVE  /\ Append(w, e) = [i \in 1 .. Len(w) + 1 |-> IF i = Len(w) + 1 THEN e ELSE w[i]]
         /\ w # << >> => Tail(w) = [i \in 1 .. Len(w) - 1 |-> w[i + 1]]
<1>1. Append(w, e) = [i \in 1 .. Len(w) + 1 |-> IF i = Len(w) + 1 THEN e ELSE w[i]]
  <2> DEFINE v == Append(w, e)
  <2>1. /\ v \in Seq(S) /\ Len(v) = Len(w) + 1 /\ v[Len(w) + 1] = e
        /\ \A i \in 1 .. Len(w) : v[i] = w[i]
        /\ Len(w) \in Nat
    BY AppendProperties, LenProperties
  <2>2. v \in [1 .. Len(w) + 1 -> S]
    BY <2>1, LenProperties
  <2> HIDE DEF v
  <2>3. v = [i \in 1 .. Len(w) + 1 |-> IF i = Len(w) + 1 THEN e ELSE w[i]]
    BY <2>1, <2>2
  <2> QED
    BY <2>3 DEF v
<1>2. ASSUME w # << >> PROVE Tail(w) = [i \in 1 .. Len(w) - 1 |-> w[i + 1]]
  <2> DEFINE v == Tail(w)
  <2>1. /\ v \in Seq(S) /\ Len(v) = Len(w) - 1
        /\ \A i \in 1 .. Len(v) : v[i] = w[i + 1]
    BY <1>2, HeadTailProperties
  <2>2. v \in [1 .. Len(w) - 1 -> S]
    BY <2>1, LenProperties
  <2> HIDE DEF v
  <2>3. v = [i \in 1 .. Len(w) - 1 |-> w[i + 1]]
    BY <2>1, <2>2
  <2> QED
    BY <2>3 DEF v
<1> QED
  BY <1>1, <1>2

\* FillSlot writes to a slot that holds none of the values that wait.
LEMMA FillMapped ==
  ASSUME IInv, Story, FillSlot
  PROVE  UNCHANGED <<Waiting, produced_count, Held>>
<1>1. /\ pc[Producer] = "locked" /\ Producer \in Tasks
      /\ pc' = [pc EXCEPT ![Producer] = "advance"]
      /\ buffer' = [buffer EXCEPT ![prod_idx] = value]
      /\ UNCHANGED <<cons_idx, produced_count, consumed_count, consumed_value>>
  BY DEF FillSlot, Tasks
<1>2. \A u \in Consumers : pc'[u] = pc[u]
  BY <1>1 DEF IInv, TypeOK, Tasks
<1>3. Held' = Held
  BY <1>1, <1>2 DEF Held
<1>4. Backlog \in 0 .. POOL_SIZE - 1 /\ Backlog' = Backlog
  <2>1. Backlog \in 0 .. POOL_SIZE /\ Backlog < POOL_SIZE
    BY <1>1, BacklogBounds DEF IInv, Lifecycle, Story
  <2> QED
    BY <1>1, <2>1 DEF Backlog
<1>5. \A i \in 1 .. Backlog : buffer'[(cons_idx + i - 1) % POOL_SIZE] = buffer[(cons_idx + i - 1) % POOL_SIZE]
  <2> TAKE i \in 1 .. Backlog
  <2>1. cons_idx \in Slots /\ i - 1 \in 0 .. POOL_SIZE - 1 /\ i - 1 # Backlog
    BY <1>4 DEF IInv, TypeOK
  <2>2. (cons_idx + (i - 1)) % POOL_SIZE # prod_idx
    BY <1>4, <2>1, SlotsDiffer DEF Story, IndexInv
  <2>3. cons_idx + (i - 1) = cons_idx + i - 1
    BY <1>4, <2>1 DEF Slots
  <2>4. (cons_idx + i - 1) % POOL_SIZE # prod_idx
    BY <2>2, <2>3
  <2> QED
    BY <1>1, <2>4 DEF IInv, TypeOK
<1>6. Waiting' = Waiting
  BY <1>1, <1>4, <1>5 DEF Waiting
<1> QED
  BY <1>1, <1>3, <1>6

\* AdvanceProducer makes the slot just filled the last of those that wait.
LEMMA ProduceMapped ==
  ASSUME IInv, Story, AdvanceProducer
  PROVE  Queue!Next
<1>1. /\ pc[Producer] = "advance" /\ Producer \in Tasks
      /\ pc' = [pc EXCEPT ![Producer] = "up"]
      /\ produced_count' = (produced_count + 1) % IntModulus
      /\ UNCHANGED <<buffer, cons_idx, consumed_value>>
  BY DEF AdvanceProducer, Tasks
<1>2. Held' = Held
  <2>1. \A u \in Consumers : pc'[u] = pc[u]
    BY <1>1 DEF IInv, TypeOK, Tasks
  <2> QED
    BY <1>1, <2>1 DEF Held
<1>3. Backlog \in Nat /\ Backlog < POOL_SIZE /\ Backlog' = Backlog + 1
  BY AdvanceProducerStory, CountsTyped DEF IInv
<1>4. TypeOK /\ Waiting \in Seq(CInt) /\ Len(Waiting) = Backlog
  BY WaitingTyped DEF IInv
<1>5. buffer[(cons_idx + (Backlog + 1) - 1) % POOL_SIZE] = produced_count
  <2>1. buffer[prod_idx] = produced_count
    BY <1>1 DEF Story, ValueInv
  <2>2. cons_idx + (Backlog + 1) - 1 = cons_idx + Backlog
    BY <1>3, <1>4 DEF TypeOK, Slots
  <2> QED
    BY <2>1, <2>2 DEF Story, IndexInv
<1>6. Waiting' = Append(Waiting, produced_count)
  <2>1. Waiting' = [i \in 1 .. Backlog + 1 |-> buffer[(cons_idx + i - 1) % POOL_SIZE]]
    BY <1>1, <1>3 DEF Waiting
  <2>2. Append(Waiting, produced_count)
          = [i \in 1 .. Backlog + 1 |-> IF i = Backlog + 1 THEN produced_count ELSE Waiting[i]]
    <3>1. produced_count \in CInt
      BY <1>4 DEF TypeOK
    <3> QED
      BY <1>4, <3>1, PlaceByPlace
  <2>3. \A i \in 1 .. Backlog + 1 :
          buffer[(cons_idx + i - 1) % POOL_SIZE] = IF i = Backlog + 1 THEN produced_count ELSE Waiting[i]
    <3> TAKE i \in 1 .. Backlog + 1
    <3>1. CASE i = Backlog + 1
      BY <1>5, <3>1
    <3>2. CASE i # Backlog + 1
      <4>1. i \in 1 .. Backlog
        BY <1>3, <3>2
      <4> QED
        BY <3>2, <4>1 DEF Waiting
    <3> QED
      BY <3>1, <3>2
  <2> QED
    BY <2>1, <2>2, <2>3
<1> QED
  BY <1>1, <1>2, <1>3, <1>4, <1>6, QueueProduces

\* AdvanceConsumer gives the writer the first of the values that wait.
LEMMA ConsumeMapped ==
  ASSUME IInv, Story, NEW c \in Consumers, AdvanceConsumer(c)
  PROVE  Queue!Next
<1>1. /\ pc[c] = "advance" /\ c \in Tasks
      /\ pc' = [pc EXCEPT ![c] = "up"]
      /\ cons_idx' = (cons_idx + 1) % POOL_SIZE
      /\ UNCHANGED <<buffer, produced_count, consumed_value>>
  BY DEF AdvanceConsumer, Tasks
<1>2. Backlog \in 1 .. POOL_SIZE /\ Backlog' = Backlog - 1
  BY AdvanceConsumerStory
<1>3. /\ TypeOK /\ Waiting \in Seq(CInt) /\ Len(Waiting) = Backlog /\ Waiting # << >>
      /\ cons_idx \in Slots
  BY <1>2, WaitingTyped DEF IInv, TypeOK
<1>4. Head(Waiting) = buffer[cons_idx]
  <2>1. Head(Waiting) = Waiting[1] /\ 1 \in 1 .. Backlog
    BY <1>2, <1>3
  <2>2. Waiting[1] = buffer[(cons_idx + (1 - 1)) % POOL_SIZE]
    BY <1>2, <1>3, WaitingTyped
  <2>3. (cons_idx + (1 - 1)) % POOL_SIZE = cons_idx
    <3>1. cons_idx + (1 - 1) = cons_idx /\ cons_idx % POOL_SIZE = cons_idx
      BY <1>3, ModWraps DEF Slots
    <3> QED
      BY <3>1
  <2> QED
    BY <2>1, <2>2, <2>3
<1>5. Held' = [Held EXCEPT ![c] = Head(Waiting)] /\ Held[c] = Nobody
  <2>1. consumed_value[c] = Head(Waiting)
    BY <1>1, <1>4 DEF Story, ValueInv
  <2>2. pc'[c] = "up" /\ \A u \in Consumers \ {c} : pc'[u] = pc[u]
    BY <1>1, <1>3 DEF TypeOK, Tasks
  <2> QED
    BY <1>1, <2>1, <2>2 DEF Held
<1>6. Waiting' = Tail(Waiting)
  <2>1. Waiting' = [i \in 1 .. Backlog - 1 |-> buffer[(cons_idx' + i - 1) % POOL_SIZE]]
    BY <1>1, <1>2 DEF Waiting
  <2>2. Tail(Waiting) = [i \in 1 .. Backlog - 1 |-> Waiting[i + 1]]
    <3>1. produced_count \in CInt
      BY <1>3 DEF TypeOK
    <3> QED
      BY <1>3, <3>1, PlaceByPlace
  <2>3. \A i \in 1 .. Backlog - 1 : buffer[(cons_idx' + i - 1) % POOL_SIZE] = Waiting[i + 1]
    <3> TAKE i \in 1 .. Backlog - 1
    <3>1. i + 1 \in 1 .. Backlog /\ i \in 1 .. POOL_SIZE /\ (i + 1) - 1 = i
      BY <1>2
    <3>2. Waiting[i + 1] = buffer[(cons_idx + i) % POOL_SIZE]
      <4>1. Waiting[i + 1] = buffer[(cons_idx + ((i + 1) - 1)) % POOL_SIZE]
        BY <1>3, <3>1, WaitingTyped
      <4> QED
        BY <3>1, <4>1
    <3>3. (((cons_idx + 1) % POOL_SIZE) + (i - 1)) % POOL_SIZE = (cons_idx + i) % POOL_SIZE
      BY <1>3, <3>1, SlotBefore
    <3>4. cons_idx' \in Int
      <4>1. cons_idx + 1 \in Int
        BY <1>3 DEF Slots
      <4> QED
        BY <1>1, <4>1
    <3>5. cons_idx' + i - 1 = cons_idx' + (i - 1)
      BY <3>1, <3>4
    <3> QED
      BY <1>1, <3>2, <3>3, <3>5
  <2> QED
    BY <2>1, <2>2, <2>3
<1> QED
  BY <1>1, <1>3, <1>5, <1>6, QueueConsumes

\* UpFree ends the write, and with it what the writer holds.
LEMMA ReturnMapped ==
  ASSUME IInv, Story, NEW c \in Consumers, UpFree(c)
  PROVE  Queue!Next
<1>1. /\ pc[c] = "up" /\ c \in Tasks
      /\ pc' = [pc EXCEPT ![c] = "idle"]
      /\ consumed_value' = [consumed_value EXCEPT ![c] = Nobody]
      /\ UNCHANGED <<buffer, cons_idx, produced_count, consumed_count>>
  BY DEF UpFree, Tasks, pool
<1>2. Waiting' = Waiting
  BY <1>1 DEF Waiting, Backlog
<1>3. Held[c] # Nobody
  <2>1. consumed_value[c] \in CInt
    BY <1>1 DEF Story, ValueInv
  <2>2. Nobody \notin Int
    OBVIOUS
  <2> QED
    BY <1>1, <2>1, <2>2 DEF Held, CInt
<1>4. Held' = [Held EXCEPT ![c] = Nobody]
  <2>1. /\ pc'[c] = "idle"
        /\ \A u \in Consumers \ {c} : pc'[u] = pc[u] /\ consumed_value'[u] = consumed_value[u]
    BY <1>1 DEF IInv, TypeOK, Tasks
  <2> QED
    BY <2>1 DEF Held
<1> QED
  BY <1>1, <1>2, <1>3, <1>4, QueueReturns

\* insmod starts again from an empty queue and from 0.
LEMMA ReloadMapped ==
  ASSUME IInv, Story, InitModule
  PROVE  Queue!Next
<1>1. /\ produced_count' = 0 /\ consumed_count' = 0
      /\ pc' = pc /\ \A u \in Consumers : pc[u] = "idle"
  BY DEF InitModule, IInv, Lifecycle
<1>2. Held = [c \in Consumers |-> Nobody] /\ Held' = Held
  BY <1>1 DEF Held
<1>3. Waiting' = << >>
  <2>1. Backlog' = (0 - 0) % IntModulus
    BY <1>1 DEF Backlog
  <2>2. Backlog' = 0
    BY <2>1
  <2> QED
    BY <2>2 DEF Waiting
<1> QED
  BY <1>1, <1>2, <1>3, QueueReloads

\* Every other step leaves the queue alone: it moves one task that neither takes
\* nor returns a value, or none.
LEMMA ControlMapped ==
  ASSUME IInv, NEW t \in Tasks, NEW p, pc' = [pc EXCEPT ![t] = p],
         t \in Consumers => p # "up" /\ pc[t] # "up",
         UNCHANGED <<buffer, cons_idx, produced_count, consumed_count>>,
         \A k \in Consumers \ {t} : consumed_value'[k] = consumed_value[k]
  PROVE  UNCHANGED <<Waiting, produced_count, Held>>
<1>1. pc'[t] = p /\ \A u \in Tasks \ {t} : pc'[u] = pc[u]
  BY DEF IInv, TypeOK
<1>2. Waiting' = Waiting
  BY DEF Waiting, Backlog
<1>3. Held' = Held
  <2>1. \A k \in Consumers :
          (IF pc'[k] = "up" THEN consumed_value'[k] ELSE Nobody)
            = (IF pc[k] = "up" THEN consumed_value[k] ELSE Nobody)
    BY <1>1 DEF Tasks
  <2> QED
    BY <2>1 DEF Held
<1> QED
  BY <1>2, <1>3

LEMMA StepMapped ==
  ASSUME IInv, Story, [Next]_vars
  PROVE  [Queue!Next]_(Queue!vars)
<1>1. CASE UNCHANGED vars
  BY <1>1, QueueStutters DEF vars, pool, Waiting, Held, Backlog
<1>2. CASE InitModule
  BY <1>2, ReloadMapped
<1>3. CASE ModuleStep /\ ~InitModule
  <2>1. /\ UNCHANGED <<buffer, cons_idx, produced_count, consumed_count, consumed_value>>
        /\ \A k \in Consumers : pc'[k] = pc[k]
    BY <1>3 DEF ModuleStep, RunProducer, RunProducerFails, ExitModule, ProducerStopped, ProcRemoved,
       pool, IInv, TypeOK, Tasks
  <2>2. Waiting' = Waiting /\ Held' = Held /\ produced_count' = produced_count
    BY <2>1 DEF Waiting, Held, Backlog
  <2> QED
    BY <2>2, QueueStutters
<1>4. ASSUME NEW t \in Tasks, LockBuffer(t)
      PROVE  [Queue!Next]_(Queue!vars)
  <2>1. /\ pc[t] = "lock" /\ pc' = [pc EXCEPT ![t] = "locked"]
        /\ UNCHANGED <<buffer, cons_idx, produced_count, consumed_count, consumed_value>>
    BY <1>4 DEF LockBuffer, pool
  <2>2. UNCHANGED <<Waiting, produced_count, Held>>
    BY <2>1, ControlMapped
  <2> QED
    BY <2>2, QueueStutters
<1>5. CASE \/ CheckStop \/ DownFree \/ UpFilled
          \/ Wake(Producer, free_slots) \/ ProducerInterrupted
  <2>1. PICK p : pc' = [pc EXCEPT ![Producer] = p]
    BY <1>5 DEF CheckStop, DownFree, Wake, ProducerInterrupted, UpFilled
  <2>2. /\ Producer \in Tasks /\ Producer \notin Consumers
        /\ UNCHANGED <<buffer, cons_idx, produced_count, consumed_count, consumed_value>>
    BY <1>5 DEF CheckStop, DownFree, Wake, ProducerInterrupted, UpFilled, pool, Tasks
  <2>3. UNCHANGED <<Waiting, produced_count, Held>>
    BY <2>1, <2>2, ControlMapped
  <2> QED
    BY <2>3, QueueStutters
<1>6. CASE FillSlot
  BY <1>6, FillMapped, QueueStutters
<1>7. CASE AdvanceProducer
  BY <1>7, ProduceMapped
<1>8. ASSUME NEW c \in Consumers,
             BeginWrite(c) \/ DownFilled(c) \/ Wake(c, filled_slots) \/ ReadSlot(c) \/ Interrupt(c)
      PROVE  [Queue!Next]_(Queue!vars)
  <2>1. PICK p \in {"down", "lock", "wait", "advance", "idle"} : pc' = [pc EXCEPT ![c] = p]
    BY <1>8 DEF BeginWrite, DownFilled, Wake, ReadSlot, Interrupt
  <2>2. /\ c \in Tasks /\ pc[c] # "up"
        /\ UNCHANGED <<buffer, cons_idx, produced_count, consumed_count>>
    BY <1>8 DEF BeginWrite, DownFilled, Wake, ReadSlot, Interrupt, pool, Tasks
  <2>3. \A k \in Consumers \ {c} : consumed_value'[k] = consumed_value[k]
    BY <1>8 DEF BeginWrite, DownFilled, Wake, ReadSlot, Interrupt, IInv, TypeOK
  <2>4. UNCHANGED <<Waiting, produced_count, Held>>
    BY <2>1, <2>2, <2>3, ControlMapped
  <2> QED
    BY <2>4, QueueStutters
<1>9. ASSUME NEW c \in Consumers, AdvanceConsumer(c) \/ UpFree(c)
      PROVE  [Queue!Next]_(Queue!vars)
  BY <1>9, ConsumeMapped, ReturnMapped
<1>10. ASSUME NEW r \in Readers, BeginRead(r) \/ ReaderStep(r)
       PROVE  [Queue!Next]_(Queue!vars)
  <2>1. /\ UNCHANGED <<buffer, cons_idx, produced_count, consumed_count, consumed_value>>
        /\ \A k \in Consumers : pc'[k] = pc[k]
    BY <1>10 DEF BeginRead, ReaderStep, ReadCount, EndRead, pool, IInv, TypeOK, Tasks
  <2>2. Waiting' = Waiting /\ Held' = Held /\ produced_count' = produced_count
    BY <2>1 DEF Waiting, Held, Backlog
  <2> QED
    BY <2>2, QueueStutters
<1> QED
  BY <1>1, <1>2, <1>3, <1>4, <1>5, <1>6, <1>7, <1>8, <1>9, <1>10 DEF Next, ProducerStep, ConsumerStep

LEMMA InitMapped == Init => Queue!Init
<1> SUFFICES ASSUME Init PROVE Queue!Init
  OBVIOUS
<1>1. Backlog = 0
  <2>1. Backlog = (0 - 0) % IntModulus
    BY DEF Init, Backlog
  <2> QED
    BY <2>1
<1>2. Waiting = << >>
  BY <1>1 DEF Waiting
<1>3. Held = [c \in Consumers |-> Nobody]
  BY DEF Init, Held, Tasks
<1> QED
  BY <1>2, <1>3 DEF Init, Queue!Init, Waiting, Held

\* The pool of slots, two semaphores and a mutex is a FIFO of POOL_SIZE values:
\* demo_proc_write always gets the oldest value that nobody else got, and
\* producer_fn never fills a slot that was not drained.
THEOREM PoolRefinesQueue == Spec => PoolIsQueue
<1>1. IInv /\ Story /\ [Next]_vars => [Queue!Next]_(Queue!vars)
  BY StepMapped
<1> QED
  BY <1>1, InitMapped, StoryHolds, Invariance, PTL DEF Spec, PoolIsQueue, Queue!Spec
=============================================================================
