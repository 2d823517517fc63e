---------------------------- MODULE SemDemoProofs ----------------------------
(***************************************************************************)
(* The pool of sem_demo.c for every POOL_SIZE, every width of int and      *)
(* every finite set of writers and readers: its types, the ownership of    *)
(* buf_lock and the conservation of slots.  The lemmas about a semaphore,  *)
(* of any set of tasks, come first.                                        *)
(***************************************************************************)
EXTENDS SemDemo, SequenceTheorems, FiniteSetTheorems, TLAPS

-----------------------------------------------------------------------------
(* What each operation on a semaphore does to its count and to the set of  *)
(* its sleepers, provided that no task sleeps on it twice.                 *)

\* No task is in the list twice.
Distinct(s) == IsInjective(s.wait_list)

\* down_interruptible that does not sleep costs one unit and no more.
LEMMA TakeProperties ==
  ASSUME NEW T, NEW s \in Semaphores(T), s.count > 0
  PROVE  /\ Take(s) \in Semaphores(T)
         /\ Take(s).count = s.count - 1
         /\ Take(s).wait_list = s.wait_list
BY DEF Take, Semaphores

\* down_interruptible that sleeps adds the task to the sleepers.
LEMMA SleepProperties ==
  ASSUME NEW T, NEW s \in Semaphores(T), NEW t \in T, t \notin Waiters(s), Distinct(s)
  PROVE  /\ Sleep(s, t) \in Semaphores(T)
         /\ Sleep(s, t).count = s.count
         /\ Waiters(Sleep(s, t)) = Waiters(s) \cup {t}
         /\ Distinct(Sleep(s, t))
<1> DEFINE w == s.wait_list
           v == Append(w, t)
<1>1. w \in Seq(T) /\ s.count \in Nat
  BY DEF Semaphores
<1>2. /\ v \in Seq(T)
      /\ Len(v) = Len(w) + 1
      /\ v[Len(w) + 1] = t
      /\ \A i \in 1 .. Len(w) : v[i] = w[i]
      /\ DOMAIN v = 1 .. Len(w) + 1
      /\ DOMAIN w = 1 .. Len(w)
      /\ Len(w) \in Nat
  BY <1>1, AppendProperties, LenProperties
<1>3. Sleep(s, t) = [s EXCEPT !.wait_list = v]
  BY DEF Sleep
<1>4. /\ Sleep(s, t) \in Semaphores(T)
      /\ Sleep(s, t).count = s.count
      /\ Sleep(s, t).wait_list = v
  BY <1>2, <1>3 DEF Semaphores
<1>5. Range(v) = Range(w) \cup {t}
  <2> HIDE DEF v, w
  <2>1. \A i \in DOMAIN v : v[i] \in Range(w) \cup {t}
    BY <1>2 DEF Range
  <2>2. \A i \in DOMAIN w : w[i] \in Range(v)
    BY <1>2 DEF Range
  <2>3. t \in Range(v)
    BY <1>2 DEF Range
  <2> QED
    BY <2>1, <2>2, <2>3 DEF Range
<1>6. IsInjective(v)
  <2>1. \A i \in 1 .. Len(w) : w[i] # t
    BY <1>2 DEF Waiters, Range
  <2>2. IsInjective(w)
    BY DEF Distinct
  <2> HIDE DEF v, w
  <2> QED
    BY <1>2, <2>1, <2>2 DEF IsInjective
<1> QED
  BY <1>4, <1>5, <1>6 DEF Waiters, Distinct

\* up() with nobody asleep adds one unit.
LEMMA UpProperties ==
  ASSUME NEW T, NEW s \in Semaphores(T), s.wait_list = << >>
  PROVE  /\ Up(s) \in Semaphores(T)
         /\ Up(s).count = s.count + 1
         /\ Up(s).wait_list = s.wait_list
BY DEF Up, Semaphores

\* up() with sleepers serves one of them, and adds no unit.
LEMMA HandOffProperties ==
  ASSUME NEW T, NEW s \in Semaphores(T), s.wait_list # << >>, Distinct(s)
  PROVE  /\ Up(s) \in Semaphores(T)
         /\ Up(s).count = s.count
         /\ Head(s.wait_list) \in Waiters(s)
         /\ Waiters(Up(s)) = Waiters(s) \ {Head(s.wait_list)}
         /\ Distinct(Up(s))
<1> DEFINE w == s.wait_list
           v == Tail(w)
<1>1. w \in Seq(T) /\ s.count \in Nat
  BY DEF Semaphores
<1>2. /\ v \in Seq(T)
      /\ Head(w) = w[1]
      /\ \A i \in 1 .. Len(w) - 1 : v[i] = w[i + 1]
      /\ DOMAIN v = 1 .. Len(w) - 1
      /\ DOMAIN w = 1 .. Len(w)
      /\ Len(w) \in Nat \ {0}
  BY <1>1, HeadTailProperties, LenProperties, EmptySeq
<1>3. Up(s) = [s EXCEPT !.wait_list = v]
  BY DEF Up
<1>4. /\ Up(s) \in Semaphores(T)
      /\ Up(s).count = s.count
      /\ Up(s).wait_list = v
  BY <1>2, <1>3 DEF Semaphores
<1>5. IsInjective(w)
  BY DEF Distinct
<1>6. Head(w) \in Range(w)
  <2> HIDE DEF v, w
  <2>1. 1 \in DOMAIN w /\ Head(w) = w[1]
    BY <1>2
  <2> QED
    BY <2>1 DEF Range
<1>7. Range(v) = Range(w) \ {Head(w)}
  <2> HIDE DEF v, w
  <2>1. \A i \in DOMAIN v : v[i] \in Range(w) /\ v[i] # Head(w)
    BY <1>2, <1>5 DEF Range, IsInjective
  <2>2. ASSUME NEW i \in DOMAIN w, w[i] # Head(w)
        PROVE  w[i] \in Range(v)
    <3>1. i # 1 /\ i - 1 \in DOMAIN v /\ v[i - 1] = w[i]
      BY <1>2, <2>2
    <3> QED
      BY <3>1 DEF Range
  <2> QED
    BY <2>1, <2>2 DEF Range
<1>8. IsInjective(v)
  <2> HIDE DEF v, w
  <2> QED
    BY <1>2, <1>5 DEF IsInjective
<1> QED
  BY <1>4, <1>6, <1>7, <1>8 DEF Waiters, Distinct

\* An interrupted sleeper leaves the list, and nobody else does.
LEMMA GiveUpProperties ==
  ASSUME NEW T, NEW s \in Semaphores(T), NEW t \in Waiters(s), Distinct(s)
  PROVE  /\ GiveUp(s, t) \in Semaphores(T)
         /\ GiveUp(s, t).count = s.count
         /\ Waiters(GiveUp(s, t)) = Waiters(s) \ {t}
         /\ Distinct(GiveUp(s, t))
<1> DEFINE w == s.wait_list
           k == CHOOSE j \in DOMAIN w : w[j] = t
           v == RemoveAt(w, k)
<1>1. w \in Seq(T) /\ s.count \in Nat
  BY DEF Semaphores
<1>2. k \in DOMAIN w /\ w[k] = t
  BY DEF Waiters, Range
<1>3. DOMAIN w = 1 .. Len(w) /\ Len(w) \in Nat
  BY <1>1, LenProperties
<1>4. GiveUp(s, t) = [s EXCEPT !.wait_list = v]
  BY DEF GiveUp
<1>5. IsInjective(w)
  BY DEF Distinct
<1> HIDE DEF k
<1>6. /\ v \in Seq(T)
      /\ DOMAIN v = 1 .. Len(w) - 1
      /\ \A i \in 1 .. Len(w) - 1 : v[i] = IF i < k THEN w[i] ELSE w[i + 1]
  <2> DEFINE a == SubSeq(w, 1, k - 1)
             b == SubSeq(w, k + 1, Len(w))
  <2>1. k \in 1 .. Len(w) /\ k \in Int
    BY <1>2, <1>3
  <2>2. /\ a \in Seq(T) /\ Len(a) = k - 1
        /\ \A i \in 1 .. k - 1 : a[i] = w[i]
    BY <1>1, <1>3, <2>1, SubSeqProperties
  <2>3. /\ b \in Seq(T) /\ Len(b) = Len(w) - k
        /\ \A i \in 1 .. Len(w) - k : b[i] = w[k + i]
    BY <1>1, <1>3, <2>1, SubSeqProperties
  <2>4. v = a \o b
    BY DEF RemoveAt
  <2> HIDE DEF a, b, v, w
  <2>5. /\ v \in Seq(T) /\ Len(v) = Len(a) + Len(b)
        /\ \A i \in 1 .. Len(v) : v[i] = IF i <= Len(a) THEN a[i] ELSE b[i - Len(a)]
    <3>1. a \in Seq(T) /\ b \in Seq(T)
      BY <2>2, <2>3
    <3> QED
      BY <2>4, <3>1, ConcatProperties, Zenon
  <2>6. Len(v) = Len(w) - 1 /\ DOMAIN v = 1 .. Len(w) - 1
    BY <1>3, <2>1, <2>2, <2>3, <2>5, LenProperties
  <2>7. ASSUME NEW i \in 1 .. Len(w) - 1
        PROVE  v[i] = IF i < k THEN w[i] ELSE w[i + 1]
    <3>1. CASE i < k
      BY <1>3, <2>1, <2>2, <2>5, <2>6, <3>1
    <3>2. CASE ~(i < k)
      <4>1. i - (k - 1) \in 1 .. Len(w) - k /\ k + (i - (k - 1)) = i + 1
        BY <1>3, <2>1, <3>2
      <4>2. v[i] = b[i - (k - 1)]
        <5>1. i \in 1 .. Len(v) /\ ~(i <= Len(a))
          BY <1>3, <2>1, <2>2, <2>6, <3>2
        <5> QED
          BY <2>2, <2>5, <5>1
      <4> QED
        BY <2>3, <3>2, <4>1, <4>2
    <3> QED
      BY <3>1, <3>2
  <2> QED
    BY <2>5, <2>6, <2>7
<1>7. /\ GiveUp(s, t) \in Semaphores(T)
      /\ GiveUp(s, t).count = s.count
      /\ GiveUp(s, t).wait_list = v
  BY <1>4, <1>6 DEF Semaphores
<1> HIDE DEF v, w
<1>8. k \in 1 .. Len(w)
  BY <1>2, <1>3
<1>9. \A i \in DOMAIN v : v[i] \in Range(w) \ {t}
  <2> TAKE i \in DOMAIN v
  <2> DEFINE j == IF i < k THEN i ELSE i + 1
  <2>1. j \in DOMAIN w /\ j # k /\ v[i] = w[j]
    BY <1>3, <1>6, <1>8
  <2> QED
    BY <1>2, <1>5, <2>1 DEF Range, IsInjective
<1>10. ASSUME NEW j \in DOMAIN w, w[j] # t
       PROVE  w[j] \in Range(v)
  <2> DEFINE i == IF j < k THEN j ELSE j - 1
  <2>1. i \in DOMAIN v /\ v[i] = w[j]
    BY <1>2, <1>3, <1>6, <1>8, <1>10
  <2> QED
    BY <2>1 DEF Range
<1>11. Range(v) = Range(w) \ {t}
  BY <1>9, <1>10 DEF Range
<1>12. IsInjective(v)
  <2> SUFFICES ASSUME NEW i \in DOMAIN v, NEW j \in DOMAIN v, v[i] = v[j]
               PROVE  i = j
    BY DEF IsInjective
  <2> DEFINE at(n) == IF n < k THEN n ELSE n + 1
  <2>1. /\ at(i) \in DOMAIN w /\ v[i] = w[at(i)]
        /\ at(j) \in DOMAIN w /\ v[j] = w[at(j)]
    BY <1>3, <1>6, <1>8
  <2>2. at(i) = at(j)
    <3> HIDE DEF at
    <3> QED
      BY <1>5, <2>1 DEF IsInjective
  <2> QED
    BY <1>3, <1>6, <1>8, <2>2
<1> QED
  BY <1>7, <1>11, <1>12 DEF Waiters, Distinct, w

-----------------------------------------------------------------------------
(* The invariant *)

\* A task in a wait_list is there once, and is asleep.
SleepersWait ==
  /\ Distinct(free_slots) /\ Distinct(filled_slots)
  /\ \A t \in Asleep : pc[t] = "wait"

\* The thread exists from kthread_run to the end of kthread_stop, and the
\* module is gone only when nobody is inside one of its operations.
Lifecycle ==
  /\ module \in {"unloaded", "created", "removing"} <=> pc[Producer] = "none"
  /\ module = "unloaded" => \A t \in Consumers \cup Readers : pc[t] = "idle"

IInv == TypeOK /\ SleepersWait /\ Lifecycle /\ LockOwner /\ SlotConservation

USE TasksAssumption, PoolAssumption, IntAssumption

-----------------------------------------------------------------------------
(* Facts about the sets of the invariant *)

LEMMA SleepersAreWorkers ==
  ASSUME TypeOK
  PROVE  Waiters(free_slots) \subseteq {Producer} /\ Waiters(filled_slots) \subseteq Consumers
<1>1. free_slots.wait_list \in Seq({Producer}) /\ filled_slots.wait_list \in Seq(Consumers)
  BY DEF TypeOK, Semaphores
<1> QED
  BY <1>1, RangeOfSeq DEF Waiters

LEMMA OwnersFinite ==
  IsFiniteSet(SlotOwners) /\ Cardinality(SlotOwners) \in Nat
<1>1. IsFiniteSet(Consumers \cup {Producer})
  BY FS_AddElement
<1> QED
  BY <1>1, FS_Subset, FS_CardinalityType DEF SlotOwners

\* A step that moves one task without touching a semaphore, from owning a slot
\* to owning it or from not owning one to not owning one, loses no slot.
LEMMA QuietStep ==
  ASSUME IInv, NEW t \in Tasks, NEW p,
         pc' = [pc EXCEPT ![t] = p], UNCHANGED sems,
         module = "unloaded" => module' = "unloaded",
         t \notin Asleep, p # "wait",
         t \in Consumers \cup {Producer} =>
           (t \in SlotOwners <=> p \in {"lock", "locked", "advance", "up"})
  PROVE  SleepersWait' /\ SlotConservation'
<1>1. pc \in [Tasks -> ProducerPC \cup ConsumerPC]
  BY DEF IInv, TypeOK
<1>2. Asleep' = Asleep /\ free_slots' = free_slots /\ filled_slots' = filled_slots
  BY DEF Asleep, sems
<1>3. \A u \in Tasks : pc'[u] = IF u = t THEN p ELSE pc[u]
  BY <1>1
<1>4. SleepersWait'
  <2>1. \A u \in Asleep : u \in Tasks /\ pc[u] = "wait"
    BY SleepersAreWorkers DEF IInv, SleepersWait, Asleep, Tasks
  <2> QED
    BY <1>2, <1>3, <2>1 DEF IInv, SleepersWait, Distinct
<1>5. SlotOwners' = SlotOwners
  BY <1>2, <1>3 DEF SlotOwners, Tasks
<1>6. SlotConservation'
  BY <1>2, <1>5 DEF IInv, SlotConservation
<1> QED
  BY <1>4, <1>6

\* down(): the task that takes a unit from count becomes an owner.
LEMMA TakeStep ==
  ASSUME IInv, module # "unloaded", NEW t \in Consumers \cup {Producer}, pc[t] = "down",
         pc' = [pc EXCEPT ![t] = "lock"],
         Waiters(free_slots)' = Waiters(free_slots),
         Waiters(filled_slots)' = Waiters(filled_slots),
         Distinct(free_slots)', Distinct(filled_slots)',
         free_slots.count' + filled_slots.count' = free_slots.count + filled_slots.count - 1
  PROVE  SleepersWait' /\ SlotConservation'
<1>1. pc \in [Tasks -> ProducerPC \cup ConsumerPC] /\ t \in Tasks
  BY DEF IInv, TypeOK, Tasks
<1>2. Asleep' = Asleep
  BY DEF Asleep
<1>3. \A u \in Tasks : pc'[u] = IF u = t THEN "lock" ELSE pc[u]
  BY <1>1
<1>4. t \notin Asleep
  BY DEF IInv, SleepersWait
<1>5. SleepersWait'
  <2>1. \A u \in Asleep : u \in Tasks /\ pc[u] = "wait" /\ u # t
    BY <1>4, SleepersAreWorkers DEF IInv, SleepersWait, Asleep, Tasks
  <2> QED
    BY <1>2, <1>3, <2>1 DEF SleepersWait
<1>6. SlotOwners' = SlotOwners \cup {t} /\ t \notin SlotOwners
  BY <1>2, <1>3, <1>4 DEF SlotOwners, Tasks
<1>7. Cardinality(SlotOwners') = Cardinality(SlotOwners) + 1
  BY <1>6, OwnersFinite, FS_AddElement
<1>8. free_slots.count \in Nat /\ filled_slots.count \in Nat
  BY DEF IInv, TypeOK, Semaphores
<1>9. SlotConservation'
  BY <1>7, <1>8, OwnersFinite DEF IInv, SlotConservation
<1> QED
  BY <1>5, <1>9

\* down(): the task that finds no unit goes to sleep and owns nothing.
LEMMA SleepStep ==
  ASSUME IInv, module # "unloaded", NEW t \in Consumers \cup {Producer}, pc[t] = "down",
         pc' = [pc EXCEPT ![t] = "wait"],
         Asleep' = Asleep \cup {t},
         Distinct(free_slots)', Distinct(filled_slots)',
         free_slots.count' = free_slots.count, filled_slots.count' = filled_slots.count
  PROVE  SleepersWait' /\ SlotConservation'
<1>1. pc \in [Tasks -> ProducerPC \cup ConsumerPC] /\ t \in Tasks
  BY DEF IInv, TypeOK, Tasks
<1>2. \A u \in Tasks : pc'[u] = IF u = t THEN "wait" ELSE pc[u]
  BY <1>1
<1>3. SleepersWait'
  <2>1. \A u \in Asleep : u \in Tasks /\ pc[u] = "wait"
    BY SleepersAreWorkers DEF IInv, SleepersWait, Asleep, Tasks
  <2> QED
    BY <1>1, <1>2, <2>1 DEF SleepersWait
<1>4. SlotOwners' = SlotOwners
  BY <1>2 DEF SlotOwners, Tasks
<1>5. SlotConservation'
  BY <1>4 DEF IInv, SlotConservation
<1> QED
  BY <1>3, <1>5

\* up() without a sleeper: the task's slot goes back to count.
LEMMA UpStep ==
  ASSUME IInv, module # "unloaded", NEW t \in Consumers \cup {Producer}, pc[t] = "up",
         NEW p \in {"loop", "idle"}, pc' = [pc EXCEPT ![t] = p],
         Asleep' = Asleep,
         Distinct(free_slots)', Distinct(filled_slots)',
         free_slots.count' + filled_slots.count' = free_slots.count + filled_slots.count + 1
  PROVE  SleepersWait' /\ SlotConservation'
<1>1. pc \in [Tasks -> ProducerPC \cup ConsumerPC] /\ t \in Tasks
  BY DEF IInv, TypeOK, Tasks
<1>2. \A u \in Tasks : pc'[u] = IF u = t THEN p ELSE pc[u]
  BY <1>1
<1>3. t \notin Asleep
  BY DEF IInv, SleepersWait
<1>4. SleepersWait'
  <2>1. \A u \in Asleep : u \in Tasks /\ pc[u] = "wait" /\ u # t
    BY <1>3, SleepersAreWorkers DEF IInv, SleepersWait, Asleep, Tasks
  <2> QED
    BY <1>2, <2>1 DEF SleepersWait
<1>5. SlotOwners' = SlotOwners \ {t} /\ t \in SlotOwners
  BY <1>2 DEF SlotOwners, Tasks
<1>6. Cardinality(SlotOwners') = Cardinality(SlotOwners) - 1
  BY <1>5, OwnersFinite, FS_RemoveElement
<1>7. free_slots.count \in Nat /\ filled_slots.count \in Nat
  BY DEF IInv, TypeOK, Semaphores
<1>8. SlotConservation'
  BY <1>6, <1>7, OwnersFinite DEF IInv, SlotConservation
<1> QED
  BY <1>4, <1>8

\* up() with sleepers: the slot goes from one owner to another.
LEMMA HandOffStep ==
  ASSUME IInv, module # "unloaded", NEW t \in Consumers \cup {Producer}, pc[t] = "up",
         NEW p \in {"loop", "idle"}, pc' = [pc EXCEPT ![t] = p],
         NEW h \in Asleep, Asleep' = Asleep \ {h},
         Distinct(free_slots)', Distinct(filled_slots)',
         free_slots.count' = free_slots.count, filled_slots.count' = filled_slots.count
  PROVE  SleepersWait' /\ SlotConservation'
<1>1. pc \in [Tasks -> ProducerPC \cup ConsumerPC] /\ t \in Tasks
  BY DEF IInv, TypeOK, Tasks
<1>2. \A u \in Tasks : pc'[u] = IF u = t THEN p ELSE pc[u]
  BY <1>1
<1>3. h \in Consumers \cup {Producer} /\ pc[h] = "wait" /\ h # t
  BY SleepersAreWorkers DEF IInv, SleepersWait, Asleep
<1>4. SleepersWait'
  <2>1. \A u \in Asleep : u \in Tasks /\ pc[u] = "wait" /\ u # t
    BY SleepersAreWorkers DEF IInv, SleepersWait, Asleep, Tasks
  <2> QED
    BY <1>2, <2>1 DEF SleepersWait
<1>5. /\ SlotOwners' = (SlotOwners \ {t}) \cup {h}
      /\ t \in SlotOwners /\ h \notin SlotOwners \ {t}
  BY <1>2, <1>3 DEF SlotOwners, Tasks
<1>6. Cardinality(SlotOwners') = Cardinality(SlotOwners)
  <2>1. IsFiniteSet(SlotOwners \ {t}) /\ Cardinality(SlotOwners \ {t}) = Cardinality(SlotOwners) - 1
    BY <1>5, OwnersFinite, FS_RemoveElement
  <2>2. Cardinality(SlotOwners') = Cardinality(SlotOwners \ {t}) + 1
    BY <1>5, <2>1, FS_AddElement
  <2> QED
    BY <2>1, <2>2, OwnersFinite
<1>7. SlotConservation'
  BY <1>6 DEF IInv, SlotConservation
<1> QED
  BY <1>4, <1>7

\* A signal: the sleeper never owned a slot, so none is lost.
LEMMA InterruptStep ==
  ASSUME IInv, NEW c \in Consumers, Interrupt(c)
  PROVE  SleepersWait' /\ SlotConservation' /\ filled_slots' \in Semaphores(Consumers)
<1>1. /\ filled_slots \in Semaphores(Consumers) /\ Distinct(filled_slots)
      /\ pc \in [Tasks -> ProducerPC \cup ConsumerPC] /\ c \in Tasks
  BY DEF IInv, TypeOK, SleepersWait, Tasks
<1>2. /\ c \in Waiters(filled_slots) /\ pc[c] = "wait"
      /\ filled_slots' = GiveUp(filled_slots, c) /\ free_slots' = free_slots
      /\ pc' = [pc EXCEPT ![c] = "idle"] /\ module' = module
  BY DEF Interrupt
<1>3. /\ filled_slots' \in Semaphores(Consumers)
      /\ filled_slots'.count = filled_slots.count
      /\ Waiters(filled_slots') = Waiters(filled_slots) \ {c}
      /\ Distinct(filled_slots')
  BY <1>1, <1>2, GiveUpProperties
<1>4. Asleep' = Asleep \ {c} /\ c \in Asleep
  BY <1>2, <1>3, SleepersAreWorkers DEF IInv, Asleep
<1>5. \A u \in Tasks : pc'[u] = IF u = c THEN "idle" ELSE pc[u]
  BY <1>1, <1>2
<1>6. SleepersWait'
  <2>1. \A u \in Asleep : u \in Tasks /\ pc[u] = "wait"
    BY SleepersAreWorkers DEF IInv, SleepersWait, Asleep, Tasks
  <2> QED
    BY <1>2, <1>3, <1>4, <1>5, <2>1 DEF IInv, SleepersWait
<1>7. SlotOwners' = SlotOwners
  BY <1>2, <1>4, <1>5 DEF SlotOwners, Tasks
<1>8. SlotConservation'
  BY <1>2, <1>3, <1>7 DEF IInv, SlotConservation
<1> QED
  BY <1>3, <1>6, <1>8

-----------------------------------------------------------------------------
(* Every action keeps the invariant *)

LEMMA InitInvariant == Init => IInv
<1> SUFFICES ASSUME Init PROVE IInv
  OBVIOUS
<1>1. free_slots \in Semaphores({Producer}) /\ filled_slots \in Semaphores(Consumers)
  BY EmptySeq DEF Init, SemaInit, Semaphores
<1>2. TypeOK
  BY <1>1 DEF Init, TypeOK, Tasks, Slots, CInt, Locals, NoReport,
              ProducerPC, ConsumerPC, ReaderPC
<1>3. SleepersWait
  <2>1. free_slots.wait_list = << >> /\ filled_slots.wait_list = << >>
    BY DEF Init, SemaInit
  <2>2. DOMAIN free_slots.wait_list = {} /\ DOMAIN filled_slots.wait_list = {}
    BY <2>1
  <2> QED
    BY <2>2 DEF SleepersWait, Asleep, Waiters, Range, Distinct, IsInjective
<1>4. Lifecycle
  BY DEF Init, Lifecycle, Tasks
<1>5. LockOwner
  BY DEF Init, LockOwner, Tasks
<1>6. SlotConservation
  BY DEF Init, SlotConservation
<1> QED
  BY <1>2, <1>3, <1>4, <1>5, <1>6 DEF IInv

LEMMA ModuleStepInvariant ==
  ASSUME IInv, ModuleStep
  PROVE  IInv'
<1> USE DEF IInv
<1>1. CASE InitModule
  <2>1. /\ module = "unloaded" /\ pc' = pc /\ buf_lock' = Nobody
        /\ free_slots' = SemaInit(POOL_SIZE) /\ filled_slots' = SemaInit(0)
        /\ module' \in {"created", "unloaded"}
    BY <1>1 DEF InitModule
  <2>2. free_slots' \in Semaphores({Producer}) /\ filled_slots' \in Semaphores(Consumers)
    BY <2>1, EmptySeq DEF SemaInit, Semaphores
  <2>3. TypeOK'
    BY <1>1, <2>1, <2>2 DEF InitModule, TypeOK, Slots, CInt
  <2>4. /\ free_slots'.wait_list = << >> /\ filled_slots'.wait_list = << >>
        /\ free_slots'.count = POOL_SIZE /\ filled_slots'.count = 0
    BY <2>1 DEF SemaInit
  <2>5. DOMAIN free_slots'.wait_list = {} /\ DOMAIN filled_slots'.wait_list = {}
    BY <2>4
  <2>6. SleepersWait'
    BY <2>5 DEF SleepersWait, Asleep, Waiters, Range, Distinct, IsInjective
  <2>7. pc[Producer] = "none" /\ \A t \in Consumers \cup Readers : pc[t] = "idle"
    BY <2>1 DEF Lifecycle
  <2>8. Lifecycle'
    BY <2>1, <2>7 DEF Lifecycle
  <2>9. LockOwner'
    BY <2>1, <2>7 DEF LockOwner, Tasks
  <2>10. SlotOwners' = {}
    BY <2>1, <2>7 DEF SlotOwners
  <2>11. SlotConservation'
    BY <2>4, <2>10, FS_EmptySet DEF SlotConservation
  <2> QED
    BY <2>3, <2>6, <2>8, <2>9, <2>11
<1>2. CASE RunProducer
  <2>1. /\ module = "created" /\ module' = "live" /\ pc' = [pc EXCEPT ![Producer] = "loop"]
        /\ UNCHANGED <<sems, buf_lock>>
    BY <1>2 DEF RunProducer
  <2>2. TypeOK'
    BY <1>2, <2>1 DEF RunProducer, TypeOK, sems, Tasks, ProducerPC, CInt
  <2>3. pc[Producer] = "none" /\ Producer \in Tasks
    BY <2>1 DEF Lifecycle, Tasks
  <2>4. SleepersWait' /\ SlotConservation'
    <3>1. Producer \notin Asleep /\ Producer \notin SlotOwners
      BY <2>3 DEF SleepersWait, SlotOwners
    <3> QED
      BY <2>1, <2>3, <3>1, QuietStep
  <2>5. Lifecycle'
    BY <2>1, <2>3 DEF Lifecycle, TypeOK
  <2>6. LockOwner'
    BY <2>1, <2>3 DEF LockOwner, TypeOK
  <2> QED
    BY <2>2, <2>4, <2>5, <2>6
<1>3. CASE RunProducerFails \/ ExitModule \/ ProcRemoved
  <2>1. UNCHANGED <<sems, buf_lock, pool, pc, consumed_value, report>>
    BY <1>3 DEF RunProducerFails, ExitModule, ProcRemoved
  <2>2. TypeOK'
    BY <1>3, <2>1 DEF RunProducerFails, ExitModule, ProcRemoved, TypeOK, sems, pool
  <2>3. Lifecycle'
    BY <1>3, <2>1 DEF RunProducerFails, ExitModule, ProcRemoved, Lifecycle
  <2>4. SleepersWait' /\ LockOwner' /\ SlotOwners' = SlotOwners
    BY <2>1 DEF SleepersWait, Asleep, LockOwner, SlotOwners, sems
  <2>5. SlotConservation'
    BY <1>3, <2>1, <2>4 DEF RunProducerFails, ExitModule, ProcRemoved, SlotConservation, sems
  <2> QED
    BY <2>2, <2>3, <2>4, <2>5
<1>4. CASE ProducerStopped
  <2>1. /\ module = "stopping" /\ module' = "removing" /\ pc[Producer] = "done"
        /\ pc' = [pc EXCEPT ![Producer] = "none"]
        /\ UNCHANGED <<sems, buf_lock, pool, consumed_value, report>>
    BY <1>4 DEF ProducerStopped
  <2>2. TypeOK'
    BY <2>1 DEF TypeOK, sems, pool, Tasks, ProducerPC
  <2>3. SleepersWait' /\ SlotConservation'
    <3>1. Producer \notin Asleep /\ Producer \notin SlotOwners /\ Producer \in Tasks
      BY <2>1 DEF SleepersWait, SlotOwners, Tasks
    <3> QED
      BY <2>1, <3>1, QuietStep
  <2>4. Lifecycle'
    BY <2>1 DEF Lifecycle, TypeOK, Tasks
  <2>5. LockOwner'
    BY <2>1 DEF LockOwner, TypeOK
  <2> QED
    BY <2>2, <2>3, <2>4, <2>5
<1> QED
  BY <1>1, <1>2, <1>3, <1>4 DEF ModuleStep

\* The steps of a task that touch no semaphore and not the mutex either.
LEMMA PlainStepInvariant ==
  ASSUME IInv,
         \/ CheckStop \/ FillSlot \/ Wake(Producer, free_slots)
         \/ \E c \in Consumers : BeginWrite(c) \/ ReadSlot(c) \/ Wake(c, filled_slots)
         \/ \E r \in Readers : BeginRead(r)
  PROVE  IInv'
<1> USE DEF IInv
<1>1. PICK t \in Tasks :
        \/ t = Producer /\ (CheckStop \/ FillSlot \/ Wake(Producer, free_slots))
        \/ t \in Consumers /\ (BeginWrite(t) \/ ReadSlot(t) \/ Wake(t, filled_slots))
        \/ t \in Readers /\ BeginRead(t)
  BY DEF Tasks
<1>2. PICK p \in {"done", "down", "advance", "lock"} : pc' = [pc EXCEPT ![t] = p]
  BY <1>1 DEF CheckStop, FillSlot, Wake, BeginWrite, ReadSlot, BeginRead
<1>3. UNCHANGED <<module, sems, buf_lock>>
  BY <1>1 DEF CheckStop, FillSlot, Wake, BeginWrite, ReadSlot, BeginRead, pool
<1>4. pc \in [Tasks -> ProducerPC \cup ConsumerPC]
  BY DEF TypeOK
<1>5. TypeOK'
  <2>1. pc'[t] = p /\ \A u \in Tasks : u # t => pc'[u] = pc[u]
    BY <1>2, <1>4
  <2>2. pc' \in [Tasks -> ProducerPC \cup ConsumerPC]
    BY <1>2, <1>4 DEF ProducerPC, ConsumerPC
  <2>3. /\ pc'[Producer] \in ProducerPC
        /\ \A c \in Consumers : pc'[c] \in ConsumerPC
        /\ \A r \in Readers : pc'[r] \in ReaderPC
    BY <1>1, <1>2, <2>1 DEF TypeOK, Tasks, ProducerPC, ConsumerPC, ReaderPC,
       CheckStop, FillSlot, Wake, BeginWrite, ReadSlot, BeginRead
  <2>4. /\ buffer' \in [Slots -> CInt]
        /\ prod_idx' \in Slots /\ cons_idx' \in Slots
        /\ produced_count' \in CInt /\ consumed_count' \in CInt /\ value' \in CInt
        /\ consumed_value' \in [Consumers -> Locals]
        /\ report' \in [Readers -> [free : Nat \cup {Nobody}, filled : Nat \cup {Nobody}]]
    BY <1>1 DEF TypeOK, CheckStop, FillSlot, Wake, BeginWrite, ReadSlot, BeginRead, pool, Locals
  <2> QED
    BY <1>3, <2>2, <2>3, <2>4 DEF TypeOK, sems
<1>6. SleepersWait' /\ SlotConservation'
  <2>1. t \notin Asleep
    BY <1>1, SleepersAreWorkers DEF Asleep, SleepersWait,
       CheckStop, FillSlot, Wake, BeginWrite, ReadSlot, BeginRead
  <2>2. t \in Consumers \cup {Producer} =>
           (t \in SlotOwners <=> p \in {"lock", "locked", "advance", "up"})
    BY <1>1, <1>2, <1>4, <2>1 DEF SlotOwners, Tasks,
       CheckStop, FillSlot, Wake, BeginWrite, ReadSlot, BeginRead
  <2> QED
    BY <1>2, <1>3, <2>1, <2>2, QuietStep
<1>7. Lifecycle'
  BY <1>1, <1>2, <1>3, <1>4 DEF Lifecycle, Tasks, ProcEntry,
     CheckStop, FillSlot, Wake, BeginWrite, ReadSlot, BeginRead
<1>8. LockOwner'
  BY <1>1, <1>2, <1>3, <1>4 DEF LockOwner, Tasks,
     CheckStop, FillSlot, Wake, BeginWrite, ReadSlot, BeginRead
<1> QED
  BY <1>5, <1>6, <1>7, <1>8

\* The steps that take or release the mutex.
LEMMA MutexStepInvariant ==
  ASSUME IInv,
         \/ \E t \in Tasks : LockBuffer(t)
         \/ AdvanceProducer
         \/ \E c \in Consumers : AdvanceConsumer(c)
         \/ \E r \in Readers : EndRead(r)
  PROVE  IInv'
<1> USE DEF IInv
<1>1. PICK t \in Tasks :
        \/ LockBuffer(t)
        \/ t = Producer /\ AdvanceProducer
        \/ t \in Consumers /\ AdvanceConsumer(t)
        \/ t \in Readers /\ EndRead(t)
  BY DEF Tasks
<1>2. PICK p \in {"locked", "up", "idle"} : pc' = [pc EXCEPT ![t] = p]
  BY <1>1 DEF LockBuffer, AdvanceProducer, AdvanceConsumer, EndRead
<1>3. UNCHANGED <<module, sems>>
  BY <1>1 DEF LockBuffer, AdvanceProducer, AdvanceConsumer, EndRead
<1>4. pc \in [Tasks -> ProducerPC \cup ConsumerPC]
  BY DEF TypeOK
<1>5. TypeOK'
  <2>1. pc'[t] = p /\ \A u \in Tasks : u # t => pc'[u] = pc[u]
    BY <1>2, <1>4
  <2>2. pc' \in [Tasks -> ProducerPC \cup ConsumerPC]
    BY <1>2, <1>4 DEF ProducerPC, ConsumerPC
  <2>3. /\ pc'[Producer] \in ProducerPC
        /\ \A c \in Consumers : pc'[c] \in ConsumerPC
        /\ \A r \in Readers : pc'[r] \in ReaderPC
    BY <1>1, <1>2, <2>1 DEF TypeOK, Tasks, ProducerPC, ConsumerPC, ReaderPC,
       LockBuffer, AdvanceProducer, AdvanceConsumer, EndRead
  <2>4. \A n \in Int : (n + 1) % POOL_SIZE \in Slots /\ (n + 1) % IntModulus \in CInt
    BY DEF Slots, CInt
  <2>5. /\ buffer' \in [Slots -> CInt]
        /\ prod_idx' \in Slots /\ cons_idx' \in Slots
        /\ produced_count' \in CInt /\ consumed_count' \in CInt /\ value' \in CInt
    <3>1. /\ prod_idx \in Int /\ cons_idx \in Int /\ produced_count \in Int
          /\ consumed_count \in Int /\ value \in Int
      BY DEF TypeOK, Slots, CInt
    <3> QED
      BY <1>1, <2>4, <3>1 DEF TypeOK, LockBuffer, AdvanceProducer, AdvanceConsumer, EndRead, pool
  <2>6. /\ buf_lock' \in Tasks \cup {Nobody}
        /\ consumed_value' \in [Consumers -> Locals]
        /\ report' \in [Readers -> [free : Nat \cup {Nobody}, filled : Nat \cup {Nobody}]]
    BY <1>1 DEF TypeOK, LockBuffer, AdvanceProducer, AdvanceConsumer, EndRead, NoReport
  <2> QED
    BY <1>3, <2>2, <2>3, <2>5, <2>6 DEF TypeOK, sems
<1>6. SleepersWait' /\ SlotConservation'
  <2>1. t \notin Asleep
    BY <1>1 DEF SleepersWait, LockBuffer, AdvanceProducer, AdvanceConsumer, EndRead
  <2>2. t \in Consumers \cup {Producer} =>
           (t \in SlotOwners <=> p \in {"lock", "locked", "advance", "up"})
    BY <1>1, <1>2, <1>4, <2>1 DEF SlotOwners, Tasks,
       LockBuffer, AdvanceProducer, AdvanceConsumer, EndRead
  <2> QED
    BY <1>2, <1>3, <2>1, <2>2, QuietStep
<1>7. Lifecycle'
  BY <1>1, <1>2, <1>3, <1>4 DEF Lifecycle, Tasks,
     LockBuffer, AdvanceProducer, AdvanceConsumer, EndRead
<1>8. LockOwner'
  BY <1>1, <1>2, <1>3, <1>4 DEF LockOwner, Tasks,
     LockBuffer, AdvanceProducer, AdvanceConsumer, EndRead
<1> QED
  BY <1>5, <1>6, <1>7, <1>8

\* down_interruptible and up, in the producer and in a write.

LEMMA DownFreeInvariant ==
  ASSUME IInv, DownFree
  PROVE  IInv'
<1> USE DEF IInv
<1>1. /\ pc[Producer] = "down" /\ filled_slots' = filled_slots
      /\ UNCHANGED <<module, buf_lock, pool, consumed_value, report>>
  BY DEF DownFree
<1>2. /\ Producer \in Tasks /\ Producer \notin Asleep /\ module # "unloaded"
      /\ pc \in [Tasks -> ProducerPC \cup ConsumerPC]
      /\ free_slots \in Semaphores({Producer}) /\ Distinct(free_slots) /\ Distinct(filled_slots)
      /\ free_slots.count \in Nat /\ filled_slots.count \in Nat
  BY <1>1 DEF SleepersWait, Lifecycle, TypeOK, Tasks, Semaphores
<1>3. PICK p \in {"lock", "wait"} : pc' = [pc EXCEPT ![Producer] = p]
  BY DEF DownFree
<1>4. CASE free_slots' = Take(free_slots) /\ p = "lock" /\ free_slots.count > 0
  <2>1. /\ free_slots' \in Semaphores({Producer})
        /\ free_slots'.count = free_slots.count - 1
        /\ free_slots'.wait_list = free_slots.wait_list
    BY <1>2, <1>4, TakeProperties
  <2>2. /\ Waiters(free_slots)' = Waiters(free_slots)
        /\ Waiters(filled_slots)' = Waiters(filled_slots)
        /\ Distinct(free_slots)' /\ Distinct(filled_slots)'
    BY <1>1, <1>2, <2>1 DEF Waiters, Distinct
  <2>3. free_slots.count' + filled_slots.count' = free_slots.count + filled_slots.count - 1
    BY <1>1, <1>2, <2>1
  <2>4. SleepersWait' /\ SlotConservation'
    BY <1>1, <1>2, <1>3, <1>4, <2>2, <2>3, TakeStep
  <2> QED
    BY <1>1, <1>2, <1>3, <1>4, <2>1, <2>4
       DEF TypeOK, Lifecycle, LockOwner, Tasks, ProducerPC, ConsumerPC, ReaderPC, pool
<1>5. CASE free_slots' = Sleep(free_slots, Producer) /\ p = "wait"
  <2>1. /\ free_slots' \in Semaphores({Producer})
        /\ free_slots'.count = free_slots.count
        /\ Waiters(free_slots') = Waiters(free_slots) \cup {Producer}
        /\ Distinct(free_slots')
    <3>1. Producer \notin Waiters(free_slots)
      BY <1>2 DEF Asleep
    <3> QED
      BY <1>2, <1>5, <3>1, SleepProperties
  <2>2. Asleep' = Asleep \cup {Producer}
    BY <1>1, <2>1 DEF Asleep
  <2>3. SleepersWait' /\ SlotConservation'
    BY <1>1, <1>2, <1>3, <1>5, <2>1, <2>2, SleepStep
  <2> QED
    BY <1>1, <1>2, <1>3, <1>5, <2>1, <2>3
       DEF TypeOK, Lifecycle, LockOwner, Tasks, ProducerPC, ConsumerPC, ReaderPC, pool
<1> QED
  BY <1>2, <1>3, <1>4, <1>5 DEF DownFree, TypeOK

LEMMA DownFilledInvariant ==
  ASSUME IInv, NEW c \in Consumers, DownFilled(c)
  PROVE  IInv'
<1> USE DEF IInv
<1>1. /\ pc[c] = "down" /\ free_slots' = free_slots
      /\ UNCHANGED <<module, buf_lock, pool, consumed_value, report>>
  BY DEF DownFilled
<1>2. /\ c \in Tasks /\ c \notin Asleep /\ module # "unloaded"
      /\ pc \in [Tasks -> ProducerPC \cup ConsumerPC]
      /\ filled_slots \in Semaphores(Consumers) /\ Distinct(filled_slots) /\ Distinct(free_slots)
      /\ filled_slots.count \in Nat /\ free_slots.count \in Nat
  BY <1>1 DEF SleepersWait, Lifecycle, TypeOK, Tasks, Semaphores
<1>3. PICK p \in {"lock", "wait"} : pc' = [pc EXCEPT ![c] = p]
  BY DEF DownFilled
<1>4. CASE filled_slots' = Take(filled_slots) /\ p = "lock" /\ filled_slots.count > 0
  <2>1. /\ filled_slots' \in Semaphores(Consumers)
        /\ filled_slots'.count = filled_slots.count - 1
        /\ filled_slots'.wait_list = filled_slots.wait_list
    BY <1>2, <1>4, TakeProperties
  <2>2. /\ Waiters(free_slots)' = Waiters(free_slots)
        /\ Waiters(filled_slots)' = Waiters(filled_slots)
        /\ Distinct(free_slots)' /\ Distinct(filled_slots)'
    BY <1>1, <1>2, <2>1 DEF Waiters, Distinct
  <2>3. free_slots.count' + filled_slots.count' = free_slots.count + filled_slots.count - 1
    BY <1>1, <1>2, <2>1
  <2>4. SleepersWait' /\ SlotConservation'
    BY <1>1, <1>2, <1>3, <1>4, <2>2, <2>3, TakeStep
  <2> QED
    BY <1>1, <1>2, <1>3, <1>4, <2>1, <2>4
       DEF TypeOK, Lifecycle, LockOwner, Tasks, ProducerPC, ConsumerPC, ReaderPC, pool
<1>5. CASE filled_slots' = Sleep(filled_slots, c) /\ p = "wait"
  <2>1. /\ filled_slots' \in Semaphores(Consumers)
        /\ filled_slots'.count = filled_slots.count
        /\ Waiters(filled_slots') = Waiters(filled_slots) \cup {c}
        /\ Distinct(filled_slots')
    <3>1. c \notin Waiters(filled_slots)
      BY <1>2 DEF Asleep
    <3> QED
      BY <1>2, <1>5, <3>1, SleepProperties
  <2>2. Asleep' = Asleep \cup {c}
    BY <1>1, <2>1 DEF Asleep
  <2>3. SleepersWait' /\ SlotConservation'
    BY <1>1, <1>2, <1>3, <1>5, <2>1, <2>2, SleepStep
  <2> QED
    BY <1>1, <1>2, <1>3, <1>5, <2>1, <2>3
       DEF TypeOK, Lifecycle, LockOwner, Tasks, ProducerPC, ConsumerPC, ReaderPC, pool
<1> QED
  BY <1>2, <1>3, <1>4, <1>5 DEF DownFilled, TypeOK

LEMMA UpFilledInvariant ==
  ASSUME IInv, UpFilled
  PROVE  IInv'
<1> USE DEF IInv
<1>1. /\ pc[Producer] = "up" /\ pc' = [pc EXCEPT ![Producer] = "loop"]
      /\ filled_slots' = Up(filled_slots) /\ free_slots' = free_slots
      /\ UNCHANGED <<module, buf_lock, pool, report>>
      /\ consumed_value' \in [Consumers -> Locals]
  BY DEF UpFilled, TypeOK, Locals
<1>2. /\ Producer \in Tasks /\ module # "unloaded"
      /\ pc \in [Tasks -> ProducerPC \cup ConsumerPC]
      /\ filled_slots \in Semaphores(Consumers) /\ Distinct(filled_slots) /\ Distinct(free_slots)
      /\ filled_slots.count \in Nat /\ free_slots.count \in Nat
  BY <1>1 DEF SleepersWait, Lifecycle, TypeOK, Tasks, Semaphores
<1>3. filled_slots' \in Semaphores(Consumers) /\ SleepersWait' /\ SlotConservation'
  <2>1. CASE filled_slots.wait_list = << >>
    <3>1. /\ filled_slots' \in Semaphores(Consumers)
          /\ filled_slots'.count = filled_slots.count + 1
          /\ filled_slots'.wait_list = filled_slots.wait_list
      BY <1>1, <1>2, <2>1, UpProperties
    <3>2. Asleep' = Asleep /\ Distinct(free_slots)' /\ Distinct(filled_slots)'
      BY <1>1, <1>2, <3>1 DEF Asleep, Waiters, Distinct
    <3>3. free_slots.count' + filled_slots.count' = free_slots.count + filled_slots.count + 1
      BY <1>1, <1>2, <3>1
    <3> QED
      BY <1>1, <1>2, <3>1, <3>2, <3>3, UpStep
  <2>2. CASE filled_slots.wait_list # << >>
    <3> DEFINE h == Head(filled_slots.wait_list)
    <3>1. /\ filled_slots' \in Semaphores(Consumers)
          /\ filled_slots'.count = filled_slots.count
          /\ h \in Waiters(filled_slots)
          /\ Waiters(filled_slots') = Waiters(filled_slots) \ {h}
          /\ Distinct(filled_slots')
      BY <1>1, <1>2, <2>2, HandOffProperties
    <3>2. h \in Asleep /\ Asleep' = Asleep \ {h}
      BY <1>1, <3>1, SleepersAreWorkers DEF Asleep
    <3> HIDE DEF h
    <3> QED
      BY <1>1, <1>2, <3>1, <3>2, HandOffStep
  <2> QED
    BY <2>1, <2>2
<1> QED
  BY <1>1, <1>2, <1>3
     DEF TypeOK, Lifecycle, LockOwner, Tasks, ProducerPC, ConsumerPC, ReaderPC, pool

LEMMA UpFreeInvariant ==
  ASSUME IInv, NEW c \in Consumers, UpFree(c)
  PROVE  IInv'
<1> USE DEF IInv
<1>1. /\ pc[c] = "up" /\ pc' = [pc EXCEPT ![c] = "idle"]
      /\ free_slots' = Up(free_slots) /\ filled_slots' = filled_slots
      /\ UNCHANGED <<module, buf_lock, pool, report>>
      /\ consumed_value' \in [Consumers -> Locals]
  BY DEF UpFree, TypeOK, Locals
<1>2. /\ c \in Tasks /\ module # "unloaded"
      /\ pc \in [Tasks -> ProducerPC \cup ConsumerPC]
      /\ free_slots \in Semaphores({Producer}) /\ Distinct(free_slots) /\ Distinct(filled_slots)
      /\ free_slots.count \in Nat /\ filled_slots.count \in Nat
  BY <1>1 DEF SleepersWait, Lifecycle, TypeOK, Tasks, Semaphores
<1>3. free_slots' \in Semaphores({Producer}) /\ SleepersWait' /\ SlotConservation'
  <2>1. CASE free_slots.wait_list = << >>
    <3>1. /\ free_slots' \in Semaphores({Producer})
          /\ free_slots'.count = free_slots.count + 1
          /\ free_slots'.wait_list = free_slots.wait_list
      BY <1>1, <1>2, <2>1, UpProperties
    <3>2. Asleep' = Asleep /\ Distinct(free_slots)' /\ Distinct(filled_slots)'
      BY <1>1, <1>2, <3>1 DEF Asleep, Waiters, Distinct
    <3>3. free_slots.count' + filled_slots.count' = free_slots.count + filled_slots.count + 1
      BY <1>1, <1>2, <3>1
    <3> QED
      BY <1>1, <1>2, <3>1, <3>2, <3>3, UpStep
  <2>2. CASE free_slots.wait_list # << >>
    <3> DEFINE h == Head(free_slots.wait_list)
    <3>1. /\ free_slots' \in Semaphores({Producer})
          /\ free_slots'.count = free_slots.count
          /\ h \in Waiters(free_slots)
          /\ Waiters(free_slots') = Waiters(free_slots) \ {h}
          /\ Distinct(free_slots')
      BY <1>1, <1>2, <2>2, HandOffProperties
    <3>2. h \in Asleep /\ Asleep' = Asleep \ {h}
      BY <1>1, <3>1, SleepersAreWorkers DEF Asleep
    <3> HIDE DEF h
    <3> QED
      BY <1>1, <1>2, <3>1, <3>2, HandOffStep
  <2> QED
    BY <2>1, <2>2
<1> QED
  BY <1>1, <1>2, <1>3
     DEF TypeOK, Lifecycle, LockOwner, Tasks, ProducerPC, ConsumerPC, ReaderPC, pool

LEMMA InterruptInvariant ==
  ASSUME IInv, NEW c \in Consumers, Interrupt(c)
  PROVE  IInv'
<1> USE DEF IInv
<1>1. /\ pc[c] = "wait" /\ pc' = [pc EXCEPT ![c] = "idle"]
      /\ UNCHANGED <<module, free_slots, buf_lock, pool, consumed_value, report>>
  BY DEF Interrupt
<1>2. filled_slots' \in Semaphores(Consumers) /\ SleepersWait' /\ SlotConservation'
  BY InterruptStep
<1> QED
  BY <1>1, <1>2 DEF TypeOK, Lifecycle, LockOwner, Tasks, ProducerPC, ConsumerPC, ReaderPC, pool

\* kthread_stop interrupts the producer: it leaves without a slot.
LEMMA ProducerInterruptedInvariant ==
  ASSUME IInv, ProducerInterrupted
  PROVE  IInv'
<1> USE DEF IInv
<1>1. /\ free_slots \in Semaphores({Producer}) /\ Distinct(free_slots)
      /\ pc \in [Tasks -> ProducerPC \cup ConsumerPC] /\ Producer \in Tasks
  BY DEF TypeOK, SleepersWait, Tasks
<1>2. /\ Producer \in Waiters(free_slots) /\ pc[Producer] = "wait" /\ module = "stopping"
      /\ free_slots' = GiveUp(free_slots, Producer) /\ filled_slots' = filled_slots
      /\ pc' = [pc EXCEPT ![Producer] = "done"]
      /\ UNCHANGED <<module, buf_lock, pool, consumed_value, report>>
  BY DEF ProducerInterrupted
<1>3. /\ free_slots' \in Semaphores({Producer})
      /\ free_slots'.count = free_slots.count
      /\ Waiters(free_slots') = Waiters(free_slots) \ {Producer}
      /\ Distinct(free_slots')
  BY <1>1, <1>2, GiveUpProperties
<1>4. Asleep' = Asleep \ {Producer} /\ Producer \in Asleep
  BY <1>2, <1>3, SleepersAreWorkers DEF Asleep
<1>5. \A u \in Tasks : pc'[u] = IF u = Producer THEN "done" ELSE pc[u]
  BY <1>1, <1>2
<1>6. SleepersWait'
  <2>1. \A u \in Asleep : u \in Tasks /\ pc[u] = "wait"
    BY SleepersAreWorkers DEF SleepersWait, Asleep, Tasks
  <2> QED
    BY <1>2, <1>3, <1>4, <1>5, <2>1 DEF SleepersWait
<1>7. SlotOwners' = SlotOwners
  BY <1>2, <1>4, <1>5 DEF SlotOwners, Tasks
<1>8. SlotConservation'
  BY <1>2, <1>3, <1>7 DEF SlotConservation
<1> QED
  BY <1>1, <1>2, <1>3, <1>6, <1>8
     DEF TypeOK, Lifecycle, LockOwner, Tasks, ProducerPC, ConsumerPC, ReaderPC, pool

LEMMA ReadCountInvariant ==
  ASSUME IInv, NEW r \in Readers, ReadCount(r)
  PROVE  IInv'
<1> USE DEF IInv
<1>1. UNCHANGED <<module, sems, buf_lock, pool, pc, consumed_value>>
  BY DEF ReadCount
<1>2. free_slots.count \in Nat /\ filled_slots.count \in Nat
  BY DEF TypeOK, Semaphores
<1>3. report' \in [Readers -> [free : Nat \cup {Nobody}, filled : Nat \cup {Nobody}]]
  BY <1>2 DEF ReadCount, TypeOK
<1>4. TypeOK'
  BY <1>1, <1>3 DEF TypeOK, sems, pool
<1>5. SleepersWait' /\ Lifecycle' /\ LockOwner' /\ SlotOwners' = SlotOwners
  BY <1>1 DEF SleepersWait, Asleep, Lifecycle, LockOwner, SlotOwners, sems
<1>6. SlotConservation'
  BY <1>1, <1>5 DEF SlotConservation, sems
<1> QED
  BY <1>4, <1>5, <1>6

LEMMA StutterInvariant == IInv /\ UNCHANGED vars => IInv'
<1> SUFFICES ASSUME IInv, UNCHANGED vars PROVE IInv'
  OBVIOUS
<1>1. TypeOK'
  BY DEF IInv, TypeOK, vars, pool, sems
<1>2. SleepersWait' /\ Lifecycle' /\ LockOwner' /\ SlotOwners' = SlotOwners
  BY DEF IInv, SleepersWait, Asleep, Lifecycle, LockOwner, SlotOwners, vars, sems
<1>3. SlotConservation'
  BY <1>2 DEF IInv, SlotConservation, vars, sems
<1> QED
  BY <1>1, <1>2, <1>3 DEF IInv

-----------------------------------------------------------------------------
(* The theorems *)

\* The invariant holds in every reachable state of the module.
THEOREM Invariance == Spec => []IInv
<1>1. IInv /\ [Next]_vars => IInv'
  <2> SUFFICES ASSUME IInv, [Next]_vars PROVE IInv'
    OBVIOUS
  <2>1. CASE UNCHANGED vars
    BY <2>1, StutterInvariant
  <2>2. CASE ModuleStep
    BY <2>2, ModuleStepInvariant
  <2>3. CASE \E t \in Tasks : LockBuffer(t)
    BY <2>3, MutexStepInvariant
  <2>4. CASE ProducerStep
    <3>1. CASE DownFree
      BY <3>1, DownFreeInvariant
    <3>2. CASE UpFilled
      BY <3>2, UpFilledInvariant
    <3>3. CASE AdvanceProducer
      BY <3>3, MutexStepInvariant
    <3>4. CASE CheckStop \/ FillSlot \/ Wake(Producer, free_slots)
      BY <3>4, PlainStepInvariant
    <3>5. CASE ProducerInterrupted
      BY <3>5, ProducerInterruptedInvariant
    <3> QED
      BY <2>4, <3>1, <3>2, <3>3, <3>4, <3>5 DEF ProducerStep
  <2>5. ASSUME NEW c \in Consumers, BeginWrite(c) \/ ConsumerStep(c) \/ Interrupt(c)
        PROVE  IInv'
    <3>1. CASE DownFilled(c)
      BY <3>1, DownFilledInvariant
    <3>2. CASE UpFree(c)
      BY <3>2, UpFreeInvariant
    <3>3. CASE Interrupt(c)
      BY <3>3, InterruptInvariant
    <3>4. CASE AdvanceConsumer(c)
      BY <3>4, MutexStepInvariant
    <3>5. CASE BeginWrite(c) \/ ReadSlot(c) \/ Wake(c, filled_slots)
      BY <3>5, PlainStepInvariant
    <3> QED
      BY <2>5, <3>1, <3>2, <3>3, <3>4, <3>5 DEF ConsumerStep
  <2>6. ASSUME NEW r \in Readers, BeginRead(r) \/ ReaderStep(r)
        PROVE  IInv'
    <3>1. CASE BeginRead(r)
      BY <3>1, PlainStepInvariant
    <3>2. CASE ReadCount(r)
      BY <3>2, ReadCountInvariant
    <3>3. CASE EndRead(r)
      BY <3>3, MutexStepInvariant
    <3> QED
      BY <2>6, <3>1, <3>2, <3>3 DEF ReaderStep
  <2> QED
    BY <2>1, <2>2, <2>3, <2>4, <2>5, <2>6 DEF Next
<1> QED
  BY InitInvariant, <1>1, PTL DEF Spec

\* Every variable of sem_demo.c keeps its type: indices stay inside the
\* buffer, and a semaphore's count is never taken below zero.
THEOREM TypeCorrect == Spec => []TypeOK
<1>1. IInv => TypeOK
  BY DEF IInv
<1> QED
  BY <1>1, Invariance, PTL

\* No interleaving of the producer, writers, signals and reloads loses or
\* invents a slot of the pool, for any number of slots and of writers.
THEOREM SlotsConserved == Spec => []SlotConservation
<1>1. IInv => SlotConservation
  BY DEF IInv
<1> QED
  BY <1>1, Invariance, PTL

\* The critical sections of producer_fn, demo_proc_write and demo_proc_read
\* exclude each other.
THEOREM MutualExclusion == Spec => []LockOwner
<1>1. IInv => LockOwner
  BY DEF IInv
<1> QED
  BY <1>1, Invariance, PTL
=============================================================================
