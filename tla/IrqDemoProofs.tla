---------------------------- MODULE IrqDemoProofs ----------------------------
(***************************************************************************)
(* Safety of IrqDemo for every number of CPUs, any finite set of writers   *)
(* and readers and every MaxEvents: no deadlock on irq_lock, no event      *)
(* lost, no answer without an event, nothing left behind by rmmod that     *)
(* was not queued after cancel_work_sync.                                  *)
(***************************************************************************)
EXTENDS IrqDemo, FiniteSetTheorems, TLAPS

-----------------------------------------------------------------------------
(* Counting contexts.  f is a program counter: pc, pc' or one in between   *)
(* when a step moves two contexts.                                         *)

\* Those between the event and its event_count++, those between that and the
\* bottom half they order, and the bottom halves under way.
Counting(f)   == {x \in Counters : f[x] \in {"lock", "locked"}}
Scheduling(f) == {x \in Counters : f[x] = "schedule"}
Underway(f)   == {b \in Halves : f[b] # "idle"}

One(condition) == IF condition THEN 1 ELSE 0

\* The kernel's contexts are three, and none is a process.
LEMMA ContextsDistinct ==
  /\ Hard \notin Processes \cup Halves
  /\ Worker \notin Processes /\ IrqThread \notin Processes /\ Worker # IrqThread
<1> DEFINE P1 == Processes \cup {Worker}
           P2 == P1 \cup {IrqThread}
<1>1. /\ IsFiniteSet(Processes) /\ Cardinality(Processes) \in Nat
      /\ Contexts = P2 \cup {Hard}
      /\ Cardinality(Contexts) = Cardinality(Processes) + 3
  BY ContextsAssumption, FS_CardinalityType DEF Contexts, Halves
<1>2. /\ IsFiniteSet(P1)
      /\ Cardinality(P1) = Cardinality(Processes) + One(Worker \notin Processes)
  BY <1>1, FS_AddElement DEF One
<1>3. /\ IsFiniteSet(P2)
      /\ Cardinality(P2) = Cardinality(P1) + One(IrqThread \notin P1)
  <2> HIDE DEF P1
  <2>1. Cardinality(P1) \in Nat
    BY <1>1, <1>2 DEF One
  <2> QED
    BY <1>2, <2>1, FS_AddElement DEF One
<1>4. Cardinality(Contexts) = Cardinality(P2) + One(Hard \notin P2)
  <2> HIDE DEF P2
  <2>1. /\ Cardinality(P2) \in Nat
        /\ Cardinality(P2 \cup {Hard}) =
             IF Hard \in P2 THEN Cardinality(P2) ELSE Cardinality(P2) + 1
    BY <1>3, FS_CardinalityType, FS_AddElement
  <2>2. CASE Hard \in P2
    BY <1>1, <2>1, <2>2 DEF One
  <2>3. CASE Hard \notin P2
    BY <1>1, <2>1, <2>3 DEF One
  <2> QED
    BY <2>2, <2>3
<1>5. Worker \notin Processes /\ IrqThread \notin P1 /\ Hard \notin P2
  <2> HIDE DEF P1, P2
  <2> QED
    BY <1>1, <1>2, <1>3, <1>4 DEF One
<1> QED
  BY <1>5 DEF Halves

LEMMA CountersFinite == IsFiniteSet(Counters) /\ IsFiniteSet(Halves)
<1>1. IsFiniteSet(Writers)
  BY ContextsAssumption, FS_Subset DEF Processes
<1>2. IsFiniteSet({Hard}) /\ IsFiniteSet({Worker}) /\ IsFiniteSet({IrqThread})
  BY FS_Singleton
<1>3. Counters = Writers \cup {Hard} /\ Halves = {Worker} \cup {IrqThread}
  BY DEF Counters, Halves
<1> QED
  BY <1>1, <1>2, <1>3, FS_Union

\* A set whose membership changes for one element only.
LEMMA OneElement ==
  ASSUME NEW S, NEW T, IsFiniteSet(S), NEW x, S \ {x} = T \ {x}
  PROVE  /\ IsFiniteSet(T) /\ Cardinality(S) \in Nat /\ Cardinality(T) \in Nat
         /\ Cardinality(T) = Cardinality(S) + One(x \in T) - One(x \in S)
<1> DEFINE R == S \ {x}
<1>1. IsFiniteSet(R) /\ Cardinality(R) \in Nat /\ Cardinality(S) \in Nat /\ x \notin R
  BY FS_RemoveElement, FS_CardinalityType
<1>2. S = IF x \in S THEN R \cup {x} ELSE R
  OBVIOUS
<1>3. T = IF x \in T THEN R \cup {x} ELSE R
  OBVIOUS
<1> HIDE DEF R
<1>4. IsFiniteSet(R \cup {x}) /\ Cardinality(R \cup {x}) = Cardinality(R) + 1
  BY <1>1, FS_AddElement
<1>5. IsFiniteSet(T) /\ Cardinality(T) = Cardinality(R) + One(x \in T)
  <2>1. CASE x \in T
    BY <1>3, <1>4, <2>1 DEF One
  <2>2. CASE x \notin T
    BY <1>1, <1>3, <2>2 DEF One
  <2> QED
    BY <2>1, <2>2
<1>6. Cardinality(S) = Cardinality(R) + One(x \in S)
  BY <1>1, <1>2, <1>4 DEF One
<1> QED
  BY <1>1, <1>5, <1>6 DEF One

\* How the three counts change from f to g when they differ for x only.
CountsChange(f, g, x) ==
  /\ Cardinality(Counting(f)) \in Nat /\ Cardinality(Counting(g)) \in Nat
  /\ Cardinality(Scheduling(f)) \in Nat /\ Cardinality(Scheduling(g)) \in Nat
  /\ Cardinality(Underway(f)) \in Nat /\ Cardinality(Underway(g)) \in Nat
  /\ Cardinality(Counting(g)) = Cardinality(Counting(f))
       + One(x \in Counters /\ g[x] \in {"lock", "locked"})
       - One(x \in Counters /\ f[x] \in {"lock", "locked"})
  /\ Cardinality(Scheduling(g)) = Cardinality(Scheduling(f))
       + One(x \in Counters /\ g[x] = "schedule")
       - One(x \in Counters /\ f[x] = "schedule")
  /\ Cardinality(Underway(g)) = Cardinality(Underway(f))
       + One(x \in Halves /\ g[x] # "idle") - One(x \in Halves /\ f[x] # "idle")

LEMMA Moves ==
  ASSUME NEW f, NEW g, NEW x \in Contexts, \A y \in Contexts \ {x} : g[y] = f[y]
  PROVE  CountsChange(f, g, x)
<1>1. IsFiniteSet(Counting(f)) /\ IsFiniteSet(Scheduling(f)) /\ IsFiniteSet(Underway(f))
  BY CountersFinite, FS_Subset DEF Counting, Scheduling, Underway
<1>2. /\ Counting(f) \ {x} = Counting(g) \ {x}
      /\ Scheduling(f) \ {x} = Scheduling(g) \ {x}
      /\ Underway(f) \ {x} = Underway(g) \ {x}
  BY DEF Counting, Scheduling, Underway, Counters, Halves, Contexts, Processes
<1>3. /\ x \in Counting(f) <=> x \in Counters /\ f[x] \in {"lock", "locked"}
      /\ x \in Scheduling(f) <=> x \in Counters /\ f[x] = "schedule"
      /\ x \in Underway(f) <=> x \in Halves /\ f[x] # "idle"
      /\ x \in Counting(g) <=> x \in Counters /\ g[x] \in {"lock", "locked"}
      /\ x \in Scheduling(g) <=> x \in Counters /\ g[x] = "schedule"
      /\ x \in Underway(g) <=> x \in Halves /\ g[x] # "idle"
  BY DEF Counting, Scheduling, Underway
<1>4. /\ Cardinality(Counting(f)) \in Nat /\ Cardinality(Counting(g)) \in Nat
      /\ Cardinality(Counting(g)) = Cardinality(Counting(f))
           + One(x \in Counting(g)) - One(x \in Counting(f))
  BY <1>1, <1>2, OneElement
<1>5. /\ Cardinality(Scheduling(f)) \in Nat /\ Cardinality(Scheduling(g)) \in Nat
      /\ Cardinality(Scheduling(g)) = Cardinality(Scheduling(f))
           + One(x \in Scheduling(g)) - One(x \in Scheduling(f))
  BY <1>1, <1>2, OneElement
<1>6. /\ Cardinality(Underway(f)) \in Nat /\ Cardinality(Underway(g)) \in Nat
      /\ Cardinality(Underway(g)) = Cardinality(Underway(f))
           + One(x \in Underway(g)) - One(x \in Underway(f))
  BY <1>1, <1>2, OneElement
<1> QED
  BY <1>3, <1>4, <1>5, <1>6 DEF CountsChange, One

-----------------------------------------------------------------------------
(* The invariant *)

\* Every kind of context has its own part of the program.
PlacesOf(x) ==
  IF x \in Writers \cup {Hard} THEN {"idle", "lock", "locked", "schedule"}
  ELSE IF x \in Readers THEN {"idle", "wait", "lock", "locked"}
  ELSE IF x = Worker THEN {"idle", "run"}
  ELSE {"idle", "woken", "run"}
Places == \A x \in Contexts : pc[x] \in PlacesOf(x)

\* The context in the critical section owns irq_lock and has loaded what
\* event_count still is; a process there has interrupts off where it runs.
LockInv ==
  /\ \A x \in Contexts : pc[x] = "locked" <=> irq_lock = x
  /\ \A x \in Contexts : pc[x] = "locked" => reg[x] = event_count
  /\ irq_lock \in Processes =>
       cpu[irq_lock] \in CPUs /\ irqs_off[cpu[irq_lock]] /\ ~InIrq(cpu[irq_lock])

\* EventCountExact and AnswersBacked, in terms of the three counts.
ToCount    == Cardinality(Counting(pc))
ToSchedule == Cardinality(Scheduling(pc))
ToComplete == Cardinality(Underway(pc))
Counted == event_count + ToCount = fired
Backed  == event_done + served + ToComplete + One(work_pending) <= event_count - ToSchedule

\* irq_demo_exit and the removal of the entries wait for what was begun.
Lifecycle ==
  /\ module \notin {"live", "quiesce"} => pc[Hard] = "idle" /\ pc[IrqThread] = "idle"
  /\ module \in {"unloaded", "oops"} => \A w \in Writers : pc[w] = "idle"
  /\ module \in {"remove_trigger", "unloaded", "oops"} => \A r \in Readers : pc[r] = "idle"

\* Only a write queues work after cancel_work_sync.
Quiet ==
  module \in {"loading", "remove_read", "remove_trigger", "unloaded"} /\ ~triggered
    => ~work_pending /\ pc[Worker] = "idle"

Inv == TypeOK /\ Places /\ LockInv /\ Counted /\ Backed /\ Lifecycle /\ Quiet

LEMMA CountsInNat ==
  ASSUME NEW f
  PROVE  /\ Cardinality(Counting(f)) \in Nat /\ Cardinality(Scheduling(f)) \in Nat
         /\ Cardinality(Underway(f)) \in Nat
<1>1. IsFiniteSet(Counting(f)) /\ IsFiniteSet(Scheduling(f)) /\ IsFiniteSet(Underway(f))
  BY CountersFinite, FS_Subset DEF Counting, Scheduling, Underway
<1> QED
  BY <1>1, FS_CardinalityType

\* With every context at rest nothing is counted.
LEMMA NoneAtRest ==
  ASSUME NEW f, \A x \in Contexts : f[x] = "idle"
  PROVE  /\ Cardinality(Counting(f)) = 0 /\ Cardinality(Scheduling(f)) = 0
         /\ Cardinality(Underway(f)) = 0
<1>1. Counting(f) = {} /\ Scheduling(f) = {} /\ Underway(f) = {}
  BY DEF Counting, Scheduling, Underway, Counters, Halves, Contexts, Processes
<1> QED
  BY <1>1, FS_EmptySet

\* The module is not loaded, and nothing of it runs.
LEMMA InitInv == Init => Inv
<1> SUFFICES ASSUME Init PROVE Inv
  OBVIOUS
<1>1. \A x \in Contexts : pc[x] = "idle"
  BY DEF Init
<1>2. TypeOK
  <2>1. 0 \in 0 .. MaxEvents /\ 0 \in Dones
    BY EventsAssumption, UIntAssumption DEF Dones
  <2>2. /\ module \in Modules /\ irq_lock \in Contexts \cup {Nobody}
        /\ event_count \in 0 .. MaxEvents /\ event_done \in Dones
        /\ fired \in 0 .. MaxEvents /\ covered \in 0 .. MaxEvents /\ served \in 0 .. MaxEvents
    BY <2>1 DEF Init, Modules
  <2>3. /\ using_fallback \in BOOLEAN /\ triggered \in BOOLEAN
        /\ work_pending \in BOOLEAN /\ line \in BOOLEAN /\ masked \in BOOLEAN
    BY Zenon DEF Init
  <2>4. /\ irqs_off \in [CPUs -> BOOLEAN] /\ cpu \in [Contexts -> CPUs \cup {Nobody}]
        /\ reg \in [Contexts -> 0 .. MaxEvents]
        /\ pc \in [Contexts -> {"idle", "wait", "lock", "locked", "schedule", "woken", "run"}]
    BY <2>1 DEF Init
  <2> QED
    BY <2>2, <2>3, <2>4 DEF TypeOK
<1>3. Places
  BY <1>1 DEF Places, PlacesOf
<1>4. LockInv
  BY <1>1, ContextsAssumption DEF LockInv, Init, Contexts
<1>5. Counted /\ Backed
  BY <1>1, NoneAtRest DEF Init, Counted, Backed, One, ToCount, ToSchedule, ToComplete
<1>6. Lifecycle /\ Quiet
  BY <1>1 DEF Init, Lifecycle, Quiet, Contexts, Processes, Halves
<1> QED
  BY <1>2, <1>3, <1>4, <1>5, <1>6 DEF Inv

-----------------------------------------------------------------------------
(* The steps *)

\* insmod and rmmod: no context moves, and a new insmod finds them all idle.
LEMMA ModuleStep ==
  ASSUME Inv, InitModule \/ Attach \/ ExitModule \/ ExitStep
  PROVE  Inv'
<1> USE DEF Inv, ToCount, ToSchedule, ToComplete
<1>1. CASE InitModule
  <2>1. \A x \in Contexts : pc[x] = "idle"
    BY <1>1 DEF InitModule, Lifecycle, Contexts, Processes, Halves
  <2>2. TypeOK'
    <3>1. 0 \in 0 .. MaxEvents /\ 0 \in Dones
      BY EventsAssumption, UIntAssumption DEF Dones
    <3>2. /\ line' \in BOOLEAN /\ masked' \in BOOLEAN /\ triggered' \in BOOLEAN
          /\ using_fallback' \in BOOLEAN /\ work_pending' \in BOOLEAN
      BY <1>1 DEF InitModule, TypeOK
    <3> QED
      BY <1>1, <3>1, <3>2 DEF InitModule, TypeOK, Modules, lock
  <2>3. Places' /\ LockInv'
    BY <1>1, <2>1 DEF InitModule, Places, LockInv, InIrq, lock
  <2>4. Counted' /\ Backed'
    BY <1>1, <2>1, NoneAtRest DEF InitModule, Counted, Backed, One, ToCount, ToSchedule, ToComplete
  <2>5. Lifecycle' /\ Quiet'
    BY <1>1, <2>1 DEF InitModule, Lifecycle, Quiet, Contexts, Processes, Halves
  <2> QED
    BY <2>2, <2>3, <2>4, <2>5
<1>2. CASE Attach
  BY <1>2 DEF Attach, TypeOK, Modules, Places, LockInv, InIrq, Counted, Backed, Lifecycle, Quiet,
     lock, halves, history
<1>3. CASE ExitModule
  BY <1>3 DEF ExitModule, TypeOK, Modules, Places, LockInv, InIrq, Counted, Backed, Lifecycle, Quiet,
     lock, halves, history
<1>4. CASE SourceStopped
  BY <1>4 DEF SourceStopped, TypeOK, Modules, Places, LockInv, InIrq, Counted, Backed, Lifecycle,
     Quiet, lock, halves, history
<1>5. CASE CancelWork
  <2>1. TypeOK' /\ Places' /\ LockInv' /\ Counted' /\ Lifecycle' /\ Quiet'
    BY <1>5 DEF CancelWork, TypeOK, Modules, Places, LockInv, InIrq, Counted, Lifecycle, Quiet, lock
  <2>2. Backed'
    BY <1>5, CountsInNat DEF CancelWork, Backed, One, TypeOK, Dones
  <2> QED
    BY <2>1, <2>2
<1>6. CASE ReadRemoved
  BY <1>6 DEF ReadRemoved, TypeOK, Modules, Places, LockInv, InIrq, Counted, Backed, Lifecycle,
     Quiet, lock, halves, history
<1>7. CASE TriggerRemoved
  BY <1>7 DEF TriggerRemoved, TypeOK, Modules, Places, LockInv, InIrq, Counted, Backed, Lifecycle,
     Quiet, lock, halves, history
<1> QED
  BY <1>1, <1>2, <1>3, <1>4, <1>5, <1>6, <1>7 DEF ExitStep

\* Goto moves one context.
LEMMA GotoMoves ==
  ASSUME TypeOK, NEW x \in Contexts, NEW label, Goto(x, label)
  PROVE  /\ \A y \in Contexts \ {x} : pc'[y] = pc[y]
         /\ pc'[x] = label
BY DEF TypeOK, Goto

\* What it does to the counts depends on where it was and where it goes.
LEMMA MoveCounts ==
  ASSUME NEW x \in Contexts, \A y \in Contexts \ {x} : pc'[y] = pc[y]
  PROVE  /\ ToCount \in Nat /\ ToSchedule \in Nat /\ ToComplete \in Nat
         /\ ToCount' \in Nat /\ ToSchedule' \in Nat /\ ToComplete' \in Nat
         /\ ToCount' = ToCount + One(x \in Counters /\ pc'[x] \in {"lock", "locked"})
                               - One(x \in Counters /\ pc[x] \in {"lock", "locked"})
         /\ ToSchedule' = ToSchedule + One(x \in Counters /\ pc'[x] = "schedule")
                                     - One(x \in Counters /\ pc[x] = "schedule")
         /\ ToComplete' = ToComplete + One(x \in Halves /\ pc'[x] # "idle")
                                     - One(x \in Halves /\ pc[x] # "idle")
BY Moves DEF CountsChange, ToCount, ToSchedule, ToComplete

\* Events counted and to be counted are no more than those that fired ...
LEMMA CountBounded ==
  ASSUME NEW count \in Nat, NEW coming \in Nat, NEW all \in 0 .. MaxEvents, count + coming = all
  PROVE  count \in 0 .. MaxEvents
BY EventsAssumption

\* ... and what the bottom halves give is no more than the events counted: done
\* stays below UINT_MAX, with what is still to be given.
LEMMA GivenBounded ==
  ASSUME NEW count \in 0 .. MaxEvents, NEW done \in Nat, NEW reads \in Nat, NEW coming \in Nat,
         NEW queued \in {0, 1}, NEW unscheduled \in Nat,
         done + reads + coming + queued <= count - unscheduled
  PROVE  /\ done \in Dones /\ done + coming < UINT_MAX /\ reads \in 0 .. MaxEvents
BY EventsAssumption, UIntAssumption DEF Dones

LEMMA CountsTyped == ToCount \in Nat /\ ToSchedule \in Nat /\ ToComplete \in Nat
BY CountsInNat DEF ToCount, ToSchedule, ToComplete

\* A process enters the critical section.
LEMMA LockStep ==
  ASSUME Inv, NEW t \in Processes, NEW k \in CPUs, LockIrqsave(t, k)
  PROVE  Inv'
<1> USE DEF Inv
<1>1. /\ t \in Contexts /\ t \notin Halves /\ t # Hard
      /\ (t \in Counters <=> t \in Writers) /\ (t \in Readers <=> t \notin Writers)
  BY ContextsDistinct, ContextsAssumption DEF Contexts, Counters, Processes, Halves
<1>2. /\ \A y \in Contexts \ {t} : pc'[y] = pc[y]
      /\ pc'[t] = "locked" /\ pc[t] = "lock"
  BY <1>1, GotoMoves DEF LockIrqsave
<1>3. TypeOK'
  BY <1>1, ContextsAssumption DEF LockIrqsave, Goto, TypeOK, halves, history
<1>4. Places'
  BY <1>1, <1>2 DEF Places, PlacesOf
<1>5. LockInv'
  <2>1. Nobody \notin Contexts
    BY ContextsAssumption
  <2>2. irq_lock = Nobody /\ irq_lock' = t /\ event_count' = event_count
    BY DEF LockIrqsave
  <2>3. reg'[t] = event_count /\ cpu'[t] = k /\ irqs_off'[k]
    BY <1>1 DEF LockIrqsave, TypeOK
  <2>4. ~InIrq(k)'
    <3>1. Hard \in Contexts /\ Hard # t
      BY <1>1 DEF Contexts
    <3>2. pc'[Hard] = pc[Hard] /\ cpu'[Hard] = cpu[Hard]
      BY <1>2, <3>1 DEF LockIrqsave, TypeOK
    <3> QED
      BY <3>2 DEF InIrq, LockIrqsave
  <2> QED
    BY <1>1, <1>2, <2>1, <2>2, <2>3, <2>4 DEF LockInv, InIrq
<1>6. Counted' /\ Backed'
  <2>1. ToCount' = ToCount /\ ToSchedule' = ToSchedule /\ ToComplete' = ToComplete
    BY <1>1, <1>2, MoveCounts DEF One
  <2> QED
    BY <2>1 DEF LockIrqsave, Counted, Backed, halves, history
<1>7. Lifecycle' /\ Quiet'
  BY <1>1, <1>2 DEF LockIrqsave, Lifecycle, Quiet, Contexts, Processes, Halves, halves, history
<1> QED
  BY <1>3, <1>4, <1>5, <1>6, <1>7

\* The hard handler gets the lock.
LEMMA LockInHandlerStep ==
  ASSUME Inv, LockInHandler
  PROVE  Inv'
<1> USE DEF Inv
<1>1. Hard \in Contexts /\ Hard \notin Halves \cup Processes /\ Hard \in Counters
  BY ContextsDistinct DEF Contexts, Counters
<1>2. /\ \A y \in Contexts \ {Hard} : pc'[y] = pc[y]
      /\ pc'[Hard] = "locked" /\ pc[Hard] = "lock"
  BY <1>1, GotoMoves DEF LockInHandler
<1>3. TypeOK'
  BY <1>1 DEF LockInHandler, Goto, TypeOK, halves, history
<1>4. Places'
  BY <1>1, <1>2 DEF Places, PlacesOf
<1>5. LockInv'
  <2>1. Nobody \notin Contexts
    BY ContextsAssumption
  <2>2. reg'[Hard] = event_count /\ \A x \in Contexts \ {Hard} : pc[x] # "locked"
    BY <1>1, <2>1 DEF LockInHandler, TypeOK, LockInv
  <2> QED
    BY <1>1, <1>2, <2>1, <2>2 DEF LockInv, LockInHandler
<1>6. Counted' /\ Backed'
  <2>1. ToCount' = ToCount /\ ToSchedule' = ToSchedule /\ ToComplete' = ToComplete
    BY <1>1, <1>2, MoveCounts DEF One
  <2> QED
    BY <2>1 DEF LockInHandler, Counted, Backed, halves, history
<1>7. Lifecycle' /\ Quiet'
  BY <1>1, <1>2 DEF LockInHandler, Lifecycle, Quiet, Contexts, Processes, Halves, halves, history
<1> QED
  BY <1>3, <1>4, <1>5, <1>6, <1>7

\* A handler begins only where interrupts are on, so not on top of the owner of
\* the lock; its event is to be counted.
LEMMA EnterStep ==
  ASSUME Inv, NEW k \in CPUs, EnterHandler(k)
  PROVE  Inv'
<1> USE DEF Inv
<1>1. Hard \in Contexts /\ Hard \notin Halves \cup Processes /\ Hard \in Counters
  BY ContextsDistinct DEF Contexts, Counters
<1>2. /\ \A y \in Contexts \ {Hard} : pc'[y] = pc[y]
      /\ pc'[Hard] = "lock" /\ pc[Hard] = "idle"
  BY <1>1, GotoMoves DEF EnterHandler
<1>3. TypeOK'
  <2>1. line' \in BOOLEAN /\ masked' \in BOOLEAN
    BY DEF EnterHandler, TypeOK
  <2>2. fired' \in 0 .. MaxEvents
    BY EventsAssumption DEF EnterHandler, TypeOK
  <2> QED
    BY <1>1, <2>1, <2>2 DEF EnterHandler, Goto, TypeOK
<1>4. Places'
  BY <1>1, <1>2 DEF Places, PlacesOf
<1>5. LockInv'
  <2>1. cpu'[Hard] = k /\ \A y \in Contexts \ {Hard} : cpu'[y] = cpu[y]
    BY <1>1 DEF EnterHandler, TypeOK
  <2>2. irq_lock # Hard
    BY <1>1, <1>2 DEF LockInv
  <2> QED
    BY <1>1, <1>2, <2>1, <2>2 DEF LockInv, EnterHandler, InIrq, Contexts
<1>6. Counted' /\ Backed'
  <2>1. /\ ToCount' = ToCount + 1 /\ ToSchedule' = ToSchedule /\ ToComplete' = ToComplete
        /\ ToCount \in Nat
    BY <1>1, <1>2, MoveCounts DEF One
  <2> QED
    BY <2>1 DEF EnterHandler, Counted, Backed, TypeOK
<1>7. Lifecycle' /\ Quiet'
  BY <1>1, <1>2 DEF EnterHandler, Attached, Lifecycle, Quiet, Contexts, Processes, Halves
<1> QED
  BY <1>3, <1>4, <1>5, <1>6, <1>7

\* do_hard_isr_work: what it adds 1 to is still event_count.
LEMMA CountInHandlerStep ==
  ASSUME Inv, CountInHandler
  PROVE  Inv'
<1> USE DEF Inv
<1>1. Hard \in Contexts /\ Hard \notin Halves \cup Processes /\ Hard \in Counters
  BY ContextsDistinct DEF Contexts, Counters
<1>2. /\ \A y \in Contexts \ {Hard} : pc'[y] = pc[y]
      /\ pc'[Hard] = "schedule" /\ pc[Hard] = "locked"
  BY <1>1, GotoMoves DEF CountInHandler
<1>3. event_count' = event_count + 1 /\ irq_lock = Hard
  BY <1>1, <1>2 DEF CountInHandler, LockInv
<1>4. Counted' /\ Backed' /\ ToCount' \in Nat /\ ToSchedule' \in Nat /\ ToComplete' \in Nat
  <2>1. /\ ToCount' = ToCount - 1 /\ ToSchedule' = ToSchedule + 1 /\ ToComplete' = ToComplete
        /\ ToCount \in Nat /\ ToSchedule \in Nat /\ ToComplete \in Nat
        /\ ToCount' \in Nat
    BY <1>1, <1>2, MoveCounts DEF One
  <2> QED
    BY <1>3, <2>1 DEF CountInHandler, Counted, Backed, TypeOK, Dones, One, halves, history
<1>5. TypeOK'
  <2>1. /\ event_count' \in Nat /\ event_done' \in Nat /\ served' \in Nat
        /\ fired' \in 0 .. MaxEvents
    BY <1>3, UIntAssumption DEF CountInHandler, TypeOK, Dones, history
  <2>2. event_count' \in 0 .. MaxEvents
    <3>1. event_count' + ToCount' = fired'
      BY <1>4 DEF Counted
    <3> QED
      BY <1>4, <2>1, <3>1, CountBounded
  <2> QED
    BY <1>1, <2>2, EventsAssumption DEF CountInHandler, Goto, TypeOK, halves, history
<1>6. Places'
  BY <1>1, <1>2 DEF Places, PlacesOf
<1>7. LockInv'
  <2>1. Nobody \notin Contexts
    BY ContextsAssumption
  <2> QED
    BY <1>1, <1>2, <1>3, <2>1 DEF LockInv, CountInHandler, Contexts
<1>8. Lifecycle' /\ Quiet'
  BY <1>1, <1>2 DEF CountInHandler, Lifecycle, Quiet, Contexts, Processes, Halves, halves, history
<1> QED
  BY <1>4, <1>5, <1>6, <1>7, <1>8

\* The end of the handler: the event it counted is handed to a bottom half, or to
\* one that is queued already.
LEMMA LeaveHandlerStep ==
  ASSUME Inv, LeaveHandler
  PROVE  Inv'
<1> USE DEF Inv
<1>1. /\ Hard \in Contexts /\ Hard \notin Halves \cup Processes /\ Hard \in Counters
      /\ IrqThread \in Contexts \cap Halves /\ IrqThread # Hard /\ IrqThread # Worker
      /\ IrqThread \notin Processes /\ IrqThread \notin Counters
  BY ContextsDistinct DEF Contexts, Counters, Halves, Processes
<1>2. pc[Hard] = "schedule" /\ pc'[Hard] = "idle"
  BY <1>1 DEF LeaveHandler, TypeOK
<1>3. /\ \A y \in Contexts \ {Hard, IrqThread} : pc'[y] = pc[y]
      /\ using_fallback => pc'[IrqThread] = pc[IrqThread] /\ work_pending'
      /\ ~using_fallback => pc'[IrqThread] = "woken" /\ work_pending' = work_pending
      /\ pc'[IrqThread] \in {"woken", pc[IrqThread]}
  BY <1>1 DEF LeaveHandler, TypeOK
<1>4. TypeOK'
  <2>1. work_pending' \in BOOLEAN
    BY DEF LeaveHandler, TypeOK
  <2>2. pc' \in [Contexts -> {"idle", "wait", "lock", "locked", "schedule", "woken", "run"}]
    BY <1>1 DEF LeaveHandler, TypeOK
  <2> QED
    BY <1>1, <2>1, <2>2 DEF LeaveHandler, TypeOK, history
<1>5. Places'
  BY <1>1, <1>2, <1>3 DEF Places, PlacesOf, Contexts, Halves, Processes
<1>6. LockInv'
  <2>1. \A x \in Contexts : pc'[x] = "locked" <=> pc[x] = "locked"
    BY <1>1, <1>2, <1>3 DEF Places, PlacesOf, Contexts, Halves, Processes
  <2>2. \A x \in Contexts \ {Hard} : cpu'[x] = cpu[x]
    BY <1>1 DEF LeaveHandler, TypeOK
  <2> QED
    BY <1>1, <1>2, <2>1, <2>2 DEF LockInv, LeaveHandler, InIrq, Contexts
<1>7. Counted' /\ Backed'
  <2> DEFINE mid == [pc EXCEPT ![Hard] = "idle"]
  <2>1. /\ \A y \in Contexts \ {Hard} : mid[y] = pc[y]
        /\ mid[Hard] = "idle"
        /\ \A y \in Contexts \ {IrqThread} : pc'[y] = mid[y]
        /\ mid[IrqThread] = pc[IrqThread]
    BY <1>1, <1>2, <1>3 DEF TypeOK
  <2> HIDE DEF mid
  <2>2. /\ Cardinality(Counting(mid)) = ToCount
        /\ Cardinality(Scheduling(mid)) = ToSchedule - 1
        /\ Cardinality(Underway(mid)) = ToComplete
    <3>1. CountsChange(pc, mid, Hard)
      BY <1>1, <2>1, Moves
    <3>2. /\ Cardinality(Counting(mid)) = Cardinality(Counting(pc))
          /\ Cardinality(Scheduling(mid)) = Cardinality(Scheduling(pc)) - 1
          /\ Cardinality(Underway(mid)) = Cardinality(Underway(pc))
      BY <1>1, <1>2, <2>1, <3>1 DEF CountsChange, One
    <3> QED
      BY <3>2 DEF ToCount, ToSchedule, ToComplete
  <2>3. /\ Cardinality(Counting(pc')) = Cardinality(Counting(mid))
        /\ Cardinality(Scheduling(pc')) = Cardinality(Scheduling(mid))
        /\ using_fallback => Cardinality(Underway(pc')) = Cardinality(Underway(mid))
        /\ Cardinality(Underway(pc')) \in
             {Cardinality(Underway(mid)), Cardinality(Underway(mid)) + 1}
    <3>1. CountsChange(mid, pc', IrqThread)
      BY <1>1, <2>1, Moves
    <3> QED
      BY <1>1, <1>3, <2>1, <3>1 DEF CountsChange, One
  <2>4. /\ ToCount' = ToCount /\ ToSchedule' = ToSchedule - 1
        /\ using_fallback => ToComplete' = ToComplete
        /\ ToComplete' \in {ToComplete, ToComplete + 1}
    BY <2>2, <2>3 DEF ToCount, ToSchedule, ToComplete
  <2>5. Counted'
    BY <2>4 DEF Counted, LeaveHandler, history
  <2>6. Backed'
    <3>1. One(work_pending) \in {0, 1} /\ One(work_pending') \in {0, 1}
      BY DEF One
    <3>2. ~using_fallback => One(work_pending') = One(work_pending)
      BY <1>3 DEF One
    <3>3. event_done' = event_done /\ served' = served /\ event_count' = event_count
      BY DEF LeaveHandler, history
    <3>4. event_done \in Nat /\ served \in Nat /\ event_count \in Nat
      BY EventsAssumption, UIntAssumption DEF TypeOK, Dones
    <3> QED
      BY <2>4, <3>1, <3>2, <3>3, <3>4, CountsTyped DEF Backed
  <2> QED
    BY <2>5, <2>6
<1>8. Lifecycle' /\ Quiet'
  <2>1. module \in {"live", "quiesce"} /\ module' = module
    BY <1>2 DEF Lifecycle, LeaveHandler
  <2> QED
    BY <1>1, <1>3, <2>1 DEF Lifecycle, Quiet
<1> QED
  BY <1>4, <1>5, <1>6, <1>7, <1>8

\* The worker takes the item off the queue: the count of what is to be given is
\* the same.
LEMMA WorkerStep ==
  ASSUME Inv, WorkerStarts
  PROVE  Inv'
<1> USE DEF Inv
<1>1. /\ Worker \in Contexts \cap Halves /\ Worker \notin Processes /\ Worker # Hard
      /\ Worker # IrqThread /\ Worker \notin Counters
  BY ContextsDistinct DEF Contexts, Counters, Halves, Processes
<1>2. /\ \A y \in Contexts \ {Worker} : pc'[y] = pc[y]
      /\ pc'[Worker] = "run" /\ pc[Worker] = "idle"
  BY <1>1, GotoMoves DEF WorkerStarts
<1>3. TypeOK'
  <2>1. module' \in Modules /\ work_pending' \in BOOLEAN
    BY DEF WorkerStarts, TypeOK, Modules
  <2>2. reg' \in [Contexts -> 0 .. MaxEvents]
    BY DEF WorkerStarts, TypeOK
  <2> QED
    BY <1>1, <2>1, <2>2 DEF WorkerStarts, Goto, TypeOK, lock, history
<1>4. Places'
  BY <1>1, <1>2 DEF Places, PlacesOf, Contexts, Processes, Halves
<1>5. LockInv'
  BY <1>1, <1>2 DEF LockInv, WorkerStarts, InIrq, Contexts, TypeOK, lock
<1>6. Counted' /\ Backed'
  <2>1. /\ ToCount' = ToCount /\ ToSchedule' = ToSchedule /\ ToComplete' = ToComplete + 1
    BY <1>1, <1>2, MoveCounts DEF One
  <2> QED
    BY <2>1, CountsTyped DEF WorkerStarts, Counted, Backed, One, TypeOK, Dones, history
<1>7. Lifecycle' /\ Quiet'
  BY <1>1, <1>2 DEF WorkerStarts, Lifecycle, Quiet, Contexts, Processes, Halves, history
<1> QED
  BY <1>3, <1>4, <1>5, <1>6, <1>7

\* The interrupt's thread starts.
LEMMA ThreadStep ==
  ASSUME Inv, IrqThreadStarts
  PROVE  Inv'
<1> USE DEF Inv
<1>1. /\ IrqThread \in Contexts \cap Halves /\ IrqThread \notin Processes /\ IrqThread # Hard
      /\ Worker # IrqThread /\ IrqThread \notin Counters
  BY ContextsDistinct DEF Contexts, Counters, Halves, Processes
<1>2. /\ \A y \in Contexts \ {IrqThread} : pc'[y] = pc[y]
      /\ pc'[IrqThread] = "run" /\ pc[IrqThread] = "woken"
  BY <1>1, GotoMoves DEF IrqThreadStarts
<1>3. TypeOK'
  <2>1. reg' \in [Contexts -> 0 .. MaxEvents]
    BY DEF IrqThreadStarts, TypeOK
  <2> QED
    BY <1>1, <2>1 DEF IrqThreadStarts, Goto, TypeOK, lock, halves, history
<1>4. Places'
  BY <1>1, <1>2 DEF Places, PlacesOf, Contexts, Processes, Halves
<1>5. LockInv'
  BY <1>1, <1>2 DEF LockInv, IrqThreadStarts, InIrq, Contexts, TypeOK, lock
<1>6. Counted' /\ Backed'
  <2>1. /\ ToCount' = ToCount /\ ToSchedule' = ToSchedule /\ ToComplete' = ToComplete
    BY <1>1, <1>2, MoveCounts DEF One
  <2> QED
    BY <2>1 DEF IrqThreadStarts, Counted, Backed, halves, history
<1>7. Lifecycle' /\ Quiet'
  BY <1>1, <1>2 DEF IrqThreadStarts, Lifecycle, Quiet, Contexts, Processes, Halves, halves, history
<1> QED
  BY <1>3, <1>4, <1>5, <1>6, <1>7

\* complete(&event_done): what is given is no more than the events counted, so
\* that done never reaches UINT_MAX.
LEMMA DoneStep ==
  ASSUME Inv, NEW b \in Halves, BottomHalfDone(b)
  PROVE  Inv'
<1> USE DEF Inv
<1>1. /\ b \in Contexts /\ b \notin Processes /\ b # Hard /\ b \notin Counters
      /\ b \in {Worker, IrqThread}
  BY ContextsDistinct DEF Contexts, Counters, Halves, Processes
<1>2. /\ \A y \in Contexts \ {b} : pc'[y] = pc[y]
      /\ pc'[b] = "idle" /\ pc[b] = "run"
  BY <1>1, GotoMoves DEF BottomHalfDone
<1>3. ToCount' = ToCount /\ ToSchedule' = ToSchedule /\ ToComplete' = ToComplete - 1
  BY <1>1, <1>2, MoveCounts DEF One
<1>4. ToComplete \in Nat /\ ToComplete > 0
  BY <1>3, CountsTyped, <1>1, <1>2, MoveCounts
<1>5. event_done + ToComplete < UINT_MAX /\ event_done \in Nat
  <2>1. /\ event_done \in Nat /\ served \in Nat /\ event_count \in 0 .. MaxEvents
        /\ One(work_pending) \in {0, 1}
    BY EventsAssumption, UIntAssumption DEF TypeOK, Dones, One
  <2>2. event_done + served + ToComplete + One(work_pending) <= event_count - ToSchedule
    BY DEF Backed
  <2> QED
    BY <2>1, <2>2, CountsTyped, GivenBounded
<1>6. event_done' = event_done + 1 /\ event_done' \in Dones
  BY <1>4, <1>5, UIntAssumption DEF BottomHalfDone, Complete, Dones
<1>7. TypeOK'
  <2>1. module' \in Modules /\ masked' \in BOOLEAN
    BY DEF BottomHalfDone, TypeOK, Modules
  <2>2. reg[b] \in 0 .. MaxEvents /\ covered' \in 0 .. MaxEvents
    BY <1>1 DEF BottomHalfDone, TypeOK
  <2>3. 0 \in 0 .. MaxEvents /\ reg' = [reg EXCEPT ![b] = 0]
    BY EventsAssumption DEF BottomHalfDone
  <2> QED
    BY <1>1, <1>6, <2>1, <2>2, <2>3 DEF BottomHalfDone, Goto, TypeOK, lock
<1>8. Places'
  BY <1>1, <1>2 DEF Places, PlacesOf, Contexts, Processes, Halves
<1>9. LockInv'
  BY <1>1, <1>2 DEF LockInv, BottomHalfDone, InIrq, Contexts, TypeOK, lock
<1>10. Counted' /\ Backed'
  <2>1. One(work_pending) \in {0, 1} /\ work_pending' = work_pending
    BY DEF One, BottomHalfDone
  <2> QED
    BY <1>3, <1>4, <1>5, <1>6, <2>1, CountsTyped DEF BottomHalfDone, Counted, Backed, TypeOK
<1>11. Lifecycle' /\ Quiet'
  BY <1>1, <1>2 DEF BottomHalfDone, Lifecycle, Quiet, Contexts, Processes, Halves
<1> QED
  BY <1>7, <1>8, <1>9, <1>10, <1>11

\* A write to /proc/irq_demo_trigger begins: an event to be counted.
LEMMA BeginTriggerStep ==
  ASSUME Inv, NEW w \in Writers, BeginTrigger(w)
  PROVE  Inv'
<1> USE DEF Inv
<1>1. /\ w \in Contexts /\ w \notin Halves /\ w # Hard /\ w \in Counters /\ w \notin Readers
      /\ w \in Processes
  BY ContextsDistinct, ContextsAssumption DEF Contexts, Counters, Processes, Halves
<1>2. /\ \A y \in Contexts \ {w} : pc'[y] = pc[y]
      /\ pc'[w] = "lock" /\ pc[w] = "idle"
  BY <1>1, GotoMoves DEF BeginTrigger
<1>3. TypeOK'
  <2>1. fired' \in 0 .. MaxEvents
    BY EventsAssumption DEF BeginTrigger, TypeOK
  <2> QED
    BY <1>1, <2>1 DEF BeginTrigger, Goto, TypeOK, lock, halves
<1>4. Places'
  BY <1>1, <1>2 DEF Places, PlacesOf
<1>5. LockInv'
  BY <1>1, <1>2 DEF LockInv, BeginTrigger, InIrq, Contexts, lock
<1>6. Counted' /\ Backed'
  <2>1. ToCount' = ToCount + 1 /\ ToSchedule' = ToSchedule /\ ToComplete' = ToComplete
    BY <1>1, <1>2, MoveCounts DEF One
  <2> QED
    BY <2>1, CountsTyped DEF BeginTrigger, Counted, Backed, TypeOK, halves
<1>7. Lifecycle' /\ Quiet'
  BY <1>1, <1>2 DEF BeginTrigger, TriggerEntry, ReadEntry, Lifecycle, Quiet, Contexts, Processes,
     Halves, halves
<1> QED
  BY <1>3, <1>4, <1>5, <1>6, <1>7

\* event_count++ in a write.
LEMMA CountInTriggerStep ==
  ASSUME Inv, NEW w \in Writers, CountInTrigger(w)
  PROVE  Inv'
<1> USE DEF Inv
<1>1. /\ w \in Contexts /\ w \notin Halves /\ w # Hard /\ w \in Counters /\ w \notin Readers
      /\ w \in Processes
  BY ContextsDistinct, ContextsAssumption DEF Contexts, Counters, Processes, Halves
<1>2. /\ \A y \in Contexts \ {w} : pc'[y] = pc[y]
      /\ pc'[w] = "schedule" /\ pc[w] = "locked"
  BY <1>1, GotoMoves DEF CountInTrigger
<1>3. event_count' = event_count + 1 /\ irq_lock = w
  BY <1>1, <1>2 DEF CountInTrigger, LockInv
<1>4. Counted' /\ Backed' /\ ToCount' \in Nat
  <2>1. /\ ToCount' = ToCount - 1 /\ ToSchedule' = ToSchedule + 1 /\ ToComplete' = ToComplete
        /\ ToCount' \in Nat
    BY <1>1, <1>2, MoveCounts DEF One
  <2> QED
    BY <1>3, <2>1, CountsTyped DEF CountInTrigger, Counted, Backed, TypeOK, Dones, One, halves, history
<1>5. TypeOK'
  <2>1. event_count' \in Nat /\ fired' \in 0 .. MaxEvents
    BY <1>3 DEF CountInTrigger, TypeOK, history
  <2>2. event_count' \in 0 .. MaxEvents
    <3>1. event_count' + ToCount' = fired'
      BY <1>4 DEF Counted
    <3> QED
      BY <1>4, <2>1, <3>1, CountBounded
  <2>3. reg' \in [Contexts -> 0 .. MaxEvents] /\ cpu' \in [Contexts -> CPUs \cup {Nobody}]
    <3>1. 0 \in 0 .. MaxEvents
      BY EventsAssumption
    <3> QED
      BY <3>1 DEF CountInTrigger, Unlock, TypeOK
  <2>4. irqs_off' \in [CPUs -> BOOLEAN]
    BY DEF CountInTrigger, Unlock, TypeOK
  <2> QED
    BY <1>1, <2>2, <2>3, <2>4 DEF CountInTrigger, Unlock, Goto, TypeOK, halves, history
<1>6. Places'
  BY <1>1, <1>2 DEF Places, PlacesOf
<1>7. LockInv'
  <2>1. Nobody \notin Contexts
    BY ContextsAssumption
  <2> QED
    BY <1>1, <1>2, <1>3, <2>1 DEF LockInv, CountInTrigger, Unlock, Contexts
<1>8. Lifecycle' /\ Quiet'
  BY <1>1, <1>2 DEF CountInTrigger, Lifecycle, Quiet, Contexts, Processes, Halves, halves, history
<1> QED
  BY <1>4, <1>5, <1>6, <1>7, <1>8

\* schedule_work in a write: one item more to be run, or the one that is queued.
LEMMA ScheduleStep ==
  ASSUME Inv, NEW w \in Writers, ScheduleWork(w)
  PROVE  Inv'
<1> USE DEF Inv
<1>1. /\ w \in Contexts /\ w \notin Halves /\ w # Hard /\ w \in Counters /\ w \notin Readers
      /\ w \in Processes
  BY ContextsDistinct, ContextsAssumption DEF Contexts, Counters, Processes, Halves
<1>2. /\ \A y \in Contexts \ {w} : pc'[y] = pc[y]
      /\ pc'[w] = "idle" /\ pc[w] = "schedule"
  BY <1>1, GotoMoves DEF ScheduleWork
<1>3. TypeOK'
  <2>1. work_pending' \in BOOLEAN /\ triggered' \in BOOLEAN
    BY Zenon DEF ScheduleWork
  <2> QED
    BY <1>1, <2>1 DEF ScheduleWork, Goto, TypeOK, lock
<1>4. Places'
  BY <1>1, <1>2 DEF Places, PlacesOf
<1>5. LockInv'
  BY <1>1, <1>2 DEF LockInv, ScheduleWork, InIrq, Contexts, lock
<1>6. Counted' /\ Backed'
  <2>1. ToCount' = ToCount /\ ToSchedule' = ToSchedule - 1 /\ ToComplete' = ToComplete
    BY <1>1, <1>2, MoveCounts DEF One
  <2>2. One(work_pending) \in {0, 1} /\ One(work_pending') \in {0, 1}
    BY DEF One
  <2>3. event_done \in Nat /\ served \in Nat /\ event_count \in Nat
    BY EventsAssumption, UIntAssumption DEF TypeOK, Dones
  <2>4. /\ event_count' = event_count /\ event_done' = event_done
        /\ served' = served /\ fired' = fired
    BY DEF ScheduleWork
  <2> QED
    BY <2>1, <2>2, <2>3, <2>4, CountsTyped DEF Counted, Backed
<1>7. Lifecycle' /\ Quiet'
  BY <1>1, <1>2 DEF ScheduleWork, Lifecycle, Quiet, Contexts, Processes, Halves
<1> QED
  BY <1>3, <1>4, <1>5, <1>6, <1>7

\* A read is no event: only its answer changes what is given.
LEMMA ReadStep ==
  ASSUME Inv, NEW r \in Readers, BeginRead(r) \/ ReaderStep(r)
  PROVE  Inv'
<1> USE DEF Inv
<1>1. /\ r \in Contexts /\ r \notin Halves /\ r # Hard /\ r \notin Counters /\ r \notin Writers
      /\ r \in Processes
  BY ContextsDistinct, ContextsAssumption DEF Contexts, Counters, Processes, Halves
<1>2. ASSUME \A y \in Contexts \ {r} : pc'[y] = pc[y]
      PROVE  ToCount' = ToCount /\ ToSchedule' = ToSchedule /\ ToComplete' = ToComplete
  BY <1>1, <1>2, CountsTyped, MoveCounts DEF One
<1>3. CASE BeginRead(r) \/ WaitFails(r)
  <2>1. /\ \A y \in Contexts \ {r} : pc'[y] = pc[y]
        /\ pc'[r] \in {"idle", "wait"} /\ pc[r] \in {"idle", "wait"}
        /\ pc'[r] = "idle" \/ ReadEntry
    BY <1>1, <1>3, GotoMoves DEF BeginRead, WaitFails
  <2>2. TypeOK'
    BY <1>1, <1>3 DEF BeginRead, WaitFails, Goto, TypeOK, lock, halves, history
  <2>3. Places' /\ LockInv'
    BY <1>1, <1>3, <2>1 DEF BeginRead, WaitFails, Places, PlacesOf, LockInv, InIrq, Contexts, lock
  <2>4. Counted' /\ Backed'
    BY <1>2, <1>3, <2>1 DEF BeginRead, WaitFails, Counted, Backed, halves, history
  <2>5. Lifecycle' /\ Quiet'
    BY <1>1, <1>3, <2>1 DEF BeginRead, WaitFails, ReadEntry, Lifecycle, Quiet, Contexts, Processes,
       Halves, halves, history
  <2> QED
    BY <2>2, <2>3, <2>4, <2>5
<1>4. CASE WaitDone(r)
  <2>1. /\ \A y \in Contexts \ {r} : pc'[y] = pc[y]
        /\ pc'[r] = "lock" /\ pc[r] = "wait"
    BY <1>1, <1>4, GotoMoves DEF WaitDone
  <2>2. /\ event_done \in Nat /\ served \in Nat /\ event_count \in 0 .. MaxEvents
        /\ One(work_pending) \in {0, 1}
    BY EventsAssumption, UIntAssumption DEF TypeOK, Dones, One
  <2>3. event_done' = event_done - 1 /\ event_done' \in Nat /\ served' = served + 1
    <3>1. event_done + ToComplete < UINT_MAX
      BY <2>2, CountsTyped, GivenBounded DEF Backed
    <3> QED
      BY <1>4, <2>2, <3>1, CountsTyped, UIntAssumption DEF WaitDone, Pass, MayPass
  <2>4. Counted' /\ Backed'
    <3>1. /\ work_pending' = work_pending /\ event_count' = event_count /\ fired' = fired
      BY <1>4 DEF WaitDone, halves
    <3> QED
      BY <1>2, <2>1, <2>2, <2>3, <3>1, CountsTyped DEF Counted, Backed
  <2>5. event_done' \in Dones /\ served' \in 0 .. MaxEvents
    <3>1. /\ event_count' = event_count /\ work_pending' = work_pending
          /\ served' \in Nat /\ One(work_pending') \in {0, 1}
      BY <1>4, <2>2, <2>3 DEF WaitDone, halves, One
    <3>2. event_done' + served' + ToComplete' + One(work_pending') <= event_count' - ToSchedule'
      BY <2>4 DEF Backed
    <3> QED
      BY <1>2, <2>1, <2>2, <2>3, <3>1, <3>2, CountsTyped, GivenBounded
  <2>6. TypeOK'
    BY <1>1, <1>4, <2>5 DEF WaitDone, Goto, TypeOK, lock, halves
  <2>7. Places' /\ LockInv'
    BY <1>1, <1>4, <2>1 DEF WaitDone, Places, PlacesOf, LockInv, InIrq, Contexts, lock
  <2>8. Lifecycle' /\ Quiet'
    BY <1>1, <1>4, <2>1 DEF WaitDone, Lifecycle, Quiet, Contexts, Processes, Halves, halves
  <2> QED
    BY <2>4, <2>6, <2>7, <2>8
<1>5. CASE EndRead(r)
  <2>1. /\ \A y \in Contexts \ {r} : pc'[y] = pc[y]
        /\ pc'[r] = "idle" /\ pc[r] = "locked"
    BY <1>1, <1>5, GotoMoves DEF EndRead
  <2>2. TypeOK'
    <3>1. 0 \in 0 .. MaxEvents
      BY EventsAssumption
    <3>2. reg' \in [Contexts -> 0 .. MaxEvents] /\ cpu' \in [Contexts -> CPUs \cup {Nobody}]
      BY <1>5, <3>1 DEF EndRead, Unlock, TypeOK
    <3>3. irqs_off' \in [CPUs -> BOOLEAN]
      BY <1>5 DEF EndRead, Unlock, TypeOK
    <3> QED
      BY <1>1, <1>5, <3>2, <3>3 DEF EndRead, Unlock, Goto, TypeOK, halves, history
  <2>3. Places'
    BY <1>1, <2>1 DEF Places, PlacesOf
  <2>4. LockInv'
    <3>1. Nobody \notin Contexts /\ irq_lock = r
      BY <1>1, <2>1, ContextsAssumption DEF LockInv
    <3> QED
      BY <1>1, <1>5, <2>1, <3>1 DEF LockInv, EndRead, Unlock, Contexts
  <2>5. Counted' /\ Backed'
    BY <1>2, <1>5, <2>1 DEF EndRead, Counted, Backed, halves, history
  <2>6. Lifecycle' /\ Quiet'
    BY <1>1, <1>5, <2>1 DEF EndRead, Lifecycle, Quiet, Contexts, Processes, Halves, halves, history
  <2> QED
    BY <2>2, <2>3, <2>4, <2>5, <2>6
<1> QED
  BY <1>3, <1>4, <1>5 DEF ReaderStep

\* An edge is latched; or nothing happens.
LEMMA IdleStep ==
  ASSUME Inv, Edge \/ UNCHANGED vars
  PROVE  Inv'
<1> USE DEF Inv
<1>1. CASE Edge
  <2>1. line' \in BOOLEAN
    BY <1>1, Zenon DEF Edge
  <2> QED
    BY <1>1, <2>1 DEF Edge, TypeOK, Places, LockInv, InIrq, Counted, Backed, Lifecycle, Quiet,
       ToCount, ToSchedule, ToComplete, lock, history
<1>2. CASE UNCHANGED vars
  BY <1>2 DEF vars, TypeOK, Places, LockInv, InIrq, Counted, Backed, Lifecycle, Quiet,
     ToCount, ToSchedule, ToComplete, lock, halves, history
<1> QED
  BY <1>1, <1>2

\* Every step keeps the invariant.
LEMMA NextInv == Inv /\ [Next]_vars => Inv'
BY ModuleStep, LockStep, LockInHandlerStep, EnterStep, CountInHandlerStep, LeaveHandlerStep,
   WorkerStep, ThreadStep, DoneStep, BeginTriggerStep, CountInTriggerStep, ScheduleStep, ReadStep,
   IdleStep DEF Next, HardStep, TakeLock, WriterStep

-----------------------------------------------------------------------------

\* The inductive invariant, in every state of every behaviour.
THEOREM Invariance == Spec => []Inv
BY InitInv, NextInv, PTL DEF Spec

\* Every variable of irq_demo.c keeps its type; in particular event_done counts
\* neither below 0 nor to UINT_MAX, where complete() would mean complete_all().
THEOREM TypeCorrect == Spec => []TypeOK
<1>1. Inv => TypeOK
  BY DEF Inv
<1> QED
  BY <1>1, Invariance, PTL

\* spin_lock_irqsave keeps the handler from the CPU of the lock's owner, on any
\* number of CPUs: no handler spins on a lock whose owner it has interrupted.
THEOREM NoDeadlockOnLock == Spec => []HolderNotInterrupted
<1>1. Inv => HolderNotInterrupted
  BY DEF Inv, LockInv, HolderNotInterrupted
<1> QED
  BY <1>1, Invariance, PTL

\* irq_lock makes event_count++ of handlers and writes exact, however many there
\* are and wherever they run.
THEOREM NoEventLost == Spec => []EventCountExact
<1>1. Inv => EventCountExact
  BY DEF Inv, Counted, ToCount, Counting, EventCountExact, Number
<1> QED
  BY <1>1, Invariance, PTL

\* No read is answered without an event of its own, although events share a
\* queued work item and complete() is called from two kinds of bottom half.
THEOREM NoAnswerFromNothing == Spec => []AnswersBacked
<1>1. Inv => AnswersBacked
  BY DEF Inv, Backed, ToSchedule, ToComplete, Scheduling, Underway, One, AnswersBacked, Number
<1> QED
  BY <1>1, Invariance, PTL

\* irq_demo_exit leaves nothing queued or running, but for the work that a write
\* queues between cancel_work_sync and the removal of its entry.
THEOREM UnloadClean == Spec => []QuietUnlessTriggered
<1>1. Inv => QuietUnlessTriggered
  BY DEF Inv, Lifecycle, Quiet, QuietUnlessTriggered, NothingLeft, Contexts, Processes, Halves
<1> QED
  BY <1>1, Invariance, PTL
=============================================================================
