# Verification of the driver and bare-metal examples

TLA+ models of this repository's drivers and bare-metal programs: the kernel
modules and the threads of `04_Kernel_Sync`, the character drivers, the platform
driver, the vmalloc module, and the interrupt, exception and MMU programs of
`03_ARM_Architecture`. TLC checks them on small instances; TLAPS proves every
safety property that a run checks, and the refinement of the buffer pool, for all
values of the constants.
Paths below are relative to `src/`.

## 1. Inventory

The repository is a set of independent programs. No two of them share state;
each interacts only with the kernel (or the hardware) and with its users. So
there is one module per program, built on small modules for the kernel objects
and devices they use, and no composition of all of them.

| Program | State | Operations | What is hard | Correct when | Model |
|---|---|---|---|---|---|
| `04_Kernel_Sync/03_Semaphore_Kernel/semaphore/sem_demo.c` | ring of `POOL_SIZE` slots, two indices, two counters, semaphores `free_slots` and `filled_slots`, mutex `buf_lock`, one kthread, one proc entry | insmod (three fallible steps), rmmod, producer loop, write and read of `/proc/sem_demo`, signals | several writers and the producer between semaphore and mutex; a signal in `down_interruptible`; rmmod with someone asleep, whom `kthread_stop` wakes or not, by kernel; indices that wrap | no slot lost, FIFO, sleepers served, a consistent report, rmmod ends | `SemDemo` |
| `04_Kernel_Sync/04_spinLocks_Kernel/exercise/completion_demo.c` | completions `init_done`, `release_gate`, 1 + `NUM_WAITERS` kthreads, two proc entries | insmod and rmmod thread by thread, `worker_fn`, `waiter_fn`, `status_read`, `release_write` | `complete` against `complete_all`; uninterruptible waits met by `kthread_stop` and `remove_proc_entry`; a thread stopped before it runs or never created | one permission per `complete`, an open gate stays open, everyone passes, rmmod ends | `CompletionDemo` |
| `04_Kernel_Sync/04_spinLocks_Kernel/exercise/irq_demo.c` | `event_count` under `irq_lock`, completion `event_done`, a work item, an irq line or hrtimer, two proc entries | hard handler, threaded handler or work item, `irq_demo_trigger_write`, `irq_demo_read` with its timeout, insmod, rmmod | an interrupt on top of a lock holder; coalesced work; a timeout racing a completion; the order of the teardown | no lost event, no spin deadlock, each answer backed by an event, each event reaches a bottom half, nothing runs after rmmod | `IrqDemo` |
| `03_ARM_Architecture/04_GIC_Interrupt` | GIC enables and active interrupt, generic timer, PL011 FIFOs and interrupts, DAIF | `main()` set-up and test string, `irq_handler`, timer reload, `uart_irq_handler` | hardware that moves between any two instructions; level-sensitive interrupts that come back | the echo is exact for input without end, the timer served, `main()` goes on | `GicInterrupt` |
| `01_Character_Driver/01_Basic/main.c` | file positions, four registrations, references to the module | open, read, write, llseek, release, insmod with goto unwinding, rmmod | calls that overlap on one open file; faults half-way; transfer length at the end of the buffer; an open before insmod has finished | positions bounded and the sum of what was moved; unwinding complete; no file outlives the module | `CharBasic` |
| `03_ARM_Architecture/03_MMU` | four translation tables, MMU registers | `map_region`, `mmu_init` | unsigned loop counter; tables shared by all pages; the MMU goes on under the running program | every address translates as intended, and only then is the MMU on | `KernelMmu` |
| `04_Kernel_Sync/02_Mutex_Kernel/main.c` (`03_Semaphore_Kernel/main.c` is a copy), `01_Mutex_User_Space/race.c` | a counter, a mutex, two threads | increment, insmod with its failures, rmmod; create, join, print | lost updates; a thread left behind when the second is not created; stopping threads that wait for the mutex | the count is exact, no thread runs without its module, rmmod ends | `MutexCounter` |
| `01_Character_Driver/02_Advance_Param_Passing/main.c` | class, region, and a cdev and a device for each of several minors | registration loop, unwinding, open, release (rmmod never runs: insmod always fails, as all devices get one name) | a failure in the middle of the loop, devices opened before it | a failed insmod leaves nothing, but what one label forgets | `CharAdvance` |
| `02_Platform_driver/main.c` | private data, mapped regions of each device | probe (nine fallible calls), remove, release by the driver core | results that are not what is tested; devices that want one region | a bound device has what it did not lose in those calls, an unbound one holds nothing | `PlatformProbe` |
| `03_ARM_Architecture/02_Abort`, and the vector of `04_GIC_Interrupt` | `struct pt_regs` on the stack | save, handler, restore, `eret` | scratch registers and slot numbers written by hand | the interrupted program does not notice | `ExceptionVectors` |
| `05_Kernel_Memory_Management/02_Vmalloc_Basic` | two buffers | insmod with unwinding, contiguity check, rmmod | the second allocation fails; pages that are not found | all freed, the count is right | `VmallocCheck` |
| `05_Kernel_Memory_Management/01_Basic` | two buffers | insmod, rmmod | `vmalloc` is called with two arguments: it does not build | | not modelled |
| `00_Basic`, `03_ARM_Architecture/01_Boot` | none | log messages; straight-line start-up | nothing a property could tell apart | | not modelled |

The directories `01_Character_Driver/03_Advance_Ioctl_Cmd` and `06_` to `12_`
are empty placeholders. `Docs`, `Debug_Images`, Makefiles, linker scripts and
the command lists hold no logic; the `README`s and exercise sheets are read for
what they claim.

## 2. Modules

| Module | Stands for |
|---|---|
| `KSemaphore` | `struct semaphore` (external): `count` and the list of sleepers. `up()` hands its unit to the oldest sleeper and leaves `count` alone. |
| `KCompletion` | `struct completion` (external): a counter that `complete_all` sets to `UINT_MAX` and that then does not go down. |
| `Pl011` | the receive side of the UART (external hardware), from the registers `uart.c` uses |
| `BoundedQueue` | abstract specification: a FIFO of at most `Capacity` values |
| `SemDemo`, `CompletionDemo`, `IrqDemo`, `CharBasic`, `GicInterrupt`, `KernelMmu` | six programs |
| `MutexCounter`, `CharAdvance`, `PlatformProbe`, `VmallocCheck`, `ExceptionVectors` | the smaller programs; each has its own variables, initial states and next-state relations |
| `MCCharBasic` | `CharBasic` with its symmetry, for TLC |
| `MCPrograms` | the smaller programs for TLC: the first state chooses one, and the behaviour is one of it |
| `SemDemoProofs`, `SemDemoQueueProofs`, `CompletionDemoProofs`, `IrqDemoProofs`, `GicInterruptProofs`, `CharBasicProofs`, `KernelMmuProofs`, `ProgramsProofs` | theorems: the two of `SemDemo`, the last of the small programs, the others of the program they are named after |

Each program's module holds its own constants and properties, and a `.cfg`
gives values to the constants (sets of processes as model values, depths and
bounds as numbers), so only the symmetry of `CharBasic` and the five small
programs need an MC module. These five share nothing: a state of two of them side
by side is a pair of states of one each, and shows no more. An operator marked
"Mutant:" is the action after it with one plausible mistake; no specification
uses it. They are there to see that a property fails when the code is wrong.

### How the code corresponds

A task has a program counter. An atomic step is a piece of code that no other
task can see half done: a call of a semaphore, completion or mutex (its own
lock makes it atomic), or a single access to shared data. Critical sections are
split into at least two steps, so it is the lock in the model, not the size of
a step, that protects them.

**SemDemo.** `InitModule`, `RunProducer` and `RunProducerFails` are
`sem_demo_init` up to and including `proc_create`, and `kthread_run` with its
two results; `ExitModule`, `ProducerStopped`, `ProcRemoved` are `sem_demo_exit`
split at its two waiting calls. The proc entry accepts calls before
`kthread_run`, as in the code. `CheckStop`, `DownFree`, `LockBuffer`,
`FillSlot`, `AdvanceProducer`, `UpFilled` are one round of `producer_fn`;
`BeginWrite`, `DownFilled`, `Interrupt`, `LockBuffer`, `ReadSlot`,
`AdvanceConsumer`, `UpFree` are `demo_proc_write`. `demo_proc_read` reads the
two counts in either order (C leaves it open), under the mutex but not under
the semaphores' locks. `ProducerInterrupted` is the branch of `producer_fn` for an
interrupted `down_interruptible` (lines 62-65). A kernel thread receives no signal
unless it asks for it with `allow_signal`, and this one does not; what interrupts
it is `kthread_stop`, which since Linux 6.0 sets `TIF_NOTIFY_SIGNAL` in the thread.
Before, it did not. The repository builds for either (its Makefiles take
`uname -r`; `Qemu_cmds.md` boots the 5.15 of Ubuntu jammy or torvalds/linux), so
the constant `StopSignals` says which kernel runs. It is the only place where the
version matters.

**CompletionDemo.** Thread 0 is the worker, thread i + 1 `waiters[i]`. A
created thread is "new" until first scheduled; `kthread_stop` before that ends
it without running its function. No result of `kthread_run` is checked in the
code, so a thread may be "failed", and stopping it is an oops. Both waits are
uninterruptible. A read call returns and the program that made it may call
again; the `*off > 0` end-of-file call waits for nothing and is left out.

**IrqDemo.** A context is anything that runs code of the module. The hard
handler runs on the CPU it interrupts: while it is there, the process below it
does not move. A process picks a CPU when it takes the spinlock and stays there
until it releases it. `schedule_work` of a queued item does nothing; a work
item that runs can be queued again. The threaded mode masks the line
(`IRQF_ONESHOT`) until its thread is done and latches one edge meanwhile.
`module = "oops"` is code of a module that is gone being run. `fired`, `covered`,
`served`, `triggered` are history variables and guard no action, with one
exception: `fired < MaxEvents` bounds the behaviour.

**GicInterrupt.** `main` is the call `main()` is about to make, `pc` the place
in `irq_handler`. Taking the exception masks interrupts until `eret`, so a
handler is not interrupted, but timer, received characters, receive timeout
and transmission may happen between any two of its steps. An interrupt that is
signalled and unmasked is taken before the next step of `main()`. Characters may
come in for ever. They are numbered in their order of arrival, from 1 to `Numbers`
and then from 1 again; more numbers than places between the line and the echo
(`Numbers > FifoDepth + 1`) keep those that are there at one time apart. So `out`,
the last echoed character, is all of the echo that the model has to keep.

**CharBasic.** `module` is the call insmod or rmmod is about to make, with the
goto labels of the unwinding as values. `dev_read` and `dev_write` differ only
in the direction of the copy and are one action: `BeginTransfer` takes the copy
of `f_pos` that `read(2)` makes, `Transfer` is the driver with a copy that may
fault after any number of bytes, `StorePosition` is the store after it. Nothing
locks `f_pos` of a character device, so calls of other processes come in
between. `dev_lseek` computes and checks a target from `f_pos` and stores it in
a later step. An open is possible from `cdev_add` on and takes a reference
(`.owner`), which `rmmod` respects and a failing insmod does not.

**KernelMmu.** `MapPage` is one round of `map_region` (nothing runs beside it,
so a round is one step), the `write_` actions are `mmu_init`. `region` stands for
the three constants of `kernel_mmu.h`; the model takes any region of whole pages
under one entry of level 2, which is all that one table per level can hold. `Walk`
and `Access` are the hardware's.

**MutexCounter.** `counter + 1` is `Load` and `Store`; `Lock` to `Unlock` are one
round of `func_1`, `func_2` and of `func` in `race.c`, which differ in the loop
around it (`ShouldStop` and `Sleep`, or `For`). `Create`, `WakeUp`, `Stop` and
`Stopped` are taken once for each thread. An insmod that fails leaves what it
created and is not repeated.

**CharAdvance.** `driver` is the call insmod is about to make, `itr` its loop
counter. `Acquire` and `GiveBack` are a call that registers, or fails, and its
inverse. `held` is what the kernel knows of the driver. The format given to
`device_create` (lines 281-282) is `"drv_dvc"`, which has no conversion; `"%d"` and
`itr + 1` are arguments nobody reads. All devices have one name, and a class does not
take a name twice: `NameTaken` makes every `device_create` after the first fail. So
insmod never succeeds, and `dev_driver_clean`, which only rmmod calls, has no action.

**PlatformProbe.** `probe[d]` is the call `test_probe` is about to make for a
device; probes of several devices overlap. Three operators tell apart what the
code does with a failure: `LookUp` (tested), `IoremapResource` (tested for `NULL`,
but it is an error pointer), `GetIrq` (another variable is tested).

**VmallocCheck.** `CheckPage` is one round of the loop, over any layout of frames
that `vmalloc` may find, pages without a frame included.

**ExceptionVectors.** The vector is a sequence of instructions that `Execute`
takes one by one. The value of each register at the exception is the register's
own number, so the run follows each value through stack and scratch registers.
The handler may change the registers that the calling convention gives it.

## 3. What is checked

| Run | Instance | Question |
|---|---|---|
| `sem_demo` | pool of 2, int of 5 values, 2 writers, 1 reader, `StopSignals` (Linux 6.0 and later) | all properties of `SemDemo` |
| `sem_stop` | pool of 2, 1 writer, no reader, not `StopSignals` (before Linux 6.0) | finding 1 (violation) |
| `completion` | 4 waiters, 2 reads | all properties of `CompletionDemo` |
| `completion_read` | 1 waiter, 1 reading process | finding 2 (violation) |
| `irq_demo` | 2 CPUs, 2 triggering writers, 1 read, 3 events, both modes | all properties of `IrqDemo` |
| `irq_unload` | the same with 1 writer, 2 events | finding 3 (violation) |
| `gic_interrupt` | FIFOs of 2, test string of 2, endless input with 4 numbers | all properties of `GicInterrupt` |
| `gic_echo` | FIFOs of 2, no test string, endless input with 4 numbers | finding 4 (violation) |
| `char_basic` | buffer of 2, 2 files, 2 processes, counts to 2, offsets to 3 | all properties of `CharBasic` |
| `char_clamp` | the same with 1 file, 1 process, offset 0 | finding 5 (violation) |
| `kernel_mmu` | 4 entries per table, pages of 2 bytes, 1915 regions | all properties of `KernelMmu` |
| `programs` | int of 4 values, 3 rounds per thread; 3 character devices; 2 platform devices with 2 regions; 4 pages in 5 frames; both vectors | all properties of the five small programs |

Properties of **SemDemo**
- `SlotConservation`: free units, filled units and slots in the hands of a task
  add up to `POOL_SIZE`, whatever a signal ends and whatever insmod fails.
- `ReportConsistent`: what `/proc/sem_demo` prints is consistent although the
  counts move under the reader: no more filled slots than values waiting, no
  more free ones than the rest.
- `PoolIsQueue`: the pool implements `BoundedQueue`. The refinement mapping
  reads the queue off the ring from `cons_idx`, as long as the counters differ;
  a value is in a writer's hand from the end of its critical section to its
  `up`. Overlapping writers may return in another order than they took.
- `WriterServed`: a sleeping writer gets a value (or gives up) while the
  producer runs.
- `UnloadHangsOnlyOnSleeper`: insmod and rmmod end, or wait for a writer that
  sleeps on the empty pool. A producer that sleeps on the full pool holds rmmod up
  only where not `StopSignals`; the run has `StopSignals`, so there that is no excuse.

Properties of **CompletionDemo**
- `OneReadPerComplete`: permissions left plus reads answered is at most 1, and
  is 1 exactly when the worker has completed.
- `GateStaysOpen`, `ReleaseFreesAll`: the gate stays open and everyone who waits
  there gets through.
- `UnloadEndsUnlessWaiting`: rmmod ends, or a waiter nobody releases, a read
  nobody answers or a thread that was never created holds it up.

Properties of **IrqDemo**
- `HolderNotInterrupted`: no handler on top of a holder of `irq_lock`.
- `EventCountExact`: the count and the increments on their way are all events.
- `AnswersBacked`: every answer, permission left and bottom half to come stands
  for an event of its own.
- `EventReachesBottomHalf`: despite coalescing, a bottom half starts and ends
  after every event.
- `QuietUnlessTriggered`, `UnloadEnds`: rmmod ends and leaves nothing queued or
  running, unless a trigger queued work after `cancel_work_sync`.

Properties of **GicInterrupt**
- `EchoExact`: behind the last echoed character come, without a gap, the one in
  hand and those of the FIFO, up to the last that has arrived: what was typed comes
  back once and in order.
- `TestStringSent`: a character of the test string is lost only if an interrupt
  came between `uart_tx`'s look at the FIFO and its write.
- `TickServed`: a timer interrupt is served, with one exception that the code has:
  the drain loop (`uart.c:56-62`) runs with interrupts masked, and while it finds a
  next character each time it looks, it does not end. Any other way to starve the
  timer, such as a line of the UART that never drops, would violate it.
- `StartupEnds`: `main()` gets to `wfi`; what can keep it away is the unserved
  receive timeout of a missed character, or characters that never stop.
- `EchoedUnlessMissed`: every character is echoed, however many follow, unless one
  came in between the last look at `UART_FR` and the write to `UART_ICR`.

Properties of **CharBasic**
- `PositionBounded`: no overlap of calls takes a position past twice the buffer.
  (It may pass the end; see finding 5.)
- `PositionIsSum`: unless two calls on the open file overlapped, the position is
  where the last lseek went plus the bytes transferred since.
- `Unwound`: nothing is registered after a failed insmod or a rmmod, and nothing
  goes before what was made from it.
- `OpenKeepsModule`: no open file outlives the code, but one that was opened
  between `cdev_add` and a failing `device_create`.

Properties of **KernelMmu**
- `OnWhenComplete`: when the MMU is on, every address of the address space
  translates to its place if it is in the region, and faults otherwise, with the
  memory type that the registers give it.
- `StartsUp`: `map_region` ends and `main()` gets to its loop with the MMU on.

Properties of the small programs
- `CounterExact` (MutexCounter): however the threads overlap, the counter is the
  number of stores, and `race.c` prints twice what one thread counts.
- `NoThreadRunsUnloaded` (MutexCounter): no thread outlives the module, but one
  that was created and never woken, when the second could not be created.
- `RmmodEnds` (MutexCounter): `kthread_stop` ends both threads.
- `LeftBehind` (CharAdvance, VmallocCheck): insmod of `02_Advance` fails, and leaves
  nothing, or the first device if it was the second `cdev_add` that failed; the
  vmalloc module leaves nothing when it fails or is removed.
- `ProbeHolds` (PlatformProbe): however probes overlap and fail, a bound device
  has what it did not lose in an untested call, no region has two devices, and
  an unbound device holds nothing.
- `DiscontigExact` (VmallocCheck): the counts in the log are the number of pages
  that have a frame, and the number of places at which the frames of one such page
  and of the next do not follow each other.
- `Transparent` (ExceptionVectors): the handler is given what every register held,
  and `main()` goes on with the same registers, at the same instruction.

### Bounds

`POOL_SIZE = 2` gives empty, partly filled and full pools and a ring that
wraps; the int of 5 values wraps at a place that is not a multiple of the pool.
Two writers compete for units, for the mutex and for the order of the list of
sleepers. The proofs remove these bounds, and those of the other runs, for everything
but liveness. Four waiters and
two reads show one permission against two reads; a fifth waiter meets the same
steps. `UINT_MAX` must only exceed every count that `complete` reaches. Two CPUs are
enough for a lock held elsewhere and for an interrupt on the holder's own;
three events give one handled, one running and one coalesced. FIFOs of 2 are
empty, partly filled and full; four numbers are the fewest that tell apart the
characters in the FIFO, in hand and last echoed. In `CharBasic` a buffer of 2 has a position
inside, at the end and past it, and counts and offsets reach across it; two files
are two references to the module, two processes an overlap. In `KernelMmu` tables
of 4 entries give first, inner and last entries at every level. In the run
`programs` the int of 4 values wraps, six increments pass it; three devices are
one more than insmod gets to; of two platform devices one names
a region twice and the other shares it; four pages have gaps at the start, inside
and at the end. `MaxEvents`
bounds behaviours of `IrqDemo`, not the code: after the last event only the
system's own steps remain, and a new insmod starts over. `GicInterrupt` has no such
bound.

Deadlock is checked in `SemDemo`, `GicInterrupt` and `KernelMmu`. `CharBasic`, `CompletionDemo` and
`IrqDemo` can stop (an oops ends the model, an rmmod may wait for ever), so it
is off there, and `HolderNotInterrupted`, `UnloadEnds` and
`UnloadEndsUnlessWaiting` say which waits may not happen. It is off in `programs`,
where most of the programs simply end; `RmmodEnds` says that `MutexCounter` does
not stop in the middle.

### Fairness

Weak fairness for everything the scheduler runs: a runnable task takes its next
step. Strong fairness where the kernel queues: `mutex_lock` (hand-off to a
waiter passed over too long), the queued spinlock, sleepers on a completion
(served in order), and rmmod in `IrqDemo`, whose waiting calls keep new work out
until they return. A read with a timeout ends: its weak fairness covers the
answer and the timeout together. In `GicInterrupt` the timer's period is a
second, so it does not expire at every instant at which `main()` could go on:
`MainStep`, and taking and acknowledging an interrupt while the timer is not
due, are strongly fair. No fairness is given to users, signals, typed
characters, failures or interrupt edges. `KernelMmu` is one CPU that goes on (weak
fairness of `Next`); `CharBasic` has no liveness property and no fairness. In
`programs` only the kernel module of `MutexCounter` needs fairness: weak for its
threads and for insmod and rmmod once begun, strong for `Lock`, as `mutex_lock`
hands the mutex to a waiter that it has passed over. Nobody has to load the
module or to unload it.

## 4. Disagreements found

1. **rmmod of sem_demo can hang before Linux 6.0** (`sem_stop`). The comment at
   `sem_demo.c:57-60` expects `kthread_stop` to end a producer asleep in
   `down_interruptible`. Since Linux 6.0 it does; on an older kernel, such as the
   5.15 that `Qemu_cmds.md:44` downloads, `kthread_stop` sends no signal, and rmmod
   waits for ever for a producer on the full pool that no writer helps.
2. **A second read of /proc/completion_demo never returns** (`completion_read`).
   `EXERCISES.md:13-14` says it returns instantly; one `complete()` admits one
   wait.
3. **Work queued after cancel_work_sync** (`irq_unload`). The trigger entry is
   removed after the work was cancelled; a write in between queues a bottom half of
   a module that is then gone. The failing path of insmod does not cancel at all.
4. **A received byte may never be read** (`gic_echo`). `uart.c:64` clears the
   receive interrupt after the drain; that of a character that arrives in
   between is lost, and no later character raises it again.
5. **Transfers are too long** (`char_clamp`). `main.c:91` and `:125` of `01_Basic`
   compute the number of bytes as position plus count; the comment above says
   what is cut is what goes past the size. From a position past 0 a call moves
   more than it was asked for and may pass the end of the buffer.

Without a run of their own; the property in brackets states what the code does
instead:
- An open between `cdev_add` and a failing `device_create` of `01_Basic` leaves a
  file whose module is gone (`OpenKeepsModule`).
- The header of `02_Advance` (`main.c:1-13`) promises independent devices
  `/dev/mydev0` and `/dev/mydev1`. `main.c:281-282` gives all of them the name
  `drv_dvc`: the second `device_create` fails, and with it every insmod
  (`LeftBehind`: never "loaded").
- `main.c:277` of `02_Advance`: when `cdev_add` fails, the label it goes to is
  behind the loop that removes what earlier rounds registered (`LeftBehind`).
- `main.c:48` and `:63` of `02_Platform_driver` test for `NULL`, where
  `devm_ioremap_resource` returns an error pointer; `:70` and `:78` test `ret`, and
  the results of `platform_get_irq_byname` are elsewhere (`ProbeHolds`).
- `main.c:70` of `02_Mutex_Kernel` returns without stopping `thread_1`
  (`NoThreadRunsUnloaded`: it never runs).
- `vector.S:64` of `02_Abort` loads `ESR_EL1` from the slot of `SPSR_EL1`;
  `04_GIC_Interrupt` has the right slot. The handler returns to the instruction
  that faults, so the tests behind it in `main()` are never reached
  (`Transparent`).
- `05_Kernel_Memory_Management/01_Basic/main.c` passes `vmalloc` two arguments.

## 5. What is proved

Every invariant and every action property of a passing run, and the refinement
`PoolIsQueue`, are theorems of the same specification that TLC runs. They hold for every value of
the constants that the named assumptions admit; none of the theorems below has a
hypothesis of its own. (The lemmas about operators, such as `HandOffProperties` on
`up`, do: they are for use inside the proofs.) In each module
the theorem `Invariance` is the inductive invariant, and the others follow from it. TLC has checked each of these invariants on the instance of
its run. The steps are sorted by what they can disturb, one lemma for each kind.

| Module | Theorems, with the property each states | For every |
|---|---|---|
| `SemDemoProofs` | `TypeCorrect` (`TypeOK`), `SlotsConserved` (`SlotConservation`), `MutualExclusion` | `POOL_SIZE > 0`, `IntModulus > POOL_SIZE`, finite set of writers, set of readers, either `StopSignals` |
| `SemDemoQueueProofs` | `StoryHolds`, `ReportTrue` (`ReportConsistent`), `PoolRefinesQueue` (`PoolIsQueue`) | the same |
| `CompletionDemoProofs` | `TypeCorrect`, `ReadsCounted` (`OneReadPerComplete`), `GateKept` (`GateStaysOpen`) | `NUM_WAITERS`, finite set of readers, `UINT_MAX > 1` |
| `IrqDemoProofs` | `TypeCorrect`, `NoDeadlockOnLock` (`HolderNotInterrupted`), `NoEventLost` (`EventCountExact`), `NoAnswerFromNothing` (`AnswersBacked`), `UnloadClean` (`QuietUnlessTriggered`) | set of CPUs, finite sets of writers and readers, `MaxEvents < UINT_MAX` |
| `GicInterruptProofs` | `TypeCorrect`, `EchoIsExact` (`EchoExact`), `StringLostOnlyByPreemption` (`TestStringSent`) | depth and trigger level of the FIFOs, length of the string, `Numbers > FifoDepth + 1`; input without end |
| `CharBasicProofs` | `TypeCorrect`, `PositionsBounded`, `PositionsAreSums`, `RegistrationUnwound`, `ModuleKept` | size of the buffer, counts and offsets, finite set of files, processes |
| `KernelMmuProofs` | `TypeCorrect`, `CompleteWhenOn` (`OnWhenComplete`) | size of a page and of a table, region under one entry of level 2 |
| `ProgramsProofs` | `TypeCorrect`, `KernelCounterExact` and `RaceCounterExact` (`CounterExact`), `KernelThreadsStopped` (`NoThreadRunsUnloaded`), `NothingLeft` (`LeftBehind`), `ProbesHold` (`ProbeHolds`), `CountsExact` (`DiscontigExact`), `VectorsTransparent` (`Transparent`) | width of an int, number of rounds, more than one character device, platform devices and regions, pages and frames |

**The pool: conservation.** `IInv` is
`TypeOK /\ SleepersWait /\ Lifecycle /\ LockOwner /\ SlotConservation`.
Conservation alone is not inductive. `up()` may hand a unit to a sleeper, who
becomes an owner without running: for the sum to stay, he must be in the list
once and be waiting there (`SleepersWait`). `sema_init` of a new insmod sets the
sum to `POOL_SIZE`, which is right only if no task holds a slot of the last load
(`Lifecycle`). Most actions leave semaphores and owners alone (`QuietStep`), the
others are one of five ways to move a unit (`TakeStep`, `SleepStep`, `UpStep`,
`HandOffStep`, `InterruptStep`; the last is a writer's signal and the producer's
`kthread_stop`), each a lemma about cardinalities. They rest on
facts about a semaphore of any tasks, at the head of the module
(`HandOffProperties`: `up` takes out the oldest, and he is not in the list any more).

**The pool: report and refinement.** `Story` ties together what the code keeps in
six places: `CountInv` (the filled units, counted or owned, are the values that
wait), `IndexInv` (`prod_idx` is that many places behind `cons_idx`), `ValueInv`
(the slot in between that each task is at holds the right value) and `ReportInv`.
`CountInv` needs `IInv`: a filled slot without a value would be read. The
report is consistent because both counts are at most what they stand for, at
whatever moment they are read. The refinement is step by step: `InitModule` is
`Reload` of the queue, `AdvanceProducer` is `Produce`, `AdvanceConsumer` is
`Consume`, `UpFree` is `Return`; all others change nothing the queue sees. For
`FillSlot`, which writes to the ring, that is the point where `SlotsDiffer` is needed:
with fewer than `POOL_SIZE` values waiting, `prod_idx` is not the slot of any. The
lemmas `SlotBehind`, `SlotAfter` and `SlotBefore` are the arithmetic of a ring.

**CompletionDemo.** A read is counted in the step that takes the permission, so
the sum of both changes only in `complete`. That this happens once takes the life
of the worker (`WorkerCompletesOnce`): it has not completed before it is in its loop, and is
gone before the next insmod sets `init_done` to 0. `GateBinary` (shut, or `UINT_MAX`, never
in between) is why passing threads do not count it down.

**IrqDemo.** `EventCountExact` and `AnswersBacked` are sums over contexts: of those
on their way to `event_count++`, to `schedule_work`, and to `complete`. `Moves`
gives how the three change when one context takes a step; every action is an
instance of it. The increment is a load and a store, so `LockInv` says that the
context that is locked, and no other, owns `irq_lock` and has loaded what
`event_count` still is, and that a process there has interrupts off on the CPU it
is on; `HolderNotInterrupted` follows. `Lifecycle` and `Quiet` say which contexts
each waiting call of `irq_demo_exit` has seen the end of. `MaxEvents < UINT_MAX` keeps
`complete` from reaching the value that stands for `complete_all`.

**GicInterrupt.** The invariant is that the last echoed character, the one in hand and
the FIFO, put one after the other, follow each other in number, and end with the last
that arrived (`Chained`, in `LineInv`). An arrival appends to this line (`LineGrows`,
`AppendBehind`), reading `UART_DR` moves a character from the FIFO to the hand and leaves
the line as it is (`FifoToHand`), and an echo drops its first (`HandToLine`,
`LineMovesOn`). `uart_init` clears the FIFO, so the
invariant also says that nothing is in it before. `StringInv` relates `tx_wait` to
`tx_write`: without a preemption in between, no handler runs and there is still
room.

**CharBasic.** The invariant adds to the five properties what is registered at
each call (`RegisteredIs`), that open files hold their reference (`OpenHolds`),
bounds on the positions that calls still carry (`CallBounded`), and that a file
without overlap has one user, whose copy of the position is still right
(`SingleUser`): without the last, a store could undo another call's.

**KernelMmu.** The index macros take the number of a page apart into digits. `DivideTwice`
(dividing twice is dividing by the product) makes the spans of the four levels
digits of one number; `SameTables` and `TablesSame` say that two addresses share
the tables exactly if they are under the same entry of level 2, and `PageEntries`
that within it the entry of level 3 is the page. `Mapped(j)` is the state of the
four tables after `j` rounds; that the entries of later pages do not run into those of
earlier ones is `Entry + Count <= PAGE_TABLE_ENTRIES`, which `RegionPages` derives from
the shape of a region. `Written` is the order of the registers.

**The small programs.** `ProgramsInv` is the invariant of the program that runs and
those of the others, which stand still; each has lemmas for its first states and
its steps.
- `CountingInv` (both programs of `MutexCounter`): that the counter is the number of
  stores is not inductive, as a thread stores what it has loaded; mutual exclusion,
  and that a loaded value is still the counter's, make it so. `KernelInv` adds where
  each thread is at each step of insmod and rmmod: a new insmod sets the counter
  back, which is right only if no thread is inside. `RaceInv` adds that the counter is
  what both threads have stored, modulo the int (`WrapOnce`).
- `CharInv`: what is registered at each call of insmod and of its unwinding, as a
  function of `itr`, which does not get past 1.
- `ProbeInv`: what each device holds at each call of its probe, and that no region
  is held twice; `OneDevice` reduces a step to the device that takes it.
- `VmallocInv`: the counts are those of the pages before `offset`, and `prev_pfn` is
  the frame of the last page found, not of the last page.
- `VectorInv`: where each value is before each of the 80 instructions. `VectorShape`
  gives the instruction at each place from the two macros; the invariant is that general
  registers are untouched until they are saved (`Saving`), system registers until
  the call, and that a register is restored from its slot once and not used after it
  (`Restoring`).

Checked only by TLC: the properties that need fairness (`WriterServed`,
`UnloadHangsOnlyOnSleeper`, `ReleaseFreesAll`, `UnloadEndsUnlessWaiting`,
`EventReachesBottomHalf`, `UnloadEnds`, `TickServed`, `StartupEnds`,
`EchoedUnlessMissed`, `StartsUp`, `RmmodEnds`), as liveness and `ENABLED` are outside
what the installed provers do; and the five violations, which are
counterexamples.

## 6. What is left out, and where it matters

- Log messages and the text of answers. The log lines of `sem_demo.c` that read
  the counters outside the lock change nothing.
- `msleep`: a task may rest at any step.
- `copy_to_user` failures in `04_Kernel_Sync`: they happen after every change of
  state. (In `CharBasic` they are modelled.)
- In `CharBasic`: the bytes, `pread` and `pwrite`, and what lies behind the buffer.
- In `MutexCounter`: the variants without `ENABLE_MUTEX`, which are not built, and
  a `pthread_create` that fails.
- In `CharAdvance`: `read`, `write` and `llseek`, which return 0 and change nothing,
  and `dev_driver_clean`, which never runs.
- In `IrqDemo`: how the flow handler of the line treats `IRQF_ONESHOT`. The model masks
  the line for as long as the thread is due and latches one edge; a kernel whose edge
  handler does not mask takes more interrupts meanwhile. No property depends on it.
- In `PlatformProbe` and `VmallocCheck`: values that are only logged.
- In `ExceptionVectors`: floating point, the stack pointer, and the vectors that
  nothing in `main()` takes (the images run at EL1 with SP_EL1 and take no FIQ, SError or
  exception of a lower level; the stubs behind them add two numbers).
- In `KernelMmu`: barriers, caches, addresses for TTBR1.
- `proc_create` results of `completion_demo.c` and `irq_demo.c`, which are not
  checked there; without its entry the module does less of what is modelled.
- In `GicInterrupt`: the other vectors, the registers on the stack, counters
  that only a debugger reads, the wait for the redistributor, and
  `kernel_mmu.c`, which this program does not call.

## 7. Plan

Every program that has state is modelled, and every safety property is proved. What
is left:

1. The refinements that are implicit in the other programs, stated on their own: a
   spinlock and a mutex as one abstract lock that `IrqDemo`, `SemDemo` and
   `MutexCounter` implement.
2. For each liveness property, the safety part of its argument: what a waiting task
   waits for is always in somebody's hands who can go on.
