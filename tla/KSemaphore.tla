----------------------------- MODULE KSemaphore -----------------------------
(***************************************************************************)
(* The kernel's counting semaphore (struct semaphore), as the drivers of   *)
(* this repository use it through sema_init, down_interruptible and up.    *)
(* The semaphore is not part of the repository, so this module is modelled *)
(* from those uses and from the field the drivers read, count.             *)
(*                                                                         *)
(* A semaphore is a record: count is the number of units nobody holds,     *)
(* wait_list the tasks asleep in down_interruptible, oldest first.  The    *)
(* semaphore's own lock makes each operator below one atomic step.  up()   *)
(* hands its unit to the oldest sleeper without passing through count: a   *)
(* task that sleeps in down_interruptible and is no longer in wait_list    *)
(* has been granted its unit and only has to wake up.                      *)
(***************************************************************************)
EXTENDS Integers, Sequences, SequencesExt

\* sema_init(&s, n)
SemaInit(n) == [count |-> n, wait_list |-> << >>]

\* The semaphores over a set T of tasks.
Semaphores(T) == [count : Nat, wait_list : Seq(T)]

\* The tasks asleep in down_interruptible(&s) that no up() has served yet.
Waiters(s) == Range(s.wait_list)

\* down_interruptible(&s) takes a unit without sleeping.
Take(s) == [s EXCEPT !.count = @ - 1]

\* down_interruptible(&s) finds no unit: task t goes to sleep.
Sleep(s, t) == [s EXCEPT !.wait_list = Append(@, t)]

\* up(&s): the unit goes to the oldest sleeper, to count if there is none.
Up(s) == IF s.wait_list = << >>
         THEN [s EXCEPT !.count = @ + 1]
         ELSE [s EXCEPT !.wait_list = Tail(@)]

\* A signal makes the sleeper t give up: it leaves the list.
GiveUp(s, t) ==
  LET i == CHOOSE k \in DOMAIN s.wait_list : s.wait_list[k] = t
  IN  [s EXCEPT !.wait_list = RemoveAt(@, i)]
=============================================================================
