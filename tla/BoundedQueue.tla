---------------------------- MODULE BoundedQueue ----------------------------
(***************************************************************************)
(* What the buffer pool of sem_demo.c promises: a FIFO of at most Capacity *)
(* values.  The producer puts in 0, 1, 2, ... (a C int, so modulo          *)
(* Modulus); a write to /proc/sem_demo takes the oldest value, and keeps   *)
(* it until it returns.  Loading the module again starts from an empty     *)
(* queue and from 0.                                                       *)
(***************************************************************************)
EXTENDS Naturals, Sequences

CONSTANTS
  Capacity,   \* the number of slots
  Modulus,    \* the producer counts modulo this
  Takers,     \* the tasks that take values
  Nothing     \* what a task that has taken nothing holds

VARIABLES
  queue,      \* the values put in and not yet taken, oldest first
  next,       \* the value the producer puts in next
  taken       \* taken[c]: the value task c has taken out and not returned

vars == <<queue, next, taken>>

Init == /\ queue = << >>
        /\ next = 0
        /\ taken = [c \in Takers |-> Nothing]

Produce == /\ Len(queue) < Capacity
           /\ queue' = Append(queue, next)
           /\ next' = (next + 1) % Modulus
           /\ UNCHANGED taken

Consume(c) == /\ queue # << >>
              /\ taken[c] = Nothing
              /\ taken' = [taken EXCEPT ![c] = Head(queue)]
              /\ queue' = Tail(queue)
              /\ UNCHANGED next

Return(c) == /\ taken[c] # Nothing
             /\ taken' = [taken EXCEPT ![c] = Nothing]
             /\ UNCHANGED <<queue, next>>

Reload == /\ taken = [c \in Takers |-> Nothing]
          /\ queue' = << >>
          /\ next' = 0
          /\ UNCHANGED taken

Next == \/ Produce
        \/ Reload
        \/ \E c \in Takers : Consume(c) \/ Return(c)

Spec == Init /\ [][Next]_vars
=============================================================================
