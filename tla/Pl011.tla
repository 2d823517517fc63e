-------------------------------- MODULE Pl011 --------------------------------
(***************************************************************************)
(* The receive side of the PL011 UART that 03_ARM_Architecture/            *)
(* 04_GIC_Interrupt drives through UARTDR, FR, RIS, MIS and ICR.  It is    *)
(* hardware (of QEMU's virt board), modelled from the registers that       *)
(* uart.c uses.                                                            *)
(*                                                                         *)
(* rx is the receive FIFO.  ints are the raw interrupts: "rx" is raised by *)
(* the character that brings the FIFO to its trigger level, and by no      *)
(* other; "rt" after a silence with characters left in the FIFO.           *)
(***************************************************************************)
EXTENDS Naturals, Sequences

CONSTANTS
  FifoDepth,   \* characters the receive FIFO holds
  Trigger      \* its trigger level: 1 on QEMU

ASSUME FifoAssumption == FifoDepth \in Nat /\ Trigger \in 1 .. FifoDepth

\* After reset and UART_ICR = 0x7FF: no character, no interrupt.
EmptyUart == [rx |-> << >>, ints |-> {}]

\* A character comes in.  A full FIFO takes none.
CanReceive(u) == Len(u.rx) < FifoDepth
Receive(u, ch) ==
  [rx   |-> Append(u.rx, ch),
   ints |-> u.ints \cup (IF Len(u.rx) + 1 = Trigger THEN {"rx"} ELSE {})]

\* Characters wait and none has come for a while.
Timeout(u) == [u EXCEPT !.ints = @ \cup {"rt"}]

\* A read of UARTDR takes the oldest character out; an interrupt that no longer
\* has a reason goes with it.
ReadData(u) ==
  [rx   |-> Tail(u.rx),
   ints |-> u.ints \ ((IF Len(u.rx) - 1 < Trigger THEN {"rx"} ELSE {})
                      \cup (IF Len(u.rx) = 1 THEN {"rt"} ELSE {}))]

\* A write to UART_ICR takes interrupts back, whatever the FIFO holds.
Clear(u, which) == [u EXCEPT !.ints = @ \ which]
=============================================================================
