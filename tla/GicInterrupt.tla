----------------------------- MODULE GicInterrupt -----------------------------
(***************************************************************************)
(* 03_ARM_Architecture/04_GIC_Interrupt: main() sets up the GIC, the       *)
(* generic timer and the UART, unmasks interrupts, prints a test string    *)
(* and sleeps in wfi; irq_handler() serves the timer (PPI 30) and the UART *)
(* (SPI 33, level-sensitive), whose handler echoes what was received.      *)
(*                                                                         *)
(* One CPU.  The exception that enters irq_handler masks interrupts, and   *)
(* nothing unmasks them before eret, so a handler is not interrupted; the  *)
(* hardware goes on under every step of it.  An interrupt that is          *)
(* signalled and not masked is taken before the next step of main().       *)
(*                                                                         *)
(* Characters come in without end and are numbered in their order of       *)
(* arrival, from 1 to Numbers and then from 1 again: more numbers than     *)
(* there can be characters between the line and the echo tell them apart.  *)
(* Left out: the registers saved on the stack, timer_irq_count and         *)
(* last_irq (only a debugger reads them), the words around an echoed       *)
(* character, the wait for the redistributor to wake up.                   *)
(***************************************************************************)
EXTENDS Pl011, FiniteSets

CONSTANTS
  TxDepth,    \* characters the transmit FIFO holds
  TestLen,    \* characters of main's test string
  Numbers     \* numbers that tell received characters apart

ASSUME BoundsAssumption ==
  /\ TxDepth \in Nat \ {0} /\ TestLen \in Nat
  /\ Numbers \in Nat /\ Numbers > FifoDepth + 1

TIMER_IRQ == 30
UART_IRQ  == 33
None      == 0

\* The number of the character that comes in behind character k.
NextChar(k) == (k % Numbers) + 1

VARIABLES
  main,        \* the call main() is about to make
  printed,     \* characters of the test string that uart_tx has been through
  sent,        \* those of them that the UART took
  gic_ready,   \* CPU interface and distributor pass interrupts on
  enabled,     \* interrupts enabled in the distributor and the redistributor
  timer,       \* "off", "running" or "due"
  uart,        \* receive side
  imsc,        \* interrupts of the UART that are not masked there
  tx,          \* characters in the transmit FIFO
  daif_clear,  \* main has unmasked interrupts
  pc,          \* where the CPU is in irq_handler; "none": in main
  active,      \* the interrupt acknowledged and not ended
  c,           \* uart_irq_handler's local: the character in hand
  out,         \* the last echoed character, as the UART took it; 0: none yet
  arrived,     \* history: the last character that has come in; 0: none yet
  missed,      \* history: one came in between the last look at UART_FR and UART_ICR
  preempted    \* history: an interrupt split a wait for the FIFO from its write

device  == <<timer, uart, tx>>
setup   == <<gic_ready, enabled, imsc, daif_clear>>
history == <<arrived, missed, preempted>>
vars == <<main, printed, sent, setup, device, pc, active, c, out, history>>

MainPC == {"gic_init", "gic_enable_irq", "timer_init", "uart_init", "uart_irq_enable",
           "unmask", "tx_wait", "tx_write", "wfi"}
HandlerPC == {"none", "acknowledge", "timer", "mis", "drain", "echo", "icr", "end", "eret"}

TypeOK ==
  /\ main \in MainPC /\ pc \in HandlerPC
  /\ printed \in 0 .. TestLen /\ sent \in 0 .. printed
  /\ gic_ready \in BOOLEAN /\ daif_clear \in BOOLEAN
  /\ enabled \subseteq {TIMER_IRQ, UART_IRQ}
  /\ timer \in {"off", "running", "due"}
  /\ uart.rx \in Seq(1 .. Numbers) /\ Len(uart.rx) <= FifoDepth
  /\ uart.ints \subseteq {"rx", "rt"} /\ imsc \subseteq {"rx", "rt"}
  /\ tx \in 0 .. TxDepth
  /\ active \in {None, TIMER_IRQ, UART_IRQ}
  /\ c \in 0 .. Numbers /\ out \in 0 .. Numbers /\ arrived \in 0 .. Numbers
  /\ missed \in BOOLEAN /\ preempted \in BOOLEAN

Init ==
  /\ main = "gic_init" /\ printed = 0 /\ sent = 0
  /\ gic_ready = FALSE /\ enabled = {} /\ imsc = {} /\ daif_clear = FALSE
  /\ timer = "off" /\ uart = EmptyUart /\ tx = 0
  /\ pc = "none" /\ active = None /\ c = 0 /\ out = 0
  /\ arrived = 0 /\ missed = FALSE /\ preempted = FALSE

-----------------------------------------------------------------------------
(* Interrupt lines *)

UartLine == uart.ints \cap imsc # {}

\* The interrupts the GIC has for the CPU.  Both have priority 0x80: none is
\* signalled while one is active.
Signalled ==
  IF gic_ready /\ active = None
    THEN {i \in enabled : \/ i = TIMER_IRQ /\ timer = "due"
                          \/ i = UART_IRQ /\ UartLine}
    ELSE {}

-----------------------------------------------------------------------------
(* Hardware *)

\* The period is a second: it does not end in the instructions between the
\* reload and the return of the handler.
TimerExpires ==
  /\ timer = "running" /\ pc \notin {"end", "eret"}
  /\ timer' = "due"
  /\ UNCHANGED <<main, printed, sent, setup, uart, tx, pc, active, c, out, history>>

\* Someone types a character; the UART receives once uart_init has enabled it.
CharArrives ==
  /\ main \notin {"gic_init", "gic_enable_irq", "timer_init", "uart_init"}
  /\ CanReceive(uart)
  /\ arrived' = NextChar(arrived)
  /\ uart' = Receive(uart, arrived')
  /\ missed' = (missed \/ pc = "icr")
  /\ UNCHANGED <<main, printed, sent, setup, timer, tx, pc, active, c, out, preempted>>

ReceiveTimeout ==
  /\ uart.rx # << >> /\ "rt" \notin uart.ints
  /\ uart' = Timeout(uart)
  /\ UNCHANGED <<main, printed, sent, setup, timer, tx, pc, active, c, out, history>>

\* A character leaves the transmit FIFO for the line.
Transmit ==
  /\ tx > 0
  /\ tx' = tx - 1
  /\ UNCHANGED <<main, printed, sent, setup, timer, uart, pc, active, c, out, history>>

-----------------------------------------------------------------------------
(* main() *)

\* The CPU executes main().
InMain == pc = "none" /\ ~(daif_clear /\ Signalled # {})

GicInit ==
  /\ InMain /\ main = "gic_init"
  /\ gic_ready' = TRUE
  /\ main' = "gic_enable_irq"
  /\ UNCHANGED <<printed, sent, enabled, imsc, daif_clear, device, pc, active, c, out, history>>

GicEnableIrq ==
  /\ InMain /\ main = "gic_enable_irq"
  /\ enabled' = {TIMER_IRQ, UART_IRQ}
  /\ main' = "timer_init"
  /\ UNCHANGED <<printed, sent, gic_ready, imsc, daif_clear, device, pc, active, c, out, history>>

TimerInit ==
  /\ InMain /\ main = "timer_init"
  /\ timer' = "running"
  /\ main' = "uart_init"
  /\ UNCHANGED <<printed, sent, setup, uart, tx, pc, active, c, out, history>>

UartInit ==
  /\ InMain /\ main = "uart_init"
  /\ uart' = EmptyUart
  /\ main' = "uart_irq_enable"
  /\ UNCHANGED <<printed, sent, setup, timer, tx, pc, active, c, out, history>>

UartIrqEnable ==
  /\ InMain /\ main = "uart_irq_enable"
  /\ imsc' = imsc \cup {"rx", "rt"}
  /\ main' = "unmask"
  /\ UNCHANGED <<printed, sent, gic_ready, enabled, daif_clear, device, pc, active, c, out, history>>

\* msr DAIFClr, #2
Unmask ==
  /\ InMain /\ main = "unmask"
  /\ daif_clear' = TRUE
  /\ main' = IF TestLen = 0 THEN "wfi" ELSE "tx_wait"
  /\ UNCHANGED <<printed, sent, gic_ready, enabled, imsc, device, pc, active, c, out, history>>

\* Mutant: uart_tx does not wait.
MainWaitsNot ==
  /\ InMain /\ main = "tx_wait"
  /\ main' = "tx_write"
  /\ UNCHANGED <<printed, sent, setup, device, pc, active, c, out, history>>

\* uart_tx, called from main: the transmit FIFO is seen not to be full ...
MainWaits ==
  /\ InMain /\ main = "tx_wait" /\ tx < TxDepth
  /\ main' = "tx_write"
  /\ UNCHANGED <<printed, sent, setup, device, pc, active, c, out, history>>

\* Mutant: uart_tx_string does not stop at the end of the string.
MainWritesPastNul ==
  /\ InMain /\ main = "tx_write"
  /\ IF tx < TxDepth THEN tx' = tx + 1 /\ sent' = sent + 1
                     ELSE UNCHANGED <<tx, sent>>
  /\ printed' = printed + 1
  /\ main' = "tx_wait"
  /\ UNCHANGED <<setup, timer, uart, pc, active, c, out, history>>

\* ... and the character is written.  A full FIFO drops it.
MainWrites ==
  /\ InMain /\ main = "tx_write"
  /\ IF tx < TxDepth THEN tx' = tx + 1 /\ sent' = sent + 1
                     ELSE UNCHANGED <<tx, sent>>
  /\ printed' = printed + 1
  /\ main' = IF printed' = TestLen THEN "wfi" ELSE "tx_wait"
  /\ UNCHANGED <<setup, timer, uart, pc, active, c, out, history>>

MainStep == \/ GicInit \/ GicEnableIrq \/ TimerInit \/ UartInit \/ UartIrqEnable
            \/ Unmask \/ MainWaits \/ MainWrites

-----------------------------------------------------------------------------
(* irq_handler() *)

\* The vector irq_current_spx.
TakeIrq ==
  /\ pc = "none" /\ daif_clear /\ Signalled # {}
  /\ pc' = "acknowledge"
  /\ preempted' = (preempted \/ main = "tx_write")
  /\ UNCHANGED <<main, printed, sent, setup, device, active, c, out, arrived, missed>>

\* gic_acknowledge: of two interrupts of the same priority, the lower number.
\* Only the handler takes a line back, so there always is one.
Acknowledge ==
  /\ pc = "acknowledge"
  /\ active' = IF TIMER_IRQ \in Signalled THEN TIMER_IRQ ELSE UART_IRQ
  /\ pc' = IF active' = TIMER_IRQ THEN "timer" ELSE "mis"
  /\ UNCHANGED <<main, printed, sent, setup, device, c, out, history>>

\* Mutant: the timer is not reloaded.
TimerReloadNot ==
  /\ pc = "timer"
  /\ pc' = "end"
  /\ UNCHANGED <<main, printed, sent, setup, device, active, c, out, history>>

TimerReload ==
  /\ pc = "timer"
  /\ timer' = "running"
  /\ pc' = "end"
  /\ UNCHANGED <<main, printed, sent, setup, uart, tx, active, c, out, history>>

\* uart_irq_handler reads UART_MIS and looks only for the receive interrupt.
ReadMis ==
  /\ pc = "mis"
  /\ pc' = IF "rx" \in uart.ints \cap imsc THEN "drain" ELSE "end"
  /\ UNCHANGED <<main, printed, sent, setup, device, active, c, out, history>>

\* Mutant: if in the place of while.
DrainOne ==
  /\ pc = "drain"
  /\ IF uart.rx = << >> \/ c # 0
       THEN /\ pc' = "icr" /\ c' = 0
            /\ UNCHANGED uart
       ELSE /\ c' = Head(uart.rx) /\ uart' = ReadData(uart)
            /\ pc' = "echo"
  /\ UNCHANGED <<main, printed, sent, setup, timer, tx, active, out, history>>

\* while (!(UART_FR & RXFE)) c = UART_DR ...
Drain ==
  /\ pc = "drain"
  /\ IF uart.rx = << >>
       THEN /\ pc' = "icr" /\ c' = 0
            /\ UNCHANGED uart
       ELSE /\ c' = Head(uart.rx) /\ uart' = ReadData(uart)
            /\ pc' = "echo"
  /\ UNCHANGED <<main, printed, sent, setup, timer, tx, active, out, history>>

\* Mutant: the echo does not wait for room.
EchoNoWait ==
  /\ pc = "echo"
  /\ IF tx < TxDepth THEN tx' = tx + 1 /\ out' = c
                     ELSE UNCHANGED <<tx, out>>
  /\ pc' = "drain"
  /\ UNCHANGED <<main, printed, sent, setup, timer, uart, active, c, history>>

\* uart_tx(c), called from the handler, which nothing interrupts.
Echo ==
  /\ pc = "echo" /\ tx < TxDepth
  /\ tx' = tx + 1 /\ out' = c
  /\ pc' = "drain"
  /\ UNCHANGED <<main, printed, sent, setup, timer, uart, active, c, history>>

\* UART_ICR = UART_INT_RX
ClearRx ==
  /\ pc = "icr"
  /\ uart' = Clear(uart, {"rx"})
  /\ pc' = "end"
  /\ UNCHANGED <<main, printed, sent, setup, timer, tx, active, c, out, history>>

\* Mutant: no write to ICC_EOIR1_EL1.
EndInterruptNot ==
  /\ pc = "end"
  /\ pc' = "eret"
  /\ UNCHANGED <<main, printed, sent, setup, device, active, c, out, history>>

\* gic_end_interrupt
EndInterrupt ==
  /\ pc = "end"
  /\ active' = None
  /\ pc' = "eret"
  /\ UNCHANGED <<main, printed, sent, setup, device, c, out, history>>

Eret ==
  /\ pc = "eret"
  /\ pc' = "none"
  /\ UNCHANGED <<main, printed, sent, setup, device, active, c, out, history>>

HandlerStep == \/ TakeIrq \/ Acknowledge \/ TimerReload \/ ReadMis \/ Drain
               \/ Echo \/ ClearRx \/ EndInterrupt \/ Eret

-----------------------------------------------------------------------------

Next == \/ TimerExpires \/ CharArrives \/ ReceiveTimeout \/ Transmit
        \/ MainStep \/ HandlerStep

Spec == Init /\ [][Next]_vars

(***************************************************************************)
(* Fairness: the CPU executes, the counter counts and the line transmits.  *)
(* The period of the timer is a second, so that it does not always expire  *)
(* in the instant in which main() or the interrupt of the UART could go    *)
(* on: these are strongly fair.  Nobody has to type.                       *)
(***************************************************************************)
Fairness ==
  /\ WF_vars(HandlerStep) /\ SF_vars(MainStep)
  /\ SF_vars(TakeIrq /\ timer # "due") /\ SF_vars(Acknowledge /\ timer # "due")
  /\ WF_vars(TimerExpires) /\ WF_vars(Transmit)

FairSpec == Spec /\ Fairness

-----------------------------------------------------------------------------
(* Properties *)

\* The last echoed character, the one in hand and those of the FIFO.
Hand == IF pc = "echo" THEN <<c>> ELSE << >>
Line == <<out>> \o Hand \o uart.rx

\* What was typed comes back once and in order: behind the last echoed character
\* come, without a gap, the character in hand and the FIFO, up to the last one
\* that has arrived.
EchoExact ==
  /\ Line[Len(Line)] = arrived
  /\ \A i \in 1 .. Len(Line) - 1 : Line[i + 1] = NextChar(Line[i])

\* A character of the test string is lost only when an interrupt came between
\* uart_tx's look at the FIFO and its write.
TestStringSent == sent = printed \/ preempted

\* The timer is served, even if the line of the UART never drops, with one
\* exception: uart_irq_handler drains the FIFO with interrupts masked, and its
\* loop never ends while the next character is there each time it looks.
TickServed ==
  timer = "due" /\ daif_clear ~> timer = "running" \/ [](pc \in {"drain", "echo"})

\* An interrupt that comes back for ever: the receive timeout, which
\* uart_irq_enable enables and uart_irq_handler does not look at.
TimeoutStorm == uart.ints \cap imsc = {"rt"}

\* main() gets to its wfi loop: neither the timer nor the UART keeps the CPU in
\* irq_handler, but for characters that never stop coming, and for the receive
\* timeout of a character that was missed.
StartupEnds ==
  \/ main = "unmask" ~> main = "wfi" \/ (TimeoutStorm /\ missed)
  \/ []<><<CharArrives>>_vars

InFifo(k) == \E i \in DOMAIN uart.rx : uart.rx[i] = k

\* Every character is echoed, however many follow it, unless one came in just
\* before UART_ICR.
EchoedUnlessMissed == \A k \in 1 .. Numbers : InFifo(k) ~> out = k \/ missed

\* Readme.md: a byte that arrives is read by the driver.
EveryByteRead == \A k \in 1 .. Numbers : InFifo(k) ~> ~InFifo(k)
=============================================================================
