-------------------------- MODULE GicInterruptProofs --------------------------
(***************************************************************************)
(* Safety of GicInterrupt for every depth and trigger level of the FIFOs,  *)
(* every length of the test string and an input without end: the echo is   *)
(* exact, and main's string is lost only to a preemption.                  *)
(***************************************************************************)
EXTENDS GicInterrupt, SequenceTheorems, TLAPS

-----------------------------------------------------------------------------
(* Sequences of characters *)

Chars == 1 .. Numbers
Marks == 0 .. Numbers

\* Each character is the next of the one before it, and n is the last.
Chained(s, n) ==
  /\ s[Len(s)] = n
  /\ \A i \in 1 .. Len(s) - 1 : s[i + 1] = NextChar(s[i])

LEMMA NextIsChar ==
  ASSUME NEW n \in Marks
  PROVE  NextChar(n) \in Chars
<1>1. Numbers \in Nat \ {0}
  BY BoundsAssumption, FifoAssumption
<1>2. n % Numbers \in 0 .. Numbers - 1
  BY <1>1 DEF Marks
<1> QED
  BY <1>1, <1>2 DEF NextChar, Chars

\* What goes into the FIFO goes behind the whole line.
LEMMA AppendBehind ==
  ASSUME NEW front \in Seq(Marks), NEW rest \in Seq(Marks), NEW n \in Marks
  PROVE  front \o Append(rest, n) = Append(front \o rest, n)
<1>1. <<n>> \in Seq(Marks) /\ front \o rest \in Seq(Marks)
  BY ConcatProperties
<1>2. Append(rest, n) = rest \o <<n>> /\ Append(front \o rest, n) = (front \o rest) \o <<n>>
  BY <1>1, AppendIsConcat
<1> QED
  BY <1>1, <1>2, ConcatAssociative

\* A character that comes in is the next of the line.
LEMMA LineGrows ==
  ASSUME NEW n \in Marks, NEW s \in Seq(Marks), s # << >>, Chained(s, n)
  PROVE  Chained(Append(s, NextChar(n)), NextChar(n))
<1> DEFINE x == NextChar(n)
           v == Append(s, x)
<1>1. x \in Marks
  BY NextIsChar DEF Chars, Marks
<1> HIDE DEF x
<1>2. Len(s) \in Nat \ {0}
  BY EmptySeq, LenProperties
<1>3. /\ v \in Seq(Marks) /\ Len(v) = Len(s) + 1 /\ v[Len(s) + 1] = x
      /\ \A i \in 1 .. Len(s) : v[i] = s[i]
  BY <1>1, AppendProperties
<1> HIDE DEF v
<1>4. ASSUME NEW i \in 1 .. Len(v) - 1
      PROVE  v[i + 1] = NextChar(v[i])
  <2>1. CASE i = Len(s)
    <3>1. v[i + 1] = x /\ v[i] = n
      BY <1>2, <1>3, <2>1 DEF Chained
    <3> QED
      BY <3>1 DEF x
  <2>2. CASE i # Len(s)
    <3>1. i \in 1 .. Len(s) - 1 /\ v[i] = s[i] /\ v[i + 1] = s[i + 1]
      BY <1>2, <1>3, <2>2
    <3> QED
      BY <3>1 DEF Chained
  <2> QED
    BY <2>1, <2>2
<1> QED
  BY <1>2, <1>3, <1>4 DEF Chained, v, x

\* The line without its oldest character.
LEMMA LineMovesOn ==
  ASSUME NEW n \in Marks, NEW s \in Seq(Marks), Len(s) > 1, Chained(s, n)
  PROVE  Chained(Tail(s), n)
<1> DEFINE v == Tail(s)
<1>1. Len(s) \in Nat
  BY LenProperties
<1>2. /\ v \in Seq(Marks) /\ Len(v) = Len(s) - 1
      /\ \A i \in 1 .. Len(s) - 1 : v[i] = s[i + 1]
  <2>1. s # << >>
    BY <1>1, EmptySeq
  <2> QED
    BY <1>1, <2>1, HeadTailProperties
<1> HIDE DEF v
<1>3. v[Len(v)] = n
  BY <1>1, <1>2 DEF Chained
<1>4. ASSUME NEW i \in 1 .. Len(v) - 1
      PROVE  v[i + 1] = NextChar(v[i])
  <2>1. i + 1 \in 1 .. Len(s) - 1 /\ v[i + 1] = s[(i + 1) + 1] /\ v[i] = s[i + 1]
    BY <1>1, <1>2
  <2> QED
    BY <2>1 DEF Chained
<1> QED
  BY <1>3, <1>4 DEF Chained, v

\* The oldest character of the FIFO becomes the one in hand ...
LEMMA FifoToHand ==
  ASSUME NEW done \in Seq(Chars), NEW rest \in Seq(Chars), rest # << >>
  PROVE  (done \o <<Head(rest)>>) \o Tail(rest) = (done \o << >>) \o rest
<1>1. Head(rest) \in Chars /\ Tail(rest) \in Seq(Chars) /\ <<Head(rest)>> \in Seq(Chars)
  BY HeadTailProperties
<1>2. <<Head(rest)>> \o Tail(rest) = rest
  <2>1. Len(rest) \in Nat \ {0} /\ Len(Tail(rest)) = Len(rest) - 1
    BY EmptySeq, HeadTailProperties
  <2>2. /\ <<Head(rest)>> \o Tail(rest) \in Seq(Chars)
        /\ Len(<<Head(rest)>> \o Tail(rest)) = Len(rest)
        /\ \A i \in 1 .. Len(rest) : (<<Head(rest)>> \o Tail(rest))[i] =
             IF i <= 1 THEN Head(rest) ELSE Tail(rest)[i - 1]
    BY <1>1, <2>1, ConcatProperties
  <2>3. ASSUME NEW i \in 1 .. Len(rest)
        PROVE  (<<Head(rest)>> \o Tail(rest))[i] = rest[i]
    <3>1. CASE i = 1
      BY <2>2, <3>1
    <3>2. CASE i > 1
      BY <2>1, <2>2, <3>2, HeadTailProperties
    <3> QED
      BY <3>1, <3>2
  <2> QED
    BY <2>2, <2>3, SeqEqual
<1> QED
  BY <1>1, <1>2, ConcatAssociative, ConcatEmptySeq

\* ... and that one the last that was echoed.
LEMMA HandToLine ==
  ASSUME NEW o \in Marks, NEW ch \in Chars, NEW rest \in Seq(Chars)
  PROVE  /\ (<<ch>> \o << >>) \o rest = Tail((<<o>> \o <<ch>>) \o rest)
         /\ (<<o>> \o <<ch>>) \o rest \in Seq(Marks)
         /\ Len((<<o>> \o <<ch>>) \o rest) > 1
<1> DEFINE a == <<ch>>
           b == <<o>> \o a
           v == b \o rest
           w == a \o rest
<1>1. a \in Seq(Marks) /\ Len(a) = 1 /\ a[1] = ch /\ rest \in Seq(Marks) /\ <<o>> \in Seq(Marks)
  <2>1. Chars \subseteq Marks
    BY DEF Chars, Marks
  <2>2. \A i \in DOMAIN rest : rest[i] \in Marks
    BY <2>1, ElementOfSeq, LenProperties
  <2> QED
    BY <2>1, <2>2
<1>2. /\ b \in Seq(Marks) /\ Len(b) = 2 /\ b[2] = ch
  BY <1>1, ConcatProperties
<1>3. (a \o << >>) \o rest = w
  BY <1>1, ConcatEmptySeq
<1> HIDE DEF a, b
<1>4. /\ v \in Seq(Marks) /\ Len(v) = 2 + Len(rest)
      /\ \A i \in 1 .. Len(v) : v[i] = IF i <= 2 THEN b[i] ELSE rest[i - 2]
  <2>1. /\ v \in Seq(Marks) /\ Len(v) = Len(b) + Len(rest)
        /\ \A i \in 1 .. Len(b) + Len(rest) :
             v[i] = IF i <= Len(b) THEN b[i] ELSE rest[i - Len(b)]
    BY <1>1, <1>2, ConcatProperties, Zenon
  <2> HIDE DEF v
  <2> QED
    BY <1>2, <2>1
<1>5. /\ w \in Seq(Marks) /\ Len(w) = 1 + Len(rest)
      /\ \A i \in 1 .. Len(w) : w[i] = IF i <= 1 THEN a[i] ELSE rest[i - 1]
  <2>1. /\ w \in Seq(Marks) /\ Len(w) = Len(a) + Len(rest)
        /\ \A i \in 1 .. Len(a) + Len(rest) :
             w[i] = IF i <= Len(a) THEN a[i] ELSE rest[i - Len(a)]
    BY <1>1, ConcatProperties, Zenon
  <2> HIDE DEF w
  <2> QED
    BY <1>1, <2>1
<1>6. Len(rest) \in Nat
  BY LenProperties
<1> HIDE DEF v, w
<1>7. /\ Tail(v) \in Seq(Marks) /\ Len(Tail(v)) = Len(v) - 1
      /\ \A i \in 1 .. Len(v) - 1 : Tail(v)[i] = v[i + 1]
  <2>1. v # << >>
    BY <1>4, <1>6, EmptySeq
  <2> QED
    BY <1>4, <2>1, HeadTailProperties
<1>8. ASSUME NEW i \in 1 .. Len(w)
      PROVE  w[i] = Tail(v)[i]
  <2>1. CASE i = 1
    BY <1>1, <1>2, <1>4, <1>5, <1>6, <1>7, <2>1
  <2>2. CASE i # 1
    <3>1. i + 1 \in 1 .. Len(v) /\ ~(i + 1 <= 2) /\ ~(i <= 1) /\ (i + 1) - 2 = i - 1
      BY <1>4, <1>5, <1>6, <2>2
    <3>2. Tail(v)[i] = v[i + 1]
      BY <1>4, <1>5, <1>6, <1>7
    <3> QED
      BY <1>4, <1>5, <3>1, <3>2
  <2> QED
    BY <2>1, <2>2
<1>9. Len(w) = Len(Tail(v))
  BY <1>4, <1>5, <1>6, <1>7
<1>10. w = Tail(v)
  BY <1>5, <1>7, <1>8, <1>9, SeqEqual
<1> QED
  BY <1>3, <1>4, <1>6, <1>10 DEF a, b, v, w

-----------------------------------------------------------------------------
(* The invariant *)

\* The UART receives nothing before uart_init, which therefore loses nothing; a
\* character in hand is one that came in.
LineInv ==
  /\ uart \in [rx : Seq(Chars), ints : SUBSET {"rx", "rt"}]
  /\ Chained(Line, arrived)
  /\ pc = "echo" => c \in Chars
  /\ main \in {"gic_init", "gic_enable_irq", "timer_init", "uart_init"} => uart.rx = << >>

\* Between uart_tx's look at the FIFO and its write only the handler could fill
\* the FIFO, and it starts there only by a preemption.
StringInv ==
  /\ main = "tx_write" /\ ~preempted => pc = "none" /\ tx < TxDepth
  /\ sent = printed \/ preempted
  /\ main \in {"tx_wait", "tx_write"} => printed < TestLen
  /\ main \notin {"tx_wait", "tx_write", "wfi"} => printed = 0

Inv == TypeOK /\ LineInv /\ StringInv

\* No interrupt is on, nothing has been typed or printed.
LEMMA InitInv == Init => Inv
<1> SUFFICES ASSUME Init PROVE Inv
  OBVIOUS
<1>1. TypeOK
  <2>1. << >> \in Seq(Chars) /\ Len(<< >>) <= FifoDepth
    BY FifoAssumption, EmptySeq
  <2>2. uart.rx = << >> /\ uart.ints = {}
    BY DEF Init, EmptyUart
  <2>3. /\ gic_ready \in BOOLEAN /\ daif_clear \in BOOLEAN
        /\ missed \in BOOLEAN /\ preempted \in BOOLEAN
    BY Zenon DEF Init
  <2>4. /\ printed \in 0 .. TestLen /\ sent \in 0 .. printed /\ tx \in 0 .. TxDepth
        /\ c \in 0 .. Numbers /\ arrived \in 0 .. Numbers /\ out \in 0 .. Numbers
    BY BoundsAssumption DEF Init
  <2> QED
    BY <2>1, <2>2, <2>3, <2>4 DEF Init, TypeOK, Chars, MainPC, HandlerPC
<1>2. LineInv
  <2>1. uart \in [rx : Seq(Chars), ints : SUBSET {"rx", "rt"}]
    BY DEF Init, EmptyUart
  <2>2. Chained(Line, arrived)
    <3>1. Line = (<<0>> \o << >>) \o << >> /\ arrived = 0
      BY DEF Init, EmptyUart, Line, Hand
    <3>2. (<<0>> \o << >>) \o << >> = <<0>>
      <4>1. <<0>> \in Seq({0})
        OBVIOUS
      <4> QED
        BY <4>1, ConcatEmptySeq
    <3>3. Len(<<0>>) = 1 /\ <<0>>[1] = 0
      OBVIOUS
    <3> QED
      BY <3>1, <3>2, <3>3 DEF Chained
  <2> QED
    BY <2>1, <2>2 DEF Init, LineInv, EmptyUart
<1>3. StringInv
  BY DEF Init, StringInv
<1> QED
  BY <1>1, <1>2, <1>3 DEF Inv

-----------------------------------------------------------------------------
(* The steps *)

\* The three parts of the line are sequences of characters.
LEMMA CharsTyped ==
  ASSUME Inv
  PROVE  /\ <<out>> \in Seq(Marks) /\ Hand \in Seq(Marks) /\ uart.rx \in Seq(Marks)
         /\ uart.rx \in Seq(Chars)
<1>1. out \in Marks /\ uart.rx \in Seq(Chars) /\ Chars \subseteq Marks
  BY DEF Inv, TypeOK, Chars, Marks
<1>2. uart.rx \in Seq(Marks)
  <2>1. \A i \in 1 .. Len(uart.rx) : uart.rx[i] \in Marks
    BY <1>1, ElementOfSeq
  <2> QED
    BY <1>1, <2>1
<1>3. CASE pc = "echo"
  <2>1. c \in Marks /\ Hand = <<c>>
    BY <1>1, <1>3 DEF Inv, LineInv, Hand
  <2> QED
    BY <1>1, <1>2, <2>1
<1>4. CASE pc # "echo"
  BY <1>1, <1>2, <1>4, EmptySeq DEF Hand
<1> QED
  BY <1>3, <1>4

\* What the line keeps when the UART, the echo and the hand are left alone.
LEMMA LineKept ==
  ASSUME LineInv, out' = out, uart' = uart, arrived' = arrived, c' = c,
         pc' = "echo" <=> pc = "echo",
         main' \in {"gic_init", "gic_enable_irq", "timer_init", "uart_init"}
           => main \in {"gic_init", "gic_enable_irq", "timer_init", "uart_init"}
  PROVE  LineInv'
BY DEF LineInv, Line, Hand

\* The timer and the line to the terminal.
LEMMA TransmitStep ==
  ASSUME Inv, TimerExpires \/ Transmit
  PROVE  Inv'
<1>1. CASE TimerExpires
  <2>1. LineInv'
    BY <1>1, LineKept DEF Inv, TimerExpires, history
  <2> QED
    BY <1>1, <2>1 DEF Inv, TimerExpires, TypeOK, StringInv, setup, history
<1>2. CASE Transmit
  <2>1. LineInv'
    BY <1>2, LineKept DEF Inv, Transmit, history
  <2>2. tx' \in 0 .. TxDepth /\ tx' < tx /\ tx \in 0 .. TxDepth
    BY <1>2, BoundsAssumption DEF Inv, TypeOK, Transmit
  <2>3. tx < TxDepth => tx' < TxDepth
    BY <2>2, BoundsAssumption
  <2> QED
    BY <1>2, <2>1, <2>2, <2>3 DEF Inv, Transmit, TypeOK, StringInv, setup, history
<1> QED
  BY <1>1, <1>2

\* A character comes in, behind all that came in before it.
LEMMA ArriveStep ==
  ASSUME Inv, CharArrives
  PROVE  Inv'
<1> DEFINE x == NextChar(arrived)
<1>1. /\ uart.rx \in Seq(Chars) /\ Len(uart.rx) < FifoDepth
      /\ uart.ints \subseteq {"rx", "rt"}
      /\ arrived \in Marks
  BY DEF Inv, TypeOK, CharArrives, CanReceive, Chars, Marks
<1>2. arrived' = x /\ x \in Chars
  BY <1>1, NextIsChar DEF CharArrives
<1>3. /\ uart'.rx = Append(uart.rx, x)
      /\ uart' \in [rx : Seq(Chars), ints : SUBSET {"rx", "rt"}]
  BY <1>1, <1>2, AppendProperties DEF CharArrives, Receive
<1> HIDE DEF x
<1>4. uart'.rx \in Seq(Chars) /\ uart'.ints \subseteq {"rx", "rt"} /\ Len(uart'.rx) <= FifoDepth
  BY <1>1, <1>2, <1>3, AppendProperties, LenProperties, FifoAssumption
<1>5. TypeOK'
  <2>1. missed' \in BOOLEAN
    BY Zenon DEF Inv, TypeOK, CharArrives
  <2>2. arrived' \in 0 .. Numbers
    BY <1>2 DEF Chars
  <2> QED
    BY <1>4, <2>1, <2>2 DEF Inv, TypeOK, CharArrives, setup, Chars
<1>6. LineInv'
  <2> DEFINE a == <<out>> \o Hand
  <2>1. a \in Seq(Marks) /\ uart.rx \in Seq(Marks) /\ x \in Marks /\ <<x>> \in Seq(Marks)
        /\ <<out>> \in Seq(Marks) /\ Hand \in Seq(Marks)
    BY <1>2, CharsTyped, ConcatProperties DEF Chars, Marks
  <2>2. Line' = a \o Append(uart.rx, x)
    BY <1>3 DEF CharArrives, Line, Hand
  <2>3. Line = a \o uart.rx
    BY DEF Line
  <2>4. Len(a) \in Nat \ {0} /\ Len(uart.rx) \in Nat
    <3>1. Len(a) = Len(<<out>>) + Len(Hand) /\ Len(Hand) \in Nat /\ Len(uart.rx) \in Nat
      BY <2>1, ConcatProperties, LenProperties, Zenon
    <3>2. Len(<<out>>) = 1
      OBVIOUS
    <3> HIDE DEF a
    <3> QED
      BY <3>1, <3>2
  <2> HIDE DEF a
  <2>5. Line \in Seq(Marks) /\ Line # << >>
    <3>1. Line \in Seq(Marks) /\ Len(Line) = Len(a) + Len(uart.rx)
      BY <2>1, <2>3, ConcatProperties, Zenon
    <3>2. Len(a) + Len(uart.rx) # 0
      BY <2>4
    <3>3. Len(<< >>) = 0
      OBVIOUS
    <3> QED
      BY <3>1, <3>2, <3>3, Zenon
  <2>6. a \o Append(uart.rx, x) = Append(a \o uart.rx, x)
    BY <2>1, AppendBehind
  <2>7. Chained(Append(Line, x), x)
    BY <1>1, <2>5, LineGrows DEF Inv, LineInv, x
  <2>8. Chained(Line, arrived)'
    BY <1>2, <2>2, <2>3, <2>6, <2>7 DEF Chained
  <2> QED
    BY <1>3, <2>8 DEF Inv, LineInv, CharArrives
<1>7. StringInv'
  BY DEF Inv, StringInv, CharArrives
<1> QED
  BY <1>5, <1>6, <1>7 DEF Inv

\* The receive timeout raises an interrupt and moves no character.
LEMMA TimeoutStep ==
  ASSUME Inv, ReceiveTimeout
  PROVE  Inv'
<1>1. /\ uart'.rx = uart.rx
      /\ uart' \in [rx : Seq(Chars), ints : SUBSET {"rx", "rt"}]
  BY DEF Inv, LineInv, ReceiveTimeout, Timeout
<1>2. TypeOK'
  BY <1>1 DEF Inv, TypeOK, ReceiveTimeout, setup, history
<1>3. LineInv'
  BY <1>1 DEF Inv, LineInv, Line, Hand, ReceiveTimeout, history
<1>4. StringInv'
  BY DEF Inv, StringInv, ReceiveTimeout, history
<1> QED
  BY <1>2, <1>3, <1>4 DEF Inv

\* main() up to its test string: uart_init finds nothing received, for the UART
\* was off.
LEMMA SetupStep ==
  ASSUME Inv, GicInit \/ GicEnableIrq \/ TimerInit \/ UartInit \/ UartIrqEnable \/ Unmask
  PROVE  Inv'
<1>1. CASE GicInit
  <2>1. LineInv'
    BY <1>1, LineKept DEF Inv, GicInit, InMain, device, history
  <2> QED
    BY <1>1, <2>1 DEF Inv, GicInit, TypeOK, MainPC, StringInv, device, history
<1>2. CASE GicEnableIrq
  <2>1. LineInv'
    BY <1>2, LineKept DEF Inv, GicEnableIrq, InMain, device, history
  <2> QED
    BY <1>2, <2>1 DEF Inv, GicEnableIrq, TypeOK, MainPC, StringInv, device, history
<1>3. CASE TimerInit
  <2>1. LineInv'
    BY <1>3, LineKept DEF Inv, TimerInit, InMain, history
  <2> QED
    BY <1>3, <2>1 DEF Inv, TimerInit, TypeOK, MainPC, StringInv, setup, history
<1>4. CASE UartInit
  <2>1. uart'.rx = << >> /\ uart.rx = << >> /\ uart'.ints = {} /\ pc = "none" /\ pc' = pc
    BY <1>4 DEF Inv, LineInv, UartInit, InMain, EmptyUart
  <2>2. uart' \in [rx : Seq(Chars), ints : SUBSET {"rx", "rt"}]
    BY <1>4, EmptySeq DEF UartInit, EmptyUart
  <2>3. LineInv'
    BY <1>4, <2>1, <2>2 DEF Inv, LineInv, Line, Hand, UartInit, history
  <2>4. TypeOK' /\ StringInv'
    BY <1>4, <2>1 DEF Inv, UartInit, TypeOK, MainPC, StringInv, setup, history
  <2> QED
    BY <2>3, <2>4 DEF Inv
<1>5. CASE UartIrqEnable
  <2>1. LineInv'
    BY <1>5, LineKept DEF Inv, UartIrqEnable, InMain, device, history
  <2> QED
    BY <1>5, <2>1 DEF Inv, UartIrqEnable, TypeOK, MainPC, StringInv, device, history
<1>6. CASE Unmask
  <2>1. main = "unmask" /\ printed = 0
    BY <1>6 DEF Inv, StringInv, Unmask
  <2>2. main' \in {"wfi", "tx_wait"} /\ (main' = "tx_wait" => 0 < TestLen)
    BY <1>6, BoundsAssumption DEF Unmask
  <2>3. LineInv'
    BY <1>6, <2>2, LineKept DEF Inv, Unmask, device, history
  <2>4. daif_clear' \in BOOLEAN
    BY <1>6, Zenon DEF Unmask
  <2>5. TypeOK'
    BY <1>6, <2>2, <2>4 DEF Inv, Unmask, TypeOK, MainPC, device, history
  <2>6. StringInv'
    BY <1>6, <2>1, <2>2 DEF Inv, Unmask, StringInv, device, history
  <2> QED
    BY <2>3, <2>5, <2>6 DEF Inv
<1> QED
  BY <1>1, <1>2, <1>3, <1>4, <1>5, <1>6

\* uart_tx from main(): a look at the FIFO, and the write.
LEMMA StringStep ==
  ASSUME Inv, MainWaits \/ MainWrites
  PROVE  Inv'
<1>1. CASE MainWaits
  <2>1. LineInv'
    BY <1>1, LineKept DEF Inv, MainWaits, device, history
  <2> QED
    BY <1>1, <2>1 DEF Inv, MainWaits, InMain, TypeOK, MainPC, StringInv, setup, device, history
<1>2. CASE MainWrites
  <2>1. /\ main = "tx_write" /\ printed' = printed + 1
        /\ printed \in 0 .. TestLen /\ sent \in 0 .. printed /\ tx \in 0 .. TxDepth
        /\ printed < TestLen
    BY <1>2 DEF Inv, TypeOK, StringInv, MainWrites
  <2>2. main' \in {"wfi", "tx_wait"} /\ (main' = "tx_wait" => printed' < TestLen)
    BY <1>2, <2>1, BoundsAssumption DEF MainWrites
  <2>3. LineInv'
    BY <1>2, <2>2, LineKept DEF Inv, MainWrites, history
  <2>4. /\ tx' \in 0 .. TxDepth /\ sent' \in 0 .. printed' /\ printed' \in 0 .. TestLen
    BY <1>2, <2>1, BoundsAssumption DEF MainWrites
  <2>5. sent' = printed' \/ preempted'
    <3>1. CASE preempted
      BY <1>2, <3>1 DEF MainWrites, history
    <3>2. CASE ~preempted
      BY <1>2, <2>1, <3>2 DEF Inv, StringInv, MainWrites
    <3> QED
      BY <3>1, <3>2
  <2>6. TypeOK'
    BY <1>2, <2>2, <2>4 DEF Inv, MainWrites, TypeOK, MainPC, setup, history
  <2>7. StringInv'
    BY <2>2, <2>5 DEF StringInv
  <2> QED
    BY <2>3, <2>6, <2>7 DEF Inv
<1> QED
  BY <1>1, <1>2

\* irq_handler() up to its end, but for the loop that echoes.
LEMMA HandlerPlainStep ==
  ASSUME Inv, TakeIrq \/ Acknowledge \/ TimerReload \/ ReadMis \/ EndInterrupt \/ Eret
  PROVE  Inv'
<1>1. CASE TakeIrq
  <2>1. LineInv'
    BY <1>1, LineKept DEF Inv, TakeIrq, device
  <2>2. preempted' \in BOOLEAN /\ (preempted => preempted') /\ (main = "tx_write" => preempted')
    BY <1>1, Zenon DEF Inv, TypeOK, TakeIrq
  <2>3. TypeOK'
    BY <1>1, <2>2 DEF Inv, TakeIrq, TypeOK, HandlerPC, setup, device
  <2>4. StringInv'
    BY <1>1, <2>2 DEF Inv, TakeIrq, StringInv, setup, device
  <2> QED
    BY <2>1, <2>3, <2>4 DEF Inv
<1>2. CASE Acknowledge
  <2>1. LineInv'
    BY <1>2, LineKept DEF Inv, Acknowledge, device, history
  <2> QED
    BY <1>2, <2>1 DEF Inv, Acknowledge, TypeOK, HandlerPC, StringInv, TIMER_IRQ, UART_IRQ,
       setup, device, history
<1>3. CASE TimerReload
  <2>1. LineInv'
    BY <1>3, LineKept DEF Inv, TimerReload, history
  <2> QED
    BY <1>3, <2>1 DEF Inv, TimerReload, TypeOK, HandlerPC, StringInv, setup, history
<1>4. CASE ReadMis
  <2>1. LineInv'
    BY <1>4, LineKept DEF Inv, ReadMis, device, history
  <2> QED
    BY <1>4, <2>1 DEF Inv, ReadMis, TypeOK, HandlerPC, StringInv, setup, device, history
<1>5. CASE EndInterrupt
  <2>1. LineInv'
    BY <1>5, LineKept DEF Inv, EndInterrupt, device, history
  <2> QED
    BY <1>5, <2>1 DEF Inv, EndInterrupt, TypeOK, HandlerPC, StringInv, setup, device, history
<1>6. CASE Eret
  <2>1. LineInv'
    BY <1>6, LineKept DEF Inv, Eret, device, history
  <2> QED
    BY <1>6, <2>1 DEF Inv, Eret, TypeOK, HandlerPC, StringInv, setup, device, history
<1> QED
  BY <1>1, <1>2, <1>3, <1>4, <1>5, <1>6

\* The loop of uart_irq_handler: one character after the other goes from the FIFO
\* to the hand and from there to the echo.
LEMMA EchoStep ==
  ASSUME Inv, Drain \/ Echo \/ ClearRx
  PROVE  Inv'
<1>1. CASE Drain /\ uart.rx = << >>
  <2>1. /\ pc = "drain" /\ pc' = "icr" /\ c' = 0 /\ uart' = uart /\ out' = out
        /\ arrived' = arrived /\ main' = main
    BY <1>1 DEF Drain, history
  <2>2. LineInv'
    BY <2>1 DEF Inv, LineInv, Line, Hand
  <2>3. TypeOK'
    <3>1. c' \in 0 .. Numbers
      BY <2>1, BoundsAssumption
    <3> QED
      BY <1>1, <2>1, <3>1 DEF Inv, Drain, TypeOK, HandlerPC, setup, history
  <2>4. StringInv'
    BY <1>1, <2>1 DEF Inv, Drain, StringInv, setup, history
  <2> QED
    BY <2>2, <2>3, <2>4 DEF Inv
<1>2. CASE Drain /\ uart.rx # << >>
  <2>1. /\ pc = "drain" /\ pc' = "echo" /\ c' = Head(uart.rx) /\ uart'.rx = Tail(uart.rx)
        /\ uart'.ints = uart.ints \ ((IF Len(uart.rx) - 1 < Trigger THEN {"rx"} ELSE {})
                                     \cup (IF Len(uart.rx) = 1 THEN {"rt"} ELSE {}))
        /\ DOMAIN uart' = {"rx", "ints"}
        /\ out' = out /\ arrived' = arrived /\ main' = main
    BY <1>2 DEF Drain, ReadData, history
  <2>2. /\ c' \in Chars /\ uart'.rx \in Seq(Chars) /\ Len(uart'.rx) <= FifoDepth
        /\ uart'.ints \subseteq {"rx", "rt"}
    <3>1. Len(uart'.rx) = Len(uart.rx) - 1 /\ Len(uart.rx) \in Nat
      BY <1>2, <2>1, CharsTyped, HeadTailProperties, LenProperties
    <3> QED
      BY <1>2, <2>1, <3>1, CharsTyped, HeadTailProperties, FifoAssumption DEF Inv, TypeOK
  <2>3. uart' \in [rx : Seq(Chars), ints : SUBSET {"rx", "rt"}]
    BY <1>2, <2>1, <2>2 DEF Drain, ReadData
  <2>4. LineInv'
    <3>1. (<<out>> \o <<Head(uart.rx)>>) \o Tail(uart.rx) = (<<out>> \o << >>) \o uart.rx
      BY <1>2, CharsTyped, FifoToHand
    <3>2. Line' = Line
      BY <2>1, <3>1 DEF Line, Hand
    <3> QED
      BY <1>2, <2>1, <2>2, <2>3, <3>2 DEF Inv, LineInv
  <2>5. TypeOK'
    <3>1. c' \in 0 .. Numbers
      BY <2>2, BoundsAssumption DEF Chars
    <3> QED
      BY <1>2, <2>1, <2>2, <3>1 DEF Inv, Drain, TypeOK, HandlerPC, Chars, setup, history
  <2>6. StringInv'
    BY <1>2, <2>1 DEF Inv, Drain, StringInv, setup, history
  <2> QED
    BY <2>4, <2>5, <2>6 DEF Inv
<1>3. CASE Echo
  <2>1. /\ pc = "echo" /\ pc' = "drain" /\ out' = c /\ uart' = uart /\ c' = c
        /\ arrived' = arrived /\ main' = main
    BY <1>3 DEF Echo, history
  <2>2. c \in Chars /\ out \in Marks /\ arrived \in Marks
    BY <2>1 DEF Inv, LineInv, TypeOK, Marks
  <2>3. tx' \in 0 .. TxDepth
    BY <1>3, BoundsAssumption DEF Inv, TypeOK, Echo
  <2>4. LineInv'
    <3>1. Line = (<<out>> \o <<c>>) \o uart.rx /\ Line' = (<<c>> \o << >>) \o uart.rx
      BY <2>1 DEF Line, Hand
    <3>2. Line' = Tail(Line) /\ Line \in Seq(Marks) /\ Len(Line) > 1
      BY <2>2, <3>1, CharsTyped, HandToLine
    <3>3. Chained(Tail(Line), arrived)
      BY <2>2, <3>2, LineMovesOn DEF Inv, LineInv
    <3>4. Chained(Line, arrived)'
      BY <2>1, <3>2, <3>3 DEF Chained
    <3> QED
      BY <2>1, <3>4 DEF Inv, LineInv
  <2>5. TypeOK'
    BY <1>3, <2>1, <2>2, <2>3 DEF Inv, Echo, TypeOK, HandlerPC, Chars, setup, history
  <2>6. StringInv'
    BY <1>3, <2>1 DEF Inv, Echo, StringInv, setup, history
  <2> QED
    BY <2>4, <2>5, <2>6 DEF Inv
<1>4. CASE ClearRx
  <2>1. /\ uart'.rx = uart.rx
        /\ uart' \in [rx : Seq(Chars), ints : SUBSET {"rx", "rt"}]
    BY <1>4 DEF Inv, LineInv, ClearRx, Clear
  <2>2. LineInv'
    BY <1>4, <2>1 DEF Inv, LineInv, Line, Hand, ClearRx, history
  <2>3. TypeOK'
    BY <1>4, <2>1 DEF Inv, ClearRx, TypeOK, HandlerPC, setup, history
  <2>4. StringInv'
    BY <1>4 DEF Inv, ClearRx, StringInv, setup, history
  <2> QED
    BY <2>2, <2>3, <2>4 DEF Inv
<1> QED
  BY <1>1, <1>2, <1>3, <1>4

\* Every step keeps the invariant.
LEMMA NextInv == Inv /\ [Next]_vars => Inv'
<1> SUFFICES ASSUME Inv, [Next]_vars PROVE Inv'
  OBVIOUS
<1>1. CASE Next
  BY <1>1, TransmitStep, ArriveStep, TimeoutStep, SetupStep, StringStep, HandlerPlainStep, EchoStep
     DEF Next, MainStep, HandlerStep
<1>2. CASE UNCHANGED vars
  <2>1. LineInv'
    BY <1>2, LineKept DEF Inv, vars, device, history
  <2> QED
    BY <1>2, <2>1 DEF Inv, vars, TypeOK, StringInv, setup, device, history
<1> QED
  BY <1>1, <1>2

-----------------------------------------------------------------------------

\* The inductive invariant, in every state of every behaviour.
THEOREM Invariance == Spec => []Inv
BY InitInv, NextInv, PTL DEF Spec

\* Every variable of 04_GIC_Interrupt keeps its type: neither FIFO is overrun,
\* and uart_tx_string stops at the end of its string.
THEOREM TypeCorrect == Spec => []TypeOK
<1>1. Inv => TypeOK
  BY DEF Inv
<1> QED
  BY <1>1, Invariance, PTL

\* uart_irq_handler sends back what was typed, once and in order, whenever
\* characters come in and for any depth of the FIFO.
THEOREM EchoIsExact == Spec => []EchoExact
<1>1. Inv => EchoExact
  BY DEF Inv, LineInv, Chained, EchoExact
<1> QED
  BY <1>1, Invariance, PTL

\* uart_tx waits for room, so that main's test string loses a character only
\* when an interrupt comes between the wait and the write.
THEOREM StringLostOnlyByPreemption == Spec => []TestStringSent
<1>1. Inv => TestStringSent
  BY DEF Inv, StringInv, TestStringSent
<1> QED
  BY <1>1, Invariance, PTL
=============================================================================
