----------------------------- MODULE UartDriver -----------------------------
(***************************************************************************)
(* The interrupt-driven UART of drivers/uart/uart.c with the ring buffers  *)
(* of drivers/uart/buffers.rs.  A put pushes its bytes into the tx ring    *)
(* and enables TRDY; the interrupt handler, on IrqCore, moves them to the  *)
(* hardware fifo, disables TRDY when the ring is empty, and moves received *)
(* bytes to the rx ring.  Puts hold tx_lock with interrupts masked; the    *)
(* handler masks interrupts and takes no lock.  The n-th byte put is the   *)
(* number n, the n-th byte received too; a byte put synchronously is 0.    *)
(* An operator headed "Faulty" is the definition that follows it with a    *)
(* bug the code does not have: no specification uses it.                   *)
(***************************************************************************)
EXTENDS Integers, Sequences

CONSTANTS
  Cores, IrqCore,      \* the cores, and the one the interrupt goes to
  NULL,                \* nobody holds tx_lock
  TxSize, RxSize,      \* slots of the rings, one of them always free
  FifoSize, TxLevel,   \* the hardware fifos; TRDY is up below TxLevel bytes
  MaxPut, MaxSync, MaxArrived,  \* bytes put, put synchronously, received
  MaxString            \* length of the longest string put

ASSUME UartAssumption ==
  /\ IrqCore \in Cores /\ NULL \notin Cores
  /\ {TxSize, RxSize} \subseteq Nat \ {0, 1}
  /\ FifoSize \in Nat \ {0} /\ TxLevel \in 1 .. FifoSize
  /\ {MaxPut, MaxSync, MaxArrived} \subseteq Nat /\ MaxString \in Nat \ {0}

VARIABLES
  fifo, rxfifo,        \* external: the hardware fifos
  ucr1,                \* external: the interrupts UCR1 enables
  sent, arrived,       \* external: bytes that have left and reached the pins
  irq_status,          \* the driver's copy of ucr1
  tx, rx,              \* the rings
  tx_lock,             \* the core that holds it, or NULL
  at, left,            \* per core, where its thread is, and bytes left to put
  put, synced, read,   \* bytes pushed, written synchronously, taken by uart_read
  irq                  \* the handler: [at, sources, data]

hardware == <<fifo, rxfifo, ucr1, sent, arrived>>
threads == <<tx_lock, at, left, put, synced, read>>
vars == <<hardware, irq_status, tx, rx, threads, irq>>

-----------------------------------------------------------------------------
(* RingBuffer, which both rings use with overwrite = false.                *)

EmptyRing(n) == [head |-> 0, tail |-> 0, buf |-> [i \in 0 .. n - 1 |-> 0]]
IsEmpty(r) == r.head = r.tail

IsFull(r, n) == (r.head + 1) % n = r.tail

\* Faulty: the head is not masked.
PushUnmasked(r, n, v) == [r EXCEPT !.buf[r.head] = v, !.head = r.head + 1]

Push(r, n, v) == [r EXCEPT !.buf[r.head] = v, !.head = (r.head + 1) % n]
Pop(r, n) == [r EXCEPT !.tail = (r.tail + 1) % n]
RingLen(r, n) == (r.head - r.tail) % n
Contents(r, n) == [i \in 1 .. RingLen(r, n) |-> r.buf[(r.tail + i - 1) % n]]

-----------------------------------------------------------------------------
(* The hardware.                                                           *)

\* The sources the driver enables; the others of the enumeration stay disabled.
Sources == {"RRDY", "TRDY"}

Raised == {s \in Sources :
             IF s = "RRDY" THEN rxfifo # <<>> ELSE Len(fifo) < TxLevel}

\* External: the oldest byte of the fifo leaves.
LineSends ==
  /\ fifo # <<>>
  /\ fifo' = Tail(fifo)
  /\ sent' = IF Head(fifo) = 0 THEN sent ELSE Head(fifo)
  /\ UNCHANGED <<rxfifo, ucr1, arrived, irq_status, tx, rx, threads, irq>>

\* External: a byte arrives, with room for it; early the receiver is off.
LineReceives ==
  /\ at[IrqCore] # "early"
  /\ arrived < MaxArrived /\ Len(rxfifo) < FifoSize
  /\ arrived' = arrived + 1
  /\ rxfifo' = Append(rxfifo, arrived')
  /\ UNCHANGED <<fifo, ucr1, sent, irq_status, tx, rx, threads, irq>>

\* A write of UTXD; the byte is lost when the fifo is full.
Transmit(v) == fifo' = IF Len(fifo) < FifoSize THEN Append(fifo, v) ELSE fifo

Switch(irqs, s, enable) == IF enable THEN irqs \cup {s} ELSE irqs \ {s}

-----------------------------------------------------------------------------
(* The threads.  uart_set_irq_state_ is two steps: the copy, then UCR1.    *)

NoIrq == [at |-> "out", sources |-> {}, data |-> 0]

Boot == {"early", "flush", "flushing"}
Register(s) == IF s = "RRDY" THEN "RRDY UCR1" ELSE "TRDY UCR1"
Stage1 == Sources \cup {Register(s) : s \in Sources}
Running(c) == c = IrqCore => irq.at = "out"
Booted == at[IrqCore] \notin Boot \cup Stage1 \cup {"GIC"}

\* The thread of c goes on from one place to another.
Goes(c, from, to) ==
  /\ at[c] = from /\ Running(c)
  /\ at' = [at EXCEPT ![c] = to]

\* After uart_early_init: only the transmitter is on, with no interrupt.
Init ==
  /\ fifo = <<>> /\ rxfifo = <<>> /\ ucr1 = {} /\ sent = 0 /\ arrived = 0
  /\ irq_status = {} /\ tx = EmptyRing(TxSize) /\ rx = EmptyRing(RxSize)
  /\ tx_lock = NULL
  /\ at = [c \in Cores |-> IF c = IrqCore THEN "early" ELSE "idle"]
  /\ left = [c \in Cores |-> 0]
  /\ put = 0 /\ synced = 0 /\ read = 0
  /\ irq = NoIrq

\* uart_putc_early: boot writes when there is room; nobody else does yet.
EarlyPut(c) ==
  /\ synced < MaxSync /\ Len(fifo) < FifoSize
  /\ Goes(c, "early", "early")
  /\ Transmit(0)
  /\ synced' = synced + 1
  /\ UNCHANGED <<rxfifo, ucr1, sent, arrived, irq_status, tx, rx, tx_lock,
                 left, put, read, irq>>

\* uart_reset waits until all is sent; uart_init_stage0 then turns the receiver
\* on and comes to its flush.
Reset(c) ==
  /\ fifo = <<>>
  /\ Goes(c, "early", "flush")
  /\ irq_status' = {} /\ tx' = EmptyRing(TxSize) /\ rx' = EmptyRing(RxSize)
  /\ tx_lock' = NULL
  /\ UNCHANGED <<hardware, left, put, synced, read, irq>>

\* uart_init_stage0 reads URXD once...
FlushRead(c) ==
  /\ Goes(c, "flush", "flushing")
  /\ rxfifo' = IF rxfifo = <<>> THEN <<>> ELSE Tail(rxfifo)
  /\ read' = IF rxfifo = <<>> THEN read ELSE Head(rxfifo)
  /\ UNCHANGED <<fifo, ucr1, sent, arrived, irq_status, tx, rx, tx_lock, left,
                 put, synced, irq>>

\* ...and goes on when RXEMPTY is up.
FlushEnd(c) ==
  /\ rxfifo = <<>>
  /\ Goes(c, "flushing", "RRDY")
  /\ UNCHANGED <<hardware, irq_status, tx, rx, tx_lock, left, put, synced,
                 read, irq>>

\* A uart_set_irq_state_ of uart_init_stage1: the copy...
Stage1Copy(c, s) ==
  /\ Goes(c, s, Register(s))
  /\ irq_status' = irq_status \cup {s}
  /\ UNCHANGED <<hardware, tx, rx, tx_lock, left, put, synced, read, irq>>

\* ...and the register.
Stage1Ucr1(c, s) ==
  /\ Goes(c, Register(s), IF s = "RRDY" THEN "TRDY" ELSE "GIC")
  /\ ucr1' = ucr1 \cup {s}
  /\ UNCHANGED <<fifo, rxfifo, sent, arrived, irq_status, tx, rx, tx_lock, left,
                 put, synced, read, irq>>

\* uart_stage2_ enables the interrupt in the interrupt controller.
EnableInGic(c) ==
  /\ Goes(c, "GIC", "idle")
  /\ UNCHANGED <<hardware, irq_status, tx, rx, tx_lock, left, put, synced,
                 read, irq>>

\* uart_read; interrupts are masked and the handler only pushes.
Read(c) ==
  /\ Goes(c, "idle", "idle") /\ Booted
  /\ ~IsEmpty(rx)
  /\ read' = rx.buf[rx.tail]
  /\ rx' = Pop(rx, RxSize)
  /\ UNCHANGED <<hardware, irq_status, tx, tx_lock, left, put, synced, irq>>

\* spin_lock_irqsave(tx_lock), for n bytes.
Lock(c, n, to) ==
  /\ Booted /\ tx_lock = NULL
  /\ Goes(c, "idle", to)
  /\ tx_lock' = c /\ left' = [left EXCEPT ![c] = n]
  /\ UNCHANGED <<hardware, irq_status, tx, rx, put, synced, read, irq>>

PutsStart(c, n) == put + n <= MaxPut /\ Lock(c, n, "push")
PutsSyncStart(c, n) == synced + n <= MaxSync /\ Lock(c, n, "full")

\* The last byte unlocks, restoring interrupts.
NextByte(c, from, to) ==
  /\ Goes(c, from, IF left[c] = 1 THEN "idle" ELSE to)
  /\ left' = [left EXCEPT ![c] = @ - 1]
  /\ tx_lock' = IF left[c] = 1 THEN NULL ELSE tx_lock

\* UNLOCKED_putc_ pushes; PANIC when the ring is full.
PutPush(c) ==
  /\ at[c] = "push"
  /\ IF IsFull(tx, TxSize)
       THEN Goes(c, "push", "panicked") /\ UNCHANGED <<tx, put>>
       ELSE /\ Goes(c, "push", "check")
            /\ put' = put + 1
            /\ tx' = Push(tx, TxSize, put')
  /\ UNCHANGED <<hardware, irq_status, rx, tx_lock, left, synced, read, irq>>

\* The copy says TRDY is enabled already.
PutEnabled(c) ==
  /\ "TRDY" \in irq_status
  /\ NextByte(c, "check", "push")
  /\ UNCHANGED <<hardware, irq_status, tx, rx, put, synced, read, irq>>

PutCopy(c) ==
  /\ "TRDY" \notin irq_status
  /\ Goes(c, "check", "UCR1")
  /\ irq_status' = Switch(irq_status, "TRDY", TRUE)
  /\ UNCHANGED <<hardware, tx, rx, tx_lock, left, put, synced, read, irq>>

PutUcr1(c) ==
  /\ NextByte(c, "UCR1", "push")
  /\ ucr1' = Switch(ucr1, "TRDY", TRUE)
  /\ UNCHANGED <<fifo, rxfifo, sent, arrived, irq_status, tx, rx, put, synced,
                 read, irq>>

\* Faulty: TXFULL is not waited for.
PutSyncNoWait(c) ==
  /\ Goes(c, "full", "write")
  /\ UNCHANGED <<hardware, irq_status, tx, rx, tx_lock, left, put, synced, read, irq>>

\* UNLOCKED_putc_sync_ waits until the fifo is not full...
PutSyncWait(c) ==
  /\ Len(fifo) < FifoSize
  /\ Goes(c, "full", "write")
  /\ UNCHANGED <<hardware, irq_status, tx, rx, tx_lock, left, put, synced, read, irq>>

\* ...and writes the byte.
PutSyncWrite(c) ==
  /\ NextByte(c, "write", "full")
  /\ Transmit(0)
  /\ synced' = synced + 1
  /\ UNCHANGED <<rxfifo, ucr1, sent, arrived, irq_status, tx, rx, put, read, irq>>

-----------------------------------------------------------------------------
(* uart_handle_irq: RRDY is handled before TRDY.                           *)

HandlerGoes(from, to) == irq.at = from /\ irq' = [irq EXCEPT !.at = to]
AfterRRDY == IF "TRDY" \in irq.sources THEN "full" ELSE "out"

\* Faulty: the interrupt controller is set up before uart_init_stage1.
TakeIrqEarly ==
  /\ Raised \cap ucr1 # {} /\ at[IrqCore] \in Stage1 \cup {"idle"}
  /\ HandlerGoes("out", "sources")
  /\ UNCHANGED <<hardware, irq_status, tx, rx, threads>>

\* The interrupt is enabled in the controller and not masked on its core.
TakeIrq ==
  /\ Raised \cap ucr1 # {} /\ at[IrqCore] = "idle"
  /\ HandlerGoes("out", "sources")
  /\ UNCHANGED <<hardware, irq_status, tx, rx, threads>>

\* uart_get_irq_sources: what is raised and enabled in the driver's copy.
GetSources ==
  /\ irq.at = "sources"
  /\ LET s == Raised \cap irq_status
     IN  irq' = [irq EXCEPT !.sources = s,
                            !.at = CASE "RRDY" \in s -> "read"
                                     [] s = {"TRDY"} -> "full"
                                     [] OTHER -> "out"]
  /\ UNCHANGED <<hardware, irq_status, tx, rx, threads>>

\* handle_RRDY_: a byte into the rx ring; PANIC when it is full.
ReadByte ==
  /\ rxfifo # <<>>
  /\ rxfifo' = Tail(rxfifo)
  /\ IF IsFull(rx, RxSize)
       THEN HandlerGoes("read", "panicked") /\ UNCHANGED rx
       ELSE /\ HandlerGoes("read", "more")
            /\ rx' = Push(rx, RxSize, Head(rxfifo))
  /\ UNCHANGED <<fifo, ucr1, sent, arrived, irq_status, tx, threads>>

ReadMore ==
  /\ HandlerGoes("more", IF rxfifo = <<>> THEN AfterRRDY ELSE "read")
  /\ UNCHANGED <<hardware, irq_status, tx, rx, threads>>

\* Faulty: the loop does not look at TXFULL.
FullUnseen ==
  /\ HandlerGoes("full", "pop")
  /\ UNCHANGED <<hardware, irq_status, tx, rx, threads>>

\* handle_TRDY_: until the fifo is full...
TestFull ==
  /\ HandlerGoes("full", IF Len(fifo) < FifoSize THEN "pop" ELSE "out")
  /\ UNCHANGED <<hardware, irq_status, tx, rx, threads>>

\* ...a byte is taken from the tx ring...
PopByte ==
  /\ irq.at = "pop"
  /\ IF IsEmpty(tx)
       THEN irq' = [irq EXCEPT !.at = "copy"] /\ UNCHANGED tx
       ELSE /\ irq' = [irq EXCEPT !.at = "write", !.data = tx.buf[tx.tail]]
            /\ tx' = Pop(tx, TxSize)
  /\ UNCHANGED <<hardware, irq_status, rx, threads>>

\* ...and sent.
WriteByte ==
  /\ irq.at = "write"
  /\ irq' = [irq EXCEPT !.at = "full", !.data = 0]
  /\ Transmit(irq.data)
  /\ UNCHANGED <<rxfifo, ucr1, sent, arrived, irq_status, tx, rx, threads>>

\* Faulty: the driver's copy keeps TRDY.
DisableKeepsCopy ==
  /\ HandlerGoes("copy", "UCR1")
  /\ UNCHANGED <<hardware, irq_status, tx, rx, threads>>

\* The ring is empty: TRDY is disabled, in the copy and in UCR1.
DisableCopy ==
  /\ HandlerGoes("copy", "UCR1")
  /\ irq_status' = Switch(irq_status, "TRDY", FALSE)
  /\ UNCHANGED <<hardware, tx, rx, threads>>

DisableUcr1 ==
  /\ HandlerGoes("UCR1", "out")
  /\ ucr1' = Switch(ucr1, "TRDY", FALSE)
  /\ UNCHANGED <<fifo, rxfifo, sent, arrived, irq_status, tx, rx, threads>>

-----------------------------------------------------------------------------
Handler ==
  \/ GetSources \/ ReadByte \/ ReadMore
  \/ TestFull \/ PopByte \/ WriteByte \/ DisableCopy \/ DisableUcr1

\* The steps a thread does not choose to start.
Continue(c) ==
  \/ Reset(c) \/ FlushRead(c) \/ FlushEnd(c)
  \/ \E s \in Sources : Stage1Copy(c, s) \/ Stage1Ucr1(c, s)
  \/ EnableInGic(c) \/ PutPush(c) \/ PutEnabled(c) \/ PutCopy(c) \/ PutUcr1(c)
  \/ PutSyncWait(c) \/ PutSyncWrite(c)

Thread(c) ==
  \/ Continue(c) \/ EarlyPut(c) \/ Read(c)
  \/ \E n \in 1 .. MaxString : PutsStart(c, n) \/ PutsSyncStart(c, n)

Next ==
  \/ LineSends \/ LineReceives \/ TakeIrq \/ Handler
  \/ \E c \in Cores : Thread(c)

Spec == Init /\ [][Next]_vars

\* The line sends what is in the fifo, code that runs goes on, and a pending
\* interrupt is taken before more than finitely many instructions.
FairSpec ==
  /\ Spec
  /\ WF_vars(LineSends) /\ WF_vars(Handler) /\ SF_vars(TakeIrq)
  /\ \A c \in Cores : WF_vars(Continue(c))

-----------------------------------------------------------------------------
(* What the driver promises.                                               *)

Panicked == irq.at = "panicked" \/ \E c \in Cores : at[c] = "panicked"

RingType(r, n) ==
  /\ {r.head, r.tail} \subseteq 0 .. n - 1
  /\ DOMAIN r.buf = 0 .. n - 1

\* The shape of the state: ring indices stay masked, fifos within their size.
TypeOK ==
  /\ Len(fifo) <= FifoSize /\ Len(rxfifo) <= FifoSize
  /\ RingType(tx, TxSize) /\ RingType(rx, RxSize)
  /\ {ucr1, irq_status, irq.sources} \subseteq SUBSET Sources
  /\ tx_lock \in Cores \cup {NULL}
  /\ \A c \in Cores : left[c] \in 0 .. MaxString

\* The numbers after m up to n.
Between(m, n) == [i \in 1 .. n - m |-> m + i]

\* The bytes put leave in the order of the puts, none lost and none twice:
\* the fifo, the byte the handler holds and the ring hold the rest, in order.
Held == IF irq.at = "write" THEN <<irq.data>> ELSE <<>>
InFlight == fifo \o Held \o Contents(tx, TxSize)

BytesInOrder ==
  /\ {InFlight[i] : i \in DOMAIN InFlight} \ {0} = sent + 1 .. put
  /\ \A i, j \in DOMAIN InFlight :
       i < j /\ InFlight[i] # 0 /\ InFlight[j] # 0 => InFlight[i] < InFlight[j]

\* The bytes received are read in the order they arrived, none lost and none
\* twice, whatever the handler is doing.
ReceivedInOrder ==
  irq.at # "panicked" => Contents(rx, RxSize) \o rxfifo = Between(read, arrived)

\* UTXD is never written when the fifo is full: the room seen by
\* handle_TRDY_ and by uart_putc_sync is still there at the write.
NoOverrun ==
  (irq.at = "write" \/ \E c \in Cores : at[c] = "write") => Len(fifo) < FifoSize

\* The interrupt is never raised by a source the handler finds disabled, which
\* would raise it again as soon as the handler returns.
HandlerFindsItsSource ==
  irq.at = "sources" => Raised \cap irq_status # {}

\* Every byte put is sent, unless a ring was full.
EveryByteIsSent ==
  \A n \in 1 .. MaxPut : put >= n ~> sent >= n \/ Panicked

\* Once the driver is up, every byte received gets to the rx ring, unless a
\* ring was full.
EveryByteIsTaken ==
  \A n \in 1 .. MaxArrived :
    Booted /\ arrived >= n ~> rxfifo = <<>> \/ Head(rxfifo) > n \/ Panicked

\* In both directions bytes keep their order, and none is lost or comes twice.
BytesKeepOrder == BytesInOrder /\ ReceivedInOrder

\* No byte stays behind in either direction.
EveryByteMovesOn == EveryByteIsSent /\ EveryByteIsTaken
=============================================================================
