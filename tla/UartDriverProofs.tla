-------------------------- MODULE UartDriverProofs --------------------------
(***************************************************************************)
(* Theorems about UartDriver, for rings and fifos of any size and any      *)
(* number of bytes.  The shape of the state holds with any number of       *)
(* cores.  The order of the bytes, the room for a write and the match of   *)
(* the two copies of the enabled interrupts need that the kernel runs on   *)
(* one core, as it does: OneCore is their hypothesis.  The argument: the   *)
(* handler and the thread of that core exclude each other, so that where   *)
(* the one that runs is tells how far the copy is from UCR1 and that the   *)
(* room it has seen is still there; a ring holds consecutive numbers, and  *)
(* those in the hardware fifo precede them.                                *)
(***************************************************************************)
EXTENDS UartDriver, TLAPS

-----------------------------------------------------------------------------
(* The slots of a ring. *)

\* One turn around a ring of n slots at most: what % does to the sum and the
\* difference of two slots.
LEMMA Turns ==
  ASSUME NEW n \in Nat \ {0}, NEW h \in 0 .. n - 1, NEW t \in 0 .. n - 1
  PROVE  /\ (h - t) % n = IF t <= h THEN h - t ELSE h - t + n
         /\ (h + t) % n = IF h + t < n THEN h + t ELSE h + t - n
         /\ (h + 1) % n = IF h + 1 = n THEN 0 ELSE h + 1
<1>1. (h - t) % n = IF t <= h THEN h - t ELSE h - t + n
  BY SMT
<1>2. (h + t) % n = IF h + t < n THEN h + t ELSE h + t - n
  BY SMT
<1>3. (h + 1) % n = IF h + 1 = n THEN 0 ELSE h + 1
  <2>1. CASE h + 1 = n
    BY <2>1
  <2>2. CASE h + 1 # n
    BY <2>2
  <2> QED
    BY <2>1, <2>2
<1> QED
  BY <1>1, <1>2, <1>3

OneCore == Cores = {IrqCore}

InPut == {"push", "check", "UCR1", "full", "write"}
Places == Boot \cup Stage1 \cup {"GIC", "idle", "panicked"} \cup InPut
HandlerPlaces ==
  {"out", "sources", "read", "more", "full", "pop", "write", "copy", "UCR1", "panicked"}
RingSet(n) == [head : 0 .. n - 1, tail : 0 .. n - 1, buf : [0 .. n - 1 -> Nat]]
IrqType == [at : HandlerPlaces, sources : SUBSET Sources, data : Nat]

\* The shape of the state, with any number of cores: a core inside a put has
\* bytes left.
TypeInv ==
  /\ fifo \in Seq(Nat) /\ Len(fifo) <= FifoSize
  /\ rxfifo \in Seq(Nat) /\ Len(rxfifo) <= FifoSize
  /\ ucr1 \in SUBSET Sources /\ irq_status \in SUBSET Sources
  /\ sent \in Nat /\ arrived \in Nat /\ put \in Nat /\ synced \in Nat /\ read \in Nat
  /\ tx \in RingSet(TxSize) /\ rx \in RingSet(RxSize)
  /\ tx_lock \in Cores \cup {NULL}
  /\ at \in [Cores -> Places] /\ left \in [Cores -> 0 .. MaxString]
  /\ irq \in IrqType
  /\ \A c \in Cores : at[c] \in InPut => left[c] > 0

\* The handler runs while the thread of its core is idle.
MaskInv == irq.at # "out" => at[IrqCore] = "idle"

\* How far the copy of the enabled interrupts is from UCR1.
CopyInv ==
  /\ irq_status =
       IF at[IrqCore] \in {"TRDY UCR1", "UCR1"} THEN ucr1 \cup {"TRDY"}
       ELSE IF at[IrqCore] = "RRDY UCR1" THEN ucr1 \cup {"RRDY"}
       ELSE IF irq.at = "UCR1" THEN ucr1 \ {"TRDY"} ELSE ucr1
  /\ at[IrqCore] = "early" => ucr1 = {}

\* Room seen in the fifo stays until the write; a raised source stays raised.
RoomInv == irq.at \in {"pop", "write"} \/ at[IrqCore] = "write" => Len(fifo) < FifoSize
SourceInv == irq.at = "sources" => Raised \cap irq_status # {}

\* The i-th byte of a ring, from 0.
Nth(r, n, i) == r.buf[(r.tail + i) % n]

\* The tx ring holds the last numbers put, and the handler the one before them.
TxRingInv ==
  /\ RingLen(tx, TxSize) <= put
  /\ \A i \in 0 .. TxSize - 1 :
       i < RingLen(tx, TxSize) => Nth(tx, TxSize, i) = put - RingLen(tx, TxSize) + 1 + i
  /\ irq.at = "write" => irq.data = put - RingLen(tx, TxSize) /\ irq.data > 0
  /\ at[IrqCore] = "early" => tx.head = tx.tail

\* The last number that has got to the fifo.
Written == put - RingLen(tx, TxSize) - (IF irq.at = "write" THEN 1 ELSE 0)

\* The fifo holds the numbers that have got there and have not left, in order,
\* among the bytes put synchronously.
FifoInv ==
  /\ sent <= Written
  /\ \A i \in 1 .. Len(fifo) : fifo[i] = 0 \/ (sent < fifo[i] /\ fifo[i] <= Written)
  /\ \A k \in sent + 1 .. Written : \E i \in 1 .. Len(fifo) : fifo[i] = k
  /\ \A i, j \in 1 .. Len(fifo) : i < j /\ fifo[i] # 0 /\ fifo[j] # 0 => fifo[i] < fifo[j]

\* The rx ring holds the numbers after the last one read, and the receive fifo
\* the numbers after those.
RxInv ==
  /\ irq.at # "panicked" =>
       /\ arrived = read + RingLen(rx, RxSize) + Len(rxfifo)
       /\ \A i \in 0 .. RxSize - 1 :
            i < RingLen(rx, RxSize) => Nth(rx, RxSize, i) = read + 1 + i
       /\ \A i \in 1 .. Len(rxfifo) : rxfifo[i] = read + RingLen(rx, RxSize) + i
  /\ at[IrqCore] \in Boot => rx.head = rx.tail

IInv ==
  /\ TypeInv /\ MaskInv /\ CopyInv /\ RoomInv /\ SourceInv
  /\ TxRingInv /\ FifoInv /\ RxInv

-----------------------------------------------------------------------------
(* Rings.                                                                  *)

\* The length of a ring, and where its i-th byte is.
LEMMA RingLength ==
  ASSUME NEW n \in Nat \ {0, 1}, NEW r \in RingSet(n)
  PROVE  /\ r.head \in 0 .. n - 1 /\ r.tail \in 0 .. n - 1 /\ r.buf \in [0 .. n - 1 -> Nat]
         /\ RingLen(r, n) = IF r.tail <= r.head THEN r.head - r.tail ELSE r.head - r.tail + n
         /\ RingLen(r, n) \in 0 .. n - 1
         /\ RingLen(r, n) = 0 <=> r.head = r.tail
<1>1. r.head \in 0 .. n - 1 /\ r.tail \in 0 .. n - 1 /\ r.buf \in [0 .. n - 1 -> Nat]
  BY DEF RingSet
<1>2. RingLen(r, n) = IF r.tail <= r.head THEN r.head - r.tail ELSE r.head - r.tail + n
  BY <1>1, Turns DEF RingLen
<1> QED
  BY <1>1, <1>2

LEMMA RingIndex ==
  ASSUME NEW n \in Nat \ {0, 1}, NEW r \in RingSet(n), NEW i \in 0 .. n - 1
  PROVE  /\ (r.tail + i) % n = IF r.tail + i < n THEN r.tail + i ELSE r.tail + i - n
         /\ (r.tail + i) % n \in 0 .. n - 1
<1>1. r.tail \in 0 .. n - 1
  BY DEF RingSet
<1>2. (r.tail + i) % n = IF r.tail + i < n THEN r.tail + i ELSE r.tail + i - n
  BY <1>1, Turns
<1> QED
  BY <1>1, <1>2

\* The next index.
LEMMA NextIndex ==
  ASSUME NEW n \in Nat \ {0, 1}, NEW k \in 0 .. n - 1
  PROVE  (k + 1) % n = (IF k + 1 = n THEN 0 ELSE k + 1) /\ (k + 1) % n \in 0 .. n - 1
<1>1. CASE k + 1 = n
  BY <1>1
<1>2. CASE k + 1 < n
  BY <1>2
<1> QED
  BY <1>1, <1>2

\* Push and Pop keep the shape of the ring.
LEMMA RingTypes ==
  ASSUME NEW n \in Nat \ {0, 1}, NEW r \in RingSet(n), NEW v \in Nat
  PROVE  EmptyRing(n) \in RingSet(n) /\ Push(r, n, v) \in RingSet(n) /\ Pop(r, n) \in RingSet(n)
<1>1. r.head \in 0 .. n - 1 /\ r.tail \in 0 .. n - 1 /\ r.buf \in [0 .. n - 1 -> Nat] /\ 0 \in 0 .. n - 1
  BY DEF RingSet
<1>2. (r.head + 1) % n \in 0 .. n - 1 /\ (r.tail + 1) % n \in 0 .. n - 1
  BY <1>1, NextIndex
<1>3. Push(r, n, v) \in RingSet(n)
  BY <1>1, <1>2 DEF Push, RingSet
<1>4. Pop(r, n) \in RingSet(n)
  BY <1>1, <1>2 DEF Pop, RingSet
<1>5. EmptyRing(n) \in RingSet(n)
  BY <1>1 DEF EmptyRing, RingSet
<1> QED
  BY <1>3, <1>4, <1>5

\* A push that finds room adds its byte after the others.
LEMMA PushAppends ==
  ASSUME NEW n \in Nat \ {0, 1}, NEW r \in RingSet(n), NEW v \in Nat, ~IsFull(r, n)
  PROVE  LET p == Push(r, n, v) IN
         /\ RingLen(p, n) = RingLen(r, n) + 1
         /\ Nth(p, n, RingLen(r, n)) = v
         /\ \A i \in 0 .. n - 1 : i < RingLen(r, n) => Nth(p, n, i) = Nth(r, n, i)
<1> DEFINE p == Push(r, n, v)
<1>1. p \in RingSet(n)
  BY RingTypes
<1>2. r.head \in 0 .. n - 1 /\ r.tail \in 0 .. n - 1 /\ r.buf \in [0 .. n - 1 -> Nat]
  BY DEF RingSet
<1>3. /\ p.tail = r.tail /\ p.head = (IF r.head + 1 = n THEN 0 ELSE r.head + 1)
      /\ p.buf[r.head] = v /\ \A k \in 0 .. n - 1 : k # r.head => p.buf[k] = r.buf[k]
  BY <1>2, NextIndex DEF Push, RingSet
<1>4. p.head # r.tail
  BY <1>2, <1>3, NextIndex DEF IsFull
<1> HIDE DEF p
<1>5. RingLen(p, n) = RingLen(r, n) + 1
  <2>1. RingLen(r, n) = IF r.tail <= r.head THEN r.head - r.tail ELSE r.head - r.tail + n
    BY RingLength
  <2>2. RingLen(p, n) = IF p.tail <= p.head THEN p.head - p.tail ELSE p.head - p.tail + n
    BY <1>1, RingLength
  <2> QED
    <3> DEFINE h == r.head
               t == r.tail
    <3>1. h \in 0 .. n - 1 /\ t \in 0 .. n - 1
      BY <1>2
    <3>2. p.tail = t /\ p.head = (IF h + 1 = n THEN 0 ELSE h + 1) /\ p.head # t
      BY <1>3, <1>4
    <3>3. /\ RingLen(r, n) = IF t <= h THEN h - t ELSE h - t + n
          /\ RingLen(p, n) = IF p.tail <= p.head THEN p.head - p.tail ELSE p.head - p.tail + n
      BY <2>1, <2>2
    <3> HIDE DEF h, t
    <3>4. CASE h + 1 = n
      BY <3>1, <3>2, <3>3, <3>4
    <3>5. CASE h + 1 # n
      BY <3>1, <3>2, <3>3, <3>5
    <3> QED
      BY <3>4, <3>5
<1>6. Nth(p, n, RingLen(r, n)) = v
  <2>1. (r.tail + RingLen(r, n)) % n = r.head
    <3>1. RingLen(r, n) \in 0 .. n - 1
      BY RingLength
    <3>2. (r.tail + RingLen(r, n)) % n
            = IF r.tail + RingLen(r, n) < n THEN r.tail + RingLen(r, n) ELSE r.tail + RingLen(r, n) - n
      BY <3>1, RingIndex
    <3>3. RingLen(r, n) = IF r.tail <= r.head THEN r.head - r.tail ELSE r.head - r.tail + n
      BY RingLength
    <3> QED
      BY <1>2, <3>2, <3>3
  <2> QED
    BY <1>3, <2>1 DEF Nth
<1>7. ASSUME NEW i \in 0 .. n - 1, i < RingLen(r, n)
      PROVE  Nth(p, n, i) = Nth(r, n, i)
  <2>1. (r.tail + i) % n \in 0 .. n - 1 /\ (r.tail + i) % n # r.head
    <3>1. /\ (r.tail + i) % n = IF r.tail + i < n THEN r.tail + i ELSE r.tail + i - n
          /\ (r.tail + i) % n \in 0 .. n - 1
      BY <1>7, RingIndex
    <3>2. RingLen(r, n) = IF r.tail <= r.head THEN r.head - r.tail ELSE r.head - r.tail + n
      BY RingLength
    <3> QED
      <4> DEFINE h == r.head
                 t == r.tail
                 m == (r.tail + i) % n
                 len == RingLen(r, n)
      <4>1. h \in 0 .. n - 1 /\ t \in 0 .. n - 1 /\ i < len /\ m \in 0 .. n - 1
        BY <1>2, <1>7, <3>1
      <4>2. m = IF t + i < n THEN t + i ELSE t + i - n
        BY <3>1
      <4>3. len = IF t <= h THEN h - t ELSE h - t + n
        BY <3>2
      <4> HIDE DEF h, t, m, len
      <4>4. m # h
        BY <4>1, <4>2, <4>3
      <4> QED
        BY <4>1, <4>4 DEF h, m
  <2> QED
    BY <1>3, <2>1 DEF Nth
<1> QED
  BY <1>5, <1>6, <1>7 DEF p

\* A pop takes the first byte; the others move up.
LEMMA PopRemoves ==
  ASSUME NEW n \in Nat \ {0, 1}, NEW r \in RingSet(n), ~IsEmpty(r)
  PROVE  LET p == Pop(r, n) IN
         /\ RingLen(p, n) = RingLen(r, n) - 1
         /\ r.buf[r.tail] = Nth(r, n, 0)
         /\ \A i \in 0 .. n - 1 : i < RingLen(r, n) - 1 => Nth(p, n, i) = Nth(r, n, i + 1)
<1> DEFINE p == Pop(r, n)
<1>1. p \in RingSet(n)
  BY RingTypes
<1>2. r.head \in 0 .. n - 1 /\ r.tail \in 0 .. n - 1 /\ r.head # r.tail
  BY DEF RingSet, IsEmpty
<1>3. p.head = r.head /\ p.tail = (IF r.tail + 1 = n THEN 0 ELSE r.tail + 1) /\ p.buf = r.buf
  BY <1>2, NextIndex DEF Pop, RingSet
<1> HIDE DEF p
<1>4. RingLen(p, n) = RingLen(r, n) - 1
  <2>1. RingLen(r, n) = IF r.tail <= r.head THEN r.head - r.tail ELSE r.head - r.tail + n
    BY RingLength
  <2>2. RingLen(p, n) = IF p.tail <= p.head THEN p.head - p.tail ELSE p.head - p.tail + n
    BY <1>1, RingLength
  <2> QED
    BY <1>2, <1>3, <2>1, <2>2
<1>5. r.buf[r.tail] = Nth(r, n, 0)
  BY <1>2, RingIndex DEF Nth
<1>6. ASSUME NEW i \in 0 .. n - 1, i < RingLen(r, n) - 1
      PROVE  Nth(p, n, i) = Nth(r, n, i + 1)
  <2>1. i + 1 \in 0 .. n - 1
    BY <1>6, RingLength
  <2>2. (p.tail + i) % n = (r.tail + (i + 1)) % n
    <3>1. (p.tail + i) % n = IF p.tail + i < n THEN p.tail + i ELSE p.tail + i - n
      BY <1>1, RingIndex
    <3>2. (r.tail + (i + 1)) % n = IF r.tail + (i + 1) < n THEN r.tail + (i + 1) ELSE r.tail + (i + 1) - n
      BY <2>1, RingIndex
    <3> QED
      BY <1>2, <1>3, <3>1, <3>2
  <2> QED
    BY <1>3, <2>2 DEF Nth
<1> QED
  BY <1>4, <1>5, <1>6 DEF p

\* Contents(r, n) is the bytes of the ring from the oldest.
LEMMA ContentsFacts ==
  ASSUME NEW n \in Nat \ {0, 1}, NEW r \in RingSet(n)
  PROVE  /\ Contents(r, n) \in Seq(Nat) /\ Len(Contents(r, n)) = RingLen(r, n)
         /\ \A i \in 1 .. RingLen(r, n) : Contents(r, n)[i] = Nth(r, n, i - 1)
<1>1. RingLen(r, n) \in 0 .. n - 1 /\ r.tail \in 0 .. n - 1 /\ r.buf \in [0 .. n - 1 -> Nat]
  BY RingLength
<1>2. ASSUME NEW i \in 1 .. RingLen(r, n)
      PROVE  r.tail + i - 1 = r.tail + (i - 1) /\ r.buf[(r.tail + i - 1) % n] \in Nat
  <2>1. r.tail + i - 1 = r.tail + (i - 1) /\ i - 1 \in 0 .. n - 1
    BY <1>1
  <2>2. (r.tail + (i - 1)) % n \in 0 .. n - 1
    BY <1>1, <2>1, RingIndex
  <2> QED
    BY <1>1, <2>1, <2>2
<1>3. Contents(r, n) \in [1 .. RingLen(r, n) -> Nat]
  BY <1>2 DEF Contents
<1>4. Contents(r, n) \in Seq(Nat) /\ Len(Contents(r, n)) = RingLen(r, n)
  BY <1>1, <1>3
<1> QED
  BY <1>2, <1>4 DEF Contents, Nth

-----------------------------------------------------------------------------
(* The shape of the state.                                                 *)

\* A core with bytes left wherever it is inside a put.
HasLeft == \A c \in Cores : at[c] \in InPut => left[c] > 0

\* A thread that goes on; it stays where it has bytes left, or leaves.
LEMMA GoesTypes ==
  ASSUME TypeInv, NEW c \in Cores, NEW from, NEW to \in Places, Goes(c, from, to)
  PROVE  /\ at' \in [Cores -> Places] /\ at[c] = from /\ at'[c] = to
         /\ \A d \in Cores : d # c => at'[d] = at[d]
         /\ c = IrqCore => irq.at = "out"
         /\ (to \in InPut => from \in InPut) /\ left' = left => HasLeft'
  BY DEF Goes, Running, TypeInv, HasLeft

\* A write of UTXD never overfills the fifo.
LEMMA TransmitTypes ==
  ASSUME TypeInv, NEW v \in Nat, Transmit(v)
  PROVE  fifo' \in Seq(Nat) /\ Len(fifo') <= FifoSize
<1>1. CASE Len(fifo) < FifoSize
  BY <1>1, UartAssumption DEF TypeInv, Transmit
<1>2. CASE ~(Len(fifo) < FifoSize)
  BY <1>2 DEF TypeInv, Transmit
<1> QED
  BY <1>1, <1>2

\* After a byte, the next one or the end of the put.
LEMMA NextByteTypes ==
  ASSUME TypeInv, NEW c \in Cores, NEW from \in InPut, NEW to \in InPut, NextByte(c, from, to)
  PROVE  /\ at' \in [Cores -> Places] /\ left' \in [Cores -> 0 .. MaxString]
         /\ tx_lock' \in Cores \cup {NULL} /\ HasLeft'
<1>1. at[c] = from /\ left[c] > 0 /\ left[c] \in 0 .. MaxString
  BY DEF NextByte, Goes, TypeInv
<1>2. /\ at' = [at EXCEPT ![c] = IF left[c] = 1 THEN "idle" ELSE to]
      /\ left' = [left EXCEPT ![c] = left[c] - 1]
      /\ tx_lock' = IF left[c] = 1 THEN NULL ELSE tx_lock
  BY DEF NextByte, Goes
<1>3. (IF left[c] = 1 THEN "idle" ELSE to) \in Places /\ left[c] - 1 \in 0 .. MaxString
  BY <1>1, UartAssumption DEF Places
<1>4. "idle" \notin InPut
  BY DEF InPut
<1>5. HasLeft'
  <2> SUFFICES ASSUME NEW d \in Cores, at'[d] \in InPut
               PROVE  left'[d] > 0
    BY DEF HasLeft
  <2>1. CASE d = c
    BY <1>1, <1>2, <1>4, <2>1 DEF TypeInv
  <2>2. CASE d # c
    BY <1>2, <2>2 DEF TypeInv
  <2> QED
    BY <2>1, <2>2
<1> QED
  BY <1>2, <1>3, <1>5 DEF TypeInv

LEMMA TypeInit == Init => TypeInv
<1> SUFFICES ASSUME Init
             PROVE  TypeInv
  OBVIOUS
<1>1. EmptyRing(TxSize) \in RingSet(TxSize) /\ EmptyRing(RxSize) \in RingSet(RxSize)
  <2>1. ASSUME NEW n \in Nat \ {0, 1}
        PROVE  EmptyRing(n) \in RingSet(n)
    <3>1. 0 \in 0 .. n - 1
      OBVIOUS
    <3> QED
      BY <3>1 DEF EmptyRing, RingSet
  <2> QED
    BY <2>1, UartAssumption
<1>2. <<>> \in Seq(Nat) /\ Len(<<>>) = 0
  OBVIOUS
<1>3. NoIrq \in IrqType
  BY DEF NoIrq, IrqType, HandlerPlaces
<1>4. 0 \in 0 .. MaxString /\ 0 <= FifoSize
  BY UartAssumption
<1>5. at \in [Cores -> Places] /\ HasLeft
  BY DEF Init, Places, Boot, InPut, HasLeft
<1> QED
  BY <1>1, <1>2, <1>3, <1>4, <1>5 DEF Init, TypeInv, HasLeft

\* The hardware.
LEMMA HardwareTypes ==
  ASSUME TypeInv, LineSends \/ LineReceives
  PROVE  TypeInv'
<1>1. CASE LineSends
  <2>1. fifo # <<>> /\ fifo' = Tail(fifo) /\ sent' = IF Head(fifo) = 0 THEN sent ELSE Head(fifo)
    BY <1>1 DEF LineSends
  <2>2. fifo' \in Seq(Nat) /\ Len(fifo') = Len(fifo) - 1 /\ sent' \in Nat
    BY <2>1 DEF TypeInv
  <2>3. Len(fifo') <= FifoSize
    BY <2>1, <2>2, UartAssumption DEF TypeInv
  <2> QED
    BY <1>1, <2>2, <2>3 DEF LineSends, TypeInv, threads
<1>2. CASE LineReceives
  <2>1. arrived' \in Nat /\ rxfifo' = Append(rxfifo, arrived') /\ Len(rxfifo) < FifoSize
    BY <1>2 DEF LineReceives, TypeInv
  <2>2. rxfifo' \in Seq(Nat) /\ Len(rxfifo') <= FifoSize
    BY <2>1, UartAssumption DEF TypeInv
  <2> QED
    BY <1>2, <2>1, <2>2 DEF LineReceives, TypeInv, threads
<1> QED
  BY <1>1, <1>2

\* The boot, and the read of a byte.
LEMMA BootTypes ==
  ASSUME TypeInv, NEW c \in Cores,
         EarlyPut(c) \/ Reset(c) \/ FlushRead(c) \/ FlushEnd(c) \/ EnableInGic(c) \/ Read(c)
  PROVE  TypeInv'
<1> USE DEF hardware
<1>1. {"early", "flush", "flushing", "RRDY", "TRDY", "GIC", "idle"} \subseteq Places \ InPut
  BY DEF Places, Boot, Stage1, Sources, InPut
<1>2. \A n \in {TxSize, RxSize} : n \in Nat \ {0, 1}
  BY UartAssumption
<1>3. CASE EarlyPut(c)
  <2>1. Goes(c, "early", "early") /\ Transmit(0) /\ synced' = synced + 1
    BY <1>3 DEF EarlyPut
  <2>2. at' \in [Cores -> Places] /\ HasLeft'
    BY <1>1, <1>3, <2>1, GoesTypes DEF EarlyPut
  <2>3. fifo' \in Seq(Nat) /\ Len(fifo') <= FifoSize
    BY <2>1, TransmitTypes
  <2> QED
    BY <1>3, <2>1, <2>2, <2>3 DEF EarlyPut, TypeInv, HasLeft
<1>4. CASE Reset(c)
  <2>1. at' \in [Cores -> Places] /\ HasLeft'
    BY <1>1, <1>4, GoesTypes DEF Reset
  <2>2. EmptyRing(TxSize) \in RingSet(TxSize) /\ EmptyRing(RxSize) \in RingSet(RxSize)
    BY <1>2, RingTypes DEF TypeInv
  <2> QED
    BY <1>4, <2>1, <2>2 DEF Reset, TypeInv, HasLeft
<1>5. CASE FlushRead(c)
  <2>1. at' \in [Cores -> Places] /\ HasLeft'
    BY <1>1, <1>5, GoesTypes DEF FlushRead
  <2>2. rxfifo' \in Seq(Nat) /\ Len(rxfifo') <= FifoSize /\ read' \in Nat
    <3>1. CASE rxfifo = <<>>
      BY <1>5, <3>1 DEF FlushRead, TypeInv
    <3>2. CASE rxfifo # <<>>
      <4>1. rxfifo' = Tail(rxfifo) /\ read' = Head(rxfifo)
        BY <1>5, <3>2 DEF FlushRead
      <4>2. rxfifo' \in Seq(Nat) /\ Len(rxfifo') = Len(rxfifo) - 1 /\ read' \in Nat
        BY <3>2, <4>1 DEF TypeInv
      <4> QED
        BY <3>2, <4>2, UartAssumption DEF TypeInv
    <3> QED
      BY <3>1, <3>2
  <2> QED
    BY <1>5, <2>1, <2>2 DEF FlushRead, TypeInv, HasLeft
<1>6. CASE FlushEnd(c) \/ EnableInGic(c)
  <2>1. at' \in [Cores -> Places] /\ HasLeft'
    BY <1>1, <1>6, GoesTypes DEF FlushEnd, EnableInGic
  <2> QED
    BY <1>6, <2>1 DEF FlushEnd, EnableInGic, TypeInv, HasLeft
<1>7. CASE Read(c)
  <2>1. at' \in [Cores -> Places] /\ HasLeft'
    BY <1>1, <1>7, GoesTypes DEF Read
  <2>2. rx' \in RingSet(RxSize)
    BY <1>2, <1>7, RingTypes DEF Read, TypeInv
  <2>3. read' \in Nat
    BY <1>7 DEF Read, TypeInv, RingSet
  <2> QED
    BY <1>7, <2>1, <2>2, <2>3 DEF Read, TypeInv, HasLeft
<1> QED
  BY <1>3, <1>4, <1>5, <1>6, <1>7

\* uart_init_stage1.
LEMMA Stage1Types ==
  ASSUME TypeInv, NEW c \in Cores, NEW s \in Sources, Stage1Copy(c, s) \/ Stage1Ucr1(c, s)
  PROVE  TypeInv'
<1> USE DEF hardware
<1>1. {"RRDY UCR1", "TRDY UCR1", "TRDY", "GIC"} \subseteq Places \ InPut /\ s \notin InPut
  BY DEF Places, Boot, Stage1, Register, Sources, InPut
<1>2. Register(s) \in Places \ InPut
  BY <1>1 DEF Register
<1>3. CASE Stage1Copy(c, s)
  <2>1. at' \in [Cores -> Places] /\ HasLeft'
    BY <1>1, <1>2, <1>3, GoesTypes DEF Stage1Copy
  <2>2. irq_status' \in SUBSET Sources
    BY <1>3 DEF Stage1Copy, TypeInv
  <2> QED
    BY <1>3, <2>1, <2>2 DEF Stage1Copy, TypeInv, HasLeft
<1>4. CASE Stage1Ucr1(c, s)
  <2>1. at' \in [Cores -> Places] /\ HasLeft'
    BY <1>1, <1>2, <1>4, GoesTypes DEF Stage1Ucr1
  <2>2. ucr1' \in SUBSET Sources
    BY <1>4 DEF Stage1Ucr1, TypeInv
  <2> QED
    BY <1>4, <2>1, <2>2 DEF Stage1Ucr1, TypeInv, HasLeft
<1> QED
  BY <1>3, <1>4

\* A put begins with the lock and its bytes.
LEMMA StartTypes ==
  ASSUME TypeInv, NEW c \in Cores, NEW n \in 1 .. MaxString, PutsStart(c, n) \/ PutsSyncStart(c, n)
  PROVE  TypeInv'
<1>1. PICK to \in {"push", "full"} : Lock(c, n, to)
  BY DEF PutsStart, PutsSyncStart
<1>2. /\ at' = [at EXCEPT ![c] = to] /\ left' = [left EXCEPT ![c] = n] /\ tx_lock' = c
      /\ UNCHANGED <<hardware, irq_status, tx, rx, put, synced, read, irq>>
  BY <1>1 DEF Lock, Goes
<1>3. n \in 0 .. MaxString /\ n > 0 /\ to \in Places
  BY UartAssumption DEF Places, InPut
<1>4. HasLeft'
  <2> SUFFICES ASSUME NEW d \in Cores, at'[d] \in InPut
               PROVE  left'[d] > 0
    BY DEF HasLeft
  <2>1. CASE d = c
    BY <1>2, <1>3, <2>1 DEF TypeInv
  <2>2. CASE d # c
    BY <1>2, <2>2 DEF TypeInv
  <2> QED
    BY <2>1, <2>2
<1> QED
  BY <1>2, <1>3, <1>4 DEF TypeInv, HasLeft, hardware

\* A put goes on.
LEMMA PutTypes ==
  ASSUME TypeInv, NEW c \in Cores,
         \/ PutPush(c) \/ PutEnabled(c) \/ PutCopy(c) \/ PutUcr1(c)
         \/ PutSyncWait(c) \/ PutSyncWrite(c)
  PROVE  TypeInv'
<1> USE DEF hardware
<1>1. {"panicked", "push", "check", "UCR1", "full", "write"} \subseteq Places /\ "panicked" \notin InPut
      /\ {"push", "check", "UCR1", "full", "write"} = InPut
  BY DEF Places, InPut
<1>2. \A S \in SUBSET Sources : Switch(S, "TRDY", TRUE) \in SUBSET Sources
  BY DEF Switch, Sources
<1>3. CASE PutPush(c)
  <2>1. CASE IsFull(tx, TxSize)
    <3>1. at' \in [Cores -> Places] /\ HasLeft'
      BY <1>1, <1>3, <2>1, GoesTypes DEF PutPush
    <3> QED
      BY <1>3, <2>1, <3>1 DEF PutPush, TypeInv, HasLeft
  <2>2. CASE ~IsFull(tx, TxSize)
    <3>1. at' \in [Cores -> Places] /\ HasLeft'
      BY <1>1, <1>3, <2>2, GoesTypes DEF PutPush
    <3>2. put' \in Nat /\ tx' = Push(tx, TxSize, put')
      BY <1>3, <2>2 DEF PutPush, TypeInv
    <3>3. tx' \in RingSet(TxSize)
      BY <3>2, RingTypes, UartAssumption DEF TypeInv
    <3> QED
      BY <1>3, <3>1, <3>2, <3>3 DEF PutPush, TypeInv, HasLeft
  <2> QED
    BY <2>1, <2>2
<1>4. CASE PutEnabled(c)
  <2>1. /\ at' \in [Cores -> Places] /\ left' \in [Cores -> 0 .. MaxString]
        /\ tx_lock' \in Cores \cup {NULL} /\ HasLeft'
    BY <1>1, <1>4, NextByteTypes DEF PutEnabled
  <2> QED
    BY <1>4, <2>1 DEF PutEnabled, TypeInv, HasLeft
<1>5. CASE PutCopy(c)
  <2>1. at' \in [Cores -> Places] /\ HasLeft'
    BY <1>1, <1>5, GoesTypes DEF PutCopy
  <2>2. irq_status' \in SUBSET Sources
    BY <1>2, <1>5 DEF PutCopy, TypeInv
  <2> QED
    BY <1>5, <2>1, <2>2 DEF PutCopy, TypeInv, HasLeft
<1>6. CASE PutUcr1(c)
  <2>1. /\ at' \in [Cores -> Places] /\ left' \in [Cores -> 0 .. MaxString]
        /\ tx_lock' \in Cores \cup {NULL} /\ HasLeft'
    BY <1>1, <1>6, NextByteTypes DEF PutUcr1
  <2>2. ucr1' \in SUBSET Sources
    BY <1>2, <1>6 DEF PutUcr1, TypeInv
  <2> QED
    BY <1>6, <2>1, <2>2 DEF PutUcr1, TypeInv, HasLeft
<1>7. CASE PutSyncWait(c)
  <2>1. at' \in [Cores -> Places] /\ HasLeft'
    BY <1>1, <1>7, GoesTypes DEF PutSyncWait
  <2> QED
    BY <1>7, <2>1 DEF PutSyncWait, TypeInv, HasLeft
<1>8. CASE PutSyncWrite(c)
  <2>1. /\ at' \in [Cores -> Places] /\ left' \in [Cores -> 0 .. MaxString]
        /\ tx_lock' \in Cores \cup {NULL} /\ HasLeft'
    BY <1>1, <1>8, NextByteTypes DEF PutSyncWrite
  <2>2. fifo' \in Seq(Nat) /\ Len(fifo') <= FifoSize
    BY <1>8, TransmitTypes DEF PutSyncWrite
  <2> QED
    BY <1>8, <2>1, <2>2 DEF PutSyncWrite, TypeInv, HasLeft
<1> QED
  BY <1>3, <1>4, <1>5, <1>6, <1>7, <1>8

\* The handler.
LEMMA HandlerTypes ==
  ASSUME TypeInv, TakeIrq \/ Handler
  PROVE  TypeInv'
<1> USE DEF hardware, threads
<1>1. ASSUME NEW from, NEW to \in HandlerPlaces, HandlerGoes(from, to)
      PROVE  irq' \in IrqType
  BY <1>1 DEF HandlerGoes, TypeInv, IrqType
<1>2. \A S \in SUBSET Sources : Switch(S, "TRDY", FALSE) \in SUBSET Sources
  BY DEF Switch
<1>3. CASE TakeIrq
  <2>1. irq' \in IrqType
    BY <1>1, <1>3 DEF TakeIrq, HandlerPlaces
  <2> QED
    BY <1>3, <2>1 DEF TakeIrq, TypeInv
<1>4. CASE GetSources
  <2> DEFINE s == Raised \cap irq_status
             to == CASE "RRDY" \in s -> "read" [] s = {"TRDY"} -> "full" [] OTHER -> "out"
  <2>1. irq' = [irq EXCEPT !.sources = s, !.at = to]
    BY <1>4 DEF GetSources
  <2>2. s \in SUBSET Sources /\ to \in HandlerPlaces
    BY DEF TypeInv, HandlerPlaces
  <2> HIDE DEF s, to
  <2>3. irq' \in IrqType
    BY <2>1, <2>2 DEF TypeInv, IrqType
  <2> QED
    BY <1>4, <2>3 DEF GetSources, TypeInv
<1>5. CASE ReadByte
  <2>1. rxfifo # <<>> /\ rxfifo' = Tail(rxfifo)
    BY <1>5 DEF ReadByte
  <2>2. rxfifo' \in Seq(Nat) /\ Len(rxfifo') = Len(rxfifo) - 1 /\ Head(rxfifo) \in Nat
    BY <2>1 DEF TypeInv
  <2>3. Len(rxfifo') <= FifoSize
    BY <2>1, <2>2, UartAssumption DEF TypeInv
  <2>4. irq' \in IrqType
    BY <1>1, <1>5 DEF ReadByte, HandlerPlaces
  <2>5. rx' \in RingSet(RxSize)
    <3>1. CASE IsFull(rx, RxSize)
      BY <1>5, <3>1 DEF ReadByte, TypeInv
    <3>2. CASE ~IsFull(rx, RxSize)
      <4>1. rx' = Push(rx, RxSize, Head(rxfifo))
        BY <1>5, <3>2 DEF ReadByte
      <4> QED
        BY <2>2, <4>1, RingTypes, UartAssumption DEF TypeInv
    <3> QED
      BY <3>1, <3>2
  <2> QED
    BY <1>5, <2>2, <2>3, <2>4, <2>5 DEF ReadByte, TypeInv
<1>6. CASE ReadMore \/ TestFull
  <2>1. irq' \in IrqType
    BY <1>1, <1>6 DEF ReadMore, TestFull, AfterRRDY, HandlerPlaces
  <2> QED
    BY <1>6, <2>1 DEF ReadMore, TestFull, TypeInv
<1>7. CASE PopByte
  <2>1. irq' \in IrqType
    <3>1. CASE IsEmpty(tx)
      BY <1>7, <3>1 DEF PopByte, TypeInv, IrqType, HandlerPlaces
    <3>2. CASE ~IsEmpty(tx)
      <4>1. tx.buf[tx.tail] \in Nat
        BY DEF TypeInv, RingSet
      <4>2. irq' = [irq EXCEPT !.at = "write", !.data = tx.buf[tx.tail]]
        BY <1>7, <3>2 DEF PopByte
      <4> QED
        BY <4>1, <4>2 DEF TypeInv, IrqType, HandlerPlaces
    <3> QED
      BY <3>1, <3>2
  <2>2. tx' \in RingSet(TxSize)
    BY <1>7, RingTypes, UartAssumption DEF PopByte, TypeInv
  <2> QED
    BY <1>7, <2>1, <2>2 DEF PopByte, TypeInv
<1>8. CASE WriteByte
  <2>1. irq.data \in Nat /\ irq' \in IrqType
    BY <1>8 DEF WriteByte, TypeInv, IrqType, HandlerPlaces
  <2>2. fifo' \in Seq(Nat) /\ Len(fifo') <= FifoSize
    BY <1>8, <2>1, TransmitTypes DEF WriteByte
  <2> QED
    BY <1>8, <2>1, <2>2 DEF WriteByte, TypeInv
<1>9. CASE DisableCopy \/ DisableUcr1
  <2>1. irq' \in IrqType
    BY <1>1, <1>9 DEF DisableCopy, DisableUcr1, HandlerPlaces
  <2>2. ucr1' \in SUBSET Sources /\ irq_status' \in SUBSET Sources
    BY <1>2, <1>9 DEF DisableCopy, DisableUcr1, TypeInv
  <2> QED
    BY <1>9, <2>1, <2>2 DEF DisableCopy, DisableUcr1, TypeInv
<1> QED
  BY <1>3, <1>4, <1>5, <1>6, <1>7, <1>8, <1>9 DEF Handler

LEMMA TypeNext == TypeInv /\ [Next]_vars => TypeInv'
<1> SUFFICES ASSUME TypeInv, [Next]_vars
             PROVE  TypeInv'
  OBVIOUS
<1>1. CASE UNCHANGED vars
  BY <1>1 DEF vars, hardware, threads, TypeInv
<1>2. CASE LineSends \/ LineReceives \/ TakeIrq \/ Handler
  BY <1>2, HardwareTypes, HandlerTypes
<1>3. ASSUME NEW c \in Cores, Thread(c)
      PROVE  TypeInv'
  BY <1>3, BootTypes, Stage1Types, StartTypes, PutTypes DEF Thread, Continue
<1> QED
  BY <1>1, <1>2, <1>3 DEF Next

\* The shape of the state is invariant, with any number of cores: ring indices
\* stay masked and the fifos within their size, whoever writes
\* (RingBuffer of buffers.rs, UTXD and URXD of uart.c).
THEOREM TypeCorrect == Spec => []TypeOK
<1>1. TypeInv => TypeOK
  <2> SUFFICES ASSUME TypeInv
               PROVE  TypeOK
    OBVIOUS
  <2>1. RingType(tx, TxSize) /\ RingType(rx, RxSize)
    BY DEF TypeInv, RingSet, RingType
  <2>2. irq.sources \in SUBSET Sources
    BY DEF TypeInv, IrqType
  <2> QED
    BY <2>1, <2>2 DEF TypeInv, TypeOK
<1> QED
  BY <1>1, TypeInit, TypeNext, PTL DEF Spec

-----------------------------------------------------------------------------
(* One core: the thread and the handler.                                   *)

ControlInv == MaskInv /\ CopyInv /\ RoomInv /\ SourceInv

\* The hardware only makes room, and a source stays raised.
LEMMA HardwareControl ==
  ASSUME TypeInv, ControlInv, LineSends \/ LineReceives
  PROVE  ControlInv'
<1>1. UNCHANGED <<ucr1, irq_status, at, irq>>
  BY DEF LineSends, LineReceives, threads
<1>2. Len(fifo') <= Len(fifo) /\ (rxfifo # <<>> => rxfifo' # <<>>)
      /\ Len(fifo) \in Nat /\ Len(fifo') \in Nat
  <2>1. CASE LineSends
    <3>1. fifo # <<>> /\ fifo' = Tail(fifo) /\ rxfifo' = rxfifo
      BY <2>1 DEF LineSends
    <3> QED
      BY <3>1 DEF TypeInv
  <2>2. CASE LineReceives
    <3>1. rxfifo' = Append(rxfifo, arrived') /\ arrived' \in Nat /\ fifo' = fifo
      BY <2>2 DEF LineReceives, TypeInv
    <3> QED
      BY <3>1 DEF TypeInv
  <2> QED
    BY <2>1, <2>2
<1>3. RoomInv'
  BY <1>1, <1>2, UartAssumption DEF ControlInv, RoomInv
<1>4. Raised \subseteq Raised'
  <2>1. Len(fifo) < TxLevel => Len(fifo') < TxLevel
    BY <1>2, UartAssumption
  <2> QED
    BY <1>2, <2>1 DEF Raised
<1>5. SourceInv'
  BY <1>1, <1>4 DEF ControlInv, SourceInv
<1>6. MaskInv' /\ CopyInv'
  BY <1>1 DEF ControlInv, MaskInv, CopyInv
<1> QED
  BY <1>3, <1>5, <1>6 DEF ControlInv

\* Steps of the boot, and the read of a byte.
LEMMA BootControl ==
  ASSUME OneCore, TypeInv, ControlInv, NEW c \in Cores,
         EarlyPut(c) \/ Reset(c) \/ FlushRead(c) \/ FlushEnd(c) \/ EnableInGic(c) \/ Read(c)
  PROVE  ControlInv'
<1>1. c = IrqCore
  BY DEF OneCore
<1>2. PICK from \in {"early", "flush", "flushing", "GIC", "idle"},
           to \in {"early", "flush", "flushing", "RRDY", "idle"} :
        Goes(c, from, to) /\ (to = "early" => from = "early")
  BY DEF EarlyPut, Reset, FlushRead, FlushEnd, EnableInGic, Read
<1>3. to \in Places
  BY <1>2 DEF Places, Boot, Stage1, Sources
<1>4. at[IrqCore] = from /\ at'[IrqCore] = to /\ irq.at = "out"
  BY <1>1, <1>2, <1>3, GoesTypes
<1>5. irq' = irq /\ ucr1' = ucr1
  BY DEF EarlyPut, Reset, FlushRead, FlushEnd, EnableInGic, Read, hardware
<1>6. irq_status' = irq_status
  <2>1. CASE Reset(c)
    BY <1>4, <2>1, <1>1 DEF Reset, Goes, ControlInv, CopyInv
  <2>2. CASE ~Reset(c)
    BY <2>2 DEF EarlyPut, FlushRead, FlushEnd, EnableInGic, Read
  <2> QED
    BY <2>1, <2>2
<1>7. MaskInv' /\ RoomInv' /\ SourceInv'
  BY <1>2, <1>4, <1>5 DEF MaskInv, RoomInv, SourceInv
<1>8. CopyInv'
  BY <1>2, <1>4, <1>5, <1>6 DEF ControlInv, CopyInv
<1> QED
  BY <1>7, <1>8 DEF ControlInv

\* uart_init_stage1 writes the copy, then UCR1, source by source.
LEMMA Stage1Control ==
  ASSUME OneCore, TypeInv, ControlInv, NEW c \in Cores, NEW s \in Sources,
         Stage1Copy(c, s) \/ Stage1Ucr1(c, s)
  PROVE  ControlInv'
<1>1. c = IrqCore /\ s \in {"RRDY", "TRDY"}
  BY DEF OneCore, Sources
<1>2. {"RRDY UCR1", "TRDY UCR1", "TRDY", "GIC"} \subseteq Places
  BY DEF Places, Stage1, Register, Sources
<1>3. CASE Stage1Copy(c, s)
  <2>1. Goes(c, s, Register(s)) /\ irq_status' = irq_status \cup {s} /\ ucr1' = ucr1 /\ irq' = irq
    BY <1>3 DEF Stage1Copy, hardware
  <2>2. Register(s) \in {"RRDY UCR1", "TRDY UCR1"}
    BY DEF Register
  <2>3. at[IrqCore] = s /\ at'[IrqCore] = Register(s) /\ irq.at = "out"
    BY <1>1, <1>2, <2>1, <2>2, GoesTypes
  <2>4. MaskInv' /\ RoomInv' /\ SourceInv'
    BY <2>1, <2>2, <2>3 DEF MaskInv, RoomInv, SourceInv
  <2>5. CopyInv'
    BY <1>1, <2>1, <2>3 DEF ControlInv, CopyInv, Register
  <2> QED
    BY <2>4, <2>5 DEF ControlInv
<1>4. CASE Stage1Ucr1(c, s)
  <2> DEFINE to == IF s = "RRDY" THEN "TRDY" ELSE "GIC"
  <2>1. Goes(c, Register(s), to) /\ ucr1' = ucr1 \cup {s} /\ irq_status' = irq_status /\ irq' = irq
    BY <1>4 DEF Stage1Ucr1
  <2>2. to \in {"TRDY", "GIC"}
    OBVIOUS
  <2> HIDE DEF to
  <2>3. at[IrqCore] = Register(s) /\ at'[IrqCore] = to /\ irq.at = "out"
    BY <1>1, <1>2, <2>1, <2>2, GoesTypes
  <2>4. MaskInv' /\ RoomInv' /\ SourceInv'
    BY <2>1, <2>2, <2>3 DEF MaskInv, RoomInv, SourceInv
  <2>5. CopyInv'
    BY <1>1, <2>1, <2>2, <2>3 DEF ControlInv, CopyInv, Register
  <2> QED
    BY <2>4, <2>5 DEF ControlInv
<1> QED
  BY <1>3, <1>4

\* Puts, with interrupts masked.
LEMMA PutControl ==
  ASSUME OneCore, TypeInv, ControlInv, NEW c \in Cores,
         \/ \E n \in 1 .. MaxString : PutsStart(c, n) \/ PutsSyncStart(c, n)
         \/ PutPush(c) \/ PutEnabled(c) \/ PutCopy(c) \/ PutUcr1(c)
         \/ PutSyncWait(c) \/ PutSyncWrite(c)
  PROVE  ControlInv'
<1>1. c = IrqCore
  BY DEF OneCore
<1>2. PICK from \in {"idle", "push", "check", "UCR1", "full", "write"},
           to \in {"panicked", "idle", "push", "check", "UCR1", "full", "write"} :
        /\ Goes(c, from, to)
        /\ to = "write" => Len(fifo) < FifoSize /\ fifo' = fifo
        /\ to = "UCR1" => irq_status' = irq_status \cup {"TRDY"} /\ ucr1' = ucr1
        /\ from = "UCR1" => irq_status' = irq_status /\ ucr1' = ucr1 \cup {"TRDY"} /\ to # "UCR1"
        /\ to # "UCR1" /\ from # "UCR1" => irq_status' = irq_status /\ ucr1' = ucr1
  <2>1. CASE \E n \in 1 .. MaxString : PutsStart(c, n) \/ PutsSyncStart(c, n)
    BY <2>1 DEF PutsStart, PutsSyncStart, Lock, hardware
  <2>2. CASE PutPush(c)
    BY <2>2 DEF PutPush, hardware
  <2>3. CASE PutEnabled(c)
    BY <2>3 DEF PutEnabled, NextByte, hardware
  <2>4. CASE PutCopy(c)
    BY <2>4 DEF PutCopy, Switch, hardware
  <2>5. CASE PutUcr1(c)
    BY <2>5 DEF PutUcr1, NextByte, Switch
  <2>6. CASE PutSyncWait(c)
    BY <2>6 DEF PutSyncWait, hardware
  <2>7. CASE PutSyncWrite(c)
    BY <2>7 DEF PutSyncWrite, NextByte
  <2> QED
    BY <2>1, <2>2, <2>3, <2>4, <2>5, <2>6, <2>7
<1>3. to \in Places
  BY <1>2 DEF Places, InPut
<1>4. at[IrqCore] = from /\ at'[IrqCore] = to /\ irq.at = "out"
  BY <1>1, <1>2, <1>3, GoesTypes
<1>5. irq' = irq
  BY DEF PutsStart, PutsSyncStart, Lock, PutPush, PutEnabled, PutCopy, PutUcr1, PutSyncWait,
         PutSyncWrite
<1>6. MaskInv' /\ RoomInv' /\ SourceInv'
  BY <1>2, <1>4, <1>5 DEF MaskInv, RoomInv, SourceInv
<1>7. CopyInv'
  <2>1. irq_status = IF from = "UCR1" THEN ucr1 \cup {"TRDY"} ELSE ucr1
    BY <1>2, <1>4 DEF ControlInv, CopyInv
  <2>2. irq_status' = IF to = "UCR1" THEN ucr1' \cup {"TRDY"} ELSE ucr1'
    BY <1>2, <2>1
  <2> QED
    BY <1>2, <1>4, <1>5, <2>2 DEF CopyInv
<1> QED
  BY <1>6, <1>7 DEF ControlInv

\* The handler finds the state of an idle thread.
LEMMA HandlerControl ==
  ASSUME TypeInv, ControlInv, TakeIrq \/ Handler
  PROVE  ControlInv'
<1>1. at' = at /\ at[IrqCore] = "idle"
  BY DEF TakeIrq, Handler, HandlerGoes, GetSources, ReadByte, ReadMore, TestFull, PopByte, WriteByte,
         DisableCopy, DisableUcr1, ControlInv, MaskInv, threads
<1>2. MaskInv'
  BY <1>1 DEF MaskInv
<1>3. irq \in IrqType
  BY DEF TypeInv
<1>4. CASE TakeIrq
  <2>1. irq.at = "out" /\ Raised \cap ucr1 # {} /\ UNCHANGED <<fifo, rxfifo, ucr1, irq_status>>
    BY <1>4 DEF TakeIrq, HandlerGoes, hardware
  <2>2. irq'.at = "sources"
    BY <1>3, <1>4 DEF TakeIrq, HandlerGoes, IrqType
  <2>3. irq_status = ucr1
    BY <1>1, <2>1 DEF ControlInv, CopyInv
  <2>4. Raised' = Raised
    BY <2>1 DEF Raised
  <2>5. SourceInv' /\ RoomInv' /\ CopyInv'
    BY <1>1, <2>1, <2>2, <2>3, <2>4 DEF SourceInv, RoomInv, CopyInv
  <2> QED
    BY <1>2, <2>5 DEF ControlInv
<1>5. CASE GetSources \/ ReadByte \/ ReadMore
  <2>1. UNCHANGED <<fifo, ucr1, irq_status>> /\ irq.at \in {"sources", "read", "more"}
    BY <1>5 DEF GetSources, ReadByte, ReadMore, HandlerGoes, hardware
  <2>2. irq'.at \in {"read", "full", "out", "panicked", "more"}
    BY <1>3, <1>5 DEF GetSources, ReadByte, ReadMore, HandlerGoes, AfterRRDY, IrqType
  <2>3. SourceInv' /\ RoomInv' /\ CopyInv'
    BY <1>1, <2>1, <2>2 DEF ControlInv, SourceInv, RoomInv, CopyInv
  <2> QED
    BY <1>2, <2>3 DEF ControlInv
<1>6. CASE TestFull
  <2>1. UNCHANGED <<fifo, ucr1, irq_status>> /\ irq.at = "full"
    BY <1>6 DEF TestFull, HandlerGoes, hardware
  <2>2. irq'.at = IF Len(fifo) < FifoSize THEN "pop" ELSE "out"
    BY <1>3, <1>6 DEF TestFull, HandlerGoes, IrqType
  <2>3. SourceInv' /\ RoomInv' /\ CopyInv'
    BY <1>1, <2>1, <2>2 DEF ControlInv, SourceInv, RoomInv, CopyInv
  <2> QED
    BY <1>2, <2>3 DEF ControlInv
<1>7. CASE PopByte
  <2>1. UNCHANGED <<fifo, ucr1, irq_status>> /\ irq.at = "pop"
    BY <1>7 DEF PopByte, hardware
  <2>2. irq'.at \in {"write", "copy"}
    BY <1>3, <1>7 DEF PopByte, IrqType
  <2>3. SourceInv' /\ RoomInv' /\ CopyInv'
    BY <1>1, <2>1, <2>2 DEF ControlInv, SourceInv, RoomInv, CopyInv
  <2> QED
    BY <1>2, <2>3 DEF ControlInv
<1>8. CASE WriteByte
  <2>1. UNCHANGED <<ucr1, irq_status>> /\ irq.at = "write"
    BY <1>8 DEF WriteByte
  <2>2. irq'.at = "full"
    BY <1>3, <1>8 DEF WriteByte, IrqType
  <2>3. SourceInv' /\ RoomInv' /\ CopyInv'
    BY <1>1, <2>1, <2>2 DEF ControlInv, SourceInv, RoomInv, CopyInv
  <2> QED
    BY <1>2, <2>3 DEF ControlInv
<1>9. CASE DisableCopy
  <2>1. irq_status' = irq_status \ {"TRDY"} /\ ucr1' = ucr1 /\ irq.at = "copy"
    BY <1>9 DEF DisableCopy, HandlerGoes, Switch, hardware
  <2>2. irq'.at = "UCR1"
    BY <1>3, <1>9 DEF DisableCopy, HandlerGoes, IrqType
  <2>3. SourceInv' /\ RoomInv' /\ CopyInv'
    BY <1>1, <2>1, <2>2 DEF ControlInv, SourceInv, RoomInv, CopyInv
  <2> QED
    BY <1>2, <2>3 DEF ControlInv
<1>10. CASE DisableUcr1
  <2>1. irq_status' = irq_status /\ ucr1' = ucr1 \ {"TRDY"} /\ irq.at = "UCR1"
    BY <1>10 DEF DisableUcr1, HandlerGoes, Switch
  <2>2. irq'.at = "out"
    BY <1>3, <1>10 DEF DisableUcr1, HandlerGoes, IrqType
  <2>3. SourceInv' /\ RoomInv' /\ CopyInv'
    BY <1>1, <2>1, <2>2 DEF ControlInv, SourceInv, RoomInv, CopyInv
  <2> QED
    BY <1>2, <2>3 DEF ControlInv
<1> QED
  BY <1>4, <1>5, <1>6, <1>7, <1>8, <1>9, <1>10 DEF Handler

LEMMA ControlNext ==
  ASSUME OneCore, TypeInv, ControlInv, [Next]_vars
  PROVE  ControlInv'
<1>1. CASE UNCHANGED vars
  <2>1. UNCHANGED <<fifo, rxfifo, ucr1, irq_status, at, irq>>
    BY <1>1 DEF vars, hardware, threads
  <2> QED
    BY <2>1 DEF ControlInv, MaskInv, CopyInv, RoomInv, SourceInv, Raised
<1>2. CASE LineSends \/ LineReceives \/ TakeIrq \/ Handler
  BY <1>2, HardwareControl, HandlerControl
<1>3. ASSUME NEW c \in Cores, Thread(c)
      PROVE  ControlInv'
  BY <1>3, BootControl, Stage1Control, PutControl DEF Thread, Continue
<1> QED
  BY <1>1, <1>2, <1>3 DEF Next

-----------------------------------------------------------------------------
(* One core: the bytes put.                                                *)

TxInv == TxRingInv /\ FifoInv

\* Steps that move no byte.
LEMMA TxFrame ==
  ASSUME TxInv, UNCHANGED <<fifo, sent, tx, put>>,
         irq'.at = "write" <=> irq.at = "write", irq.at = "write" => irq'.data = irq.data,
         at'[IrqCore] = "early" => at[IrqCore] = "early"
  PROVE  TxInv'
<1>1. Nth(tx, TxSize, 0)' = Nth(tx, TxSize, 0)
  BY DEF Nth
<1>2. Written' = Written
  BY DEF Written
<1>3. TxRingInv'
  BY DEF TxInv, TxRingInv, Nth
<1>4. FifoInv'
  BY <1>2 DEF TxInv, FifoInv
<1> QED
  BY <1>3, <1>4 DEF TxInv

\* The oldest number in the fifo is the one after the last that left.
LEMMA LineSendsTx ==
  ASSUME TypeInv, TxInv, LineSends
  PROVE  TxInv'
<1>1. /\ fifo # <<>> /\ fifo' = Tail(fifo) /\ sent' = IF Head(fifo) = 0 THEN sent ELSE Head(fifo)
      /\ UNCHANGED <<tx, put, irq, at>>
  BY DEF LineSends, threads
<1>2. fifo \in Seq(Nat) /\ sent \in Nat /\ put \in Nat
  BY DEF TypeInv
<1>3. /\ Len(fifo) \in Nat \ {0} /\ Head(fifo) = fifo[1]
      /\ Len(fifo') = Len(fifo) - 1 /\ \A i \in 1 .. Len(fifo') : fifo'[i] = fifo[i + 1]
  BY <1>1, <1>2
<1>4. RingLen(tx, TxSize) \in Nat
  BY RingLength, UartAssumption DEF TypeInv
<1>5. Written \in Int /\ Written' = Written
  BY <1>1, <1>2, <1>4 DEF Written
<1>6. fifo[1] = 0 \/ fifo[1] = sent + 1
  <2> SUFFICES ASSUME fifo[1] # 0
               PROVE  fifo[1] = sent + 1
    OBVIOUS
  <2>1. fifo[1] \in Nat /\ sent < fifo[1] /\ fifo[1] <= Written
    BY <1>2, <1>3 DEF TxInv, FifoInv
  <2>2. PICK i \in 1 .. Len(fifo) : fifo[i] = sent + 1
    <3>1. sent + 1 \in sent + 1 .. Written
      BY <1>2, <1>5, <2>1
    <3> QED
      BY <3>1 DEF TxInv, FifoInv
  <2>3. i > 1 => fifo[1] < fifo[i]
    <3>1. 1 \in 1 .. Len(fifo) /\ fifo[i] # 0
      BY <1>2, <1>3, <2>2
    <3> QED
      BY <2>2, <3>1 DEF TxInv, FifoInv
  <2> QED
    BY <1>2, <2>1, <2>2, <2>3
<1>7. TxRingInv'
  BY <1>1 DEF TxInv, TxRingInv, Nth
<1>8. sent' = (IF fifo[1] = 0 THEN sent ELSE sent + 1) /\ sent' <= Written
  <2>1. sent' = IF fifo[1] = 0 THEN sent ELSE sent + 1
    BY <1>1, <1>3, <1>6
  <2>2. sent <= Written /\ (fifo[1] # 0 => fifo[1] <= Written)
    BY <1>3 DEF TxInv, FifoInv
  <2> QED
    BY <1>6, <2>1, <2>2
<1>9. ASSUME NEW i \in 1 .. Len(fifo')
      PROVE  fifo'[i] = 0 \/ (sent' < fifo'[i] /\ fifo'[i] <= Written)
  <2>1. i + 1 \in 1 .. Len(fifo) /\ 1 \in 1 .. Len(fifo) /\ 1 < i + 1 /\ fifo'[i] = fifo[i + 1]
    BY <1>3
  <2>2. fifo[i + 1] = 0 \/ (sent < fifo[i + 1] /\ fifo[i + 1] <= Written)
    BY <2>1 DEF TxInv, FifoInv
  <2>3. fifo[1] # 0 /\ fifo[i + 1] # 0 => fifo[1] < fifo[i + 1]
    BY <2>1 DEF TxInv, FifoInv
  <2> QED
    BY <1>6, <1>8, <2>1, <2>2, <2>3
<1>10. ASSUME NEW k \in sent' + 1 .. Written
       PROVE  \E i \in 1 .. Len(fifo') : fifo'[i] = k
  <2>1. k \in sent + 1 .. Written /\ (fifo[1] = 0 \/ k # sent + 1) /\ k # 0
    BY <1>2, <1>5, <1>8
  <2>2. PICK i \in 1 .. Len(fifo) : fifo[i] = k
    BY <2>1 DEF TxInv, FifoInv
  <2>3. i # 1
    BY <1>6, <2>1, <2>2
  <2>4. i - 1 \in 1 .. Len(fifo') /\ fifo'[i - 1] = fifo[i]
    BY <1>3, <2>3
  <2> QED
    BY <2>2, <2>4
<1>11. ASSUME NEW i \in 1 .. Len(fifo'), NEW j \in 1 .. Len(fifo'), i < j, fifo'[i] # 0, fifo'[j] # 0
       PROVE  fifo'[i] < fifo'[j]
  <2>1. /\ i + 1 \in 1 .. Len(fifo) /\ j + 1 \in 1 .. Len(fifo) /\ i + 1 < j + 1
        /\ fifo'[i] = fifo[i + 1] /\ fifo'[j] = fifo[j + 1]
    BY <1>3, <1>11
  <2> QED
    BY <1>11, <2>1 DEF TxInv, FifoInv
<1>12. FifoInv'
  BY <1>5, <1>8, <1>9, <1>10, <1>11 DEF FifoInv
<1> QED
  BY <1>7, <1>12 DEF TxInv

\* A byte put synchronously takes its place behind those in the fifo.
LEMMA SyncTx ==
  ASSUME TypeInv, TxInv, fifo' = Append(fifo, 0), UNCHANGED <<sent, tx, put, irq>>,
         at'[IrqCore] = "early" => at[IrqCore] = "early"
  PROVE  TxInv'
<1>1. TxRingInv'
  BY DEF TxInv, TxRingInv, Nth
<1>2. /\ Len(fifo) \in Nat /\ Len(fifo') = Len(fifo) + 1 /\ fifo'[Len(fifo) + 1] = 0
      /\ \A i \in 1 .. Len(fifo) : fifo'[i] = fifo[i]
  BY DEF TypeInv
<1>3. Written' = Written
  BY DEF Written
<1>4. ASSUME NEW i \in 1 .. Len(fifo')
      PROVE  fifo'[i] = 0 \/ (i \in 1 .. Len(fifo) /\ fifo'[i] = fifo[i])
  BY <1>2
<1>5. \A i \in 1 .. Len(fifo) : i \in 1 .. Len(fifo')
  BY <1>2
<1>6. FifoInv'
  <2>1. \A i \in 1 .. Len(fifo') : fifo'[i] = 0 \/ (sent < fifo'[i] /\ fifo'[i] <= Written)
    BY <1>4 DEF TxInv, FifoInv
  <2>2. ASSUME NEW k \in sent + 1 .. Written
        PROVE  \E i \in 1 .. Len(fifo') : fifo'[i] = k
    <3>1. PICK i \in 1 .. Len(fifo) : fifo[i] = k
      BY DEF TxInv, FifoInv
    <3> QED
      BY <1>2, <1>5, <3>1
  <2>3. \A i, j \in 1 .. Len(fifo') :
          i < j /\ fifo'[i] # 0 /\ fifo'[j] # 0 => fifo'[i] < fifo'[j]
    BY <1>4 DEF TxInv, FifoInv
  <2>4. sent <= Written
    BY DEF TxInv, FifoInv
  <2> QED
    BY <1>3, <2>1, <2>2, <2>3, <2>4 DEF FifoInv
<1> QED
  BY <1>1, <1>6 DEF TxInv

\* The byte the handler holds goes to the fifo, which has room for it.
LEMMA WriteByteTx ==
  ASSUME TypeInv, ControlInv, TxInv, WriteByte
  PROVE  TxInv'
<1> DEFINE d == irq.data
           n == Len(fifo)
<1>1. /\ irq.at = "write" /\ irq'.at = "full" /\ fifo' = Append(fifo, d)
      /\ UNCHANGED <<sent, tx, put, at>>
  BY DEF WriteByte, Transmit, ControlInv, RoomInv, threads, TypeInv, IrqType
<1>2. d \in Nat /\ put \in Nat /\ sent \in Nat /\ RingLen(tx, TxSize) \in Nat
  BY RingLength, UartAssumption DEF TypeInv, IrqType
<1>3. d = put - RingLen(tx, TxSize) /\ d > 0 /\ Written = d - 1 /\ Written' = d
  BY <1>1, <1>2 DEF TxInv, TxRingInv, Written
<1>4. /\ n \in Nat /\ Len(fifo') = n + 1 /\ fifo'[n + 1] = d
      /\ \A i \in 1 .. n : fifo'[i] = fifo[i] /\ fifo[i] \in Nat
  BY <1>1, <1>2 DEF TypeInv
<1>5. TxRingInv'
  BY <1>1 DEF TxInv, TxRingInv, Nth
<1> HIDE DEF d, n
<1>6. /\ sent <= d - 1
      /\ \A i \in 1 .. n : fifo[i] = 0 \/ (sent < fifo[i] /\ fifo[i] <= d - 1)
      /\ \A k \in sent + 1 .. d - 1 : \E i \in 1 .. n : fifo[i] = k
      /\ \A i, j \in 1 .. n : i < j /\ fifo[i] # 0 /\ fifo[j] # 0 => fifo[i] < fifo[j]
  BY <1>3 DEF TxInv, FifoInv, n
<1>7. ASSUME NEW i \in 1 .. n + 1
      PROVE  fifo'[i] = 0 \/ (sent < fifo'[i] /\ fifo'[i] <= d)
  BY <1>2, <1>4, <1>6
<1>8. ASSUME NEW k \in sent + 1 .. d
      PROVE  \E i \in 1 .. n + 1 : fifo'[i] = k
  <2>1. CASE k = d
    BY <1>4, <2>1
  <2>2. CASE k # d
    <3>1. k \in sent + 1 .. d - 1
      BY <1>2, <2>2
    <3>2. PICK i \in 1 .. n : fifo[i] = k
      BY <1>6, <3>1
    <3> QED
      BY <1>4, <3>2
  <2> QED
    BY <2>1, <2>2
<1>9. ASSUME NEW i \in 1 .. n + 1, NEW j \in 1 .. n + 1, i < j, fifo'[i] # 0, fifo'[j] # 0
      PROVE  fifo'[i] < fifo'[j]
  <2>1. i \in 1 .. n /\ fifo'[i] = fifo[i]
    BY <1>4, <1>9
  <2>2. CASE j = n + 1
    BY <1>2, <1>3, <1>4, <1>6, <1>9, <2>1, <2>2
  <2>3. CASE j # n + 1
    BY <1>4, <1>6, <1>9, <2>1, <2>3
  <2> QED
    BY <2>2, <2>3
<1>10. FifoInv'
  <2>1. sent <= d
    BY <1>2, <1>6
  <2> QED
    BY <1>1, <1>3, <1>4, <1>7, <1>8, <1>9, <2>1 DEF FifoInv
<1> QED
  BY <1>5, <1>10 DEF TxInv

\* A put adds the next number to the ring, when there is room.
LEMMA PushTx ==
  ASSUME TypeInv, TxInv, ~IsFull(tx, TxSize), put' = put + 1, tx' = Push(tx, TxSize, put'),
         UNCHANGED <<fifo, sent, irq>>, irq.at = "out", at'[IrqCore] # "early"
  PROVE  TxInv'
<1> DEFINE L == RingLen(tx, TxSize)
<1>1. TxSize \in Nat \ {0, 1} /\ tx \in RingSet(TxSize) /\ put \in Nat /\ put' \in Nat
  BY UartAssumption DEF TypeInv
<1>2. L \in 0 .. TxSize - 1
  BY <1>1, RingLength
<1>3. /\ RingLen(tx', TxSize) = L + 1 /\ Nth(tx', TxSize, L) = put'
      /\ \A i \in 0 .. TxSize - 1 : i < L => Nth(tx', TxSize, i) = Nth(tx, TxSize, i)
  BY <1>1, PushAppends
<1> HIDE DEF L
<1>4. L <= put /\ \A i \in 0 .. TxSize - 1 : i < L => Nth(tx, TxSize, i) = put - L + 1 + i
  BY DEF TxInv, TxRingInv, L
<1>5. ASSUME NEW i \in 0 .. TxSize - 1, i < L + 1
      PROVE  Nth(tx', TxSize, i) = put' - (L + 1) + 1 + i
  <2>1. CASE i = L
    BY <1>1, <1>2, <1>3, <2>1
  <2>2. CASE i # L
    <3>1. i < L
      BY <1>2, <1>5, <2>2
    <3> QED
      BY <1>1, <1>2, <1>3, <1>4, <3>1
  <2> QED
    BY <2>1, <2>2
<1>6. L + 1 <= put'
  BY <1>1, <1>2, <1>4
<1>7. TxRingInv'
  BY <1>3, <1>5, <1>6 DEF TxRingInv, Nth
<1>8. Written' = Written
  BY <1>1, <1>2, <1>3 DEF Written, L
<1>9. FifoInv'
  BY <1>8 DEF TxInv, FifoInv
<1> QED
  BY <1>7, <1>9 DEF TxInv

\* The handler takes the oldest number of the ring.
LEMMA PopTx ==
  ASSUME TypeInv, ControlInv, TxInv, PopByte
  PROVE  TxInv'
<1>1. UNCHANGED <<fifo, sent, put, at>> /\ irq.at = "pop" /\ at[IrqCore] = "idle"
  BY DEF PopByte, hardware, threads, ControlInv, MaskInv
<1>2. CASE IsEmpty(tx)
  <2>1. tx' = tx /\ irq'.at = "copy"
    BY <1>2 DEF PopByte, TypeInv, IrqType
  <2> QED
    BY <1>1, <2>1, TxFrame
<1>3. CASE ~IsEmpty(tx)
  <2> DEFINE L == RingLen(tx, TxSize)
  <2>1. tx' = Pop(tx, TxSize) /\ irq'.at = "write" /\ irq'.data = tx.buf[tx.tail]
    BY <1>3 DEF PopByte, TypeInv, IrqType
  <2>2. TxSize \in Nat \ {0, 1} /\ tx \in RingSet(TxSize) /\ put \in Nat
    BY UartAssumption DEF TypeInv
  <2>3. L \in 0 .. TxSize - 1 /\ L # 0
    BY <1>3, <2>2, RingLength DEF IsEmpty
  <2>4. /\ RingLen(tx', TxSize) = L - 1 /\ tx.buf[tx.tail] = Nth(tx, TxSize, 0)
        /\ \A i \in 0 .. TxSize - 1 : i < L - 1 => Nth(tx', TxSize, i) = Nth(tx, TxSize, i + 1)
    BY <1>3, <2>1, <2>2, PopRemoves
  <2> HIDE DEF L
  <2>5. L <= put /\ \A i \in 0 .. TxSize - 1 : i < L => Nth(tx, TxSize, i) = put - L + 1 + i
    BY DEF TxInv, TxRingInv, L
  <2>6. irq'.data = put - (L - 1) /\ irq'.data > 0
    <3>1. Nth(tx, TxSize, 0) = put - L + 1 + 0
      BY <2>2, <2>3, <2>5
    <3> QED
      BY <2>1, <2>2, <2>3, <2>4, <2>5, <3>1
  <2>7. ASSUME NEW i \in 0 .. TxSize - 1, i < L - 1
        PROVE  Nth(tx', TxSize, i) = put - (L - 1) + 1 + i
    <3>1. i + 1 \in 0 .. TxSize - 1 /\ i + 1 < L
      BY <2>2, <2>3, <2>7
    <3>2. Nth(tx, TxSize, i + 1) = put - L + 1 + (i + 1)
      BY <2>5, <3>1
    <3> QED
      BY <2>2, <2>3, <2>4, <2>7, <3>2
  <2>8. L - 1 <= put
    BY <2>2, <2>3, <2>5
  <2>9. TxRingInv'
    BY <1>1, <2>1, <2>4, <2>6, <2>7, <2>8 DEF TxRingInv, Nth
  <2>10. Written' = Written
    BY <1>1, <2>1, <2>2, <2>3, <2>4 DEF Written, L
  <2>11. FifoInv'
    BY <1>1, <2>10 DEF TxInv, FifoInv
  <2> QED
    BY <2>9, <2>11 DEF TxInv
<1> QED
  BY <1>2, <1>3

\* uart_reset empties rings that hold nothing yet.
LEMMA ResetTx ==
  ASSUME OneCore, TypeInv, TxInv, NEW c \in Cores, Reset(c)
  PROVE  TxInv'
<1>1. at[IrqCore] = "early" /\ at'[IrqCore] = "flush" /\ irq.at = "out"
  <2>1. "flush" \in Places /\ c = IrqCore
    BY DEF OneCore, Places, Boot
  <2> QED
    BY <2>1, GoesTypes DEF Reset
<1>2. tx' = EmptyRing(TxSize) /\ UNCHANGED <<fifo, sent, put, irq>>
  BY DEF Reset, hardware
<1>3. TxSize \in Nat \ {0, 1} /\ tx \in RingSet(TxSize) /\ tx' \in RingSet(TxSize)
  BY <1>2, RingTypes, UartAssumption DEF TypeInv
<1>4. RingLen(tx, TxSize) = 0 /\ RingLen(tx', TxSize) = 0
  BY <1>1, <1>2, <1>3, RingLength DEF TxInv, TxRingInv, EmptyRing
<1>5. TxRingInv'
  BY <1>1, <1>2, <1>4 DEF TxInv, TxRingInv
<1>6. Written' = Written
  BY <1>2, <1>4 DEF Written
<1>7. FifoInv'
  BY <1>2, <1>6 DEF TxInv, FifoInv
<1> QED
  BY <1>5, <1>7 DEF TxInv

LEMMA TxNext ==
  ASSUME OneCore, TypeInv, ControlInv, TxInv, [Next]_vars
  PROVE  TxInv'
<1>1. CASE UNCHANGED vars
  <2>1. UNCHANGED <<fifo, sent, tx, put, irq, at>>
    BY <1>1 DEF vars, hardware, threads
  <2> QED
    BY <2>1, TxFrame
<1>2. CASE LineSends
  BY <1>2, LineSendsTx
<1>3. CASE LineReceives
  <2>1. UNCHANGED <<fifo, sent, tx, put, irq, at>>
    BY <1>3 DEF LineReceives, threads
  <2> QED
    BY <2>1, TxFrame
<1>4. CASE TakeIrq \/ GetSources \/ ReadByte \/ ReadMore \/ TestFull \/ DisableCopy \/ DisableUcr1
  <2>1. UNCHANGED <<fifo, sent, tx, put, at>> /\ irq.at # "write"
    BY <1>4 DEF TakeIrq, GetSources, ReadByte, ReadMore, TestFull, DisableCopy, DisableUcr1, HandlerGoes,
                hardware, threads
  <2>2. irq'.at # "write"
    BY <1>4 DEF TakeIrq, GetSources, ReadByte, ReadMore, TestFull, DisableCopy, DisableUcr1, HandlerGoes,
                AfterRRDY, TypeInv, IrqType
  <2> QED
    BY <2>1, <2>2, TxFrame
<1>5. CASE PopByte \/ WriteByte
  BY <1>5, PopTx, WriteByteTx
<1>6. ASSUME NEW c \in Cores, Thread(c)
      PROVE  TxInv'
  <2>1. c = IrqCore
    BY DEF OneCore
  <2>2. CASE Reset(c)
    BY <2>2, ResetTx
  <2>3. CASE PutPush(c) /\ ~IsFull(tx, TxSize)
    <3>1. Goes(c, "push", "check") /\ "check" \in Places
      BY <2>3 DEF PutPush, Places, InPut
    <3>2. irq.at = "out" /\ at'[IrqCore] # "early"
      BY <2>1, <3>1, GoesTypes
    <3> QED
      BY <2>3, <3>2, PushTx DEF PutPush, hardware
  <2>4. CASE EarlyPut(c)
    <3>1. Goes(c, "early", "early") /\ "early" \in Places
      BY <2>4 DEF EarlyPut, Places, Boot
    <3>2. at[IrqCore] = "early"
      BY <2>1, <3>1, GoesTypes
    <3> QED
      BY <2>4, <3>2, SyncTx DEF EarlyPut, Transmit
  <2>5. CASE PutSyncWrite(c)
    <3>1. at[IrqCore] = "write" /\ at'[IrqCore] \in {"idle", "full"}
      BY <2>1, <2>5 DEF PutSyncWrite, NextByte, Goes, TypeInv
    <3>2. fifo' = Append(fifo, 0)
      BY <2>5, <3>1 DEF PutSyncWrite, Transmit, ControlInv, RoomInv
    <3> QED
      BY <2>5, <3>1, <3>2, SyncTx DEF PutSyncWrite
  <2>6. CASE FlushRead(c) \/ FlushEnd(c) \/ EnableInGic(c) \/ Read(c)
    <3>1. UNCHANGED <<fifo, sent, tx, put, irq>>
      BY <2>6 DEF FlushRead, FlushEnd, EnableInGic, Read, hardware
    <3>2. at'[IrqCore] # "early"
      BY <2>1, <2>6 DEF FlushRead, FlushEnd, EnableInGic, Read, Goes, TypeInv
    <3> QED
      BY <3>1, <3>2, TxFrame
  <2>7. ASSUME NEW s \in Sources, Stage1Copy(c, s) \/ Stage1Ucr1(c, s)
        PROVE  TxInv'
    <3>1. UNCHANGED <<fifo, sent, tx, put, irq>>
      BY <2>7 DEF Stage1Copy, Stage1Ucr1, hardware
    <3>2. at'[IrqCore] # "early"
      BY <2>1, <2>7 DEF Stage1Copy, Stage1Ucr1, Register, Goes, TypeInv
    <3> QED
      BY <3>1, <3>2, TxFrame
  <2>8. CASE \/ \E n \in 1 .. MaxString : PutsStart(c, n) \/ PutsSyncStart(c, n)
             \/ PutEnabled(c) \/ PutCopy(c) \/ PutUcr1(c) \/ PutSyncWait(c)
             \/ PutPush(c) /\ IsFull(tx, TxSize)
    <3>1. UNCHANGED <<fifo, sent, tx, put, irq>>
      BY <2>8 DEF PutsStart, PutsSyncStart, Lock, PutEnabled, PutCopy, PutUcr1, PutSyncWait, PutPush,
                  NextByte, hardware
    <3>2. at'[IrqCore] # "early"
      BY <2>1, <2>8
      DEF PutsStart, PutsSyncStart, Lock, PutEnabled, PutCopy, PutUcr1, PutSyncWait, PutPush,
          NextByte, Goes, TypeInv
    <3> QED
      BY <3>1, <3>2, TxFrame
  <2> QED
    BY <1>6, <2>2, <2>3, <2>4, <2>5, <2>6, <2>7, <2>8 DEF Thread, Continue
<1> QED
  BY <1>1, <1>2, <1>3, <1>4, <1>5, <1>6 DEF Next, Handler


-----------------------------------------------------------------------------
(* One core: the bytes received.                                           *)

\* The bytes of the rx ring and of the receive fifo are consecutive.
RxData(L) ==
  /\ arrived = read + L + Len(rxfifo)
  /\ \A i \in 0 .. RxSize - 1 : i < L => Nth(rx, RxSize, i) = read + 1 + i
  /\ \A i \in 1 .. Len(rxfifo) : rxfifo[i] = read + L + i

\* Steps that move no byte.
LEMMA RxFrame ==
  ASSUME RxInv, UNCHANGED <<rxfifo, arrived, read, rx>>,
         irq'.at # "panicked" => irq.at # "panicked",
         at'[IrqCore] \in Boot => at[IrqCore] \in Boot
  PROVE  RxInv'
  BY DEF RxInv, Nth

\* What the steps below use of the types.
LEMMA RxTypes ==
  ASSUME TypeInv
  PROVE  /\ RxSize \in Nat \ {0, 1} /\ rx \in RingSet(RxSize)
         /\ arrived \in Nat /\ read \in Nat /\ rxfifo \in Seq(Nat)
         /\ Len(rxfifo) \in Nat /\ RingLen(rx, RxSize) \in 0 .. RxSize - 1
<1>1. RxSize \in Nat \ {0, 1} /\ rx \in RingSet(RxSize) /\ rxfifo \in Seq(Nat)
  BY UartAssumption DEF TypeInv
<1> QED
  BY <1>1, RingLength DEF TypeInv

\* A byte arrives behind the others.
LEMMA LineReceivesRx ==
  ASSUME TypeInv, RxInv, LineReceives
  PROVE  RxInv'
<1> DEFINE L == RingLen(rx, RxSize)
           n == Len(rxfifo)
<1>1. rxfifo' = Append(rxfifo, arrived + 1) /\ arrived' = arrived + 1 /\ UNCHANGED <<read, rx, at, irq>>
  BY DEF LineReceives, threads
<1>2. arrived \in Nat /\ read \in Nat /\ n \in Nat /\ L \in Nat
  BY RxTypes
<1>3. /\ Len(rxfifo') = n + 1 /\ rxfifo'[n + 1] = arrived + 1
      /\ \A i \in 1 .. n : rxfifo'[i] = rxfifo[i]
  BY <1>1, RxTypes
<1> HIDE DEF L, n
<1>4. ASSUME irq.at # "panicked"
      PROVE  /\ arrived' = read + L + Len(rxfifo')
             /\ \A i \in 1 .. Len(rxfifo') : rxfifo'[i] = read + L + i
  <2>1. arrived = read + L + n /\ \A i \in 1 .. n : rxfifo[i] = read + L + i
    BY <1>4 DEF RxInv, L, n
  <2> QED
    BY <1>1, <1>2, <1>3, <2>1
<1> QED
  BY <1>1, <1>4 DEF RxInv, Nth, L

\* The head of the receive fifo is the byte after those in the ring.
LEMMA TakesHead ==
  ASSUME TypeInv, RxInv, rxfifo # <<>>, irq.at # "panicked"
  PROVE  /\ Head(rxfifo) = read + RingLen(rx, RxSize) + 1
         /\ Len(Tail(rxfifo)) = Len(rxfifo) - 1
         /\ \A i \in 1 .. Len(rxfifo) - 1 :
              Tail(rxfifo)[i] = read + RingLen(rx, RxSize) + (i + 1)
<1> DEFINE L == RingLen(rx, RxSize)
           n == Len(rxfifo)
<1>1. \A i \in 1 .. n : rxfifo[i] = read + L + i
  BY DEF RxInv
<1>2. n \in Nat \ {0} /\ Head(rxfifo) = rxfifo[1] /\ Len(Tail(rxfifo)) = n - 1
      /\ \A i \in 1 .. n - 1 : Tail(rxfifo)[i] = rxfifo[i + 1]
  BY RxTypes
<1> HIDE DEF L, n
<1>3. 1 \in 1 .. n /\ \A i \in 1 .. n - 1 : i + 1 \in 1 .. n
  BY <1>2
<1> QED
  BY <1>1, <1>2, <1>3 DEF L, n

\* The flush of the boot takes one byte from the fifo; the ring is empty.
LEMMA FlushReadRx ==
  ASSUME OneCore, TypeInv, RxInv, NEW c \in Cores, FlushRead(c)
  PROVE  RxInv'
<1>1. at[IrqCore] = "flush" /\ irq.at = "out" /\ at'[IrqCore] \in Boot
  <2>1. "flushing" \in Places /\ c = IrqCore
    BY DEF OneCore, Places, Boot
  <2> QED
    BY <2>1, GoesTypes DEF FlushRead, Boot
<1>2. UNCHANGED <<arrived, rx, irq>> /\ at[IrqCore] \in Boot
  BY <1>1 DEF FlushRead, Boot
<1>3. CASE rxfifo = <<>>
  BY <1>1, <1>2, <1>3, RxFrame DEF FlushRead
<1>4. CASE rxfifo # <<>>
  <2>1. rxfifo' = Tail(rxfifo) /\ read' = Head(rxfifo)
    BY <1>4 DEF FlushRead
  <2>2. RingLen(rx, RxSize) = 0
    BY <1>2, RxTypes, RingLength DEF RxInv
  <2>3. /\ read' = read + 1 /\ Len(rxfifo') = Len(rxfifo) - 1
        /\ \A i \in 1 .. Len(rxfifo) - 1 : rxfifo'[i] = read + (i + 1)
    BY <1>1, <1>4, <2>1, <2>2, TakesHead, RxTypes
  <2>4. arrived = read + Len(rxfifo)
    BY <1>1, <2>2, RxTypes DEF RxInv
  <2>5. RxData(0)'
    <3>1. \A i \in 0 .. RxSize - 1 : ~(i < 0)
      BY RxTypes
    <3>2. arrived' = read' + 0 + Len(rxfifo')
      BY <1>2, <2>3, <2>4, RxTypes
    <3>3. \A i \in 1 .. Len(rxfifo') : rxfifo'[i] = read' + 0 + i
      BY <2>3, RxTypes
    <3> QED
      BY <3>1, <3>2, <3>3 DEF RxData
  <2>6. RingLen(rx', RxSize) = 0
    BY <1>2, <2>2
  <2>7. rx'.head = rx'.tail
    BY <1>2 DEF RxInv
  <2> QED
    BY <2>5, <2>6, <2>7 DEF RxInv, RxData
<1> QED
  BY <1>3, <1>4

\* uart_reset empties a ring that holds nothing yet.
LEMMA ResetRx ==
  ASSUME OneCore, TypeInv, RxInv, NEW c \in Cores, Reset(c)
  PROVE  RxInv'
<1>1. at[IrqCore] \in Boot /\ irq.at = "out"
  <2>1. "flush" \in Places /\ c = IrqCore
    BY DEF OneCore, Places, Boot
  <2> QED
    BY <2>1, GoesTypes DEF Reset, Boot
<1>2. rx' = EmptyRing(RxSize) /\ UNCHANGED <<rxfifo, arrived, read, irq>>
  BY DEF Reset, hardware
<1>3. rx' \in RingSet(RxSize) /\ rx'.head = rx'.tail
  BY <1>2, RxTypes, RingTypes DEF EmptyRing
<1>4. RingLen(rx, RxSize) = 0 /\ RingLen(rx', RxSize) = 0
  BY <1>1, <1>3, RxTypes, RingLength DEF RxInv
<1>5. RxData(0)
  BY <1>1, <1>4 DEF RxInv, RxData
<1>6. RxData(0)'
  <2>1. \A i \in 0 .. RxSize - 1 : ~(i < 0)
    BY RxTypes
  <2> QED
    BY <1>2, <1>5, <2>1 DEF RxData
<1> QED
  BY <1>3, <1>4, <1>6 DEF RxInv, RxData

\* uart_read takes the oldest byte.
LEMMA ReadRx ==
  ASSUME OneCore, TypeInv, RxInv, NEW c \in Cores, Read(c)
  PROVE  RxInv'
<1> DEFINE L == RingLen(rx, RxSize)
<1>1. irq.at = "out" /\ at'[IrqCore] = "idle" /\ ~IsEmpty(rx)
  <2>1. "idle" \in Places /\ c = IrqCore
    BY DEF OneCore, Places
  <2> QED
    BY <2>1, GoesTypes DEF Read
<1>2. rx' = Pop(rx, RxSize) /\ read' = rx.buf[rx.tail] /\ UNCHANGED <<rxfifo, arrived, irq>>
  BY DEF Read, hardware
<1>3. L \in 0 .. RxSize - 1 /\ L # 0
  BY <1>1, RxTypes, RingLength DEF IsEmpty
<1>4. /\ RingLen(rx', RxSize) = L - 1 /\ read' = Nth(rx, RxSize, 0)
      /\ \A i \in 0 .. RxSize - 1 : i < L - 1 => Nth(rx', RxSize, i) = Nth(rx, RxSize, i + 1)
  BY <1>1, <1>2, RxTypes, PopRemoves
<1> HIDE DEF L
<1>5. /\ arrived = read + L + Len(rxfifo)
      /\ \A i \in 0 .. RxSize - 1 : i < L => Nth(rx, RxSize, i) = read + 1 + i
      /\ \A i \in 1 .. Len(rxfifo) : rxfifo[i] = read + L + i
  BY <1>1 DEF RxInv, L
<1>6. read' = read + 1
  <2>1. 0 \in 0 .. RxSize - 1 /\ 0 < L
    BY <1>3, RxTypes
  <2>2. Nth(rx, RxSize, 0) = read + 1 + 0
    BY <1>5, <2>1
  <2> QED
    BY <1>4, <2>2, RxTypes
<1>7. ASSUME NEW i \in 0 .. RxSize - 1, i < L - 1
      PROVE  Nth(rx', RxSize, i) = read' + 1 + i
  <2>1. i + 1 \in 0 .. RxSize - 1 /\ i + 1 < L
    BY <1>3, <1>7, RxTypes
  <2>2. Nth(rx, RxSize, i + 1) = read + 1 + (i + 1)
    BY <1>5, <2>1
  <2> QED
    BY <1>4, <1>6, <1>7, <2>2, RxTypes
<1>8. arrived' = read' + (L - 1) + Len(rxfifo')
  BY <1>2, <1>3, <1>5, <1>6, RxTypes
<1>9. \A i \in 1 .. Len(rxfifo') : rxfifo'[i] = read' + (L - 1) + i
  BY <1>2, <1>3, <1>5, <1>6, RxTypes
<1>10. at'[IrqCore] \notin Boot
  BY <1>1 DEF Boot
<1> QED
  BY <1>4, <1>7, <1>8, <1>9, <1>10 DEF RxInv, Nth

\* The handler moves the oldest byte of the fifo to the ring.
LEMMA ReadByteRx ==
  ASSUME TypeInv, ControlInv, RxInv, ReadByte
  PROVE  RxInv'
<1> DEFINE L == RingLen(rx, RxSize)
           n == Len(rxfifo)
<1>1. irq.at = "read" /\ at[IrqCore] = "idle" /\ at' = at /\ rxfifo # <<>>
  BY DEF ReadByte, HandlerGoes, threads, ControlInv, MaskInv
<1>2. at'[IrqCore] \notin Boot
  BY <1>1 DEF Boot
<1>3. CASE IsFull(rx, RxSize)
  <2>1. irq'.at = "panicked"
    BY <1>3 DEF ReadByte, HandlerGoes, TypeInv, IrqType
  <2> QED
    BY <1>2, <2>1 DEF RxInv
<1>4. CASE ~IsFull(rx, RxSize)
  <2>1. rx' = Push(rx, RxSize, Head(rxfifo)) /\ rxfifo' = Tail(rxfifo) /\ UNCHANGED <<arrived, read>>
    BY <1>4 DEF ReadByte, threads
  <2>2. L \in 0 .. RxSize - 1 /\ n \in Nat \ {0} /\ arrived \in Nat /\ read \in Nat /\ Head(rxfifo) \in Nat
    BY <1>1, RxTypes
  <2>3. /\ Head(rxfifo) = read + L + 1 /\ Len(rxfifo') = n - 1
        /\ \A i \in 1 .. n - 1 : rxfifo'[i] = read + L + (i + 1)
    BY <1>1, <2>1, TakesHead
  <2>4. /\ RingLen(rx', RxSize) = L + 1 /\ Nth(rx', RxSize, L) = Head(rxfifo)
        /\ \A i \in 0 .. RxSize - 1 : i < L => Nth(rx', RxSize, i) = Nth(rx, RxSize, i)
    BY <1>4, <2>1, <2>2, RxTypes, PushAppends
  <2>5. /\ arrived = read + L + n
        /\ \A i \in 0 .. RxSize - 1 : i < L => Nth(rx, RxSize, i) = read + 1 + i
    BY <1>1 DEF RxInv
  <2> HIDE DEF L, n
  <2>6. ASSUME NEW i \in 0 .. RxSize - 1, i < L + 1
        PROVE  Nth(rx', RxSize, i) = read + 1 + i
    <3>1. CASE i = L
      BY <2>2, <2>3, <2>4, <3>1
    <3>2. CASE i < L
      BY <2>4, <2>5, <3>2
    <3> QED
      BY <2>2, <2>6, <3>1, <3>2
  <2>7. arrived' = read' + (L + 1) + Len(rxfifo')
    <3>1. arrived' = arrived /\ read' = read
      BY <2>1
    <3>2. arrived = read + L + n /\ Len(rxfifo') = n - 1
      BY <2>3, <2>5
    <3> QED
      BY <2>2, <3>1, <3>2
  <2>8. \A i \in 1 .. Len(rxfifo') : rxfifo'[i] = read' + (L + 1) + i
    BY <2>1, <2>2, <2>3
  <2> QED
    BY <1>2, <2>1, <2>4, <2>6, <2>7, <2>8 DEF RxInv, Nth
<1> QED
  BY <1>3, <1>4

LEMMA RxNext ==
  ASSUME OneCore, TypeInv, ControlInv, RxInv, [Next]_vars
  PROVE  RxInv'
<1>1. CASE UNCHANGED vars
  <2>1. UNCHANGED <<rxfifo, arrived, read, rx, irq, at>>
    BY <1>1 DEF vars, hardware, threads
  <2> QED
    BY <2>1, RxFrame
<1>2. CASE LineSends
  <2>1. UNCHANGED <<rxfifo, arrived, read, rx, irq, at>>
    BY <1>2 DEF LineSends, threads
  <2> QED
    BY <2>1, RxFrame
<1>3. CASE LineReceives
  BY <1>3, LineReceivesRx
<1>4. CASE ReadByte
  BY <1>4, ReadByteRx
<1>5. CASE TakeIrq \/ (Handler /\ ~ReadByte)
  <2>1. UNCHANGED <<rxfifo, arrived, read, rx, at>> /\ irq.at # "panicked"
    BY <1>5 DEF TakeIrq, Handler, GetSources, ReadMore, TestFull, PopByte, WriteByte, DisableCopy,
                DisableUcr1, HandlerGoes, hardware, threads
  <2> QED
    BY <2>1, RxFrame
<1>6. ASSUME NEW c \in Cores, Thread(c)
      PROVE  RxInv'
  <2>1. c = IrqCore
    BY DEF OneCore
  <2>2. CASE Reset(c) \/ FlushRead(c) \/ Read(c)
    BY <2>2, ResetRx, FlushReadRx, ReadRx
  <2>3. CASE EarlyPut(c) \/ FlushEnd(c)
    <3>1. UNCHANGED <<rxfifo, arrived, read, rx, irq>>
      BY <2>3 DEF EarlyPut, FlushEnd, hardware
    <3>2. at[IrqCore] \in Boot
      BY <2>1, <2>3 DEF EarlyPut, FlushEnd, Goes, Boot
    <3> QED
      BY <3>1, <3>2, RxFrame
  <2>4. ASSUME NEW s \in Sources, Stage1Copy(c, s) \/ Stage1Ucr1(c, s)
        PROVE  RxInv'
    <3>1. UNCHANGED <<rxfifo, arrived, read, rx, irq>>
      BY <2>4 DEF Stage1Copy, Stage1Ucr1, hardware
    <3>2. PICK to \in {"RRDY UCR1", "TRDY UCR1", "TRDY", "GIC"} : at' = [at EXCEPT ![c] = to]
      BY <2>4 DEF Stage1Copy, Stage1Ucr1, Register, Goes
    <3>3. at'[IrqCore] \notin Boot
      BY <2>1, <3>2 DEF TypeInv, Boot
    <3> QED
      BY <3>1, <3>3, RxFrame
  <2>5. CASE \/ \E n \in 1 .. MaxString : PutsStart(c, n) \/ PutsSyncStart(c, n)
             \/ EnableInGic(c) \/ PutPush(c) \/ PutEnabled(c) \/ PutCopy(c) \/ PutUcr1(c)
             \/ PutSyncWait(c) \/ PutSyncWrite(c)
    <3>1. UNCHANGED <<rxfifo, arrived, read, rx, irq>>
      BY <2>5 DEF PutsStart, PutsSyncStart, Lock, EnableInGic, PutPush, PutEnabled, PutCopy, PutUcr1,
                  PutSyncWait, PutSyncWrite, NextByte, hardware
    <3>2. PICK to \in {"idle", "panicked"} \cup InPut : at' = [at EXCEPT ![c] = to]
      BY <2>5 DEF PutsStart, PutsSyncStart, Lock, EnableInGic, PutPush, PutEnabled, PutCopy, PutUcr1,
                  PutSyncWait, PutSyncWrite, NextByte, Goes, InPut
    <3>3. at'[IrqCore] \notin Boot
      BY <2>1, <3>2 DEF TypeInv, Boot, InPut
    <3> QED
      BY <3>1, <3>3, RxFrame
  <2> QED
    BY <1>6, <2>2, <2>3, <2>4, <2>5 DEF Thread, Continue
<1> QED
  BY <1>1, <1>2, <1>3, <1>4, <1>5, <1>6 DEF Next

-----------------------------------------------------------------------------
(* The theorems.                                                           *)

LEMMA InvInit == Init => IInv
<1> SUFFICES ASSUME Init
             PROVE  IInv
  OBVIOUS
<1>1. TypeInv
  BY TypeInit
<1>2. irq.at = "out" /\ at[IrqCore] = "early" /\ ucr1 = {} /\ irq_status = {}
  BY UartAssumption DEF Init, NoIrq
<1>3. MaskInv /\ CopyInv /\ RoomInv /\ SourceInv
  BY <1>2 DEF MaskInv, CopyInv, RoomInv, SourceInv
<1>4. /\ tx.head = tx.tail /\ rx.head = rx.tail
      /\ RingLen(tx, TxSize) = 0 /\ RingLen(rx, RxSize) = 0
      /\ TxSize \in Nat \ {0, 1} /\ RxSize \in Nat \ {0, 1}
  <2>1. tx.head = tx.tail /\ rx.head = rx.tail
    BY DEF Init, EmptyRing
  <2> QED
    BY <1>1, <2>1, RingLength, UartAssumption DEF TypeInv
<1>5. put = 0 /\ sent = 0 /\ arrived = 0 /\ read = 0 /\ fifo = <<>> /\ rxfifo = <<>>
      /\ Len(fifo) = 0 /\ Len(rxfifo) = 0
  BY DEF Init
<1>6. TxRingInv
  <2>1. \A i \in 0 .. TxSize - 1 : ~(i < 0)
    BY <1>4
  <2> QED
    BY <1>2, <1>4, <1>5, <2>1 DEF TxRingInv
<1>7. FifoInv
  <2>1. Written = 0
    BY <1>2, <1>4, <1>5 DEF Written
  <2> QED
    BY <1>5, <2>1 DEF FifoInv
<1>8. RxInv
  <2>1. \A i \in 0 .. RxSize - 1 : ~(i < 0)
    BY <1>4
  <2> QED
    BY <1>4, <1>5, <2>1 DEF RxInv
<1> QED
  BY <1>1, <1>3, <1>6, <1>7, <1>8 DEF IInv

\* On the one core that runs, the order of the bytes and all that it rests on
\* holds in every state the driver reaches.
THEOREM Invariance ==
  ASSUME OneCore
  PROVE  Spec => []IInv
<1>1. IInv /\ [Next]_vars => IInv'
  <2> SUFFICES ASSUME IInv, [Next]_vars
               PROVE  IInv'
    OBVIOUS
  <2>1. TypeInv /\ ControlInv /\ TxInv /\ RxInv
    BY DEF IInv, ControlInv, TxInv
  <2>2. TypeInv' /\ ControlInv' /\ TxInv' /\ RxInv'
    BY <2>1, TypeNext, ControlNext, TxNext, RxNext
  <2> QED
    BY <2>2 DEF IInv, ControlInv, TxInv
<1> QED
  BY <1>1, InvInit, PTL DEF Spec

\* The room handle_TRDY_ and uart_putc_sync have seen in the fifo is still
\* there when they write UTXD.
THEOREM RoomAtTheWrite ==
  ASSUME OneCore
  PROVE  Spec => []NoOverrun
<1>1. IInv => NoOverrun
  BY DEF IInv, RoomInv, NoOverrun, OneCore
<1> QED
  BY <1>1, Invariance, PTL

\* uart_get_irq_sources finds a source of the interrupt it was called for: the
\* driver's copy of UCR1 is never behind when the handler runs.
THEOREM CopyIsCurrent ==
  ASSUME OneCore
  PROVE  Spec => []HandlerFindsItsSource
<1>1. IInv => HandlerFindsItsSource
  BY DEF IInv, SourceInv, HandlerFindsItsSource
<1> QED
  BY <1>1, Invariance, PTL

\* A concatenation, element by element.
LEMMA Concat ==
  ASSUME NEW s \in Seq(Nat), NEW t \in Seq(Nat)
  PROVE  /\ s \o t \in Seq(Nat) /\ Len(s \o t) = Len(s) + Len(t)
         /\ \A i \in 1 .. Len(s) : (s \o t)[i] = s[i]
         /\ \A i \in Len(s) + 1 .. Len(s) + Len(t) : (s \o t)[i] = t[i - Len(s)]
<1>1. s \o t \in Seq(Nat) /\ Len(s \o t) = Len(s) + Len(t)
  OBVIOUS
<1>2. ASSUME NEW i \in 1 .. Len(s) + Len(t)
      PROVE  (s \o t)[i] = IF i <= Len(s) THEN s[i] ELSE t[i - Len(s)]
  OBVIOUS
<1>3. Len(s) \in Nat /\ Len(t) \in Nat
  OBVIOUS
<1> QED
  BY <1>1, <1>2, <1>3

\* What is in flight to the line, byte by byte.
LEMMA InFlightFacts ==
  ASSUME IInv
  PROVE  LET m == Len(fifo)
             h == Len(Held)
             l == RingLen(tx, TxSize)
         IN  /\ DOMAIN InFlight = 1 .. m + h + l
             /\ m \in Nat /\ h \in {0, 1} /\ l \in Nat /\ put \in Nat /\ Written = put - l - h
             /\ \A i \in 1 .. m : InFlight[i] = fifo[i]
             /\ \A i \in m + 1 .. m + h + l : InFlight[i] = Written + i - m
<1> DEFINE m == Len(fifo)
           h == Len(Held)
           l == RingLen(tx, TxSize)
           C == Contents(tx, TxSize)
<1>1. TxSize \in Nat \ {0, 1} /\ tx \in RingSet(TxSize) /\ fifo \in Seq(Nat) /\ put \in Nat
      /\ irq.data \in Nat
  BY UartAssumption DEF IInv, TypeInv, IrqType
<1>2. /\ C \in Seq(Nat) /\ Len(C) = l /\ l \in 0 .. TxSize - 1 /\ l \in Nat
      /\ \A i \in 1 .. l : C[i] = Nth(tx, TxSize, i - 1)
  <2>1. C \in Seq(Nat) /\ Len(C) = l /\ \A i \in 1 .. l : C[i] = Nth(tx, TxSize, i - 1)
    BY <1>1, ContentsFacts
  <2> QED
    BY <1>1, <2>1, RingLength
<1>3. Held \in Seq(Nat) /\ h \in {0, 1} /\ (h = 1 <=> irq.at = "write") /\ (h = 1 => Held[1] = irq.data)
  BY <1>1 DEF Held
<1>4. m \in Nat
  BY <1>1
<1>5. Written = put - l - h
  BY <1>3 DEF Written
<1> HIDE DEF C
<1>6. /\ DOMAIN InFlight = 1 .. m + h + l
      /\ \A i \in 1 .. m : InFlight[i] = fifo[i]
      /\ \A i \in m + 1 .. m + h : InFlight[i] = Held[i - m]
      /\ \A i \in m + h + 1 .. m + h + l : InFlight[i] = C[i - m - h]
  <2> DEFINE H == Held
  <2>1. InFlight = (fifo \o H) \o C
    BY DEF InFlight, C
  <2>2. H \in Seq(Nat) /\ fifo \in Seq(Nat) /\ C \in Seq(Nat) /\ Len(H) = h /\ Len(C) = l
    BY <1>1, <1>2, <1>3
  <2> HIDE DEF H
  <2>3. /\ fifo \o H \in Seq(Nat) /\ Len(fifo \o H) = m + h
        /\ \A i \in 1 .. m : (fifo \o H)[i] = fifo[i]
        /\ \A i \in m + 1 .. m + h : (fifo \o H)[i] = H[i - m]
    <3>1. h = Len(H) /\ m = Len(fifo)
      BY <2>2
    <3>2. /\ fifo \o H \in Seq(Nat) /\ Len(fifo \o H) = Len(fifo) + Len(H)
          /\ \A i \in 1 .. Len(fifo) : (fifo \o H)[i] = fifo[i]
          /\ \A i \in Len(fifo) + 1 .. Len(fifo) + Len(H) : (fifo \o H)[i] = H[i - Len(fifo)]
      BY <2>2, Concat
    <3> HIDE DEF m, h
    <3> QED
      BY <3>1, <3>2
  <2> DEFINE F == fifo \o H
  <2> HIDE DEF F
  <2>4. /\ Len(F \o C) = m + h + l /\ F \o C \in Seq(Nat)
        /\ \A i \in 1 .. m + h : (F \o C)[i] = F[i]
        /\ \A i \in m + h + 1 .. m + h + l : (F \o C)[i] = C[i - m - h]
    <3>1. F \in Seq(Nat) /\ Len(F) = m + h
      BY <2>3 DEF F
    <3> HIDE DEF m, h, l
    <3>2. C \in Seq(Nat) /\ Len(C) = l
      BY <2>2
    <3>3. /\ F \o C \in Seq(Nat) /\ Len(F \o C) = Len(F) + Len(C)
          /\ \A i \in 1 .. Len(F) : (F \o C)[i] = F[i]
          /\ \A i \in Len(F) + 1 .. Len(F) + Len(C) : (F \o C)[i] = C[i - Len(F)]
      BY <3>1, <3>2, Concat
    <3>4. \A i \in m + h + 1 .. m + h + l : i - (m + h) = i - m - h
      BY <1>2, <1>3, <1>4 DEF l, m, h
    <3> QED
      BY <3>1, <3>2, <3>3, <3>4
  <2> QED
    BY <2>1, <2>3, <2>4 DEF F, H
<1> HIDE DEF m, h, l
<1>7. ASSUME NEW i \in m + 1 .. m + h
      PROVE  InFlight[i] = Written + i - m
  <2>1. i = m + 1 /\ h = 1
    BY <1>3, <1>4
  <2>2. InFlight[i] = Held[1]
    BY <1>4, <1>6, <2>1
  <2>3. irq.data = put - l
    BY <1>3, <2>1 DEF IInv, TxRingInv, l
  <2> QED
    BY <1>1, <1>2, <1>3, <1>4, <1>5, <2>1, <2>2, <2>3
<1>8. ASSUME NEW i \in m + h + 1 .. m + h + l
      PROVE  InFlight[i] = Written + i - m
  <2>1. i - m - h \in 1 .. l /\ i - m - h - 1 \in 0 .. TxSize - 1 /\ i - m - h - 1 < l
    BY <1>1, <1>2, <1>3, <1>4
  <2>2. InFlight[i] = Nth(tx, TxSize, i - m - h - 1)
    BY <1>2, <1>6, <2>1
  <2>3. Nth(tx, TxSize, i - m - h - 1) = put - l + 1 + (i - m - h - 1)
    BY <2>1 DEF IInv, TxRingInv, l
  <2> QED
    BY <1>1, <1>2, <1>3, <1>4, <1>5, <2>1, <2>2, <2>3
<1>9. \A i \in m + 1 .. m + h + l : InFlight[i] = Written + i - m
  BY <1>2, <1>3, <1>4, <1>7, <1>8
<1> QED
  BY <1>1, <1>2, <1>3, <1>4, <1>5, <1>6, <1>9 DEF m, h, l

\* Bytes put leave in the order of the puts.
LEMMA PutsInOrder == IInv => BytesInOrder
<1> SUFFICES ASSUME IInv
             PROVE  BytesInOrder
  OBVIOUS
<1> DEFINE m == Len(fifo)
           h == Len(Held)
           l == RingLen(tx, TxSize)
           W == Written
<1>1. /\ DOMAIN InFlight = 1 .. m + h + l
      /\ m \in Nat /\ h \in Nat /\ l \in Nat /\ put \in Nat /\ W = put - l - h
      /\ \A i \in 1 .. m : InFlight[i] = fifo[i]
      /\ \A i \in m + 1 .. m + h + l : InFlight[i] = W + i - m
  BY InFlightFacts
<1>2. /\ sent \in Nat /\ sent <= W
      /\ \A i \in 1 .. m : fifo[i] = 0 \/ (sent < fifo[i] /\ fifo[i] <= W)
      /\ \A k \in sent + 1 .. W : \E i \in 1 .. m : fifo[i] = k
      /\ \A i, j \in 1 .. m : i < j /\ fifo[i] # 0 /\ fifo[j] # 0 => fifo[i] < fifo[j]
      /\ \A i \in 1 .. m : fifo[i] \in Nat
  BY DEF IInv, FifoInv, TypeInv
<1> HIDE DEF m, h, l, W
<1>3. ASSUME NEW i \in DOMAIN InFlight, InFlight[i] # 0
      PROVE  InFlight[i] \in sent + 1 .. put
  <2>1. CASE i \in 1 .. m
    BY <1>1, <1>2, <1>3, <2>1
  <2>2. CASE i \in m + 1 .. m + h + l
    BY <1>1, <1>2, <2>2
  <2> QED
    BY <1>1, <1>3, <2>1, <2>2
<1>4. ASSUME NEW k \in sent + 1 .. put
      PROVE  k # 0 /\ \E i \in DOMAIN InFlight : InFlight[i] = k
  <2>1. k # 0 /\ k \in Int
    BY <1>1, <1>2
  <2>2. CASE k <= W
    <3>1. k \in sent + 1 .. W
      BY <1>1, <2>2
    <3>2. PICK i \in 1 .. m : fifo[i] = k
      BY <1>2, <3>1
    <3>3. i \in DOMAIN InFlight /\ InFlight[i] = k
      <4>1. i \in 1 .. m + h + l
        BY <1>1
      <4> QED
        BY <1>1, <3>2, <4>1
    <3> QED
      BY <2>1, <3>3
  <2>3. CASE ~(k <= W)
    <3> DEFINE i == m + (k - W)
    <3>1. i \in m + 1 .. m + h + l /\ i \in 1 .. m + h + l /\ W + i - m = k
      BY <1>1, <2>1, <2>3
    <3> HIDE DEF i
    <3>2. i \in DOMAIN InFlight /\ InFlight[i] = k
      BY <1>1, <3>1
    <3> QED
      BY <2>1, <3>2
  <2> QED
    BY <2>2, <2>3
<1>5. ASSUME NEW i \in DOMAIN InFlight, NEW j \in DOMAIN InFlight,
             i < j, InFlight[i] # 0, InFlight[j] # 0
      PROVE  InFlight[i] < InFlight[j]
  <2>1. CASE j \in 1 .. m
    <3>1. i \in 1 .. m
      BY <1>1, <1>5, <2>1
    <3> QED
      BY <1>1, <1>2, <1>5, <2>1, <3>1
  <2>2. CASE i \in m + 1 .. m + h + l
    <3>1. j \in m + 1 .. m + h + l
      BY <1>1, <1>5, <2>2
    <3>2. InFlight[i] = W + i - m /\ InFlight[j] = W + j - m
      BY <1>1, <2>2, <3>1
    <3> QED
      BY <1>1, <1>5, <2>2, <3>1, <3>2
  <2>3. CASE i \in 1 .. m /\ j \in m + 1 .. m + h + l
    <3>1. fifo[i] # 0 /\ InFlight[i] = fifo[i]
      BY <1>1, <1>5, <2>3
    <3>2. fifo[i] <= W /\ fifo[i] \in Nat
      BY <1>2, <2>3, <3>1
    <3>3. InFlight[j] = W + j - m
      BY <1>1, <2>3
    <3> QED
      BY <1>1, <2>3, <3>1, <3>2, <3>3
  <2> QED
    BY <1>1, <1>5, <2>1, <2>2, <2>3
<1> QED
  BY <1>3, <1>4, <1>5 DEF BytesInOrder

\* Bytes received are read in the order they arrive.
LEMMA ReadsInOrder == IInv => ReceivedInOrder
<1> SUFFICES ASSUME IInv, irq.at # "panicked"
             PROVE  Contents(rx, RxSize) \o rxfifo = Between(read, arrived)
  BY DEF ReceivedInOrder
<1> DEFINE C == Contents(rx, RxSize)
           l == RingLen(rx, RxSize)
           n == Len(rxfifo)
           s == C \o rxfifo
<1>1. /\ RxSize \in Nat \ {0, 1} /\ rx \in RingSet(RxSize) /\ rxfifo \in Seq(Nat)
      /\ l \in 0 .. RxSize - 1 /\ n \in Nat /\ read \in Nat /\ arrived \in Nat
  BY RxTypes DEF IInv
<1>2. C \in Seq(Nat) /\ Len(C) = l /\ \A i \in 1 .. l : C[i] = Nth(rx, RxSize, i - 1)
  BY <1>1, ContentsFacts
<1>3. /\ arrived = read + l + n
      /\ \A i \in 0 .. RxSize - 1 : i < l => Nth(rx, RxSize, i) = read + 1 + i
      /\ \A i \in 1 .. n : rxfifo[i] = read + l + i
  BY DEF IInv, RxInv
<1> HIDE DEF C
<1>4. /\ s \in Seq(Nat) /\ Len(s) = Len(C) + n
      /\ \A i \in 1 .. Len(C) : s[i] = C[i]
      /\ \A i \in Len(C) + 1 .. Len(C) + n : s[i] = rxfifo[i - Len(C)]
  BY <1>1, <1>2, Concat
<1> HIDE DEF l, n, s
<1>5. Len(s) = arrived - read
  BY <1>1, <1>2, <1>3, <1>4
<1>6. ASSUME NEW i \in 1 .. arrived - read
      PROVE  s[i] = read + i
  <2>1. CASE i \in 1 .. l
    <3>1. s[i] = Nth(rx, RxSize, i - 1) /\ i - 1 \in 0 .. RxSize - 1 /\ i - 1 < l
      BY <1>1, <1>2, <1>4, <2>1
    <3>2. Nth(rx, RxSize, i - 1) = read + 1 + (i - 1)
      BY <1>3, <3>1
    <3> QED
      BY <1>1, <2>1, <3>1, <3>2
  <2>2. CASE i \in l + 1 .. l + n
    <3>1. s[i] = rxfifo[i - l] /\ i - l \in 1 .. n
      BY <1>1, <1>2, <1>4, <2>2
    <3>2. rxfifo[i - l] = read + l + (i - l)
      BY <1>3, <3>1
    <3> QED
      BY <1>1, <2>2, <3>1, <3>2
  <2> QED
    BY <1>1, <1>3, <2>1, <2>2
<1>7. s = [i \in 1 .. arrived - read |-> s[i]]
  BY <1>4, <1>5
<1>8. Between(read, arrived) = [i \in 1 .. arrived - read |-> read + i]
  BY DEF Between
<1> QED
  BY <1>6, <1>7, <1>8 DEF s, C

\* In both directions the bytes keep their order, and none is lost or comes
\* twice between a put and the line, or between the line and uart_read.
THEOREM OrderKept ==
  ASSUME OneCore
  PROVE  Spec => []BytesKeepOrder
<1>1. IInv => BytesKeepOrder
  BY PutsInOrder, ReadsInOrder DEF BytesKeepOrder
<1> QED
  BY <1>1, Invariance, PTL
=============================================================================
