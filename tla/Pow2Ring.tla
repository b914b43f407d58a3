------------------------------ MODULE Pow2Ring ------------------------------
(***************************************************************************)
(* The ring buffers of lib/buffer/pow2_ring.rs: a power of two of slots of *)
(* which one stays free, and an option to overwrite the oldest element.    *)
(* The same state serves the ring with a C interface, whose push reports   *)
(* whether there was room, and the Rust one, whose push reports whether    *)
(* the element is in.  Neither has a lock: one caller at a time.           *)
(***************************************************************************)
EXTENDS Integers, Sequences

CONSTANTS
  Values,  \* elements
  NULL     \* no ring, and a slot nothing was stored in

VARIABLES
  ring,    \* [size, overwrite, rust, buf, head, tail], or NULL
  queue,   \* ghost: the elements the ring should hold, oldest first
  lied     \* ghost: a call returned what the queue does not justify

ringVars == <<ring, queue, lied>>

Init == ring = NULL /\ queue = <<>> /\ lied = FALSE

\* Of a usize; no size is 0.
is_pow2(x) == x \in Nat \ {0} /\ \E p \in 0 .. x : x = 2 ^ p

\* The constructors; any other size panics.
New(size, overwrite, rust) ==
  /\ ring = NULL /\ is_pow2(size)
  /\ ring' = [size |-> size, overwrite |-> overwrite, rust |-> rust,
              buf |-> [s \in 0 .. size - 1 |-> NULL], head |-> 0, tail |-> 0]
  /\ UNCHANGED <<queue, lied>>

Next(x) == (x + 1) % ring.size  \* & mask
is_empty == ring.head = ring.tail

\* Faulty: a ring is full when its last slot is taken.
IsFullLate == ring.head - ring.tail = ring.size

is_full == Next(ring.head) = ring.tail

Stored(v) ==
  [ring EXCEPT !.buf[ring.head] = v, !.head = Next(ring.head),
               !.tail = IF is_full THEN Next(ring.tail) ELSE ring.tail]

\* What a push returns.
PushResult == ~is_full \/ (ring.rust /\ ring.overwrite)

\* What the queue holds after a push: the newest that fit, or what it held.
Pushed(v) ==
  IF Len(queue) < ring.size - 1 THEN Append(queue, v)
  ELSE IF ring.overwrite THEN Tail(Append(queue, v))
  ELSE queue

push(v) ==
  /\ ring' = IF is_full /\ ~ring.overwrite THEN ring ELSE Stored(v)
  /\ queue' = Pushed(v)
  /\ lied' = (PushResult # (IF ring.rust THEN ring.overwrite \/ Len(queue) < ring.size - 1
                            ELSE Len(queue) < ring.size - 1))

pop ==
  /\ ~is_empty
  /\ ring' = [ring EXCEPT !.tail = Next(@)]
  /\ queue' = Tail(queue)
  /\ lied' = (ring.buf[ring.tail] # Head(queue))

RingNext == pop \/ \E v \in Values : push(v)

-----------------------------------------------------------------------------
(* Properties *)

\* The slots from tail to head.
Contents ==
  [k \in 1 .. (ring.head - ring.tail) % ring.size |->
     ring.buf[(ring.tail + k - 1) % ring.size]]

\* The ring is a bounded queue of size - 1 elements that keeps the newest when
\* it may overwrite and the oldest when not, and its calls say so.
RingSound == ring # NULL => Contents = queue /\ ~lied
=============================================================================
