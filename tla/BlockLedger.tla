---------------------------- MODULE BlockLedger -----------------------------
(***************************************************************************)
(* What the physical page allocator promises to its callers, with no       *)
(* lists, orders of search or merging: it lends blocks, naturally aligned  *)
(* runs of power_of2[o] pages, no two of which share a page, and takes     *)
(* them back whole.                                                        *)
(***************************************************************************)
EXTENDS Integers

CONSTANTS N, MAX_ORDER, power_of2

VARIABLE lent   \* lent[i]: order of the block lent at page i, or NotLent

NotLent == -1

Pages  == 0 .. (N - 1)
Orders == 0 .. MAX_ORDER

Run(i, o) == i .. (i + power_of2[o] - 1)

Init == lent = [i \in Pages |-> NotLent]

Lend(i, o) ==
  /\ i % power_of2[o] = 0
  /\ Run(i, o) \subseteq Pages
  /\ \A k \in Pages : lent[k] # NotLent => Run(k, lent[k]) \cap Run(i, o) = {}
  /\ lent' = [lent EXCEPT ![i] = o]

TakeBack(i) ==
  /\ lent[i] # NotLent
  /\ lent' = [lent EXCEPT ![i] = NotLent]

Next == \E i \in Pages : TakeBack(i) \/ \E o \in Orders : Lend(i, o)

Spec == Init /\ [][Next]_lent
=============================================================================
