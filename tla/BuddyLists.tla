----------------------------- MODULE BuddyLists -----------------------------
(***************************************************************************)
(* The memory the physical page allocator keeps                            *)
(* (kernel/mm/phys/page_allocator.c): one node per page and one doubly     *)
(* linked free list per order, linked by page index.  The operators are    *)
(* the pure steps the allocator is built from; each takes the memory and   *)
(* returns the memory after the call.                                      *)
(***************************************************************************)
EXTENDS Integers

CONSTANTS
  N,         \* number of pages, mm_info_page_count()
  MAX_ORDER, \* log2_floor(N)
  power_of2  \* power_of2[o] is the macro power_of2(o) of lib/math.h, 1 << o

Pages  == 0 .. (N - 1)
Orders == 0 .. MAX_ORDER

(***************************************************************************)
(* What is assumed of power_of2 is what 1 << o gives: it doubles at each   *)
(* order and a smaller power divides a larger one.  MAX_ORDER is           *)
(* log2_floor(N).                                                          *)
(***************************************************************************)
ASSUME GeometryAssumption ==
  /\ N \in Nat \ {0}
  /\ MAX_ORDER \in Nat
  /\ power_of2 \in [Orders -> Nat \ {0}]
  /\ power_of2[0] = 1
  /\ \A o \in Orders \ {0} : power_of2[o] = 2 * power_of2[o - 1]
  /\ \A a, b \in Orders : a <= b => power_of2[b] % power_of2[a] = 0
  /\ power_of2[MAX_ORDER] <= N
  /\ N < 2 * power_of2[MAX_ORDER]

NULL_IDX == -1     \* ~0: no page has this index

Memory == [next  : [Pages -> Pages \cup {NULL_IDX}],
           prev  : [Pages -> Pages \cup {NULL_IDX}],
           order : [Pages -> Orders],
           free  : [Pages -> BOOLEAN],
           free_lists : [Orders -> Pages \cup {NULL_IDX}]]

\* The nodes and list heads after the two clearing loops of
\* page_allocator_init.
ClearMemory == [next  |-> [i \in Pages |-> NULL_IDX],
                prev  |-> [i \in Pages |-> NULL_IDX],
                order |-> [i \in Pages |-> 0],
                free  |-> [i \in Pages |-> FALSE],
                free_lists |-> [o \in Orders |-> NULL_IDX]]

Aligned(i, o) == i % power_of2[o] = 0

\* The block of order o that starts at page i, as the set of its pages.
Block(i, o) == i .. (i + power_of2[o] - 1)

(***************************************************************************)
(* An operator headed "Faulty", here and in the other modules, is the      *)
(* definition that follows it with a bug the code does not have.  No       *)
(* specification uses it; it shows that a property tells the two apart.    *)
(***************************************************************************)

\* Faulty: adds the bit of a buddy that may have it already.
buddy_above(i, o) == i + power_of2[o]

\* i ^ (1 << o): flips bit o.  The bit is clear when the pair of buddies
\* starts at i.
buddy_of(i, o) ==
  IF (i \div power_of2[o]) % 2 = 0 THEN i + power_of2[o] ELSE i - power_of2[o]

\* i & ~((1 << o) - 1): clears the bits below o.
parent_at_order(i, o) == i - (i % power_of2[o])

set_order(m, i, o) == [m EXCEPT !.order[i] = o]

\* push_to_list: i becomes the head of the list of its order.
push_to_list(m, i) ==
  LET o == m.order[i]
      h == m.free_lists[o]
  IN  [next  |-> [m.next EXCEPT ![i] = h],
       prev  |-> [k \in Pages |-> IF k = i THEN NULL_IDX
                                  ELSE IF k = h THEN i ELSE m.prev[k]],
       order |-> m.order,
       free  |-> [m.free EXCEPT ![i] = TRUE],
       free_lists |-> [m.free_lists EXCEPT ![o] = i]]

\* Faulty: a node without predecessor stays the head of its list.
remove_keeps_head(m, i) ==
  [m EXCEPT !.next[i] = NULL_IDX, !.prev[i] = NULL_IDX, !.free[i] = FALSE]

\* remove_from_list: i is unlinked from its neighbours, or from the head
\* of its list when it has no predecessor.
remove_from_list(m, i) ==
  LET p == m.prev[i]
      n == m.next[i]
  IN  [next  |-> [k \in Pages |-> IF k = i THEN NULL_IDX
                                  ELSE IF k = p THEN n ELSE m.next[k]],
       prev  |-> [k \in Pages |-> IF k = i THEN NULL_IDX
                                  ELSE IF k = n THEN p ELSE m.prev[k]],
       order |-> m.order,
       free  |-> [m.free EXCEPT ![i] = FALSE],
       free_lists |-> IF p = NULL_IDX
                      THEN [m.free_lists EXCEPT ![m.order[i]] = n]
                      ELSE m.free_lists]

\* A free block of order o starts at page i (the test of try_merge on a
\* buddy and of reserve on a parent).
is_free_block(m, i, o) == m.free[i] /\ m.order[i] = o

(***************************************************************************)
(* The links are consistent: what DEBUG_ASSERT demands at the entry of     *)
(* push_to_list (lines 149-151) and remove_from_list (172-176), stated     *)
(* for every page at once.                                                 *)
(***************************************************************************)
LinksOK(m) ==
  /\ \A i \in Pages : ~m.free[i] => m.next[i] = NULL_IDX /\ m.prev[i] = NULL_IDX
  /\ \A i \in Pages : m.free[i] /\ m.prev[i] = NULL_IDX => m.free_lists[m.order[i]] = i
  /\ \A i, k \in Pages : m.free[i] /\ m.next[i] = k =>
        m.free[k] /\ m.order[k] = m.order[i] /\ m.prev[k] = i
  /\ \A i, k \in Pages : m.free[i] /\ m.prev[i] = k =>
        m.free[k] /\ m.order[k] = m.order[i] /\ m.next[k] = i
  /\ \A o \in Orders, i \in Pages : m.free_lists[o] = i =>
        m.free[i] /\ m.order[i] = o /\ m.prev[i] = NULL_IDX
=============================================================================
