------------------------ MODULE PageAllocatorProofs ------------------------
(***************************************************************************)
(* Proofs about the physical page allocator, for every number of pages and *)
(* every sequence of boot regions: its memory stays well formed, no page   *)
(* is ever in two blocks, and it implements the ledger of lent blocks.     *)
(* Then that no page is lost, free buddies do not stay unmerged and every  *)
(* alarm is due.  The argument of the last: every page is in a block and   *)
(* no two free buddies remain, so an aligned run that no lent block meets  *)
(* lies in one free block; while the regions are reserved nothing at or    *)
(* above the page reserved next is lent; and the nodes of a list are       *)
(* ranked, so a list with a node has a head and a walk from the head meets *)
(* all of it.                                                              *)
(***************************************************************************)
EXTENDS PageAllocator, FiniteSetTheorems, WellFoundedInduction, NaturalsInduction, TLAPS

-----------------------------------------------------------------------------
(* Multiples of the size of a block, and the least of a set of numbers. *)

\* A nonempty set of numbers has a least.
LEMMA HasLeast ==
  ASSUME NEW T \in SUBSET Nat, T # {}
  PROVE  \E x \in T : \A y \in T : x <= y
<1> DEFINE less == {p \in Nat \X Nat : p[1] < p[2]}
<1>1. IsWellFoundedOn(less, Nat)
  BY NatLessThanWellFounded DEF OpToRel
<1>2. \E x \in T : \A y \in T : ~(<<y, x>> \in less)
  BY <1>1, WFMin
<1>3. PICK x \in T : \A y \in T : ~(<<y, x>> \in less)
  BY <1>2
<1>4. ASSUME NEW y \in T
      PROVE  x <= y
  <2>1. ~(<<y, x>> \in less)
    BY <1>3
  <2> QED
    BY <2>1
<1> QED
  BY <1>4

\* A multiple, and what divides it.
LEMMA ModIsMultiple ==
  ASSUME NEW P \in Nat \ {0}, NEW x \in Int, x % P = 0
  PROVE  \E q \in Int : x = q * P
<1>1. x = P * (x \div P) + (x % P) /\ x \div P \in Int
  BY SMT
<1> QED
  BY <1>1, SMT

\* The remainder of a multiple.
LEMMA MultipleIsMod ==
  ASSUME NEW P \in Nat \ {0}, NEW q \in Int
  PROVE  (q * P) % P = 0
<1> DEFINE d == (q * P) \div P
           m == (q * P) % P
<1>1. q * P = P * d + m /\ d \in Int /\ m \in 0 .. (P - 1)
  BY SMT
<1> HIDE DEF d, m
<1>2. m = P * (q - d)
  BY <1>1, SMT
<1>3. CASE q - d >= 1
  <2>1. P * (q - d) >= P
    BY <1>3, <1>1, SMT
  <2> QED
    BY <2>1, <1>1, <1>2, SMT
<1>4. CASE q - d <= -1
  <2>1. P * (q - d) <= -P
    BY <1>4, <1>1, SMT
  <2> QED
    BY <2>1, <1>1, <1>2, SMT
<1>5. CASE q = d
  <2>1. m = 0
    BY <1>5, <1>1, <1>2, SMT
  <2> QED
    BY <2>1 DEF m
<1> QED
  BY <1>1, <1>3, <1>4, <1>5, SMT

\* The quotient of a multiple.
LEMMA MultipleDiv ==
  ASSUME NEW P \in Nat \ {0}, NEW q \in Int
  PROVE  (q * P) \div P = q
<1>1. (q * P) % P = 0
  BY MultipleIsMod
<1>2. q * P = P * ((q * P) \div P) + ((q * P) % P) /\ (q * P) \div P \in Int
  BY SMT
<1> DEFINE d == (q * P) \div P
<1>3. q * P = P * d /\ d \in Int
  BY <1>1, <1>2
<1> HIDE DEF d
<1>4. P * (q - d) = 0
  BY <1>3, SMT
<1>5. q - d = 0
  BY <1>3, <1>4, SMT
<1>6. q = d
  BY <1>3, <1>5, SMT
<1> QED
  BY <1>6 DEF d

\* Sums and differences of multiples.
LEMMA ModSum ==
  ASSUME NEW P \in Nat \ {0}, NEW x \in Int, NEW y \in Int, x % P = 0, y % P = 0
  PROVE  (x + y) % P = 0 /\ (x - y) % P = 0
<1>1. PICK q \in Int : x = q * P
  BY ModIsMultiple
<1>2. PICK r \in Int : y = r * P
  BY ModIsMultiple
<1>3. x + y = (q + r) * P /\ x - y = (q - r) * P
  BY <1>1, <1>2, SMT
<1>4. q + r \in Int /\ q - r \in Int
  OBVIOUS
<1> QED
  BY <1>3, <1>4, MultipleIsMod

\* Two multiples of P less than P apart are equal.
LEMMA ModClose ==
  ASSUME NEW P \in Nat \ {0}, NEW x \in Int, NEW y \in Int,
         x % P = 0, y % P = 0, x <= y, y < x + P
  PROVE  x = y
<1>1. PICK q \in Int : x = q * P
  BY ModIsMultiple
<1>2. PICK r \in Int : y = r * P
  BY ModIsMultiple
<1>3. 0 <= (r - q) * P /\ (r - q) * P < P
  BY <1>1, <1>2, SMT
<1>4. CASE r - q >= 1
  <2>1. (r - q) * P >= P
    BY <1>4, SMT
  <2> QED
    BY <1>3, <2>1, SMT
<1>5. CASE r - q <= -1
  <2>1. (r - q) * P <= -P
    BY <1>5, SMT
  <2> QED
    BY <1>3, <2>1, SMT
<1>6. CASE r = q
  BY <1>1, <1>2, <1>6
<1> QED
  BY <1>4, <1>5, <1>6, SMT

\* A multiple of 2P is the lower of a pair of multiples of P.
LEMMA LowerOfPair ==
  ASSUME NEW P \in Nat \ {0}, NEW i \in Nat, i % (2 * P) = 0
  PROVE  i % P = 0 /\ (i + P) % P = 0 /\ (i \div P) % 2 = 0
<1>1. PICK q \in Int : i = q * (2 * P)
  <2>1. 2 * P \in Nat \ {0} /\ i \in Int
    BY SMT
  <2> QED
    BY <2>1, ModIsMultiple, Zenon
<1>2. i = (2 * q) * P /\ 2 * q \in Int
  BY <1>1, SMT
<1>3. i % P = 0
  BY <1>2, MultipleIsMod
<1>4. P % P = 0
  BY MultipleIsMod, 1 * P = P, 1 \in Int
<1>5. (i + P) % P = 0
  BY <1>3, <1>4, ModSum, i \in Int, P \in Int, Zenon
<1>6. i \div P = 2 * q
  BY <1>2, MultipleDiv
<1>7. (2 * q) % 2 = 0
  BY SMT
<1> QED
  BY <1>3, <1>5, <1>6, <1>7

\* Of a multiple of P with an even quotient the pair starts at it, and of one
\* with an odd quotient at the multiple before.
LEMMA PairOfMultiple ==
  ASSUME NEW P \in Nat \ {0}, NEW i \in Nat, i % P = 0
  PROVE  /\ (i \div P) % 2 = 0 => i % (2 * P) = 0 /\ (i + P) % P = 0
         /\ (i \div P) % 2 # 0 => (i - P) % (2 * P) = 0 /\ (i - P) % P = 0 /\ i >= P
<1>1. PICK q \in Int : i = q * P
  BY ModIsMultiple
<1>2. i \div P = q
  BY <1>1, MultipleDiv
<1>3. P % P = 0
  BY MultipleIsMod, 1 * P = P, 1 \in Int
<1>4. (i + P) % P = 0 /\ (i - P) % P = 0
  BY <1>3, ModSum, i \in Int, P \in Int, Zenon
<1>5. 2 * P \in Nat \ {0}
  OBVIOUS
<1>6. ASSUME q % 2 = 0
      PROVE  i % (2 * P) = 0
  <2>1. PICK r \in Int : q = r * 2
    BY <1>6, ModIsMultiple
  <2>2. i = r * (2 * P)
    BY <1>1, <2>1, SMT
  <2> QED
    BY <1>5, <2>2, MultipleIsMod
<1>7. ASSUME q % 2 # 0
      PROVE  (i - P) % (2 * P) = 0 /\ i >= P
  <2>1. PICK r \in Int : q - 1 = r * 2
    <3>1. (q - 1) % 2 = 0
      BY <1>7, SMT
    <3> QED
      BY <3>1, ModIsMultiple, q - 1 \in Int, 2 \in Nat \ {0}, Zenon
  <2>2. i - P = r * (2 * P)
    BY <1>1, <2>1, SMT
  <2>3. (i - P) % (2 * P) = 0
    BY <1>5, <2>2, MultipleIsMod
  <2>4. q >= 1
    <3>1. CASE q <= -1
      <4>1. q * P <= -P
        BY <3>1, SMT
      <4> QED
        BY <1>1, <4>1, SMT
    <3> QED
      BY <3>1, <1>7, SMT
  <2>5. q * P >= P
    BY <2>4, SMT
  <2> QED
    BY <1>1, <2>3, <2>5, SMT
<1> QED
  BY <1>2, <1>4, <1>6, <1>7

\* Clearing the remainder gives the multiple at or below.
LEMMA MultipleBelow ==
  ASSUME NEW P \in Nat \ {0}, NEW i \in Nat
  PROVE  /\ i - (i % P) \in Nat /\ i - (i % P) <= i /\ i < i - (i % P) + P
         /\ (i - (i % P)) % P = 0
<1> DEFINE d == i \div P
           r == i % P
<1>1. i = P * d + r /\ d \in Int /\ r \in 0 .. (P - 1)
  BY SMT
<1> HIDE DEF d, r
<1>2. i - r = d * P /\ i - r <= i /\ i < i - r + P
  BY <1>1, SMT
<1>3. (i - r) % P = 0
  BY <1>1, <1>2, MultipleIsMod
<1>4. d * P >= 0
  <2>1. CASE d <= -1
    <3>1. d * P <= -P
      BY <1>1, <2>1, SMT
    <3> QED
      BY <1>1, <1>2, <3>1, SMT
  <2>2. CASE d >= 0
    BY <1>1, <2>2, SMT
  <2> QED
    BY <1>1, <2>1, <2>2, SMT
<1>5. i - r \in Nat
  BY <1>1, <1>2, <1>4, SMT
<1> QED
  BY <1>2, <1>3, <1>5 DEF r

\* What a multiple of B is a multiple of, B being a multiple of A.
LEMMA ModOfMultiple ==
  ASSUME NEW A \in Nat \ {0}, NEW B \in Nat \ {0}, NEW y \in Int,
         y % B = 0, B % A = 0
  PROVE  y % A = 0
<1>1. PICK q \in Int : y = q * B
  BY ModIsMultiple
<1>2. PICK r \in Int : B = r * A
  BY ModIsMultiple
<1>3. y = (q * r) * A /\ q * r \in Int
  BY <1>1, <1>2, SMT
<1> QED
  BY <1>3, MultipleIsMod

-----------------------------------------------------------------------------
(* The links. *)

\* push_to_list, called on a node that is not free, keeps the memory typed
\* and the links consistent; of orders and free bits it changes only the
\* free bit of the node.
LEMMA PushLemma ==
  ASSUME NEW m \in Memory, NEW i \in Pages, ~m.free[i], LinksOK(m)
  PROVE  /\ push_to_list(m, i) \in Memory
         /\ LinksOK(push_to_list(m, i))
         /\ push_to_list(m, i).order = m.order
         /\ push_to_list(m, i).free = [m.free EXCEPT ![i] = TRUE]
<1> DEFINE q == push_to_list(m, i)
           o == m.order[i]
           h == m.free_lists[o]
<1>1. /\ o \in Orders
      /\ h \in Pages \cup {NULL_IDX}
      /\ NULL_IDX \notin Pages
  BY GeometryAssumption DEF Memory, NULL_IDX, Pages
<1>2. /\ q.next  = [m.next EXCEPT ![i] = h]
      /\ q.prev  = [k \in Pages |-> IF k = i THEN NULL_IDX
                                    ELSE IF k = h THEN i ELSE m.prev[k]]
      /\ q.order = m.order
      /\ q.free  = [m.free EXCEPT ![i] = TRUE]
      /\ q.free_lists = [m.free_lists EXCEPT ![o] = i]
  BY DEF push_to_list
<1>3. q \in Memory
  BY <1>1 DEF Memory, push_to_list
<1> HIDE DEF q
<1>4. LinksOK(q)
  <2> USE <1>1, <1>2 DEF LinksOK, Memory
  <2>1. \A k \in Pages : ~q.free[k] => q.next[k] = NULL_IDX /\ q.prev[k] = NULL_IDX
    OBVIOUS
  <2>2. \A k \in Pages : q.free[k] /\ q.prev[k] = NULL_IDX => q.free_lists[q.order[k]] = k
    OBVIOUS
  <2>3. \A k, l \in Pages : q.free[k] /\ q.next[k] = l =>
           q.free[l] /\ q.order[l] = q.order[k] /\ q.prev[l] = k
    OBVIOUS
  <2>4. \A k, l \in Pages : q.free[k] /\ q.prev[k] = l =>
           q.free[l] /\ q.order[l] = q.order[k] /\ q.next[l] = k
    OBVIOUS
  <2>5. \A a \in Orders, k \in Pages : q.free_lists[a] = k =>
           q.free[k] /\ q.order[k] = a /\ q.prev[k] = NULL_IDX
    OBVIOUS
  <2> QED
    BY <2>1, <2>2, <2>3, <2>4, <2>5
<1> QED
  BY <1>2, <1>3, <1>4 DEF q

\* remove_from_list, called on a free node, keeps the memory typed and the
\* links consistent, and clears the free bit of the node.
LEMMA RemoveLemma ==
  ASSUME NEW m \in Memory, NEW i \in Pages, m.free[i], LinksOK(m)
  PROVE  /\ remove_from_list(m, i) \in Memory
         /\ LinksOK(remove_from_list(m, i))
         /\ remove_from_list(m, i).order = m.order
         /\ remove_from_list(m, i).free = [m.free EXCEPT ![i] = FALSE]
<1> DEFINE q == remove_from_list(m, i)
           p == m.prev[i]
           n == m.next[i]
<1>1. /\ p \in Pages \cup {NULL_IDX}
      /\ n \in Pages \cup {NULL_IDX}
      /\ NULL_IDX \notin Pages
      /\ m.order[i] \in Orders
  BY GeometryAssumption DEF Memory, NULL_IDX, Pages
<1>2. /\ q.next  = [k \in Pages |-> IF k = i THEN NULL_IDX
                                    ELSE IF k = p THEN n ELSE m.next[k]]
      /\ q.prev  = [k \in Pages |-> IF k = i THEN NULL_IDX
                                    ELSE IF k = n THEN p ELSE m.prev[k]]
      /\ q.order = m.order
      /\ q.free  = [m.free EXCEPT ![i] = FALSE]
      /\ q.free_lists = IF p = NULL_IDX
                        THEN [m.free_lists EXCEPT ![m.order[i]] = n]
                        ELSE m.free_lists
  BY DEF remove_from_list
<1>3. q \in Memory
  BY <1>1 DEF Memory, remove_from_list
<1> HIDE DEF q
<1>4. LinksOK(q)
  <2> USE <1>1, <1>2 DEF LinksOK, Memory
  <2>1. \A k \in Pages : ~q.free[k] => q.next[k] = NULL_IDX /\ q.prev[k] = NULL_IDX
    OBVIOUS
  <2>2. \A k \in Pages : q.free[k] /\ q.prev[k] = NULL_IDX => q.free_lists[q.order[k]] = k
    OBVIOUS
  <2>3. \A k, l \in Pages : q.free[k] /\ q.next[k] = l =>
           q.free[l] /\ q.order[l] = q.order[k] /\ q.prev[l] = k
    OBVIOUS
  <2>4. \A k, l \in Pages : q.free[k] /\ q.prev[k] = l =>
           q.free[l] /\ q.order[l] = q.order[k] /\ q.next[l] = k
    OBVIOUS
  <2>5. \A a \in Orders, k \in Pages : q.free_lists[a] = k =>
           q.free[k] /\ q.order[k] = a /\ q.prev[k] = NULL_IDX
    OBVIOUS
  <2> QED
    BY <2>1, <2>2, <2>3, <2>4, <2>5
<1> QED
  BY <1>2, <1>3, <1>4 DEF q

\* set_order on a node that is not free touches no list.
LEMMA SetOrderLemma ==
  ASSUME NEW m \in Memory, NEW i \in Pages, NEW o \in Orders, ~m.free[i], LinksOK(m)
  PROVE  /\ set_order(m, i, o) \in Memory
         /\ LinksOK(set_order(m, i, o))
         /\ set_order(m, i, o).order = [m.order EXCEPT ![i] = o]
         /\ set_order(m, i, o).free = m.free
  BY DEF Memory, LinksOK, set_order

-----------------------------------------------------------------------------
(* Buddies. *)

\* The sizes of the blocks.
LEMMA Sizes ==
  /\ \A o \in Orders : power_of2[o] \in Nat \ {0}
  /\ \A o \in Orders : o # 0 => o - 1 \in Orders /\ power_of2[o] = 2 * power_of2[o - 1]
  /\ \A o \in Orders : o # MAX_ORDER =>
        o + 1 \in Orders /\ power_of2[o + 1] = 2 * power_of2[o]
<1>1. /\ MAX_ORDER \in Nat
      /\ power_of2 \in [Orders -> Nat \ {0}]
      /\ \A o \in Orders \ {0} : power_of2[o] = 2 * power_of2[o - 1]
  BY GeometryAssumption
<1>2. ASSUME NEW o \in Orders, o # 0
      PROVE  o - 1 \in Orders /\ power_of2[o] = 2 * power_of2[o - 1]
  BY <1>1, <1>2 DEF Orders
<1>3. ASSUME NEW o \in Orders, o # MAX_ORDER
      PROVE  o + 1 \in Orders /\ power_of2[o + 1] = 2 * power_of2[o]
  <2>1. o + 1 \in Orders \ {0} /\ (o + 1) - 1 = o
    BY <1>1, <1>3 DEF Orders
  <2> QED
    BY <1>1, <2>1
<1> QED
  BY <1>1, <1>2, <1>3

\* A block aligned to an order splits into two halves aligned to the order
\* below, and the upper one is the buddy of the lower one.
LEMMA SplitBlock ==
  ASSUME NEW o \in Orders, o # 0, NEW i \in Pages, Aligned(i, o)
  PROVE  /\ Aligned(i, o - 1)
         /\ Aligned(i + power_of2[o - 1], o - 1)
         /\ buddy_of(i, o - 1) = i + power_of2[o - 1]
<1>1. power_of2[o - 1] \in Nat \ {0} /\ power_of2[o] = 2 * power_of2[o - 1]
  BY Sizes
<1>2. i \in Nat /\ i % (2 * power_of2[o - 1]) = 0
  BY <1>1 DEF Aligned, Pages
<1> QED
  BY <1>1, <1>2, LowerOfPair DEF Aligned, buddy_of

\* A block and its buddy make a block aligned to the order above, which the
\* lower of the two starts.
LEMMA MergeBlock ==
  ASSUME NEW o \in Orders, o # MAX_ORDER, NEW i \in Pages, Aligned(i, o)
  PROVE  /\ buddy_of(i, o) \in Nat /\ Aligned(buddy_of(i, o), o)
         /\ \/ buddy_of(i, o) = i + power_of2[o] /\ Aligned(i, o + 1)
            \/ i = buddy_of(i, o) + power_of2[o] /\ Aligned(buddy_of(i, o), o + 1)
<1>1. /\ power_of2[o] \in Nat \ {0} /\ i \in Nat
      /\ power_of2[o + 1] = 2 * power_of2[o]
  BY Sizes DEF Pages
<1>2. i % power_of2[o] = 0
  BY DEF Aligned
<1>3. CASE (i \div power_of2[o]) % 2 = 0
  <2>1. i % (2 * power_of2[o]) = 0 /\ (i + power_of2[o]) % power_of2[o] = 0
    BY <1>1, <1>2, <1>3, PairOfMultiple
  <2>2. buddy_of(i, o) = i + power_of2[o]
    BY <1>3 DEF buddy_of
  <2> QED
    BY <1>1, <2>1, <2>2 DEF Aligned
<1>4. CASE (i \div power_of2[o]) % 2 # 0
  <2>1. /\ (i - power_of2[o]) % (2 * power_of2[o]) = 0
        /\ (i - power_of2[o]) % power_of2[o] = 0
        /\ i >= power_of2[o]
    BY <1>1, <1>2, <1>4, PairOfMultiple
  <2>2. buddy_of(i, o) = i - power_of2[o]
    BY <1>4 DEF buddy_of
  <2>3. buddy_of(i, o) \in Nat /\ i = buddy_of(i, o) + power_of2[o]
    BY <1>1, <2>1, <2>2
  <2> QED
    BY <1>1, <2>1, <2>2, <2>3 DEF Aligned
<1> QED
  BY <1>3, <1>4

\* parent_at_order gives the aligned block that holds the page.
LEMMA ParentBlock ==
  ASSUME NEW o \in Orders, NEW i \in Nat
  PROVE  /\ parent_at_order(i, o) \in Nat /\ parent_at_order(i, o) <= i
         /\ i < parent_at_order(i, o) + power_of2[o]
         /\ Aligned(parent_at_order(i, o), o)
  BY Sizes, MultipleBelow DEF parent_at_order, Aligned

\* The buddy of its buddy is the block.
LEMMA BuddyTwice ==
  ASSUME NEW o \in Orders, o # MAX_ORDER, NEW i \in Pages, Aligned(i, o),
         NEW b \in Pages, b = buddy_of(i, o)
  PROVE  buddy_of(b, o) = i
<1> DEFINE c == buddy_of(b, o)
<1>1. /\ Aligned(b, o)
      /\ \/ b = i + power_of2[o] /\ Aligned(i, o + 1)
         \/ i = b + power_of2[o] /\ Aligned(b, o + 1)
  BY MergeBlock
<1>2. /\ c \in Nat
      /\ \/ c = b + power_of2[o] /\ Aligned(b, o + 1)
         \/ b = c + power_of2[o] /\ Aligned(c, o + 1)
  BY <1>1, MergeBlock
<1>3. /\ power_of2[o] \in Nat \ {0} /\ i \in Nat /\ b \in Nat
      /\ power_of2[o + 1] = 2 * power_of2[o] /\ power_of2[o + 1] \in Nat \ {0}
  BY Sizes DEF Pages
<1> HIDE DEF c
<1>4. ASSUME NEW x \in Nat, NEW y \in Nat, y = x + power_of2[o],
             Aligned(x, o + 1), Aligned(y, o + 1)
      PROVE  FALSE
  <2>1. x <= y /\ y < x + power_of2[o + 1] /\ x \in Int /\ y \in Int
    BY <1>3, <1>4
  <2>2. x = y
    BY <1>3, <1>4, <2>1, ModClose DEF Aligned
  <2> QED
    BY <1>3, <1>4, <2>2
<1>5. CASE b = i + power_of2[o] /\ Aligned(i, o + 1)
  <2>1. ~Aligned(b, o + 1)
    BY <1>3, <1>4, <1>5
  <2> QED
    BY <1>2, <1>3, <1>5, <2>1 DEF c
<1>6. CASE i = b + power_of2[o] /\ Aligned(b, o + 1)
  <2>1. CASE b = c + power_of2[o] /\ Aligned(c, o + 1)
    BY <1>2, <1>3, <1>4, <1>6, <2>1
  <2> QED
    BY <1>2, <1>3, <1>6, <2>1 DEF c
<1> QED
  BY <1>1, <1>5, <1>6

\* Of two aligned runs that meet, the larger holds the smaller.
LEMMA RunsNest ==
  ASSUME NEW a \in Orders, NEW b \in Orders, a <= b,
         NEW x \in Nat, NEW y \in Nat, Aligned(x, a), Aligned(y, b),
         x < y + power_of2[b], y < x + power_of2[a]
  PROVE  y <= x /\ x + power_of2[a] <= y + power_of2[b]
<1> DEFINE A == power_of2[a]
           B == power_of2[b]
<1>1. A \in Nat \ {0} /\ B \in Nat \ {0} /\ B % A = 0
  BY Sizes, GeometryAssumption
<1>2. x % A = 0 /\ y % B = 0 /\ x < y + B /\ y < x + A
  BY DEF Aligned
<1> HIDE DEF A, B
<1>3. y % A = 0 /\ y \in Int /\ x \in Int
  <2>1. y \in Int /\ x \in Int
    OBVIOUS
  <2> QED
    BY <1>1, <1>2, <2>1, ModOfMultiple
<1>4. (y + B) % A = 0
  BY <1>1, <1>3, ModSum
<1>5. y <= x
  <2>1. CASE x < y
    <3>1. x = y
      <4>1. x <= y
        BY <2>1
      <4> QED
        BY <1>1, <1>2, <1>3, <4>1, ModClose
    <3> QED
      BY <2>1, <3>1
  <2> QED
    BY <2>1
<1>6. x + A <= y + B
  <2>1. CASE y + B < x + A
    <3>1. x <= y + B /\ y + B \in Int /\ x \in Int
      BY <1>1, <1>2
    <3>2. x = y + B
      BY <1>1, <1>2, <1>4, <2>1, <3>1, ModClose
    <3> QED
      BY <1>1, <1>2, <3>2
  <2> QED
    BY <1>1, <2>1
<1> QED
  BY <1>5, <1>6 DEF A, B

-----------------------------------------------------------------------------
(* The parts of the inductive invariant, over a memory m and a table l of  *)
(* the blocks lent, so that the lemmas can follow one call inside a step.  *)

Lent == [Pages -> Orders \cup {NotLent}]

\* A block starts at page i: on a list, or lent.
Used(m, l, i) == m.free[i] \/ l[i] # NotLent

Fits(i, o) == Aligned(i, o) /\ i + power_of2[o] <= N

Apart(i, a, k, b) == i + power_of2[a] <= k \/ k + power_of2[b] <= i

\* Blocks fit in memory, do not meet, and are free or lent, never both.
Placed(m, l) ==
  /\ \A i \in Pages : l[i] # NotLent => m.order[i] = l[i] /\ ~m.free[i]
  /\ \A i \in Pages : Used(m, l, i) => Fits(i, m.order[i])
  /\ \A i, k \in Pages : Used(m, l, i) /\ Used(m, l, k) /\ i # k =>
        Apart(i, m.order[i], k, m.order[k])

\* No block meets the run of order o at page i.
Clear(m, l, i, o) ==
  \A k \in Pages : Used(m, l, k) => Apart(k, m.order[k], i, o)

Good(m, l) == m \in Memory /\ LinksOK(m) /\ Placed(m, l)

-----------------------------------------------------------------------------
(* What the calls inside a step preserve. *)

\* A node at which no block starts may take any order.
LEMMA MarkBlock ==
  ASSUME NEW m, NEW l \in Lent, Good(m, l),
         NEW i \in Pages, NEW o \in Orders, ~Used(m, l, i)
  PROVE  /\ Good(set_order(m, i, o), l)
         /\ set_order(m, i, o).order[i] = o
         /\ \A k \in Pages : Used(set_order(m, i, o), l, k) <=> Used(m, l, k)
         /\ \A k \in Pages, b \in Orders :
               Clear(m, l, k, b) => Clear(set_order(m, i, o), l, k, b)
<1> DEFINE q == set_order(m, i, o)
<1>1. /\ q \in Memory /\ LinksOK(q)
      /\ q.order = [m.order EXCEPT ![i] = o]
      /\ q.free = m.free
  BY SetOrderLemma DEF Good, Used
<1>2. m \in Memory
  BY DEF Good
<1> HIDE DEF q
<1>3. Placed(q, l)
  BY <1>1, <1>2 DEF Good, Placed, Used, Memory
<1>4. \A k \in Pages, b \in Orders : Clear(m, l, k, b) => Clear(q, l, k, b)
  BY <1>1, <1>2 DEF Clear, Used, Memory
<1>5. q.order[i] = o /\ \A k \in Pages : Used(q, l, k) <=> Used(m, l, k)
  BY <1>1, <1>2 DEF Used, Memory
<1> QED
  BY <1>1, <1>3, <1>4, <1>5 DEF Good, q

\* Where nothing is in the way no block starts.
LEMMA ClearUnused ==
  ASSUME NEW m, NEW l \in Lent, Good(m, l),
         NEW i \in Pages, NEW o \in Orders, Clear(m, l, i, o)
  PROVE  ~Used(m, l, i)
<1>0. i \in Nat
  BY DEF Pages
<1>1. m.order[i] \in Orders
  BY DEF Good, Memory
<1>2. power_of2[o] \in Nat \ {0} /\ power_of2[m.order[i]] \in Nat \ {0}
  BY <1>1, Sizes
<1> QED
  BY <1>0, <1>1, <1>2 DEF Clear, Apart

\* A run that no block meets may be listed as a free block.
LEMMA ListBlock ==
  ASSUME NEW m, NEW l \in Lent, Good(m, l),
         NEW i \in Pages, Fits(i, m.order[i]), Clear(m, l, i, m.order[i])
  PROVE  /\ Good(push_to_list(m, i), l)
         /\ push_to_list(m, i).order = m.order
         /\ push_to_list(m, i).free = [m.free EXCEPT ![i] = TRUE]
         /\ \A k \in Pages, b \in Orders :
               Clear(m, l, k, b) /\ Apart(i, m.order[i], k, b) =>
                 Clear(push_to_list(m, i), l, k, b)
<1> DEFINE q == push_to_list(m, i)
<1>1. m \in Memory /\ m.order[i] \in Orders /\ ~Used(m, l, i)
  BY ClearUnused DEF Good, Memory
<1>2. /\ q \in Memory /\ LinksOK(q) /\ q.order = m.order
      /\ q.free = [m.free EXCEPT ![i] = TRUE]
  BY <1>1, PushLemma DEF Good, Used
<1> HIDE DEF q
<1>3. Placed(q, l)
  <2>1. \A k \in Pages : l[k] # NotLent => q.order[k] = l[k] /\ ~q.free[k]
    BY <1>1, <1>2 DEF Good, Placed, Used, Memory
  <2>2. \A k \in Pages : Used(q, l, k) => Fits(k, q.order[k])
    BY <1>1, <1>2 DEF Good, Placed, Used, Memory
  <2>3. \A k \in Pages : k # i /\ Used(q, l, k) => Used(m, l, k)
    BY <1>1, <1>2 DEF Used, Memory
  <2>4. \A k, n \in Pages : Used(q, l, k) /\ Used(q, l, n) /\ k # n =>
           Apart(k, q.order[k], n, q.order[n])
    BY <1>2, <2>3 DEF Good, Placed, Clear, Apart
  <2> QED
    BY <2>1, <2>2, <2>4 DEF Placed
<1>4. \A k \in Pages, b \in Orders :
         Clear(m, l, k, b) /\ Apart(i, m.order[i], k, b) => Clear(q, l, k, b)
  BY <1>1, <1>2 DEF Clear, Used, Memory
<1> QED
  BY <1>2, <1>3, <1>4 DEF Good, q

\* The run of a free block taken off its list is clear.
LEMMA UnlistBlock ==
  ASSUME NEW m, NEW l \in Lent, Good(m, l), NEW i \in Pages, m.free[i]
  PROVE  /\ Good(remove_from_list(m, i), l)
         /\ remove_from_list(m, i).order = m.order
         /\ remove_from_list(m, i).free = [m.free EXCEPT ![i] = FALSE]
         /\ Fits(i, m.order[i])
         /\ Clear(remove_from_list(m, i), l, i, m.order[i])
         /\ \A k \in Pages, b \in Orders :
               Clear(m, l, k, b) => Clear(remove_from_list(m, i), l, k, b)
<1> DEFINE q == remove_from_list(m, i)
<1>1. m \in Memory /\ l[i] = NotLent
  BY DEF Good, Placed
<1>2. /\ q \in Memory /\ LinksOK(q) /\ q.order = m.order
      /\ q.free = [m.free EXCEPT ![i] = FALSE]
  BY <1>1, RemoveLemma DEF Good
<1> HIDE DEF q
<1>3. /\ ~Used(q, l, i)
      /\ \A k \in Pages : Used(q, l, k) => Used(m, l, k)
  BY <1>1, <1>2 DEF Used, Memory
<1>4. Placed(q, l)
  BY <1>1, <1>2, <1>3 DEF Good, Placed, Used, Memory
<1>5. Fits(i, m.order[i])
  BY DEF Good, Placed, Used
<1>6. Clear(q, l, i, m.order[i])
  BY <1>2, <1>3 DEF Good, Placed, Clear, Used
<1>7. \A k \in Pages, b \in Orders : Clear(m, l, k, b) => Clear(q, l, k, b)
  BY <1>2, <1>3 DEF Clear
<1> QED
  BY <1>2, <1>4, <1>5, <1>6, <1>7 DEF Good, q

\* A clear run whose node has its order may be lent.
LEMMA LendBlock ==
  ASSUME NEW m, NEW l \in Lent, Good(m, l), NEW i \in Pages, NEW o \in Orders,
         Fits(i, o), Clear(m, l, i, o), m.order[i] = o
  PROVE  Good(m, [l EXCEPT ![i] = o]) /\ [l EXCEPT ![i] = o] \in Lent
<1> DEFINE t == [l EXCEPT ![i] = o]
<1>1. ~Used(m, l, i)
  BY ClearUnused
<1>2. \A k \in Pages : k # i => t[k] = l[k]
  BY DEF Lent
<1>3. t[i] = o /\ t \in Lent /\ NotLent \notin Orders
  BY DEF Lent, NotLent, Orders
<1> HIDE DEF t
<1>4. \A k \in Pages : k # i /\ Used(m, t, k) => Used(m, l, k)
  BY <1>2 DEF Used
<1>5. Placed(m, t)
  BY <1>1, <1>2, <1>3, <1>4 DEF Good, Placed, Used, Clear, Apart
<1> QED
  BY <1>3, <1>5 DEF Good, t

-----------------------------------------------------------------------------
(* The inductive invariant. *)

\* init: what is not yet listed is aligned to every block that fits in it.
InitInv ==
  pc = "init" =>
    /\ remaining = N - cur
    /\ \A o \in Orders : power_of2[o] <= remaining => Aligned(cur, o)
    /\ \A i \in Pages : mem.free[i] => i + power_of2[mem.order[i]] <= cur
    /\ \A i \in Pages : lent[i] = NotLent

\* The block off the lists during a split or a reservation.
TransitInv ==
  pc \in {"reserve", "split"} =>
    /\ cur \in Pages /\ Fits(cur, cur_o)
    /\ target_o <= cur_o
    /\ Clear(mem, lent, cur, cur_o)

\* The node of the block being split has taken its order already.
SplitInv == pc = "split" => mem.order[cur] = target_o

RegionInv ==
  pc \in {"memregs", "reserve"} => reg \in DOMAIN MemRegs /\ j + remaining <= N

\* The block in transit of a reservation holds the run to reserve.
ReserveInv ==
  pc = "reserve" =>
    /\ power_of2[target_o] <= remaining
    /\ Aligned(j, target_o)
    /\ cur <= j /\ j < cur + power_of2[cur_o]

MergeInv == pc = "merge" => cur \in Pages /\ mem.free[cur]

IInv ==
  /\ TypeOK
  /\ LinksOK(mem)
  /\ Placed(mem, lent)
  /\ InitInv /\ TransitInv /\ SplitInv /\ RegionInv /\ ReserveInv /\ MergeInv

-----------------------------------------------------------------------------
(* Every action preserves it. *)

LEMMA Bounds ==
  /\ N \in Nat \ {0} /\ MAX_ORDER \in Nat /\ NotLent \notin Orders
  /\ 0 \in Orders /\ 0 \in Pages
  /\ \A i \in Pages : i \in Nat /\ i < N
  /\ \A i \in Nat : i < N => i \in Pages
  /\ \A r \in DOMAIN MemRegs : /\ r \in Nat
                               /\ MemRegs[r].addr \in Nat /\ MemRegs[r].pages \in Nat
                               /\ MemRegs[r].addr + MemRegs[r].pages <= N
<1>1. /\ N \in Nat \ {0} /\ MAX_ORDER \in Nat
  BY GeometryAssumption
<1>2. ASSUME NEW r \in DOMAIN MemRegs
      PROVE  /\ r \in Nat
             /\ MemRegs[r].addr \in Nat /\ MemRegs[r].pages \in Nat
             /\ MemRegs[r].addr + MemRegs[r].pages <= N
  <2>1. MemRegs \in Seq(Regions)
    BY MemRegsAssumption
  <2>2. r \in 1 .. Len(MemRegs) /\ Len(MemRegs) \in Nat
    BY <1>2, <2>1
  <2>3. MemRegs[r] \in Regions
    BY <2>1, <2>2
  <2> QED
    BY <2>2, <2>3, MemRegsAssumption DEF Pages, Regions
<1> QED
  BY <1>1, <1>2 DEF NotLent, Orders, Pages

LEMMA InitIInv == Init => IInv
<1> SUFFICES ASSUME Init
             PROVE  IInv
  OBVIOUS
<1>1. mem \in Memory /\ LinksOK(mem)
  BY Bounds DEF Init, ClearMemory, Memory, LinksOK, NULL_IDX, Pages
<1>2. TypeOK
  BY <1>1, Bounds DEF Init, TypeOK, Loops
<1>3. Placed(mem, lent)
  BY Bounds DEF Init, Placed, Used, ClearMemory
<1>4. \A o \in Orders : 0 % power_of2[o] = 0
  BY Sizes, MultipleIsMod, 0 \in Int
<1>5. InitInv
  BY <1>4, Bounds DEF Init, InitInv, ClearMemory, Aligned
<1> QED
  BY <1>1, <1>2, <1>3, <1>5
  DEF Init, IInv, TransitInv, SplitInv, RegionInv, ReserveInv, MergeInv

LEMMA InitBlockIInv == IInv /\ InitBlock => IInv'
<1> SUFFICES ASSUME IInv, InitBlock
             PROVE  IInv'
  OBVIOUS
<1>1. PICK o \in Orders :
        /\ IsLog2Floor(o, remaining)
        /\ mem' = push_to_list(set_order(mem, cur, o), cur)
        /\ cur' = cur + power_of2[o]
        /\ remaining' = remaining - power_of2[o]
  BY DEF InitBlock
<1>2. /\ pc = "init" /\ remaining > 0
      /\ UNCHANGED <<pc, cur_o, target_o, reg, j, lent, pinned>>
  BY DEF InitBlock
<1>3. /\ power_of2[o] \in Nat \ {0} /\ power_of2[o] <= remaining
      /\ remaining < 2 * power_of2[o]
      /\ cur \in Nat /\ remaining = N - cur /\ cur \in Pages
  BY <1>1, <1>2, Sizes, Bounds DEF IsLog2Floor, IInv, TypeOK, InitInv
<1>4. lent \in Lent /\ Good(mem, lent)
  BY DEF IInv, TypeOK, Lent, Good
<1>5. Fits(cur, o)
  BY <1>2, <1>3, Bounds DEF IInv, InitInv, Fits
<1>6. Clear(mem, lent, cur, o)
  BY <1>2 DEF IInv, InitInv, Clear, Used, Apart
<1> DEFINE m == set_order(mem, cur, o)
<1>7. /\ Good(m, lent) /\ m.order[cur] = o /\ Clear(m, lent, cur, o)
      /\ m.order = [mem.order EXCEPT ![cur] = o] /\ m.free = mem.free
      /\ ~mem.free[cur]
  <2>1. ~Used(mem, lent, cur)
    BY <1>3, <1>4, <1>6, ClearUnused
  <2>2. Good(m, lent) /\ m.order[cur] = o /\ Clear(m, lent, cur, o)
    BY <1>3, <1>4, <1>6, <2>1, MarkBlock
  <2> QED
    BY <2>1, <2>2, <1>3, <1>4, SetOrderLemma DEF Good, Used
<1> HIDE DEF m
<1>8. /\ Good(mem', lent) /\ mem'.order = m.order
      /\ mem'.free = [m.free EXCEPT ![cur] = TRUE]
  <2>1. mem' = push_to_list(m, cur)
    BY <1>1 DEF m
  <2>2. Fits(cur, m.order[cur]) /\ Clear(m, lent, cur, m.order[cur])
    BY <1>5, <1>7
  <2>3. Good(m, lent)
    BY <1>7
  <2> QED
    BY <1>3, <1>4, <2>1, <2>2, <2>3, ListBlock
<1>9. TypeOK'
  BY <1>1, <1>2, <1>3, <1>8, Bounds DEF IInv, TypeOK, Good
<1>10. InitInv'
  <2>1. remaining' = N - cur'
    BY <1>1, <1>3, Bounds
  <2>2. ASSUME NEW a \in Orders, power_of2[a] <= remaining'
        PROVE  Aligned(cur', a)
    <3>1. power_of2[a] \in Nat \ {0} /\ power_of2[a] < power_of2[o]
      BY <1>1, <1>3, <2>2, Sizes
    <3>2. a <= o
      <4>1. CASE o < a
        <5>1. power_of2[a] % power_of2[o] = 0
          BY <4>1, GeometryAssumption DEF Orders
        <5>2. power_of2[a] % power_of2[o] = power_of2[a]
          BY <3>1, <1>3, SMT
        <5> QED
          BY <3>1, <5>1, <5>2
      <4> QED
        BY <4>1 DEF Orders
    <3>3. power_of2[o] % power_of2[a] = 0
      BY <3>2, GeometryAssumption
    <3>4. cur % power_of2[a] = 0
      BY <1>2, <1>3, <3>1 DEF IInv, InitInv, Aligned
    <3>5. (cur + power_of2[o]) % power_of2[a] = 0
      BY <1>3, <3>1, <3>3, <3>4, ModSum
    <3> QED
      BY <1>1, <3>5 DEF Aligned
  <2>3. ASSUME NEW i \in Pages, mem'.free[i]
        PROVE  i + power_of2[mem'.order[i]] <= cur'
    <3>1. mem \in Memory
      BY <1>4 DEF Good
    <3>2. CASE i = cur
      BY <3>1, <3>2, <1>1, <1>7, <1>8 DEF Memory
    <3>3. CASE i # cur
      <4>1. mem.free[i] /\ mem'.order[i] = mem.order[i]
        BY <3>1, <3>3, <2>3, <1>7, <1>8 DEF Memory
      <4>2. i + power_of2[mem.order[i]] <= cur
        BY <4>1, <1>2 DEF IInv, InitInv
      <4>3. power_of2[mem.order[i]] \in Nat /\ i \in Nat
        BY <3>1, Sizes, Bounds DEF Memory
      <4> QED
        BY <1>1, <1>3, <4>1, <4>2, <4>3
    <3> QED
      BY <3>2, <3>3
  <2> QED
    BY <1>2, <2>1, <2>2, <2>3 DEF IInv, InitInv
<1> QED
  BY <1>2, <1>8, <1>9, <1>10
  DEF IInv, Good, TransitInv, SplitInv, RegionInv, ReserveInv, MergeInv

\* Entering a region, or leaving the last, when no block is in transit.
LEMMA EnterRegionIInv ==
  ASSUME IInv, NEW r \in Nat \ {0}, EnterRegion(r), cur' \in 0 .. N,
         UNCHANGED <<mem, cur_o, target_o, lent, pinned>>
  PROVE  IInv'
<1>1. TypeOK' /\ RegionInv'
  <2>1. CASE r \in DOMAIN MemRegs
    BY <2>1, Bounds DEF EnterRegion, IInv, TypeOK, RegionInv, Loops
  <2>2. CASE r \notin DOMAIN MemRegs
    BY <2>2, Bounds DEF EnterRegion, IInv, TypeOK, RegionInv
  <2> QED
    BY <2>1, <2>2
<1>2. pc' \in {"memregs", "ready"}
  BY DEF EnterRegion
<1> QED
  BY <1>1, <1>2 DEF IInv, InitInv, TransitInv, SplitInv, ReserveInv, MergeInv

LEMMA InitDoneIInv == IInv /\ InitDone => IInv'
  BY EnterRegionIInv, Bounds DEF InitDone

LEMMA NextRegionIInv == IInv /\ NextRegion => IInv'
<1> SUFFICES ASSUME IInv, NextRegion
             PROVE  IInv'
  OBVIOUS
<1>1. reg + 1 \in Nat \ {0} /\ cur' \in 0 .. N
  BY DEF NextRegion, IInv, TypeOK
<1> QED
  BY <1>1, EnterRegionIInv DEF NextRegion

LEMMA ReserveFindIInv == IInv /\ ReserveFind => IInv'
<1> SUFFICES ASSUME IInv, ReserveFind
             PROVE  IInv'
  OBVIOUS
<1>1. /\ pc = "memregs" /\ remaining > 0
      /\ UNCHANGED <<reg, j, remaining, lent, pinned>>
  BY DEF ReserveFind
<1>2. PICK o \in Orders :
        /\ IsReserveOrder(o)
        /\ target_o' = o
        /\ \/ pc' = "double reservation" /\ UNCHANGED <<mem, cur, cur_o>>
           \/ \E k \in o .. MAX_ORDER :
                /\ is_free_block(mem, parent_at_order(j, k), k)
                /\ mem' = remove_from_list(mem, parent_at_order(j, k))
                /\ cur' = parent_at_order(j, k) /\ cur_o' = k
                /\ pc' = "reserve"
  BY Zenon DEF ReserveFind
<1>3. lent \in Lent /\ Good(mem, lent)
  BY DEF IInv, TypeOK, Lent, Good
<1>4. CASE pc' = "double reservation" /\ UNCHANGED <<mem, cur, cur_o>>
  BY <1>1, <1>2, <1>4
  DEF IInv, TypeOK, Halted, InitInv, TransitInv, SplitInv, RegionInv, ReserveInv, MergeInv
<1>5. ASSUME NEW k \in o .. MAX_ORDER,
             is_free_block(mem, parent_at_order(j, k), k),
             mem' = remove_from_list(mem, parent_at_order(j, k)),
             cur' = parent_at_order(j, k), cur_o' = k, pc' = "reserve"
      PROVE  IInv'
  <2>1. k \in Orders /\ o <= k /\ j \in Nat /\ j < N
    BY <1>1, Bounds DEF Orders, IInv, TypeOK, RegionInv
  <2>2. /\ cur' \in Nat /\ cur' <= j /\ j < cur' + power_of2[k]
    BY <2>1, <1>5, ParentBlock
  <2>3. cur' \in Pages /\ mem.free[cur'] /\ mem.order[cur'] = k
    BY <2>1, <2>2, <1>5, Bounds DEF is_free_block
  <2>4. Good(mem', lent) /\ Fits(cur', k) /\ Clear(mem', lent, cur', k)
    <3>1. mem' = remove_from_list(mem, cur')
      BY <1>5
    <3>2. /\ Good(mem', lent) /\ Fits(cur', mem.order[cur'])
          /\ Clear(mem', lent, cur', mem.order[cur'])
      BY <1>3, <2>3, <3>1, UnlistBlock
    <3> QED
      BY <2>3, <3>2
  <2>5. TypeOK'
    BY <1>1, <1>2, <1>5, <2>1, <2>3, <2>4, Bounds DEF IInv, TypeOK, Good, Loops
  <2>6. TransitInv' /\ ReserveInv'
    BY <1>1, <1>2, <1>5, <2>1, <2>2, <2>3, <2>4
    DEF TransitInv, ReserveInv, IsReserveOrder
  <2> QED
    BY <1>1, <1>5, <2>4, <2>5, <2>6 DEF IInv, Good, InitInv, SplitInv, RegionInv, MergeInv
<1> QED
  BY <1>2, <1>4, <1>5

\* Of a block in transit one half is listed and the other stays in transit.
LEMMA ListHalf ==
  ASSUME NEW m, NEW l \in Lent, Good(m, l),
         NEW i \in Pages, NEW o \in Orders, NEW a \in Orders, a = o + 1,
         Fits(i, a), Clear(m, l, i, a),
         NEW keep, NEW list,
         \/ keep = i /\ list = i + power_of2[o]
         \/ list = i /\ keep = i + power_of2[o]
  PROVE  /\ keep \in Pages /\ list \in Pages
         /\ Fits(keep, o)
         /\ Good(push_to_list(set_order(m, list, o), list), l)
         /\ Clear(push_to_list(set_order(m, list, o), list), l, keep, o)
         /\ push_to_list(set_order(m, list, o), list).order = [m.order EXCEPT ![list] = o]
<1>1. /\ a # 0 /\ a - 1 = o /\ power_of2[o] \in Nat \ {0}
      /\ power_of2[a] = 2 * power_of2[o]
  <2>1. a # 0 /\ a - 1 = o
    BY DEF Orders
  <2> QED
    BY <2>1, Sizes
<1>2. Aligned(i, o) /\ Aligned(i + power_of2[o], o)
  BY <1>1, SplitBlock DEF Fits
<1>3. i \in Nat /\ i + 2 * power_of2[o] <= N
  BY <1>1, Bounds DEF Fits
<1>4. keep \in Pages /\ list \in Pages /\ keep \in Nat /\ list \in Nat
  BY <1>1, <1>3, Bounds
<1>5. Fits(keep, o) /\ Fits(list, o) /\ Apart(list, o, keep, o)
  BY <1>1, <1>2, <1>3, Bounds DEF Fits, Apart
<1>6. Clear(m, l, keep, o) /\ Clear(m, l, list, o)
  <2> SUFFICES ASSUME NEW k \in Pages, Used(m, l, k)
               PROVE  Apart(k, m.order[k], keep, o) /\ Apart(k, m.order[k], list, o)
    BY DEF Clear
  <2>1. m.order[k] \in Orders /\ k \in Nat
    BY Bounds DEF Good, Memory
  <2>2. power_of2[m.order[k]] \in Nat
    BY <2>1, Sizes
  <2>3. Apart(k, m.order[k], i, a)
    BY DEF Clear
  <2> QED
    BY <1>1, <1>3, <2>1, <2>2, <2>3 DEF Apart
<1> DEFINE m1 == set_order(m, list, o)
<1>7. ~Used(m, l, list)
  BY <1>4, <1>6, ClearUnused
<1>8. /\ Good(m1, l) /\ m1.order[list] = o
      /\ Clear(m1, l, keep, o) /\ Clear(m1, l, list, o)
  BY <1>4, <1>6, <1>7, MarkBlock
<1>9. m1.order = [m.order EXCEPT ![list] = o]
  BY <1>4, <1>7, SetOrderLemma DEF Good, Used
<1> HIDE DEF m1
<1>10. Fits(list, m1.order[list]) /\ Clear(m1, l, list, m1.order[list])
       /\ Apart(list, m1.order[list], keep, o)
  BY <1>5, <1>8
<1>11. /\ Good(push_to_list(m1, list), l)
       /\ Clear(push_to_list(m1, list), l, keep, o)
       /\ push_to_list(m1, list).order = m1.order
  BY <1>4, <1>8, <1>10, ListBlock
<1> QED
  BY <1>4, <1>5, <1>9, <1>11 DEF m1

LEMMA ReserveHalveIInv == IInv /\ ReserveHalve => IInv'
<1> SUFFICES ASSUME IInv, ReserveHalve
             PROVE  IInv'
  OBVIOUS
<1> DEFINE o == cur_o - 1
           right == cur + power_of2[o]
           other == IF j < right THEN right ELSE cur
<1>1. /\ pc = "reserve" /\ pc' = "reserve" /\ cur_o > target_o
      /\ mem' = push_to_list(set_order(mem, other, o), other)
      /\ cur' = (IF j < right THEN cur ELSE right)
      /\ cur_o' = o
      /\ UNCHANGED <<target_o, reg, j, remaining, lent, pinned>>
  BY DEF ReserveHalve, InLeftHalf
<1>2. /\ cur_o \in Orders /\ target_o \in Orders /\ o \in Orders /\ cur_o = o + 1
      /\ power_of2[o] \in Nat \ {0} /\ power_of2[cur_o] = 2 * power_of2[o]
  <2>1. cur_o \in Orders /\ target_o \in Orders
    BY DEF IInv, TypeOK
  <2>2. cur_o # 0 /\ o \in Orders /\ cur_o = o + 1
    BY <1>1, <2>1, Bounds DEF Orders
  <2> QED
    BY <2>1, <2>2, Sizes
<1>3. /\ cur \in Pages /\ cur \in Nat /\ Fits(cur, cur_o) /\ Clear(mem, lent, cur, cur_o)
      /\ target_o <= o
      /\ cur <= j /\ j < cur + power_of2[cur_o] /\ j \in Nat
  BY <1>1, <1>2, Bounds DEF IInv, TransitInv, ReserveInv, TypeOK, Orders
<1>4. lent \in Lent /\ Good(mem, lent)
  BY DEF IInv, TypeOK, Lent, Good
<1>5. \/ cur' = cur /\ other = cur + power_of2[o]
      \/ other = cur /\ cur' = cur + power_of2[o]
  BY <1>1
<1>6. cur' <= j /\ j < cur' + power_of2[o]
  BY <1>1, <1>2, <1>3
<1> HIDE DEF o, other, right
<1>7. /\ cur' \in Pages /\ Fits(cur', o) /\ Good(mem', lent)
      /\ Clear(mem', lent, cur', o)
  <2>1. /\ cur' \in Pages /\ Fits(cur', o)
        /\ Good(push_to_list(set_order(mem, other, o), other), lent)
        /\ Clear(push_to_list(set_order(mem, other, o), other), lent, cur', o)
    <3>1. /\ cur_o \in Orders /\ o \in Orders /\ cur_o = o + 1
          /\ cur \in Pages /\ Fits(cur, cur_o) /\ Clear(mem, lent, cur, cur_o)
          /\ lent \in Lent /\ Good(mem, lent)
      BY <1>2, <1>3, <1>4
    <3>2. CASE cur' = cur /\ other = cur + power_of2[o]
      BY <3>1, <3>2, ListHalf
    <3>3. CASE other = cur /\ cur' = cur + power_of2[o]
      BY <3>1, <3>3, ListHalf
    <3> QED
      BY <1>5, <3>2, <3>3
  <2> QED
    BY <1>1, <2>1
<1>8. TypeOK'
  BY <1>1, <1>2, <1>7, Bounds DEF IInv, TypeOK, Good
<1>9. TransitInv' /\ ReserveInv'
  BY <1>1, <1>2, <1>3, <1>6, <1>7 DEF IInv, TransitInv, ReserveInv
<1> QED
  BY <1>1, <1>7, <1>8, <1>9 DEF IInv, Good, InitInv, SplitInv, RegionInv, MergeInv

\* reserve ends on the run its caller takes.
LEMMA ReserveEnds == IInv => ReservesWhatIsTaken
<1> SUFFICES ASSUME IInv, pc = "reserve", cur_o = target_o
             PROVE  cur = j
  BY DEF ReservesWhatIsTaken
<1>1. /\ cur % power_of2[target_o] = 0 /\ j % power_of2[target_o] = 0
      /\ cur <= j /\ j < cur + power_of2[target_o]
      /\ cur \in Int /\ j \in Int /\ target_o \in Orders
  BY Bounds DEF IInv, TypeOK, TransitInv, ReserveInv, Fits, Aligned
<1> QED
  BY <1>1, Sizes, ModClose

LEMMA ReserveDoneIInv == IInv /\ ReserveDone => IInv'
<1> SUFFICES ASSUME IInv, ReserveDone
             PROVE  IInv'
  OBVIOUS
<1>1. /\ pc = "reserve" /\ pc' = "memregs" /\ cur_o = target_o
      /\ mem' = set_order(mem, cur, target_o)
      /\ lent' = [lent EXCEPT ![j] = target_o]
      /\ pinned' = (IF MemRegs[reg].permanent THEN pinned \cup {j} ELSE pinned)
      /\ remaining' = remaining - power_of2[target_o]
      /\ j' = j + power_of2[target_o]
      /\ cur' = 0 /\ cur_o' = 0 /\ target_o' = 0 /\ reg' = reg
  BY DEF ReserveDone
<1>2. /\ cur = j /\ cur \in Pages /\ target_o \in Orders
      /\ Fits(j, target_o) /\ Clear(mem, lent, j, target_o)
      /\ power_of2[target_o] <= remaining
  BY <1>1, ReserveEnds DEF ReservesWhatIsTaken, IInv, TypeOK, TransitInv, ReserveInv
<1>3. lent \in Lent /\ Good(mem, lent)
  BY DEF IInv, TypeOK, Lent, Good
<1>4. ~Used(mem, lent, j)
  BY <1>2, <1>3, ClearUnused
<1>5. Good(mem', lent) /\ mem'.order[j] = target_o /\ Clear(mem', lent, j, target_o)
  BY <1>1, <1>2, <1>3, <1>4, MarkBlock
<1>6. Good(mem', lent') /\ lent' \in Lent
  BY <1>1, <1>2, <1>3, <1>5, LendBlock
<1>7. power_of2[target_o] \in Nat
  BY <1>2, Sizes
<1>8. TypeOK'
  BY <1>1, <1>2, <1>6, <1>7, Bounds DEF IInv, TypeOK, Good, Lent, Loops
<1>9. RegionInv'
  BY <1>1, <1>2, <1>7, Bounds DEF IInv, TypeOK, RegionInv
<1> QED
  BY <1>1, <1>6, <1>8, <1>9
  DEF IInv, Good, InitInv, TransitInv, SplitInv, ReserveInv, MergeInv

LEMMA MallocPopIInv ==
  ASSUME IInv, NEW o \in Orders, MallocPop(o)
  PROVE  IInv'
<1> DEFINE i == mem.free_lists[o]
<1>1. /\ pc = "ready" /\ i # NULL_IDX
      /\ mem' = remove_from_list(mem, i)
      /\ lent' = [lent EXCEPT ![i] = o]
      /\ UNCHANGED <<pc, cur, cur_o, target_o, reg, j, remaining, pinned>>
  BY DEF MallocPop
<1>2. lent \in Lent /\ Good(mem, lent)
  BY DEF IInv, TypeOK, Lent, Good
<1>3. i \in Pages /\ mem.free[i] /\ mem.order[i] = o
  BY <1>1, <1>2 DEF Good, Memory, LinksOK
<1> HIDE DEF i
<1>4. /\ Good(mem', lent) /\ mem'.order = mem.order /\ Fits(i, mem.order[i])
      /\ Clear(mem', lent, i, mem.order[i])
  BY <1>1, <1>2, <1>3, UnlistBlock
<1>5. Good(mem', lent') /\ lent' \in Lent
  BY <1>1, <1>2, <1>3, <1>4, LendBlock
<1>6. TypeOK'
  BY <1>1, <1>5 DEF IInv, TypeOK, Good, Lent
<1> QED
  BY <1>1, <1>5, <1>6
  DEF IInv, Good, InitInv, TransitInv, SplitInv, RegionInv, ReserveInv, MergeInv

LEMMA MallocSplitIInv ==
  ASSUME IInv, NEW o \in Orders, MallocSplit(o)
  PROVE  IInv'
<1>1. PICK k \in (o + 1) .. MAX_ORDER :
        /\ mem.free_lists[k] # NULL_IDX
        /\ mem' = set_order(remove_from_list(mem, mem.free_lists[k]), mem.free_lists[k], o)
        /\ cur' = mem.free_lists[k] /\ cur_o' = k /\ target_o' = o
  BY DEF MallocSplit
<1>2. /\ pc = "ready" /\ pc' = "split"
      /\ UNCHANGED <<reg, j, remaining, lent, pinned>>
  BY DEF MallocSplit
<1>3. lent \in Lent /\ Good(mem, lent) /\ k \in Orders /\ o <= k /\ o # k
  BY Bounds DEF IInv, TypeOK, Lent, Good, Orders
<1>4. cur' \in Pages /\ mem.free[cur'] /\ mem.order[cur'] = k
  BY <1>1, <1>3 DEF Good, Memory, LinksOK
<1> DEFINE m == remove_from_list(mem, cur')
<1>5. /\ Good(m, lent) /\ Fits(cur', mem.order[cur'])
      /\ Clear(m, lent, cur', mem.order[cur'])
  BY <1>3, <1>4, UnlistBlock
<1>6. mem' = set_order(m, cur', o)
  BY <1>1
<1> HIDE DEF m
<1>7. Fits(cur', k) /\ Clear(m, lent, cur', k) /\ ~Used(m, lent, cur')
  BY <1>3, <1>4, <1>5, ClearUnused
<1>8. Good(mem', lent) /\ Clear(mem', lent, cur', k) /\ mem'.order[cur'] = o
  BY <1>3, <1>4, <1>5, <1>6, <1>7, MarkBlock
<1>9. TypeOK'
  BY <1>1, <1>2, <1>3, <1>4, <1>8, Bounds DEF IInv, TypeOK, Good, Loops
<1>10. TransitInv' /\ SplitInv'
  BY <1>1, <1>2, <1>3, <1>4, <1>7, <1>8 DEF TransitInv, SplitInv
<1> QED
  BY <1>2, <1>8, <1>9, <1>10 DEF IInv, Good, InitInv, RegionInv, ReserveInv, MergeInv

LEMMA MallocPanicIInv ==
  ASSUME IInv, NEW o \in Orders, MallocPanic(o)
  PROVE  IInv'
  BY DEF MallocPanic, IInv, TypeOK, Halted,
         InitInv, TransitInv, SplitInv, RegionInv, ReserveInv, MergeInv

LEMMA SplitStepIInv == IInv /\ SplitStep => IInv'
<1> SUFFICES ASSUME IInv, SplitStep
             PROVE  IInv'
  OBVIOUS
<1> DEFINE o == cur_o - 1
           b == buddy_of(cur, o)
<1>1. /\ pc = "split" /\ pc' = "split" /\ cur_o > target_o
      /\ mem' = push_to_list(set_order(mem, b, o), b)
      /\ cur_o' = o
      /\ UNCHANGED <<cur, target_o, reg, j, remaining, lent, pinned>>
  BY DEF SplitStep
<1>2. /\ cur_o \in Orders /\ target_o \in Orders /\ o \in Orders /\ cur_o = o + 1
      /\ cur_o # 0 /\ target_o <= o
  BY <1>1, Bounds DEF IInv, TypeOK, Orders
<1>3. /\ cur \in Pages /\ Fits(cur, cur_o) /\ Clear(mem, lent, cur, cur_o)
  BY <1>1 DEF IInv, TransitInv
<1>4. lent \in Lent /\ Good(mem, lent)
  BY DEF IInv, TypeOK, Lent, Good
<1>5. b = cur + power_of2[o]
  BY <1>2, <1>3, SplitBlock DEF Fits
<1> HIDE DEF o, b
<1>6. /\ Fits(cur, o) /\ Good(mem', lent) /\ Clear(mem', lent, cur, o)
      /\ mem'.order = [mem.order EXCEPT ![b] = o] /\ b \in Pages
  <2>1. /\ Fits(cur, o) /\ b \in Pages
        /\ Good(push_to_list(set_order(mem, b, o), b), lent)
        /\ Clear(push_to_list(set_order(mem, b, o), b), lent, cur, o)
        /\ push_to_list(set_order(mem, b, o), b).order = [mem.order EXCEPT ![b] = o]
    BY <1>2, <1>3, <1>4, <1>5, ListHalf
  <2> QED
    BY <1>1, <2>1
<1>7. TypeOK'
  BY <1>1, <1>2, <1>6 DEF IInv, TypeOK, Good
<1>8. TransitInv'
  BY <1>1, <1>2, <1>3, <1>6 DEF TransitInv
<1>9. SplitInv'
  <2>1. mem.order[cur] = target_o
    BY <1>1 DEF IInv, SplitInv
  <2>2. power_of2[o] \in Nat \ {0} /\ cur \in Nat
    BY <1>2, <1>3, Sizes, Bounds
  <2>3. b # cur
    BY <1>5, <2>2
  <2> QED
    BY <1>1, <1>3, <1>4, <1>6, <2>1, <2>3 DEF SplitInv, Good, Memory
<1> QED
  BY <1>1, <1>6, <1>7, <1>8, <1>9 DEF IInv, Good, InitInv, RegionInv, ReserveInv, MergeInv

LEMMA SplitDoneIInv == IInv /\ SplitDone => IInv'
<1> SUFFICES ASSUME IInv, SplitDone
             PROVE  IInv'
  OBVIOUS
<1>1. /\ pc = "split" /\ pc' = "ready" /\ cur_o = target_o
      /\ lent' = [lent EXCEPT ![cur] = target_o]
      /\ cur' = 0 /\ cur_o' = 0 /\ target_o' = 0
      /\ UNCHANGED <<mem, reg, j, remaining, pinned>>
  BY DEF SplitDone
<1>2. /\ cur \in Pages /\ target_o \in Orders /\ Fits(cur, target_o)
      /\ Clear(mem, lent, cur, target_o) /\ mem.order[cur] = target_o
  BY <1>1 DEF IInv, TypeOK, TransitInv, SplitInv
<1>3. lent \in Lent /\ Good(mem, lent)
  BY DEF IInv, TypeOK, Lent, Good
<1>4. Good(mem', lent') /\ lent' \in Lent
  BY <1>1, <1>2, <1>3, LendBlock
<1>5. TypeOK'
  BY <1>1, <1>4, Bounds DEF IInv, TypeOK, Good, Lent
<1> QED
  BY <1>1, <1>4, <1>5
  DEF IInv, Good, InitInv, TransitInv, SplitInv, RegionInv, ReserveInv, MergeInv

\* A block given back is clear.
LEMMA TakeBackBlock ==
  ASSUME NEW m, NEW l \in Lent, Good(m, l), NEW i \in Pages, l[i] # NotLent
  PROVE  /\ [l EXCEPT ![i] = NotLent] \in Lent
         /\ Good(m, [l EXCEPT ![i] = NotLent])
         /\ ~m.free[i] /\ Fits(i, m.order[i])
         /\ Clear(m, [l EXCEPT ![i] = NotLent], i, m.order[i])
<1> DEFINE t == [l EXCEPT ![i] = NotLent]
<1>1. t \in Lent /\ t[i] = NotLent /\ \A k \in Pages : k # i => t[k] = l[k]
  BY DEF Lent
<1>2. ~m.free[i] /\ Fits(i, m.order[i])
  BY DEF Good, Placed, Used
<1> HIDE DEF t
<1>3. \A k \in Pages : Used(m, t, k) => Used(m, l, k) /\ k # i
  BY <1>1, <1>2 DEF Used
<1>4. Placed(m, t) /\ Clear(m, t, i, m.order[i])
  BY <1>1, <1>2, <1>3 DEF Good, Placed, Clear, Used
<1> QED
  BY <1>1, <1>2, <1>4 DEF Good, t

LEMMA FreeIInv ==
  ASSUME IInv, NEW i \in Pages, Free(i)
  PROVE  IInv'
<1>1. /\ pc = "ready" /\ lent[i] # NotLent
      /\ lent' = [lent EXCEPT ![i] = NotLent]
      /\ UNCHANGED <<cur_o, target_o, reg, j, remaining, pinned>>
  BY DEF Free
<1>2. lent \in Lent /\ Good(mem, lent)
  BY DEF IInv, TypeOK, Lent, Good
<1>3. /\ lent' \in Lent /\ Good(mem, lent') /\ ~mem.free[i]
      /\ Fits(i, mem.order[i]) /\ Clear(mem, lent', i, mem.order[i])
  BY <1>1, <1>2, TakeBackBlock
<1>4. pc' = "merge" /\ mem' = push_to_list(mem, i) /\ cur' = i
  BY <1>3 DEF Free
<1>5. Good(mem', lent') /\ mem'.free = [mem.free EXCEPT ![i] = TRUE]
  BY <1>3, <1>4, ListBlock
<1>6. mem'.free[i]
  BY <1>2, <1>5 DEF Good, Memory
<1>7. TypeOK'
  BY <1>1, <1>3, <1>4, <1>5, Bounds DEF IInv, TypeOK, Good, Lent, Loops
<1> QED
  BY <1>1, <1>4, <1>5, <1>6, <1>7
  DEF IInv, Good, InitInv, TransitInv, SplitInv, RegionInv, ReserveInv, MergeInv

LEMMA MergeStepIInv == IInv /\ MergeStep => IInv'
<1> SUFFICES ASSUME IInv, MergeStep
             PROVE  IInv'
  OBVIOUS
<1> DEFINE o == mem.order[cur]
           b == buddy_of(cur, o)
           left == IF cur < b THEN cur ELSE b
           m1 == remove_from_list(mem, cur)
           m2 == remove_from_list(m1, b)
           m3 == set_order(m2, left, o + 1)
<1>1. /\ pc = "merge" /\ pc' = "merge"
      /\ o # MAX_ORDER /\ b \in Pages /\ is_free_block(mem, b, o)
      /\ mem' = push_to_list(m3, left)
      /\ cur' = left
      /\ UNCHANGED <<cur_o, target_o, reg, j, remaining, lent, pinned>>
  BY DEF MergeStep, MergesWith
<1>2. lent \in Lent /\ Good(mem, lent)
  BY DEF IInv, TypeOK, Lent, Good
<1>3. cur \in Pages /\ mem.free[cur] /\ mem.free[b] /\ mem.order[b] = o /\ o \in Orders
  BY <1>1, <1>2 DEF IInv, MergeInv, is_free_block, Good, Memory
<1>4. /\ Good(m1, lent) /\ m1.order = mem.order
      /\ m1.free = [mem.free EXCEPT ![cur] = FALSE]
      /\ Fits(cur, o) /\ Clear(m1, lent, cur, o)
  BY <1>2, <1>3, UnlistBlock
<1>5. /\ o + 1 \in Orders /\ power_of2[o + 1] = 2 * power_of2[o]
      /\ power_of2[o] \in Nat \ {0}
  BY <1>1, <1>3, Sizes
<1>6. \/ left = cur /\ b = cur + power_of2[o] /\ Aligned(left, o + 1)
      \/ left = b /\ cur = b + power_of2[o] /\ Aligned(left, o + 1)
  <2>1. /\ b \in Nat
        /\ \/ b = cur + power_of2[o] /\ Aligned(cur, o + 1)
           \/ cur = b + power_of2[o] /\ Aligned(b, o + 1)
    BY <1>1, <1>3, <1>4, MergeBlock DEF Fits
  <2> QED
    BY <1>3, <1>5, <2>1, Bounds
<1> HIDE DEF o, b, left, m1, m2, m3
<1>7. /\ b # cur /\ m1.free[b] /\ m1.order[b] = o /\ left \in Pages
      /\ cur \in Nat /\ b \in Nat
  BY <1>1, <1>2, <1>3, <1>4, <1>5, <1>6, Bounds DEF Good, Memory
<1>8. /\ Good(m2, lent) /\ m2.order = m1.order
      /\ Fits(b, o) /\ Clear(m2, lent, b, o) /\ Clear(m2, lent, cur, o)
  <2>1. Clear(m1, lent, cur, o) /\ m1.free[b] /\ Good(m1, lent) /\ b \in Pages
    BY <1>1, <1>4, <1>7
  <2>2. /\ Good(m2, lent) /\ m2.order = m1.order
        /\ Fits(b, m1.order[b]) /\ Clear(m2, lent, b, m1.order[b])
        /\ \A k \in Pages, a \in Orders : Clear(m1, lent, k, a) => Clear(m2, lent, k, a)
    BY <1>2, <2>1, UnlistBlock DEF m2
  <2> QED
    BY <1>3, <1>7, <2>1, <2>2
<1>9. Fits(left, o + 1)
  BY <1>4, <1>5, <1>6, <1>7, <1>8, Bounds DEF Fits
<1>10. Clear(m2, lent, left, o + 1)
  <2> SUFFICES ASSUME NEW k \in Pages, Used(m2, lent, k)
               PROVE  Apart(k, m2.order[k], left, o + 1)
    BY DEF Clear
  <2>1. m2.order[k] \in Orders /\ k \in Nat
    BY <1>8, Bounds DEF Good, Memory
  <2>2. power_of2[m2.order[k]] \in Nat \ {0}
    BY <2>1, Sizes
  <2>3. Apart(k, m2.order[k], cur, o) /\ Apart(k, m2.order[k], b, o)
    BY <1>8 DEF Clear
  <2>4. k # left
    <3>1. ~Used(m2, lent, cur) /\ ~Used(m2, lent, b)
      BY <1>1, <1>2, <1>3, <1>8, ClearUnused
    <3> QED
      BY <3>1, <1>6
  <2>5. \/ k + power_of2[m2.order[k]] <= left
        \/ left + 2 * power_of2[o] <= k
        \/ left + power_of2[o] <= k /\ k + power_of2[m2.order[k]] <= left + power_of2[o]
    BY <1>5, <1>6, <1>7, <2>1, <2>2, <2>3 DEF Apart
  <2> QED
    BY <1>5, <1>7, <2>1, <2>2, <2>5, Bounds DEF Apart
<1>11. ~Used(m2, lent, left)
  BY <1>2, <1>5, <1>7, <1>8, <1>10, ClearUnused
<1>12. Good(m3, lent) /\ m3.order[left] = o + 1 /\ Clear(m3, lent, left, o + 1)
  BY <1>2, <1>5, <1>7, <1>8, <1>10, <1>11, MarkBlock DEF m3
<1>13. Fits(left, m3.order[left]) /\ Clear(m3, lent, left, m3.order[left])
  BY <1>9, <1>12
<1>14. Good(mem', lent) /\ mem'.free = [m3.free EXCEPT ![left] = TRUE]
  BY <1>1, <1>2, <1>7, <1>12, <1>13, ListBlock
<1>15. mem'.free[left]
  BY <1>7, <1>12, <1>14 DEF Good, Memory
<1>16. TypeOK'
  BY <1>1, <1>7, <1>14, Bounds DEF IInv, TypeOK, Good
<1> QED
  BY <1>1, <1>7, <1>14, <1>15, <1>16
  DEF IInv, Good, InitInv, TransitInv, SplitInv, RegionInv, ReserveInv, MergeInv

LEMMA MergeEndIInv == IInv /\ (MergeDone \/ MergeBadNode) => IInv'
<1> SUFFICES ASSUME IInv, MergeDone \/ MergeBadNode
             PROVE  IInv'
  OBVIOUS
<1>1. /\ pc' \in {"ready", "bad node"} /\ cur' \in {cur, 0}
      /\ UNCHANGED <<mem, cur_o, target_o, reg, j, remaining, lent, pinned>>
  BY DEF MergeDone, MergesWith, MergeBadNode
<1>2. pc' \in Loops \cup Halted \cup {"ready"} /\ cur' \in 0 .. N
  <2>1. pc' \in Halted \cup {"ready"}
    BY <1>1 DEF Halted
  <2>2. cur \in 0 .. N /\ 0 \in 0 .. N
    BY Bounds DEF IInv, TypeOK
  <2> QED
    BY <1>1, <2>1, <2>2
<1>3. TypeOK'
  BY <1>1, <1>2 DEF IInv, TypeOK
<1> QED
  BY <1>1, <1>3
  DEF IInv, InitInv, TransitInv, SplitInv, RegionInv, ReserveInv, MergeInv

\* Every step preserves the invariant.
LEMMA NextIInv == IInv /\ [Next]_vars => IInv'
<1> SUFFICES ASSUME IInv, [Next]_vars
             PROVE  IInv'
  OBVIOUS
<1>1. CASE Step
  BY <1>1, InitBlockIInv, InitDoneIInv, NextRegionIInv, ReserveFindIInv,
     ReserveHalveIInv, ReserveDoneIInv, SplitStepIInv, SplitDoneIInv,
     MergeStepIInv, MergeEndIInv DEF Step
<1>2. CASE Malloc
  BY <1>2, MallocPopIInv, MallocSplitIInv, MallocPanicIInv DEF Malloc
<1>3. CASE \E i \in Pages : Free(i)
  BY <1>3, FreeIInv
<1>4. CASE UNCHANGED vars
  BY <1>4 DEF vars, IInv, TypeOK, Placed, Used, InitInv, TransitInv, Clear, SplitInv,
     RegionInv, ReserveInv, MergeInv
<1> QED
  BY <1>1, <1>2, <1>3, <1>4 DEF Next, Hang

-----------------------------------------------------------------------------
(* The theorems. *)

THEOREM Invariance == Spec => []IInv
  BY InitIInv, NextIInv, PTL DEF Spec

\* The memory, the locals of the loops and the tables keep their types, for
\* every number of pages: in particular every index pushed, removed or
\* lent by any operation is a page.
THEOREM TypeCorrect == Spec => []TypeOK
<1>1. IInv => TypeOK
  BY DEF IInv
<1> QED
  BY <1>1, Invariance, PTL

\* The free lists stay consistent doubly linked lists: the assertions of
\* push_to_list and remove_from_list never fail.
THEOREM LinksAlwaysConsistent == Spec => []LinksConsistent
<1>1. IInv => LinksConsistent
  BY DEF IInv, LinksConsistent
<1> QED
  BY <1>1, Invariance, PTL

\* The pages of two runs that are apart are disjoint.
LEMMA ApartDisjoint ==
  ASSUME NEW i \in Pages, NEW a \in Orders, NEW k \in Pages, NEW b \in Orders,
         Apart(i, a, k, b)
  PROVE  Block(i, a) \cap Block(k, b) = {}
<1>1. power_of2[a] \in Nat /\ power_of2[b] \in Nat /\ i \in Nat /\ k \in Nat
  BY Sizes, Bounds
<1> QED
  BY <1>1 DEF Apart, Block

\* A page is never in two blocks: neither lent twice, nor lent while it is
\* free, nor in two free blocks, at any step of any operation.
THEOREM NoPageInTwoBlocks == Spec => []BlocksDisjoint
<1>1. ASSUME IInv
      PROVE  BlocksDisjoint
  <2>1. lent \in Lent /\ Good(mem, lent)
    BY <1>1 DEF IInv, TypeOK, Lent, Good
  <2>2. ASSUME NEW x \in FreeBlocks \cup LentBlocks
        PROVE  \E i \in Pages : x = <<i, mem.order[i]>> /\ Used(mem, lent, i)
    BY <2>1, <2>2 DEF FreeBlocks, LentBlocks, Used, Good, Placed
  <2>3. ASSUME NEW x \in AllBlocks
        PROVE  \E i \in Pages, o \in Orders : x = <<i, o>> /\ Fits(i, o)
    <3>1. CASE x \in FreeBlocks \cup LentBlocks
      BY <3>1, <2>1, <2>2 DEF Good, Placed, Memory
    <3>2. CASE x \in InTransit
      <4>1. pc \in {"reserve", "split"} /\ x = <<cur, cur_o>>
        BY <3>2 DEF InTransit
      <4> QED
        BY <1>1, <4>1 DEF IInv, TypeOK, TransitInv
    <3> QED
      BY <2>3, <3>1, <3>2 DEF AllBlocks
  <2>4. ASSUME NEW x \in AllBlocks, NEW y \in AllBlocks, x # y
        PROVE  \E i, k \in Pages, a, b \in Orders :
                  x = <<i, a>> /\ y = <<k, b>> /\ Apart(i, a, k, b)
    <3>1. CASE x \in FreeBlocks \cup LentBlocks /\ y \in FreeBlocks \cup LentBlocks
      <4>1. PICK i \in Pages : x = <<i, mem.order[i]>> /\ Used(mem, lent, i)
        BY <3>1, <2>2
      <4>2. PICK k \in Pages : y = <<k, mem.order[k]>> /\ Used(mem, lent, k)
        BY <3>1, <2>2
      <4>3. i # k
        BY <2>4, <4>1, <4>2
      <4>4. Apart(i, mem.order[i], k, mem.order[k])
        BY <2>1, <4>1, <4>2, <4>3 DEF Good, Placed
      <4>5. mem.order[i] \in Orders /\ mem.order[k] \in Orders
        BY <2>1 DEF Good, Memory
      <4> QED
        BY <4>1, <4>2, <4>4, <4>5
    <3>2. ASSUME NEW u \in FreeBlocks \cup LentBlocks, NEW v \in InTransit
          PROVE  \E i, k \in Pages, a, b \in Orders :
                    u = <<i, a>> /\ v = <<k, b>> /\ Apart(i, a, k, b) /\ Apart(k, b, i, a)
      <4>1. PICK i \in Pages : u = <<i, mem.order[i]>> /\ Used(mem, lent, i)
        BY <3>2, <2>2
      <4>2. pc \in {"reserve", "split"} /\ v = <<cur, cur_o>>
        BY <3>2 DEF InTransit
      <4>3. cur \in Pages /\ cur_o \in Orders /\ Apart(i, mem.order[i], cur, cur_o)
        BY <1>1, <4>1, <4>2 DEF IInv, TypeOK, TransitInv, Clear
      <4>4. mem.order[i] \in Orders
        BY <2>1 DEF Good, Memory
      <4>5. Apart(cur, cur_o, i, mem.order[i])
        BY <4>3 DEF Apart
      <4> QED
        BY <4>1, <4>2, <4>3, <4>4, <4>5
    <3>3. ASSUME NEW u \in InTransit, NEW v \in InTransit
          PROVE  u = v
      BY <3>3 DEF InTransit
    <3>4. CASE x \in FreeBlocks \cup LentBlocks /\ y \in InTransit
      BY <3>2, <3>4
    <3>5. CASE x \in InTransit /\ y \in FreeBlocks \cup LentBlocks
      BY <3>2, <3>5
    <3> QED
      BY <2>4, <3>1, <3>3, <3>4, <3>5 DEF AllBlocks
  <2>5. \A x \in AllBlocks : Aligned(x[1], x[2]) /\ Block(x[1], x[2]) \subseteq Pages
    <3> SUFFICES ASSUME NEW x \in AllBlocks
                 PROVE  Aligned(x[1], x[2]) /\ Block(x[1], x[2]) \subseteq Pages
      OBVIOUS
    <3>1. PICK i \in Pages, o \in Orders : x = <<i, o>> /\ Fits(i, o)
      BY <2>3
    <3>2. power_of2[o] \in Nat /\ i \in Nat
      BY Sizes, Bounds
    <3> QED
      BY <3>1, <3>2, Bounds DEF Fits, Block, Pages
  <2>6. \A x, y \in AllBlocks : x # y => Block(x[1], x[2]) \cap Block(y[1], y[2]) = {}
    BY <2>4, ApartDisjoint
  <2> QED
    BY <2>5, <2>6 DEF BlocksDisjoint
<1> QED
  BY <1>1, Invariance, PTL

\* A lent block keeps in its node the order it was lent at, whatever is split
\* or merged around it.
THEOREM LentOrderKept == Spec => []NodeKeepsOrder
<1>1. IInv => NodeKeepsOrder
  BY DEF IInv, Placed, NodeKeepsOrder
<1> QED
  BY <1>1, Invariance, PTL

\* A reservation marks exactly the run the caller asked for.
THEOREM ReservationExact == Spec => []ReservesWhatIsTaken
  BY ReserveEnds, Invariance, PTL

\* Whatever is allocated, freed or reserved, blocks do not overlap and are
\* known by their order.
THEOREM BlocksAlwaysSound == Spec => []BlocksSound
  BY NoPageInTwoBlocks, LentOrderKept, ReservationExact, PTL DEF BlocksSound

\* The runs of the ledger are the blocks of the allocator.
LEMMA RunIsBlock == \A i, o : Ledger!Run(i, o) = Block(i, o)
  BY DEF Ledger!Run, Block

\* A step that lends the block (i, o) while no block meets it is a step of
\* the ledger.
LEMMA LendIsLedgerStep ==
  ASSUME NEW m, lent \in Lent, Good(m, lent), NEW i \in Pages, NEW o \in Orders,
         Fits(i, o), Clear(m, lent, i, o), lent' = [lent EXCEPT ![i] = o]
  PROVE  Ledger!Next
<1>1. i % power_of2[o] = 0
  BY DEF Fits, Aligned
<1>2. Ledger!Run(i, o) \subseteq Ledger!Pages
  <2>1. power_of2[o] \in Nat /\ i \in Nat /\ i + power_of2[o] <= N
    BY Sizes, Bounds DEF Fits
  <2> QED
    BY <2>1, Bounds DEF Ledger!Run, Ledger!Pages
<1>3. ASSUME NEW k \in Ledger!Pages, lent[k] # Ledger!NotLent
      PROVE  Ledger!Run(k, lent[k]) \cap Ledger!Run(i, o) = {}
  <2>1. k \in Pages /\ lent[k] # NotLent
    BY <1>3 DEF Ledger!Pages, Pages, Ledger!NotLent, NotLent
  <2>2. lent[k] \in Orders /\ m.order[k] = lent[k]
    BY <2>1 DEF Lent, Good, Placed
  <2>3. Apart(k, lent[k], i, o)
    BY <2>1, <2>2 DEF Clear, Used
  <2> QED
    BY <2>1, <2>2, <2>3, ApartDisjoint, RunIsBlock
<1>4. Ledger!Lend(i, o)
  BY <1>1, <1>2, <1>3 DEF Ledger!Lend
<1> QED
  BY <1>4 DEF Ledger!Next, Ledger!Pages, Ledger!Orders, Pages, Orders

\* The allocator implements the ledger: what it lends is aligned, inside
\* memory and disjoint from all that is lent, and comes back whole.
THEOREM ImplementsLedger == Spec => LedgerSpec
<1>1. Init => Ledger!Init
  BY DEF Init, Ledger!Init, Pages, Ledger!Pages, NotLent, Ledger!NotLent
<1>2. ASSUME IInv, [Next]_vars
      PROVE  [Ledger!Next]_lent
  <2>1. lent \in Lent /\ Good(mem, lent)
    BY <1>2 DEF IInv, TypeOK, Lent, Good
  <2>2. CASE ReserveDone
    <3>1. /\ lent' = [lent EXCEPT ![cur] = target_o]
          /\ cur \in Pages /\ target_o \in Orders
          /\ Fits(cur, target_o) /\ Clear(mem, lent, cur, target_o)
      BY <1>2, <2>2, ReserveEnds
      DEF ReserveDone, ReservesWhatIsTaken, IInv, TypeOK, TransitInv
    <3> QED
      BY <2>1, <3>1, LendIsLedgerStep
  <2>3. CASE SplitDone
    <3>1. /\ lent' = [lent EXCEPT ![cur] = target_o]
          /\ cur \in Pages /\ target_o \in Orders
          /\ Fits(cur, target_o) /\ Clear(mem, lent, cur, target_o)
      BY <1>2, <2>3 DEF SplitDone, IInv, TypeOK, TransitInv
    <3> QED
      BY <2>1, <3>1, LendIsLedgerStep
  <2>4. ASSUME NEW o \in Orders, MallocPop(o)
        PROVE  Ledger!Next
    <3> DEFINE i == mem.free_lists[o]
               m == remove_from_list(mem, i)
    <3>1. i \in Pages /\ mem.free[i] /\ mem.order[i] = o
      BY <2>1, <2>4 DEF MallocPop, Good, Memory, LinksOK
    <3>2. lent' = [lent EXCEPT ![i] = o]
      BY <2>4 DEF MallocPop
    <3> HIDE DEF i, m
    <3>3. Good(m, lent) /\ Fits(i, mem.order[i]) /\ Clear(m, lent, i, mem.order[i])
      BY <2>1, <3>1, UnlistBlock DEF m
    <3>4. Fits(i, o) /\ Clear(m, lent, i, o)
      BY <3>1, <3>3
    <3> QED
      BY <2>1, <3>1, <3>2, <3>3, <3>4, LendIsLedgerStep
  <2>5. ASSUME NEW i \in Pages, Free(i)
        PROVE  Ledger!Next
    <3>1. Ledger!TakeBack(i)
      BY <2>5 DEF Free, Ledger!TakeBack, NotLent, Ledger!NotLent
    <3> QED
      BY <3>1 DEF Ledger!Next, Pages, Ledger!Pages
  <2>6. CASE UNCHANGED lent
    BY <2>6
  <2>7. CASE Step
    BY <2>2, <2>3, <2>6, <2>7
    DEF Step, InitBlock, InitDone, NextRegion, ReserveFind, ReserveHalve,
        SplitStep, MergeStep, MergeDone, MergeBadNode
  <2>8. CASE Malloc
    BY <2>4, <2>6, <2>8 DEF Malloc, MallocSplit, MallocPanic
  <2> QED
    BY <1>2, <2>5, <2>6, <2>7, <2>8 DEF Next, Hang, vars
<1> QED
  BY <1>1, <1>2, Invariance, PTL DEF Spec, LedgerSpec, Ledger!Spec

-----------------------------------------------------------------------------
(* No page is lost. *)

InRun(i, o, p) == i <= p /\ p < i + power_of2[o]

\* Page p is in a block, free or lent.
Covered(m, l, p) == \E i \in Pages : Used(m, l, i) /\ InRun(i, m.order[i], p)

\* Every page is in a block, in the block in transit, or not yet listed.
CoverInv ==
  \A p \in Pages :
    \/ Covered(mem, lent, p)
    \/ pc = "init" /\ cur <= p
    \/ pc \in {"reserve", "split"} /\ InRun(cur, cur_o, p)

\* Marking a node at which no block starts uncovers nothing.
LEMMA MarkCover ==
  ASSUME NEW m \in Memory, NEW l, NEW i \in Pages, NEW o \in Orders,
         ~Used(m, l, i), NEW p, Covered(m, l, p)
  PROVE  Covered(set_order(m, i, o), l, p)
<1> DEFINE q == set_order(m, i, o)
<1>1. q.free = m.free /\ q.order = [m.order EXCEPT ![i] = o]
  BY DEF set_order, Memory
<1>2. \A k \in Pages : k # i => q.order[k] = m.order[k]
  BY <1>1 DEF Memory
<1> HIDE DEF q
<1> QED
  BY <1>1, <1>2 DEF Covered, Used, q

\* A block listed is covered.
LEMMA PushCover ==
  ASSUME NEW m \in Memory, NEW l, NEW i \in Pages, NEW p,
         Covered(m, l, p) \/ InRun(i, m.order[i], p)
  PROVE  Covered(push_to_list(m, i), l, p)
<1> DEFINE q == push_to_list(m, i)
<1>1. q.free = [m.free EXCEPT ![i] = TRUE] /\ q.order = m.order
  BY DEF push_to_list
<1>2. q.free[i] /\ \A k \in Pages : m.free[k] => q.free[k]
  BY <1>1 DEF Memory
<1> HIDE DEF q
<1> QED
  BY <1>1, <1>2 DEF Covered, Used, q

\* Taking a block off its list uncovers its run only.
LEMMA RemoveCover ==
  ASSUME NEW m \in Memory, NEW l, NEW i \in Pages, NEW p, Covered(m, l, p)
  PROVE  Covered(remove_from_list(m, i), l, p) \/ InRun(i, m.order[i], p)
<1> DEFINE q == remove_from_list(m, i)
<1>1. q.free = [m.free EXCEPT ![i] = FALSE] /\ q.order = m.order
  BY DEF remove_from_list
<1>2. \A k \in Pages : k # i => q.free[k] = m.free[k]
  BY <1>1 DEF Memory
<1> HIDE DEF q
<1> QED
  BY <1>1, <1>2 DEF Covered, Used, q

\* A block lent is covered.
LEMMA LendCover ==
  ASSUME NEW m, NEW l \in Lent, NEW i \in Pages, NEW o \in Orders, NEW p,
         Covered(m, l, p) \/ InRun(i, m.order[i], p)
  PROVE  Covered(m, [l EXCEPT ![i] = o], p)
<1> DEFINE t == [l EXCEPT ![i] = o]
<1>1. t[i] # NotLent /\ \A k \in Pages : k # i => t[k] = l[k]
  BY Bounds DEF Lent
<1> HIDE DEF t
<1> QED
  BY <1>1 DEF Covered, Used, t

\* Taking back a block uncovers its run only.
LEMMA ReturnCover ==
  ASSUME NEW m, NEW l \in Lent, NEW i \in Pages, NEW p, Covered(m, l, p)
  PROVE  Covered(m, [l EXCEPT ![i] = NotLent], p) \/ InRun(i, m.order[i], p)
<1> DEFINE t == [l EXCEPT ![i] = NotLent]
<1>1. \A k \in Pages : k # i => t[k] = l[k]
  BY DEF Lent
<1> HIDE DEF t
<1> QED
  BY <1>1 DEF Covered, Used, t

\* The pages of a block are those of its two halves.
LEMMA HalvesRun ==
  ASSUME NEW o \in Orders, NEW a \in Orders, a = o + 1, NEW i \in Nat, NEW p \in Nat
  PROVE  InRun(i, a, p) <=> InRun(i, o, p) \/ InRun(i + power_of2[o], o, p)
<1>1. power_of2[a] = 2 * power_of2[o] /\ power_of2[o] \in Nat
  <2>1. a # 0 /\ a - 1 = o
    BY DEF Orders
  <2> QED
    BY <2>1, Sizes
<1> QED
  BY <1>1 DEF InRun

\* At neither half of a block in transit does a block start.
LEMMA HalfUnused ==
  ASSUME NEW m, NEW l \in Lent, Good(m, l),
         NEW i \in Pages, NEW o \in Orders, NEW a \in Orders, a = o + 1,
         Fits(i, a), Clear(m, l, i, a),
         NEW half, half = i \/ half = i + power_of2[o]
  PROVE  half \in Pages /\ ~Used(m, l, half) /\ ~m.free[half]
<1>1. /\ power_of2[a] = 2 * power_of2[o] /\ power_of2[o] \in Nat \ {0} /\ i \in Nat
      /\ i + power_of2[a] <= N
  <2>1. a # 0 /\ a - 1 = o
    BY DEF Orders
  <2> QED
    BY <2>1, Sizes, Bounds DEF Fits
<1>2. half \in Pages /\ half \in Nat
  BY <1>1, Bounds
<1>3. ~Apart(half, m.order[half], i, a)
  <2>1. power_of2[m.order[half]] \in Nat \ {0}
    BY <1>2, Sizes DEF Good, Memory
  <2> QED
    BY <1>1, <1>2, <2>1 DEF Apart
<1> QED
  BY <1>2, <1>3 DEF Clear, Used

\* Listing one half of a block in transit keeps its pages covered.
LEMMA ListHalfCover ==
  ASSUME NEW m, NEW l \in Lent, Good(m, l),
         NEW i \in Pages, NEW o \in Orders, NEW a \in Orders, a = o + 1,
         Fits(i, a), Clear(m, l, i, a),
         NEW keep, NEW list,
         \/ keep = i /\ list = i + power_of2[o]
         \/ list = i /\ keep = i + power_of2[o],
         NEW p \in Nat, Covered(m, l, p) \/ InRun(i, a, p)
  PROVE  \/ Covered(push_to_list(set_order(m, list, o), list), l, p)
         \/ InRun(keep, o, p)
<1> DEFINE m1 == set_order(m, list, o)
           q == push_to_list(m1, list)
<1>1. list \in Pages
  <2>1. CASE keep = i /\ list = i + power_of2[o]
    BY <2>1, ListHalf
  <2>2. CASE list = i /\ keep = i + power_of2[o]
    BY <2>2
  <2> QED
    BY <2>1, <2>2
<1>2. m \in Memory /\ i \in Nat /\ power_of2[a] \in Nat /\ power_of2[o] \in Nat \ {0}
      /\ power_of2[a] = 2 * power_of2[o]
  <2>1. a # 0 /\ a - 1 = o
    BY DEF Orders
  <2> QED
    BY <2>1, Sizes, Bounds DEF Good
<1>3. ~Used(m, l, list)
  BY HalfUnused
<1>4. m1 \in Memory /\ m1.order[list] = o
  BY <1>1, <1>2 DEF Memory, set_order
<1>5. Covered(m, l, p) => Covered(m1, l, p)
  BY <1>1, <1>2, <1>3, MarkCover
<1>6. Covered(m1, l, p) \/ InRun(list, o, p) => Covered(q, l, p)
  <2> HIDE DEF m1
  <2>1. Covered(m1, l, p) \/ InRun(list, m1.order[list], p) => Covered(q, l, p)
    BY <1>1, <1>4, PushCover
  <2> QED
    BY <1>4, <2>1
<1>7. InRun(i, a, p) => InRun(list, o, p) \/ InRun(keep, o, p)
  BY <1>2, HalvesRun
<1> HIDE DEF m1, q
<1>8. Covered(q, l, p) \/ InRun(keep, o, p)
  BY <1>5, <1>6, <1>7
<1> QED
  BY <1>8 DEF q, m1

\* Init and every action keep the pages covered.
LEMMA InitCover == Init => CoverInv
  BY Bounds DEF Init, CoverInv

LEMMA InitBlockCover == IInv /\ CoverInv /\ InitBlock => CoverInv'
<1> SUFFICES ASSUME IInv, CoverInv, InitBlock, NEW p \in Pages
             PROVE  \/ Covered(mem', lent', p)
                    \/ pc' = "init" /\ cur' <= p
  BY DEF CoverInv
<1>1. PICK o \in Orders :
        /\ IsLog2Floor(o, remaining)
        /\ mem' = push_to_list(set_order(mem, cur, o), cur)
        /\ cur' = cur + power_of2[o]
  BY DEF InitBlock
<1>2. pc = "init" /\ pc' = "init" /\ lent' = lent /\ remaining > 0
  BY DEF InitBlock
<1>3. /\ power_of2[o] \in Nat \ {0}
      /\ cur \in Nat /\ cur \in Pages /\ p \in Nat
      /\ mem \in Memory
  BY <1>1, <1>2, Sizes, Bounds DEF IInv, TypeOK, InitInv
<1>4. ~Used(mem, lent, cur)
  <2> SUFFICES ASSUME Used(mem, lent, cur)
               PROVE  FALSE
    OBVIOUS
  <2>1. mem.free[cur] /\ cur + power_of2[mem.order[cur]] <= cur
    BY <1>2, <1>3 DEF Used, IInv, InitInv
  <2>2. power_of2[mem.order[cur]] \in Nat \ {0}
    BY <1>3, Sizes DEF Memory
  <2> QED
    BY <1>3, <2>1, <2>2
<1> DEFINE m1 == set_order(mem, cur, o)
<1>5. m1 \in Memory /\ m1.order[cur] = o
  BY <1>3 DEF Memory, set_order
<1>6. Covered(mem, lent, p) => Covered(m1, lent, p)
  BY <1>3, <1>4, MarkCover
<1>7. mem' = push_to_list(m1, cur)
  BY <1>1
<1> HIDE DEF m1
<1>8. Covered(m1, lent, p) \/ InRun(cur, o, p) => Covered(mem', lent, p)
  BY <1>3, <1>5, <1>7, PushCover
<1>9. cur <= p => InRun(cur, o, p) \/ cur' <= p
  BY <1>1, <1>3 DEF InRun
<1>10. Covered(mem, lent, p) \/ cur <= p
  BY <1>2 DEF CoverInv
<1> QED
  BY <1>2, <1>6, <1>8, <1>9, <1>10

LEMMA EnterCover ==
  IInv /\ CoverInv /\ (InitDone \/ NextRegion) => CoverInv'
<1> SUFFICES ASSUME IInv, CoverInv, InitDone \/ NextRegion, NEW p \in Pages
             PROVE  Covered(mem', lent', p)
  BY DEF CoverInv
<1>1. mem' = mem /\ lent' = lent
  BY DEF InitDone, NextRegion
<1>2. CASE InitDone
  <2>1. pc = "init" /\ cur = N /\ p < N
    BY <1>2, Bounds DEF InitDone, IInv, TypeOK, InitInv
  <2>2. ~(cur <= p)
    BY <2>1, Bounds
  <2> QED
    BY <1>1, <2>1, <2>2 DEF CoverInv
<1>3. CASE NextRegion
  BY <1>1, <1>3 DEF CoverInv, NextRegion
<1> QED
  BY <1>2, <1>3

LEMMA ReserveFindCover == IInv /\ CoverInv /\ ReserveFind => CoverInv'
<1> SUFFICES ASSUME IInv, CoverInv, ReserveFind, NEW p \in Pages
             PROVE  \/ Covered(mem', lent', p)
                    \/ pc' \in {"reserve", "split"} /\ InRun(cur', cur_o', p)
  BY DEF CoverInv
<1>1. pc = "memregs" /\ lent' = lent /\ j \in Nat /\ j < N /\ mem \in Memory
  <2>1. pc = "memregs" /\ lent' = lent /\ remaining > 0
    BY DEF ReserveFind
  <2> QED
    BY <2>1, Bounds DEF IInv, TypeOK, RegionInv
<1>2. Covered(mem, lent, p)
  BY <1>1 DEF CoverInv
<1>3. PICK o \in Orders :
        \/ mem' = mem
        \/ \E k \in o .. MAX_ORDER :
             /\ is_free_block(mem, parent_at_order(j, k), k)
             /\ mem' = remove_from_list(mem, parent_at_order(j, k))
             /\ cur' = parent_at_order(j, k) /\ cur_o' = k
             /\ pc' = "reserve"
  BY Zenon DEF ReserveFind
<1>4. CASE mem' = mem
  BY <1>1, <1>2, <1>4
<1>5. ASSUME NEW k \in o .. MAX_ORDER,
             is_free_block(mem, parent_at_order(j, k), k),
             mem' = remove_from_list(mem, parent_at_order(j, k)),
             cur' = parent_at_order(j, k), cur_o' = k, pc' = "reserve"
      PROVE  \/ Covered(mem', lent, p)
             \/ pc' \in {"reserve", "split"} /\ InRun(cur', cur_o', p)
  <2>1. k \in Orders
    BY Bounds DEF Orders
  <2>2. cur' \in Nat /\ cur' <= j
    BY <1>1, <1>5, <2>1, ParentBlock
  <2>3. cur' \in Pages /\ mem' = remove_from_list(mem, cur') /\ mem.order[cur'] = k
    BY <1>1, <1>5, <2>2, Bounds DEF is_free_block
  <2>4. Covered(mem', lent, p) \/ InRun(cur', mem.order[cur'], p)
    BY <1>1, <1>2, <2>3, RemoveCover
  <2> QED
    BY <1>5, <2>3, <2>4
<1> QED
  BY <1>1, <1>3, <1>4, <1>5

LEMMA ReserveHalveCover == IInv /\ CoverInv /\ ReserveHalve => CoverInv'
<1> SUFFICES ASSUME IInv, CoverInv, ReserveHalve, NEW p \in Pages
             PROVE  \/ Covered(mem', lent', p)
                    \/ pc' \in {"reserve", "split"} /\ InRun(cur', cur_o', p)
  BY DEF CoverInv
<1> DEFINE o == cur_o - 1
           right == cur + power_of2[o]
           other == IF j < right THEN right ELSE cur
<1>1. /\ pc = "reserve" /\ pc' = "reserve" /\ cur_o > target_o
      /\ mem' = push_to_list(set_order(mem, other, o), other)
      /\ cur' = (IF j < right THEN cur ELSE right)
      /\ cur_o' = o /\ lent' = lent
  BY DEF ReserveHalve, InLeftHalf
<1>2. /\ cur_o \in Orders /\ o \in Orders /\ cur_o = o + 1
      /\ cur \in Pages /\ Fits(cur, cur_o) /\ Clear(mem, lent, cur, cur_o)
      /\ lent \in Lent /\ Good(mem, lent) /\ p \in Nat
  BY <1>1, Bounds DEF IInv, TypeOK, TransitInv, Orders, Lent, Good
<1>3. Covered(mem, lent, p) \/ InRun(cur, cur_o, p)
  BY <1>1 DEF CoverInv
<1>4. \/ cur' = cur /\ other = cur + power_of2[o]
      \/ other = cur /\ cur' = cur + power_of2[o]
  BY <1>1
<1> HIDE DEF o, other, right
<1>5. \/ Covered(push_to_list(set_order(mem, other, o), other), lent, p)
      \/ InRun(cur', o, p)
  <2>1. CASE cur' = cur /\ other = cur + power_of2[o]
    BY <1>2, <1>3, <2>1, ListHalfCover
  <2>2. CASE other = cur /\ cur' = cur + power_of2[o]
    BY <1>2, <1>3, <2>2, ListHalfCover
  <2> QED
    BY <1>4, <2>1, <2>2
<1> QED
  BY <1>1, <1>5

LEMMA ReserveDoneCover == IInv /\ CoverInv /\ ReserveDone => CoverInv'
<1> SUFFICES ASSUME IInv, CoverInv, ReserveDone, NEW p \in Pages
             PROVE  Covered(mem', lent', p)
  BY DEF CoverInv
<1>1. /\ pc = "reserve" /\ cur_o = target_o
      /\ mem' = set_order(mem, cur, target_o)
      /\ lent' = [lent EXCEPT ![cur] = target_o]
      /\ cur \in Pages /\ target_o \in Orders /\ Clear(mem, lent, cur, target_o)
  BY ReserveEnds DEF ReservesWhatIsTaken, ReserveDone, IInv, TypeOK, TransitInv
<1>2. lent \in Lent /\ Good(mem, lent) /\ mem \in Memory
  BY DEF IInv, TypeOK, Lent, Good
<1>3. ~Used(mem, lent, cur)
  BY <1>1, <1>2, ClearUnused
<1>4. Covered(mem, lent, p) => Covered(mem', lent, p)
  BY <1>1, <1>2, <1>3, MarkCover
<1>5. mem'.order[cur] = target_o
  BY <1>1, <1>2 DEF Memory, set_order
<1>6. Covered(mem', lent, p) \/ InRun(cur, target_o, p) => Covered(mem', lent', p)
  BY <1>1, <1>2, <1>5, LendCover
<1>7. Covered(mem, lent, p) \/ InRun(cur, target_o, p)
  BY <1>1 DEF CoverInv
<1> QED
  BY <1>4, <1>6, <1>7

LEMMA MallocPopCover ==
  ASSUME IInv, CoverInv, NEW o \in Orders, MallocPop(o)
  PROVE  CoverInv'
<1> SUFFICES ASSUME NEW p \in Pages
             PROVE  Covered(mem', lent', p)
  BY DEF CoverInv
<1> DEFINE i == mem.free_lists[o]
<1>1. /\ pc = "ready" /\ i # NULL_IDX
      /\ mem' = remove_from_list(mem, i)
      /\ lent' = [lent EXCEPT ![i] = o]
  BY DEF MallocPop
<1>2. lent \in Lent /\ Good(mem, lent) /\ mem \in Memory
  BY DEF IInv, TypeOK, Lent, Good
<1>3. i \in Pages /\ mem.free[i] /\ mem.order[i] = o
  BY <1>1, <1>2 DEF Good, Memory, LinksOK
<1> HIDE DEF i
<1>4. Covered(mem, lent, p)
  BY <1>1 DEF CoverInv
<1>5. Covered(mem', lent, p) \/ InRun(i, mem.order[i], p)
  BY <1>1, <1>2, <1>3, <1>4, RemoveCover
<1>6. mem'.order[i] = mem.order[i]
  BY <1>1 DEF remove_from_list
<1>7. Covered(mem', lent, p) \/ InRun(i, mem'.order[i], p)
  BY <1>5, <1>6
<1> QED
  BY <1>1, <1>2, <1>3, <1>7, LendCover

LEMMA MallocSplitCover ==
  ASSUME IInv, CoverInv, NEW o \in Orders, MallocSplit(o)
  PROVE  CoverInv'
<1> SUFFICES ASSUME NEW p \in Pages
             PROVE  \/ Covered(mem', lent', p)
                    \/ pc' \in {"reserve", "split"} /\ InRun(cur', cur_o', p)
  BY DEF CoverInv
<1>1. PICK k \in (o + 1) .. MAX_ORDER :
        /\ mem.free_lists[k] # NULL_IDX
        /\ mem' = set_order(remove_from_list(mem, mem.free_lists[k]), mem.free_lists[k], o)
        /\ cur' = mem.free_lists[k] /\ cur_o' = k
  BY DEF MallocSplit
<1>2. pc = "ready" /\ pc' = "split" /\ lent' = lent
  BY DEF MallocSplit
<1>3. lent \in Lent /\ Good(mem, lent) /\ k \in Orders /\ mem \in Memory
  BY Bounds DEF IInv, TypeOK, Lent, Good, Orders
<1>4. cur' \in Pages /\ mem.free[cur'] /\ mem.order[cur'] = k
  BY <1>1, <1>3 DEF Good, Memory, LinksOK
<1> DEFINE m == remove_from_list(mem, cur')
<1>5. /\ Good(m, lent) /\ Clear(m, lent, cur', mem.order[cur'])
  BY <1>3, <1>4, UnlistBlock
<1>6. Covered(mem, lent, p)
  BY <1>2 DEF CoverInv
<1>7. Covered(m, lent, p) \/ InRun(cur', mem.order[cur'], p)
  BY <1>3, <1>4, <1>6, RemoveCover
<1>8. mem' = set_order(m, cur', o)
  BY <1>1
<1> HIDE DEF m
<1>9. m \in Memory /\ ~Used(m, lent, cur')
  BY <1>3, <1>4, <1>5, ClearUnused DEF Good
<1>10. Covered(m, lent, p) => Covered(mem', lent, p)
  BY <1>4, <1>8, <1>9, MarkCover
<1> QED
  BY <1>1, <1>2, <1>4, <1>7, <1>10

LEMMA SplitStepCover == IInv /\ CoverInv /\ SplitStep => CoverInv'
<1> SUFFICES ASSUME IInv, CoverInv, SplitStep, NEW p \in Pages
             PROVE  \/ Covered(mem', lent', p)
                    \/ pc' \in {"reserve", "split"} /\ InRun(cur', cur_o', p)
  BY DEF CoverInv
<1> DEFINE o == cur_o - 1
           b == buddy_of(cur, o)
<1>1. /\ pc = "split" /\ pc' = "split" /\ cur_o > target_o
      /\ mem' = push_to_list(set_order(mem, b, o), b)
      /\ cur_o' = o /\ lent' = lent /\ cur' = cur
  BY DEF SplitStep
<1>2. /\ cur_o \in Orders /\ o \in Orders /\ cur_o = o + 1 /\ cur_o # 0
      /\ cur \in Pages /\ Fits(cur, cur_o) /\ Clear(mem, lent, cur, cur_o)
      /\ lent \in Lent /\ Good(mem, lent) /\ p \in Nat
  BY <1>1, Bounds DEF IInv, TypeOK, TransitInv, Orders, Lent, Good
<1>3. Covered(mem, lent, p) \/ InRun(cur, cur_o, p)
  BY <1>1 DEF CoverInv
<1>4. b = cur + power_of2[o]
  BY <1>2, SplitBlock DEF Fits
<1> HIDE DEF o, b
<1>5. Covered(push_to_list(set_order(mem, b, o), b), lent, p) \/ InRun(cur, o, p)
  BY <1>2, <1>3, <1>4, ListHalfCover
<1> QED
  BY <1>1, <1>5

LEMMA SplitDoneCover == IInv /\ CoverInv /\ SplitDone => CoverInv'
<1> SUFFICES ASSUME IInv, CoverInv, SplitDone, NEW p \in Pages
             PROVE  Covered(mem', lent', p)
  BY DEF CoverInv
<1>1. /\ pc = "split" /\ cur_o = target_o /\ mem' = mem
      /\ lent' = [lent EXCEPT ![cur] = target_o]
      /\ cur \in Pages /\ target_o \in Orders /\ mem.order[cur] = target_o
      /\ lent \in Lent
  BY DEF SplitDone, IInv, TypeOK, TransitInv, SplitInv, Lent
<1>2. Covered(mem, lent, p) \/ InRun(cur, mem.order[cur], p)
  BY <1>1 DEF CoverInv
<1> QED
  BY <1>1, <1>2, LendCover

LEMMA FreeCover ==
  ASSUME IInv, CoverInv, NEW i \in Pages, Free(i)
  PROVE  CoverInv'
<1> SUFFICES ASSUME NEW p \in Pages
             PROVE  Covered(mem', lent', p)
  BY DEF CoverInv
<1>1. /\ pc = "ready" /\ lent[i] # NotLent
      /\ lent' = [lent EXCEPT ![i] = NotLent]
  BY DEF Free
<1>2. lent \in Lent /\ mem \in Memory /\ ~mem.free[i]
  BY <1>1 DEF IInv, TypeOK, Lent, Placed
<1>3. mem' = push_to_list(mem, i)
  BY <1>2 DEF Free
<1>4. Covered(mem, lent, p)
  BY <1>1 DEF CoverInv
<1>5. Covered(mem, lent', p) \/ InRun(i, mem.order[i], p)
  BY <1>1, <1>2, <1>4, ReturnCover
<1> QED
  BY <1>2, <1>3, <1>5, PushCover

\* The merged block is the lower of the pair, and its run is both runs.
LEMMA MergePair ==
  ASSUME IInv, MergeStep
  PROVE  LET o == mem.order[cur]
             b == buddy_of(cur, o)
             left == IF cur < b THEN cur ELSE b
         IN  /\ cur \in Pages /\ b \in Pages /\ left \in Pages /\ b # cur
             /\ mem.free[cur] /\ mem.free[b] /\ mem.order[b] = o
             /\ lent[cur] = NotLent /\ lent[b] = NotLent
             /\ o \in Orders /\ o + 1 \in Orders /\ o # MAX_ORDER
             /\ Aligned(cur, o) /\ Aligned(b, o)
             /\ \/ left = cur /\ b = cur + power_of2[o]
                \/ left = b /\ cur = b + power_of2[o]
<1> DEFINE o == mem.order[cur]
           b == buddy_of(cur, o)
           left == IF cur < b THEN cur ELSE b
<1>1. /\ pc = "merge" /\ o # MAX_ORDER /\ b \in Pages /\ mem.free[b] /\ mem.order[b] = o
  BY DEF MergeStep, MergesWith, is_free_block
<1>2. cur \in Pages /\ mem.free[cur] /\ mem \in Memory /\ Placed(mem, lent)
  BY <1>1 DEF IInv, MergeInv, TypeOK
<1>3. o \in Orders /\ o + 1 \in Orders /\ power_of2[o] \in Nat \ {0}
  BY <1>1, <1>2, Sizes DEF Memory
<1>4. lent[cur] = NotLent /\ lent[b] = NotLent /\ Aligned(cur, o) /\ Aligned(b, o)
  <2>1. lent[cur] = NotLent /\ lent[b] = NotLent
    BY <1>1, <1>2 DEF Placed
  <2>2. Fits(cur, mem.order[cur]) /\ Fits(b, mem.order[b])
    BY <1>1, <1>2 DEF Placed, Used
  <2> QED
    BY <1>1, <2>1, <2>2 DEF Fits
<1>5. b \in Nat /\ (b = cur + power_of2[o] \/ cur = b + power_of2[o])
  BY <1>1, <1>2, <1>3, <1>4, MergeBlock
<1>6. /\ b # cur
      /\ \/ left = cur /\ b = cur + power_of2[o]
         \/ left = b /\ cur = b + power_of2[o]
  BY <1>2, <1>3, <1>5, Bounds
<1> QED
  BY <1>1, <1>2, <1>3, <1>4, <1>6

LEMMA MergeStepCover == IInv /\ CoverInv /\ MergeStep => CoverInv'
<1> SUFFICES ASSUME IInv, CoverInv, MergeStep, NEW p \in Pages
             PROVE  Covered(mem', lent', p)
  BY DEF CoverInv
<1> DEFINE o == mem.order[cur]
           b == buddy_of(cur, o)
           left == IF cur < b THEN cur ELSE b
           m1 == remove_from_list(mem, cur)
           m2 == remove_from_list(m1, b)
           m3 == set_order(m2, left, o + 1)
<1>1. mem' = push_to_list(m3, left) /\ lent' = lent /\ pc = "merge"
  BY DEF MergeStep
<1>2. /\ cur \in Pages /\ b \in Pages /\ left \in Pages /\ b # cur
      /\ mem.free[cur] /\ mem.free[b] /\ mem.order[b] = o
      /\ lent[cur] = NotLent /\ lent[b] = NotLent
      /\ o \in Orders /\ o + 1 \in Orders
      /\ \/ left = cur /\ b = cur + power_of2[o]
         \/ left = b /\ cur = b + power_of2[o]
  BY MergePair
<1>3. lent \in Lent /\ mem \in Memory /\ p \in Nat /\ LinksOK(mem)
  BY Bounds DEF IInv, TypeOK, Lent
<1>4. Covered(mem, lent, p)
  BY <1>1 DEF CoverInv
<1>5. o = mem.order[cur]
  OBVIOUS
<1> HIDE DEF o, b, left
<1>6. /\ m1 \in Memory /\ LinksOK(m1) /\ m1.order = mem.order
      /\ m1.free = [mem.free EXCEPT ![cur] = FALSE]
  BY <1>2, <1>3, RemoveLemma
<1>7. Covered(m1, lent, p) \/ InRun(cur, o, p)
  BY <1>2, <1>3, <1>4, <1>5, RemoveCover
<1> HIDE DEF m1
<1>8. m1.free[b] /\ ~m1.free[cur] /\ m1.order[b] = o
  BY <1>2, <1>3, <1>6 DEF Memory
<1>9. m2 \in Memory /\ m2.free = [m1.free EXCEPT ![b] = FALSE]
  BY <1>2, <1>6, <1>8, RemoveLemma
<1>10. Covered(m1, lent, p) => Covered(m2, lent, p) \/ InRun(b, m1.order[b], p)
  BY <1>2, <1>6, RemoveCover
<1> HIDE DEF m2
<1>11. ~Used(m2, lent, left)
  BY <1>2, <1>6, <1>8, <1>9 DEF Used, Memory
<1>12. m3 \in Memory /\ m3.order[left] = o + 1
  BY <1>2, <1>9 DEF Memory, set_order
<1>13. Covered(m2, lent, p) => Covered(m3, lent, p)
  BY <1>2, <1>9, <1>11, MarkCover
<1> HIDE DEF m3
<1>14. Covered(m3, lent, p) \/ InRun(left, o + 1, p) => Covered(mem', lent, p)
  BY <1>1, <1>2, <1>12, PushCover
<1>15. InRun(cur, o, p) \/ InRun(b, o, p) => InRun(left, o + 1, p)
  <2>1. left \in Nat
    BY <1>2, Bounds
  <2>2. InRun(left, o + 1, p) <=> InRun(left, o, p) \/ InRun(left + power_of2[o], o, p)
    BY <1>2, <1>3, <2>1, HalvesRun
  <2> QED
    BY <1>2, <2>2
<1> QED
  BY <1>1, <1>7, <1>8, <1>10, <1>13, <1>14, <1>15

\* Every step keeps the pages covered.
LEMMA NextCover == IInv /\ CoverInv /\ [Next]_vars => CoverInv'
<1> SUFFICES ASSUME IInv, CoverInv, [Next]_vars
             PROVE  CoverInv'
  OBVIOUS
<1>1. CASE MergeDone \/ MergeBadNode
  <2>1. pc = "merge" /\ mem' = mem /\ lent' = lent
    BY <1>1 DEF MergeDone, MergeBadNode
  <2> QED
    BY <2>1 DEF CoverInv
<1>2. CASE Step
  BY <1>1, <1>2, InitBlockCover, EnterCover, ReserveFindCover,
     ReserveHalveCover, ReserveDoneCover, SplitStepCover, SplitDoneCover,
     MergeStepCover DEF Step
<1>3. ASSUME NEW o \in Orders, MallocPanic(o)
      PROVE  CoverInv'
  <2>1. pc = "ready" /\ mem' = mem /\ lent' = lent
    BY <1>3 DEF MallocPanic
  <2> QED
    BY <2>1 DEF CoverInv
<1>4. CASE Malloc
  BY <1>3, <1>4, MallocPopCover, MallocSplitCover DEF Malloc
<1>5. CASE \E i \in Pages : Free(i)
  BY <1>5, FreeCover
<1>6. CASE UNCHANGED vars
  BY <1>6 DEF vars, CoverInv
<1> QED
  BY <1>2, <1>4, <1>5, <1>6 DEF Next, Hang

-----------------------------------------------------------------------------
(* Free buddies are merged. *)

\* No two free buddies of one order, but for the block at x.
Coalesced(m, x) ==
  \A i, b \in Pages \ {x} :
    m.free[i] /\ m.order[i] # MAX_ORDER /\ b = buddy_of(i, m.order[i]) =>
      ~is_free_block(m, b, m.order[i])

\* The block try_merge works on may still have a free buddy.
CoalInv == Coalesced(mem, IF pc \in {"merge", "bad node"} THEN cur ELSE NULL_IDX)

\* During init what is listed is larger than what remains.
DecreasingInv ==
  pc = "init" => \A i \in Pages : mem.free[i] => remaining < power_of2[mem.order[i]]

\* Marking a node that is not free makes no pair of free buddies.
LEMMA MarkCoal ==
  ASSUME NEW m \in Memory, NEW i \in Pages, NEW o \in Orders, ~m.free[i],
         NEW x, Coalesced(m, x)
  PROVE  Coalesced(set_order(m, i, o), x)
<1> DEFINE q == set_order(m, i, o)
<1>1. q.free = m.free /\ \A k \in Pages : m.free[k] => q.order[k] = m.order[k]
  BY DEF set_order, Memory
<1> HIDE DEF q
<1> QED
  BY <1>1 DEF Coalesced, is_free_block, q

\* Nor does taking a block off its list, which may end the exception.
LEMMA RemoveCoal ==
  ASSUME NEW m \in Memory, NEW i \in Pages, NEW x, Coalesced(m, x)
  PROVE  /\ Coalesced(remove_from_list(m, i), x)
         /\ x = i => Coalesced(remove_from_list(m, i), NULL_IDX)
<1> DEFINE q == remove_from_list(m, i)
<1>1. /\ q.order = m.order /\ q.free = [m.free EXCEPT ![i] = FALSE]
  BY DEF remove_from_list
<1>2. ~q.free[i] /\ \A k \in Pages : q.free[k] => m.free[k]
  BY <1>1 DEF Memory
<1> HIDE DEF q
<1>3. Coalesced(q, x)
  BY <1>1, <1>2 DEF Coalesced, is_free_block
<1>4. x = i => Coalesced(q, NULL_IDX)
  BY <1>1, <1>2 DEF Coalesced, is_free_block
<1> QED
  BY <1>3, <1>4 DEF q

\* Listing a block makes no pair but its own.
LEMMA PushCoalExcept ==
  ASSUME NEW m \in Memory, NEW i \in Pages, Coalesced(m, NULL_IDX)
  PROVE  Coalesced(push_to_list(m, i), i)
<1> DEFINE q == push_to_list(m, i)
<1>1. q.order = m.order /\ q.free = [m.free EXCEPT ![i] = TRUE]
  BY DEF push_to_list
<1>2. \A k \in Pages : k # i => q.free[k] = m.free[k]
  BY <1>1 DEF Memory
<1>3. NULL_IDX \notin Pages
  BY DEF NULL_IDX, Pages
<1> HIDE DEF q
<1> QED
  BY <1>1, <1>2, <1>3 DEF Coalesced, is_free_block, q

\* No two free buddies remain when the buddy of the one in question is not a
\* free block of its order.
LEMMA CloseCoal ==
  ASSUME NEW m \in Memory, NEW l \in Lent, Placed(m, l),
         NEW i \in Pages, m.free[i], Coalesced(m, i),
         \/ m.order[i] = MAX_ORDER
         \/ buddy_of(i, m.order[i]) \notin Pages
         \/ ~is_free_block(m, buddy_of(i, m.order[i]), m.order[i])
  PROVE  Coalesced(m, NULL_IDX)
<1> SUFFICES ASSUME NEW k \in Pages, NEW b \in Pages, m.free[k],
                    m.order[k] # MAX_ORDER, b = buddy_of(k, m.order[k]),
                    m.free[b], m.order[b] = m.order[k]
             PROVE  FALSE
  BY DEF Coalesced, is_free_block
<1>1. m.order[k] \in Orders /\ Aligned(k, m.order[k])
  BY DEF Memory, Placed, Used, Fits
<1>2. buddy_of(b, m.order[k]) = k
  BY <1>1, BuddyTwice
<1>3. CASE k = i
  BY <1>3 DEF is_free_block
<1>4. CASE b = i
  BY <1>2, <1>4 DEF is_free_block
<1>5. CASE k # i /\ b # i
  BY <1>5 DEF Coalesced, is_free_block
<1> QED
  BY <1>3, <1>4, <1>5

\* Listing one half of a block in transit makes no pair: the other half is
\* not free.
LEMMA ListHalfCoal ==
  ASSUME NEW m, NEW l \in Lent, Good(m, l), Coalesced(m, NULL_IDX),
         NEW i \in Pages, NEW o \in Orders, NEW a \in Orders, a = o + 1,
         Fits(i, a), Clear(m, l, i, a),
         NEW keep, NEW list,
         \/ keep = i /\ list = i + power_of2[o]
         \/ list = i /\ keep = i + power_of2[o]
  PROVE  Coalesced(push_to_list(set_order(m, list, o), list), NULL_IDX)
<1> DEFINE m1 == set_order(m, list, o)
           q == push_to_list(m1, list)
<1>1. /\ keep \in Pages /\ list \in Pages /\ Good(q, l) /\ Clear(q, l, keep, o)
      /\ q.order = [m.order EXCEPT ![list] = o]
  <2>1. CASE keep = i /\ list = i + power_of2[o]
    BY <2>1, ListHalf
  <2>2. CASE list = i /\ keep = i + power_of2[o]
    BY <2>2, ListHalf
  <2> QED
    BY <2>1, <2>2
<1>2. /\ m \in Memory /\ i \in Nat /\ power_of2[a] = 2 * power_of2[o]
      /\ power_of2[o] \in Nat \ {0} /\ o # MAX_ORDER /\ a # 0 /\ a - 1 = o
  <2>1. a # 0 /\ a - 1 = o
    BY DEF Orders
  <2>2. o # MAX_ORDER
    BY Bounds DEF Orders
  <2> QED
    BY <2>1, <2>2, Sizes, Bounds DEF Good
<1>3. ~Used(m, l, list)
  BY HalfUnused
<1>4. m1 \in Memory /\ m1.order[list] = o /\ Coalesced(m1, NULL_IDX)
  <2>1. m1 \in Memory /\ m1.order[list] = o
    BY <1>1, <1>2 DEF Memory, set_order
  <2>2. ~m.free[list]
    BY <1>3 DEF Used
  <2> QED
    BY <1>1, <1>2, <2>1, <2>2, MarkCoal
<1> HIDE DEF m1
<1>5. Coalesced(q, list)
  BY <1>1, <1>4, PushCoalExcept
<1>6. q.free[list] /\ q.order[list] = o
  BY <1>1, <1>4 DEF push_to_list, Memory
<1> HIDE DEF q
<1>7. ~q.free[keep]
  BY <1>1, ClearUnused DEF Used
<1>8. buddy_of(list, o) = keep
  <2>1. Aligned(i, o) /\ buddy_of(i, o) = i + power_of2[o]
    BY <1>2, SplitBlock DEF Fits
  <2>2. CASE list = i /\ keep = i + power_of2[o]
    BY <2>1, <2>2
  <2>3. CASE keep = i /\ list = i + power_of2[o]
    BY <1>1, <1>2, <2>1, <2>3, BuddyTwice
  <2> QED
    BY <2>2, <2>3
<1>9. q \in Memory /\ Placed(q, l)
  BY <1>1 DEF Good
<1>10. ~is_free_block(q, buddy_of(list, q.order[list]), q.order[list])
  BY <1>6, <1>7, <1>8 DEF is_free_block
<1>11. Coalesced(q, NULL_IDX)
  BY <1>1, <1>5, <1>6, <1>9, <1>10, CloseCoal
<1> QED
  BY <1>11 DEF q, m1

\* Init and every action keep free buddies merged, but for the block in
\* question.
LEMMA InitCoal == Init => CoalInv /\ DecreasingInv
<1> SUFFICES ASSUME Init
             PROVE  CoalInv /\ DecreasingInv
  OBVIOUS
<1>1. pc = "init" /\ \A i \in Pages : ~mem.free[i]
  BY DEF Init, ClearMemory
<1> QED
  BY <1>1 DEF CoalInv, Coalesced, DecreasingInv

LEMMA InitBlockCoal ==
  IInv /\ CoalInv /\ DecreasingInv /\ InitBlock => CoalInv' /\ DecreasingInv'
<1> SUFFICES ASSUME IInv, CoalInv, DecreasingInv, InitBlock
             PROVE  CoalInv' /\ DecreasingInv'
  OBVIOUS
<1>1. PICK o \in Orders :
        /\ IsLog2Floor(o, remaining)
        /\ mem' = push_to_list(set_order(mem, cur, o), cur)
        /\ cur' = cur + power_of2[o]
        /\ remaining' = remaining - power_of2[o]
  BY DEF InitBlock
<1>2. pc = "init" /\ pc' = "init" /\ lent' = lent /\ remaining > 0
  BY DEF InitBlock
<1>3. IInv' /\ lent' \in Lent
  BY InitBlockIInv DEF IInv, TypeOK, Lent
<1>4. /\ power_of2[o] \in Nat \ {0} /\ power_of2[o] <= remaining
      /\ remaining < 2 * power_of2[o]
      /\ cur \in Nat /\ cur \in Pages /\ remaining \in Nat
      /\ mem \in Memory /\ lent \in Lent /\ Coalesced(mem, NULL_IDX)
  BY <1>1, <1>2, Sizes, Bounds DEF IInv, TypeOK, InitInv, IsLog2Floor, Lent, CoalInv
<1>5. ~mem.free[cur]
  <2> SUFFICES ASSUME mem.free[cur]
               PROVE  FALSE
    OBVIOUS
  <2>1. cur + power_of2[mem.order[cur]] <= cur
    BY <1>2, <1>4 DEF IInv, InitInv
  <2>2. power_of2[mem.order[cur]] \in Nat \ {0}
    BY <1>4, Sizes DEF Memory
  <2> QED
    BY <1>4, <2>1, <2>2
<1> DEFINE m1 == set_order(mem, cur, o)
<1>6. /\ m1 \in Memory /\ m1.order = [mem.order EXCEPT ![cur] = o]
      /\ m1.free = mem.free /\ Coalesced(m1, NULL_IDX)
  <2>1. m1 \in Memory /\ m1.order = [mem.order EXCEPT ![cur] = o] /\ m1.free = mem.free
    BY <1>4 DEF Memory, set_order
  <2> QED
    BY <1>4, <1>5, <2>1, MarkCoal
<1>7. mem' = push_to_list(m1, cur)
  BY <1>1
<1> HIDE DEF m1
<1>8. /\ mem'.order = [mem.order EXCEPT ![cur] = o]
      /\ mem'.free = [mem.free EXCEPT ![cur] = TRUE]
  BY <1>6, <1>7 DEF push_to_list
<1>9. mem'.order[cur] = o /\ mem'.free[cur]
  BY <1>4, <1>8 DEF Memory
<1>10. \A k \in Pages : k # cur => mem'.order[k] = mem.order[k] /\ mem'.free[k] = mem.free[k]
  BY <1>4, <1>8 DEF Memory
<1>11. \A k \in Pages : mem.free[k] => remaining < power_of2[mem.order[k]]
  BY <1>2 DEF DecreasingInv
<1>12. DecreasingInv'
  <2> SUFFICES ASSUME NEW k \in Pages, mem'.free[k]
               PROVE  remaining' < power_of2[mem'.order[k]]
    BY DEF DecreasingInv
  <2>1. CASE k = cur
    BY <1>1, <1>4, <1>9, <2>1
  <2>2. CASE k # cur
    <3>1. remaining < power_of2[mem.order[k]] /\ power_of2[mem.order[k]] \in Nat
      BY <1>4, <1>10, <1>11, <2>2, Sizes DEF Memory
    <3> QED
      BY <1>1, <1>4, <1>10, <2>2, <3>1
  <2> QED
    BY <2>1, <2>2
<1>13. ASSUME NEW b \in Pages, b = buddy_of(cur, o)
       PROVE  ~is_free_block(mem', b, o)
  <2> SUFFICES ASSUME mem'.free[b], mem'.order[b] = o
               PROVE  FALSE
    BY DEF is_free_block
  <2>1. b # cur
    BY <1>4, <1>13 DEF buddy_of
  <2>2. remaining < power_of2[mem.order[b]] /\ mem.order[b] = o
    BY <1>10, <1>11, <2>1
  <2> QED
    BY <1>4, <2>2
<1>14. Coalesced(mem', cur)
  BY <1>4, <1>6, <1>7, PushCoalExcept
<1>15. mem' \in Memory /\ Placed(mem', lent)
  BY <1>2, <1>3 DEF IInv, TypeOK
<1>16. \/ buddy_of(cur, mem'.order[cur]) \notin Pages
       \/ ~is_free_block(mem', buddy_of(cur, mem'.order[cur]), mem'.order[cur])
  BY <1>9, <1>13
<1>17. Coalesced(mem', NULL_IDX)
  BY <1>4, <1>9, <1>14, <1>15, <1>16, CloseCoal
<1> QED
  BY <1>2, <1>12, <1>17 DEF CoalInv

LEMMA ReserveCoal ==
  IInv /\ CoalInv /\ (ReserveFind \/ ReserveHalve \/ ReserveDone) => CoalInv'
<1> SUFFICES ASSUME IInv, CoalInv, ReserveFind \/ ReserveHalve \/ ReserveDone
             PROVE  CoalInv'
  OBVIOUS
<1>1. lent \in Lent /\ Good(mem, lent) /\ mem \in Memory
  BY DEF IInv, TypeOK, Lent, Good
<1>2. CASE ReserveFind
  <2>1. pc = "memregs" /\ remaining > 0
    BY <1>2 DEF ReserveFind
  <2>2. j \in Nat /\ j < N /\ Coalesced(mem, NULL_IDX)
    BY <2>1, Bounds DEF IInv, TypeOK, RegionInv, CoalInv
  <2>3. PICK o \in Orders :
          \/ pc' = "double reservation" /\ mem' = mem
          \/ \E k \in o .. MAX_ORDER :
               /\ mem' = remove_from_list(mem, parent_at_order(j, k))
               /\ pc' = "reserve"
    BY <1>2, Zenon DEF ReserveFind
  <2>4. CASE pc' = "double reservation" /\ mem' = mem
    BY <2>2, <2>4 DEF CoalInv
  <2>5. ASSUME NEW k \in o .. MAX_ORDER,
               mem' = remove_from_list(mem, parent_at_order(j, k)), pc' = "reserve"
        PROVE  CoalInv'
    <3>1. k \in Orders
      BY Bounds DEF Orders
    <3>2. parent_at_order(j, k) \in Pages
      BY <2>2, <3>1, ParentBlock, Bounds
    <3>3. Coalesced(mem', NULL_IDX)
      BY <1>1, <2>2, <2>5, <3>2, RemoveCoal
    <3> QED
      BY <2>5, <3>3 DEF CoalInv
  <2> QED
    BY <2>3, <2>4, <2>5
<1>3. CASE ReserveHalve
  <2> DEFINE o == cur_o - 1
             right == cur + power_of2[o]
             other == IF j < right THEN right ELSE cur
  <2>1. /\ pc = "reserve" /\ pc' = "reserve" /\ cur_o > target_o
        /\ mem' = push_to_list(set_order(mem, other, o), other)
        /\ cur' = (IF j < right THEN cur ELSE right)
    BY <1>3 DEF ReserveHalve, InLeftHalf
  <2>2. /\ cur_o \in Orders /\ o \in Orders /\ cur_o = o + 1
        /\ cur \in Pages /\ Fits(cur, cur_o) /\ Clear(mem, lent, cur, cur_o)
        /\ Coalesced(mem, NULL_IDX)
    BY <2>1, Bounds DEF IInv, TypeOK, TransitInv, Orders, CoalInv
  <2>3. \/ cur' = cur /\ other = cur + power_of2[o]
        \/ other = cur /\ cur' = cur + power_of2[o]
    BY <2>1
  <2> HIDE DEF o, other, right
  <2>4. Coalesced(push_to_list(set_order(mem, other, o), other), NULL_IDX)
    <3>1. CASE cur' = cur /\ other = cur + power_of2[o]
      BY <1>1, <2>2, <3>1, ListHalfCoal
    <3>2. CASE other = cur /\ cur' = cur + power_of2[o]
      BY <1>1, <2>2, <3>2, ListHalfCoal
    <3> QED
      BY <2>3, <3>1, <3>2
  <2> QED
    BY <2>1, <2>4 DEF CoalInv
<1>4. CASE ReserveDone
  <2>1. /\ pc = "reserve" /\ pc' = "memregs" /\ cur_o = target_o
        /\ mem' = set_order(mem, cur, target_o)
    BY <1>4 DEF ReserveDone
  <2>2. /\ cur \in Pages /\ target_o \in Orders /\ Clear(mem, lent, cur, target_o)
        /\ Coalesced(mem, NULL_IDX)
    BY <2>1 DEF IInv, TypeOK, TransitInv, CoalInv
  <2>3. ~mem.free[cur]
    BY <1>1, <2>2, ClearUnused DEF Used
  <2>4. Coalesced(mem', NULL_IDX)
    BY <1>1, <2>1, <2>2, <2>3, MarkCoal
  <2> QED
    BY <2>1, <2>4 DEF CoalInv
<1> QED
  BY <1>2, <1>3, <1>4

LEMMA MallocCoal == IInv /\ CoalInv /\ Malloc => CoalInv'
<1> SUFFICES ASSUME IInv, CoalInv, NEW o \in Orders,
                    MallocPop(o) \/ MallocSplit(o) \/ MallocPanic(o)
             PROVE  CoalInv'
  BY DEF Malloc
<1>1. lent \in Lent /\ Good(mem, lent) /\ mem \in Memory /\ Coalesced(mem, NULL_IDX)
  BY DEF IInv, TypeOK, Lent, Good, CoalInv, MallocPop, MallocSplit, MallocPanic
<1>2. CASE MallocPop(o)
  <2> DEFINE i == mem.free_lists[o]
  <2>1. pc' = "ready" /\ i # NULL_IDX /\ mem' = remove_from_list(mem, i)
    BY <1>2 DEF MallocPop
  <2>2. i \in Pages
    BY <1>1, <2>1 DEF Memory
  <2>3. Coalesced(mem', NULL_IDX)
    BY <1>1, <2>1, <2>2, RemoveCoal
  <2> QED
    BY <2>1, <2>3 DEF CoalInv
<1>3. CASE MallocSplit(o)
  <2>1. PICK k \in (o + 1) .. MAX_ORDER :
          /\ mem.free_lists[k] # NULL_IDX
          /\ mem' = set_order(remove_from_list(mem, mem.free_lists[k]), mem.free_lists[k], o)
    BY <1>3 DEF MallocSplit
  <2>2. pc' = "split" /\ k \in Orders
    BY <1>3, Bounds DEF MallocSplit, Orders
  <2> DEFINE i == mem.free_lists[k]
             m == remove_from_list(mem, i)
  <2>3. i \in Pages /\ mem.free[i]
    BY <1>1, <2>1, <2>2 DEF Good, Memory, LinksOK
  <2>4. m \in Memory /\ ~m.free[i]
    <3>1. m \in Memory /\ m.free = [mem.free EXCEPT ![i] = FALSE]
      BY <1>1, <2>3, RemoveLemma DEF Good
    <3> QED
      BY <1>1, <2>3, <3>1 DEF Memory
  <2>5. Coalesced(m, NULL_IDX)
    BY <1>1, <2>3, RemoveCoal
  <2>6. mem' = set_order(m, i, o)
    BY <2>1
  <2> HIDE DEF i, m
  <2>7. Coalesced(mem', NULL_IDX)
    BY <2>3, <2>4, <2>5, <2>6, MarkCoal
  <2> QED
    BY <2>2, <2>7 DEF CoalInv
<1>4. CASE MallocPanic(o)
  BY <1>1, <1>4 DEF MallocPanic, CoalInv
<1> QED
  BY <1>2, <1>3, <1>4

LEMMA SplitCoal == IInv /\ CoalInv /\ (SplitStep \/ SplitDone) => CoalInv'
<1> SUFFICES ASSUME IInv, CoalInv, SplitStep \/ SplitDone
             PROVE  CoalInv'
  OBVIOUS
<1>1. lent \in Lent /\ Good(mem, lent) /\ pc = "split" /\ Coalesced(mem, NULL_IDX)
  BY DEF IInv, TypeOK, Lent, Good, CoalInv, SplitStep, SplitDone
<1>2. CASE SplitStep
  <2> DEFINE o == cur_o - 1
             b == buddy_of(cur, o)
  <2>1. pc' = "split" /\ cur_o > target_o /\ mem' = push_to_list(set_order(mem, b, o), b)
    BY <1>2 DEF SplitStep
  <2>2. /\ cur_o \in Orders /\ o \in Orders /\ cur_o = o + 1 /\ cur_o # 0
        /\ cur \in Pages /\ Fits(cur, cur_o) /\ Clear(mem, lent, cur, cur_o)
    BY <1>1, <2>1, Bounds DEF IInv, TypeOK, TransitInv, Orders
  <2>3. b = cur + power_of2[o]
    BY <2>2, SplitBlock DEF Fits
  <2> HIDE DEF o, b
  <2>4. Coalesced(push_to_list(set_order(mem, b, o), b), NULL_IDX)
    BY <1>1, <2>2, <2>3, ListHalfCoal
  <2> QED
    BY <2>1, <2>4 DEF CoalInv
<1>3. CASE SplitDone
  BY <1>1, <1>3 DEF SplitDone, CoalInv
<1> QED
  BY <1>2, <1>3

LEMMA FreeCoal ==
  ASSUME IInv, CoalInv, NEW i \in Pages, Free(i)
  PROVE  CoalInv'
<1>1. mem \in Memory /\ pc = "ready" /\ Coalesced(mem, NULL_IDX) /\ lent[i] # NotLent
  BY DEF Free, IInv, TypeOK, CoalInv
<1>2. ~mem.free[i]
  BY <1>1 DEF IInv, Placed
<1>3. pc' = "merge" /\ mem' = push_to_list(mem, i) /\ cur' = i
  BY <1>2 DEF Free
<1>4. Coalesced(mem', i)
  BY <1>1, <1>3, PushCoalExcept
<1> QED
  BY <1>3, <1>4 DEF CoalInv

LEMMA MergeStepCoal == IInv /\ CoalInv /\ MergeStep => CoalInv'
<1> SUFFICES ASSUME IInv, CoalInv, MergeStep
             PROVE  CoalInv'
  OBVIOUS
<1> DEFINE o == mem.order[cur]
           b == buddy_of(cur, o)
           left == IF cur < b THEN cur ELSE b
           m1 == remove_from_list(mem, cur)
           m2 == remove_from_list(m1, b)
           m3 == set_order(m2, left, o + 1)
<1>1. mem' = push_to_list(m3, left) /\ pc = "merge" /\ pc' = "merge" /\ cur' = left
  BY DEF MergeStep
<1>2. /\ cur \in Pages /\ b \in Pages /\ left \in Pages /\ b # cur
      /\ mem.free[cur] /\ mem.free[b] /\ o + 1 \in Orders
      /\ left = cur \/ left = b
  BY MergePair
<1>3. mem \in Memory /\ LinksOK(mem) /\ Coalesced(mem, cur)
  BY <1>1 DEF IInv, TypeOK, CoalInv
<1> HIDE DEF o, b, left
<1>4. /\ m1 \in Memory /\ LinksOK(m1)
      /\ m1.free = [mem.free EXCEPT ![cur] = FALSE]
  BY <1>2, <1>3, RemoveLemma
<1>5. Coalesced(m1, NULL_IDX)
  BY <1>2, <1>3, RemoveCoal
<1> HIDE DEF m1
<1>6. m1.free[b] /\ ~m1.free[cur]
  BY <1>2, <1>3, <1>4 DEF Memory
<1>7. m2 \in Memory /\ m2.free = [m1.free EXCEPT ![b] = FALSE]
  BY <1>2, <1>4, <1>6, RemoveLemma
<1>8. Coalesced(m2, NULL_IDX)
  BY <1>2, <1>4, <1>5, RemoveCoal
<1> HIDE DEF m2
<1>9. ~m2.free[left]
  BY <1>2, <1>4, <1>6, <1>7 DEF Memory
<1>10. m3 \in Memory
  BY <1>2, <1>7 DEF Memory, set_order
<1>11. Coalesced(m3, NULL_IDX)
  BY <1>2, <1>7, <1>8, <1>9, MarkCoal
<1> HIDE DEF m3
<1>12. Coalesced(mem', left)
  BY <1>1, <1>2, <1>10, <1>11, PushCoalExcept
<1> QED
  BY <1>1, <1>12 DEF CoalInv

LEMMA MergeEndCoal == IInv /\ CoalInv /\ (MergeDone \/ MergeBadNode) => CoalInv'
<1> SUFFICES ASSUME IInv, CoalInv, MergeDone \/ MergeBadNode
             PROVE  CoalInv'
  OBVIOUS
<1>1. pc = "merge" /\ mem' = mem /\ Coalesced(mem, cur)
  BY DEF MergeDone, MergeBadNode, CoalInv
<1>2. CASE MergeDone
  <2>1. /\ lent \in Lent /\ Placed(mem, lent) /\ mem \in Memory
        /\ cur \in Pages /\ mem.free[cur]
    BY <1>1 DEF IInv, TypeOK, Lent, MergeInv
  <2>2. \/ mem.order[cur] = MAX_ORDER
        \/ ~is_free_block(mem, buddy_of(cur, mem.order[cur]), mem.order[cur])
    BY <1>2 DEF MergeDone, MergesWith
  <2>3. Coalesced(mem, NULL_IDX)
    BY <1>1, <2>1, <2>2, CloseCoal
  <2> QED
    BY <1>1, <1>2, <2>3 DEF MergeDone, CoalInv
<1>3. CASE MergeBadNode
  BY <1>1, <1>3 DEF MergeBadNode, CoalInv
<1> QED
  BY <1>2, <1>3

\* Every step keeps free buddies merged.
LEMMA NextCoal ==
  IInv /\ CoalInv /\ DecreasingInv /\ [Next]_vars => CoalInv' /\ DecreasingInv'
<1> SUFFICES ASSUME IInv, CoalInv, DecreasingInv, [Next]_vars
             PROVE  CoalInv' /\ DecreasingInv'
  OBVIOUS
<1>1. CASE InitBlock
  BY <1>1, InitBlockCoal
<1>2. CASE UNCHANGED vars
  BY <1>2 DEF vars, CoalInv, DecreasingInv
<1>3. CASE ~InitBlock /\ ~UNCHANGED vars
  <2>1. \/ InitDone \/ NextRegion
        \/ ReserveFind \/ ReserveHalve \/ ReserveDone
        \/ SplitStep \/ SplitDone \/ MergeStep \/ MergeDone \/ MergeBadNode
        \/ Malloc \/ \E i \in Pages : Free(i)
    BY <1>3 DEF Next, Step, Hang
  <2>2. pc' # "init"
    BY <2>1 DEF InitDone, NextRegion, EnterRegion, ReserveFind, ReserveHalve, ReserveDone,
                SplitStep, SplitDone, MergeStep, MergeDone, MergeBadNode,
                Malloc, MallocPop, MallocSplit, MallocPanic, Free
  <2>3. ASSUME InitDone \/ NextRegion
        PROVE  CoalInv'
    <3>1. mem' = mem /\ pc \in {"init", "memregs"} /\ pc' \in {"memregs", "ready"}
      BY <2>3 DEF InitDone, NextRegion, EnterRegion
    <3>2. Coalesced(mem, NULL_IDX)
      BY <3>1 DEF CoalInv
    <3> QED
      BY <3>1, <3>2 DEF CoalInv
  <2>4. CoalInv'
    BY <2>1, <2>3, ReserveCoal, MallocCoal, SplitCoal, FreeCoal, MergeStepCoal, MergeEndCoal
  <2> QED
    BY <2>2, <2>4 DEF DecreasingInv
<1> QED
  BY <1>1, <1>2, <1>3

-----------------------------------------------------------------------------
(* The alarms. *)

\* An aligned run that no lent block meets lies in one free block: between
\* calls every page is in a block, and free buddies are merged.
LEMMA RunInFreeBlock ==
  ASSUME IInv, CoverInv, Coalesced(mem, NULL_IDX),
         pc \notin {"init", "reserve", "split"},
         NEW i \in Pages, NEW o \in Orders, Fits(i, o),
         \A k \in Pages : lent[k] # NotLent => Apart(k, mem.order[k], i, o)
  PROVE  \E c \in Pages : /\ mem.free[c] /\ o <= mem.order[c]
                          /\ c <= i /\ i + power_of2[o] <= c + power_of2[mem.order[c]]
<1> DEFINE P(a) == power_of2[a]
           Meets(k) == k < i + P(o) /\ i < k + P(mem.order[k])
           S == {a \in Orders : \E k \in Pages : mem.free[k] /\ mem.order[k] = a /\ Meets(k)}
<1>1. /\ mem \in Memory /\ lent \in Lent /\ Placed(mem, lent)
      /\ i \in Nat /\ P(o) \in Nat \ {0} /\ i + P(o) <= N /\ Aligned(i, o)
  BY Sizes, Bounds DEF IInv, TypeOK, Lent, Fits
<1>2. ASSUME NEW k \in Pages
      PROVE  /\ k \in Nat /\ k < N /\ mem.order[k] \in Orders
             /\ P(mem.order[k]) \in Nat \ {0}
             /\ mem.free[k] => Aligned(k, mem.order[k])
  BY <1>1, Sizes, Bounds DEF Memory, Placed, Used, Fits
<1>3. ASSUME NEW p \in Nat, i <= p, p < i + P(o)
      PROVE  \E c \in Pages : mem.free[c] /\ c <= p /\ p < c + P(mem.order[c]) /\ Meets(c)
  <2>1. p \in Pages
    BY <1>1, <1>3, Bounds
  <2>2. Covered(mem, lent, p)
    BY <2>1 DEF CoverInv
  <2>3. PICK c \in Pages : Used(mem, lent, c) /\ InRun(c, mem.order[c], p)
    BY <2>2 DEF Covered
  <2>4. c <= p /\ p < c + P(mem.order[c])
    BY <2>3 DEF InRun
  <2>5. Meets(c)
    BY <1>1, <1>2, <1>3, <2>4
  <2>6. ~Apart(c, mem.order[c], i, o)
    BY <1>1, <1>2, <1>3, <2>4 DEF Apart
  <2>7. mem.free[c]
    BY <2>3, <2>6 DEF Used
  <2> QED
    BY <2>4, <2>5, <2>7
<1>4. S # {} /\ S \in SUBSET Nat
  <2>1. PICK c \in Pages : mem.free[c] /\ Meets(c)
    BY <1>1, <1>3
  <2>2. mem.order[c] \in S
    BY <1>2, <2>1
  <2> QED
    BY <2>2 DEF Orders
<1>5. PICK a \in S : \A d \in S : a <= d
  BY <1>4, HasLeast
<1>6. PICK k \in Pages : mem.free[k] /\ mem.order[k] = a /\ Meets(k)
  BY <1>5
<1>7. a \in Orders /\ k \in Nat /\ Aligned(k, a) /\ P(a) \in Nat \ {0}
      /\ k < i + P(o) /\ i < k + P(a)
  BY <1>2, <1>5, <1>6
<1> HIDE DEF S
<1>8. CASE o <= a
  <2>1. k <= i /\ i + P(o) <= k + P(a)
    BY <1>1, <1>7, <1>8, RunsNest
  <2> QED
    BY <1>6, <1>8, <2>1
<1>9. CASE a < o
  <2>1. a # MAX_ORDER /\ a + 1 \in Orders /\ a + 1 <= o /\ P(a + 1) = 2 * P(a)
    <3>1. a # MAX_ORDER
      BY <1>7, <1>9, Bounds DEF Orders
    <3> QED
      BY <1>7, <1>9, <3>1, Sizes DEF Orders
  <2> DEFINE b == buddy_of(k, a)
             s == IF k < b THEN k ELSE b
  <2>2. /\ b \in Nat /\ Aligned(b, a)
        /\ \/ b = k + P(a) /\ Aligned(k, a + 1)
           \/ k = b + P(a) /\ Aligned(b, a + 1)
    BY <1>7, <2>1, MergeBlock
  <2> HIDE DEF b
  <2>3. /\ s \in Nat /\ Aligned(s, a + 1)
        /\ s <= k /\ k < s + P(a + 1) /\ s <= b /\ b + P(a) <= s + P(a + 1)
        /\ k + P(a) <= s + P(a + 1)
        /\ b # k /\ (b + P(a) <= k \/ k + P(a) <= b)
    BY <1>7, <2>1, <2>2
  <2> HIDE DEF s
  <2>4. i <= k /\ k + P(a) <= i + P(o)
    <3>1. a <= o
      BY <1>7, <1>9 DEF Orders
    <3> QED
      BY <1>1, <1>7, <3>1, RunsNest
  <2>5. i <= s /\ s + P(a + 1) <= i + P(o)
    <3>1. s < i + P(o) /\ i < s + P(a + 1)
      <4>1. i \in Nat /\ k \in Nat /\ s \in Nat /\ P(o) \in Nat /\ P(a + 1) \in Nat
        BY <1>1, <1>7, <2>1, <2>3
      <4>2. s <= k /\ k < s + P(a + 1) /\ i <= k /\ k < i + P(o)
        BY <1>7, <2>3, <2>4
      <4> QED
        BY <4>1, <4>2
    <3> QED
      BY <1>1, <2>1, <2>3, <3>1, RunsNest
  <2>6. i <= b /\ b < i + P(o)
    <3>1. /\ i \in Nat /\ s \in Nat /\ b \in Nat /\ P(o) \in Nat /\ P(a + 1) \in Nat
          /\ P(a) \in Nat \ {0}
      BY <1>1, <1>7, <2>1, <2>2, <2>3
    <3>2. i <= s /\ s <= b /\ b + P(a) <= s + P(a + 1) /\ s + P(a + 1) <= i + P(o)
      BY <2>3, <2>5
    <3> QED
      BY <3>1, <3>2
  <2>7. PICK c \in Pages : mem.free[c] /\ c <= b /\ b < c + P(mem.order[c]) /\ Meets(c)
    BY <1>3, <2>2, <2>6
  <2>8. mem.order[c] \in S /\ a <= mem.order[c]
    BY <1>2, <1>5, <2>7 DEF S
  <2>9. c \in Nat /\ mem.order[c] \in Orders /\ Aligned(c, mem.order[c])
        /\ P(mem.order[c]) \in Nat \ {0}
    BY <1>2, <2>7
  <2>10. CASE mem.order[c] = a
    <3>1. c = b
      BY <1>7, <2>2, <2>7, <2>9, <2>10, ModClose DEF Aligned
    <3>2. b \in Pages /\ k \in Pages /\ b = buddy_of(k, mem.order[k])
          /\ mem.order[k] # MAX_ORDER /\ NULL_IDX \notin Pages
      BY <1>6, <2>1, <3>1 DEF b, NULL_IDX, Pages
    <3>3. ~is_free_block(mem, b, a)
      BY <1>6, <3>2 DEF Coalesced
    <3> QED
      BY <2>7, <2>10, <3>1, <3>3 DEF is_free_block
  <2>11. CASE a < mem.order[c]
    <3>1. a + 1 <= mem.order[c]
      BY <1>7, <2>1, <2>9, <2>11 DEF Orders
    <3>2. s < c + P(mem.order[c]) /\ c < s + P(a + 1)
      BY <1>7, <2>1, <2>2, <2>3, <2>7, <2>9
    <3>3. c <= s /\ s + P(a + 1) <= c + P(mem.order[c])
      BY <2>1, <2>3, <2>9, <3>1, <3>2, RunsNest
    <3>4. c # k
      BY <1>6, <2>11, <1>7 DEF Orders
    <3>5. Apart(k, a, c, mem.order[c])
      BY <1>1, <1>6, <2>7, <3>4 DEF Placed, Used
    <3> QED
      BY <1>7, <2>1, <2>3, <2>9, <3>3, <3>5 DEF Apart
  <2> QED
    BY <2>8, <2>9, <2>10, <2>11, <1>7 DEF Orders
<1>10. o <= a \/ a < o
  BY <1>7, Bounds DEF Orders
<1> QED
  BY <1>8, <1>9, <1>10

-----------------------------------------------------------------------------
(* The lists end at their heads. *)

\* The nodes of a list are ranked from its head: a push takes a rank below
\* all others.
Ranked(m) ==
  \E lo \in Int, rank \in [Pages -> Int] :
    /\ \A i \in Pages : lo <= rank[i]
    /\ \A i, k \in Pages : m.free[i] /\ m.prev[i] = k => rank[k] < rank[i]

\* The calls inside a step keep the lists ranked.
LEMMA MarkRanked ==
  ASSUME NEW m \in Memory, NEW i \in Pages, NEW o \in Orders, Ranked(m)
  PROVE  Ranked(set_order(m, i, o))
  BY DEF Ranked, set_order, Memory

LEMMA PushRanked ==
  ASSUME NEW m \in Memory, NEW i \in Pages, ~m.free[i], LinksOK(m), Ranked(m)
  PROVE  Ranked(push_to_list(m, i))
<1> DEFINE q == push_to_list(m, i)
           h == m.free_lists[m.order[i]]
<1>1. PICK lo \in Int, rank \in [Pages -> Int] :
        /\ \A k \in Pages : lo <= rank[k]
        /\ \A k, n \in Pages : m.free[k] /\ m.prev[k] = n => rank[n] < rank[k]
  BY DEF Ranked
<1>2. /\ q.free = [m.free EXCEPT ![i] = TRUE]
      /\ q.prev = [k \in Pages |-> IF k = i THEN NULL_IDX
                                   ELSE IF k = h THEN i ELSE m.prev[k]]
  BY DEF push_to_list
<1>3. NULL_IDX \notin Pages
  BY DEF NULL_IDX, Pages
<1>4. \A k \in Pages : k # i => q.free[k] = m.free[k]
  BY <1>2 DEF Memory
<1>5. \A k \in Pages : m.free[k] => m.prev[k] # i
  BY DEF LinksOK
<1> HIDE DEF q, h
<1> DEFINE r == [rank EXCEPT ![i] = lo - 1]
<1>6. r \in [Pages -> Int] /\ r[i] = lo - 1 /\ \A k \in Pages : k # i => r[k] = rank[k]
  BY <1>1
<1> HIDE DEF r
<1>7. \A k \in Pages : lo - 1 <= r[k]
  BY <1>1, <1>6
<1>8. ASSUME NEW k \in Pages, NEW n \in Pages, q.free[k], q.prev[k] = n
      PROVE  r[n] < r[k]
  <2>1. k # i
    BY <1>2, <1>3, <1>8
  <2>2. m.free[k] /\ r[k] = rank[k] /\ lo <= rank[k] /\ rank[k] \in Int
    BY <1>1, <1>4, <1>6, <1>8, <2>1
  <2>3. CASE k = h
    <3>1. n = i
      BY <1>2, <1>8, <2>1, <2>3
    <3> QED
      BY <1>1, <1>6, <2>2, <3>1
  <2>4. CASE k # h
    <3>1. m.prev[k] = n
      BY <1>2, <1>8, <2>1, <2>4
    <3>2. n # i /\ rank[n] < rank[k]
      BY <1>1, <1>5, <2>2, <3>1
    <3> QED
      BY <1>6, <2>2, <3>2
  <2> QED
    BY <2>3, <2>4
<1>9. lo - 1 \in Int
  BY <1>1
<1>10. Ranked(q)
  BY <1>6, <1>7, <1>8, <1>9 DEF Ranked
<1> QED
  BY <1>10 DEF q

LEMMA RemoveRanked ==
  ASSUME NEW m \in Memory, NEW i \in Pages, m.free[i], LinksOK(m), Ranked(m)
  PROVE  Ranked(remove_from_list(m, i))
<1> DEFINE q == remove_from_list(m, i)
           p == m.prev[i]
           n == m.next[i]
<1>1. PICK lo \in Int, rank \in [Pages -> Int] :
        /\ \A k \in Pages : lo <= rank[k]
        /\ \A k, c \in Pages : m.free[k] /\ m.prev[k] = c => rank[c] < rank[k]
  BY DEF Ranked
<1>2. /\ q.free = [m.free EXCEPT ![i] = FALSE]
      /\ q.prev = [k \in Pages |-> IF k = i THEN NULL_IDX
                                   ELSE IF k = n THEN p ELSE m.prev[k]]
  BY DEF remove_from_list
<1>3. \A k \in Pages : q.free[k] => m.free[k]
  BY <1>2 DEF Memory
<1>4. ASSUME NEW k \in Pages, NEW c \in Pages, q.free[k], q.prev[k] = c
      PROVE  rank[c] < rank[k]
  <2>1. k # i
    BY <1>2, <1>4 DEF Memory
  <2>2. CASE k = n
    <3>1. c = p /\ m.free[n] /\ m.prev[n] = i
      BY <1>2, <1>4, <2>1, <2>2 DEF LinksOK
    <3>2. rank[p] < rank[i] /\ rank[i] < rank[n]
      BY <1>1, <1>4, <2>2, <3>1
    <3>3. rank[p] \in Int /\ rank[i] \in Int /\ rank[n] \in Int
      BY <1>1, <1>4, <2>2, <3>1
    <3> QED
      BY <2>2, <3>1, <3>2, <3>3
  <2>3. CASE k # n
    <3>1. m.prev[k] = c
      BY <1>2, <1>4, <2>1, <2>3
    <3> QED
      BY <1>1, <1>3, <1>4, <3>1
  <2> QED
    BY <2>2, <2>3
<1> HIDE DEF q
<1>5. Ranked(q)
  BY <1>1, <1>4 DEF Ranked
<1> QED
  BY <1>5 DEF q

\* Where the ranking reaches: a nonempty set of ranked pages has a first.
LEMMA FirstRanked ==
  ASSUME NEW lo \in Int, NEW rank \in [Pages -> Int],
         \A i \in Pages : lo <= rank[i],
         NEW S \in SUBSET Pages, S # {}
  PROVE  \E x \in S : \A y \in S : rank[x] <= rank[y]
<1> DEFINE T == {rank[x] - lo : x \in S}
<1>1. T \in SUBSET Nat /\ T # {}
  OBVIOUS
<1>2. PICK t \in T : \A u \in T : t <= u
  <2> HIDE DEF T
  <2> QED
    BY <1>1, HasLeast
<1>3. PICK x \in S : t = rank[x] - lo
  BY <1>2
<1>4. ASSUME NEW y \in S
      PROVE  rank[x] <= rank[y]
  <2>1. rank[y] - lo \in T
    OBVIOUS
  <2>2. rank[x] - lo <= rank[y] - lo
    BY <1>2, <1>3, <2>1
  <2> QED
    BY <2>2
<1> QED
  BY <1>4

\* The list of the order of a free block is not empty.
LEMMA ListNotEmpty ==
  ASSUME NEW m \in Memory, LinksOK(m), Ranked(m), NEW i \in Pages, m.free[i]
  PROVE  m.free_lists[m.order[i]] # NULL_IDX
<1>1. PICK lo \in Int, rank \in [Pages -> Int] :
        /\ \A k \in Pages : lo <= rank[k]
        /\ \A k, n \in Pages : m.free[k] /\ m.prev[k] = n => rank[n] < rank[k]
  BY DEF Ranked
<1> DEFINE S == {k \in Pages : m.free[k] /\ m.order[k] = m.order[i]}
<1>2. PICK x \in S : \A y \in S : rank[x] <= rank[y]
  <2>1. S \in SUBSET Pages /\ S # {}
    OBVIOUS
  <2> HIDE DEF S
  <2> QED
    BY <1>1, <2>1, FirstRanked
<1>3. m.prev[x] = NULL_IDX
  <2> SUFFICES ASSUME m.prev[x] # NULL_IDX
               PROVE  FALSE
    OBVIOUS
  <2>1. m.prev[x] \in Pages
    BY DEF Memory
  <2>2. m.prev[x] \in S
    BY <2>1 DEF LinksOK
  <2>3. rank[m.prev[x]] < rank[x] /\ rank[x] <= rank[m.prev[x]]
    BY <1>1, <1>2, <2>1, <2>2
  <2>4. rank[m.prev[x]] \in Int /\ rank[x] \in Int
    BY <1>1, <2>1
  <2> QED
    BY <2>3, <2>4
<1>4. m.free_lists[m.order[i]] = x
  BY <1>3 DEF LinksOK
<1> QED
  BY <1>4 DEF NULL_IDX, Pages

\* So does every action.
LEMMA NextRanked == IInv /\ Ranked(mem) /\ [Next]_vars => Ranked(mem')
<1> SUFFICES ASSUME IInv, Ranked(mem), [Next]_vars
             PROVE  Ranked(mem')
  OBVIOUS
<1>1. mem \in Memory /\ LinksOK(mem) /\ lent \in Lent /\ Good(mem, lent)
  BY DEF IInv, TypeOK, Lent, Good
<1>2. ASSUME NEW i \in Pages, NEW o \in Orders, ~mem.free[i]
      PROVE  Ranked(push_to_list(set_order(mem, i, o), i))
  <2> DEFINE m == set_order(mem, i, o)
  <2>1. m \in Memory /\ LinksOK(m) /\ ~m.free[i]
    BY <1>1, <1>2, SetOrderLemma
  <2>2. Ranked(m)
    BY <1>1, MarkRanked
  <2> HIDE DEF m
  <2>3. Ranked(push_to_list(m, i))
    BY <2>1, <2>2, PushRanked
  <2> QED
    BY <2>3 DEF m
<1>3. CASE InitBlock
  <2>1. PICK o \in Orders : mem' = push_to_list(set_order(mem, cur, o), cur)
    BY <1>3 DEF InitBlock
  <2>2. cur \in Pages /\ cur \in Nat
    BY <1>3, Bounds DEF InitBlock, IInv, TypeOK, InitInv
  <2>3. ~mem.free[cur]
    <3> SUFFICES ASSUME mem.free[cur]
                 PROVE  FALSE
      OBVIOUS
    <3>1. cur + power_of2[mem.order[cur]] <= cur
      BY <1>3, <2>2 DEF InitBlock, IInv, InitInv
    <3>2. power_of2[mem.order[cur]] \in Nat \ {0}
      BY <1>1, <2>2, Sizes DEF Memory
    <3> QED
      BY <2>2, <3>1, <3>2
  <2> QED
    BY <1>2, <2>1, <2>2, <2>3
<1>4. CASE ReserveFind
  <2>1. pc = "memregs" /\ remaining > 0
    BY <1>4 DEF ReserveFind
  <2>2. j \in Nat /\ j < N
    BY <2>1, Bounds DEF IInv, TypeOK, RegionInv
  <2>3. PICK o \in Orders :
          \/ mem' = mem
          \/ \E k \in o .. MAX_ORDER :
               /\ is_free_block(mem, parent_at_order(j, k), k)
               /\ mem' = remove_from_list(mem, parent_at_order(j, k))
    BY <1>4, Zenon DEF ReserveFind
  <2>4. ASSUME NEW k \in o .. MAX_ORDER,
               is_free_block(mem, parent_at_order(j, k), k),
               mem' = remove_from_list(mem, parent_at_order(j, k))
        PROVE  Ranked(mem')
    <3>1. k \in Orders
      BY Bounds DEF Orders
    <3>2. parent_at_order(j, k) \in Pages
      BY <2>2, <3>1, ParentBlock, Bounds
    <3> QED
      BY <1>1, <2>4, <3>2, RemoveRanked DEF is_free_block
  <2> QED
    BY <2>3, <2>4
<1>5. CASE ReserveHalve
  <2> DEFINE o == cur_o - 1
             right == cur + power_of2[o]
             other == IF j < right THEN right ELSE cur
  <2>1. /\ pc = "reserve" /\ cur_o > target_o
        /\ mem' = push_to_list(set_order(mem, other, o), other)
    BY <1>5 DEF ReserveHalve, InLeftHalf
  <2>2. /\ cur_o \in Orders /\ o \in Orders /\ cur_o = o + 1
        /\ cur \in Pages /\ Fits(cur, cur_o) /\ Clear(mem, lent, cur, cur_o)
    BY <2>1, Bounds DEF IInv, TypeOK, TransitInv, Orders
  <2>3. \/ other = cur + power_of2[o]
        \/ other = cur
    OBVIOUS
  <2> HIDE DEF o, other, right
  <2>4. other \in Pages /\ ~mem.free[other]
    BY <1>1, <2>2, <2>3, HalfUnused
  <2> QED
    BY <1>2, <2>1, <2>2, <2>4
<1>6. CASE ReserveDone
  <2>1. cur \in Pages /\ target_o \in Orders /\ mem' = set_order(mem, cur, target_o)
    BY <1>6 DEF ReserveDone, IInv, TypeOK, TransitInv
  <2> QED
    BY <1>1, <2>1, MarkRanked
<1>7. ASSUME NEW o \in Orders, mem.free_lists[o] # NULL_IDX
      PROVE  /\ mem.free_lists[o] \in Pages
             /\ remove_from_list(mem, mem.free_lists[o]) \in Memory
             /\ Ranked(remove_from_list(mem, mem.free_lists[o]))
  <2>1. mem.free_lists[o] \in Pages /\ mem.free[mem.free_lists[o]]
    BY <1>1, <1>7 DEF Memory, LinksOK
  <2> QED
    BY <1>1, <2>1, RemoveLemma, RemoveRanked
<1>8. CASE Malloc
  <2>1. PICK o \in Orders : MallocPop(o) \/ MallocSplit(o) \/ MallocPanic(o)
    BY <1>8 DEF Malloc
  <2>2. CASE MallocPop(o)
    BY <1>7, <2>2 DEF MallocPop
  <2>3. CASE MallocSplit(o)
    <3>1. PICK k \in (o + 1) .. MAX_ORDER :
            /\ mem.free_lists[k] # NULL_IDX
            /\ mem' = set_order(remove_from_list(mem, mem.free_lists[k]), mem.free_lists[k], o)
      BY <2>3 DEF MallocSplit
    <3>2. k \in Orders
      BY Bounds DEF Orders
    <3> QED
      BY <1>7, <3>1, <3>2, MarkRanked
  <2> QED
    BY <2>1, <2>2, <2>3 DEF MallocPanic
<1>9. CASE SplitStep
  <2> DEFINE o == cur_o - 1
             b == buddy_of(cur, o)
  <2>1. pc = "split" /\ cur_o > target_o /\ mem' = push_to_list(set_order(mem, b, o), b)
    BY <1>9 DEF SplitStep
  <2>2. /\ cur_o \in Orders /\ o \in Orders /\ cur_o = o + 1 /\ cur_o # 0
        /\ cur \in Pages /\ Fits(cur, cur_o) /\ Clear(mem, lent, cur, cur_o)
    BY <2>1, Bounds DEF IInv, TypeOK, TransitInv, Orders
  <2>3. b = cur + power_of2[o]
    BY <2>2, SplitBlock DEF Fits
  <2> HIDE DEF o, b
  <2>4. b \in Pages /\ ~mem.free[b]
    BY <1>1, <2>2, <2>3, HalfUnused
  <2> QED
    BY <1>2, <2>1, <2>2, <2>4
<1>10. ASSUME NEW i \in Pages, Free(i)
       PROVE  Ranked(mem')
  <2>1. CASE mem.free[i]
    BY <1>10, <2>1 DEF Free
  <2>2. CASE ~mem.free[i]
    BY <1>1, <1>10, <2>2, PushRanked DEF Free
  <2> QED
    BY <2>1, <2>2
<1>11. CASE MergeStep
  <2> DEFINE o == mem.order[cur]
             b == buddy_of(cur, o)
             left == IF cur < b THEN cur ELSE b
             m1 == remove_from_list(mem, cur)
             m2 == remove_from_list(m1, b)
             m3 == set_order(m2, left, o + 1)
  <2>1. mem' = push_to_list(m3, left)
    BY <1>11 DEF MergeStep
  <2>2. /\ cur \in Pages /\ b \in Pages /\ left \in Pages /\ b # cur
        /\ mem.free[cur] /\ mem.free[b] /\ o + 1 \in Orders
        /\ left = cur \/ left = b
    BY <1>11, MergePair
  <2> HIDE DEF o, b, left
  <2>3. /\ m1 \in Memory /\ LinksOK(m1) /\ Ranked(m1)
        /\ m1.free = [mem.free EXCEPT ![cur] = FALSE]
    BY <1>1, <2>2, RemoveLemma, RemoveRanked
  <2> HIDE DEF m1
  <2>4. m1.free[b] /\ ~m1.free[cur]
    BY <1>1, <2>2, <2>3 DEF Memory
  <2>5. /\ m2 \in Memory /\ LinksOK(m2) /\ Ranked(m2)
        /\ m2.free = [m1.free EXCEPT ![b] = FALSE]
    BY <2>2, <2>3, <2>4, RemoveLemma, RemoveRanked
  <2> HIDE DEF m2
  <2>6. ~m2.free[left]
    BY <2>2, <2>3, <2>4, <2>5 DEF Memory
  <2>7. m3 \in Memory /\ LinksOK(m3) /\ m3.free = m2.free /\ Ranked(m3)
    <3> DEFINE up == o + 1
    <3>1. /\ up \in Orders /\ left \in Pages /\ m2 \in Memory
          /\ LinksOK(m2) /\ ~m2.free[left] /\ Ranked(m2)
      BY <2>2, <2>5, <2>6
    <3>2. m3 = set_order(m2, left, up)
      OBVIOUS
    <3> HIDE DEF up, m3
    <3>3. m3 \in Memory /\ LinksOK(m3) /\ m3.free = m2.free
      BY <3>1, <3>2, SetOrderLemma
    <3>4. Ranked(m3)
      BY <3>1, <3>2, MarkRanked
    <3> QED
      BY <3>3, <3>4
  <2> HIDE DEF m3
  <2> QED
    BY <2>1, <2>2, <2>6, <2>7, PushRanked
<1>12. CASE UNCHANGED mem
  BY <1>12
<1>13. CASE InitDone \/ NextRegion \/ SplitDone \/ MergeDone \/ MergeBadNode \/ UNCHANGED vars
  BY <1>12, <1>13 DEF InitDone, NextRegion, SplitDone, MergeDone, MergeBadNode, vars
<1> QED
  BY <1>3, <1>4, <1>5, <1>6, <1>8, <1>9, <1>10, <1>11, <1>13 DEF Next, Step, Hang

-----------------------------------------------------------------------------
(* No false alarm. *)

\* What a walk over the regions has lent lies below the page it is at.
BootInv ==
  pc \in {"memregs", "reserve"} =>
    /\ j + remaining <= MemRegs[reg].addr + MemRegs[reg].pages
    /\ \A i \in Pages : lent[i] # NotLent => i + power_of2[mem.order[i]] <= j

\* A region is entered with all that is lent below it.
LEMMA EnterBoot ==
  ASSUME IInv, NEW r \in Nat, EnterRegion(r), mem' = mem, lent' = lent,
         \A i \in Pages, s \in DOMAIN MemRegs :
           lent[i] # NotLent /\ s = r => i + power_of2[mem.order[i]] <= MemRegs[s].addr
  PROVE  BootInv'
<1>1. CASE r \in DOMAIN MemRegs
  <2>1. /\ pc' = "memregs" /\ j' = MemRegs[r].addr /\ remaining' = MemRegs[r].pages
        /\ reg' = r
    BY <1>1 DEF EnterRegion
  <2>2. MemRegs[r].addr \in Nat /\ MemRegs[r].pages \in Nat
    BY <1>1, Bounds
  <2>3. \A i \in Pages : lent'[i] # NotLent => i + power_of2[mem'.order[i]] <= j'
    BY <1>1, <2>1
  <2>4. j' + remaining' <= MemRegs[reg'].addr + MemRegs[reg'].pages
    BY <2>1, <2>2
  <2> QED
    BY <2>3, <2>4 DEF BootInv
<1>2. CASE r \notin DOMAIN MemRegs
  BY <1>2 DEF EnterRegion, BootInv
<1> QED
  BY <1>1, <1>2

\* What is lent stays below the page reserved next.
LEMMA NextBoot == IInv /\ BootInv /\ [Next]_vars => BootInv'
<1> SUFFICES ASSUME IInv, BootInv, [Next]_vars
             PROVE  BootInv'
  OBVIOUS
<1>1. mem \in Memory /\ lent \in Lent /\ Placed(mem, lent)
  BY DEF IInv, TypeOK, Lent
<1>2. CASE InitDone
  <2>1. pc = "init" /\ EnterRegion(1) /\ mem' = mem /\ lent' = lent
    BY <1>2 DEF InitDone
  <2>2. \A i \in Pages : lent[i] = NotLent
    BY <2>1 DEF IInv, InitInv
  <2> QED
    BY <2>1, <2>2, EnterBoot
<1>3. CASE NextRegion
  <2>1. /\ pc = "memregs" /\ EnterRegion(reg + 1) /\ mem' = mem /\ lent' = lent
        /\ reg \in DOMAIN MemRegs /\ reg \in Nat /\ j \in Nat /\ remaining \in Nat
    BY <1>3 DEF NextRegion, IInv, RegionInv, TypeOK
  <2>2. ASSUME NEW i \in Pages, NEW s \in DOMAIN MemRegs, lent[i] # NotLent, s = reg + 1
        PROVE  i + power_of2[mem.order[i]] <= MemRegs[s].addr
    <3>1. MemRegs[reg].addr + MemRegs[reg].pages <= MemRegs[s].addr
      <4>1. reg < s
        BY <2>1, <2>2
      <4> QED
        BY <2>1, <4>1, MemRegsAssumption
    <3>2. i + power_of2[mem.order[i]] <= j
      BY <2>1, <2>2 DEF BootInv
    <3>3. j + remaining <= MemRegs[reg].addr + MemRegs[reg].pages
      BY <2>1 DEF BootInv
    <3>4. /\ i + power_of2[mem.order[i]] \in Nat
          /\ MemRegs[reg].addr + MemRegs[reg].pages \in Nat /\ MemRegs[s].addr \in Nat
      BY <1>1, <2>1, Sizes, Bounds DEF Memory
    <3> QED
      BY <2>1, <3>1, <3>2, <3>3, <3>4
  <2> QED
    BY <2>1, <2>2, EnterBoot
<1>4. ASSUME pc \in {"memregs", "reserve"}, pc' \in {"memregs", "reserve"},
             UNCHANGED <<reg, j, remaining, lent>>,
             \A i \in Pages : lent[i] # NotLent => mem'.order[i] = mem.order[i]
      PROVE  BootInv'
  BY <1>4 DEF BootInv
<1>5. IInv'
  BY NextIInv
<1>6. \A i \in Pages : lent[i] # NotLent /\ lent' = lent => mem'.order[i] = mem.order[i]
  BY <1>1, <1>5 DEF IInv, Placed
<1>7. CASE ReserveFind
  <2>1. /\ pc = "memregs" /\ pc' \in {"double reservation", "reserve"}
        /\ UNCHANGED <<reg, j, remaining, lent>>
    BY <1>7 DEF ReserveFind
  <2>2. CASE pc' = "reserve"
    BY <1>4, <1>6, <2>1, <2>2
  <2> QED
    BY <2>1, <2>2 DEF BootInv
<1>8. CASE ReserveHalve
  <2>1. pc = "reserve" /\ pc' = "reserve" /\ UNCHANGED <<reg, j, remaining, lent>>
    BY <1>8 DEF ReserveHalve
  <2> QED
    BY <1>4, <1>6, <2>1
<1>9. CASE ReserveDone
  <2>1. /\ pc = "reserve" /\ pc' = "memregs" /\ reg' = reg
        /\ lent' = [lent EXCEPT ![j] = target_o]
        /\ remaining' = remaining - power_of2[target_o]
        /\ j' = j + power_of2[target_o]
        /\ cur_o = target_o
    BY <1>9 DEF ReserveDone
  <2>2. /\ j \in Pages /\ j \in Nat /\ remaining \in Nat /\ target_o \in Orders
        /\ power_of2[target_o] \in Nat
    BY <2>1, ReserveEnds, Sizes, Bounds
    DEF ReservesWhatIsTaken, IInv, TypeOK, TransitInv
  <2>3. reg \in DOMAIN MemRegs
    BY <2>1 DEF IInv, RegionInv
  <2>4. j' + remaining' = j + remaining
    BY <2>1, <2>2
  <2>5. ASSUME NEW i \in Pages, lent'[i] # NotLent
        PROVE  i + power_of2[mem'.order[i]] <= j'
    <3>1. mem'.order[i] = lent'[i]
      BY <1>5, <2>5 DEF IInv, Placed
    <3>2. CASE i = j
      BY <1>1, <2>1, <2>2, <3>1, <3>2 DEF Lent
    <3>3. CASE i # j
      <4>1. lent[i] = lent'[i]
        BY <1>1, <2>1, <3>3 DEF Lent
      <4>2. mem.order[i] = mem'.order[i]
        BY <1>1, <2>5, <3>1, <4>1 DEF Placed
      <4>3. i + power_of2[mem.order[i]] <= j
        BY <2>1, <2>5, <4>1 DEF BootInv
      <4>4. i + power_of2[mem.order[i]] \in Nat
        BY <1>1, Sizes, Bounds DEF Memory
      <4> QED
        BY <2>1, <2>2, <4>2, <4>3, <4>4
    <3> QED
      BY <3>2, <3>3
  <2> QED
    BY <2>1, <2>4, <2>5 DEF BootInv
<1>10. ASSUME pc' \notin {"memregs", "reserve"}
       PROVE  BootInv'
  BY <1>10 DEF BootInv
<1>11. CASE UNCHANGED vars
  BY <1>11 DEF vars, BootInv
<1>12. CASE \/ InitBlock \/ SplitStep \/ SplitDone \/ MergeStep \/ MergeDone \/ MergeBadNode
            \/ Malloc \/ \E i \in Pages : Free(i)
  BY <1>10, <1>12
  DEF InitBlock, SplitStep, SplitDone, MergeStep, MergeDone, MergeBadNode,
      Malloc, MallocPop, MallocSplit, MallocPanic, Free
<1> QED
  BY <1>2, <1>3, <1>7, <1>8, <1>9, <1>11, <1>12 DEF Next, Step, Hang

\* reserve finds its parent block: nothing at page j or above is lent yet, so
\* the run it looks for is in one free block.
LEMMA ReservationFound ==
  ASSUME IInv, CoverInv, CoalInv, BootInv, ReserveFind
  PROVE  pc' = "reserve"
<1>1. /\ pc = "memregs" /\ remaining > 0 /\ reg \in DOMAIN MemRegs
      /\ j \in Nat /\ remaining \in Nat /\ j + remaining <= N
  <2>1. pc = "memregs" /\ remaining > 0
    BY DEF ReserveFind
  <2> QED
    BY <2>1 DEF IInv, TypeOK, RegionInv
<1>2. PICK o \in Orders :
        /\ IsReserveOrder(o)
        /\ LET parents == {k \in o .. MAX_ORDER :
                             is_free_block(mem, parent_at_order(j, k), k)}
           IN  IF parents = {}
               THEN pc' = "double reservation"
               ELSE pc' = "reserve"
  BY Zenon DEF ReserveFind
<1>3. /\ Aligned(j, o) /\ power_of2[o] <= remaining /\ power_of2[o] \in Nat \ {0}
      /\ mem \in Memory /\ lent \in Lent /\ Placed(mem, lent)
      /\ j \in Pages /\ Fits(j, o)
  <2>1. Aligned(j, o) /\ power_of2[o] <= remaining
    BY <1>2 DEF IsReserveOrder
  <2>2. mem \in Memory /\ lent \in Lent /\ Placed(mem, lent)
    BY DEF IInv, TypeOK, Lent
  <2>3. power_of2[o] \in Nat \ {0}
    BY Sizes
  <2>4. j < N /\ j + power_of2[o] <= N
    BY <1>1, <2>1, <2>3, Bounds
  <2> QED
    BY <1>1, <2>1, <2>2, <2>3, <2>4, Bounds DEF Fits
<1>4. \A k \in Pages : lent[k] # NotLent => Apart(k, mem.order[k], j, o)
  BY <1>1 DEF BootInv, Apart
<1>5. Coalesced(mem, NULL_IDX)
  BY <1>1 DEF CoalInv
<1>6. PICK c \in Pages : /\ mem.free[c] /\ o <= mem.order[c]
                         /\ c <= j /\ j + power_of2[o] <= c + power_of2[mem.order[c]]
  BY <1>1, <1>3, <1>4, <1>5, RunInFreeBlock
<1> DEFINE d == mem.order[c]
           p == parent_at_order(j, d)
<1>7. /\ d \in Orders /\ Aligned(c, d) /\ c \in Nat /\ power_of2[d] \in Nat \ {0}
      /\ o <= d /\ c <= j /\ j < c + power_of2[d] /\ mem.free[c]
  BY <1>1, <1>3, <1>6, Sizes, Bounds DEF Memory, Placed, Used, Fits
<1>8. p \in Nat /\ p <= j /\ j < p + power_of2[d] /\ Aligned(p, d)
  BY <1>1, <1>7, ParentBlock
<1>9. p = c
  <2> HIDE DEF p, d
  <2>1. c \in Int /\ p \in Int
    BY <1>7, <1>8
  <2>2. CASE p <= c
    <3>1. c < p + power_of2[d]
      BY <1>1, <1>7, <1>8, <2>2
    <3> QED
      BY <1>7, <1>8, <2>1, <2>2, <3>1, ModClose DEF Aligned
  <2>3. CASE c <= p
    <3>1. p < c + power_of2[d]
      BY <1>1, <1>7, <1>8, <2>3
    <3> QED
      BY <1>7, <1>8, <2>1, <2>3, <3>1, ModClose DEF Aligned
  <2> QED
    BY <2>1, <2>2, <2>3
<1>10. d \in o .. MAX_ORDER /\ is_free_block(mem, parent_at_order(j, d), d)
  <2>1. is_free_block(mem, c, d)
    BY <1>7 DEF is_free_block
  <2>2. d \in o .. MAX_ORDER
    BY <1>7 DEF Orders
  <2> QED
    BY <1>9, <2>1, <2>2
<1> QED
  BY <1>2, <1>10

\* No action sounds a false alarm.
LEMMA NextNoFalseAlarm ==
  ASSUME IInv, CoverInv, CoalInv, BootInv, NoFalseAlarm, [Next]_vars
  PROVE  NoFalseAlarm'
<1>1. CASE ReserveFind
  BY <1>1, ReservationFound DEF NoFalseAlarm
<1>2. ASSUME NEW i \in Pages, Free(i)
      PROVE  NoFalseAlarm'
  <2>1. ~mem.free[i]
    BY <1>2 DEF Free, IInv, Placed
  <2> QED
    BY <1>2, <2>1 DEF Free, NoFalseAlarm
<1>3. CASE UNCHANGED vars
  BY <1>3 DEF vars, NoFalseAlarm
<1>4. CASE Malloc
  BY <1>4 DEF Malloc, MallocPop, MallocSplit, MallocPanic, NoFalseAlarm
<1>5. CASE \/ InitBlock \/ InitDone \/ NextRegion \/ ReserveHalve \/ ReserveDone
           \/ SplitStep \/ SplitDone \/ MergeStep \/ MergeDone \/ MergeBadNode
  BY <1>5
  DEF InitBlock, InitDone, NextRegion, EnterRegion, ReserveHalve, ReserveDone,
      SplitStep, SplitDone, MergeStep, MergeDone, MergeBadNode, NoFalseAlarm
<1> QED
  BY <1>1, <1>2, <1>3, <1>4, <1>5 DEF Next, Step, Hang

-----------------------------------------------------------------------------
(* Out of pages. *)

\* After the panic no free block is as large as the one requested.
FullInv ==
  pc = "out of pages" =>
    \A i \in Pages : mem.free[i] => mem.order[i] < target_o

\* When the heads of all larger orders are empty, no free block is as large.
LEMMA NoneAsLarge ==
  ASSUME NEW m \in Memory, LinksOK(m), Ranked(m), NEW o \in Orders,
         \A k \in o .. MAX_ORDER : m.free_lists[k] = NULL_IDX,
         NEW i \in Pages, m.free[i]
  PROVE  m.order[i] < o
<1>1. m.order[i] \in Orders /\ m.free_lists[m.order[i]] # NULL_IDX
  BY ListNotEmpty DEF Memory
<1>2. m.order[i] \notin o .. MAX_ORDER
  BY <1>1
<1> QED
  BY <1>1, <1>2, Bounds DEF Orders

\* page_malloc panics only then.
LEMMA NextFull == IInv /\ Ranked(mem) /\ FullInv /\ [Next]_vars => FullInv'
<1> SUFFICES ASSUME IInv, Ranked(mem), FullInv, [Next]_vars
             PROVE  FullInv'
  OBVIOUS
<1>1. ASSUME NEW o \in Orders, MallocPanic(o)
      PROVE  FullInv'
  <2>1. /\ mem' = mem /\ target_o' = o
        /\ \A k \in o .. MAX_ORDER : mem.free_lists[k] = NULL_IDX
    BY <1>1 DEF MallocPanic
  <2>2. \A i \in Pages : mem.free[i] => mem.order[i] < o
    BY <2>1, NoneAsLarge DEF IInv, TypeOK
  <2> QED
    BY <2>1, <2>2 DEF FullInv
<1>2. CASE UNCHANGED vars
  BY <1>2 DEF vars, FullInv
<1>3. ASSUME \/ Step \/ \E i \in Pages : Free(i)
             \/ \E o \in Orders : MallocPop(o) \/ MallocSplit(o)
      PROVE  pc' # "out of pages"
  BY <1>3 DEF Step, InitBlock, InitDone, NextRegion, EnterRegion, ReserveFind,
              ReserveHalve, ReserveDone, SplitStep, SplitDone, MergeStep, MergeDone,
              MergeBadNode, Free, MallocPop, MallocSplit
<1>4. CASE pc' # "out of pages"
  BY <1>4 DEF FullInv
<1> QED
  BY <1>1, <1>2, <1>3, <1>4 DEF Next, Malloc, Hang

\* When no free block is as large as a run, the run meets a lent block.
LEMMA FullRuns ==
  ASSUME IInv, CoverInv, Coalesced(mem, NULL_IDX),
         pc \notin {"init", "reserve", "split"},
         NEW o \in Orders, \A i \in Pages : mem.free[i] => mem.order[i] < o,
         NEW i \in Pages, Aligned(i, o), Block(i, o) \subseteq Pages
  PROVE  \E b \in LentBlocks : Block(i, o) \cap Block(b[1], b[2]) # {}
<1> SUFFICES ASSUME \A b \in LentBlocks : Block(i, o) \cap Block(b[1], b[2]) = {}
             PROVE  FALSE
  OBVIOUS
<1>1. mem \in Memory /\ lent \in Lent /\ Placed(mem, lent)
      /\ power_of2[o] \in Nat \ {0} /\ i \in Nat
  BY Sizes, Bounds DEF IInv, TypeOK, Lent
<1>2. Fits(i, o)
  <2>1. i + power_of2[o] - 1 \in Block(i, o)
    BY <1>1 DEF Block
  <2>2. i + power_of2[o] - 1 < N
    BY <2>1, Bounds
  <2> QED
    BY <1>1, <2>2, Bounds DEF Fits
<1>3. ASSUME NEW k \in Pages, lent[k] # NotLent
      PROVE  Apart(k, mem.order[k], i, o)
  <2>1. /\ lent[k] = mem.order[k] /\ k \in Nat
        /\ power_of2[mem.order[k]] \in Nat \ {0}
    BY <1>1, <1>3, Sizes, Bounds DEF Placed, Memory
  <2>2. <<k, mem.order[k]>> \in LentBlocks
    BY <1>3, <2>1 DEF LentBlocks
  <2>3. Block(i, o) \cap Block(k, mem.order[k]) = {}
    BY <2>2
  <2> SUFFICES ASSUME k < i + power_of2[o], i < k + power_of2[mem.order[k]]
               PROVE  FALSE
    BY <1>1, <2>1 DEF Apart
  <2>4. CASE i <= k
    <3>1. k \in Block(i, o) /\ k \in Block(k, mem.order[k])
      BY <1>1, <2>1, <2>4 DEF Block
    <3> QED
      BY <2>3, <3>1
  <2>5. CASE k <= i
    <3>1. i \in Block(i, o) /\ i \in Block(k, mem.order[k])
      BY <1>1, <2>1, <2>5 DEF Block
    <3> QED
      BY <2>3, <3>1
  <2> QED
    BY <1>1, <2>1, <2>4, <2>5
<1>4. PICK c \in Pages : mem.free[c] /\ o <= mem.order[c]
  BY <1>1, <1>2, <1>3, RunInFreeBlock
<1>5. mem.order[c] < o /\ mem.order[c] \in Orders
  BY <1>1, <1>4 DEF Memory
<1> QED
  BY <1>4, <1>5, Bounds DEF Orders

\* When the allocator is out of pages every aligned run of the order requested
\* meets a lent block.
LEMMA FullMeansFull ==
  ASSUME IInv, CoverInv, CoalInv, FullInv
  PROVE  PanicsOnlyWhenFull
<1>1. CASE pc # "out of pages"
  BY <1>1 DEF PanicsOnlyWhenFull
<1>2. CASE pc = "out of pages"
  <2>1. Coalesced(mem, NULL_IDX) /\ pc \notin {"init", "reserve", "split"}
    BY <1>2 DEF CoalInv
  <2>2. target_o \in Orders /\ \A i \in Pages : mem.free[i] => mem.order[i] < target_o
    BY <1>2 DEF FullInv, IInv, TypeOK
  <2>3. \A i \in Pages : Aligned(i, target_o) /\ Block(i, target_o) \subseteq Pages =>
           \E b \in LentBlocks : Block(i, target_o) \cap Block(b[1], b[2]) # {}
    BY <2>1, <2>2, FullRuns
  <2> QED
    BY <2>3 DEF PanicsOnlyWhenFull
<1> QED
  BY <1>1, <1>2

-----------------------------------------------------------------------------
(* The walk along a list. *)

StepOn(m, x) == IF x = NULL_IDX THEN NULL_IDX ELSE m.next[x]

\* A walk of any number of steps along the list of an order exists.
LEMMA WalkExists ==
  ASSUME NEW m \in Memory, NEW o \in Orders, NEW n \in Nat
  PROVE  \E f : f = [k \in 0 .. n |-> IF k = 0 THEN m.free_lists[o] ELSE StepOn(m, f[k - 1])]
<1> DEFINE W(f, l) == f = [k \in 0 .. l |-> IF k = 0 THEN m.free_lists[o]
                                            ELSE StepOn(m, f[k - 1])]
           Bad == {l \in Nat : ~ \E f : W(f, l)}
<1>1. ASSUME Bad # {}
      PROVE  FALSE
  <2>1. PICK l \in Bad : \A x \in Bad : l <= x
    <3>1. Bad \in SUBSET Nat
      OBVIOUS
    <3> HIDE DEF Bad
    <3> QED
      BY <1>1, <3>1, HasLeast
  <2>2. l \in Nat /\ ~ \E f : W(f, l)
    OBVIOUS
  <2>3. CASE l = 0
    <3> DEFINE g == [k \in 0 .. 0 |-> m.free_lists[o]]
    <3>1. g = [k \in 0 .. 0 |-> IF k = 0 THEN m.free_lists[o] ELSE StepOn(m, g[k - 1])]
      OBVIOUS
    <3> HIDE DEF g
    <3>2. W(g, l)
      BY <2>3, <3>1
    <3> QED
      BY <2>2, <3>2
  <2>4. CASE l # 0
    <3>1. l - 1 \in Nat /\ l - 1 < l
      BY <2>2, <2>4
    <3>2. l - 1 \notin Bad
      <4> HIDE DEF Bad
      <4> QED
        BY <2>1, <2>2, <3>1
    <3>3. PICK f : W(f, l - 1)
      BY <3>1, <3>2
    <3>4. \A k \in 0 .. (l - 1) :
            f[k] = IF k = 0 THEN m.free_lists[o] ELSE StepOn(m, f[k - 1])
      BY <3>3
    <3> DEFINE g == [k \in 0 .. l |-> IF k = l THEN StepOn(m, f[l - 1]) ELSE f[k]]
    <3>5. \A k \in 0 .. l : g[k] = IF k = 0 THEN m.free_lists[o] ELSE StepOn(m, g[k - 1])
      <4> SUFFICES ASSUME NEW k \in 0 .. l
                   PROVE  g[k] = IF k = 0 THEN m.free_lists[o] ELSE StepOn(m, g[k - 1])
        OBVIOUS
      <4>1. CASE k = 0
        <5>1. k # l /\ k \in 0 .. (l - 1)
          BY <2>2, <2>4, <4>1
        <5> QED
          BY <3>4, <4>1, <5>1
      <4>2. CASE k = l
        <5>1. k - 1 \in 0 .. l /\ k - 1 # l
          BY <2>2, <2>4, <4>2
        <5> QED
          BY <2>4, <4>2, <5>1
      <4>3. CASE k # 0 /\ k # l
        <5>1. k \in 0 .. (l - 1) /\ k - 1 \in 0 .. l /\ k - 1 # l
          BY <2>2, <4>3
        <5> QED
          BY <3>4, <4>3, <5>1
      <4> QED
        BY <4>1, <4>2, <4>3
    <3>6. g = [k \in 0 .. l |-> g[k]]
      OBVIOUS
    <3> HIDE DEF g
    <3>7. W(g, l)
      BY <3>5, <3>6
    <3> QED
      BY <2>2, <3>7
  <2> QED
    BY <2>3, <2>4
<1>2. n \notin Bad
  BY <1>1
<1> QED
  BY <1>2

\* is_in_free_list's walk, as a function.
LEMMA ListIsWalk ==
  ASSUME mem \in Memory, NEW o \in Orders
  PROVE  \E f : /\ f \in [Pages -> Pages \cup {NULL_IDX}]
                /\ f[0] = mem.free_lists[o]
                /\ \A k \in Pages : k # 0 => f[k] = StepOn(mem, f[k - 1])
                /\ OnList(o) = {f[k] : k \in Pages} \ {NULL_IDX}
<1> DEFINE node[k \in Pages] ==
        IF k = 0 THEN mem.free_lists[o]
        ELSE IF node[k - 1] = NULL_IDX THEN NULL_IDX ELSE mem.next[node[k - 1]]
<1>1. \E f : f = [k \in Pages |->
                    IF k = 0 THEN mem.free_lists[o]
                    ELSE IF f[k - 1] = NULL_IDX THEN NULL_IDX ELSE mem.next[f[k - 1]]]
  <2>1. N - 1 \in Nat /\ Pages = 0 .. (N - 1)
    BY Bounds DEF Pages
  <2> QED
    BY <2>1, WalkExists DEF StepOn
<1>2. node = [k \in Pages |->
                IF k = 0 THEN mem.free_lists[o]
                ELSE IF node[k - 1] = NULL_IDX THEN NULL_IDX ELSE mem.next[node[k - 1]]]
  BY <1>1 DEF node
<1>3. OnList(o) = {node[k] : k \in Pages} \ {NULL_IDX}
  BY DEF OnList, node
<1> HIDE DEF node
<1>4. node[0] = mem.free_lists[o] /\ \A k \in Pages : k # 0 => node[k] = StepOn(mem, node[k - 1])
  BY <1>2, Bounds DEF StepOn
<1>5. node \in [Pages -> Pages \cup {NULL_IDX}]
  <2> DEFINE Bad == {k \in Pages : node[k] \notin Pages \cup {NULL_IDX}}
  <2>1. ASSUME Bad # {}
        PROVE  FALSE
    <3>1. Bad \in SUBSET Nat
      BY Bounds
    <3>2. PICK k \in Bad : \A x \in Bad : k <= x
      <4> HIDE DEF Bad
      <4> QED
        BY <2>1, <3>1, HasLeast
    <3>3. k # 0
      BY <1>4 DEF Memory
    <3>4. k - 1 \in Pages /\ k - 1 < k
      BY <3>3, Bounds DEF Pages
    <3>5. node[k - 1] \in Pages \cup {NULL_IDX}
      BY <3>1, <3>2, <3>4
    <3>6. node[k] \in Pages \cup {NULL_IDX}
      BY <1>4, <3>3, <3>5 DEF StepOn, Memory
    <3> QED
      BY <3>6
  <2>2. \A k \in Pages : node[k] \in Pages \cup {NULL_IDX}
    BY <2>1
  <2>3. node = [k \in Pages |-> node[k]]
    BY <1>2
  <2> QED
    BY <2>2, <2>3
<1> QED
  BY <1>3, <1>4, <1>5

\* A walk meets the free blocks of its order and no other.
LEMMA WalkMeets ==
  ASSUME NEW m \in Memory, LinksOK(m), Ranked(m), NEW o \in Orders,
         NEW f \in [Pages -> Pages \cup {NULL_IDX}],
         f[0] = m.free_lists[o],
         \A k \in Pages : k # 0 => f[k] = StepOn(m, f[k - 1])
  PROVE  /\ \A k \in Pages : f[k] # NULL_IDX => m.free[f[k]] /\ m.order[f[k]] = o
         /\ \A i \in Pages : m.free[i] /\ m.order[i] = o => \E k \in Pages : f[k] = i
<1>1. PICK lo \in Int, rank \in [Pages -> Int] :
        /\ \A k \in Pages : lo <= rank[k]
        /\ \A k, n \in Pages : m.free[k] /\ m.prev[k] = n => rank[n] < rank[k]
  BY DEF Ranked
<1>2. NULL_IDX \notin Pages
  BY DEF NULL_IDX, Pages
<1>3. ASSUME NEW k \in Pages, k # 0
      PROVE  k - 1 \in Pages /\ k - 1 < k /\ k \in Nat
  BY <1>3, Bounds DEF Pages
<1>4. \A k \in Pages : f[k] # NULL_IDX => m.free[f[k]] /\ m.order[f[k]] = o
  <2> DEFINE Bad == {k \in Pages : f[k] # NULL_IDX /\ ~(m.free[f[k]] /\ m.order[f[k]] = o)}
  <2>1. ASSUME Bad # {}
        PROVE  FALSE
    <3>1. Bad \in SUBSET Nat
      BY Bounds
    <3>2. PICK k \in Bad : \A x \in Bad : k <= x
      <4> HIDE DEF Bad
      <4> QED
        BY <2>1, <3>1, HasLeast
    <3>3. k \in Pages /\ f[k] # NULL_IDX /\ ~(m.free[f[k]] /\ m.order[f[k]] = o)
      OBVIOUS
    <3>4. k # 0
      BY <3>3 DEF LinksOK
    <3>5. k - 1 \notin Bad
      <4> HIDE DEF Bad
      <4> QED
        BY <1>3, <3>2, <3>3, <3>4
    <3>6. f[k - 1] \in Pages /\ f[k] = m.next[f[k - 1]]
      BY <1>3, <3>3, <3>4 DEF StepOn
    <3>7. m.free[f[k - 1]] /\ m.order[f[k - 1]] = o
      BY <1>2, <1>3, <3>3, <3>4, <3>5, <3>6
    <3> QED
      BY <3>3, <3>6, <3>7 DEF LinksOK
  <2> QED
    BY <2>1
<1>5. ASSUME NEW k \in Pages, k # 0, f[k] # NULL_IDX
      PROVE  f[k - 1] \in Pages /\ f[k] \in Pages /\ rank[f[k - 1]] < rank[f[k]]
  <2>1. f[k - 1] \in Pages /\ f[k] = m.next[f[k - 1]]
    BY <1>3, <1>5 DEF StepOn
  <2>2. m.free[f[k - 1]] /\ f[k] \in Pages
    BY <1>2, <1>3, <1>4, <1>5, <2>1
  <2>3. m.free[f[k]] /\ m.prev[f[k]] = f[k - 1]
    BY <2>1, <2>2 DEF LinksOK
  <2> QED
    BY <1>1, <2>1, <2>2, <2>3
<1>6. ASSUME NEW a \in Pages, NEW b \in Pages, a < b, f[b] # NULL_IDX
      PROVE  f[a] # NULL_IDX /\ rank[f[a]] < rank[f[b]]
  <2> DEFINE Bad == {k \in Pages : /\ a < k /\ f[k] # NULL_IDX
                                   /\ ~(f[a] # NULL_IDX /\ rank[f[a]] < rank[f[k]])}
  <2>1. ASSUME Bad # {}
        PROVE  FALSE
    <3>1. Bad \in SUBSET Nat
      BY Bounds
    <3>2. PICK k \in Bad : \A x \in Bad : k <= x
      <4> HIDE DEF Bad
      <4> QED
        BY <2>1, <3>1, HasLeast
    <3>3. /\ k \in Pages /\ a < k /\ f[k] # NULL_IDX
          /\ ~(f[a] # NULL_IDX /\ rank[f[a]] < rank[f[k]])
      OBVIOUS
    <3>4. k # 0 /\ a \in Nat /\ k \in Nat
      BY <3>3, Bounds
    <3>5. f[k - 1] \in Pages /\ f[k] \in Pages /\ rank[f[k - 1]] < rank[f[k]]
      BY <1>5, <3>3, <3>4
    <3>6. CASE a = k - 1
      BY <1>2, <3>3, <3>5, <3>6
    <3>7. CASE a # k - 1
      <4>1. k - 1 \in Pages /\ a < k - 1 /\ k - 1 \notin Bad
        <5>1. k - 1 \in Pages /\ k - 1 < k
          BY <1>3, <3>3, <3>4
        <5>2. k - 1 \notin Bad
          <6> HIDE DEF Bad
          <6> QED
            BY <3>2, <3>4, <5>1
        <5> QED
          BY <3>3, <3>4, <3>7, <5>1, <5>2
      <4>2. f[a] # NULL_IDX /\ rank[f[a]] < rank[f[k - 1]]
        BY <1>2, <3>5, <4>1
      <4>3. rank[f[a]] \in Int /\ rank[f[k - 1]] \in Int /\ rank[f[k]] \in Int
        BY <3>5, <4>2
      <4> QED
        BY <3>3, <3>5, <4>2, <4>3
    <3> QED
      BY <3>6, <3>7
  <2> QED
    BY <2>1, <1>6
<1>7. ASSUME NEW i \in Pages, m.free[i], m.order[i] = o, \A k \in Pages : f[k] # i
      PROVE  FALSE
  <2> DEFINE S == {k \in Pages : /\ m.free[k] /\ m.order[k] = o
                                 /\ \A n \in Pages : f[n] # k}
  <2>1. PICK x \in S : \A y \in S : rank[x] <= rank[y]
    <3>1. S \in SUBSET Pages /\ S # {}
      BY <1>7
    <3> HIDE DEF S
    <3> QED
      BY <1>1, <3>1, FirstRanked
  <2>2. x \in Pages /\ m.free[x] /\ m.order[x] = o /\ \A n \in Pages : f[n] # x
    OBVIOUS
  <2>3. m.prev[x] # NULL_IDX
    BY <2>2, Bounds DEF LinksOK
  <2>4. m.prev[x] \in Pages
    BY <2>2, <2>3 DEF Memory
  <2>5. /\ m.free[m.prev[x]] /\ m.order[m.prev[x]] = o /\ m.next[m.prev[x]] = x
        /\ rank[m.prev[x]] < rank[x] /\ rank[m.prev[x]] \in Int /\ rank[x] \in Int
    BY <1>1, <2>2, <2>4 DEF LinksOK
  <2>6. m.prev[x] \notin S
    <3> HIDE DEF S
    <3> QED
      BY <2>1, <2>5
  <2>7. PICK k \in Pages : f[k] = m.prev[x]
    BY <2>4, <2>5, <2>6
  <2>8. k \in Nat /\ k < N /\ N \in Nat
    BY Bounds
  <2>9. k + 1 \notin Pages
    <3> SUFFICES ASSUME k + 1 \in Pages
                 PROVE  FALSE
      OBVIOUS
    <3>1. (k + 1) - 1 = k /\ k + 1 # 0
      BY <2>8
    <3>2. f[k + 1] = StepOn(m, f[k])
      BY <3>1
    <3> QED
      BY <2>2, <2>3, <2>5, <2>7, <3>2 DEF StepOn
  <2>10. k = N - 1
    BY <2>8, <2>9, Bounds
  <2> DEFINE g == [n \in 0 .. N |-> IF n = N THEN x ELSE f[n]]
  <2>11. ASSUME NEW a \in 0 .. N, NEW b \in 0 .. N, a < b
         PROVE  g[a] \in Pages /\ g[b] \in Pages /\ g[a] # g[b]
    <3>1. a \in Pages /\ a # N /\ (b = N \/ b \in Pages)
      BY <2>8, <2>11, Bounds
    <3>2. a = k \/ a < k
      BY <2>8, <2>10, <2>11
    <3>3. f[a] \in Pages
      BY <1>2, <1>6, <2>4, <2>7, <3>1, <3>2
    <3>4. CASE b = N
      BY <2>2, <3>1, <3>3, <3>4
    <3>5. CASE b # N
      <4>1. b \in Pages /\ (b = k \/ b < k)
        BY <2>8, <2>10, <3>1, <3>5
      <4>2. f[b] \in Pages
        BY <1>2, <1>6, <2>4, <2>7, <4>1
      <4>3. rank[f[a]] < rank[f[b]]
        BY <1>2, <1>6, <2>11, <3>1, <4>1, <4>2
      <4>4. rank[f[a]] \in Int
        BY <3>3
      <4> QED
        BY <3>1, <3>3, <3>5, <4>1, <4>2, <4>3, <4>4
    <3> QED
      BY <3>4, <3>5
  <2>12. g \in [0 .. N -> Pages]
    <3> SUFFICES ASSUME NEW n \in 0 .. N
                 PROVE  g[n] \in Pages
      OBVIOUS
    <3>1. CASE n = N
      BY <2>2, <3>1
    <3>2. CASE n # N
      BY <2>8, <2>11, <3>2
    <3> QED
      BY <3>1, <3>2
  <2> HIDE DEF g
  <2>13. /\ IsFiniteSet(0 .. N) /\ Cardinality(0 .. N) = N + 1
         /\ IsFiniteSet(Pages) /\ Cardinality(Pages) = N
    <3>1. 0 \in Int /\ N \in Int /\ N - 1 \in Int /\ ~(0 > N) /\ N > 0
      BY Bounds
    <3>2. IsFiniteSet(0 .. N) /\ Cardinality(0 .. N) = N - 0 + 1
      BY <3>1, FS_Interval
    <3>3. IsFiniteSet(0 .. (N - 1)) /\ Cardinality(0 .. (N - 1)) = (N - 1) - 0 + 1
      BY <3>1, FS_Interval
    <3> QED
      BY <2>8, <3>2, <3>3 DEF Pages
  <2>14. \E a, b \in 0 .. N : a # b /\ g[a] = g[b]
    <3>1. Cardinality(Pages) < Cardinality(0 .. N)
      BY <2>8, <2>13
    <3> DEFINE D == 0 .. N
    <3>2. IsFiniteSet(D) /\ IsFiniteSet(Pages) /\ Cardinality(Pages) < Cardinality(D)
          /\ g \in [D -> Pages]
      BY <2>12, <2>13, <3>1
    <3> HIDE DEF D
    <3>3. \E a, b \in D : a # b /\ g[a] = g[b]
      BY <3>2, FS_PigeonHole
    <3> QED
      BY <3>3 DEF D
  <2>15. PICK a \in 0 .. N, b \in 0 .. N : a # b /\ g[a] = g[b]
    BY <2>14
  <2>16. a < b \/ b < a
    BY <2>8, <2>15
  <2> QED
    BY <2>11, <2>15, <2>16
<1> QED
  BY <1>4, <1>7

\* The free bit of a node is its membership in the list of its order.
LEMMA FreeBitTrue ==
  ASSUME IInv, Ranked(mem)
  PROVE  FreeBitIsMembership
<1>1. mem \in Memory /\ LinksOK(mem)
  BY DEF IInv, TypeOK
<1> SUFFICES ASSUME NEW i \in Pages
             PROVE  mem.free[i] <=> i \in OnList(mem.order[i])
  BY DEF FreeBitIsMembership
<1>2. mem.order[i] \in Orders /\ NULL_IDX \notin Pages
  <2>1. mem.order[i] \in Orders
    BY <1>1 DEF Memory
  <2> QED
    BY <2>1 DEF NULL_IDX, Pages
<1>3. PICK f : /\ f \in [Pages -> Pages \cup {NULL_IDX}]
               /\ f[0] = mem.free_lists[mem.order[i]]
               /\ \A k \in Pages : k # 0 => f[k] = StepOn(mem, f[k - 1])
               /\ OnList(mem.order[i]) = {f[k] : k \in Pages} \ {NULL_IDX}
  BY <1>1, <1>2, ListIsWalk
<1>4. /\ \A k \in Pages : f[k] # NULL_IDX => mem.free[f[k]] /\ mem.order[f[k]] = mem.order[i]
      /\ \A n \in Pages : mem.free[n] /\ mem.order[n] = mem.order[i] =>
            \E k \in Pages : f[k] = n
  BY <1>1, <1>2, <1>3, WalkMeets
<1> QED
  BY <1>2, <1>3, <1>4

-----------------------------------------------------------------------------
\* The alarms of the allocator are due.
AlarmInv ==
  /\ CoverInv /\ CoalInv /\ DecreasingInv
  /\ Ranked(mem) /\ BootInv /\ FullInv /\ NoFalseAlarm

\* The strengthened invariant holds initially.
LEMMA InitAlarm == Init => IInv /\ AlarmInv
<1> SUFFICES ASSUME Init
             PROVE  IInv /\ AlarmInv
  OBVIOUS
<1>1. IInv /\ CoverInv /\ CoalInv /\ DecreasingInv
  BY InitIInv, InitCover, InitCoal
<1>2. pc = "init"
  BY DEF Init
<1>3. Ranked(mem)
  <2> DEFINE r == [i \in Pages |-> 0]
  <2>1. r \in [Pages -> Int] /\ \A i \in Pages : 0 <= r[i] /\ ~mem.free[i]
    BY DEF Init, ClearMemory
  <2> HIDE DEF r
  <2> QED
    BY <2>1 DEF Ranked
<1> QED
  BY <1>1, <1>2, <1>3 DEF AlarmInv, BootInv, FullInv, NoFalseAlarm

\* Every step preserves the strengthened invariant.
LEMMA NextAlarm == IInv /\ AlarmInv /\ [Next]_vars => IInv' /\ AlarmInv'
<1> SUFFICES ASSUME IInv, AlarmInv, [Next]_vars
             PROVE  IInv' /\ AlarmInv'
  OBVIOUS
<1>1. IInv' /\ CoverInv' /\ CoalInv' /\ DecreasingInv'
  BY NextIInv, NextCover, NextCoal DEF AlarmInv
<1>2. Ranked(mem)'
  BY NextRanked DEF AlarmInv
<1>3. BootInv' /\ FullInv' /\ NoFalseAlarm'
  BY NextBoot, NextFull, NextNoFalseAlarm DEF AlarmInv
<1> QED
  BY <1>1, <1>2, <1>3 DEF AlarmInv

\* The strengthened invariant.
THEOREM AlarmInvariance == Spec => [](IInv /\ AlarmInv)
  BY InitAlarm, NextAlarm, PTL DEF Spec

\* No page leaks: after init every page is in a block on a list, in a block
\* handed out or in the one in transit, whatever is split, merged or reserved.
THEOREM PagesNeverLost == Spec => []NoPageLost
<1>1. ASSUME IInv, CoverInv
      PROVE  NoPageLost
  <2>1. lent \in Lent /\ mem \in Memory /\ Placed(mem, lent)
    BY <1>1 DEF IInv, TypeOK, Lent
  <2>2. ASSUME NEW i \in Pages, Used(mem, lent, i)
        PROVE  <<i, mem.order[i]>> \in AllBlocks
    BY <2>1, <2>2 DEF Used, Placed, AllBlocks, FreeBlocks, LentBlocks
  <2>3. ASSUME NEW x \in AllBlocks
        PROVE  \/ \E i \in Pages : x = <<i, mem.order[i]>> /\ Used(mem, lent, i)
               \/ pc \in {"reserve", "split"} /\ x = <<cur, cur_o>>
    BY <2>1, <2>3 DEF AllBlocks, FreeBlocks, LentBlocks, InTransit, Used, Placed
  <2>4. ASSUME NEW p \in Pages, pc = "init" => p < cur
        PROVE  \E x \in AllBlocks : p \in Block(x[1], x[2])
    <3>0. p \in Nat
      BY Bounds
    <3>1. CASE Covered(mem, lent, p)
      <4>1. PICK i \in Pages : Used(mem, lent, i) /\ InRun(i, mem.order[i], p)
        BY <3>1 DEF Covered
      <4>2. i \in Nat /\ power_of2[mem.order[i]] \in Nat
        BY <2>1, Sizes, Bounds DEF Memory
      <4>3. p \in Block(i, mem.order[i])
        BY <3>0, <4>1, <4>2 DEF InRun, Block
      <4> QED
        BY <4>1, <4>3, <2>2
    <3>2. CASE pc = "init" /\ cur <= p
      BY <3>0, <3>2, <2>4, <1>1 DEF IInv, TypeOK
    <3>3. CASE pc \in {"reserve", "split"} /\ InRun(cur, cur_o, p)
      <4>1. cur \in Nat /\ power_of2[cur_o] \in Nat
        BY <1>1, <3>3, Sizes, Bounds DEF IInv, TypeOK, TransitInv
      <4>2. p \in Block(cur, cur_o)
        BY <3>0, <3>3, <4>1 DEF InRun, Block
      <4>3. <<cur, cur_o>> \in AllBlocks
        BY <3>3 DEF AllBlocks, InTransit
      <4> QED
        BY <4>2, <4>3
    <3> QED
      BY <1>1, <3>1, <3>2, <3>3 DEF CoverInv
  <2>5. ASSUME NEW x \in AllBlocks, NEW p \in Block(x[1], x[2])
        PROVE  p \in Pages /\ (pc = "init" => p < cur)
    <3>1. CASE \E i \in Pages : x = <<i, mem.order[i]>> /\ Used(mem, lent, i)
      <4>1. PICK i \in Pages : x = <<i, mem.order[i]>> /\ Used(mem, lent, i)
        BY <3>1
      <4>2. /\ i \in Nat /\ power_of2[mem.order[i]] \in Nat
            /\ i + power_of2[mem.order[i]] <= N
        BY <2>1, <4>1, Sizes, Bounds DEF Memory, Placed, Fits
      <4>3. p \in i .. (i + power_of2[mem.order[i]] - 1)
        BY <2>5, <4>1 DEF Block
      <4>4. p \in Pages
        BY <4>2, <4>3, Bounds
      <4>5. ASSUME pc = "init"
            PROVE  p < cur
        <5>1. i + power_of2[mem.order[i]] <= cur /\ cur \in Nat
          BY <1>1, <4>1, <4>5 DEF IInv, TypeOK, InitInv, Used
        <5> QED
          BY <4>2, <4>3, <5>1
      <4> QED
        BY <4>4, <4>5
    <3>2. CASE pc \in {"reserve", "split"} /\ x = <<cur, cur_o>>
      <4>1. /\ cur \in Nat /\ power_of2[cur_o] \in Nat /\ cur + power_of2[cur_o] <= N
        BY <1>1, <3>2, Sizes, Bounds DEF IInv, TypeOK, TransitInv, Fits
      <4>2. p \in cur .. (cur + power_of2[cur_o] - 1)
        BY <2>5, <3>2 DEF Block
      <4> QED
        BY <3>2, <4>1, <4>2, Bounds
    <3> QED
      BY <2>3, <3>1, <3>2
  <2> DEFINE All == UNION {Block(b[1], b[2]) : b \in AllBlocks}
  <2>6. \A p : p \in All <=> p \in Pages /\ (pc = "init" => p < cur)
    BY <2>4, <2>5
  <2> HIDE DEF All
  <2>7. CASE pc = "init"
    <3>1. \A p \in 0 .. (cur - 1) : p \in Pages /\ p < cur
      BY <1>1, Bounds DEF IInv, TypeOK
    <3>2. \A p \in Pages : p < cur => p \in 0 .. (cur - 1)
      BY <1>1, Bounds DEF IInv, TypeOK
    <3>3. All = 0 .. (cur - 1)
      BY <2>6, <2>7, <3>1, <3>2
    <3> QED
      BY <2>7, <3>3 DEF NoPageLost, All
  <2>8. CASE pc # "init"
    <3>1. All = Pages
      BY <2>6, <2>8
    <3> QED
      BY <2>8, <3>1 DEF NoPageLost, All
  <2> QED
    BY <2>7, <2>8
<1>2. IInv /\ CoverInv => NoPageLost
  BY <1>1
<1> QED
  BY <1>2, AlarmInvariance, PTL DEF AlarmInv

\* Between calls no two free buddies of one order remain unmerged.
THEOREM BuddiesMerged == Spec => []FullyCoalesced
<1>1. ASSUME CoalInv, pc = "ready", NEW i \in Pages, mem.free[i],
             mem.order[i] # MAX_ORDER,
             buddy_of(i, mem.order[i]) \in Pages
      PROVE  ~is_free_block(mem, buddy_of(i, mem.order[i]), mem.order[i])
  <2>1. NULL_IDX \notin Pages /\ Coalesced(mem, NULL_IDX)
    BY <1>1 DEF CoalInv, NULL_IDX, Pages
  <2> QED
    BY <1>1, <2>1 DEF Coalesced
<1>2. CoalInv => FullyCoalesced
  BY <1>1 DEF FullyCoalesced
<1> QED
  BY <1>2, AlarmInvariance, PTL DEF AlarmInv

\* No alarm of the allocator is false: with regions that are disjoint and
\* callers that free what they were lent no double reservation and no double
\* free is reported, the free bit is what the assertion of get_free says, and
\* it is out of pages only when every run of the order requested is in use.
THEOREM AlarmsAlwaysDue == Spec => []AlarmsAreDue
<1>1. IInv /\ AlarmInv => AlarmsAreDue
  BY FreeBitTrue, FullMeansFull DEF AlarmInv, AlarmsAreDue
<1> QED
  BY <1>1, AlarmInvariance, PTL

=============================================================================
