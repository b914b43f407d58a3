-------------------------- MODULE BootMemoryProofs --------------------------
(***************************************************************************)
(* Boot keeps the early regions a partition of the memory map, and of what *)
(* is made in an early block a ring is a bounded queue and a pool gives    *)
(* out disjoint regions.                                                   *)
(*                                                                         *)
(* The list of regions stays in order of address and covers the map; no    *)
(* two neighbours are free, so that free memory without a gap is in one    *)
(* node; every claim is a node of its own.  The list itself is in the DDR  *)
(* and nothing reserves its pages: above the image and the reserved ranges *)
(* blocks come off the low end of free memory, so that a block meets the   *)
(* list only when no page is left between.  Of the ring, the slots from    *)
(* tail to head hold the queue, and it is full when its queue has all the  *)
(* slots but one.  Of the pool, the metadata of a block says how much of   *)
(* its region follows, so that a search never passes over a hole.          *)
(***************************************************************************)
EXTENDS BootMemory, Integers, FiniteSetTheorems, SequenceTheorems, WellFoundedInduction,
        NaturalsInduction, TLAPS

-----------------------------------------------------------------------------
(* Quotients, the slots of a ring, and the least of a set of numbers. *)

\* A nonempty set of numbers has a least.
LEMMA HasLeast ==
  ASSUME NEW T \in SUBSET Nat, T # {}
  PROVE  \E x \in T : \A y \in T : x <= y
<1> DEFINE less == {p \in Nat \X Nat : p[1] < p[2]}
<1>1. IsWellFoundedOn(less, Nat)
  BY NatLessThanWellFounded DEF OpToRel
<1>2. \E x \in T : \A y \in T : ~(<<y, x>> \in less)
  BY <1>1, WFMin
<1>3. PICK x \in T : \A y \in T : ~(<<y, x>> \in less)
  BY <1>2
<1>4. ASSUME NEW y \in T
      PROVE  x <= y
  <2>1. ~(<<y, x>> \in less)
    BY <1>3
  <2> QED
    BY <2>1
<1> QED
  BY <1>4

\* The remainder of a multiple.
LEMMA MultipleIsMod ==
  ASSUME NEW P \in Nat \ {0}, NEW q \in Int
  PROVE  (q * P) % P = 0
<1> DEFINE d == (q * P) \div P
           m == (q * P) % P
<1>1. q * P = P * d + m /\ d \in Int /\ m \in 0 .. (P - 1)
  BY SMT
<1> HIDE DEF d, m
<1>2. m = P * (q - d)
  BY <1>1, SMT
<1>3. CASE q - d >= 1
  <2>1. P * (q - d) >= P
    BY <1>3, <1>1, SMT
  <2> QED
    BY <2>1, <1>1, <1>2, SMT
<1>4. CASE q - d <= -1
  <2>1. P * (q - d) <= -P
    BY <1>4, <1>1, SMT
  <2> QED
    BY <2>1, <1>1, <1>2, SMT
<1>5. CASE q = d
  <2>1. m = 0
    BY <1>5, <1>1, <1>2, SMT
  <2> QED
    BY <2>1 DEF m
<1> QED
  BY <1>1, <1>3, <1>4, <1>5, SMT

\* The quotient of a multiple.
LEMMA MultipleDiv ==
  ASSUME NEW P \in Nat \ {0}, NEW q \in Int
  PROVE  (q * P) \div P = q
<1>1. (q * P) % P = 0
  BY MultipleIsMod
<1>2. q * P = P * ((q * P) \div P) + ((q * P) % P) /\ (q * P) \div P \in Int
  BY SMT
<1> DEFINE d == (q * P) \div P
<1>3. q * P = P * d /\ d \in Int
  BY <1>1, <1>2
<1> HIDE DEF d
<1>4. P * (q - d) = 0
  BY <1>3, SMT
<1>5. q - d = 0
  BY <1>3, <1>4, SMT
<1>6. q = d
  BY <1>3, <1>5, SMT
<1> QED
  BY <1>6 DEF d

\* The quotient and the remainder are the only ones.
LEMMA DivUnique ==
  ASSUME NEW P \in Nat \ {0}, NEW q \in Int, NEW r \in 0 .. P - 1
  PROVE  (q * P + r) \div P = q /\ (q * P + r) % P = r
<1> DEFINE y == q * P + r
           d == y \div P
           m == y % P
<1>1. y = P * d + m /\ d \in Int /\ m \in 0 .. P - 1 /\ y \in Int
  <2>1. y \in Int
    BY SMT
  <2> HIDE DEF y
  <2> QED
    BY <2>1, SMT
<1> HIDE DEF d, m
<1>2. P * (d - q) = r - m
  BY <1>1, SMT
<1>3. CASE d - q >= 1
  <2>1. P * (d - q) >= P
    BY <1>1, <1>3, SMT
  <2> QED
    BY <1>1, <1>2, <2>1, SMT
<1>4. CASE d - q <= -1
  <2>1. P * (d - q) <= -P
    BY <1>1, <1>4, SMT
  <2> QED
    BY <1>1, <1>2, <2>1, SMT
<1>5. CASE d = q
  <2>1. m = r
    BY <1>1, <1>2, <1>5, SMT
  <2> QED
    BY <1>5, <2>1 DEF d, m
<1>6. d - q >= 1 \/ d - q <= -1 \/ d = q
  BY <1>1, SMT
<1> QED
  BY <1>3, <1>4, <1>5, <1>6

\* A natural number is its quotient times the divisor and its remainder.
LEMMA DivMod ==
  ASSUME NEW P \in Nat \ {0}, NEW y \in Nat
  PROVE  /\ y = (y \div P) * P + (y % P)
         /\ y \div P \in Nat /\ y % P \in 0 .. P - 1
<1>1. y = P * (y \div P) + (y % P) /\ y \div P \in Int /\ y % P \in 0 .. P - 1
  BY SMT
<1> DEFINE d == y \div P
           m == y % P
<1> HIDE DEF d, m
<1>2. y = P * d + m /\ d \in Int /\ m \in 0 .. P - 1
  BY <1>1 DEF d, m
<1>3. d >= 0
  <2>1. CASE d <= -1
    <3>1. P * d <= -P
      BY <1>2, <2>1, SMT
    <3> QED
      BY <1>2, <3>1, SMT
  <2> QED
    BY <1>2, <2>1, SMT
<1>4. y = d * P + m /\ d \in Nat
  BY <1>2, <1>3, SMT
<1> QED
  BY <1>2, <1>4 DEF d, m

\* One turn around a ring of n slots at most: what % does to the sum and the
\* difference of two slots.
LEMMA Turns ==
  ASSUME NEW n \in Nat \ {0}, NEW h \in 0 .. n - 1, NEW t \in 0 .. n - 1
  PROVE  /\ (h - t) % n = IF t <= h THEN h - t ELSE h - t + n
         /\ (h + t) % n = IF h + t < n THEN h + t ELSE h + t - n
         /\ (h + 1) % n = IF h + 1 = n THEN 0 ELSE h + 1
<1>1. (h - t) % n = IF t <= h THEN h - t ELSE h - t + n
  BY SMT
<1>2. (h + t) % n = IF h + t < n THEN h + t ELSE h + t - n
  BY SMT
<1>3. (h + 1) % n = IF h + 1 = n THEN 0 ELSE h + 1
  <2>1. CASE h + 1 = n
    BY <2>1
  <2>2. CASE h + 1 # n
    BY <2>2
  <2> QED
    BY <2>1, <2>2
<1> QED
  BY <1>1, <1>2, <1>3

-----------------------------------------------------------------------------
(* The list of regions. *)

\* The nodes of the list, and a list of ranges each where the last one ends.
Nodes ==
  [addr : Nat, pages : Nat \ {0}, free : BOOLEAN, permanent : BOOLEAN, device : BOOLEAN]
Ranged(s) == \A k \in 1 .. Len(s) : s[k].addr \in Nat /\ s[k].pages \in Nat \ {0}
Tiled(s) == \A k \in 1 .. Len(s) - 1 : End(s[k]) = s[k + 1].addr
AllPages(s) == UNION { PagesOf(s[n]) : n \in DOMAIN s }
FreePages(s) == UNION { PagesOf(s[n]) : n \in { k \in DOMAIN s : s[k].free } }
NoFreePair(s) == \A k \in 1 .. Len(s) - 1 : ~(s[k].free /\ s[k + 1].free)

\* Ranges that follow one another are in order.
LEMMA TiledOrdered ==
  ASSUME NEW s, Len(s) \in Nat, Ranged(s), Tiled(s),
         NEW a \in 1 .. Len(s), NEW b \in 1 .. Len(s), a < b
  PROVE  End(s[a]) <= s[b].addr
<1> DEFINE n == Len(s)
           T == { k \in a + 1 .. n : ~(End(s[a]) <= s[k].addr) }
<1>1. SUFFICES ASSUME T # {}
               PROVE  FALSE
  <2>1. b \in a + 1 .. n
    OBVIOUS
  <2> QED
    BY <2>1
<1>2. T \in SUBSET Nat
  OBVIOUS
<1>3. PICK k \in T : \A y \in T : k <= y
  <2> HIDE DEF T
  <2> QED
    BY <1>1, <1>2, HasLeast
<1>4. k \in a + 1 .. n /\ ~(End(s[a]) <= s[k].addr)
  OBVIOUS
<1>5. k - 1 \in 1 .. n - 1 /\ (k - 1) + 1 = k /\ k - 1 \in a .. n
  BY <1>4
<1>6. End(s[k - 1]) = s[k].addr
  BY <1>5 DEF Tiled
<1>7. CASE k - 1 = a
  BY <1>4, <1>6, <1>7 DEF End, Ranged
<1>8. CASE k - 1 # a
  <2>1. k - 1 \in a + 1 .. n /\ ~(k <= k - 1)
    BY <1>5, <1>8
  <2>2. k - 1 \notin T
    <3> HIDE DEF T
    <3> QED
      BY <1>3, <2>1
  <2>3. End(s[a]) <= s[k - 1].addr
    BY <2>1, <2>2
  <2>4. /\ s[k - 1].addr \in Nat /\ s[k - 1].pages \in Nat
        /\ s[a].addr \in Nat /\ s[a].pages \in Nat
    BY <1>5 DEF Ranged
  <2>5. End(s[a]) <= End(s[k - 1])
    BY <2>3, <2>4 DEF End
  <2> QED
    BY <1>4, <1>6, <2>5
<1> QED
  BY <1>7, <1>8

\* A page is in one of them at most.
LEMMA TiledDisjoint ==
  ASSUME NEW s, Len(s) \in Nat, Ranged(s), Tiled(s),
         NEW a \in 1 .. Len(s), NEW b \in 1 .. Len(s), NEW p \in PagesOf(s[a]),
         p \in PagesOf(s[b])
  PROVE  a = b
<1>1. /\ s[a].addr \in Nat /\ s[a].pages \in Nat /\ s[b].addr \in Nat /\ s[b].pages \in Nat
  BY DEF Ranged
<1>2. /\ s[a].addr <= p /\ p < End(s[a]) /\ s[b].addr <= p /\ p < End(s[b])
      /\ p \in Int
  BY <1>1 DEF PagesOf, End
<1>3. ~(a < b)
  <2>1. SUFFICES ASSUME a < b
                 PROVE  FALSE
    OBVIOUS
  <2>2. End(s[a]) <= s[b].addr
    BY <2>1, TiledOrdered
  <2> QED
    BY <1>1, <1>2, <2>2 DEF End
<1>4. ~(b < a)
  <2>1. SUFFICES ASSUME b < a
                 PROVE  FALSE
    OBVIOUS
  <2>2. End(s[b]) <= s[a].addr
    BY <2>1, TiledOrdered
  <2> QED
    BY <1>1, <1>2, <2>2 DEF End
<1> QED
  BY <1>3, <1>4

LEMMA InPages ==
  ASSUME NEW s, Len(s) \in Nat, DOMAIN s = 1 .. Len(s), NEW p
  PROVE  /\ p \in AllPages(s) <=> \E k \in 1 .. Len(s) : p \in PagesOf(s[k])
         /\ p \in FreePages(s) <=> \E k \in 1 .. Len(s) : s[k].free /\ p \in PagesOf(s[k])
  BY DEF AllPages, FreePages

\* In a list without two free neighbours, free pages that follow one another
\* are in one node.
LEMMA FreeRun ==
  ASSUME NEW s \in Seq(Nodes), Tiled(s), NoFreePair(s),
         NEW a \in Nat, NEW b \in Nat, a <= b, a .. b \subseteq FreePages(s)
  PROVE  \E k \in 1 .. Len(s) : s[k].free /\ s[k].addr <= a /\ b < End(s[k])
<1>1. /\ Len(s) \in Nat /\ DOMAIN s = 1 .. Len(s) /\ Ranged(s)
      /\ \A k \in 1 .. Len(s) : s[k] \in Nodes
  <2>1. /\ Len(s) \in Nat /\ DOMAIN s = 1 .. Len(s)
        /\ \A k \in 1 .. Len(s) : s[k] \in Nodes
    OBVIOUS
  <2>2. \A c \in Nodes : c.addr \in Nat /\ c.pages \in Nat \ {0}
    BY DEF Nodes
  <2> QED
    BY <2>1, <2>2 DEF Ranged
<1>2. a \in a .. b /\ b \in a .. b
  OBVIOUS
<1>3. PICK k \in 1 .. Len(s) : s[k].free /\ a \in PagesOf(s[k])
  <2>1. a \in FreePages(s)
    BY <1>2
  <2> QED
    BY <1>1, <2>1, InPages
<1>4. s[k].addr \in Nat /\ s[k].pages \in Nat \ {0} /\ s[k].addr <= a /\ a < End(s[k])
      /\ End(s[k]) \in Nat
  BY <1>1, <1>3 DEF PagesOf, End, Nodes
<1>5. SUFFICES ASSUME ~(b < End(s[k]))
               PROVE  FALSE
  BY <1>3, <1>4
<1> DEFINE p == End(s[k])
<1>6. p \in a .. b
  BY <1>4, <1>5
<1>7. PICK m \in 1 .. Len(s) : s[m].free /\ p \in PagesOf(s[m])
  <2>1. p \in FreePages(s)
    BY <1>6
  <2> HIDE DEF p
  <2> QED
    BY <1>1, <2>1, InPages
<1>8. /\ s[m].addr \in Nat /\ s[m].pages \in Nat \ {0} /\ s[m].addr <= p /\ p < End(s[m])
      /\ End(s[m]) \in Nat
  BY <1>1, <1>4, <1>7 DEF PagesOf, End, Nodes
<1>9. k < m
  <2>1. m # k
    BY <1>4, <1>8
  <2>2. ~(m < k)
    <3>1. SUFFICES ASSUME m < k
                   PROVE  FALSE
      OBVIOUS
    <3>2. End(s[m]) <= s[k].addr
      BY <1>1, <3>1, TiledOrdered
    <3> QED
      BY <1>4, <1>8, <3>2 DEF End
  <2> QED
    BY <2>1, <2>2
<1>10. k \in 1 .. Len(s) - 1 /\ k + 1 \in 1 .. Len(s)
  BY <1>1, <1>9
<1>11. s[k + 1].addr = p /\ ~s[k + 1].free
  BY <1>3, <1>10 DEF Tiled, NoFreePair
<1>12. p \in PagesOf(s[k + 1])
  <2>1. s[k + 1].pages \in Nat \ {0}
    BY <1>1, <1>10 DEF Nodes
  <2> QED
    BY <1>4, <1>11, <2>1 DEF PagesOf, End
<1>13. m = k + 1
  <2> HIDE DEF p
  <2> QED
    BY <1>1, <1>7, <1>10, <1>12, TiledDisjoint
<1> QED
  BY <1>7, <1>11, <1>13

-----------------------------------------------------------------------------
(* reserve_memreg *)

\* One node of a list is replaced by the nodes t.
LEMMA SpliceFacts ==
  ASSUME NEW s \in Seq(Nodes), NEW n \in 1 .. Len(s), NEW t \in Seq(Nodes), Len(t) \in 1 .. 3
  PROVE  LET r == SubSeq(s, 1, n - 1) \o t \o SubSeq(s, n + 1, Len(s))
         IN  /\ r \in Seq(Nodes) /\ Len(r) = Len(s) + Len(t) - 1
             /\ \A k \in 1 .. n - 1 : r[k] = s[k]
             /\ \A k \in 1 .. Len(t) : r[n - 1 + k] = t[k]
             /\ \A k \in n + 1 .. Len(s) : r[k + Len(t) - 1] = s[k]
<1> DEFINE x == SubSeq(s, 1, n - 1)
           z == SubSeq(s, n + 1, Len(s))
           y == x \o t
           r == y \o z
           L == Len(s)
           M == Len(t)
<1>1. L \in Nat /\ n \in 1 .. L /\ M \in 1 .. 3 /\ \A k \in 1 .. L : s[k] \in Nodes
  OBVIOUS
<1>2. x \in Seq(Nodes) /\ Len(x) = n - 1 /\ \A k \in 1 .. n - 1 : x[k] = s[k]
  <2>1. \A k \in 1 .. n - 1 : s[k] \in Nodes
    BY <1>1
  <2>2. /\ x \in Seq(Nodes) /\ Len(x) = IF 1 <= n - 1 THEN (n - 1) - 1 + 1 ELSE 0
        /\ \A k \in 1 .. (n - 1) - 1 + 1 : x[k] = s[1 + k - 1]
    <3>1. 1 \in Int /\ n - 1 \in Int
      OBVIOUS
    <3> QED
      BY <2>1, <3>1, SubSeqProperties
  <2> HIDE DEF x
  <2> QED
    BY <1>1, <2>2
<1>3. /\ z \in Seq(Nodes) /\ Len(z) = L - n
      /\ \A k \in 1 .. L - n : z[k] = s[n + k]
  <2>1. \A k \in n + 1 .. L : s[k] \in Nodes
    BY <1>1
  <2>2. /\ z \in Seq(Nodes) /\ Len(z) = IF n + 1 <= L THEN L - (n + 1) + 1 ELSE 0
        /\ \A k \in 1 .. L - (n + 1) + 1 : z[k] = s[n + 1 + k - 1]
    <3>1. n + 1 \in Int /\ L \in Int
      BY <1>1
    <3> QED
      BY <2>1, <3>1, SubSeqProperties
  <2> HIDE DEF z, L
  <2> QED
    BY <1>1, <2>2
<1> HIDE DEF x, z, L, M
<1>4. /\ y \in Seq(Nodes) /\ Len(y) = (n - 1) + M
      /\ \A k \in 1 .. (n - 1) + M : y[k] = IF k <= n - 1 THEN x[k] ELSE t[k - (n - 1)]
  <2>1. /\ y \in Seq(Nodes) /\ Len(y) = Len(x) + Len(t)
        /\ \A k \in 1 .. Len(x) + Len(t) : y[k] = IF k <= Len(x) THEN x[k] ELSE t[k - Len(x)]
    BY <1>2, ConcatProperties, Zenon
  <2> HIDE DEF y
  <2> QED
    BY <1>1, <1>2, <2>1 DEF M
<1> HIDE DEF y
<1>5. /\ r \in Seq(Nodes) /\ Len(r) = ((n - 1) + M) + (L - n)
      /\ \A k \in 1 .. ((n - 1) + M) + (L - n) :
           r[k] = IF k <= (n - 1) + M THEN y[k] ELSE z[k - ((n - 1) + M)]
  <2>1. /\ r \in Seq(Nodes) /\ Len(r) = Len(y) + Len(z)
        /\ \A k \in 1 .. Len(y) + Len(z) : r[k] = IF k <= Len(y) THEN y[k] ELSE z[k - Len(y)]
    BY <1>3, <1>4, ConcatProperties, Zenon
  <2> HIDE DEF r
  <2> QED
    BY <1>1, <1>3, <1>4, <2>1
<1> HIDE DEF r
<1>6. Len(r) = L + M - 1
  BY <1>1, <1>5
<1>7. ASSUME NEW k \in 1 .. n - 1
      PROVE  r[k] = s[k]
  <2>1. /\ k \in 1 .. (n - 1) + M /\ k <= n - 1 /\ k <= (n - 1) + M
        /\ k \in 1 .. ((n - 1) + M) + (L - n)
    BY <1>1
  <2>2. r[k] = y[k]
    BY <1>5, <2>1
  <2>3. y[k] = x[k]
    BY <1>4, <2>1
  <2> QED
    BY <1>2, <2>2, <2>3
<1>8. ASSUME NEW k \in 1 .. M
      PROVE  r[n - 1 + k] = t[k]
  <2> DEFINE j == n - 1 + k
  <2>1. j \in 1 .. (n - 1) + M /\ ~(j <= n - 1) /\ j - (n - 1) = k
        /\ j \in 1 .. ((n - 1) + M) + (L - n)
    BY <1>1
  <2> HIDE DEF j
  <2>2. r[j] = y[j] /\ y[j] = t[k]
    BY <1>4, <1>5, <2>1
  <2> QED
    BY <2>2 DEF j
<1>9. ASSUME NEW k \in n + 1 .. L
      PROVE  r[k + M - 1] = s[k]
  <2> DEFINE j == k + M - 1
  <2>1. j \in 1 .. ((n - 1) + M) + (L - n) /\ ~(j <= (n - 1) + M)
        /\ j - ((n - 1) + M) = k - n /\ k - n \in 1 .. L - n /\ n + (k - n) = k
    BY <1>1
  <2> HIDE DEF j
  <2>2. r[j] = z[k - n] /\ z[k - n] = s[k]
    BY <1>3, <1>5, <2>1
  <2> QED
    BY <2>2 DEF j
<1> QED
  BY <1>5, <1>6, <1>7, <1>8, <1>9 DEF L, M, r, y, x, z

LEMMA ShortLists ==
  ASSUME NEW S, NEW a \in S, NEW b \in S, NEW c \in S
  PROVE  /\ (<<>> \o <<a>>) \o <<b>> = <<a, b>> /\ (<<a>> \o <<b>>) \o <<>> = <<a, b>>
         /\ (<<a>> \o <<b>>) \o <<c>> = <<a, b, c>>
<1> DEFINE A == <<a>>
           B == <<b>>
           C == <<c>>
           P == A \o B
           Q == P \o C
<1>1. /\ A \in Seq(S) /\ Len(A) = 1 /\ A[1] = a
      /\ B \in Seq(S) /\ Len(B) = 1 /\ B[1] = b
      /\ C \in Seq(S) /\ Len(C) = 1 /\ C[1] = c
      /\ <<a, b>> \in Seq(S) /\ <<a, b, c>> \in Seq(S)
  OBVIOUS
<1> HIDE DEF A, B, C
<1>2. /\ P \in Seq(S) /\ Len(P) = 2 /\ P[1] = a /\ P[2] = b
  <2>1. /\ P \in Seq(S) /\ Len(P) = Len(A) + Len(B)
        /\ \A k \in 1 .. Len(A) + Len(B) : P[k] = IF k <= Len(A) THEN A[k] ELSE B[k - Len(A)]
    <3>1. A \in Seq(S) /\ B \in Seq(S)
      BY <1>1
    <3> QED
      BY <3>1, ConcatProperties, Zenon
  <2> HIDE DEF P
  <2> QED
    BY <1>1, <2>1
<1> HIDE DEF P
<1>3. /\ Q \in Seq(S) /\ Len(Q) = 3 /\ Q[1] = a /\ Q[2] = b /\ Q[3] = c
  <2>1. /\ Q \in Seq(S) /\ Len(Q) = Len(P) + Len(C)
        /\ \A k \in 1 .. Len(P) + Len(C) : Q[k] = IF k <= Len(P) THEN P[k] ELSE C[k - Len(P)]
    BY <1>1, <1>2, ConcatProperties, Zenon
  <2> HIDE DEF Q
  <2> QED
    BY <1>1, <1>2, <2>1
<1> HIDE DEF Q
<1>4. P = <<a, b>> /\ Q = <<a, b, c>>
  BY <1>2, <1>3
<1>5. <<>> \o A = A /\ P \o <<>> = P
  BY <1>1, <1>2, ConcatEmptySeq, Zenon
<1> QED
  BY <1>4, <1>5, Zenon DEF A, B, C, P, Q

\* The nodes that take the place of one that e is taken from.
LEMMA SplitFacts ==
  ASSUME NEW c \in Nodes, NEW e \in Nodes, ~e.free, c.addr <= e.addr, End(e) <= End(c)
  PROVE  LET t == Split(c, e)
         IN  /\ t \in Seq(Nodes) /\ Len(t) \in 1 .. 3 /\ Tiled(t) /\ NoFreePair(t)
             /\ t[1].addr = c.addr /\ End(t[Len(t)]) = End(c)
             /\ (t[1].free \/ t[Len(t)].free) => c.free
             /\ \E k \in 1 .. Len(t) : t[k] = e
             /\ \A p : (\E k \in 1 .. Len(t) : p \in PagesOf(t[k])) <=> p \in PagesOf(c)
             /\ \A p : (\E k \in 1 .. Len(t) : t[k].free /\ p \in PagesOf(t[k]))
                         <=> (c.free /\ p \in PagesOf(c) /\ p \notin PagesOf(e))
<1> DEFINE u == [c EXCEPT !.pages = e.addr - c.addr]
           v == Remnant(c, e)
           t == Split(c, e)
           Good ==
             /\ t \in Seq(Nodes) /\ Len(t) \in 1 .. 3 /\ Tiled(t) /\ NoFreePair(t)
             /\ t[1].addr = c.addr /\ End(t[Len(t)]) = End(c)
             /\ (t[1].free \/ t[Len(t)].free) => c.free
             /\ \E k \in 1 .. Len(t) : t[k] = e
             /\ \A p : (\E k \in 1 .. Len(t) : p \in PagesOf(t[k])) <=> p \in PagesOf(c)
             /\ \A p : (\E k \in 1 .. Len(t) : t[k].free /\ p \in PagesOf(t[k]))
                         <=> (c.free /\ p \in PagesOf(c) /\ p \notin PagesOf(e))
<1>1. /\ c.addr \in Nat /\ c.pages \in Nat \ {0} /\ c.free \in BOOLEAN
      /\ e.addr \in Nat /\ e.pages \in Nat \ {0} /\ e.free = FALSE
      /\ End(c) = c.addr + c.pages /\ End(e) = e.addr + e.pages
  BY DEF Nodes, End
<1>2. /\ u.addr = c.addr /\ u.pages = e.addr - c.addr /\ u.free = c.free
      /\ End(u) = e.addr
      /\ c.addr # e.addr => u \in Nodes
  <2>1. u.addr = c.addr /\ u.pages = e.addr - c.addr /\ u.free = c.free
    BY DEF Nodes
  <2>2. End(u) = e.addr
    <3> HIDE DEF u
    <3> QED
      BY <1>1, <2>1 DEF End
  <2>3. ASSUME c.addr # e.addr
        PROVE  u \in Nodes
    <3>1. e.addr - c.addr \in Nat \ {0}
      BY <1>1, <2>3
    <3> QED
      BY <3>1 DEF Nodes
  <2> QED
    BY <2>1, <2>2, <2>3
<1>3. /\ v.addr = End(e) /\ v.pages = End(c) - End(e) /\ v.free = c.free
      /\ End(v) = End(c)
      /\ End(c) # End(e) => v \in Nodes
  <2>1. v.addr = End(e) /\ v.pages = End(c) - End(e) /\ v.free = c.free
    BY DEF Nodes, Remnant
  <2>2. End(v) = End(c)
    <3> HIDE DEF v
    <3>1. End(v) = v.addr + v.pages
      BY DEF End
    <3> QED
      BY <1>1, <2>1, <3>1
  <2>3. ASSUME End(c) # End(e)
        PROVE  v \in Nodes
    <3>1. End(c) - End(e) \in Nat \ {0} /\ End(e) \in Nat
      BY <1>1, <2>3
    <3> QED
      BY <3>1 DEF Nodes, Remnant
  <2> QED
    BY <2>1, <2>2, <2>3
<1> HIDE DEF u, v
<1>4. ASSUME NEW p
      PROVE  /\ p \in PagesOf(c) <=> p \in Int /\ c.addr <= p /\ p < End(c)
             /\ p \in PagesOf(e) <=> p \in Int /\ e.addr <= p /\ p < End(e)
             /\ p \in PagesOf(u) <=> p \in Int /\ c.addr <= p /\ p < e.addr
             /\ p \in PagesOf(v) <=> p \in Int /\ End(e) <= p /\ p < End(c)
  BY <1>1, <1>2, <1>3 DEF PagesOf
<1>5. CASE c.addr = e.addr /\ End(c) = End(e)
  <2>1. t = <<e>>
    BY <1>5 DEF Split
  <2> HIDE DEF t
  <2>2. Len(t) = 1 /\ t[1] = e /\ t \in Seq(Nodes)
    BY <2>1
  <2> QED
    BY <1>1, <1>4, <1>5, <2>2 DEF Tiled, NoFreePair, t
<1>6. CASE c.addr = e.addr /\ End(c) # End(e)
  <2>1. t = <<e, v>>
    <3>1. t = (<<>> \o <<e>>) \o <<v>>
      BY <1>6, Zenon DEF Split, v
    <3> QED
      BY <3>1, <1>2, <1>3, <1>6, ShortLists, Zenon
  <2> HIDE DEF t
  <2>2. Len(t) = 2 /\ t[1] = e /\ t[2] = v /\ t \in Seq(Nodes)
    BY <1>3, <1>6, <2>1
  <2>3. \A k : k \in 1 .. Len(t) <=> k = 1 \/ k = 2
    BY <2>2
  <2>4. Tiled(t) /\ NoFreePair(t)
    BY <1>1, <1>3, <2>2 DEF Tiled, NoFreePair
  <2>5. \A p : (\E k \in 1 .. Len(t) : p \in PagesOf(t[k])) <=> p \in PagesOf(c)
    BY <1>1, <1>4, <1>6, <2>2, <2>3
  <2>6. \A p : (\E k \in 1 .. Len(t) : t[k].free /\ p \in PagesOf(t[k]))
                         <=> (c.free /\ p \in PagesOf(c) /\ p \notin PagesOf(e))
    BY <1>1, <1>3, <1>4, <1>6, <2>2, <2>3
  <2> QED
    BY <1>1, <1>3, <1>6, <2>2, <2>4, <2>5, <2>6 DEF t
<1>7. CASE c.addr # e.addr /\ End(c) = End(e)
  <2>1. t = <<u, e>>
    <3>1. t = (<<u>> \o <<e>>) \o <<>>
      BY <1>7, Zenon DEF Split, u
    <3> QED
      BY <3>1, <1>2, <1>3, <1>7, ShortLists, Zenon
  <2> HIDE DEF t
  <2>2. Len(t) = 2 /\ t[1] = u /\ t[2] = e /\ t \in Seq(Nodes)
    BY <1>2, <1>7, <2>1
  <2>3. \A k : k \in 1 .. Len(t) <=> k = 1 \/ k = 2
    BY <2>2
  <2>4. Tiled(t) /\ NoFreePair(t)
    BY <1>1, <1>2, <2>2 DEF Tiled, NoFreePair
  <2>5. \A p : (\E k \in 1 .. Len(t) : p \in PagesOf(t[k])) <=> p \in PagesOf(c)
    BY <1>1, <1>4, <1>7, <2>2, <2>3
  <2>6. \A p : (\E k \in 1 .. Len(t) : t[k].free /\ p \in PagesOf(t[k]))
                         <=> (c.free /\ p \in PagesOf(c) /\ p \notin PagesOf(e))
    BY <1>1, <1>2, <1>4, <1>7, <2>2, <2>3
  <2> QED
    BY <1>1, <1>2, <1>7, <2>2, <2>4, <2>5, <2>6 DEF t
<1>8. CASE c.addr # e.addr /\ End(c) # End(e)
  <2>1. t = <<u, e, v>>
    <3>1. t = (<<u>> \o <<e>>) \o <<v>>
      BY <1>8, Zenon DEF Split, u, v
    <3> QED
      BY <3>1, <1>2, <1>3, <1>8, ShortLists, Zenon
  <2> HIDE DEF t
  <2>2. Len(t) = 3 /\ t[1] = u /\ t[2] = e /\ t[3] = v /\ t \in Seq(Nodes)
    BY <1>2, <1>3, <1>8, <2>1
  <2>3. \A k : k \in 1 .. Len(t) <=> k = 1 \/ k = 2 \/ k = 3
    BY <2>2
  <2>4. Tiled(t) /\ NoFreePair(t)
    <3>1. \A k : k \in 1 .. Len(t) - 1 <=> k = 1 \/ k = 2
      BY <2>2
    <3> QED
      BY <1>1, <1>2, <1>3, <2>2, <3>1 DEF Tiled, NoFreePair
  <2>5. \A p : (\E k \in 1 .. Len(t) : p \in PagesOf(t[k])) <=> p \in PagesOf(c)
    BY <1>1, <1>4, <2>2, <2>3
  <2>6. \A p : (\E k \in 1 .. Len(t) : t[k].free /\ p \in PagesOf(t[k]))
                         <=> (c.free /\ p \in PagesOf(c) /\ p \notin PagesOf(e))
    BY SMTT(30), <1>1, <1>2, <1>3, <1>4, <2>2, <2>3
  <2> QED
    BY <1>1, <1>2, <1>3, <2>2, <2>3, <2>4, <2>5, <2>6 DEF t
<1> QED
  BY <1>5, <1>6, <1>7, <1>8 DEF t

\* In r the M elements of t have taken the place of the n-th of the L elements of s.
Spliced(r, R, s, L, n, t, M) ==
  /\ L \in Nat /\ n \in 1 .. L /\ M \in 1 .. 3 /\ R = L + M - 1
  /\ \A k \in 1 .. n - 1 : r[k] = s[k]
  /\ \A k \in 1 .. M : r[n - 1 + k] = t[k]
  /\ \A k \in n + 1 .. L : r[k + M - 1] = s[k]

\* Its neighbours j and j + 1 are neighbours of s or of t, or where the two meet.
Neighbours(j, r, s, L, n, t, M) ==
  \/ \E k \in 1 .. L - 1 : r[j] = s[k] /\ r[j + 1] = s[k + 1]
  \/ \E k \in 1 .. M - 1 : r[j] = t[k] /\ r[j + 1] = t[k + 1]
  \/ \E k \in 1 .. L - 1 : k + 1 = n /\ r[j] = s[k] /\ r[j + 1] = t[1]
  \/ n \in 1 .. L - 1 /\ r[j] = t[M] /\ r[j + 1] = s[n + 1]

\* Any two neighbours of r are so.
LEMMA SplicedPairs ==
  ASSUME NEW r, NEW R, NEW s, NEW L, NEW n, NEW t, NEW M, Spliced(r, R, s, L, n, t, M)
  PROVE  \A j \in 1 .. R - 1 : Neighbours(j, r, s, L, n, t, M)
<1>0. /\ L \in Nat /\ n \in 1 .. L /\ M \in 1 .. 3 /\ R = L + M - 1
      /\ \A k \in 1 .. n - 1 : r[k] = s[k]
      /\ \A k \in 1 .. M : r[n - 1 + k] = t[k]
      /\ \A k \in n + 1 .. L : r[k + M - 1] = s[k]
  BY DEF Spliced
<1> TAKE j \in 1 .. R - 1
<1>1. CASE j + 1 <= n - 1
  <2>1. j \in 1 .. n - 1 /\ j + 1 \in 1 .. n - 1 /\ j \in 1 .. L - 1
    BY <1>0, <1>1
  <2> QED
    BY <1>0, <2>1 DEF Neighbours
<1>2. CASE j = n - 1
  <2>1. j \in 1 .. n - 1 /\ j \in 1 .. L - 1 /\ j + 1 = n /\ 1 \in 1 .. M /\ j + 1 = n - 1 + 1
    BY <1>0, <1>2
  <2> QED
    BY <1>0, <2>1 DEF Neighbours
<1>3. CASE j > n - 1 /\ j < n - 1 + M
  <2> DEFINE k == j - (n - 1)
  <2>1. k \in 1 .. M /\ k + 1 \in 1 .. M /\ k \in 1 .. M - 1
        /\ j = n - 1 + k /\ j + 1 = n - 1 + (k + 1)
    BY <1>0, <1>3
  <2> HIDE DEF k
  <2>2. r[j] = t[k] /\ r[j + 1] = t[k + 1]
    BY <1>0, <2>1
  <2> QED
    BY <2>1, <2>2 DEF Neighbours
<1>4. CASE j = n - 1 + M
  <2>1. M \in 1 .. M /\ n \in 1 .. L - 1 /\ n + 1 \in n + 1 .. L /\ j + 1 = (n + 1) + M - 1
    BY <1>0, <1>4
  <2>2. r[j] = t[M] /\ r[j + 1] = s[n + 1]
    BY <1>0, <1>4, <2>1
  <2> QED
    BY <2>1, <2>2 DEF Neighbours
<1>5. CASE j > n - 1 + M
  <2> DEFINE k == j - M + 1
  <2>1. k \in n + 1 .. L /\ k + 1 \in n + 1 .. L /\ k \in 1 .. L - 1
        /\ j = k + M - 1 /\ j + 1 = (k + 1) + M - 1
    BY <1>0, <1>5
  <2> HIDE DEF k
  <2>2. r[j] = s[k] /\ r[j + 1] = s[k + 1]
    BY <1>0, <2>1
  <2> QED
    BY <2>1, <2>2 DEF Neighbours
<1> QED
  BY <1>0, <1>1, <1>2, <1>3, <1>4, <1>5

\* Taking e from the node that holds it: the list stays in order, no node but
\* that one changes, and the free pages lose those of e.
Taken(s, n, e) == SubSeq(s, 1, n - 1) \o Split(s[n], e) \o SubSeq(s, n + 1, Len(s))

LEMMA TakeKeeps ==
  ASSUME NEW s \in Seq(Nodes), Tiled(s), NoFreePair(s), NEW n \in 1 .. Len(s),
         NEW e \in Nodes, ~e.free, s[n].addr <= e.addr, End(e) <= End(s[n])
  PROVE  /\ Taken(s, n, e) \in Seq(Nodes) /\ Tiled(Taken(s, n, e)) /\ NoFreePair(Taken(s, n, e))
         /\ \E k \in 1 .. Len(Taken(s, n, e)) : Taken(s, n, e)[k] = e
         /\ \A k \in 1 .. Len(s) :
              k # n => \E m \in 1 .. Len(Taken(s, n, e)) : Taken(s, n, e)[m] = s[k]
         /\ AllPages(Taken(s, n, e)) = AllPages(s)
         /\ FreePages(Taken(s, n, e)) = FreePages(s) \ PagesOf(e)
<1> DEFINE t == Split(s[n], e)
           r == Taken(s, n, e)
           L == Len(s)
           M == Len(t)
           R == Len(r)
<1>1. /\ L \in Nat /\ n \in 1 .. L /\ DOMAIN s = 1 .. L /\ Ranged(s) /\ s[n] \in Nodes
  <2>1. /\ L \in Nat /\ n \in 1 .. L /\ DOMAIN s = 1 .. L /\ s[n] \in Nodes
        /\ \A k \in 1 .. L : s[k] \in Nodes
    OBVIOUS
  <2>2. \A c \in Nodes : c.addr \in Nat /\ c.pages \in Nat \ {0}
    BY DEF Nodes
  <2> QED
    BY <2>1, <2>2 DEF Ranged
<1>2. /\ t \in Seq(Nodes) /\ M \in 1 .. 3 /\ Tiled(t) /\ NoFreePair(t)
      /\ t[1].addr = s[n].addr /\ End(t[M]) = End(s[n])
      /\ (t[1].free \/ t[M].free) => s[n].free
      /\ \E k \in 1 .. M : t[k] = e
      /\ \A p : (\E k \in 1 .. M : p \in PagesOf(t[k])) <=> p \in PagesOf(s[n])
      /\ \A p : (\E k \in 1 .. M : t[k].free /\ p \in PagesOf(t[k]))
                   <=> (s[n].free /\ p \in PagesOf(s[n]) /\ p \notin PagesOf(e))
  <2> HIDE DEF L
  <2> QED
    BY <1>1, SplitFacts, Zenon
<1> HIDE DEF t
<1>3. /\ r \in Seq(Nodes) /\ R = L + M - 1
      /\ \A k \in 1 .. n - 1 : r[k] = s[k]
      /\ \A k \in 1 .. M : r[n - 1 + k] = t[k]
      /\ \A k \in n + 1 .. L : r[k + M - 1] = s[k]
  <2> DEFINE q == SubSeq(s, 1, n - 1) \o t \o SubSeq(s, n + 1, Len(s))
  <2>1. r = q
    BY Zenon DEF Taken, t
  <2> HIDE DEF r
  <2>2. /\ q \in Seq(Nodes) /\ Len(q) = L + M - 1
        /\ \A k \in 1 .. n - 1 : q[k] = s[k]
        /\ \A k \in 1 .. M : q[n - 1 + k] = t[k]
        /\ \A k \in n + 1 .. L : q[k + M - 1] = s[k]
    BY <1>1, <1>2, SpliceFacts, Zenon
  <2> HIDE DEF q
  <2> QED
    BY <2>1, <2>2
<1>4. R \in Nat /\ DOMAIN r = 1 .. R
  <2> HIDE DEF r
  <2> QED
    BY <1>3
<1> HIDE DEF r, L, M, R
<1>5. ASSUME NEW j \in 1 .. R
      PROVE  \/ j \in 1 .. n - 1 /\ r[j] = s[j]
             \/ \E k \in 1 .. M : j = n - 1 + k /\ r[j] = t[k]
             \/ \E k \in n + 1 .. L : j = k + M - 1 /\ r[j] = s[k]
  <2>1. CASE j <= n - 1
    BY <1>1, <1>3, <2>1
  <2>2. CASE ~(j <= n - 1) /\ j <= n - 1 + M
    <3>1. j - (n - 1) \in 1 .. M /\ j = n - 1 + (j - (n - 1))
      BY <1>1, <1>2, <1>4, <2>2
    <3> QED
      BY <1>3, <3>1
  <2>3. CASE ~(j <= n - 1 + M)
    <3>1. j - M + 1 \in n + 1 .. L /\ j = (j - M + 1) + M - 1
      BY <1>1, <1>2, <1>3, <1>4, <2>3
    <3> QED
      BY <1>3, <3>1
  <2> QED
    BY <2>1, <2>2, <2>3
<1>6. \A j \in 1 .. R - 1 : Neighbours(j, r, s, L, n, t, M)
  <2>1. Spliced(r, R, s, L, n, t, M)
    BY <1>1, <1>2, <1>3 DEF Spliced
  <2> QED
    BY <2>1, SplicedPairs, Zenon
<1>7. Tiled(r) /\ NoFreePair(r)
  <2>1. ASSUME NEW j \in 1 .. R - 1
        PROVE  End(r[j]) = r[j + 1].addr /\ ~(r[j].free /\ r[j + 1].free)
    <3>1. CASE \E k \in 1 .. L - 1 : r[j] = s[k] /\ r[j + 1] = s[k + 1]
      BY <3>1 DEF Tiled, NoFreePair, L
    <3>2. CASE \E k \in 1 .. M - 1 : r[j] = t[k] /\ r[j + 1] = t[k + 1]
      BY <1>2, <3>2 DEF Tiled, NoFreePair, M
    <3>3. CASE \E k \in 1 .. L - 1 : k + 1 = n /\ r[j] = s[k] /\ r[j + 1] = t[1]
      BY <1>2, <3>3 DEF Tiled, NoFreePair, L
    <3>4. CASE n \in 1 .. L - 1 /\ r[j] = t[M] /\ r[j + 1] = s[n + 1]
      BY <1>2, <3>4 DEF Tiled, NoFreePair, L
    <3> QED
      BY <1>6, <3>1, <3>2, <3>3, <3>4 DEF Neighbours
  <2> QED
    BY <2>1 DEF Tiled, NoFreePair, R
<1>8. /\ \A k \in 1 .. L : k # n => \E m \in 1 .. R : r[m] = s[k]
      /\ \A k \in 1 .. M : \E m \in 1 .. R : r[m] = t[k]
  <2>0. R = L + M - 1 /\ L \in Nat /\ n \in 1 .. L /\ M \in 1 .. 3
    BY <1>1, <1>2, <1>3
  <2>1. ASSUME NEW k \in 1 .. L, k < n
        PROVE  \E m \in 1 .. R : r[m] = s[k]
    <3>1. k \in 1 .. n - 1 /\ k \in 1 .. R
      BY <2>0, <2>1
    <3> QED
      BY <1>3, <3>1
  <2>2. ASSUME NEW k \in 1 .. L, n < k
        PROVE  \E m \in 1 .. R : r[m] = s[k]
    <3>1. k \in n + 1 .. L /\ k + M - 1 \in 1 .. R
      BY <2>0, <2>2
    <3> QED
      BY <1>3, <3>1
  <2>3. ASSUME NEW k \in 1 .. M
        PROVE  \E m \in 1 .. R : r[m] = t[k]
    <3>1. n - 1 + k \in 1 .. R
      BY <2>0, <2>3
    <3> QED
      BY <1>3, <3>1
  <2> QED
    BY <2>0, <2>1, <2>2, <2>3
<1>9. ASSUME NEW j \in 1 .. R
      PROVE  \/ \E k \in 1 .. L : k # n /\ r[j] = s[k]
             \/ \E k \in 1 .. M : r[j] = t[k]
  <2>1. /\ \A k \in 1 .. n - 1 : k \in 1 .. L /\ k # n
        /\ \A k \in n + 1 .. L : k \in 1 .. L /\ k # n
    BY <1>1
  <2> QED
    BY <1>5, <2>1
<1>10. AllPages(r) = AllPages(s)
  <2>1. ASSUME NEW p
        PROVE  p \in AllPages(r) <=> p \in AllPages(s)
    <3>1. /\ p \in AllPages(r) <=> \E j \in 1 .. R : p \in PagesOf(r[j])
          /\ p \in AllPages(s) <=> \E k \in 1 .. L : p \in PagesOf(s[k])
      BY <1>1, <1>4, InPages DEF R, L
    <3>2. ASSUME NEW j \in 1 .. R, p \in PagesOf(r[j])
          PROVE  \E k \in 1 .. L : p \in PagesOf(s[k])
      BY <1>1, <1>2, <1>9, <3>2
    <3>3. ASSUME NEW k \in 1 .. L, p \in PagesOf(s[k])
          PROVE  \E j \in 1 .. R : p \in PagesOf(r[j])
      <4>1. CASE k = n
        BY <1>2, <1>8, <3>3, <4>1
      <4>2. CASE k # n
        BY <1>8, <3>3, <4>2
      <4> QED
        BY <4>1, <4>2
    <3> QED
      BY <3>1, <3>2, <3>3
  <2> QED
    BY <2>1
<1>11. FreePages(r) = FreePages(s) \ PagesOf(e)
  <2>1. ASSUME NEW p
        PROVE  p \in FreePages(r) <=> (p \in FreePages(s) /\ p \notin PagesOf(e))
    <3>1. /\ p \in FreePages(r) <=> \E j \in 1 .. R : r[j].free /\ p \in PagesOf(r[j])
          /\ p \in FreePages(s) <=> \E k \in 1 .. L : s[k].free /\ p \in PagesOf(s[k])
      BY <1>1, <1>4, InPages DEF R, L
    <3>2. ASSUME NEW k \in 1 .. L, k # n, p \in PagesOf(s[k])
          PROVE  p \notin PagesOf(e)
      <4>1. p \notin PagesOf(s[n])
        BY <1>1, <3>2, TiledDisjoint DEF L
      <4>2. PagesOf(e) \subseteq PagesOf(s[n])
        <5>1. /\ e.addr \in Nat /\ e.pages \in Nat /\ s[n].addr \in Nat /\ s[n].pages \in Nat
          BY <1>1 DEF Nodes
        <5> QED
          BY <5>1 DEF PagesOf, End
      <4> QED
        BY <4>1, <4>2
    <3>3. ASSUME NEW j \in 1 .. R, r[j].free, p \in PagesOf(r[j])
          PROVE  /\ \E k \in 1 .. L : s[k].free /\ p \in PagesOf(s[k])
                 /\ p \notin PagesOf(e)
      <4>1. CASE \E k \in 1 .. L : k # n /\ r[j] = s[k]
        BY <3>2, <3>3, <4>1
      <4>2. CASE \E k \in 1 .. M : r[j] = t[k]
        BY <1>1, <1>2, <3>3, <4>2
      <4> QED
        BY <1>9, <4>1, <4>2
    <3>4. ASSUME NEW k \in 1 .. L, s[k].free, p \in PagesOf(s[k]), p \notin PagesOf(e)
          PROVE  \E j \in 1 .. R : r[j].free /\ p \in PagesOf(r[j])
      <4>1. CASE k = n
        BY <1>2, <1>8, <3>4, <4>1
      <4>2. CASE k # n
        BY <1>8, <3>4, <4>2
      <4> QED
        BY <4>1, <4>2
    <3> QED
      BY <3>1, <3>2, <3>3, <3>4
  <2> QED
    BY <2>1
<1>12. \E k \in 1 .. R : r[k] = e
  BY <1>2, <1>8
<1> QED
  BY <1>3, <1>7, <1>8, <1>10, <1>11, <1>12, Zenon DEF r, t, L, M, R

-----------------------------------------------------------------------------
(* The inductive invariant. *)

RegionNode(r) == Node(r, r.type = "ddr", TRUE, r.type = "mmio")
PagesTo(n) == UNION { PagesOf(layout.regions[k]) : k \in 1 .. n }

\* The list is in order, no two neighbours are free, every claim is a node of
\* its own, and what is free is the DDR nobody claimed.
ListInv ==
  /\ nodes \in Seq(Nodes) /\ Tiled(nodes) /\ NoFreePair(nodes)
  /\ \A c \in claims : c \in Nodes /\ ~c.free /\ \E n \in 1 .. Len(nodes) : nodes[n] = c
  /\ FreePages(nodes) = (AllPages(nodes) \intersect DdrPages) \ Claimed

Unmapped == {"info", "regions", "reserved", "sections"}
Mapped == {"activate", "allocators", "ended", "unmap"}
Stages ==
  Unmapped \union Mapped \union {"map", "unmap high", "kernel", "halted", "overrun"}

\* Where the loops are.
StageInv ==
  /\ layout \in Layouts /\ stage \in Stages
  /\ stage \notin {"info", "halted", "overrun"} => ValidMap(layout)
  /\ stage = "info" => nodes = <<>> /\ i = 1
  /\ stage \in {"info", "regions"} => claims = {}
  /\ stage = "regions" =>
       /\ i \in 1 .. Len(layout.regions) /\ Len(nodes) = i - 1
       /\ \A k \in 1 .. i - 1 : nodes[k] = RegionNode(layout.regions[k])
  /\ stage = "reserved" =>
       /\ i \in 1 .. Len(layout.reserved)
       /\ \A c \in claims : \E k \in 1 .. i - 1 : PagesOf(c) = PagesOf(layout.reserved[k])
  /\ stage = "sections" => i \in 1 .. Len(layout.sections)
  /\ stage = "map" => i \in 1 .. Len(layout.regions)
  /\ stage \notin {"info", "regions", "halted", "overrun"} => AllPages(nodes) = RegionPages

\* What is mapped, and through what the driver reaches the tables.
MapInv ==
  /\ mmu \in [on : BOOLEAN, high : BOOLEAN] /\ tables \subseteq Claimed
  /\ stage \in Unmapped \union {"map", "activate"} => ~mmu.on
  /\ stage \in Unmapped \union {"map", "activate", "allocators", "ended"} => ~mmu.high
  /\ stage \in {"unmap", "unmap high", "kernel"} => mmu.high
  /\ stage \in Unmapped => lo = {} /\ hi = {}
  /\ stage = "map" => lo = PagesTo(i - 1) /\ hi = PagesTo(i - 1)
  /\ stage \in Mapped => lo = RegionPages
  /\ stage \in Mapped \union {"unmap high", "kernel"} => hi = RegionPages
  /\ stage \in {"unmap high", "kernel"} => lo = {}
  /\ stage \in {"ended", "unmap", "unmap high", "kernel"} => buf = nodes
  /\ stage = "overrun" => TablesReachable

FaultInv ==
  (stage # "halted" => fault = NoFault) /\ HaltsForCause

EarlyInv == ListInv /\ StageInv /\ MapInv /\ FaultInv /\ TablesReachable

LEMMA LayoutFacts ==
  ASSUME NEW l \in Layouts
  PROVE  /\ l.regions \in Seq(Regions) /\ Len(l.regions) \in Nat \ {0}
         /\ l.reserved \in Seq(Spans) /\ Len(l.reserved) \in Nat \ {0}
         /\ l.sections \in Seq(Spans) /\ Len(l.sections) \in Nat \ {0}
         /\ DOMAIN l.regions = 1 .. Len(l.regions) /\ DOMAIN l.reserved = 1 .. Len(l.reserved)
         /\ Ranged(l.regions) /\ Tiled(l.regions)
         /\ \A r \in 1 .. Len(l.regions) : End(l.regions[r]) <= LowSpan
         /\ \A r, s \in 1 .. Len(l.reserved) :
              r # s => PagesOf(l.reserved[r]) \intersect PagesOf(l.reserved[s]) = {}
<1>1. /\ l.regions \in Seq(Regions) \ {<<>>}
      /\ {l.reserved, l.sections} \subseteq Seq(Spans) \ {<<>>}
      /\ \A r \in 1 .. Len(l.regions) - 1 : End(l.regions[r]) = l.regions[r + 1].addr
      /\ \A r, s \in DOMAIN l.reserved :
           r # s => PagesOf(l.reserved[r]) \intersect PagesOf(l.reserved[s]) = {}
      /\ \A r \in DOMAIN l.regions : End(l.regions[r]) <= LowSpan
  BY EarlyAssumption, Zenon
<1>2. /\ l.regions \in Seq(Regions) /\ Len(l.regions) \in Nat \ {0}
      /\ l.reserved \in Seq(Spans) /\ Len(l.reserved) \in Nat \ {0}
      /\ l.sections \in Seq(Spans) /\ Len(l.sections) \in Nat \ {0}
      /\ DOMAIN l.regions = 1 .. Len(l.regions) /\ DOMAIN l.reserved = 1 .. Len(l.reserved)
  <2>1. /\ l.regions \in Seq(Regions) /\ l.regions # <<>>
        /\ l.reserved \in Seq(Spans) /\ l.reserved # <<>>
        /\ l.sections \in Seq(Spans) /\ l.sections # <<>>
    BY <1>1
  <2> QED
    BY <2>1
<1>3. Ranged(l.regions)
  <2>1. \A k \in 1 .. Len(l.regions) : l.regions[k] \in Regions
    BY <1>2
  <2>2. \A r \in Regions : r.addr \in Nat /\ r.pages \in Nat \ {0}
    BY DEF Regions
  <2> QED
    BY <2>1, <2>2 DEF Ranged
<1> QED
  BY <1>1, <1>2, <1>3 DEF Tiled

LEMMA InRegions ==
  ASSUME layout \in Layouts, NEW p
  PROVE  /\ p \in RegionPages <=>
              \E k \in 1 .. Len(layout.regions) : p \in PagesOf(layout.regions[k])
         /\ p \in DdrPages <=>
              \E k \in 1 .. Len(layout.regions) :
                layout.regions[k].type = "ddr" /\ p \in PagesOf(layout.regions[k])
         /\ p \in RegionPages => p \in Nat /\ p < LowSpan
<1>1. /\ DOMAIN layout.regions = 1 .. Len(layout.regions) /\ Ranged(layout.regions)
      /\ \A r \in 1 .. Len(layout.regions) : End(layout.regions[r]) <= LowSpan
  BY LayoutFacts
<1>2. p \in RegionPages <=>
        \E k \in 1 .. Len(layout.regions) : p \in PagesOf(layout.regions[k])
  BY <1>1 DEF RegionPages
<1>3. p \in DdrPages <=>
        \E k \in 1 .. Len(layout.regions) :
          layout.regions[k].type = "ddr" /\ p \in PagesOf(layout.regions[k])
  BY <1>1 DEF DdrPages, Ddr
<1>4. ASSUME NEW k \in 1 .. Len(layout.regions), p \in PagesOf(layout.regions[k])
      PROVE  p \in Nat /\ p < LowSpan
  <2>1. layout.regions[k].addr \in Nat /\ layout.regions[k].pages \in Nat /\ LowSpan \in Nat
    BY <1>1, EarlyAssumption DEF Ranged
  <2>2. End(layout.regions[k]) \in Nat /\ End(layout.regions[k]) <= LowSpan
    BY <1>1, <2>1 DEF End
  <2> QED
    BY <1>4, <2>1, <2>2 DEF PagesOf
<1> QED
  BY <1>2, <1>3, <1>4

\* mm_info_init accepts one region of DDR.
LEMMA OneDdr ==
  ASSUME NEW l \in Layouts, ValidMap(l),
         NEW a \in 1 .. Len(l.regions), NEW b \in 1 .. Len(l.regions),
         l.regions[a].type = "ddr", l.regions[b].type = "ddr"
  PROVE  a = b
<1>1. DOMAIN l.regions = 1 .. Len(l.regions) /\ Len(l.regions) \in Nat
  BY LayoutFacts
<1>2. IsFiniteSet(1 .. Len(l.regions))
  BY <1>1, FS_Interval
<1>3. Ddr(l) \subseteq 1 .. Len(l.regions) /\ a \in Ddr(l) /\ b \in Ddr(l)
  BY <1>1 DEF Ddr
<1>4. IsFiniteSet(Ddr(l))
  BY <1>2, <1>3, FS_Subset
<1>5. Cardinality(Ddr(l)) = 1
  BY DEF ValidMap
<1>6. PICK x : Ddr(l) = {x}
  BY <1>4, <1>5, FS_Singleton
<1> QED
  BY <1>3, <1>6

LEMMA FirstIn ==
  ASSUME NEW S \in SUBSET Nat, S # {}
  PROVE  First(S) \in S
<1>1. \E x \in S : \A y \in S : x <= y
  BY HasLeast
<1> QED
  BY <1>1 DEF First

LEMMA DivCeilFacts ==
  ASSUME NEW a \in Nat \ {0}, NEW b \in Nat \ {0}
  PROVE  div_ceil(a, b) \in Nat \ {0}
<1> DEFINE y == a + b - 1
           q == y \div b
           m == y % b
<1>1. y \in Nat /\ y >= b
  OBVIOUS
<1>2. y = q * b + m /\ q \in Nat /\ m \in 0 .. b - 1
  <2> HIDE DEF y
  <2> QED
    BY <1>1, DivMod
<1>3. q # 0
  <2>1. SUFFICES ASSUME q = 0
                 PROVE  FALSE
    OBVIOUS
  <2> HIDE DEF y, q, m
  <2>2. q * b = 0
    BY <2>1
  <2> QED
    BY <1>1, <1>2, <2>2
<1> QED
  BY <1>2, <1>3 DEF div_ceil

-----------------------------------------------------------------------------
(* What a reservation and an early_kalloc do, and why they halt. *)

\* Free DDR that nobody claimed is in one node.
LEMMA RoomIsANode ==
  ASSUME ListInv, layout \in Layouts, AllPages(nodes) = RegionPages,
         NEW a \in Nat, NEW b \in Nat, a <= b, a .. b \subseteq DdrPages \ Claimed
  PROVE  \E k \in 1 .. Len(nodes) : nodes[k].free /\ nodes[k].addr <= a /\ b < End(nodes[k])
<1>1. DdrPages \subseteq RegionPages
  BY InRegions
<1>2. DdrPages \ Claimed = FreePages(nodes)
  BY <1>1 DEF ListInv
<1> QED
  BY <1>2, FreeRun DEF ListInv

LEMMA ReserveKeeps ==
  ASSUME ListInv, NEW e \in Nodes, ~e.free, NEW all \in BOOLEAN, reserve_memreg(e, all),
         layout' = layout,
         all => \A c \in claims : PagesOf(c) \intersect PagesOf(e) = {}
  PROVE  /\ ListInv' /\ AllPages(nodes') = AllPages(nodes)
         /\ claims' = claims \union {e} /\ Claimed \subseteq Claimed'
<1> DEFINE n == First(Takers(e, all))
           r == Taken(nodes, n, e)
<1>1. /\ Takers(e, all) # {} /\ nodes' = r /\ claims' = claims \union {e}
  BY Zenon DEF reserve_memreg, Taken
<1>2. /\ nodes \in Seq(Nodes) /\ Tiled(nodes) /\ NoFreePair(nodes)
      /\ \A c \in claims : c \in Nodes /\ ~c.free /\ \E k \in 1 .. Len(nodes) : nodes[k] = c
      /\ FreePages(nodes) = (AllPages(nodes) \intersect DdrPages) \ Claimed
  BY DEF ListInv
<1>3. DOMAIN nodes = 1 .. Len(nodes) /\ Len(nodes) \in Nat
  BY <1>2
<1>4. /\ n \in 1 .. Len(nodes) /\ (all \/ nodes[n].free)
      /\ nodes[n].addr <= e.addr /\ End(e) <= End(nodes[n])
  <2>1. Takers(e, all) \in SUBSET Nat
    BY <1>3 DEF Takers
  <2>2. n \in Takers(e, all)
    BY <1>1, <2>1, FirstIn
  <2> HIDE DEF n
  <2> QED
    BY <1>3, <2>2 DEF Takers
<1> HIDE DEF n
<1>5. /\ r \in Seq(Nodes) /\ Tiled(r) /\ NoFreePair(r)
      /\ \E k \in 1 .. Len(r) : r[k] = e
      /\ \A k \in 1 .. Len(nodes) : k # n => \E m \in 1 .. Len(r) : r[m] = nodes[k]
      /\ AllPages(r) = AllPages(nodes)
      /\ FreePages(r) = FreePages(nodes) \ PagesOf(e)
  <2>1. /\ nodes \in Seq(Nodes) /\ Tiled(nodes) /\ NoFreePair(nodes)
        /\ n \in 1 .. Len(nodes) /\ nodes[n].addr <= e.addr /\ End(e) <= End(nodes[n])
    BY <1>2, <1>4
  <2> QED
    BY <2>1, TakeKeeps, SMT
<1> HIDE DEF r
<1>6. ASSUME NEW c \in claims
      PROVE  nodes[n] # c
  <2>1. CASE nodes[n].free
    BY <1>2, <2>1
  <2>2. CASE all
    <3>1. e.addr \in PagesOf(e) /\ e.addr \in PagesOf(nodes[n])
      <4>1. /\ e.addr \in Nat /\ e.pages \in Nat \ {0}
            /\ nodes[n].addr \in Nat /\ nodes[n].pages \in Nat
        <5>1. nodes[n] \in Nodes
          <6>1. nodes \in Seq(Nodes) /\ n \in 1 .. Len(nodes)
            BY <1>2, <1>4
          <6> QED
            BY <6>1
        <5> QED
          BY <5>1 DEF Nodes
      <4> QED
        BY <1>4, <4>1 DEF PagesOf, End
    <3> QED
      BY <2>2, <3>1
  <2> QED
    BY <1>4, <2>1, <2>2
<1>7. ASSUME NEW c \in claims'
      PROVE  c \in Nodes /\ ~c.free /\ \E m \in 1 .. Len(r) : r[m] = c
  <2>1. CASE c = e
    BY <1>5, <2>1
  <2>2. CASE c \in claims
    <3>1. PICK k \in 1 .. Len(nodes) : nodes[k] = c
      BY <1>2, <2>2
    <3>2. k # n
      BY <1>6, <2>2, <3>1
    <3> QED
      BY <1>2, <1>5, <2>2, <3>1, <3>2
  <2> QED
    BY <1>1, <2>1, <2>2
<1>8. Claimed' = Claimed \union PagesOf(e)
  BY <1>1 DEF Claimed
<1>9. DdrPages' = DdrPages
  BY DEF DdrPages
<1>10. FreePages(r) = (AllPages(r) \intersect DdrPages) \ (Claimed \union PagesOf(e))
  BY <1>2, <1>5
<1>11. ListInv'
  BY <1>1, <1>5, <1>7, <1>8, <1>9, <1>10 DEF ListInv
<1> QED
  BY <1>1, <1>5, <1>8, <1>11

\* Where the list meets what others own depends on three variables.
LEMMA SameIntact ==
  ASSUME layout' = layout, nodes' = nodes, claims' = claims
  PROVE  Intact' = Intact /\ ListPages' = ListPages /\ Fixed' = Fixed /\ Spare' = Spare
<1>1. DdrPages' = DdrPages /\ Claimed' = Claimed
  BY DEF DdrPages, Claimed
<1>2. Fixed' = Fixed
  BY DEF Fixed
<1>3. ListPages' = ListPages
  BY <1>1 DEF ListPages
<1> QED
  BY <1>1, <1>2, <1>3 DEF Intact, Spare

\* A halt says why, and the cause holds.
LEMMA HaltKeeps ==
  ASSUME EarlyInv, NEW why, NEW range, Halt(why, range),
         why = "no memory" =>
           \A a \in DdrPages : ~(a .. a + range.pages - 1 \subseteq DdrPages \ Claimed),
         why = "region not free" => ~(PagesOf(range) \subseteq DdrPages \ Claimed),
         why = "no node" => ~Intact
  PROVE  EarlyInv'
<1>1. /\ stage' = "halted" /\ fault' = [why |-> why, addr |-> range.addr, pages |-> range.pages]
      /\ layout' = layout /\ i' = i /\ nodes' = nodes /\ buf' = buf /\ lo' = lo /\ hi' = hi
      /\ mmu' = mmu /\ tables' = tables /\ calls' = calls /\ claims' = claims
  BY DEF Halt
<1>2. DdrPages' = DdrPages /\ Claimed' = Claimed /\ Intact' = Intact
  BY <1>1, SameIntact DEF DdrPages, Claimed
<1>3. ListInv'
  <2>1. ListInv
    BY DEF EarlyInv
  <2> QED
    BY <1>1, <1>2, <2>1 DEF ListInv
<1>4. StageInv'
  BY <1>1 DEF EarlyInv, StageInv, Stages, Unmapped, Mapped
<1>5. MapInv'
  BY <1>1, <1>2 DEF EarlyInv, MapInv, Unmapped, Mapped
<1>6. FaultInv'
  <2>1. PagesOf(fault') = PagesOf(range) /\ fault'.pages = range.pages /\ fault'.why = why
    BY <1>1 DEF PagesOf, End
  <2> QED
    BY <1>1, <1>2, <2>1 DEF FaultInv, HaltsForCause
<1>7. TablesReachable'
  BY <1>1 DEF EarlyInv, TablesReachable
<1> QED
  BY <1>3, <1>4, <1>5, <1>6, <1>7 DEF EarlyInv

\* While the core runs, the tables are in claimed pages, which are mapped.
LEMMA TablesAreMapped ==
  ASSUME ListInv, StageInv, MapInv, stage # "halted"
  PROVE  TablesReachable
<1>1. SUFFICES ASSUME mmu.on, stage # "overrun"
               PROVE  tables \subseteq (IF mmu.high THEN hi ELSE lo)
  BY DEF TablesReachable, MapInv
<1>2. stage \in {"allocators", "ended", "unmap", "unmap high", "kernel"}
  BY <1>1 DEF StageInv, MapInv, Stages, Unmapped, Mapped
<1>3. tables \subseteq RegionPages
  <2>1. AllPages(nodes) = RegionPages /\ tables \subseteq Claimed
    BY <1>2 DEF StageInv, MapInv
  <2>2. ASSUME NEW p \in Claimed
        PROVE  p \in AllPages(nodes)
    <3>1. PICK c \in claims : p \in PagesOf(c)
      BY DEF Claimed
    <3>2. PICK n \in 1 .. Len(nodes) : nodes[n] = c
      BY DEF ListInv
    <3>3. Len(nodes) \in Nat /\ DOMAIN nodes = 1 .. Len(nodes)
      BY DEF ListInv
    <3> QED
      BY <3>1, <3>2, <3>3, InPages
  <2> QED
    BY <2>1, <2>2
<1>4. CASE stage \in {"allocators", "ended"}
  BY <1>3, <1>4 DEF MapInv, Unmapped, Mapped
<1>5. CASE stage \in {"unmap", "unmap high", "kernel"}
  BY <1>3, <1>5 DEF MapInv, Unmapped, Mapped
<1> QED
  BY <1>2, <1>4, <1>5

LEMMA NoTaker ==
  ASSUME ListInv, layout \in Layouts, AllPages(nodes) = RegionPages,
         NEW e \in Nodes, NEW all \in BOOLEAN, Takers(e, all) = {}
  PROVE  ~(PagesOf(e) \subseteq DdrPages \ Claimed)
<1> SUFFICES ASSUME PagesOf(e) \subseteq DdrPages \ Claimed
             PROVE  FALSE
  OBVIOUS
<1>1. /\ e.addr \in Nat /\ e.pages \in Nat \ {0} /\ End(e) = e.addr + e.pages
      /\ PagesOf(e) = e.addr .. (End(e) - 1)
  BY DEF Nodes, End, PagesOf
<1>2. End(e) - 1 \in Nat /\ e.addr <= End(e) - 1
  BY <1>1
<1>3. PICK k \in 1 .. Len(nodes) :
        nodes[k].free /\ nodes[k].addr <= e.addr /\ End(e) - 1 < End(nodes[k])
  BY <1>1, <1>2, RoomIsANode
<1>4. nodes[k].addr \in Nat /\ nodes[k].pages \in Nat /\ DOMAIN nodes = 1 .. Len(nodes)
  <2>1. nodes \in Seq(Nodes)
    BY DEF ListInv
  <2>2. nodes[k] \in Nodes /\ DOMAIN nodes = 1 .. Len(nodes)
    BY <2>1
  <2> QED
    BY <2>2 DEF Nodes
<1>5. End(e) <= End(nodes[k])
  BY <1>1, <1>3, <1>4 DEF End
<1>6. k \in Takers(e, all)
  BY <1>3, <1>4, <1>5 DEF Takers
<1> QED
  BY <1>6

CallSet == [bytes : Nat \ {0}, permanent : BOOLEAN, device : BOOLEAN]

LEMMA CallPages ==
  ASSUME NEW call \in CallSet, NEW a
  PROVE  Extent(call, a).pages \in Nat \ {0} /\ Extent(call, a).addr = a
         /\ Extent(call, a).pages = div_ceil(call.bytes, PageBytes)
<1>1. call.bytes \in Nat \ {0} /\ PageBytes \in Nat \ {0}
  BY EarlyAssumption DEF CallSet
<1>2. div_ceil(call.bytes, PageBytes) \in Nat \ {0}
  BY <1>1, DivCeilFacts
<1> QED
  BY <1>2 DEF Extent

LEMMA NoRoom ==
  ASSUME ListInv, layout \in Layouts, AllPages(nodes) = RegionPages,
         NEW call \in CallSet, Roomy(call) = {}
  PROVE  \A a \in DdrPages : ~(a .. a + Extent(call, 0).pages - 1 \subseteq DdrPages \ Claimed)
<1> DEFINE n == Extent(call, 0).pages
<1>1. n \in Nat \ {0} /\ n = div_ceil(call.bytes, PageBytes)
  BY CallPages
<1> HIDE DEF n
<1> SUFFICES ASSUME NEW a \in DdrPages, a .. a + n - 1 \subseteq DdrPages \ Claimed
             PROVE  FALSE
  BY DEF n
<1>2. a \in Nat
  <2>1. a \in RegionPages
    BY InRegions
  <2> QED
    BY <2>1, InRegions
<1>3. a + n - 1 \in Nat /\ a <= a + n - 1
  BY <1>1, <1>2
<1>4. PICK k \in 1 .. Len(nodes) :
        nodes[k].free /\ nodes[k].addr <= a /\ a + n - 1 < End(nodes[k])
  BY <1>2, <1>3, RoomIsANode
<1>5. nodes[k].addr \in Nat /\ nodes[k].pages \in Nat /\ DOMAIN nodes = 1 .. Len(nodes)
  <2>1. nodes \in Seq(Nodes)
    BY DEF ListInv
  <2>2. nodes[k] \in Nodes /\ DOMAIN nodes = 1 .. Len(nodes)
    BY <2>1
  <2> QED
    BY <2>2 DEF Nodes
<1>6. nodes[k].pages >= n
  <2> DEFINE b == nodes[k].addr
             m == nodes[k].pages
  <2>1. b \in Nat /\ m \in Nat /\ b <= a /\ a + n - 1 < b + m
    BY <1>4, <1>5 DEF End
  <2> HIDE DEF b, m
  <2>2. m >= n
    BY <1>1, <1>2, <2>1
  <2> QED
    BY <2>2 DEF m
<1>7. k \in Roomy(call)
  BY <1>1, <1>4, <1>5, <1>6 DEF Roomy
<1> QED
  BY <1>7

\* The block of early_kalloc is the start of a node with room for it.
LEMMA BlockIsNode ==
  ASSUME ListInv, NEW call \in CallSet, Roomy(call) # {}
  PROVE  /\ Block(call) \in Nodes /\ ~Block(call).free
         /\ \E n \in 1 .. Len(nodes) : nodes[n].free /\ nodes[n].addr = Block(call).addr
<1> DEFINE n == First(Roomy(call))
<1>1. n \in Roomy(call) /\ Roomy(call) \subseteq 1 .. Len(nodes)
  <2>1. DOMAIN nodes = 1 .. Len(nodes) /\ Len(nodes) \in Nat
    BY DEF ListInv
  <2>2. Roomy(call) \in SUBSET Nat /\ Roomy(call) \subseteq 1 .. Len(nodes)
    BY <2>1 DEF Roomy
  <2> QED
    BY <2>2, FirstIn
<1> HIDE DEF n
<1>2. nodes[n].addr \in Nat /\ nodes[n].free /\ n \in 1 .. Len(nodes)
  <2>1. nodes \in Seq(Nodes) /\ n \in 1 .. Len(nodes)
    BY <1>1 DEF ListInv
  <2>2. nodes[n] \in Nodes
    BY <2>1
  <2> QED
    BY <1>1, <2>1, <2>2 DEF Nodes, Roomy
<1> DEFINE e == Block(call)
<1> DEFINE w == Extent(call, nodes[n].addr)
<1>3. w.addr \in Nat /\ w.pages \in Nat \ {0} /\ w.addr = nodes[n].addr
  BY <1>2, CallPages
<1>4. call.permanent \in BOOLEAN /\ call.device \in BOOLEAN
  BY DEF CallSet
<1>5. e = Node(w, FALSE, call.permanent, call.device)
  BY DEF Block, n
<1> HIDE DEF w, e
<1>6. e \in Nodes /\ ~e.free /\ e.addr = nodes[n].addr
  BY <1>3, <1>4, <1>5 DEF Nodes, Node
<1> QED
  BY <1>2, <1>6 DEF e

LEMMA KallocKeeps ==
  ASSUME ListInv, NEW call \in CallSet, early_kalloc(call), layout' = layout
  PROVE  /\ ListInv' /\ AllPages(nodes') = AllPages(nodes)
         /\ claims' = claims \union {Block(call)} /\ Claimed \subseteq Claimed'
<1> DEFINE e == Block(call)
<1>1. e \in Nodes /\ ~e.free
  BY BlockIsNode DEF early_kalloc
<1>2. reserve_memreg(e, FALSE)
  BY DEF early_kalloc
<1> HIDE DEF e
<1>3. /\ ListInv' /\ AllPages(nodes') = AllPages(nodes)
      /\ claims' = claims \union {e} /\ Claimed \subseteq Claimed'
  BY <1>1, <1>2, ReserveKeeps
<1> QED
  BY <1>3 DEF e

\* A multiple of b that is more than n - 1 of them rounds up to n at least.
LEMMA DivCeilAbove ==
  ASSUME NEW a \in Nat, NEW b \in Nat \ {0}, NEW n \in Nat, a > (n - 1) * b
  PROVE  div_ceil(a, b) \in Nat /\ div_ceil(a, b) >= n
<1> DEFINE y == a + b - 1
           q == y \div b
           m == y % b
<1>1. y \in Nat /\ y >= n * b
  <2>1. (n - 1) * b = n * b - b /\ n * b \in Nat
    OBVIOUS
  <2> QED
    BY <2>1
<1>2. y = q * b + m /\ q \in Nat /\ m \in 0 .. b - 1
  <2> HIDE DEF y
  <2> QED
    BY <1>1, DivMod
<1>3. q >= n
  <2>1. SUFFICES ASSUME q <= n - 1
                 PROVE  FALSE
    BY <1>2
  <2> HIDE DEF y, q, m
  <2>2. q * b <= (n - 1) * b
    BY <1>2, <2>1
  <2>3. (n - 1) * b = n * b - b
    OBVIOUS
  <2> QED
    BY <1>1, <1>2, <2>2, <2>3
<1> QED
  BY <1>2, <1>3 DEF div_ceil

\* When alloc_node has no room in the DDR for two nodes more, the list is
\* already on the page of _start.
LEMMA NoNodeInTime ==
  ASSUME layout \in Layouts, ValidMap(layout), nodes \in Seq(Nodes),
         NEW k \in 0 .. 2, ~HasNodes(k)
  PROVE  ~Intact
<1>1. PICK r \in Ddr(layout) :
        ~((Len(nodes) + k) * ListNodeBytes <= layout.regions[r].pages * PageBytes)
  BY DEF HasNodes
<1> DEFINE d == layout.regions[r]
           P == d.pages
           L == Len(nodes)
           N == ListNodeBytes
           B == PageBytes
           at == layout.kernel
<1>2. r \in 1 .. Len(layout.regions) /\ d.type = "ddr" /\ d.addr \in Nat /\ P \in Nat \ {0}
  BY LayoutFacts DEF Ddr, Ranged
<1>3. L \in Nat /\ N \in Nat \ {0} /\ B \in Nat \ {0} /\ 2 * N <= B
  BY EarlyAssumption
<1>4. at \in PagesOf(d) /\ at \in Fixed
  <2>1. at \in PagesOf(d)
    BY DEF ValidMap
  <2>2. PICK s \in DOMAIN layout.sections : at \in PagesOf(layout.sections[s])
    BY EarlyAssumption
  <2> HIDE DEF at
  <2>3. at \in UNION { PagesOf(layout.sections[x]) : x \in DOMAIN layout.sections }
    BY <2>2
  <2> QED
    BY <2>1, <2>3 DEF Fixed
<1>5. (L + k) * N > P * B
  <2>1. (L + k) * N \in Nat /\ P * B \in Nat
    <3> HIDE DEF L, N, P, B
    <3> QED
      BY <1>2, <1>3
  <2> QED
    BY <1>1, <2>1
<1>6. at \in Nat /\ d.addr <= at /\ at < d.addr + P
  BY <1>2, <1>4 DEF PagesOf, End
<1>7. at \in DdrPages
  BY <1>1, <1>4 DEF DdrPages
<1> HIDE DEF L, N, P, B, at
<1>8. L * N > (P - 1) * B
  <2>1. (L + k) * N = L * N + k * N /\ (P - 1) * B = P * B - B
    BY <1>2, <1>3
  <2>2. k * N <= 2 * N
    BY <1>3
  <2>3. L * N \in Nat /\ P * B \in Nat /\ k * N \in Nat
    BY <1>2, <1>3
  <2> QED
    BY <1>3, <1>5, <2>1, <2>2, <2>3
<1>9. div_ceil(L * N, B) \in Nat /\ div_ceil(L * N, B) >= P
  <2>1. L * N \in Nat
    BY <1>3
  <2> QED
    BY <1>2, <1>3, <1>8, <2>1, DivCeilAbove
<1>10. End(d) - at \in 1 .. div_ceil(L * N, B)
  <2>1. End(d) = d.addr + P
    BY DEF End, P
  <2> HIDE DEF d
  <2> QED
    BY <1>2, <1>6, <1>9, <2>1
<1>11. at \in ListPages
  BY <1>1, <1>7, <1>10 DEF ListPages, L, N, B, d
<1> QED
  BY <1>4, <1>11 DEF Intact

\* reserve_memreg stops for want of a node.
LEMMA RunOutKeeps ==
  ASSUME EarlyInv, layout \in Layouts, ValidMap(layout), NEW e \in Nodes, ~e.free,
         NEW all \in BOOLEAN, NodesRunOut(e, all)
  PROVE  EarlyInv'
<1> DEFINE n == First(Takers(e, all))
           t == Split(nodes[n], e)
<1>1. Takers(e, all) # {} /\ ~HasNodes(Len(t) - 1) /\ Halt("no node", e)
  BY DEF NodesRunOut
<1>2. nodes \in Seq(Nodes) /\ DOMAIN nodes = 1 .. Len(nodes) /\ Len(nodes) \in Nat
  BY DEF EarlyInv, ListInv
<1>3. n \in 1 .. Len(nodes) /\ nodes[n].addr <= e.addr /\ End(e) <= End(nodes[n])
  <2>1. Takers(e, all) \in SUBSET Nat
    BY <1>2 DEF Takers
  <2>2. n \in Takers(e, all)
    BY <1>1, <2>1, FirstIn
  <2> HIDE DEF n
  <2> QED
    BY <1>2, <2>2 DEF Takers
<1> HIDE DEF n
<1>4. Len(t) \in 1 .. 3
  <2>1. nodes[n] \in Nodes
    BY <1>2, <1>3
  <2> QED
    BY <1>3, <2>1, SplitFacts
<1> DEFINE k == Len(t) - 1
<1>5. k \in 0 .. 2 /\ ~HasNodes(k)
  <2>1. ~HasNodes(k)
    BY <1>1
  <2> HIDE DEF t
  <2> QED
    BY <1>4, <2>1
<1> HIDE DEF k
<1>6. ~Intact
  BY <1>2, <1>5, NoNodeInTime
<1>7. "no node" \notin {"no memory", "region not free"}
  OBVIOUS
<1> QED
  BY <1>1, <1>6, <1>7, HaltKeeps

LEMMA KallocPanicKeeps ==
  ASSUME EarlyInv, stage \in {"map", "allocators"}, NEW call \in CallSet,
         KallocPanics(call)
  PROVE  EarlyInv'
<1>1. ListInv /\ layout \in Layouts /\ AllPages(nodes) = RegionPages
  BY DEF EarlyInv, StageInv
<1>2. CASE Halt("no order", Extent(call, 0))
  <2>1. "no order" \notin {"no memory", "region not free", "no node"}
    OBVIOUS
  <2> QED
    BY <1>2, <2>1, HaltKeeps
<1>3. CASE Roomy(call) = {} /\ Halt("no memory", Extent(call, 0))
  <2>1. \A a \in DdrPages : ~(a .. a + Extent(call, 0).pages - 1 \subseteq DdrPages \ Claimed)
    BY <1>1, <1>3, NoRoom
  <2>2. "no memory" \notin {"region not free", "no node"}
    OBVIOUS
  <2> QED
    BY <1>3, <2>1, <2>2, HaltKeeps
<1>4. CASE NodesRunOut(Block(call), FALSE) /\ Roomy(call) # {}
  BY <1>1, <1>4, BlockIsNode, RunOutKeeps DEF EarlyInv, StageInv
<1> QED
  BY <1>2, <1>3, <1>4 DEF KallocPanics

LEMMA TablesAreMappedNext ==
  ListInv' /\ StageInv' /\ MapInv' /\ (stage # "halted")' => TablesReachable'
<1>1. ListInv /\ StageInv /\ MapInv /\ (stage # "halted") => TablesReachable
  BY TablesAreMapped
<1> QED
  BY <1>1, PTL

\* A step that does not halt.
LEMMA StepKeeps ==
  ASSUME ListInv', StageInv', MapInv', stage' # "halted", FaultInv, stage # "halted",
         fault' = fault
  PROVE  EarlyInv'
<1>1. TablesReachable'
  BY TablesAreMappedNext
<1>2. FaultInv'
  <2>1. fault = NoFault /\ fault' = NoFault
    BY DEF FaultInv
  <2>2. fault'.why = "none"
    BY <2>1 DEF NoFault
  <2> QED
    BY <2>1, <2>2 DEF FaultInv, HaltsForCause
<1> QED
  BY <1>1, <1>2 DEF EarlyInv

-----------------------------------------------------------------------------
(* One lemma for each call of mm_early_init. *)

LEMMA InitEarly == Init => EarlyInv
<1> SUFFICES ASSUME Init
             PROVE  EarlyInv
  OBVIOUS
<1>1. /\ layout \in Layouts /\ stage = "info" /\ i = 1 /\ nodes = <<>> /\ lo = {} /\ hi = {}
      /\ mmu = [on |-> FALSE, high |-> FALSE] /\ tables = {} /\ claims = {} /\ fault = NoFault
  BY DEF Init
<1>2. ListInv
  <2>1. nodes \in Seq(Nodes) /\ Len(nodes) = 0 /\ DOMAIN nodes = {}
    BY <1>1
  <2>2. AllPages(nodes) = {} /\ FreePages(nodes) = {} /\ Tiled(nodes) /\ NoFreePair(nodes)
    BY <2>1 DEF AllPages, FreePages, Tiled, NoFreePair
  <2> QED
    BY <1>1, <2>1, <2>2 DEF ListInv
<1>3. StageInv
  BY <1>1 DEF StageInv, Stages, Unmapped, Mapped
<1>4. MapInv
  BY <1>1 DEF MapInv, Unmapped, Mapped
<1>5. FaultInv
  BY <1>1 DEF FaultInv, HaltsForCause, NoFault
<1>6. TablesReachable
  BY <1>1 DEF TablesReachable
<1> QED
  BY <1>2, <1>3, <1>4, <1>5, <1>6 DEF EarlyInv

LEMMA InfoKeeps ==
  ASSUME EarlyInv, MmInfoInit
  PROVE  EarlyInv'
<1>1. CASE Halt("memory map", NoFault)
  <2>1. "memory map" \notin {"no memory", "region not free", "no node"}
    OBVIOUS
  <2> QED
    BY <1>1, <2>1, HaltKeeps
<1>2. CASE ~Halt("memory map", NoFault)
  <2>1. /\ stage = "info" /\ ValidMap(layout) /\ stage' = "regions"
        /\ layout' = layout /\ i' = i /\ nodes' = nodes /\ buf' = buf /\ lo' = lo /\ hi' = hi
        /\ mmu' = mmu /\ tables' = tables /\ claims' = claims /\ fault' = fault
    BY <1>2 DEF MmInfoInit
  <2>2. ListInv /\ StageInv /\ MapInv /\ FaultInv
    BY DEF EarlyInv
  <2>3. DdrPages' = DdrPages /\ Claimed' = Claimed
    BY <2>1 DEF DdrPages, Claimed
  <2>4. ListInv'
    BY <2>1, <2>2, <2>3 DEF ListInv
  <2>5. StageInv'
    <3>1. layout \in Layouts /\ nodes = <<>> /\ i = 1 /\ claims = {}
      BY <2>1, <2>2 DEF StageInv
    <3>2. 1 \in 1 .. Len(layout.regions) /\ Len(nodes) = i - 1 /\ 1 .. (i - 1) = {}
      BY <3>1, LayoutFacts
    <3> QED
      BY <2>1, <3>1, <3>2 DEF StageInv, Stages, Unmapped, Mapped
  <2>6. MapInv'
    BY <2>1, <2>2, <2>3 DEF MapInv, Unmapped, Mapped
  <2> QED
    BY <2>1, <2>2, <2>4, <2>5, <2>6, StepKeeps
<1> QED
  BY <1>1, <1>2

LEMMA RegionKeeps ==
  ASSUME EarlyInv, AddRegion, stage' # "halted"
  PROVE  EarlyInv'
<1> DEFINE regions == layout.regions
           n == Len(regions)
           r == regions[i]
           new == Append(nodes, RegionNode(r))
<1>1. /\ stage = "regions" /\ layout' = layout /\ buf' = buf /\ lo' = lo /\ hi' = hi
      /\ mmu' = mmu /\ tables' = tables /\ claims' = claims /\ fault' = fault
      /\ nodes' = new /\ Advance(regions, "reserved")
  BY DEF AddRegion, RegionNode, Halt
<1>2. ListInv /\ StageInv /\ MapInv /\ FaultInv
  BY DEF EarlyInv
<1>3. /\ layout \in Layouts /\ ValidMap(layout) /\ claims = {} /\ i \in 1 .. n
      /\ Len(nodes) = i - 1 /\ \A k \in 1 .. i - 1 : nodes[k] = RegionNode(regions[k])
  BY <1>1, <1>2 DEF StageInv
<1>4. /\ n \in Nat \ {0} /\ regions \in Seq(Regions) /\ Ranged(regions) /\ Tiled(regions)
      /\ Len(layout.reserved) \in Nat \ {0}
  BY <1>3, LayoutFacts
<1>5. \A k \in 1 .. n : RegionNode(regions[k]) \in Nodes /\ regions[k] \in Regions
  <2>1. ASSUME NEW k \in 1 .. n
        PROVE  RegionNode(regions[k]) \in Nodes /\ regions[k] \in Regions
    <3>1. regions[k] \in Regions
      BY <1>4
    <3> HIDE DEF regions
    <3>2. regions[k].addr \in Nat /\ regions[k].pages \in Nat \ {0}
      BY <3>1 DEF Regions
    <3> QED
      BY <3>1, <3>2 DEF RegionNode, Node, Nodes
  <2> QED
    BY <2>1
<1>6. /\ new \in Seq(Nodes) /\ Len(new) = i /\ DOMAIN new = 1 .. i
      /\ \A k \in 1 .. i : new[k] = RegionNode(regions[k])
  <2>1. nodes \in Seq(Nodes) /\ RegionNode(r) \in Nodes
    BY <1>2, <1>3, <1>5 DEF ListInv
  <2>2. /\ new \in Seq(Nodes) /\ Len(new) = Len(nodes) + 1
        /\ \A k \in 1 .. Len(nodes) : new[k] = nodes[k]
        /\ new[Len(nodes) + 1] = RegionNode(r)
    BY <2>1, AppendProperties
  <2> HIDE DEF new, regions
  <2>3. Len(new) = i /\ DOMAIN new = 1 .. i
    BY <1>3, <2>2
  <2>4. ASSUME NEW k \in 1 .. i
        PROVE  new[k] = RegionNode(regions[k])
    <3>1. CASE k = i
      BY <1>3, <2>2, <3>1
    <3>2. CASE k # i
      BY <1>3, <2>2, <3>2
    <3> QED
      BY <3>1, <3>2
  <2> QED
    BY <2>2, <2>3, <2>4
<1> HIDE DEF new
<1>7. ASSUME NEW k \in 1 .. i
      PROVE  /\ new[k].addr = regions[k].addr /\ End(new[k]) = End(regions[k])
             /\ PagesOf(new[k]) = PagesOf(regions[k])
             /\ new[k].free = (regions[k].type = "ddr")
  BY <1>6 DEF RegionNode, Node, End, PagesOf
<1> HIDE DEF regions
<1>8. i \in Nat \ {0} /\ i <= n
  BY <1>3, <1>4
<1> HIDE DEF n
<1>9. Tiled(new) /\ NoFreePair(new)
  <2>1. ASSUME NEW k \in 1 .. i - 1
        PROVE  End(new[k]) = new[k + 1].addr /\ ~(new[k].free /\ new[k + 1].free)
    <3>1. k \in 1 .. i /\ k + 1 \in 1 .. i /\ k \in 1 .. n - 1 /\ k \in 1 .. n /\ k + 1 \in 1 .. n
      BY <1>4, <1>8
    <3>2. End(regions[k]) = regions[k + 1].addr
      BY <1>4, <3>1 DEF Tiled, n
    <3>3. ~(regions[k].type = "ddr" /\ regions[k + 1].type = "ddr")
      <4>1. k # k + 1
        OBVIOUS
      <4> QED
        BY <1>3, <3>1, <4>1, OneDdr DEF regions, n
    <3> QED
      BY <1>7, <3>1, <3>2, <3>3
  <2> QED
    BY <1>6, <2>1 DEF Tiled, NoFreePair
<1>10. ASSUME NEW p
       PROVE  /\ p \in AllPages(new) <=> \E k \in 1 .. i : p \in PagesOf(regions[k])
              /\ p \in FreePages(new) <=>
                   \E k \in 1 .. i : regions[k].type = "ddr" /\ p \in PagesOf(regions[k])
  <2>1. /\ p \in AllPages(new) <=> \E k \in 1 .. i : p \in PagesOf(new[k])
        /\ p \in FreePages(new) <=> \E k \in 1 .. i : new[k].free /\ p \in PagesOf(new[k])
    BY <1>6, <1>8, InPages
  <2> QED
    BY <1>7, <2>1
<1>11. FreePages(new) = AllPages(new) \intersect DdrPages
  <2>1. ASSUME NEW p \in FreePages(new)
        PROVE  p \in AllPages(new) /\ p \in DdrPages
    <3>1. PICK k \in 1 .. i : regions[k].type = "ddr" /\ p \in PagesOf(regions[k])
      BY <1>10
    <3>2. k \in 1 .. n
      BY <1>4, <1>8
    <3> QED
      BY <1>3, <1>10, <3>1, <3>2, InRegions DEF regions, n
  <2>2. ASSUME NEW p \in AllPages(new), p \in DdrPages
        PROVE  p \in FreePages(new)
    <3>1. PICK k \in 1 .. i : p \in PagesOf(regions[k])
      BY <1>10
    <3>2. PICK d \in 1 .. n : regions[d].type = "ddr" /\ p \in PagesOf(regions[d])
      BY <1>3, <2>2, InRegions DEF regions, n
    <3>3. k \in 1 .. n /\ n \in Nat
      BY <1>4, <1>8
    <3>4. k = d
      BY <1>4, <3>1, <3>2, <3>3, TiledDisjoint DEF n
    <3> QED
      BY <1>10, <3>1, <3>2, <3>4
  <2> QED
    BY <2>1, <2>2
<1>12. DdrPages' = DdrPages /\ Claimed' = {} /\ Claimed = {} /\ claims' = {}
  BY <1>1, <1>3 DEF DdrPages, Claimed
<1>13. ListInv'
  BY <1>1, <1>6, <1>9, <1>11, <1>12 DEF ListInv
<1>14. RegionPages' = RegionPages
  BY <1>1 DEF RegionPages
<1>15. StageInv' /\ MapInv'
  <2>1. CASE i < n
    <3>1. i' = i + 1 /\ stage' = "regions"
      BY <1>1, <2>1 DEF Advance, n
    <3>2. i + 1 \in 1 .. n /\ Len(new) = (i + 1) - 1 /\ (i + 1) - 1 = i
      BY <1>4, <1>6, <1>8, <2>1
    <3>3. StageInv'
      BY <1>1, <1>3, <1>6, <1>12, <3>1, <3>2 DEF StageInv, Stages, Unmapped, Mapped, n, regions
    <3>4. MapInv'
      BY <1>1, <1>2, <1>12, <3>1 DEF MapInv, Unmapped, Mapped
    <3> QED
      BY <3>3, <3>4
  <2>2. CASE ~(i < n)
    <3>1. i' = 1 /\ stage' = "reserved"
      BY <1>1, <2>2 DEF Advance, n
    <3>2. i = n
      BY <1>4, <1>8, <2>2
    <3>3. AllPages(new) = RegionPages
      <4>1. ASSUME NEW p
            PROVE  p \in AllPages(new) <=> p \in RegionPages
        BY <1>3, <1>10, <3>2, InRegions DEF regions, n
      <4> QED
        BY <4>1
    <3>4. 1 \in 1 .. Len(layout.reserved)
      BY <1>4
    <3>5. StageInv'
      BY <1>1, <1>3, <1>12, <1>14, <3>1, <3>3, <3>4 DEF StageInv, Stages, Unmapped, Mapped
    <3>6. MapInv'
      BY <1>1, <1>2, <1>12, <3>1 DEF MapInv, Unmapped, Mapped
    <3> QED
      BY <3>5, <3>6
  <2> QED
    BY <2>1, <2>2
<1>16. stage' # "halted"
  BY <1>1 DEF Advance
<1> QED
  BY <1>1, <1>2, <1>13, <1>15, <1>16, StepKeeps

\* A region more than the DDR has room for nodes.
LEMMA RegionHalts ==
  ASSUME EarlyInv, AddRegion, stage' = "halted"
  PROVE  EarlyInv'
<1> DEFINE r == layout.regions[i]
<1>1. stage = "regions" /\ ~HasNodes(1) /\ Halt("no node", r)
  BY DEF AddRegion, Advance
<1>2. layout \in Layouts /\ ValidMap(layout) /\ nodes \in Seq(Nodes)
  BY <1>1 DEF EarlyInv, StageInv, ListInv
<1>3. ~Intact
  <2>1. 1 \in 0 .. 2
    OBVIOUS
  <2> QED
    BY <1>1, <1>2, <2>1, NoNodeInTime
<1>4. "no node" \notin {"no memory", "region not free"}
  OBVIOUS
<1> HIDE DEF r
<1> QED
  BY <1>1, <1>3, <1>4, HaltKeeps

\* A range that is reserved, as a node.
LEMMA RangeNode ==
  ASSUME NEW ranges \in Seq(Spans), NEW k \in 1 .. Len(ranges)
  PROVE  LET e == Node(ranges[k], FALSE, TRUE, FALSE)
         IN  e \in Nodes /\ ~e.free /\ PagesOf(e) = PagesOf(ranges[k])
<1>1. ranges[k] \in Spans
  OBVIOUS
<1>2. ranges[k].addr \in Nat /\ ranges[k].pages \in Nat \ {0}
  BY <1>1 DEF Spans
<1> QED
  BY <1>2 DEF Node, Nodes, PagesOf, End

LEMMA ReservedKeeps ==
  ASSUME EarlyInv, ReserveRegion
  PROVE  EarlyInv'
<1> DEFINE ranges == layout.reserved
           n == Len(ranges)
           e == Node(ranges[i], FALSE, TRUE, FALSE)
<1>1. /\ stage = "reserved"
      /\ \/ /\ reserve_memreg(e, TRUE) /\ Advance(ranges, "sections")
            /\ UNCHANGED <<layout, buf, lo, hi, mmu, tables, calls, fault>>
         \/ Takers(e, TRUE) = {} /\ Halt("region not free", e)
         \/ NodesRunOut(e, TRUE)
  BY DEF ReserveRegion, ReserveNext
<1>2. ListInv /\ StageInv /\ MapInv /\ FaultInv
  BY DEF EarlyInv
<1>3. /\ layout \in Layouts /\ i \in 1 .. n /\ AllPages(nodes) = RegionPages /\ ValidMap(layout)
      /\ \A c \in claims : \E k \in 1 .. i - 1 : PagesOf(c) = PagesOf(ranges[k])
  BY <1>1, <1>2 DEF StageInv
<1>4. /\ n \in Nat \ {0} /\ ranges \in Seq(Spans) /\ Len(layout.sections) \in Nat \ {0}
      /\ \A r, s \in 1 .. n : r # s => PagesOf(ranges[r]) \intersect PagesOf(ranges[s]) = {}
  BY <1>3, LayoutFacts
<1> HIDE DEF ranges
<1>5. e \in Nodes /\ ~e.free /\ PagesOf(e) = PagesOf(ranges[i])
  BY <1>3, <1>4, RangeNode
<1> HIDE DEF e, n
<1>6. ASSUME Takers(e, TRUE) = {}, Halt("region not free", e)
      PROVE  EarlyInv'
  <2>1. ~(PagesOf(e) \subseteq DdrPages \ Claimed)
    BY <1>2, <1>3, <1>5, <1>6, NoTaker
  <2>2. "region not free" \notin {"no memory", "no node"}
    OBVIOUS
  <2> QED
    BY <1>6, <2>1, <2>2, HaltKeeps
<1>7. ASSUME reserve_memreg(e, TRUE), Advance(ranges, "sections"),
             UNCHANGED <<layout, buf, lo, hi, mmu, tables, calls, fault>>
      PROVE  EarlyInv'
  <2>1. \A c \in claims : PagesOf(c) \intersect PagesOf(e) = {}
    <3>1. ASSUME NEW c \in claims
          PROVE  PagesOf(c) \intersect PagesOf(e) = {}
      <4>1. PICK k \in 1 .. i - 1 : PagesOf(c) = PagesOf(ranges[k])
        BY <1>3
      <4>2. k \in 1 .. n /\ k # i
        BY <1>3, <1>4
      <4> QED
        BY <1>3, <1>4, <1>5, <4>1, <4>2
    <3> QED
      BY <3>1
  <2>2. /\ ListInv' /\ AllPages(nodes') = AllPages(nodes)
        /\ claims' = claims \union {e} /\ Claimed \subseteq Claimed'
    BY <1>2, <1>5, <1>7, <2>1, ReserveKeeps
  <2>3. RegionPages' = RegionPages
    BY <1>7 DEF RegionPages
  <2>4. StageInv' /\ MapInv' /\ stage' # "halted"
    <3>1. CASE i < n
      <4>1. i' = i + 1 /\ stage' = "reserved"
        BY <1>1, <1>7, <3>1 DEF Advance, n
      <4>2. i + 1 \in 1 .. n /\ (i + 1) - 1 = i /\ i \in 1 .. i /\ \A k \in 1 .. i - 1 : k \in 1 .. i
        BY <1>3, <1>4, <3>1
      <4>3. \A c \in claims' : \E k \in 1 .. i : PagesOf(c) = PagesOf(ranges[k])
        BY <1>3, <1>5, <2>2, <4>2
      <4>4. StageInv'
        BY <1>3, <1>7, <2>2, <2>3, <4>1, <4>2, <4>3 DEF StageInv, Stages, Unmapped, Mapped, n, ranges
      <4>5. MapInv'
        BY <1>1, <1>2, <1>7, <2>2, <2>3, <4>1 DEF MapInv, Unmapped, Mapped
      <4> QED
        BY <4>1, <4>4, <4>5
    <3>2. CASE ~(i < n)
      <4>1. i' = 1 /\ stage' = "sections"
        BY <1>7, <3>2 DEF Advance, n
      <4>2. 1 \in 1 .. Len(layout.sections)
        BY <1>4
      <4>3. StageInv'
        BY <1>3, <1>7, <2>2, <2>3, <4>1, <4>2 DEF StageInv, Stages, Unmapped, Mapped
      <4>4. MapInv'
        BY <1>1, <1>2, <1>7, <2>2, <2>3, <4>1 DEF MapInv, Unmapped, Mapped
      <4> QED
        BY <4>1, <4>3, <4>4
    <3> QED
      BY <3>1, <3>2
  <2> QED
    BY <1>1, <1>2, <1>7, <2>2, <2>4, StepKeeps
<1>8. ASSUME NodesRunOut(e, TRUE)
      PROVE  EarlyInv'
  BY <1>3, <1>5, <1>8, RunOutKeeps
<1> QED
  BY <1>1, <1>6, <1>7, <1>8

LEMMA SectionKeeps ==
  ASSUME EarlyInv, ReserveSection
  PROVE  EarlyInv'
<1> DEFINE ranges == layout.sections
           n == Len(ranges)
           e == Node(ranges[i], FALSE, TRUE, FALSE)
<1>1. /\ stage = "sections"
      /\ \/ /\ reserve_memreg(e, FALSE) /\ Advance(ranges, "map")
            /\ UNCHANGED <<layout, buf, lo, hi, mmu, tables, calls, fault>>
         \/ Takers(e, FALSE) = {} /\ Halt("region not free", e)
         \/ NodesRunOut(e, FALSE)
  BY DEF ReserveSection, ReserveNext
<1>2. ListInv /\ StageInv /\ MapInv /\ FaultInv
  BY DEF EarlyInv
<1>3. /\ layout \in Layouts /\ i \in 1 .. n /\ AllPages(nodes) = RegionPages /\ ValidMap(layout)
  BY <1>1, <1>2 DEF StageInv
<1>4. n \in Nat \ {0} /\ ranges \in Seq(Spans) /\ Len(layout.regions) \in Nat \ {0}
  BY <1>3, LayoutFacts
<1> HIDE DEF ranges
<1>5. e \in Nodes /\ ~e.free
  BY <1>3, <1>4, RangeNode
<1> HIDE DEF e, n
<1>6. ASSUME Takers(e, FALSE) = {}, Halt("region not free", e)
      PROVE  EarlyInv'
  <2>1. ~(PagesOf(e) \subseteq DdrPages \ Claimed)
    BY <1>2, <1>3, <1>5, <1>6, NoTaker
  <2>2. "region not free" \notin {"no memory", "no node"}
    OBVIOUS
  <2> QED
    BY <1>6, <2>1, <2>2, HaltKeeps
<1>7. ASSUME reserve_memreg(e, FALSE), Advance(ranges, "map"),
             UNCHANGED <<layout, buf, lo, hi, mmu, tables, calls, fault>>
      PROVE  EarlyInv'
  <2>1. /\ ListInv' /\ AllPages(nodes') = AllPages(nodes) /\ Claimed \subseteq Claimed'
    BY <1>2, <1>5, <1>7, ReserveKeeps
  <2>2. RegionPages' = RegionPages
    BY <1>7 DEF RegionPages
  <2>3. StageInv' /\ MapInv' /\ stage' # "halted"
    <3>1. CASE i < n
      <4>1. i' = i + 1 /\ stage' = "sections"
        BY <1>1, <1>7, <3>1 DEF Advance, n
      <4>2. i + 1 \in 1 .. n
        BY <1>3, <1>4, <3>1
      <4>3. StageInv'
        BY <1>3, <1>7, <2>1, <2>2, <4>1, <4>2 DEF StageInv, Stages, Unmapped, Mapped, n, ranges
      <4>4. MapInv'
        BY <1>1, <1>2, <1>7, <2>1, <2>2, <4>1 DEF MapInv, Unmapped, Mapped
      <4> QED
        BY <4>1, <4>3, <4>4
    <3>2. CASE ~(i < n)
      <4>1. i' = 1 /\ stage' = "map"
        BY <1>7, <3>2 DEF Advance, n
      <4>2. 1 \in 1 .. Len(layout.regions)
        BY <1>4
      <4>3. StageInv'
        BY <1>3, <1>7, <2>1, <2>2, <4>1, <4>2 DEF StageInv, Stages, Unmapped, Mapped
      <4>4. PagesTo(i - 1)' = {}
        <5>1. 1 .. (i' - 1) = {}
          BY <4>1
        <5> QED
          BY <5>1 DEF PagesTo
      <4>5. MapInv'
        BY <1>1, <1>2, <1>7, <2>1, <2>2, <4>1, <4>4 DEF MapInv, Unmapped, Mapped
      <4> QED
        BY <4>1, <4>3, <4>5
    <3> QED
      BY <3>1, <3>2
  <2> QED
    BY <1>1, <1>2, <1>7, <2>1, <2>3, StepKeeps
<1>8. ASSUME NodesRunOut(e, FALSE)
      PROVE  EarlyInv'
  BY <1>3, <1>5, <1>8, RunOutKeeps
<1> QED
  BY <1>1, <1>6, <1>7, <1>8

\* early_kalloc in a stage that goes on as it was.
LEMMA KallocStep ==
  ASSUME EarlyInv, NEW call \in CallSet, stage \in {"map", "allocators"}, Kalloc(call),
         tables' \subseteq Claimed', stage' = "halted" => tables' = tables
  PROVE  EarlyInv'
<1>1. ListInv /\ StageInv /\ MapInv /\ FaultInv
  BY DEF EarlyInv
<1>2. CASE KallocPanics(call)
  BY <1>2, KallocPanicKeeps
<1>3. CASE ~KallocPanics(call)
  <2>1. early_kalloc(call) /\ UNCHANGED <<layout, stage, i, buf, lo, hi, mmu, fault>>
    BY <1>3 DEF Kalloc
  <2>2. /\ ListInv' /\ AllPages(nodes') = AllPages(nodes) /\ Claimed \subseteq Claimed'
    BY <1>1, <2>1, KallocKeeps
  <2>3. RegionPages' = RegionPages /\ PagesTo(i - 1)' = PagesTo(i - 1)
    BY <2>1 DEF RegionPages, PagesTo
  <2>4. StageInv'
    BY <1>1, <2>1, <2>2, <2>3 DEF StageInv, Stages, Unmapped, Mapped
  <2>5. MapInv'
    BY <1>1, <2>1, <2>2, <2>3 DEF MapInv, Unmapped, Mapped
  <2> QED
    BY <1>1, <2>1, <2>2, <2>4, <2>5, StepKeeps
<1> QED
  BY <1>2, <1>3

LEMMA ImAllocKeeps ==
  ASSUME EarlyInv, ImAlloc
  PROVE  EarlyInv'
<1>1. Table \in CallSet
  BY EarlyAssumption DEF Table, CallSet
<1>2. stage = "map" /\ Kalloc(Table) /\ tables' = tables \union (Claimed' \ Claimed)
  BY DEF ImAlloc
<1>3. tables \subseteq Claimed
  BY DEF EarlyInv, MapInv
<1>4. CASE KallocPanics(Table)
  <2>1. claims' = claims
    BY <1>4 DEF KallocPanics, NodesRunOut, Halt
  <2>2. Claimed' = Claimed
    BY <2>1 DEF Claimed
  <2> QED
    BY <1>1, <1>2, <1>3, <2>2, KallocStep
<1>5. CASE ~KallocPanics(Table)
  <2>1. early_kalloc(Table) /\ layout' = layout /\ stage' = stage
    BY <1>2, <1>5 DEF Kalloc
  <2>2. Claimed \subseteq Claimed'
    BY <1>1, <2>1, KallocKeeps DEF EarlyInv
  <2>3. stage' # "halted"
    BY <1>2, <2>1
  <2> QED
    BY <1>1, <1>2, <1>3, <2>2, <2>3, KallocStep
<1> QED
  BY <1>4, <1>5

LEMMA AllocatorKeeps ==
  ASSUME EarlyInv, AllocatorInit
  PROVE  EarlyInv'
<1>1. PICK call \in Calls : Kalloc(call)
  BY DEF AllocatorInit
<1>2. stage = "allocators" /\ tables' = tables
  BY DEF AllocatorInit
<1>3. call \in CallSet
  BY EarlyAssumption DEF CallSet
<1>4. tables \subseteq Claimed
  BY DEF EarlyInv, MapInv
<1>5. Claimed \subseteq Claimed'
  <2>1. CASE KallocPanics(call)
    BY <2>1 DEF KallocPanics, NodesRunOut, Halt, Claimed
  <2>2. CASE ~KallocPanics(call)
    <3>1. early_kalloc(call) /\ layout' = layout
      BY <1>1, <2>2 DEF Kalloc
    <3> QED
      BY <1>3, <3>1, KallocKeeps DEF EarlyInv
  <2> QED
    BY <2>1, <2>2
<1> QED
  BY <1>1, <1>2, <1>3, <1>4, <1>5, KallocStep

LEMMA MapKeeps ==
  ASSUME EarlyInv, MapRegion
  PROVE  EarlyInv'
<1> DEFINE n == Len(layout.regions)
<1>1. /\ stage = "map" /\ Advance(layout.regions, "activate")
      /\ lo' = lo \union PagesOf(layout.regions[i]) /\ hi' = hi \union PagesOf(layout.regions[i])
      /\ layout' = layout /\ nodes' = nodes /\ buf' = buf /\ mmu' = mmu /\ tables' = tables
      /\ claims' = claims /\ fault' = fault
  BY DEF MapRegion
<1>2. ListInv /\ StageInv /\ MapInv /\ FaultInv
  BY DEF EarlyInv
<1>3. /\ layout \in Layouts /\ i \in 1 .. n /\ AllPages(nodes) = RegionPages /\ ValidMap(layout)
      /\ n \in Nat \ {0}
  <2>1. layout \in Layouts /\ i \in 1 .. n /\ AllPages(nodes) = RegionPages /\ ValidMap(layout)
    BY <1>1, <1>2 DEF StageInv
  <2> QED
    BY <2>1, LayoutFacts
<1>4. /\ DdrPages' = DdrPages /\ Claimed' = Claimed /\ RegionPages' = RegionPages
  BY <1>1 DEF DdrPages, Claimed, RegionPages
<1>5. ListInv'
  BY <1>1, <1>2, <1>4 DEF ListInv
<1>6. PagesTo(i - 1) \union PagesOf(layout.regions[i]) = PagesTo(i)
  <2>1. \A k : k \in 1 .. i <=> (k \in 1 .. i - 1 \/ k = i)
    BY <1>3
  <2> QED
    BY <2>1 DEF PagesTo
<1>7. lo' = PagesTo(i) /\ hi' = PagesTo(i)
  <2>1. lo = PagesTo(i - 1) /\ hi = PagesTo(i - 1)
    BY <1>1, <1>2 DEF MapInv
  <2> QED
    BY <1>1, <1>6, <2>1
<1>8. StageInv' /\ MapInv' /\ stage' # "halted"
  <2>1. CASE i < n
    <3>1. i' = i + 1 /\ stage' = "map"
      BY <1>1, <2>1 DEF Advance
    <3>2. i + 1 \in 1 .. n
      BY <1>3, <2>1
    <3>3. StageInv'
      BY <1>1, <1>3, <1>4, <3>1, <3>2 DEF StageInv, Stages, Unmapped, Mapped
    <3>4. PagesTo(i - 1)' = PagesTo(i)
      <4>1. (i' - 1) = i
        BY <1>3, <3>1
      <4> QED
        BY <1>1, <4>1 DEF PagesTo
    <3>5. MapInv'
      BY <1>1, <1>2, <1>4, <1>7, <3>1, <3>4 DEF MapInv, Unmapped, Mapped
    <3> QED
      BY <3>1, <3>3, <3>5
  <2>2. CASE ~(i < n)
    <3>1. i' = 1 /\ stage' = "activate"
      BY <1>1, <2>2 DEF Advance
    <3>2. i = n
      BY <1>3, <2>2
    <3>3. PagesTo(i) = RegionPages
      <4>1. DOMAIN layout.regions = 1 .. n
        BY <1>3, LayoutFacts
      <4> QED
        BY <3>2, <4>1 DEF PagesTo, RegionPages
    <3>4. StageInv'
      BY <1>1, <1>3, <1>4, <3>1 DEF StageInv, Stages, Unmapped, Mapped
    <3>5. MapInv'
      BY <1>1, <1>2, <1>4, <1>7, <3>1, <3>3 DEF MapInv, Unmapped, Mapped
    <3> QED
      BY <3>1, <3>4, <3>5
  <2> QED
    BY <2>1, <2>2
<1> QED
  BY <1>1, <1>2, <1>5, <1>8, StepKeeps

LEMMA ActivateKeeps ==
  ASSUME EarlyInv, MmuActivate
  PROVE  EarlyInv'
<1>1. /\ stage = "activate" /\ stage' = "allocators" /\ mmu' = [mmu EXCEPT !.on = TRUE]
      /\ layout' = layout /\ i' = i /\ nodes' = nodes /\ buf' = buf /\ lo' = lo /\ hi' = hi
      /\ tables' = tables /\ claims' = claims /\ fault' = fault
  BY DEF MmuActivate
<1>2. ListInv /\ StageInv /\ MapInv /\ FaultInv
  BY DEF EarlyInv
<1>3. /\ DdrPages' = DdrPages /\ Claimed' = Claimed /\ RegionPages' = RegionPages
  BY <1>1 DEF DdrPages, Claimed, RegionPages
<1>4. ListInv'
  BY <1>1, <1>2, <1>3 DEF ListInv
<1>5. StageInv'
  BY <1>1, <1>2, <1>3 DEF StageInv, Stages, Unmapped, Mapped
<1>6. MapInv'
  <2>1. mmu \in [on : BOOLEAN, high : BOOLEAN] /\ ~mmu.high
    BY <1>1, <1>2 DEF MapInv
  <2>2. mmu' \in [on : BOOLEAN, high : BOOLEAN] /\ ~mmu'.high
    BY <1>1, <2>1
  <2> QED
    BY <1>1, <1>2, <1>3, <2>2 DEF MapInv, Unmapped, Mapped
<1> QED
  BY <1>1, <1>2, <1>4, <1>5, <1>6, StepKeeps

\* early_kalloc_get_memregs asks for a number of bytes.
LEMMA CopyIsCall ==
  ASSUME EarlyInv, stage = "allocators"
  PROVE  [bytes |-> Len(nodes) * NodeBytes, permanent |-> FALSE, device |-> FALSE] \in CallSet
<1> DEFINE call == [bytes |-> Len(nodes) * NodeBytes, permanent |-> FALSE, device |-> FALSE]
<1>1. stage = "allocators"
  OBVIOUS
<1>2. ListInv /\ StageInv
  BY DEF EarlyInv
<1>3. /\ layout \in Layouts /\ AllPages(nodes) = RegionPages
  BY <1>1, <1>2 DEF StageInv
<1>4. Len(nodes) \in Nat \ {0}
  <2>1. Len(nodes) \in Nat /\ DOMAIN nodes = 1 .. Len(nodes)
    BY <1>2 DEF ListInv
  <2>2. SUFFICES ASSUME Len(nodes) = 0
                 PROVE  FALSE
    BY <2>1
  <2>3. AllPages(nodes) = {}
    BY <2>1, <2>2 DEF AllPages
  <2>4. layout.regions[1].addr \in RegionPages
    <3>1. /\ 1 \in 1 .. Len(layout.regions) /\ layout.regions[1].addr \in Nat
          /\ layout.regions[1].pages \in Nat \ {0}
      BY <1>3, LayoutFacts DEF Ranged
    <3>2. layout.regions[1].addr \in PagesOf(layout.regions[1])
      BY <3>1 DEF PagesOf, End
    <3> QED
      BY <1>3, <3>1, <3>2, InRegions
  <2> QED
    BY <1>3, <2>3, <2>4
<1>5. call \in CallSet
  <2>1. NodeBytes \in Nat \ {0}
    BY EarlyAssumption
  <2>2. Len(nodes) * NodeBytes \in Nat \ {0}
    <3> DEFINE a == Len(nodes)
    <3>1. a \in Nat \ {0}
      BY <1>4
    <3> HIDE DEF a
    <3>2. a * NodeBytes \in Nat \ {0}
      BY <2>1, <3>1
    <3> QED
      BY <3>2 DEF a
  <2> QED
    BY <2>2 DEF CallSet
<1> QED
  BY <1>5

LEMMA GetMemregsKeeps ==
  ASSUME EarlyInv, GetMemregs
  PROVE  EarlyInv'
<1> DEFINE call == [bytes |-> Len(nodes) * NodeBytes, permanent |-> FALSE, device |-> FALSE]
<1>1. /\ stage = "allocators"
      /\ \/ /\ early_kalloc(call) /\ buf' = nodes' /\ stage' = "ended"
            /\ UNCHANGED <<layout, i, lo, hi, mmu, tables, calls, fault>>
         \/ KallocPanics(call)
  BY DEF GetMemregs
<1>2. ListInv /\ StageInv /\ MapInv /\ FaultInv
  BY DEF EarlyInv
<1>3. /\ layout \in Layouts /\ AllPages(nodes) = RegionPages
  BY <1>1, <1>2 DEF StageInv
<1>5. call \in CallSet
  BY <1>1, CopyIsCall
<1> HIDE DEF call
<1>6. CASE KallocPanics(call)
  BY <1>1, <1>5, <1>6, KallocPanicKeeps
<1>7. CASE ~KallocPanics(call)
  <2>1. /\ early_kalloc(call) /\ buf' = nodes' /\ stage' = "ended"
        /\ layout' = layout /\ i' = i /\ lo' = lo /\ hi' = hi /\ mmu' = mmu /\ tables' = tables
        /\ fault' = fault
    BY <1>1, <1>7
  <2>2. /\ ListInv' /\ AllPages(nodes') = AllPages(nodes) /\ Claimed \subseteq Claimed'
    BY <1>2, <1>5, <2>1, KallocKeeps
  <2>3. RegionPages' = RegionPages
    BY <2>1 DEF RegionPages
  <2>4. StageInv'
    BY <1>1, <1>2, <1>3, <2>1, <2>2, <2>3 DEF StageInv, Stages, Unmapped, Mapped
  <2>5. MapInv'
    BY <1>1, <1>2, <2>1, <2>2, <2>3 DEF MapInv, Unmapped, Mapped
  <2> QED
    BY <1>1, <1>2, <2>1, <2>2, <2>4, <2>5, StepKeeps
<1> QED
  BY <1>6, <1>7

LEMMA LateKeeps ==
  ASSUME EarlyInv, LateKalloc
  PROVE  EarlyInv'
<1>1. "ended" \notin {"no memory", "region not free", "no node"}
  OBVIOUS
<1> QED
  BY <1>1, HaltKeeps DEF LateKalloc

\* The relocation.
LEMMA RelocKeeps ==
  ASSUME EarlyInv, MmuReloc \/ UnmapLow \/ UnmapHigh
  PROVE  EarlyInv'
<1>1. /\ stage \in {"ended", "unmap", "unmap high"} /\ stage' \in {"unmap", "unmap high", "kernel"}
      /\ layout' = layout /\ i' = i /\ nodes' = nodes /\ buf' = buf
      /\ tables' = tables /\ claims' = claims /\ fault' = fault
  BY DEF MmuReloc, UnmapLow, UnmapHigh
<1>2. ListInv /\ StageInv /\ MapInv /\ FaultInv
  BY DEF EarlyInv
<1>3. /\ DdrPages' = DdrPages /\ Claimed' = Claimed /\ RegionPages' = RegionPages
  BY <1>1 DEF DdrPages, Claimed, RegionPages
<1>4. ListInv'
  BY <1>1, <1>2, <1>3 DEF ListInv
<1>5. StageInv'
  BY <1>1, <1>2, <1>3 DEF StageInv, Stages, Unmapped, Mapped
<1>6. mmu \in [on : BOOLEAN, high : BOOLEAN] /\ hi = RegionPages /\ buf = nodes
  BY <1>1, <1>2 DEF MapInv, Mapped
<1>7. MapInv'
  <2>1. CASE MmuReloc
    <3>1. /\ stage = "ended" /\ stage' = "unmap" /\ mmu' = [mmu EXCEPT !.high = TRUE]
          /\ lo' = lo /\ hi' = hi
      BY <2>1 DEF MmuReloc
    <3>2. mmu' \in [on : BOOLEAN, high : BOOLEAN] /\ mmu'.high
      BY <1>6, <3>1
    <3> QED
      BY <1>1, <1>2, <1>3, <1>6, <3>1, <3>2 DEF MapInv, Unmapped, Mapped
  <2>2. CASE UnmapLow
    <3>1. /\ stage = "unmap" /\ stage' = "unmap high" /\ mmu' = mmu
          /\ lo' = lo \ (0 .. LowSpan - 1) /\ hi' = hi
      BY <2>2 DEF UnmapLow
    <3>2. lo' = {}
      <4>1. lo = RegionPages /\ layout \in Layouts
        BY <1>2, <3>1 DEF MapInv, StageInv, Mapped
      <4>2. ASSUME NEW p \in RegionPages
            PROVE  p \in 0 .. LowSpan - 1
        <5>1. p \in Nat /\ p < LowSpan /\ LowSpan \in Nat
          BY <4>1, InRegions, EarlyAssumption
        <5> QED
          BY <5>1
      <4> QED
        BY <3>1, <4>1, <4>2
    <3> QED
      BY <1>1, <1>2, <1>3, <1>6, <3>1, <3>2 DEF MapInv, Unmapped, Mapped
  <2>3. CASE UnmapHigh
    <3> DEFINE e == End(buf[Len(buf)])
    <3>1. /\ stage = "unmap high" /\ stage' = "kernel" /\ mmu' = mmu /\ lo' = lo
          /\ hi' = hi \ (e .. e + HighSpan - 1)
      BY <2>3 DEF UnmapHigh
    <3>2. hi' = hi
      <4>1. SUFFICES ASSUME NEW p \in hi
                     PROVE  p \notin e .. e + HighSpan - 1
        <5> HIDE DEF e
        <5> QED
          BY <3>1
      <4>2. AllPages(nodes) = RegionPages /\ nodes \in Seq(Nodes) /\ Tiled(nodes)
        BY <1>2, <3>1 DEF StageInv, ListInv
      <4>3. Len(nodes) \in Nat /\ DOMAIN nodes = 1 .. Len(nodes)
            /\ \A k \in 1 .. Len(nodes) : nodes[k] \in Nodes
        BY <4>2
      <4>4. \A c \in Nodes : c.addr \in Nat /\ c.pages \in Nat \ {0}
        BY DEF Nodes
      <4>5. Ranged(nodes)
        BY <4>3, <4>4 DEF Ranged
      <4>6. PICK k \in 1 .. Len(nodes) : p \in PagesOf(nodes[k])
        BY <1>6, <4>2, <4>3, InPages
      <4> DEFINE m == Len(nodes)
      <4>7. m \in 1 .. m /\ k \in 1 .. m
        BY <4>3
      <4>8. /\ nodes[k].addr \in Nat /\ nodes[k].pages \in Nat
            /\ nodes[m].addr \in Nat /\ nodes[m].pages \in Nat
        BY <4>5, <4>7 DEF Ranged
      <4>9. End(nodes[k]) <= e
        <5>1. CASE k = m
          BY <1>6, <4>8, <5>1 DEF End
        <5>2. CASE k < m
          <6>1. End(nodes[k]) <= nodes[m].addr
            BY <4>2, <4>3, <4>5, <4>7, <5>2, TiledOrdered
          <6> QED
            BY <1>6, <4>8, <6>1 DEF End
        <5> QED
          BY <4>3, <4>7, <5>1, <5>2
      <4>10. p < End(nodes[k]) /\ p \in Int /\ End(nodes[k]) \in Nat /\ e \in Nat
        <5>1. End(nodes[k]) \in Nat
          BY <4>8 DEF End
        <5>2. p < End(nodes[k]) /\ p \in Int
          BY <4>6, <4>8, <5>1 DEF PagesOf
        <5>3. e = End(nodes[m]) /\ End(nodes[m]) \in Nat
          BY <1>6, <4>8 DEF End
        <5> HIDE DEF e
        <5> QED
          BY <5>1, <5>2, <5>3
      <4> HIDE DEF e
      <4> QED
        BY <4>9, <4>10
    <3> HIDE DEF e
    <3> QED
      BY <1>1, <1>2, <1>3, <1>6, <3>1, <3>2 DEF MapInv, Unmapped, Mapped
  <2> QED
    BY <2>1, <2>2, <2>3
<1>8. stage # "halted" /\ stage' # "halted"
  BY <1>1
<1> QED
  BY <1>1, <1>2, <1>4, <1>5, <1>7, <1>8, StepKeeps

-----------------------------------------------------------------------------

\* The list wrote over what another owns, or its owner over the list.
LEMMA OverrunKeeps ==
  ASSUME EarlyInv, Overrun
  PROVE  EarlyInv'
<1>1. /\ stage # "halted" /\ stage' = "overrun"
      /\ layout' = layout /\ i' = i /\ nodes' = nodes /\ buf' = buf /\ lo' = lo /\ hi' = hi
      /\ mmu' = mmu /\ tables' = tables /\ claims' = claims /\ fault' = fault
  BY DEF Overrun
<1>2. ListInv /\ StageInv /\ MapInv /\ FaultInv /\ TablesReachable
  BY DEF EarlyInv
<1>3. DdrPages' = DdrPages /\ Claimed' = Claimed
  BY <1>1 DEF DdrPages, Claimed
<1>4. ListInv'
  BY <1>1, <1>2, <1>3 DEF ListInv
<1>5. StageInv'
  BY <1>1, <1>2 DEF StageInv, Stages
<1>6. TablesReachable'
  BY <1>1, <1>2 DEF TablesReachable
<1>7. MapInv'
  BY <1>1, <1>2, <1>3, <1>6 DEF MapInv, Unmapped, Mapped
<1>8. stage' # "halted"
  BY <1>1
<1> QED
  BY <1>1, <1>2, <1>4, <1>5, <1>7, <1>8, StepKeeps

LEMMA EarlyStep ==
  ASSUME EarlyInv, [Next]_vars
  PROVE  EarlyInv'
<1>1. CASE UNCHANGED early
  <2>1. /\ layout' = layout /\ stage' = stage /\ i' = i /\ nodes' = nodes /\ buf' = buf
        /\ lo' = lo /\ hi' = hi /\ mmu' = mmu /\ tables' = tables /\ calls' = calls
        /\ claims' = claims /\ fault' = fault
    BY <1>1 DEF early
  <2>2. /\ DdrPages' = DdrPages /\ Claimed' = Claimed /\ RegionPages' = RegionPages
        /\ PagesTo(i - 1)' = PagesTo(i - 1)
    BY <2>1 DEF DdrPages, Claimed, RegionPages, PagesTo
  <2>3. ListInv'
    BY <2>1, <2>2 DEF EarlyInv, ListInv
  <2>4. StageInv'
    BY <2>1, <2>2 DEF EarlyInv, StageInv
  <2>5. MapInv'
    BY <2>1, <2>2 DEF EarlyInv, MapInv, TablesReachable
  <2>6. FaultInv'
    <3>1. Intact' = Intact
      BY <2>1, SameIntact
    <3> QED
      BY <2>1, <2>2, <3>1 DEF EarlyInv, FaultInv, HaltsForCause
  <2>7. TablesReachable'
    BY <2>1 DEF EarlyInv, TablesReachable
  <2> QED
    BY <2>3, <2>4, <2>5, <2>6, <2>7 DEF EarlyInv
<1>2. CASE EarlyNext
  BY <1>2, InfoKeeps, RegionKeeps, ReservedKeeps, SectionKeeps, ImAllocKeeps, MapKeeps,
     ActivateKeeps, AllocatorKeeps, GetMemregsKeeps, LateKeeps, RelocKeeps, RegionHalts,
     OverrunKeeps
  DEF EarlyNext
<1>3. CASE CreatePool \/ UsePool \/ CreateRing \/ UseRing
  BY <1>1, <1>3 DEF CreatePool, UsePool, CreateRing, UseRing
<1>4. CASE UNCHANGED vars
  BY <1>1, <1>4 DEF vars
<1> QED
  BY <1>2, <1>3, <1>4 DEF Next, Boot

LEMMA EarlyInvSound ==
  ASSUME EarlyInv
  PROVE  EarlySound
<1>1. ListInv /\ StageInv /\ MapInv /\ FaultInv /\ TablesReachable
  BY DEF EarlyInv
<1>2. DOMAIN nodes = 1 .. Len(nodes) /\ \A n \in 1 .. Len(nodes) : nodes[n] \in Nodes
  BY <1>1 DEF ListInv
<1>3. NodesTile
  <2>1. \A c \in Nodes : c.pages > 0
    BY DEF Nodes
  <2>2. \A n \in DOMAIN nodes : nodes[n].pages > 0
    BY <1>2, <2>1
  <2>3. stage \notin {"info", "regions", "halted", "overrun"} => AllPages(nodes) = RegionPages
    BY <1>1 DEF StageInv
  <2> QED
    BY <1>1, <2>2, <2>3 DEF NodesTile, ListInv, Tiled, AllPages
<1>4. ClaimsKept
  <2>1. \A c \in claims : \E n \in DOMAIN nodes : nodes[n] = c
    BY <1>1, <1>2 DEF ListInv
  <2>2. FreePages(nodes) = (AllPages(nodes) \intersect DdrPages) \ Claimed
    BY <1>1 DEF ListInv
  <2> QED
    <3> DEFINE F == UNION { PagesOf(nodes[n]) : n \in { k \in DOMAIN nodes : nodes[k].free } }
               A == UNION { PagesOf(nodes[n]) : n \in DOMAIN nodes }
    <3>1. F = FreePages(nodes) /\ A = AllPages(nodes)
      BY Zenon DEF FreePages, AllPages
    <3> HIDE DEF F, A
    <3>2. F = (A \intersect DdrPages) \ Claimed
      BY <2>2, <3>1
    <3> QED
      BY <2>1, <3>2, Zenon DEF ClaimsKept, F, A
<1>5. OnlyHighMapped
  <2>1. stage = "kernel" => lo = {} /\ hi = RegionPages /\ AllPages(nodes) = RegionPages /\ buf = nodes
    BY <1>1 DEF MapInv, StageInv, Mapped
  <2> QED
    BY <2>1, Zenon DEF OnlyHighMapped, AllPages
<1> QED
  BY <1>1, <1>3, <1>4, <1>5 DEF EarlySound, FaultInv

\* While no page of the list is also another's: from the first reservation to
\* the relocation the early regions partition the memory map, every reservation
\* and every block stays what it was, the core stops for lack of room only when
\* there is none, and the page tables stay where the driver reaches them: for
\* every map, of any size.
THEOREM BootIsSound == Spec => []EarlySound
<1>1. BootInit => EarlyInv
  BY InitEarly DEF BootInit
<1>2. EarlyInv /\ [Next]_vars => EarlyInv'
  BY EarlyStep
<1>3. EarlyInv => EarlySound
  BY EarlyInvSound
<1> QED
  BY <1>1, <1>2, <1>3, PTL DEF Spec

-----------------------------------------------------------------------------
(* Where the list, which nothing reserves, meets what others own. *)

\* Above all that is fixed in the DDR the claimed pages come first.
GrowsUp == \A p \in Spare : \A q \in Claimed \intersect DdrPages : p < q => p \in Claimed
SpareInv == (nodes # <<>> => ValidMap(layout)) /\ GrowsUp

LEMMA SpareStays ==
  ASSUME SpareInv, layout' = layout, claims' = claims,
         nodes' # <<>> => nodes # <<>> \/ ValidMap(layout)
  PROVE  SpareInv'
<1>1. Claimed' = Claimed /\ DdrPages' = DdrPages /\ Fixed' = Fixed
  BY DEF Claimed, DdrPages, Fixed
<1>2. Spare' = Spare
  BY <1>1 DEF Spare
<1> QED
  BY <1>1, <1>2 DEF SpareInv, GrowsUp

\* A range that the map fixes is claimed.
LEMMA FixedKeepsSpare ==
  ASSUME SpareInv, layout \in Layouts, ValidMap(layout), layout' = layout, NEW e,
         claims' = claims \union {e},
         PagesOf(e) \subseteq Fixed
  PROVE  SpareInv'
<1>1. Claimed' = Claimed \union PagesOf(e) /\ DdrPages' = DdrPages /\ Fixed' = Fixed
  BY DEF Claimed, DdrPages, Fixed
<1>2. Spare' = Spare
  BY <1>1 DEF Spare
<1>3. ASSUME NEW p \in Spare, NEW q \in PagesOf(e) \intersect DdrPages, p < q
      PROVE  FALSE
  <2>1. q \in Fixed \intersect DdrPages
    BY <1>3
  <2>2. q < p /\ p \in DdrPages
    BY <2>1 DEF Spare
  <2>3. p \in Nat /\ q \in Nat
    BY <2>1, <2>2, InRegions
  <2> QED
    BY <1>3, <2>2, <2>3
<1>4. GrowsUp'
  BY <1>1, <1>2, <1>3 DEF SpareInv, GrowsUp
<1> QED
  BY <1>4 DEF SpareInv

\* A block is claimed: the first pages of a run of free ones, so that what is
\* below it is free only when something claimed lies between.
LEMMA BlockKeepsSpare ==
  ASSUME EarlyInv, SpareInv, AllPages(nodes) = RegionPages, ValidMap(layout),
         NEW call \in CallSet, early_kalloc(call), layout' = layout
  PROVE  SpareInv'
<1> DEFINE e == Block(call)
<1>1. ListInv /\ layout \in Layouts
  BY DEF EarlyInv, StageInv
<1>2. /\ Roomy(call) # {} /\ claims' = claims \union {e}
  BY <1>1, KallocKeeps DEF early_kalloc
<1>3. /\ e \in Nodes
      /\ \E n \in 1 .. Len(nodes) : nodes[n].free /\ nodes[n].addr = e.addr
  BY <1>1, <1>2, BlockIsNode
<1> HIDE DEF e
<1>4. PICK n \in 1 .. Len(nodes) : nodes[n].free /\ nodes[n].addr = e.addr
  BY <1>3
<1>5. /\ nodes \in Seq(Nodes) /\ Tiled(nodes) /\ NoFreePair(nodes)
      /\ FreePages(nodes) = (RegionPages \intersect DdrPages) \ Claimed
      /\ DOMAIN nodes = 1 .. Len(nodes) /\ Len(nodes) \in Nat
  BY <1>1 DEF ListInv
<1>6. \A k \in 1 .. Len(nodes) : nodes[k].addr \in Nat /\ nodes[k].pages \in Nat \ {0}
  <2>1. \A c \in Nodes : c.addr \in Nat /\ c.pages \in Nat \ {0}
    BY DEF Nodes
  <2> QED
    BY <1>5, <2>1
<1>7. e.addr \in Nat /\ e.pages \in Nat \ {0} /\ PagesOf(e) = e.addr .. (e.addr + e.pages) - 1
  BY <1>3 DEF Nodes, PagesOf, End
<1>8. e.addr \in PagesOf(nodes[n])
  BY <1>4, <1>6 DEF PagesOf, End
<1>9. e.addr \in DdrPages /\ e.addr \in FreePages(nodes)
  BY <1>4, <1>5, <1>8, InPages
<1>10. Claimed' = Claimed \union PagesOf(e) /\ DdrPages' = DdrPages /\ Fixed' = Fixed
  BY <1>2 DEF Claimed, DdrPages, Fixed
<1>11. Spare' = Spare
  BY <1>10 DEF Spare
<1>12. ASSUME NEW p \in Spare, NEW q \in PagesOf(e), p < q, p \notin PagesOf(e)
       PROVE  p \in Claimed
  <2>1. p \in DdrPages /\ p \in Nat /\ p < e.addr
    <3>1. p \in DdrPages
      BY DEF Spare
    <3>2. p \in Nat
      BY <1>1, <3>1, InRegions
    <3> QED
      BY <1>7, <1>12, <3>1, <3>2
  <2>2. PICK x \in p .. e.addr : x \notin FreePages(nodes)
    <3>1. SUFFICES ASSUME p .. e.addr \subseteq FreePages(nodes)
                   PROVE  FALSE
      OBVIOUS
    <3>2. p <= e.addr
      BY <1>7, <2>1
    <3>3. PICK k \in 1 .. Len(nodes) :
            nodes[k].free /\ nodes[k].addr <= p /\ e.addr < End(nodes[k])
      BY <1>5, <1>7, <2>1, <3>1, <3>2, FreeRun
    <3>4. e.addr \in PagesOf(nodes[k])
      BY <1>6, <1>7, <2>1, <3>3 DEF PagesOf, End
    <3>5. Ranged(nodes)
      BY <1>6 DEF Ranged
    <3>6. k = n
      BY <1>5, <1>8, <3>4, <3>5, TiledDisjoint
    <3> QED
      BY <1>4, <1>7, <2>1, <3>3, <3>6
  <2>3. x \in DdrPages
    <3>1. PICK a \in 1 .. Len(layout.regions) :
            layout.regions[a].type = "ddr" /\ p \in PagesOf(layout.regions[a])
      BY <1>1, <2>1, InRegions
    <3>2. PICK b \in 1 .. Len(layout.regions) :
            layout.regions[b].type = "ddr" /\ e.addr \in PagesOf(layout.regions[b])
      BY <1>1, <1>9, InRegions
    <3>3. a = b
      BY <1>1, <3>1, <3>2, OneDdr
    <3>4. layout.regions[a].addr \in Nat /\ layout.regions[a].pages \in Nat
      BY <1>1, LayoutFacts DEF Ranged
    <3> DEFINE d == layout.regions[a]
    <3>5. /\ d.addr \in Nat /\ d.pages \in Nat
          /\ p \in d.addr .. (d.addr + d.pages) - 1 /\ e.addr \in d.addr .. (d.addr + d.pages) - 1
      BY <3>1, <3>2, <3>3, <3>4 DEF PagesOf, End
    <3>6. x \in d.addr .. (d.addr + d.pages) - 1
      <4> DEFINE w == d.addr
                 m == d.pages
                 y == e.addr
      <4>1. /\ w \in Nat /\ m \in Nat /\ y \in Nat /\ p \in w .. (w + m) - 1
            /\ y \in w .. (w + m) - 1 /\ x \in p .. y
        BY <1>7, <3>5
      <4> HIDE DEF w, m, y
      <4>2. x \in w .. (w + m) - 1
        BY <4>1
      <4> QED
        BY <4>2 DEF w, m
    <3>7. x \in PagesOf(layout.regions[a])
      BY <3>6 DEF PagesOf, End
    <3> QED
      BY <1>1, <3>1, <3>7, InRegions
  <2>4. x \in RegionPages
    BY <1>1, <2>3, InRegions
  <2>5. x \in Claimed
    BY <1>5, <2>2, <2>3, <2>4
  <2>6. CASE x = p
    BY <2>5, <2>6
  <2>7. CASE x # p
    <3>1. p < x
      BY <1>7, <2>1, <2>7
    <3> QED
      BY <2>3, <2>5, <3>1 DEF SpareInv, GrowsUp
  <2> QED
    BY <2>6, <2>7
<1>13. GrowsUp'
  <2>1. SUFFICES ASSUME NEW p \in Spare, NEW q \in (Claimed \union PagesOf(e)) \intersect DdrPages,
                        p < q
                 PROVE  p \in Claimed \union PagesOf(e)
    BY <1>10, <1>11 DEF GrowsUp
  <2>2. CASE q \in Claimed
    BY <2>1, <2>2 DEF SpareInv, GrowsUp
  <2>3. CASE q \in PagesOf(e)
    BY <1>12, <2>1, <2>3
  <2> QED
    BY <2>1, <2>2, <2>3
<1> QED
  BY <1>13 DEF SpareInv

\* An early_kalloc that panics claims nothing.
LEMMA KallocSpare ==
  ASSUME EarlyInv, SpareInv, stage \in {"map", "allocators"}, NEW call \in CallSet,
         KallocPanics(call) \/ (early_kalloc(call) /\ layout' = layout)
  PROVE  SpareInv'
<1>1. CASE KallocPanics(call)
  <2>1. layout' = layout /\ claims' = claims /\ nodes' = nodes
    BY <1>1 DEF KallocPanics, NodesRunOut, Halt
  <2> QED
    BY <2>1, SpareStays
<1>2. CASE early_kalloc(call) /\ layout' = layout
  <2>1. AllPages(nodes) = RegionPages /\ ValidMap(layout)
    BY DEF EarlyInv, StageInv
  <2> QED
    BY <1>2, <2>1, BlockKeepsSpare
<1> QED
  BY <1>1, <1>2

\* A range of a sequence is reserved, or the core stops.
LEMMA ReserveSpare ==
  ASSUME SpareInv, layout \in Layouts, ValidMap(layout), NEW ranges, NEW all, NEW next, ReserveNext(ranges, all, next),
         PagesOf(ranges[i]) \subseteq Fixed
  PROVE  SpareInv'
<1> DEFINE e == Node(ranges[i], FALSE, TRUE, FALSE)
<1>1. CASE reserve_memreg(e, all) /\ layout' = layout
  <2>1. claims' = claims \union {e}
    BY <1>1 DEF reserve_memreg
  <2>2. PagesOf(e) \subseteq Fixed
    BY DEF PagesOf, End, Node
  <2> HIDE DEF e
  <2> QED
    BY <1>1, <2>1, <2>2, FixedKeepsSpare
<1>2. CASE layout' = layout /\ claims' = claims /\ nodes' = nodes
  BY <1>2, SpareStays
<1> QED
  BY <1>1, <1>2 DEF ReserveNext, NodesRunOut, Halt

LEMMA SpareInit == Init => SpareInv
<1> SUFFICES ASSUME Init
             PROVE  SpareInv
  OBVIOUS
<1>1. nodes = <<>> /\ claims = {}
  BY DEF Init
<1>2. Claimed = {}
  BY <1>1 DEF Claimed
<1> QED
  BY <1>1, <1>2 DEF SpareInv, GrowsUp

LEMMA SpareStep ==
  ASSUME EarlyInv, SpareInv, [Next]_vars
  PROVE  SpareInv'
<1>1. CASE ReserveRegion \/ ReserveSection
  <2>1. stage \in {"reserved", "sections"} /\ layout \in Layouts /\ ValidMap(layout)
    BY <1>1 DEF EarlyInv, StageInv, ReserveRegion, ReserveSection
  <2>2. CASE ReserveRegion
    <3>1. i \in 1 .. Len(layout.reserved) /\ DOMAIN layout.reserved = 1 .. Len(layout.reserved)
      BY <2>1, <2>2, LayoutFacts DEF EarlyInv, StageInv, ReserveRegion
    <3>2. PagesOf(layout.reserved[i]) \subseteq Fixed
      BY <3>1 DEF Fixed
    <3> QED
      BY <2>1, <2>2, <3>2, ReserveSpare DEF ReserveRegion
  <2>3. CASE ReserveSection
    <3>1. i \in 1 .. Len(layout.sections) /\ DOMAIN layout.sections = 1 .. Len(layout.sections)
      BY <2>1, <2>3, LayoutFacts DEF EarlyInv, StageInv, ReserveSection
    <3>2. PagesOf(layout.sections[i]) \subseteq Fixed
      BY <3>1 DEF Fixed
    <3> QED
      BY <2>1, <2>3, <3>2, ReserveSpare DEF ReserveSection
  <2> QED
    BY <1>1, <2>2, <2>3
<1>2. CASE ImAlloc \/ AllocatorInit \/ GetMemregs
  <2>1. PICK call \in CallSet :
          /\ stage \in {"map", "allocators"}
          /\ KallocPanics(call) \/ (early_kalloc(call) /\ layout' = layout)
    <3>1. CASE ImAlloc
      <4>1. Table \in CallSet
        BY EarlyAssumption DEF Table, CallSet
      <4> QED
        BY <3>1, <4>1 DEF ImAlloc, Kalloc
    <3>2. CASE AllocatorInit
      <4>1. Calls \subseteq CallSet
        BY EarlyAssumption DEF CallSet
      <4> QED
        BY <3>2, <4>1 DEF AllocatorInit, Kalloc
    <3>3. CASE GetMemregs
      BY <3>3, CopyIsCall DEF GetMemregs
    <3> QED
      BY <1>2, <3>1, <3>2, <3>3
  <2> QED
    BY <2>1, KallocSpare
<1>3. CASE AddRegion
  <2>1. layout' = layout /\ claims' = claims /\ ValidMap(layout)
    BY <1>3 DEF AddRegion, Halt, EarlyInv, StageInv
  <2> QED
    BY <2>1, SpareStays
<1>4. CASE MmInfoInit \/ MapRegion \/ MmuActivate \/ LateKalloc \/ MmuReloc \/ UnmapLow
             \/ UnmapHigh \/ Overrun
  <2>1. layout' = layout /\ claims' = claims /\ nodes' = nodes
    BY <1>4 DEF MmInfoInit, MapRegion, MmuActivate, LateKalloc, MmuReloc, UnmapLow, UnmapHigh,
       Overrun, Halt
  <2> QED
    BY <2>1, SpareStays
<1>5. CASE UNCHANGED early
  <2>1. layout' = layout /\ claims' = claims /\ nodes' = nodes
    BY <1>5 DEF early
  <2> QED
    BY <2>1, SpareStays
<1>6. CASE CreatePool \/ UsePool \/ CreateRing \/ UseRing \/ UNCHANGED vars
  BY <1>5, <1>6 DEF CreatePool, UsePool, CreateRing, UseRing, vars
<1> QED
  BY <1>1, <1>2, <1>3, <1>4, <1>6 DEF Next, Boot, EarlyNext

\* The pages of the list are the last of the DDR.
LEMMA ListIsLast ==
  ASSUME layout \in Layouts, ValidMap(layout), nodes \in Seq(Nodes), NEW p \in ListPages, NEW q \in DdrPages, p <= q
  PROVE  q \in ListPages
<1> DEFINE n == div_ceil(Len(nodes) * ListNodeBytes, PageBytes)
<1>1. PICK r \in Ddr(layout) : End(layout.regions[r]) - p \in 1 .. n
  BY DEF ListPages
<1> HIDE DEF n
<1>2. r \in 1 .. Len(layout.regions) /\ layout.regions[r].type = "ddr"
  BY <1>1, LayoutFacts DEF Ddr
<1>3. PICK s \in 1 .. Len(layout.regions) :
        layout.regions[s].type = "ddr" /\ q \in PagesOf(layout.regions[s])
  BY InRegions
<1>4. s = r
  BY <1>2, <1>3, OneDdr
<1>5. layout.regions[r].addr \in Nat /\ layout.regions[r].pages \in Nat
  BY <1>2, LayoutFacts DEF Ranged
<1>6. End(layout.regions[r]) \in Nat /\ q < End(layout.regions[r]) /\ q \in Nat
  <2>1. End(layout.regions[r]) \in Nat
    BY <1>5 DEF End
  <2> QED
    BY <1>3, <1>4, <1>5, <2>1 DEF PagesOf
<1>7. p \in Nat
  BY InRegions DEF ListPages
<1>8. End(layout.regions[r]) - q \in 1 .. n
  <2> DEFINE z == End(layout.regions[r])
  <2>1. z \in Nat /\ q \in Nat /\ p \in Nat /\ q < z /\ z - p \in 1 .. n
    BY <1>1, <1>6, <1>7
  <2>2. n \in Int
    <3>1. Len(nodes) * ListNodeBytes \in Nat /\ PageBytes \in Nat \ {0}
      BY EarlyAssumption
    <3>2. \A y \in Nat : (y + PageBytes - 1) \div PageBytes \in Int
      BY <3>1
    <3> QED
      BY <3>1, <3>2 DEF n, div_ceil
  <2> HIDE DEF z
  <2>3. z - q \in 1 .. n
    BY <2>1, <2>2
  <2> QED
    BY <2>3 DEF z
<1> QED
  BY <1>1, <1>8 DEF ListPages, n

LEMMA SpareInvSound ==
  ASSUME EarlyInv, SpareInv
  PROVE  ListSpared
<1> SUFFICES ASSUME ~Intact, ListPages \intersect Fixed = {}
             PROVE  Spare \ ListPages \subseteq Claimed
  BY DEF ListSpared
<1>1. PICK q \in ListPages : q \in Claimed
  BY DEF Intact
<1>2. layout \in Layouts /\ q \in DdrPages
  BY <1>1 DEF EarlyInv, StageInv, ListPages
<1>3. ValidMap(layout)
  <2>1. SUFFICES ASSUME nodes = <<>>
                 PROVE  FALSE
    BY DEF SpareInv
  <2>2. Claimed = {}
    <3>1. \A n \in 1 .. Len(nodes) : FALSE
      BY <2>1
    <3>2. claims = {}
      BY <3>1 DEF EarlyInv, ListInv
    <3> QED
      BY <3>2 DEF Claimed
  <2> QED
    BY <1>1, <2>2
<1>4. ASSUME NEW p \in Spare, p \notin ListPages
      PROVE  p \in Claimed
  <2>1. p \in DdrPages /\ p \in Nat /\ q \in Nat
    <3>1. p \in DdrPages
      BY DEF Spare
    <3> QED
      BY <1>2, <3>1, InRegions
  <2>2. p < q
    <3>1. SUFFICES ASSUME q <= p
                   PROVE  FALSE
      BY <2>1
    <3> QED
      BY <1>1, <1>2, <1>3, <1>4, <2>1, <3>1, ListIsLast DEF EarlyInv, ListInv
  <2> QED
    BY <1>1, <1>2, <2>2 DEF SpareInv, GrowsUp
<1> QED
  BY <1>4

\* The list, whose pages nothing reserves, meets the image or a reserved range
\* only if the map has them at the end of the DDR, and a block only when all
\* the memory between is handed out: for every map, of any size, and any early
\* allocations.
THEOREM ListIsSpared == Spec => []ListSpared
<1>1. BootInit => EarlyInv /\ SpareInv
  BY InitEarly, SpareInit DEF BootInit
<1>2. EarlyInv /\ SpareInv /\ [Next]_vars => EarlyInv' /\ SpareInv'
  BY EarlyStep, SpareStep
<1>3. EarlyInv /\ SpareInv => ListSpared
  BY SpareInvSound
<1> QED
  BY <1>1, <1>2, <1>3, PTL DEF Spec

-----------------------------------------------------------------------------
(* The ring. *)

\* NULL is the pointer to no ring.
NullIsNoRing ==
  \A n, o, r, b, h, t :
    NULL # [size |-> n, overwrite |-> o, rust |-> r, buf |-> b, head |-> h, tail |-> t]

Elements == Values \cup {NULL}
Rings(n) ==
  [size : {n}, overwrite : BOOLEAN, rust : BOOLEAN,
   buf : [0 .. n - 1 -> Elements], head : 0 .. n - 1, tail : 0 .. n - 1]

\* Elements of a ring, and its k-th oldest.
Length(r) == IF r.tail <= r.head THEN r.head - r.tail ELSE r.head - r.tail + r.size
Nth(r, k) == r.buf[(r.tail + (k - 1)) % r.size]

Holds(r, q) ==
  /\ q \in Seq(Elements) /\ Len(q) = Length(r)
  /\ \A k \in 1 .. Len(q) : q[k] = Nth(r, k)

RingInv ==
  /\ ring = NULL => queue = <<>> /\ lied = FALSE
  /\ ring # NULL =>
       /\ ring.size \in Nat \ {0} /\ ring \in Rings(ring.size)
       /\ Holds(ring, queue) /\ lied = FALSE

\* Of n slots one stays free: a ring is full when it has n - 1 elements, and
\* empty when it has none.
LEMMA RingFacts ==
  ASSUME NEW n \in Nat \ {0}, NEW r \in Rings(n)
  PROVE  /\ r.size = n /\ r.head \in 0 .. n - 1 /\ r.tail \in 0 .. n - 1
         /\ r.buf \in [0 .. n - 1 -> Elements] /\ r.overwrite \in BOOLEAN /\ r.rust \in BOOLEAN
         /\ Length(r) \in 0 .. n - 1
         /\ Length(r) = 0 <=> r.head = r.tail
         /\ Length(r) = n - 1 <=> (r.head + 1) % n = r.tail
         /\ (r.head + 1) % n = (IF r.head + 1 = n THEN 0 ELSE r.head + 1)
         /\ (r.tail + 1) % n = (IF r.tail + 1 = n THEN 0 ELSE r.tail + 1)
         /\ (r.head + 1) % n \in 0 .. n - 1 /\ (r.tail + 1) % n \in 0 .. n - 1
         /\ (r.head - r.tail) % n = Length(r)
<1> DEFINE h == r.head
           t == r.tail
           a == (h + 1) % n
           b == (t + 1) % n
           l == Length(r)
<1>1. /\ r.size = n /\ h \in 0 .. n - 1 /\ t \in 0 .. n - 1
      /\ r.buf \in [0 .. n - 1 -> Elements] /\ r.overwrite \in BOOLEAN /\ r.rust \in BOOLEAN
  BY DEF Rings
<1>2. l = IF t <= h THEN h - t ELSE h - t + n
  BY <1>1 DEF Length
<1>3. /\ a = IF h + 1 = n THEN 0 ELSE h + 1
      /\ b = IF t + 1 = n THEN 0 ELSE t + 1
      /\ (h - t) % n = IF t <= h THEN h - t ELSE h - t + n
  <2> HIDE DEF h, t
  <2>1. (h + 1) % n = IF h + 1 = n THEN 0 ELSE h + 1
    BY <1>1, Turns
  <2>2. (t + 1) % n = IF t + 1 = n THEN 0 ELSE t + 1
    BY <1>1, Turns
  <2>3. (h - t) % n = IF t <= h THEN h - t ELSE h - t + n
    BY <1>1, Turns
  <2> QED
    BY <2>1, <2>2, <2>3
<1> HIDE DEF h, t, a, b, l
<1>4. /\ l \in 0 .. n - 1 /\ a \in 0 .. n - 1 /\ b \in 0 .. n - 1 /\ (h - t) % n = l
      /\ l = 0 <=> h = t
  BY <1>1, <1>2, <1>3
<1>5. l = n - 1 <=> a = t
  <2>1. CASE h + 1 = n
    BY <1>1, <1>2, <1>3, <2>1
  <2>2. CASE h + 1 # n
    BY <1>1, <1>2, <1>3, <2>2
  <2> QED
    BY <2>1, <2>2
<1> QED
  BY <1>1, <1>3, <1>4, <1>5 DEF h, t, a, b, l

LEMMA NthFacts ==
  ASSUME NEW n \in Nat \ {0}, NEW r \in Rings(n), NEW k \in 1 .. n
  PROVE  /\ Nth(r, k) = r.buf[IF r.tail + (k - 1) < n THEN r.tail + (k - 1) ELSE r.tail + (k - 1) - n]
         /\ (r.tail + (k - 1)) % n \in 0 .. n - 1 /\ Nth(r, k) \in Elements
<1>1. r.size = n /\ r.tail \in 0 .. n - 1 /\ r.buf \in [0 .. n - 1 -> Elements]
  BY DEF Rings
<1>2. k - 1 \in 0 .. n - 1
  OBVIOUS
<1>3. (r.tail + (k - 1)) % n = IF r.tail + (k - 1) < n THEN r.tail + (k - 1) ELSE r.tail + (k - 1) - n
  <2> DEFINE t == r.tail
             j == k - 1
  <2>1. t \in 0 .. n - 1 /\ j \in 0 .. n - 1
    BY <1>1, <1>2
  <2> HIDE DEF t, j
  <2>2. (t + j) % n = IF t + j < n THEN t + j ELSE t + j - n
    BY <2>1, Turns
  <2> QED
    BY <2>2 DEF t, j
<1>4. (r.tail + (k - 1)) % n \in 0 .. n - 1
  <2> DEFINE m == (r.tail + (k - 1)) % n
  <2>1. m = IF r.tail + (k - 1) < n THEN r.tail + (k - 1) ELSE r.tail + (k - 1) - n
    BY <1>3
  <2> HIDE DEF m
  <2>2. m \in 0 .. n - 1
    BY <1>1, <1>2, <2>1
  <2> QED
    BY <2>2 DEF m
<1> QED
  BY <1>1, <1>3, <1>4 DEF Nth

\* The slot that a push writes is past the last element, so that no element
\* changes and the new one is the last; with the ring full its oldest goes.
LEMMA WriteFacts ==
  ASSUME NEW n \in Nat \ {0}, NEW r \in Rings(n), NEW s \in Rings(n), NEW v \in Elements,
         s.buf = [r.buf EXCEPT ![r.head] = v], s.head = (r.head + 1) % n,
         s.tail = IF Length(r) = n - 1 THEN (r.tail + 1) % n ELSE r.tail
  PROVE  LET gone == IF Length(r) = n - 1 THEN 1 ELSE 0
         IN  /\ Length(s) = Length(r) + 1 - gone
             /\ \A k \in 1 .. Length(s) :
                  Nth(s, k) = IF k + gone = Length(r) + 1 THEN v ELSE Nth(r, k + gone)
<1> DEFINE h == r.head
           t == r.tail
           l == Length(r)
           g == IF l = n - 1 THEN 1 ELSE 0
           sl == Length(s)
<1>1. /\ h \in 0 .. n - 1 /\ t \in 0 .. n - 1 /\ l \in 0 .. n - 1
      /\ l = IF t <= h THEN h - t ELSE h - t + n
      /\ r.buf \in [0 .. n - 1 -> Elements]
      /\ sl = IF s.tail <= s.head THEN s.head - s.tail ELSE s.head - s.tail + n
      /\ s.head = (IF h + 1 = n THEN 0 ELSE h + 1)
      /\ s.tail = IF l = n - 1 THEN (IF t + 1 = n THEN 0 ELSE t + 1) ELSE t
      /\ s.head \in 0 .. n - 1 /\ s.tail \in 0 .. n - 1
  <2>1. r.size = n /\ s.size = n
    BY DEF Rings
  <2>2. /\ h \in 0 .. n - 1 /\ t \in 0 .. n - 1 /\ l \in 0 .. n - 1
        /\ r.buf \in [0 .. n - 1 -> Elements]
        /\ (h + 1) % n = (IF h + 1 = n THEN 0 ELSE h + 1)
        /\ (t + 1) % n = (IF t + 1 = n THEN 0 ELSE t + 1)
        /\ s.head \in 0 .. n - 1 /\ s.tail \in 0 .. n - 1
    BY RingFacts
  <2> QED
    BY <2>1, <2>2 DEF Length
<1>2. \A k \in 0 .. n - 1 : s.buf[k] = IF k = h THEN v ELSE r.buf[k]
  BY <1>1
<1> DEFINE sh == s.head
           st == s.tail
<1>3. /\ h \in 0 .. n - 1 /\ t \in 0 .. n - 1 /\ l \in 0 .. n - 1 /\ g \in {0, 1}
      /\ sh \in 0 .. n - 1 /\ st \in 0 .. n - 1
      /\ l = IF t <= h THEN h - t ELSE h - t + n
      /\ sl = IF st <= sh THEN sh - st ELSE sh - st + n
      /\ sh = (IF h + 1 = n THEN 0 ELSE h + 1)
      /\ (l = n - 1 => g = 1 /\ st = (IF t + 1 = n THEN 0 ELSE t + 1))
      /\ (l # n - 1 => g = 0 /\ st = t)
  BY <1>1
<1> HIDE DEF h, t, l, sl, g, sh, st
<1>4. sl = l + 1 - g /\ sl \in 0 .. n - 1
  <2>1. CASE l = n - 1
    <3>1. sh = t
      BY <1>3, <2>1
    <3>2. st = (IF sh + 1 = n THEN 0 ELSE sh + 1) /\ g = 1
      BY <1>3, <2>1, <3>1
    <3> QED
      BY <1>3, <2>1, <3>2
  <2>2. CASE l # n - 1
    BY <1>3, <2>2
  <2> QED
    BY <2>1, <2>2
<1>5. ASSUME NEW k \in 1 .. sl
      PROVE  Nth(s, k) = IF k + g = l + 1 THEN v ELSE Nth(r, k + g)
  <2> DEFINE m == IF st + (k - 1) < n THEN st + (k - 1) ELSE st + (k - 1) - n
             c == IF t + ((k + g) - 1) < n THEN t + ((k + g) - 1) ELSE t + ((k + g) - 1) - n
  <2>1. k \in 1 .. n /\ k + g \in 1 .. n /\ k + g <= l + 1 /\ k \in Nat
    BY <1>3, <1>4
  <2>2. Nth(s, k) = s.buf[m]
    BY <2>1, NthFacts DEF st
  <2>3. Nth(r, k + g) = r.buf[c]
    BY <2>1, NthFacts DEF t
  <2>4. m = c
    <3>1. CASE l = n - 1 /\ t + 1 = n
      BY <1>3, <2>1, <3>1
    <3>2. CASE l = n - 1 /\ t + 1 # n
      BY <1>3, <2>1, <3>2
    <3>3. CASE l # n - 1
      BY <1>3, <2>1, <3>3
    <3> QED
      BY <3>1, <3>2, <3>3
  <2>5. c \in 0 .. n - 1
    BY <1>3, <2>1
  <2>6. c = h <=> k + g = l + 1
    <3>1. CASE t <= h
      BY <1>3, <2>1, <3>1
    <3>2. CASE ~(t <= h)
      BY <1>3, <2>1, <3>2
    <3> QED
      BY <3>1, <3>2
  <2> HIDE DEF m, c
  <2>7. s.buf[c] = IF c = h THEN v ELSE r.buf[c]
    BY <1>2, <2>5
  <2> QED
    BY <2>2, <2>3, <2>4, <2>6, <2>7
<1> QED
  BY <1>4, <1>5 DEF g, l, sl

\* A pop takes the oldest, and the others move up.
LEMMA TakeFacts ==
  ASSUME NEW n \in Nat \ {0}, NEW r \in Rings(n), NEW s \in Rings(n), Length(r) # 0,
         s.buf = r.buf, s.head = r.head, s.tail = (r.tail + 1) % n
  PROVE  /\ Length(s) = Length(r) - 1 /\ r.buf[r.tail] = Nth(r, 1)
         /\ \A k \in 1 .. Length(s) : Nth(s, k) = Nth(r, k + 1)
<1> DEFINE h == r.head
           t == r.tail
           l == Length(r)
           sl == Length(s)
<1>1. /\ h \in 0 .. n - 1 /\ t \in 0 .. n - 1 /\ l \in 0 .. n - 1
      /\ l = IF t <= h THEN h - t ELSE h - t + n
      /\ sl = IF s.tail <= h THEN h - s.tail ELSE h - s.tail + n
      /\ s.tail = (IF t + 1 = n THEN 0 ELSE t + 1) /\ s.tail \in 0 .. n - 1 /\ h # t
  <2>1. r.size = n /\ s.size = n
    BY DEF Rings
  <2>2. /\ h \in 0 .. n - 1 /\ t \in 0 .. n - 1 /\ l \in 0 .. n - 1
        /\ (t + 1) % n = (IF t + 1 = n THEN 0 ELSE t + 1)
        /\ s.tail \in 0 .. n - 1 /\ h # t
    BY RingFacts
  <2> QED
    BY <2>1, <2>2 DEF Length
<1>2. sl = l - 1
  <2> HIDE DEF h, t, l, sl
  <2>1. CASE t + 1 = n
    BY <1>1, <2>1
  <2>2. CASE t + 1 # n
    BY <1>1, <2>2
  <2> QED
    BY <2>1, <2>2
<1>3. r.buf[r.tail] = Nth(r, 1)
  <2>1. 1 \in 1 .. n /\ t + (1 - 1) = t /\ t < n
    BY <1>1
  <2> QED
    BY <2>1, NthFacts
<1>4. ASSUME NEW k \in 1 .. sl
      PROVE  Nth(s, k) = Nth(r, k + 1)
  <2> DEFINE m == IF s.tail + (k - 1) < n THEN s.tail + (k - 1) ELSE s.tail + (k - 1) - n
             c == IF t + ((k + 1) - 1) < n THEN t + ((k + 1) - 1) ELSE t + ((k + 1) - 1) - n
  <2>1. k \in 1 .. n /\ k + 1 \in 1 .. n /\ k \in Nat
    <3> HIDE DEF h, t, l, sl
    <3> QED
      BY <1>1, <1>2
  <2>2. Nth(s, k) = s.buf[m]
    BY <2>1, NthFacts
  <2>3. Nth(r, k + 1) = r.buf[c]
    BY <2>1, NthFacts
  <2>4. m = c
    <3> HIDE DEF h, t, l, sl
    <3> QED
      BY <1>1, <1>2, <2>1
  <2> HIDE DEF m, c
  <2> QED
    BY <2>2, <2>3, <2>4
<1> QED
  BY <1>2, <1>3, <1>4

-----------------------------------------------------------------------------
(* The operations of the ring. *)

\* A ring is made empty.
LEMMA NewRing ==
  ASSUME NullIsNoRing, RingInv, NEW n, NEW overwrite \in BOOLEAN, NEW rust \in BOOLEAN,
         Ring!New(n, overwrite, rust)
  PROVE  RingInv'
<1>1. /\ ring = NULL /\ n \in Nat \ {0} /\ queue' = queue /\ lied' = lied
      /\ ring' = [size |-> n, overwrite |-> overwrite, rust |-> rust,
                  buf |-> [s \in 0 .. n - 1 |-> NULL], head |-> 0, tail |-> 0]
  BY DEF Ring!New, Ring!is_pow2
<1>2. ring' # NULL
  BY <1>1 DEF NullIsNoRing
<1>3. ring'.size = n /\ ring' \in Rings(n) /\ Length(ring') = 0
  <2>1. 0 \in 0 .. n - 1 /\ [s \in 0 .. n - 1 |-> NULL] \in [0 .. n - 1 -> Elements]
    BY <1>1 DEF Elements
  <2> QED
    BY <1>1, <2>1 DEF Rings, Length
<1>4. queue' = <<>> /\ lied' = FALSE
  BY <1>1 DEF RingInv
<1>5. Holds(ring', queue')
  BY <1>3, <1>4 DEF Holds
<1> QED
  BY <1>1, <1>2, <1>3, <1>4, <1>5 DEF RingInv

LEMMA PushRing ==
  ASSUME NullIsNoRing, RingInv, ring # NULL, NEW v \in Values, Ring!push(v)
  PROVE  RingInv'
<1> DEFINE n == ring.size
           full == Length(ring) = n - 1
<1>1. n \in Nat \ {0} /\ ring \in Rings(n) /\ Holds(ring, queue) /\ lied = FALSE
  BY DEF RingInv
<1>2. /\ ring.head \in 0 .. n - 1 /\ ring.tail \in 0 .. n - 1
      /\ ring.buf \in [0 .. n - 1 -> Elements] /\ ring.overwrite \in BOOLEAN /\ ring.rust \in BOOLEAN
      /\ Length(ring) \in 0 .. n - 1
      /\ (ring.head + 1) % n \in 0 .. n - 1 /\ (ring.tail + 1) % n \in 0 .. n - 1
      /\ Ring!is_full <=> full
  BY <1>1, RingFacts DEF Ring!is_full, Ring!Next
<1>3. queue \in Seq(Elements) /\ Len(queue) = Length(ring) /\ v \in Elements
  BY <1>1 DEF Holds, Elements
<1>4. Len(queue) < n - 1 <=> ~full
  BY <1>1, <1>2, <1>3
<1>5. lied' = FALSE
  <2>1. Ring!PushResult \in BOOLEAN
    BY <1>2 DEF Ring!PushResult, Ring!is_full
  <2>2. Ring!PushResult <=> ~full \/ (ring.rust /\ ring.overwrite)
    BY <1>2 DEF Ring!PushResult
  <2> DEFINE due == IF ring.rust THEN ring.overwrite \/ Len(queue) < n - 1 ELSE Len(queue) < n - 1
  <2>3. lied' = (Ring!PushResult # due)
    BY DEF Ring!push
  <2>4. due \in BOOLEAN
    <3>1. (Len(queue) < n - 1) \in BOOLEAN
      OBVIOUS
    <3>2. CASE ring.rust
      BY <3>2, Zenon
    <3>3. CASE ~ring.rust
      BY <3>1, <3>3, Zenon
    <3> QED
      BY <3>2, <3>3, Zenon
  <2>5. due <=> ~full \/ (ring.rust /\ ring.overwrite)
    BY <1>4
  <2> HIDE DEF full, due
  <2>6. Ring!PushResult = due
    BY <2>1, <2>2, <2>4, <2>5
  <2> QED
    BY <2>3, <2>6
<1>6. CASE full /\ ~ring.overwrite
  <2>1. ring' = ring /\ queue' = queue
    BY <1>2, <1>4, <1>6 DEF Ring!push, Ring!Pushed
  <2> QED
    BY <1>1, <1>5, <2>1 DEF RingInv
<1>7. CASE ~full \/ ring.overwrite
  <2> DEFINE s == [ring EXCEPT !.buf[ring.head] = v, !.head = (ring.head + 1) % n,
                               !.tail = IF full THEN (ring.tail + 1) % n ELSE ring.tail]
             g == IF full THEN 1 ELSE 0
             q == Append(queue, v)
             qq == IF full THEN Tail(q) ELSE q
  <2>1. ring' = s
    BY <1>2, <1>7 DEF Ring!push, Ring!Stored, Ring!Next
  <2>2. queue' = qq
    BY <1>4, <1>7 DEF Ring!push, Ring!Pushed
  <2>3. /\ s \in Rings(n) /\ s.size = n /\ s.buf = [ring.buf EXCEPT ![ring.head] = v]
        /\ s.head = (ring.head + 1) % n /\ s.tail = IF full THEN (ring.tail + 1) % n ELSE ring.tail
    <3> HIDE DEF full
    <3> QED
      BY <1>1, <1>2, <1>3 DEF Rings
  <2>4. s # NULL
    <3>1. s = [size |-> s.size, overwrite |-> s.overwrite, rust |-> s.rust, buf |-> s.buf,
               head |-> s.head, tail |-> s.tail]
      <4> HIDE DEF s
      <4> QED
        BY <2>3 DEF Rings
    <3> HIDE DEF s
    <3> QED
      BY <3>1, Zenon DEF NullIsNoRing
  <2> HIDE DEF s
  <2>5. /\ Length(s) = Length(ring) + 1 - g
        /\ \A k \in 1 .. Length(s) :
             Nth(s, k) = IF k + g = Length(ring) + 1 THEN v ELSE Nth(ring, k + g)
    BY <1>1, <1>3, <2>3, WriteFacts
  <2>6. q \in Seq(Elements) /\ Len(q) = Length(ring) + 1
        /\ \A k \in 1 .. Len(q) : q[k] = IF k = Length(ring) + 1 THEN v ELSE Nth(ring, k)
    BY <1>1, <1>3 DEF Holds
  <2> HIDE DEF q
  <2>7. qq \in Seq(Elements) /\ Len(qq) = Length(ring) + 1 - g
        /\ \A k \in 1 .. Len(qq) : qq[k] = q[k + g]
    <3>1. CASE full
      <4>1. q # <<>> /\ g = 1 /\ qq = Tail(q)
        BY <1>2, <2>6, <3>1
      <4> HIDE DEF g, qq
      <4> QED
        BY <1>2, <2>6, <4>1
    <3>2. CASE ~full
      <4>1. g = 0 /\ qq = q
        BY <3>2
      <4> HIDE DEF g, qq
      <4> QED
        BY <1>2, <2>6, <4>1
    <3> QED
      BY <3>1, <3>2
  <2>8. g \in {0, 1}
    OBVIOUS
  <2> HIDE DEF g, qq
  <2>9. Holds(s, qq)
    <3>1. ASSUME NEW k \in 1 .. Len(qq)
          PROVE  qq[k] = Nth(s, k)
      <4>1. k \in 1 .. Length(s) /\ k + g \in 1 .. Len(q)
        BY <1>2, <2>5, <2>6, <2>7, <2>8
      <4> QED
        BY <2>5, <2>6, <2>7, <4>1
    <3> QED
      BY <2>5, <2>7, <3>1 DEF Holds
  <2> QED
    BY <1>1, <1>5, <2>1, <2>2, <2>3, <2>4, <2>9 DEF RingInv
<1> QED
  BY <1>6, <1>7

LEMMA PopRing ==
  ASSUME NullIsNoRing, RingInv, ring # NULL, Ring!pop
  PROVE  RingInv'
<1> DEFINE n == ring.size
           s == [ring EXCEPT !.tail = (ring.tail + 1) % n]
<1>1. n \in Nat \ {0} /\ ring \in Rings(n) /\ Holds(ring, queue) /\ lied = FALSE
  BY DEF RingInv
<1>2. ring' = s /\ queue' = Tail(queue) /\ lied' = (ring.buf[ring.tail] # Head(queue))
  BY DEF Ring!pop, Ring!Next
<1>3. /\ (ring.tail + 1) % n \in 0 .. n - 1 /\ Length(ring) # 0 /\ Length(ring) \in 0 .. n - 1
  <2>1. ring.head # ring.tail
    BY DEF Ring!pop, Ring!is_empty
  <2>2. /\ (ring.tail + 1) % n \in 0 .. n - 1 /\ Length(ring) \in 0 .. n - 1
        /\ Length(ring) = 0 <=> ring.head = ring.tail
    BY <1>1, RingFacts
  <2> QED
    BY <2>1, <2>2
<1>4. /\ s \in Rings(n) /\ s.size = n /\ s.buf = ring.buf /\ s.head = ring.head
      /\ s.tail = (ring.tail + 1) % n
  BY <1>1, <1>3 DEF Rings
<1> HIDE DEF s
<1>5. s # NULL
  <2>1. s = [size |-> s.size, overwrite |-> s.overwrite, rust |-> s.rust, buf |-> s.buf,
             head |-> s.head, tail |-> s.tail]
    BY <1>4 DEF Rings
  <2> QED
    BY <2>1, Zenon DEF NullIsNoRing
<1>6. /\ Length(s) = Length(ring) - 1 /\ ring.buf[ring.tail] = Nth(ring, 1)
      /\ \A k \in 1 .. Length(s) : Nth(s, k) = Nth(ring, k + 1)
  BY <1>1, <1>3, <1>4, TakeFacts
<1>7. /\ queue \in Seq(Elements) /\ Len(queue) = Length(ring) /\ queue # <<>>
      /\ Head(queue) = queue[1] /\ Head(queue) = Nth(ring, 1)
      /\ \A k \in 1 .. Len(queue) : queue[k] = Nth(ring, k)
  BY <1>1, <1>3 DEF Holds
<1>8. lied' = FALSE
  BY <1>2, <1>6, <1>7
<1>9. Holds(s, Tail(queue))
  <2>1. /\ Tail(queue) \in Seq(Elements) /\ Len(Tail(queue)) = Len(queue) - 1
        /\ \A k \in 1 .. Len(Tail(queue)) : Tail(queue)[k] = queue[k + 1]
    BY <1>7
  <2>2. ASSUME NEW k \in 1 .. Len(Tail(queue))
        PROVE  Tail(queue)[k] = Nth(s, k)
    <3>1. k + 1 \in 1 .. Len(queue) /\ k \in 1 .. Length(s)
      BY <1>3, <1>6, <1>7, <2>1
    <3> QED
      BY <1>6, <1>7, <2>1, <3>1
  <2> QED
    BY <1>6, <1>7, <2>1, <2>2 DEF Holds
<1> QED
  BY <1>1, <1>2, <1>4, <1>5, <1>8, <1>9 DEF RingInv

LEMMA RingInit == BootInit => RingInv
  BY DEF BootInit, Ring!Init, RingInv

LEMMA RingNext ==
  ASSUME NullIsNoRing, RingInv, [Next]_vars
  PROVE  RingInv'
<1>1. CASE UNCHANGED ringVars
  <2>1. ring' = ring /\ queue' = queue /\ lied' = lied
    BY <1>1 DEF ringVars
  <2> QED
    BY <2>1 DEF RingInv
<1>2. CASE CreateRing
  <2>1. PICK c \in EarlyBlocks, overwrite \in BOOLEAN, rust \in BOOLEAN :
          Ring!New(Slots(c), overwrite, rust)
    BY <1>2 DEF CreateRing
  <2> QED
    BY <2>1, NewRing
<1>3. CASE UseRing
  BY <1>3, PushRing, PopRing DEF UseRing, Ring!RingNext
<1>4. CASE Boot \/ CreatePool \/ UsePool
  BY <1>1, <1>4 DEF Boot, CreatePool, UsePool
<1>5. CASE UNCHANGED vars
  BY <1>1, <1>5 DEF vars
<1> QED
  BY <1>2, <1>3, <1>4, <1>5 DEF Next

\* The slots from tail to head are the queue.
LEMMA ContentsIsQueue ==
  ASSUME RingInv
  PROVE  RingSound
<1> SUFFICES ASSUME ring # NULL
             PROVE  Ring!Contents = queue /\ ~lied
  BY DEF RingSound, Ring!RingSound
<1> DEFINE n == ring.size
<1>1. n \in Nat \ {0} /\ ring \in Rings(n) /\ Holds(ring, queue) /\ lied = FALSE
  BY DEF RingInv
<1>2. /\ queue \in Seq(Elements) /\ Len(queue) = Length(ring)
      /\ \A k \in 1 .. Len(queue) : queue[k] = Nth(ring, k)
  BY <1>1 DEF Holds
<1>3. (ring.head - ring.tail) % n = Length(ring)
  BY <1>1, RingFacts
<1>4. Ring!Contents = [k \in 1 .. Length(ring) |-> Nth(ring, k)]
  BY <1>3, Zenon DEF Ring!Contents, Nth
<1>5. queue = [k \in 1 .. Len(queue) |-> queue[k]]
  BY <1>2
<1> QED
  BY <1>1, <1>2, <1>4, <1>5

\* A ring made in a block that boot left for good is a bounded queue of one
\* element less than it has slots: it keeps the newest when it may overwrite
\* and the oldest when not, and every push and pop says so.
THEOREM RingIsBoundedQueue ==
  ASSUME NullIsNoRing
  PROVE  Spec => []RingSound
<1>1. RingInv /\ [Next]_vars => RingInv'
  BY RingNext
<1>2. RingInv => RingSound
  BY ContentsIsQueue
<1> QED
  BY <1>1, <1>2, RingInit, PTL DEF Spec

-----------------------------------------------------------------------------
(* Searches that walk an array of N entries from its start. *)

\* f is the search that from an entry of Stop answers out, and goes on to nxt
\* from any other.
Walks(f, N, Stop, out, nxt) ==
  f = [b \in 0 .. 2 * N |->
         IF b >= N THEN -1 ELSE IF b \in Stop THEN out[b] ELSE f[nxt[b]]]

\* A walk that always goes up is a function.
LEMMA WalkExists ==
  ASSUME NEW N \in Nat, NEW Stop, NEW out, NEW nxt,
         \A b \in 0 .. N - 1 : b \notin Stop => nxt[b] \in b + 1 .. N
  PROVE  \E f : Walks(f, N, Stop, out, nxt)
<1> DEFINE Val(f, b) == IF b >= N THEN -1 ELSE IF b \in Stop THEN out[b] ELSE f[nxt[b]]
           Good(f, k) == f = [b \in 0 .. 2 * N |-> f[b]] /\ \A b \in k .. 2 * N : f[b] = Val(f, b)
           T == { k \in Nat : k <= N /\ \E f : Good(f, k) }
<1>1. N \in T
  <2> DEFINE g == [b \in 0 .. 2 * N |-> -1]
  <2>1. Good(g, N)
    OBVIOUS
  <2> HIDE DEF Good
  <2> QED
    BY <2>1
<1>2. PICK k \in T : \A y \in T : k <= y
  <2>1. T \in SUBSET Nat /\ T # {}
    BY <1>1
  <2> HIDE DEF T
  <2> QED
    BY <2>1, HasLeast
<1>3. PICK g : Good(g, k)
  OBVIOUS
<1>4. k = 0
  <2>1. SUFFICES ASSUME k # 0
                 PROVE  FALSE
    OBVIOUS
  <2> DEFINE j == k - 1
             h == [g EXCEPT ![j] = Val(g, j)]
  <2>2. j \in Nat /\ j < N /\ j <= N /\ k <= N /\ j \in 0 .. 2 * N /\ ~(k <= j)
    BY <2>1
  <2>3. /\ h = [b \in 0 .. 2 * N |-> h[b]]
        /\ h[j] = Val(g, j) /\ \A b \in k .. 2 * N : h[b] = g[b] /\ g[b] = Val(g, b)
    <3>1. g = [b \in 0 .. 2 * N |-> g[b]] /\ \A b \in k .. 2 * N : g[b] = Val(g, b)
      BY <1>3, Zenon
    <3>2. DOMAIN g = 0 .. 2 * N
      BY <3>1, Zenon
    <3>3. \A b \in k .. 2 * N : b \in 0 .. 2 * N /\ b # j
      BY <2>2
    <3> HIDE DEF Val
    <3> QED
      BY <2>2, <3>1, <3>2, <3>3
  <2>4. ASSUME NEW b \in j .. 2 * N
        PROVE  Val(h, b) = Val(g, b)
    <3>1. CASE b >= N \/ b \in Stop
      BY <3>1
    <3>2. CASE ~(b >= N) /\ b \notin Stop
      <4>1. nxt[b] \in b + 1 .. N
        BY <2>2, <3>2
      <4>2. nxt[b] \in k .. 2 * N
        BY <2>2, <4>1
      <4>3. h[nxt[b]] = g[nxt[b]]
        BY <2>3, <4>2
      <4> QED
        BY <3>2, <4>3
    <3> QED
      BY <3>1, <3>2
  <2> HIDE DEF h, Val
  <2>5. ASSUME NEW b \in j .. 2 * N
        PROVE  h[b] = Val(h, b)
    <3>1. CASE b = j
      BY <2>3, <2>4, <3>1
    <3>2. CASE b # j
      <4>1. b \in k .. 2 * N
        BY <2>2, <3>2
      <4> QED
        BY <2>3, <2>4, <4>1
    <3> QED
      BY <3>1, <3>2
  <2>6. Good(h, j)
    BY <2>3, <2>5
  <2>7. j \in T
    <3> HIDE DEF Good
    <3> QED
      BY <2>2, <2>6
  <2> QED
    <3> HIDE DEF T, j
    <3> QED
      BY <1>2, <2>2, <2>7
<1>5. g = [b \in 0 .. 2 * N |-> Val(g, b)]
  BY <1>3, <1>4
<1> QED
  BY <1>5 DEF Walks

\* The walk answers the least wanted entry when it stops at wanted entries, or
\* where no wanted entry follows, and passes over no wanted entry.
LEMMA WalkFinds ==
  ASSUME NEW N \in Nat, NEW Stop, NEW out, NEW nxt, NEW Wanted \in SUBSET (0 .. N - 1),
         \A b \in 0 .. N - 1 : b \notin Stop =>
           nxt[b] \in b + 1 .. N /\ \A x \in b .. nxt[b] - 1 : x \notin Wanted,
         \A b \in 0 .. N - 1 : b \in Stop =>
           \/ out[b] = b /\ b \in Wanted
           \/ out[b] = -1 /\ \A x \in b .. N - 1 : x \notin Wanted,
         NEW f, Walks(f, N, Stop, out, nxt)
  PROVE  \/ f[0] = -1 /\ Wanted = {}
         \/ f[0] \in Wanted /\ \A x \in Wanted : f[0] <= x
<1> DEFINE Claim(b) == \/ f[b] = -1 /\ \A x \in b .. N - 1 : x \notin Wanted
                       \/ /\ f[b] \in Wanted /\ b <= f[b]
                          /\ \A x \in b .. N - 1 : x \in Wanted => f[b] <= x
           T == { k \in Nat : k <= N /\ ~Claim(N - k) }
<1>1. ASSUME NEW b \in 0 .. N
      PROVE  f[b] = IF b >= N THEN -1 ELSE IF b \in Stop THEN out[b] ELSE f[nxt[b]]
  <2>1. b \in 0 .. 2 * N
    OBVIOUS
  <2> QED
    BY <2>1, Zenon DEF Walks
<1>2. T = {}
  <2>1. SUFFICES ASSUME T # {}
                 PROVE  FALSE
    OBVIOUS
  <2>2. PICK k \in T : \A y \in T : k <= y
    <3>1. T \in SUBSET Nat
      OBVIOUS
    <3> HIDE DEF T
    <3> QED
      BY <2>1, <3>1, HasLeast
  <2> DEFINE b == N - k
  <2>3. b \in 0 .. N /\ ~Claim(b) /\ k \in Nat
    OBVIOUS
  <2>4. \A c \in b + 1 .. N : Claim(c)
    <3> SUFFICES ASSUME NEW c \in b + 1 .. N, ~Claim(c)
                 PROVE  FALSE
      OBVIOUS
    <3>1. N - c \in Nat /\ N - c <= N /\ N - (N - c) = c /\ ~(k <= N - c)
      BY <2>3
    <3>2. N - c \in T
      <4> HIDE DEF Claim
      <4> QED
        BY <3>1
    <3> QED
      <4> HIDE DEF T
      <4> QED
        BY <2>2, <3>1, <3>2
  <2> HIDE DEF b, T
  <2>5. CASE b >= N
    <3>1. f[b] = -1
      BY <1>1, <2>3, <2>5
    <3> QED
      BY <2>3, <2>5, <3>1
  <2>6. CASE b < N /\ b \in Stop
    <3>1. f[b] = out[b] /\ b \in 0 .. N - 1
      BY <1>1, <2>3, <2>6
    <3>2. \/ out[b] = b /\ b \in Wanted
          \/ out[b] = -1 /\ \A x \in b .. N - 1 : x \notin Wanted
      BY <2>6, <3>1
    <3> QED
      BY <2>3, <3>1, <3>2
  <2>7. CASE b < N /\ b \notin Stop
    <3>1. f[b] = f[nxt[b]] /\ b \in 0 .. N - 1
      BY <1>1, <2>3, <2>7
    <3> DEFINE c == nxt[b]
    <3>2. c \in b + 1 .. N /\ \A x \in b .. c - 1 : x \notin Wanted
      BY <2>7, <3>1
    <3>3. Claim(c)
      BY <2>4, <3>2
    <3>4. \A x \in b .. N - 1 : x \in Wanted => x \in c .. N - 1
      BY <3>1, <3>2
    <3>5. Claim(b)
      <4>1. f[b] = f[c]
        BY <3>1
      <4> HIDE DEF c
      <4>2. CASE f[c] = -1 /\ \A x \in c .. N - 1 : x \notin Wanted
        BY <3>4, <4>1, <4>2
      <4>3. CASE /\ f[c] \in Wanted /\ c <= f[c]
                 /\ \A x \in c .. N - 1 : x \in Wanted => f[c] <= x
        <5>1. b <= f[c]
          <6>1. f[c] \in 0 .. N - 1
            BY <4>3
          <6> QED
            BY <3>1, <3>2, <4>3, <6>1
        <5> QED
          BY <3>4, <4>1, <4>3, <5>1
      <4> QED
        BY <3>3, <4>2, <4>3
    <3> QED
      BY <2>3, <3>5
  <2> QED
    BY <2>3, <2>5, <2>6, <2>7
<1>3. Claim(0)
  <2>1. N \in Nat /\ N <= N /\ N - N = 0
    OBVIOUS
  <2> HIDE DEF Claim
  <2> QED
    BY <1>2, <2>1
<1> QED
  BY <1>3

-----------------------------------------------------------------------------
(* The pool. *)

\* NULL is the handle of no pool.
NullIsNoHandle ==
  \A a, s, n, d :
    NULL # [region_start |-> a, block_size |-> s, block_n |-> n, reg_id_n |-> d]

Handles ==
  [region_start : Nat, block_size : {BlockBytes}, block_n : Nat, reg_id_n : 0 .. EMPTY_BLOCK - 1]
Metas == [reg_id : 0 .. EMPTY_BLOCK, span : Nat \ {0}]
Occupied(b) == mdt[b].reg_id # EMPTY_BLOCK

\* The buffer is one early block.
HandleInv ==
  /\ stage \in {"kernel", "halted", "overrun"} /\ handle \in Handles
  /\ \E c \in EarlyBlocks :
       /\ c.addr \in Nat /\ c.pages \in Nat \ {0}
       /\ handle.region_start = c.addr * PageBytes /\ handle.block_n = Slots(c)

\* The regions that are out, and the metadata of their blocks and of the others.
RegionInv(r) ==
  /\ r \in [id : 0 .. handle.reg_id_n - 1, first : Nat, blocks : Nat \ {0}]
  /\ r.first + r.blocks <= handle.block_n
  /\ \A b \in Pool!BlocksOf(r) : mdt[b] = [reg_id |-> r.id, span |-> (r.first + r.blocks) - b]

RegionsInv ==
  /\ \A r \in live : RegionInv(r)
  /\ \A r, s \in live :
       r # s => r.id # s.id /\ Pool!BlocksOf(r) \intersect Pool!BlocksOf(s) = {}
  /\ mdt \in [Pool!Blocks -> Metas]
  /\ \A b \in Pool!Blocks : mdt[b] = Pool!Free \/ \E r \in live : b \in Pool!BlocksOf(r)

PoolInv ==
  /\ handle = NULL => live = {} /\ panicked = "no" /\ misused = FALSE
  /\ handle # NULL => HandleInv /\ RegionsInv
  /\ misused \in BOOLEAN /\ ((panicked # "no") <=> misused)

\* What the metadata of a block says of the blocks after it.
LEMMA BlockFacts ==
  ASSUME BootAssumption, handle \in Handles, RegionsInv
  PROVE  /\ handle.block_n \in Nat /\ Pool!Blocks = 0 .. handle.block_n - 1
         /\ handle.reg_id_n \in 0 .. EMPTY_BLOCK - 1 /\ EMPTY_BLOCK \in Nat \ {0}
         /\ handle.region_start \in Nat /\ handle.block_size = BlockBytes
         /\ BlockBytes \in Nat \ {0}
         /\ \A r \in live :
              /\ r.id \in 0 .. handle.reg_id_n - 1 /\ r.first \in Nat /\ r.blocks \in Nat \ {0}
              /\ r.first + r.blocks <= handle.block_n
              /\ Pool!BlocksOf(r) = r.first .. (r.first + r.blocks) - 1
              /\ Pool!BlocksOf(r) \subseteq Pool!Blocks
              /\ \A b \in Pool!BlocksOf(r) :
                   /\ mdt[b].reg_id = r.id /\ mdt[b].span = (r.first + r.blocks) - b
                   /\ Occupied(b)
         /\ \A b \in Pool!Blocks :
              /\ mdt[b].reg_id \in 0 .. EMPTY_BLOCK /\ mdt[b].span \in Nat \ {0}
              /\ Occupied(b) => \E r \in live : b \in Pool!BlocksOf(r)
              /\ ~Occupied(b) => mdt[b] = Pool!Free /\ mdt[b].span = 1
<1>1. /\ handle.block_n \in Nat /\ Pool!Blocks = 0 .. handle.block_n - 1
      /\ handle.reg_id_n \in 0 .. EMPTY_BLOCK - 1 /\ EMPTY_BLOCK \in Nat \ {0}
      /\ handle.region_start \in Nat /\ handle.block_size = BlockBytes
      /\ BlockBytes \in Nat \ {0}
  BY DEF Handles, Pool!Blocks, BootAssumption
<1>2. ASSUME NEW r \in live
      PROVE  /\ r.id \in 0 .. handle.reg_id_n - 1 /\ r.first \in Nat /\ r.blocks \in Nat \ {0}
             /\ r.first + r.blocks <= handle.block_n
             /\ Pool!BlocksOf(r) = r.first .. (r.first + r.blocks) - 1
             /\ Pool!BlocksOf(r) \subseteq Pool!Blocks
             /\ \A b \in Pool!BlocksOf(r) :
                  /\ mdt[b].reg_id = r.id /\ mdt[b].span = (r.first + r.blocks) - b
                  /\ Occupied(b)
  <2>1. RegionInv(r)
    BY DEF RegionsInv
  <2>2. /\ r.id \in 0 .. handle.reg_id_n - 1 /\ r.first \in Nat /\ r.blocks \in Nat \ {0}
        /\ r.first + r.blocks <= handle.block_n
    BY <2>1 DEF RegionInv
  <2>3. Pool!BlocksOf(r) = r.first .. (r.first + r.blocks) - 1
    BY <2>2 DEF Pool!BlocksOf
  <2>4. Pool!BlocksOf(r) \subseteq Pool!Blocks
    BY <1>1, <2>2, <2>3
  <2>5. ASSUME NEW b \in Pool!BlocksOf(r)
        PROVE  /\ mdt[b].reg_id = r.id /\ mdt[b].span = (r.first + r.blocks) - b
               /\ Occupied(b)
    <3>1. mdt[b] = [reg_id |-> r.id, span |-> (r.first + r.blocks) - b]
      BY <2>1 DEF RegionInv
    <3>2. mdt[b].reg_id = r.id /\ mdt[b].span = (r.first + r.blocks) - b
      BY <3>1
    <3> QED
      BY <1>1, <2>2, <3>2 DEF Occupied
  <2> QED
    BY <2>2, <2>3, <2>4, <2>5
<1>3. ASSUME NEW b \in Pool!Blocks
      PROVE  /\ mdt[b].reg_id \in 0 .. EMPTY_BLOCK /\ mdt[b].span \in Nat \ {0}
             /\ Occupied(b) => \E r \in live : b \in Pool!BlocksOf(r)
             /\ ~Occupied(b) => mdt[b] = Pool!Free /\ mdt[b].span = 1
  <2>1. mdt[b] \in Metas /\ (mdt[b] = Pool!Free \/ \E r \in live : b \in Pool!BlocksOf(r))
    BY DEF RegionsInv
  <2>2. mdt[b] = Pool!Free => mdt[b].reg_id = EMPTY_BLOCK /\ mdt[b].span = 1
    BY DEF Pool!Free
  <2> QED
    BY <1>2, <2>1, <2>2 DEF Metas, Occupied
<1> QED
  BY <1>1, <1>2, <1>3

\* What remains of a region from one of its blocks on is of that region.
LEMMA SpanFacts ==
  ASSUME BootAssumption, handle \in Handles, RegionsInv, NEW b \in Pool!Blocks
  PROVE  /\ b + mdt[b].span \in b + 1 .. handle.block_n
         /\ \A x \in b .. (b + mdt[b].span) - 1 :
              x \in Pool!Blocks /\ mdt[x].reg_id = mdt[b].reg_id
<1>1. b \in 0 .. handle.block_n - 1 /\ handle.block_n \in Nat
  BY BlockFacts
<1>2. CASE Occupied(b)
  <2>1. PICK r \in live : b \in Pool!BlocksOf(r)
    BY <1>2, BlockFacts
  <2>2. /\ r.first \in Nat /\ r.blocks \in Nat \ {0} /\ r.first + r.blocks <= handle.block_n
        /\ Pool!BlocksOf(r) = r.first .. (r.first + r.blocks) - 1
        /\ Pool!BlocksOf(r) \subseteq Pool!Blocks
        /\ \A x \in Pool!BlocksOf(r) : mdt[x].reg_id = r.id
    BY BlockFacts
  <2>3. mdt[b].span = (r.first + r.blocks) - b
    BY <2>1, BlockFacts
  <2>4. b + mdt[b].span = r.first + r.blocks /\ r.first <= b /\ b <= (r.first + r.blocks) - 1
    BY <1>1, <2>1, <2>2, <2>3
  <2> DEFINE e == r.first + r.blocks
  <2>5. e \in Nat /\ e <= handle.block_n
    BY <2>2
  <2>6. e \in b + 1 .. handle.block_n /\ \A x \in b .. e - 1 : x \in r.first .. e - 1
    <3> HIDE DEF e
    <3> QED
      BY <1>1, <2>2, <2>4, <2>5 DEF e
  <2> QED
    BY <2>1, <2>2, <2>4, <2>6
<1>3. CASE ~Occupied(b)
  <2>1. mdt[b].span = 1
    BY <1>3, BlockFacts
  <2>2. b + 1 \in b + 1 .. handle.block_n /\ \A x \in b .. (b + 1) - 1 : x = b
    BY <1>1
  <2> QED
    BY <2>1, <2>2
<1> QED
  BY <1>2, <1>3

\* The holes of n blocks.
Holes(n) ==
  { b \in Pool!Blocks : b + n <= handle.block_n /\ \A x \in b .. (b + n) - 1 : ~Occupied(x) }

\* search_free_region finds the first hole.
LEMMA FreeSearch ==
  ASSUME BootAssumption, handle \in Handles, RegionsInv, NEW n \in Nat \ {0}
  PROVE  \/ Pool!search_free_region(n) = -1 /\ Holes(n) = {}
         \/ /\ Pool!search_free_region(n) \in Holes(n)
            /\ \A x \in Holes(n) : Pool!search_free_region(n) <= x
<1> DEFINE N == handle.block_n
<1>1. N \in Nat /\ Pool!Blocks = 0 .. N - 1 /\ \A b \in Pool!Blocks : mdt[b].span \in Nat \ {0}
  BY BlockFacts
<1>2. CASE n > N
  <2>1. Pool!search_free_region(n) = -1
    BY <1>2 DEF Pool!search_free_region, Pool!NOT_FOUND
  <2>2. Holes(n) = {}
    BY <1>1, <1>2 DEF Holes
  <2> QED
    BY <2>1, <2>2
<1>3. CASE ~(n > N)
  <2> DEFINE taken(b) == { j \in b .. (b + n) - 1 : mdt[j].reg_id # EMPTY_BLOCK }
             Stop == { b \in 0 .. N - 1 : ~Occupied(b) /\ (b + n > N \/ taken(b) = {}) }
             out == [b \in 0 .. N - 1 |-> IF b + n > N THEN -1 ELSE b]
             next(b) == IF Occupied(b) THEN b + mdt[b].span
                        ELSE Pool!First(taken(b)) + mdt[Pool!First(taken(b))].span
             nxt == [b \in 0 .. N - 1 |-> next(b)]
  <2>1. ASSUME NEW b \in 0 .. N - 1, b \notin Stop
        PROVE  /\ next(b) \in b + 1 .. N
               /\ \A x \in b .. next(b) - 1 : x \notin Holes(n)
    <3>1. CASE Occupied(b)
      <4>1. /\ b + mdt[b].span \in b + 1 .. N
            /\ \A x \in b .. (b + mdt[b].span) - 1 :
                 x \in Pool!Blocks /\ mdt[x].reg_id = mdt[b].reg_id
        BY <1>1, SpanFacts
      <4>2. ASSUME NEW x \in b .. (b + mdt[b].span) - 1
            PROVE  x \notin Holes(n)
        <5>1. Occupied(x) /\ x \in 0 .. N - 1
          BY <1>1, <3>1, <4>1 DEF Occupied
        <5>2. x \in x .. (x + n) - 1
          BY <5>1
        <5> QED
          BY <5>1, <5>2 DEF Holes
      <4> QED
        BY <3>1, <4>1, <4>2
    <3>2. CASE ~Occupied(b)
      <4>1. b + n <= N /\ taken(b) # {} /\ b \in Nat
        BY <1>1, <2>1, <3>2
      <4> DEFINE t == Pool!First(taken(b))
      <4>2. t \in taken(b) /\ \A y \in taken(b) : t <= y
        <5>1. taken(b) \in SUBSET Nat
          BY <4>1
        <5>2. \E x \in taken(b) : \A y \in taken(b) : x <= y
          <6> HIDE DEF taken
          <6> QED
            BY <4>1, <5>1, HasLeast
        <5> HIDE DEF taken
        <5> QED
          BY <5>2, Zenon DEF Pool!First
      <4>3. t \in b .. (b + n) - 1 /\ Occupied(t) /\ t \in 0 .. N - 1
        BY <1>1, <4>1, <4>2 DEF Occupied
      <4> HIDE DEF t
      <4>4. /\ t + mdt[t].span \in t + 1 .. N
            /\ \A x \in t .. (t + mdt[t].span) - 1 :
                 x \in Pool!Blocks /\ mdt[x].reg_id = mdt[t].reg_id
        BY <1>1, <4>3, SpanFacts
      <4>5. next(b) = t + mdt[t].span
        BY <3>2 DEF t
      <4> DEFINE e == t + mdt[t].span
      <4>6. e \in t + 1 .. N
        BY <4>4
      <4>7. ASSUME NEW x \in b .. e - 1
            PROVE  x \notin Holes(n)
        <5>1. CASE x <= t
          <6>1. t \in x .. (x + n) - 1
            BY <4>1, <4>3, <5>1
          <6> QED
            BY <4>3, <6>1 DEF Holes
        <5>2. CASE ~(x <= t)
          <6>1. x \in t .. e - 1
            <7> HIDE DEF e
            <7> QED
              BY <4>1, <4>3, <4>6, <5>2
          <6>2. Occupied(x) /\ x \in 0 .. N - 1
            BY <1>1, <4>3, <4>4, <6>1 DEF Occupied
          <6>3. x \in x .. (x + n) - 1
            BY <6>2
          <6> QED
            BY <6>2, <6>3 DEF Holes
        <5> QED
          BY <5>1, <5>2
      <4>8. e \in b + 1 .. N
        <5> HIDE DEF e
        <5> QED
          BY <1>1, <4>1, <4>3, <4>6
      <4> QED
        <5> HIDE DEF taken
        <5> QED
          BY <4>5, <4>7, <4>8
    <3> QED
      BY <3>1, <3>2
  <2>2. ASSUME NEW b \in 0 .. N - 1, b \in Stop
        PROVE  \/ out[b] = b /\ b \in Holes(n)
               \/ out[b] = -1 /\ \A x \in b .. N - 1 : x \notin Holes(n)
    <3>1. CASE b + n > N
      <4>1. \A x \in b .. N - 1 : x + n > N
        BY <1>1, <3>1
      <4>2. \A x \in b .. N - 1 : ~(x + n <= N)
        BY <1>1, <4>1
      <4> QED
        BY <3>1, <4>2 DEF Holes
    <3>2. CASE ~(b + n > N)
      <4>1. taken(b) = {} /\ b + n <= N
        BY <1>1, <2>2, <3>2
      <4>2. \A x \in b .. (b + n) - 1 : ~Occupied(x)
        BY <4>1 DEF Occupied
      <4> QED
        BY <1>1, <3>2, <4>1, <4>2 DEF Holes
    <3> QED
      BY <3>1, <3>2
  <2>3. /\ \A b \in 0 .. N - 1 : b \notin Stop =>
             nxt[b] \in b + 1 .. N /\ \A x \in b .. nxt[b] - 1 : x \notin Holes(n)
        /\ \A b \in 0 .. N - 1 : b \in Stop =>
             \/ out[b] = b /\ b \in Holes(n)
             \/ out[b] = -1 /\ \A x \in b .. N - 1 : x \notin Holes(n)
    <3> HIDE DEF Stop, next, out
    <3> QED
      BY <2>1, <2>2
  <2>4. Holes(n) \in SUBSET (0 .. N - 1)
    BY <1>1 DEF Holes
  <2> DEFINE walk(f, b) == IF b >= N THEN -1 ELSE IF b \in Stop THEN out[b] ELSE f[nxt[b]]
             look(f, b) ==
               IF b >= N THEN -1
               ELSE IF mdt[b].reg_id # EMPTY_BLOCK THEN f[b + mdt[b].span]
               ELSE IF b + n > N THEN -1
               ELSE LET tk == { j \in b .. b + n - 1 : mdt[j].reg_id # EMPTY_BLOCK }
                    IN  IF tk = {} THEN b ELSE f[Pool!First(tk) + mdt[Pool!First(tk)].span]
  <2>5. ASSUME NEW f, NEW b \in 0 .. 2 * N
        PROVE  walk(f, b) = look(f, b)
    <3>1. CASE b >= N
      BY <3>1
    <3>2. CASE ~(b >= N)
      <4>1. b \in 0 .. N - 1
        BY <1>1, <3>2
      <4>2. taken(b) = { j \in b .. b + n - 1 : mdt[j].reg_id # EMPTY_BLOCK }
        <5>1. (b + n) - 1 = b + n - 1
          BY <4>1
        <5> QED
          BY <5>1, Zenon
      <4> DEFINE tk == { j \in b .. b + n - 1 : mdt[j].reg_id # EMPTY_BLOCK }
      <4>3. b \in Stop <=> ~Occupied(b) /\ (b + n > N \/ tk = {})
        BY <4>1, <4>2
      <4>4. /\ out[b] = IF b + n > N THEN -1 ELSE b
            /\ nxt[b] = IF Occupied(b) THEN b + mdt[b].span
                        ELSE Pool!First(tk) + mdt[Pool!First(tk)].span
        BY <4>1, <4>2
      <4> HIDE DEF tk, Stop, out, nxt, taken
      <4> QED
        BY <3>2, <4>3, <4>4 DEF Occupied, tk
    <3> QED
      BY <3>1, <3>2
  <2>6. PICK g : Walks(g, N, Stop, out, nxt)
    <3> HIDE DEF Stop, out, nxt
    <3> QED
      BY <1>1, <2>3, WalkExists
  <2>7. \A f : f = [b \in 0 .. 2 * N |-> walk(f, b)] <=> f = [b \in 0 .. 2 * N |-> look(f, b)]
    <3> HIDE DEF walk, look
    <3> QED
      BY <2>5
  <2>8. g = [b \in 0 .. 2 * N |-> look(g, b)]
    <3>1. g = [b \in 0 .. 2 * N |-> walk(g, b)]
      BY <2>6, Zenon DEF Walks
    <3> HIDE DEF walk, look
    <3> QED
      BY <2>7, <3>1
  <2> DEFINE from == Pool!free_from(n)
  <2>9. from = [b \in 0 .. 2 * N |-> look(from, b)]
    <3>1. from = CHOOSE f : f = [b \in 0 .. 2 * N |-> look(f, b)]
      BY Zenon DEF Pool!free_from, Pool!NOT_FOUND
    <3> HIDE DEF look, from
    <3> QED
      BY <2>8, <3>1, Zenon
  <2>10. Walks(from, N, Stop, out, nxt)
    <3>1. from = [b \in 0 .. 2 * N |-> walk(from, b)]
      <4> HIDE DEF walk, look, from
      <4> QED
        BY <2>7, <2>9
    <3> QED
      BY <3>1, Zenon DEF Walks
  <2>11. \/ from[0] = -1 /\ Holes(n) = {}
         \/ from[0] \in Holes(n) /\ \A x \in Holes(n) : from[0] <= x
    <3> HIDE DEF Stop, out, nxt, from
    <3> QED
      BY <1>1, <2>3, <2>4, <2>10, WalkFinds
  <2>12. Pool!search_free_region(n) = from[0]
    BY <1>3 DEF Pool!search_free_region
  <2> QED
    <3> HIDE DEF from
    <3> QED
      BY <2>11, <2>12
<1> QED
  BY <1>2, <1>3

\* search_reg_id finds the first block of the region of an id.
LEMMA IdSearch ==
  ASSUME BootAssumption, handle \in Handles, RegionsInv, NEW id \in Nat
  PROVE  \/ Pool!search_reg_id(id) = -1 /\ \A r \in live : r.id # id
         \/ /\ Pool!search_reg_id(id) \in Pool!Blocks /\ Occupied(Pool!search_reg_id(id))
            /\ \E r \in live : r.id = id /\ r.first = Pool!search_reg_id(id)
<1> DEFINE N == handle.block_n
<1>1. /\ N \in Nat /\ Pool!Blocks = 0 .. N - 1
      /\ handle.reg_id_n \in 0 .. EMPTY_BLOCK - 1 /\ EMPTY_BLOCK \in Nat
  BY BlockFacts
<1>2. CASE id >= handle.reg_id_n
  <2>1. Pool!search_reg_id(id) = -1
    BY <1>2 DEF Pool!search_reg_id, Pool!NOT_FOUND
  <2>2. \A r \in live : r.id \in 0 .. handle.reg_id_n - 1
    BY BlockFacts
  <2> QED
    BY <1>1, <1>2, <2>1, <2>2
<1>3. CASE ~(id >= handle.reg_id_n)
  <2> DEFINE Mine == { b \in 0 .. N - 1 : mdt[b].reg_id = id }
             out == [b \in 0 .. N - 1 |-> b]
             nxt == [b \in 0 .. N - 1 |-> b + mdt[b].span]
  <2>1. ASSUME NEW b \in 0 .. N - 1, b \notin Mine
        PROVE  nxt[b] \in b + 1 .. N /\ \A x \in b .. nxt[b] - 1 : x \notin Mine
    <3>1. /\ b + mdt[b].span \in b + 1 .. N
          /\ \A x \in b .. (b + mdt[b].span) - 1 :
               x \in Pool!Blocks /\ mdt[x].reg_id = mdt[b].reg_id
      BY <1>1, SpanFacts
    <3>2. mdt[b].reg_id # id
      BY <2>1
    <3> QED
      BY <3>1, <3>2
  <2> DEFINE walk(f, b) == IF b >= N THEN -1 ELSE IF b \in Mine THEN out[b] ELSE f[nxt[b]]
             look(f, b) ==
               IF b >= N THEN -1
               ELSE IF mdt[b].reg_id = id THEN b ELSE f[b + mdt[b].span]
  <2>2. ASSUME NEW f, NEW b \in 0 .. 2 * N
        PROVE  walk(f, b) = look(f, b)
    <3>1. CASE b >= N
      BY <3>1
    <3>2. CASE ~(b >= N)
      <4>1. b \in 0 .. N - 1
        BY <1>1, <3>2
      <4>2. (b \in Mine <=> mdt[b].reg_id = id) /\ out[b] = b /\ nxt[b] = b + mdt[b].span
        BY <4>1
      <4> HIDE DEF Mine, out, nxt
      <4> QED
        BY <3>2, <4>2
    <3> QED
      BY <3>1, <3>2
  <2>3. PICK g : Walks(g, N, Mine, out, nxt)
    <3>1. \A b \in 0 .. N - 1 : b \notin Mine => nxt[b] \in b + 1 .. N
      BY <2>1
    <3> HIDE DEF Mine, out, nxt
    <3> QED
      BY <1>1, <3>1, WalkExists
  <2>4. \A f : f = [b \in 0 .. 2 * N |-> walk(f, b)] <=> f = [b \in 0 .. 2 * N |-> look(f, b)]
    <3> HIDE DEF walk, look
    <3> QED
      BY <2>2
  <2>5. g = [b \in 0 .. 2 * N |-> look(g, b)]
    <3>1. g = [b \in 0 .. 2 * N |-> walk(g, b)]
      BY <2>3, Zenon DEF Walks
    <3> HIDE DEF walk, look
    <3> QED
      BY <2>4, <3>1
  <2> DEFINE from == Pool!id_from(id)
  <2>6. from = [b \in 0 .. 2 * N |-> look(from, b)]
    <3>1. from = CHOOSE f : f = [b \in 0 .. 2 * N |-> look(f, b)]
      BY Zenon DEF Pool!id_from, Pool!NOT_FOUND
    <3> HIDE DEF look, from
    <3> QED
      BY <2>5, <3>1, Zenon
  <2>7. Walks(from, N, Mine, out, nxt)
    <3>1. from = [b \in 0 .. 2 * N |-> walk(from, b)]
      <4> HIDE DEF walk, look, from
      <4> QED
        BY <2>4, <2>6
    <3> QED
      BY <3>1, Zenon DEF Walks
  <2>8. \/ from[0] = -1 /\ Mine = {}
        \/ from[0] \in Mine /\ \A x \in Mine : from[0] <= x
    <3>1. \A b \in 0 .. N - 1 : b \notin Mine =>
            nxt[b] \in b + 1 .. N /\ \A x \in b .. nxt[b] - 1 : x \notin Mine
      BY <2>1
    <3>2. \A b \in 0 .. N - 1 : b \in Mine =>
            \/ out[b] = b /\ b \in Mine
            \/ out[b] = -1 /\ \A x \in b .. N - 1 : x \notin Mine
      OBVIOUS
    <3>3. Mine \in SUBSET (0 .. N - 1)
      OBVIOUS
    <3> HIDE DEF Mine, out, nxt, from
    <3> QED
      BY <1>1, <2>7, <3>1, <3>2, <3>3, WalkFinds
  <2>9. Pool!search_reg_id(id) = from[0]
    BY <1>3 DEF Pool!search_reg_id
  <2>10. \A r \in live : r.id = id => r.first \in Mine
    <3> SUFFICES ASSUME NEW r \in live, r.id = id
                 PROVE  r.first \in Mine
      OBVIOUS
    <3>1. /\ r.first \in Nat /\ r.blocks \in Nat \ {0}
          /\ Pool!BlocksOf(r) = r.first .. (r.first + r.blocks) - 1
          /\ Pool!BlocksOf(r) \subseteq Pool!Blocks
          /\ \A b \in Pool!BlocksOf(r) : mdt[b].reg_id = r.id
      BY BlockFacts
    <3>2. r.first \in Pool!BlocksOf(r)
      BY <3>1
    <3> QED
      BY <1>1, <3>1, <3>2
  <2>11. CASE from[0] = -1 /\ Mine = {}
    <3>1. \A r \in live : r.id # id
      <4> HIDE DEF Mine
      <4> QED
        BY <2>10, <2>11
    <3> QED
      <4> HIDE DEF from
      <4> QED
        BY <2>9, <2>11, <3>1
  <2>12. CASE from[0] \in Mine /\ \A x \in Mine : from[0] <= x
    <3> DEFINE b == from[0]
    <3> HIDE DEF from
    <3>1. b \in 0 .. N - 1 /\ mdt[b].reg_id = id /\ Occupied(b)
      <4>1. b \in 0 .. N - 1 /\ mdt[b].reg_id = id
        BY <2>12
      <4>2. id # EMPTY_BLOCK
        BY <1>1, <1>3
      <4> QED
        BY <4>1, <4>2 DEF Occupied
    <3>2. PICK r \in live : b \in Pool!BlocksOf(r)
      BY <1>1, <3>1, BlockFacts
    <3>3. /\ r.first \in Nat /\ r.blocks \in Nat \ {0} /\ mdt[b].reg_id = r.id
          /\ Pool!BlocksOf(r) = r.first .. (r.first + r.blocks) - 1
      BY <3>2, BlockFacts
    <3>4. r.id = id /\ r.first <= b
      BY <3>1, <3>2, <3>3
    <3>5. b <= r.first
      <4>1. r.first \in Mine
        BY <2>10, <3>4
      <4> HIDE DEF Mine
      <4> QED
        BY <2>12, <4>1
    <3>6. r.first = b
      BY <3>1, <3>3, <3>4, <3>5
    <3> HIDE DEF b
    <3>7. Pool!search_reg_id(id) = b
      BY <2>9 DEF b
    <3> QED
      BY <1>1, <3>1, <3>4, <3>6, <3>7
  <2> QED
    BY <2>8, <2>11, <2>12
<1> QED
  BY <1>2, <1>3

\* Of what block an address is.
LEMMA AddressFacts ==
  ASSUME BootAssumption, handle \in Handles, RegionsInv, NEW b \in Pool!Blocks
  PROVE  /\ Pool!AddressOf(b) \in Nat /\ Pool!AddressOf(b) >= handle.region_start
         /\ (Pool!AddressOf(b) - handle.region_start) \div handle.block_size = b
         /\ (Pool!AddressOf(b) - handle.region_start) % handle.block_size = 0
<1>1. /\ b \in Nat /\ handle.region_start \in Nat /\ handle.block_size = BlockBytes
      /\ BlockBytes \in Nat \ {0}
  <2>1. Pool!Blocks = 0 .. handle.block_n - 1 /\ handle.block_n \in Nat
    BY BlockFacts
  <2> QED
    BY <2>1, BlockFacts
<1> DEFINE m == b * BlockBytes
           a == handle.region_start
<1>2. m \in Nat /\ Pool!AddressOf(b) = a + m
  BY <1>1, SMT DEF Pool!AddressOf
<1>3. m \div BlockBytes = b /\ m % BlockBytes = 0
  BY <1>1, b \in Int, MultipleDiv, MultipleIsMod
<1>4. a \in Nat
  BY <1>1
<1> HIDE DEF m, a
<1>5. (a + m) - a = m /\ a + m \in Nat /\ a + m >= a
  BY <1>2, <1>4
<1> QED
  BY <1>1, <1>2, <1>3, <1>5 DEF a

\* A region starts at its block: nothing of it is before.
LEMMA FirstOfRegion ==
  ASSUME BootAssumption, handle \in Handles, RegionsInv, NEW b \in Pool!Blocks, Occupied(b)
  PROVE  ~Pool!idx_is_not_first_id(b) <=> \E r \in live : r.first = b
<1>1. /\ Pool!Blocks = 0 .. handle.block_n - 1 /\ handle.block_n \in Nat
  BY BlockFacts
<1>2. PICK r \in live : b \in Pool!BlocksOf(r)
  BY BlockFacts
<1>3. /\ r.first \in Nat /\ r.blocks \in Nat \ {0} /\ mdt[b].reg_id = r.id
      /\ Pool!BlocksOf(r) = r.first .. (r.first + r.blocks) - 1
      /\ \A x \in Pool!BlocksOf(r) : mdt[x].reg_id = r.id
  BY <1>2, BlockFacts
<1>4. r.first <= b /\ b \in Nat
  BY <1>1, <1>2, <1>3
<1>5. ASSUME ~Pool!idx_is_not_first_id(b)
      PROVE  r.first = b
  <2>1. SUFFICES ASSUME r.first # b
                 PROVE  FALSE
    OBVIOUS
  <2>2. b - 1 \in Pool!BlocksOf(r) /\ b # 0
    BY <1>2, <1>3, <1>4, <2>1
  <2> QED
    BY <1>3, <1>5, <2>2 DEF Pool!idx_is_not_first_id
<1>6. ASSUME NEW s \in live, s.first = b
      PROVE  ~Pool!idx_is_not_first_id(b)
  <2>1. SUFFICES ASSUME b # 0, mdt[b - 1].reg_id = mdt[b].reg_id
                 PROVE  FALSE
    BY DEF Pool!idx_is_not_first_id
  <2>2. /\ s.first \in Nat /\ s.blocks \in Nat \ {0} /\ s.id \in 0 .. handle.reg_id_n - 1
        /\ Pool!BlocksOf(s) = s.first .. (s.first + s.blocks) - 1
        /\ \A x \in Pool!BlocksOf(s) : mdt[x].reg_id = s.id
    BY BlockFacts
  <2>3. b \in Pool!BlocksOf(s) /\ b - 1 \notin Pool!BlocksOf(s) /\ b - 1 \in Pool!Blocks
    BY <1>1, <1>4, <1>6, <2>1, <2>2
  <2>4. mdt[b - 1].reg_id = s.id
    BY <2>1, <2>2, <2>3
  <2>5. Occupied(b - 1)
    <3>1. /\ handle.reg_id_n \in 0 .. EMPTY_BLOCK - 1 /\ EMPTY_BLOCK \in Nat
      BY BlockFacts
    <3> QED
      BY <2>2, <2>4, <3>1 DEF Occupied
  <2>6. PICK u \in live : b - 1 \in Pool!BlocksOf(u)
    BY <2>3, <2>5, BlockFacts
  <2>7. u.id = s.id
    BY <2>4, <2>6, BlockFacts
  <2>8. u = s
    BY <2>7 DEF RegionsInv
  <2> QED
    BY <2>3, <2>6, <2>8
<1> QED
  BY <1>5, <1>6

\* search_reg_addr_idx finds the block of an address, unless it is inside a
\* block or a region.
LEMMA AddressSearch ==
  ASSUME BootAssumption, handle \in Handles, RegionsInv, NEW addr \in Nat
  PROVE  LET b == Pool!search_reg_addr_idx(addr)
         IN  \/ b = -1 /\ \A r \in live : Pool!AddressOf(r.first) # addr
             \/ /\ b \in Pool!Blocks /\ Pool!AddressOf(b) = addr
                /\ \A r \in live : Pool!AddressOf(r.first) = addr => r.first = b
                /\ Occupied(b) => \E r \in live : r.first = b
<1> DEFINE offset == addr - handle.region_start
           b == offset \div handle.block_size
           missed == \/ addr < handle.region_start
                     \/ b \notin Pool!Blocks
                     \/ Pool!idx_is_not_first_id(b)
                     \/ offset % handle.block_size # 0
<1>1. Pool!search_reg_addr_idx(addr) = IF missed THEN -1 ELSE b
  BY DEF Pool!search_reg_addr_idx, Pool!NOT_FOUND
<1>2. /\ Pool!Blocks = 0 .. handle.block_n - 1 /\ handle.block_n \in Nat
      /\ handle.region_start \in Nat /\ handle.block_size = BlockBytes /\ BlockBytes \in Nat \ {0}
  BY BlockFacts
<1>3. ASSUME NEW r \in live, Pool!AddressOf(r.first) = addr
      PROVE  ~missed /\ r.first = b
  <2>1. r.first \in Pool!Blocks /\ Occupied(r.first)
    <3>1. /\ r.first \in Nat /\ r.blocks \in Nat \ {0}
          /\ Pool!BlocksOf(r) = r.first .. (r.first + r.blocks) - 1
          /\ Pool!BlocksOf(r) \subseteq Pool!Blocks
          /\ \A x \in Pool!BlocksOf(r) : Occupied(x)
      BY BlockFacts
    <3>2. r.first \in Pool!BlocksOf(r)
      BY <3>1
    <3> QED
      BY <3>1, <3>2
  <2>2. /\ addr >= handle.region_start /\ offset \div handle.block_size = r.first
        /\ offset % handle.block_size = 0
    BY <1>3, <2>1, AddressFacts
  <2>3. ~Pool!idx_is_not_first_id(r.first)
    BY <2>1, FirstOfRegion
  <2>4. ~(addr < handle.region_start)
    BY <1>2, <2>2
  <2> QED
    BY <2>1, <2>2, <2>3, <2>4
<1>4. CASE missed
  BY <1>1, <1>3, <1>4
<1>5. CASE ~missed
  <2>1. /\ addr >= handle.region_start /\ b \in Pool!Blocks /\ ~Pool!idx_is_not_first_id(b)
        /\ offset % handle.block_size = 0
    BY <1>2, <1>5
  <2>2. Pool!AddressOf(b) = addr
    <3>1. offset \in Nat /\ handle.region_start + offset = addr
      BY <1>2, <2>1
    <3>2. offset = (offset \div BlockBytes) * BlockBytes + (offset % BlockBytes)
      <4> HIDE DEF offset
      <4> QED
        BY <1>2, <3>1, DivMod
    <3> DEFINE m == (offset \div BlockBytes) * BlockBytes
    <3>3. m + (offset % BlockBytes) = offset /\ offset % BlockBytes = 0
      BY <1>2, <2>1, <3>2
    <3>4. m \in Int
      <4>1. b \in Int /\ b = offset \div BlockBytes
        BY <1>2, <2>1
      <4> QED
        BY <1>2, <4>1
    <3>5. Pool!AddressOf(b) = handle.region_start + m
      BY <1>2 DEF Pool!AddressOf
    <3> HIDE DEF m, offset
    <3>6. m = offset
      BY <3>3, <3>4
    <3> QED
      BY <3>1, <3>5, <3>6
  <2>3. Occupied(b) => \E r \in live : r.first = b
    BY <2>1, FirstOfRegion
  <2>4. Pool!search_reg_addr_idx(addr) = b
    BY <1>1, <1>5
  <2>5. \A r \in live : Pool!AddressOf(r.first) = addr => r.first = b
    BY <1>3
  <2> HIDE DEF b
  <2> QED
    BY <2>1, <2>2, <2>3, <2>4, <2>5
<1> QED
  BY <1>4, <1>5

-----------------------------------------------------------------------------
(* The operations of the pool. *)

\* The early blocks stay what they are once the kernel runs.
LEMMA SameBlocks ==
  ASSUME UNCHANGED early
  PROVE  EarlyBlocks' = EarlyBlocks /\ stage' = stage
BY DEF early, EarlyBlocks

LEMMA SamePool ==
  ASSUME PoolInv, UNCHANGED pool, EarlyBlocks' = EarlyBlocks,
         handle # NULL => stage' \in {"kernel", "halted", "overrun"}
  PROVE  PoolInv'
<1>1. handle' = handle /\ mdt' = mdt /\ live' = live /\ panicked' = panicked /\ misused' = misused
  BY DEF pool
<1>2. \A c : Slots(c)' = Slots(c)
  BY DEF Slots
<1>3. handle # NULL /\ HandleInv => HandleInv'
  BY <1>1, <1>2 DEF HandleInv, Slots
<1>4. RegionsInv => RegionsInv'
  BY <1>1 DEF RegionsInv, RegionInv, Pool!Blocks, Pool!BlocksOf, Pool!Free
<1> QED
  BY <1>1, <1>3, <1>4 DEF PoolInv

\* A pool is made empty, its buffer an early block.
LEMMA MakePool ==
  ASSUME BootAssumption, EarlyAssumption, NullIsNoHandle, PoolInv, claims \subseteq Nodes,
         CreatePool
  PROVE  PoolInv'
<1>1. PICK c \in EarlyBlocks :
        Pool!xalloc_init(c.addr * PageBytes, BlockBytes, Slots(c))
  BY DEF CreatePool
<1>2. stage = "kernel" /\ UNCHANGED early
  BY DEF CreatePool
<1>3. c.addr \in Nat /\ c.pages \in Nat \ {0}
  <2>1. c \in claims
    BY DEF EarlyBlocks
  <2> QED
    BY <2>1 DEF Nodes
<1> DEFINE a == c.addr * PageBytes
           n == Slots(c)
<1>4. a \in Nat /\ n \in Nat /\ BlockBytes \in Nat \ {0} /\ EMPTY_BLOCK \in Nat \ {0}
  <2>1. PageBytes \in Nat /\ BlockBytes \in Nat \ {0} /\ EMPTY_BLOCK \in Nat \ {0}
    BY DEF EarlyAssumption, BootAssumption
  <2>2. c.pages * PageBytes \in Nat /\ c.addr * PageBytes \in Nat
    BY <1>3, <2>1, SMTT(30)
  <2> QED
    BY <2>1, <2>2, DivMod DEF Slots
<1>5. /\ handle = NULL
      /\ handle' = [region_start |-> a, block_size |-> BlockBytes, block_n |-> n, reg_id_n |-> 0]
      /\ mdt' = [b \in 0 .. n - 1 |-> Pool!Free]
      /\ live' = live /\ panicked' = panicked /\ misused' = misused
  BY <1>1 DEF Pool!xalloc_init
<1>6. live = {} /\ panicked = "no" /\ misused = FALSE
  BY <1>5 DEF PoolInv
<1> HIDE DEF a, n
<1>7. HandleInv'
  <2>1. handle' \in Handles
    BY <1>4, <1>5 DEF Handles
  <2>2. handle'.region_start = a /\ handle'.block_n = n
    BY <1>5
  <2>3. c \in EarlyBlocks' /\ stage' = "kernel"
    BY <1>2, SameBlocks
  <2> QED
    BY <1>3, <2>1, <2>2, <2>3 DEF HandleInv, a, n, Slots
<1>8. RegionsInv'
  <2>1. Pool!Blocks' = 0 .. n - 1
    BY <1>5 DEF Pool!Blocks
  <2>2. Pool!Free \in Metas
    BY <1>4 DEF Pool!Free, Metas
  <2>3. mdt' \in [Pool!Blocks' -> Metas] /\ \A b \in Pool!Blocks' : mdt'[b] = Pool!Free
    BY <1>5, <2>1, <2>2
  <2>4. live' = {}
    BY <1>5, <1>6
  <2> QED
    BY <2>3, <2>4 DEF RegionsInv, Pool!Free
<1> QED
  BY <1>5, <1>6, <1>7, <1>8 DEF PoolInv

\* A region is given from the hole that was found, under the next id.
LEMMA AllocKeeps ==
  ASSUME BootAssumption, NullIsNoHandle, PoolInv, handle # NULL, UNCHANGED early, NEW n \in Nat,
         Pool!xalloc_alloc(n)
  PROVE  PoolInv'
<1> DEFINE N == handle.block_n
           first == Pool!search_free_region(n)
<1>0. PICK new : new = [id |-> handle.reg_id_n, first |-> first, blocks |-> n]
  OBVIOUS
<1>1. HandleInv /\ RegionsInv /\ handle \in Handles
  BY DEF PoolInv, HandleInv
<1>2. /\ n \in Nat \ {0} /\ handle.reg_id_n # EMPTY_BLOCK - 1 /\ first # -1
      /\ handle' = [handle EXCEPT !.reg_id_n = @ + 1]
      /\ mdt' = [b \in Pool!Blocks |->
                   IF b \in first .. first + n - 1
                   THEN [reg_id |-> handle.reg_id_n, span |-> n - (b - first)]
                   ELSE mdt[b]]
      /\ live' = live \union {new}
      /\ panicked' = panicked /\ misused' = misused
  BY <1>0 DEF Pool!xalloc_alloc, Pool!NOT_FOUND
<1>3. first \in Holes(n)
  BY <1>1, <1>2, FreeSearch
<1> HIDE DEF first
<1>4. /\ N \in Nat /\ Pool!Blocks = 0 .. N - 1 /\ handle.reg_id_n \in 0 .. EMPTY_BLOCK - 1
      /\ EMPTY_BLOCK \in Nat \ {0}
  BY <1>1, BlockFacts
<1>5. /\ first \in Nat /\ first + n <= N /\ \A x \in first .. (first + n) - 1 : ~Occupied(x)
      /\ first + n - 1 = (first + n) - 1
  BY <1>3, <1>4 DEF Holes
<1>6. /\ handle' \in Handles /\ handle'.block_n = N /\ handle'.reg_id_n = handle.reg_id_n + 1
      /\ handle'.region_start = handle.region_start /\ Pool!Blocks' = Pool!Blocks
  <2>1. handle.reg_id_n + 1 \in 0 .. EMPTY_BLOCK - 1
    BY <1>2, <1>4
  <2>2. handle' \in Handles /\ handle'.block_n = N /\ handle'.reg_id_n = handle.reg_id_n + 1
        /\ handle'.region_start = handle.region_start
    BY <1>1, <1>2, <2>1 DEF Handles
  <2> QED
    BY <2>2 DEF Pool!Blocks
<1>7. HandleInv'
  <2>1. \A c : Slots(c)' = Slots(c)
    BY DEF Slots
  <2> QED
    BY <1>1, <1>6, <2>1, SameBlocks DEF HandleInv, Slots
<1> DEFINE given == first .. (first + n) - 1
<1>8. \A b \in Pool!Blocks :
        mdt'[b] = IF b \in given THEN [reg_id |-> handle.reg_id_n, span |-> n - (b - first)]
                  ELSE mdt[b]
  BY <1>2, <1>5
<1>9. Pool!BlocksOf(new) = given /\ given \subseteq Pool!Blocks
  BY <1>0, <1>2, <1>4, <1>5 DEF Pool!BlocksOf
<1>10. \A r : Pool!BlocksOf(r)' = Pool!BlocksOf(r)
  BY DEF Pool!BlocksOf
<1>11. ASSUME NEW r \in live
       PROVE  /\ Pool!BlocksOf(r) \intersect given = {} /\ r.id # handle.reg_id_n
              /\ RegionInv(r)'
  <2>1. /\ r.id \in 0 .. handle.reg_id_n - 1 /\ r.first \in Nat /\ r.blocks \in Nat \ {0}
        /\ r.first + r.blocks <= N /\ Pool!BlocksOf(r) \subseteq Pool!Blocks
        /\ \A b \in Pool!BlocksOf(r) : Occupied(b)
    BY <1>1, BlockFacts
  <2>2. Pool!BlocksOf(r) \intersect given = {}
    BY <1>5, <2>1
  <2>3. r.id # handle.reg_id_n /\ r.id \in 0 .. (handle.reg_id_n + 1) - 1
    BY <1>4, <2>1
  <2>4. RegionInv(r)
    BY <1>1 DEF RegionsInv
  <2>5. \A b \in Pool!BlocksOf(r) : mdt'[b] = [reg_id |-> r.id, span |-> (r.first + r.blocks) - b]
    <3> SUFFICES ASSUME NEW b \in Pool!BlocksOf(r)
                 PROVE  mdt'[b] = [reg_id |-> r.id, span |-> (r.first + r.blocks) - b]
      OBVIOUS
    <3>1. mdt'[b] = mdt[b]
      <4> HIDE DEF given
      <4> QED
        BY <1>8, <2>1, <2>2
    <3> QED
      BY <2>4, <3>1 DEF RegionInv
  <2>6. r \in [id : 0 .. (handle.reg_id_n + 1) - 1, first : Nat, blocks : Nat \ {0}]
    <3>1. r = [id |-> r.id, first |-> r.first, blocks |-> r.blocks]
      BY <2>4 DEF RegionInv
    <3> QED
      BY <2>1, <2>3, <3>1
  <2>7. RegionInv(r)'
    BY <1>6, <1>10, <2>1, <2>5, <2>6 DEF RegionInv
  <2> QED
    BY <2>2, <2>3, <2>7
<1>12. RegionInv(new)'
  <2>1. new.id = handle.reg_id_n /\ new.first = first /\ new.blocks = n
    BY <1>0
  <2>2. handle.reg_id_n \in 0 .. (handle.reg_id_n + 1) - 1
    BY <1>4
  <2>3. new \in [id : 0 .. (handle.reg_id_n + 1) - 1, first : Nat, blocks : Nat \ {0}]
    BY <1>0, <1>2, <1>5, <2>2
  <2>4. ASSUME NEW b \in given
        PROVE  mdt'[b] = [reg_id |-> new.id, span |-> (new.first + new.blocks) - b]
    <3>1. n - (b - first) = (first + n) - b
      BY <1>2, <1>5
    <3>2. mdt'[b] = [reg_id |-> handle.reg_id_n, span |-> n - (b - first)]
      <4>1. b \in Pool!Blocks
        BY <1>9
      <4> HIDE DEF given
      <4> QED
        BY <1>8, <2>4, <4>1
    <3> QED
      BY <2>1, <3>1, <3>2
  <2>5. \A b \in Pool!BlocksOf(new)' :
          mdt'[b] = [reg_id |-> new.id, span |-> (new.first + new.blocks) - b]
    <3>1. Pool!BlocksOf(new)' = given
      BY <1>9, <1>10
    <3> HIDE DEF given
    <3> QED
      BY <2>4, <3>1
  <2> QED
    BY <1>2, <1>5, <1>6, <2>1, <2>3, <2>5 DEF RegionInv
<1>13. RegionsInv'
  <2>1. \A r \in live' : RegionInv(r)'
    BY <1>2, <1>11, <1>12
  <2>2. \A r, s \in live' :
          r # s => r.id # s.id /\ Pool!BlocksOf(r) \intersect Pool!BlocksOf(s) = {}
    <3>1. \A r, s \in live :
            r # s => r.id # s.id /\ Pool!BlocksOf(r) \intersect Pool!BlocksOf(s) = {}
      BY <1>1 DEF RegionsInv
    <3>2. new.id = handle.reg_id_n
      BY <1>0
    <3> HIDE DEF given
    <3> QED
      BY <1>2, <1>9, <1>11, <3>1, <3>2
  <2>3. mdt' \in [Pool!Blocks -> Metas]
    <3>1. \A b \in Pool!Blocks : mdt[b] \in Metas
      BY <1>1 DEF RegionsInv
    <3>2. \A b \in given : [reg_id |-> handle.reg_id_n, span |-> n - (b - first)] \in Metas
      BY SMTT(30), <1>2, <1>4, <1>5 DEF Metas
    <3>3. \A b \in Pool!Blocks : mdt'[b] \in Metas
      <4> HIDE DEF given
      <4> QED
        BY <1>8, <3>1, <3>2
    <3>4. mdt' = [b \in Pool!Blocks |-> mdt'[b]]
      BY <1>2
    <3> QED
      BY <3>3, <3>4
  <2>4. ASSUME NEW b \in Pool!Blocks
        PROVE  mdt'[b] = Pool!Free \/ \E r \in live' : b \in Pool!BlocksOf(r)
    <3>1. CASE b \in given
      <4> HIDE DEF given
      <4> QED
        BY <1>2, <1>9, <3>1
    <3>2. CASE b \notin given
      <4>1. mdt'[b] = mdt[b]
        <5> HIDE DEF given
        <5> QED
          BY <1>8, <3>2
      <4>2. mdt[b] = Pool!Free \/ \E r \in live : b \in Pool!BlocksOf(r)
        BY <1>1 DEF RegionsInv
      <4> QED
        BY <1>2, <4>1, <4>2
    <3> QED
      BY <3>1, <3>2
  <2>5. Pool!Free' = Pool!Free
    BY DEF Pool!Free
  <2> QED
    BY <1>6, <1>10, <2>1, <2>2, <2>3, <2>4, <2>5 DEF RegionsInv
<1>14. handle' # NULL
  <2>1. handle' = [region_start |-> handle'.region_start, block_size |-> handle'.block_size,
                   block_n |-> handle'.block_n, reg_id_n |-> handle'.reg_id_n]
    BY <1>6 DEF Handles
  <2> DEFINE h == handle'
  <2> HIDE DEF h
  <2> QED
    BY <2>1, Zenon DEF NullIsNoHandle, h
<1> QED
  BY <1>2, <1>7, <1>13, <1>14 DEF PoolInv

\* A free of what a search found: the core stops exactly when no region that is
\* out was named, and else that region goes.
LEMMA FreeKeeps ==
  ASSUME BootAssumption, PoolInv, handle # NULL, panicked = "no", UNCHANGED early,
         NEW b, b = -1 \/ b \in Pool!Blocks, NEW missing \in BOOLEAN,
         b = -1 \/ ~Occupied(b) => missing,
         b \in Pool!Blocks /\ Occupied(b) => ~missing /\ \E r \in live : r.first = b,
         Pool!FreeByIdx(b), misused' = missing
  PROVE  PoolInv'
<1>1. HandleInv /\ RegionsInv /\ handle \in Handles
  BY DEF PoolInv, HandleInv
<1>2. /\ Pool!Blocks = 0 .. handle.block_n - 1 /\ handle.block_n \in Nat
      /\ EMPTY_BLOCK \in Nat \ {0}
  BY <1>1, BlockFacts
<1>3. EarlyBlocks' = EarlyBlocks /\ stage' = stage
  BY SameBlocks
<1>4. ASSUME NEW why, why # "no", missing, Pool!FreePanics(why)
      PROVE  PoolInv'
  <2>1. panicked' = why /\ handle' = handle /\ mdt' = mdt /\ live' = live
    BY <1>4 DEF Pool!FreePanics
  <2>2. HandleInv'
    BY <1>1, <1>3, <2>1 DEF HandleInv, Slots
  <2>3. RegionsInv'
    BY <1>1, <2>1 DEF RegionsInv, RegionInv, Pool!Blocks, Pool!BlocksOf, Pool!Free
  <2> QED
    BY <1>4, <2>1, <2>2, <2>3 DEF PoolInv
<1>5. CASE b = -1
  <2>1. Pool!FreePanics("inexistent region")
    BY <1>5 DEF Pool!FreeByIdx, Pool!NOT_FOUND
  <2> QED
    BY <1>4, <1>5, <2>1
<1>6. CASE b # -1 /\ ~Occupied(b)
  <2>1. Pool!FreePanics("double free")
    BY <1>6 DEF Pool!FreeByIdx, Pool!NOT_FOUND, Occupied
  <2> QED
    BY <1>4, <1>6, <2>1
<1>7. CASE b # -1 /\ Occupied(b)
  <2>1. /\ mdt' = [j \in Pool!Blocks |->
                     IF j \in b .. b + mdt[b].span - 1 THEN Pool!Free ELSE mdt[j]]
        /\ live' = { s \in live : s.first # b }
        /\ handle' = handle /\ panicked' = panicked
    BY <1>7 DEF Pool!FreeByIdx, Pool!NOT_FOUND, Occupied
  <2>2. PICK r \in live : r.first = b
    BY <1>7
  <2>3. /\ r.first \in Nat /\ r.blocks \in Nat \ {0}
        /\ r.first + r.blocks <= handle.block_n
        /\ Pool!BlocksOf(r) = r.first .. (r.first + r.blocks) - 1
        /\ Pool!BlocksOf(r) \subseteq Pool!Blocks
        /\ \A x \in Pool!BlocksOf(r) : mdt[x].span = (r.first + r.blocks) - x
    BY <1>1, BlockFacts
  <2>4. b \in Pool!BlocksOf(r) /\ mdt[b].span = r.blocks
    BY <2>2, <2>3
  <2>5. b .. b + mdt[b].span - 1 = Pool!BlocksOf(r)
    BY <2>2, <2>3, <2>4
  <2>6. \A j \in Pool!Blocks : mdt'[j] = IF j \in Pool!BlocksOf(r) THEN Pool!Free ELSE mdt[j]
    <3> HIDE DEF Occupied
    <3> QED
      BY <2>1, <2>5
  <2>7. live' = live \ {r}
    <3>1. ASSUME NEW s \in live, s # r
          PROVE  s.first # b
      <4>1. Pool!BlocksOf(r) \intersect Pool!BlocksOf(s) = {}
        BY <1>1, <3>1 DEF RegionsInv
      <4>2. /\ s.first \in Nat /\ s.blocks \in Nat \ {0}
            /\ Pool!BlocksOf(s) = s.first .. (s.first + s.blocks) - 1
        BY <1>1, BlockFacts
      <4>3. s.first \in Pool!BlocksOf(s)
        BY <4>2
      <4> QED
        BY <2>4, <4>1, <4>3
    <3> QED
      BY <2>1, <2>2, <3>1
  <2>8. /\ Pool!Blocks' = Pool!Blocks /\ Pool!Free' = Pool!Free
        /\ \A s : Pool!BlocksOf(s)' = Pool!BlocksOf(s)
    BY <2>1 DEF Pool!Blocks, Pool!BlocksOf, Pool!Free
  <2>9. ASSUME NEW s \in live, s # r
        PROVE  RegionInv(s)'
    <3>1. RegionInv(s)
      BY <1>1 DEF RegionsInv
    <3>2. Pool!BlocksOf(s) \subseteq Pool!Blocks
      BY <1>1, BlockFacts
    <3>3. Pool!BlocksOf(s) \intersect Pool!BlocksOf(r) = {}
      BY <1>1, <2>9 DEF RegionsInv
    <3>4. \A x \in Pool!BlocksOf(s) : mdt'[x] = mdt[x]
      BY <2>6, <3>2, <3>3
    <3> QED
      BY <2>1, <2>8, <3>1, <3>4 DEF RegionInv
  <2>10. RegionsInv'
    <3>1. \A s \in live' : RegionInv(s)'
      BY <2>7, <2>9
    <3>2. \A s, u \in live' :
            s # u => s.id # u.id /\ Pool!BlocksOf(s) \intersect Pool!BlocksOf(u) = {}
      BY <1>1, <2>7 DEF RegionsInv
    <3>3. mdt' \in [Pool!Blocks -> Metas]
      <4>1. \A j \in Pool!Blocks : mdt[j] \in Metas
        BY <1>1 DEF RegionsInv
      <4>2. Pool!Free \in Metas
        BY <1>2 DEF Pool!Free, Metas
      <4>3. mdt' = [j \in Pool!Blocks |-> mdt'[j]]
        BY <2>1
      <4> QED
        BY <2>6, <4>1, <4>2, <4>3
    <3>4. \A j \in Pool!Blocks : mdt'[j] = Pool!Free \/ \E s \in live' : j \in Pool!BlocksOf(s)
      <4> SUFFICES ASSUME NEW j \in Pool!Blocks
                   PROVE  mdt'[j] = Pool!Free \/ \E s \in live' : j \in Pool!BlocksOf(s)
        OBVIOUS
      <4>1. CASE j \in Pool!BlocksOf(r)
        BY <2>6, <4>1
      <4>2. CASE j \notin Pool!BlocksOf(r)
        <5>1. mdt'[j] = mdt[j]
          BY <2>6, <4>2
        <5>2. mdt[j] = Pool!Free \/ \E s \in live : j \in Pool!BlocksOf(s)
          BY <1>1 DEF RegionsInv
        <5> QED
          BY <2>7, <4>2, <5>1, <5>2
      <4> QED
        BY <4>1, <4>2
    <3> QED
      BY <2>8, <3>1, <3>2, <3>3, <3>4 DEF RegionsInv
  <2>11. HandleInv'
    BY <1>1, <1>3, <2>1 DEF HandleInv, Slots
  <2>12. ~missing
    <3>1. b \in Pool!Blocks
      BY <1>7
    <3> QED
      BY <1>7, <3>1
  <2> QED
    BY <2>1, <2>10, <2>11, <2>12 DEF PoolInv
<1> QED
  BY <1>5, <1>6, <1>7

LEMMA FreeAddressKeeps ==
  ASSUME BootAssumption, PoolInv, UNCHANGED early, NEW addr \in Nat, Pool!xalloc_free(addr)
  PROVE  PoolInv'
<1>1. /\ handle # NULL /\ panicked = "no"
      /\ Pool!FreeByIdx(Pool!search_reg_addr_idx(addr))
      /\ misused' = (\A r \in live : Pool!AddressOf(r.first) # addr)
  BY DEF Pool!xalloc_free, Pool!Ready
<1>2. HandleInv /\ RegionsInv /\ handle \in Handles
  BY <1>1 DEF PoolInv, HandleInv
<1> DEFINE b == Pool!search_reg_addr_idx(addr)
           missing == \A r \in live : Pool!AddressOf(r.first) # addr
<1>3. \/ b = -1 /\ missing
      \/ /\ b \in Pool!Blocks /\ Pool!AddressOf(b) = addr
         /\ \A r \in live : Pool!AddressOf(r.first) = addr => r.first = b
         /\ Occupied(b) => \E r \in live : r.first = b
  BY <1>2, AddressSearch
<1> HIDE DEF b
<1>4. b = -1 \/ b \in Pool!Blocks
  BY <1>3
<1>5. b = -1 \/ ~Occupied(b) => missing
  <2>1. CASE b = -1
    <3>1. Pool!Blocks \subseteq Nat
      <4>1. /\ Pool!Blocks = 0 .. handle.block_n - 1 /\ handle.block_n \in Nat
        BY <1>2, BlockFacts
      <4> QED
        BY <4>1
    <3> QED
      BY <1>3, <2>1, <3>1
  <2>2. CASE b # -1 /\ ~Occupied(b)
    <3>1. ASSUME NEW r \in live
          PROVE  r.first # b
      <4>1. /\ r.first \in Nat /\ r.blocks \in Nat \ {0}
            /\ Pool!BlocksOf(r) = r.first .. (r.first + r.blocks) - 1
            /\ \A x \in Pool!BlocksOf(r) : Occupied(x)
        BY <1>2, BlockFacts
      <4>2. Occupied(r.first)
        BY <4>1
      <4> QED
        BY <2>2, <4>2
    <3> QED
      BY <1>3, <2>2, <3>1
  <2> QED
    BY <2>1, <2>2
<1>6. b \in Pool!Blocks /\ Occupied(b) => ~missing /\ \E r \in live : r.first = b
  <2> SUFFICES ASSUME b \in Pool!Blocks, Occupied(b)
               PROVE  ~missing /\ \E r \in live : r.first = b
    OBVIOUS
  <2>1. b # -1
    <3>1. /\ Pool!Blocks = 0 .. handle.block_n - 1 /\ handle.block_n \in Nat
      BY <1>2, BlockFacts
    <3> QED
      BY <3>1
  <2> QED
    BY <1>3, <2>1
<1>7. missing \in BOOLEAN /\ misused' = missing
  BY <1>1
<1>8. Pool!FreeByIdx(b)
  BY <1>1 DEF b
<1> DEFINE m == misused'
<1> HIDE DEF missing
<1> QED
  BY <1>1, <1>4, <1>5, <1>6, <1>7, <1>8, FreeKeeps

LEMMA FreeIdKeeps ==
  ASSUME BootAssumption, PoolInv, UNCHANGED early, NEW id \in Nat, Pool!xalloc_free_id(id)
  PROVE  PoolInv'
<1>1. /\ handle # NULL /\ panicked = "no"
      /\ Pool!FreeByIdx(Pool!search_reg_id(id))
      /\ misused' = (\A r \in live : r.id # id)
  BY DEF Pool!xalloc_free_id, Pool!Ready
<1>2. HandleInv /\ RegionsInv /\ handle \in Handles
  BY <1>1 DEF PoolInv, HandleInv
<1> DEFINE b == Pool!search_reg_id(id)
           missing == \A r \in live : r.id # id
<1>3. \/ b = -1 /\ missing
      \/ b \in Pool!Blocks /\ Occupied(b) /\ \E r \in live : r.id = id /\ r.first = b
  BY <1>2, IdSearch
<1> HIDE DEF b
<1>4. b = -1 => b \notin Pool!Blocks
  <2>1. /\ Pool!Blocks = 0 .. handle.block_n - 1 /\ handle.block_n \in Nat
    BY <1>2, BlockFacts
  <2> QED
    BY <2>1
<1>5. /\ b = -1 \/ b \in Pool!Blocks
      /\ b = -1 \/ ~Occupied(b) => missing
      /\ b \in Pool!Blocks /\ Occupied(b) => ~missing /\ \E r \in live : r.first = b
  BY <1>3, <1>4
<1>6. missing \in BOOLEAN /\ misused' = missing
  BY <1>1
<1>7. Pool!FreeByIdx(b)
  BY <1>1 DEF b
<1> HIDE DEF missing
<1> QED
  BY <1>1, <1>5, <1>6, <1>7, FreeKeeps

-----------------------------------------------------------------------------
(* Every step keeps the pool what it is. *)

LEMMA InitPool == BootInit => PoolInv
BY DEF BootInit, Pool!Init, PoolInv

LEMMA PoolStep ==
  ASSUME BootAssumption, EarlyAssumption, NullIsNoHandle, EarlyInv, PoolInv, [Next]_vars
  PROVE  PoolInv'
<1>1. claims \subseteq Nodes
  BY DEF EarlyInv, ListInv
<1>2. CASE Boot
  <2>1. UNCHANGED pool /\ EarlyNext
    BY <1>2 DEF Boot
  <2>2. CASE handle = NULL
    <3>1. /\ handle' = NULL /\ live' = {} /\ panicked' = "no" /\ misused' = FALSE
      BY <2>1, <2>2 DEF PoolInv, pool
    <3> QED
      BY <3>1 DEF PoolInv
  <2>3. CASE handle # NULL
    <3>1. stage \in {"kernel", "halted", "overrun"}
      BY <2>3 DEF PoolInv, HandleInv
    <3>2. LateKalloc \/ Overrun
      BY <2>1, <3>1 DEF EarlyNext, MmInfoInit, AddRegion, ReserveRegion, ReserveSection, ImAlloc,
         MapRegion, MmuActivate, AllocatorInit, GetMemregs, MmuReloc, UnmapLow, UnmapHigh
    <3>3. EarlyBlocks' = EarlyBlocks /\ stage' \in {"halted", "overrun"}
      BY <3>2 DEF LateKalloc, Halt, Overrun, EarlyBlocks
    <3> QED
      BY <2>1, <3>3, SamePool
  <2> QED
    BY <2>2, <2>3
<1>3. CASE CreatePool
  BY <1>1, <1>3, MakePool
<1>4. CASE UsePool
  <2>1. UNCHANGED early /\ handle # NULL /\ Pool!PoolNext
    BY <1>4 DEF UsePool, Pool!Ready
  <2>2. HandleInv /\ RegionsInv /\ handle \in Handles
    BY <2>1 DEF PoolInv, HandleInv
  <2>3. ASSUME NEW n \in 1 .. handle.block_n + 1, Pool!xalloc_alloc(n)
        PROVE  PoolInv'
    <3>1. n \in Nat
      BY <2>2 DEF Handles
    <3> QED
      BY <2>1, <2>3, <3>1, AllocKeeps
  <2>4. ASSUME NEW addr \in 1 .. Pool!AddressOf(handle.block_n), Pool!xalloc_free(addr)
        PROVE  PoolInv'
    <3>1. addr \in Nat
      OBVIOUS
    <3> QED
      BY <2>1, <2>4, <3>1, FreeAddressKeeps
  <2>5. ASSUME NEW id \in 0 .. EMPTY_BLOCK, Pool!xalloc_free_id(id)
        PROVE  PoolInv'
    <3>1. id \in Nat
      BY DEF BootAssumption
    <3> QED
      BY <2>1, <2>5, <3>1, FreeIdKeeps
  <2> QED
    BY <2>1, <2>3, <2>4, <2>5 DEF Pool!PoolNext
<1>5. CASE CreateRing \/ UseRing \/ UNCHANGED vars
  <2>1. UNCHANGED pool /\ UNCHANGED early
    BY <1>5 DEF CreateRing, UseRing, vars
  <2>2. EarlyBlocks' = EarlyBlocks /\ stage' = stage
    BY <2>1, SameBlocks
  <2>3. handle # NULL => stage' \in {"kernel", "halted", "overrun"}
    BY <2>2 DEF PoolInv, HandleInv
  <2> QED
    BY <2>1, <2>2, <2>3, SamePool
<1> QED
  BY <1>2, <1>3, <1>4, <1>5 DEF Next

\* A part of something whole: the part b of size B is within the G wholes of size P.
LEMMA PartInWhole ==
  ASSUME NEW P \in Nat \ {0}, NEW B \in Nat \ {0}, NEW G \in Nat, NEW A \in Nat,
         NEW b \in Nat, b < (G * P) \div B
  PROVE  (A * P + b * B) \div P \in A .. (A + G) - 1
<1> DEFINE all == G * P
           n == all \div B
           m == b * B
           q == m \div P
           s == m % P
<1>1. all \in Nat /\ m \in Nat
  BY SMT
<1>2. all = n * B + (all % B) /\ n \in Nat /\ all % B \in 0 .. B - 1
  <2> HIDE DEF all
  <2> QED
    BY <1>1, DivMod
<1>3. b + 1 <= n
  BY <1>2
<1>4. m = q * P + s /\ q \in Nat /\ s \in 0 .. P - 1
  <2> HIDE DEF m
  <2> QED
    BY <1>1, DivMod
<1> HIDE DEF n, q, s
<1>5. m < all
  <2> DEFINE u == n * B
             w == (n - (b + 1)) * B
             r == all % B
  <2>1. n - (b + 1) \in Nat
    BY <1>2, <1>3
  <2>2. w \in Nat
    BY <2>1, SMT
  <2>3. w = u - (m + B) /\ u \in Nat
    BY <1>2, SMT
  <2>4. all = u + r /\ r \in Nat
    BY <1>2
  <2> HIDE DEF u, w, r, m, all
  <2> QED
    BY <1>1, <2>2, <2>3, <2>4
<1> HIDE DEF m
<1>6. q < G
  <2>1. SUFFICES ASSUME q >= G
                 PROVE  FALSE
    BY <1>4
  <2> DEFINE u == q * P
             w == (q - G) * P
  <2>2. q - G \in Nat
    BY <1>4, <2>1
  <2>3. w \in Nat
    BY <2>2, SMT
  <2>4. w = u - all /\ u \in Nat
    BY <1>4, SMT
  <2>5. m = u + s
    BY <1>4
  <2> HIDE DEF u, w, all
  <2> QED
    BY <1>1, <1>4, <1>5, <2>3, <2>4, <2>5
<1>7. A * P + m = (A + q) * P + s
  <2> DEFINE u == A * P
             w == q * P
             v == (A + q) * P
  <2>1. v = u + w /\ u \in Nat /\ w \in Nat
    BY <1>4, SMT
  <2>2. m = w + s
    BY <1>4
  <2> HIDE DEF u, w, v
  <2>3. u + m = v + s
    BY <1>4, <2>1, <2>2
  <2> QED
    BY <2>3 DEF u, v
<1>8. (A * P + m) \div P = A + q
  <2>1. A + q \in Int
    BY <1>4
  <2> DEFINE z == A + q
  <2> HIDE DEF z
  <2>2. (z * P + s) \div P = z
    BY <1>4, <2>1, DivUnique DEF z
  <2> QED
    BY <1>7, <2>2 DEF z
<1>9. A + q \in A .. (A + G) - 1
  BY <1>4, <1>6
<1> QED
  BY <1>8, <1>9 DEF m

\* A block of the pool is on the pages of its buffer.
LEMMA BlockOnPages ==
  ASSUME BootAssumption, EarlyAssumption, NEW c, c.addr \in Nat, c.pages \in Nat \ {0},
         NEW b \in 0 .. Slots(c) - 1
  PROVE  (c.addr * PageBytes + b * BlockBytes) \div PageBytes \in PagesOf(c)
<1>1. PageBytes \in Nat \ {0} /\ BlockBytes \in Nat \ {0}
  BY DEF EarlyAssumption, BootAssumption
<1>2. Slots(c) \in Nat
  <2>1. c.pages * PageBytes \in Nat
    BY <1>1, SMT
  <2> QED
    BY <1>1, <2>1, DivMod DEF Slots
<1>3. b \in Nat /\ b < Slots(c)
  BY <1>2
<1>4. b < (c.pages * PageBytes) \div BlockBytes /\ c.pages \in Nat
  BY <1>3 DEF Slots
<1>5. (c.addr * PageBytes + b * BlockBytes) \div PageBytes \in c.addr .. (c.addr + c.pages) - 1
  BY <1>1, <1>3, <1>4, PartInWhole, Zenon
<1> QED
  BY <1>5 DEF PagesOf, End

LEMMA PoolInvSound ==
  ASSUME BootAssumption, EarlyAssumption, PoolInv
  PROVE  PoolSound
<1>1. CASE handle = NULL
  <2>1. live = {}
    BY <1>1 DEF PoolInv
  <2> QED
    BY <1>1, <2>1 DEF PoolSound, Pool!PoolSound
<1>2. CASE handle # NULL
  <2>1. HandleInv /\ RegionsInv /\ handle \in Handles
    BY <1>2 DEF PoolInv, HandleInv
  <2>2. /\ Pool!Blocks = 0 .. handle.block_n - 1 /\ handle.block_n \in Nat
        /\ handle.block_size = BlockBytes
    BY <2>1, BlockFacts
  <2>3. Pool!MetadataIsLive
    <3>1. ASSUME NEW r \in live
          PROVE  /\ Pool!BlocksOf(r) \subseteq Pool!Blocks
                 /\ \A b \in Pool!BlocksOf(r) :
                      mdt[b] = [reg_id |-> r.id, span |-> r.first + r.blocks - b]
                 /\ Pool!xalloc_get_region_blocks(Pool!AddressOf(r.first)) = r.blocks
      <4>1. /\ r.first \in Nat /\ r.blocks \in Nat \ {0}
            /\ Pool!BlocksOf(r) = r.first .. (r.first + r.blocks) - 1
            /\ Pool!BlocksOf(r) \subseteq Pool!Blocks
            /\ \A b \in Pool!BlocksOf(r) : mdt[b].span = (r.first + r.blocks) - b
        BY <2>1, BlockFacts
      <4>2. \A b \in Pool!BlocksOf(r) :
              mdt[b] = [reg_id |-> r.id, span |-> (r.first + r.blocks) - b]
        BY <2>1 DEF RegionsInv, RegionInv
      <4>3. \A b \in Pool!BlocksOf(r) : r.first + r.blocks - b = (r.first + r.blocks) - b
        BY <4>1
      <4>4. r.first \in Pool!BlocksOf(r) /\ r.first \in Pool!Blocks
        BY <4>1
      <4> DEFINE a == Pool!AddressOf(r.first)
                 b == Pool!search_reg_addr_idx(a)
      <4>5. a \in Nat
        BY <2>1, <4>4, AddressFacts
      <4>6. b = r.first
        <5> HIDE DEF a
        <5>1. \/ b = -1 /\ \A t \in live : Pool!AddressOf(t.first) # a
              \/ /\ b \in Pool!Blocks /\ Pool!AddressOf(b) = a
                 /\ \A t \in live : Pool!AddressOf(t.first) = a => t.first = b
                 /\ Occupied(b) => \E t \in live : t.first = b
          BY <2>1, <4>5, AddressSearch
        <5> HIDE DEF b
        <5> QED
          BY <5>1 DEF a
      <4>7. Pool!xalloc_get_region_blocks(a) = IF b = -1 THEN 0 ELSE mdt[b].span
        BY Zenon DEF Pool!xalloc_get_region_blocks, Pool!NOT_FOUND
      <4> HIDE DEF a, b
      <4>8. Pool!xalloc_get_region_blocks(a) = r.blocks
        <5>1. mdt[r.first].span = (r.first + r.blocks) - r.first
          BY <4>1, <4>4
        <5> QED
          BY <4>1, <4>6, <4>7, <5>1
      <4>9. \A x \in Pool!BlocksOf(r) :
              mdt[x] = [reg_id |-> r.id, span |-> r.first + r.blocks - x]
        BY <4>2, <4>3
      <4> QED
        BY <4>1, <4>8, <4>9 DEF a
    <3>2. ASSUME NEW r \in live, NEW s \in live, r # s
          PROVE  r.id # s.id /\ Pool!BlocksOf(r) \cap Pool!BlocksOf(s) = {}
      BY <2>1, <3>2 DEF RegionsInv
    <3>3. ASSUME NEW b \in Pool!Blocks \ Pool!Given
          PROVE  mdt[b] = Pool!Free
      BY <2>1, <3>3 DEF RegionsInv, Pool!Given
    <3> QED
      BY <3>1, <3>2, <3>3 DEF Pool!MetadataIsLive
  <2>4. Pool!SearchComplete
    <3>1. \A b \in Pool!Blocks : b \in Pool!Blocks \ Pool!Given <=> ~Occupied(b)
      <4>1. ASSUME NEW b \in Pool!Blocks
            PROVE  b \in Pool!Given <=> Occupied(b)
        <5>1. b \in Pool!Given <=> \E r \in live : b \in Pool!BlocksOf(r)
          BY DEF Pool!Given
        <5>2. \A r \in live : b \in Pool!BlocksOf(r) => Occupied(b)
          BY <2>1, BlockFacts
        <5>3. Occupied(b) => \E r \in live : b \in Pool!BlocksOf(r)
          BY <2>1, BlockFacts
        <5> QED
          BY <5>1, <5>2, <5>3
      <4> QED
        BY <4>1
    <3> SUFFICES ASSUME NEW n \in 1 .. handle.block_n
                 PROVE  LET holes == { b \in Pool!Blocks :
                                         b .. b + n - 1 \subseteq Pool!Blocks \ Pool!Given }
                        IN  Pool!search_free_region(n) =
                              IF holes = {} THEN Pool!NOT_FOUND ELSE Pool!First(holes)
      BY DEF Pool!SearchComplete
    <3> DEFINE holes == { b \in Pool!Blocks : b .. b + n - 1 \subseteq Pool!Blocks \ Pool!Given }
    <3>2. holes = Holes(n)
      <4>1. ASSUME NEW b \in Pool!Blocks
            PROVE  b .. b + n - 1 \subseteq Pool!Blocks \ Pool!Given <=>
                   b + n <= handle.block_n /\ \A x \in b .. (b + n) - 1 : ~Occupied(x)
        <5>1. b \in Nat /\ b + n - 1 = (b + n) - 1 /\ n \in Nat \ {0}
          BY <2>2
        <5> DEFINE e == (b + n) - 1
        <5>2. e \in b .. e /\ e \in Nat
          BY <5>1
        <5>3. b + n <= handle.block_n <=> e <= handle.block_n - 1
          BY <2>2, <5>1
        <5>4. e <= handle.block_n - 1 <=> b .. e \subseteq Pool!Blocks
          <6> HIDE DEF e
          <6> QED
            BY SMTT(30), <2>2, <5>1, <5>2
        <5>5. b .. b + n - 1 = b .. e
          BY <5>1
        <5> HIDE DEF e
        <5>6. b .. e \subseteq Pool!Blocks \ Pool!Given <=>
                b .. e \subseteq Pool!Blocks /\ \A x \in b .. e : ~Occupied(x)
          BY <3>1
        <5> QED
          BY <5>3, <5>4, <5>5, <5>6 DEF e
      <4> QED
        BY <4>1 DEF Holes
    <3>3. \/ Pool!search_free_region(n) = -1 /\ Holes(n) = {}
          \/ /\ Pool!search_free_region(n) \in Holes(n)
             /\ \A x \in Holes(n) : Pool!search_free_region(n) <= x
      BY <2>1, FreeSearch
    <3>4. Holes(n) \subseteq Nat
      BY <2>2 DEF Holes
    <3> DEFINE f == Pool!search_free_region(n)
    <3>5. CASE f \in Holes(n) /\ \A x \in Holes(n) : f <= x
      <4>1. Pool!First(Holes(n)) = f
        <5> HIDE DEF f
        <5>1. \A x \in Holes(n) : (\A y \in Holes(n) : x <= y) => x = f
          <6> SUFFICES ASSUME NEW x \in Holes(n), \A y \in Holes(n) : x <= y
                       PROVE  x = f
            OBVIOUS
          <6>1. x <= f /\ f <= x /\ x \in Nat /\ f \in Nat
            BY <3>4, <3>5
          <6> QED
            BY <6>1
        <5> DEFINE H == Holes(n)
        <5> HIDE DEF H
        <5>2. f \in H /\ (\A y \in H : f <= y) /\ \A x \in H : (\A y \in H : x <= y) => x = f
          BY <3>5, <5>1 DEF H
        <5>3. Pool!First(H) = CHOOSE x \in H : \A y \in H : x <= y
          BY DEF Pool!First
        <5>4. Pool!First(H) = f
          BY <5>2, <5>3, Zenon
        <5> QED
          BY <5>4 DEF H
      <4> QED
        BY <3>2, <3>5, <4>1
    <3>6. CASE f = -1 /\ Holes(n) = {}
      BY <3>2, <3>6 DEF Pool!NOT_FOUND
    <3> QED
      BY <3>3, <3>5, <3>6
  <2>5. ASSUME NEW r \in live
        PROVE  \E c \in EarlyBlocks :
                 { Pool!AddressOf(b) \div PageBytes : b \in Pool!BlocksOf(r) } \subseteq PagesOf(c)
    <3>1. PICK c \in EarlyBlocks :
            /\ c.addr \in Nat /\ c.pages \in Nat \ {0}
            /\ handle.region_start = c.addr * PageBytes /\ handle.block_n = Slots(c)
      BY <2>1 DEF HandleInv
    <3>2. Pool!BlocksOf(r) \subseteq 0 .. Slots(c) - 1
      <4>1. Pool!BlocksOf(r) \subseteq Pool!Blocks
        BY <2>1, BlockFacts
      <4> QED
        BY <2>2, <3>1, <4>1
    <3>3. ASSUME NEW b \in Pool!BlocksOf(r)
          PROVE  Pool!AddressOf(b) \div PageBytes \in PagesOf(c)
      <4>1. Pool!AddressOf(b) = c.addr * PageBytes + b * BlockBytes
        BY <2>2, <3>1 DEF Pool!AddressOf
      <4> QED
        BY <3>1, <3>2, <4>1, BlockOnPages
    <3> QED
      BY <3>1, <3>3
  <2>6. (panicked # "no") <=> misused
    BY DEF PoolInv
  <2> QED
    BY <2>3, <2>4, <2>5, <2>6 DEF PoolSound, Pool!PoolSound
<1> QED
  BY <1>1, <1>2

\* PoolSound: xalloc gives out disjoint regions of its buffer, inside one early
\* block, finds the first hole that is there, and stops the core exactly at the
\* frees that name no region that is out.
THEOREM PoolIsSound ==
  ASSUME NullIsNoHandle
  PROVE  Spec => []PoolSound
<1>1. BootInit => EarlyInv /\ PoolInv
  BY InitEarly, InitPool DEF BootInit
<1>2. EarlyInv /\ PoolInv /\ [Next]_vars => EarlyInv' /\ PoolInv'
  BY EarlyStep, PoolStep, BootAssumption, EarlyAssumption
<1>3. PoolInv => PoolSound
  BY PoolInvSound, BootAssumption, EarlyAssumption
<1> QED
  BY <1>1, <1>2, <1>3, PTL DEF Spec
=============================================================================
