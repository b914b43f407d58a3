-------------------------- MODULE MmuTablesProofs ---------------------------
(***************************************************************************)
(* Proofs about the translation tables, for every number of levels, every  *)
(* size of a table and every range mapped or unmapped: the tables stay a   *)
(* tree that may be walked and freed, and a call changes the translation   *)
(* of each of its pages once and of no other.  The second follows from     *)
(* what a store does to a walk, and from what a call still knows of the    *)
(* range it was given, without which it would skip more than it should.    *)
(* Last, that mmu_peek reports what a walk finds.                          *)
(***************************************************************************)
EXTENDS MmuTables, FiniteSetTheorems, WellFoundedInduction, NaturalsInduction, TLAPS

-----------------------------------------------------------------------------
(* Multiples of what an entry covers, and the least of a set of numbers. *)

\* A nonempty set of numbers has a least.
LEMMA HasLeast ==
  ASSUME NEW T \in SUBSET Nat, T # {}
  PROVE  \E x \in T : \A y \in T : x <= y
<1> DEFINE less == {p \in Nat \X Nat : p[1] < p[2]}
<1>1. IsWellFoundedOn(less, Nat)
  BY NatLessThanWellFounded DEF OpToRel
<1>2. \E x \in T : \A y \in T : ~(<<y, x>> \in less)
  BY <1>1, WFMin
<1>3. PICK x \in T : \A y \in T : ~(<<y, x>> \in less)
  BY <1>2
<1>4. ASSUME NEW y \in T
      PROVE  x <= y
  <2>1. ~(<<y, x>> \in less)
    BY <1>3
  <2> QED
    BY <2>1
<1> QED
  BY <1>4

\* A multiple, and what divides it.
LEMMA ModIsMultiple ==
  ASSUME NEW P \in Nat \ {0}, NEW x \in Int, x % P = 0
  PROVE  \E q \in Int : x = q * P
<1>1. x = P * (x \div P) + (x % P) /\ x \div P \in Int
  BY SMT
<1> QED
  BY <1>1, SMT

\* The remainder of a multiple.
LEMMA MultipleIsMod ==
  ASSUME NEW P \in Nat \ {0}, NEW q \in Int
  PROVE  (q * P) % P = 0
<1> DEFINE d == (q * P) \div P
           m == (q * P) % P
<1>1. q * P = P * d + m /\ d \in Int /\ m \in 0 .. (P - 1)
  BY SMT
<1> HIDE DEF d, m
<1>2. m = P * (q - d)
  BY <1>1, SMT
<1>3. CASE q - d >= 1
  <2>1. P * (q - d) >= P
    BY <1>3, <1>1, SMT
  <2> QED
    BY <2>1, <1>1, <1>2, SMT
<1>4. CASE q - d <= -1
  <2>1. P * (q - d) <= -P
    BY <1>4, <1>1, SMT
  <2> QED
    BY <2>1, <1>1, <1>2, SMT
<1>5. CASE q = d
  <2>1. m = 0
    BY <1>5, <1>1, <1>2, SMT
  <2> QED
    BY <2>1 DEF m
<1> QED
  BY <1>1, <1>3, <1>4, <1>5, SMT

\* The quotient of a multiple.
LEMMA MultipleDiv ==
  ASSUME NEW P \in Nat \ {0}, NEW q \in Int
  PROVE  (q * P) \div P = q
<1>1. (q * P) % P = 0
  BY MultipleIsMod
<1>2. q * P = P * ((q * P) \div P) + ((q * P) % P) /\ (q * P) \div P \in Int
  BY SMT
<1> DEFINE d == (q * P) \div P
<1>3. q * P = P * d /\ d \in Int
  BY <1>1, <1>2
<1> HIDE DEF d
<1>4. P * (q - d) = 0
  BY <1>3, SMT
<1>5. q - d = 0
  BY <1>3, <1>4, SMT
<1>6. q = d
  BY <1>3, <1>5, SMT
<1> QED
  BY <1>6 DEF d

\* Sums and differences of multiples.
LEMMA ModSum ==
  ASSUME NEW P \in Nat \ {0}, NEW x \in Int, NEW y \in Int, x % P = 0, y % P = 0
  PROVE  (x + y) % P = 0 /\ (x - y) % P = 0
<1>1. PICK q \in Int : x = q * P
  BY ModIsMultiple
<1>2. PICK r \in Int : y = r * P
  BY ModIsMultiple
<1>3. x + y = (q + r) * P /\ x - y = (q - r) * P
  BY <1>1, <1>2, SMT
<1>4. q + r \in Int /\ q - r \in Int
  OBVIOUS
<1> QED
  BY <1>3, <1>4, MultipleIsMod

\* Clearing the remainder gives the multiple at or below.
LEMMA MultipleBelow ==
  ASSUME NEW P \in Nat \ {0}, NEW i \in Nat
  PROVE  /\ i - (i % P) \in Nat /\ i - (i % P) <= i /\ i < i - (i % P) + P
         /\ (i - (i % P)) % P = 0
<1> DEFINE d == i \div P
           r == i % P
<1>1. i = P * d + r /\ d \in Int /\ r \in 0 .. (P - 1)
  BY SMT
<1> HIDE DEF d, r
<1>2. i - r = d * P /\ i - r <= i /\ i < i - r + P
  BY <1>1, SMT
<1>3. (i - r) % P = 0
  BY <1>1, <1>2, MultipleIsMod
<1>4. d * P >= 0
  <2>1. CASE d <= -1
    <3>1. d * P <= -P
      BY <1>1, <2>1, SMT
    <3> QED
      BY <1>1, <1>2, <3>1, SMT
  <2>2. CASE d >= 0
    BY <1>1, <2>2, SMT
  <2> QED
    BY <1>1, <2>1, <2>2, SMT
<1>5. i - r \in Nat
  BY <1>1, <1>2, <1>4, SMT
<1> QED
  BY <1>2, <1>3, <1>5 DEF r

\* What a multiple of B is a multiple of, B being a multiple of A.
LEMMA ModOfMultiple ==
  ASSUME NEW A \in Nat \ {0}, NEW B \in Nat \ {0}, NEW y \in Int,
         y % B = 0, B % A = 0
  PROVE  y % A = 0
<1>1. PICK q \in Int : y = q * B
  BY ModIsMultiple
<1>2. PICK r \in Int : B = r * A
  BY ModIsMultiple
<1>3. y = (q * r) * A /\ q * r \in Int
  BY <1>1, <1>2, SMT
<1> QED
  BY <1>3, MultipleIsMod

\* The quotient and the remainder are the only ones.
LEMMA DivUnique ==
  ASSUME NEW P \in Nat \ {0}, NEW q \in Int, NEW r \in 0 .. P - 1
  PROVE  (q * P + r) \div P = q /\ (q * P + r) % P = r
<1> DEFINE y == q * P + r
           d == y \div P
           m == y % P
<1>1. y = P * d + m /\ d \in Int /\ m \in 0 .. P - 1 /\ y \in Int
  <2>1. y \in Int
    BY SMT
  <2> HIDE DEF y
  <2> QED
    BY <2>1, SMT
<1> HIDE DEF d, m
<1>2. P * (d - q) = r - m
  BY <1>1, SMT
<1>3. CASE d - q >= 1
  <2>1. P * (d - q) >= P
    BY <1>1, <1>3, SMT
  <2> QED
    BY <1>1, <1>2, <2>1, SMT
<1>4. CASE d - q <= -1
  <2>1. P * (d - q) <= -P
    BY <1>1, <1>4, SMT
  <2> QED
    BY <1>1, <1>2, <2>1, SMT
<1>5. CASE d = q
  <2>1. m = r
    BY <1>1, <1>2, <1>5, SMT
  <2> QED
    BY <1>5, <2>1 DEF d, m
<1>6. d - q >= 1 \/ d - q <= -1 \/ d = q
  BY <1>1, SMT
<1> QED
  BY <1>3, <1>4, <1>5, <1>6

\* A natural number is its quotient times the divisor and its remainder.
LEMMA DivMod ==
  ASSUME NEW P \in Nat \ {0}, NEW y \in Nat
  PROVE  /\ y = (y \div P) * P + (y % P)
         /\ y \div P \in Nat /\ y % P \in 0 .. P - 1
<1>1. y = P * (y \div P) + (y % P) /\ y \div P \in Int /\ y % P \in 0 .. P - 1
  BY SMT
<1> DEFINE d == y \div P
           m == y % P
<1> HIDE DEF d, m
<1>2. y = P * d + m /\ d \in Int /\ m \in 0 .. P - 1
  BY <1>1 DEF d, m
<1>3. d >= 0
  <2>1. CASE d <= -1
    <3>1. P * d <= -P
      BY <1>2, <2>1, SMT
    <3> QED
      BY <1>2, <3>1, SMT
  <2> QED
    BY <1>2, <2>1, SMT
<1>4. y = d * P + m /\ d \in Nat
  BY <1>2, <1>3, SMT
<1> QED
  BY <1>2, <1>4 DEF d, m

\* Dividing twice is dividing by the product.
LEMMA DivTwice ==
  ASSUME NEW P \in Nat \ {0}, NEW Q \in Nat \ {0}, NEW y \in Nat
  PROVE  /\ (y \div P) \div Q = y \div (Q * P)
         /\ y % (Q * P) = ((y \div P) % Q) * P + (y % P)
<1> DEFINE d == y \div P
           m == y % P
           e == d \div Q
           n == d % Q
<1>1. y = d * P + m /\ d \in Nat /\ m \in 0 .. P - 1
  BY DivMod
<1> HIDE DEF d, m
<1>2. d = e * Q + n /\ e \in Nat /\ n \in 0 .. Q - 1
  BY <1>1, DivMod
<1> HIDE DEF e, n
<1> DEFINE R == Q * P
           r == n * P + m
<1>3. R \in Nat \ {0} /\ r \in 0 .. R - 1
  <2>1. (Q - 1 - n) * P >= 0
    BY <1>2, SMT
  <2>2. (Q - 1 - n) * P = R - P - n * P
    BY <1>2, SMT
  <2>3. n * P >= 0 /\ n * P \in Int /\ R \in Int
    BY <1>2, SMT
  <2> DEFINE s == n * P
  <2>4. s >= 0 /\ s \in Int /\ R \in Int /\ R - P - s >= 0 /\ r = s + m
    BY <2>1, <2>2, <2>3
  <2> HIDE DEF s, R, r
  <2> QED
    BY <1>1, <2>4, SMT
<1>4. y = e * R + r
  BY <1>1, <1>2, SMT
<1> HIDE DEF R, r
<1>5. y \div R = e /\ y % R = r
  BY <1>2, <1>3, <1>4, DivUnique
<1> QED
  BY <1>5 DEF R, r, e, n, d, m

-----------------------------------------------------------------------------
(* The geometry of the tables. *)

LEMMA LevelFacts ==
  /\ MaxLevel \in Nat \ {0} /\ Fanout \in Nat \ {0} /\ Fanout > 1
  /\ 0 \in Levels /\ 1 \in Levels /\ MaxLevel \in Levels
  /\ \A l \in Levels : /\ l \in Nat /\ l <= MaxLevel
                       /\ l # MaxLevel => l + 1 \in Levels /\ l < MaxLevel
                       /\ l # 0 => l - 1 \in Levels
  BY MmuAssumption DEF Levels

\* Of the levels with a property one is the last.
LEMMA HasGreatest ==
  ASSUME NEW T \in SUBSET Levels, T # {}
  PROVE  \E l \in T : \A k \in T : k <= l
<1> DEFINE U == {MaxLevel - l : l \in T}
<1>1. U \in SUBSET Nat /\ U # {}
  <2>1. \A l \in T : MaxLevel - l \in Nat
    BY LevelFacts
  <2>2. PICK l \in T : TRUE
    OBVIOUS
  <2> QED
    BY <2>1, <2>2
<1> HIDE DEF U
<1>2. PICK x \in U : \A y \in U : x <= y
  BY <1>1, HasLeast
<1>3. PICK l \in T : x = MaxLevel - l
  BY DEF U
<1>4. ASSUME NEW k \in T
      PROVE  k <= l
  <2>1. MaxLevel - k \in U
    BY DEF U
  <2>2. MaxLevel - l <= MaxLevel - k
    BY <1>2, <1>3, <2>1
  <2>3. k \in Nat /\ l \in Nat /\ MaxLevel \in Nat
    BY LevelFacts
  <2> QED
    BY <2>2, <2>3
<1> QED
  BY <1>4

\* The bytes an entry covers at the levels from k on exist.
LEMMA CoverExists ==
  ASSUME NEW n \in Levels
  PROVE  \E f : f = [l \in n .. MaxLevel |-> IF l = MaxLevel THEN 1 ELSE Fanout * f[l + 1]]
<1> DEFINE W(f, k) == f = [l \in k .. MaxLevel |-> IF l = MaxLevel THEN 1
                                                   ELSE Fanout * f[l + 1]]
           Bad == {k \in Levels : ~ \E f : W(f, k)}
<1>1. ASSUME Bad # {}
      PROVE  FALSE
  <2>1. PICK k \in Bad : \A x \in Bad : x <= k
    <3>1. Bad \in SUBSET Levels
      OBVIOUS
    <3> HIDE DEF Bad
    <3> QED
      BY <1>1, <3>1, HasGreatest
  <2>2. k \in Levels /\ ~ \E f : W(f, k)
    OBVIOUS
  <2>3. CASE k = MaxLevel
    <3> DEFINE g == [l \in k .. MaxLevel |-> 1]
    <3>1. \A l \in k .. MaxLevel : l = MaxLevel
      BY <2>3, LevelFacts
    <3>2. g = [l \in k .. MaxLevel |-> IF l = MaxLevel THEN 1 ELSE Fanout * g[l + 1]]
      BY <3>1
    <3> HIDE DEF g
    <3>3. W(g, k)
      BY <3>2
    <3> QED
      BY <2>2, <3>3
  <2>4. CASE k # MaxLevel
    <3>1. k + 1 \in Levels /\ ~(k + 1 <= k) /\ k \in Nat /\ k < MaxLevel
      BY <2>2, <2>4, LevelFacts
    <3>2. k + 1 \notin Bad
      <4> HIDE DEF Bad
      <4> QED
        BY <2>1, <3>1
    <3>3. PICK f : W(f, k + 1)
      BY <3>1, <3>2
    <3>4. \A l \in (k + 1) .. MaxLevel :
            f[l] = IF l = MaxLevel THEN 1 ELSE Fanout * f[l + 1]
      BY <3>3
    <3> DEFINE g == [l \in k .. MaxLevel |-> IF l = k THEN Fanout * f[k + 1] ELSE f[l]]
    <3>5. \A l \in k .. MaxLevel : g[l] = IF l = MaxLevel THEN 1 ELSE Fanout * g[l + 1]
      <4> SUFFICES ASSUME NEW l \in k .. MaxLevel
                   PROVE  g[l] = IF l = MaxLevel THEN 1 ELSE Fanout * g[l + 1]
        OBVIOUS
      <4>1. CASE l = k
        <5>1. l + 1 \in k .. MaxLevel /\ l + 1 # k
          BY <3>1, <4>1, LevelFacts
        <5> QED
          BY <2>4, <4>1, <5>1
      <4>2. CASE l # k /\ l = MaxLevel
        <5>1. l \in (k + 1) .. MaxLevel
          BY <3>1, <4>2, LevelFacts
        <5> QED
          BY <3>4, <4>2, <5>1
      <4>3. CASE l # k /\ l # MaxLevel
        <5>1. l \in (k + 1) .. MaxLevel /\ l + 1 \in k .. MaxLevel /\ l + 1 # k
          BY <3>1, <4>3, LevelFacts
        <5> QED
          BY <3>4, <4>3, <5>1
      <4> QED
        BY <4>1, <4>2, <4>3
    <3>6. g = [l \in k .. MaxLevel |-> g[l]]
      OBVIOUS
    <3> HIDE DEF g
    <3>7. W(g, k)
      BY <3>5, <3>6
    <3> QED
      BY <2>2, <3>7
  <2> QED
    BY <2>3, <2>4
<1>2. n \notin Bad
  BY <1>1
<1> QED
  BY <1>2

\* dc_cover_bytes: a page at the last level, Fanout times the next elsewhere.
LEMMA CoverFacts ==
  /\ Cover[MaxLevel] = 1
  /\ \A l \in Levels : Cover[l] \in Nat \ {0}
  /\ \A l \in Levels : l # MaxLevel => Cover[l] = Fanout * Cover[l + 1]
<1>1. \E f : f = [l \in Levels |-> IF l = MaxLevel THEN 1 ELSE Fanout * f[l + 1]]
  BY CoverExists, LevelFacts DEF Levels
<1>2. Cover = [l \in Levels |-> IF l = MaxLevel THEN 1 ELSE Fanout * Cover[l + 1]]
  BY <1>1 DEF Cover
<1>3. Cover[MaxLevel] = 1 /\ \A l \in Levels : l # MaxLevel => Cover[l] = Fanout * Cover[l + 1]
  BY <1>2, LevelFacts
<1> DEFINE Bad == {l \in Levels : Cover[l] \notin Nat \ {0}}
<1>4. ASSUME Bad # {}
      PROVE  FALSE
  <2>1. PICK l \in Bad : \A x \in Bad : x <= l
    <3>1. Bad \in SUBSET Levels
      OBVIOUS
    <3> HIDE DEF Bad
    <3> QED
      BY <1>4, <3>1, HasGreatest
  <2>2. l \in Levels /\ Cover[l] \notin Nat \ {0}
    OBVIOUS
  <2>3. l # MaxLevel
    BY <1>3, <2>2
  <2>4. l + 1 \in Levels /\ ~(l + 1 <= l)
    BY <2>2, <2>3, LevelFacts
  <2>5. l + 1 \notin Bad
    <3> HIDE DEF Bad
    <3> QED
      BY <2>1, <2>4
  <2>6. Cover[l + 1] \in Nat \ {0}
    BY <2>4, <2>5
  <2>7. Cover[l] = Fanout * Cover[l + 1]
    BY <1>3, <2>2, <2>3
  <2> DEFINE c == Cover[l + 1]
  <2>8. Fanout * c \in Nat /\ Fanout * c > 0
    <3>1. c \in Nat \ {0} /\ Fanout \in Nat \ {0}
      BY <2>6, LevelFacts
    <3> HIDE DEF c
    <3> QED
      BY <3>1, SMT
  <2> QED
    BY <2>2, <2>7, <2>8
<1> QED
  BY <1>3, <1>4

\* What an entry covers is a multiple of what the entries below it cover.
LEMMA CoverDivides ==
  ASSUME NEW k \in Levels, NEW l \in Levels, l <= k
  PROVE  \E n \in Nat \ {0} : Cover[l] = n * Cover[k]
<1> DEFINE Bad == {j \in Levels : j <= k /\ ~ \E n \in Nat \ {0} : Cover[j] = n * Cover[k]}
<1>1. ASSUME Bad # {}
      PROVE  FALSE
  <2>1. PICK j \in Bad : \A x \in Bad : x <= j
    <3>1. Bad \in SUBSET Levels
      OBVIOUS
    <3> HIDE DEF Bad
    <3> QED
      BY <1>1, <3>1, HasGreatest
  <2>2. j \in Levels /\ j <= k /\ ~ \E n \in Nat \ {0} : Cover[j] = n * Cover[k]
    OBVIOUS
  <2>3. j # k
    <3>1. Cover[k] = 1 * Cover[k] /\ 1 \in Nat \ {0}
      BY CoverFacts
    <3> QED
      BY <2>2, <3>1
  <2>4. j # MaxLevel /\ j + 1 \in Levels /\ ~(j + 1 <= j) /\ j + 1 <= k
    BY <2>2, <2>3, LevelFacts
  <2>5. j + 1 \notin Bad
    <3> HIDE DEF Bad
    <3> QED
      BY <2>1, <2>4
  <2>6. PICK n \in Nat \ {0} : Cover[j + 1] = n * Cover[k]
    BY <2>4, <2>5
  <2>7. Cover[j] = Fanout * Cover[j + 1]
    BY <2>2, <2>4, CoverFacts
  <2> DEFINE c == Cover[k]
             m == Fanout * n
  <2>8. m \in Nat \ {0} /\ Cover[j] = m * c
    <3>1. c \in Nat /\ Fanout \in Nat \ {0}
      BY LevelFacts, CoverFacts
    <3>2. Cover[j] = Fanout * (n * c)
      BY <2>6, <2>7
    <3> HIDE DEF c
    <3> QED
      BY <3>1, <3>2, SMT
  <2> HIDE DEF m
  <2> QED
    BY <2>2, <2>8
<1>2. k \in Nat /\ l \in Nat
  BY LevelFacts
<1> QED
  BY <1>1, <1>2

-----------------------------------------------------------------------------
(* Where the tables are. *)

Ids == Levels \X Nat
ParentId(t) == <<t[1] - 1, t[2] \div Fanout>>

LEMMA ChildOfPair ==
  ASSUME NEW l, NEW r, NEW i
  PROVE  Child(<<l, r>>, i) = <<l + 1, r * Fanout + i>> /\ ParentId(<<l, r>>) = <<l - 1, r \div Fanout>>
<1>1. <<l, r>>[1] = l /\ <<l, r>>[2] = r
  OBVIOUS
<1>2. /\ Child(<<l, r>>, i) = <<(<<l, r>>[1]) + 1, (<<l, r>>[2]) * Fanout + i>>
      /\ ParentId(<<l, r>>) = <<(<<l, r>>[1]) - 1, (<<l, r>>[2]) \div Fanout>>
  BY Zenon DEF Child, ParentId
<1> QED
  BY <1>1, <1>2, Zenon

\* The table a walk goes on to is the child at the index of the address.
LEMMA NextTable ==
  ASSUME NEW va \in Nat, NEW l \in Levels, l # MaxLevel
  PROVE  /\ TableAt(va, l + 1) = Child(TableAt(va, l), Index(va, l))
         /\ TableAt(va, l + 1) = <<l + 1, va \div Cover[l]>>
<1> DEFINE c == Cover[l]
           d == va \div c
<1>1. /\ c \in Nat \ {0} /\ Fanout \in Nat \ {0}
      /\ l + 1 \in Levels /\ c = Fanout * Cover[l + 1]
  BY LevelFacts, CoverFacts
<1>2. TableAt(va, l + 1) = <<l + 1, d>>
  BY <1>1 DEF TableAt
<1>3. Child(TableAt(va, l), Index(va, l)) = <<l + 1, (va \div (Fanout * c)) * Fanout + (d % Fanout)>>
  BY ChildOfPair, Zenon DEF TableAt, Index
<1>4. (va \div (Fanout * c)) = d \div Fanout
  <2> HIDE DEF c
  <2> QED
    BY <1>1, DivTwice
<1>5. d \in Nat
  <2> HIDE DEF c
  <2> QED
    BY <1>1, DivMod
<1>6. d = (d \div Fanout) * Fanout + (d % Fanout)
  <2>1. Fanout \in Nat \ {0}
    BY <1>1
  <2> HIDE DEF d
  <2> QED
    BY <2>1, <1>5, DivMod, Zenon
<1> QED
  BY <1>2, <1>3, <1>4, <1>6

LEMMA IndexInTable ==
  ASSUME NEW va \in Nat, NEW l \in Levels
  PROVE  Index(va, l) \in 0 .. Fanout - 1
<1>1. Cover[l] \in Nat \ {0} /\ Fanout \in Nat \ {0}
  BY LevelFacts, CoverFacts
<1>2. va \div Cover[l] \in Nat
  BY <1>1, DivMod
<1> QED
  BY <1>1, <1>2, DivMod DEF Index

\* Every address modelled is under the top table.
LEMMA TopTable ==
  ASSUME NEW va \in Nat, va < VaPages
  PROVE  TableAt(va, 0) = <<0, 0>>
<1> DEFINE P == Fanout * Cover[0]
<1>1. P \in Nat \ {0}
  <2> DEFINE c == Cover[0]
  <2>1. c \in Nat \ {0} /\ Fanout \in Nat \ {0}
    BY LevelFacts, CoverFacts
  <2> HIDE DEF c
  <2>2. Fanout * c \in Nat /\ Fanout * c > 0
    BY <2>1, SMT
  <2> QED
    BY <2>2 DEF c
<1>2. va \in 0 .. P - 1
  <2>1. VaPages <= P /\ VaPages \in Nat
    BY VaAssumption, MmuAssumption
  <2> HIDE DEF P
  <2> QED
    BY <1>1, <2>1
<1> HIDE DEF P
<1>3. va = 0 * P + va
  BY <1>1
<1>4. va \div P = 0
  BY <1>1, <1>2, <1>3, DivUnique
<1> QED
  BY <1>4 DEF P, TableAt

\* Every table but the top one is a child of its parent.
LEMMA ParentFacts ==
  ASSUME NEW t \in Ids, t[1] # 0
  PROVE  /\ ParentId(t) \in Ids /\ t[2] % Fanout \in 0 .. Fanout - 1
         /\ t = Child(ParentId(t), t[2] % Fanout)
<1>1. t = <<t[1], t[2]>> /\ t[1] \in Levels /\ t[2] \in Nat
  BY DEF Ids
<1>2. t[1] - 1 \in Levels /\ t[1] \in Nat /\ Fanout \in Nat \ {0}
  BY <1>1, LevelFacts
<1>3. /\ t[2] \div Fanout \in Nat /\ t[2] % Fanout \in 0 .. Fanout - 1
      /\ t[2] = (t[2] \div Fanout) * Fanout + (t[2] % Fanout)
  BY <1>1, <1>2, DivMod, Zenon
<1>4. Child(ParentId(t), t[2] % Fanout) =
        <<(t[1] - 1) + 1, (t[2] \div Fanout) * Fanout + (t[2] % Fanout)>>
  <2>1. ParentId(t) = <<t[1] - 1, t[2] \div Fanout>>
    BY DEF ParentId
  <2>2. Child(<<t[1] - 1, t[2] \div Fanout>>, t[2] % Fanout) =
          <<(t[1] - 1) + 1, (t[2] \div Fanout) * Fanout + (t[2] % Fanout)>>
    BY ChildOfPair
  <2> QED
    BY <2>1, <2>2, Zenon
<1>5. (t[1] - 1) + 1 = t[1]
  BY <1>2
<1>6. ParentId(t) \in Ids
  BY <1>2, <1>3 DEF Ids, ParentId
<1> QED
  BY <1>1, <1>3, <1>4, <1>5, <1>6

\* And the parent of a child is the table itself.
LEMMA ChildFacts ==
  ASSUME NEW t \in Ids, t[1] # MaxLevel, NEW i \in 0 .. Fanout - 1
  PROVE  /\ Child(t, i) \in Ids /\ Child(t, i)[1] = t[1] + 1 /\ Child(t, i)[1] # 0
         /\ ParentId(Child(t, i)) = t /\ Child(t, i)[2] % Fanout = i
<1>1. t = <<t[1], t[2]>> /\ t[1] \in Levels /\ t[2] \in Nat
  BY DEF Ids
<1>2. t[1] + 1 \in Levels /\ t[1] \in Nat /\ Fanout \in Nat \ {0}
  BY <1>1, LevelFacts
<1> DEFINE n == t[2]
           m == n * Fanout + i
<1>3. m \in Nat
  <2>1. n \in Nat /\ i \in Nat
    BY <1>1, <1>2
  <2>2. n * Fanout \in Nat
    <3> HIDE DEF n
    <3> QED
      BY <1>2, <2>1, SMT
  <2> QED
    BY <2>1, <2>2
<1>4. m \div Fanout = n /\ m % Fanout = i
  <2>1. n \in Int
    BY <1>1
  <2> HIDE DEF n
  <2> QED
    BY <1>2, <2>1, DivUnique
<1>5. Child(t, i) = <<t[1] + 1, m>>
  BY DEF Child
<1>6. (t[1] + 1) - 1 = t[1] /\ t[1] + 1 # 0
  BY <1>2
<1> HIDE DEF m
<1> QED
  BY <1>1, <1>2, <1>3, <1>4, <1>5, <1>6 DEF Ids, ParentId

\* At its own level a table is a region; above, it is in the region of its
\* parent.
LEMMA RegionFacts ==
  ASSUME NEW t \in Ids, NEW l \in Levels, l <= t[1]
  PROVE  /\ l = t[1] => RegionOf(t, l) = t[2]
         /\ l < t[1] => t[1] # 0 /\ RegionOf(t, l) = RegionOf(ParentId(t), l)
<1>1. t = <<t[1], t[2]>> /\ t[1] \in Levels /\ t[2] \in Nat
  BY DEF Ids
<1>2. t[1] \in Nat /\ l \in Nat /\ Fanout \in Nat \ {0} /\ Cover[l] \in Nat \ {0}
  BY <1>1, LevelFacts, CoverFacts
<1>3. ASSUME l = t[1]
      PROVE  RegionOf(t, l) = t[2]
  <2> DEFINE c == Cover[l]
  <2>1. c \div c = 1
    <3>1. c \in Nat \ {0} /\ c = 1 * c
      BY <1>2
    <3> HIDE DEF c
    <3> QED
      BY <3>1, MultipleDiv, 1 \in Int
  <2>2. RegionOf(t, l) = t[2] \div (c \div c)
    BY <1>3 DEF RegionOf
  <2> HIDE DEF c
  <2>3. t[2] \div 1 = t[2]
    BY <1>1
  <2> QED
    BY <2>1, <2>2, <2>3
<1>4. ASSUME l < t[1]
      PROVE  t[1] # 0 /\ RegionOf(t, l) = RegionOf(ParentId(t), l)
  <2>1. t[1] # 0 /\ t[1] - 1 \in Levels /\ l <= t[1] - 1 /\ t[1] - 1 # MaxLevel
    BY <1>1, <1>2, <1>4, LevelFacts
  <2> DEFINE u == t[1] - 1
             c == Cover[t[1]]
             b == Cover[u]
             y == t[2]
  <2>2. b = Fanout * c
    <3>1. u + 1 = t[1]
      BY <1>2
    <3> HIDE DEF u
    <3> QED
      BY <2>1, <3>1, CoverFacts DEF u
  <2>3. PICK n \in Nat \ {0} : Cover[l] = n * b
    BY <2>1, CoverDivides
  <2>4. b \in Nat \ {0} /\ c \in Nat \ {0} /\ y \in Nat
    BY <1>1, <2>1, CoverFacts
  <2>5. RegionOf(t, l) = y \div (Cover[l] \div c)
    BY DEF RegionOf
  <2>6. RegionOf(ParentId(t), l) = (y \div Fanout) \div (Cover[l] \div b)
    BY DEF RegionOf, ParentId
  <2> HIDE DEF c, b, y
  <2>7. Cover[l] \div b = n
    BY <2>3, <2>4, MultipleDiv
  <2>8. Cover[l] = (n * Fanout) * c
    BY <1>2, <2>2, <2>3, <2>4, SMT
  <2>9. n * Fanout \in Int
    BY <1>2
  <2>10. Cover[l] \div c = n * Fanout
    BY <2>4, <2>8, <2>9, MultipleDiv
  <2>11. (y \div Fanout) \div n = y \div (n * Fanout)
    BY <1>2, <2>4, DivTwice
  <2> QED
    BY <2>1, <2>5, <2>6, <2>7, <2>10, <2>11
<1> QED
  BY <1>3, <1>4

-----------------------------------------------------------------------------
(* The level at which a call works. *)

Ops == [kind : {"none", "map", "unmap"}, va : Nat, pa : Nat, size : Nat,
        attr : Attrs \cup {NoAttr}, level : Levels]

LEMMA TargetFacts ==
  ASSUME NEW o \in Ops, o.size # 0
  PROVE  /\ TargetLevel(o) \in 1 .. MaxLevel /\ Fits(o, TargetLevel(o))
         /\ \A k \in 1 .. TargetLevel(o) - 1 : ~Fits(o, k)
<1> DEFINE T == {l \in 1 .. MaxLevel : Fits(o, l)}
<1>1. o.size \in Nat /\ o.va \in Nat /\ o.pa \in Nat
  BY DEF Ops
<1>2. Fits(o, MaxLevel)
  <2>1. o.va % 1 = 0 /\ o.pa % 1 = 0 /\ o.size >= 1
    BY <1>1
  <2> QED
    BY <2>1, CoverFacts DEF Fits
<1>3. T \in SUBSET Nat /\ T # {}
  <2>1. MaxLevel \in 1 .. MaxLevel /\ 1 .. MaxLevel \subseteq Nat
    BY LevelFacts
  <2> QED
    BY <1>2, <2>1
<1>4. PICK l \in T : \A k \in T : l <= k
  <2> HIDE DEF T
  <2> QED
    BY <1>3, HasLeast
<1>5. l \in 1 .. MaxLevel /\ Fits(o, l)
  OBVIOUS
<1>6. ASSUME NEW k \in 1 .. l - 1
      PROVE  ~Fits(o, k)
  <2>1. k \in 1 .. MaxLevel /\ ~(l <= k)
    BY <1>5, LevelFacts
  <2> QED
    BY <1>4, <2>1
<1>7. \E x \in 1 .. MaxLevel : Fits(o, x) /\ \A k \in 1 .. x - 1 : ~Fits(o, k)
  BY <1>5, <1>6
<1> QED
  BY <1>7, Zenon DEF TargetLevel

\* It depends on the range only.
LEMMA SameTarget ==
  ASSUME NEW o \in Ops, NEW p \in Ops, o.size # 0,
         p.va = o.va, p.pa = o.pa, p.size = o.size
  PROVE  TargetLevel(p) = TargetLevel(o)
<1> DEFINE a == TargetLevel(o)
           b == TargetLevel(p)
<1>1. \A k : Fits(o, k) <=> Fits(p, k)
  BY DEF Fits
<1>2. /\ a \in 1 .. MaxLevel /\ Fits(o, a) /\ \A k \in 1 .. a - 1 : ~Fits(o, k)
      /\ b \in 1 .. MaxLevel /\ Fits(p, b) /\ \A k \in 1 .. b - 1 : ~Fits(p, k)
  BY TargetFacts
<1> HIDE DEF a, b
<1>3. a \in Nat /\ b \in Nat /\ a >= 1 /\ b >= 1
  BY <1>2
<1>4. ~(a < b)
  <2>1. CASE a < b
    <3>1. a \in 1 .. b - 1
      BY <1>3, <2>1
    <3> QED
      BY <1>1, <1>2, <3>1
  <2> QED
    BY <2>1
<1>5. ~(b < a)
  <2>1. CASE b < a
    <3>1. b \in 1 .. a - 1
      BY <1>3, <2>1
    <3> QED
      BY <1>1, <1>2, <3>1
  <2> QED
    BY <2>1
<1> QED
  BY <1>3, <1>4, <1>5 DEF a, b

-----------------------------------------------------------------------------
(* The inductive invariant. *)

Descriptors == [bits : {0, 1, 3}, out : Nat, attr : Attrs \cup {NoAttr}]
Entries == 0 .. Fanout - 1

TypeInv ==
  /\ DOMAIN tables \subseteq Ids
  /\ \A t \in DOMAIN tables : tables[t] \in [Entries -> Descriptors]
  /\ op \in Ops
  /\ panic \in {"none", "alloc", "free", "type"}

\* A call is inside its range and above its target, its tables are there, and
\* a table is being freed only at the target.
CallInv ==
  /\ <<0, 0>> \in DOMAIN tables
  /\ op.kind = "none" => op = Idle /\ freeing = <<>>
  /\ op.kind # "none" =>
       /\ op.size # 0 /\ op.va + op.size <= VaPages
       /\ op.level <= TargetLevel(op) /\ Here \in DOMAIN tables
       /\ op.kind = "unmap" => op.pa = 0
  /\ freeing # <<>> =>
       /\ op.kind # "none" /\ op.level = TargetLevel(op) /\ op.level # MaxLevel
       /\ freeing = TableAt(op.va, op.level + 1) /\ freeing \in DOMAIN tables

IInv == TypeInv /\ CallInv /\ TablesSound

-----------------------------------------------------------------------------
(* What a store leaves of the tree of tables. *)

TreeType == DOMAIN tables \subseteq Ids /\ \A t \in DOMAIN tables : tables[t] \in [Entries -> Descriptors]

\* An entry of a table that may lead nowhere or to memory.
Leaf(d, l) ==
  /\ d \in Descriptors /\ ~IsTable(d, l)
  /\ Valid(d) => l > 0 /\ d.out % Cover[l] = 0

\* A table is linked where none was.
LEMMA NewChild ==
  ASSUME TreeType, TablesSound, freeing = <<>>, NEW t \in DOMAIN tables, t[1] # MaxLevel,
         NEW i \in Entries, ~IsTable(tables[t][i], t[1])
  PROVE  Child(t, i) \notin DOMAIN tables
<1> DEFINE n == Child(t, i)
<1>1. /\ t \in Ids /\ n[1] = t[1] + 1 /\ n[1] # 0 /\ ParentId(n) = t /\ n[2] % Fanout = i
  BY ChildFacts DEF TreeType, Entries
<1>2. n # <<0, 0>>
  BY <1>1
<1>3. CASE n \in DOMAIN tables
  <2>1. <<n[1] - 1, n[2] \div Fanout>> = t
    BY <1>1 DEF ParentId
  <2>2. n[1] - 1 = t[1]
    <3>1. t[1] \in Nat
      BY <1>1, LevelFacts DEF Ids
    <3> HIDE DEF n
    <3> QED
      BY <1>1, <3>1
  <2>3. IsTable(Parent(n), n[1] - 1)
    BY <1>2, <1>3 DEF TablesSound, NoTableLost
  <2>4. Parent(n) = tables[t][i]
    BY <1>1, <2>1 DEF Parent
  <2> QED
    BY <2>2, <2>3, <2>4
<1> QED
  BY <1>3

\* A new table is linked.
LEMMA LinkTree ==
  ASSUME TreeType, TablesSound, freeing = <<>>,
         NEW t \in DOMAIN tables, t[1] # MaxLevel, NEW i \in Entries,
         ~IsTable(tables[t][i], t[1]),
         NEW filled \in [Entries -> Descriptors],
         \A k \in Entries : Leaf(filled[k], t[1] + 1),
         freeing' = <<>>,
         tables' = [u \in DOMAIN tables \cup {Child(t, i)} |->
                      IF u = t THEN [tables[u] EXCEPT ![i] = TableDesc]
                      ELSE IF u \in DOMAIN tables THEN tables[u] ELSE filled]
  PROVE  TreeType' /\ TablesSound'
<1> DEFINE n == Child(t, i)
<1>1. /\ t \in Ids /\ n \in Ids /\ n[1] = t[1] + 1 /\ n[1] # 0
      /\ ParentId(n) = t /\ n[2] % Fanout = i
  BY ChildFacts DEF TreeType, Entries
<1>2. t[1] \in Nat /\ t[1] < MaxLevel
  <2>1. t[1] \in Levels
    BY <1>1 DEF Ids
  <2> QED
    BY <2>1, LevelFacts
<1>3. n # t
  BY <1>1, <1>2
<1>4. n \notin DOMAIN tables
  BY NewChild
<1> HIDE DEF n
<1>5. DOMAIN tables' = DOMAIN tables \cup {n}
  BY DEF n
<1>6. tables'[t] = [tables[t] EXCEPT ![i] = TableDesc] /\ tables'[n] = filled
  BY <1>3, <1>4 DEF n
<1>7. \A u \in DOMAIN tables : u # t => tables'[u] = tables[u]
  OBVIOUS
<1>8. TableDesc \in Descriptors /\ IsTable(TableDesc, t[1])
  BY <1>2 DEF TableDesc, Descriptors, IsTable
<1>9. tables[t] \in [Entries -> Descriptors]
  BY DEF TreeType
<1>10. /\ tables'[t][i] = TableDesc
       /\ \A k \in Entries : k # i => tables'[t][k] = tables[t][k]
  BY <1>6, <1>9
<1>11. TreeType'
  <2>1. tables'[t] \in [Entries -> Descriptors]
    BY <1>6, <1>8, <1>9
  <2>2. \A u \in DOMAIN tables' : tables'[u] \in [Entries -> Descriptors]
    BY <1>5, <1>6, <1>7, <2>1 DEF TreeType
  <2> QED
    BY <1>1, <1>5, <2>2 DEF TreeType
<1>12. NoTableLost'
  <2> SUFFICES ASSUME NEW u \in DOMAIN tables', u # <<0, 0>>
               PROVE  /\ <<u[1] - 1, u[2] \div Fanout>> \in DOMAIN tables'
                      /\ IsTable(tables'[<<u[1] - 1, u[2] \div Fanout>>][u[2] % Fanout], u[1] - 1)
    BY DEF NoTableLost, Parent
  <2>1. CASE u = n
    <3>1. <<u[1] - 1, u[2] \div Fanout>> = t /\ u[1] - 1 = t[1] /\ u[2] % Fanout = i
      BY <1>1, <1>2, <2>1 DEF ParentId
    <3> QED
      BY <1>5, <1>8, <1>10, <3>1
  <2>2. CASE u # n
    <3> DEFINE p == <<u[1] - 1, u[2] \div Fanout>>
    <3>1. u \in DOMAIN tables
      BY <1>5, <2>2
    <3>2. p \in DOMAIN tables /\ IsTable(tables[p][u[2] % Fanout], u[1] - 1)
      BY <3>1 DEF TablesSound, NoTableLost, Parent
    <3>3. p[1] = u[1] - 1 /\ u \in Ids
      BY <3>1 DEF TreeType
    <3> HIDE DEF p
    <3>4. CASE p = t /\ u[2] % Fanout = i
      BY <3>2, <3>3, <3>4
    <3>5. CASE p = t /\ u[2] % Fanout # i
      <4>1. u[2] % Fanout \in Entries
        <5>1. u[2] \in Nat /\ Fanout \in Nat \ {0}
          BY <3>3, LevelFacts DEF Ids
        <5> QED
          BY <5>1, DivMod DEF Entries
      <4> QED
        BY <1>5, <1>10, <3>2, <3>5, <4>1 DEF p
    <3>6. CASE p # t
      BY <1>5, <1>7, <3>2, <3>6 DEF p
    <3> QED
      BY <3>4, <3>5, <3>6
  <2> QED
    BY <2>1, <2>2
<1>13. NoDanglingEntry'
  <2> SUFFICES ASSUME NEW u \in DOMAIN tables', NEW k \in Entries,
                      IsTable(tables'[u][k], u[1])
               PROVE  Child(u, k) \in DOMAIN tables' \ {<<>>}
    BY DEF NoDanglingEntry, Entries
  <2>1. Child(u, k) # <<>>
    BY DEF Child
  <2>2. CASE u = n
    BY <1>1, <1>6, <2>2 DEF Leaf
  <2>3. CASE u = t /\ k = i
    BY <1>5, <2>1, <2>3 DEF n
  <2>4. CASE u # n /\ ~(u = t /\ k = i)
    <3>1. u \in DOMAIN tables /\ tables'[u][k] = tables[u][k]
      BY <1>5, <1>7, <1>10, <2>4
    <3>2. Child(u, k) \in DOMAIN tables
      BY <3>1 DEF TablesSound, NoDanglingEntry, Entries
    <3> QED
      BY <1>5, <2>1, <3>2
  <2> QED
    BY <2>2, <2>3, <2>4
<1>14. BlocksAligned'
  <2> SUFFICES ASSUME NEW u \in DOMAIN tables', NEW k \in Entries,
                      Valid(tables'[u][k]), ~IsTable(tables'[u][k], u[1])
               PROVE  u[1] > 0 /\ tables'[u][k].out % Cover[u[1]] = 0
    BY DEF BlocksAligned, Entries
  <2>1. CASE u = n
    BY <1>1, <1>6, <2>1 DEF Leaf
  <2>2. CASE u = t /\ k = i
    BY <1>8, <1>10, <2>2
  <2>3. CASE u # n /\ ~(u = t /\ k = i)
    <3>1. u \in DOMAIN tables /\ tables'[u][k] = tables[u][k]
      BY <1>5, <1>7, <1>10, <2>3
    <3> QED
      BY <3>1 DEF TablesSound, BlocksAligned, Entries
  <2> QED
    BY <2>1, <2>2, <2>3
<1> QED
  BY <1>11, <1>12, <1>13, <1>14 DEF TablesSound

\* An entry is stored; the table that was at it is about to be freed.
LEMMA StoreTree ==
  ASSUME TreeType, TablesSound, freeing = <<>>,
         NEW t \in DOMAIN tables, NEW i \in Entries, NEW d, Leaf(d, t[1]),
         tables' = [tables EXCEPT ![t][i] = d],
         freeing' = IF IsTable(tables[t][i], t[1]) THEN Child(t, i) ELSE <<>>
  PROVE  TreeType' /\ TablesSound' /\ DOMAIN tables' = DOMAIN tables
<1>1. t \in Ids /\ t[1] \in Nat /\ tables[t] \in [Entries -> Descriptors]
  BY LevelFacts DEF TreeType, Ids
<1>2. DOMAIN tables' = DOMAIN tables
  OBVIOUS
<1>3. /\ tables'[t][i] = d
      /\ \A k \in Entries : k # i => tables'[t][k] = tables[t][k]
      /\ tables'[t] = [tables[t] EXCEPT ![i] = d]
  BY <1>1
<1>4. \A u \in DOMAIN tables : u # t => tables'[u] = tables[u]
  OBVIOUS
<1>5. d \in Descriptors /\ ~IsTable(d, t[1])
  BY DEF Leaf
<1>6. TreeType'
  <2>1. tables'[t] \in [Entries -> Descriptors]
    BY <1>1, <1>3, <1>5
  <2> QED
    BY <1>2, <1>4, <2>1 DEF TreeType
<1> DEFINE n == Child(t, i)
<1>7. ASSUME IsTable(tables[t][i], t[1])
      PROVE  /\ n \in Ids /\ n[1] = t[1] + 1 /\ n \in DOMAIN tables /\ freeing' = n
             /\ ParentId(n) = t /\ n[2] % Fanout = i /\ n # <<>>
  <2>1. t[1] # MaxLevel
    BY <1>1, <1>7, LevelFacts DEF IsTable
  <2>2. n \in DOMAIN tables
    BY <1>7 DEF TablesSound, NoDanglingEntry, Entries
  <2>3. n # <<>>
    BY DEF Child
  <2> QED
    BY <1>1, <1>7, <2>1, <2>2, <2>3, ChildFacts DEF Entries
<1> HIDE DEF n
<1>8. NoTableLost'
  <2> SUFFICES ASSUME NEW u \in DOMAIN tables, u # <<0, 0>>
               PROVE  \/ freeing' # <<>> /\ u \in Under(freeing)'
                      \/ /\ <<u[1] - 1, u[2] \div Fanout>> \in DOMAIN tables
                         /\ IsTable(tables'[<<u[1] - 1, u[2] \div Fanout>>][u[2] % Fanout], u[1] - 1)
    BY <1>2 DEF NoTableLost, Parent
  <2> DEFINE p == <<u[1] - 1, u[2] \div Fanout>>
  <2>1. p \in DOMAIN tables /\ IsTable(tables[p][u[2] % Fanout], u[1] - 1)
    BY DEF TablesSound, NoTableLost, Parent
  <2>2. p[1] = u[1] - 1 /\ u \in Ids /\ p = ParentId(u) /\ p \in Ids
    BY <2>1 DEF TreeType, ParentId
  <2> HIDE DEF p
  <2>3. CASE p = t /\ u[2] % Fanout = i
    <3>1. IsTable(tables[t][i], t[1])
      BY <2>1, <2>2, <2>3
    <3>2. u[1] # 0
      <4>1. p[1] \in Nat /\ u[1] \in Nat
        BY <2>2, LevelFacts DEF Ids
      <4> QED
        BY <2>2, <4>1
    <3>3. u = n
      BY <2>2, <2>3, <3>2, ParentFacts DEF n
    <3>4. freeing' = u /\ u # <<>>
      BY <1>7, <3>1, <3>3
    <3>5. u[1] \in Levels /\ u[1] \in Nat /\ u[1] >= u[1] /\ u[1] <= u[1]
      BY <2>2, LevelFacts DEF Ids
    <3>6. RegionOf(u, u[1]) = u[2]
      BY <2>2, <3>5, RegionFacts
    <3>7. u \in Under(u)'
      BY <1>2, <3>5, <3>6 DEF Under
    <3> QED
      BY <3>4, <3>7
  <2>4. CASE p = t /\ u[2] % Fanout # i
    <3>1. u[2] % Fanout \in Entries
      <4>1. u[2] \in Nat /\ Fanout \in Nat \ {0}
        BY <2>2, LevelFacts DEF Ids
      <4> QED
        BY <4>1, DivMod DEF Entries
    <3> QED
      BY <1>3, <2>1, <2>4, <3>1 DEF p
  <2>5. CASE p # t
    BY <1>4, <2>1, <2>5 DEF p
  <2> QED
    BY <2>3, <2>4, <2>5
<1>9. NoDanglingEntry'
  <2> SUFFICES ASSUME NEW u \in DOMAIN tables, NEW k \in Entries,
                      IsTable(tables'[u][k], u[1])
               PROVE  Child(u, k) \in DOMAIN tables \ {freeing'}
    BY <1>2 DEF NoDanglingEntry, Entries
  <2>1. ~(u = t /\ k = i)
    BY <1>3, <1>5
  <2>2. tables'[u][k] = tables[u][k]
    BY <1>3, <1>4, <2>1
  <2>3. Child(u, k) \in DOMAIN tables /\ Child(u, k) # <<>>
    BY <2>2 DEF TablesSound, NoDanglingEntry, Entries, Child
  <2>4. u \in Ids /\ u[1] # MaxLevel
    <3>1. u \in Ids /\ u[1] \in Nat
      BY LevelFacts DEF TreeType, Ids
    <3> QED
      BY <3>1, LevelFacts DEF IsTable
  <2>5. ParentId(Child(u, k)) = u /\ Child(u, k)[2] % Fanout = k
    BY <2>4, ChildFacts DEF Entries
  <2>6. CASE IsTable(tables[t][i], t[1])
    BY <1>7, <2>1, <2>3, <2>5, <2>6
  <2>7. CASE ~IsTable(tables[t][i], t[1])
    BY <2>3, <2>7
  <2> QED
    BY <2>6, <2>7
<1>10. BlocksAligned'
  <2> SUFFICES ASSUME NEW u \in DOMAIN tables, NEW k \in Entries,
                      Valid(tables'[u][k]), ~IsTable(tables'[u][k], u[1])
               PROVE  u[1] > 0 /\ tables'[u][k].out % Cover[u[1]] = 0
    BY <1>2 DEF BlocksAligned, Entries
  <2>1. CASE u = t /\ k = i
    BY <1>3, <2>1 DEF Leaf
  <2>2. CASE ~(u = t /\ k = i)
    <3>1. tables'[u][k] = tables[u][k]
      BY <1>3, <1>4, <2>2
    <3> QED
      BY <3>1 DEF TablesSound, BlocksAligned, Entries
  <2> QED
    BY <2>1, <2>2
<1> QED
  BY <1>2, <1>6, <1>8, <1>9, <1>10 DEF TablesSound

\* Of a table and one linked to it both are under the one being freed, or none.
LEMMA UnderTogether ==
  ASSUME TreeType, freeing \in DOMAIN tables,
         NEW u \in DOMAIN tables, NEW c \in DOMAIN tables, c[1] = u[1] + 1,
         ParentId(c) = u, c # freeing
  PROVE  u \in Under(freeing) <=> c \in Under(freeing)
<1> DEFINE f == freeing
<1>1. /\ f \in Ids /\ f[1] \in Levels /\ f[1] \in Nat
      /\ u \in Ids /\ c \in Ids /\ u[1] \in Nat /\ c[1] \in Nat
  BY LevelFacts DEF TreeType, Ids
<1>2. c \in DOMAIN tables /\ u \in DOMAIN tables /\ c # f
  OBVIOUS
<1> HIDE DEF f
<1>3. CASE f[1] < c[1]
  <2>1. f[1] <= c[1] /\ u[1] >= f[1] /\ c[1] >= f[1]
    BY <1>1, <1>3
  <2>2. RegionOf(c, f[1]) = RegionOf(u, f[1])
    BY <1>1, <1>3, <2>1, RegionFacts
  <2> QED
    BY <1>2, <2>1, <2>2 DEF Under, f
<1>4. CASE f[1] = c[1]
  <2>1. RegionOf(c, f[1]) = c[2]
    <3>1. f[1] <= c[1]
      BY <1>1, <1>4
    <3> QED
      BY <1>1, <1>4, <3>1, RegionFacts
  <2>2. f = <<f[1], f[2]>> /\ c = <<c[1], c[2]>>
    BY <1>1 DEF Ids
  <2>3. ~(u[1] >= f[1])
    BY <1>1, <1>4
  <2> QED
    BY <1>2, <1>4, <2>1, <2>2, <2>3 DEF Under, f
<1>5. CASE f[1] > c[1]
  <2>1. ~(u[1] >= f[1]) /\ ~(c[1] >= f[1])
    BY <1>1, <1>5
  <2> QED
    BY <2>1 DEF Under, f
<1> QED
  BY <1>1, <1>3, <1>4, <1>5

\* The tables under the one being freed are given back.
LEMMA FreeTree ==
  ASSUME TreeType, TablesSound, freeing # <<>>, freeing \in DOMAIN tables,
         freeing[1] # 0, freeing' = <<>>,
         tables' = [u \in DOMAIN tables \ Under(freeing) |-> tables[u]]
  PROVE  /\ TreeType' /\ TablesSound'
         /\ \A u \in DOMAIN tables : u[1] < freeing[1] => u \in DOMAIN tables'
<1> DEFINE f == freeing
<1>1. f \in Ids /\ f[1] \in Levels /\ f[1] \in Nat /\ f[1] # 0
  BY LevelFacts DEF TreeType, Ids
<1>2. DOMAIN tables' = DOMAIN tables \ Under(f)
  OBVIOUS
<1>3. \A u \in DOMAIN tables' : u \in DOMAIN tables /\ tables'[u] = tables[u]
  OBVIOUS
<1> HIDE DEF f
<1>5. ASSUME NEW u \in DOMAIN tables, NEW c \in DOMAIN tables, c[1] = u[1] + 1,
             ParentId(c) = u, c # f
      PROVE  u \in Under(f) <=> c \in Under(f)
  BY <1>5, UnderTogether DEF f
<1>6. TreeType'
  BY <1>2, <1>3 DEF TreeType
<1>7. NoTableLost'
  <2> SUFFICES ASSUME NEW u \in DOMAIN tables', u # <<0, 0>>
               PROVE  /\ <<u[1] - 1, u[2] \div Fanout>> \in DOMAIN tables'
                      /\ IsTable(tables'[<<u[1] - 1, u[2] \div Fanout>>][u[2] % Fanout], u[1] - 1)
    BY DEF NoTableLost, Parent
  <2> DEFINE p == <<u[1] - 1, u[2] \div Fanout>>
  <2>1. u \in DOMAIN tables /\ u \notin Under(f)
    BY <1>2
  <2>2. p \in DOMAIN tables /\ IsTable(tables[p][u[2] % Fanout], u[1] - 1)
    BY <2>1 DEF TablesSound, NoTableLost, Parent, f
  <2>3. p[1] = u[1] - 1 /\ p = ParentId(u) /\ u \in Ids
    BY <2>1 DEF TreeType, ParentId
  <2> HIDE DEF p
  <2>4. u[1] = p[1] + 1
    <3>1. u[1] \in Nat
      BY <2>3, LevelFacts DEF Ids
    <3> QED
      BY <2>3, <3>1
  <2>5. u # f
    <3>1. f[1] >= f[1] /\ f[1] <= f[1]
      BY <1>1
    <3>2. RegionOf(f, f[1]) = f[2]
      BY <1>1, <3>1, RegionFacts
    <3>3. CASE u = f
      BY <2>1, <3>1, <3>2, <3>3 DEF Under
    <3> QED
      BY <3>3
  <2>6. p \notin Under(f)
    BY <1>5, <2>1, <2>2, <2>3, <2>4, <2>5
  <2>7. p \in DOMAIN tables' /\ tables'[p] = tables[p]
    BY <1>2, <1>3, <2>2, <2>6
  <2> QED
    BY <2>2, <2>7 DEF p
<1>8. NoDanglingEntry'
  <2> SUFFICES ASSUME NEW u \in DOMAIN tables', NEW k \in Entries,
                      IsTable(tables'[u][k], u[1])
               PROVE  Child(u, k) \in DOMAIN tables' \ {<<>>}
    BY DEF NoDanglingEntry, Entries
  <2>1. u \in DOMAIN tables /\ u \notin Under(f) /\ tables'[u] = tables[u]
    BY <1>2, <1>3
  <2> DEFINE c == Child(u, k)
  <2>2. c \in DOMAIN tables /\ c # f /\ c # <<>>
    BY <2>1 DEF TablesSound, NoDanglingEntry, Entries, Child, f
  <2>3. u \in Ids /\ u[1] # MaxLevel
    <3>1. u \in Ids /\ u[1] \in Nat
      BY <2>1, LevelFacts DEF TreeType, Ids
    <3> QED
      BY <3>1, LevelFacts DEF IsTable
  <2>4. c[1] = u[1] + 1 /\ ParentId(c) = u
    BY <2>3, ChildFacts DEF Entries
  <2> HIDE DEF c
  <2>5. c \notin Under(f)
    BY <1>5, <2>1, <2>2, <2>4
  <2> QED
    BY <1>2, <2>2, <2>5 DEF c
<1>9. BlocksAligned'
  BY <1>3 DEF TablesSound, BlocksAligned
<1>10. ASSUME NEW u \in DOMAIN tables, u[1] < f[1]
       PROVE  u \in DOMAIN tables'
  <2>1. u[1] \in Nat
    BY LevelFacts DEF TreeType, Ids
  <2>2. ~(u[1] >= f[1])
    BY <1>1, <1>10, <2>1
  <2> QED
    BY <1>2, <2>2 DEF Under
<1> QED
  BY <1>6, <1>7, <1>8, <1>9, <1>10 DEF TablesSound, f

-----------------------------------------------------------------------------
(* Every action preserves the invariant. *)

\* What a call that runs knows.
LEMMA AtWork ==
  ASSUME IInv, op.kind # "none"
  PROVE  /\ op \in Ops /\ op.va \in Nat /\ op.size \in Nat \ {0} /\ op.pa \in Nat
         /\ op.level \in Levels /\ op.level \in Nat /\ op.va < VaPages
         /\ TargetLevel(op) \in 1 .. MaxLevel /\ TargetLevel(op) \in Levels
         /\ op.level <= TargetLevel(op)
         /\ Fits(op, TargetLevel(op))
         /\ Here \in DOMAIN tables /\ Here[1] = op.level
         /\ Index(op.va, op.level) \in Entries
         /\ Current = tables[Here][Index(op.va, op.level)] /\ Current \in Descriptors
<1>1. /\ op \in Ops /\ op.va \in Nat /\ op.size \in Nat \ {0} /\ op.pa \in Nat
      /\ op.level \in Levels /\ op.va + op.size <= VaPages
      /\ Here \in DOMAIN tables /\ op.level <= TargetLevel(op)
  BY DEF IInv, TypeInv, CallInv, Ops
<1>2. op.level \in Nat /\ op.va < VaPages
  <2>1. VaPages \in Nat
    BY MmuAssumption
  <2>2. op.level \in Nat
    BY <1>1, LevelFacts
  <2> QED
    BY <1>1, <2>1, <2>2
<1>3. TargetLevel(op) \in 1 .. MaxLevel /\ Fits(op, TargetLevel(op))
  BY <1>1, TargetFacts
<1>4. TargetLevel(op) \in Levels
  BY <1>3, LevelFacts DEF Levels
<1>5. Index(op.va, op.level) \in Entries
  BY <1>1, IndexInTable DEF Entries
<1>6. Here[1] = op.level
  BY DEF Here, TableAt
<1>7. Current = tables[Here][Index(op.va, op.level)]
  BY <1>1 DEF Current, Entry, Here
<1>8. tables[Here] \in [Entries -> Descriptors]
  BY <1>1 DEF IInv, TypeInv
<1> QED
  BY <1>1, <1>2, <1>3, <1>4, <1>5, <1>6, <1>7, <1>8

LEMMA InitIInv == Init => IInv
<1> SUFFICES ASSUME Init
             PROVE  IInv
  OBVIOUS
<1>1. /\ DOMAIN tables = {<<0, 0>>} /\ tables[<<0, 0>>] = NullTable
      /\ op = Idle /\ freeing = <<>> /\ panic = "none"
  BY DEF Init
<1>2. NullTable \in [Entries -> Descriptors] /\ \A i \in Entries : NullTable[i] = Null
  BY DEF NullTable, Null, Entries, Descriptors
<1>3. Idle \in Ops
  BY LevelFacts DEF Idle, Ops
<1>4. TypeInv
  <2>1. <<0, 0>> \in Ids
    BY LevelFacts DEF Ids
  <2> QED
    BY <1>1, <1>2, <1>3, <2>1 DEF TypeInv
<1>5. CallInv
  <2>1. op.kind = "none"
    BY <1>1 DEF Idle
  <2> QED
    BY <1>1, <2>1 DEF CallInv
<1>6. ~Valid(Null) /\ ~IsTable(Null, 0)
  BY DEF Valid, IsTable, Null
<1>7. TablesSound
  <2>1. <<0, 0>>[1] = 0
    OBVIOUS
  <2>2. NoTableLost
    BY <1>1 DEF NoTableLost
  <2>3. NoDanglingEntry
    BY <1>1, <1>2, <1>6, <2>1 DEF NoDanglingEntry, Entries
  <2>4. BlocksAligned
    BY <1>1, <1>2, <1>6 DEF BlocksAligned, Entries
  <2> QED
    BY <2>2, <2>3, <2>4 DEF TablesSound
<1> QED
  BY <1>4, <1>5, <1>7 DEF IInv

\* A call begins at the top table.
LEMMA BeginIInv ==
  ASSUME IInv, op.kind = "none", UNCHANGED <<tables, freeing, panic>>,
         op' \in Ops, op'.kind # "none", op'.level = 0, op'.size # 0,
         op'.va + op'.size <= VaPages, op'.kind = "unmap" => op'.pa = 0
  PROVE  IInv'
<1>1. op'.va \in Nat /\ op'.size \in Nat /\ VaPages \in Nat
  BY MmuAssumption DEF Ops
<1>2. op'.va < VaPages
  BY <1>1
<1>3. Here' = <<0, 0>>
  BY <1>1, <1>2, TopTable DEF Here, TableAt
<1>4. TargetLevel(op') \in 1 .. MaxLevel
  BY TargetFacts
<1>5. op'.level <= TargetLevel(op')
  BY <1>4, LevelFacts
<1>6. freeing' = <<>> /\ freeing = <<>> /\ tables' = tables /\ panic' = panic
  BY DEF IInv, CallInv
<1>7. TargetLevel(op)' = TargetLevel(op')
  BY DEF TargetLevel, Fits
<1>8. CallInv'
  BY <1>3, <1>5, <1>6, <1>7 DEF CallInv, IInv
<1>9. TypeInv'
  BY <1>6 DEF TypeInv, IInv
<1>10. TablesSound'
  BY <1>6 DEF IInv, TablesSound, NoTableLost, NoDanglingEntry, BlocksAligned, Parent
<1> QED
  BY <1>8, <1>9, <1>10 DEF IInv

LEMMA MapIInv ==
  ASSUME IInv, NEW va \in Va, NEW size \in 1 .. VaPages, NEW delta \in Deltas,
         NEW attr \in Attrs, Map(va, delta, size, attr)
  PROVE  IInv'
<1>1. va \in Nat /\ delta \in Nat /\ size \in Nat /\ size # 0
  BY MmuAssumption DEF Va
<1>2. op' = [kind |-> "map", va |-> va, pa |-> va + delta, size |-> size,
            attr |-> attr, level |-> 0]
  BY DEF Map
<1>3. op' \in Ops
  BY <1>1, <1>2, LevelFacts DEF Ops
<1> QED
  BY <1>1, <1>2, <1>3, BeginIInv DEF Map

LEMMA UnmapIInv ==
  ASSUME IInv, NEW va \in Va, NEW size \in 1 .. VaPages, Unmap(va, size)
  PROVE  IInv'
<1>1. va \in Nat /\ size \in Nat /\ size # 0
  BY MmuAssumption DEF Va
<1>2. op' = [kind |-> "unmap", va |-> va, pa |-> 0, size |-> size,
            attr |-> NoAttr, level |-> 0]
  BY DEF Unmap, Idle
<1>3. op' \in Ops
  BY <1>1, <1>2, LevelFacts DEF Ops
<1>4. op.kind = "none" /\ va + size <= VaPages /\ UNCHANGED <<tables, freeing, panic>>
  BY DEF Unmap
<1> QED
  BY <1>1, <1>2, <1>3, <1>4, BeginIInv

\* A call goes one level down.
LEMMA DeeperIInv ==
  ASSUME IInv, op.kind # "none", op.level < TargetLevel(op), Deeper,
         TreeType', TablesSound', UNCHANGED panic, freeing' = <<>>,
         DOMAIN tables \subseteq DOMAIN tables',
         TableAt(op.va, op.level + 1) \in DOMAIN tables'
  PROVE  IInv'
<1>1. /\ op \in Ops /\ op.level \in Nat /\ op.level \in Levels
      /\ TargetLevel(op) \in Levels /\ TargetLevel(op) \in Nat /\ op.size # 0
  BY AtWork, LevelFacts
<1>2. op.level + 1 \in Levels /\ op.level + 1 <= TargetLevel(op)
  <2>1. op.level # MaxLevel
    BY <1>1, LevelFacts
  <2> QED
    BY <1>1, <2>1, LevelFacts
<1>3. op' = [op EXCEPT !.level = op.level + 1]
  BY DEF Deeper
<1>4. /\ op' \in Ops /\ op'.kind = op.kind /\ op'.va = op.va /\ op'.pa = op.pa
      /\ op'.size = op.size /\ op'.level = op.level + 1
  BY <1>1, <1>2, <1>3 DEF Ops
<1>5. TargetLevel(op') = TargetLevel(op)
  BY <1>1, <1>4, SameTarget
<1>6. TargetLevel(op)' = TargetLevel(op')
  BY DEF TargetLevel, Fits
<1>7. Here' = TableAt(op.va, op.level + 1)
  BY <1>4 DEF Here, TableAt
<1>8. CallInv'
  BY <1>2, <1>4, <1>5, <1>6, <1>7 DEF IInv, CallInv
<1>9. TypeInv'
  BY <1>4 DEF IInv, TypeInv, TreeType
<1> QED
  BY <1>8, <1>9 DEF IInv

\* A call goes on after n bytes, or returns.
LEMMA AdvanceIInv ==
  ASSUME IInv, op.kind # "none", NEW n \in Nat \ {0}, n <= op.size, Advance(n),
         TreeType', TablesSound', UNCHANGED panic, freeing' = <<>>,
         <<0, 0>> \in DOMAIN tables'
  PROVE  IInv'
<1>1. /\ op \in Ops /\ op.va \in Nat /\ op.size \in Nat /\ op.pa \in Nat
      /\ op.va + op.size <= VaPages /\ VaPages \in Nat
      /\ op.kind = "unmap" => op.pa = 0
  BY AtWork, MmuAssumption DEF IInv, CallInv
<1>2. TypeInv' /\ CallInv'
  <2>1. CASE op.size = n
    <3>1. op' = Idle
      BY <2>1 DEF Advance
    <3>2. Idle \in Ops /\ Idle.kind = "none"
      BY LevelFacts DEF Idle, Ops
    <3> QED
      BY <3>1, <3>2 DEF IInv, TypeInv, CallInv, TreeType
  <2>2. CASE op.size # n
    <3>1. op' = [op EXCEPT !.va = op.va + n, !.size = op.size - n, !.level = 0,
                           !.pa = IF op.kind = "map" THEN op.pa + n ELSE 0]
      BY <2>2 DEF Advance
    <3>2. /\ op'.kind = op.kind /\ op'.va = op.va + n /\ op'.size = op.size - n
          /\ op'.level = 0 /\ op'.pa = IF op.kind = "map" THEN op.pa + n ELSE 0
      BY <1>1, <3>1 DEF Ops
    <3>3. op.size - n \in Nat \ {0} /\ op.va + n \in Nat /\ op.va + n < VaPages
      BY <1>1, <2>2
    <3>4. op' \in Ops
      <4>1. (IF op.kind = "map" THEN op.pa + n ELSE 0) \in Nat
        BY <1>1
      <4> QED
        BY <1>1, <3>1, <3>3, <4>1, LevelFacts DEF Ops
    <3>5. TargetLevel(op') \in 1 .. MaxLevel
      BY <3>2, <3>3, <3>4, TargetFacts
    <3>6. TargetLevel(op)' = TargetLevel(op')
      BY DEF TargetLevel, Fits
    <3>7. Here' = <<0, 0>>
      BY <3>2, <3>3, TopTable DEF Here, TableAt
    <3>8. op'.level <= TargetLevel(op')
      BY <3>2, <3>5, LevelFacts
    <3>9. op'.va + op'.size <= VaPages /\ op'.size # 0
      BY <1>1, <3>2, <3>3
    <3>10. op'.kind = "unmap" => op'.pa = 0
      BY <3>2
    <3>11. CallInv'
      BY <3>2, <3>6, <3>7, <3>8, <3>9, <3>10 DEF CallInv
    <3> QED
      BY <3>4, <3>11 DEF IInv, TypeInv, TreeType
  <2> QED
    BY <2>1, <2>2
<1> QED
  BY <1>2 DEF IInv

LEMMA SoundFrame ==
  ASSUME TablesSound, TreeType, UNCHANGED <<tables, freeing>>
  PROVE  TablesSound' /\ TreeType'
  BY DEF TablesSound, NoTableLost, NoDanglingEntry, BlocksAligned, Parent, Under, TreeType

\* A core that has stopped keeps all else.
LEMMA PanicIInv ==
  ASSUME IInv, NEW what \in {"alloc", "free", "type"}, Panic(what)
  PROVE  IInv'
<1>1. TablesSound'
  BY SoundFrame DEF Panic, IInv, TypeInv, TreeType
<1>2. TargetLevel(op)' = TargetLevel(op) /\ Here' = Here
  BY DEF Panic, TargetLevel, Fits, Here, TableAt
<1>3. CallInv'
  BY <1>2 DEF Panic, IInv, CallInv
<1>4. TypeInv'
  BY DEF Panic, IInv, TypeInv
<1> QED
  BY <1>1, <1>3, <1>4 DEF IInv

LEMMA DescendIInv ==
  ASSUME IInv, Descend
  PROVE  IInv'
<1>1. op.kind # "none" /\ freeing = <<>> /\ op.level < TargetLevel(op)
  BY DEF Descend, Descending, Working
<1>2. /\ IsTable(Current, op.level) /\ Deeper
      /\ tables' = tables /\ freeing' = freeing /\ panic' = panic
  BY DEF Descend
<1>3. TreeType' /\ TablesSound'
  BY <1>2, SoundFrame DEF IInv, TypeInv, TreeType
<1>4. Child(Here, Index(op.va, op.level)) \in DOMAIN tables
  BY <1>1, <1>2, AtWork DEF IInv, TablesSound, NoDanglingEntry, Entries
<1>5. op.level \in Levels /\ op.level # MaxLevel /\ op.va \in Nat
  BY <1>1, <1>2, AtWork DEF IsTable
<1>6. TableAt(op.va, op.level + 1) \in DOMAIN tables'
  BY <1>2, <1>4, <1>5, NextTable DEF Here
<1> QED
  BY <1>1, <1>2, <1>3, <1>6, DeeperIInv

\* An allocated table is linked, whatever leaves it is filled with.
LEMMA LinkIInv ==
  ASSUME IInv, Descending, ~IsTable(Current, op.level),
         NEW filled \in [Entries -> Descriptors],
         \A k \in Entries : Leaf(filled[k], op.level + 1), Link(filled)
  PROVE  IInv'
<1>1. op.kind # "none" /\ freeing = <<>> /\ op.level < TargetLevel(op)
  BY DEF Descending, Working
<1>2. CASE OutOfTables
  BY <1>2, PanicIInv DEF Link
<1>3. CASE ~OutOfTables
  <2> DEFINE i == Index(op.va, op.level)
  <2>1. /\ op.level \in Levels /\ op.level # MaxLevel /\ op.va \in Nat
        /\ Here \in DOMAIN tables /\ Here[1] = op.level /\ i \in Entries
        /\ Current = tables[Here][i]
    BY <1>1, AtWork, LevelFacts
  <2>2. TableAt(op.va, op.level + 1) = Child(Here, i)
    BY <2>1, NextTable DEF Here
  <2>3. /\ tables' = [t \in DOMAIN tables \cup {Child(Here, i)} |->
                         IF t = Here THEN [tables[t] EXCEPT ![i] = TableDesc]
                         ELSE IF t \in DOMAIN tables THEN tables[t]
                         ELSE filled]
        /\ Deeper /\ freeing' = freeing /\ panic' = panic
    BY <1>3, <2>2 DEF Link
  <2> HIDE DEF i
  <2>4. TreeType /\ TablesSound
    BY DEF IInv, TypeInv, TreeType
  <2>5. TreeType' /\ TablesSound'
    BY <1>1, <2>1, <2>3, <2>4, LinkTree
  <2>6. DOMAIN tables' = DOMAIN tables \cup {Child(Here, i)}
    BY <2>3
  <2> QED
    BY <1>1, <2>2, <2>3, <2>5, <2>6, DeeperIInv
<1> QED
  BY <1>2, <1>3

LEMMA NewTableIInv ==
  ASSUME IInv, NewTable
  PROVE  IInv'
<1>1. Descending /\ ~Valid(Current) /\ Link(NullTable)
  BY DEF NewTable
<1>2. ~IsTable(Current, op.level)
  BY <1>1 DEF Valid, IsTable
<1>3. NullTable \in [Entries -> Descriptors] /\ \A k \in Entries : NullTable[k] = Null
  BY DEF NullTable, Null, Entries, Descriptors
<1>4. Leaf(Null, op.level + 1)
  BY DEF Leaf, Null, Descriptors, Valid, IsTable
<1> QED
  BY <1>1, <1>2, <1>3, <1>4, LinkIInv

\* The blocks a block is split into.
LEMMA SplitLeaves ==
  ASSUME NEW d \in Descriptors, NEW l \in Levels, l # MaxLevel, d.out % Cover[l] = 0,
         NEW k \in Entries
  PROVE  /\ BlockDesc(d.out + k * Cover[l + 1], d.attr, l + 1) \in Descriptors
         /\ Leaf(BlockDesc(d.out + k * Cover[l + 1], d.attr, l + 1), l + 1)
<1> DEFINE c == Cover[l + 1]
           pa == d.out + k * c
<1>1. /\ l + 1 \in Levels /\ l + 1 > 0 /\ c \in Nat \ {0} /\ Cover[l] = Fanout * c
      /\ Fanout \in Nat \ {0} /\ k \in Nat /\ d.out \in Nat /\ d.attr \in Attrs \cup {NoAttr}
  BY LevelFacts, CoverFacts DEF Entries, Descriptors
<1>2. pa \in Nat /\ pa % c = 0
  <2> DEFINE b == Cover[l]
             x == d.out
  <2>1. b \in Nat \ {0} /\ x \in Nat /\ x % b = 0 /\ b = Fanout * c
    BY <1>1, CoverFacts
  <2> HIDE DEF b, c, x
  <2>2. b % c = 0
    BY <1>1, <2>1, MultipleIsMod
  <2>3. x % c = 0 /\ x \in Int
    <3>1. c \in Nat \ {0} /\ b \in Nat \ {0} /\ x \in Int /\ x % b = 0
      BY <1>1, <2>1
    <3> QED
      BY <2>2, <3>1, ModOfMultiple
  <2>4. k * c \in Nat /\ (k * c) % c = 0
    <3>1. k * c \in Nat
      BY <1>1, SMT
    <3>2. k \in Int
      BY <1>1
    <3> QED
      BY <1>1, <3>1, <3>2, MultipleIsMod
  <2> DEFINE y == k * c
  <2>5. y \in Int /\ y \in Nat /\ y % c = 0
    BY <2>4
  <2> HIDE DEF y
  <2>6. (x + y) % c = 0 /\ x + y \in Nat
    BY <1>1, <2>1, <2>3, <2>5, ModSum
  <2> QED
    BY <2>6 DEF x, y
<1> HIDE DEF pa, c
<1>3. BlockDesc(pa, d.attr, l + 1) = [bits |-> IF l + 1 = MaxLevel THEN 3 ELSE 1,
                                      out |-> pa, attr |-> d.attr]
  BY DEF BlockDesc
<1>4. BlockDesc(pa, d.attr, l + 1) \in Descriptors
  BY <1>1, <1>2, <1>3 DEF Descriptors
<1>5. ~IsTable(BlockDesc(pa, d.attr, l + 1), l + 1)
  BY <1>1, <1>3, LevelFacts DEF IsTable
<1>6. Leaf(BlockDesc(pa, d.attr, l + 1), l + 1)
  BY <1>1, <1>2, <1>3, <1>4, <1>5 DEF Leaf, c
<1> QED
  BY <1>4, <1>6 DEF pa, c

LEMMA SplitIInv ==
  ASSUME IInv, Split
  PROVE  IInv'
<1> DEFINE filled == [i \in Entries |->
                        BlockDesc(Current.out + i * Cover[op.level + 1], Current.attr, op.level + 1)]
<1>1. Descending /\ Current.bits = 1 /\ Link(filled)
  BY DEF Split, Entries
<1>2. op.kind # "none" /\ op.level < TargetLevel(op)
  BY <1>1 DEF Descending, Working
<1>3. /\ op.level \in Levels /\ op.level # MaxLevel /\ Here \in DOMAIN tables
      /\ Current = tables[Here][Index(op.va, op.level)] /\ Current \in Descriptors
      /\ Here[1] = op.level /\ Index(op.va, op.level) \in Entries
  BY <1>2, AtWork, LevelFacts
<1>4. ~IsTable(Current, op.level) /\ Valid(Current)
  BY <1>1 DEF IsTable, Valid
<1>5. Current.out % Cover[op.level] = 0
  BY <1>3, <1>4 DEF IInv, TablesSound, BlocksAligned, Entries
<1>6. \A k \in Entries :
        /\ BlockDesc(Current.out + k * Cover[op.level + 1], Current.attr, op.level + 1) \in Descriptors
        /\ Leaf(BlockDesc(Current.out + k * Cover[op.level + 1], Current.attr, op.level + 1), op.level + 1)
  BY <1>3, <1>5, SplitLeaves
<1>7. filled \in [Entries -> Descriptors] /\ \A k \in Entries : Leaf(filled[k], op.level + 1)
  BY <1>6
<1> HIDE DEF filled
<1> QED
  BY <1>1, <1>4, <1>7, LinkIInv

LEMMA SkipIInv ==
  ASSUME IInv, SkipUnmapped
  PROVE  IInv'
<1> DEFINE n == Smaller(op.size, Cover[op.level])
<1>1. Descending /\ Advance(n) /\ UNCHANGED <<tables, freeing, panic>>
  BY DEF SkipUnmapped
<1>2. op.kind # "none" /\ freeing = <<>>
  BY <1>1 DEF Descending, Working
<1>3. n \in Nat \ {0} /\ n <= op.size
  <2>1. op.size \in Nat \ {0} /\ Cover[op.level] \in Nat \ {0}
    BY <1>2, AtWork, CoverFacts
  <2> QED
    BY <2>1 DEF Smaller
<1>4. TreeType' /\ TablesSound' /\ <<0, 0>> \in DOMAIN tables'
  BY <1>1, SoundFrame DEF IInv, TypeInv, TreeType, CallInv
<1> HIDE DEF n
<1> QED
  BY <1>1, <1>2, <1>3, <1>4, AdvanceIInv

\* A store at the target level.
LEMMA StoreIInv ==
  ASSUME IInv, Working, op.level = TargetLevel(op), NEW d, Leaf(d, op.level), Store(d)
  PROVE  IInv'
<1> DEFINE i == Index(op.va, op.level)
<1>1. op.kind # "none" /\ freeing = <<>>
  BY DEF Working
<1>2. /\ op.level \in Levels /\ op.va \in Nat /\ op.size \in Nat \ {0}
      /\ Here \in DOMAIN tables /\ Here[1] = op.level /\ i \in Entries
      /\ Current = tables[Here][i] /\ Fits(op, op.level)
  BY <1>1, AtWork
<1>3. tables' = [tables EXCEPT ![Here][i] = d] /\ panic' = panic
  BY DEF Store
<1>4. TreeType /\ TablesSound /\ <<0, 0>> \in DOMAIN tables
  BY DEF IInv, TypeInv, TreeType, CallInv
<1>5. CASE IsTable(Current, op.level)
  <2>1. op.level # MaxLevel
    BY <1>2, <1>5, LevelFacts DEF IsTable
  <2>2. freeing' = TableAt(op.va, op.level + 1) /\ op' = op
    BY <1>5 DEF Store
  <2>3. TableAt(op.va, op.level + 1) = Child(Here, i)
    BY <1>2, <2>1, NextTable DEF Here
  <2> HIDE DEF i
  <2>4. TreeType' /\ TablesSound' /\ DOMAIN tables' = DOMAIN tables
    BY <1>1, <1>2, <1>3, <1>4, <1>5, <2>2, <2>3, StoreTree
  <2>5. Child(Here, i) \in DOMAIN tables
    BY <1>2, <1>4, <1>5 DEF TablesSound, NoDanglingEntry, Entries
  <2>6. TargetLevel(op)' = TargetLevel(op) /\ Here' = Here /\ TableAt(op.va, op.level + 1)' = TableAt(op.va, op.level + 1)
    BY <2>2 DEF TargetLevel, Fits, Here, TableAt
  <2>7. CallInv'
    BY <1>1, <2>1, <2>2, <2>3, <2>4, <2>5, <2>6 DEF IInv, CallInv
  <2>8. TypeInv'
    BY <1>3, <2>2, <2>4 DEF IInv, TypeInv, TreeType
  <2> QED
    BY <2>4, <2>7, <2>8 DEF IInv
<1>6. CASE ~IsTable(Current, op.level)
  <2>1. Advance(Cover[op.level]) /\ freeing' = <<>>
    BY <1>1, <1>6 DEF Store
  <2> HIDE DEF i
  <2>2. TreeType' /\ TablesSound' /\ DOMAIN tables' = DOMAIN tables
    BY <1>1, <1>2, <1>3, <1>4, <1>6, <2>1, StoreTree
  <2>3. Cover[op.level] \in Nat \ {0} /\ Cover[op.level] <= op.size
    BY <1>2, CoverFacts DEF Fits
  <2> QED
    BY <1>1, <1>3, <1>4, <2>1, <2>2, <2>3, AdvanceIInv
<1> QED
  BY <1>5, <1>6

LEMMA MapStoreIInv ==
  ASSUME IInv, MapStore
  PROVE  IInv'
<1>1. /\ Working /\ op.kind = "map" /\ op.level = TargetLevel(op)
      /\ Store(BlockDesc(op.pa, op.attr, op.level))
  BY DEF MapStore
<1>2. /\ op \in Ops /\ op.level \in 1 .. MaxLevel /\ op.level \in Nat /\ Fits(op, op.level)
  BY <1>1, AtWork
<1>3. BlockDesc(op.pa, op.attr, op.level) = [bits |-> IF op.level = MaxLevel THEN 3 ELSE 1,
                                             out |-> op.pa, attr |-> op.attr]
  BY DEF BlockDesc
<1>4. BlockDesc(op.pa, op.attr, op.level) \in Descriptors
  BY <1>2, <1>3 DEF Descriptors, Ops
<1>5. ~IsTable(BlockDesc(op.pa, op.attr, op.level), op.level)
  BY <1>2, <1>3, LevelFacts DEF IsTable
<1>6. op.pa % Cover[op.level] = 0 /\ op.level > 0
  BY <1>2 DEF Fits
<1>7. Leaf(BlockDesc(op.pa, op.attr, op.level), op.level)
  BY <1>3, <1>4, <1>5, <1>6 DEF Leaf
<1> QED
  BY <1>1, <1>7, StoreIInv

LEMMA UnmapStoreIInv ==
  ASSUME IInv, UnmapStore
  PROVE  IInv'
<1>1. Working /\ op.level = TargetLevel(op)
  BY DEF UnmapStore
<1>2. CASE op.level = MaxLevel /\ ~Valid(Current)
  BY <1>2, PanicIInv DEF UnmapStore
<1>3. CASE ~(op.level = MaxLevel /\ ~Valid(Current))
  <2>1. Store(Null)
    BY <1>3 DEF UnmapStore
  <2>2. Leaf(Null, op.level)
    BY DEF Leaf, Null, Descriptors, Valid, IsTable
  <2> QED
    BY <1>1, <2>1, <2>2, StoreIInv
<1> QED
  BY <1>2, <1>3

LEMMA FreeSubtreeIInv ==
  ASSUME IInv, FreeSubtree
  PROVE  IInv'
<1>1. freeing # <<>>
  BY DEF FreeSubtree
<1>2. CASE ~FreeWorks \/ (\E u \in Under(freeing) : MistakesPage(u))
  BY <1>2, PanicIInv DEF FreeSubtree
<1>3. CASE ~(~FreeWorks \/ (\E u \in Under(freeing) : MistakesPage(u)))
  <2>1. /\ tables' = [u \in DOMAIN tables \ Under(freeing) |-> tables[u]]
        /\ freeing' = <<>> /\ Advance(Cover[op.level]) /\ panic' = panic
    BY <1>3 DEF FreeSubtree, Frees
  <2>2. /\ op.kind # "none" /\ freeing = TableAt(op.va, op.level + 1)
        /\ freeing \in DOMAIN tables /\ op.level = TargetLevel(op)
        /\ TreeType /\ TablesSound /\ <<0, 0>> \in DOMAIN tables
    BY <1>1 DEF IInv, CallInv, TypeInv, TreeType
  <2>3. op.level \in Nat /\ op.level \in Levels /\ Fits(op, op.level)
    BY <2>2, AtWork
  <2>4. freeing[1] = op.level + 1 /\ freeing[1] # 0 /\ 0 < freeing[1]
    BY <2>2, <2>3 DEF TableAt
  <2>5. /\ TreeType' /\ TablesSound'
        /\ \A u \in DOMAIN tables : u[1] < freeing[1] => u \in DOMAIN tables'
    BY <1>1, <2>1, <2>2, <2>4, FreeTree
  <2>6. <<0, 0>> \in DOMAIN tables'
    <3>1. <<0, 0>>[1] = 0
      OBVIOUS
    <3> QED
      BY <2>2, <2>4, <2>5, <3>1
  <2>7. Cover[op.level] \in Nat \ {0} /\ Cover[op.level] <= op.size
    BY <2>2, <2>3, CoverFacts, AtWork DEF Fits
  <2> QED
    BY <2>1, <2>2, <2>5, <2>6, <2>7, AdvanceIInv
<1> QED
  BY <1>2, <1>3

LEMMA NextIInv == IInv /\ [Next]_vars => IInv'
<1> SUFFICES ASSUME IInv, [Next]_vars
             PROVE  IInv'
  OBVIOUS
<1>1. CASE Step
  BY <1>1, DescendIInv, NewTableIInv, SplitIInv, SkipIInv, MapStoreIInv, UnmapStoreIInv,
     FreeSubtreeIInv DEF Step
<1>2. CASE \E va \in Va, size \in 1 .. VaPages :
             \/ \E delta \in Deltas, attr \in Attrs : Map(va, delta, size, attr)
             \/ Unmap(va, size)
  BY <1>2, MapIInv, UnmapIInv
<1>3. CASE UNCHANGED vars
  <2>1. tables' = tables /\ op' = op /\ freeing' = freeing /\ panic' = panic
    BY <1>3 DEF vars
  <2>2. TablesSound'
    BY <2>1, SoundFrame DEF IInv, TypeInv, TreeType
  <2>3. TargetLevel(op)' = TargetLevel(op) /\ Here' = Here
    BY <2>1 DEF TargetLevel, Fits, Here, TableAt
  <2>4. CallInv'
    BY <2>1, <2>3 DEF IInv, CallInv
  <2>5. TypeInv'
    BY <2>1 DEF IInv, TypeInv
  <2> QED
    BY <2>2, <2>4, <2>5 DEF IInv
<1> QED
  BY <1>1, <1>2, <1>3 DEF Next

-----------------------------------------------------------------------------
(* The theorems of the invariant. *)

\* The inductive invariant.
THEOREM Invariance == Spec => []IInv
  BY InitIInv, NextIInv, PTL DEF Spec

\* The shape of the tables and of the call.
THEOREM TypeCorrect == Spec => []TypeOK
<1>1. ASSUME IInv
      PROVE  TypeOK
  <2>1. \A t \in DOMAIN tables :
          /\ t[1] \in Levels /\ DOMAIN tables[t] = 0 .. Fanout - 1
          /\ \A i \in 0 .. Fanout - 1 : tables[t][i].bits \in {0, 1, 3}
    BY <1>1 DEF IInv, TypeInv, Ids, Entries, Descriptors
  <2>2. op.kind \in {"none", "map", "unmap"} /\ op.level \in Levels
    BY <1>1 DEF IInv, TypeInv, Ops
  <2>3. op.size \in 0 .. VaPages - op.va
    <3>1. VaPages \in Nat
      BY MmuAssumption
    <3>2. CASE op.kind = "none"
      BY <1>1, <3>1, <3>2 DEF IInv, CallInv, Idle
    <3>3. CASE op.kind # "none"
      BY <1>1, <3>1, <3>3 DEF IInv, CallInv, TypeInv, Ops
    <3> QED
      BY <3>2, <3>3
  <2> QED
    BY <1>1, <2>1, <2>2, <2>3 DEF TypeOK, IInv, TypeInv, CallInv
<1>2. IInv => TypeOK
  BY <1>1
<1> QED
  BY <1>2, Invariance, PTL

\* After every store the tables form a tree that a walker may follow and that
\* the driver can free, whatever is mapped over what, and whether or not
\* callers unmap with care: no table is lost, no entry dangles, and every
\* block is aligned to its size as split_block asserts.
THEOREM TablesAlwaysSound == Spec => []TablesSound
<1>1. IInv => TablesSound
  BY DEF IInv
<1> QED
  BY <1>1, Invariance, PTL

-----------------------------------------------------------------------------
(* Where a walk ends. *)

\* The walk of page p reaches its table at level l.
On(p, l) == \A k \in 0 .. l - 1 : IsTable(Entry(p, k), k)

\* What a walk makes of the entry it ends at.
Result(d, p, l) == IF Valid(d) THEN [pa |-> d.out + (p % Cover[l]), attr |-> d.attr] ELSE None

Look(p, l, below) ==
  LET d == Entry(p, l)
  IN  IF ~Valid(d) THEN None
      ELSE IF IsTable(d, l) THEN below
      ELSE [pa |-> d.out + (p % Cover[l]), attr |-> d.attr]

\* The walks from the levels n on exist.
LEMMA WalksExist ==
  ASSUME NEW n \in Levels
  PROVE  \E f : f = [l \in n .. MaxLevel |-> [p \in Va |-> Look(p, l, f[l + 1][p])]]
<1> DEFINE W(f, k) == f = [l \in k .. MaxLevel |-> [p \in Va |-> Look(p, l, f[l + 1][p])]]
           Bad == {k \in Levels : ~ \E f : W(f, k)}
<1>1. ASSUME Bad # {}
      PROVE  FALSE
  <2>1. PICK k \in Bad : \A x \in Bad : x <= k
    <3>1. Bad \in SUBSET Levels
      OBVIOUS
    <3> HIDE DEF Bad
    <3> QED
      BY <1>1, <3>1, HasGreatest
  <2>2. k \in Levels /\ ~ \E f : W(f, k)
    OBVIOUS
  <2>3. \A p, x, y : Look(p, MaxLevel, x) = Look(p, MaxLevel, y)
    BY LevelFacts DEF Look, IsTable
  <2>4. CASE k = MaxLevel
    <3> DEFINE g == [l \in k .. MaxLevel |-> [p \in Va |-> Look(p, MaxLevel, None)]]
    <3>1. \A l \in k .. MaxLevel : l = MaxLevel
      BY <2>4, LevelFacts
    <3>2. \A l \in k .. MaxLevel : g[l] = [p \in Va |-> Look(p, l, g[l + 1][p])]
      <4> SUFFICES ASSUME NEW l \in k .. MaxLevel
                   PROVE  [p \in Va |-> Look(p, MaxLevel, None)] =
                            [p \in Va |-> Look(p, l, g[l + 1][p])]
        OBVIOUS
      <4>1. l = MaxLevel
        BY <3>1
      <4> HIDE DEF g
      <4> QED
        BY <2>3, <4>1
    <3>3. g = [l \in k .. MaxLevel |-> g[l]]
      OBVIOUS
    <3> HIDE DEF g
    <3>4. W(g, k)
      BY <3>2, <3>3
    <3> QED
      BY <2>2, <3>4
  <2>5. CASE k # MaxLevel
    <3>1. k + 1 \in Levels /\ ~(k + 1 <= k) /\ k \in Nat /\ k < MaxLevel
      BY <2>2, <2>5, LevelFacts
    <3>2. k + 1 \notin Bad
      <4> HIDE DEF Bad
      <4> QED
        BY <2>1, <3>1
    <3>3. PICK f : W(f, k + 1)
      BY <3>1, <3>2
    <3>4. \A l \in (k + 1) .. MaxLevel : f[l] = [p \in Va |-> Look(p, l, f[l + 1][p])]
      BY <3>3
    <3> DEFINE g == [l \in k .. MaxLevel |->
                       IF l = k THEN [p \in Va |-> Look(p, k, f[k + 1][p])] ELSE f[l]]
    <3>5. \A l \in k .. MaxLevel : g[l] = [p \in Va |-> Look(p, l, g[l + 1][p])]
      <4> SUFFICES ASSUME NEW l \in k .. MaxLevel
                   PROVE  g[l] = [p \in Va |-> Look(p, l, g[l + 1][p])]
        OBVIOUS
      <4>1. CASE l = k
        <5>1. l + 1 \in k .. MaxLevel /\ l + 1 # k
          BY <3>1, <4>1, LevelFacts
        <5>2. g[l] = [p \in Va |-> Look(p, k, f[k + 1][p])] /\ g[l + 1] = f[k + 1]
          BY <4>1, <5>1
        <5> HIDE DEF g
        <5> QED
          BY <4>1, <5>2
      <4>2. CASE l # k /\ l # MaxLevel
        <5>1. l \in (k + 1) .. MaxLevel /\ l + 1 \in k .. MaxLevel /\ l + 1 # k
          BY <3>1, <4>2, LevelFacts
        <5>2. g[l] = f[l] /\ g[l + 1] = f[l + 1]
          BY <4>2, <5>1
        <5> HIDE DEF g
        <5> QED
          BY <3>4, <5>1, <5>2
      <4>3. CASE l # k /\ l = MaxLevel
        <5>1. l \in (k + 1) .. MaxLevel
          BY <3>1, <4>3, LevelFacts
        <5>2. g[l] = f[l] /\ f[l] = [p \in Va |-> Look(p, l, f[l + 1][p])]
          BY <3>4, <4>3, <5>1
        <5> HIDE DEF g
        <5> QED
          BY <2>3, <4>3, <5>2
      <4> QED
        BY <4>1, <4>2, <4>3
    <3>6. g = [l \in k .. MaxLevel |-> g[l]]
      OBVIOUS
    <3> HIDE DEF g
    <3>7. W(g, k)
      BY <3>5, <3>6
    <3> QED
      BY <2>2, <3>7
  <2> QED
    BY <2>4, <2>5
<1>2. n \notin Bad
  BY <1>1
<1> QED
  BY <1>2

LEMMA WalkUnfolds ==
  \A l \in Levels : \A p \in Va : WalkFrom[l][p] = Look(p, l, WalkFrom[l + 1][p])
<1>1. \E f : f = [l \in Levels |-> [p \in Va |-> Look(p, l, f[l + 1][p])]]
  BY WalksExist, LevelFacts DEF Levels
<1>2. WalkFrom = [l \in Levels |-> [p \in Va |-> Look(p, l, WalkFrom[l + 1][p])]]
  BY <1>1, Zenon DEF WalkFrom, Look
<1> QED
  BY <1>2

LEMMA WalkIs ==
  \A p \in Va, e \in Levels :
    On(p, e) /\ ~IsTable(Entry(p, e), e) => Walk(p) = Result(Entry(p, e), p, e)
<1> SUFFICES ASSUME NEW p \in Va, NEW e \in Levels, On(p, e), ~IsTable(Entry(p, e), e)
             PROVE  Walk(p) = Result(Entry(p, e), p, e)
  OBVIOUS
<1> DEFINE Bad == {l \in Levels : l <= e /\ Walk(p) # WalkFrom[l][p]}
<1>1. ASSUME Bad # {}
      PROVE  FALSE
  <2>1. Bad \in SUBSET Nat
    BY LevelFacts
  <2>2. PICK l \in Bad : \A x \in Bad : l <= x
    <3> HIDE DEF Bad
    <3> QED
      BY <1>1, <2>1, HasLeast
  <2>3. l \in Levels /\ l <= e /\ Walk(p) # WalkFrom[l][p]
    OBVIOUS
  <2>4. l # 0
    BY <2>3 DEF Walk
  <2>5. l - 1 \in Levels /\ l - 1 <= e /\ ~(l <= l - 1) /\ l - 1 \in 0 .. e - 1 /\ (l - 1) + 1 = l
    BY <2>3, <2>4, LevelFacts
  <2>6. l - 1 \notin Bad
    <3> HIDE DEF Bad
    <3> QED
      BY <2>2, <2>5
  <2>7. Walk(p) = WalkFrom[l - 1][p]
    BY <2>5, <2>6
  <2>8. IsTable(Entry(p, l - 1), l - 1)
    BY <2>5 DEF On
  <2>9. Valid(Entry(p, l - 1))
    BY <2>8 DEF IsTable, Valid
  <2>10. WalkFrom[l - 1][p] = Look(p, l - 1, WalkFrom[l][p])
    BY <2>5, WalkUnfolds
  <2>11. WalkFrom[l - 1][p] = WalkFrom[l][p]
    BY <2>8, <2>9, <2>10 DEF Look
  <2> QED
    BY <2>3, <2>7, <2>11
<1>2. Walk(p) = WalkFrom[e][p]
  <2>1. e <= e
    BY LevelFacts
  <2>2. e \notin Bad
    BY <1>1
  <2> QED
    BY <2>1, <2>2
<1>3. WalkFrom[e][p] = Look(p, e, WalkFrom[e + 1][p])
  BY WalkUnfolds
<1> QED
  BY <1>2, <1>3 DEF Look, Result

LEMMA WalkIsNext ==
  (\A p \in Va, e \in Levels :
     On(p, e) /\ ~IsTable(Entry(p, e), e) => Walk(p) = Result(Entry(p, e), p, e))'
  BY WalkIs, PTL

LEMMA WalkEnds ==
  ASSUME NEW p \in Va
  PROVE  \E e \in Levels : On(p, e) /\ ~IsTable(Entry(p, e), e)
<1> DEFINE T == {l \in Levels : On(p, l)}
<1>1. On(p, 0)
  BY DEF On
<1>2. T \in SUBSET Levels /\ T # {}
  BY <1>1, LevelFacts
<1>3. PICK e \in T : \A x \in T : x <= e
  <2> HIDE DEF T
  <2> QED
    BY <1>2, HasGreatest
<1>4. e \in Levels /\ On(p, e)
  OBVIOUS
<1>5. CASE IsTable(Entry(p, e), e)
  <2>1. e \in Nat /\ e + 1 \in Levels /\ ~(e + 1 <= e)
    BY <1>4, <1>5, LevelFacts DEF IsTable
  <2>2. On(p, e + 1)
    <3> SUFFICES ASSUME NEW k \in 0 .. (e + 1) - 1
                 PROVE  IsTable(Entry(p, k), k)
      BY DEF On
    <3>1. k = e \/ k \in 0 .. e - 1
      BY <2>1
    <3> QED
      BY <1>4, <1>5, <3>1 DEF On
  <2>3. e + 1 \in T
    BY <2>1, <2>2
  <2> QED
    BY <1>3, <2>1, <2>3
<1> QED
  BY <1>4, <1>5

\* A walk whose entries stay as they are stays as it is.
LEMMA SameWalk ==
  ASSUME NEW p \in Va, NEW e \in Levels, On(p, e), ~IsTable(Entry(p, e), e),
         \A k \in 0 .. e : Entry(p, k)' = Entry(p, k)
  PROVE  Walk(p)' = Walk(p)
<1>1. e \in Nat /\ e \in 0 .. e
  BY LevelFacts
<1>2. Entry(p, e)' = Entry(p, e)
  BY <1>1
<1>3. On(p, e)'
  <2> SUFFICES ASSUME NEW k \in 0 .. e - 1
               PROVE  IsTable(Entry(p, k)', k)
    BY DEF On, IsTable
  <2>1. k \in 0 .. e
    BY <1>1
  <2> QED
    BY <2>1 DEF On
<1>4. ~IsTable(Entry(p, e), e)'
  BY <1>2 DEF IsTable
<1>5. Walk(p)' = Result(Entry(p, e), p, e)'
  BY <1>3, <1>4, WalkIsNext
<1>6. Result(Entry(p, e), p, e)' = Result(Entry(p, e), p, e)
  BY <1>2 DEF Result, Valid, None
<1>7. Walk(p) = Result(Entry(p, e), p, e)
  BY WalkIs
<1> QED
  BY <1>5, <1>6, <1>7

\* Two addresses under one entry at a level are under one entry above.
Together(p, q, l) == p \div Cover[l] = q \div Cover[l]

LEMMA TogetherAbove ==
  ASSUME NEW p \in Nat, NEW q \in Nat, NEW l \in Levels, NEW k \in Levels, k <= l,
         Together(p, q, l)
  PROVE  Together(p, q, k)
<1> DEFINE c == Cover[l]
<1>1. PICK n \in Nat \ {0} : Cover[k] = n * c
  BY CoverDivides
<1>2. c \in Nat \ {0} /\ p \div c = q \div c
  BY CoverFacts DEF Together
<1> HIDE DEF c
<1>3. (p \div c) \div n = p \div (n * c) /\ (q \div c) \div n = q \div (n * c)
  BY <1>2, DivTwice
<1> QED
  BY <1>1, <1>2, <1>3 DEF Together

LEMMA EntryAt ==
  ASSUME NEW p \in Nat, NEW q \in Nat, NEW k \in Levels, NEW l \in Levels
  PROVE  /\ TableAt(p, k) = TableAt(q, l) /\ Index(p, k) = Index(q, l) <=> k = l /\ Together(p, q, l)
         /\ TableAt(p, k) = TableAt(q, l) => k = l
<1>1. TableAt(p, k) = TableAt(q, l) => k = l
  BY DEF TableAt
<1>2. ASSUME k = l
      PROVE  TableAt(p, k) = TableAt(q, l) /\ Index(p, k) = Index(q, l) <=> Together(p, q, l)
  <2> DEFINE c == Cover[l]
             a == p \div c
             b == q \div c
  <2>1. c \in Nat \ {0} /\ Fanout \in Nat \ {0}
    BY CoverFacts, LevelFacts
  <2>2. a \in Nat /\ b \in Nat
    <3> HIDE DEF c
    <3> QED
      BY <2>1, DivMod
  <2>3. a \div Fanout = p \div (Fanout * c) /\ b \div Fanout = q \div (Fanout * c)
    <3> HIDE DEF c
    <3> QED
      BY <2>1, DivTwice
  <2>4. /\ TableAt(p, k) = <<l, a \div Fanout>> /\ TableAt(q, l) = <<l, b \div Fanout>>
        /\ Index(p, k) = a % Fanout /\ Index(q, l) = b % Fanout
    BY <1>2, <2>3 DEF TableAt, Index
  <2>5. Together(p, q, l) <=> a = b
    BY DEF Together
  <2> HIDE DEF a, b, c
  <2>6. /\ a = (a \div Fanout) * Fanout + (a % Fanout)
        /\ b = (b \div Fanout) * Fanout + (b % Fanout)
    BY <2>1, <2>2, DivMod, Zenon
  <2>7. a = b <=> a \div Fanout = b \div Fanout /\ a % Fanout = b % Fanout
    BY <2>6, Zenon
  <2>8. <<l, a \div Fanout>> = <<l, b \div Fanout>> <=> a \div Fanout = b \div Fanout
    OBVIOUS
  <2> QED
    BY <2>4, <2>5, <2>7, <2>8
<1> QED
  BY <1>1, <1>2

\* The pages under the entry of an aligned address.
LEMMA TogetherRun ==
  ASSUME NEW p \in Nat, NEW q \in Nat, NEW l \in Levels, q % Cover[l] = 0
  PROVE  /\ Together(p, q, l) <=> p \in q .. q + Cover[l] - 1
         /\ Together(p, q, l) => p % Cover[l] = p - q
<1> DEFINE c == Cover[l]
           a == p \div c
           b == q \div c
           r == p % c
<1>1. c \in Nat \ {0}
  BY CoverFacts
<1>2. /\ p = a * c + r /\ q = b * c + (q % c) /\ q % c = 0 /\ a \in Nat /\ b \in Nat
      /\ r \in 0 .. c - 1
  <2> HIDE DEF c
  <2> QED
    BY <1>1, DivMod DEF c
<1>3. Together(p, q, l) <=> a = b
  BY DEF Together
<1> HIDE DEF a, b, r, c
<1>4. q = b * c /\ b * c \in Nat /\ a * c \in Nat
  <2>1. b * c \in Nat /\ a * c \in Nat
    BY <1>1, <1>2, SMT
  <2> QED
    BY <1>2, <2>1
<1>5. a = b => p = q + r
  BY <1>2, <1>4
<1>6. p \in q .. q + c - 1 => a = b
  <2> SUFFICES ASSUME q <= p, p <= q + c - 1
               PROVE  a = b
    BY <1>1
  <2>1. p = b * c + (p - q) /\ p - q \in 0 .. c - 1 /\ b \in Int
    BY <1>1, <1>2, <1>4
  <2> DEFINE x == p - q
  <2>2. p = b * c + x /\ x \in 0 .. c - 1
    BY <2>1
  <2> HIDE DEF x
  <2>3. p \div c = b
    BY <1>1, <2>1, <2>2, DivUnique
  <2> QED
    BY <2>3 DEF a
<1>7. a = b => p \in q .. q + c - 1 /\ r = p - q
  BY <1>1, <1>2, <1>5
<1> QED
  BY <1>3, <1>6, <1>7 DEF r, c

-----------------------------------------------------------------------------
(* What a store does to the walks. *)

LEMMA VaFacts == \A p \in Va : p \in Nat /\ p < VaPages
  BY MmuAssumption DEF Va

\* The walks of the pages under the entry stored end at it; no other changes.
LEMMA StoreWalk ==
  ASSUME TreeType, NEW va \in Nat, NEW l \in Levels, TableAt(va, l) \in DOMAIN tables,
         On(va, l), NEW d, ~IsTable(d, l),
         tables' = [tables EXCEPT ![TableAt(va, l)][Index(va, l)] = d]
  PROVE  /\ \A p \in Va : Together(p, va, l) => Walk(p)' = Result(d, p, l)
         /\ \A p \in Va : ~Together(p, va, l) => Walk(p)' = Walk(p)
         /\ On(va, l)'
<1> DEFINE t == TableAt(va, l)
           i == Index(va, l)
<1>1. t \in DOMAIN tables /\ tables[t] \in [Entries -> Descriptors] /\ i \in Entries
  BY IndexInTable DEF TreeType, Entries
<1>2. /\ DOMAIN tables' = DOMAIN tables /\ tables'[t][i] = d
      /\ \A k \in Entries : k # i => tables'[t][k] = tables[t][k]
      /\ \A u \in DOMAIN tables : u # t => tables'[u] = tables[u]
  BY <1>1
<1> HIDE DEF t, i
<1>3. ASSUME NEW p \in Nat, NEW k \in Levels, ~(k = l /\ Together(p, va, l))
      PROVE  Entry(p, k)' = Entry(p, k)
  <2>1. ~(TableAt(p, k) = t /\ Index(p, k) = i)
    BY <1>3, EntryAt DEF t, i
  <2>2. Index(p, k) \in Entries
    BY IndexInTable DEF Entries
  <2>3. Entry(p, k)' = IF TableAt(p, k) \in DOMAIN tables' THEN tables'[TableAt(p, k)][Index(p, k)] ELSE Null
    BY DEF Entry, TableAt, Index, Null
  <2> QED
    BY <1>2, <2>1, <2>2, <2>3 DEF Entry
<1>4. ASSUME NEW p \in Nat, Together(p, va, l)
      PROVE  Entry(p, l)' = d
  <2>1. TableAt(p, l) = t /\ Index(p, l) = i
    BY <1>4, EntryAt DEF t, i
  <2>2. Entry(p, l)' = IF TableAt(p, l) \in DOMAIN tables' THEN tables'[TableAt(p, l)][Index(p, l)] ELSE Null
    BY DEF Entry, TableAt, Index, Null
  <2> QED
    BY <1>1, <1>2, <2>1, <2>2
<1>5. ASSUME NEW p \in Nat, Together(p, va, l)
      PROVE  On(p, l)'
  <2> SUFFICES ASSUME NEW k \in 0 .. l - 1
               PROVE  IsTable(Entry(p, k)', k)
    BY DEF On, IsTable
  <2>1. k \in Levels /\ k <= l /\ k # l
    BY LevelFacts DEF Levels
  <2>2. Together(p, va, k)
    BY <1>5, <2>1, TogetherAbove
  <2>3. Entry(p, k)' = Entry(p, k) /\ Entry(p, k) = Entry(va, k)
    BY <1>3, <2>1, <2>2, EntryAt DEF Entry
  <2> QED
    BY <2>3 DEF On
<1>6. ASSUME NEW p \in Va, Together(p, va, l)
      PROVE  Walk(p)' = Result(d, p, l)
  <2>1. p \in Nat
    BY VaFacts
  <2>2. On(p, l)' /\ Entry(p, l)' = d
    BY <1>4, <1>5, <1>6, <2>1
  <2>3. ~IsTable(Entry(p, l), l)'
    BY <2>2 DEF IsTable
  <2>4. Walk(p)' = Result(Entry(p, l), p, l)'
    BY <2>2, <2>3, WalkIsNext
  <2> QED
    BY <2>2, <2>4 DEF Result, Valid, None
<1>7. ASSUME NEW p \in Va, ~Together(p, va, l)
      PROVE  Walk(p)' = Walk(p)
  <2>1. PICK e \in Levels : On(p, e) /\ ~IsTable(Entry(p, e), e)
    BY WalkEnds
  <2>2. \A k \in 0 .. e : k \in Levels /\ p \in Nat
    BY VaFacts, LevelFacts DEF Levels
  <2> QED
    BY <1>3, <1>7, <2>1, <2>2, SameWalk
<1>8. On(va, l)'
  BY <1>5 DEF Together
<1> QED
  BY <1>6, <1>7, <1>8

\* The walks of the pages under the entry linked end in the new table; no
\* other changes.
LEMMA LinkWalk ==
  ASSUME TreeType, NEW va \in Nat, NEW l \in Levels, l # MaxLevel,
         TableAt(va, l) \in DOMAIN tables, TableAt(va, l + 1) \notin DOMAIN tables,
         On(va, l), NEW filled \in [Entries -> Descriptors],
         \A k \in Entries : ~IsTable(filled[k], l + 1),
         tables' = [u \in DOMAIN tables \cup {TableAt(va, l + 1)} |->
                      IF u = TableAt(va, l) THEN [tables[u] EXCEPT ![Index(va, l)] = TableDesc]
                      ELSE IF u \in DOMAIN tables THEN tables[u] ELSE filled]
  PROVE  /\ \A p \in Va : Together(p, va, l) =>
                Walk(p)' = Result(filled[Index(p, l + 1)], p, l + 1)
         /\ \A p \in Va : ~Together(p, va, l) => Walk(p)' = Walk(p)
         /\ On(va, l + 1)'
<1> DEFINE t == TableAt(va, l)
           i == Index(va, l)
           n == TableAt(va, l + 1)
<1>1. /\ t \in DOMAIN tables /\ tables[t] \in [Entries -> Descriptors] /\ i \in Entries
      /\ n \notin DOMAIN tables /\ n # t
  BY IndexInTable DEF TreeType, Entries
<1>2. /\ DOMAIN tables' = DOMAIN tables \cup {n} /\ tables'[n] = filled
      /\ tables'[t] = [tables[t] EXCEPT ![i] = TableDesc]
      /\ \A u \in DOMAIN tables : u # t => tables'[u] = tables[u]
  BY <1>1
<1>3. /\ tables'[t][i] = TableDesc
      /\ \A k \in Entries : k # i => tables'[t][k] = tables[t][k]
  BY <1>1, <1>2
<1>4. l \in Nat /\ l + 1 \in Levels /\ l < MaxLevel /\ l + 1 # l
  BY LevelFacts
<1> HIDE DEF t, i, n
<1>5. \A p \in Nat : TableAt(p, l + 1) = n <=> Together(p, va, l)
  <2> SUFFICES ASSUME NEW p \in Nat
               PROVE  TableAt(p, l + 1) = n <=> Together(p, va, l)
    OBVIOUS
  <2>1. /\ TableAt(p, l + 1) = <<l + 1, p \div Cover[l]>>
        /\ n = <<l + 1, va \div Cover[l]>>
    BY NextTable DEF n
  <2> QED
    BY <2>1 DEF Together
<1>6. \A p \in Nat, k \in Levels :
        Entry(p, k)' = IF TableAt(p, k) \in DOMAIN tables' THEN tables'[TableAt(p, k)][Index(p, k)] ELSE Null
  BY DEF Entry, TableAt, Index, Null
<1>7. ASSUME NEW p \in Nat, NEW k \in Levels, ~(k = l /\ Together(p, va, l)),
             ~(k = l + 1 /\ Together(p, va, l))
      PROVE  Entry(p, k)' = Entry(p, k)
  <2>1. ~(TableAt(p, k) = t /\ Index(p, k) = i)
    BY <1>7, EntryAt DEF t, i
  <2>2. TableAt(p, k) # n
    <3>1. CASE k = l + 1
      BY <1>5, <1>7, <3>1
    <3>2. CASE k # l + 1
      BY <1>4, <3>2, EntryAt DEF n
    <3> QED
      BY <3>1, <3>2
  <2>3. Index(p, k) \in Entries
    BY IndexInTable DEF Entries
  <2> QED
    BY <1>2, <1>3, <1>6, <2>1, <2>2, <2>3 DEF Entry
<1>8. ASSUME NEW p \in Nat, Together(p, va, l)
      PROVE  On(p, l + 1)'
  <2> SUFFICES ASSUME NEW k \in 0 .. (l + 1) - 1
               PROVE  IsTable(Entry(p, k)', k)
    BY DEF On, IsTable
  <2>1. k \in Levels /\ k <= l /\ k # l + 1
    BY <1>4, LevelFacts DEF Levels
  <2>2. Together(p, va, k)
    BY <1>8, <2>1, TogetherAbove
  <2>3. CASE k = l
    <3>1. TableAt(p, k) = t /\ Index(p, k) = i
      BY <1>8, <2>3, EntryAt DEF t, i
    <3>2. Entry(p, k)' = TableDesc
      BY <1>1, <1>2, <1>3, <1>6, <2>1, <3>1
    <3> QED
      BY <1>4, <2>3, <3>2 DEF TableDesc, IsTable
  <2>4. CASE k # l
    <3>1. Entry(p, k)' = Entry(p, k)
      BY <1>7, <2>1, <2>4
    <3>3. TableAt(p, k) = TableAt(va, k) /\ Index(p, k) = Index(va, k)
      BY <2>1, <2>2, EntryAt
    <3>4. Entry(p, k) = Entry(va, k)
      BY <3>3 DEF Entry
    <3>2. k \in 0 .. l - 1
      BY <1>4, <2>4
    <3> QED
      BY <3>1, <3>2, <3>4 DEF On
  <2> QED
    BY <2>3, <2>4
<1>9. ASSUME NEW p \in Va, Together(p, va, l)
      PROVE  Walk(p)' = Result(filled[Index(p, l + 1)], p, l + 1)
  <2>1. p \in Nat /\ Index(p, l + 1) \in Entries
    BY <1>4, VaFacts, IndexInTable DEF Entries
  <2>2. Entry(p, l + 1)' = filled[Index(p, l + 1)]
    BY <1>2, <1>4, <1>5, <1>6, <1>9, <2>1
  <2>3. On(p, l + 1)'
    BY <1>8, <1>9, <2>1
  <2>4. ~IsTable(Entry(p, l + 1), l + 1)'
    BY <2>1, <2>2 DEF IsTable
  <2>5. Walk(p)' = Result(Entry(p, l + 1), p, l + 1)'
    BY <1>4, <2>3, <2>4, WalkIsNext
  <2> QED
    BY <2>2, <2>5 DEF Result, Valid, None
<1>10. ASSUME NEW p \in Va, ~Together(p, va, l)
       PROVE  Walk(p)' = Walk(p)
  <2>1. PICK e \in Levels : On(p, e) /\ ~IsTable(Entry(p, e), e)
    BY WalkEnds
  <2>2. \A k \in 0 .. e : k \in Levels /\ p \in Nat
    BY VaFacts, LevelFacts DEF Levels
  <2> QED
    BY <1>7, <1>10, <2>1, <2>2, SameWalk
<1>11. On(va, l + 1)'
  BY <1>8 DEF Together
<1> QED
  BY <1>9, <1>10, <1>11

\* No walk goes through the tables about to be freed.
LEMMA WalkedTables ==
  ASSUME TreeType, TablesSound, freeing \in DOMAIN tables, freeing[1] # 0,
         <<0, 0>> \in DOMAIN tables, NEW p \in Va, NEW e \in Levels, On(p, e)
  PROVE  \A k \in 0 .. e : TableAt(p, k) \in DOMAIN tables \ Under(freeing)
<1> DEFINE Bad == {k \in 0 .. e : TableAt(p, k) \notin DOMAIN tables \ Under(freeing)}
<1>1. e \in Nat /\ p \in Nat /\ p < VaPages
  BY LevelFacts, VaFacts
<1>2. ASSUME Bad # {}
      PROVE  FALSE
  <2>1. Bad \in SUBSET Nat
    BY <1>1
  <2>2. PICK k \in Bad : \A x \in Bad : k <= x
    <3> HIDE DEF Bad
    <3> QED
      BY <1>2, <2>1, HasLeast
  <2>3. k \in 0 .. e /\ TableAt(p, k) \notin DOMAIN tables \ Under(freeing)
    OBVIOUS
  <2>4. CASE k = 0
    <3>1. TableAt(p, 0) = <<0, 0>> /\ <<0, 0>>[1] = 0
      BY <1>1, TopTable
    <3>2. freeing[1] \in Nat
      BY LevelFacts DEF TreeType, Ids
    <3>3. ~(0 >= freeing[1])
      BY <3>2
    <3>4. <<0, 0>> \notin Under(freeing)
      BY <3>1, <3>3 DEF Under
    <3> QED
      BY <2>3, <2>4, <3>1, <3>4
  <2>5. CASE k # 0
    <3> DEFINE j == k - 1
               t == TableAt(p, j)
               c == TableAt(p, k)
               i == Index(p, j)
    <3>1. /\ j \in 0 .. e /\ j \in 0 .. e - 1 /\ j \in Levels /\ j + 1 = k /\ ~(k <= j)
          /\ j # MaxLevel /\ k \in Levels
      BY <1>1, <2>3, <2>5, LevelFacts DEF Levels
    <3>2. j \notin Bad
      <4> HIDE DEF Bad, j
      <4> QED
        BY <2>2, <3>1
    <3>3. t \in DOMAIN tables /\ t \notin Under(freeing)
      BY <3>1, <3>2
    <3> HIDE DEF j
    <3>4. IsTable(Entry(p, j), j) /\ Entry(p, j) = tables[t][i]
      BY <3>1, <3>3 DEF On, Entry
    <3>5. t[1] = j /\ i \in Entries
      BY <1>1, <3>1, IndexInTable DEF TableAt, Entries
    <3>6. c = Child(t, i)
      BY <1>1, <3>1, NextTable
    <3> HIDE DEF t, i, c
    <3>7. c \in DOMAIN tables /\ c # freeing
      BY <3>3, <3>4, <3>5, <3>6 DEF TablesSound, NoDanglingEntry, Entries
    <3>8. t \in Ids /\ t[1] # MaxLevel
      BY <3>1, <3>3, <3>5 DEF TreeType
    <3>9. c[1] = t[1] + 1 /\ ParentId(c) = t
      BY <3>5, <3>6, <3>8, ChildFacts DEF Entries
    <3>10. c \notin Under(freeing)
      BY <3>3, <3>7, <3>9, UnderTogether
    <3> QED
      BY <2>3, <3>7, <3>10 DEF c
  <2> QED
    BY <2>4, <2>5
<1> QED
  BY <1>2

LEMMA FreeWalk ==
  ASSUME TreeType, TablesSound, freeing \in DOMAIN tables, freeing[1] # 0,
         <<0, 0>> \in DOMAIN tables,
         tables' = [u \in DOMAIN tables \ Under(freeing) |-> tables[u]]
  PROVE  \A p \in Va : Walk(p)' = Walk(p)
<1> SUFFICES ASSUME NEW p \in Va
             PROVE  Walk(p)' = Walk(p)
  OBVIOUS
<1>1. PICK e \in Levels : On(p, e) /\ ~IsTable(Entry(p, e), e)
  BY WalkEnds
<1>2. \A k \in 0 .. e : TableAt(p, k) \in DOMAIN tables \ Under(freeing)
  BY <1>1, WalkedTables
<1>3. \A k \in 0 .. e : Entry(p, k)' = Entry(p, k)
  <2> SUFFICES ASSUME NEW k \in 0 .. e
               PROVE  Entry(p, k)' = Entry(p, k)
    OBVIOUS
  <2>1. TableAt(p, k) \in DOMAIN tables \ Under(freeing)
    BY <1>2
  <2>2. Entry(p, k)' = IF TableAt(p, k) \in DOMAIN tables' THEN tables'[TableAt(p, k)][Index(p, k)] ELSE Null
    BY DEF Entry, TableAt, Index, Null
  <2> DEFINE t == TableAt(p, k)
             i == Index(p, k)
  <2>3. Entry(p, k) = tables[t][i]
    BY <2>1 DEF Entry
  <2> HIDE DEF t, i
  <2>4. t \in DOMAIN tables' /\ tables'[t] = tables[t]
    BY <2>1 DEF t
  <2> QED
    BY <2>2, <2>3, <2>4 DEF t, i
<1> QED
  BY <1>1, <1>3, SameWalk

\* An address together with one the walk of which reaches level l does too.
LEMMA OnTogether ==
  ASSUME NEW p \in Nat, NEW q \in Nat, NEW l \in Levels, Together(p, q, l), On(q, l)
  PROVE  On(p, l) /\ Entry(p, l) = Entry(q, l)
<1>1. ASSUME NEW k \in Levels, k <= l
      PROVE  Entry(p, k) = Entry(q, k)
  <2>1. Together(p, q, k)
    BY <1>1, TogetherAbove
  <2>2. TableAt(p, k) = TableAt(q, k) /\ Index(p, k) = Index(q, k)
    BY <2>1, EntryAt
  <2> QED
    BY <2>2 DEF Entry
<1>2. l \in Nat /\ l <= l /\ \A k \in 0 .. l - 1 : k \in Levels /\ k <= l
  BY LevelFacts DEF Levels
<1>3. On(p, l)
  <2> SUFFICES ASSUME NEW k \in 0 .. l - 1
               PROVE  IsTable(Entry(p, k), k)
    BY DEF On
  <2>1. Entry(p, k) = Entry(q, k)
    BY <1>1, <1>2
  <2> QED
    BY <2>1 DEF On
<1> QED
  BY <1>1, <1>2, <1>3

\* The walk of a page that shares an entry with one known.
LEMMA WalkTogether ==
  ASSUME NEW p \in Va, NEW q \in Nat, NEW l \in Levels, Together(p, q, l), On(q, l),
         ~IsTable(Entry(q, l), l)
  PROVE  Walk(p) = Result(Entry(q, l), p, l)
<1>1. p \in Nat
  BY VaFacts
<1>2. On(p, l) /\ Entry(p, l) = Entry(q, l)
  BY <1>1, OnTogether
<1> QED
  BY <1>2, WalkIs

\* The blocks a block is split into translate as it did.
LEMMA SplitResult ==
  ASSUME NEW d \in Descriptors, d.bits # 0, NEW l \in Levels, l # MaxLevel, NEW p \in Nat
  PROVE  Result(BlockDesc(d.out + Index(p, l + 1) * Cover[l + 1], d.attr, l + 1), p, l + 1) =
           Result(d, p, l)
<1> DEFINE c == Cover[l + 1]
           i == Index(p, l + 1)
           r == p % c
           pa == d.out + i * c
           n == i * c
           s == p % Cover[l]
<1>1. c \in Nat \ {0} /\ Cover[l] = Fanout * c /\ Fanout \in Nat \ {0}
  BY LevelFacts, CoverFacts
<1>2. s = n + r /\ n \in Nat /\ r \in Nat /\ d.out \in Nat
  <2>1. p % (Fanout * c) = ((p \div c) % Fanout) * c + (p % c)
    <3> HIDE DEF c
    <3> QED
      BY <1>1, DivTwice
  <2>2. i = (p \div c) % Fanout
    BY DEF Index
  <2>3. s = n + r
    BY <1>1, <2>1, <2>2, Zenon
  <2>4. i \in Nat /\ r \in Nat
    <3>1. i \in 0 .. Fanout - 1
      <4>1. l + 1 \in Levels
        BY LevelFacts
      <4> QED
        BY <4>1, IndexInTable
    <3> HIDE DEF c
    <3>2. r \in Nat
      BY <1>1, DivMod
    <3> QED
      BY <3>1, <3>2
  <2>5. n \in Nat
    <3> HIDE DEF i, c
    <3> QED
      BY <1>1, <2>4, SMT
  <2> QED
    BY <2>3, <2>4, <2>5 DEF Descriptors
<1>3. pa + r = d.out + s
  <2>1. pa = d.out + n
    OBVIOUS
  <2> HIDE DEF pa, n, s, r
  <2> QED
    BY <1>2, <2>1
<1>4. BlockDesc(pa, d.attr, l + 1) = [bits |-> IF l + 1 = MaxLevel THEN 3 ELSE 1,
                                      out |-> pa, attr |-> d.attr]
  BY DEF BlockDesc
<1>5. Valid(BlockDesc(pa, d.attr, l + 1)) /\ Valid(d)
  BY <1>4 DEF Valid
<1> HIDE DEF pa, s
<1>6. Result(BlockDesc(pa, d.attr, l + 1), p, l + 1) = [pa |-> pa + r, attr |-> d.attr]
  BY <1>4, <1>5 DEF Result
<1>7. Result(d, p, l) = [pa |-> d.out + s, attr |-> d.attr]
  BY <1>5 DEF Result, s
<1> QED
  BY <1>3, <1>6, <1>7 DEF pa

-----------------------------------------------------------------------------
(* What a call still knows of the range it was given. *)

Reached == op.kind # "none" => On(op.va, op.level)

\* Every page left is mapped, or what is left is one aligned entry, or the part
\* left of one: whole entries of level 1 below one entry of level 0.
AllMapped == \A p \in (op.va + Done) .. (op.va + op.size - 1) : Walk(p) # None
Whole(k) == op.size = Cover[k] /\ op.va % Cover[k] = 0
InOneTable ==
  /\ op.va % Cover[1] = 0 /\ op.size % Cover[1] = 0
  /\ (op.va + op.size - 1) \div Cover[0] = op.va \div Cover[0]
Through == InOneTable /\ IsTable(Entry(op.va, 0), 0)
Careful == op.kind = "unmap" => AllMapped \/ (\E k \in Levels : Whole(k)) \/ Through

WalkInv == IInv /\ Reached

LEMMA CoverGrows ==
  ASSUME NEW k \in Levels, NEW l \in Levels, l <= k
  PROVE  Cover[k] <= Cover[l]
<1>1. PICK n \in Nat \ {0} : Cover[l] = n * Cover[k]
  BY CoverDivides
<1> DEFINE c == Cover[k]
<1>2. c \in Nat \ {0}
  BY CoverFacts
<1> HIDE DEF c
<1>3. c <= n * c
  BY <1>2, SMT
<1> QED
  BY <1>1, <1>3 DEF c

LEMMA TargetAtMost ==
  ASSUME IInv, op.kind # "none", NEW k \in 1 .. MaxLevel, Fits(op, k)
  PROVE  TargetLevel(op) <= k
<1>1. op \in Ops /\ op.size # 0
  BY AtWork
<1>2. TargetLevel(op) \in 1 .. MaxLevel /\ \A j \in 1 .. TargetLevel(op) - 1 : ~Fits(op, j)
  BY <1>1, TargetFacts
<1>3. k \notin 1 .. TargetLevel(op) - 1
  BY <1>2
<1> QED
  BY <1>2, <1>3, LevelFacts

\* A whole entry below level 0 is unmapped at once.
LEMMA WholeAtOnce ==
  ASSUME IInv, op.kind = "unmap", NEW k \in Levels, k # 0, Whole(k)
  PROVE  TargetLevel(op) <= k /\ Cover[TargetLevel(op)] = op.size
<1>1. op.pa = 0 /\ op.size \in Nat /\ TargetLevel(op) \in Levels /\ Fits(op, TargetLevel(op))
  BY AtWork DEF IInv, CallInv
<1>2. Cover[k] \in Nat \ {0} /\ Cover[TargetLevel(op)] \in Nat \ {0}
  BY <1>1, CoverFacts
<1>3. op.pa % Cover[k] = 0
  BY <1>1, <1>2
<1>4. Fits(op, k) /\ k \in 1 .. MaxLevel
  <2>1. op.size >= Cover[k]
    BY <1>1, <1>2 DEF Whole
  <2> QED
    BY <1>3, <2>1, LevelFacts DEF Fits, Whole
<1>5. TargetLevel(op) <= k
  BY <1>4, TargetAtMost
<1>6. Cover[k] <= Cover[TargetLevel(op)]
  BY <1>1, <1>5, CoverGrows
<1>7. Cover[TargetLevel(op)] <= op.size
  BY <1>1, <1>2 DEF Fits
<1> QED
  BY <1>1, <1>2, <1>5, <1>6, <1>7 DEF Whole

\* One at level 0 is unmapped an entry of level 1 at a time.
LEMMA InOneTableByParts ==
  ASSUME IInv, op.kind = "unmap", InOneTable
  PROVE  TargetLevel(op) = 1
<1>1. op.pa = 0 /\ op.size \in Nat \ {0} /\ TargetLevel(op) \in 1 .. MaxLevel
  BY AtWork DEF IInv, CallInv
<1>2. Cover[1] \in Nat \ {0} /\ 1 \in 1 .. MaxLevel
  BY CoverFacts, LevelFacts
<1> DEFINE c == Cover[1]
           s == op.size
<1>3. s % c = 0 /\ op.va % c = 0
  BY DEF InOneTable
<1>4. op.pa % c = 0
  BY <1>1, <1>2
<1>5. s >= c
  <2>1. c \in Nat \ {0} /\ s \in Nat \ {0}
    BY <1>1, <1>2
  <2> HIDE DEF c, s
  <2>2. CASE s < c
    <3>1. s = 0 * c + s /\ s \in 0 .. c - 1 /\ 0 \in Int
      BY <2>1, <2>2
    <3>2. s % c = s
      BY <2>1, <3>1, DivUnique
    <3> QED
      BY <1>3, <2>1, <3>2
  <2> QED
    BY <2>1, <2>2
<1>6. Fits(op, 1)
  BY <1>3, <1>4, <1>5 DEF Fits
<1>7. TargetLevel(op) <= 1
  BY <1>2, <1>6, TargetAtMost
<1> QED
  BY <1>1, <1>7

LEMMA WholeInOneTable ==
  ASSUME IInv, op.kind = "unmap", Whole(0)
  PROVE  InOneTable
<1>1. op.va \in Nat /\ op.size \in Nat \ {0}
  BY AtWork
<1> DEFINE b == Cover[0]
           c == Cover[1]
           q == op.va + op.size - 1
<1>2. b \in Nat \ {0} /\ c \in Nat \ {0} /\ b = Fanout * c /\ Fanout \in Nat
  <2>1. 0 # MaxLevel /\ 0 + 1 = 1
    BY LevelFacts
  <2> QED
    BY <2>1, CoverFacts, LevelFacts
<1>3. op.size = b /\ op.va % b = 0
  BY DEF Whole
<1>4. b % c = 0
  <2> HIDE DEF b, c
  <2>1. Fanout \in Int /\ Fanout * c \in Int
    BY <1>2
  <2> QED
    BY <1>2, MultipleIsMod
<1>5. op.va % c = 0
  <2>1. op.va \in Int
    BY <1>1
  <2> HIDE DEF b, c
  <2> QED
    BY <1>2, <1>3, <1>4, <2>1, ModOfMultiple
<1>6. q \in Nat /\ q \in op.va .. op.va + b - 1
  BY <1>1, <1>3
<1>7. Together(q, op.va, 0)
  <2> HIDE DEF q
  <2> QED
    BY <1>1, <1>3, <1>6, LevelFacts, TogetherRun
<1> QED
  BY <1>3, <1>4, <1>5, <1>7 DEF InOneTable, Together

-----------------------------------------------------------------------------
(* What each action does to the walks. *)

SameWalks == \A p \in Va : Walk(p)' = Walk(p)

LEMMA SameTables ==
  ASSUME tables' = tables
  PROVE  SameWalks /\ \A p, l : Entry(p, l)' = Entry(p, l)
<1>1. \A p, l : Entry(p, l)' = Entry(p, l)
  BY DEF Entry, TableAt, Index, Null
<1>2. ASSUME NEW p \in Va
      PROVE  Walk(p)' = Walk(p)
  <2>1. PICK e \in Levels : On(p, e) /\ ~IsTable(Entry(p, e), e)
    BY WalkEnds
  <2> QED
    BY <1>1, <2>1, SameWalk
<1> QED
  BY <1>1, <1>2 DEF SameWalks

\* A call has got to the table of its level.
LEMMA ReachedAtTop ==
  ASSUME op'.level = 0
  PROVE  Reached'
<1>1. \A k : k \notin 0 .. op'.level - 1
  OBVIOUS
<1> QED
  BY <1>1 DEF Reached, On

LEMMA AdvanceReached ==
  ASSUME NEW n, Advance(n), IInv, op.kind # "none"
  PROVE  op'.level = 0 /\ Reached'
<1>1. op \in Ops
  BY DEF IInv, TypeInv
<1>2. op'.level = 0
  BY <1>1 DEF Advance, Idle, Ops
<1> QED
  BY <1>2, ReachedAtTop

LEMMA DescendWalks ==
  ASSUME WalkInv, Descend
  PROVE  SameWalks /\ Reached'
<1>1. op.kind # "none" /\ IsTable(Entry(op.va, op.level), op.level) /\ Deeper /\ tables' = tables
  BY DEF Descend, Descending, Working, Current
<1>2. op \in Ops /\ op.level \in Nat
  BY <1>1, AtWork DEF WalkInv
<1>3. SameWalks /\ \A p, l : Entry(p, l)' = Entry(p, l)
  BY <1>1, SameTables
<1>4. op'.va = op.va /\ op'.level = op.level + 1
  BY <1>1, <1>2 DEF Deeper, Ops
<1>5. ASSUME NEW k \in 0 .. op'.level - 1
      PROVE  IsTable(Entry(op.va, k)', k)
  <2>1. k \in 0 .. op.level - 1 \/ k = op.level
    BY <1>2, <1>4
  <2>2. IsTable(Entry(op.va, k), k)
    BY <1>1, <2>1 DEF WalkInv, Reached, On
  <2>3. Entry(op.va, k)' = Entry(op.va, k)
    BY <1>1, <1>4 DEF Entry, TableAt, Index, Null
  <2> QED
    BY <2>2, <2>3
<1>6. Reached'
  BY <1>5 DEF Reached, On, IsTable
<1> QED
  BY <1>3, <1>6

LEMMA PanicWalks ==
  ASSUME WalkInv, tables' = tables, op' = op
  PROVE  SameWalks /\ Reached'
<1>1. SameWalks
  BY SameTables
<1>2. Reached'
  BY DEF WalkInv, Reached, On, Entry, TableAt, Index, Null, IsTable
<1> QED
  BY <1>1, <1>2

LEMMA LinkWalks ==
  ASSUME WalkInv, Descending, ~IsTable(Current, op.level),
         NEW filled \in [Entries -> Descriptors],
         \A k \in Entries : ~IsTable(filled[k], op.level + 1), Link(filled),
         \A p \in Va : Result(filled[Index(p, op.level + 1)], p, op.level + 1) =
                         Result(Current, p, op.level)
  PROVE  SameWalks /\ Reached'
<1>1. op.kind # "none" /\ freeing = <<>> /\ op.level < TargetLevel(op)
  BY DEF Descending, Working
<1>2. CASE OutOfTables
  BY <1>2, PanicWalks DEF Link, Panic
<1>3. CASE ~OutOfTables
  <2>1. PICK v \in Nat, l \in Levels : v = op.va /\ l = op.level
    BY <1>1, AtWork DEF WalkInv
  <2>2. /\ op \in Ops /\ l # MaxLevel /\ Here = TableAt(v, l) /\ Current = Entry(v, l) /\ l \in Nat
        /\ Here \in DOMAIN tables /\ Here[1] = l /\ Index(v, l) \in Entries
        /\ Current = tables[Here][Index(v, l)]
    BY <1>1, <2>1, AtWork, LevelFacts DEF WalkInv, Here, Current
  <2>3. /\ tables' = [u \in DOMAIN tables \cup {TableAt(v, l + 1)} |->
                        IF u = TableAt(v, l) THEN [tables[u] EXCEPT ![Index(v, l)] = TableDesc]
                        ELSE IF u \in DOMAIN tables THEN tables[u]
                        ELSE filled]
        /\ op' = [op EXCEPT !.level = l + 1]
    BY <1>3, <2>1 DEF Link, Here, Deeper
  <2>4. TreeType /\ TablesSound
    BY DEF WalkInv, IInv, TypeInv, TreeType
  <2>5. TableAt(v, l + 1) \notin DOMAIN tables
    <3>1. TableAt(v, l + 1) = Child(Here, Index(v, l))
      BY <2>2, NextTable
    <3>2. ~IsTable(tables[Here][Index(v, l)], Here[1])
      BY <2>1, <2>2
    <3> QED
      BY <1>1, <2>2, <2>4, <3>1, <3>2, NewChild
  <2>6. On(v, l) /\ ~IsTable(Entry(v, l), l)
    BY <1>1, <2>1, <2>2 DEF WalkInv, Reached
  <2>7. \A k \in Entries : ~IsTable(filled[k], l + 1)
    BY <2>1
  <2>8. /\ \A p \in Va : Together(p, v, l) => Walk(p)' = Result(filled[Index(p, l + 1)], p, l + 1)
        /\ \A p \in Va : ~Together(p, v, l) => Walk(p)' = Walk(p)
        /\ On(v, l + 1)'
    <3>1. TableAt(v, l) \in DOMAIN tables
      BY <2>2
    <3> QED
      BY <2>2, <2>3, <2>4, <2>5, <2>6, <2>7, <3>1, LinkWalk
  <2>9. SameWalks
    <3> SUFFICES ASSUME NEW p \in Va
                 PROVE  Walk(p)' = Walk(p)
      BY DEF SameWalks
    <3>1. CASE Together(p, v, l)
      <4>1. Walk(p) = Result(Entry(v, l), p, l)
        BY <2>6, <3>1, WalkTogether
      <4>2. Result(filled[Index(p, l + 1)], p, l + 1) = Result(Entry(v, l), p, l)
        BY <2>1, <2>2
      <4> QED
        BY <2>8, <3>1, <4>1, <4>2
    <3> QED
      BY <2>8, <3>1
  <2>10. Reached'
    <3>1. op'.va = v /\ op'.level = l + 1
      BY <2>1, <2>2, <2>3 DEF Ops
    <3> QED
      BY <2>8, <3>1 DEF Reached, On, IsTable, Entry, TableAt, Index
  <2> QED
    BY <2>9, <2>10
<1> QED
  BY <1>2, <1>3

LEMMA NewTableWalks ==
  ASSUME WalkInv, NewTable
  PROVE  SameWalks /\ Reached'
<1>1. Descending /\ ~Valid(Current) /\ Link(NullTable)
  BY DEF NewTable
<1>2. ~IsTable(Current, op.level)
  BY <1>1 DEF Valid, IsTable
<1>3. NullTable \in [Entries -> Descriptors] /\ \A k \in Entries : NullTable[k] = Null
  BY DEF NullTable, Null, Entries, Descriptors
<1>4. ~IsTable(Null, op.level + 1) /\ ~Valid(Null)
  BY DEF Null, Valid, IsTable
<1>5. op.level + 1 \in Levels
  <2>1. op.level \in Levels /\ op.level < TargetLevel(op) /\ TargetLevel(op) \in Levels
    BY <1>1, AtWork DEF WalkInv, Descending, Working
  <2> DEFINE l == op.level
             t == TargetLevel(op)
  <2>2. l \in Levels /\ l < t /\ t \in Levels
    BY <2>1
  <2> HIDE DEF l, t
  <2>3. l + 1 \in Levels
    BY <2>2, LevelFacts
  <2> QED
    BY <2>3 DEF l, LevelFacts
<1>6. \A p \in Va : Result(NullTable[Index(p, op.level + 1)], p, op.level + 1) = Result(Current, p, op.level)
  <2> SUFFICES ASSUME NEW p \in Va
               PROVE  Result(NullTable[Index(p, op.level + 1)], p, op.level + 1) = Result(Current, p, op.level)
    OBVIOUS
  <2>1. NullTable[Index(p, op.level + 1)] = Null
    BY <1>3, <1>5, VaFacts, IndexInTable DEF Entries
  <2> QED
    BY <1>1, <1>4, <2>1 DEF Result
<1> QED
  BY <1>1, <1>2, <1>3, <1>4, <1>6, LinkWalks

LEMMA SplitWalks ==
  ASSUME WalkInv, Split
  PROVE  SameWalks /\ Reached'
<1> DEFINE filled == [i \in Entries |->
                        BlockDesc(Current.out + i * Cover[op.level + 1], Current.attr, op.level + 1)]
<1>1. Descending /\ Current.bits = 1 /\ Link(filled)
  BY DEF Split, Entries
<1>2. op.kind # "none" /\ op.level < TargetLevel(op)
  BY <1>1 DEF Descending, Working
<1>3. /\ op.level \in Levels /\ op.level # MaxLevel /\ Here \in DOMAIN tables
      /\ Current = tables[Here][Index(op.va, op.level)] /\ Current \in Descriptors
      /\ Here[1] = op.level /\ Index(op.va, op.level) \in Entries
  BY <1>2, AtWork, LevelFacts DEF WalkInv
<1>4. ~IsTable(Current, op.level) /\ Valid(Current)
  BY <1>1 DEF IsTable, Valid
<1>5. Current.out % Cover[op.level] = 0
  BY <1>3, <1>4 DEF WalkInv, IInv, TablesSound, BlocksAligned, Entries
<1>6. \A k \in Entries :
        /\ BlockDesc(Current.out + k * Cover[op.level + 1], Current.attr, op.level + 1) \in Descriptors
        /\ Leaf(BlockDesc(Current.out + k * Cover[op.level + 1], Current.attr, op.level + 1), op.level + 1)
  BY <1>3, <1>5, SplitLeaves
<1>7. filled \in [Entries -> Descriptors] /\ \A k \in Entries : ~IsTable(filled[k], op.level + 1)
  BY <1>6 DEF Leaf
<1>8. \A p \in Va : Result(filled[Index(p, op.level + 1)], p, op.level + 1) = Result(Current, p, op.level)
  <2> SUFFICES ASSUME NEW p \in Va
               PROVE  Result(filled[Index(p, op.level + 1)], p, op.level + 1) = Result(Current, p, op.level)
    OBVIOUS
  <2>1. p \in Nat /\ op.level + 1 \in Levels
    BY <1>3, VaFacts, LevelFacts
  <2>2. Index(p, op.level + 1) \in Entries
    BY <2>1, IndexInTable DEF Entries
  <2>3. filled[Index(p, op.level + 1)] =
          BlockDesc(Current.out + Index(p, op.level + 1) * Cover[op.level + 1], Current.attr, op.level + 1)
    BY <2>2
  <2>4. Result(BlockDesc(Current.out + Index(p, op.level + 1) * Cover[op.level + 1], Current.attr,
                         op.level + 1), p, op.level + 1) = Result(Current, p, op.level)
    <3>1. Current \in Descriptors /\ Current.bits # 0 /\ op.level \in Levels /\ op.level # MaxLevel
      BY <1>1, <1>3
    <3> QED
      BY <2>1, <3>1, SplitResult
  <2> QED
    BY <2>3, <2>4, Zenon
<1> HIDE DEF filled
<1> QED
  BY <1>1, <1>4, <1>7, <1>8, LinkWalks

\* The pages under the entry stored are translated as it says; no other
\* changes.
LEMMA StoreWalks ==
  ASSUME WalkInv, Working, op.level = TargetLevel(op), NEW d, ~IsTable(d, op.level), Store(d)
  PROVE  /\ \A p \in Va : Walk(p)' = IF p \in op.va .. op.va + Cover[op.level] - 1
                                       THEN Result(d, p, op.level) ELSE Walk(p)
         /\ \A p \in op.va .. op.va + Cover[op.level] - 1 : p % Cover[op.level] = p - op.va
         /\ Reached' /\ IsTable(Entry(op.va, 0), 0) /\ \A v : v = op.va => IsTable(Entry(v, 0)', 0)
<1>1. PICK v \in Nat, l \in Levels : v = op.va /\ l = op.level /\ l # 0
  BY AtWork DEF WalkInv, Working
<1>2. /\ TableAt(v, l) = Here /\ Here \in DOMAIN tables /\ On(v, l) /\ v % Cover[l] = 0
      /\ op.kind # "none" /\ op \in Ops /\ Cover[l] \in Nat \ {0} /\ l \in Nat
  <2>1. op.kind # "none"
    BY DEF Working
  <2> QED
    BY <1>1, <2>1, AtWork, CoverFacts DEF WalkInv, Here, Reached, Fits
<1>3. tables' = [tables EXCEPT ![TableAt(v, l)][Index(v, l)] = d]
  BY <1>1, <1>2 DEF Store
<1>4. TreeType
  BY DEF WalkInv, IInv, TypeInv, TreeType
<1>5. /\ \A p \in Va : Together(p, v, l) => Walk(p)' = Result(d, p, l)
      /\ \A p \in Va : ~Together(p, v, l) => Walk(p)' = Walk(p)
      /\ On(v, l)'
  <2>1. TableAt(v, l) \in DOMAIN tables /\ ~IsTable(d, l)
    BY <1>1, <1>2
  <2> QED
    BY <1>2, <1>3, <1>4, <2>1, StoreWalk
<1>6. \A p \in Nat : /\ Together(p, v, l) <=> p \in v .. v + Cover[l] - 1
                     /\ Together(p, v, l) => p % Cover[l] = p - v
  BY <1>2, TogetherRun
<1>7. \A p \in Va : Walk(p)' = IF p \in v .. v + Cover[l] - 1 THEN Result(d, p, l) ELSE Walk(p)
  BY <1>5, <1>6, VaFacts
<1>8. \A p \in v .. v + Cover[l] - 1 : p % Cover[l] = p - v
  <2>1. \A p \in v .. v + Cover[l] - 1 : p \in Nat
    BY <1>2
  <2> QED
    BY <1>6, <2>1
<1>9. Reached'
  <2>1. CASE IsTable(Current, op.level)
    <3>1. op' = op
      BY <2>1 DEF Store
    <3> QED
      BY <1>1, <1>5, <3>1 DEF Reached, On, IsTable, Entry, TableAt, Index
  <2>2. CASE ~IsTable(Current, op.level)
    BY <1>2, <2>2, AdvanceReached DEF Store, WalkInv
  <2> QED
    BY <2>1, <2>2
<1>10. IsTable(Entry(v, 0), 0) /\ IsTable(Entry(v, 0)', 0)
  <2>1. 0 \in 0 .. l - 1
    BY <1>1, <1>2
  <2> QED
    BY <1>2, <1>5, <2>1 DEF On, IsTable
<1> QED
  BY <1>1, <1>7, <1>8, <1>9, <1>10

LEMMA FreeWalks ==
  ASSUME WalkInv, freeing # <<>>, NEW n, Advance(n),
         tables' = [u \in DOMAIN tables \ Under(freeing) |-> tables[u]]
  PROVE  SameWalks /\ Reached' /\ \A v \in Va : Entry(v, 0)' = Entry(v, 0)
<1>1. /\ op.kind # "none" /\ freeing = TableAt(op.va, op.level + 1)
      /\ freeing \in DOMAIN tables /\ <<0, 0>> \in DOMAIN tables
  BY DEF WalkInv, IInv, CallInv
<1>2. TreeType /\ TablesSound
  BY DEF WalkInv, IInv, TypeInv, TreeType
<1>3. op.level \in Nat
  BY <1>1, AtWork DEF WalkInv
<1>4. freeing[1] = op.level + 1 /\ freeing[1] # 0 /\ ~(0 >= freeing[1])
  BY <1>1, <1>3 DEF TableAt
<1>5. SameWalks
  BY <1>1, <1>2, <1>4, FreeWalk DEF SameWalks
<1>6. Reached'
  BY <1>1, AdvanceReached DEF WalkInv
<1>7. <<0, 0>> \in DOMAIN tables' /\ tables'[<<0, 0>>] = tables[<<0, 0>>]
  <2>1. <<0, 0>>[1] = 0
    OBVIOUS
  <2>2. <<0, 0>> \notin Under(freeing)
    BY <1>4, <2>1 DEF Under
  <2> QED
    BY <1>1, <2>2
<1>8. ASSUME NEW v \in Va
      PROVE  Entry(v, 0)' = Entry(v, 0)
  <2>1. TableAt(v, 0) = <<0, 0>>
    BY VaFacts, TopTable
  <2>2. Entry(v, 0)' = IF TableAt(v, 0) \in DOMAIN tables' THEN tables'[TableAt(v, 0)][Index(v, 0)] ELSE Null
    BY DEF Entry, TableAt, Index, Null
  <2>3. Entry(v, 0) = tables[<<0, 0>>][Index(v, 0)]
    BY <1>1, <2>1 DEF Entry
  <2> QED
    BY <1>7, <2>1, <2>2, <2>3
<1> QED
  BY <1>5, <1>6, <1>8

\* Of a careful call nothing but one unmapped entry is skipped, and the call
\* returns.
LEMMA SkipEnds ==
  ASSUME WalkInv, Careful, SkipUnmapped
  PROVE  op' = Idle /\ \A p \in op.va .. op.va + op.size - 1 : Walk(p) = None
<1>1. /\ op.kind = "unmap" /\ op.kind # "none" /\ freeing = <<>> /\ op.level < TargetLevel(op)
      /\ ~Valid(Current) /\ Advance(Smaller(op.size, Cover[op.level])) /\ tables' = tables
  BY DEF SkipUnmapped, Descending, Working
<1>2. /\ op.va \in Va /\ op.va \in Nat /\ op.size \in Nat \ {0} /\ op.level \in Levels
      /\ op.level \in Nat /\ TargetLevel(op) \in 1 .. MaxLevel
      /\ op.va + op.size <= VaPages /\ VaPages \in Nat
  BY <1>1, AtWork, MmuAssumption DEF WalkInv, IInv, CallInv, Va
<1> DEFINE l == op.level
           last == op.va + op.size - 1
<1>3. ASSUME NEW p \in Va, Together(p, op.va, l)
      PROVE  Walk(p) = None
  <2>1. On(op.va, l) /\ ~IsTable(Entry(op.va, l), l) /\ ~Valid(Entry(op.va, l))
    BY <1>1 DEF WalkInv, Reached, Current, Valid, IsTable
  <2> HIDE DEF l
  <2>2. Walk(p) = Result(Entry(op.va, l), p, l)
    BY <1>2, <1>3, <2>1, WalkTogether DEF l
  <2> QED
    BY <2>1, <2>2 DEF Result
<1>4. CASE AllMapped
  <2>1. op.va \in (op.va + Done) .. last
    BY <1>1, <1>2 DEF Done
  <2>2. Walk(op.va) # None
    BY <1>4, <2>1 DEF AllMapped
  <2>3. Together(op.va, op.va, l)
    BY DEF Together
  <2> QED
    BY <1>2, <1>3, <2>2, <2>3
<1>5. ASSUME NEW k \in Levels, Whole(k)
      PROVE  l <= k /\ op.size <= Cover[l]
  <2>1. k \in Nat /\ (k # 0 => TargetLevel(op) <= k)
    BY <1>1, <1>5, WholeAtOnce, LevelFacts DEF WalkInv
  <2>2. CASE k # 0
    <3> DEFINE t == TargetLevel(op)
    <3>1. l <= k
      <4>1. l < t /\ t <= k /\ l \in Nat /\ k \in Nat /\ t \in Nat
        BY <1>1, <1>2, <2>1, <2>2
      <4> HIDE DEF l, t
      <4> QED
        BY <4>1
    <3> QED
      BY <1>2, <1>5, <3>1, CoverGrows DEF Whole
  <2>3. CASE k = 0
    <3>1. TargetLevel(op) = 1
      BY <1>1, <1>5, <2>3, WholeInOneTable, InOneTableByParts DEF WalkInv
    <3>2. l = 0
      BY <1>1, <1>2, <3>1
    <3>3. Cover[0] \in Nat
      BY CoverFacts, LevelFacts
    <3> QED
      BY <1>5, <2>3, <3>2, <3>3 DEF Whole
  <2> QED
    BY <2>2, <2>3
<1>6. ASSUME NEW k \in Levels, Whole(k)
      PROVE  op' = Idle /\ \A p \in op.va .. last : Walk(p) = None
  <2>1. op.size = Cover[k] /\ op.va % Cover[k] = 0
    BY <1>6 DEF Whole
  <2>2. l <= k /\ op.size <= Cover[l] /\ Cover[l] \in Nat
    BY <1>2, <1>5, <1>6, CoverFacts
  <2>3. Smaller(op.size, Cover[l]) = op.size
    BY <1>2, <2>2 DEF Smaller
  <2>4. op' = Idle
    BY <1>1, <2>3 DEF Advance
  <2>5. ASSUME NEW p \in op.va .. last
        PROVE  Walk(p) = None
    <3>1. p \in Va /\ p \in Nat
      BY <1>2 DEF Va
    <3>2. p \in op.va .. op.va + Cover[k] - 1
      BY <2>1
    <3>3. Together(p, op.va, k)
      BY <1>2, <2>1, <3>1, <3>2, TogetherRun
    <3>4. Together(p, op.va, l)
      BY <1>2, <2>2, <3>1, <3>3, TogetherAbove
    <3> QED
      BY <1>3, <3>1, <3>4
  <2> QED
    BY <2>4, <2>5
<1>7. CASE Through
  <2>1. TargetLevel(op) = 1
    BY <1>1, <1>7, InOneTableByParts DEF Through, WalkInv
  <2>2. l = 0
    BY <1>1, <1>2, <2>1
  <2> QED
    BY <1>1, <1>7, <2>2 DEF Through, Current, Valid, IsTable
<1> QED
  BY <1>1, <1>4, <1>6, <1>7 DEF Careful

\* Of what is left after an entry of the target level a careful call knows as
\* much.
LEMMA AdvanceCareful ==
  ASSUME WalkInv, Careful, op.kind = "unmap", op.level = TargetLevel(op),
         Advance(Cover[op.level]), freeing' = <<>>,
         \A p \in Va : p >= op.va + Cover[op.level] => Walk(p)' = Walk(p),
         \A v : v = op.va => IsTable(Entry(v, 0)', 0)
  PROVE  Careful'
<1> DEFINE n == Cover[op.level]
<1>1. /\ op \in Ops /\ op.va \in Nat /\ op.size \in Nat \ {0} /\ op.level \in Levels /\ Fits(op, op.level)
      /\ op.va + op.size <= VaPages /\ VaPages \in Nat
  BY AtWork, MmuAssumption DEF WalkInv, IInv, CallInv
<1>2. n \in Nat \ {0} /\ n <= op.size
  BY <1>1, CoverFacts DEF Fits
<1>3. CASE op.size = n
  BY <1>3 DEF Advance, Careful, Idle
<1>4. CASE op.size # n
  <2>1. op' = [op EXCEPT !.va = op.va + n, !.size = op.size - n, !.level = 0, !.pa = 0]
    BY <1>4 DEF Advance
  <2>2. op'.va = op.va + n /\ op'.size = op.size - n /\ Done' = 0 /\ op'.size \in Nat /\ op'.va \in Nat
        /\ op'.va + op'.size - 1 = op.va + op.size - 1
    BY <1>1, <1>2, <2>1 DEF Ops, Done
  <2>3. CASE AllMapped
    <3> SUFFICES ASSUME NEW p \in (op'.va + 0) .. (op'.va + op'.size - 1)
                 PROVE  Walk(p)' # None
      BY <2>2 DEF Careful, AllMapped, None
    <3>1. p \in Nat /\ p >= op.va + n /\ p <= op.va + op.size - 1 /\ p \in Va
      <4>1. p \in Int /\ p >= op'.va /\ p <= op'.va + op'.size - 1
        BY <2>2
      <4>2. p >= op.va + n /\ p <= op.va + op.size - 1
        BY <2>2, <4>1
      <4> HIDE DEF n
      <4> QED
        BY <1>1, <1>2, <4>1, <4>2 DEF Va
    <3>2. p \in (op.va + Done) .. (op.va + op.size - 1)
      BY <1>1, <1>2, <3>1 DEF Done
    <3> QED
      BY <2>3, <3>1, <3>2 DEF AllMapped
  <2>4. ASSUME NEW k \in Levels, Whole(k)
        PROVE  InOneTable
    <3>1. CASE k # 0
      BY <1>4, <2>4, <3>1, WholeAtOnce DEF WalkInv
    <3>2. CASE k = 0
      BY <2>4, <3>2, WholeInOneTable DEF WalkInv
    <3> QED
      BY <3>1, <3>2
  <2>5. CASE InOneTable
    <3>1. TargetLevel(op) = 1
      BY <2>5, InOneTableByParts DEF WalkInv
    <3> DEFINE c == Cover[1]
               b == Cover[0]
               w == op.va + n
               last == op.va + op.size - 1
    <3>2. n = c /\ c \in Nat \ {0} /\ b \in Nat \ {0}
      BY <3>1, CoverFacts, LevelFacts
    <3>3. op.va % c = 0 /\ op.size % c = 0 /\ last \div b = op.va \div b
      BY <2>5 DEF InOneTable
    <3>4. c % c = 0
      <4> HIDE DEF c
      <4> QED
        BY <3>2
    <3>5. w % c = 0 /\ (op.size - n) % c = 0
      <4> DEFINE s == op.size
                 a == op.va
      <4>1. s \in Int /\ a \in Int /\ c \in Int /\ a % c = 0 /\ s % c = 0
        BY <1>1, <3>2, <3>3
      <4>2. w = a + c /\ op.size - n = s - c
        BY <3>2
      <4> HIDE DEF c, s, a
      <4>3. (a + c) % c = 0 /\ (s - c) % c = 0
        BY <3>2, <3>4, <4>1, ModSum
      <4> QED
        BY <4>2, <4>3
    <3>6. w \in Nat /\ last \in Nat /\ op.va <= w /\ w <= last
      BY <1>1, <1>2, <1>4
    <3>7. w \div b = op.va \div b
      <4> DEFINE a == op.va
                 d == a \div b
                 r == a % b
                 e == last % b
      <4>1. a \in Nat /\ last \div b = d /\ a <= w
        BY <1>1, <3>3, <3>6
      <4> HIDE DEF b, w, last, a
      <4>2. a = d * b + r /\ r \in 0 .. b - 1 /\ d \in Nat
        BY <3>2, <4>1, DivMod
      <4>3. last = d * b + e /\ e \in 0 .. b - 1
        <5>1. last = (last \div b) * b + e /\ e \in 0 .. b - 1
          BY <3>2, <3>6, DivMod
        <5> QED
          BY <4>1, <5>1, Zenon
      <4> HIDE DEF d, r, e
      <4> DEFINE m == d * b
                 x == w - m
      <4>4. m \in Nat
        BY <3>2, <4>2, SMT
      <4>5. a = m + r /\ last = m + e
        BY <4>2, <4>3
      <4> HIDE DEF m
      <4>6. x \in 0 .. b - 1 /\ w = m + x
        BY <3>2, <3>6, <4>1, <4>2, <4>3, <4>4, <4>5
      <4> HIDE DEF x
      <4>7. w = d * b + x /\ d \in Int
        BY <4>2, <4>6 DEF m
      <4>8. w \div b = d
        BY <3>2, <4>6, <4>7, DivUnique
      <4> QED
        BY <4>8 DEF d, a
    <3>8. last \div b = w \div b
      BY <3>3, <3>7
    <3>9. InOneTable'
      <4>1. op'.va = w /\ op'.size = op.size - n /\ op'.va + op'.size - 1 = last
        BY <2>2
      <4> HIDE DEF w, last
      <4> QED
        BY <3>5, <3>8, <4>1 DEF InOneTable
    <3>10. IsTable(Entry(op.va, 0), 0)'
      <4>1. PICK v \in Nat, x \in Nat : v = op.va /\ x = w
        BY <1>1, <3>6
      <4>2. Together(x, v, 0)
        BY <3>7, <4>1 DEF Together
      <4>3. TableAt(x, 0) = TableAt(v, 0) /\ Index(x, 0) = Index(v, 0)
        BY <4>2, LevelFacts, EntryAt
      <4>4. Entry(x, 0)' = Entry(v, 0)'
        BY <4>3 DEF Entry, TableAt, Index, Null
      <4>5. IsTable(Entry(x, 0)', 0)
        BY <4>1, <4>4
      <4>6. op'.va = x
        BY <2>2, <4>1
      <4> QED
        BY <4>5, <4>6 DEF IsTable, Entry, TableAt, Index, Null
    <3> QED
      BY <3>9, <3>10 DEF Careful, Through
  <2> QED
    BY <2>3, <2>4, <2>5 DEF Careful, Through
<1> QED
  BY <1>3, <1>4

-----------------------------------------------------------------------------
(* Every step is a step of the page map. *)

\* What the call sets a page to.
Setting(p) == IF op.kind = "map" THEN [pa |-> op.pa + p - op.va, attr |-> op.attr] ELSE None
Mapping == [p \in Va |-> Walk(p)]

LEMMA TodoIs ==
  /\ DOMAIN ToDo = (op.va + Done) .. (op.va + op.size - 1)
  /\ \A p \in DOMAIN ToDo : ToDo[p] = Setting(p)
  BY DEF ToDo, Setting

\* What is left to do when a call goes on after n bytes.
LEMMA AdvanceTodo ==
  ASSUME IInv, op.kind # "none", NEW n \in Nat \ {0}, n <= op.size, Advance(n), freeing' = <<>>
  PROVE  /\ DOMAIN ToDo' = (op.va + n) .. (op.va + op.size - 1)
         /\ \A p \in DOMAIN ToDo' : ToDo'[p] = Setting(p)
<1>1. /\ op \in Ops /\ op.va \in Nat /\ op.size \in Nat /\ op.pa \in Nat /\ Done' = 0
  BY AtWork DEF Done
<1>2. CASE op.size = n
  <2>1. op'.va = 0 /\ op'.size = 0
    BY <1>2 DEF Advance, Idle
  <2>2. DOMAIN ToDo' = (op'.va + Done') .. (op'.va + op'.size - 1)
    BY DEF ToDo
  <2>3. \A p : p \notin DOMAIN ToDo' /\ p \notin (op.va + n) .. (op.va + op.size - 1)
    BY <1>1, <1>2, <2>1, <2>2
  <2>4. DOMAIN ToDo' = {} /\ (op.va + n) .. (op.va + op.size - 1) = {}
    BY <2>3
  <2> QED
    BY <2>4
<1>3. CASE op.size # n
  <2>1. op' = [op EXCEPT !.va = op.va + n, !.size = op.size - n, !.level = 0,
                         !.pa = IF op.kind = "map" THEN op.pa + n ELSE 0]
    BY <1>3 DEF Advance
  <2>2. /\ op'.kind = op.kind /\ op'.va = op.va + n /\ op'.size = op.size - n /\ op'.attr = op.attr
        /\ op.kind = "map" => op'.pa = op.pa + n
    BY <1>1, <2>1 DEF Ops
  <2>3. DOMAIN ToDo' = (op.va + n) .. (op.va + op.size - 1)
    <3>1. DOMAIN ToDo' = (op'.va + 0) .. (op'.va + op'.size - 1)
      BY <1>1 DEF ToDo
    <3>2. op'.va + 0 = op.va + n /\ op'.va + op'.size - 1 = op.va + op.size - 1
      BY <1>1, <2>2
    <3> QED
      BY <3>1, <3>2
  <2>4. ASSUME NEW p \in DOMAIN ToDo'
        PROVE  ToDo'[p] = Setting(p)
    <3>1. ToDo'[p] = IF op'.kind = "map" THEN [pa |-> op'.pa + p - op'.va, attr |-> op'.attr] ELSE None
      BY <2>4 DEF ToDo, None
    <3>2. CASE op.kind = "map"
      <4>1. p \in Int
        BY <1>1, <2>3
      <4>2. op'.pa = op.pa + n /\ op'.va = op.va + n /\ op'.attr = op.attr /\ op'.kind = "map"
        BY <2>2, <3>2
      <4>3. op'.pa + p - op'.va = op.pa + p - op.va
        BY <1>1, <4>1, <4>2
      <4> QED
        BY <3>1, <3>2, <4>2, <4>3 DEF Setting
    <3>3. CASE op.kind # "map"
      BY <2>2, <3>1, <3>3 DEF Setting
    <3> QED
      BY <3>2, <3>3
  <2> QED
    BY <2>3, <2>4
<1> QED
  BY <1>2, <1>3

LEMMA MakesProgress ==
  ASSUME DOMAIN ToDo' \subseteq DOMAIN ToDo,
         \A p \in DOMAIN ToDo' : ToDo'[p] = ToDo[p],
         \A p \in Va : Walk(p)' = IF p \in DOMAIN ToDo \ DOMAIN ToDo' THEN ToDo[p] ELSE Walk(p)
  PROVE  Promise!Progress
<1>1. Mapping' = [p \in Va |-> Walk(p)']
  BY DEF Mapping, Va
<1>2. \A p \in Va : Mapping[p] = Walk(p)
  BY DEF Mapping
<1>3. Mapping' = [p \in Va |-> IF p \in DOMAIN ToDo \ DOMAIN ToDo' THEN ToDo[p] ELSE Mapping[p]]
  BY <1>1, <1>2
<1> QED
  BY <1>3 DEF Promise!Progress, Mapping

LEMMA SameProgress ==
  ASSUME SameWalks, ToDo' = ToDo
  PROVE  Promise!Progress
  BY MakesProgress DEF SameWalks

\* The call goes down.
LEMMA DeeperTodo ==
  ASSUME IInv, Deeper, freeing = <<>>, freeing' = <<>>
  PROVE  ToDo' = ToDo
<1>1. /\ op'.kind = op.kind /\ op'.va = op.va /\ op'.size = op.size /\ op'.pa = op.pa
      /\ op'.attr = op.attr /\ Done' = 0 /\ Done = 0
  BY DEF Deeper, IInv, TypeInv, Ops, Done
<1> QED
  BY <1>1 DEF ToDo, None

LEMMA HaltedTodo ==
  ASSUME op' = op, freeing' = freeing
  PROVE  ToDo' = ToDo
  BY DEF ToDo, None, Done

\* The call goes down, or the core stops.
LEMMA DeeperCareful ==
  ASSUME WalkInv, Careful, SameWalks, Reached', Deeper, op.kind # "none", freeing = <<>>, freeing' = <<>>
  PROVE  Careful'
<1>1. /\ op'.kind = op.kind /\ op'.va = op.va /\ op'.size = op.size /\ op'.level = op.level + 1
      /\ Done' = 0 /\ Done = 0 /\ op.level \in Nat /\ op.va \in Nat /\ op.size \in Nat
      /\ op.va + op.size <= VaPages /\ VaPages \in Nat
  <2>1. op' = [op EXCEPT !.level = op.level + 1] /\ op \in Ops
    BY DEF Deeper, WalkInv, IInv, TypeInv
  <2> QED
    BY <2>1, AtWork, MmuAssumption DEF WalkInv, IInv, CallInv, Ops, Done
<1>2. AllMapped => AllMapped'
  <2> SUFFICES ASSUME AllMapped, NEW p \in op.va .. (op.va + op.size - 1)
               PROVE  Walk(p)' # None
    BY <1>1 DEF AllMapped, None
  <2>1. p \in Va /\ p \in (op.va + Done) .. (op.va + op.size - 1)
    BY <1>1 DEF Va
  <2> QED
    BY <2>1 DEF AllMapped, SameWalks
<1>3. \A k : Whole(k) => Whole(k)'
  BY <1>1 DEF Whole
<1>4. Through => Through'
  <2>1. IsTable(Entry(op.va, 0), 0)'
    <3>1. 0 \in 0 .. op'.level - 1
      BY <1>1
    <3> QED
      BY <1>1, <3>1 DEF Reached, On
  <2>2. InOneTable => InOneTable'
    BY <1>1 DEF InOneTable
  <2> QED
    BY <2>1, <2>2 DEF Through
<1> QED
  BY <1>1, <1>2, <1>3, <1>4 DEF Careful

LEMMA HaltedCareful ==
  ASSUME WalkInv, Careful, tables' = tables, op' = op, freeing' = freeing
  PROVE  Careful'
<1>1. SameWalks /\ \A p, l : Entry(p, l)' = Entry(p, l)
  BY SameTables
<1>2. CASE op.kind = "unmap"
  <2>1. /\ op.va \in Nat /\ op.size \in Nat /\ op.va + op.size <= VaPages /\ VaPages \in Nat
        /\ op.level \in Levels /\ Cover[op.level] \in Nat /\ Done \in Nat /\ Done' = Done
    BY <1>2, AtWork, CoverFacts, MmuAssumption DEF WalkInv, IInv, CallInv, Done
  <2>2. AllMapped => AllMapped'
    <3> SUFFICES ASSUME AllMapped, NEW p \in (op.va + Done) .. (op.va + op.size - 1)
                 PROVE  Walk(p)' # None
      BY <2>1 DEF AllMapped, None
    <3>1. p \in Va
      BY <2>1 DEF Va
    <3> QED
      BY <1>1, <3>1 DEF AllMapped, SameWalks
  <2>3. \A k : Whole(k) => Whole(k)'
    BY DEF Whole
  <2>4. Through => Through'
    BY <1>1 DEF Through, InOneTable, IsTable, Entry, TableAt, Index, Null
  <2> QED
    BY <2>2, <2>3, <2>4 DEF Careful
<1> QED
  BY <1>2 DEF Careful

FullInv == WalkInv /\ Careful

\* What a step of a call is to the page map.
Kept == Promise!Progress /\ Reached' /\ Careful'

LEMMA DescendKept ==
  ASSUME FullInv, Descend
  PROVE  Kept
<1>1. Deeper /\ op.kind # "none" /\ freeing = <<>> /\ freeing' = <<>>
  BY DEF Descend, Descending, Working
<1>2. SameWalks /\ Reached'
  BY DescendWalks DEF FullInv
<1> QED
  BY <1>1, <1>2, DeeperTodo, SameProgress, DeeperCareful DEF FullInv, WalkInv, Kept

LEMMA LinkKept ==
  ASSUME FullInv, Descending, NEW filled, Link(filled), SameWalks, Reached'
  PROVE  Kept
<1>1. op.kind # "none" /\ freeing = <<>>
  BY DEF Descending, Working
<1>2. CASE OutOfTables
  <2>1. tables' = tables /\ op' = op /\ freeing' = freeing
    BY <1>2 DEF Link, Panic
  <2> QED
    BY <2>1, HaltedTodo, SameProgress, HaltedCareful DEF FullInv, Kept
<1>3. CASE ~OutOfTables
  <2>1. Deeper /\ freeing' = <<>>
    BY <1>1, <1>3 DEF Link
  <2> QED
    BY <1>1, <2>1, DeeperTodo, SameProgress, DeeperCareful DEF FullInv, WalkInv, Kept
<1> QED
  BY <1>2, <1>3

LEMMA HaltedKept ==
  ASSUME FullInv, tables' = tables, op' = op, freeing' = freeing
  PROVE  Kept
<1>1. SameWalks /\ Reached'
  BY PanicWalks DEF FullInv
<1> QED
  BY <1>1, HaltedTodo, SameProgress, HaltedCareful DEF FullInv, Kept

LEMMA SkipKept ==
  ASSUME FullInv, SkipUnmapped
  PROVE  Kept
<1>1. op.kind = "unmap" /\ freeing = <<>> /\ tables' = tables /\ freeing' = <<>>
  BY DEF SkipUnmapped, Descending, Working
<1>2. op' = Idle /\ \A p \in op.va .. op.va + op.size - 1 : Walk(p) = None
  BY SkipEnds DEF FullInv
<1>3. op.va \in Nat /\ op.size \in Nat /\ Done = 0
  BY <1>1, AtWork DEF FullInv, WalkInv, Done
<1>4. DOMAIN ToDo' = {}
  <2>1. DOMAIN ToDo' = (op'.va + Done') .. (op'.va + op'.size - 1)
    BY DEF ToDo
  <2>2. Done' = 0 /\ op'.va = 0 /\ op'.size = 0
    BY <1>1, <1>2 DEF Done, Idle
  <2> QED
    BY <2>1, <2>2
<1>5. \A p \in DOMAIN ToDo : ToDo[p] = None /\ Walk(p) = None
  <2> SUFFICES ASSUME NEW p \in DOMAIN ToDo
               PROVE  ToDo[p] = None /\ Walk(p) = None
    OBVIOUS
  <2>1. p \in op.va .. op.va + op.size - 1 /\ ToDo[p] = Setting(p)
    BY <1>3, TodoIs
  <2> QED
    BY <1>1, <1>2, <2>1 DEF Setting
<1>6. SameWalks
  BY <1>1, SameTables
<1>7. Promise!Progress
  BY <1>4, <1>5, <1>6, MakesProgress DEF SameWalks
<1>8. Reached' /\ Careful'
  BY <1>2 DEF Reached, Careful, Idle
<1> QED
  BY <1>7, <1>8 DEF Kept

\* A store sets the pages under its entry, as the call asks.
LEMMA StoreKept ==
  ASSUME FullInv, Working, op.level = TargetLevel(op), NEW d, Leaf(d, op.level), Store(d),
         \A p \in op.va .. op.va + Cover[op.level] - 1 :
           p % Cover[op.level] = p - op.va => Result(d, p, op.level) = Setting(p)
  PROVE  Kept
<1> DEFINE n == Cover[op.level]
<1>1. /\ op.kind # "none" /\ freeing = <<>> /\ Done = 0
      /\ op.va \in Nat /\ op.size \in Nat \ {0} /\ n \in Nat \ {0} /\ n <= op.size
      /\ op.va + op.size <= VaPages /\ VaPages \in Nat
  BY AtWork, CoverFacts, MmuAssumption DEF FullInv, WalkInv, Working, Done, Fits, IInv, CallInv
<1>2. /\ \A p \in Va : Walk(p)' = IF p \in op.va .. op.va + n - 1 THEN Result(d, p, op.level) ELSE Walk(p)
      /\ \A p \in op.va .. op.va + n - 1 : p % n = p - op.va
      /\ Reached' /\ IsTable(Entry(op.va, 0), 0) /\ \A v : v = op.va => IsTable(Entry(v, 0)', 0)
  BY StoreWalks DEF FullInv, Leaf
<1>3. \A p \in op.va .. op.va + n - 1 : Result(d, p, op.level) = Setting(p)
  BY <1>2
<1>4. /\ DOMAIN ToDo' = (op.va + n) .. (op.va + op.size - 1)
      /\ \A p \in DOMAIN ToDo' : ToDo'[p] = Setting(p)
  <2>1. CASE IsTable(Current, op.level)
    <3>1. op' = op /\ freeing' = TableAt(op.va, op.level + 1)
      BY <2>1 DEF Store
    <3>2. freeing' # <<>>
      BY <3>1 DEF TableAt
    <3>3. Done' = n
      BY <3>1, <3>2 DEF Done
    <3> HIDE DEF n
    <3> QED
      BY <3>1, <3>3 DEF ToDo, Setting, None
  <2>2. CASE ~IsTable(Current, op.level)
    <3>1. Advance(n) /\ freeing' = <<>>
      BY <1>1, <2>2 DEF Store
    <3> HIDE DEF n
    <3> QED
      BY <1>1, <3>1, AdvanceTodo DEF FullInv, WalkInv
  <2> QED
    BY <2>1, <2>2
<1>5. DOMAIN ToDo = op.va .. op.va + op.size - 1 /\ \A p \in DOMAIN ToDo : ToDo[p] = Setting(p)
  BY <1>1, TodoIs
<1> HIDE DEF n
<1>6. DOMAIN ToDo' \subseteq DOMAIN ToDo /\ \A p \in DOMAIN ToDo' : ToDo'[p] = ToDo[p]
  BY <1>1, <1>4, <1>5
<1>7. \A p : p \in DOMAIN ToDo \ DOMAIN ToDo' <=> p \in op.va .. op.va + n - 1
  BY <1>1, <1>4, <1>5
<1>8. \A p \in Va : Walk(p)' = IF p \in DOMAIN ToDo \ DOMAIN ToDo' THEN ToDo[p] ELSE Walk(p)
  BY <1>2, <1>3, <1>5, <1>7
<1>9. Promise!Progress
  BY <1>6, <1>8, MakesProgress
<1>10. Careful'
  <2>1. CASE op.kind # "unmap"
    <3>1. op'.kind # "unmap"
      <4>1. op \in Ops
        BY DEF FullInv, WalkInv, IInv, TypeInv
      <4>2. CASE op' = op
        BY <2>1, <4>2
      <4>3. CASE Advance(Cover[op.level])
        BY <2>1, <4>1, <4>3 DEF Advance, Idle, Ops
      <4> QED
        BY <4>2, <4>3 DEF Store
    <3> QED
      BY <3>1 DEF Careful
  <2>2. CASE op.kind = "unmap" /\ ~IsTable(Current, op.level)
    <3>1. Advance(Cover[op.level]) /\ freeing' = <<>>
      BY <1>1, <2>2 DEF Store
    <3>2. \A p \in Va : p >= op.va + n => Walk(p)' = Walk(p)
      BY <1>1, <1>2, VaFacts
    <3> QED
      BY <1>2, <2>2, <3>1, <3>2, AdvanceCareful DEF FullInv, n
  <2>3. CASE op.kind = "unmap" /\ IsTable(Current, op.level)
    <3>1. op' = op /\ freeing' = TableAt(op.va, op.level + 1)
      BY <2>3 DEF Store
    <3>2. freeing' # <<>> /\ Done' = n
      BY <3>1 DEF TableAt, Done, n
    <3>3. AllMapped => AllMapped'
      <4> SUFFICES ASSUME AllMapped, NEW p \in (op.va + n) .. (op.va + op.size - 1)
                   PROVE  Walk(p)' # None
        BY <3>1, <3>2 DEF AllMapped, None
      <4>1. p \in Va /\ p \notin op.va .. op.va + n - 1 /\ p \in (op.va + Done) .. (op.va + op.size - 1)
        BY <1>1 DEF Va
      <4> QED
        BY <1>2, <4>1 DEF AllMapped
    <3>4. \A k : Whole(k) => Whole(k)'
      BY <3>1 DEF Whole
    <3>5. Through => Through'
      <4>1. PICK v : v = op.va
        OBVIOUS
      <4>2. IsTable(Entry(v, 0)', 0)
        BY <1>2, <4>1
      <4>3. op'.va = v
        BY <3>1, <4>1
      <4>4. IsTable(Entry(op.va, 0), 0)'
        BY <4>2, <4>3 DEF IsTable, Entry, TableAt, Index, Null
      <4>5. InOneTable => InOneTable'
        BY <3>1 DEF InOneTable
      <4> QED
        BY <4>4, <4>5 DEF Through
    <3> QED
      BY <2>3, <3>1, <3>3, <3>4, <3>5 DEF FullInv, Careful
  <2> QED
    BY <2>1, <2>2, <2>3
<1> QED
  BY <1>2, <1>9, <1>10 DEF Kept

LEMMA MapStoreKept ==
  ASSUME FullInv, MapStore
  PROVE  Kept
<1>1. /\ Working /\ op.kind = "map" /\ op.level = TargetLevel(op)
      /\ Store(BlockDesc(op.pa, op.attr, op.level))
  BY DEF MapStore
<1>2. /\ op \in Ops /\ op.level \in 1 .. MaxLevel /\ op.level \in Nat /\ Fits(op, op.level)
      /\ op.pa \in Nat /\ op.va \in Nat /\ Cover[op.level] \in Nat
  BY <1>1, AtWork, CoverFacts DEF FullInv, WalkInv
<1> DEFINE d == BlockDesc(op.pa, op.attr, op.level)
<1>3. d = [bits |-> IF op.level = MaxLevel THEN 3 ELSE 1, out |-> op.pa, attr |-> op.attr]
  BY DEF BlockDesc
<1> HIDE DEF d
<1>4. d \in Descriptors /\ ~IsTable(d, op.level) /\ Valid(d)
  BY <1>2, <1>3, LevelFacts DEF Descriptors, Ops, IsTable, Valid
<1>5. Leaf(d, op.level)
  <2>1. op.pa % Cover[op.level] = 0 /\ op.level > 0
    BY <1>2 DEF Fits
  <2> QED
    BY <1>3, <1>4, <2>1 DEF Leaf
<1>6. ASSUME NEW p \in op.va .. op.va + Cover[op.level] - 1, p % Cover[op.level] = p - op.va
      PROVE  Result(d, p, op.level) = Setting(p)
  <2>1. Result(d, p, op.level) = [pa |-> op.pa + (p - op.va), attr |-> op.attr]
    BY <1>3, <1>4, <1>6 DEF Result
  <2>2. op.pa + (p - op.va) = op.pa + p - op.va
    <3>1. p \in Int
      OBVIOUS
    <3> QED
      BY <1>2, <3>1
  <2> QED
    BY <1>1, <2>1, <2>2 DEF Setting
<1>7. Store(d)
  BY <1>1 DEF d
<1> QED
  BY <1>1, <1>5, <1>6, <1>7, StoreKept

LEMMA UnmapStoreKept ==
  ASSUME FullInv, UnmapStore
  PROVE  Kept
<1>1. Working /\ op.kind = "unmap" /\ op.level = TargetLevel(op)
  BY DEF UnmapStore
<1>2. CASE op.level = MaxLevel /\ ~Valid(Current)
  BY <1>2, HaltedKept DEF UnmapStore, Panic
<1>3. CASE ~(op.level = MaxLevel /\ ~Valid(Current))
  <2>1. Store(Null)
    BY <1>3 DEF UnmapStore
  <2>2. Leaf(Null, op.level) /\ ~Valid(Null)
    BY DEF Leaf, Null, Descriptors, Valid, IsTable
  <2>3. \A p : Result(Null, p, op.level) = None /\ Setting(p) = None
    BY <1>1, <2>2 DEF Result, Setting
  <2> QED
    BY <1>1, <2>1, <2>2, <2>3, StoreKept
<1> QED
  BY <1>2, <1>3

LEMMA FreeKept ==
  ASSUME FullInv, FreeSubtree
  PROVE  Kept
<1>1. freeing # <<>>
  BY DEF FreeSubtree
<1>2. CASE ~FreeWorks \/ (\E u \in Under(freeing) : MistakesPage(u))
  BY <1>2, HaltedKept DEF FreeSubtree, Panic
<1>3. CASE ~(~FreeWorks \/ (\E u \in Under(freeing) : MistakesPage(u)))
  <2> DEFINE n == Cover[op.level]
  <2>1. /\ tables' = [u \in DOMAIN tables \ Under(freeing) |-> tables[u]]
        /\ freeing' = <<>> /\ Advance(n)
    BY <1>3 DEF FreeSubtree, Frees
  <2>2. /\ op.kind # "none" /\ op.level = TargetLevel(op) /\ Done = n
        /\ op.va \in Nat /\ op.va \in Va /\ n \in Nat \ {0} /\ n <= op.size /\ op.size \in Nat
        /\ op.level # 0
    <3>1. op.kind # "none" /\ op.level = TargetLevel(op) /\ Done = n
      BY <1>1 DEF FullInv, WalkInv, IInv, CallInv, Done
    <3> QED
      BY <3>1, AtWork, CoverFacts, MmuAssumption DEF FullInv, WalkInv, Fits, Va
  <2>3. SameWalks /\ Reached' /\ \A v \in Va : Entry(v, 0)' = Entry(v, 0)
    BY <1>1, <2>1, FreeWalks DEF FullInv
  <2>4. Promise!Progress
    <3>1. /\ DOMAIN ToDo' = (op.va + n) .. (op.va + op.size - 1)
          /\ \A p \in DOMAIN ToDo' : ToDo'[p] = Setting(p)
      <4> HIDE DEF n
      <4> QED
        BY <2>1, <2>2, AdvanceTodo DEF FullInv, WalkInv
    <3>2. DOMAIN ToDo = (op.va + n) .. (op.va + op.size - 1) /\ \A p \in DOMAIN ToDo : ToDo[p] = Setting(p)
      BY <2>2, TodoIs
    <3> HIDE DEF n
    <3> QED
      BY <2>3, <3>1, <3>2, MakesProgress DEF SameWalks
  <2>5. Careful'
    <3>1. CASE op.kind # "unmap"
      <4>1. op'.kind # "unmap"
        <5>1. op \in Ops
          BY DEF FullInv, WalkInv, IInv, TypeInv
        <5> QED
          BY <2>1, <3>1, <5>1 DEF Advance, Idle, Ops
      <4> QED
        BY <4>1 DEF Careful
    <3>2. CASE op.kind = "unmap"
      <4>1. IsTable(Entry(op.va, 0), 0)
        <5>1. 0 \in 0 .. op.level - 1
          BY <2>2, AtWork DEF FullInv, WalkInv
        <5> QED
          BY <2>2, <5>1 DEF FullInv, WalkInv, Reached, On
      <4>2. \A v : v = op.va => IsTable(Entry(v, 0)', 0)
        BY <2>2, <2>3, <4>1
      <4> QED
        BY <2>1, <2>2, <2>3, <3>2, <4>2, AdvanceCareful DEF FullInv, SameWalks
    <3> QED
      BY <3>1, <3>2
  <2> QED
    BY <2>3, <2>4, <2>5 DEF Kept
<1> QED
  BY <1>2, <1>3

LEMMA StepKept ==
  ASSUME FullInv, Step
  PROVE  Kept
<1>1. CASE Descend
  BY <1>1, DescendKept
<1>2. CASE NewTable
  <2>1. SameWalks /\ Reached'
    BY <1>2, NewTableWalks DEF FullInv
  <2> QED
    BY <1>2, <2>1, LinkKept DEF NewTable
<1>3. CASE Split
  <2>1. SameWalks /\ Reached'
    BY <1>3, SplitWalks DEF FullInv
  <2> QED
    BY <1>3, <2>1, LinkKept DEF Split
<1> QED
  BY <1>1, <1>2, <1>3, SkipKept, MapStoreKept, UnmapStoreKept, FreeKept DEF Step

\* A call gives its pages something to become.
LEMMA BeginCalls ==
  ASSUME FullInv, op.kind = "none", UNCHANGED <<tables, freeing, panic>>,
         op' \in Ops, op'.level = 0, op'.size # 0, op'.va + op'.size <= VaPages
  PROVE  Promise!Call /\ Reached'
<1>1. op = Idle /\ freeing = <<>> /\ Done = 0 /\ Done' = 0
  BY DEF FullInv, WalkInv, IInv, CallInv, Done
<1>2. DOMAIN ToDo = {}
  <2>1. DOMAIN ToDo = 0 .. -1
    BY <1>1, TodoIs DEF Idle
  <2> QED
    BY <2>1
<1>3. /\ op'.va \in Nat /\ op'.size \in Nat /\ op'.pa \in Nat /\ op'.attr \in Attrs \cup {NoAttr}
      /\ VaPages \in Nat
  BY MmuAssumption DEF Ops
<1>4. DOMAIN ToDo' = op'.va .. op'.va + op'.size - 1
  BY <1>1, <1>3 DEF ToDo
<1>5. DOMAIN ToDo' \subseteq Va
  BY <1>3, <1>4 DEF Va
<1>6. ToDo' \in [DOMAIN ToDo' -> [pa : Nat, attr : Attrs \cup {NoAttr}]]
  <2> SUFFICES ASSUME NEW p \in DOMAIN ToDo'
               PROVE  ToDo'[p] \in [pa : Nat, attr : Attrs \cup {NoAttr}]
    BY DEF ToDo
  <2>1. ToDo'[p] = IF op'.kind = "map" THEN [pa |-> op'.pa + p - op'.va, attr |-> op'.attr] ELSE None
    BY DEF ToDo, None
  <2>2. op'.pa + p - op'.va \in Nat
    <3>1. p \in Int /\ p >= op'.va
      BY <1>3, <1>4
    <3> QED
      BY <1>3, <3>1
  <2> QED
    BY <1>3, <2>1, <2>2 DEF None
<1>7. Mapping' = Mapping
  <2>1. SameWalks
    BY SameTables
  <2> QED
    BY <2>1 DEF Mapping, SameWalks, Va
<1>8. Promise!Call
  BY <1>2, <1>5, <1>6, <1>7 DEF Promise!Call, Mapping
<1>9. Reached'
  BY ReachedAtTop
<1> QED
  BY <1>8, <1>9

LEMMA MapCalls ==
  ASSUME FullInv, NEW va \in Va, NEW size \in 1 .. VaPages, NEW delta \in Deltas,
         NEW attr \in Attrs, Map(va, delta, size, attr)
  PROVE  Promise!Call /\ Reached' /\ Careful'
<1>1. va \in Nat /\ delta \in Nat /\ size \in Nat /\ size # 0
  BY MmuAssumption DEF Va
<1>2. op' = [kind |-> "map", va |-> va, pa |-> va + delta, size |-> size,
            attr |-> attr, level |-> 0]
  BY DEF Map
<1>3. op' \in Ops
  BY <1>1, <1>2, LevelFacts DEF Ops
<1>4. Careful'
  BY <1>2 DEF Careful
<1> QED
  BY <1>1, <1>2, <1>3, <1>4, BeginCalls DEF Map

LEMMA UnmapCalls ==
  ASSUME FullInv, CarefulUnmaps, NEW va \in Va, NEW size \in 1 .. VaPages, Unmap(va, size)
  PROVE  Promise!Call /\ Reached' /\ Careful'
<1>1. va \in Nat /\ size \in Nat /\ size # 0
  BY MmuAssumption DEF Va
<1>2. op' = [kind |-> "unmap", va |-> va, pa |-> 0, size |-> size,
            attr |-> NoAttr, level |-> 0]
  BY DEF Unmap, Idle
<1>3. op' \in Ops
  BY <1>1, <1>2, LevelFacts DEF Ops
<1>4. /\ op.kind = "none" /\ va + size <= VaPages /\ UNCHANGED <<tables, freeing, panic>>
      /\ AlignedBlock(va, size) \/ \A p \in va .. va + size - 1 : Walk(p) # None
  BY DEF Unmap
<1>5. Promise!Call /\ Reached'
  BY <1>1, <1>2, <1>3, <1>4, BeginCalls
<1>6. CASE AlignedBlock(va, size)
  <2>1. PICK k \in Levels : size = Cover[k] /\ va % size = 0
    BY <1>6 DEF AlignedBlock
  <2>2. Whole(k)'
    BY <1>2, <2>1 DEF Whole
  <2> QED
    BY <1>5, <2>2 DEF Careful
<1>7. CASE \A p \in va .. va + size - 1 : Walk(p) # None
  <2>1. Done' = 0
    BY <1>4 DEF FullInv, WalkInv, IInv, CallInv, Done
  <2>2. SameWalks
    BY <1>4, SameTables
  <2>3. ASSUME NEW p \in va .. va + size - 1
        PROVE  Walk(p)' # None
    <3>1. p \in Va
      BY <1>1, <1>4, MmuAssumption DEF Va
    <3> QED
      BY <1>7, <2>2, <3>1 DEF SameWalks
  <2>4. AllMapped'
    <3>1. (op'.va + Done') .. (op'.va + op'.size - 1) = va .. va + size - 1
      BY <1>1, <1>2, <2>1
    <3> QED
      BY <2>3, <3>1 DEF AllMapped, None
  <2> QED
    BY <1>5, <2>4 DEF Careful
<1> QED
  BY <1>4, <1>6, <1>7

LEMMA NextKept ==
  ASSUME FullInv, CarefulUnmaps, [Next]_vars
  PROVE  [Promise!Next]_(Promise!vars) /\ FullInv'
<1>1. IInv'
  BY NextIInv DEF FullInv, WalkInv
<1>2. CASE Step
  BY <1>1, <1>2, StepKept DEF Kept, Promise!Next, FullInv, WalkInv
<1>3. CASE \E va \in Va, size \in 1 .. VaPages :
             \/ \E delta \in Deltas, attr \in Attrs : Map(va, delta, size, attr)
             \/ Unmap(va, size)
  <2>1. Promise!Call /\ Reached' /\ Careful'
    BY <1>3, MapCalls, UnmapCalls
  <2> QED
    BY <1>1, <2>1 DEF Promise!Next, FullInv, WalkInv
<1>4. CASE UNCHANGED vars
  <2>1. Kept
    BY <1>4, HaltedKept DEF vars
  <2> QED
    BY <1>1, <2>1 DEF Kept, Promise!Next, FullInv, WalkInv
<1> QED
  BY <1>2, <1>3, <1>4 DEF Next

LEMMA InitKept == Init => FullInv /\ Promise!Init
<1> SUFFICES ASSUME Init
             PROVE  FullInv /\ Promise!Init
  OBVIOUS
<1>1. IInv
  BY InitIInv
<1>2. op = Idle /\ freeing = <<>> /\ tables = [t \in {<<0, 0>>} |-> NullTable]
  BY DEF Init
<1>3. FullInv
  BY <1>1, <1>2 DEF FullInv, WalkInv, Reached, Careful, Idle
<1>4. ToDo = [p \in {} |-> CHOOSE t \in [pa : Nat, attr : Attrs \cup {NoAttr}] : TRUE]
  <2>1. Done = 0 /\ op.va = 0 /\ op.size = 0
    BY <1>2 DEF Done, Idle
  <2>2. (op.va + Done) .. (op.va + op.size - 1) = {}
    BY <2>1
  <2> QED
    BY <2>2 DEF ToDo
<1>5. ASSUME NEW p \in Va
      PROVE  Walk(p) = None
  <2>1. On(p, 0)
    BY DEF On
  <2>2. 0 \in Levels /\ p \in Nat
    BY LevelFacts, VaFacts
  <2>3. TableAt(p, 0) = <<0, 0>> /\ Index(p, 0) \in 0 .. Fanout - 1
    BY <2>2, VaFacts, TopTable, IndexInTable
  <2>4. Entry(p, 0) = Null
    BY <1>2, <2>3 DEF Entry, NullTable
  <2>5. ~IsTable(Entry(p, 0), 0) /\ ~Valid(Entry(p, 0))
    BY <2>4 DEF Null, IsTable, Valid
  <2>6. Walk(p) = Result(Entry(p, 0), p, 0)
    BY <2>1, <2>2, <2>5, WalkIs
  <2> QED
    BY <2>5, <2>6 DEF Result
<1>6. Mapping \in [Va -> [pa : Nat, attr : Attrs \cup {NoAttr}]]
  BY <1>5 DEF Mapping, None
<1> QED
  BY <1>3, <1>4, <1>6 DEF Promise!Init, Promise!NoPages, Mapping

\* To a walker that reads the tables at any moment each call sets its pages,
\* some at each store, to what was asked, and changes no other page, whatever
\* is split, replaced or freed: for every range mapped, and every range
\* unmapped that is mapped throughout or is one aligned entry.
THEOREM ImplementsPageMap ==
  ASSUME CarefulUnmaps
  PROVE  Spec => PromiseSpec
<1>1. FullInv /\ [Next]_vars => FullInv' /\ [Promise!Next]_(Promise!vars)
  BY NextKept
<1> QED
  BY <1>1, InitKept, PTL DEF Spec, PromiseSpec, Promise!Spec

-----------------------------------------------------------------------------
(* mmu_peek: each place its loop visits is the entry a walk ends at. *)

LEMMA EndFacts ==
  ASSUME NEW p \in Va
  PROVE  /\ EndLevel(p) \in Levels /\ On(p, EndLevel(p))
         /\ ~IsTable(Entry(p, EndLevel(p)), EndLevel(p))
<1>1. \E l \in Levels :
        ~IsTable(Entry(p, l), l) /\ \A k \in 0 .. l - 1 : IsTable(Entry(p, k), k)
  BY WalkEnds DEF On
<1>2. /\ EndLevel(p) \in Levels /\ ~IsTable(Entry(p, EndLevel(p)), EndLevel(p))
      /\ \A k \in 0 .. EndLevel(p) - 1 : IsTable(Entry(p, k), k)
  BY <1>1, Zenon DEF EndLevel
<1> QED
  BY <1>2 DEF On

\* A walk ends at one level.
LEMMA EndUnique ==
  ASSUME NEW p \in Va, NEW e \in Levels, On(p, e), ~IsTable(Entry(p, e), e)
  PROVE  e = EndLevel(p)
<1> DEFINE x == EndLevel(p)
<1>1. x \in Levels /\ On(p, x) /\ ~IsTable(Entry(p, x), x)
  BY EndFacts
<1>2. x \in Nat /\ e \in Nat
  BY <1>1, LevelFacts
<1> HIDE DEF x
<1>3. CASE e < x
  <2>1. e \in 0 .. x - 1
    BY <1>2, <1>3
  <2> QED
    BY <1>1, <2>1 DEF On
<1>4. CASE x < e
  <2>1. x \in 0 .. e - 1
    BY <1>2, <1>4
  <2> QED
    BY <1>1, <2>1 DEF On
<1> QED
  BY <1>2, <1>3, <1>4 DEF x

LEMMA BlockFacts ==
  ASSUME NEW p \in Va
  PROVE  /\ BlockStart(p) \in Nat /\ BlockStart(p) % Cover[EndLevel(p)] = 0
         /\ BlockStart(p) <= p /\ p < BlockEnd(p) /\ BlockEnd(p) \in Nat
         /\ BlockEnd(p) = BlockStart(p) + Cover[EndLevel(p)]
<1> DEFINE c == Cover[EndLevel(p)]
<1>1. c \in Nat \ {0} /\ p \in Nat
  BY EndFacts, CoverFacts, VaFacts
<1>2. BlockStart(p) = p - (p % c) /\ BlockEnd(p) = BlockStart(p) + c
  BY DEF BlockStart, BlockEnd
<1> HIDE DEF c
<1>3. /\ p - (p % c) \in Nat /\ p - (p % c) <= p /\ p < p - (p % c) + c
      /\ (p - (p % c)) % c = 0
  BY <1>1, MultipleBelow
<1> DEFINE s == p - (p % c)
<1>4. s \in Nat /\ s <= p /\ p < s + c /\ s % c = 0 /\ BlockStart(p) = s
  BY <1>2, <1>3, Zenon
<1> HIDE DEF s
<1>5. BlockStart(p) \in Nat /\ BlockStart(p) <= p /\ p < BlockEnd(p) /\ BlockEnd(p) \in Nat
  BY <1>1, <1>2, <1>4
<1> QED
  BY <1>2, <1>4, <1>5 DEF c

InBlock(p, v) == p \in BlockStart(v) .. BlockEnd(v) - 1

\* Two pages under one entry have one report, and it tells how both are
\* translated.
LEMMA OneReport ==
  ASSUME NEW p \in Va, NEW v \in Va, InBlock(p, v)
  PROVE  Report(p) = Report(v) /\ Tells(Report(v), p) = Walk(p)
<1> DEFINE e == EndLevel(v)
           s == BlockStart(v)
           c == Cover[e]
<1>1. /\ e \in Levels /\ On(v, e) /\ ~IsTable(Entry(v, e), e)
      /\ s \in Nat /\ s % c = 0 /\ s <= v /\ v < s + c /\ BlockEnd(v) = s + c /\ c \in Nat \ {0}
      /\ p \in Nat /\ v \in Nat
  BY EndFacts, BlockFacts, CoverFacts, VaFacts
<1>2. p \in s .. s + c - 1 /\ v \in s .. s + c - 1
  BY <1>1 DEF InBlock
<1> HIDE DEF e, s
<1>3. Together(p, s, e) /\ Together(v, s, e) /\ p % c = p - s
  BY <1>1, <1>2, TogetherRun
<1>4. Together(p, v, e)
  BY <1>3 DEF Together
<1>5. On(p, e) /\ Entry(p, e) = Entry(v, e)
  BY <1>1, <1>4, OnTogether
<1>6. e = EndLevel(p)
  BY <1>1, <1>5, EndUnique
<1>7. BlockStart(p) = s
  <2>1. BlockStart(p) = p - (p % c)
    BY <1>6 DEF BlockStart
  <2>2. p - (p % c) = p - (p - s)
    BY <1>3, Zenon
  <2>3. p - (p - s) = s
    BY <1>1
  <2> QED
    BY <2>1, <2>2, <2>3, Zenon
<1>8. Report(v) = [va |-> s, bytes |-> c, entry |-> Entry(v, e)]
  BY DEF Report, e, s
<1>9. Report(p) = [va |-> s, bytes |-> c, entry |-> Entry(v, e)]
  BY <1>5, <1>6, <1>7 DEF Report
<1>10. Tells(Report(v), p) = Walk(p)
  <2>1. Walk(p) = Result(Entry(v, e), p, e)
    BY <1>1, <1>4, WalkTogether
  <2>2. Result(Entry(v, e), p, e) =
          IF Valid(Entry(v, e)) THEN [pa |-> Entry(v, e).out + (p - s), attr |-> Entry(v, e).attr] ELSE None
    BY <1>3, Zenon DEF Result
  <2>3. Tells(Report(v), p) =
          IF Valid(Entry(v, e)) THEN [pa |-> Entry(v, e).out + (p - s), attr |-> Entry(v, e).attr] ELSE None
    BY <1>8 DEF Tells
  <2> QED
    BY <2>1, <2>2, <2>3
<1> QED
  BY <1>8, <1>9, <1>10

\* The loop visits a next place for every address that is left.
VisitOf(f, v) ==
  [end \in 1 .. VaPages |-> {v} \cup IF BlockEnd(v) < end THEN f[BlockEnd(v)][end] ELSE {}]

LEMMA VisitsExist ==
  \E f : f = [v \in Va |-> VisitOf(f, v)]
<1> DEFINE W(f, n) == f = [v \in (VaPages - n) .. (VaPages - 1) |-> VisitOf(f, v)]
           Bad == {n \in 0 .. VaPages : ~ \E f : W(f, n)}
<1>0. VaPages \in Nat \ {0}
  BY MmuAssumption
<1>1. ASSUME Bad # {}
      PROVE  FALSE
  <2>1. Bad \in SUBSET Nat
    BY <1>0
  <2>2. PICK n \in Bad : \A x \in Bad : n <= x
    <3> HIDE DEF Bad
    <3> QED
      BY <1>1, <2>1, HasLeast
  <2>3. n \in 0 .. VaPages /\ ~ \E f : W(f, n)
    OBVIOUS
  <2>4. CASE n = 0
    <3> DEFINE g == [v \in {} |-> {}]
    <3>1. (VaPages - n) .. (VaPages - 1) = {}
      BY <1>0, <2>4
    <3>2. W(g, n)
      BY <3>1
    <3> QED
      BY <2>3, <3>2
  <2>5. CASE n # 0
    <3> DEFINE k == VaPages - n
    <3>1. /\ n - 1 \in 0 .. VaPages /\ ~(n <= n - 1) /\ VaPages - (n - 1) = k + 1 /\ k \in Va
          /\ k \in Nat /\ k < VaPages
      BY <1>0, <2>3, <2>5 DEF Va
    <3>2. n - 1 \notin Bad
      <4> HIDE DEF Bad
      <4> QED
        BY <2>2, <3>1
    <3>3. PICK f : W(f, n - 1)
      BY <3>1, <3>2
    <3> HIDE DEF k
    <3>4. \A v \in (k + 1) .. (VaPages - 1) : f[v] = VisitOf(f, v)
      BY <3>1, <3>3
    <3> DEFINE g == [v \in k .. (VaPages - 1) |-> IF v = k THEN VisitOf(f, k) ELSE f[v]]
    <3>5. \A v \in k .. (VaPages - 1), end \in 1 .. VaPages :
            BlockEnd(v) < end => BlockEnd(v) \in (k + 1) .. (VaPages - 1)
      <4> SUFFICES ASSUME NEW v \in k .. (VaPages - 1), NEW end \in 1 .. VaPages, BlockEnd(v) < end
                   PROVE  BlockEnd(v) \in (k + 1) .. (VaPages - 1)
        OBVIOUS
      <4>1. v \in Va
        BY <1>0, <3>1 DEF Va
      <4>2. v < BlockEnd(v) /\ BlockEnd(v) \in Nat
        BY <4>1, BlockFacts
      <4> QED
        BY <1>0, <3>1, <4>2
    <3>6. \A x \in (k + 1) .. (VaPages - 1) : g[x] = f[x]
      BY <1>0, <3>1
    <3> HIDE DEF g
    <3>7. \A v \in k .. (VaPages - 1) : VisitOf(g, v) = VisitOf(f, v)
      <4> SUFFICES ASSUME NEW v \in k .. (VaPages - 1)
                   PROVE  VisitOf(g, v) = VisitOf(f, v)
        OBVIOUS
      <4>1. \A end \in 1 .. VaPages : BlockEnd(v) < end => g[BlockEnd(v)] = f[BlockEnd(v)]
        BY <3>5, <3>6
      <4>2. \A end \in 1 .. VaPages :
              ({v} \cup IF BlockEnd(v) < end THEN g[BlockEnd(v)][end] ELSE {}) =
              ({v} \cup IF BlockEnd(v) < end THEN f[BlockEnd(v)][end] ELSE {})
        BY <4>1
      <4> QED
        BY <4>2 DEF VisitOf
    <3>8. \A v \in k .. (VaPages - 1) : g[v] = VisitOf(f, v)
      <4> SUFFICES ASSUME NEW v \in k .. (VaPages - 1)
                   PROVE  g[v] = VisitOf(f, v)
        OBVIOUS
      <4>1. CASE v = k
        BY <4>1 DEF g
      <4>2. CASE v # k
        <5>1. v \in (k + 1) .. (VaPages - 1)
          BY <3>1, <4>2
        <5> QED
          BY <3>4, <3>6, <5>1
      <4> QED
        BY <4>1, <4>2
    <3>9. g = [v \in k .. (VaPages - 1) |-> g[v]]
      BY DEF g
    <3>10. g = [v \in k .. (VaPages - 1) |-> VisitOf(g, v)]
      BY <3>7, <3>8, <3>9
    <3>11. W(g, n)
      BY <3>10 DEF k
    <3> QED
      BY <2>3, <3>11
  <2> QED
    BY <2>4, <2>5
<1>2. VaPages \notin Bad
  BY <1>1
<1>3. VaPages \in 0 .. VaPages
  BY <1>0
<1>4. PICK f : W(f, VaPages)
  BY <1>2, <1>3
<1>5. (VaPages - VaPages) .. (VaPages - 1) = Va
  BY <1>0 DEF Va
<1> QED
  BY <1>4, <1>5

LEMMA VisitUnfolds ==
  \A v \in Va, end \in 1 .. VaPages :
    VisitedFrom[v][end] = {v} \cup IF BlockEnd(v) < end THEN VisitedFrom[BlockEnd(v)][end] ELSE {}
<1>1. VisitedFrom = [v \in Va |-> VisitOf(VisitedFrom, v)]
  BY VisitsExist, Zenon DEF VisitedFrom, VisitOf
<1>2. \A v \in Va : VisitedFrom[v] = VisitOf(VisitedFrom, v)
  <2> DEFINE F == VisitedFrom
  <2>1. F = [v \in Va |-> VisitOf(F, v)]
    BY <1>1
  <2> HIDE DEF F
  <2>2. \A v \in Va : F[v] = VisitOf(F, v)
    BY <2>1
  <2> QED
    BY <2>2 DEF F
<1> QED
  BY <1>2 DEF VisitOf

\* The places visited are in the range and their blocks cover it.
LEMMA VisitsCover ==
  ASSUME NEW end \in 1 .. VaPages
  PROVE  \A v \in Va : v < end =>
           /\ \A x \in VisitedFrom[v][end] : x \in Va /\ v <= x /\ x < end
           /\ \A p \in v .. end - 1 : \E x \in VisitedFrom[v][end] : InBlock(p, x)
<1> DEFINE Good(v) == /\ \A x \in VisitedFrom[v][end] : x \in Va /\ v <= x /\ x < end
                      /\ \A p \in v .. end - 1 : \E x \in VisitedFrom[v][end] : InBlock(p, x)
           Bad == {n \in Nat : n <= VaPages /\ VaPages - n \in Va /\ VaPages - n < end /\ ~Good(VaPages - n)}
<1>0. VaPages \in Nat \ {0} /\ end \in Nat /\ end <= VaPages
  BY MmuAssumption
<1>1. ASSUME Bad # {}
      PROVE  FALSE
  <2>1. PICK n \in Bad : \A x \in Bad : n <= x
    <3>1. Bad \in SUBSET Nat
      OBVIOUS
    <3> HIDE DEF Bad
    <3> QED
      BY <1>1, <3>1, HasLeast
  <2> DEFINE v == VaPages - n
             b == BlockEnd(v)
             V == VisitedFrom[v][end]
  <2>2. n \in Nat /\ n <= VaPages /\ v \in Va /\ v < end /\ ~Good(v)
    OBVIOUS
  <2> HIDE DEF Good
  <2>3. /\ v \in Nat /\ b \in Nat /\ v < b /\ BlockStart(v) <= v /\ BlockStart(v) \in Nat
        /\ V = {v} \cup IF b < end THEN VisitedFrom[b][end] ELSE {}
    BY <2>2, BlockFacts, VaFacts, VisitUnfolds
  <2> HIDE DEF b, V
  <2>4. \A p \in v .. end - 1 : p < b => InBlock(p, v)
    BY <1>0, <2>3 DEF InBlock, b
  <2>5. CASE b < end
    <3> DEFINE m == VaPages - b
    <3>1. m \in Nat /\ m <= VaPages /\ VaPages - m = b /\ b \in Va /\ ~(n <= m)
      BY <1>0, <2>2, <2>3, <2>5 DEF Va
    <3>2. m \notin Bad
      <4> HIDE DEF Bad, m
      <4> QED
        BY <2>1, <3>1
    <3>3. Good(b)
      BY <2>5, <3>1, <3>2
    <3>4. /\ \A x \in VisitedFrom[b][end] : x \in Va /\ b <= x /\ x < end
          /\ \A p \in b .. end - 1 : \E x \in VisitedFrom[b][end] : InBlock(p, x)
      BY <3>3 DEF Good
    <3> HIDE DEF v, m
    <3>5. \A x \in V : x \in Va /\ v <= x /\ x < end
      <4> SUFFICES ASSUME NEW x \in V
                   PROVE  x \in Va /\ v <= x /\ x < end
        OBVIOUS
      <4>1. x = v \/ x \in VisitedFrom[b][end]
        BY <2>3, <2>5
      <4>2. CASE x \in VisitedFrom[b][end]
        <5>1. x \in Va /\ b <= x /\ x < end /\ x \in Nat
          BY <3>4, <4>2, VaFacts
        <5> QED
          BY <2>3, <5>1
      <4> QED
        BY <2>2, <2>3, <4>1, <4>2
    <3>6. \A p \in v .. end - 1 : \E x \in V : InBlock(p, x)
      <4> SUFFICES ASSUME NEW p \in v .. end - 1
                   PROVE  \E x \in V : InBlock(p, x)
        OBVIOUS
      <4>1. CASE p < b
        BY <2>3, <2>4, <4>1
      <4>2. CASE ~(p < b)
        <5>1. p \in b .. end - 1
          BY <1>0, <2>3, <4>2
        <5> QED
          BY <2>3, <2>5, <3>4, <5>1
      <4> QED
        BY <4>1, <4>2
    <3> QED
      BY <2>2, <3>5, <3>6 DEF Good, V
  <2>6. CASE ~(b < end)
    <3>1. V = {v}
      BY <2>3, <2>6
    <3>2. \A p \in v .. end - 1 : p < b
      BY <1>0, <2>3, <2>6
    <3> HIDE DEF v
    <3>3. /\ \A x \in V : x \in Va /\ v <= x /\ x < end
          /\ \A p \in v .. end - 1 : \E x \in V : InBlock(p, x)
      BY <2>2, <2>3, <2>4, <3>1, <3>2
    <3> QED
      BY <2>2, <3>3 DEF Good, V
  <2> QED
    BY <2>5, <2>6
<1>2. ASSUME NEW v \in Va, v < end
      PROVE  Good(v)
  <2> DEFINE n == VaPages - v
  <2>1. n \in Nat /\ n <= VaPages /\ VaPages - n = v
    BY <1>0, VaFacts
  <2>2. n \notin Bad
    BY <1>1
  <2> HIDE DEF Good, n
  <2> QED
    BY <1>2, <2>1, <2>2
<1> QED
  BY <1>2

-----------------------------------------------------------------------------
(* An entry that maps has the attributes it was given, so that a page that  *)
(* a walk maps is never taken for one that it does not.                     *)

HasAttr(d, l) == Valid(d) /\ ~IsTable(d, l) => d.attr \in Attrs
Attributed ==
  /\ \A t \in DOMAIN tables : \A i \in Entries : HasAttr(tables[t][i], t[1])
  /\ op.kind = "map" => op.attr \in Attrs

PeekInv == IInv /\ Attributed

\* A call that goes on has the attributes it was given.
LEMMA SameAttr ==
  ASSUME IInv, Attributed,
         Deeper \/ (\E n : Advance(n)) \/ UNCHANGED op
  PROVE  op'.kind = "map" => op'.attr \in Attrs
<1>1. op \in Ops
  BY DEF IInv, TypeInv
<1>2. CASE Deeper
  <2>1. op' = [op EXCEPT !.level = op.level + 1]
    BY <1>2 DEF Deeper
  <2>2. op'.kind = op.kind /\ op'.attr = op.attr
    BY <1>1, <2>1 DEF Ops
  <2> QED
    BY <2>2 DEF Attributed
<1>3. ASSUME NEW n, Advance(n)
      PROVE  op'.kind = "map" => op'.attr \in Attrs
  <2>1. CASE op.size = n
    BY <1>3, <2>1 DEF Advance, Idle
  <2>2. CASE op.size # n
    <3>1. op' = [op EXCEPT !.va = op.va + n, !.size = op.size - n, !.level = 0,
                           !.pa = IF op.kind = "map" THEN op.pa + n ELSE 0]
      BY <1>3, <2>2 DEF Advance
    <3>2. op'.kind = op.kind /\ op'.attr = op.attr
      BY <1>1, <3>1 DEF Ops
    <3> QED
      BY <3>2 DEF Attributed
  <2> QED
    BY <2>1, <2>2
<1>4. CASE UNCHANGED op
  BY <1>4 DEF Attributed
<1> QED
  BY <1>2, <1>3, <1>4

LEMMA SameTablesAttributed ==
  ASSUME IInv, Attributed, UNCHANGED tables,
         Deeper \/ (\E n : Advance(n)) \/ UNCHANGED op
  PROVE  Attributed'
<1>1. op'.kind = "map" => op'.attr \in Attrs
  BY SameAttr
<1> QED
  BY <1>1 DEF Attributed

LEMMA PanicAttributed ==
  ASSUME IInv, Attributed, NEW what, Panic(what)
  PROVE  Attributed'
  BY SameTablesAttributed DEF Panic

LEMMA LinkAttributed ==
  ASSUME IInv, Attributed, Descending, NEW filled \in [Entries -> Descriptors],
         \A k \in Entries : HasAttr(filled[k], op.level + 1), Link(filled)
  PROVE  Attributed'
<1>1. op.kind # "none" /\ op.level < TargetLevel(op)
  BY DEF Descending, Working
<1>2. CASE OutOfTables
  BY <1>2, PanicAttributed DEF Link
<1>3. CASE ~OutOfTables
  <2> DEFINE i == Index(op.va, op.level)
             c == TableAt(op.va, op.level + 1)
  <2>1. /\ tables' = [t \in DOMAIN tables \cup {c} |->
                        IF t = Here THEN [tables[t] EXCEPT ![i] = TableDesc]
                        ELSE IF t \in DOMAIN tables THEN tables[t]
                        ELSE filled]
        /\ Deeper
    BY <1>3 DEF Link
  <2>2. /\ i \in Entries /\ Here \in DOMAIN tables /\ Here[1] = op.level
        /\ op.level \in Levels /\ op.level # MaxLevel
        /\ tables[Here] \in [Entries -> Descriptors]
    BY <1>1, AtWork, LevelFacts DEF IInv, TypeInv
  <2>3. HasAttr(TableDesc, op.level)
    BY <2>2, LevelFacts DEF HasAttr, TableDesc, IsTable
  <2>4. c[1] = op.level + 1
    BY DEF TableAt
  <2> HIDE DEF i, c
  <2>5. ASSUME NEW t \in DOMAIN tables', NEW k \in Entries
        PROVE  HasAttr(tables'[t][k], t[1])
    <3>1. t \in DOMAIN tables \cup {c}
      BY <2>1
    <3>2. CASE t = Here
      <4>1. tables'[t] = [tables[Here] EXCEPT ![i] = TableDesc]
        BY <2>1, <3>1, <3>2
      <4>2. tables'[t][k] = IF k = i THEN TableDesc ELSE tables[Here][k]
        BY <2>2, <4>1
      <4> QED
        BY <2>2, <2>3, <3>2, <4>2 DEF Attributed
    <3>3. CASE t # Here /\ t \in DOMAIN tables
      BY <2>1, <3>1, <3>3 DEF Attributed
    <3>4. CASE t # Here /\ t \notin DOMAIN tables
      <4>1. t = c /\ tables'[t] = filled
        BY <2>1, <3>1, <3>4
      <4> QED
        BY <2>4, <4>1
    <3> QED
      BY <3>2, <3>3, <3>4
  <2>6. op'.kind = "map" => op'.attr \in Attrs
    BY <2>1, SameAttr
  <2> QED
    BY <2>5, <2>6 DEF Attributed
<1> QED
  BY <1>2, <1>3

LEMMA NewTableAttributed ==
  ASSUME IInv, Attributed, NewTable
  PROVE  Attributed'
<1>1. Descending /\ Link(NullTable)
  BY DEF NewTable
<1>2. NullTable \in [Entries -> Descriptors] /\ \A k \in Entries : NullTable[k] = Null
  BY DEF NullTable, Null, Entries, Descriptors
<1>3. \A k \in Entries : HasAttr(NullTable[k], op.level + 1)
  BY <1>2 DEF HasAttr, Valid, Null
<1> QED
  BY <1>1, <1>2, <1>3, LinkAttributed

LEMMA SplitAttributed ==
  ASSUME IInv, Attributed, Split
  PROVE  Attributed'
<1> DEFINE filled == [i \in Entries |->
                        BlockDesc(Current.out + i * Cover[op.level + 1], Current.attr, op.level + 1)]
<1>1. Descending /\ Current.bits = 1 /\ Link(filled)
  BY DEF Split, Entries
<1>2. op.kind # "none" /\ op.level < TargetLevel(op)
  BY <1>1 DEF Descending, Working
<1>3. /\ op.level \in Levels /\ op.level # MaxLevel /\ Here \in DOMAIN tables
      /\ Current = tables[Here][Index(op.va, op.level)] /\ Current \in Descriptors
      /\ Here[1] = op.level /\ Index(op.va, op.level) \in Entries
  BY <1>2, AtWork, LevelFacts
<1>4. ~IsTable(Current, op.level) /\ Valid(Current)
  BY <1>1 DEF IsTable, Valid
<1>5. Current.out % Cover[op.level] = 0
  BY <1>3, <1>4 DEF IInv, TablesSound, BlocksAligned, Entries
<1>6. Current.attr \in Attrs
  BY <1>3, <1>4 DEF Attributed, HasAttr
<1>7. \A k \in Entries :
        /\ BlockDesc(Current.out + k * Cover[op.level + 1], Current.attr, op.level + 1) \in Descriptors
        /\ BlockDesc(Current.out + k * Cover[op.level + 1], Current.attr, op.level + 1).attr = Current.attr
  BY <1>3, <1>5, SplitLeaves DEF BlockDesc
<1>8. filled \in [Entries -> Descriptors] /\ \A k \in Entries : HasAttr(filled[k], op.level + 1)
  BY <1>6, <1>7 DEF HasAttr
<1> HIDE DEF filled
<1> QED
  BY <1>1, <1>8, LinkAttributed

LEMMA StoreAttributed ==
  ASSUME IInv, Attributed, Working, NEW d, HasAttr(d, op.level), Store(d)
  PROVE  Attributed'
<1> DEFINE i == Index(op.va, op.level)
<1>1. op.kind # "none"
  BY DEF Working
<1>2. /\ Here \in DOMAIN tables /\ Here[1] = op.level /\ i \in Entries
      /\ tables[Here] \in [Entries -> Descriptors]
  BY <1>1, AtWork DEF IInv, TypeInv
<1>3. tables' = [tables EXCEPT ![Here][i] = d] /\ (UNCHANGED op \/ Advance(Cover[op.level]))
  BY DEF Store
<1> HIDE DEF i
<1>4. ASSUME NEW t \in DOMAIN tables', NEW k \in Entries
      PROVE  HasAttr(tables'[t][k], t[1])
  <2>1. t \in DOMAIN tables
    BY <1>3
  <2>2. CASE t = Here
    <3>1. tables'[t] = [tables[Here] EXCEPT ![i] = d]
      BY <1>2, <1>3, <2>2
    <3>2. tables'[t][k] = IF k = i THEN d ELSE tables[Here][k]
      BY <1>2, <3>1
    <3> QED
      BY <1>2, <2>2, <3>2 DEF Attributed
  <2>3. CASE t # Here
    BY <1>3, <2>1, <2>3 DEF Attributed
  <2> QED
    BY <2>2, <2>3
<1>5. op'.kind = "map" => op'.attr \in Attrs
  BY <1>3, SameAttr
<1> QED
  BY <1>4, <1>5 DEF Attributed

LEMMA StoresAttributed ==
  ASSUME IInv, Attributed, MapStore \/ UnmapStore
  PROVE  Attributed'
<1>1. CASE MapStore
  <2>1. Working /\ op.kind = "map" /\ Store(BlockDesc(op.pa, op.attr, op.level))
    BY <1>1 DEF MapStore
  <2>2. HasAttr(BlockDesc(op.pa, op.attr, op.level), op.level)
    BY <2>1 DEF HasAttr, BlockDesc, Attributed
  <2> QED
    BY <2>1, <2>2, StoreAttributed
<1>2. CASE UnmapStore
  <2>1. HasAttr(Null, op.level)
    BY DEF HasAttr, Null, Valid
  <2> QED
    BY <1>2, <2>1, PanicAttributed, StoreAttributed DEF UnmapStore
<1> QED
  BY <1>1, <1>2

LEMMA FreeAttributed ==
  ASSUME IInv, Attributed, FreeSubtree
  PROVE  Attributed'
<1>1. CASE Panic("free")
  BY <1>1, PanicAttributed
<1>2. CASE ~Panic("free")
  <2>1. /\ tables' = [t \in DOMAIN tables \ Frees(freeing) |-> tables[t]]
        /\ Advance(Cover[op.level])
    BY <1>2 DEF FreeSubtree
  <2>2. op'.kind = "map" => op'.attr \in Attrs
    BY <2>1, SameAttr
  <2>3. \A t \in DOMAIN tables' : t \in DOMAIN tables /\ tables'[t] = tables[t]
    BY <2>1
  <2> QED
    BY <2>2, <2>3 DEF Attributed
<1> QED
  BY <1>1, <1>2

LEMMA NextAttributed == PeekInv /\ [Next]_vars => PeekInv'
<1> SUFFICES ASSUME IInv, Attributed, [Next]_vars
             PROVE  Attributed'
  BY NextIInv DEF PeekInv
<1>1. CASE Descend
  BY <1>1, SameTablesAttributed DEF Descend
<1>2. CASE SkipUnmapped
  BY <1>2, SameTablesAttributed DEF SkipUnmapped
<1>3. ASSUME NEW va \in Va, NEW size \in 1 .. VaPages, NEW delta \in Deltas, NEW attr \in Attrs,
             Map(va, delta, size, attr)
      PROVE  Attributed'
  BY <1>3 DEF Map, Attributed
<1>4. ASSUME NEW va \in Va, NEW size \in 1 .. VaPages, Unmap(va, size)
      PROVE  Attributed'
  BY <1>4 DEF Unmap, Idle, Attributed
<1>5. CASE UNCHANGED vars
  BY <1>5, SameTablesAttributed DEF vars
<1> QED
  BY <1>1, <1>2, <1>3, <1>4, <1>5, NewTableAttributed, SplitAttributed, StoresAttributed,
     FreeAttributed DEF Next, Step

LEMMA InitAttributed == Init => PeekInv
<1> SUFFICES ASSUME Init
             PROVE  Attributed
  BY InitIInv DEF PeekInv
<1>1. /\ DOMAIN tables = {<<0, 0>>} /\ tables[<<0, 0>>] = NullTable /\ op.kind = "none"
  BY DEF Init, Idle
<1>2. \A i \in Entries : NullTable[i] = Null
  BY DEF NullTable, Entries
<1>3. ~Valid(Null)
  BY DEF Valid, Null
<1> QED
  BY <1>1, <1>2, <1>3 DEF Attributed, HasAttr

\* A page is mapped exactly when the entry its walk ends at is valid.
LEMMA MappedIsValid ==
  ASSUME IInv, Attributed, NEW p \in Va
  PROVE  Walk(p) # None <=> Valid(Report(p).entry)
<1> DEFINE e == EndLevel(p)
           d == Entry(p, e)
<1>1. e \in Levels /\ On(p, e) /\ ~IsTable(d, e) /\ p \in Nat
  BY EndFacts, VaFacts
<1>2. Report(p).entry = d
  BY DEF Report
<1>3. Walk(p) = Result(d, p, e)
  <2>1. Together(p, p, e)
    BY DEF Together
  <2> HIDE DEF e
  <2> QED
    BY <1>1, <2>1, WalkTogether
<1>4. CASE Valid(d)
  <2>1. TableAt(p, e) \in DOMAIN tables /\ d = tables[TableAt(p, e)][Index(p, e)]
    BY <1>4 DEF Entry, Valid, Null
  <2>2. Index(p, e) \in Entries /\ TableAt(p, e)[1] = e
    BY <1>1, IndexInTable DEF Entries, TableAt
  <2> HIDE DEF e
  <2>3. d.attr \in Attrs
    BY <1>1, <1>4, <2>1, <2>2 DEF Attributed, HasAttr
  <2> HIDE DEF d
  <2>4. Walk(p).attr = d.attr
    BY <1>3, <1>4 DEF Result
  <2>5. None.attr \notin Attrs
    BY MmuAssumption DEF None
  <2> QED
    BY <1>2, <1>4, <2>3, <2>4, <2>5
<1>5. CASE ~Valid(d)
  BY <1>2, <1>3, <1>5 DEF Result
<1> QED
  BY <1>4, <1>5

\* A report covers the pages of the block it was made in.
LEMMA ReportCovers ==
  ASSUME NEW v \in Va, NEW p \in Va
  PROVE  Covers(Report(v), p) <=> InBlock(p, v)
<1> DEFINE r == Report(v)
<1>1. /\ BlockEnd(v) = BlockStart(v) + Cover[EndLevel(v)] /\ BlockStart(v) \in Nat
      /\ Cover[EndLevel(v)] \in Nat
  BY BlockFacts, EndFacts, CoverFacts
<1>2. r.va = BlockStart(v) /\ r.bytes = Cover[EndLevel(v)]
  BY DEF Report
<1> HIDE DEF r
<1>3. Covers(r, p) <=> p \in BlockStart(v) .. BlockStart(v) + Cover[EndLevel(v)] - 1
  BY <1>2, Zenon DEF Covers
<1>4. InBlock(p, v) <=> p \in BlockStart(v) .. BlockStart(v) + Cover[EndLevel(v)] - 1
  BY <1>1 DEF InBlock
<1> QED
  BY <1>3, <1>4 DEF r

LEMMA PeekSound ==
  ASSUME IInv, Attributed
  PROVE  PeekIsWalk
<1> SUFFICES ASSUME NEW va \in Va, NEW size \in 1 .. VaPages - va
             PROVE  /\ \A p \in va .. va + size - 1 :
                         /\ \A r \in Peek(va, size) : Covers(r, p) => Tells(r, p) = Walk(p)
                         /\ Cardinality({r \in Peek(va, size) : Covers(r, p)}) = 1
                    /\ RegionIsMapped(va, size) = \A p \in va .. va + size - 1 : Walk(p) # None
  <2> SUFFICES ASSUME NEW va \in Va, NEW size \in 1 .. VaPages - va
               PROVE  LET walk == [p \in Va |-> Walk(p)]
                          reports == Peek(va, size)
                      IN  /\ \A p \in va .. va + size - 1 :
                               /\ \A r \in reports : Covers(r, p) => Tells(r, p) = walk[p]
                               /\ Cardinality({r \in reports : Covers(r, p)}) = 1
                          /\ RegionIsMapped(va, size) = \A p \in va .. va + size - 1 : walk[p] # None
    BY DEF PeekIsWalk
  <2> DEFINE walk == [p \in Va |-> Walk(p)]
  <2>1. \A p \in va .. va + size - 1 : walk[p] = Walk(p)
    <3>1. \A p \in va .. va + size - 1 : p \in Va
      BY MmuAssumption DEF Va
    <3> QED
      BY <3>1
  <2> HIDE DEF walk
  <2> QED
    BY <2>1 DEF walk
<1> DEFINE end == va + size
           V == Visited(va, size)
           R == Peek(va, size)
<1>1. end \in 1 .. VaPages /\ va < end /\ end \in Nat /\ va \in Nat /\ end <= VaPages
  BY MmuAssumption, VaFacts
<1>0. va + size - 1 = end - 1
  BY <1>1
<1>2. V = VisitedFrom[va][end] /\ R = {Report(v) : v \in V}
  BY DEF Visited, Peek
<1> HIDE DEF V, R
<1>3. /\ \A x \in V : x \in Va /\ va <= x /\ x < end
      /\ \A p \in va .. end - 1 : \E x \in V : InBlock(p, x)
  <2> HIDE DEF end
  <2> QED
    BY <1>1, <1>2, VisitsCover
<1>4. \A p \in va .. end - 1 : p \in Va
  BY <1>1, MmuAssumption DEF Va
<1> HIDE DEF end
<1>5. ASSUME NEW x \in V
      PROVE  x \in va .. end - 1
  <2>1. x \in Nat /\ va <= x /\ x < end
    BY <1>3, VaFacts
  <2> QED
    BY <1>1, <2>1
<1>6. ASSUME NEW p \in va .. end - 1
      PROVE  /\ \A r \in R : Covers(r, p) => r = Report(p) /\ Tells(r, p) = Walk(p)
             /\ {r \in R : Covers(r, p)} = {Report(p)}
  <2>1. p \in Va
    BY <1>4
  <2>2. ASSUME NEW v \in V, Covers(Report(v), p)
        PROVE  Report(v) = Report(p) /\ Tells(Report(v), p) = Walk(p)
    <3>1. v \in Va
      BY <1>3
    <3>2. InBlock(p, v)
      BY <2>1, <2>2, <3>1, ReportCovers
    <3> QED
      BY <2>1, <3>1, <3>2, OneReport
  <2>3. PICK x \in V : InBlock(p, x)
    BY <1>3
  <2>4. Covers(Report(x), p) /\ Report(x) \in R /\ Report(x) = Report(p)
    BY <1>2, <1>3, <2>1, <2>2, <2>3, ReportCovers
  <2> QED
    BY <1>2, <2>2, <2>4
<1>7. RegionIsMapped(va, size) <=> \A p \in va .. end - 1 : Walk(p) # None
  <2>1. RegionIsMapped(va, size) <=> \A v \in V : Valid(Report(v).entry)
    BY DEF RegionIsMapped, V
  <2>2. ASSUME \A v \in V : Valid(Report(v).entry), NEW p \in va .. end - 1
        PROVE  Walk(p) # None
    <3>1. PICK x \in V : InBlock(p, x)
      BY <1>3
    <3>2. Report(p) = Report(x)
      BY <1>3, <1>4, <3>1, OneReport
    <3>3. Valid(Report(p).entry)
      BY <2>2, <3>2
    <3> QED
      BY <1>4, <3>3, MappedIsValid
  <2>3. ASSUME \A p \in va .. end - 1 : Walk(p) # None, NEW v \in V
        PROVE  Valid(Report(v).entry)
    <3>1. Walk(v) # None
      BY <1>5, <2>3
    <3> QED
      BY <1>3, <3>1, MappedIsValid
  <2> QED
    BY <2>1, <2>2, <2>3
<1>8. RegionIsMapped(va, size) \in BOOLEAN
  BY DEF RegionIsMapped
<1>9. ASSUME NEW p \in va .. end - 1
      PROVE  Cardinality({r \in R : Covers(r, p)}) = 1
  BY <1>6, FS_Singleton
<1>10. RegionIsMapped(va, size) = \A p \in va .. end - 1 : Walk(p) # None
  BY <1>7, <1>8
<1>11. /\ \A p \in va .. end - 1 :
            /\ \A r \in R : Covers(r, p) => Tells(r, p) = Walk(p)
            /\ Cardinality({r \in R : Covers(r, p)}) = 1
       /\ RegionIsMapped(va, size) = \A p \in va .. end - 1 : Walk(p) # None
  <2>1. ASSUME NEW p \in va .. end - 1
        PROVE  /\ \A r \in R : Covers(r, p) => Tells(r, p) = Walk(p)
               /\ Cardinality({r \in R : Covers(r, p)}) = 1
    BY <1>6, <1>9
  <2> QED
    BY <1>10, <2>1
<1> QED
  BY <1>0, <1>11, Zenon DEF R

\* mmu_peek, which takes no lock, reports each page of any range exactly once
\* and as the hardware translates it, and mmu_region_is_mapped answers whether
\* all of them are mapped, after every store of any call.
THEOREM PeekAlwaysWalk == Spec => []PeekIsWalk
<1>1. PeekInv => PeekIsWalk
  BY PeekSound DEF PeekInv
<1> QED
  BY <1>1, InitAttributed, NextAttributed, PTL DEF Spec
=============================================================================
