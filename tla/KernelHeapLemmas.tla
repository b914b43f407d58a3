----------------------------- MODULE KernelHeapLemmas -----------------------------
(***************************************************************************)
(* The inductive invariant of KernelHeap, and what its parts say of the    *)
(* operators the actions are built from.  KernelHeapProofs proves that     *)
(* the steps keep it.                                                      *)
(*                                                                         *)
(* The calls of the allocator nest: what is yet to be done is a stack of   *)
(* operations, and the lists are whole only together with them.  So the    *)
(* invariant is about the state and a stack e of operations:               *)
(*   ListsInv   holes, reserved ranges and the ranges e is to push share   *)
(*              no page and are all there is;                              *)
(*   OwnersInv  a page of a container, of the reserve, of a table, a range *)
(*              held by a caller and a range e is to return, to keep or to *)
(*              free ("claims") are different, and each has a node in rva  *)
(*              or is pushed before it is needed: so kfree always finds    *)
(*              what it is given;                                          *)
(*   SlotsInv   the slots in use of a pool are those of the nodes in the   *)
(*              lists and those e is to give back, one each.               *)
(* e is todo with the operations below a pop_kmap or a pop_rva left out:   *)
(* they push the range that is still in the list it is to be taken from,   *)
(* and count once the pop is executed (Matches).                           *)
(***************************************************************************)
EXTENDS KernelHeap, FiniteSetTheorems, SequenceTheorems, WellFoundedInduction,
  NaturalsInduction, TLAPS

\* A nonempty set of numbers has a least.
LEMMA HasLeast ==
  ASSUME NEW T \in SUBSET Nat, T # {}
  PROVE  \E x \in T : \A y \in T : x <= y
<1> DEFINE less == {p \in Nat \X Nat : p[1] < p[2]}
<1>1. IsWellFoundedOn(less, Nat)
  BY NatLessThanWellFounded DEF OpToRel
<1>2. \E x \in T : \A y \in T : ~(<<y, x>> \in less)
  BY <1>1, WFMin
<1>3. PICK x \in T : \A y \in T : ~(<<y, x>> \in less)
  BY <1>2
<1>4. ASSUME NEW y \in T
      PROVE  x <= y
  <2>1. ~(<<y, x>> \in less)
    BY <1>3
  <2> QED
    BY <2>1
<1> QED
  BY <1>4

-----------------------------------------------------------------------------
(* The invariant. *)

\* The nodes of both lists, and the types of what the state holds.
AllOf(lst) == ToSet(lst["kmap"]) \cup ToSet(lst["dynamic"])

Places == Pages \X Nat
HoleNodes == [at : Places, start : Nat, size : Nat \ {0}]
MdtNodes == [at : Places, pa : Pages, order : 0 .. MAX_ORDER, va : Nat]
RvaNodes == [at : Places, start : Nat, size : Nat \ {0}, permanent : BOOLEAN, pas : Seq(MdtNodes)]
OpKinds == {"pop_kmap", "pop_dynamic", "pop_rva", "push_rva", "push_fva", "map", "unmap", "assign",
            "fill", "keep", "return", "kfree", "page_free", "fva", "rva", "mdt"}
Ops == [do : OpKinds, va : Int, pa : Int, n : Int]

Types ==
  /\ fva \in [Lists -> Seq(HoleNodes)] /\ rva \in [Lists -> Seq(RvaNodes)]
  /\ pools \in [Pools -> [containers : Seq(Pages), used : SUBSET Places]]
  /\ reserve \in [Indices -> Pages \cup {NoPage}]
  /\ lent \in [Pages -> 0 .. MAX_ORDER \cup {Ledger!NotLent}]
  /\ pt \in [Va -> Pages \cup {NoPage}]
  /\ held \subseteq [va : Va, pages : Nat \ {0}]
  /\ tablePages \subseteq Pages
  /\ panic \in {"none", "oom", "va", "reserve", "null", "assert", "permanent", "mmu_free"}

Spaced(s, g) == \A i, j \in 1 .. Len(s) : i < j => End(s[i]) + g <= s[j].start
InOrder(F, R) == \A l \in Lists : Spaced(F[l], 1) /\ Spaced(R[l], 0)

\* What follows a pop of a range that is known beforehand: in raw_kmalloc_kmap,
\* in a refill, and in kfree.  A request for the dynamic area learns its range
\* from the pop itself.
AskTail(pa, n) ==
  <<Op("push_rva", pa, pa, n), Op("map", pa, pa, n), Op("fill", 1, NoPage, 0), Op("return", pa, NoPage, n)>>
KeepTail(pa, i) ==
  <<Op("push_rva", pa, pa, 1), Op("map", pa, pa, 1), Op("keep", i, pa, 1), Op("fill", i + 1, NoPage, 0)>>
DynTail(va, n) ==
  <<Op("push_rva", va, NoPage, n), Op("assign", va, va, n), Op("fill", 1, NoPage, 0), Op("return", va, NoPage, n)>>
FreeTail(va, n) ==
  <<Op("push_fva", va, NoPage, n)>> \o
  ((IF ListOf(va) = "kmap" THEN <<Op("page_free", va, va, n)>> ELSE <<>>) \o <<Op("unmap", va, NoPage, n)>>)

\* e is the stack t without the operations x that the pop o on top hides.
PopKinds == {"pop_kmap", "pop_rva"}
HiddenBy(o, rest, rs, x) ==
  \/ o.do \notin PopKinds /\ x = <<>>
  \/ /\ o.do = "pop_kmap" /\ o.va \in Pages /\ Run(o.va, o.n) \subseteq Pages
     /\ \/ rest = <<>> /\ x = AskTail(o.va, o.n)
        \/ /\ o.n = 1 /\ rest # <<>> /\ Head(rest).do = "return"
           /\ \E i \in Indices : rs[i] = NoPage /\ x = KeepTail(o.va, i)
  \/ o.do = "pop_rva" /\ o.va \in Va /\ x = FreeTail(o.va, o.n)
Matches(t, e, rs) ==
  \/ e = <<>> /\ t = <<>>
  \/ e # <<>> /\ \E x \in Seq(Ops) : HiddenBy(Head(e), Tail(e), rs, x) /\ t = <<Head(e)>> \o (x \o Tail(e))

\* The entries of a kind, what they say, and the pages they are about.
KindOf(D) == {o \in Ops : o.do \in D}
At(e, S) == {i \in DOMAIN e : e[i] \in S}
Vals(e, S, f) == {f[e[i]] : i \in At(e, S)}
Once(e, S, f) == \A i, j \in At(e, S) : f[e[i]] = f[e[j]] => i = j
PagesIn(e, S) == UNION {Run(e[i].va, e[i].n) : i \in At(e, S)}
PagesApart(e, S) == \A i, j \in At(e, S) : i # j => Run(e[i].va, e[i].n) \cap Run(e[j].va, e[j].n) = {}

\* An operation by itself, and which may follow which: a claim that is kept or
\* assigned is followed by the rest of the refill, and that by the return.
Sized == {"pop_kmap", "pop_dynamic", "pop_rva", "push_rva", "push_fva", "map", "unmap", "assign", "return", "page_free"}
PushKinds == {"push_rva", "push_fva"}
EntryOk(o, rs) ==
  /\ o.do \in Sized => o.n >= 1
  /\ o.do \in PushKinds => Run(o.va, o.n) \subseteq Area(ListOf(o.va))
  /\ o.do = "fill" => o.va \in Nat
  /\ o.do = "keep" => o.va \in Indices /\ rs[o.va] = NoPage /\ o.pa \in Pages /\ o.n = 1
  /\ o.do = "map" => Run(o.pa, o.n) \subseteq Pages
  /\ o.do = "assign" => o.va \in Nat /\ o.pa \in Area("dynamic")
TopKinds == {"pop_kmap", "pop_rva", "pop_dynamic", "kfree"}
Linked(o, q) ==
  /\ o.do \notin {"return", "pop_dynamic"} /\ q.do \notin TopKinds
  /\ o.do = "fill" => q.do = "return"
  /\ o.do \in {"keep", "assign"} => q.do = "fill"
Leads == {"fill", "keep", "assign"}
Shape(e, rs) ==
  /\ \A i \in 1 .. Len(e) : EntryOk(e[i], rs)
  /\ \A i \in 1 .. Len(e) - 1 : Linked(e[i], e[i + 1])
  /\ e # <<>> => e[Len(e)].do \notin Leads
Assigns == KindOf({"assign"})
Returns == KindOf({"return"})
PaOf == [o \in Ops |-> o.pa]
VaOf == [o \in Ops |-> o.va]
AssignsOwn(e) == \A x \in Vals(e, Assigns, PaOf), y \in Vals(e, Returns, VaOf) : x = y

\* Ranges: free, reserved, or about to be pushed by the stack.
CoverAll(F) == Cover(F["kmap"]) \cup Cover(F["dynamic"])
Pushes == KindOf(PushKinds)
RvaPushes == KindOf({"push_rva"})
InAreas(F, R) == \A l \in Lists : Cover(F[l]) \subseteq Area(l) /\ Cover(R[l]) \subseteq Area(l)
Ranges(F, R, e) ==
  /\ CoverAll(F) \cap CoverAll(R) = {}
  /\ PagesIn(e, Pushes) \cap (CoverAll(F) \cup CoverAll(R)) = {}
  /\ PagesApart(e, Pushes)
  /\ Va \subseteq CoverAll(F) \cup CoverAll(R) \cup PagesIn(e, Pushes)
HasRun(s, va, n) == \E r \in ToSet(s) : r.start = va /\ r.size = n
PoppedNode(R, e) == e # <<>> /\ Head(e).do = "pop_rva" => HasRun(R[ListOf(Head(e).va)], Head(e).va, Head(e).n)

\* Owners.  A claim is the start of a range that the stack is to return to the
\* caller, to keep in the reserve or to free.  It is in rva, or an entry above
\* it pushes it.
Claims == KindOf({"keep", "return", "kfree", "pop_rva"})
ClaimOf == [o \in Ops |-> IF o.do = "keep" THEN o.pa ELSE o.va]
Claimed(e) == Vals(e, Claims, ClaimOf)
StartsOf(R) == {r.start : r \in AllOf(R)}
InContainers(P) == UNION {ToSet(P[k].containers) : k \in Pools}
Filled(rs) == {i \in Indices : rs[i] # NoPage}
InReserve(rs) == {rs[i] : i \in Filled(rs)}
VasOf(H) == {h.va : h \in H}
Owned(P, rs, T, H) == InContainers(P) \cup InReserve(rs) \cup T \cup VasOf(H)
Distinct(s) == \A i, j \in DOMAIN s : s[i] = s[j] => i = j
PoolsApart(P) ==
  /\ \A k \in Pools : Distinct(P[k].containers)
  /\ \A k, m \in Pools : k # m => ToSet(P[k].containers) \cap ToSet(P[m].containers) = {}
ReserveApart(rs) == \A i, j \in Filled(rs) : rs[i] = rs[j] => i = j
HeldApart(H) == \A h, g \in H : h.va = g.va => h = g
FiveApart(A, B, C, D, E) ==
  /\ A \cap B = {} /\ A \cap C = {} /\ A \cap D = {} /\ A \cap E = {}
  /\ B \cap C = {} /\ B \cap D = {} /\ B \cap E = {}
  /\ C \cap D = {} /\ C \cap E = {}
  /\ D \cap E = {}
ClaimsApart(P, rs, T, H, e) ==
  /\ PoolsApart(P) /\ ReserveApart(rs) /\ HeldApart(H) /\ Once(e, Claims, ClaimOf)
  /\ FiveApart(InContainers(P), InReserve(rs), T, VasOf(H), Claimed(e))
KnownIn(e, X) ==
  \A i \in At(e, Claims) :
    ClaimOf[e[i]] \in X \/ \E j \in At(e, RvaPushes) : j < i /\ e[j].va = ClaimOf[e[i]]
ClaimsKnown(P, rs, T, H, R, e) == Owned(P, rs, T, H) \subseteq StartsOf(R) /\ KnownIn(e, StartsOf(R))
Permanents(P, R) ==
  /\ \A r \in AllOf(R) : r.permanent => r.start \in 0 .. 2
  /\ \A k \in Pools : P[k].containers # <<>> /\ P[k].containers[1] = FirstContainer[k]

\* Slots: in use by a node of the lists, or about to be given back by the stack.
SlotOps(k) == KindOf({k})
PlaceOf == [o \in Ops |-> <<o.va, o.pa>>]
PlacesIn(S) == {r.at : r \in S}
Recs(S) == UNION {ToSet(r.pas) : r \in S}
Taking(k, F, R) ==
  CASE k = "fva" -> PlacesIn(AllOf(F)) [] k = "rva" -> PlacesIn(AllOf(R)) [] k = "mdt" -> PlacesIn(Recs(AllOf(R)))
PlacesApart(S) == \A r, q \in S : r.at = q.at => r = q
SlotsOf(k, pool, X, e) ==
  /\ \A s \in pool.used : s[1] \in ToSet(pool.containers)
  /\ Once(e, SlotOps(k), PlaceOf)
  /\ pool.used = X \cup Vals(e, SlotOps(k), PlaceOf)
  /\ X \cap Vals(e, SlotOps(k), PlaceOf) = {}
  /\ \A c \in ToSet(pool.containers) : c # FirstContainer[k] => \E s \in pool.used : s[1] = c
Slots(P, F, R, e) == \A k \in Pools : SlotsOf(k, P[k], Taking(k, F, R), e)
RecordsApart(R) ==
  /\ \A r, q \in AllOf(R) : r # q => ToSet(r.pas) \cap ToSet(q.pas) = {}
  /\ \A r \in AllOf(R) : Distinct(r.pas)
NodesApart(F, R) == PlacesApart(AllOf(F)) /\ PlacesApart(AllOf(R)) /\ PlacesApart(Recs(AllOf(R))) /\ RecordsApart(R)

\* The invariant.
ListsInv(F, R, e) == InOrder(F, R) /\ InAreas(F, R) /\ Ranges(F, R, e) /\ PoppedNode(R, e)
OwnersInv(P, rs, T, H, R, e) ==
  ClaimsApart(P, rs, T, H, e) /\ ClaimsKnown(P, rs, T, H, R, e) /\ Permanents(P, R)
SlotsInv(P, F, R, e) == Slots(P, F, R, e) /\ NodesApart(F, R)
StackInv(e) ==
  /\ Matches(todo, e, reserve) /\ Shape(e, reserve) /\ AssignsOwn(e)
  /\ ListsInv(fva, rva, e)
  /\ OwnersInv(pools, reserve, tablePages, held, rva, e)
  /\ SlotsInv(pools, fva, rva, e)
ListInv == Types /\ NoFalseAlarm /\ \E e \in Seq(Ops) : StackInv(e)

-----------------------------------------------------------------------------
(* Lists of ranges. *)

\* Nodes are ranges of at least one page; the nodes of a list are in order, at
\* least g pages apart.
Ranged(S) == \A r \in S : r.start \in Nat /\ r.size \in Nat \ {0}

\* The list s with its nodes after a and before b replaced by those of t.
Spliced(s, a, b, t) == SubSeq(s, 1, a) \o t \o SubSeq(s, b, Len(s))
IsSplice(r, s, a, b, t) ==
  /\ Len(t) \in Nat /\ Len(r) = ((a + Len(t)) + Len(s) + 1) - b
  /\ \A k \in 1 .. Len(r) :
       r[k] = IF k <= a THEN s[k]
              ELSE IF k <= a + Len(t) THEN t[k - a] ELSE s[((k - a) - Len(t)) + (b - 1)]

\* A spliced list, entry by entry.
LEMMA SpliceFacts ==
  ASSUME NEW S, NEW s \in Seq(S), NEW t \in Seq(S), NEW a \in 0 .. Len(s),
         NEW b \in a + 1 .. Len(s) + 1
  PROVE  Spliced(s, a, b, t) \in Seq(S) /\ IsSplice(Spliced(s, a, b, t), s, a, b, t)
<1> DEFINE x == SubSeq(s, 1, a)
           z == SubSeq(s, b, Len(s))
           y == x \o t
           r == y \o z
           L == Len(s)
           M == Len(t)
<1>1. L \in Nat /\ a \in 0 .. L /\ b \in a + 1 .. L + 1 /\ M \in Nat /\ \A k \in 1 .. L : s[k] \in S
  OBVIOUS
<1>2. x \in Seq(S) /\ Len(x) = a /\ \A k \in 1 .. a : x[k] = s[k]
  <2>1. \A k \in 1 .. a : s[k] \in S
    BY <1>1
  <2>2. /\ x \in Seq(S) /\ Len(x) = IF 1 <= a THEN a - 1 + 1 ELSE 0
        /\ \A k \in 1 .. a - 1 + 1 : x[k] = s[1 + k - 1]
    <3>1. 1 \in Int /\ a \in Int
      BY <1>1
    <3> QED
      BY <2>1, <3>1, SubSeqProperties
  <2> HIDE DEF x
  <2> QED
    BY <1>1, <2>2
<1>3. /\ z \in Seq(S) /\ Len(z) = (L + 1) - b
      /\ \A k \in 1 .. (L + 1) - b : z[k] = s[k + (b - 1)]
  <2>1. \A k \in b .. L : s[k] \in S
    BY <1>1
  <2>2. /\ z \in Seq(S) /\ Len(z) = IF b <= L THEN L - b + 1 ELSE 0
        /\ \A k \in 1 .. L - b + 1 : z[k] = s[b + k - 1]
    <3>1. b \in Int /\ L \in Int
      BY <1>1
    <3> QED
      BY <2>1, <3>1, SubSeqProperties
  <2> HIDE DEF z, L
  <2> QED
    BY <1>1, <2>2
<1> HIDE DEF x, z, L, M
<1>4. /\ y \in Seq(S) /\ Len(y) = a + M
      /\ \A k \in 1 .. a + M : y[k] = IF k <= a THEN x[k] ELSE t[k - a]
  <2>1. /\ y \in Seq(S) /\ Len(y) = Len(x) + Len(t)
        /\ \A k \in 1 .. Len(x) + Len(t) : y[k] = IF k <= Len(x) THEN x[k] ELSE t[k - Len(x)]
    BY <1>2, ConcatProperties, Zenon
  <2> HIDE DEF y
  <2> QED
    BY <1>1, <1>2, <2>1 DEF M
<1> HIDE DEF y
<1>5. /\ r \in Seq(S) /\ Len(r) = (a + M) + ((L + 1) - b)
      /\ \A k \in 1 .. (a + M) + ((L + 1) - b) :
           r[k] = IF k <= a + M THEN y[k] ELSE z[k - (a + M)]
  <2>1. /\ r \in Seq(S) /\ Len(r) = Len(y) + Len(z)
        /\ \A k \in 1 .. Len(y) + Len(z) : r[k] = IF k <= Len(y) THEN y[k] ELSE z[k - Len(y)]
    BY <1>3, <1>4, ConcatProperties, Zenon
  <2> HIDE DEF r
  <2> QED
    BY <1>1, <1>3, <1>4, <2>1
<1>6. r = Spliced(s, a, b, t)
  BY DEF Spliced, r, y, x, z
<1> HIDE DEF r
<1>7. Len(r) = ((a + M) + L + 1) - b
  BY <1>1, <1>5
<1>8. ASSUME NEW k \in 1 .. Len(r)
      PROVE  r[k] = IF k <= a THEN s[k]
                    ELSE IF k <= a + M THEN t[k - a] ELSE s[((k - a) - M) + (b - 1)]
  <2>1. k \in 1 .. (a + M) + ((L + 1) - b)
    BY <1>5
  <2>2. CASE k <= a
    <3>1. k \in 1 .. a + M /\ k \in 1 .. a
      BY <1>1, <2>1, <2>2
    <3> QED
      BY <1>1, <1>2, <1>4, <1>5, <2>1, <2>2, <3>1
  <2>3. CASE ~(k <= a) /\ k <= a + M
    BY SMTT(30), <1>1, <1>4, <1>5, <2>1, <2>3
  <2>4. CASE ~(k <= a + M)
    <3>1. k - (a + M) \in 1 .. (L + 1) - b /\ k - (a + M) = (k - a) - M /\ ~(k <= a)
      BY <1>1, <2>1, <2>4
    <3>2. r[k] = z[k - (a + M)]
      BY <1>5, <2>1, <2>4
    <3> QED
      BY <1>3, <2>4, <3>1, <3>2
  <2> QED
    BY <2>2, <2>3, <2>4
<1> QED
  BY <1>1, <1>5, <1>6, <1>7, <1>8 DEF L, M, IsSplice

\* The first a nodes of s, and the b-th and those that follow it.
Firsts(s, a) == {s[i] : i \in 1 .. a}
Lasts(s, b) == {s[j] : j \in b .. Len(s)}

\* The nodes of t lie in range r, and after the first a nodes of s, and before
\* the b-th and those that follow it.
Within(t, r) == \A k \in 1 .. Len(t) : r.start <= t[k].start /\ End(t[k]) <= End(r)
After(s, a, t, g) == \A i \in 1 .. a, k \in 1 .. Len(t) : End(s[i]) + g <= t[k].start
Before(s, b, t, g) == \A j \in b .. Len(s), k \in 1 .. Len(t) : End(t[k]) + g <= s[j].start

\* A splice keeps the order when the new nodes lie between their neighbours.
LEMMA SplicedInOrder ==
  ASSUME NEW g \in Nat, NEW S, Ranged(S), NEW s \in Seq(S), NEW t \in Seq(S),
         Spaced(s, g), Spaced(t, g),
         NEW a \in 0 .. Len(s), NEW b \in a + 1 .. Len(s) + 1,
         After(s, a, t, g), Before(s, b, t, g)
  PROVE  /\ Spliced(s, a, b, t) \in Seq(S) /\ Spaced(Spliced(s, a, b, t), g)
         /\ ToSet(Spliced(s, a, b, t)) =
              Firsts(s, a) \union ToSet(t) \union Lasts(s, b)
<1> DEFINE r == Spliced(s, a, b, t)
           m == Len(t)
           L == Len(s)
<1>1. /\ r \in Seq(S) /\ Len(r) = ((a + m) + L + 1) - b /\ m \in Nat /\ L \in Nat
      /\ \A k \in 1 .. Len(r) :
           r[k] = IF k <= a THEN s[k]
                  ELSE IF k <= a + m THEN t[k - a] ELSE s[((k - a) - m) + (b - 1)]
      /\ a \in 0 .. L /\ b \in a + 1 .. L + 1
  <2>1. /\ r \in Seq(S) /\ Len(r) = ((a + m) + L + 1) - b /\ m \in Nat
        /\ \A k \in 1 .. Len(r) :
             r[k] = IF k <= a THEN s[k]
                    ELSE IF k <= a + m THEN t[k - a] ELSE s[((k - a) - m) + (b - 1)]
    <3>1. Spliced(s, a, b, t) \in Seq(S) /\ IsSplice(Spliced(s, a, b, t), s, a, b, t)
      BY SpliceFacts, Zenon
    <3> QED
      BY <3>1 DEF IsSplice
  <2>2. L \in Nat /\ a \in 0 .. L /\ b \in a + 1 .. L + 1
    OBVIOUS
  <2> QED
    BY <2>1, <2>2, Zenon
<1>2. /\ DOMAIN r = 1 .. Len(r) /\ DOMAIN t = 1 .. m /\ \A i \in 1 .. L : s[i] \in S
      /\ \A i \in 1 .. m : t[i] \in S /\ DOMAIN s = 1 .. L
  <2> HIDE DEF r
  <2> QED
    BY <1>1
<1> HIDE DEF r
<1>3. ASSUME NEW i \in 1 .. Len(r), NEW j \in 1 .. Len(r), i < j
      PROVE  End(r[i]) + g <= r[j].start
  <2> HIDE DEF m, L
  <2>1. CASE j <= a
    <3>1. r[i] = s[i] /\ r[j] = s[j] /\ i \in 1 .. L /\ j \in 1 .. L
      BY SMTT(30), <1>1, <1>3, <2>1
    <3> QED
      BY <1>3, <3>1 DEF Spaced, L
  <2>2. CASE i <= a /\ ~(j <= a) /\ j <= a + m
    <3>1. r[i] = s[i] /\ r[j] = t[j - a] /\ i \in 1 .. a /\ j - a \in 1 .. m
      BY <1>1, <1>3, <2>2
    <3> QED
      BY <3>1 DEF m, After
  <2>3. CASE i <= a /\ ~(j <= a + m)
    <3> DEFINE k == ((j - a) - m) + (b - 1)
    <3>0. m \in Nat /\ L \in Nat /\ a \in 0 .. L /\ b \in a + 1 .. L + 1 /\ Len(r) = ((a + m) + L + 1) - b
      BY <1>1
    <3>1. k \in 1 .. L /\ i < k /\ i \in 1 .. L
      BY <3>0, <1>3, <2>3
    <3>2. r[i] = s[i] /\ ~(j <= a) /\ r[j] = s[k]
      BY <1>1, <2>3, <3>0
    <3> HIDE DEF k
    <3> QED
      BY <3>1, <3>2 DEF Spaced, L
  <2>4. CASE ~(i <= a) /\ j <= a + m
    <3>1. /\ r[i] = t[i - a] /\ r[j] = t[j - a] /\ i - a \in 1 .. m /\ j - a \in 1 .. m
          /\ i - a < j - a
      <4>1. i - a \in 1 .. m /\ j - a \in 1 .. m /\ i - a < j - a /\ ~(j <= a) /\ i <= a + m
        BY SMTT(30), <1>1, <1>3, <2>4
      <4> QED
        BY <1>1, <2>4, <4>1
    <3> QED
      BY <3>1 DEF Spaced, m
  <2>5. CASE ~(i <= a) /\ i <= a + m /\ ~(j <= a + m)
    <3> DEFINE k == ((j - a) - m) + (b - 1)
    <3>1. r[i] = t[i - a] /\ r[j] = s[k] /\ i - a \in 1 .. m /\ k \in b .. L
      BY <1>1, <1>3, <2>5
    <3> HIDE DEF k
    <3> QED
      BY <3>1 DEF m, L, Before
  <2>6. CASE ~(i <= a + m)
    <3> DEFINE k == ((j - a) - m) + (b - 1)
               n == ((i - a) - m) + (b - 1)
    <3>0. m \in Nat /\ L \in Nat /\ a \in 0 .. L /\ b \in a + 1 .. L + 1 /\ Len(r) = ((a + m) + L + 1) - b
      BY <1>1
    <3>1. n \in 1 .. L /\ k \in 1 .. L /\ n < k
      <4>1. i \in Int /\ j \in Int /\ i < j /\ i > a + m /\ j <= ((a + m) + L + 1) - b
        BY <3>0, <1>3, <2>6
      <4> QED
        BY <3>0, <4>1
    <3>2. ~(i <= a) /\ ~(j <= a) /\ ~(j <= a + m)
      BY <3>0, <1>3, <2>6
    <3>3. r[i] = s[n]
      BY <1>1, <2>6, <3>2
    <3>4. r[j] = s[k]
      BY <1>1, <2>6, <3>2
    <3> HIDE DEF k, n
    <3> QED
      BY <3>1, <3>3, <3>4 DEF Spaced, L
  <2> QED
    BY <1>1, <1>3, <2>1, <2>2, <2>3, <2>4, <2>5, <2>6
<1>4. ASSUME NEW k \in 1 .. Len(r)
      PROVE  r[k] \in Firsts(s, a) \union ToSet(t) \union Lasts(s, b)
  <2> HIDE DEF m, L
  <2>1. CASE k <= a
    <3>1. r[k] = s[k] /\ k \in 1 .. a
      BY <1>1, <2>1
    <3> QED
      BY <3>1 DEF Firsts
  <2>2. CASE ~(k <= a) /\ k <= a + m
    <3>1. r[k] = t[k - a] /\ k - a \in 1 .. m
      BY <1>1, <2>2
    <3> QED
      BY <1>2, <3>1 DEF ToSet
  <2>3. CASE ~(k <= a + m)
    <3> DEFINE j == ((k - a) - m) + (b - 1)
    <3>1. k - a > m /\ k \in Nat /\ k <= a + m + (L - b + 1) /\ m \in Nat /\ L \in Nat
      BY SMTT(30), <1>1, <2>3
    <3>2. j \in b .. L
      BY <3>1
    <3>3. r[k] = s[j]
      BY <1>1, <2>3
    <3> HIDE DEF j
    <3> QED
      BY <3>2, <3>3 DEF L, Lasts
  <2> QED
    BY <1>1, <2>1, <2>2, <2>3
<1>5. ASSUME NEW i \in 1 .. a
      PROVE  s[i] \in ToSet(r)
  <2> HIDE DEF m, L
  <2>1. i \in 1 .. Len(r) /\ r[i] = s[i]
    BY <1>1
  <2> QED
    BY <1>2, <2>1 DEF ToSet
<1>6. ASSUME NEW j \in b .. Len(s)
      PROVE  s[j] \in ToSet(r)
  <2> DEFINE k == (j - (b - 1)) + (a + m)
  <2>1. k \in 1 .. Len(r) /\ ~(k <= a + m) /\ ~(k <= a) /\ ((k - a) - m) + (b - 1) = j
    <3>1. j \in b .. L
      OBVIOUS
    <3> HIDE DEF m, L
    <3> QED
      BY <1>1, <3>1
  <2> HIDE DEF k, m
  <2>2. r[k] = s[j]
    BY <1>1, <2>1
  <2> QED
    BY <1>2, <2>1, <2>2 DEF ToSet
<1>7. ASSUME NEW x \in ToSet(t)
      PROVE  x \in ToSet(r)
  <2>1. PICK i \in 1 .. m : x = t[i]
    BY <1>2 DEF ToSet
  <2> DEFINE k == i + a
  <2>2. k \in 1 .. Len(r) /\ k <= a + m /\ ~(k <= a) /\ k - a = i
    <3> HIDE DEF m, L
    <3> QED
      BY <1>1
  <2> HIDE DEF k
  <2>3. r[k] = t[i]
    BY <1>1, <2>2
  <2> QED
    BY <1>2, <2>1, <2>2, <2>3 DEF ToSet
<1>8. ToSet(r) = Firsts(s, a) \union ToSet(t) \union Lasts(s, b)
  <2>1. \A x \in ToSet(r) : \E k \in 1 .. Len(r) : x = r[k]
    BY <1>2 DEF ToSet
  <2> QED
    BY <1>4, <1>5, <1>6, <1>7, <2>1 DEF Firsts, Lasts
<1>9. Spaced(r, g)
  BY <1>3 DEF Spaced
<1> QED
  BY <1>1, <1>8, <1>9 DEF r

\* Where an index of a spliced list comes from.
LEMMA SplicedInto ==
  ASSUME NEW S, NEW s \in Seq(S), NEW t \in Seq(S), NEW a \in 0 .. Len(s),
         NEW b \in a + 1 .. Len(s) + 1,
         \A i, j \in 1 .. Len(s) : s[i] = s[j] => i = j,
         \A i, j \in 1 .. Len(t) : t[i] = t[j] => i = j,
         \A i \in 1 .. Len(s), j \in 1 .. Len(t) : s[i] # t[j] \/ i \in a + 1 .. b - 1
  PROVE  LET r == Spliced(s, a, b, t)
         IN  /\ r \in Seq(S) /\ Len(r) = ((a + Len(t)) + Len(s) + 1) - b
             /\ \A i, j \in 1 .. Len(r) : r[i] = r[j] => i = j
             /\ ToSet(r) = Firsts(s, a) \union ToSet(t) \union Lasts(s, b)
             /\ a >= 1 => r[1] = s[1]
<1> DEFINE r == Spliced(s, a, b, t)
           m == Len(t)
           L == Len(s)
<1>1. /\ r \in Seq(S) /\ Len(r) = ((a + m) + L + 1) - b /\ m \in Nat /\ L \in Nat
      /\ \A k \in 1 .. Len(r) :
           r[k] = IF k <= a THEN s[k]
                  ELSE IF k <= a + m THEN t[k - a] ELSE s[((k - a) - m) + (b - 1)]
      /\ a \in 0 .. L /\ b \in a + 1 .. L + 1
  <2>1. /\ r \in Seq(S) /\ Len(r) = ((a + m) + L + 1) - b /\ m \in Nat
        /\ \A k \in 1 .. Len(r) :
             r[k] = IF k <= a THEN s[k]
                    ELSE IF k <= a + m THEN t[k - a] ELSE s[((k - a) - m) + (b - 1)]
    <3>1. Spliced(s, a, b, t) \in Seq(S) /\ IsSplice(Spliced(s, a, b, t), s, a, b, t)
      BY SpliceFacts, Zenon
    <3> QED
      BY <3>1 DEF IsSplice
  <2>2. L \in Nat /\ a \in 0 .. L /\ b \in a + 1 .. L + 1
    OBVIOUS
  <2> QED
    BY <2>1, <2>2, Zenon
<1>2. DOMAIN r = 1 .. Len(r) /\ DOMAIN t = 1 .. m /\ DOMAIN s = 1 .. L
  <2> HIDE DEF r
  <2> QED
    BY <1>1
<1> HIDE DEF r
<1> DEFINE back(k) == ((k - a) - m) + (b - 1)
<1>3. \A k \in 1 .. Len(r) :
        \/ k <= a /\ r[k] = s[k] /\ k \in 1 .. L
        \/ ~(k <= a) /\ k <= a + m /\ r[k] = t[k - a] /\ k - a \in 1 .. m
        \/ ~(k <= a + m) /\ r[k] = s[back(k)] /\ back(k) \in b .. L
  <2> TAKE k \in 1 .. Len(r)
  <2> HIDE DEF m, L
  <2>0. m \in Nat /\ L \in Nat /\ a \in 0 .. L /\ b \in a + 1 .. L + 1 /\ k \in 1 .. ((a + m) + L + 1) - b
    BY <1>1
  <2>1. CASE k <= a
    BY <1>1, <2>0, <2>1
  <2>2. CASE ~(k <= a) /\ k <= a + m
    <3>1. k - a \in 1 .. m
      BY <2>0, <2>2
    <3> QED
      BY <1>1, <2>2, <3>1
  <2>3. CASE ~(k <= a + m)
    <3>1. ~(k <= a) /\ back(k) \in b .. L
      BY <2>0, <2>3
    <3>2. r[k] = s[back(k)]
      BY <1>1, <2>3, <3>1
    <3> QED
      BY <2>3, <3>1, <3>2
  <2> QED
    BY <2>0, <2>1, <2>2, <2>3
<1>4. ASSUME NEW i \in 1 .. Len(r), NEW j \in 1 .. Len(r), r[i] = r[j]
      PROVE  i = j
  <2>0. /\ m \in Nat /\ L \in Nat /\ a \in 0 .. L /\ b \in a + 1 .. L + 1
        /\ i \in Int /\ j \in Int
    BY <1>1
  <2>a. i - a = j - a => i = j
    BY <2>0
  <2>b. back(i) = back(j) => i = j
    BY <2>0
  <2>c. i <= a => i # back(j) \/ ~(back(j) \in b .. L)
    BY <2>0
  <2>d. j <= a => j # back(i) \/ ~(back(i) \in b .. L)
    BY <2>0
  <2>e. i <= a => i \notin a + 1 .. b - 1
    BY <2>0
  <2>f. j <= a => j \notin a + 1 .. b - 1
    BY <2>0
  <2>g. back(i) \in b .. L => back(i) \in 1 .. L /\ back(i) \notin a + 1 .. b - 1
    BY <2>0
  <2>h. back(j) \in b .. L => back(j) \in 1 .. L /\ back(j) \notin a + 1 .. b - 1
    BY <2>0
  <2> DEFINE x == back(i)
             y == back(j)
             u == i - a
             v == j - a
  <2>i. \/ i <= a /\ r[i] = s[i] /\ i \in 1 .. L
        \/ r[i] = t[u] /\ u \in 1 .. m
        \/ r[i] = s[x] /\ x \in b .. L
    BY <1>3, Zenon
  <2>j. \/ j <= a /\ r[j] = s[j] /\ j \in 1 .. L
        \/ r[j] = t[v] /\ v \in 1 .. m
        \/ r[j] = s[y] /\ y \in b .. L
    BY <1>3, Zenon
  <2> HIDE DEF back, x, y, u, v
  <2>k. /\ u = v => i = j
        /\ x = y => i = j
        /\ i <= a => i # y \/ ~(y \in b .. L)
        /\ j <= a => j # x \/ ~(x \in b .. L)
        /\ x \in b .. L => x \in 1 .. L /\ x \notin a + 1 .. b - 1
        /\ y \in b .. L => y \in 1 .. L /\ y \notin a + 1 .. b - 1
    BY <2>a, <2>b, <2>c, <2>d, <2>g, <2>h DEF x, y, u, v
  <2>l. /\ \A p, q \in 1 .. L : s[p] = s[q] => p = q
        /\ \A p, q \in 1 .. m : t[p] = t[q] => p = q
        /\ \A p \in 1 .. L, q \in 1 .. m : s[p] # t[q] \/ p \in a + 1 .. b - 1
    BY DEF L, m
  <2> HIDE DEF L, m
  <2> QED
    BY <2>e, <2>f, <2>i, <2>j, <2>k, <2>l, <1>4
<1>5. ASSUME NEW x \in ToSet(r)
      PROVE  x \in Firsts(s, a) \union ToSet(t) \union Lasts(s, b)
  <2>1. PICK k \in 1 .. Len(r) : x = r[k]
    BY <1>2 DEF ToSet
  <2>2. CASE k <= a
    <3>1. k \in 1 .. a /\ r[k] = s[k]
      BY <1>1, <1>3, <2>2
    <3> QED
      BY <2>1, <3>1 DEF Firsts
  <2>3. CASE ~(k <= a) /\ k <= a + m /\ r[k] = t[k - a] /\ k - a \in 1 .. m
    BY <1>2, <2>1, <2>3 DEF ToSet
  <2>4. CASE r[k] = s[back(k)] /\ back(k) \in b .. L
    BY <2>1, <2>4 DEF Lasts
  <2> QED
    BY <1>3, <2>2, <2>3, <2>4, Zenon
<1>6. ASSUME NEW i \in 1 .. a
      PROVE  s[i] \in ToSet(r)
  <2> HIDE DEF m, L
  <2>1. i \in 1 .. Len(r) /\ r[i] = s[i]
    BY <1>1
  <2> QED
    BY <1>2, <2>1 DEF ToSet
<1>7. ASSUME NEW j \in b .. Len(s)
      PROVE  s[j] \in ToSet(r)
  <2> DEFINE k == (j - (b - 1)) + (a + m)
  <2>1. k \in 1 .. Len(r) /\ ~(k <= a + m) /\ ~(k <= a) /\ ((k - a) - m) + (b - 1) = j
    <3>1. j \in b .. L
      OBVIOUS
    <3> HIDE DEF m, L
    <3> QED
      BY <1>1, <3>1
  <2> HIDE DEF k, m
  <2>2. r[k] = s[j]
    BY <1>1, <2>1
  <2> QED
    BY <1>2, <2>1, <2>2 DEF ToSet
<1>8. ASSUME NEW x \in ToSet(t)
      PROVE  x \in ToSet(r)
  <2>1. PICK i \in 1 .. m : x = t[i]
    BY <1>2 DEF ToSet
  <2> DEFINE k == i + a
  <2>2. k \in 1 .. Len(r) /\ k <= a + m /\ ~(k <= a) /\ k - a = i
    <3> HIDE DEF m, L
    <3> QED
      BY <1>1
  <2> HIDE DEF k
  <2>3. r[k] = t[i]
    BY <1>1, <2>2
  <2> QED
    BY <1>2, <2>1, <2>2, <2>3 DEF ToSet
<1>9. ToSet(r) = Firsts(s, a) \union ToSet(t) \union Lasts(s, b)
  BY <1>5, <1>6, <1>7, <1>8 DEF Firsts, Lasts
<1>10. a >= 1 => r[1] = s[1]
  <2> HIDE DEF m, L
  <2> SUFFICES ASSUME a >= 1 PROVE r[1] = s[1]
    OBVIOUS
  <2>1. 1 \in 1 .. Len(r) /\ 1 <= a
    BY <1>1
  <2> QED
    BY <1>1, <2>1
<1> QED
  BY <1>1, <1>4, <1>9, <1>10 DEF r, m, L

\* Two nodes in order cover different pages.
LEMMA RunsApart ==
  ASSUME NEW x, NEW y, x.start \in Nat, x.size \in Nat \ {0}, y.start \in Nat, y.size \in Nat \ {0},
         End(x) <= y.start
  PROVE  PagesOf(x) \cap PagesOf(y) = {} /\ x.start < y.start
BY DEF End, PagesOf, Run

\* A range ends at a natural number.
LEMMA EndIsNat ==
  ASSUME NEW x, x.start \in Nat, x.size \in Nat
  PROVE  End(x) \in Nat
BY DEF End

\* A node within another's range is as far from the others.
LEMMA WithinIsFar ==
  ASSUME NEW x, NEW y, NEW g \in Nat, x.start \in Nat, x.size \in Nat, y.start \in Nat,
         y.size \in Nat, NEW z, z.start \in Nat, z.size \in Nat, y.start <= z.start, End(z) <= End(y)
  PROVE  /\ End(x) + g <= y.start => End(x) + g <= z.start
         /\ End(y) + g <= x.start => End(z) + g <= x.start
BY DEF End

\* Nodes of a list in order are told apart by their index and by their start.
LEMMA SpacedApart ==
  ASSUME NEW g \in Nat, NEW S, Ranged(S), NEW s \in Seq(S), Spaced(s, g),
         NEW i \in 1 .. Len(s), NEW j \in 1 .. Len(s)
  PROVE  /\ s[i] \in S /\ s[j] \in S
         /\ s[i].start = s[j].start => i = j
         /\ i < j => s[i].start < s[j].start
         /\ i # j => PagesOf(s[i]) \cap PagesOf(s[j]) = {}
<1>1. /\ s[i] \in S /\ s[j] \in S
      /\ s[i].start \in Nat /\ s[i].size \in Nat \ {0} /\ s[j].start \in Nat /\ s[j].size \in Nat \ {0}
  BY DEF Ranged
<1>2. /\ i < j => End(s[i]) + g <= s[j].start
      /\ j < i => End(s[j]) + g <= s[i].start
  BY DEF Spaced
<1>3. End(s[i]) \in Nat /\ End(s[j]) \in Nat
  BY <1>1, EndIsNat
<1>4. /\ i < j => End(s[i]) <= s[j].start
      /\ j < i => End(s[j]) <= s[i].start
  BY SMTT(30), <1>1, <1>2, <1>3
<1>5. /\ i < j => PagesOf(s[i]) \cap PagesOf(s[j]) = {} /\ s[i].start < s[j].start
      /\ j < i => PagesOf(s[j]) \cap PagesOf(s[i]) = {} /\ s[j].start < s[i].start
  BY <1>1, <1>4, RunsApart
<1>6. i < j \/ j < i \/ i = j
  OBVIOUS
<1> QED
  BY <1>1, <1>5, <1>6

\* The elements of a list of ranges without those at one index.
LEMMA AllButOne ==
  ASSUME NEW g \in Nat, NEW S, Ranged(S), NEW s \in Seq(S), Spaced(s, g), NEW i \in 1 .. Len(s)
  PROVE  Firsts(s, i - 1) \union Lasts(s, i + 1) = ToSet(s) \ {s[i]}
<1>1. DOMAIN s = 1 .. Len(s) /\ Len(s) \in Nat
  OBVIOUS
<1>2. \A j \in 1 .. Len(s) : s[j] = s[i] => j = i
  BY SpacedApart
<1>3. \A j \in 1 .. Len(s) : j \in 1 .. i - 1 \/ j \in i + 1 .. Len(s) \/ j = i
  BY <1>1
<1>4. \A j \in 1 .. i - 1 : j \in 1 .. Len(s) /\ j # i
  BY <1>1
<1>5. \A j \in i + 1 .. Len(s) : j \in 1 .. Len(s) /\ j # i
  BY <1>1
<1> QED
  BY <1>1, <1>2, <1>3, <1>4, <1>5 DEF ToSet, Firsts, Lasts

\* A node gives way to nodes within its range.
LEMMA ReplacedFacts ==
  ASSUME NEW g \in Nat, NEW S, Ranged(S), NEW s \in Seq(S), NEW t \in Seq(S),
         Spaced(s, g), Spaced(t, g), NEW i \in 1 .. Len(s),
         Within(t, s[i])
  PROVE  /\ ReplaceNode(s, i, t) \in Seq(S) /\ Spaced(ReplaceNode(s, i, t), g)
         /\ ToSet(ReplaceNode(s, i, t)) = (ToSet(s) \ {s[i]}) \union ToSet(t)
<1> DEFINE a == i - 1
           b == i + 1
<1>1. a \in 0 .. Len(s) /\ b \in a + 1 .. Len(s) + 1 /\ Len(s) \in Nat
  OBVIOUS
<1>2. ReplaceNode(s, i, t) = Spliced(s, a, b, t)
  BY DEF ReplaceNode, ReplaceNodes, Spliced
<1>3. \A j \in 1 .. Len(s) : s[j] \in S
  OBVIOUS
<1>4. \A j \in 1 .. Len(t) : t[j] \in S
  OBVIOUS
<1>5. ASSUME NEW j \in 1 .. a, NEW k \in 1 .. Len(t)
      PROVE  End(s[j]) + g <= t[k].start
  <2>1. j \in 1 .. Len(s) /\ j < i
    OBVIOUS
  <2>2. End(s[j]) + g <= s[i].start
    BY <2>1 DEF Spaced
  <2>3. /\ s[i].start \in Nat /\ s[i].size \in Nat /\ s[j].start \in Nat /\ s[j].size \in Nat
        /\ t[k].start \in Nat /\ t[k].size \in Nat /\ s[i].start <= t[k].start
    BY <1>3, <1>4, <2>1 DEF Ranged, Within
  <2>4. t[k].size \in Nat /\ End(t[k]) <= End(s[i]) /\ s[i].start <= t[k].start /\ t[k].start \in Nat
    BY <1>3, <1>4, <2>1 DEF Ranged, Within
  <2> QED
    BY <2>2, <2>3, <2>4, WithinIsFar
<1>6. ASSUME NEW j \in b .. Len(s), NEW k \in 1 .. Len(t)
      PROVE  End(t[k]) + g <= s[j].start
  <2>1. j \in 1 .. Len(s) /\ i < j
    OBVIOUS
  <2>2. End(s[i]) + g <= s[j].start
    BY <2>1 DEF Spaced
  <2>3. /\ s[i].start \in Nat /\ s[i].size \in Nat /\ s[j].start \in Nat /\ s[j].size \in Nat
        /\ t[k].start \in Nat /\ t[k].size \in Nat /\ End(t[k]) <= End(s[i])
    BY <1>3, <1>4, <2>1 DEF Ranged, Within
  <2>4. t[k].size \in Nat /\ End(t[k]) <= End(s[i]) /\ s[i].start <= t[k].start /\ t[k].start \in Nat
    BY <1>3, <1>4, <2>1 DEF Ranged, Within
  <2> QED
    BY <2>2, <2>3, <2>4, WithinIsFar
<1> HIDE DEF a, b
<1>7. /\ Spliced(s, a, b, t) \in Seq(S) /\ Spaced(Spliced(s, a, b, t), g)
      /\ ToSet(Spliced(s, a, b, t)) =
           Firsts(s, a) \union ToSet(t) \union Lasts(s, b)
  <2>1. After(s, a, t, g) /\ Before(s, b, t, g)
    BY <1>5, <1>6 DEF After, Before
  <2>2. ASSUME NEW x \in 0 .. Len(s), NEW y \in x + 1 .. Len(s) + 1,
               After(s, x, t, g), Before(s, y, t, g)
        PROVE  /\ Spliced(s, x, y, t) \in Seq(S) /\ Spaced(Spliced(s, x, y, t), g)
               /\ ToSet(Spliced(s, x, y, t)) =
                    Firsts(s, x) \union ToSet(t) \union Lasts(s, y)
    BY <2>2, SplicedInOrder
  <2> QED
    BY <1>1, <2>1, <2>2, Zenon
<1>8. Firsts(s, a) \union Lasts(s, b) = ToSet(s) \ {s[i]}
  BY AllButOne DEF a, b
<1> QED
  BY <1>2, <1>7, <1>8

\* A node replaced by nodes that stay within it leaves the list in order.
LEMMA ReplacedByAny ==
  ASSUME NEW g \in Nat, NEW S, Ranged(S), NEW s \in Seq(S), Spaced(s, g), NEW i \in 1 .. Len(s)
  PROVE  \A u \in Seq(S) :
           Spaced(u, g) /\ Within(u, s[i]) =>
             /\ ReplaceNode(s, i, u) \in Seq(S) /\ Spaced(ReplaceNode(s, i, u), g)
             /\ ToSet(ReplaceNode(s, i, u)) = (ToSet(s) \ {s[i]}) \union ToSet(u)
  BY ReplacedFacts

\* delete_node, as the list sees it: the node leaves, the order stays.
LEMMA RemovedFacts ==
  ASSUME NEW g \in Nat, NEW S, Ranged(S), NEW s \in Seq(S), Spaced(s, g), NEW i \in 1 .. Len(s)
  PROVE  /\ ReplaceNode(s, i, <<>>) \in Seq(S) /\ Spaced(ReplaceNode(s, i, <<>>), g)
         /\ ToSet(ReplaceNode(s, i, <<>>)) = ToSet(s) \ {s[i]}
<1> DEFINE t == <<>>
<1>1. t \in Seq(S) /\ Len(t) = 0 /\ ToSet(t) = {} /\ 1 .. Len(t) = {}
  BY DEF ToSet
<1>2. Spaced(t, g) /\ Within(t, s[i])
  BY <1>1 DEF Spaced, Within
<1>3. /\ ReplaceNode(s, i, t) \in Seq(S) /\ Spaced(ReplaceNode(s, i, t), g)
      /\ ToSet(ReplaceNode(s, i, t)) = (ToSet(s) \ {s[i]}) \union ToSet(t)
  <2> HIDE DEF t
  <2> QED
    <3>1. \A u \in Seq(S) :
             Spaced(u, g) /\ Within(u, s[i]) =>
               /\ ReplaceNode(s, i, u) \in Seq(S) /\ Spaced(ReplaceNode(s, i, u), g)
               /\ ToSet(ReplaceNode(s, i, u)) = (ToSet(s) \ {s[i]}) \union ToSet(u)
      BY ReplacedByAny
    <3> QED
      BY <1>1, <1>2, <3>1, Zenon
<1> QED
  BY <1>1, <1>3, Zenon

\* A node that changes within its own range.
LEMMA ChangedFacts ==
  ASSUME NEW g \in Nat, NEW S, Ranged(S), NEW s \in Seq(S), Spaced(s, g), NEW i \in 1 .. Len(s),
         NEW e \in S, s[i].start <= e.start, End(e) <= End(s[i])
  PROVE  /\ ReplaceNode(s, i, <<e>>) \in Seq(S) /\ Spaced(ReplaceNode(s, i, <<e>>), g)
         /\ ToSet(ReplaceNode(s, i, <<e>>)) = (ToSet(s) \ {s[i]}) \union {e}
<1> DEFINE t == <<e>>
<1>1. t \in Seq(S) /\ Len(t) = 1 /\ t[1] = e /\ ToSet(t) = {e} /\ 1 .. Len(t) = {1}
  BY DEF ToSet
<1>2. Spaced(t, g) /\ Within(t, s[i])
  BY <1>1 DEF Spaced, Within
<1>3. /\ ReplaceNode(s, i, t) \in Seq(S) /\ Spaced(ReplaceNode(s, i, t), g)
      /\ ToSet(ReplaceNode(s, i, t)) = (ToSet(s) \ {s[i]}) \union ToSet(t)
  <2> HIDE DEF t
  <2> QED
    BY SMTT(30), <1>1, <1>2, ReplacedByAny
<1> QED
  BY <1>1, <1>3, Zenon

\* A node put between its neighbours.
LEMMA InsertedFacts ==
  ASSUME NEW g \in Nat, NEW S, Ranged(S), NEW s \in Seq(S), Spaced(s, g), NEW e \in S,
         NEW k \in 1 .. Len(s) + 1,
         \A i \in 1 .. k - 1 : End(s[i]) + g <= e.start,
         \A i \in k .. Len(s) : End(e) + g <= s[i].start
  PROVE  /\ InsertAt(s, k, e) \in Seq(S) /\ Spaced(InsertAt(s, k, e), g)
         /\ ToSet(InsertAt(s, k, e)) = ToSet(s) \union {e}
<1> DEFINE a == k - 1
           t == <<e>>
<1>1. a \in 0 .. Len(s) /\ k \in a + 1 .. Len(s) + 1 /\ Len(s) \in Nat
  OBVIOUS
<1>2. t \in Seq(S) /\ Len(t) = 1 /\ t[1] = e /\ ToSet(t) = {e} /\ 1 .. Len(t) = {1}
  BY DEF ToSet
<1>3. InsertAt(s, k, e) = Spliced(s, a, k, t)
  BY DEF InsertAt, Spliced
<1>4. Spaced(t, g)
  BY <1>2 DEF Spaced
<1>5. After(s, a, t, g)
  BY <1>2 DEF After
<1>6. Before(s, k, t, g)
  BY <1>2 DEF Before
<1>7. Firsts(s, a) \union Lasts(s, k) = ToSet(s)
  <2>1. \A j \in 1 .. Len(s) : j \in 1 .. a \/ j \in k .. Len(s)
    OBVIOUS
  <2>2. \A j \in 1 .. a : j \in 1 .. Len(s)
    BY <1>1
  <2>3. \A j \in k .. Len(s) : j \in 1 .. Len(s)
    BY <1>1
  <2>4. DOMAIN s = 1 .. Len(s)
    OBVIOUS
  <2> HIDE DEF a
  <2> QED
    BY <2>1, <2>2, <2>3, <2>4 DEF ToSet, Firsts, Lasts
<1> HIDE DEF a, t
<1>8. /\ Spliced(s, a, k, t) \in Seq(S) /\ Spaced(Spliced(s, a, k, t), g)
      /\ ToSet(Spliced(s, a, k, t)) =
           Firsts(s, a) \union ToSet(t) \union Lasts(s, k)
  BY <1>1, <1>2, <1>4, <1>5, <1>6, SplicedInOrder
<1> QED
  BY <1>2, <1>3, <1>7, <1>8

-----------------------------------------------------------------------------
(* A range taken out of a list. *)

\* The least element of a set of numbers is one of them.
LEMMA LeastOf ==
  ASSUME NEW T \in SUBSET Nat, T # {}
  PROVE  Min(T) \in T /\ \A y \in T : Min(T) <= y
<1>1. \E x \in T : \A y \in T : x <= y
  BY HasLeast
<1> QED
  BY <1>1 DEF Min

\* The greatest element of a bounded set of numbers is one of them.
LEMMA GreatestOf ==
  ASSUME NEW m \in Nat, NEW T \in SUBSET (0 .. m), T # {}
  PROVE  Max(T) \in T /\ \A y \in T : y <= Max(T)
<1> DEFINE U == {m - x : x \in T}
<1>0. \A x \in T : x \in Nat /\ x <= m
  <2>1. \A x \in T : x \in 0 .. m
    OBVIOUS
  <2> QED
    BY <2>1
<1>1. U \in SUBSET Nat /\ U # {}
  <2>1. \A u \in U : u \in Nat
    BY <1>0
  <2> QED
    BY <2>1
<1>2. PICK u \in U : \A y \in U : u <= y
  BY <1>1, HasLeast
<1>3. PICK x \in T : u = m - x
  BY <1>2
<1>4. ASSUME NEW y \in T
      PROVE  x >= y
  <2>1. u <= m - y
    BY <1>2
  <2>2. x \in Int /\ y \in Int
    BY <1>0
  <2> QED
    BY <1>3, <2>1, <2>2
<1>5. \E z \in T : \A y \in T : z >= y
  BY <1>4
<1>6. Max(T) \in T /\ \A y \in T : Max(T) >= y
  BY <1>5 DEF Max
<1>7. ASSUME NEW y \in T
      PROVE  y <= Max(T)
  <2>1. Max(T) >= y /\ Max(T) \in Int /\ y \in Int
    <3>1. Max(T) \in Int /\ y \in Int
      <4>1. Max(T) \in T
        BY <1>6, Zenon
      <4>2. Max(T) \in Nat /\ y \in Nat
        BY <1>0, <4>1, Zenon
      <4> QED
        BY <4>2
    <3>2. Max(T) >= y
      BY <1>6, Zenon
    <3> QED
      BY <3>1, <3>2
  <2> QED
    BY <2>1
<1> QED
  BY <1>6, <1>7

\* The index at which a range goes.
LEMMA PlaceFacts ==
  ASSUME NEW g \in Nat, NEW S, Ranged(S), NEW s \in Seq(S), Spaced(s, g), NEW va \in Nat
  PROVE  /\ Place(s, va) \in 1 .. Len(s) + 1
         /\ \A i \in 1 .. Place(s, va) - 1 : s[i].start < va
         /\ \A i \in Place(s, va) .. Len(s) : va <= s[i].start
<1> DEFINE T == {i \in DOMAIN s : s[i].start >= va}
           k == Min(T \union {Len(s) + 1})
<1>1. Place(s, va) = k
  BY DEF Place, Among
<1>2. DOMAIN s = 1 .. Len(s) /\ Len(s) \in Nat /\ \A i \in 1 .. Len(s) : s[i].start \in Nat
  BY DEF Ranged
<1>3. k \in T \union {Len(s) + 1} /\ \A y \in T \union {Len(s) + 1} : k <= y
  <2>1. T \union {Len(s) + 1} \in SUBSET Nat
    BY <1>2
  <2> HIDE DEF T
  <2> QED
    BY <2>1, LeastOf
<1> HIDE DEF k
<1>4. k \in 1 .. Len(s) + 1
  BY <1>2, <1>3
<1>5. ASSUME NEW i \in 1 .. k - 1
      PROVE  s[i].start < va
  <2>1. i \in 1 .. Len(s) /\ i < k
    BY <1>2, <1>4
  <2>2. i \notin T
    BY SMTT(30), <1>2, <1>3, <1>4, <2>1
  <2>3. ~(s[i].start >= va) /\ s[i].start \in Nat
    BY <1>2, <2>1, <2>2
  <2> QED
    BY <2>3
<1>6. ASSUME NEW i \in k .. Len(s)
      PROVE  va <= s[i].start
  <2>1. k \in T /\ k \in 1 .. Len(s) /\ i \in 1 .. Len(s)
    BY <1>2, <1>3, <1>4
  <2>2. s[k].start >= va
    BY <2>1
  <2>3. k = i \/ k < i
    BY <1>4
  <2>4. k < i => s[k].start < s[i].start
    BY <2>1, SpacedApart
  <2>5. s[k].start \in Nat /\ s[i].start \in Nat
    BY <1>2, <2>1
  <2> QED
    BY <2>2, <2>3, <2>4, <2>5
<1> QED
  BY <1>1, <1>4, <1>5, <1>6

\* A node of a list covers pages of the list.
LEMMA NodeInCover ==
  ASSUME NEW s, NEW i \in DOMAIN s
  PROVE  PagesOf(s[i]) \subseteq Cover(s)
BY DEF Cover, ToSet

\* A range that shares no page with another lies on one side of it.
LEMMA RunBeside ==
  ASSUME NEW x \in Nat, NEW m \in Nat \ {0}, NEW y \in Nat, NEW n \in Nat \ {0},
         Run(x, m) \cap Run(y, n) = {}
  PROVE  x + m <= y \/ y + n <= x
<1>1. \A z \in Nat : ~(x <= z /\ z <= x + m - 1 /\ y <= z /\ z <= y + n - 1)
  BY DEF Run
<1>2. ~(x <= y /\ y <= x + m - 1 /\ y <= y + n - 1)
  BY <1>1
<1>3. ~(x <= x + m - 1 /\ y <= x /\ x <= y + n - 1)
  BY <1>1
<1> QED
  BY <1>2, <1>3

\* The neighbours of a range that shares no page with a list.
LEMMA GapFacts ==
  ASSUME NEW g \in Nat, NEW S, Ranged(S), NEW s \in Seq(S), Spaced(s, g),
         NEW va \in Nat, NEW n \in Nat \ {0}, Run(va, n) \cap Cover(s) = {}
  PROVE  /\ \A i \in 1 .. Place(s, va) - 1 : End(s[i]) <= va
         /\ \A i \in Place(s, va) .. Len(s) : va + n <= s[i].start
<1>1. /\ Place(s, va) \in 1 .. Len(s) + 1
      /\ \A i \in 1 .. Place(s, va) - 1 : s[i].start < va
      /\ \A i \in Place(s, va) .. Len(s) : va <= s[i].start
  BY PlaceFacts
<1>2. ASSUME NEW i \in 1 .. Len(s)
      PROVE  /\ s[i].start \in Nat /\ s[i].size \in Nat \ {0}
             /\ End(s[i]) <= va \/ va + n <= s[i].start
  <2>1. s[i].start \in Nat /\ s[i].size \in Nat \ {0}
    BY DEF Ranged
  <2>2. Run(s[i].start, s[i].size) \cap Run(va, n) = {}
    BY NodeInCover DEF PagesOf
  <2>3. s[i].start + s[i].size <= va \/ va + n <= s[i].start
    BY <2>1, <2>2, RunBeside
  <2> QED
    BY <2>1, <2>3 DEF End
<1> DEFINE k == Place(s, va)
<1>3. k \in 1 .. Len(s) + 1 /\ Len(s) \in Nat
  BY <1>1
<1>4. ASSUME NEW i \in 1 .. k - 1
      PROVE  End(s[i]) <= va
  <2>1. i \in 1 .. Len(s)
    BY <1>3
  <2>2. s[i].start < va
    BY <1>1
  <2>3. s[i].start \in Nat /\ (End(s[i]) <= va \/ va + n <= s[i].start)
    BY <1>2, <2>1
  <2> QED
    BY <2>2, <2>3
<1>5. ASSUME NEW i \in k .. Len(s)
      PROVE  va + n <= s[i].start
  <2>1. i \in 1 .. Len(s)
    BY <1>3
  <2>2. va <= s[i].start
    BY <1>1
  <2>3. s[i].start \in Nat /\ s[i].size \in Nat \ {0} /\ (End(s[i]) <= va \/ va + n <= s[i].start)
    BY <1>2, <2>1
  <2> QED
    BY <2>2, <2>3 DEF End
<1> QED
  BY <1>4, <1>5

\* push_rva: the range gets a node of its own.
LEMMA InsertedInPlace ==
  ASSUME NEW S, Ranged(S), NEW s \in Seq(S), Spaced(s, 0), NEW e \in S,
         PagesOf(e) \cap Cover(s) = {}
  PROVE  /\ InsertAt(s, Place(s, e.start), e) \in Seq(S)
         /\ Spaced(InsertAt(s, Place(s, e.start), e), 0)
         /\ ToSet(InsertAt(s, Place(s, e.start), e)) = ToSet(s) \union {e}
<1> DEFINE k == Place(s, e.start)
<1>1. e.start \in Nat /\ e.size \in Nat \ {0} /\ Run(e.start, e.size) \cap Cover(s) = {}
  BY DEF Ranged, PagesOf
<1>2. k \in 1 .. Len(s) + 1
  BY <1>1, PlaceFacts, 0 \in Nat
<1>3. /\ \A i \in 1 .. k - 1 : End(s[i]) <= e.start
      /\ \A i \in k .. Len(s) : e.start + e.size <= s[i].start
  BY <1>1, GapFacts, 0 \in Nat
<1> HIDE DEF k
<1>4. ASSUME NEW i \in 1 .. k - 1
      PROVE  End(s[i]) + 0 <= e.start
  <2>1. i \in 1 .. Len(s)
    BY <1>2
  <2>2. s[i].start \in Nat /\ s[i].size \in Nat
    BY <2>1 DEF Ranged
  <2>3. End(s[i]) \in Nat /\ End(s[i]) <= e.start
    BY <1>3, <2>2 DEF End
  <2> QED
    BY <1>1, <2>3
<1>5. ASSUME NEW i \in k .. Len(s)
      PROVE  End(e) + 0 <= s[i].start
  <2>1. e.start + e.size <= s[i].start
    BY <1>3
  <2> QED
    BY <1>1, <2>1 DEF End
<1>6. ASSUME NEW j \in 1 .. Len(s) + 1,
             \A i \in 1 .. j - 1 : End(s[i]) + 0 <= e.start,
             \A i \in j .. Len(s) : End(e) + 0 <= s[i].start
      PROVE  /\ InsertAt(s, j, e) \in Seq(S) /\ Spaced(InsertAt(s, j, e), 0)
             /\ ToSet(InsertAt(s, j, e)) = ToSet(s) \union {e}
  BY <1>6, InsertedFacts, 0 \in Nat
<1> QED
  BY <1>2, <1>4, <1>5, <1>6 DEF k

\* Nodes of either tree are ranges of at least one page.
LEMMA NodesRanged == Ranged(HoleNodes) /\ Ranged(RvaNodes)
BY DEF Ranged, HoleNodes, RvaNodes

\* Two runs of pages are the same only if they start and end alike.
LEMMA SameRun ==
  ASSUME NEW x \in Nat, NEW m \in Nat \ {0}, NEW y \in Nat, NEW n \in Nat \ {0}
  PROVE  Run(x, m) = Run(y, n) <=> x = y /\ m = n
<1>1. ASSUME Run(x, m) = Run(y, n)
      PROVE  x = y /\ m = n
  <2>1. x \in Run(y, n) /\ y \in Run(x, m)
    BY <1>1 DEF Run
  <2>2. x + m - 1 \in Run(y, n) /\ y + n - 1 \in Run(x, m)
    BY <1>1 DEF Run
  <2> QED
    BY <2>1, <2>2 DEF Run
<1> QED
  BY <1>1

CoverOf(S) == UNION {PagesOf(r) : r \in S}

\* What two sets of nodes cover together.
LEMMA CoverSplits ==
  ASSUME NEW A, NEW B
  PROVE  CoverOf(A \union B) = CoverOf(A) \union CoverOf(B)
BY DEF CoverOf

\* The order of a list does not matter to what it covers.
LEMMA CoverIs == \A s : Cover(s) = CoverOf(ToSet(s))
BY DEF Cover, CoverOf

\* What covers a list with a node changed.
LEMMA CoverWithout ==
  ASSUME NEW g \in Nat, NEW S, Ranged(S), NEW s \in Seq(S), Spaced(s, g), NEW i \in 1 .. Len(s)
  PROVE  /\ CoverOf(ToSet(s) \ {s[i]}) = Cover(s) \ PagesOf(s[i])
         /\ PagesOf(s[i]) \subseteq Cover(s) /\ s[i] \in ToSet(s)
<1>1. DOMAIN s = 1 .. Len(s)
  OBVIOUS
<1>2. ASSUME NEW j \in 1 .. Len(s)
      PROVE  i # j => PagesOf(s[i]) \cap PagesOf(s[j]) = {}
  <2>1. /\ s[i].start \in Nat /\ s[i].size \in Nat \ {0} /\ s[j].start \in Nat /\ s[j].size \in Nat \ {0}
    BY DEF Ranged
  <2>2. /\ i < j => End(s[i]) + g <= s[j].start
        /\ j < i => End(s[j]) + g <= s[i].start
    BY DEF Spaced
  <2>3. End(s[i]) \in Nat /\ End(s[j]) \in Nat
    BY <2>1, EndIsNat
  <2>4. /\ i < j => End(s[i]) <= s[j].start
        /\ j < i => End(s[j]) <= s[i].start
    BY <2>1, <2>2, <2>3
  <2> QED
    BY <2>1, <2>4, RunsApart
<1>3. \A r \in ToSet(s) \ {s[i]} : PagesOf(r) \cap PagesOf(s[i]) = {}
  BY <1>1, <1>2 DEF ToSet
<1>4. s[i] \in ToSet(s)
  BY <1>1 DEF ToSet
<1> QED
  BY <1>3, <1>4 DEF Cover, CoverOf

\* A hole moved and resized.
LEMMA TwoChanged ==
  ASSUME NEW r \in HoleNodes, NEW x, NEW y
  PROVE  [r EXCEPT !.start = x, !.size = y] = [at |-> r.at, start |-> x, size |-> y]
<1> DEFINE z == [r EXCEPT !.start = x]
<1>1. z = [at |-> r.at, start |-> x, size |-> r.size]
  BY DEF HoleNodes
<1>2. [r EXCEPT !.start = x, !.size = y] = [z EXCEPT !.size = y]
  OBVIOUS
<1> HIDE DEF z
<1>3. [z EXCEPT !.size = y] = [at |-> r.at, start |-> x, size |-> y]
  BY <1>1
<1> QED
  BY <1>1, <1>2, <1>3

IsRest(t, r, va, n, fresh) ==
  /\ t \in Seq(HoleNodes) /\ Spaced(t, 1) /\ Within(t, r)
  /\ CoverOf(ToSet(t)) = PagesOf(r) \ Run(va, n)
  /\ \/ PagesOf(r) = Run(va, n) /\ ToSet(t) = {} /\ ~TakesMiddle(r, va, n)
     \/ /\ PagesOf(r) # Run(va, n) /\ ~TakesMiddle(r, va, n)
        /\ \E x \in HoleNodes : ToSet(t) = {x} /\ x.at = r.at
     \/ /\ PagesOf(r) # Run(va, n) /\ TakesMiddle(r, va, n)
        /\ \E x, y \in HoleNodes : ToSet(t) = {x, y} /\ x.at = r.at /\ y.at = fresh

\* What pop_fva leaves of the node it takes pages from.
LEMMA RestFacts ==
  ASSUME NEW r \in HoleNodes, NEW va \in Nat, NEW n \in Nat \ {0}, r.start <= va, va + n <= End(r),
         NEW fresh \in Places
  PROVE  IsRest(Rest(r, va, n, fresh), r, va, n, fresh)
<1> DEFINE t == Rest(r, va, n, fresh)
           low == [r EXCEPT !.size = va - r.start]
           high == [r EXCEPT !.start = va + n, !.size = End(r) - (va + n)]
           other == [high EXCEPT !.at = fresh]
<1>1. /\ r.start \in Nat /\ r.size \in Nat \ {0} /\ r.at \in Places /\ End(r) = r.start + r.size
      /\ r = [at |-> r.at, start |-> r.start, size |-> r.size]
  BY DEF HoleNodes, End
<1>0. End(r) \in Nat
  <2>1. r.start \in Nat /\ r.size \in Nat
    BY DEF HoleNodes
  <2> QED
    BY <2>1 DEF End
<1>2. PagesOf(r) = Run(va, n) <=> r.start = va /\ va + n = End(r)
  <2>1. r.size = n /\ r.start = va <=> r.start = va /\ va + n = r.start + r.size
    BY <1>1
  <2> QED
    BY <1>1, <2>1, SameRun DEF PagesOf
<1>3. CASE PagesOf(r) = Run(va, n)
  <2>1. t = <<>> /\ ToSet(<<>>) = {} /\ Len(<<>>) = 0 /\ <<>> \in Seq(HoleNodes)
    BY <1>3 DEF Rest, ToSet
  <2>2. ~TakesMiddle(r, va, n)
    BY <1>1, <1>2, <1>3 DEF TakesMiddle
  <2>3. Spaced(<<>>, 1) /\ Within(<<>>, r)
    BY <2>1 DEF Spaced, Within
  <2> QED
    BY <1>3, <2>1, <2>2, <2>3 DEF IsRest, CoverOf
<1>4. CASE PagesOf(r) # Run(va, n) /\ r.start = va
  <2>1. t = <<high>>
    BY <1>4 DEF Rest
  <2>2. high = [at |-> r.at, start |-> va + n, size |-> End(r) - (va + n)]
    BY TwoChanged
  <2>3. End(r) - (va + n) \in Nat \ {0} /\ va + n \in Nat
    BY <1>1, <1>2, <1>4
  <2>4. high \in HoleNodes /\ high.at = r.at /\ high.start = va + n /\ End(high) = End(r)
    <3>1. high.at = r.at /\ high.start = va + n /\ high.size = End(r) - (va + n)
      BY <2>2
    <3>2. End(high) = (va + n) + (End(r) - (va + n))
      BY <3>1 DEF End
    <3>3. End(r) \in Nat
      BY <1>0
    <3> QED
      BY <1>1, <2>2, <2>3, <3>1, <3>2, <3>3 DEF HoleNodes
  <2> HIDE DEF high
  <2>5. <<high>> \in Seq(HoleNodes) /\ ToSet(<<high>>) = {high} /\ Len(<<high>>) = 1 /\ 1 .. Len(<<high>>) = {1}
    BY <2>4 DEF ToSet
  <2>6. Spaced(<<high>>, 1)
    BY <2>5 DEF Spaced
  <2>7. r.start <= high.start /\ End(high) <= End(r)
    BY <1>1, <2>4
  <2>8. Within(<<high>>, r)
    BY <2>5, <2>7 DEF Within
  <2>9. PagesOf(high) = PagesOf(r) \ Run(va, n)
    <3>1. high.size = End(r) - (va + n)
      BY <2>2 DEF high
    <3>2. PagesOf(high) = (va + n) .. (va + n) + (End(r) - (va + n)) - 1
      BY <2>4, <3>1 DEF PagesOf, Run
    <3>3. PagesOf(r) = r.start .. r.start + r.size - 1 /\ Run(va, n) = va .. va + n - 1
      BY DEF PagesOf, Run
    <3> QED
      BY <1>1, <1>4, <3>2, <3>3
  <2>10. ~TakesMiddle(r, va, n)
    BY <1>1, <1>4 DEF TakesMiddle
  <2> HIDE DEF t
  <2> QED
    BY <1>4, <2>1, <2>4, <2>5, <2>6, <2>8, <2>9, <2>10 DEF IsRest, t, CoverOf
<1>5. CASE r.start # va /\ va + n = End(r)
  <2>1. t = <<low>>
    BY <1>2, <1>5 DEF Rest
  <2>2. low = [at |-> r.at, start |-> r.start, size |-> va - r.start]
    BY <1>1
  <2>3. va - r.start \in Nat \ {0}
    BY <1>1, <1>5
  <2>4. low \in HoleNodes /\ low.at = r.at /\ low.start = r.start /\ low.size = va - r.start /\ End(low) = va
    <3>1. low.at = r.at /\ low.start = r.start /\ low.size = va - r.start
      BY <2>2
    <3>2. End(low) = r.start + (va - r.start)
      BY <3>1 DEF End
    <3> QED
      BY <1>1, <2>2, <2>3, <3>1, <3>2 DEF HoleNodes
  <2> HIDE DEF low
  <2>5. <<low>> \in Seq(HoleNodes) /\ ToSet(<<low>>) = {low} /\ Len(<<low>>) = 1 /\ 1 .. Len(<<low>>) = {1}
    BY <2>4 DEF ToSet
  <2>6. Spaced(<<low>>, 1)
    BY <2>5 DEF Spaced
  <2>7. r.start <= low.start /\ End(low) <= End(r)
    BY <1>1, <1>5, <2>4
  <2>8. Within(<<low>>, r)
    BY <2>5, <2>7 DEF Within
  <2>9. PagesOf(low) = PagesOf(r) \ Run(va, n)
    <3>1. PagesOf(low) = r.start .. r.start + (va - r.start) - 1
      BY <2>4 DEF PagesOf, Run
    <3>2. PagesOf(r) = r.start .. r.start + r.size - 1 /\ Run(va, n) = va .. va + n - 1
      BY DEF PagesOf, Run
    <3> QED
      BY <1>1, <1>5, <3>1, <3>2
  <2>10. ~TakesMiddle(r, va, n) /\ PagesOf(r) # Run(va, n)
    BY <1>1, <1>2, <1>5 DEF TakesMiddle
  <2> HIDE DEF t
  <2> QED
    BY <2>1, <2>4, <2>5, <2>6, <2>8, <2>9, <2>10 DEF IsRest, t, CoverOf
<1>6. CASE r.start # va /\ va + n # End(r)
  <2>0. PagesOf(r) # Run(va, n) /\ TakesMiddle(r, va, n)
    BY <1>1, <1>2, <1>6 DEF TakesMiddle
  <2>1. t = <<low, other>>
    BY <1>6, <2>0 DEF Rest
  <2>2. /\ low = [at |-> r.at, start |-> r.start, size |-> va - r.start]
        /\ other = [at |-> fresh, start |-> va + n, size |-> End(r) - (va + n)]
    <3>1. low = [at |-> r.at, start |-> r.start, size |-> va - r.start]
      BY <1>1
    <3>2. high = [at |-> r.at, start |-> va + n, size |-> End(r) - (va + n)]
      BY TwoChanged
    <3> HIDE DEF high
    <3>3. other = [at |-> fresh, start |-> va + n, size |-> End(r) - (va + n)]
      BY <3>2
    <3> QED
      BY <3>1, <3>3
  <2>3. va - r.start \in Nat \ {0} /\ End(r) - (va + n) \in Nat \ {0} /\ va + n \in Nat
    BY <1>1, <1>6
  <2>4. /\ low \in HoleNodes /\ low.at = r.at /\ low.start = r.start /\ low.size = va - r.start /\ End(low) = va
        /\ other \in HoleNodes /\ other.at = fresh /\ other.start = va + n
        /\ other.size = End(r) - (va + n) /\ End(other) = End(r)
    <3>1. low.at = r.at /\ low.start = r.start /\ low.size = va - r.start
      BY <2>2
    <3>2. End(low) = r.start + (va - r.start)
      BY <3>1 DEF End
    <3>3. other.at = fresh /\ other.start = va + n /\ other.size = End(r) - (va + n)
      BY <2>2
    <3>4. End(other) = (va + n) + (End(r) - (va + n)) /\ End(r) \in Nat
      BY <1>0, <3>3 DEF End
    <3>5. End(low) = va /\ End(other) = End(r)
      BY <1>1, <3>2, <3>4
    <3> QED
      BY <1>1, <2>2, <2>3, <3>1, <3>3, <3>5 DEF HoleNodes
  <2> HIDE DEF low, other, high
  <2>5. /\ <<low, other>> \in Seq(HoleNodes) /\ ToSet(<<low, other>>) = {low, other}
        /\ Len(<<low, other>>) = 2 /\ 1 .. Len(<<low, other>>) = {1, 2}
        /\ <<low, other>>[1] = low /\ <<low, other>>[2] = other
    BY <2>4 DEF ToSet
  <2>6. End(low) + 1 <= other.start
    BY <2>4
  <2> DEFINE u == <<low, other>>
  <2>7. u[1] = low /\ u[2] = other /\ 1 .. Len(u) = {1, 2}
    BY <2>5
  <2>8. r.start <= low.start /\ End(low) <= End(r) /\ r.start <= other.start /\ End(other) <= End(r)
    BY <1>1, <1>6, <2>4
  <2> HIDE DEF u
  <2>9. Spaced(u, 1)
    BY <2>6, <2>7 DEF Spaced
  <2>10. Within(u, r)
    BY <2>7, <2>8 DEF Within
  <2>11. PagesOf(low) \union PagesOf(other) = PagesOf(r) \ Run(va, n)
    <3>1. PagesOf(low) = r.start .. r.start + (va - r.start) - 1
      BY <2>4 DEF PagesOf, Run
    <3>2. PagesOf(r) = r.start .. r.start + r.size - 1 /\ Run(va, n) = va .. va + n - 1
      BY DEF PagesOf, Run
    <3>3. PagesOf(other) = (va + n) .. (va + n) + (End(r) - (va + n)) - 1
      BY <2>4 DEF PagesOf, Run
    <3> QED
      BY SMTT(30), <1>1, <1>6, <3>1, <3>2, <3>3
  <2>12. u \in Seq(HoleNodes) /\ ToSet(u) = {low, other}
    BY <2>5 DEF u
  <2>13. t = u
    BY <2>1 DEF u
  <2> HIDE DEF t
  <2>14. CoverOf(ToSet(u)) = PagesOf(low) \union PagesOf(other)
    BY <2>12 DEF CoverOf
  <2> QED
    BY <2>0, <2>4, <2>9, <2>10, <2>11, <2>12, <2>13, <2>14 DEF IsRest, t
<1> QED
  BY <1>3, <1>4, <1>5, <1>6

\* pop_fva: the list loses the range and no other page.
CanPop(s, i, va, n, t, fresh) ==
  /\ s \in Seq(HoleNodes) /\ Spaced(s, 1) /\ i \in 1 .. Len(s) /\ va \in Nat /\ n \in Nat \ {0}
  /\ s[i].start <= va /\ va + n <= End(s[i]) /\ IsRest(t, s[i], va, n, fresh)
Popped(u, s, i, va, n, t) ==
  /\ u \in Seq(HoleNodes) /\ Spaced(u, 1)
  /\ ToSet(u) = (ToSet(s) \ {s[i]}) \union ToSet(t)
  /\ Cover(u) = Cover(s) \ Run(va, n) /\ Run(va, n) \subseteq Cover(s)

\* pop_fva on a list: the pages leave its cover, the order and the gaps stay.
LEMMA PopFacts ==
  ASSUME NEW s, NEW i, NEW va, NEW n, NEW t, NEW fresh, CanPop(s, i, va, n, t, fresh)
  PROVE  Popped(ReplaceNode(s, i, t), s, i, va, n, t)
<1>0. /\ s \in Seq(HoleNodes) /\ Spaced(s, 1) /\ i \in 1 .. Len(s) /\ va \in Nat /\ n \in Nat \ {0}
      /\ s[i].start <= va /\ va + n <= End(s[i]) /\ IsRest(t, s[i], va, n, fresh) /\ s[i] \in HoleNodes
  BY DEF CanPop
<1>1. /\ t \in Seq(HoleNodes) /\ Spaced(t, 1) /\ Within(t, s[i])
      /\ CoverOf(ToSet(t)) = PagesOf(s[i]) \ Run(va, n)
  BY <1>0 DEF IsRest
<1>2. /\ ReplaceNode(s, i, t) \in Seq(HoleNodes) /\ Spaced(ReplaceNode(s, i, t), 1)
      /\ ToSet(ReplaceNode(s, i, t)) = (ToSet(s) \ {s[i]}) \union ToSet(t)
  <2>1. ASSUME NEW u \in Seq(HoleNodes), Spaced(u, 1), Within(u, s[i])
        PROVE  /\ ReplaceNode(s, i, u) \in Seq(HoleNodes) /\ Spaced(ReplaceNode(s, i, u), 1)
               /\ ToSet(ReplaceNode(s, i, u)) = (ToSet(s) \ {s[i]}) \union ToSet(u)
    BY <1>0, <2>1, ReplacedFacts, NodesRanged, 1 \in Nat
  <2> QED
    BY <1>1, <2>1, Zenon
<1>3. /\ CoverOf(ToSet(s) \ {s[i]}) = Cover(s) \ PagesOf(s[i])
      /\ PagesOf(s[i]) \subseteq Cover(s)
  BY <1>0, CoverWithout, NodesRanged, 1 \in Nat
<1>4. Run(va, n) \subseteq PagesOf(s[i])
  <2>1. s[i].start \in Nat /\ s[i].size \in Nat
    BY <1>0, NodesRanged DEF Ranged
  <2> QED
    BY SMTT(30), <1>0, <2>1 DEF Run, PagesOf, End
<1>5. Cover(ReplaceNode(s, i, t)) = CoverOf(ToSet(s) \ {s[i]}) \union CoverOf(ToSet(t))
  BY <1>2, CoverSplits, CoverIs
<1> QED
  BY <1>1, <1>2, <1>3, <1>4, <1>5 DEF Popped

-----------------------------------------------------------------------------
(* A range joined with the holes it touches. *)

\* One node in place of those between the a-th and the b-th.
LEMMA OneSpliced ==
  ASSUME NEW g \in Nat, NEW S, Ranged(S), NEW s \in Seq(S), Spaced(s, g), NEW e \in S,
         NEW a \in 0 .. Len(s), NEW b \in a + 1 .. Len(s) + 1,
         \A i \in 1 .. a : End(s[i]) + g <= e.start,
         \A i \in b .. Len(s) : End(e) + g <= s[i].start
  PROVE  /\ Spliced(s, a, b, <<e>>) \in Seq(S) /\ Spaced(Spliced(s, a, b, <<e>>), g)
         /\ ToSet(Spliced(s, a, b, <<e>>)) = (Firsts(s, a) \union Lasts(s, b)) \union {e}
<1> DEFINE t == <<e>>
<1>2. t \in Seq(S) /\ Len(t) = 1 /\ t[1] = e /\ ToSet(t) = {e} /\ 1 .. Len(t) = {1}
  BY DEF ToSet
<1>4. Spaced(t, g)
  BY <1>2 DEF Spaced
<1>5. After(s, a, t, g)
  BY <1>2 DEF After
<1>6. Before(s, b, t, g)
  BY <1>2 DEF Before
<1> HIDE DEF t
<1>8. /\ Spliced(s, a, b, t) \in Seq(S) /\ Spaced(Spliced(s, a, b, t), g)
      /\ ToSet(Spliced(s, a, b, t)) =
           Firsts(s, a) \union ToSet(t) \union Lasts(s, b)
  BY <1>2, <1>4, <1>5, <1>6, SplicedInOrder
<1> QED
  BY <1>2, <1>8 DEF t

\* The nodes between are those left out.
LEMMA LeftOut ==
  ASSUME NEW S, NEW s \in Seq(S), NEW k \in 1 .. Len(s) + 1
  PROVE  /\ Firsts(s, k - 1) \union Lasts(s, k) = ToSet(s)
         /\ k > 1 => Firsts(s, k - 2) \union Lasts(s, k) \union {s[k - 1]} = ToSet(s)
         /\ k <= Len(s) => Firsts(s, k - 1) \union Lasts(s, k + 1) \union {s[k]} = ToSet(s)
         /\ k > 1 /\ k <= Len(s) =>
              Firsts(s, k - 2) \union Lasts(s, k + 1) \union {s[k - 1], s[k]} = ToSet(s)
<1>1. DOMAIN s = 1 .. Len(s) /\ Len(s) \in Nat
  OBVIOUS
<1>2. ASSUME NEW x
      PROVE  /\ x \in ToSet(s) <=> \E i \in 1 .. Len(s) : s[i] = x
             /\ \A a : x \in Firsts(s, a) <=> \E i \in 1 .. a : s[i] = x
             /\ \A b : x \in Lasts(s, b) <=> \E i \in b .. Len(s) : s[i] = x
  BY <1>1 DEF ToSet, Firsts, Lasts
<1>3. Firsts(s, k - 1) \union Lasts(s, k) = ToSet(s)
  <2>1. \A i \in 1 .. Len(s) : i \in 1 .. k - 1 \/ i \in k .. Len(s)
    OBVIOUS
  <2>2. 1 .. k - 1 \subseteq 1 .. Len(s) /\ k .. Len(s) \subseteq 1 .. Len(s)
    OBVIOUS
  <2> QED
    BY <1>1, <2>1, <2>2 DEF ToSet, Firsts, Lasts
<1>4. ASSUME k > 1
      PROVE  Firsts(s, k - 2) \union Lasts(s, k) \union {s[k - 1]} = ToSet(s)
  <2>1. \A i \in 1 .. Len(s) : i \in 1 .. k - 2 \/ i \in k .. Len(s) \/ i = k - 1
    OBVIOUS
  <2>2. 1 .. k - 2 \subseteq 1 .. Len(s) /\ k .. Len(s) \subseteq 1 .. Len(s) /\ k - 1 \in 1 .. Len(s)
    BY <1>4
  <2> QED
    BY <1>1, <2>1, <2>2 DEF ToSet, Firsts, Lasts
<1>5. ASSUME k <= Len(s)
      PROVE  Firsts(s, k - 1) \union Lasts(s, k + 1) \union {s[k]} = ToSet(s)
  <2>1. \A i \in 1 .. Len(s) : i \in 1 .. k - 1 \/ i \in k + 1 .. Len(s) \/ i = k
    OBVIOUS
  <2>2. 1 .. k - 1 \subseteq 1 .. Len(s) /\ k + 1 .. Len(s) \subseteq 1 .. Len(s) /\ k \in 1 .. Len(s)
    BY <1>5
  <2> QED
    BY <1>1, <2>1, <2>2 DEF ToSet, Firsts, Lasts
<1>6. ASSUME k > 1, k <= Len(s)
      PROVE  Firsts(s, k - 2) \union Lasts(s, k + 1) \union {s[k - 1], s[k]} = ToSet(s)
  <2>1. \A i \in 1 .. Len(s) : i \in 1 .. k - 2 \/ i \in k + 1 .. Len(s) \/ i = k \/ i = k - 1
    OBVIOUS
  <2>2. 1 .. k - 2 \subseteq 1 .. Len(s) /\ k + 1 .. Len(s) \subseteq 1 .. Len(s) /\ k \in 1 .. Len(s) /\ k - 1 \in 1 .. Len(s)
    BY <1>6
  <2> QED
    BY <1>1, <2>1, <2>2 DEF ToSet, Firsts, Lasts
<1> QED
  BY <1>3, <1>4, <1>5, <1>6

\* Without repetition, what is left out is not in the rest.
LEMMA LeftOutApart ==
  ASSUME NEW S, Ranged(S), NEW s \in Seq(S), Spaced(s, 1), NEW a \in 0 .. Len(s),
         NEW b \in a + 1 .. Len(s) + 1, NEW i \in a + 1 .. b - 1
  PROVE  s[i] \notin Firsts(s, a) \union Lasts(s, b)
<1>1. Len(s) \in Nat
  OBVIOUS
<1>2. i \in 1 .. Len(s)
  BY <1>1
<1>3. ASSUME NEW j \in 1 .. a
      PROVE  s[j] # s[i]
  <2>1. j \in 1 .. Len(s) /\ j # i
    BY <1>1
  <2> QED
    BY <1>2, <2>1, SpacedApart, 1 \in Nat
<1>4. ASSUME NEW j \in b .. Len(s)
      PROVE  s[j] # s[i]
  <2>1. j \in 1 .. Len(s) /\ j # i
    BY <1>1
  <2> QED
    BY <1>2, <2>1, SpacedApart, 1 \in Nat
<1> QED
  BY <1>3, <1>4 DEF Firsts, Lasts

\* What becomes of a list of holes when range va is pushed.
IsRunOf(r, va, n) == r.start = va /\ r.size = n

IsPushed(u, s, va, n, fresh) ==
  /\ u \in Seq(HoleNodes) /\ Spaced(u, 1) /\ Cover(u) = Cover(s) \union Run(va, n)
  /\ \/ /\ JoinsPrev(s, va) /\ JoinsNext(s, va, n)
        /\ \E p, q \in ToSet(s), x \in HoleNodes :
             /\ q = s[Place(s, va)] /\ p # q /\ x.at = p.at
             /\ ToSet(u) = (ToSet(s) \ {p, q}) \union {x}
     \/ /\ JoinsPrev(s, va) \/ JoinsNext(s, va, n)
        /\ ~(JoinsPrev(s, va) /\ JoinsNext(s, va, n))
        /\ \E p \in ToSet(s), x \in HoleNodes : x.at = p.at /\ ToSet(u) = (ToSet(s) \ {p}) \union {x}
     \/ /\ ~JoinsPrev(s, va) /\ ~JoinsNext(s, va, n)
        /\ ToSet(u) = ToSet(s) \union {fresh}

\* Runs end to end are one.
LEMMA RunsJoin ==
  ASSUME NEW x \in Nat, NEW m \in Nat, NEW n \in Nat
  PROVE  Run(x, m) \union Run(x + m, n) = Run(x, m + n)
BY DEF Run

\* Three runs of pages, end to end, are one.
LEMMA ThreeRunsJoin ==
  ASSUME NEW x \in Nat, NEW m \in Nat, NEW n \in Nat, NEW l \in Nat
  PROVE  Run(x, m) \union Run(x + m, n) \union Run((x + m) + n, l) = Run(x, (m + n) + l)
BY DEF Run

\* A hole that a range joins at its end, at its start, or two at both.
Longer(p, n) == [p EXCEPT !.size = @ + n]
Sooner(q, va, n) == [q EXCEPT !.start = va, !.size = @ + n]
Bridged(p, q, n) == [p EXCEPT !.size = @ + n + q.size]

\* The sizes of three ranges that touch add up.
LEMMA ThreeSums ==
  ASSUME NEW a \in Nat, NEW b \in Nat \ {0}, NEW c \in Nat \ {0}, NEW n \in Nat, NEW va \in Nat,
         NEW d \in Nat, a + b = va, d = va + n
  PROVE  (b + n) + c \in Nat \ {0} /\ a + ((b + n) + c) = d + c
OBVIOUS

\* A hole made longer at its end.
LEMMA JoinedPrev ==
  ASSUME NEW p \in HoleNodes, NEW n \in Nat \ {0}
  PROVE  /\ Longer(p, n) \in HoleNodes /\ Longer(p, n).at = p.at /\ Longer(p, n).start = p.start /\ End(Longer(p, n)) = End(p) + n
         /\ PagesOf(Longer(p, n)) = PagesOf(p) \union Run(End(p), n)
<1> DEFINE x == Longer(p, n)
<1>1. /\ p.start \in Nat /\ p.size \in Nat \ {0} /\ p.at \in Places /\ p.start + p.size = End(p)
      /\ p = [at |-> p.at, start |-> p.start, size |-> p.size]
  BY DEF HoleNodes, End
<1>2. x = [at |-> p.at, start |-> p.start, size |-> p.size + n]
  BY <1>1 DEF Longer
<1> HIDE DEF x
<1>3. x.at = p.at /\ x.start = p.start /\ x.size = p.size + n
  BY <1>2
<1>4. p.size + n \in Nat \ {0} /\ p.start + (p.size + n) = End(p) + n
  BY <1>1
<1>5. x \in HoleNodes
  BY <1>1, <1>2, <1>4 DEF HoleNodes
<1>6. End(x) = End(p) + n
  BY <1>3, <1>4 DEF End
<1>7. Run(p.start, p.size) \union Run(p.start + p.size, n) = Run(p.start, p.size + n)
  BY <1>1, RunsJoin, n \in Nat
<1>8. PagesOf(x) = PagesOf(p) \union Run(End(p), n)
  BY <1>1, <1>3, <1>7 DEF PagesOf
<1> QED
  BY <1>3, <1>5, <1>6, <1>8 DEF x

\* A hole made longer at its start.
LEMMA JoinedNext ==
  ASSUME NEW q \in HoleNodes, NEW va \in Nat, NEW n \in Nat \ {0}, q.start = va + n
  PROVE  /\ Sooner(q, va, n) \in HoleNodes /\ Sooner(q, va, n).at = q.at /\ Sooner(q, va, n).start = va /\ End(Sooner(q, va, n)) = End(q)
         /\ PagesOf(Sooner(q, va, n)) = PagesOf(q) \union Run(va, n)
<1> DEFINE x == Sooner(q, va, n)
<1>1. /\ q.start \in Nat /\ q.size \in Nat \ {0} /\ q.at \in Places
  BY DEF HoleNodes
<1>2. x = [at |-> q.at, start |-> va, size |-> q.size + n]
  BY TwoChanged DEF Sooner
<1> HIDE DEF x
<1>3. x.at = q.at /\ x.start = va /\ x.size = q.size + n
  BY <1>2
<1>4. q.size + n \in Nat \ {0} /\ va + (q.size + n) = q.start + q.size /\ q.size + n = n + q.size
  BY <1>1
<1>5. x \in HoleNodes
  BY <1>1, <1>2, <1>4 DEF HoleNodes
<1>6. End(x) = End(q)
  BY <1>3, <1>4 DEF End
<1>7. Run(va, n) \union Run(va + n, q.size) = Run(va, n + q.size)
  BY <1>1, RunsJoin, n \in Nat
<1>8. PagesOf(x) = PagesOf(q) \union Run(va, n)
  BY <1>3, <1>4, <1>7 DEF PagesOf
<1> QED
  BY <1>3, <1>5, <1>6, <1>8 DEF x

\* Two holes and the range between them made one.
LEMMA JoinedBoth ==
  ASSUME NEW p \in HoleNodes, NEW q \in HoleNodes, NEW va \in Nat, NEW n \in Nat \ {0},
         End(p) = va, q.start = va + n
  PROVE  /\ Bridged(p, q, n) \in HoleNodes /\ Bridged(p, q, n).at = p.at /\ Bridged(p, q, n).start = p.start /\ End(Bridged(p, q, n)) = End(q)
         /\ PagesOf(Bridged(p, q, n)) = PagesOf(p) \union PagesOf(q) \union Run(va, n)
<1> DEFINE x == Bridged(p, q, n)
<1>1. /\ p.start \in Nat /\ p.size \in Nat \ {0} /\ p.at \in Places /\ p.start + p.size = va
      /\ p = [at |-> p.at, start |-> p.start, size |-> p.size]
      /\ q.start \in Nat /\ q.size \in Nat \ {0}
  BY DEF HoleNodes, End
<1>2. x = [at |-> p.at, start |-> p.start, size |-> (p.size + n) + q.size]
  <2>1. ASSUME NEW a, NEW b, NEW c, NEW z, p = [at |-> a, start |-> b, size |-> c]
        PROVE  [p EXCEPT !.size = z] = [at |-> a, start |-> b, size |-> z]
    BY <2>1
  <2> QED
    BY <1>1, <2>1, Zenon DEF Bridged
<1> HIDE DEF x
<1>3. x.at = p.at /\ x.start = p.start /\ x.size = (p.size + n) + q.size
  BY <1>2
<1>4. (p.size + n) + q.size \in Nat \ {0} /\ p.start + ((p.size + n) + q.size) = q.start + q.size
  BY <1>1, ThreeSums, n \in Nat
<1>5. x \in HoleNodes
  BY <1>1, <1>2, <1>4 DEF HoleNodes
<1>6. End(x) = End(q)
  BY <1>3, <1>4 DEF End
<1>7. Run(p.start, p.size) \union Run(p.start + p.size, n) \union Run((p.start + p.size) + n, q.size) =
        Run(p.start, (p.size + n) + q.size)
  BY <1>1, ThreeRunsJoin, n \in Nat
<1>8. PagesOf(x) = PagesOf(p) \union PagesOf(q) \union Run(va, n)
  BY <1>1, <1>3, <1>7 DEF PagesOf
<1> QED
  BY <1>3, <1>5, <1>6, <1>8 DEF x

\* The node e comes after the first a nodes, and before the b-th; the nodes between.
Follows(e, s, a) == \A i \in 1 .. a : End(s[i]) + 1 <= e.start
Precedes(e, s, b) == \A i \in b .. Len(s) : End(e) + 1 <= s[i].start
Between(s, a, b) == {s[i] : i \in a + 1 .. b - 1}

\* Node e takes the place of the nodes of D and covers R too.
StandsFor(s, e, a, b, D, R) ==
  /\ e \in HoleNodes /\ a \in 0 .. Len(s) /\ b \in a + 1 .. Len(s) + 1
  /\ Follows(e, s, a) /\ Precedes(e, s, b)
  /\ Firsts(s, a) \union Lasts(s, b) \union D = ToSet(s)
  /\ D = Between(s, a, b) /\ PagesOf(e) = CoverOf(D) \union R
Took(u, s, e, D, R) ==
  /\ u \in Seq(HoleNodes) /\ Spaced(u, 1) /\ ToSet(u) = (ToSet(s) \ D) \union {e}
  /\ Cover(u) = Cover(s) \union R

\* A list whose nodes between a and b are replaced by one node that stands for them.
LEMMA SplicedCover ==
  ASSUME NEW s \in Seq(HoleNodes), Spaced(s, 1), NEW e, NEW a, NEW b, NEW D, NEW R,
         StandsFor(s, e, a, b, D, R)
  PROVE  Took(Spliced(s, a, b, <<e>>), s, e, D, R)
<1>0. /\ e \in HoleNodes /\ a \in 0 .. Len(s) /\ b \in a + 1 .. Len(s) + 1
      /\ Follows(e, s, a) /\ Precedes(e, s, b)
      /\ Firsts(s, a) \union Lasts(s, b) \union D = ToSet(s)
      /\ D = Between(s, a, b) /\ PagesOf(e) = CoverOf(D) \union R
  BY DEF StandsFor
<1> DEFINE u == Spliced(s, a, b, <<e>>)
           A == Firsts(s, a) \union Lasts(s, b)
<1>1. u \in Seq(HoleNodes) /\ Spaced(u, 1) /\ ToSet(u) = A \union {e}
  <2>1. \A i \in 1 .. a : End(s[i]) + 1 <= e.start
    BY <1>0 DEF Follows
  <2>2. \A i \in b .. Len(s) : End(e) + 1 <= s[i].start
    BY <1>0 DEF Precedes
  <2> QED
    BY <1>0, <2>1, <2>2, OneSpliced, NodesRanged, 1 \in Nat
<1>2. A \cap D = {}
  BY <1>0, LeftOutApart, NodesRanged DEF Between
<1>3. A = ToSet(s) \ D
  BY <1>0, <1>2
<1> HIDE DEF u, A
<1>4. Cover(u) = CoverOf(A) \union PagesOf(e)
  <2>1. CoverOf({e}) = PagesOf(e)
    BY DEF CoverOf
  <2>2. Cover(u) = CoverOf(A \union {e})
    BY <1>1, CoverIs
  <2>3. CoverOf(A \union {e}) = CoverOf(A) \union CoverOf({e})
    BY CoverSplits
  <2> QED
    BY <2>1, <2>2, <2>3
<1>5. Cover(s) = CoverOf(A) \union CoverOf(D)
  <2>1. ToSet(s) = A \union D
    BY <1>0 DEF A
  <2> QED
    BY <2>1, CoverIs, CoverSplits
<1> QED
  BY <1>0, <1>1, <1>3, <1>4, <1>5 DEF u, Took

\* push_fva: the list covers the range too, and its nodes stay where they are.
LEMMA PushedFacts ==
  ASSUME NEW s \in Seq(HoleNodes), Spaced(s, 1), NEW va \in Nat, NEW n \in Nat \ {0},
         Run(va, n) \cap Cover(s) = {}, NEW fresh \in HoleNodes, IsRunOf(fresh, va, n)
  PROVE  IsPushed(Pushed(s, va, n, fresh), s, va, n, fresh)
<1> DEFINE k == Place(s, va)
           L == Len(s)
           u == Pushed(s, va, n, fresh)
<1>1. /\ k \in 1 .. L + 1 /\ L \in Nat /\ DOMAIN s = 1 .. L
      /\ \A i \in 1 .. k - 1 : End(s[i]) <= va /\ s[i].start < va
      /\ \A i \in k .. L : va + n <= s[i].start
  <2>1. L \in Nat /\ DOMAIN s = 1 .. L
    OBVIOUS
  <2>2. /\ k \in 1 .. L + 1 /\ \A i \in 1 .. k - 1 : s[i].start < va
    BY PlaceFacts, NodesRanged, 1 \in Nat
  <2>3. /\ \A i \in 1 .. k - 1 : End(s[i]) <= va
        /\ \A i \in k .. L : va + n <= s[i].start
    BY GapFacts, NodesRanged, 1 \in Nat
  <2> QED
    BY <2>1, <2>2, <2>3
<1>2. \A i \in 1 .. L : /\ s[i] \in HoleNodes /\ s[i].start \in Nat /\ s[i].size \in Nat \ {0}
                        /\ End(s[i]) \in Nat /\ End(s[i]) = s[i].start + s[i].size
  <2>1. \A i \in 1 .. L : s[i] \in HoleNodes
    OBVIOUS
  <2>2. \A i \in 1 .. L : s[i].start \in Nat /\ s[i].size \in Nat \ {0}
    BY <2>1 DEF HoleNodes
  <2>3. \A i \in 1 .. L : End(s[i]) = s[i].start + s[i].size
    BY DEF End
  <2> QED
    BY <2>1, <2>2, <2>3
<1>3. \A i, j \in 1 .. L : i < j => End(s[i]) + 1 <= s[j].start
  BY DEF Spaced
<1> DEFINE jp == JoinsPrev(s, va)
           jn == JoinsNext(s, va, n)
<1>4. /\ jp <=> k > 1 /\ End(s[k - 1]) = va
      /\ jn <=> k <= L /\ s[k].start = va + n
  BY DEF JoinsPrev, JoinsNext
<1>19. /\ jp /\ jn => u = ReplaceNodes(s, k - 1, k, <<Bridged(s[k - 1], s[k], n)>>)
       /\ jp /\ ~jn => u = ReplaceNode(s, k - 1, <<Longer(s[k - 1], n)>>)
       /\ ~jp /\ jn => u = ReplaceNode(s, k, <<Sooner(s[k], va, n)>>)
       /\ ~jp /\ ~jn => u = InsertAt(s, k, fresh)
  BY DEF Pushed, Bridged, Longer, Sooner
<1>20. s[k] = s[Place(s, va)]
  OBVIOUS
<1> HIDE DEF k, L, u
<1>5. \A i \in 1 .. k - 1 : i = k - 1 \/ End(s[i]) + 1 <= va
  <2> SUFFICES ASSUME NEW i \in 1 .. k - 1, i # k - 1
               PROVE  End(s[i]) + 1 <= va
    OBVIOUS
  <2>1. i \in 1 .. L /\ k - 1 \in 1 .. L /\ k - 1 \in 1 .. k - 1 /\ i < k - 1
    BY <1>1
  <2>2. End(s[i]) + 1 <= s[k - 1].start /\ s[k - 1].start < va
    BY <1>1, <1>3, <2>1
  <2>3. End(s[i]) \in Nat /\ s[k - 1].start \in Nat
    BY <1>2, <2>1
  <2> QED
    BY <2>2, <2>3
<1>6. \A i \in k .. L : i = k \/ (va + n) + 1 <= s[i].start
  <2> SUFFICES ASSUME NEW i \in k .. L, i # k
               PROVE  (va + n) + 1 <= s[i].start
    OBVIOUS
  <2>1. i \in 1 .. L /\ k \in 1 .. L /\ k \in k .. L /\ k < i
    BY <1>1
  <2>2. End(s[k]) + 1 <= s[i].start /\ va + n <= s[k].start
    BY <1>1, <1>3, <2>1
  <2>3. End(s[k]) = s[k].start + s[k].size /\ s[k].start \in Nat /\ s[k].size \in Nat /\ s[i].start \in Nat
    BY <1>2, <2>1
  <2> QED
    BY SMTT(30), <2>2, <2>3
<1>7. /\ ~jp => \A i \in 1 .. k - 1 : End(s[i]) + 1 <= va
      /\ ~jn => \A i \in k .. L : (va + n) + 1 <= s[i].start
  <2>1. ASSUME ~jp, NEW i \in 1 .. k - 1
        PROVE  End(s[i]) + 1 <= va
    <3>1. i \in 1 .. L /\ k > 1 /\ End(s[i]) <= va
      BY <1>1
    <3>2. i = k - 1 => End(s[i]) # va
      BY <1>4, <2>1, <3>1
    <3> QED
      BY <1>2, <1>5, <3>1, <3>2
  <2>2. ASSUME ~jn, NEW i \in k .. L
        PROVE  (va + n) + 1 <= s[i].start
    <3>1. i \in 1 .. L /\ k <= L /\ va + n <= s[i].start
      BY <1>1
    <3>2. i = k => s[i].start # va + n
      BY <1>4, <2>2, <3>1
    <3> QED
      BY <1>2, <1>6, <3>1, <3>2
  <2> QED
    BY <2>1, <2>2
<1>8. /\ jp => \A i \in 1 .. k - 2 : End(s[i]) + 1 <= s[k - 1].start
      /\ jn => \A i \in k + 1 .. L : End(s[k]) + 1 <= s[i].start
  <2>1. ASSUME jp, NEW i \in 1 .. k - 2
        PROVE  End(s[i]) + 1 <= s[k - 1].start
    <3>1. i \in 1 .. L /\ k - 1 \in 1 .. L /\ i < k - 1
      BY <1>1
    <3> QED
      BY <1>3, <3>1
  <2>2. ASSUME jn, NEW i \in k + 1 .. L
        PROVE  End(s[k]) + 1 <= s[i].start
    <3>1. i \in 1 .. L /\ k \in 1 .. L /\ k < i
      BY <1>1
    <3> QED
      BY <1>3, <3>1
  <2> QED
    BY <2>1, <2>2
<1>9. ASSUME NEW e, NEW a, NEW b, NEW D, StandsFor(s, e, a, b, D, Run(va, n)), u = Spliced(s, a, b, <<e>>)
      PROVE  Took(u, s, e, D, Run(va, n))
  BY <1>9, SplicedCover, Zenon
<1>10. /\ Firsts(s, k - 1) \union Lasts(s, k) = ToSet(s)
       /\ k > 1 => Firsts(s, k - 2) \union Lasts(s, k) \union {s[k - 1]} = ToSet(s)
       /\ k <= L => Firsts(s, k - 1) \union Lasts(s, k + 1) \union {s[k]} = ToSet(s)
       /\ k > 1 /\ k <= L =>
            Firsts(s, k - 2) \union Lasts(s, k + 1) \union {s[k - 1], s[k]} = ToSet(s)
  BY <1>1, LeftOut DEF L
<1>11. CASE jp /\ jn
  <2> DEFINE x == Bridged(s[k - 1], s[k], n)
  <2>1. k - 1 \in 1 .. L /\ k \in 1 .. L /\ End(s[k - 1]) = va /\ s[k].start = va + n /\ k > 1 /\ k <= L
    BY <1>1, <1>4, <1>11
  <2>2. /\ x \in HoleNodes /\ x.at = s[k - 1].at /\ x.start = s[k - 1].start /\ End(x) = End(s[k])
        /\ PagesOf(x) = PagesOf(s[k - 1]) \union PagesOf(s[k]) \union Run(va, n)
    BY <1>2, <2>1, JoinedBoth
  <2> HIDE DEF x
  <2>3. u = Spliced(s, k - 2, k + 1, <<x>>)
    <3>1. (k - 1) - 1 = k - 2
      BY <1>1
    <3> QED
      BY <1>11, <1>19, <3>1 DEF ReplaceNodes, Spliced, x
  <2>4. k - 2 \in 0 .. Len(s) /\ k + 1 \in (k - 2) + 1 .. Len(s) + 1
    BY <1>1, <2>1 DEF L
  <2>5. {s[k - 1], s[k]} = Between(s, k - 2, k + 1)
    <3>1. (k - 2) + 1 .. (k + 1) - 1 = {k - 1, k}
      BY <1>1
    <3> QED
      BY <3>1 DEF Between
  <2>6. CoverOf({s[k - 1], s[k]}) = PagesOf(s[k - 1]) \union PagesOf(s[k])
    BY DEF CoverOf
  <2>7. PagesOf(x) = CoverOf({s[k - 1], s[k]}) \union Run(va, n)
    BY <2>2, <2>6
  <2>8. Follows(x, s, k - 2) /\ Precedes(x, s, k + 1)
    BY <1>8, <1>11, <2>2 DEF Follows, Precedes, L
  <2>9. Firsts(s, k - 2) \union Lasts(s, k + 1) \union {s[k - 1], s[k]} = ToSet(s)
    BY <1>10, <2>1
  <2>10a. StandsFor(s, x, k - 2, k + 1, {s[k - 1], s[k]}, Run(va, n))
    BY <2>2, <2>3, <2>4, <2>5, <2>7, <2>8, <2>9 DEF StandsFor
  <2>10b. Took(u, s, x, {s[k - 1], s[k]}, Run(va, n))
    BY <1>9, <2>10a, <2>3, Zenon
  <2>10. /\ u \in Seq(HoleNodes) /\ Spaced(u, 1) /\ ToSet(u) = (ToSet(s) \ {s[k - 1], s[k]}) \union {x}
         /\ Cover(u) = Cover(s) \union Run(va, n)
    BY <2>10b DEF Took
  <2>11. s[k - 1] # s[k] /\ s[k - 1] \in ToSet(s) /\ s[k] \in ToSet(s)
    <3>1. s[k - 1] # s[k]
      BY <1>1, <1>2, <1>3, <2>1
    <3> QED
      BY <1>1, <2>1, <3>1 DEF ToSet
  <2>12. \E p, q \in ToSet(s), y \in HoleNodes :
             /\ q = s[Place(s, va)] /\ p # q /\ y.at = p.at
             /\ ToSet(u) = (ToSet(s) \ {p, q}) \union {y}
    BY <1>20, <2>2, <2>10, <2>11
  <2> QED
    BY <1>11, <2>10, <2>12 DEF IsPushed, u
<1>12. CASE jp /\ ~jn
  <2> DEFINE x == Longer(s[k - 1], n)
  <2>1. k - 1 \in 1 .. L /\ End(s[k - 1]) = va /\ k > 1
    BY <1>1, <1>4, <1>12
  <2>2. /\ x \in HoleNodes /\ x.at = s[k - 1].at /\ x.start = s[k - 1].start /\ End(x) = va + n
        /\ PagesOf(x) = PagesOf(s[k - 1]) \union Run(va, n)
    <3>1. s[k - 1] \in HoleNodes
      BY <1>2, <2>1
    <3> QED
      BY <2>1, <3>1, JoinedPrev
  <2> DEFINE D == {s[k - 1]}
  <2> HIDE DEF x
  <2>3. u = Spliced(s, k - 2, k, <<x>>)
    <3>1. (k - 1) - 1 = k - 2 /\ (k - 1) + 1 = k
      BY <1>1
    <3> QED
      BY <1>12, <1>19, <3>1 DEF ReplaceNode, ReplaceNodes, Spliced, x
  <2>4. k - 2 \in 0 .. Len(s) /\ k \in (k - 2) + 1 .. Len(s) + 1
    BY <1>1, <2>1 DEF L
  <2>5. D = Between(s, k - 2, k)
    <3>1. (k - 2) + 1 .. k - 1 = {k - 1}
      BY <1>1
    <3> QED
      BY <3>1 DEF Between
  <2>6. CoverOf(D) = PagesOf(s[k - 1])
    BY DEF CoverOf
  <2>7. PagesOf(x) = CoverOf(D) \union Run(va, n)
    BY <2>2, <2>6
  <2>8. Follows(x, s, k - 2) /\ Precedes(x, s, k)
    BY <1>7, <1>8, <1>12, <2>2 DEF Follows, Precedes, L
  <2>9. Firsts(s, k - 2) \union Lasts(s, k) \union D = ToSet(s)
    BY <1>10, <2>1
  <2> HIDE DEF D
  <2>10a. StandsFor(s, x, k - 2, k, D, Run(va, n))
    BY <2>2, <2>3, <2>4, <2>5, <2>7, <2>8, <2>9 DEF StandsFor
  <2>10b. Took(u, s, x, D, Run(va, n))
    BY <1>9, <2>10a, <2>3, Zenon
  <2>10. /\ u \in Seq(HoleNodes) /\ Spaced(u, 1) /\ ToSet(u) = (ToSet(s) \ D) \union {x}
         /\ Cover(u) = Cover(s) \union Run(va, n)
    BY <2>10b DEF Took
  <2>11. s[k - 1] \in ToSet(s)
    BY <1>1, <2>1 DEF ToSet
  <2>12. \E p \in ToSet(s), y \in HoleNodes : y.at = p.at /\ ToSet(u) = (ToSet(s) \ {p}) \union {y}
    BY <2>2, <2>10, <2>11 DEF D
  <2> QED
    BY <1>12, <2>10, <2>12 DEF IsPushed, u
<1>13. CASE ~jp /\ jn
  <2> DEFINE x == Sooner(s[k], va, n)
  <2>1. k \in 1 .. L /\ s[k].start = va + n /\ k <= L
    BY <1>1, <1>4, <1>13
  <2>2. /\ x \in HoleNodes /\ x.at = s[k].at /\ x.start = va /\ End(x) = End(s[k])
        /\ PagesOf(x) = PagesOf(s[k]) \union Run(va, n)
    BY <1>2, <2>1, JoinedNext
  <2> DEFINE D == {s[k]}
  <2> HIDE DEF x
  <2>3. u = Spliced(s, k - 1, k + 1, <<x>>)
    BY <1>13, <1>19 DEF ReplaceNode, ReplaceNodes, Spliced, x
  <2>4. k - 1 \in 0 .. Len(s) /\ k + 1 \in (k - 1) + 1 .. Len(s) + 1
    BY <1>1, <2>1 DEF L
  <2>5. D = Between(s, k - 1, k + 1)
    <3>1. (k - 1) + 1 .. (k + 1) - 1 = {k}
      BY <1>1
    <3> QED
      BY <3>1 DEF Between
  <2>6. CoverOf(D) = PagesOf(s[k])
    BY DEF CoverOf
  <2>7. PagesOf(x) = CoverOf(D) \union Run(va, n)
    BY <2>2, <2>6
  <2>8. Follows(x, s, k - 1) /\ Precedes(x, s, k + 1)
    BY <1>7, <1>8, <1>13, <2>2 DEF Follows, Precedes, L
  <2>9. Firsts(s, k - 1) \union Lasts(s, k + 1) \union D = ToSet(s)
    BY <1>10, <2>1
  <2> HIDE DEF D
  <2>10a. StandsFor(s, x, k - 1, k + 1, D, Run(va, n))
    BY <2>2, <2>3, <2>4, <2>5, <2>7, <2>8, <2>9 DEF StandsFor
  <2>10b. Took(u, s, x, D, Run(va, n))
    BY <1>9, <2>10a, <2>3, Zenon
  <2>10. /\ u \in Seq(HoleNodes) /\ Spaced(u, 1) /\ ToSet(u) = (ToSet(s) \ D) \union {x}
         /\ Cover(u) = Cover(s) \union Run(va, n)
    BY <2>10b DEF Took
  <2>11. s[k] \in ToSet(s)
    BY <1>1, <2>1 DEF ToSet
  <2>12. \E p \in ToSet(s), y \in HoleNodes : y.at = p.at /\ ToSet(u) = (ToSet(s) \ {p}) \union {y}
    BY <2>2, <2>10, <2>11 DEF D
  <2> QED
    BY <1>13, <2>10, <2>12 DEF IsPushed, u
<1>14. CASE ~jp /\ ~jn
  <2>1. End(fresh) = va + n /\ PagesOf(fresh) = CoverOf({}) \union Run(va, n)
    BY DEF End, PagesOf, CoverOf, IsRunOf
  <2>2. u = Spliced(s, k - 1, k, <<fresh>>)
    BY <1>14, <1>19 DEF InsertAt, Spliced
  <2>3. k - 1 \in 0 .. Len(s) /\ k \in (k - 1) + 1 .. Len(s) + 1
    BY <1>1 DEF L
  <2>4. {} = Between(s, k - 1, k)
    <3>1. (k - 1) + 1 .. k - 1 = {}
      BY <1>1
    <3> QED
      BY <3>1 DEF Between
  <2>5. Follows(fresh, s, k - 1) /\ Precedes(fresh, s, k)
    BY <1>7, <1>14, <2>1 DEF Follows, Precedes, L, IsRunOf
  <2>6. Firsts(s, k - 1) \union Lasts(s, k) \union {} = ToSet(s)
    BY <1>10
  <2>7a. StandsFor(s, fresh, k - 1, k, {}, Run(va, n))
    BY <2>1, <2>2, <2>3, <2>4, <2>5, <2>6 DEF StandsFor
  <2>7b. Took(u, s, fresh, {}, Run(va, n))
    BY <1>9, <2>7a, <2>2, Zenon
  <2>7. /\ u \in Seq(HoleNodes) /\ Spaced(u, 1) /\ ToSet(u) = (ToSet(s) \ {}) \union {fresh}
        /\ Cover(u) = Cover(s) \union Run(va, n)
    BY <2>7b DEF Took
  <2> QED
    BY <1>14, <2>7 DEF IsPushed, u
<1> QED
  BY <1>11, <1>12, <1>13, <1>14

-----------------------------------------------------------------------------
(* What a stack of operations says, entry by entry. *)

\* The entries of one stack put on another.
LEMMA CatEntries ==
  ASSUME NEW a \in Seq(Ops), NEW b \in Seq(Ops)
  PROVE  /\ a \o b \in Seq(Ops) /\ Len(a \o b) = Len(a) + Len(b)
         /\ \A i \in 1 .. Len(a) : i \in 1 .. Len(a \o b) /\ (a \o b)[i] = a[i]
         /\ \A i \in 1 .. Len(b) : Len(a) + i \in 1 .. Len(a \o b) /\ (a \o b)[Len(a) + i] = b[i]
         /\ \A i \in 1 .. Len(a \o b) : i \in 1 .. Len(a) \/ (i > Len(a) /\ i - Len(a) \in 1 .. Len(b)
                                                           /\ (a \o b)[i] = b[i - Len(a)])
<1>1. Len(a) \in Nat /\ Len(b) \in Nat /\ a \o b \in Seq(Ops) /\ Len(a \o b) = Len(a) + Len(b)
  OBVIOUS
<1>2. \A i \in 1 .. Len(a) : i \in 1 .. Len(a \o b) /\ (a \o b)[i] = a[i]
  BY <1>1
<1>3. ASSUME NEW i \in 1 .. Len(b)
      PROVE  Len(a) + i \in 1 .. Len(a \o b) /\ (a \o b)[Len(a) + i] = b[i]
  <2>1. Len(a) + i \in 1 .. Len(a) + Len(b) /\ Len(a) + i > Len(a) /\ (Len(a) + i) - Len(a) = i
    BY <1>1
  <2>2. (a \o b)[Len(a) + i] = b[(Len(a) + i) - Len(a)]
    BY <1>1, <2>1
  <2> QED
    BY <1>1, <2>1, <2>2
<1>4. ASSUME NEW i \in 1 .. Len(a \o b)
      PROVE  i \in 1 .. Len(a) \/ (i > Len(a) /\ i - Len(a) \in 1 .. Len(b) /\ (a \o b)[i] = b[i - Len(a)])
  BY <1>1
<1> QED
  BY <1>1, <1>2, <1>3, <1>4

IsCat(c, a, b, S) ==
  /\ Len(a) \in Nat /\ Len(b) \in Nat
  /\ \A i \in At(a, S) : i \in At(c, S) /\ c[i] = a[i] /\ i \in 1 .. Len(a)
  /\ \A i \in At(b, S) : Len(a) + i \in At(c, S) /\ c[Len(a) + i] = b[i] /\ i \in 1 .. Len(b)
  /\ \A i \in At(c, S) : /\ i \in Nat
                         /\ \/ i \in At(a, S) /\ c[i] = a[i]
                            \/ i > Len(a) /\ i - Len(a) \in At(b, S) /\ c[i] = b[i - Len(a)]

\* Which entries of a joined stack are in a set.
LEMMA CatAt ==
  ASSUME NEW a \in Seq(Ops), NEW b \in Seq(Ops), NEW S
  PROVE  IsCat(a \o b, a, b, S)
<1>1. DOMAIN a = 1 .. Len(a) /\ DOMAIN b = 1 .. Len(b) /\ DOMAIN (a \o b) = 1 .. Len(a \o b)
  OBVIOUS
<1>2. \A i \in 1 .. Len(a \o b) : i \in Nat
  OBVIOUS
<1>3. Len(a) \in Nat /\ Len(b) \in Nat
  OBVIOUS
<1> QED
  BY <1>1, <1>2, <1>3, CatEntries DEF At, IsCat

\* What those entries say.
LEMMA CatVals ==
  ASSUME NEW a \in Seq(Ops), NEW b \in Seq(Ops), NEW S, NEW f
  PROVE  Vals(a \o b, S, f) = Vals(a, S, f) \union Vals(b, S, f)
<1> DEFINE c == a \o b
           L == Len(a)
<1>0. \A z : Vals(z, S, f) = {f[z[i]] : i \in At(z, S)}
  BY DEF Vals
<1>9. IsCat(c, a, b, S)
  BY CatAt
<1> HIDE DEF c
<1>1. ASSUME NEW i \in At(c, S)
      PROVE  f[c[i]] \in Vals(a, S, f) \union Vals(b, S, f)
  <2>1. (i \in At(a, S) /\ c[i] = a[i]) \/ (i - L \in At(b, S) /\ c[i] = b[i - L])
    BY <1>9 DEF IsCat
  <2> QED
    BY <1>0, <2>1
<1>2. ASSUME NEW i \in At(a, S)
      PROVE  f[a[i]] \in Vals(c, S, f)
  <2>1. i \in At(c, S) /\ c[i] = a[i]
    BY <1>9 DEF IsCat
  <2> QED
    BY <1>0, <2>1
<1>3. ASSUME NEW i \in At(b, S)
      PROVE  f[b[i]] \in Vals(c, S, f)
  <2>1. L + i \in At(c, S) /\ c[L + i] = b[i]
    BY <1>9 DEF IsCat
  <2> QED
    BY <1>0, <2>1
<1> QED
  <2>1. Vals(c, S, f) \subseteq Vals(a, S, f) \union Vals(b, S, f)
    BY <1>0, <1>1
  <2>2. Vals(a, S, f) \subseteq Vals(c, S, f)
    BY <1>0, <1>2
  <2>3. Vals(b, S, f) \subseteq Vals(c, S, f)
    BY <1>0, <1>3
  <2> QED
    BY <2>1, <2>2, <2>3 DEF c

\* The pages they are about.
LEMMA CatPages ==
  ASSUME NEW a \in Seq(Ops), NEW b \in Seq(Ops), NEW S
  PROVE  PagesIn(a \o b, S) = PagesIn(a, S) \union PagesIn(b, S)
<1> DEFINE c == a \o b
           L == Len(a)
           P(o) == Run(o.va, o.n)
<1>0. \A z, v : v \in PagesIn(z, S) <=> \E i \in At(z, S) : v \in P(z[i])
  BY DEF PagesIn
<1>9. IsCat(c, a, b, S)
  BY CatAt
<1> HIDE DEF P, c
<1>1. ASSUME NEW i \in At(c, S)
      PROVE  (\E j \in At(a, S) : c[i] = a[j]) \/ (\E j \in At(b, S) : c[i] = b[j])
  BY <1>9 DEF IsCat
<1>2. ASSUME NEW i \in At(a, S)
      PROVE  \E j \in At(c, S) : c[j] = a[i]
  BY <1>9 DEF IsCat
<1>3. ASSUME NEW i \in At(b, S)
      PROVE  \E j \in At(c, S) : c[j] = b[i]
  BY <1>9 DEF IsCat
<1>4. \A v : v \in PagesIn(c, S) => v \in PagesIn(a, S) \union PagesIn(b, S)
  BY <1>0, <1>1
<1>5. \A v : v \in PagesIn(a, S) \union PagesIn(b, S) => v \in PagesIn(c, S)
  BY <1>0, <1>2, <1>3
<1> QED
  BY <1>4, <1>5 DEF c

\* No two of them say the same exactly when that holds of each part and between the parts.
LEMMA CatOnce ==
  ASSUME NEW a \in Seq(Ops), NEW b \in Seq(Ops), NEW S, NEW f
  PROVE  Once(a \o b, S, f) <=>
           Once(a, S, f) /\ Once(b, S, f) /\ Vals(a, S, f) \cap Vals(b, S, f) = {}
<1> DEFINE c == a \o b
           L == Len(a)
<1>1. /\ \A i \in At(a, S) : i \in At(c, S) /\ c[i] = a[i] /\ i \in 1 .. L
      /\ \A i \in At(b, S) : L + i \in At(c, S) /\ c[L + i] = b[i] /\ i \in 1 .. Len(b)
      /\ \A i \in At(c, S) :
              \/ i \in At(a, S) /\ c[i] = a[i]
              \/ i > L /\ i - L \in At(b, S) /\ c[i] = b[i - L]
      /\ \A i \in At(c, S) : i \in Nat
  <2>1. IsCat(c, a, b, S)
    BY CatAt
  <2> HIDE DEF c
  <2> QED
    BY <2>1 DEF IsCat
<1>2. L \in Nat /\ Len(b) \in Nat
  OBVIOUS
<1> HIDE DEF c, L
<1>3. ASSUME Once(c, S, f)
      PROVE  Once(a, S, f) /\ Once(b, S, f) /\ Vals(a, S, f) \cap Vals(b, S, f) = {}
  <2>1. ASSUME NEW i \in At(a, S), NEW j \in At(a, S), f[a[i]] = f[a[j]]
        PROVE  i = j
    BY <1>1, <1>3, <2>1 DEF Once
  <2>2. ASSUME NEW i \in At(b, S), NEW j \in At(b, S), f[b[i]] = f[b[j]]
        PROVE  i = j
    <3>1. L + i \in At(c, S) /\ L + j \in At(c, S) /\ f[c[L + i]] = f[c[L + j]] /\ i \in Nat /\ j \in Nat
      BY <1>1, <2>2
    <3>2. L + i = L + j
      BY <1>3, <3>1 DEF Once
    <3> QED
      BY <1>2, <3>1, <3>2
  <2>3. ASSUME NEW i \in At(a, S), NEW j \in At(b, S), f[a[i]] = f[b[j]]
        PROVE  FALSE
    <3>1. i \in At(c, S) /\ L + j \in At(c, S) /\ f[c[i]] = f[c[L + j]] /\ i \in 1 .. L /\ j \in 1 .. Len(b)
      BY <1>1, <2>3
    <3>2. i = L + j
      BY <1>3, <3>1 DEF Once
    <3> QED
      BY <1>2, <3>1, <3>2
  <2> QED
    BY <2>1, <2>2, <2>3 DEF Once, Vals
<1>4. ASSUME Once(a, S, f), Once(b, S, f), Vals(a, S, f) \cap Vals(b, S, f) = {}
      PROVE  Once(c, S, f)
  <2> SUFFICES ASSUME NEW i \in At(c, S), NEW j \in At(c, S), f[c[i]] = f[c[j]]
               PROVE  i = j
    BY DEF Once
  <2>1. ASSUME NEW x \in At(a, S), NEW y \in At(b, S)
        PROVE  f[a[x]] # f[b[y]]
    BY <1>4 DEF Vals
  <2>2. CASE i \in At(a, S) /\ j \in At(a, S)
    BY <1>1, <1>4, <2>2 DEF Once
  <2>3. CASE i \notin At(a, S) /\ j \notin At(a, S)
    <3>1. /\ i - L \in At(b, S) /\ j - L \in At(b, S) /\ f[b[i - L]] = f[b[j - L]] /\ i \in Nat /\ j \in Nat
      BY <1>1, <2>3
    <3>2. i - L = j - L
      BY <1>4, <3>1 DEF Once
    <3> QED
      BY <1>2, <3>1, <3>2
  <2>4. CASE i \in At(a, S) /\ j \notin At(a, S)
    BY <1>1, <2>1, <2>4
  <2>5. CASE i \notin At(a, S) /\ j \in At(a, S)
    BY <1>1, <2>1, <2>5
  <2> QED
    BY <2>2, <2>3, <2>4, <2>5
<1> QED
  BY <1>3, <1>4 DEF c

\* No two of them are about one page, in the same way.
LEMMA CatPagesApart ==
  ASSUME NEW a \in Seq(Ops), NEW b \in Seq(Ops), NEW S
  PROVE  PagesApart(a \o b, S) <=>
           PagesApart(a, S) /\ PagesApart(b, S) /\ PagesIn(a, S) \cap PagesIn(b, S) = {}
<1> DEFINE c == a \o b
           L == Len(a)
           P(o) == Run(o.va, o.n)
<1>1. /\ \A i \in At(a, S) : i \in At(c, S) /\ c[i] = a[i] /\ i \in 1 .. L
      /\ \A i \in At(b, S) : L + i \in At(c, S) /\ c[L + i] = b[i] /\ i \in 1 .. Len(b)
      /\ \A i \in At(c, S) :
              \/ i \in At(a, S) /\ c[i] = a[i]
              \/ i > L /\ i - L \in At(b, S) /\ c[i] = b[i - L]
      /\ \A i \in At(c, S) : i \in Nat
  <2>1. IsCat(c, a, b, S)
    BY CatAt
  <2> HIDE DEF c
  <2> QED
    BY <2>1 DEF IsCat
<1>2. L \in Nat /\ Len(b) \in Nat
  OBVIOUS
<1>0. \A z : PagesApart(z, S) <=> \A i, j \in At(z, S) : i # j => P(z[i]) \cap P(z[j]) = {}
  BY DEF PagesApart
<1>01. \A z, v : v \in PagesIn(z, S) <=> \E i \in At(z, S) : v \in P(z[i])
  BY DEF PagesIn
<1> HIDE DEF c, L, P
<1>3. ASSUME PagesApart(c, S)
      PROVE  PagesApart(a, S) /\ PagesApart(b, S) /\ PagesIn(a, S) \cap PagesIn(b, S) = {}
  <2>1. ASSUME NEW i \in At(a, S), NEW j \in At(a, S), i # j
        PROVE  P(a[i]) \cap P(a[j]) = {}
    BY <1>0, <1>1, <1>3, <2>1
  <2>2. ASSUME NEW i \in At(b, S), NEW j \in At(b, S), i # j
        PROVE  P(b[i]) \cap P(b[j]) = {}
    <3>1. L + i \in At(c, S) /\ L + j \in At(c, S) /\ c[L + i] = b[i] /\ c[L + j] = b[j] /\ L + i # L + j
      BY <1>1, <1>2, <2>2
    <3> QED
      BY <1>0, <1>3, <3>1
  <2>3. ASSUME NEW i \in At(a, S), NEW j \in At(b, S)
        PROVE  P(a[i]) \cap P(b[j]) = {}
    <3>1. i \in At(c, S) /\ L + j \in At(c, S) /\ c[i] = a[i] /\ c[L + j] = b[j] /\ i # L + j
      BY <1>1, <1>2
    <3> QED
      BY <1>0, <1>3, <3>1
  <2> QED
    BY <1>0, <1>01, <2>1, <2>2, <2>3
<1>4. ASSUME PagesApart(a, S), PagesApart(b, S), PagesIn(a, S) \cap PagesIn(b, S) = {}
      PROVE  PagesApart(c, S)
  <2> SUFFICES ASSUME NEW i \in At(c, S), NEW j \in At(c, S), i # j
               PROVE  P(c[i]) \cap P(c[j]) = {}
    BY <1>0
  <2>1. ASSUME NEW x \in At(a, S), NEW y \in At(b, S)
        PROVE  P(a[x]) \cap P(b[y]) = {}
    BY <1>01, <1>4
  <2>2. CASE i \in At(a, S) /\ j \in At(a, S)
    BY <1>0, <1>1, <1>4, <2>2
  <2>3. CASE i \notin At(a, S) /\ j \notin At(a, S)
    <3>1. /\ i - L \in At(b, S) /\ j - L \in At(b, S) /\ c[i] = b[i - L] /\ c[j] = b[j - L] /\ i \in Nat /\ j \in Nat
      BY <1>1, <2>3
    <3>2. i - L # j - L
      BY <1>2, <3>1
    <3> QED
      BY <1>0, <1>4, <3>1, <3>2
  <2>4. CASE i \in At(a, S) /\ j \notin At(a, S)
    BY <1>1, <2>1, <2>4
  <2>5. CASE i \notin At(a, S) /\ j \in At(a, S)
    <3>1. P(a[j]) \cap P(b[i - L]) = {} /\ c[j] = a[j] /\ c[i] = b[i - L]
      BY <1>1, <2>1, <2>5
    <3> QED
      BY <3>1
  <2> QED
    BY <2>2, <2>3, <2>4, <2>5
<1> QED
  BY <1>3, <1>4 DEF c

\* A stack of one entry, and of none.
LEMMA OneEntry ==
  ASSUME NEW o \in Ops, NEW S, NEW f
  PROVE  /\ <<o>> \in Seq(Ops) /\ Once(<<o>>, S, f) /\ PagesApart(<<o>>, S)
         /\ o \in S => At(<<o>>, S) = {1} /\ Vals(<<o>>, S, f) = {f[o]} /\ PagesIn(<<o>>, S) = Run(o.va, o.n)
         /\ o \notin S => At(<<o>>, S) = {} /\ Vals(<<o>>, S, f) = {} /\ PagesIn(<<o>>, S) = {}
<1> DEFINE c == <<o>>
<1>1. c \in Seq(Ops) /\ DOMAIN c = {1} /\ c[1] = o
  OBVIOUS
<1> HIDE DEF c
<1>2. At(c, S) \subseteq {1}
  BY <1>1 DEF At
<1>3. Once(c, S, f) /\ PagesApart(c, S)
  BY <1>2 DEF Once, PagesApart
<1>4. o \in S => At(c, S) = {1}
  BY <1>1 DEF At
<1>5. o \notin S => At(c, S) = {}
  BY <1>1 DEF At
<1>6. o \in S => Vals(c, S, f) = {f[o]} /\ PagesIn(c, S) = Run(o.va, o.n)
  BY <1>1, <1>4 DEF Vals, PagesIn
<1>7. o \notin S => Vals(c, S, f) = {} /\ PagesIn(c, S) = {}
  BY <1>5 DEF Vals, PagesIn
<1> QED
  BY <1>1, <1>3, <1>4, <1>5, <1>6, <1>7 DEF c

\* The empty stack says nothing.
LEMMA NoEntry ==
  ASSUME NEW S, NEW f
  PROVE  /\ <<>> \in Seq(Ops) /\ Once(<<>>, S, f) /\ PagesApart(<<>>, S)
         /\ At(<<>>, S) = {} /\ Vals(<<>>, S, f) = {} /\ PagesIn(<<>>, S) = {}
<1>1. At(<<>>, S) = {}
  BY DEF At
<1> QED
  BY <1>1 DEF Once, PagesApart, Vals, PagesIn

\* A stack is its top entry on the rest.
LEMMA HeadTail ==
  ASSUME NEW e \in Seq(Ops), e # <<>>
  PROVE  /\ Head(e) \in Ops /\ Tail(e) \in Seq(Ops) /\ <<Head(e)>> \in Seq(Ops)
         /\ <<Head(e)>> \o Tail(e) = e /\ Head(e) = e[1]
         /\ Len(e) \in Nat /\ Len(e) >= 1 /\ 1 \in DOMAIN e /\ Len(Tail(e)) = Len(e) - 1
         /\ \A i \in 1 .. Len(Tail(e)) : Tail(e)[i] = e[i + 1] /\ i + 1 \in 1 .. Len(e)
         /\ DOMAIN e = 1 .. Len(e) /\ DOMAIN Tail(e) = 1 .. Len(Tail(e))
<1>1. Head(e) \in Ops /\ Tail(e) \in Seq(Ops) /\ <<Head(e)>> \in Seq(Ops) /\ Head(e) = e[1]
  OBVIOUS
<1>2. Len(e) \in Nat /\ Len(e) >= 1 /\ Len(Tail(e)) = Len(e) - 1 /\ DOMAIN e = 1 .. Len(e)
  OBVIOUS
<1>3. \A i \in 1 .. Len(Tail(e)) : Tail(e)[i] = e[i + 1] /\ i + 1 \in 1 .. Len(e)
  BY <1>2
<1>4. <<Head(e)>> \o Tail(e) = e
  <2> DEFINE c == <<Head(e)>> \o Tail(e)
  <2>1. Len(<<Head(e)>>) = 1 /\ <<Head(e)>>[1] = e[1]
    OBVIOUS
  <2>2. c \in Seq(Ops) /\ Len(c) = 1 + Len(Tail(e))
    BY <1>1
  <2>3. Len(c) = Len(e)
    BY <1>2, <2>2
  <2>4. ASSUME NEW i \in 1 .. Len(e)
        PROVE  c[i] = e[i]
    <3>1. CASE i = 1
      BY <1>1, <1>2, <2>1, <3>1
    <3>2. CASE i # 1
      <4>1. i - 1 \in 1 .. Len(Tail(e)) /\ (i - 1) + 1 = i /\ i > Len(<<Head(e)>>) /\ i - Len(<<Head(e)>>) = i - 1
        BY <1>2, <2>1, <3>2
      <4>2. c[i] = Tail(e)[i - Len(<<Head(e)>>)]
        BY <1>1, <1>2, <2>1, <3>2
      <4> QED
        BY <1>3, <4>1, <4>2
    <3> QED
      BY <3>1, <3>2
  <2> HIDE DEF c
  <2>5. c = e
    BY <2>2, <2>3, <2>4
  <2> QED
    BY <2>5 DEF c
<1> QED
  BY <1>1, <1>2, <1>3, <1>4

\* What a stack says is what its first entry and the rest of it say.
LEMMA Dropped ==
  ASSUME NEW e \in Seq(Ops), e # <<>>, NEW S, NEW f
  PROVE  /\ Head(e) \in S => Vals(e, S, f) = Vals(Tail(e), S, f) \union {f[Head(e)]}
         /\ Head(e) \notin S => Vals(e, S, f) = Vals(Tail(e), S, f)
         /\ Once(e, S, f) => Once(Tail(e), S, f)
         /\ Once(e, S, f) /\ Head(e) \in S => f[Head(e)] \notin Vals(Tail(e), S, f)
<1>1. /\ Head(e) \in Ops /\ Tail(e) \in Seq(Ops) /\ <<Head(e)>> \in Seq(Ops) /\ <<Head(e)>> \o Tail(e) = e
  BY HeadTail
<1>2. Vals(e, S, f) = Vals(<<Head(e)>>, S, f) \union Vals(Tail(e), S, f)
  <2>1. Vals(<<Head(e)>> \o Tail(e), S, f) = Vals(<<Head(e)>>, S, f) \union Vals(Tail(e), S, f)
    <3>1. ASSUME NEW a \in Seq(Ops), NEW b \in Seq(Ops)
          PROVE  Vals(a \o b, S, f) = Vals(a, S, f) \union Vals(b, S, f)
      BY CatVals
    <3> QED
      BY <1>1, <3>1, Zenon
  <2> QED
    BY <1>1, <2>1
<1>3. Once(e, S, f) => Once(Tail(e), S, f) /\ Vals(<<Head(e)>>, S, f) \cap Vals(Tail(e), S, f) = {}
  <2>1. Once(<<Head(e)>> \o Tail(e), S, f) => Once(Tail(e), S, f) /\ Vals(<<Head(e)>>, S, f) \cap Vals(Tail(e), S, f) = {}
    BY <1>1, CatOnce
  <2> QED
    BY <1>1, <2>1
<1>4. /\ Head(e) \in S => Vals(<<Head(e)>>, S, f) = {f[Head(e)]}
      /\ Head(e) \notin S => Vals(<<Head(e)>>, S, f) = {}
  BY <1>1, OneEntry
<1> QED
  BY <1>2, <1>3, <1>4

\* The pages of the entries below the top.
LEMMA DroppedPages ==
  ASSUME NEW e \in Seq(Ops), e # <<>>, NEW S
  PROVE  /\ Head(e) \in S => PagesIn(e, S) = PagesIn(Tail(e), S) \union Run(Head(e).va, Head(e).n)
         /\ Head(e) \notin S => PagesIn(e, S) = PagesIn(Tail(e), S)
         /\ PagesApart(e, S) => PagesApart(Tail(e), S)
         /\ PagesApart(e, S) /\ Head(e) \in S => PagesIn(Tail(e), S) \cap Run(Head(e).va, Head(e).n) = {}
<1>1. /\ Head(e) \in Ops /\ Tail(e) \in Seq(Ops) /\ <<Head(e)>> \in Seq(Ops) /\ <<Head(e)>> \o Tail(e) = e
  BY HeadTail
<1>2. PagesIn(e, S) = PagesIn(<<Head(e)>>, S) \union PagesIn(Tail(e), S)
  <2>1. PagesIn(<<Head(e)>> \o Tail(e), S) = PagesIn(<<Head(e)>>, S) \union PagesIn(Tail(e), S)
    <3>1. ASSUME NEW a \in Seq(Ops), NEW b \in Seq(Ops)
          PROVE  PagesIn(a \o b, S) = PagesIn(a, S) \union PagesIn(b, S)
      BY CatPages
    <3> QED
      BY <1>1, <3>1, Zenon
  <2> QED
    BY <1>1, <2>1
<1>3. PagesApart(e, S) => PagesApart(Tail(e), S) /\ PagesIn(<<Head(e)>>, S) \cap PagesIn(Tail(e), S) = {}
  <2>1. PagesApart(<<Head(e)>> \o Tail(e), S) => PagesApart(Tail(e), S) /\ PagesIn(<<Head(e)>>, S) \cap PagesIn(Tail(e), S) = {}
    BY <1>1, CatPagesApart
  <2> QED
    BY <1>1, <2>1
<1>4. /\ Head(e) \in S => PagesIn(<<Head(e)>>, S) = Run(Head(e).va, Head(e).n)
      /\ Head(e) \notin S => PagesIn(<<Head(e)>>, S) = {}
  BY <1>1, OneEntry
<1> QED
  BY <1>2, <1>3, <1>4

\* Entries that are not there say nothing.
LEMMA Absent ==
  ASSUME NEW e \in Seq(Ops), NEW S, NEW f, \A i \in DOMAIN e : e[i] \notin S
  PROVE  At(e, S) = {} /\ Vals(e, S, f) = {} /\ Once(e, S, f) /\ PagesIn(e, S) = {} /\ PagesApart(e, S)
<1>1. At(e, S) = {}
  BY DEF At
<1> QED
  BY <1>1 DEF Vals, Once, PagesIn, PagesApart

\* An entry for each of an injective list says what the list holds.
LEMMA KnownCat ==
  ASSUME NEW a \in Seq(Ops), NEW b \in Seq(Ops), NEW X, KnownIn(a, X), KnownIn(b, X)
  PROVE  KnownIn(a \o b, X)
<1> DEFINE c == a \o b
<1>1. IsCat(c, a, b, Claims) /\ IsCat(c, a, b, RvaPushes)
  BY CatAt
<1> HIDE DEF c
<1> SUFFICES ASSUME NEW i \in At(c, Claims)
             PROVE  ClaimOf[c[i]] \in X \/ \E j \in At(c, RvaPushes) : j < i /\ c[j].va = ClaimOf[c[i]]
  BY DEF KnownIn, c
<1>2. CASE i \in At(a, Claims)
  <2>1. c[i] = a[i]
    BY <1>1, <1>2 DEF IsCat
  <2>2. CASE ClaimOf[a[i]] \in X
    BY <2>1, <2>2
  <2>3. CASE \E j \in At(a, RvaPushes) : j < i /\ a[j].va = ClaimOf[a[i]]
    BY <1>1, <2>1, <2>3 DEF IsCat
  <2> QED
    BY <1>2, <2>2, <2>3 DEF KnownIn
<1>3. CASE i \notin At(a, Claims)
  <2>1. i - Len(a) \in At(b, Claims) /\ c[i] = b[i - Len(a)] /\ Len(a) \in Nat /\ i \in Nat
    BY <1>1, <1>3 DEF IsCat
  <2>2. CASE ClaimOf[b[i - Len(a)]] \in X
    BY <2>1, <2>2
  <2>3. CASE \E j \in At(b, RvaPushes) : j < i - Len(a) /\ b[j].va = ClaimOf[b[i - Len(a)]]
    <3>1. PICK j \in At(b, RvaPushes) : j < i - Len(a) /\ b[j].va = ClaimOf[b[i - Len(a)]]
      BY <2>3
    <3>2. Len(a) + j \in At(c, RvaPushes) /\ c[Len(a) + j] = b[j] /\ j \in Nat
      BY <1>1 DEF IsCat
    <3>3. Len(a) + j < i
      BY <2>1, <3>1, <3>2
    <3> QED
      BY <2>1, <3>1, <3>2, <3>3
  <2> QED
    BY <2>1, <2>2, <2>3 DEF KnownIn
<1> QED
  BY <1>2, <1>3

\* The claims below the top are still known once the top is executed.
LEMMA KnownTail ==
  ASSUME NEW e \in Seq(Ops), e # <<>>, NEW X, NEW Y, KnownIn(e, X), X \subseteq Y,
         Head(e) \in RvaPushes => Head(e).va \in Y
  PROVE  /\ KnownIn(Tail(e), Y)
         /\ Head(e) \in Claims => ClaimOf[Head(e)] \in X
<1> DEFINE b == Tail(e)
           h == Head(e)
<1>1. h = e[1] /\ h \in Ops /\ b \in Seq(Ops) /\ <<h>> \o b = e /\ <<h>> \in Seq(Ops) /\ 1 \in DOMAIN e
  BY HeadTail
<1>2. IsCat(e, <<h>>, b, Claims) /\ IsCat(e, <<h>>, b, RvaPushes) /\ Len(<<h>>) = 1
  <2>1. IsCat(<<h>> \o b, <<h>>, b, Claims) /\ IsCat(<<h>> \o b, <<h>>, b, RvaPushes)
    BY <1>1, CatAt, Zenon
  <2>2. Len(<<h>>) = 1
    OBVIOUS
  <2> HIDE DEF h, b
  <2> QED
    BY <1>1, <2>1, <2>2
<1> HIDE DEF h, b
<1>3. ASSUME NEW i \in At(b, Claims)
      PROVE  ClaimOf[b[i]] \in Y \/ \E j \in At(b, RvaPushes) : j < i /\ b[j].va = ClaimOf[b[i]]
  <2>1. 1 + i \in At(e, Claims) /\ e[1 + i] = b[i] /\ i \in Nat
    BY <1>2 DEF IsCat
  <2>2. CASE ClaimOf[e[1 + i]] \in X
    BY <2>1, <2>2
  <2>3. CASE \E j \in At(e, RvaPushes) : j < 1 + i /\ e[j].va = ClaimOf[e[1 + i]]
    <3>1. PICK j \in At(e, RvaPushes) : j < 1 + i /\ e[j].va = ClaimOf[e[1 + i]]
      BY <2>3
    <3>2. CASE j = 1
      <4>1. h \in RvaPushes /\ h = e[1]
        BY <1>1, <3>1, <3>2 DEF At
      <4> QED
        BY <2>1, <3>1, <3>2, <4>1 DEF h
    <3>3. CASE j # 1
      <4>1. j \notin At(<<h>>, RvaPushes)
        BY <3>3 DEF At
      <4>2. j - 1 \in At(b, RvaPushes) /\ e[j] = b[j - 1] /\ j \in Nat
        BY <1>2, <4>1 DEF IsCat
      <4>3. j - 1 < i
        BY <2>1, <3>1, <4>2
      <4> QED
        BY <2>1, <3>1, <4>2, <4>3
    <3> QED
      BY <3>2, <3>3
  <2> QED
    BY <2>1, <2>2, <2>3 DEF KnownIn
<1>4. ASSUME h \in Claims
      PROVE  ClaimOf[h] \in X
  <2>1. 1 \in At(e, Claims)
    BY <1>1, <1>4 DEF At
  <2>2. \A j \in At(e, RvaPushes) : j \in Nat /\ ~(j < 1)
    <3>1. \A j \in DOMAIN e : j \in Nat /\ j >= 1
      OBVIOUS
    <3> QED
      BY <3>1 DEF At
  <2> QED
    BY <1>1, <2>1, <2>2 DEF KnownIn
<1> QED
  BY <1>3, <1>4 DEF KnownIn, h, b

\* Starts that nothing on the stack claims may go.
LEMMA KnownWithout ==
  ASSUME NEW e \in Seq(Ops), NEW X, NEW v, KnownIn(e, X), v \notin Claimed(e)
  PROVE  KnownIn(e, X \ {v})
BY DEF KnownIn, Claimed, Vals

\* The claims are still known when more ranges are.
LEMMA KnownMore ==
  ASSUME NEW e \in Seq(Ops), NEW X, NEW Y, KnownIn(e, X), X \subseteq Y
  PROVE  KnownIn(e, Y)
BY DEF KnownIn

-----------------------------------------------------------------------------
(* The shape of a stack. *)

\* An operation is what it was built from.
LEMMA OpIn ==
  ASSUME NEW do \in OpKinds, NEW va \in Int, NEW pa \in Int, NEW n \in Int
  PROVE  /\ Op(do, va, pa, n) \in Ops
         /\ Op(do, va, pa, n).do = do /\ Op(do, va, pa, n).va = va
         /\ Op(do, va, pa, n).pa = pa /\ Op(do, va, pa, n).n = n
         /\ \A D : Op(do, va, pa, n) \in KindOf(D) <=> do \in D
BY DEF Op, Ops, KindOf

\* Membership in a kind of operations.
LEMMA KindIn == \A o \in Ops : \A D : o \in KindOf(D) <=> o.do \in D
BY DEF KindOf

\* The page an operation claims and the slot it frees.
LEMMA ClaimIs ==
  ASSUME NEW o \in Ops
  PROVE  ClaimOf[o] = (IF o.do = "keep" THEN o.pa ELSE o.va) /\ PlaceOf[o] = <<o.va, o.pa>>
BY DEF ClaimOf, PlaceOf

\* An entry of one kind alone says what it says.
LEMMA OnlyAt ==
  ASSUME NEW s \in Seq(Ops), NEW S, NEW f, NEW i \in 1 .. Len(s), At(s, S) = {i}
  PROVE  /\ Vals(s, S, f) = {f[s[i]]} /\ PagesIn(s, S) = Run(s[i].va, s[i].n)
         /\ Once(s, S, f) /\ PagesApart(s, S)
BY DEF Vals, PagesIn, Once, PagesApart

\* A stack without entries of a kind says nothing of that kind.
LEMMA NoneAt ==
  ASSUME NEW s \in Seq(Ops), NEW S, NEW f, At(s, S) = {}
  PROVE  Vals(s, S, f) = {} /\ PagesIn(s, S) = {} /\ Once(s, S, f) /\ PagesApart(s, S)
BY DEF Vals, PagesIn, Once, PagesApart

-----------------------------------------------------------------------------
(* The shape of a stack. *)

ChainOk(e, rs) ==
  /\ \A i \in 1 .. Len(e) : EntryOk(e[i], rs)
  /\ \A i \in 1 .. Len(e) - 1 : Linked(e[i], e[i + 1])
Joint(a, b) == a # <<>> /\ b # <<>> => Linked(a[Len(a)], b[1])
Closed(e) == e # <<>> => e[Len(e)].do \notin Leads

\* Two well-formed pieces of a stack, joined where their ends may follow each other.
LEMMA ChainCat ==
  ASSUME NEW a \in Seq(Ops), NEW b \in Seq(Ops), NEW rs, ChainOk(a, rs), ChainOk(b, rs), Joint(a, b)
  PROVE  ChainOk(a \o b, rs)
<1> DEFINE c == a \o b
           L == Len(a)
<1>1. c \in Seq(Ops) /\ Len(c) = L + Len(b) /\ L \in Nat /\ Len(b) \in Nat
  OBVIOUS
<1>2. \A i \in 1 .. L : c[i] = a[i]
  OBVIOUS
<1>3. \A i \in 1 .. L + Len(b) : i > L => c[i] = b[i - L]
  OBVIOUS
<1>4. (L = 0 <=> a = <<>>) /\ (Len(b) = 0 <=> b = <<>>)
  OBVIOUS
<1> HIDE DEF c, L
<1>5. ASSUME NEW i \in 1 .. Len(c)
      PROVE  EntryOk(c[i], rs)
  <2>1. CASE i \in 1 .. L
    BY <1>1, <1>2, <2>1 DEF ChainOk, L
  <2>2. CASE i \notin 1 .. L
    <3>1. i - L \in 1 .. Len(b) /\ i > L
      BY <1>1, <2>2
    <3> QED
      BY <1>1, <1>3, <3>1 DEF ChainOk
  <2> QED
    BY <2>1, <2>2
<1>6. ASSUME NEW i \in 1 .. Len(c) - 1
      PROVE  Linked(c[i], c[i + 1])
  <2>1. CASE i < L
    <3>1. i \in 1 .. L - 1 /\ i \in 1 .. L /\ i + 1 \in 1 .. L
      BY <1>1, <2>1
    <3> QED
      BY <1>2, <3>1 DEF ChainOk, L
  <2>2. CASE i = L
    <3>1. L \in 1 .. L /\ L + 1 > L /\ L + 1 \in 1 .. L + Len(b) /\ (L + 1) - L = 1 /\ L # 0 /\ Len(b) # 0
      BY <1>1, <2>2
    <3>2. c[L] = a[L] /\ c[L + 1] = b[1]
      BY <1>2, <1>3, <3>1
    <3> QED
      BY <1>4, <2>2, <3>1, <3>2 DEF Joint, L
  <2>3. CASE i > L
    <3>1. i - L \in 1 .. Len(b) - 1 /\ (i + 1) - L = (i - L) + 1 /\ i + 1 > L /\ i \in 1 .. L + Len(b) /\ i + 1 \in 1 .. L + Len(b)
      BY <1>1, <2>3
    <3>2. c[i] = b[i - L] /\ c[i + 1] = b[(i - L) + 1]
      BY <1>3, <2>3, <3>1
    <3> QED
      BY <3>1, <3>2 DEF ChainOk
  <2> QED
    BY <1>1, <2>1, <2>2, <2>3
<1> QED
  BY <1>5, <1>6 DEF ChainOk, c

\* A stack ends as its lower part does.
LEMMA ClosedCat ==
  ASSUME NEW a \in Seq(Ops), NEW b \in Seq(Ops), Closed(b), b = <<>> => Closed(a)
  PROVE  Closed(a \o b)
<1>1. CASE b = <<>>
  <2>1. a \o b = a
    BY <1>1
  <2> QED
    BY <1>1, <2>1
<1>2. CASE b # <<>>
  <2>1. Len(b) \in Nat /\ Len(b) >= 1 /\ Len(a) \in Nat
    BY <1>2
  <2>2. Len(a \o b) = Len(a) + Len(b) /\ Len(a) + Len(b) > Len(a) /\ (Len(a) + Len(b)) - Len(a) = Len(b)
        /\ Len(a) + Len(b) \in 1 .. Len(a) + Len(b)
    BY <2>1
  <2>3. (a \o b)[Len(a) + Len(b)] = b[(Len(a) + Len(b)) - Len(a)]
    BY <2>1, <2>2
  <2> QED
    BY <1>2, <2>2, <2>3 DEF Closed
<1> QED
  BY <1>1, <1>2

\* A well-formed stack is a chain that ends in an operation that may be last.
LEMMA ShapeIs == \A e, rs : Shape(e, rs) <=> ChainOk(e, rs) /\ Closed(e)
BY DEF Shape, ChainOk, Closed

\* A well-formed stack is well-formed without its top.
LEMMA ChainTail ==
  ASSUME NEW e \in Seq(Ops), e # <<>>, NEW rs, Shape(e, rs)
  PROVE  /\ Shape(Tail(e), rs) /\ EntryOk(Head(e), rs)
         /\ Tail(e) # <<>> => Linked(Head(e), Head(Tail(e)))
         /\ Tail(e) = <<>> => Head(e).do \notin Leads
         /\ \A i \in 1 .. Len(Tail(e)) : Tail(e)[i].do \notin TopKinds
<1> DEFINE b == Tail(e)
<1>1. /\ b \in Seq(Ops) /\ Len(e) \in Nat /\ Len(e) >= 1 /\ Len(b) = Len(e) - 1 /\ Head(e) = e[1]
      /\ \A i \in 1 .. Len(b) : b[i] = e[i + 1]
  BY HeadTail
<1> HIDE DEF b
<1>2. (b = <<>> <=> Len(b) = 0) /\ (b # <<>> => Head(b) = b[1])
  BY <1>1
<1>3. ASSUME NEW i \in 1 .. Len(b)
      PROVE  EntryOk(b[i], rs) /\ b[i].do \notin TopKinds
  <2>1. i + 1 \in 1 .. Len(e) /\ i \in 1 .. Len(e) - 1
    BY <1>1
  <2>2. EntryOk(e[i + 1], rs) /\ Linked(e[i], e[i + 1]) /\ b[i] = e[i + 1]
    BY <1>1, <2>1 DEF Shape
  <2> QED
    BY <2>2 DEF Linked
<1>4. ASSUME NEW i \in 1 .. Len(b) - 1
      PROVE  Linked(b[i], b[i + 1])
  <2>1. i + 1 \in 1 .. Len(e) - 1 /\ i \in 1 .. Len(b) /\ i + 1 \in 1 .. Len(b)
    BY <1>1
  <2>2. Linked(e[i + 1], e[(i + 1) + 1]) /\ b[i] = e[i + 1] /\ b[i + 1] = e[(i + 1) + 1]
    BY <1>1, <2>1 DEF Shape
  <2> QED
    BY <2>2
<1>5. ASSUME b # <<>>
      PROVE  b[Len(b)].do \notin Leads /\ Linked(Head(e), Head(b))
  <2>1. Len(b) \in 1 .. Len(b) /\ Len(b) + 1 = Len(e) /\ 1 \in 1 .. Len(e) - 1 /\ 1 \in 1 .. Len(b)
    BY <1>1, <1>2, <1>5
  <2>2. b[Len(b)] = e[Len(e)] /\ b[1] = e[1 + 1] /\ Linked(e[1], e[1 + 1]) /\ Head(b) = b[1]
    BY <1>1, <1>2, <1>5, <2>1 DEF Shape
  <2> QED
    BY <1>1, <2>2 DEF Shape
<1>6. ASSUME b = <<>>
      PROVE  Head(e).do \notin Leads
  <2>1. Len(e) = 1
    BY <1>1, <1>2, <1>6
  <2> QED
    BY <1>1, <2>1 DEF Shape
<1>7. EntryOk(Head(e), rs)
  <2>1. 1 \in 1 .. Len(e)
    BY <1>1
  <2> QED
    BY <1>1, <2>1 DEF Shape
<1>8. Shape(b, rs)
  BY <1>3, <1>4, <1>5 DEF Shape
<1> QED
  BY <1>3, <1>5, <1>6, <1>7, <1>8 DEF b

\* What may be put on a stack in place of its first entry.
Fits(a, o, rs) ==
  /\ ChainOk(a, rs)
  /\ a # <<>> => /\ \A q : Linked(o, q) => Linked(a[Len(a)], q)
                 /\ a[Len(a)].do \in Leads => o.do \in Leads

\* A well-formed stack whose top is replaced by operations that fit in its place.
LEMMA ShapeCat ==
  ASSUME NEW e \in Seq(Ops), e # <<>>, NEW rs, Shape(e, rs), NEW a \in Seq(Ops), Fits(a, Head(e), rs)
  PROVE  Shape(a \o Tail(e), rs)
<1> DEFINE b == Tail(e)
           h == Head(e)
<1>1. b \in Seq(Ops) /\ Shape(b, rs) /\ (b # <<>> => Linked(h, b[1])) /\ (b = <<>> => h.do \notin Leads)
  <2>1. b # <<>> => Head(b) = b[1]
    OBVIOUS
  <2> QED
    BY <2>1, ChainTail, HeadTail
<1>2. Fits(a, h, rs)
  OBVIOUS
<1> HIDE DEF b, h
<1>3. Joint(a, b)
  BY <1>1, <1>2 DEF Joint, Fits
<1>4. ChainOk(a \o b, rs)
  BY <1>1, <1>2, <1>3, ChainCat, ShapeIs DEF Fits
<1>5. Closed(a \o b)
  BY <1>1, <1>2, ClosedCat, ShapeIs DEF Fits, Closed
<1> QED
  BY <1>4, <1>5, ShapeIs DEF b

Plain == OpKinds \ (Leads \cup {"return", "pop_dynamic"})

\* Operations that await no other fit anywhere.
LEMMA PlainFits ==
  ASSUME NEW a \in Seq(Ops), NEW h \in Ops, NEW rs,
         \A i \in 1 .. Len(a) : EntryOk(a[i], rs) /\ a[i].do \in Plain /\ (i > 1 => a[i].do \notin TopKinds)
  PROVE  Fits(a, h, rs)
<1>1. ChainOk(a, rs)
  <2>1. ASSUME NEW i \in 1 .. Len(a) - 1
        PROVE  Linked(a[i], a[i + 1])
    <3>1. i \in 1 .. Len(a) /\ i + 1 \in 1 .. Len(a) /\ i + 1 > 1
      OBVIOUS
    <3>2. a[i].do \in Plain /\ a[i + 1].do \notin TopKinds
      BY <3>1
    <3> QED
      BY <3>2 DEF Linked, Plain, Leads
  <2> QED
    BY <2>1 DEF ChainOk
<1>2. ASSUME a # <<>>
      PROVE  a[Len(a)].do \in Plain
  <2>1. Len(a) \in 1 .. Len(a)
    BY <1>2
  <2> QED
    BY <2>1
<1>3. ASSUME a # <<>>, NEW q, Linked(h, q)
      PROVE  Linked(a[Len(a)], q)
  BY <1>2, <1>3 DEF Linked, Plain, Leads
<1> QED
  BY <1>1, <1>2, <1>3 DEF Fits, Plain

\* What fits, with more on top of it.
LEMMA FitsCat ==
  ASSUME NEW a \in Seq(Ops), NEW b \in Seq(Ops), NEW h, NEW rs, ChainOk(a, rs), Joint(a, b),
         b # <<>>, Fits(b, h, rs)
  PROVE  Fits(a \o b, h, rs)
<1>1. ChainOk(a \o b, rs)
  BY ChainCat DEF Fits
<1>2. Len(b) \in Nat /\ Len(b) >= 1 /\ Len(a) \in Nat
  OBVIOUS
<1>3. Len(a \o b) = Len(a) + Len(b) /\ Len(a) + Len(b) > Len(a) /\ (Len(a) + Len(b)) - Len(a) = Len(b)
      /\ Len(a) + Len(b) \in 1 .. Len(a) + Len(b)
  BY <1>2
<1>4. (a \o b)[Len(a \o b)] = b[Len(b)]
  BY <1>2, <1>3
<1> QED
  BY <1>1, <1>4 DEF Fits

-----------------------------------------------------------------------------
(* What a stack says in sum: the pages it is yet to register, the ranges it *)
(* claims, and the slots of a pool it is yet to free.                       *)
Sums(t, p, c) ==
  /\ t \in Seq(Ops) /\ PagesIn(t, Pushes) = p /\ PagesApart(t, Pushes)
  /\ Claimed(t) = c /\ Once(t, Claims, ClaimOf)
SlotSums(t, k, v) == t \in Seq(Ops) /\ Vals(t, SlotOps(k), PlaceOf) = v /\ Once(t, SlotOps(k), PlaceOf)

\* The pages and the claims of two pieces of a stack add up when they are apart.
LEMMA SumsCat ==
  ASSUME NEW a, NEW b, NEW p, NEW q, NEW c, NEW d, Sums(a, p, c), Sums(b, q, d), p \cap q = {}, c \cap d = {}
  PROVE  Sums(a \o b, p \union q, c \union d)
<1>1. a \in Seq(Ops) /\ b \in Seq(Ops)
  BY DEF Sums
<1>2. a \o b \in Seq(Ops)
  BY <1>1
<1>3. PagesIn(a \o b, Pushes) = p \union q
  BY <1>1, CatPages DEF Sums
<1>4. PagesApart(a \o b, Pushes)
  BY <1>1, CatPagesApart DEF Sums
<1>5. Claimed(a \o b) = c \union d
  BY <1>1, CatVals DEF Sums, Claimed
<1>6. Once(a \o b, Claims, ClaimOf)
  BY <1>1, CatOnce DEF Sums, Claimed
<1> QED
  BY <1>2, <1>3, <1>4, <1>5, <1>6 DEF Sums

\* So do the slots they free.
LEMMA SlotSumsCat ==
  ASSUME NEW a, NEW b, NEW k, NEW v, NEW w, SlotSums(a, k, v), SlotSums(b, k, w), v \cap w = {}
  PROVE  SlotSums(a \o b, k, v \union w)
<1>1. a \in Seq(Ops) /\ b \in Seq(Ops)
  BY DEF SlotSums
<1>2. a \o b \in Seq(Ops)
  BY <1>1
<1>3. Vals(a \o b, SlotOps(k), PlaceOf) = v \union w
  BY <1>1, CatVals DEF SlotSums
<1>4. Once(a \o b, SlotOps(k), PlaceOf)
  BY <1>1, CatOnce DEF SlotSums
<1> QED
  BY <1>2, <1>3, <1>4 DEF SlotSums

\* The empty piece has none.
LEMMA NoSums ==
  ASSUME NEW k
  PROVE  Sums(<<>>, {}, {}) /\ SlotSums(<<>>, k, {})
BY NoEntry DEF Sums, SlotSums, Claimed

\* The kinds of one operation.
LEMMA KindSets ==
  ASSUME NEW o \in Ops
  PROVE  /\ o \in Pushes <=> o.do \in PushKinds
         /\ o \in RvaPushes <=> o.do = "push_rva"
         /\ o \in Claims <=> o.do \in {"keep", "return", "kfree", "pop_rva"}
         /\ o \in Assigns <=> o.do = "assign"
         /\ o \in Returns <=> o.do = "return"
         /\ \A k : o \in SlotOps(k) <=> o.do = k
BY DEF KindOf, Pushes, RvaPushes, Claims, Assigns, Returns, SlotOps

\* The pages, the claim and the slot of one operation.
LEMMA OneSum ==
  ASSUME NEW o \in Ops, NEW k
  PROVE  /\ Sums(<<o>>, IF o.do \in PushKinds THEN Run(o.va, o.n) ELSE {},
                 IF o.do \in {"keep", "return", "kfree", "pop_rva"} THEN {ClaimOf[o]} ELSE {})
         /\ SlotSums(<<o>>, k, IF o.do = k THEN {<<o.va, o.pa>>} ELSE {})
<1>1. /\ o \in Pushes <=> o.do \in PushKinds
      /\ o \in Claims <=> o.do \in {"keep", "return", "kfree", "pop_rva"}
      /\ o \in SlotOps(k) <=> o.do = k
  BY KindSets
<1>2. PlaceOf[o] = <<o.va, o.pa>>
  BY ClaimIs
<1>3. /\ <<o>> \in Seq(Ops) /\ PagesApart(<<o>>, Pushes)
      /\ Once(<<o>>, Claims, ClaimOf) /\ Once(<<o>>, SlotOps(k), PlaceOf)
  BY OneEntry
<1>4. PagesIn(<<o>>, Pushes) = IF o.do \in PushKinds THEN Run(o.va, o.n) ELSE {}
  BY <1>1, OneEntry
<1>5. Claimed(<<o>>) = IF o.do \in {"keep", "return", "kfree", "pop_rva"} THEN {ClaimOf[o]} ELSE {}
  BY <1>1, OneEntry DEF Claimed
<1>6. Vals(<<o>>, SlotOps(k), PlaceOf) = IF o.do = k THEN {<<o.va, o.pa>>} ELSE {}
  <2>1. o \in SlotOps(k) => Vals(<<o>>, SlotOps(k), PlaceOf) = {PlaceOf[o]}
    BY OneEntry, Zenon
  <2>2. o \notin SlotOps(k) => Vals(<<o>>, SlotOps(k), PlaceOf) = {}
    BY OneEntry, Zenon
  <2> QED
    BY <1>1, <1>2, <2>1, <2>2
<1> QED
  BY <1>3, <1>4, <1>5, <1>6 DEF Sums, SlotSums

\* Stacks of four entries.
LEMMA FourEntries ==
  ASSUME NEW a \in Ops, NEW b \in Ops, NEW c \in Ops, NEW d \in Ops
  PROVE  /\ <<a, b, c, d>> \in Seq(Ops) /\ Len(<<a, b, c, d>>) = 4
         /\ <<a, b, c, d>>[1] = a /\ <<a, b, c, d>>[2] = b /\ <<a, b, c, d>>[3] = c /\ <<a, b, c, d>>[4] = d
OBVIOUS

\* One push and then one claim.
IsFour(t, a, b, c, d) ==
  t \in Seq(Ops) /\ Len(t) = 4 /\ t[1] = a /\ t[2] = b /\ t[3] = c /\ t[4] = d

Quiet(o) == o.do \notin PushKinds \cup {"keep", "return", "kfree", "pop_rva"} \cup Pools

\* Four operations that push a range and claim it: the two ends of raw_kmalloc and of a
\* refill.
LEMMA PushAndClaim ==
  ASSUME NEW t, NEW a \in Ops, NEW b \in Ops, NEW c \in Ops, NEW d \in Ops, IsFour(t, a, b, c, d),
         a.do = "push_rva", Quiet(b),
         (Quiet(c) /\ d.do = "return" /\ d.va = a.va) \/ (Quiet(d) /\ c.do = "keep" /\ c.pa = a.va)
  PROVE  /\ Sums(t, Run(a.va, a.n), {a.va})
         /\ \A k \in Pools : SlotSums(t, k, {})
         /\ \A X : KnownIn(t, X)
<1>1. t \in Seq(Ops) /\ DOMAIN t = {1, 2, 3, 4} /\ Len(t) = 4 /\ 1 \in 1 .. Len(t)
  BY DEF IsFour
<1>2. At(t, Pushes) = {1} /\ At(t, RvaPushes) = {1}
  <2>1. a \in Pushes /\ a \in RvaPushes /\ b \notin Pushes /\ c \notin Pushes /\ d \notin Pushes
        /\ b \notin RvaPushes /\ c \notin RvaPushes /\ d \notin RvaPushes
    BY KindSets DEF Quiet, PushKinds
  <2> QED
    BY <1>1, <2>1 DEF At, IsFour
<1>3. PICK i \in {3, 4} : At(t, Claims) = {i} /\ ClaimOf[t[i]] = a.va
  <2>1. a \notin Claims /\ b \notin Claims
    BY KindSets DEF Quiet
  <2>2. CASE Quiet(c) /\ d.do = "return" /\ d.va = a.va
    <3>1. c \notin Claims /\ d \in Claims /\ ClaimOf[d] = a.va
      BY <2>2, KindSets, ClaimIs DEF Quiet
    <3>2. At(t, Claims) = {4}
      BY <1>1, <2>1, <3>1 DEF At, IsFour
    <3> QED
      BY <3>1, <3>2 DEF IsFour
  <2>3. CASE Quiet(d) /\ c.do = "keep" /\ c.pa = a.va
    <3>1. d \notin Claims /\ c \in Claims /\ ClaimOf[c] = a.va
      BY <2>3, KindSets, ClaimIs DEF Quiet
    <3>2. At(t, Claims) = {3}
      BY <1>1, <2>1, <3>1 DEF At, IsFour
    <3> QED
      BY <3>1, <3>2 DEF IsFour
  <2> QED
    BY <2>2, <2>3
<1>4. ASSUME NEW k \in Pools
      PROVE  At(t, SlotOps(k)) = {}
  <2>1. a \notin SlotOps(k) /\ b \notin SlotOps(k) /\ c \notin SlotOps(k) /\ d \notin SlotOps(k)
    <3>1. a.do \notin Pools /\ b.do \notin Pools /\ c.do \notin Pools /\ d.do \notin Pools
      BY DEF Quiet, Pools
    <3> QED
      BY <3>1, KindSets
  <2> QED
    BY <1>1, <2>1 DEF At, IsFour
<1>5. i \in 1 .. Len(t)
  BY <1>1
<1>6. Sums(t, Run(a.va, a.n), {a.va})
  <2>1. PagesIn(t, Pushes) = Run(t[1].va, t[1].n) /\ PagesApart(t, Pushes)
    BY <1>1, <1>2, OnlyAt
  <2>2. Claimed(t) = {ClaimOf[t[i]]} /\ Once(t, Claims, ClaimOf)
    <3>1. At(t, Claims) = {i}
      BY <1>3
    <3>2. Vals(t, Claims, ClaimOf) = {ClaimOf[t[i]]} /\ Once(t, Claims, ClaimOf)
      <4>1. ASSUME NEW S, NEW f, NEW j \in 1 .. Len(t), At(t, S) = {j}
            PROVE  Vals(t, S, f) = {f[t[j]]} /\ Once(t, S, f)
        BY <1>1, <4>1 DEF Vals, Once
      <4> QED
        BY <1>5, <3>1, <4>1
    <3> QED
      BY <3>2 DEF Claimed
  <2> QED
    BY <1>1, <1>3, <2>1, <2>2 DEF Sums, IsFour
<1>7. \A k \in Pools : SlotSums(t, k, {})
  BY <1>1, <1>4, NoneAt DEF SlotSums
<1>8. \A X : KnownIn(t, X)
  <2>1. 1 < i /\ t[1].va = ClaimOf[t[i]]
    BY <1>3 DEF IsFour
  <2> QED
    BY <1>2, <1>3, <2>1 DEF KnownIn
<1> QED
  BY <1>6, <1>7, <1>8

AllPlain(a, rs) ==
  a \in Seq(Ops) /\ \A i \in 1 .. Len(a) : EntryOk(a[i], rs) /\ a[i].do \in Plain /\ (i > 1 => a[i].do \notin TopKinds)

\* Every assign in the stack is still for the range that is returned.
LEMMA OwnPart ==
  ASSUME NEW e \in Seq(Ops), e # <<>>, AssignsOwn(e), NEW a \in Seq(Ops),
         Vals(a, Assigns, PaOf) \subseteq Vals(e, Assigns, PaOf),
         Vals(a, Returns, VaOf) \subseteq Vals(e, Returns, VaOf)
  PROVE  AssignsOwn(a \o Tail(e))
<1> DEFINE b == Tail(e)
<1>1. /\ b \in Seq(Ops) /\ Vals(b, Assigns, PaOf) \subseteq Vals(e, Assigns, PaOf)
      /\ Vals(b, Returns, VaOf) \subseteq Vals(e, Returns, VaOf)
  <2>1. ASSUME NEW S, NEW f
        PROVE  Vals(b, S, f) \subseteq Vals(e, S, f)
    BY Dropped
  <2> QED
    BY <2>1, HeadTail, Zenon
<1> HIDE DEF b
<1>2. /\ Vals(a \o b, Assigns, PaOf) = Vals(a, Assigns, PaOf) \union Vals(b, Assigns, PaOf)
      /\ Vals(a \o b, Returns, VaOf) = Vals(a, Returns, VaOf) \union Vals(b, Returns, VaOf)
  BY <1>1, CatVals
<1>3. AssignsOwn(a \o b)
  <2>1. /\ Vals(a \o b, Assigns, PaOf) \subseteq Vals(e, Assigns, PaOf)
        /\ Vals(a \o b, Returns, VaOf) \subseteq Vals(e, Returns, VaOf)
    BY <1>1, <1>2
  <2> QED
    BY <2>1 DEF AssignsOwn
<1> QED
  BY <1>3 DEF b

\* Plain operations neither assign nor return.
LEMMA PlainQuiet ==
  ASSUME NEW a, NEW rs, AllPlain(a, rs)
  PROVE  Vals(a, Assigns, PaOf) = {} /\ Vals(a, Returns, VaOf) = {}
<1>1. a \in Seq(Ops)
  BY DEF AllPlain
<1>2. ASSUME NEW i \in 1 .. Len(a)
      PROVE  a[i] \notin Assigns /\ a[i] \notin Returns
  <2>1. a[i] \in Ops /\ a[i].do \in Plain
    BY <1>1 DEF AllPlain
  <2> QED
    BY <2>1, KindSets DEF Plain, Leads
<1>3. At(a, Assigns) = {} /\ At(a, Returns) = {}
  BY <1>1, <1>2 DEF At
<1> QED
  BY <1>1, <1>3 DEF Vals

\* Entries that are plain may be put in place of the first one.
LEMMA PlainShape ==
  ASSUME NEW e \in Seq(Ops), e # <<>>, NEW rs, Shape(e, rs), AssignsOwn(e), NEW a, AllPlain(a, rs)
  PROVE  Shape(a \o Tail(e), rs) /\ AssignsOwn(a \o Tail(e)) /\ a \o Tail(e) \in Seq(Ops)
<1>1. a \in Seq(Ops) /\ Head(e) \in Ops /\ Tail(e) \in Seq(Ops)
  BY HeadTail DEF AllPlain
<1>2. Fits(a, Head(e), rs)
  BY <1>1, PlainFits DEF AllPlain
<1>3. Vals(a, Assigns, PaOf) = {} /\ Vals(a, Returns, VaOf) = {}
  BY PlainQuiet
<1> QED
  BY <1>1, <1>2, <1>3, ShapeCat, OwnPart

\* The rest of a stack is well formed.
LEMMA TailShape ==
  ASSUME NEW e \in Seq(Ops), e # <<>>, NEW rs, Shape(e, rs), AssignsOwn(e)
  PROVE  Shape(Tail(e), rs) /\ AssignsOwn(Tail(e)) /\ Tail(e) \in Seq(Ops) /\ Tail(e) = <<>> \o Tail(e)
<1>1. AllPlain(<<>>, rs)
  BY DEF AllPlain
<1>2. Tail(e) \in Seq(Ops) /\ Tail(e) = <<>> \o Tail(e)
  BY HeadTail
<1> QED
  BY <1>1, <1>2, PlainShape

\* The shape survives a reserve that has fewer pages.
LEMMA ShapeLess ==
  ASSUME NEW e \in Seq(Ops), NEW rs, NEW rs2, Shape(e, rs),
         \A i \in Indices : rs[i] = NoPage => rs2[i] = NoPage
  PROVE  Shape(e, rs2)
<1>1. \A o : EntryOk(o, rs) => EntryOk(o, rs2)
  BY DEF EntryOk
<1> QED
  BY <1>1 DEF Shape

\* What must follow a return, a fill, a keep and an assign.
LEMMA LastTwo ==
  ASSUME NEW e \in Seq(Ops), e # <<>>, NEW rs, Shape(e, rs)
  PROVE  /\ Head(e).do \in {"return", "pop_dynamic"} => Tail(e) = <<>>
         /\ Head(e).do = "fill" => Tail(e) # <<>> /\ Head(Tail(e)).do = "return" /\ Tail(e) = <<Head(Tail(e))>>
         /\ Head(e).do \in {"keep", "assign"} =>
              /\ Tail(e) # <<>> /\ Head(Tail(e)).do = "fill"
              /\ Tail(e) = <<Head(Tail(e)), Head(Tail(Tail(e)))>> /\ Head(Tail(Tail(e))).do = "return"
              /\ Head(Tail(e)) \in Ops /\ Head(Tail(Tail(e))) \in Ops
<1>0. ASSUME NEW t \in Seq(Ops), t # <<>>, Shape(t, rs)
      PROVE  /\ Tail(t) # <<>> => Linked(Head(t), Head(Tail(t)))
             /\ Tail(t) = <<>> => Head(t).do \notin Leads
             /\ Tail(t) \in Seq(Ops) /\ Shape(Tail(t), rs) /\ Head(t) \in Ops
  BY <1>0, ChainTail, HeadTail
<1>1. ASSUME NEW t \in Seq(Ops), t # <<>>, Shape(t, rs), Head(t).do \in {"return", "pop_dynamic"}
      PROVE  Tail(t) = <<>> /\ t = <<Head(t)>>
  <2>1. Tail(t) = <<>>
    BY <1>0, <1>1 DEF Linked
  <2>2. <<Head(t)>> \o Tail(t) = t /\ <<Head(t)>> \in Seq(Ops)
    BY <1>1, HeadTail
  <2>3. <<Head(t)>> \o <<>> = <<Head(t)>>
    BY <2>2
  <2> QED
    BY <2>1, <2>2, <2>3
<1>2. ASSUME NEW t \in Seq(Ops), t # <<>>, Shape(t, rs), Head(t).do = "fill"
      PROVE  /\ Tail(t) # <<>> /\ Head(Tail(t)).do = "return" /\ Tail(t) = <<Head(Tail(t))>>
             /\ t = <<Head(t), Head(Tail(t))>> /\ Head(Tail(t)) \in Ops
  <2>1. Tail(t) # <<>> /\ Head(Tail(t)).do = "return"
    BY <1>0, <1>2 DEF Linked, Leads
  <2>2. Tail(t) = <<Head(Tail(t))>> /\ Head(Tail(t)) \in Ops
    BY <1>0, <1>1, <1>2, <2>1
  <2>3. <<Head(t)>> \o Tail(t) = t
    BY <1>2, HeadTail
  <2>4. ASSUME NEW x \in Ops, NEW y \in Ops
        PROVE  <<x>> \o <<y>> = <<x, y>>
    <3> DEFINE c == <<x>> \o <<y>>
               d == <<x, y>>
    <3>1. c \in Seq(Ops) /\ Len(c) = 2 /\ c[1] = x /\ c[2] = y
      OBVIOUS
    <3>2. d \in Seq(Ops) /\ Len(d) = 2 /\ d[1] = x /\ d[2] = y
      OBVIOUS
    <3> HIDE DEF c, d
    <3>3. \A i \in 1 .. 2 : c[i] = d[i]
      BY <3>1, <3>2
    <3>4. c = d
      BY <3>1, <3>2, <3>3
    <3> QED
      BY <3>4 DEF c, d
  <2>5. <<Head(t)>> \o <<Head(Tail(t))>> = <<Head(t), Head(Tail(t))>>
    BY <1>0, <1>2, <2>2, <2>4, Zenon
  <2> QED
    BY <2>1, <2>2, <2>3, <2>5
<1>3. ASSUME Head(e).do \in {"keep", "assign"}
      PROVE  /\ Tail(e) # <<>> /\ Head(Tail(e)).do = "fill"
             /\ Tail(e) = <<Head(Tail(e)), Head(Tail(Tail(e)))>> /\ Head(Tail(Tail(e))).do = "return"
             /\ Head(Tail(e)) \in Ops /\ Head(Tail(Tail(e))) \in Ops
  <2>1. Tail(e) # <<>> /\ Head(Tail(e)).do = "fill" /\ Tail(e) \in Seq(Ops) /\ Shape(Tail(e), rs)
    BY <1>0, <1>3 DEF Linked, Leads
  <2> QED
    BY <1>0, <1>2, <2>1
<1> QED
  BY <1>1, <1>2, <1>3

\* The rest of a stack does not depend on the reserve once the keep has been executed.
LEMMA KeptShape ==
  ASSUME NEW e \in Seq(Ops), e # <<>>, NEW rs, NEW rs2, Shape(e, rs), Head(e).do = "keep"
  PROVE  Shape(Tail(e), rs2)
<1> DEFINE b == Tail(e)
           x == Head(b)
           y == Head(Tail(b))
<1>1. b = <<x, y>> /\ x.do = "fill" /\ y.do = "return" /\ x \in Ops /\ y \in Ops
  BY LastTwo
<1>2. Shape(b, rs)
  BY ChainTail
<1> HIDE DEF b, x, y
<1>3. Len(b) = 2 /\ b[1] = x /\ b[2] = y
  BY <1>1
<1>4. \A i \in 1 .. 2 : EntryOk(b[i], rs) => EntryOk(b[i], rs2)
  BY <1>1, <1>3 DEF EntryOk
<1>5. Shape(b, rs2)
  BY <1>2, <1>3, <1>4 DEF Shape
<1> QED
  BY <1>5 DEF b

-----------------------------------------------------------------------------
(* The stack of the model and the one the invariant is about. *)

\* A stack whose top pops nothing hides nothing.
LEMMA PlainMatches ==
  ASSUME NEW f \in Seq(Ops), NEW rs, f # <<>> => Head(f).do \notin PopKinds
  PROVE  Matches(f, f, rs)
<1>1. CASE f = <<>>
  BY <1>1 DEF Matches
<1>2. CASE f # <<>>
  <2>1. <<Head(f)>> \o Tail(f) = f /\ Tail(f) \in Seq(Ops)
    BY <1>2, HeadTail
  <2>2. <<>> \o Tail(f) = Tail(f) /\ <<>> \in Seq(Ops)
    BY <2>1
  <2>3. HiddenBy(Head(f), Tail(f), rs, <<>>)
    BY <1>2 DEF HiddenBy
  <2>4. f = <<Head(f)>> \o (<<>> \o Tail(f))
    BY <2>1, <2>2
  <2> QED
    BY <1>2, <2>2, <2>3, <2>4 DEF Matches
<1> QED
  BY <1>1, <1>2

\* The top of the stack, and what its execution brings to light.
LEMMA TopOf ==
  ASSUME NEW t, NEW e \in Seq(Ops), NEW rs, Matches(t, e, rs), t # <<>>
  PROVE  /\ e # <<>> /\ Head(t) = Head(e)
         /\ \E x \in Seq(Ops) : HiddenBy(Head(e), Tail(e), rs, x) /\ Tail(t) = x \o Tail(e)
<1>1. e # <<>>
  BY DEF Matches
<1>2. PICK x \in Seq(Ops) : HiddenBy(Head(e), Tail(e), rs, x) /\ t = <<Head(e)>> \o (x \o Tail(e))
  BY <1>1 DEF Matches
<1>3. Head(e) \in Ops /\ Tail(e) \in Seq(Ops)
  BY <1>1, HeadTail
<1>4. ASSUME NEW o \in Ops, NEW s \in Seq(Ops)
      PROVE  Head(<<o>> \o s) = o /\ Tail(<<o>> \o s) = s
  <2>1. Len(<<o>> \o s) = 1 + Len(s) /\ <<o>> \o s \in Seq(Ops) /\ Len(s) \in Nat
    OBVIOUS
  <2>2. <<o>> \o s # <<>>
    BY <2>1
  <2>3. \A i \in 1 .. Len(s) : Tail(<<o>> \o s)[i] = s[i]
    BY <2>1, <2>2
  <2>4. Tail(<<o>> \o s) \in Seq(Ops) /\ Len(Tail(<<o>> \o s)) = Len(s)
    BY <2>1, <2>2
  <2>5. Tail(<<o>> \o s) = s
    BY <2>3, <2>4
  <2>6. Head(<<o>> \o s) = o
    BY <2>1, <2>2
  <2> QED
    BY <2>5, <2>6
<1>5. x \o Tail(e) \in Seq(Ops)
  BY <1>3
<1>6. Head(t) = Head(e) /\ Tail(t) = x \o Tail(e)
  BY <1>2, <1>3, <1>4, <1>5, Zenon
<1> QED
  BY <1>1, <1>2, <1>6

\* Joining stacks is associative.
LEMMA Regrouped ==
  ASSUME NEW a \in Seq(Ops), NEW b \in Seq(Ops), NEW c \in Seq(Ops)
  PROVE  a \o (b \o c) = (a \o b) \o c /\ a \o b \in Seq(Ops)
BY SMTT(30), ConcatAssociative

\* Plain operations on a well-formed stack.
LEMMA PlainOver ==
  ASSUME NEW rs, NEW a, AllPlain(a, rs), NEW s \in Seq(Ops), Shape(s, rs), AssignsOwn(s),
         s # <<>>, s[1].do \notin TopKinds
  PROVE  Shape(a \o s, rs) /\ AssignsOwn(a \o s) /\ a \o s \in Seq(Ops)
<1>1. a \in Seq(Ops)
  BY DEF AllPlain
<1>2. ChainOk(s, rs) /\ Closed(s)
  BY ShapeIs
<1>3. ChainOk(a, rs)
  <2>1. ASSUME NEW h \in Ops
        PROVE  Fits(a, h, rs)
    BY <1>1, PlainFits DEF AllPlain
  <2>2. Op("fva", 0, 0, 0) \in Ops
    BY OpIn DEF OpKinds
  <2> QED
    BY <2>1, <2>2 DEF Fits
<1>4. Joint(a, s)
  <2> SUFFICES ASSUME a # <<>>
               PROVE  Linked(a[Len(a)], s[1])
    BY DEF Joint
  <2>1. Len(a) \in 1 .. Len(a)
    BY <1>1
  <2>2. a[Len(a)].do \in Plain
    BY <2>1 DEF AllPlain
  <2> QED
    BY <2>2 DEF Linked, Plain, Leads
<1>5. Shape(a \o s, rs)
  BY <1>1, <1>2, <1>3, <1>4, ChainCat, ClosedCat, ShapeIs
<1>6. Vals(a \o s, Assigns, PaOf) = Vals(s, Assigns, PaOf) /\ Vals(a \o s, Returns, VaOf) = Vals(s, Returns, VaOf)
  <2>1. Vals(a, Assigns, PaOf) = {} /\ Vals(a, Returns, VaOf) = {}
    BY PlainQuiet
  <2>2. /\ Vals(a \o s, Assigns, PaOf) = Vals(a, Assigns, PaOf) \union Vals(s, Assigns, PaOf)
        /\ Vals(a \o s, Returns, VaOf) = Vals(a, Returns, VaOf) \union Vals(s, Returns, VaOf)
    BY <1>1, CatVals
  <2> QED
    BY <2>1, <2>2
<1>7. a \o s \in Seq(Ops)
  BY <1>1
<1> QED
  BY <1>5, <1>6, <1>7 DEF AssignsOwn

\* What is left of a call once its range is out of the list of free ranges.
IsCall(x, va, n, rest, rs) ==
  /\ x \in Seq(Ops) /\ x # <<>> /\ x[1].do = "push_rva"
  /\ Sums(x, Run(va, n), {va}) /\ (\A k \in Pools : SlotSums(x, k, {})) /\ (\A X : KnownIn(x, X))
  /\ x \o rest \in Seq(Ops) /\ Shape(x \o rest, rs) /\ AssignsOwn(x \o rest) /\ x \o rest # <<>>
  /\ (x \o rest)[1] = x[1]

\* Pages, indices and NoPage are integers.
LEMMA SmallInts == NoPage \in Int /\ \A i \in Pages \cup Indices \cup Nat : i \in Int
BY HeapAssumption, RangesAssumption DEF NoPage, Pages, Indices

\* The operation that goes on with the refill at an index.
LEMMA FillIn ==
  ASSUME NEW m \in Int
  PROVE  Op("fill", m, NoPage, 0) \in Ops /\ Op("fill", m, NoPage, 0).do = "fill" /\ Op("fill", m, NoPage, 0).va = m
BY SmallInts, OpIn DEF OpKinds

\* Four operations in a row, each allowed to follow the one before.
LEMMA FourShape ==
  ASSUME NEW x, NEW a \in Ops, NEW b \in Ops, NEW c \in Ops, NEW d \in Ops, NEW rs, IsFour(x, a, b, c, d),
         EntryOk(a, rs), EntryOk(b, rs), EntryOk(c, rs), EntryOk(d, rs),
         Linked(a, b), Linked(b, c), Linked(c, d)
  PROVE  ChainOk(x, rs)
<1>1. Len(x) = 4 /\ x[1] = a /\ x[2] = b /\ x[3] = c /\ x[4] = d
  BY DEF IsFour
<1>2. \A i \in 1 .. 4 : i = 1 \/ i = 2 \/ i = 3 \/ i = 4
  OBVIOUS
<1>3. \A i \in 1 .. 4 - 1 : i = 1 \/ i = 2 \/ i = 3
  OBVIOUS
<1>4. \A i \in 1 .. Len(x) : EntryOk(x[i], rs)
  BY <1>1, <1>2
<1>5. \A i \in 1 .. Len(x) - 1 : Linked(x[i], x[i + 1])
  BY <1>1, <1>3
<1> QED
  BY <1>4, <1>5 DEF ChainOk

\* Their first and their last.
LEMMA FourFirst ==
  ASSUME NEW x, NEW a \in Ops, NEW b \in Ops, NEW c \in Ops, NEW d \in Ops, IsFour(x, a, b, c, d), NEW s \in Seq(Ops)
  PROVE  x \in Seq(Ops) /\ x # <<>> /\ x[1] = a /\ x \o s \in Seq(Ops) /\ x \o s # <<>> /\ (x \o s)[1] = x[1] /\ x[Len(x)] = d
<1>1. x \in Seq(Ops) /\ Len(x) = 4 /\ x[1] = a /\ x[4] = d
  BY DEF IsFour
<1> QED
  BY <1>1

\* A call for pages of the linear map that asks on behalf of a caller.
LEMMA AskIsCall ==
  ASSUME NEW pa \in Pages, NEW n \in Nat \ {0}, Run(pa, n) \subseteq Pages, NEW rs
  PROVE  IsCall(AskTail(pa, n), pa, n, <<>>, rs)
<1> DEFINE x == AskTail(pa, n)
           a == Op("push_rva", pa, pa, n)
           b == Op("map", pa, pa, n)
           c == Op("fill", 1, NoPage, 0)
           d == Op("return", pa, NoPage, n)
<1>0. pa \in Int /\ n \in Int /\ NoPage \in Int /\ 0 \in Int /\ 1 \in Int /\ n >= 1 /\ 1 \in Nat /\ pa < KmapPages
  BY SmallInts, RangesAssumption DEF Pages
<1>1. /\ a \in Ops /\ a.do = "push_rva" /\ a.va = pa /\ a.n = n
      /\ b \in Ops /\ b.do = "map" /\ b.pa = pa /\ b.n = n
      /\ c \in Ops /\ c.do = "fill" /\ c.va = 1
      /\ d \in Ops /\ d.do = "return" /\ d.va = pa /\ d.n = n
  BY <1>0, OpIn DEF OpKinds
<1>2. IsFour(x, a, b, c, d)
  <2>1. x = <<a, b, c, d>>
    BY DEF AskTail
  <2> HIDE DEF x, a, b, c, d
  <2> QED
    BY <1>1, <2>1, FourEntries DEF IsFour
<1> HIDE DEF x, a, b, c, d
<1>3. Quiet(b) /\ Quiet(c)
  BY <1>1 DEF Quiet, PushKinds, Pools
<1>4. Sums(x, Run(pa, n), {pa}) /\ (\A k \in Pools : SlotSums(x, k, {})) /\ (\A X : KnownIn(x, X))
  <2>1. Sums(x, Run(a.va, a.n), {a.va}) /\ (\A k \in Pools : SlotSums(x, k, {})) /\ (\A X : KnownIn(x, X))
    BY <1>1, <1>2, <1>3, PushAndClaim
  <2> QED
    BY <1>1, <2>1
<1>5. EntryOk(a, rs) /\ EntryOk(b, rs) /\ EntryOk(c, rs) /\ EntryOk(d, rs)
  <2>1. Area(ListOf(pa)) = Pages
    BY <1>0 DEF Area, ListOf, Pages
  <2> QED
    BY <1>0, <1>1, <2>1 DEF EntryOk, Sized, PushKinds
<1>6. Linked(a, b) /\ Linked(b, c) /\ Linked(c, d)
  BY <1>1 DEF Linked, TopKinds
<1>7. ChainOk(x, rs)
  BY <1>1, <1>2, <1>5, <1>6, FourShape
<1>8. <<>> \in Seq(Ops)
  OBVIOUS
<1>9. x \in Seq(Ops) /\ x # <<>> /\ x[1] = a /\ x \o <<>> # <<>> /\ x[Len(x)] = d
  <2>1. ASSUME NEW s \in Seq(Ops)
        PROVE  x \in Seq(Ops) /\ x # <<>> /\ x[1] = a /\ x \o s # <<>> /\ x[Len(x)] = d
    BY <1>1, <1>2, FourFirst
  <2> QED
    BY <1>8, <2>1
<1>10. x \o <<>> = x
  BY <1>9
<1>11. Shape(x, rs)
  BY <1>1, <1>7, <1>9, ShapeIs DEF Closed, Leads
<1>12. AssignsOwn(x)
  <2>1. a \notin Assigns /\ b \notin Assigns /\ c \notin Assigns /\ d \notin Assigns
    BY <1>1, KindSets
  <2>2. At(x, Assigns) = {}
    BY <1>2, <1>9, <2>1 DEF At, IsFour
  <2> QED
    BY <2>2 DEF AssignsOwn, Vals
<1> QED
  BY <1>1, <1>4, <1>9, <1>10, <1>11, <1>12 DEF IsCall, x

\* One that asks for a page of the reserve, in the middle of another.
LEMMA KeepIsCall ==
  ASSUME NEW pa \in Pages, NEW rs, NEW i \in Indices, rs[i] = NoPage,
         NEW rest \in Seq(Ops), Shape(rest, rs), AssignsOwn(rest), rest # <<>>, Head(rest).do = "return"
  PROVE  IsCall(KeepTail(pa, i), pa, 1, rest, rs)
<1> DEFINE x == KeepTail(pa, i)
           a == Op("push_rva", pa, pa, 1)
           b == Op("map", pa, pa, 1)
           c == Op("keep", i, pa, 1)
           d == Op("fill", i + 1, NoPage, 0)
<1>0. /\ pa \in Int /\ NoPage \in Int /\ 0 \in Int /\ 1 \in Int /\ i \in Int /\ i + 1 \in Int /\ i + 1 \in Nat /\ pa < KmapPages
      /\ Run(pa, 1) \subseteq Pages
  BY SmallInts, RangesAssumption, HeapAssumption DEF Pages, Indices, Run
<1>1. /\ a \in Ops /\ a.do = "push_rva" /\ a.va = pa /\ a.n = 1
      /\ b \in Ops /\ b.do = "map" /\ b.pa = pa /\ b.n = 1
      /\ c \in Ops /\ c.do = "keep" /\ c.va = i /\ c.pa = pa /\ c.n = 1
      /\ d \in Ops /\ d.do = "fill" /\ d.va = i + 1
  <2>1. ASSUME NEW m \in Int
        PROVE  Op("fill", m, NoPage, 0) \in Ops /\ Op("fill", m, NoPage, 0).do = "fill" /\ Op("fill", m, NoPage, 0).va = m
    BY FillIn
  <2>2. d \in Ops /\ d.do = "fill" /\ d.va = i + 1
    BY <1>0, <2>1
  <2>3. a \in Ops /\ a.do = "push_rva" /\ a.va = pa /\ a.n = 1
    BY <1>0, OpIn DEF OpKinds
  <2>4. b \in Ops /\ b.do = "map" /\ b.pa = pa /\ b.n = 1
    BY <1>0, OpIn DEF OpKinds
  <2>5. c \in Ops /\ c.do = "keep" /\ c.va = i /\ c.pa = pa /\ c.n = 1
    BY <1>0, OpIn DEF OpKinds
  <2> HIDE DEF a, b, c, d
  <2> QED
    BY <2>2, <2>3, <2>4, <2>5
<1>2. IsFour(x, a, b, c, d)
  <2>1. x = <<a, b, c, d>>
    BY DEF KeepTail
  <2> HIDE DEF x, a, b, c, d
  <2> QED
    BY <1>1, <2>1, FourEntries DEF IsFour
<1> HIDE DEF x, a, b, c, d
<1>3. Quiet(b) /\ Quiet(d)
  BY <1>1 DEF Quiet, PushKinds, Pools
<1>4. Sums(x, Run(pa, 1), {pa}) /\ (\A k \in Pools : SlotSums(x, k, {})) /\ (\A X : KnownIn(x, X))
  <2>1. Sums(x, Run(a.va, a.n), {a.va}) /\ (\A k \in Pools : SlotSums(x, k, {})) /\ (\A X : KnownIn(x, X))
    BY <1>1, <1>2, <1>3, PushAndClaim
  <2> QED
    BY <1>1, <2>1
<1>5. EntryOk(a, rs) /\ EntryOk(b, rs) /\ EntryOk(c, rs) /\ EntryOk(d, rs)
  <2>1. Area(ListOf(pa)) = Pages
    BY <1>0 DEF Area, ListOf, Pages
  <2>2. 1 >= 1
    OBVIOUS
  <2> QED
    BY <1>0, <1>1, <2>1, <2>2 DEF EntryOk, Sized, PushKinds
<1>6. Linked(a, b) /\ Linked(b, c) /\ Linked(c, d)
  BY <1>1 DEF Linked, TopKinds
<1>7. ChainOk(x, rs)
  BY <1>1, <1>2, <1>5, <1>6, FourShape
<1>9. /\ x \in Seq(Ops) /\ x # <<>> /\ x[1] = a /\ x \o rest # <<>> /\ x[Len(x)] = d
      /\ x \o rest \in Seq(Ops) /\ (x \o rest)[1] = x[1]
  BY <1>1, <1>2, FourFirst
<1>10. Joint(x, rest)
  <2>1. rest[1].do = "return"
    OBVIOUS
  <2> QED
    BY <1>1, <1>9, <2>1 DEF Joint, Linked, TopKinds
<1>11. Shape(x \o rest, rs)
  BY <1>7, <1>9, <1>10, ChainCat, ClosedCat, ShapeIs
<1>12. AssignsOwn(x \o rest)
  <2>1. /\ a \notin Assigns /\ b \notin Assigns /\ c \notin Assigns /\ d \notin Assigns
        /\ a \notin Returns /\ b \notin Returns /\ c \notin Returns /\ d \notin Returns
    BY <1>1, KindSets
  <2>2. At(x, Assigns) = {} /\ At(x, Returns) = {}
    BY <1>2, <1>9, <2>1 DEF At, IsFour
  <2>3. Vals(x, Assigns, PaOf) = {} /\ Vals(x, Returns, VaOf) = {}
    BY <2>2 DEF Vals
  <2>4. /\ Vals(x \o rest, Assigns, PaOf) = Vals(x, Assigns, PaOf) \union Vals(rest, Assigns, PaOf)
        /\ Vals(x \o rest, Returns, VaOf) = Vals(x, Returns, VaOf) \union Vals(rest, Returns, VaOf)
    BY <1>9, CatVals
  <2> QED
    BY <2>3, <2>4 DEF AssignsOwn
<1> QED
  BY <1>1, <1>4, <1>9, <1>11, <1>12 DEF IsCall, x

\* One for pages of the dynamic area.
LEMMA DynIsCall ==
  ASSUME NEW va \in Area("dynamic"), NEW n \in Nat \ {0}, Run(va, n) \subseteq Area("dynamic"), NEW rs
  PROVE  IsCall(DynTail(va, n), va, n, <<>>, rs)
<1> DEFINE x == DynTail(va, n)
           a == Op("push_rva", va, NoPage, n)
           b == Op("assign", va, va, n)
           c == Op("fill", 1, NoPage, 0)
           d == Op("return", va, NoPage, n)
<1>0. va \in Int /\ va \in Nat /\ n \in Int /\ NoPage \in Int /\ 0 \in Int /\ 1 \in Int /\ n >= 1 /\ 1 \in Nat /\ va >= KmapPages
  BY SmallInts, RangesAssumption DEF Area
<1>1. /\ a \in Ops /\ a.do = "push_rva" /\ a.va = va /\ a.n = n
      /\ b \in Ops /\ b.do = "assign" /\ b.va = va /\ b.pa = va /\ b.n = n
      /\ c \in Ops /\ c.do = "fill" /\ c.va = 1
      /\ d \in Ops /\ d.do = "return" /\ d.va = va /\ d.n = n
  BY <1>0, OpIn DEF OpKinds
<1>2. IsFour(x, a, b, c, d)
  <2>1. x = <<a, b, c, d>>
    BY DEF DynTail
  <2> HIDE DEF x, a, b, c, d
  <2> QED
    BY <1>1, <2>1, FourEntries DEF IsFour
<1> HIDE DEF x, a, b, c, d
<1>3. Quiet(b) /\ Quiet(c)
  BY <1>1 DEF Quiet, PushKinds, Pools
<1>4. Sums(x, Run(va, n), {va}) /\ (\A k \in Pools : SlotSums(x, k, {})) /\ (\A X : KnownIn(x, X))
  <2>1. Sums(x, Run(a.va, a.n), {a.va}) /\ (\A k \in Pools : SlotSums(x, k, {})) /\ (\A X : KnownIn(x, X))
    BY <1>1, <1>2, <1>3, PushAndClaim
  <2> QED
    BY <1>1, <2>1
<1>5. EntryOk(a, rs) /\ EntryOk(b, rs) /\ EntryOk(c, rs) /\ EntryOk(d, rs)
  <2>1. ListOf(va) = "dynamic"
    BY <1>0, RangesAssumption DEF ListOf
  <2> QED
    BY <1>0, <1>1, <2>1 DEF EntryOk, Sized, PushKinds
<1>6. Linked(a, b) /\ Linked(b, c) /\ Linked(c, d)
  BY <1>1 DEF Linked, TopKinds
<1>7. ChainOk(x, rs)
  BY <1>1, <1>2, <1>5, <1>6, FourShape
<1>8. <<>> \in Seq(Ops)
  OBVIOUS
<1>9. x \in Seq(Ops) /\ x # <<>> /\ x[1] = a /\ x \o <<>> # <<>> /\ x[Len(x)] = d
  <2>1. ASSUME NEW s \in Seq(Ops)
        PROVE  x \in Seq(Ops) /\ x # <<>> /\ x[1] = a /\ x \o s # <<>> /\ x[Len(x)] = d
    BY <1>1, <1>2, FourFirst
  <2> QED
    BY <1>8, <2>1
<1>10. x \o <<>> = x
  BY <1>9
<1>11. Shape(x, rs)
  BY <1>1, <1>7, <1>9, ShapeIs DEF Closed, Leads
<1>12. AssignsOwn(x)
  <2>1. a \notin Assigns /\ b \in Assigns /\ c \notin Assigns /\ d \notin Assigns
        /\ a \notin Returns /\ b \notin Returns /\ c \notin Returns /\ d \in Returns
    BY <1>1, KindSets
  <2>2. At(x, Assigns) = {2} /\ At(x, Returns) = {4}
    BY <1>2, <1>9, <2>1 DEF At, IsFour
  <2>3. PaOf[b] = va /\ VaOf[d] = va
    BY <1>1 DEF PaOf, VaOf
  <2>4. Vals(x, Assigns, PaOf) = {va} /\ Vals(x, Returns, VaOf) = {va}
    BY <1>2, <2>2, <2>3 DEF Vals, IsFour
  <2> QED
    BY <2>4 DEF AssignsOwn
<1> QED
  BY <1>1, <1>4, <1>9, <1>10, <1>11, <1>12 DEF IsCall, x

\* The operation that gives a slot back to its pool.
LEMMA FreeNodeIs ==
  ASSUME NEW k \in Pools, NEW s \in Places
  PROVE  /\ FreeNodeOp(k, s) \in Ops /\ FreeNodeOp(k, s).do = k
         /\ FreeNodeOp(k, s).va = s[1] /\ FreeNodeOp(k, s).pa = s[2]
         /\ PlaceOf[FreeNodeOp(k, s)] = s /\ s[1] \in Pages /\ s[2] \in Nat /\ s = <<s[1], s[2]>>
<1>1. s[1] \in Pages /\ s[2] \in Nat /\ s = <<s[1], s[2]>>
  BY DEF Places
<1>2. s[1] \in Int /\ s[2] \in Int /\ 0 \in Int /\ k \in OpKinds
  BY <1>1, SmallInts DEF OpKinds, Pools
<1> QED
  BY <1>1, <1>2, OpIn, ClaimIs DEF FreeNodeOp

\* An entry that frees the slot of a node.
LEMMA OneFreed ==
  ASSUME NEW k \in Pools, NEW s \in Places, NEW rs
  PROVE  /\ <<FreeNodeOp(k, s)>> \in Seq(Ops) /\ AllPlain(<<FreeNodeOp(k, s)>>, rs)
         /\ Sums(<<FreeNodeOp(k, s)>>, {}, {}) /\ (\A X : KnownIn(<<FreeNodeOp(k, s)>>, X))
         /\ SlotSums(<<FreeNodeOp(k, s)>>, k, {s})
         /\ \A m \in Pools : m # k => SlotSums(<<FreeNodeOp(k, s)>>, m, {})
<1> DEFINE o == FreeNodeOp(k, s)
<1>1. o \in Ops /\ o.do = k /\ o.va = s[1] /\ o.pa = s[2] /\ s = <<o.va, o.pa>>
  BY FreeNodeIs
<1> HIDE DEF o
<1>2. o.do \in Pools
  BY <1>1
<1>3. Sums(<<o>>, {}, {})
  <2>1. o.do \notin PushKinds /\ o.do \notin {"keep", "return", "kfree", "pop_rva"}
    BY <1>2 DEF Pools, PushKinds
  <2> QED
    BY <1>1, <2>1, OneSum
<1>4. \A m \in Pools : SlotSums(<<o>>, m, IF m = k THEN {s} ELSE {})
  BY <1>1, OneSum
<1>5. <<o>> \in Seq(Ops) /\ Len(<<o>>) = 1 /\ <<o>>[1] = o
  BY <1>1
<1>6. AllPlain(<<o>>, rs)
  <2>1. EntryOk(o, rs) /\ o.do \in Plain
    BY <1>2 DEF EntryOk, Sized, PushKinds, Plain, OpKinds, Leads, Pools
  <2> QED
    BY <1>5, <2>1 DEF AllPlain
<1>7. \A X : KnownIn(<<o>>, X)
  <2>1. o \notin Claims
    BY <1>1, <1>2, KindSets DEF Pools
  <2>2. At(<<o>>, Claims) = {}
    BY <1>1, <2>1, OneEntry
  <2> QED
    BY <2>2 DEF KnownIn
<1> QED
  BY <1>3, <1>4, <1>5, <1>6, <1>7 DEF o

\* And those that free a slot for each member of a list.
PlacesDistinct(pas) == \A i, j \in DOMAIN pas : pas[i].at = pas[j].at => i = j
Freed(pas) == [j \in DOMAIN pas |-> FreeNodeOp("mdt", pas[j].at)]

\* The operations that give back the records of a range: one slot each, nothing else.
LEMMA ManyFreed ==
  ASSUME NEW pas \in Seq(MdtNodes), PlacesDistinct(pas), NEW rs
  PROVE  /\ Freed(pas) \in Seq(Ops) /\ AllPlain(Freed(pas), rs)
         /\ Sums(Freed(pas), {}, {}) /\ (\A X : KnownIn(Freed(pas), X))
         /\ SlotSums(Freed(pas), "mdt", PlacesIn(ToSet(pas)))
         /\ \A m \in Pools : m # "mdt" => SlotSums(Freed(pas), m, {})
<1> DEFINE q == Freed(pas)
<1>1. ASSUME NEW j \in DOMAIN pas
      PROVE  q[j] \in Ops /\ q[j].do = "mdt" /\ PlaceOf[q[j]] = pas[j].at
  <2>1. pas[j] \in MdtNodes
    OBVIOUS
  <2>2. pas[j].at \in Places /\ "mdt" \in Pools
    BY <2>1 DEF MdtNodes, Pools
  <2>3. q[j] = FreeNodeOp("mdt", pas[j].at)
    BY DEF Freed
  <2> HIDE DEF q
  <2> QED
    BY <2>2, <2>3, FreeNodeIs
<1>2. DOMAIN q = 1 .. Len(pas) /\ DOMAIN pas = 1 .. Len(pas) /\ Len(pas) \in Nat
  BY DEF Freed
<1>3. q \in Seq(Ops) /\ Len(q) = Len(pas)
  <2>1. q \in [1 .. Len(pas) -> Ops]
    <3>1. q = [j \in DOMAIN pas |-> FreeNodeOp("mdt", pas[j].at)]
      BY DEF Freed
    <3>2. \A j \in DOMAIN pas : FreeNodeOp("mdt", pas[j].at) \in Ops
      BY <1>1, <3>1
    <3> HIDE DEF q
    <3> QED
      BY <1>2, <3>1, <3>2
  <2> HIDE DEF q
  <2> QED
    BY <1>2, <2>1
<1> HIDE DEF q
<1>4. ASSUME NEW j \in 1 .. Len(q)
      PROVE  q[j] \in Ops /\ q[j].do = "mdt"
  BY <1>1, <1>2, <1>3
<1>5. Sums(q, {}, {}) /\ (\A X : KnownIn(q, X))
  <2>1. ASSUME NEW j \in DOMAIN q
        PROVE  q[j] \notin Pushes /\ q[j] \notin Claims
    <3>1. q[j] \in Ops /\ q[j].do = "mdt"
      BY <1>1, <1>2
    <3> QED
      BY <3>1, KindSets DEF PushKinds
  <2>2. At(q, Pushes) = {} /\ At(q, Claims) = {}
    BY <2>1 DEF At
  <2>3. /\ PagesIn(q, Pushes) = {} /\ PagesApart(q, Pushes)
        /\ Vals(q, Claims, ClaimOf) = {} /\ Once(q, Claims, ClaimOf)
    BY <2>2 DEF PagesIn, PagesApart, Vals, Once
  <2> QED
    BY <1>3, <2>2, <2>3 DEF Sums, Claimed, KnownIn
<1>6. ASSUME NEW m \in Pools, m # "mdt"
      PROVE  SlotSums(q, m, {})
  <2>1. At(q, SlotOps(m)) = {}
    BY <1>1, <1>2, <1>6, KindSets DEF At
  <2> QED
    BY <1>3, <2>1 DEF SlotSums, Vals, Once
<1>7. SlotSums(q, "mdt", PlacesIn(ToSet(pas)))
  <2>1. At(q, SlotOps("mdt")) = 1 .. Len(pas)
    BY <1>1, <1>2, KindSets DEF At
  <2>2. Once(q, SlotOps("mdt"), PlaceOf)
    <3> SUFFICES ASSUME NEW i \in 1 .. Len(pas), NEW j \in 1 .. Len(pas), PlaceOf[q[i]] = PlaceOf[q[j]]
                 PROVE  i = j
      BY <2>1 DEF Once
    <3>1. pas[i].at = pas[j].at
      BY <1>1, <1>2
    <3> QED
      BY <1>2, <3>1 DEF PlacesDistinct
  <2>3. Vals(q, SlotOps("mdt"), PlaceOf) = PlacesIn(ToSet(pas))
    <3>1. \A x : x \in Vals(q, SlotOps("mdt"), PlaceOf) <=> \E i \in 1 .. Len(pas) : x = PlaceOf[q[i]]
      BY <2>1 DEF Vals
    <3>2. \A x : x \in PlacesIn(ToSet(pas)) <=> \E i \in 1 .. Len(pas) : x = pas[i].at
      BY <1>2 DEF PlacesIn, ToSet
    <3>3. \A i \in 1 .. Len(pas) : PlaceOf[q[i]] = pas[i].at
      BY <1>1, <1>2
    <3> QED
      BY <3>1, <3>2, <3>3
  <2> QED
    BY <1>3, <2>2, <2>3 DEF SlotSums
<1>8. AllPlain(q, rs)
  <2>1. ASSUME NEW j \in 1 .. Len(q)
        PROVE  EntryOk(q[j], rs) /\ q[j].do \in Plain /\ q[j].do \notin TopKinds
    <3>1. q[j].do = "mdt"
      BY <1>4
    <3> QED
      BY <3>1 DEF EntryOk, Sized, PushKinds, Plain, OpKinds, Leads, TopKinds
  <2> QED
    BY <1>3, <2>1 DEF AllPlain
<1> QED
  BY <1>3, <1>5, <1>6, <1>7, <1>8 DEF q

\* Plain operations on plain operations.
LEMMA AllPlainCat ==
  ASSUME NEW rs, NEW a, NEW b, AllPlain(a, rs), AllPlain(b, rs), b # <<>> => b[1].do \notin TopKinds
  PROVE  AllPlain(a \o b, rs)
<1> DEFINE c == a \o b
<1>1. a \in Seq(Ops) /\ b \in Seq(Ops)
  BY DEF AllPlain
<1>2. ASSUME NEW i \in 1 .. Len(c)
      PROVE  EntryOk(c[i], rs) /\ c[i].do \in Plain /\ (i > 1 => c[i].do \notin TopKinds)
  <2>1. CASE i \in 1 .. Len(a)
    <3>1. c[i] = a[i]
      BY <1>1, <2>1
    <3> HIDE DEF c
    <3> QED
      BY <2>1, <3>1 DEF AllPlain
  <2>2. CASE i \notin 1 .. Len(a)
    <3>1. i - Len(a) \in 1 .. Len(b) /\ c[i] = b[i - Len(a)] /\ b # <<>>
      BY <1>1, <2>2
    <3>2. b[i - Len(a)].do \notin TopKinds
      <4>1. CASE i - Len(a) = 1
        BY <3>1, <4>1
      <4>2. CASE i - Len(a) # 1
        <5>1. i - Len(a) > 1
          BY <3>1, <4>2
        <5> HIDE DEF c
        <5> QED
          BY <3>1, <5>1 DEF AllPlain
      <4> QED
        BY <4>1, <4>2
    <3> HIDE DEF c
    <3> QED
      BY <3>1, <3>2 DEF AllPlain
  <2> QED
    BY <2>1, <2>2
<1>3. c \in Seq(Ops)
  BY <1>1
<1> QED
  BY <1>2, <1>3 DEF AllPlain

\* One plain operation.
LEMMA OnePlain ==
  ASSUME NEW o \in Ops, NEW rs, EntryOk(o, rs), o.do \in Plain
  PROVE  AllPlain(<<o>>, rs) /\ <<o>> # <<>> /\ <<o>>[1] = o /\ <<o>> \in Seq(Ops)
<1>1. <<o>> \in Seq(Ops) /\ Len(<<o>>) = 1 /\ <<o>>[1] = o /\ <<o>> # <<>>
  OBVIOUS
<1> QED
  BY <1>1 DEF AllPlain

\* No operation at all is plain.
LEMMA NoPlain == \A rs : AllPlain(<<>>, rs)
BY DEF AllPlain

\* What raw_kfree has yet to do once the range is unlinked.
IsFreeing(x, va, n, rs) ==
  /\ x \in Seq(Ops) /\ AllPlain(x, rs) /\ Sums(x, Run(va, n), {})
  /\ (\A k \in Pools : SlotSums(x, k, {})) /\ (\A X : KnownIn(x, X))
  /\ x # <<>> /\ x[1].do \notin TopKinds

Silent(x) == Sums(x, {}, {}) /\ (\A k \in Pools : SlotSums(x, k, {})) /\ (\A X : KnownIn(x, X))

\* An operation without page, claim or slot.
LEMMA OneSilent ==
  ASSUME NEW o \in Ops, Quiet(o)
  PROVE  Silent(<<o>>)
<1>1. Sums(<<o>>, {}, {})
  <2>1. o.do \notin PushKinds /\ o.do \notin {"keep", "return", "kfree", "pop_rva"}
    BY DEF Quiet
  <2> QED
    BY <2>1, OneSum
<1>2. \A k \in Pools : SlotSums(<<o>>, k, {})
  <2>1. \A k \in Pools : o.do # k
    BY DEF Quiet
  <2> QED
    BY <2>1, OneSum
<1>3. \A X : KnownIn(<<o>>, X)
  <2>1. o \notin Claims
    BY KindSets DEF Quiet
  <2>2. At(<<o>>, Claims) = {}
    BY <2>1, OneEntry
  <2> QED
    BY <2>2 DEF KnownIn
<1> QED
  BY <1>1, <1>2, <1>3 DEF Silent

\* No operation at all is silent.
LEMMA NoneSilent == Silent(<<>>)
<1>1. \A X : KnownIn(<<>>, X)
  BY DEF KnownIn, At
<1> QED
  BY <1>1, NoSums DEF Silent

\* Silent operations on silent operations.
LEMMA SilentCat ==
  ASSUME NEW a, NEW b, Silent(a), Silent(b)
  PROVE  Silent(a \o b)
<1>1. a \in Seq(Ops) /\ b \in Seq(Ops)
  BY DEF Silent, Sums
<1>2. Sums(a \o b, {}, {})
  <2>1. Sums(a \o b, {} \union {}, {} \union {})
    BY SumsCat DEF Silent
  <2>2. {} \union {} = {}
    OBVIOUS
  <2> QED
    BY <2>1, <2>2
<1>3. ASSUME NEW k \in Pools
      PROVE  SlotSums(a \o b, k, {})
  <2>1. SlotSums(a \o b, k, {} \union {})
    BY SlotSumsCat DEF Silent
  <2>2. {} \union {} = {}
    OBVIOUS
  <2> QED
    BY <2>1, <2>2
<1>4. \A X : KnownIn(a \o b, X)
  BY <1>1, KnownCat DEF Silent
<1> QED
  BY <1>2, <1>3, <1>4 DEF Silent

\* What raw_kfree leaves to do once the range is out of the tree.
LEMMA FreeIsFreeing ==
  ASSUME NEW va \in Va, NEW n \in Nat \ {0}, Run(va, n) \subseteq Area(ListOf(va)), NEW rs
  PROVE  IsFreeing(FreeTail(va, n), va, n, rs)
<1> DEFINE a == Op("push_fva", va, NoPage, n)
           b == Op("page_free", va, va, n)
           c == Op("unmap", va, NoPage, n)
           m == IF ListOf(va) = "kmap" THEN <<b>> ELSE <<>>
<1>1. va \in Int /\ n \in Int /\ NoPage \in Int /\ n >= 1
  BY SmallInts, RangesAssumption DEF Va
<1>2. /\ a \in Ops /\ a.do = "push_fva" /\ a.va = va /\ a.n = n
      /\ b \in Ops /\ b.do = "page_free" /\ b.va = va /\ b.pa = va /\ b.n = n
      /\ c \in Ops /\ c.do = "unmap" /\ c.va = va /\ c.n = n
  BY <1>1, OpIn DEF OpKinds
<1>3. FreeTail(va, n) = <<a>> \o (m \o <<c>>)
  BY DEF FreeTail
<1> HIDE DEF a, b, c
<1>4. EntryOk(a, rs) /\ EntryOk(b, rs) /\ EntryOk(c, rs) /\ a.do \in Plain /\ b.do \in Plain /\ c.do \in Plain
  BY <1>1, <1>2 DEF EntryOk, Sized, PushKinds, Plain, OpKinds, Leads
<1>5. Silent(<<b>>) /\ Silent(<<c>>)
  <2>1. Quiet(b) /\ Quiet(c)
    BY <1>2 DEF Quiet, PushKinds, Pools
  <2> QED
    BY <1>2, <2>1, OneSilent
<1>6. Silent(m) /\ AllPlain(m, rs)
  BY <1>2, <1>4, <1>5, NoneSilent, OnePlain, NoPlain
<1> HIDE DEF m
<1>7. Silent(m \o <<c>>)
  BY <1>5, <1>6, SilentCat
<1>8. AllPlain(m \o <<c>>, rs)
  <2>1. AllPlain(<<c>>, rs) /\ <<c>>[1].do \notin TopKinds
    BY <1>2, <1>4, OnePlain DEF TopKinds
  <2> QED
    BY <1>6, <2>1, AllPlainCat
<1> DEFINE y == m \o <<c>>
           x == <<a>> \o y
<1> HIDE DEF y
<1>9. y \in Seq(Ops) /\ (y # <<>> => y[1].do \notin TopKinds)
  <2>1. y \in Seq(Ops)
    BY <1>8 DEF AllPlain, y
  <2>2. m \in Seq(Ops) /\ <<c>> \in Seq(Ops) /\ Len(<<c>>) = 1 /\ <<c>>[1] = c
    BY <1>2, <1>6 DEF AllPlain
  <2>3. y[1] = IF m = <<>> THEN c ELSE m[1]
    BY <2>2 DEF y
  <2>4. m # <<>> => m[1] = b
    BY <1>2 DEF m
  <2> QED
    BY <1>2, <2>1, <2>3, <2>4 DEF TopKinds
<1>10. AllPlain(x, rs)
  <2>1. AllPlain(<<a>>, rs)
    BY <1>2, <1>4, OnePlain
  <2>2. AllPlain(y, rs)
    BY <1>8 DEF y
  <2> QED
    BY <1>9, <2>1, <2>2, AllPlainCat
<1>11. Silent(y)
  BY <1>7 DEF y
<1>12. Sums(<<a>>, Run(va, n), {}) /\ (\A k \in Pools : SlotSums(<<a>>, k, {})) /\ (\A X : KnownIn(<<a>>, X))
  <2>1. Sums(<<a>>, Run(va, n), {})
    BY <1>2, OneSum DEF PushKinds
  <2>2. \A k \in Pools : SlotSums(<<a>>, k, {})
    <3>1. \A k \in Pools : a.do # k
      BY <1>2 DEF Pools
    <3> QED
      BY <1>2, <3>1, OneSum
  <2>3. a \notin Claims
    BY <1>2, KindSets
  <2>4. At(<<a>>, Claims) = {}
    BY <1>2, <2>3, OneEntry
  <2> QED
    BY <2>1, <2>2, <2>4 DEF KnownIn
<1>13. Sums(x, Run(va, n), {})
  <2>1. Sums(x, Run(va, n) \union {}, {} \union {})
    BY <1>11, <1>12, SumsCat DEF Silent
  <2>2. Run(va, n) \union {} = Run(va, n) /\ {} \union {} = {}
    OBVIOUS
  <2> QED
    BY <2>1, <2>2
<1>14. ASSUME NEW k \in Pools
       PROVE  SlotSums(x, k, {})
  <2>1. SlotSums(x, k, {} \union {})
    BY <1>11, <1>12, SlotSumsCat DEF Silent
  <2>2. {} \union {} = {}
    OBVIOUS
  <2> QED
    BY <2>1, <2>2
<1>15. <<a>> \in Seq(Ops) /\ Len(<<a>>) = 1 /\ <<a>>[1] = a
  BY <1>2
<1>16. \A X : KnownIn(x, X)
  BY <1>9, <1>11, <1>12, <1>15, KnownCat DEF Silent
<1>17. x \in Seq(Ops) /\ x # <<>> /\ x[1].do \notin TopKinds
  <2>1. x \in Seq(Ops) /\ x # <<>> /\ x[1] = a
    BY <1>9, <1>15
  <2> QED
    BY <1>2, <2>1 DEF TopKinds
<1>18. IsFreeing(x, va, n, rs)
  BY <1>10, <1>13, <1>14, <1>16, <1>17 DEF IsFreeing
<1> QED
  BY <1>3, <1>18 DEF y

-----------------------------------------------------------------------------
(* The part of the invariant about ranges. *)

ClaimKinds == {"keep", "return", "kfree", "pop_rva"}
HeadPages(o) == IF o.do \in PushKinds THEN Run(o.va, o.n) ELSE {}
HeadClaim(o) == IF o.do \in ClaimKinds THEN {ClaimOf[o]} ELSE {}
HeadSlot(o, k) == IF o.do = k THEN {<<o.va, o.pa>>} ELSE {}

\* The pages and the claims of the rest of the stack.
LEMMA TailSums ==
  ASSUME NEW e \in Seq(Ops), e # <<>>, PagesApart(e, Pushes), Once(e, Claims, ClaimOf)
  PROVE  /\ Sums(Tail(e), PagesIn(e, Pushes) \ HeadPages(Head(e)), Claimed(e) \ HeadClaim(Head(e)))
         /\ HeadPages(Head(e)) \subseteq PagesIn(e, Pushes) /\ HeadClaim(Head(e)) \subseteq Claimed(e)
<1> DEFINE h == Head(e)
           b == Tail(e)
<1>1. h \in Ops /\ b \in Seq(Ops)
  BY HeadTail
<1>2. /\ h \in Pushes <=> h.do \in PushKinds
      /\ h \in Claims <=> h.do \in ClaimKinds
  BY <1>1, KindSets DEF ClaimKinds
<1>3. /\ h \in Pushes => PagesIn(e, Pushes) = PagesIn(b, Pushes) \union Run(h.va, h.n)
      /\ h \notin Pushes => PagesIn(e, Pushes) = PagesIn(b, Pushes)
      /\ PagesApart(b, Pushes)
      /\ h \in Pushes => PagesIn(b, Pushes) \cap Run(h.va, h.n) = {}
  BY DroppedPages
<1>4. /\ h \in Claims => Claimed(e) = Claimed(b) \union {ClaimOf[h]}
      /\ h \notin Claims => Claimed(e) = Claimed(b)
      /\ Once(b, Claims, ClaimOf)
      /\ h \in Claims => ClaimOf[h] \notin Claimed(b)
  BY Dropped DEF Claimed
<1> HIDE DEF h, b
<1>5. PagesIn(b, Pushes) = PagesIn(e, Pushes) \ HeadPages(h) /\ HeadPages(h) \subseteq PagesIn(e, Pushes)
  BY <1>2, <1>3 DEF HeadPages
<1>6. Claimed(b) = Claimed(e) \ HeadClaim(h) /\ HeadClaim(h) \subseteq Claimed(e)
  BY <1>2, <1>4 DEF HeadClaim
<1>7. Sums(b, PagesIn(e, Pushes) \ HeadPages(h), Claimed(e) \ HeadClaim(h))
  BY <1>1, <1>3, <1>4, <1>5, <1>6 DEF Sums
<1> QED
  BY <1>5, <1>6, <1>7 DEF h, b

\* The slots the rest of the stack gives back.
LEMMA TailSlots ==
  ASSUME NEW e \in Seq(Ops), e # <<>>, NEW k, Once(e, SlotOps(k), PlaceOf)
  PROVE  /\ SlotSums(Tail(e), k, Vals(e, SlotOps(k), PlaceOf) \ HeadSlot(Head(e), k))
         /\ HeadSlot(Head(e), k) \subseteq Vals(e, SlotOps(k), PlaceOf)
<1> DEFINE h == Head(e)
           b == Tail(e)
<1>1. h \in Ops /\ b \in Seq(Ops)
  BY HeadTail
<1>2. (h \in SlotOps(k) <=> h.do = k) /\ PlaceOf[h] = <<h.va, h.pa>>
  BY <1>1, KindSets, ClaimIs
<1>4. /\ h \in SlotOps(k) => Vals(e, SlotOps(k), PlaceOf) = Vals(b, SlotOps(k), PlaceOf) \union {PlaceOf[h]}
      /\ h \notin SlotOps(k) => Vals(e, SlotOps(k), PlaceOf) = Vals(b, SlotOps(k), PlaceOf)
      /\ Once(b, SlotOps(k), PlaceOf)
      /\ h \in SlotOps(k) => PlaceOf[h] \notin Vals(b, SlotOps(k), PlaceOf)
  BY Dropped
<1> HIDE DEF h, b
<1>6. Vals(b, SlotOps(k), PlaceOf) = Vals(e, SlotOps(k), PlaceOf) \ HeadSlot(h, k)
      /\ HeadSlot(h, k) \subseteq Vals(e, SlotOps(k), PlaceOf)
  BY <1>2, <1>4 DEF HeadSlot
<1>7. SlotSums(b, k, Vals(e, SlotOps(k), PlaceOf) \ HeadSlot(h, k))
  BY <1>1, <1>4, <1>6 DEF SlotSums
<1> QED
  BY <1>6, <1>7 DEF h, b

\* The pages and the claims of the stack when its top is replaced.
LEMMA NextSums ==
  ASSUME NEW e \in Seq(Ops), e # <<>>, PagesApart(e, Pushes), Once(e, Claims, ClaimOf),
         NEW a, NEW p, NEW c, Sums(a, p, c),
         p \cap (PagesIn(e, Pushes) \ HeadPages(Head(e))) = {},
         c \cap (Claimed(e) \ HeadClaim(Head(e))) = {}
  PROVE  Sums(a \o Tail(e), p \union (PagesIn(e, Pushes) \ HeadPages(Head(e))),
              c \union (Claimed(e) \ HeadClaim(Head(e))))
BY TailSums, SumsCat

-----------------------------------------------------------------------------
(* Changes of one list. *)

\* The two areas of addresses have no page in common and are all there is.
LEMMA AreasApart ==
  /\ Area("kmap") \cap Area("dynamic") = {} /\ Area("kmap") = Pages
  /\ Area("kmap") \union Area("dynamic") = Va
  /\ \A va \in Va : va \in Area(ListOf(va)) /\ ListOf(va) \in Lists
  /\ \A l \in Lists : \A va \in Area(l) : ListOf(va) = l /\ va \in Va /\ va \in Nat
<1>1. KmapPages \in Nat /\ DynPages \in Nat
  BY RangesAssumption
<1> QED
  BY <1>1 DEF Area, ListOf, Va, Pages, Lists

\* A list that loses pages.
LEMMA CoverLess ==
  ASSUME NEW F, NEW F2, NEW l \in Lists, NEW X, InAreas(F, F), X \subseteq Cover(F[l]),
         Cover(F2[l]) = Cover(F[l]) \ X, \A m \in Lists : m # l => F2[m] = F[m]
  PROVE  CoverAll(F2) = CoverAll(F) \ X /\ X \subseteq CoverAll(F) /\ (\A m \in Lists : Cover(F2[m]) \subseteq Area(m))
<1>1. Cover(F["kmap"]) \cap Cover(F["dynamic"]) = {}
  BY AreasApart DEF InAreas, Lists
<1>2. \A m \in Lists : Cover(F2[m]) \subseteq Cover(F[m])
  OBVIOUS
<1> QED
  BY <1>1, <1>2 DEF CoverAll, Lists, InAreas

\* A list that gains pages.
LEMMA CoverMore ==
  ASSUME NEW F, NEW F2, NEW l \in Lists, NEW X, InAreas(F, F), X \subseteq Area(l),
         Cover(F2[l]) = Cover(F[l]) \union X, \A m \in Lists : m # l => F2[m] = F[m]
  PROVE  CoverAll(F2) = CoverAll(F) \union X /\ (\A m \in Lists : Cover(F2[m]) \subseteq Area(m))
<1>1. \A m \in Lists : Cover(F2[m]) \subseteq Area(m)
  BY DEF InAreas
<1> QED
  BY <1>1 DEF CoverAll, Lists

OneList(F, F2, l) == \A m \in Lists : m # l => F2[m] = F[m]
NotPopping(f) == f # <<>> => Head(f).do # "pop_rva"

\* A range leaves the free ranges and is yet to be registered.
LEMMA ListsPop ==
  ASSUME NEW F, NEW R, NEW e, NEW F2, NEW f, NEW l \in Lists, NEW X, NEW c,
         ListsInv(F, R, e), Spaced(F2[l], 1), Cover(F2[l]) = Cover(F[l]) \ X, X \subseteq Cover(F[l]),
         OneList(F, F2, l), Sums(f, X \union PagesIn(e, Pushes), c), NotPopping(f)
  PROVE  ListsInv(F2, R, f)
<1>1. InAreas(F, F)
  BY DEF ListsInv, InAreas
<1>2. CoverAll(F2) = CoverAll(F) \ X /\ X \subseteq CoverAll(F) /\ (\A m \in Lists : Cover(F2[m]) \subseteq Area(m))
  BY <1>1, CoverLess DEF OneList
<1>3. InOrder(F2, R)
  BY DEF InOrder, ListsInv, OneList
<1>4. InAreas(F2, R)
  BY <1>2 DEF InAreas, ListsInv
<1>5. Ranges(F2, R, f)
  <2>1. PagesIn(f, Pushes) = X \union PagesIn(e, Pushes) /\ PagesApart(f, Pushes)
    BY DEF Sums
  <2>2. Ranges(F, R, e)
    BY DEF ListsInv
  <2> QED
    BY <1>2, <2>1, <2>2 DEF Ranges
<1>6. PoppedNode(R, f)
  BY DEF NotPopping, PoppedNode
<1> QED
  BY <1>3, <1>4, <1>5, <1>6 DEF ListsInv

\* A range that was to be registered is.
LEMMA ListsPushRva ==
  ASSUME NEW F, NEW R, NEW e, NEW R2, NEW f, NEW l \in Lists, NEW X, NEW c,
         ListsInv(F, R, e), Spaced(R2[l], 0), Cover(R2[l]) = Cover(R[l]) \union X, X \subseteq Area(l),
         X \subseteq PagesIn(e, Pushes),
         OneList(R, R2, l), Sums(f, PagesIn(e, Pushes) \ X, c), NotPopping(f)
  PROVE  ListsInv(F, R2, f)
<1>1. InAreas(R, R)
  BY DEF ListsInv, InAreas
<1>2. CoverAll(R2) = CoverAll(R) \union X /\ (\A m \in Lists : Cover(R2[m]) \subseteq Area(m))
  BY <1>1, CoverMore DEF OneList
<1>3. InOrder(F, R2)
  BY DEF InOrder, ListsInv, OneList
<1>4. InAreas(F, R2)
  BY <1>2 DEF InAreas, ListsInv
<1>5. Ranges(F, R2, f)
  <2>1. PagesIn(f, Pushes) = PagesIn(e, Pushes) \ X /\ PagesApart(f, Pushes)
    BY DEF Sums
  <2>2. Ranges(F, R, e)
    BY DEF ListsInv
  <2> QED
    BY <1>2, <2>1, <2>2 DEF Ranges
<1>6. PoppedNode(R2, f)
  BY DEF NotPopping, PoppedNode
<1> QED
  BY <1>3, <1>4, <1>5, <1>6 DEF ListsInv

\* A range leaves the reserved ranges and is yet to be free.
LEMMA ListsPopRva ==
  ASSUME NEW F, NEW R, NEW e, NEW R2, NEW f, NEW l \in Lists, NEW X, NEW c,
         ListsInv(F, R, e), Spaced(R2[l], 0), Cover(R2[l]) = Cover(R[l]) \ X, X \subseteq Cover(R[l]),
         OneList(R, R2, l), Sums(f, X \union PagesIn(e, Pushes), c), NotPopping(f)
  PROVE  ListsInv(F, R2, f)
<1>1. InAreas(R, R)
  BY DEF ListsInv, InAreas
<1>2. CoverAll(R2) = CoverAll(R) \ X /\ X \subseteq CoverAll(R) /\ (\A m \in Lists : Cover(R2[m]) \subseteq Area(m))
  BY <1>1, CoverLess DEF OneList
<1>3. InOrder(F, R2)
  BY DEF InOrder, ListsInv, OneList
<1>4. InAreas(F, R2)
  BY <1>2 DEF InAreas, ListsInv
<1>5. Ranges(F, R2, f)
  <2>1. PagesIn(f, Pushes) = X \union PagesIn(e, Pushes) /\ PagesApart(f, Pushes)
    BY DEF Sums
  <2>2. Ranges(F, R, e)
    BY DEF ListsInv
  <2> QED
    BY <1>2, <2>1, <2>2 DEF Ranges
<1>6. PoppedNode(R2, f)
  BY DEF NotPopping, PoppedNode
<1> QED
  BY <1>3, <1>4, <1>5, <1>6 DEF ListsInv

\* A range that was to be free is.
LEMMA ListsPushFva ==
  ASSUME NEW F, NEW R, NEW e, NEW F2, NEW f, NEW l \in Lists, NEW X, NEW c,
         ListsInv(F, R, e), Spaced(F2[l], 1), Cover(F2[l]) = Cover(F[l]) \union X, X \subseteq Area(l),
         X \subseteq PagesIn(e, Pushes),
         OneList(F, F2, l), Sums(f, PagesIn(e, Pushes) \ X, c), NotPopping(f)
  PROVE  ListsInv(F2, R, f)
<1>1. InAreas(F, F)
  BY DEF ListsInv, InAreas
<1>2. CoverAll(F2) = CoverAll(F) \union X /\ (\A m \in Lists : Cover(F2[m]) \subseteq Area(m))
  BY <1>1, CoverMore DEF OneList
<1>3. InOrder(F2, R)
  BY DEF InOrder, ListsInv, OneList
<1>4. InAreas(F2, R)
  BY <1>2 DEF InAreas, ListsInv
<1>5. Ranges(F2, R, f)
  <2>1. PagesIn(f, Pushes) = PagesIn(e, Pushes) \ X /\ PagesApart(f, Pushes)
    BY DEF Sums
  <2>2. Ranges(F, R, e)
    BY DEF ListsInv
  <2> QED
    BY <1>2, <2>1, <2>2 DEF Ranges
<1>6. PoppedNode(R, f)
  BY DEF NotPopping, PoppedNode
<1> QED
  BY <1>3, <1>4, <1>5, <1>6 DEF ListsInv

\* The ranges stay as they are.
SameRanges(R, R2) == \A l \in Lists : Cover(R2[l]) = Cover(R[l]) /\ (Spaced(R[l], 0) => Spaced(R2[l], 0))

\* The ranges are as before when only what hangs on the nodes has changed.
LEMMA ListsKept ==
  ASSUME NEW F, NEW R, NEW e, NEW R2, NEW f, NEW c,
         ListsInv(F, R, e), SameRanges(R, R2), Sums(f, PagesIn(e, Pushes), c), PoppedNode(R2, f)
  PROVE  ListsInv(F, R2, f)
<1>1. CoverAll(R2) = CoverAll(R)
  BY DEF CoverAll, SameRanges, Lists
<1>2. InOrder(F, R2) /\ InAreas(F, R2)
  BY DEF ListsInv, InOrder, InAreas, SameRanges
<1>3. Ranges(F, R2, f)
  BY <1>1 DEF ListsInv, Ranges, Sums
<1> QED
  BY <1>2, <1>3 DEF ListsInv

-----------------------------------------------------------------------------
(* The part about owners. *)

\* A container added to a pool.
LEMMA AppendFacts ==
  ASSUME NEW S, NEW s \in Seq(S), NEW p \in S, Distinct(s), p \notin ToSet(s)
  PROVE  /\ Append(s, p) \in Seq(S) /\ ToSet(Append(s, p)) = ToSet(s) \union {p} /\ Distinct(Append(s, p))
         /\ Append(s, p) # <<>> /\ (s # <<>> => Append(s, p)[1] = s[1])
<1> DEFINE t == Append(s, p)
           n == Len(s)
<1>1. n \in Nat /\ DOMAIN s = 1 .. n /\ t \in Seq(S) /\ Len(t) = n + 1 /\ DOMAIN t = 1 .. n + 1
  OBVIOUS
<1>2. t[n + 1] = p /\ \A i \in 1 .. n : t[i] = s[i]
  OBVIOUS
<1>3. s # <<>> => n >= 1
  OBVIOUS
<1> HIDE DEF t, n
<1>4. \A i \in 1 .. n + 1 : i \in 1 .. n \/ i = n + 1
  BY <1>1
<1>5. \A i \in 1 .. n : i \in 1 .. n + 1 /\ i # n + 1
  BY <1>1
<1>6. n + 1 \in 1 .. n + 1
  BY <1>1
<1>7. ToSet(t) = ToSet(s) \union {p}
  <2>1. \A x : x \in ToSet(t) <=> \E i \in 1 .. n + 1 : x = t[i]
    BY <1>1 DEF ToSet
  <2>2. \A x : x \in ToSet(s) <=> \E i \in 1 .. n : x = s[i]
    BY <1>1 DEF ToSet
  <2> QED
    BY <1>2, <1>4, <1>5, <1>6, <2>1, <2>2
<1>8. Distinct(t)
  <2>1. \A i \in 1 .. n : s[i] # p
    BY <1>1 DEF ToSet
  <2> QED
    BY <1>1, <1>2, <1>4, <2>1 DEF Distinct
<1>9. t # <<>>
  BY <1>1
<1>10. s # <<>> => t[1] = s[1]
  BY <1>1, <1>2, <1>3
<1> QED
  BY <1>1, <1>7, <1>8, <1>9, <1>10 DEF t

\* A container taken out of a pool, the first one excepted.
LEMMA RemoveFacts ==
  ASSUME NEW S, NEW s \in Seq(S), Distinct(s), NEW c \in 1 .. Len(s), c # 1
  PROVE  /\ RemoveAt(s, c) \in Seq(S) /\ ToSet(RemoveAt(s, c)) = ToSet(s) \ {s[c]}
         /\ Distinct(RemoveAt(s, c)) /\ RemoveAt(s, c) # <<>> /\ RemoveAt(s, c)[1] = s[1]
<1> DEFINE n == Len(s)
           t == RemoveAt(s, c)
           a == SubSeq(s, 1, c - 1)
           b == SubSeq(s, c + 1, Len(s))
<1>1. n \in Nat /\ DOMAIN s = 1 .. n /\ c \in 1 .. n /\ c >= 2
  OBVIOUS
<1>2. a \in Seq(S) /\ Len(a) = c - 1 /\ \A i \in 1 .. c - 1 : a[i] = s[i]
  BY <1>1
<1>3. b \in Seq(S) /\ Len(b) = n - c /\ \A i \in 1 .. n - c : b[i] = s[c + i]
  <2> DEFINE m == c + 1
  <2>0. m \in Nat /\ m = c + 1
    BY <1>1
  <2> HIDE DEF m
  <2>1. \A k \in m .. n : s[k] \in S
    BY <1>1, <2>0
  <2>2. /\ b \in Seq(S) /\ Len(b) = IF m <= n THEN n - m + 1 ELSE 0
        /\ \A k \in 1 .. n - m + 1 : b[k] = s[m + k - 1]
    <3>0. b = SubSeq(s, m, n)
      BY <2>0
    <3>1. m \in Int /\ n \in Int
      BY <1>1, <2>0
    <3> HIDE DEF b, n
    <3> QED
      BY <2>1, <3>0, <3>1, SubSeqProperties
  <2> HIDE DEF b, n
  <2> QED
    BY SMTT(30), <1>1, <2>0, <2>2
<1>4. t = a \o b
  BY DEF RemoveAt
<1> HIDE DEF a, b, t, n
<1>5. t \in Seq(S) /\ Len(t) = n - 1
  <2>1. t \in Seq(S) /\ Len(t) = Len(a) + Len(b)
    <3>1. ASSUME NEW x \in Seq(S), NEW y \in Seq(S)
          PROVE  x \o y \in Seq(S) /\ Len(x \o y) = Len(x) + Len(y)
      OBVIOUS
    <3> QED
      BY <1>2, <1>3, <1>4, <3>1
  <2>2. (c - 1) + (n - c) = n - 1
    BY <1>1
  <2> QED
    BY <1>2, <1>3, <2>1, <2>2
<1>6. ASSUME NEW i \in 1 .. n - 1
      PROVE  (i < c /\ t[i] = s[i] /\ i \in 1 .. n) \/ (i >= c /\ t[i] = s[i + 1] /\ i + 1 \in 1 .. n /\ i + 1 # c)
  <2>1. CASE i < c
    <3>1. i \in 1 .. Len(a) /\ i \in 1 .. c - 1 /\ i \in 1 .. n
      BY <1>1, <1>2, <2>1
    <3>2. t[i] = a[i]
      <4>1. ASSUME NEW x \in Seq(S), NEW y \in Seq(S), NEW j \in 1 .. Len(x)
            PROVE  (x \o y)[j] = x[j]
        BY <4>1
      <4> QED
        BY <1>2, <1>3, <1>4, <3>1, <4>1
    <3> QED
      BY <1>2, <2>1, <3>1, <3>2
  <2>2. CASE i >= c
    <3>1. i > Len(a) /\ i - Len(a) \in 1 .. n - c /\ c + (i - Len(a)) = i + 1 /\ i \in 1 .. Len(a) + Len(b)
      BY <1>1, <1>2, <1>3, <2>2
    <3>2. t[i] = b[i - Len(a)]
      <4>1. ASSUME NEW x \in Seq(S), NEW y \in Seq(S), NEW j \in 1 .. Len(x) + Len(y), j > Len(x)
            PROVE  (x \o y)[j] = y[j - Len(x)]
        BY <4>1
      <4> QED
        BY <1>2, <1>3, <1>4, <3>1, <4>1
    <3>3. i + 1 \in 1 .. n /\ i + 1 # c
      BY <1>1, <2>2
    <3> QED
      BY <1>3, <2>2, <3>1, <3>2, <3>3
  <2> QED
    BY <1>1, <2>1, <2>2
<1>7. DOMAIN t = 1 .. n - 1
  BY <1>5
<1>8. ToSet(t) = ToSet(s) \ {s[c]}
  <2>1. \A x : x \in ToSet(t) <=> \E i \in 1 .. n - 1 : x = t[i]
    BY <1>7 DEF ToSet
  <2>2. \A x : x \in ToSet(s) <=> \E i \in 1 .. n : x = s[i]
    BY <1>1 DEF ToSet
  <2>3. ASSUME NEW i \in 1 .. n - 1
        PROVE  t[i] \in ToSet(s) \ {s[c]}
    <3>1. CASE i < c
      <4>1. t[i] = s[i] /\ i \in 1 .. n /\ i # c
        BY <1>1, <1>6, <3>1
      <4> QED
        BY <1>1, <2>2, <4>1 DEF Distinct
    <3>2. CASE i >= c
      <4>1. t[i] = s[i + 1] /\ i + 1 \in 1 .. n /\ i + 1 # c
        BY <1>1, <1>6, <3>2
      <4> QED
        BY <1>1, <2>2, <4>1 DEF Distinct
    <3> QED
      BY <1>1, <3>1, <3>2
  <2>4. ASSUME NEW i \in 1 .. n, s[i] # s[c]
        PROVE  s[i] \in ToSet(t)
    <3>1. CASE i < c
      <4>1. i \in 1 .. n - 1 /\ ~(i >= c)
        BY <1>1, <3>1
      <4> QED
        BY <1>6, <2>1, <4>1
    <3>2. CASE i > c
      <4>1. i - 1 \in 1 .. n - 1 /\ (i - 1) + 1 = i /\ i - 1 >= c /\ ~(i - 1 < c)
        BY <1>1, <3>2
      <4> QED
        BY <1>6, <2>1, <4>1
    <3> QED
      BY <1>1, <2>4, <3>1, <3>2
  <2> QED
    BY <2>1, <2>2, <2>3, <2>4
<1>9. Distinct(t)
  <2> SUFFICES ASSUME NEW i \in 1 .. n - 1, NEW j \in 1 .. n - 1, t[i] = t[j]
               PROVE  i = j
    BY <1>7 DEF Distinct
  <2>0. \A x, y \in 1 .. n : s[x] = s[y] => x = y
    BY <1>1 DEF Distinct
  <2>1. PICK x \in 1 .. n : t[i] = s[x] /\ ((i < c /\ x = i) \/ (i >= c /\ x = i + 1))
    BY <1>6
  <2>2. PICK y \in 1 .. n : t[j] = s[y] /\ ((j < c /\ y = j) \/ (j >= c /\ y = j + 1))
    BY <1>6
  <2>3. x = y
    BY <2>0, <2>1, <2>2
  <2> QED
    BY <1>1, <2>1, <2>2, <2>3
<1>10. t # <<>> /\ t[1] = s[1]
  <2>1. 1 \in 1 .. n - 1 /\ ~(1 >= c)
    BY <1>1
  <2> QED
    BY <1>5, <1>6, <2>1
<1> QED
  BY <1>5, <1>8, <1>9, <1>10 DEF t

-----------------------------------------------------------------------------
(* Pages that leave the reserve. *)

NoMore(rs, rs2) == \A i \in Indices : rs[i] = NoPage => rs2[i] = NoPage
Fewer(rs, rs2, L) == \A i \in Indices : rs2[i] = IF rs[i] \in L THEN NoPage ELSE rs[i]

\* Pages taken out of the reserve.
LEMMA FewerFacts ==
  ASSUME NEW rs, NEW rs2, NEW L, Fewer(rs, rs2, L), NoPage \notin L, ReserveApart(rs)
  PROVE  InReserve(rs2) = InReserve(rs) \ L /\ ReserveApart(rs2) /\ NoMore(rs, rs2)
<1>1. \A i \in Indices : i \in Filled(rs2) <=> i \in Filled(rs) /\ rs[i] \notin L
  BY DEF Fewer, Filled
<1>2. \A i \in Filled(rs2) : rs2[i] = rs[i] /\ i \in Filled(rs)
  BY <1>1 DEF Fewer, Filled
<1>3. InReserve(rs2) = InReserve(rs) \ L
  <2>1. \A i \in Filled(rs2) : i \in Filled(rs) /\ rs2[i] = rs[i] /\ rs[i] \notin L
    BY <1>1, <1>2 DEF Filled
  <2>2. \A i \in Filled(rs) : rs[i] \notin L => i \in Filled(rs2) /\ rs2[i] = rs[i]
    BY <1>1, <1>2 DEF Filled
  <2> QED
    BY <2>1, <2>2 DEF InReserve
<1>4. ReserveApart(rs2)
  BY <1>2 DEF ReserveApart
<1>5. NoMore(rs, rs2)
  BY DEF Fewer, NoMore
<1> QED
  BY <1>3, <1>4, <1>5

IsPools(P) == P \in [Pools -> [containers : Seq(Pages), used : SUBSET Places]]
IsTook(k, s, P, rs, P2, rs2) ==
  /\ k \in Pools /\ s \in Places /\ s \notin P[k].used
  /\ IsPools(P2) /\ \A m \in Pools : m # k => P2[m] = P[m]
  /\ P2[k].used = P[k].used \cup {s} /\ s[1] \in ToSet(P2[k].containers)
  /\ rs2 \in [Indices -> Pages \cup {NoPage}] /\ NoMore(rs, rs2)
  /\ \/ P2[k].containers = P[k].containers /\ rs2 = rs
     \/ /\ s[1] \in InReserve(rs) /\ Fewer(rs, rs2, {s[1]})
        /\ P2[k].containers = Append(P[k].containers, s[1])

\* NoPage is no page.
LEMMA NoPageIsNone == NoPage \notin Pages
BY DEF NoPage, Pages

\* A node takes a slot, and the pool a page of the reserve if it is full.
LEMMA OwnersTook ==
  ASSUME NEW P, NEW rs, NEW T, NEW H, NEW R, NEW e, NEW k, NEW s, NEW P2, NEW rs2,
         OwnersInv(P, rs, T, H, R, e), IsPools(P), IsTook(k, s, P, rs, P2, rs2)
  PROVE  OwnersInv(P2, rs2, T, H, R, e)
<1>1. CASE P2[k].containers = P[k].containers /\ rs2 = rs
  <2>1. \A m \in Pools : P2[m].containers = P[m].containers
    BY <1>1 DEF IsTook
  <2>2. PoolsApart(P2) <=> PoolsApart(P)
    BY <2>1 DEF PoolsApart
  <2>3. InContainers(P2) = InContainers(P)
    BY <2>1 DEF InContainers
  <2>4. Permanents(P2, R) <=> Permanents(P, R)
    BY <2>1 DEF Permanents
  <2> QED
    BY <1>1, <2>2, <2>3, <2>4 DEF OwnersInv, ClaimsApart, ClaimsKnown, Owned
<1>2. CASE /\ s[1] \in InReserve(rs) /\ Fewer(rs, rs2, {s[1]})
           /\ P2[k].containers = Append(P[k].containers, s[1])
  <2> DEFINE p == s[1]
  <2>1. p \in Pages /\ k \in Pools /\ s \in Places
    BY DEF IsTook, Places
  <2>2. ClaimsApart(P, rs, T, H, e) /\ ClaimsKnown(P, rs, T, H, R, e) /\ Permanents(P, R)
    BY DEF OwnersInv
  <2>3. InReserve(rs2) = InReserve(rs) \ {p} /\ ReserveApart(rs2)
    <3>1. NoPage \notin {p}
      BY <2>1, NoPageIsNone
    <3> QED
      BY <1>2, <2>2, <3>1, FewerFacts DEF ClaimsApart
  <2> HIDE DEF p
  <2>4. p \in InReserve(rs) /\ P2[k].containers = Append(P[k].containers, p)
    BY <1>2 DEF p
  <2>5. p \notin InContainers(P)
    BY <2>2, <2>4 DEF ClaimsApart, FiveApart
  <2>6. P[k].containers \in Seq(Pages)
    BY <2>1 DEF IsPools
  <2>7. \A m \in Pools : p \notin ToSet(P[m].containers)
    BY <2>5 DEF InContainers
  <2>8. /\ ToSet(P2[k].containers) = ToSet(P[k].containers) \union {p} /\ Distinct(P2[k].containers)
        /\ P2[k].containers # <<>> /\ P2[k].containers[1] = P[k].containers[1]
    <3>1. Distinct(P[k].containers) /\ P[k].containers # <<>>
      BY <2>1, <2>2 DEF ClaimsApart, PoolsApart, Permanents
    <3> QED
      BY <2>1, <2>4, <2>6, <2>7, <3>1, AppendFacts
  <2>9. \A m \in Pools : m # k => P2[m] = P[m]
    BY DEF IsTook
  <2>10. InContainers(P2) = InContainers(P) \union {p}
    BY <2>1, <2>8, <2>9 DEF InContainers
  <2>11. PoolsApart(P2)
    <3>0. PoolsApart(P)
      BY <2>2 DEF ClaimsApart
    <3>1. ASSUME NEW m \in Pools
          PROVE  Distinct(P2[m].containers)
      BY <2>8, <2>9, <3>0 DEF PoolsApart
    <3>2. ASSUME NEW m \in Pools, NEW j \in Pools, m # j
          PROVE  ToSet(P2[m].containers) \cap ToSet(P2[j].containers) = {}
      <4>0. ToSet(P[m].containers) \cap ToSet(P[j].containers) = {}
        BY <3>0, <3>2 DEF PoolsApart
      <4>1. CASE m = k
        BY <2>7, <2>8, <2>9, <3>2, <4>0, <4>1
      <4>2. CASE j = k
        BY <2>7, <2>8, <2>9, <3>2, <4>0, <4>2
      <4>3. CASE m # k /\ j # k
        BY <2>9, <4>0, <4>3
      <4> QED
        BY <4>1, <4>2, <4>3
    <3> QED
      BY <3>1, <3>2 DEF PoolsApart
  <2>12. Permanents(P2, R)
    BY <2>2, <2>8, <2>9 DEF Permanents
  <2>13. FiveApart(InContainers(P2), InReserve(rs2), T, VasOf(H), Claimed(e))
    BY <2>2, <2>3, <2>4, <2>10 DEF ClaimsApart, FiveApart
  <2>14. Owned(P2, rs2, T, H) = Owned(P, rs, T, H)
    BY <2>3, <2>4, <2>10 DEF Owned
  <2> QED
    BY <2>2, <2>3, <2>11, <2>12, <2>13, <2>14 DEF OwnersInv, ClaimsApart, ClaimsKnown
<1> QED
  BY <1>1, <1>2 DEF IsTook

\* A table takes pages of the reserve.
LEMMA OwnersTable ==
  ASSUME NEW P, NEW rs, NEW T, NEW H, NEW R, NEW e, NEW L, NEW rs2,
         OwnersInv(P, rs, T, H, R, e), L \subseteq InReserve(rs), L \subseteq Pages, Fewer(rs, rs2, L)
  PROVE  OwnersInv(P, rs2, T \union L, H, R, e)
<1>1. ClaimsApart(P, rs, T, H, e) /\ ClaimsKnown(P, rs, T, H, R, e) /\ Permanents(P, R)
  BY DEF OwnersInv
<1>2. InReserve(rs2) = InReserve(rs) \ L /\ ReserveApart(rs2)
  <2>1. NoPage \notin L
    BY NoPageIsNone
  <2> QED
    BY <1>1, <2>1, FewerFacts DEF ClaimsApart
<1>3. Owned(P, rs2, T \union L, H) = Owned(P, rs, T, H)
  BY <1>2 DEF Owned
<1>4. FiveApart(InContainers(P), InReserve(rs2), T \union L, VasOf(H), Claimed(e))
  BY <1>1, <1>2 DEF ClaimsApart, FiveApart
<1> QED
  BY <1>1, <1>2, <1>3, <1>4 DEF OwnersInv, ClaimsApart, ClaimsKnown

\* The stack claims other ranges, or other ranges are reserved.
LEMMA OwnersMoved ==
  ASSUME NEW P, NEW rs, NEW T, NEW H, NEW R, NEW e, NEW R2, NEW f, NEW p, NEW c,
         OwnersInv(P, rs, T, H, R, e), Sums(f, p, c), c \cap Owned(P, rs, T, H) = {},
         Owned(P, rs, T, H) \subseteq StartsOf(R2), KnownIn(f, StartsOf(R2)),
         \A r \in AllOf(R2) : r.permanent => r.start \in 0 .. 2
  PROVE  OwnersInv(P, rs, T, H, R2, f)
<1>1. ClaimsApart(P, rs, T, H, e) /\ Permanents(P, R)
  BY DEF OwnersInv
<1>2. Claimed(f) = c /\ Once(f, Claims, ClaimOf)
  BY DEF Sums
<1>3. FiveApart(InContainers(P), InReserve(rs), T, VasOf(H), Claimed(f))
  BY <1>1, <1>2 DEF ClaimsApart, FiveApart, Owned
<1> QED
  BY <1>1, <1>2, <1>3 DEF OwnersInv, ClaimsApart, ClaimsKnown, Permanents

IsPut(rs, rs2, i, pa) == rs[i] = NoPage /\ rs2[i] = pa /\ \A j \in Indices : j # i => rs2[j] = rs[j]
\* A page that was claimed is kept in the reserve.
LEMMA OwnersKeep ==
  ASSUME NEW P, NEW rs, NEW T, NEW H, NEW R, NEW e, NEW f, NEW i \in Indices, NEW pa \in Pages, NEW p,
         OwnersInv(P, rs, T, H, R, e), NEW rs2, IsPut(rs, rs2, i, pa), pa \in Claimed(e), Sums(f, p, Claimed(e) \ {pa}),
         pa \in StartsOf(R), KnownIn(f, StartsOf(R))
  PROVE  OwnersInv(P, rs2, T, H, R, f)
<1>1. ClaimsApart(P, rs, T, H, e) /\ ClaimsKnown(P, rs, T, H, R, e) /\ Permanents(P, R)
  BY DEF OwnersInv
<1>2. Claimed(f) = Claimed(e) \ {pa} /\ Once(f, Claims, ClaimOf)
  BY DEF Sums
<1>4. Filled(rs2) = Filled(rs) \union {i} /\ i \notin Filled(rs)
  <2>1. pa # NoPage
    BY NoPageIsNone
  <2> QED
    BY <2>1 DEF Filled, IsPut
<1>3. rs2[i] = pa
  BY DEF IsPut
<1>5. \A j \in Filled(rs) : rs2[j] = rs[j]
  BY <1>4 DEF Filled, IsPut
<1>6. InReserve(rs2) = InReserve(rs) \union {pa}
  <2>1. ASSUME NEW x
        PROVE  x \in InReserve(rs2) <=> x \in InReserve(rs) \/ x = pa
    <3>1. x \in InReserve(rs2) <=> \E j \in Filled(rs2) : x = rs2[j]
      BY DEF InReserve
    <3>2. x \in InReserve(rs) <=> \E j \in Filled(rs) : x = rs[j]
      BY DEF InReserve
    <3> QED
      BY <1>3, <1>4, <1>5, <3>1, <3>2
  <2> QED
    BY <2>1
<1>7. pa \notin InReserve(rs)
  BY <1>1 DEF ClaimsApart, FiveApart
<1>8. ReserveApart(rs2)
  <2>1. \A j \in Filled(rs) : rs[j] # pa
    BY <1>7 DEF InReserve
  <2> QED
    BY <1>1, <1>3, <1>4, <1>5, <2>1 DEF ReserveApart, ClaimsApart
<1>9. FiveApart(InContainers(P), InReserve(rs2), T, VasOf(H), Claimed(f))
  BY <1>1, <1>2, <1>6 DEF ClaimsApart, FiveApart
<1>10. Owned(P, rs2, T, H) \subseteq StartsOf(R)
  BY <1>1, <1>6 DEF Owned, ClaimsKnown
<1> QED
  BY <1>1, <1>2, <1>8, <1>9, <1>10 DEF OwnersInv, ClaimsApart, ClaimsKnown

\* A range that was claimed is handed to a caller.
LEMMA OwnersReturn ==
  ASSUME NEW P, NEW rs, NEW T, NEW H, NEW R, NEW e, NEW f, NEW h, NEW p,
         OwnersInv(P, rs, T, H, R, e),
         h.va \in Claimed(e), Sums(f, p, Claimed(e) \ {h.va}), h.va \in StartsOf(R), KnownIn(f, StartsOf(R))
  PROVE  OwnersInv(P, rs, T, H \union {h}, R, f)
<1>1. ClaimsApart(P, rs, T, H, e) /\ ClaimsKnown(P, rs, T, H, R, e) /\ Permanents(P, R)
  BY DEF OwnersInv
<1>2. Claimed(f) = Claimed(e) \ {h.va} /\ Once(f, Claims, ClaimOf)
  BY DEF Sums
<1>3. VasOf(H \union {h}) = VasOf(H) \union {h.va}
  BY DEF VasOf
<1>4. h.va \notin VasOf(H)
  BY <1>1 DEF ClaimsApart, FiveApart
<1>5. HeldApart(H \union {h})
  <2>1. \A g \in H : g.va # h.va
    BY <1>4 DEF VasOf
  <2> QED
    BY <1>1, <2>1 DEF HeldApart, ClaimsApart
<1>6. FiveApart(InContainers(P), InReserve(rs), T, VasOf(H \union {h}), Claimed(f))
  BY <1>1, <1>2, <1>3 DEF ClaimsApart, FiveApart
<1>7. Owned(P, rs, T, H \union {h}) \subseteq StartsOf(R)
  BY <1>1, <1>3 DEF Owned, ClaimsKnown
<1> QED
  BY <1>1, <1>2, <1>5, <1>6, <1>7 DEF OwnersInv, ClaimsApart, ClaimsKnown

\* A caller gives back what it holds.
LEMMA OwnersFree ==
  ASSUME NEW P, NEW rs, NEW T, NEW H, NEW R, NEW e, NEW f, NEW h \in H, NEW p,
         OwnersInv(P, rs, T, H, R, e), Claimed(e) = {},
         Sums(f, p, {h.va}), KnownIn(f, StartsOf(R))
  PROVE  OwnersInv(P, rs, T, H \ {h}, R, f)
<1>1. ClaimsApart(P, rs, T, H, e) /\ ClaimsKnown(P, rs, T, H, R, e) /\ Permanents(P, R)
  BY DEF OwnersInv
<1>2. Claimed(f) = {h.va} /\ Once(f, Claims, ClaimOf)
  BY DEF Sums
<1>3. VasOf(H \ {h}) \subseteq VasOf(H) /\ h.va \in VasOf(H)
  BY DEF VasOf
<1>4. h.va \notin VasOf(H \ {h})
  BY <1>1 DEF ClaimsApart, HeldApart, VasOf
<1>5. HeldApart(H \ {h})
  BY <1>1 DEF HeldApart, ClaimsApart
<1>6. FiveApart(InContainers(P), InReserve(rs), T, VasOf(H \ {h}), Claimed(f))
  BY <1>1, <1>2, <1>3, <1>4 DEF ClaimsApart, FiveApart
<1>7. Owned(P, rs, T, H \ {h}) \subseteq StartsOf(R)
  BY <1>1, <1>3 DEF Owned, ClaimsKnown
<1> QED
  BY <1>1, <1>2, <1>5, <1>6, <1>7 DEF OwnersInv, ClaimsApart, ClaimsKnown

IsGiven(k, s, P, P2) ==
  /\ k \in Pools /\ IsPools(P2) /\ \A m \in Pools : m # k => P2[m] = P[m]
  /\ P2[k].used = P[k].used \ {s}
  /\ \/ /\ P2[k].containers = P[k].containers
        /\ s[1] = P[k].containers[1] \/ \E q \in P[k].used \ {s} : q[1] = s[1]
     \/ /\ \E c \in 1 .. Len(P[k].containers) :
             c # 1 /\ P[k].containers[c] = s[1] /\ P2[k].containers = RemoveAt(P[k].containers, c)
        /\ \A q \in P[k].used \ {s} : q[1] # s[1]

\* A container that is empty is given back: its page is claimed by the stack.
LEMMA OwnersGiven ==
  ASSUME NEW P, NEW rs, NEW T, NEW H, NEW R, NEW e, NEW f, NEW k, NEW s, NEW P2, NEW p,
         OwnersInv(P, rs, T, H, R, e), IsPools(P), IsGiven(k, s, P, P2),
         P2[k].containers # P[k].containers, Sums(f, p, Claimed(e) \union {s[1]}), KnownIn(f, StartsOf(R))
  PROVE  OwnersInv(P2, rs, T, H, R, f)
<1>1. ClaimsApart(P, rs, T, H, e) /\ ClaimsKnown(P, rs, T, H, R, e) /\ Permanents(P, R)
  BY DEF OwnersInv
<1>2. Claimed(f) = Claimed(e) \union {s[1]} /\ Once(f, Claims, ClaimOf)
  BY DEF Sums
<1>3. PICK c \in 1 .. Len(P[k].containers) :
          c # 1 /\ P[k].containers[c] = s[1] /\ P2[k].containers = RemoveAt(P[k].containers, c)
  BY DEF IsGiven
<1>4. k \in Pools /\ P[k].containers \in Seq(Pages) /\ Distinct(P[k].containers)
  BY <1>1 DEF IsGiven, IsPools, ClaimsApart, PoolsApart
<1>5. /\ ToSet(P2[k].containers) = ToSet(P[k].containers) \ {s[1]} /\ Distinct(P2[k].containers)
      /\ P2[k].containers # <<>> /\ P2[k].containers[1] = P[k].containers[1]
  BY <1>3, <1>4, RemoveFacts
<1>6. s[1] \in ToSet(P[k].containers)
  BY <1>3, <1>4 DEF ToSet
<1>7. \A m \in Pools : m # k => P2[m] = P[m]
  BY DEF IsGiven
<1>8. \A m \in Pools : m # k => s[1] \notin ToSet(P[m].containers)
  BY <1>1, <1>4, <1>6 DEF ClaimsApart, PoolsApart
<1>9. InContainers(P2) = InContainers(P) \ {s[1]} /\ s[1] \in InContainers(P)
  BY <1>4, <1>5, <1>6, <1>7, <1>8 DEF InContainers
<1>10. PoolsApart(P2)
  <2>1. \A m \in Pools : ToSet(P2[m].containers) \subseteq ToSet(P[m].containers)
    BY <1>5, <1>7
  <2>2. \A m \in Pools : Distinct(P2[m].containers)
    BY <1>1, <1>5, <1>7 DEF ClaimsApart, PoolsApart
  <2> QED
    BY <1>1, <2>1, <2>2 DEF ClaimsApart, PoolsApart
<1>11. Permanents(P2, R)
  BY <1>1, <1>5, <1>7 DEF Permanents
<1>12. FiveApart(InContainers(P2), InReserve(rs), T, VasOf(H), Claimed(f))
  BY <1>1, <1>2, <1>9 DEF ClaimsApart, FiveApart
<1>13. Owned(P2, rs, T, H) \subseteq StartsOf(R)
  BY <1>1, <1>9 DEF Owned, ClaimsKnown
<1> QED
  BY <1>1, <1>2, <1>10, <1>11, <1>12, <1>13 DEF OwnersInv, ClaimsApart, ClaimsKnown

\* A node given back to a container that keeps others changes no owner.
LEMMA OwnersGivenSame ==
  ASSUME NEW P, NEW rs, NEW T, NEW H, NEW R, NEW e, NEW k, NEW s, NEW P2,
         OwnersInv(P, rs, T, H, R, e), IsGiven(k, s, P, P2), P2[k].containers = P[k].containers
  PROVE  OwnersInv(P2, rs, T, H, R, e)
<1>1. \A m \in Pools : P2[m].containers = P[m].containers
  BY DEF IsGiven
<1>2. PoolsApart(P2) <=> PoolsApart(P)
  BY <1>1 DEF PoolsApart
<1>3. InContainers(P2) = InContainers(P)
  BY <1>1 DEF InContainers
<1>4. Permanents(P2, R) <=> Permanents(P, R)
  BY <1>1 DEF Permanents
<1> QED
  BY <1>2, <1>3, <1>4 DEF OwnersInv, ClaimsApart, ClaimsKnown, Owned

-----------------------------------------------------------------------------
(* The part about slots. *)

OpPlaces(e, k) == Vals(e, SlotOps(k), PlaceOf)

\* The slots of a pool after a node has been taken from it.
LEMMA SlotTaken ==
  ASSUME NEW P, NEW rs, NEW k, NEW s, NEW P2, NEW rs2, NEW X, NEW e, NEW f,
         SlotsOf(k, P[k], X, e), IsPools(P), IsTook(k, s, P, rs, P2, rs2), Distinct(P[k].containers),
         s[1] \in InReserve(rs) => s[1] \notin ToSet(P[k].containers),
         SlotSums(f, k, OpPlaces(e, k))
  PROVE  SlotsOf(k, P2[k], X \union {s}, f)
<1>1. /\ \A q \in P[k].used : q[1] \in ToSet(P[k].containers)
      /\ P[k].used = X \union OpPlaces(e, k) /\ X \cap OpPlaces(e, k) = {}
      /\ \A c \in ToSet(P[k].containers) : c # FirstContainer[k] => \E q \in P[k].used : q[1] = c
  BY DEF SlotsOf, OpPlaces
<1>2. OpPlaces(f, k) = OpPlaces(e, k) /\ Once(f, SlotOps(k), PlaceOf)
  BY DEF SlotSums, OpPlaces
<1>3. k \in Pools /\ s \in Places /\ s \notin P[k].used /\ P2[k].used = P[k].used \union {s} /\ s[1] \in ToSet(P2[k].containers)
  BY DEF IsTook
<1>4. ToSet(P2[k].containers) = ToSet(P[k].containers) \/ ToSet(P2[k].containers) = ToSet(P[k].containers) \union {s[1]}
  <2>1. P[k].containers \in Seq(Pages) /\ s[1] \in Pages
    BY <1>3 DEF IsPools, Places
  <2>2. CASE P2[k].containers = P[k].containers
    BY <2>2
  <2>3. CASE s[1] \in InReserve(rs) /\ P2[k].containers = Append(P[k].containers, s[1])
    <3>1. s[1] \notin ToSet(P[k].containers)
      BY <2>3
    <3> QED
      BY <2>1, <2>3, <3>1, AppendFacts
  <2> QED
    BY <2>2, <2>3 DEF IsTook
<1>5. \A q \in P2[k].used : q[1] \in ToSet(P2[k].containers)
  BY <1>1, <1>3, <1>4
<1>6. P2[k].used = (X \union {s}) \union OpPlaces(f, k) /\ (X \union {s}) \cap OpPlaces(f, k) = {}
  BY <1>1, <1>2, <1>3
<1>7. ASSUME NEW c \in ToSet(P2[k].containers), c # FirstContainer[k]
      PROVE  \E q \in P2[k].used : q[1] = c
  <2>1. CASE c \in ToSet(P[k].containers)
    BY <1>1, <1>3, <1>7, <2>1
  <2>2. CASE c = s[1]
    BY <1>3, <2>2
  <2> QED
    BY <1>4, <2>1, <2>2
<1> QED
  BY <1>2, <1>5, <1>6, <1>7 DEF SlotsOf, OpPlaces

\* Nodes leave their list: their slots are yet to be freed.
LEMMA SlotsLeft ==
  ASSUME NEW k, NEW pool, NEW X, NEW e, NEW f, NEW S, SlotsOf(k, pool, X, e), S \subseteq X,
         SlotSums(f, k, S \union OpPlaces(e, k))
  PROVE  SlotsOf(k, pool, X \ S, f)
BY DEF SlotsOf, SlotSums, OpPlaces

\* They do not change when the stack gives back the same slots.
LEMMA SlotsKept ==
  ASSUME NEW k, NEW pool, NEW X, NEW e, NEW f, SlotsOf(k, pool, X, e), SlotSums(f, k, OpPlaces(e, k))
  PROVE  SlotsOf(k, pool, X, f)
BY DEF SlotsOf, SlotSums, OpPlaces

\* They do, by one, when a slot is given back.
LEMMA SlotGiven ==
  ASSUME NEW P, NEW k, NEW s, NEW P2, NEW X, NEW e, NEW f,
         SlotsOf(k, P[k], X, e), IsPools(P), IsGiven(k, s, P, P2), Distinct(P[k].containers),
         P[k].containers[1] = FirstContainer[k],
         s \in OpPlaces(e, k), SlotSums(f, k, OpPlaces(e, k) \ {s})
  PROVE  SlotsOf(k, P2[k], X, f)
<1>1. /\ \A q \in P[k].used : q[1] \in ToSet(P[k].containers)
      /\ P[k].used = X \union OpPlaces(e, k) /\ X \cap OpPlaces(e, k) = {}
      /\ \A c \in ToSet(P[k].containers) : c # FirstContainer[k] => \E q \in P[k].used : q[1] = c
  BY DEF SlotsOf, OpPlaces
<1>2. OpPlaces(f, k) = OpPlaces(e, k) \ {s} /\ Once(f, SlotOps(k), PlaceOf)
  BY DEF SlotSums, OpPlaces
<1>3. k \in Pools /\ P2[k].used = P[k].used \ {s}
  BY DEF IsGiven
<1>4. P2[k].used = X \union OpPlaces(f, k) /\ X \cap OpPlaces(f, k) = {}
  BY <1>1, <1>2, <1>3
<1>5. CASE /\ P2[k].containers = P[k].containers
           /\ s[1] = P[k].containers[1] \/ \E q \in P[k].used \ {s} : q[1] = s[1]
  <2>1. \A q \in P2[k].used : q[1] \in ToSet(P2[k].containers)
    BY <1>1, <1>3, <1>5
  <2>2. ASSUME NEW c \in ToSet(P2[k].containers), c # FirstContainer[k]
        PROVE  \E q \in P2[k].used : q[1] = c
    <3>1. PICK q \in P[k].used : q[1] = c
      BY <1>1, <1>5, <2>2
    <3>2. CASE q = s
      BY <1>3, <1>5, <2>2, <3>1, <3>2
    <3>3. CASE q # s
      BY <1>3, <3>1, <3>3
    <3> QED
      BY <3>2, <3>3
  <2> QED
    BY <1>2, <1>4, <2>1, <2>2 DEF SlotsOf, OpPlaces
<1>6. CASE /\ \E c \in 1 .. Len(P[k].containers) :
                c # 1 /\ P[k].containers[c] = s[1] /\ P2[k].containers = RemoveAt(P[k].containers, c)
           /\ \A q \in P[k].used \ {s} : q[1] # s[1]
  <2>1. PICK c \in 1 .. Len(P[k].containers) :
                c # 1 /\ P[k].containers[c] = s[1] /\ P2[k].containers = RemoveAt(P[k].containers, c)
    BY <1>6
  <2>2. P[k].containers \in Seq(Pages)
    BY <1>3 DEF IsPools
  <2>3. ToSet(P2[k].containers) = ToSet(P[k].containers) \ {s[1]}
    BY <2>1, <2>2, RemoveFacts
  <2>4. \A q \in P2[k].used : q[1] \in ToSet(P2[k].containers)
    BY <1>1, <1>3, <1>6, <2>3
  <2>5. ASSUME NEW z \in ToSet(P2[k].containers), z # FirstContainer[k]
        PROVE  \E q \in P2[k].used : q[1] = z
    <3>1. PICK q \in P[k].used : q[1] = z
      BY <1>1, <2>3, <2>5
    <3> QED
      BY <1>3, <2>3, <3>1
  <2> QED
    BY <1>2, <1>4, <2>4, <2>5 DEF SlotsOf, OpPlaces
<1> QED
  BY <1>5, <1>6 DEF IsGiven

-----------------------------------------------------------------------------
(* The nodes of both lists, when one of them changes. *)

\* A node is in one of the two lists.
LEMMA ListsApart ==
  ASSUME NEW F, InAreas(F, F), \A l \in Lists : Ranged(ToSet(F[l]))
  PROVE  ToSet(F["kmap"]) \cap ToSet(F["dynamic"]) = {}
<1> SUFFICES ASSUME NEW r \in ToSet(F["kmap"]), r \in ToSet(F["dynamic"])
             PROVE  FALSE
  OBVIOUS
<1>1. r.start \in Nat /\ r.size \in Nat \ {0}
  BY DEF Ranged, Lists
<1>2. r.start \in PagesOf(r)
  BY <1>1 DEF PagesOf, Run
<1>3. r.start \in Cover(F["kmap"]) /\ r.start \in Cover(F["dynamic"])
  BY <1>2 DEF Cover
<1> QED
  BY <1>3, AreasApart DEF InAreas, Lists

IsSwap(A, A2, D, N) == A2 = (A \ D) \union N /\ D \subseteq A

\* A change of one list, seen in both.
LEMMA AllOfChanged ==
  ASSUME NEW F, NEW F2, NEW l \in Lists, NEW D, NEW N,
         ToSet(F["kmap"]) \cap ToSet(F["dynamic"]) = {},
         IsSwap(ToSet(F[l]), ToSet(F2[l]), D, N), OneList(F, F2, l)
  PROVE  IsSwap(AllOf(F), AllOf(F2), D, N)
<1>1. CASE l = "kmap"
  <2>1. F2["dynamic"] = F["dynamic"]
    BY <1>1 DEF OneList, Lists
  <2> QED
    BY <1>1, <2>1 DEF IsSwap, AllOf
<1>2. CASE l = "dynamic"
  <2>1. F2["kmap"] = F["kmap"]
    BY <1>2 DEF OneList, Lists
  <2> QED
    BY <1>2, <2>1 DEF IsSwap, AllOf
<1> QED
  BY <1>1, <1>2 DEF Lists

\* The slots of the nodes when a node leaves.
LEMMA PlaceGone ==
  ASSUME NEW A, NEW A2, NEW q, IsSwap(A, A2, {q}, {}), PlacesApart(A)
  PROVE  PlacesApart(A2) /\ PlacesIn(A2) = PlacesIn(A) \ {q.at} /\ q.at \in PlacesIn(A)
BY DEF IsSwap, PlacesApart, PlacesIn

\* They are the same when a node is changed.
LEMMA PlaceStays ==
  ASSUME NEW A, NEW A2, NEW q, NEW x, IsSwap(A, A2, {q}, {x}), PlacesApart(A), x.at = q.at
  PROVE  PlacesApart(A2) /\ PlacesIn(A2) = PlacesIn(A)
<1>1. A2 = (A \ {q}) \union {x} /\ q \in A
  BY DEF IsSwap
<1>2. \A r \in A \ {q} : r.at # x.at
  BY <1>1 DEF PlacesApart
<1>3. PlacesApart(A2)
  BY <1>1, <1>2 DEF PlacesApart
<1>4. PlacesIn(A2) = PlacesIn(A)
  BY <1>1 DEF PlacesIn
<1> QED
  BY <1>3, <1>4

\* The slots when a node enters.
LEMMA PlaceAdded ==
  ASSUME NEW A, NEW A2, NEW y, IsSwap(A, A2, {}, {y}), PlacesApart(A), y.at \notin PlacesIn(A)
  PROVE  PlacesApart(A2) /\ PlacesIn(A2) = PlacesIn(A) \union {y.at}
<1>1. A2 = A \union {y}
  BY DEF IsSwap
<1>2. \A r \in A : r.at # y.at
  BY DEF PlacesIn
<1>3. PlacesApart(A2)
  BY <1>1, <1>2 DEF PlacesApart
<1>4. PlacesIn(A2) = PlacesIn(A) \union {y.at}
  BY <1>1 DEF PlacesIn
<1> QED
  BY <1>3, <1>4

IsSplit(A, A2, q, x, y) == IsSwap(A, A2, {q}, {x, y}) /\ x.at = q.at

\* The slots when a node is split: the first half keeps the slot.
LEMMA PlaceSplit ==
  ASSUME NEW A, NEW A2, NEW q, NEW x, NEW y, IsSplit(A, A2, q, x, y), PlacesApart(A), y.at \notin PlacesIn(A)
  PROVE  PlacesApart(A2) /\ PlacesIn(A2) = PlacesIn(A) \union {y.at}
<1> DEFINE B == (A \ {q}) \union {x}
<1>1. IsSwap(A, B, {q}, {x}) /\ IsSwap(B, A2, {}, {y})
  BY DEF IsSplit, IsSwap
<1>3. x.at = q.at
  BY DEF IsSplit
<1> HIDE DEF B
<1>2. PlacesApart(B) /\ PlacesIn(B) = PlacesIn(A)
  BY <1>1, <1>3, PlaceStays
<1> QED
  BY <1>1, <1>2, PlaceAdded

IsMerge(A, A2, p, q, x) == IsSwap(A, A2, {p, q}, {x}) /\ p # q /\ x.at = p.at

\* The slots when two nodes become one: the first slot is kept.
LEMMA PlaceMerged ==
  ASSUME NEW A, NEW A2, NEW p, NEW q, NEW x, IsMerge(A, A2, p, q, x), PlacesApart(A)
  PROVE  PlacesApart(A2) /\ PlacesIn(A2) = PlacesIn(A) \ {q.at} /\ q.at \in PlacesIn(A)
<1> DEFINE B == A \ {q}
<1>1. IsSwap(A, B, {q}, {}) /\ IsSwap(B, A2, {p}, {x})
  BY DEF IsMerge, IsSwap
<1>3. x.at = p.at
  BY DEF IsMerge
<1> HIDE DEF B
<1>2. PlacesApart(B) /\ PlacesIn(B) = PlacesIn(A) \ {q.at} /\ q.at \in PlacesIn(A)
  BY <1>1, PlaceGone
<1> QED
  BY <1>1, <1>2, <1>3, PlaceStays

-----------------------------------------------------------------------------
(* The records of the physical blocks of a range. *)

RecsApart(A) ==
  /\ \A r, q \in A : r # q => ToSet(r.pas) \cap ToSet(q.pas) = {}
  /\ \A r \in A : Distinct(r.pas)

\* The records when a range leaves the tree.
LEMMA RecsGone ==
  ASSUME NEW A, NEW A2, NEW q, IsSwap(A, A2, {q}, {}), RecsApart(A), PlacesApart(Recs(A))
  PROVE  /\ RecsApart(A2) /\ PlacesApart(Recs(A2)) /\ ToSet(q.pas) \subseteq Recs(A)
         /\ PlacesIn(Recs(A2)) = PlacesIn(Recs(A)) \ PlacesIn(ToSet(q.pas)) /\ PlacesIn(ToSet(q.pas)) \subseteq PlacesIn(Recs(A))
<1>1. A2 = A \ {q} /\ q \in A
  BY DEF IsSwap
<1>2. RecsApart(A2)
  BY <1>1 DEF RecsApart
<1>3. Recs(A2) = Recs(A) \ ToSet(q.pas) /\ ToSet(q.pas) \subseteq Recs(A)
  BY <1>1 DEF Recs, RecsApart
<1> HIDE DEF Recs
<1>4. PlacesApart(Recs(A2))
  BY <1>3 DEF PlacesApart
<1>5. PlacesIn(Recs(A2)) = PlacesIn(Recs(A)) \ PlacesIn(ToSet(q.pas)) /\ PlacesIn(ToSet(q.pas)) \subseteq PlacesIn(Recs(A))
  <2>1. \A r \in Recs(A), d \in ToSet(q.pas) : r.at = d.at => r = d
    BY <1>3 DEF PlacesApart
  <2> QED
    BY <1>3, <2>1 DEF PlacesIn
<1> QED
  BY <1>2, <1>3, <1>4, <1>5

\* They are the same when a range without records enters it.
LEMMA RecsAdded ==
  ASSUME NEW A, NEW A2, NEW y, IsSwap(A, A2, {}, {y}), RecsApart(A), ToSet(y.pas) = {}, Distinct(y.pas)
  PROVE  RecsApart(A2) /\ Recs(A2) = Recs(A)
<1>1. A2 = A \union {y}
  BY DEF IsSwap
<1> QED
  BY <1>1 DEF RecsApart, Recs

IsLonger(x, q, d) == x.at = q.at /\ ToSet(x.pas) = ToSet(q.pas) \union {d} /\ Distinct(x.pas)
MayRecord(A, A2, q, x, d) ==
  IsSwap(A, A2, {q}, {x}) /\ RecsApart(A) /\ PlacesApart(Recs(A)) /\ IsLonger(x, q, d) /\ d.at \notin PlacesIn(Recs(A))

\* They are one more when a block is recorded.
LEMMA RecsLonger ==
  ASSUME NEW A, NEW A2, NEW q, NEW x, NEW d, MayRecord(A, A2, q, x, d)
  PROVE  /\ RecsApart(A2) /\ PlacesApart(Recs(A2)) /\ Recs(A2) = Recs(A) \union {d}
         /\ PlacesIn(Recs(A2)) = PlacesIn(Recs(A)) \union {d.at}
<1>0. IsSwap(A, A2, {q}, {x}) /\ RecsApart(A) /\ PlacesApart(Recs(A)) /\ IsLonger(x, q, d) /\ d.at \notin PlacesIn(Recs(A))
  BY DEF MayRecord
<1>1. A2 = (A \ {q}) \union {x} /\ q \in A
  BY <1>0 DEF IsSwap
<1>2. Recs(A2) = Recs(A) \union {d}
  BY <1>0, <1>1 DEF Recs, IsLonger
<1>3. d \notin Recs(A)
  BY <1>0 DEF PlacesIn
<1>4. \A r \in A : d \notin ToSet(r.pas)
  BY <1>3 DEF Recs
<1>5. RecsApart(A2)
  <2>1. \A r \in A \ {q} : ToSet(r.pas) \cap ToSet(x.pas) = {}
    BY <1>0, <1>1, <1>4 DEF RecsApart, IsLonger
  <2> QED
    BY <1>0, <1>1, <2>1 DEF RecsApart, IsLonger
<1>6. IsSwap(Recs(A), Recs(A2), {}, {d})
  BY <1>2 DEF IsSwap
<1>7. PlacesApart(Recs(A2)) /\ PlacesIn(Recs(A2)) = PlacesIn(Recs(A)) \union {d.at}
  BY <1>0, <1>6, PlaceAdded
<1> QED
  BY <1>2, <1>5, <1>7

-----------------------------------------------------------------------------
(* A node taken from its pool. *)

(* The reserve. *)
LEMMA ReservedFacts ==
  /\ Reserved = Filled(reserve) /\ Reserved \in SUBSET Indices /\ Reserved \in SUBSET Nat
  /\ IsFiniteSet(Reserved) /\ Cardinality(Reserved) \in Nat
  /\ Cardinality(Reserved) = 0 => Reserved = {}
<1>1. Reserved = Filled(reserve) /\ Reserved \in SUBSET Indices
  BY DEF Reserved, Filled
<1>2. ReserveSize \in Nat
  BY HeapAssumption
<1>3. Reserved \in SUBSET Nat
  BY <1>1, <1>2 DEF Indices
<1>4. IsFiniteSet(Indices)
  BY <1>2, FS_Interval DEF Indices
<1> HIDE DEF Reserved
<1>5. IsFiniteSet(Reserved)
  BY <1>1, <1>4, FS_Subset
<1> QED
  BY <1>1, <1>3, <1>5, FS_CardinalityType, FS_EmptySet

\* The indices up to one that has a page.
UpTo(i) == {j \in Reserved : j <= i}

\* The indices of the reserve up to one of them are finitely many.
LEMMA UpToFacts ==
  ASSUME NEW i \in Reserved
  PROVE  /\ IsFiniteSet(UpTo(i)) /\ Cardinality(UpTo(i)) \in Nat /\ Cardinality(UpTo(i)) >= 1
         /\ Cardinality(UpTo(i)) <= 1 => UpTo(i) = {i}
<1>1. UpTo(i) \in SUBSET Reserved /\ i \in UpTo(i)
  BY ReservedFacts DEF UpTo
<1>2. IsFiniteSet(UpTo(i))
  BY <1>1, ReservedFacts, FS_Subset
<1> DEFINE U == UpTo(i)
<1> HIDE DEF U
<1>3. IsFiniteSet(U) /\ i \in U
  BY <1>1, <1>2 DEF U
<1>4. Cardinality(U) \in Nat /\ (Cardinality(U) = 0 <=> U = {}) /\ (Cardinality(U) = 1 <=> \E x : U = {x})
  BY <1>3, FS_CardinalityType, FS_EmptySet, FS_Singleton
<1>5. Cardinality(U) # 0
  BY <1>3, <1>4
<1>6. Cardinality(U) >= 1
  BY <1>4, <1>5
<1>7. Cardinality(U) <= 1 => Cardinality(U) = 1
  BY <1>4, <1>6
<1>8. Cardinality(U) = 1 => U = {i}
  BY <1>3, <1>4
<1> QED
  BY <1>3, <1>4, <1>6, <1>7, <1>8 DEF U

\* No page taken from the reserve.
LEMMA LowestNone == Lowest(0) = {} /\ LowestPages(0) = {}
<1>1. \A i \in Reserved : ~(Cardinality(UpTo(i)) <= 0)
  <2>1. ASSUME NEW i \in Reserved
        PROVE  ~(Cardinality(UpTo(i)) <= 0)
    BY UpToFacts
  <2> QED
    BY <2>1
<1>2. Lowest(0) = {}
  BY <1>1 DEF Lowest, UpTo
<1> QED
  BY <1>2 DEF LowestPages

\* One page taken from the reserve: that of its least index.
LEMMA LowestOne ==
  ASSUME Reserved # {}
  PROVE  /\ Min(Reserved) \in Reserved /\ Lowest(1) = {Min(Reserved)}
         /\ NextPage = reserve[Min(Reserved)] /\ LowestPages(1) = {NextPage}
<1>1. Min(Reserved) \in Reserved /\ \A y \in Reserved : Min(Reserved) <= y
  BY ReservedFacts, LeastOf
<1> DEFINE m == Min(Reserved)
<1> HIDE DEF m
<1>2. m \in Reserved /\ (\A y \in Reserved : m <= y) /\ m \in Nat
  BY <1>1, ReservedFacts DEF m
<1>3. UpTo(m) = {m}
  <2>1. \A j \in Reserved : j <= m => j = m
    BY <1>2, ReservedFacts
  <2> QED
    BY <1>2, <2>1 DEF UpTo
<1>4. m \in Lowest(1)
  <2>1. Cardinality(UpTo(m)) = 1
    BY <1>3, FS_Singleton
  <2> QED
    BY <1>2, <2>1 DEF Lowest, UpTo
<1>5. ASSUME NEW i \in Lowest(1)
      PROVE  i = m
  <2>1. i \in Reserved /\ Cardinality(UpTo(i)) <= 1
    BY DEF Lowest, UpTo
  <2>2. UpTo(i) = {i}
    BY <2>1, UpToFacts
  <2>3. m \in UpTo(i)
    BY <1>2, <2>1 DEF UpTo
  <2> QED
    BY <2>2, <2>3
<1>6. Lowest(1) = {m}
  BY <1>4, <1>5
<1>7. NextPage = reserve[m]
  BY DEF NextPage, m
<1> QED
  BY <1>2, <1>6, <1>7 DEF LowestPages, m

\* The pages taken were in the reserve.
LEMMA LowestIn ==
  ASSUME NEW k
  PROVE  LowestPages(k) \subseteq InReserve(reserve) /\ Lowest(k) \subseteq Reserved
BY ReservedFacts DEF LowestPages, Lowest, InReserve

\* reserve_malloc, k times.
LEMMA TakenPages ==
  ASSUME Types, ReserveApart(reserve), NEW k, TakePages(k)
  PROVE  /\ Fewer(reserve, reserve', LowestPages(k)) /\ reserve' \in [Indices -> Pages \cup {NoPage}]
         /\ NoPage \notin LowestPages(k) /\ NoMore(reserve, reserve')
<1>1. reserve \in [Indices -> Pages \cup {NoPage}]
  BY DEF Types
<1>2. reserve' = [i \in Indices |-> IF i \in Lowest(k) THEN NoPage ELSE reserve[i]]
  BY DEF TakePages
<1>3. reserve' \in [Indices -> Pages \cup {NoPage}]
  BY <1>1, <1>2
<1>4. NoPage \notin LowestPages(k)
  BY LowestIn DEF LowestPages, Reserved
<1>5. \A i \in Indices : i \in Lowest(k) <=> reserve[i] \in LowestPages(k)
  <2>1. ASSUME NEW i \in Indices, reserve[i] \in LowestPages(k)
        PROVE  i \in Lowest(k)
    <3>1. PICK j \in Lowest(k) : reserve[i] = reserve[j]
      BY <2>1 DEF LowestPages
    <3>2. j \in Filled(reserve)
      BY <3>1, LowestIn, ReservedFacts
    <3>3. i \in Filled(reserve)
      BY <3>1, <3>2 DEF Filled
    <3> QED
      BY <3>1, <3>2, <3>3 DEF ReserveApart
  <2> QED
    BY <2>1 DEF LowestPages
<1>6. Fewer(reserve, reserve', LowestPages(k))
  BY <1>2, <1>5 DEF Fewer
<1>7. NoMore(reserve, reserve')
  BY <1>2 DEF NoMore
<1> QED
  BY <1>3, <1>4, <1>6, <1>7

\* Taking no page leaves the reserve as it is.
LEMMA NoneTaken ==
  ASSUME Types, TakePages(0)
  PROVE  reserve' = reserve
<1>1. reserve \in [Indices -> Pages \cup {NoPage}]
  BY DEF Types
<1> QED
  BY <1>1, LowestNone DEF TakePages

\* The start of a reserved range is known to find_rva.
LEMMA KnownStart ==
  ASSUME Types, InAreas(fva, rva), NEW va \in StartsOf(rva)
  PROVE  Known(va) /\ va \in Va
<1>1. PICK l \in Lists : \E r \in ToSet(rva[l]) : r.start = va
  <2>1. PICK r \in AllOf(rva) : r.start = va
    BY DEF StartsOf
  <2>2. r \in ToSet(rva["kmap"]) \/ r \in ToSet(rva["dynamic"])
    BY DEF AllOf
  <2>3. "kmap" \in Lists /\ "dynamic" \in Lists
    BY DEF Lists
  <2> QED
    BY <2>1, <2>2, <2>3
<1>2. rva[l] \in Seq(RvaNodes)
  BY DEF Types
<1>3. PICK r \in ToSet(rva[l]), i \in DOMAIN rva[l] : r.start = va /\ rva[l][i] = r
  BY <1>1 DEF ToSet
<1>4. r \in RvaNodes
  BY <1>2, <1>3
<1>5. va \in PagesOf(r)
  <2>1. r.start \in Nat /\ r.size \in Nat \ {0}
    BY <1>4 DEF RvaNodes
  <2> QED
    BY <1>3, <2>1 DEF PagesOf, Run
<1>6. va \in Area(l)
  BY <1>3, <1>5 DEF InAreas, Cover
<1>7. ListOf(va) = l /\ va \in Va
  BY <1>6, AreasApart
<1>8. i \in Found(rva[l], va)
  BY <1>3 DEF Found, Among
<1> QED
  BY <1>7, <1>8 DEF Known

\* The index that find_rva finds.
LEMMA FoundFacts ==
  ASSUME Types, NEW va, Known(va)
  PROVE  /\ ListOf(va) \in Lists /\ rva[ListOf(va)] \in Seq(RvaNodes)
         /\ Min(Found(rva[ListOf(va)], va)) \in 1 .. Len(rva[ListOf(va)])
         /\ rva[ListOf(va)][Min(Found(rva[ListOf(va)], va))].start = va
<1> DEFINE s == rva[ListOf(va)]
           T == Found(s, va)
<1>1. ListOf(va) \in Lists
  BY DEF ListOf, Lists
<1>2. s \in Seq(RvaNodes)
  BY <1>1 DEF Types
<1>3. T # {}
  BY DEF Known
<1>4. DOMAIN s = 1 .. Len(s) /\ Len(s) \in Nat
  BY <1>2
<1> HIDE DEF s
<1>5. T \in SUBSET (1 .. Len(s)) /\ \A i \in T : s[i].start = va
  BY <1>4 DEF Found, Among
<1> HIDE DEF T
<1>6. T \in SUBSET Nat
  BY <1>4, <1>5
<1>7. Min(T) \in T
  BY <1>3, <1>6, LeastOf
<1> QED
  BY <1>1, <1>2, <1>5, <1>7 DEF s, T

\* find_rva knows the pages of the reserve.
LEMMA NeverNull ==
  ASSUME Types, InAreas(fva, rva), InReserve(reserve) \subseteq StartsOf(rva), NEW k
  PROVE  Lacks(k) \in {"none", "reserve"} /\ (Lacks(k) = "none" => ~(Cardinality(Reserved) < k))
<1>1. \A p \in LowestPages(k) : Known(p)
  <2>1. ASSUME NEW p \in LowestPages(k)
        PROVE  Known(p)
    BY KnownStart, LowestIn
  <2> QED
    BY <2>1
<1>2. Lacks(k) = (IF Cardinality(Reserved) < k THEN "reserve" ELSE "none")
  BY <1>1 DEF Lacks
<1> QED
  BY <1>2

\* The index of a container with room, and a slot of it.
LEMMA RoomFacts ==
  ASSUME NEW k \in Pools, NEW pool, pool \in [containers : Seq(Pages), used : SUBSET Places], ~IsFull(pool, k)
  PROVE  /\ NewSlot(pool, k, NextPage) \in Places /\ NewSlot(pool, k, NextPage) \notin pool.used
         /\ NewSlot(pool, k, NextPage)[1] \in ToSet(pool.containers)
<1> DEFINE cs == pool.containers
           R == Roomy(pool, k)
           c == Min(R)
           F == FreeSlots(pool, k, c)
<1>1. cs \in Seq(Pages) /\ DOMAIN cs = 1 .. Len(cs) /\ Len(cs) \in Nat
  OBVIOUS
<1>2. R # {} /\ R \in SUBSET (1 .. Len(cs)) /\ R \in SUBSET Nat /\ \A x \in R : FreeSlots(pool, k, x) # {}
  BY <1>1 DEF IsFull, Roomy
<1> HIDE DEF R
<1>3. c \in R
  BY <1>2, LeastOf
<1>4. F # {} /\ F \in SUBSET Nat /\ \A x \in F : <<cs[c], x>> \notin pool.used
  <2>1. Capacity[k] \in Nat
    BY CapacityAssumption
  <2>2. \A x \in 1 .. Capacity[k] : x \in Nat
    BY <2>1
  <2>3. F # {}
    BY <1>2, <1>3
  <2>4. \A x \in F : x \in 1 .. Capacity[k] /\ <<cs[c], x>> \notin pool.used
    BY DEF FreeSlots
  <2> QED
    BY <2>2, <2>3, <2>4
<1>5. NewSlot(pool, k, NextPage) = <<cs[c], Min(F)>>
  BY DEF NewSlot, R
<1> HIDE DEF c, F
<1>6. Min(F) \in F /\ Min(F) \in Nat
  BY <1>4, LeastOf
<1>7. cs[c] \in Pages /\ cs[c] \in ToSet(cs)
  BY <1>1, <1>2, <1>3 DEF ToSet
<1>8. <<cs[c], Min(F)>> \notin pool.used
  BY <1>4, <1>6
<1> QED
  BY <1>5, <1>6, <1>7, <1>8 DEF Places

\* A node of pool k takes a slot.
Keeps(k, P, rs) == \A s \in P[k].used : s[1] \in ToSet(P[k].containers)

\* Taking a node from its pool, with a page of the reserve when every slot is in use.
LEMMA TakenIs ==
  ASSUME Types, NEW k \in Pools, ReserveApart(reserve), Keeps(k, pools, reserve),
         InReserve(reserve) \cap ToSet(pools[k].containers) = {},
         Cardinality(Reserved) >= Cost(k),
         pools' = WithNode(k), TakePages(Cost(k))
  PROVE  IsTook(k, Slot(k), pools, reserve, pools', reserve')
<1>1. IsPools(pools) /\ pools[k] \in [containers : Seq(Pages), used : SUBSET Places]
  BY DEF Types, IsPools
<1>2. /\ reserve' \in [Indices -> Pages \cup {NoPage}] /\ NoMore(reserve, reserve')
      /\ Fewer(reserve, reserve', LowestPages(Cost(k)))
  BY TakenPages
<1>3. pools' = [pools EXCEPT ![k] = Grown(pools[k], k, NextPage)]
  BY DEF WithNode
<1> DEFINE g == Grown(pools[k], k, NextPage)
           s == Slot(k)
<1>4. /\ g.containers = IF IsFull(pools[k], k) THEN Append(pools[k].containers, NextPage) ELSE pools[k].containers
      /\ g.used = pools[k].used \cup {s}
      /\ DOMAIN g = {"containers", "used"} /\ g = [containers |-> g.containers, used |-> g.used]
  BY DEF Grown, Slot
<1> HIDE DEF g
<1>5. pools' = [pools EXCEPT ![k] = g]
  BY <1>3 DEF g
<1>6. pools'[k] = g /\ \A m \in Pools : m # k => pools'[m] = pools[m]
  BY <1>1, <1>5 DEF IsPools
<1>7. /\ s \in Places /\ s \notin pools[k].used /\ g.containers \in Seq(Pages)
      /\ s[1] \in ToSet(g.containers)
      /\ \/ g.containers = pools[k].containers /\ reserve' = reserve
         \/ /\ s[1] \in InReserve(reserve) /\ Fewer(reserve, reserve', {s[1]})
            /\ g.containers = Append(pools[k].containers, s[1])
  <2>1. CASE ~IsFull(pools[k], k)
    <3>1. Cost(k) = 0
      BY <2>1 DEF Cost
    <3>2. reserve' = reserve
      BY <3>1, NoneTaken
    <3>3. s \in Places /\ s \notin pools[k].used /\ s[1] \in ToSet(pools[k].containers)
      BY <1>1, <2>1, RoomFacts DEF Slot
    <3> QED
      BY <1>1, <1>4, <2>1, <3>2, <3>3
  <2>2. CASE IsFull(pools[k], k)
    <3>1. Cost(k) = 1 /\ Cardinality(Reserved) >= 1
      BY <2>2 DEF Cost
    <3>2. Reserved # {}
      BY <3>1, FS_EmptySet
    <3>3. /\ Min(Reserved) \in Reserved /\ NextPage = reserve[Min(Reserved)] /\ LowestPages(1) = {NextPage}
      BY <3>2, LowestOne
    <3>4. NextPage \in InReserve(reserve) /\ NextPage \in Pages
      <4>1. Min(Reserved) \in Filled(reserve)
        BY <3>3, ReservedFacts
      <4>2. Min(Reserved) \in Indices /\ reserve[Min(Reserved)] # NoPage
        BY <4>1 DEF Filled
      <4>3. reserve[Min(Reserved)] \in Pages
        BY <4>2 DEF Types
      <4> QED
        BY <3>3, <4>1, <4>3 DEF InReserve
    <3>5. s = <<NextPage, 1>> /\ s[1] = NextPage
      BY <2>2 DEF Slot, NewSlot
    <3>6. s \notin pools[k].used
      BY <3>4, <3>5 DEF Keeps
    <3>7. s \in Places
      BY <3>4, <3>5 DEF Places
    <3>8. g.containers = Append(pools[k].containers, NextPage)
      BY <1>4, <2>2
    <3>9. g.containers \in Seq(Pages) /\ NextPage \in ToSet(g.containers)
      <4>1. ASSUME NEW q \in Seq(Pages), NEW p \in Pages
            PROVE  Append(q, p) \in Seq(Pages) /\ p \in ToSet(Append(q, p))
        <5>1. Append(q, p) \in Seq(Pages) /\ Len(Append(q, p)) = Len(q) + 1 /\ Append(q, p)[Len(q) + 1] = p
              /\ DOMAIN Append(q, p) = 1 .. Len(q) + 1 /\ Len(q) + 1 \in 1 .. Len(q) + 1
          OBVIOUS
        <5> QED
          BY <5>1 DEF ToSet
      <4>2. pools[k].containers \in Seq(Pages)
        BY <1>1
      <4> QED
        BY <3>4, <3>8, <4>1, <4>2
    <3>10. Fewer(reserve, reserve', {s[1]})
      BY <1>2, <3>1, <3>3, <3>5
    <3> QED
      BY <3>4, <3>5, <3>6, <3>7, <3>8, <3>9, <3>10
  <2> QED
    BY <2>1, <2>2
<1>8. IsPools(pools')
  <2>1. g.used \in SUBSET Places
    BY <1>1, <1>4, <1>7
  <2>2. g \in [containers : Seq(Pages), used : SUBSET Places]
    BY <1>4, <1>7, <2>1
  <2> QED
    BY <1>1, <1>5, <2>2 DEF IsPools
<1> HIDE DEF s
<1>9. IsTook(k, s, pools, reserve, pools', reserve')
  BY <1>2, <1>4, <1>6, <1>7, <1>8 DEF IsTook
<1> QED
  BY <1>9 DEF s

\* The slot is given back.
LEMMA ShrunkIs ==
  ASSUME Types, NEW k \in Pools, NEW s \in pools[k].used, Keeps(k, pools, reserve),
         pools' = [pools EXCEPT ![k] = Shrunk(@, s)]
  PROVE  /\ IsGiven(k, s, pools, pools')
         /\ LeavesEmpty(pools[k], s) <=> pools'[k].containers # pools[k].containers
<1> DEFINE cs == pools[k].containers
           g == Shrunk(pools[k], s)
           c == CHOOSE x \in DOMAIN cs : cs[x] = s[1]
<1>1. IsPools(pools) /\ pools[k] \in [containers : Seq(Pages), used : SUBSET Places]
  BY DEF Types, IsPools
<1>2. /\ g.containers = IF LeavesEmpty(pools[k], s) THEN RemoveAt(cs, c) ELSE cs
      /\ g.used = pools[k].used \ {s}
      /\ DOMAIN g = {"containers", "used"} /\ g = [containers |-> g.containers, used |-> g.used]
  BY DEF Shrunk
<1> HIDE DEF g
<1>3. pools' = [pools EXCEPT ![k] = g]
  BY DEF g
<1>4. pools'[k] = g /\ \A m \in Pools : m # k => pools'[m] = pools[m]
  BY <1>1, <1>3 DEF IsPools
<1>5. cs \in Seq(Pages) /\ DOMAIN cs = 1 .. Len(cs) /\ Len(cs) \in Nat
  BY <1>1
<1>6. c \in 1 .. Len(cs) /\ cs[c] = s[1]
  <2>1. s[1] \in ToSet(cs)
    BY DEF Keeps
  <2>2. \E x \in DOMAIN cs : cs[x] = s[1]
    BY <2>1 DEF ToSet
  <2> QED
    BY <1>5, <2>2
<1> HIDE DEF c
<1>7. LeavesEmpty(pools[k], s) <=> s[1] # cs[1] /\ \A q \in pools[k].used \ {s} : q[1] # s[1]
  BY DEF LeavesEmpty
<1> HIDE DEF cs
<1>8. LeavesEmpty(pools[k], s) => c # 1
  BY <1>6, <1>7
<1>9. c # 1 => RemoveAt(cs, c) \in Seq(Pages) /\ RemoveAt(cs, c) # cs
  <2>1. SUFFICES ASSUME c # 1 PROVE RemoveAt(cs, c) \in Seq(Pages) /\ RemoveAt(cs, c) # cs
    OBVIOUS
  <2>2. c \in Int /\ Len(cs) \in Int
    BY <1>5, <1>6
  <2>3. RemoveAt(cs, c) = SubSeq(cs, 1, c - 1) \o SubSeq(cs, c + 1, Len(cs))
    BY DEF RemoveAt
  <2>4. SubSeq(cs, 1, c - 1) \in Seq(Pages) /\ Len(SubSeq(cs, 1, c - 1)) = c - 1
    BY <1>5, <1>6
  <2>5. SubSeq(cs, c + 1, Len(cs)) \in Seq(Pages) /\ Len(SubSeq(cs, c + 1, Len(cs))) = Len(cs) - c
    <3> DEFINE m == c + 1
               n == Len(cs)
    <3>0. m \in Int /\ n \in Int /\ m = c + 1 /\ n \in Nat /\ m \in Nat /\ m >= 1
      BY <1>5, <1>6
    <3>1. \A j \in m .. n : cs[j] \in Pages
      BY <1>5, <1>6, <3>0
    <3> HIDE DEF m, n
    <3>2. SubSeq(cs, m, n) \in Seq(Pages) /\ Len(SubSeq(cs, m, n)) = IF m <= n THEN n - m + 1 ELSE 0
      BY <3>0, <3>1, SubSeqProperties
    <3>3. c \in 1 .. n
      BY <1>6 DEF n
    <3>4. (IF m <= n THEN n - m + 1 ELSE 0) = n - c
      BY <3>0, <3>3
    <3> QED
      BY <3>2, <3>4 DEF m, n
  <2>6. \A x, y \in Seq(Pages) : x \o y \in Seq(Pages) /\ Len(x \o y) = Len(x) + Len(y)
    OBVIOUS
  <2>7. Len(RemoveAt(cs, c)) = (c - 1) + (Len(cs) - c) /\ RemoveAt(cs, c) \in Seq(Pages)
    BY <2>3, <2>4, <2>5, <2>6
  <2>8. (c - 1) + (Len(cs) - c) # Len(cs)
    BY <2>2
  <2> QED
    BY <2>7, <2>8
<1>10. g.containers \in Seq(Pages)
  BY <1>2, <1>5, <1>8, <1>9
<1>11. IsPools(pools')
  <2>1. g.used \in SUBSET Places
    BY <1>1, <1>2
  <2>2. g \in [containers : Seq(Pages), used : SUBSET Places]
    BY <1>2, <1>10, <2>1
  <2> QED
    BY <1>1, <1>3, <2>2 DEF IsPools
<1>12. /\ IsGiven(k, s, pools, pools')
       /\ LeavesEmpty(pools[k], s) <=> g.containers # cs
  <2>1. cs = pools[k].containers
    BY DEF cs
  <2>2. CASE LeavesEmpty(pools[k], s)
    <3>1. c # 1 /\ g.containers = RemoveAt(cs, c) /\ g.containers # cs
      BY <1>2, <1>8, <1>9, <2>2
    <3> QED
      BY <1>2, <1>4, <1>6, <1>7, <1>11, <2>1, <2>2, <3>1 DEF IsGiven
  <2>3. CASE ~LeavesEmpty(pools[k], s)
    <3>1. g.containers = cs
      BY <1>2, <2>3
    <3>2. s[1] = cs[1] \/ \E q \in pools[k].used \ {s} : q[1] = s[1]
      BY <1>7, <2>3
    <3> QED
      BY <1>2, <1>4, <1>11, <2>1, <2>3, <3>1, <3>2 DEF IsGiven
  <2> QED
    BY <2>2, <2>3
<1> QED
  BY <1>4, <1>12 DEF cs

(* The choice of a range. *)
LEMMA ExactIs ==
  ASSUME NEW s \in Seq(HoleNodes), NEW va, NEW n, NEW c \in ExactFit(s, va, n)
  PROVE  c.i \in 1 .. Len(s) /\ c.va = va /\ s[c.i].start <= c.va /\ c.va + n <= End(s[c.i])
BY DEF ExactFit, Among, Choice

\* A size aligned to pages is at least a page.
LEMMA AlignFacts ==
  ASSUME NEW n \in Nat \ {0}
  PROVE  PageAlign(n) \in Nat \ {0}
<1> DEFINE T == {b \in BlockSizes : b <= n}
<1>1. T \in SUBSET (0 .. n) /\ 1 \in T /\ T \in SUBSET (Nat \ {0})
  <2>1. BlockSizes \subseteq Nat \ {0} /\ 1 \in BlockSizes
    BY RangesAssumption
  <2>2. 1 <= n /\ \A b \in Nat : b <= n => b \in 0 .. n
    OBVIOUS
  <2> QED
    BY <2>1, <2>2
<1> HIDE DEF T
<1>2. Max(T) \in T
  BY <1>1, GreatestOf
<1> QED
  BY <1>1, <1>2 DEF PageAlign, T

\* An aligned address is not below the one it was.
LEMMA AlignedUp ==
  ASSUME NEW x \in Nat, NEW a \in Nat \ {0}
  PROVE  AlignUp(x, a) \in Nat /\ x <= AlignUp(x, a)
<1> DEFINE y == x + a - 1
           q == y \div a
           r == y % a
<1>1. y \in Nat /\ y = x + (a - 1)
  OBVIOUS
<1> HIDE DEF y
<1>2. q \in Nat /\ r \in 0 .. a - 1 /\ y = a * q + r
  BY <1>1
<1>3. AlignUp(x, a) = q * a
  BY DEF AlignUp, y
<1> HIDE DEF q, r
<1>4. q * a = a * q /\ a * q \in Nat
  BY <1>2
<1> DEFINE p == a * q
<1>5. p \in Nat /\ y = p + r /\ q * a = p
  BY <1>2, <1>4
<1> HIDE DEF p
<1>6. x <= p
  BY <1>1, <1>2, <1>5
<1> QED
  BY <1>3, <1>5, <1>6

\* What find_first_fva finds is in a hole, with room for the request.
LEMMA FirstIs ==
  ASSUME NEW s \in Seq(HoleNodes), NEW n \in Nat \ {0}, NEW c \in FirstFit(s, n)
  PROVE  /\ c.i \in 1 .. Len(s) /\ c.va \in Nat /\ s[c.i].start <= c.va /\ c.va + n <= End(s[c.i])
<1> DEFINE A == Among(s, LAMBDA r : FitsAligned(r, n))
           L == Among(s, LAMBDA r : n <= r.size)
<1>1. DOMAIN s = 1 .. Len(s) /\ Len(s) \in Nat
  OBVIOUS
<1>2. A \in SUBSET (1 .. Len(s)) /\ A \in SUBSET Nat /\ \A i \in A : AlignUp(s[i].start, PageAlign(n)) + n <= End(s[i])
  BY <1>1 DEF Among, FitsAligned
<1>3. L \in SUBSET (1 .. Len(s)) /\ L \in SUBSET Nat /\ \A i \in L : n <= s[i].size
  BY <1>1 DEF Among
<1>4. \/ A # {} /\ c = Choice(Min(A), AlignUp(s[Min(A)].start, PageAlign(n)))
      \/ L # {} /\ c = Choice(Min(L), s[Min(L)].start)
  BY DEF FirstFit
<1> HIDE DEF A, L
<1>5. \A i \in 1 .. Len(s) : s[i].start \in Nat /\ s[i].size \in Nat
  <2>1. ASSUME NEW i \in 1 .. Len(s) PROVE s[i].start \in Nat /\ s[i].size \in Nat
    <3>1. s[i] \in HoleNodes
      BY <1>1
    <3> QED
      BY <3>1 DEF HoleNodes
  <2> QED
    BY <2>1
<1>6. CASE A # {} /\ c = Choice(Min(A), AlignUp(s[Min(A)].start, PageAlign(n)))
  <2>1. Min(A) \in A
    BY <1>2, <1>6, LeastOf
  <2>2. c.i = Min(A) /\ c.va = AlignUp(s[Min(A)].start, PageAlign(n))
    BY <1>6 DEF Choice
  <2>3. c.i \in 1 .. Len(s) /\ s[c.i].start \in Nat /\ c.va = AlignUp(s[c.i].start, PageAlign(n)) /\ c.va + n <= End(s[c.i])
    BY <1>2, <1>5, <2>1, <2>2
  <2>4. AlignUp(s[c.i].start, PageAlign(n)) \in Nat /\ s[c.i].start <= AlignUp(s[c.i].start, PageAlign(n))
    BY <2>3, AlignFacts, AlignedUp
  <2> QED
    BY <2>3, <2>4
<1>7. CASE L # {} /\ c = Choice(Min(L), s[Min(L)].start)
  <2>1. Min(L) \in L
    BY <1>3, <1>7, LeastOf
  <2>2. c.i = Min(L) /\ c.va = s[Min(L)].start
    BY <1>7 DEF Choice
  <2>3. c.i \in 1 .. Len(s) /\ s[c.i].start \in Nat /\ c.va = s[c.i].start /\ n <= s[c.i].size /\ s[c.i].size \in Nat
    BY <1>3, <1>5, <2>1, <2>2
  <2> DEFINE st == s[c.i].start
             sz == s[c.i].size
  <2>4. st \in Nat /\ sz \in Nat /\ n <= sz
    BY <2>3
  <2> HIDE DEF st, sz
  <2>5. st + n <= st + sz /\ st <= st
    BY <2>4
  <2> QED
    BY <2>3, <2>5 DEF End, st, sz
<1> QED
  BY <1>4, <1>6, <1>7

(* The order of a block. *)
LEMMA OrderFacts ==
  ASSUME NEW n \in Nat \ {0}
  PROVE  /\ log2_floor(n) \in 0 .. MAX_ORDER /\ power_of2[log2_floor(n)] <= n
         /\ power_of2[log2_floor(n)] \in Nat \ {0}
<1> DEFINE T == {o \in 0 .. MAX_ORDER : power_of2[o] <= n}
<1>1. MAX_ORDER \in Nat /\ power_of2[0] = 1 /\ power_of2 \in [0 .. MAX_ORDER -> Nat \ {0}]
  BY HeapAssumption
<1>2. 0 \in T
  BY <1>1
<1>3. T \in SUBSET (0 .. MAX_ORDER) /\ \A o \in T : power_of2[o] <= n
  OBVIOUS
<1> HIDE DEF T
<1>4. Max(T) \in T
  BY <1>1, <1>2, <1>3, GreatestOf
<1>5. log2_floor(n) = Max(T)
  BY DEF log2_floor, T
<1> QED
  BY <1>1, <1>3, <1>4, <1>5
\* A power of two of pages is one block.
LEMMA ExactOrder ==
  ASSUME NEW o \in 0 .. MAX_ORDER
  PROVE  log2_floor(power_of2[o]) = o
<1> DEFINE n == power_of2[o]
           T == {q \in 0 .. MAX_ORDER : power_of2[q] <= n}
<1>1. MAX_ORDER \in Nat /\ power_of2 \in [0 .. MAX_ORDER -> Nat \ {0}]
      /\ \A a, b \in 0 .. MAX_ORDER : a < b => power_of2[a] < power_of2[b]
  BY HeapAssumption
<1>2. n \in Nat \ {0} /\ o \in Nat
  BY <1>1
<1>3. o \in T /\ T \in SUBSET (0 .. MAX_ORDER)
  BY <1>1, <1>2
<1>4. ASSUME NEW q \in T PROVE q <= o
  <2>1. q \in 0 .. MAX_ORDER /\ power_of2[q] <= n /\ power_of2[q] \in Nat /\ q \in Nat
    BY <1>1
  <2>2. o < q => n < power_of2[q]
    BY <1>1, <2>1
  <2> QED
    BY <1>2, <2>1, <2>2
<1> HIDE DEF T
<1>5. Max(T) \in T /\ \A y \in T : y <= Max(T)
  BY <1>1, <1>3, GreatestOf
<1>6. Max(T) <= o /\ o <= Max(T) /\ Max(T) \in 0 .. MAX_ORDER
  BY <1>3, <1>4, <1>5
<1>7. Max(T) = o
  BY <1>1, <1>2, <1>6
<1> QED
  BY <1>7 DEF log2_floor, T
=============================================================================
