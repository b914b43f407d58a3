----------------------------- MODULE KernelHeapProofs -----------------------------
(***************************************************************************)
(* Every step of KernelHeap keeps the invariant of KernelHeapLemmas, and   *)
(* with it hold, for every size of the areas and of the reserve, every     *)
(* request and every block page_malloc may lend:                           *)
(*   AllocatorNeverMisfires   no assertion of the allocator fails;         *)
(*   RangesArePartitioned     the lists share out the addresses;           *)
(*   NodesAreAccounted        the nodes share out the slots.               *)
(* A step executes the top of the stack, h, and puts operations a in its   *)
(* place.  Each proof says what a pushes, claims and gives back (Sums,     *)
(* SlotSums, KnownIn), what the step changed of the lists, the owners and  *)
(* the slots, and concludes that the sum is what it was.                   *)
(***************************************************************************)
EXTENDS KernelHeapLemmas

-----------------------------------------------------------------------------
(* The top of the stack is executed. *)

\* The invariant from its parts after a step.
LEMMA Concluded ==
  ASSUME NEW f \in Seq(Ops), Types', panic' \notin {"null", "assert", "permanent"},
         Matches(todo', f, reserve'), Shape(f, reserve'), AssignsOwn(f),
         ListsInv(fva', rva', f), OwnersInv(pools', reserve', tablePages', held', rva', f),
         SlotsInv(pools', fva', rva', f)
  PROVE  ListInv'
<1>1. StackInv(f)'
  BY DEF StackInv
<1>2. NoFalseAlarm'
  BY DEF NoFalseAlarm
<1> QED
  BY <1>1, <1>2 DEF ListInv

\* Stopping the core keeps it: nothing else changes.
LEMMA PanicStep ==
  ASSUME ListInv, NEW what \in {"oom", "va", "reserve", "mmu_free"}, Panic(what)
  PROVE  ListInv'
<1>1. PICK e \in Seq(Ops) : StackInv(e)
  BY DEF ListInv
<1>2. /\ fva' = fva /\ rva' = rva /\ pools' = pools /\ reserve' = reserve /\ lent' = lent /\ pt' = pt
      /\ tablePages' = tablePages /\ held' = held /\ todo' = todo /\ panic' = what
  BY DEF Panic, lists, memory
<1>3. Types'
  BY <1>2 DEF ListInv, Types
<1>4. /\ Matches(todo, e, reserve) /\ Shape(e, reserve) /\ AssignsOwn(e) /\ ListsInv(fva, rva, e)
      /\ OwnersInv(pools, reserve, tablePages, held, rva, e) /\ SlotsInv(pools, fva, rva, e)
  BY <1>1 DEF StackInv
<1> QED
  BY <1>2, <1>3, <1>4, Concluded

\* What is known when an entry of the stack is executed.
Top(e) ==
  /\ StackInv(e) /\ Types /\ e \in Seq(Ops) /\ e # <<>> /\ Head(e) = Now
  /\ Head(e) \in Ops /\ Tail(e) \in Seq(Ops) /\ EntryOk(Head(e), reserve)
Sums3(e) == PagesApart(e, Pushes) /\ Once(e, Claims, ClaimOf)

\* The entry that is executed is the top of the whole stack.
LEMMA TopFacts ==
  ASSUME ListInv, todo # <<>>
  PROVE  \E e \in Seq(Ops), x \in Seq(Ops) :
           Top(e) /\ HiddenBy(Head(e), Tail(e), reserve, x) /\ Tail(todo) = x \o Tail(e)
<1>1. PICK e \in Seq(Ops) : StackInv(e)
  BY DEF ListInv
<1>2. Matches(todo, e, reserve) /\ Shape(e, reserve)
  BY <1>1 DEF StackInv
<1>3. e # <<>> /\ Head(todo) = Head(e)
  BY <1>2, TopOf
<1>4. PICK x \in Seq(Ops) : HiddenBy(Head(e), Tail(e), reserve, x) /\ Tail(todo) = x \o Tail(e)
  BY <1>2, TopOf
<1>5. Head(e) \in Ops /\ Tail(e) \in Seq(Ops)
  BY <1>3, HeadTail
<1>6. EntryOk(Head(e), reserve)
  BY <1>2, <1>3, ChainTail
<1>7. Types
  BY DEF ListInv
<1>8. Top(e)
  BY <1>1, <1>3, <1>5, <1>6, <1>7 DEF Top, Now
<1> QED
  BY <1>4, <1>8

\* The first entry, when nothing is hidden below it.
LEMMA PlainTop ==
  ASSUME ListInv, todo # <<>>, Now.do \notin PopKinds
  PROVE  \E e \in Seq(Ops) : Top(e) /\ Tail(todo) = Tail(e)
<1>1. PICK e \in Seq(Ops), x \in Seq(Ops) : Top(e) /\ HiddenBy(Head(e), Tail(e), reserve, x) /\ Tail(todo) = x \o Tail(e)
  BY TopFacts
<1>2. Head(e) = Now /\ Tail(e) \in Seq(Ops)
  BY <1>1 DEF Top
<1>3. Now.do # "pop_kmap" /\ Now.do # "pop_rva"
  BY DEF PopKinds
<1>4. x = <<>>
  BY <1>1, <1>2, <1>3 DEF HiddenBy
<1>5. Tail(todo) = Tail(e)
  <2>1. \A s \in Seq(Ops) : <<>> \o s = s
    OBVIOUS
  <2> QED
    BY <1>1, <1>2, <1>4, <2>1
<1> QED
  BY <1>1, <1>5

\* What the invariant says of it, part by part.
LEMMA TopParts ==
  ASSUME NEW e, Top(e)
  PROVE  /\ Types /\ e \in Seq(Ops) /\ e # <<>> /\ Head(e) = Now /\ Now \in Ops /\ Tail(e) \in Seq(Ops)
         /\ EntryOk(Now, reserve) /\ Matches(todo, e, reserve) /\ Shape(e, reserve) /\ AssignsOwn(e)
         /\ ListsInv(fva, rva, e) /\ OwnersInv(pools, reserve, tablePages, held, rva, e) /\ SlotsInv(pools, fva, rva, e)
         /\ InOrder(fva, rva) /\ InAreas(fva, rva) /\ Ranges(fva, rva, e) /\ Sums3(e)
         /\ ClaimsApart(pools, reserve, tablePages, held, e) /\ ClaimsKnown(pools, reserve, tablePages, held, rva, e)
         /\ Permanents(pools, rva) /\ Slots(pools, fva, rva, e) /\ NodesApart(fva, rva)
         /\ Owned(pools, reserve, tablePages, held) \subseteq StartsOf(rva) /\ KnownIn(e, StartsOf(rva))
BY DEF Top, StackInv, ListsInv, OwnersInv, SlotsInv, Sums3, ClaimsApart, Ranges, ClaimsKnown

\* The parts about owners that steps use.
LEMMA OwnersParts ==
  ASSUME NEW P, NEW rs, NEW T, NEW H, NEW R, NEW e, OwnersInv(P, rs, T, H, R, e)
  PROVE  /\ PoolsApart(P) /\ ReserveApart(rs) /\ HeldApart(H) /\ Once(e, Claims, ClaimOf)
         /\ InContainers(P) \cap InReserve(rs) = {} /\ Owned(P, rs, T, H) \cap Claimed(e) = {}
         /\ InReserve(rs) \subseteq StartsOf(R) /\ Owned(P, rs, T, H) \subseteq StartsOf(R)
         /\ KnownIn(e, StartsOf(R)) /\ Permanents(P, R)
         /\ \A r \in AllOf(R) : r.permanent => r.start \in 0 .. 2
         /\ \A k \in Pools : Distinct(P[k].containers) /\ ToSet(P[k].containers) \cap InReserve(rs) = {}
<1>1. ClaimsApart(P, rs, T, H, e) /\ ClaimsKnown(P, rs, T, H, R, e) /\ Permanents(P, R)
  BY DEF OwnersInv
<1>2. FiveApart(InContainers(P), InReserve(rs), T, VasOf(H), Claimed(e))
      /\ PoolsApart(P) /\ ReserveApart(rs) /\ HeldApart(H) /\ Once(e, Claims, ClaimOf)
  BY <1>1 DEF ClaimsApart
<1>3. InContainers(P) \cap InReserve(rs) = {} /\ Owned(P, rs, T, H) \cap Claimed(e) = {}
  BY <1>2 DEF FiveApart, Owned
<1>4. Owned(P, rs, T, H) \subseteq StartsOf(R) /\ KnownIn(e, StartsOf(R))
  BY <1>1 DEF ClaimsKnown
<1>5. InReserve(rs) \subseteq StartsOf(R)
  BY <1>4 DEF Owned
<1>6. \A r \in AllOf(R) : r.permanent => r.start \in 0 .. 2
  BY <1>1 DEF Permanents
<1>7. \A k \in Pools : Distinct(P[k].containers)
  BY <1>2 DEF PoolsApart
<1>8. \A k \in Pools : ToSet(P[k].containers) \subseteq InContainers(P)
  BY DEF InContainers
<1> QED
  BY <1>1, <1>2, <1>3, <1>4, <1>5, <1>6, <1>7, <1>8

\* A node of a list takes a slot.
LEMMA Taken ==
  ASSUME NEW e, Top(e), NEW k \in Pools, Lacks(Cost(k)) = "none", pools' = WithNode(k), TakePages(Cost(k))
  PROVE  /\ IsTook(k, Slot(k), pools, reserve, pools', reserve')
         /\ OwnersInv(pools', reserve', tablePages, held, rva, e)
         /\ IsPools(pools) /\ NoMore(reserve, reserve') /\ Slot(k) \in Places /\ Slot(k) \notin pools[k].used
         /\ Distinct(pools[k].containers)
         /\ Slot(k)[1] \in InReserve(reserve) => Slot(k)[1] \notin ToSet(pools[k].containers)
<1>1. Types /\ InAreas(fva, rva) /\ OwnersInv(pools, reserve, tablePages, held, rva, e) /\ Slots(pools, fva, rva, e)
  BY TopParts
<1>2. /\ ReserveApart(reserve) /\ InReserve(reserve) \subseteq StartsOf(rva)
      /\ Distinct(pools[k].containers) /\ ToSet(pools[k].containers) \cap InReserve(reserve) = {}
  BY <1>1, OwnersParts
<1>3. ~(Cardinality(Reserved) < Cost(k))
  BY <1>1, <1>2, NeverNull
<1>4. Cardinality(Reserved) >= Cost(k)
  <2>1. Cost(k) \in {0, 1}
    BY DEF Cost
  <2> QED
    BY <1>3, <2>1, ReservedFacts
<1>5. Keeps(k, pools, reserve)
  BY <1>1 DEF Keeps, Slots, SlotsOf
<1>6. InReserve(reserve) \cap ToSet(pools[k].containers) = {}
  BY <1>2
<1>7. IsTook(k, Slot(k), pools, reserve, pools', reserve')
  BY <1>1, <1>2, <1>4, <1>5, <1>6, TakenIs
<1>8. IsPools(pools)
  BY <1>1 DEF Types, IsPools
<1>9. OwnersInv(pools', reserve', tablePages, held, rva, e)
  BY <1>1, <1>7, <1>8, OwnersTook
<1>10. NoMore(reserve, reserve') /\ Slot(k) \in Places /\ Slot(k) \notin pools[k].used
  BY <1>7 DEF IsTook
<1> QED
  BY <1>2, <1>6, <1>7, <1>8, <1>9, <1>10

\* A node can only be missing for want of the reserve.
LEMMA LacksCase ==
  ASSUME NEW e, Top(e), NEW k
  PROVE  Lacks(k) = "none" \/ Lacks(k) = "reserve"
<1>1. Types /\ InAreas(fva, rva) /\ OwnersInv(pools, reserve, tablePages, held, rva, e)
  BY TopParts
<1>2. InReserve(reserve) \subseteq StartsOf(rva)
  BY <1>1, OwnersParts
<1> QED
  BY <1>1, <1>2, NeverNull

\* The first entry goes, and the reserve may lose pages.
LEMMA TailTop ==
  ASSUME NEW e, Top(e), NEW rs2, NoMore(reserve, rs2)
  PROVE  /\ Tail(e) \in Seq(Ops) /\ Shape(Tail(e), rs2) /\ AssignsOwn(Tail(e)) /\ Matches(Tail(e), Tail(e), rs2)
         /\ NotPopping(Tail(e)) /\ <<>> \o Tail(e) = Tail(e)
<1>1. e \in Seq(Ops) /\ e # <<>> /\ Shape(e, reserve) /\ AssignsOwn(e) /\ Tail(e) \in Seq(Ops)
  BY TopParts
<1>2. Shape(Tail(e), reserve) /\ AssignsOwn(Tail(e)) /\ Tail(e) = <<>> \o Tail(e)
  BY <1>1, TailShape
<1>3. Shape(Tail(e), rs2)
  BY <1>1, <1>2, ShapeLess DEF NoMore
<1>4. Tail(e) # <<>> => Head(Tail(e)).do \notin TopKinds
  BY <1>1, ChainTail DEF Linked
<1>5. Tail(e) # <<>> => Head(Tail(e)).do \notin PopKinds /\ Head(Tail(e)).do # "pop_rva"
  BY <1>4 DEF TopKinds, PopKinds
<1>6. Matches(Tail(e), Tail(e), rs2)
  BY <1>1, <1>5, PlainMatches
<1> QED
  BY <1>1, <1>2, <1>3, <1>5, <1>6 DEF NotPopping

\* Entries in place of the first one, of which none pops.
LEMMA PlainTopNext ==
  ASSUME NEW e, Top(e), NEW rs2, NoMore(reserve, rs2), NEW a, AllPlain(a, reserve),
         a # <<>> => a[1].do \notin PopKinds
  PROVE  /\ a \o Tail(e) \in Seq(Ops) /\ Shape(a \o Tail(e), rs2) /\ AssignsOwn(a \o Tail(e))
         /\ Matches(a \o Tail(e), a \o Tail(e), rs2) /\ NotPopping(a \o Tail(e))
<1>1. e \in Seq(Ops) /\ e # <<>> /\ Shape(e, reserve) /\ AssignsOwn(e) /\ Tail(e) \in Seq(Ops) /\ a \in Seq(Ops)
  BY TopParts DEF AllPlain
<1>2. Shape(a \o Tail(e), reserve) /\ AssignsOwn(a \o Tail(e)) /\ a \o Tail(e) \in Seq(Ops)
  BY <1>1, PlainShape
<1>3. Shape(a \o Tail(e), rs2)
  BY <1>2, ShapeLess DEF NoMore
<1>4. Tail(e) # <<>> => Head(Tail(e)).do \notin PopKinds
  BY <1>1, ChainTail DEF TopKinds, PopKinds, Linked
<1>5. a \o Tail(e) # <<>> => Head(a \o Tail(e)).do \notin PopKinds
  <2>1. CASE a = <<>>
    <3>1. \A s \in Seq(Ops) : <<>> \o s = s
      OBVIOUS
    <3>2. a \o Tail(e) = Tail(e)
      BY <1>1, <2>1, <3>1
    <3> QED
      BY <1>4, <3>2
  <2>2. CASE a # <<>>
    <3>1. \A x, y \in Seq(Ops) : x # <<>> => Head(x \o y) = x[1]
      OBVIOUS
    <3>2. Head(a \o Tail(e)) = a[1]
      BY <1>1, <2>2, <3>1
    <3> QED
      BY <2>2, <3>2
  <2> QED
    BY <2>1, <2>2
<1>6. Matches(a \o Tail(e), a \o Tail(e), rs2)
  BY <1>2, <1>5, PlainMatches
<1>7. NotPopping(a \o Tail(e))
  BY <1>5 DEF NotPopping, PopKinds
<1> QED
  BY <1>2, <1>3, <1>6, <1>7

-----------------------------------------------------------------------------
(* push_rva. *)

SlotsSame(e, f, K) == \A m \in Pools \ K : SlotSums(f, m, OpPlaces(e, m))
TakingSame(F, R, F2, R2, K) == \A m \in Pools \ K : Taking(m, F2, R2) = Taking(m, F, R)
FitsPool(k, s, P, rs) ==
  /\ Distinct(P[k].containers)
  /\ s[1] \in InReserve(rs) => s[1] \notin ToSet(P[k].containers)

\* A node of pool k is added to a list.
LEMMA SlotsTook ==
  ASSUME NEW P, NEW F, NEW R, NEW e, NEW k, NEW s, NEW P2, NEW rs, NEW rs2, NEW F2, NEW R2, NEW f,
         Slots(P, F, R, e), IsPools(P), IsTook(k, s, P, rs, P2, rs2), FitsPool(k, s, P, rs),
         SlotsSame(e, f, {}), TakingSame(F, R, F2, R2, {k}), Taking(k, F2, R2) = Taking(k, F, R) \union {s}
  PROVE  Slots(P2, F2, R2, f)
<1>1. ASSUME NEW m \in Pools
      PROVE  SlotsOf(m, P2[m], Taking(m, F2, R2), f)
  <2>1. SlotsOf(m, P[m], Taking(m, F, R), e) /\ SlotSums(f, m, OpPlaces(e, m))
    BY DEF Slots, SlotsSame
  <2>2. CASE m = k
    <3>1. SlotsOf(k, P[k], Taking(k, F, R), e) /\ SlotSums(f, k, OpPlaces(e, k)) /\ Distinct(P[k].containers)
          /\ (s[1] \in InReserve(rs) => s[1] \notin ToSet(P[k].containers))
      BY <2>1, <2>2 DEF FitsPool
    <3>2. SlotsOf(k, P2[k], Taking(k, F, R) \union {s}, f)
      BY <3>1, SlotTaken
    <3> QED
      BY <2>2, <3>2
  <2>3. CASE m # k
    <3>1. P2[m] = P[m] /\ Taking(m, F2, R2) = Taking(m, F, R)
      BY <2>3 DEF IsTook, TakingSame
    <3> QED
      BY <2>1, <3>1, SlotsKept
  <2> QED
    BY <2>2, <2>3
<1> QED
  BY <1>1 DEF Slots

\* Nodes of pool k leave a list, and the stack is to free them.
LEMMA SlotsGone ==
  ASSUME NEW P, NEW F, NEW R, NEW e, NEW k, NEW S, NEW F2, NEW R2, NEW f,
         Slots(P, F, R, e), k \in Pools, S \subseteq Taking(k, F, R), SlotSums(f, k, S \union OpPlaces(e, k)),
         SlotsSame(e, f, {k}), TakingSame(F, R, F2, R2, {k}), Taking(k, F2, R2) = Taking(k, F, R) \ S
  PROVE  Slots(P, F2, R2, f)
<1>1. ASSUME NEW m \in Pools
      PROVE  SlotsOf(m, P[m], Taking(m, F2, R2), f)
  <2>1. SlotsOf(m, P[m], Taking(m, F, R), e)
    BY DEF Slots
  <2>2. CASE m = k
    <3>1. SlotsOf(k, P[k], Taking(k, F, R) \ S, f)
      BY <2>1, <2>2, SlotsLeft
    <3> QED
      BY <2>2, <3>1
  <2>3. CASE m # k
    <3>1. Taking(m, F2, R2) = Taking(m, F, R) /\ SlotSums(f, m, OpPlaces(e, m))
      BY <2>3 DEF TakingSame, SlotsSame
    <3> QED
      BY <2>1, <3>1, SlotsKept
  <2> QED
    BY <2>2, <2>3
<1> QED
  BY <1>1 DEF Slots

\* The lists and the pools stay as they are.
LEMMA SlotsIdle ==
  ASSUME NEW P, NEW F, NEW R, NEW e, NEW F2, NEW R2, NEW f,
         Slots(P, F, R, e), SlotsSame(e, f, {}), TakingSame(F, R, F2, R2, {})
  PROVE  Slots(P, F2, R2, f)
<1>1. ASSUME NEW m \in Pools
      PROVE  SlotsOf(m, P[m], Taking(m, F2, R2), f)
  <2>1. SlotsOf(m, P[m], Taking(m, F, R), e)
    BY DEF Slots
  <2>2. Taking(m, F2, R2) = Taking(m, F, R) /\ SlotSums(f, m, OpPlaces(e, m))
    BY DEF TakingSame, SlotsSame
  <2> QED
    BY <2>1, <2>2, SlotsKept
<1> QED
  BY <1>1 DEF Slots

\* The slots the tail of the stack is to free.
LEMMA TailSame ==
  ASSUME NEW e, Top(e), NEW K, Now.do \in Pools => Now.do \in K
  PROVE  SlotsSame(e, Tail(e), K)
<1>1. e \in Seq(Ops) /\ e # <<>> /\ Head(e) = Now /\ Slots(pools, fva, rva, e)
  BY TopParts
<1>2. ASSUME NEW m \in Pools \ K
      PROVE  SlotSums(Tail(e), m, OpPlaces(e, m))
  <2>1. Once(e, SlotOps(m), PlaceOf)
    BY <1>1 DEF Slots, SlotsOf
  <2>2. SlotSums(Tail(e), m, OpPlaces(e, m) \ HeadSlot(Head(e), m))
    BY <1>1, <2>1, TailSlots DEF OpPlaces
  <2>3. HeadSlot(Head(e), m) = {}
    BY <1>1 DEF HeadSlot
  <2>4. OpPlaces(e, m) \ HeadSlot(Head(e), m) = OpPlaces(e, m)
    BY <2>3
  <2> QED
    BY <2>2, <2>4
<1> QED
  BY <1>2 DEF SlotsSame

\* Entries in place of the first one that free no slot.
LEMMA PutSame ==
  ASSUME NEW e, Top(e), NEW K, Now.do \in Pools => Now.do \in K, NEW a, \A k \in Pools : SlotSums(a, k, {})
  PROVE  SlotsSame(e, a \o Tail(e), K)
<1>1. ASSUME NEW m \in Pools \ K
      PROVE  SlotSums(a \o Tail(e), m, OpPlaces(e, m))
  <2>1. SlotSums(Tail(e), m, OpPlaces(e, m))
    BY TailSame DEF SlotsSame
  <2>2. SlotSums(a, m, {})
    OBVIOUS
  <2>3. SlotSums(a \o Tail(e), m, {} \union OpPlaces(e, m))
    BY <2>1, <2>2, SlotSumsCat
  <2> QED
    BY <2>3
<1> QED
  BY <1>1 DEF SlotsSame

\* What the tail of the stack says, and what it says with entries before it.
LEMMA TailSays ==
  ASSUME NEW e, Top(e)
  PROVE  /\ Sums(Tail(e), PagesIn(e, Pushes) \ HeadPages(Now), Claimed(e) \ HeadClaim(Now))
         /\ HeadPages(Now) \subseteq PagesIn(e, Pushes) /\ HeadClaim(Now) \subseteq Claimed(e)
<1>1. e \in Seq(Ops) /\ e # <<>> /\ Head(e) = Now /\ PagesApart(e, Pushes) /\ Once(e, Claims, ClaimOf)
  BY TopParts DEF Sums3
<1> QED
  BY <1>1, TailSums

\* Nodes that are in a list have their slot.
LEMMA SlotIsNew ==
  ASSUME NEW P, NEW F, NEW R, NEW e, Slots(P, F, R, e), NEW k \in Pools, NEW s, s \notin P[k].used
  PROVE  s \notin Taking(k, F, R)
<1>1. SlotsOf(k, P[k], Taking(k, F, R), e)
  BY DEF Slots
<1> QED
  BY <1>1 DEF SlotsOf

\* The parts about nodes that steps use.
LEMMA NodesParts ==
  ASSUME NEW F, NEW R
  PROVE  NodesApart(F, R) <=> /\ PlacesApart(AllOf(F)) /\ PlacesApart(AllOf(R))
                              /\ PlacesApart(Recs(AllOf(R))) /\ RecsApart(AllOf(R))
BY DEF NodesApart, RecordsApart, RecsApart

\* The slots in use of each pool.
LEMMA TakingIs ==
  ASSUME NEW F, NEW R
  PROVE  /\ Taking("fva", F, R) = PlacesIn(AllOf(F)) /\ Taking("rva", F, R) = PlacesIn(AllOf(R))
         /\ Taking("mdt", F, R) = PlacesIn(Recs(AllOf(R)))
         /\ Pools = {"fva", "rva", "mdt"}
BY DEF Taking, Pools

\* The lists of types.
LEMMA ListTypes ==
  ASSUME Types, NEW l \in Lists
  PROVE  /\ fva[l] \in Seq(HoleNodes) /\ rva[l] \in Seq(RvaNodes)
         /\ fva \in [Lists -> Seq(HoleNodes)] /\ rva \in [Lists -> Seq(RvaNodes)]
         /\ ToSet(fva[l]) \subseteq HoleNodes /\ ToSet(rva[l]) \subseteq RvaNodes
         /\ Ranged(HoleNodes) /\ Ranged(RvaNodes)
<1>1. fva[l] \in Seq(HoleNodes) /\ rva[l] \in Seq(RvaNodes)
         /\ fva \in [Lists -> Seq(HoleNodes)] /\ rva \in [Lists -> Seq(RvaNodes)]
  BY DEF Types
<1>2. \A S, s : s \in Seq(S) => ToSet(s) \subseteq S
  <2>1. ASSUME NEW S, NEW s \in Seq(S) PROVE ToSet(s) \subseteq S
    BY DEF ToSet
  <2> QED
    BY <2>1
<1> QED
  BY <1>1, <1>2, NodesRanged

\* A node is in one list of its tree.
LEMMA TwoListsApart ==
  ASSUME Types, InAreas(fva, rva)
  PROVE  /\ ToSet(fva["kmap"]) \cap ToSet(fva["dynamic"]) = {}
         /\ ToSet(rva["kmap"]) \cap ToSet(rva["dynamic"]) = {}
<1>1. ASSUME NEW l \in Lists PROVE Ranged(ToSet(fva[l])) /\ Ranged(ToSet(rva[l]))
  BY ListTypes DEF Ranged
<1>2. InAreas(fva, fva) /\ InAreas(rva, rva)
  BY DEF InAreas
<1> QED
  BY <1>1, <1>2, ListsApart

\* One of the lists of a pair changes.
LEMMA ListChanged ==
  ASSUME NEW S, NEW F \in [Lists -> Seq(S)], NEW l \in Lists, NEW u \in Seq(S), NEW F2, F2 = [F EXCEPT ![l] = u]
  PROVE  F2 \in [Lists -> Seq(S)] /\ F2[l] = u /\ OneList(F, F2, l)
BY DEF OneList

\* The starts of the ranges after a change of the nodes.
LEMMA StartsMore ==
  ASSUME NEW R, NEW R2, NEW D, NEW N, IsSwap(AllOf(R), AllOf(R2), D, N)
  PROVE  StartsOf(R2) = {r.start : r \in (AllOf(R) \ D) \union N}
BY DEF StartsOf, IsSwap

\* push_rva: a range enters the tree that claims and owners may now name.
LEMMA StepPushRva ==
  ASSUME ListInv, PushRva
  PROVE  ListInv'
<1>1. Doing("push_rva")
  BY DEF PushRva
<1>2. todo # <<>> /\ Now.do = "push_rva"
  BY <1>1 DEF Doing, Now
<1>3. PICK e \in Seq(Ops) : Top(e) /\ Tail(todo) = Tail(e)
  BY <1>2, PlainTop DEF PopKinds
<1>4. PICK o : o = Now
  OBVIOUS
<1>5. PICK l : l = ListOf(o.va)
  OBVIOUS
<1>6. PICK node : node = Reservation(Slot("rva"), o.va, o.n, FALSE)
  OBVIOUS
<1>7. /\ Types /\ Head(e) = Now /\ Now \in Ops /\ EntryOk(Now, reserve) /\ e \in Seq(Ops) /\ e # <<>>
      /\ ListsInv(fva, rva, e) /\ OwnersInv(pools, reserve, tablePages, held, rva, e)
      /\ Slots(pools, fva, rva, e) /\ NodesApart(fva, rva)
      /\ InOrder(fva, rva) /\ InAreas(fva, rva) /\ Ranges(fva, rva, e)
  BY <1>3, TopParts
<1>8. /\ l \in Lists /\ Run(o.va, o.n) \subseteq Area(l) /\ o.n \in Nat \ {0} /\ o.va \in Nat /\ o.va \in Run(o.va, o.n)
  <2>1. o.va \in Int /\ o.n \in Int /\ o.n >= 1 /\ Run(o.va, o.n) \subseteq Area(l)
    BY <1>2, <1>4, <1>5, <1>7 DEF EntryOk, PushKinds, Sized, Ops
  <2>2. o.va \in Run(o.va, o.n)
    BY <2>1 DEF Run
  <2>3. l \in Lists
    BY <1>5 DEF ListOf, Lists
  <2>4. o.va \in Nat
    BY <2>1, <2>2, <2>3, AreasApart
  <2> QED
    BY <2>1, <2>2, <2>3, <2>4
<1>9. CASE Lacks(Cost("rva")) # "none"
  <2>1. Lacks(Cost("rva")) = "reserve"
    BY <1>3, <1>9, LacksCase
  <2>2. Panic("reserve")
    BY <1>9, <2>1 DEF PushRva
  <2> QED
    BY <2>2, PanicStep
<1>10. CASE Lacks(Cost("rva")) = "none"
  <2>1. /\ rva' = [rva EXCEPT ![l] = InsertAt(rva[l], Place(rva[l], o.va), node)]
        /\ pools' = WithNode("rva") /\ TakePages(Cost("rva")) /\ todo' = <<>> \o Tail(todo)
        /\ fva' = fva /\ lent' = lent /\ pt' = pt /\ tablePages' = tablePages /\ held' = held /\ panic' = panic
    BY <1>4, <1>5, <1>6, <1>10 DEF PushRva, Then, memory
  <2>2. "rva" \in Pools
    BY DEF Pools
  <2>3. /\ IsTook("rva", Slot("rva"), pools, reserve, pools', reserve')
        /\ OwnersInv(pools', reserve', tablePages, held, rva, e)
        /\ IsPools(pools) /\ NoMore(reserve, reserve') /\ Slot("rva") \in Places /\ Slot("rva") \notin pools["rva"].used
        /\ FitsPool("rva", Slot("rva"), pools, reserve)
    BY <1>3, <1>10, <2>1, <2>2, Taken DEF FitsPool
  <2>4. PICK f \in Seq(Ops) : f = Tail(e)
    BY <1>3, TopParts
  <2>5. Shape(f, reserve') /\ AssignsOwn(f) /\ Matches(f, f, reserve') /\ NotPopping(f) /\ todo' = f
    BY <1>3, <2>1, <2>3, <2>4, TailTop
  <2>6. node \in RvaNodes /\ node.at = Slot("rva") /\ node.start = o.va /\ node.size = o.n /\ node.permanent = FALSE
        /\ node.pas = <<>>
    <3>1. <<>> \in Seq(MdtNodes) /\ FALSE \in BOOLEAN
      OBVIOUS
    <3> QED
      BY <1>6, <1>8, <2>3, <3>1 DEF Reservation, RvaNodes
  <2>7. rva[l] \in Seq(RvaNodes) /\ Ranged(RvaNodes) /\ Spaced(rva[l], 0) /\ rva \in [Lists -> Seq(RvaNodes)]
    BY <1>7, <1>8, ListTypes DEF InOrder
  <2>8. PagesOf(node) = Run(o.va, o.n) /\ PagesOf(node) \cap Cover(rva[l]) = {} /\ Run(o.va, o.n) \subseteq PagesIn(e, Pushes)
    <3>1. PagesOf(node) = Run(o.va, o.n)
      BY <2>6 DEF PagesOf
    <3>2. HeadPages(Now) \subseteq PagesIn(e, Pushes)
      BY <1>3, TailSays
    <3>3. Run(o.va, o.n) \subseteq PagesIn(e, Pushes)
      BY <1>2, <1>4, <3>2 DEF HeadPages, PushKinds
    <3>4. PagesIn(e, Pushes) \cap CoverAll(rva) = {}
      BY <1>7 DEF Ranges
    <3>5. Cover(rva[l]) \subseteq CoverAll(rva)
      BY <1>8 DEF CoverAll, Lists
    <3> QED
      BY <3>1, <3>3, <3>4, <3>5
  <2>9. PICK u : u = InsertAt(rva[l], Place(rva[l], node.start), node)
    OBVIOUS
  <2>10. u \in Seq(RvaNodes) /\ Spaced(u, 0) /\ ToSet(u) = ToSet(rva[l]) \union {node}
    <3>1. PICK s : s = rva[l]
      OBVIOUS
    <3>2. s \in Seq(RvaNodes) /\ Spaced(s, 0) /\ PagesOf(node) \cap Cover(s) = {} /\ Ranged(RvaNodes) /\ node \in RvaNodes
      BY <2>6, <2>7, <2>8, <3>1
    <3>3. u = InsertAt(s, Place(s, node.start), node)
      BY <2>9, <3>1
    <3>4. u \in Seq(RvaNodes) /\ Spaced(u, 0) /\ ToSet(u) = ToSet(s) \union {node}
      BY <3>2, <3>3, InsertedInPlace
    <3> QED
      BY <3>1, <3>4
  <2>11. rva' \in [Lists -> Seq(RvaNodes)] /\ rva'[l] = u /\ OneList(rva, rva', l)
    BY <1>8, <2>1, <2>6, <2>7, <2>9, <2>10, ListChanged
  <2>12. Cover(rva'[l]) = Cover(rva[l]) \union Run(o.va, o.n)
    <3>1. CoverOf({node}) = PagesOf(node)
      BY DEF CoverOf
    <3> QED
      BY <2>8, <2>10, <2>11, <3>1, CoverIs, CoverSplits
  <2>13. Sums(f, PagesIn(e, Pushes) \ Run(o.va, o.n), Claimed(e))
    <3>1. HeadPages(Now) = Run(o.va, o.n) /\ HeadClaim(Now) = {}
      BY <1>2, <1>4 DEF HeadPages, HeadClaim, PushKinds, ClaimKinds
    <3>2. Claimed(e) \ {} = Claimed(e)
      OBVIOUS
    <3> QED
      BY <1>3, <2>4, <3>1, <3>2, TailSays
  <2>14. ListsInv(fva', rva', f)
    <3>1. PICK R2 : R2 = rva'
      OBVIOUS
    <3>2. /\ Spaced(R2[l], 0) /\ Cover(R2[l]) = Cover(rva[l]) \union Run(o.va, o.n) /\ OneList(rva, R2, l)
          /\ Run(o.va, o.n) \subseteq Area(l) /\ Run(o.va, o.n) \subseteq PagesIn(e, Pushes)
      BY <1>8, <2>8, <2>10, <2>11, <2>12, <3>1
    <3>3. ListsInv(fva, R2, f)
      BY <1>7, <1>8, <2>5, <2>13, <3>2, ListsPushRva
    <3> QED
      BY <2>1, <3>1, <3>3
  <2>15. IsSwap(AllOf(rva), AllOf(rva'), {}, {node})
    <3>1. IsSwap(ToSet(rva[l]), ToSet(rva'[l]), {}, {node})
      BY <2>10, <2>11 DEF IsSwap
    <3> QED
      BY <1>7, <1>8, <2>11, <3>1, TwoListsApart, AllOfChanged
  <2>16. OwnersInv(pools', reserve', tablePages', held', rva', f)
    <3>1. /\ Owned(pools', reserve', tablePages, held) \cap Claimed(e) = {}
          /\ Owned(pools', reserve', tablePages, held) \subseteq StartsOf(rva)
          /\ KnownIn(e, StartsOf(rva)) /\ \A r \in AllOf(rva) : r.permanent => r.start \in 0 .. 2
      BY <2>3, OwnersParts
    <3>2. StartsOf(rva) \subseteq StartsOf(rva') /\ o.va \in StartsOf(rva')
      BY <2>6, <2>15 DEF StartsOf, IsSwap
    <3>3. KnownIn(f, StartsOf(rva'))
      BY <1>4, <1>7, <2>4, <3>1, <3>2, KnownTail
    <3>4. \A r \in AllOf(rva') : r.permanent => r.start \in 0 .. 2
      BY <2>6, <2>15, <3>1 DEF IsSwap
    <3>5. Claimed(e) \cap Owned(pools', reserve', tablePages, held) = {}
          /\ Owned(pools', reserve', tablePages, held) \subseteq StartsOf(rva')
      BY <3>1, <3>2
    <3> QED
      <4>1. PICK R2, P2, rs2 : R2 = rva' /\ P2 = pools' /\ rs2 = reserve'
        OBVIOUS
      <4>2. OwnersInv(P2, rs2, tablePages, held, R2, f)
        BY <2>3, <2>13, <3>3, <3>4, <3>5, <4>1, OwnersMoved
      <4> QED
        BY <2>1, <4>1, <4>2
  <2>17. SlotsInv(pools', fva', rva', f)
    <3>1. PlacesApart(AllOf(fva)) /\ PlacesApart(AllOf(rva)) /\ PlacesApart(Recs(AllOf(rva))) /\ RecsApart(AllOf(rva))
      BY <1>7, NodesParts
    <3>2. node.at \notin PlacesIn(AllOf(rva))
      <4>1. Slot("rva") \notin Taking("rva", fva, rva)
        BY <1>7, <2>2, <2>3, SlotIsNew
      <4> QED
        BY <2>6, <4>1, TakingIs
    <3>3. PlacesApart(AllOf(rva')) /\ PlacesIn(AllOf(rva')) = PlacesIn(AllOf(rva)) \union {node.at}
      BY <2>15, <3>1, <3>2, PlaceAdded
    <3>4. RecsApart(AllOf(rva')) /\ Recs(AllOf(rva')) = Recs(AllOf(rva))
      <4>1. ToSet(node.pas) = {} /\ Distinct(node.pas)
        BY <2>6 DEF ToSet, Distinct
      <4> QED
        BY <2>15, <3>1, <4>1, RecsAdded
    <3>5. NodesApart(fva', rva')
      BY <2>1, <3>1, <3>3, <3>4, NodesParts
    <3>6. TakingSame(fva, rva, fva', rva', {"rva"})
      BY SMTT(30), <2>1, <3>4, TakingIs DEF TakingSame
    <3>7. Taking("rva", fva', rva') = Taking("rva", fva, rva) \union {Slot("rva")}
      BY <2>6, <3>3, TakingIs
    <3>8. SlotsSame(e, f, {})
      BY <1>2, <1>3, <2>4, TailSame DEF Pools
    <3>9. Slots(pools', fva', rva', f)
      BY <1>7, <2>3, <3>6, <3>7, <3>8, SlotsTook
    <3> QED
      BY <3>5, <3>9 DEF SlotsInv
  <2>18. Types'
    <3>1. IsPools(pools') /\ reserve' \in [Indices -> Pages \cup {NoPage}]
      BY <2>3 DEF IsTook
    <3> QED
      BY <1>7, <2>1, <2>11, <3>1 DEF Types, IsPools
  <2>19. panic' \notin {"null", "assert", "permanent"}
    BY <2>1 DEF ListInv, NoFalseAlarm
  <2> QED
    BY <2>5, <2>14, <2>16, <2>17, <2>18, <2>19, Concluded
<1> QED
  BY <1>9, <1>10

-----------------------------------------------------------------------------
(* page_free, and the ends of raw_kmalloc and of a refill. *)

\* The part about ranges when no list changes.
LEMMA ListsIdle ==
  ASSUME NEW e, Top(e), NEW f, NEW c, Sums(f, PagesIn(e, Pushes), c), NotPopping(f)
  PROVE  ListsInv(fva, rva, f)
<1>1. ListsInv(fva, rva, e)
  BY TopParts
<1>2. SameRanges(rva, rva)
  BY DEF SameRanges
<1>3. PoppedNode(rva, f)
  BY DEF PoppedNode, NotPopping
<1> QED
  BY <1>1, <1>2, <1>3, ListsKept

\* The part about slots when no pool changes.
LEMMA SlotsStill ==
  ASSUME NEW e, Top(e), NEW f, SlotsSame(e, f, {})
  PROVE  SlotsInv(pools, fva, rva, f)
<1>1. Slots(pools, fva, rva, e) /\ NodesApart(fva, rva)
  BY TopParts
<1>2. TakingSame(fva, rva, fva, rva, {})
  BY DEF TakingSame
<1>3. Slots(pools, fva, rva, f)
  BY <1>1, <1>2, SlotsIdle
<1> QED
  BY <1>1, <1>3 DEF SlotsInv

\* A first entry that registers nothing, claims nothing and frees no slot.
LEMMA QuietTail ==
  ASSUME NEW e, Top(e), Quiet(Now)
  PROVE  /\ Sums(Tail(e), PagesIn(e, Pushes), Claimed(e)) /\ SlotsSame(e, Tail(e), {})
         /\ KnownIn(Tail(e), StartsOf(rva))
<1>1. HeadPages(Now) = {} /\ HeadClaim(Now) = {} /\ Now.do \notin Pools /\ Now.do # "push_rva"
  BY DEF Quiet, HeadPages, HeadClaim, PushKinds, ClaimKinds
<1>2. Sums(Tail(e), PagesIn(e, Pushes), Claimed(e))
  <2>1. Sums(Tail(e), PagesIn(e, Pushes) \ {}, Claimed(e) \ {})
    BY <1>1, TailSays
  <2>2. \A S : S \ {} = S
    OBVIOUS
  <2> QED
    BY <2>1, <2>2
<1>3. SlotsSame(e, Tail(e), {})
  BY <1>1, TailSame
<1>4. KnownIn(Tail(e), StartsOf(rva))
  <2>1. e \in Seq(Ops) /\ e # <<>> /\ Head(e) = Now /\ Now \in Ops /\ KnownIn(e, StartsOf(rva))
    BY TopParts
  <2>2. Head(e) \notin RvaPushes
    BY <1>1, <2>1, KindSets
  <2> QED
    BY <2>1, <2>2, KnownTail
<1> QED
  BY <1>2, <1>3, <1>4

\* The operations that carry no claim, no push and no slot.
LEMMA NowQuiet ==
  ASSUME Now.do \in {"page_free", "map", "unmap", "fill", "assign", "pop_kmap", "pop_dynamic"}
  PROVE  Quiet(Now) /\ Now.do \notin Pools
BY DEF Quiet, PushKinds, Pools

\* The reserve is no fuller than it was.
LEMMA SameReserve == NoMore(reserve, reserve)
BY DEF NoMore

\* The pages of a freed range go back to the page allocator.
LEMMA StepPageFree ==
  ASSUME ListInv, PageFree
  PROVE  ListInv'
<1>1. todo # <<>> /\ Now.do = "page_free"
  BY DEF PageFree, Doing, Now
<1>2. PICK e \in Seq(Ops) : Top(e) /\ Tail(todo) = Tail(e)
  BY <1>1, PlainTop DEF PopKinds
<1>3. PICK f \in Seq(Ops) : f = Tail(e)
  BY <1>2, TopParts
<1>4. /\ fva' = fva /\ rva' = rva /\ pools' = pools /\ reserve' = reserve /\ pt' = pt /\ tablePages' = tablePages
      /\ held' = held /\ panic' = panic /\ todo' = <<>> \o Tail(todo) /\ lent' = [lent EXCEPT ![Now.pa] = Ledger!NotLent]
  BY DEF PageFree, Then, lists, Ledger!TakeBack
<1>5. Shape(f, reserve) /\ AssignsOwn(f) /\ Matches(f, f, reserve) /\ NotPopping(f) /\ <<>> \o Tail(e) = f
  BY <1>2, <1>3, TailTop, SameReserve
<1>6. Sums(f, PagesIn(e, Pushes), Claimed(e)) /\ SlotsSame(e, f, {}) /\ KnownIn(f, StartsOf(rva))
  BY <1>1, <1>2, <1>3, QuietTail, NowQuiet
<1>7. ListsInv(fva, rva, f) /\ SlotsInv(pools, fva, rva, f)
  BY <1>2, <1>5, <1>6, ListsIdle, SlotsStill
<1>8. OwnersInv(pools, reserve, tablePages, held, rva, f)
  <2>1. OwnersInv(pools, reserve, tablePages, held, rva, e)
    BY <1>2, TopParts
  <2>2. /\ Claimed(e) \cap Owned(pools, reserve, tablePages, held) = {}
        /\ Owned(pools, reserve, tablePages, held) \subseteq StartsOf(rva)
        /\ \A r \in AllOf(rva) : r.permanent => r.start \in 0 .. 2
    BY <2>1, OwnersParts
  <2> QED
    BY <1>6, <2>1, <2>2, OwnersMoved
<1>9. Types'
  <2>1. Types
    BY <1>2, TopParts
  <2>2. Ledger!NotLent \in 0 .. MAX_ORDER \cup {Ledger!NotLent}
    OBVIOUS
  <2>3. lent' \in [Pages -> 0 .. MAX_ORDER \cup {Ledger!NotLent}]
    BY <1>4, <2>1, <2>2 DEF Types
  <2> QED
    BY <1>4, <2>1, <2>3 DEF Types
<1>10. panic' \notin {"null", "assert", "permanent"}
  BY <1>4 DEF ListInv, NoFalseAlarm
<1> QED
  BY <1>2, <1>4, <1>5, <1>7, <1>8, <1>9, <1>10, Concluded

\* The stack goes on with f, and neither lists nor owners change.
LEMMA OwnersStill ==
  ASSUME NEW e, Top(e), NEW f, NEW p, NEW c, Sums(f, p, c), KnownIn(f, StartsOf(rva)),
         c \cap Owned(pools, reserve, tablePages, held) = {}
  PROVE  OwnersInv(pools, reserve, tablePages, held, rva, f)
<1>1. OwnersInv(pools, reserve, tablePages, held, rva, e)
  BY TopParts
<1>2. /\ Owned(pools, reserve, tablePages, held) \subseteq StartsOf(rva)
      /\ \A r \in AllOf(rva) : r.permanent => r.start \in 0 .. 2
  BY <1>1, OwnersParts
<1> QED
  BY <1>1, <1>2, OwnersMoved

\* Executing a claim.
LEMMA HeadIsClaim ==
  ASSUME NEW e, Top(e), Now.do \in ClaimKinds
  PROVE  /\ Sums(Tail(e), PagesIn(e, Pushes), Claimed(e) \ {ClaimOf[Now]}) /\ ClaimOf[Now] \in Claimed(e)
         /\ SlotsSame(e, Tail(e), {}) /\ KnownIn(Tail(e), StartsOf(rva)) /\ ClaimOf[Now] \in StartsOf(rva)
<1>1. HeadPages(Now) = {} /\ HeadClaim(Now) = {ClaimOf[Now]} /\ Now.do \notin Pools /\ Now.do # "push_rva"
  BY DEF HeadPages, HeadClaim, PushKinds, ClaimKinds, Pools
<1>2. /\ Sums(Tail(e), PagesIn(e, Pushes), Claimed(e) \ {ClaimOf[Now]})
      /\ ClaimOf[Now] \in Claimed(e)
  <2>1. Sums(Tail(e), PagesIn(e, Pushes) \ {}, Claimed(e) \ {ClaimOf[Now]}) /\ {ClaimOf[Now]} \subseteq Claimed(e)
    BY <1>1, TailSays
  <2>2. \A S : S \ {} = S
    OBVIOUS
  <2> QED
    BY <2>1, <2>2
<1>3. SlotsSame(e, Tail(e), {})
  BY <1>1, TailSame
<1>4. KnownIn(Tail(e), StartsOf(rva)) /\ ClaimOf[Now] \in StartsOf(rva)
  <2>1. e \in Seq(Ops) /\ e # <<>> /\ Head(e) = Now /\ Now \in Ops /\ KnownIn(e, StartsOf(rva))
    BY TopParts
  <2>2. Head(e) \notin RvaPushes /\ Head(e) \in Claims
    BY <1>1, <2>1, KindSets DEF ClaimKinds
  <2> QED
    BY <2>1, <2>2, KnownTail
<1> QED
  BY <1>2, <1>3, <1>4

\* The answer of raw_kmalloc: its claim becomes a held range.
LEMMA StepReturn ==
  ASSUME ListInv, Return
  PROVE  ListInv'
<1>1. todo # <<>> /\ Now.do = "return"
  BY DEF Return, Doing, Now
<1>2. PICK e \in Seq(Ops) : Top(e) /\ Tail(todo) = Tail(e)
  BY <1>1, PlainTop DEF PopKinds
<1>3. PICK f \in Seq(Ops) : f = Tail(e)
  BY <1>2, TopParts
<1>4. PICK h : h = [va |-> Now.va, pages |-> Now.n]
  OBVIOUS
<1>5. /\ fva' = fva /\ rva' = rva /\ pools' = pools /\ reserve' = reserve /\ pt' = pt /\ tablePages' = tablePages
      /\ held' = held \cup {h} /\ panic' = panic /\ todo' = <<>> \o Tail(todo) /\ lent' = lent
  BY <1>4 DEF Return, Then, lists, memory
<1>6. Shape(f, reserve) /\ AssignsOwn(f) /\ Matches(f, f, reserve) /\ NotPopping(f) /\ <<>> \o Tail(e) = f
  BY <1>2, <1>3, TailTop, SameReserve
<1>7. Now \in Ops /\ ClaimOf[Now] = Now.va /\ Now.n \in Nat \ {0} /\ h.va = Now.va /\ h.pages = Now.n
  <2>1. Now \in Ops /\ EntryOk(Now, reserve)
    BY <1>2, TopParts
  <2>2. ClaimOf[Now] = Now.va
    BY <1>1, <2>1, ClaimIs
  <2>3. Now.n \in Int /\ Now.n >= 1
    BY <1>1, <2>1 DEF EntryOk, Sized, Ops
  <2> QED
    BY <1>4, <2>1, <2>2, <2>3
<1>8. /\ Sums(f, PagesIn(e, Pushes), Claimed(e) \ {h.va}) /\ h.va \in Claimed(e)
      /\ SlotsSame(e, f, {}) /\ KnownIn(f, StartsOf(rva)) /\ h.va \in StartsOf(rva)
  BY <1>1, <1>2, <1>3, <1>7, HeadIsClaim DEF ClaimKinds
<1>9. ListsInv(fva, rva, f) /\ SlotsInv(pools, fva, rva, f)
  BY <1>2, <1>6, <1>8, ListsIdle, SlotsStill
<1>10. OwnersInv(pools, reserve, tablePages, held \union {h}, rva, f)
  <2>1. OwnersInv(pools, reserve, tablePages, held, rva, e)
    BY <1>2, TopParts
  <2> QED
    BY <1>8, <2>1, OwnersReturn
<1>11. Types'
  <2>1. Types /\ InAreas(fva, rva)
    BY <1>2, TopParts
  <2>2. h.va \in Va
    BY <1>8, <2>1, KnownStart
  <2>3. h \in [va : Va, pages : Nat \ {0}]
    BY <1>4, <1>7, <2>2
  <2> QED
    BY <1>5, <2>1, <2>3 DEF Types
<1>12. panic' \notin {"null", "assert", "permanent"}
  BY <1>5 DEF ListInv, NoFalseAlarm
<1> QED
  BY <1>2, <1>5, <1>6, <1>9, <1>10, <1>11, <1>12, Concluded

\* The new page of the reserve: its claim becomes an entry of the reserve.
LEMMA StepKeep ==
  ASSUME ListInv, Keep
  PROVE  ListInv'
<1>1. todo # <<>> /\ Now.do = "keep"
  BY DEF Keep, Doing, Now
<1>2. PICK e \in Seq(Ops) : Top(e) /\ Tail(todo) = Tail(e)
  BY <1>1, PlainTop DEF PopKinds
<1>3. PICK f \in Seq(Ops) : f = Tail(e)
  BY <1>2, TopParts
<1>4. PICK i, pa : i = Now.va /\ pa = Now.pa
  OBVIOUS
<1>5. /\ fva' = fva /\ rva' = rva /\ pools' = pools /\ reserve' = [reserve EXCEPT ![i] = pa] /\ pt' = pt /\ tablePages' = tablePages
      /\ held' = held /\ panic' = panic /\ todo' = <<>> \o Tail(todo) /\ lent' = lent
  BY <1>4 DEF Keep, Then, lists, memory
<1>6. NotPopping(f) /\ <<>> \o Tail(e) = f /\ AssignsOwn(f)
  BY <1>2, <1>3, TailTop, SameReserve
<1>7. Types /\ EntryOk(Now, reserve) /\ Now \in Ops /\ Shape(e, reserve) /\ Head(e) = Now /\ e # <<>>
  BY <1>2, TopParts
<1>8. i \in Indices /\ pa \in Pages /\ reserve[i] = NoPage /\ ClaimOf[Now] = pa
  <2>1. i \in Indices /\ pa \in Pages /\ reserve[i] = NoPage
    BY <1>1, <1>4, <1>7 DEF EntryOk
  <2>2. ClaimOf[Now] = pa
    BY <1>1, <1>4, <1>7, ClaimIs
  <2> QED
    BY <2>1, <2>2
<1>9. reserve' \in [Indices -> Pages \cup {NoPage}] /\ IsPut(reserve, reserve', i, pa)
  BY <1>5, <1>7, <1>8 DEF Types, IsPut
<1>10. Shape(f, reserve') /\ Matches(f, f, reserve')
  <2>1. PICK rs2 : rs2 = reserve'
    OBVIOUS
  <2>2. Shape(f, rs2)
    BY <1>1, <1>3, <1>7, KeptShape
  <2>3. f # <<>> => Head(f).do \notin PopKinds
    BY <1>3, <1>7, ChainTail DEF Linked, TopKinds, PopKinds
  <2>4. Matches(f, f, rs2)
    BY <2>3, PlainMatches
  <2> QED
    BY <2>1, <2>2, <2>4
<1>11. /\ Sums(f, PagesIn(e, Pushes), Claimed(e) \ {pa}) /\ pa \in Claimed(e)
      /\ SlotsSame(e, f, {}) /\ KnownIn(f, StartsOf(rva)) /\ pa \in StartsOf(rva)
  BY <1>1, <1>2, <1>3, <1>8, HeadIsClaim DEF ClaimKinds
<1>12. ListsInv(fva, rva, f) /\ SlotsInv(pools, fva, rva, f)
  BY <1>2, <1>6, <1>11, ListsIdle, SlotsStill
<1>13. OwnersInv(pools, reserve', tablePages, held, rva, f)
  <2>1. OwnersInv(pools, reserve, tablePages, held, rva, e)
    BY <1>2, TopParts
  <2>2. PICK rs2 : rs2 = reserve'
    OBVIOUS
  <2>3. IsPut(reserve, rs2, i, pa)
    BY <1>9, <2>2
  <2>4. OwnersInv(pools, rs2, tablePages, held, rva, f)
    BY <1>8, <1>11, <2>1, <2>3, OwnersKeep
  <2> QED
    BY <2>2, <2>4
<1>14. Types'
  BY <1>5, <1>7, <1>9 DEF Types
<1>15. panic' \notin {"null", "assert", "permanent"}
  BY <1>5 DEF ListInv, NoFalseAlarm
<1> QED
  BY <1>2, <1>5, <1>6, <1>10, <1>12, <1>13, <1>14, <1>15, Concluded

-----------------------------------------------------------------------------
(* The MMU, and what requests put on the stack. *)

MapsTo(va, n, to) == \A v \in Run(va, n) : to[v] \in Pages \cup {NoPage}

\* mmu_map and mmu_unmap, which change the translation and the pages of tables only.
LEMMA SetPagesStep ==
  ASSUME ListInv, todo # <<>>, Now.do \in {"map", "unmap"},
         NEW va, NEW pa, NEW n, NEW to, NEW new, SetPages(va, pa, n, to, new), MapsTo(va, n, to)
  PROVE  ListInv'
<1>1. Now.do \notin PopKinds
  BY DEF PopKinds
<1>2. PICK e \in Seq(Ops) : Top(e) /\ Tail(todo) = Tail(e)
  BY <1>1, PlainTop
<1>3. PICK f \in Seq(Ops) : f = Tail(e)
  BY <1>2, TopParts
<1>4. PICK c : c = Cardinality(new)
  OBVIOUS
<1>5. CASE Lacks(c) # "none"
  <2>1. Lacks(c) = "reserve"
    BY <1>2, <1>5, LacksCase
  <2>2. Panic("reserve")
    BY <1>4, <1>5, <2>1 DEF SetPages
  <2> QED
    BY <2>2, PanicStep
<1>6. CASE Lacks(c) = "none" /\ Whole(va, pa, n) \cap split # {}
  <2>1. Panic("mmu_free")
    BY <1>4, <1>6 DEF SetPages
  <2> QED
    BY <2>1, PanicStep
<1>7. CASE Lacks(c) = "none" /\ Whole(va, pa, n) \cap split = {}
  <2>1. /\ fva' = fva /\ rva' = rva /\ pools' = pools /\ lent' = lent /\ held' = held /\ panic' = panic
        /\ todo' = <<>> \o Tail(todo) /\ TakePages(c) /\ tablePages' = tablePages \cup LowestPages(c)
        /\ pt' = [v \in Va |-> IF v \in Run(va, n) THEN to[v] ELSE pt[v]]
    BY <1>4, <1>7 DEF SetPages, Then, lists
  <2>2. Types /\ OwnersInv(pools, reserve, tablePages, held, rva, e)
    BY <1>2, TopParts
  <2>3. ReserveApart(reserve)
    BY <2>2, OwnersParts
  <2>4. /\ Fewer(reserve, reserve', LowestPages(c)) /\ reserve' \in [Indices -> Pages \cup {NoPage}]
        /\ NoMore(reserve, reserve')
    BY <2>1, <2>2, <2>3, TakenPages
  <2>5. Shape(f, reserve') /\ AssignsOwn(f) /\ Matches(f, f, reserve') /\ NotPopping(f) /\ <<>> \o Tail(e) = f
    BY <1>2, <1>3, <2>4, TailTop
  <2>6. Sums(f, PagesIn(e, Pushes), Claimed(e)) /\ SlotsSame(e, f, {}) /\ KnownIn(f, StartsOf(rva))
    BY <1>2, <1>3, QuietTail, NowQuiet
  <2>7. ListsInv(fva, rva, f) /\ SlotsInv(pools, fva, rva, f)
    BY <1>2, <2>5, <2>6, ListsIdle, SlotsStill
  <2>8. LowestPages(c) \subseteq InReserve(reserve) /\ LowestPages(c) \subseteq Pages
    <3>1. InReserve(reserve) \subseteq Pages
      BY <2>2 DEF InReserve, Filled, Types
    <3> QED
      BY <3>1, LowestIn
  <2>9. OwnersInv(pools, reserve', tablePages', held, rva, e)
    <3>1. PICK rs2, L : rs2 = reserve' /\ L = LowestPages(c)
      OBVIOUS
    <3>2. L \subseteq InReserve(reserve) /\ L \subseteq Pages /\ Fewer(reserve, rs2, L)
      BY <2>4, <2>8, <3>1
    <3>3. OwnersInv(pools, rs2, tablePages \union L, held, rva, e)
      BY <2>2, <3>2, OwnersTable
    <3> QED
      BY <2>1, <3>1, <3>3
  <2>10. OwnersInv(pools, reserve', tablePages', held, rva, f)
    <3>1. PICK rs2, T : rs2 = reserve' /\ T = tablePages'
      OBVIOUS
    <3>2. OwnersInv(pools, rs2, T, held, rva, e)
      BY <2>9, <3>1
    <3>3. /\ Claimed(e) \cap Owned(pools, rs2, T, held) = {} /\ Owned(pools, rs2, T, held) \subseteq StartsOf(rva)
          /\ \A r \in AllOf(rva) : r.permanent => r.start \in 0 .. 2
      BY <3>2, OwnersParts
    <3>4. OwnersInv(pools, rs2, T, held, rva, f)
      BY <2>6, <3>2, <3>3, OwnersMoved
    <3> QED
      BY <3>1, <3>4
  <2>11. Types'
    <3>1. pt' \in [Va -> Pages \cup {NoPage}]
      BY <2>1, <2>2 DEF Types, MapsTo
    <3>2. tablePages' \subseteq Pages
      BY <2>1, <2>2, <2>8 DEF Types
    <3> QED
      BY <2>1, <2>2, <2>4, <3>1, <3>2 DEF Types
  <2>12. panic' \notin {"null", "assert", "permanent"}
    BY <2>1 DEF ListInv, NoFalseAlarm
  <2> QED
    BY <1>2, <1>3, <2>1, <2>5, <2>7, <2>10, <2>11, <2>12, Concluded
<1> QED
  BY <1>5, <1>6, <1>7

\* mmu_unmap.
LEMMA StepMmuUnmap ==
  ASSUME ListInv, MmuUnmap
  PROVE  ListInv'
<1>1. todo # <<>> /\ Now.do = "unmap"
  BY DEF MmuUnmap, Doing, Now
<1>2. PICK va, n, new :
        /\ va = Now.va /\ n = Now.n
        /\ new = {r \in Touched(va, n) \ (Whole(va, va, n) \cup split) : Mapped(r)}
  OBVIOUS
<1>3. PICK to : to = [v \in Run(va, n) |-> NoPage]
  OBVIOUS
<1>4. SetPages(va, va, n, to, new)
  BY <1>2, <1>3 DEF MmuUnmap
<1>5. MapsTo(va, n, to)
  BY <1>3 DEF MapsTo
<1> QED
  BY <1>1, <1>4, <1>5, SetPagesStep

\* A page of a run, moved with the run.
LEMMA RunMoved ==
  ASSUME NEW va \in Int, NEW pa \in Int, NEW n \in Int, NEW v \in Run(va, n)
  PROVE  pa + v - va \in Run(pa, n)
<1>1. v \in Int /\ va <= v /\ v <= (va + n) - 1
  BY DEF Run
<1>2. pa <= pa + (v - va) /\ pa + (v - va) <= (pa + n) - 1 /\ pa + (v - va) \in Int
  BY <1>1
<1> QED
  BY <1>2 DEF Run

\* mmu_map, which may take a page for a table from the reserve.
LEMMA StepMmuMap ==
  ASSUME ListInv, MmuMap
  PROVE  ListInv'
<1>1. todo # <<>> /\ Now.do = "map"
  BY DEF MmuMap, Doing, Now
<1>2. PICK e \in Seq(Ops) : Top(e)
  BY <1>1, PlainTop DEF PopKinds
<1>3. PICK va, pa, n, new :
        /\ va = Now.va /\ pa = Now.pa /\ n = Now.n
        /\ new = Touched(va, n) \ (Whole(va, pa, n) \cup split)
  OBVIOUS
<1>4. PICK to : to = [v \in Run(va, n) |-> pa + v - va]
  OBVIOUS
<1>5. SetPages(va, pa, n, to, new)
  BY <1>3, <1>4 DEF MmuMap
<1>6. MapsTo(va, n, to)
  <2>1. Now \in Ops /\ EntryOk(Now, reserve)
    BY <1>2, TopParts
  <2>2. va \in Int /\ pa \in Int /\ n \in Int /\ Run(pa, n) \subseteq Pages
    BY <1>1, <1>3, <2>1 DEF EntryOk, Ops
  <2>3. ASSUME NEW v \in Run(va, n) PROVE to[v] \in Pages
    BY <1>4, <2>2, RunMoved
  <2> QED
    BY <2>3 DEF MapsTo
<1> QED
  BY <1>1, <1>5, <1>6, SetPagesStep

(* Between calls. *)
LEMMA AtRestFacts ==
  ASSUME ListInv, todo = <<>>
  PROVE  StackInv(<<>>) /\ Types
<1>1. PICK e \in Seq(Ops) : StackInv(e)
  BY DEF ListInv
<1>2. Matches(todo, e, reserve)
  BY <1>1 DEF StackInv
<1>3. e = <<>>
  <2>1. ASSUME e # <<>>
        PROVE  FALSE
    <3>1. PICK x \in Seq(Ops) : todo = <<Head(e)>> \o (x \o Tail(e))
      BY <1>2, <2>1 DEF Matches
    <3>2. Head(e) \in Ops /\ Tail(e) \in Seq(Ops)
      BY <2>1, HeadTail
    <3>3. \A o \in Ops, y \in Seq(Ops), z \in Seq(Ops) : <<o>> \o (y \o z) # <<>>
      OBVIOUS
    <3> QED
      BY <3>1, <3>2, <3>3
  <2> QED
    BY <2>1
<1> QED
  BY <1>1, <1>3 DEF ListInv

\* A call begins with one entry.
Begins(o, rs) == o \in Ops /\ EntryOk(o, rs) /\ o.do \notin Leads \cup {"assign", "return"}

\* A stack of one operation that may begin one.
LEMMA OneShape ==
  ASSUME NEW o, NEW rs, Begins(o, rs)
  PROVE  /\ <<o>> \in Seq(Ops) /\ <<o>> # <<>> /\ Head(<<o>>) = o /\ Tail(<<o>>) = <<>>
         /\ Shape(<<o>>, rs) /\ AssignsOwn(<<o>>)
<1>1. /\ o \in Ops /\ EntryOk(o, rs) /\ o.do \notin Leads /\ o.do # "assign" /\ o.do # "return"
  BY DEF Begins
<1>2. /\ <<o>> \in Seq(Ops) /\ <<o>> # <<>> /\ Head(<<o>>) = o /\ Tail(<<o>>) = <<>>
      /\ Len(<<o>>) = 1 /\ <<o>>[1] = o
  BY <1>1
<1>3. Shape(<<o>>, rs)
  <2>1. \A i \in 1 .. Len(<<o>>) : i = 1
    BY <1>2
  <2>2. \A i \in 1 .. Len(<<o>>) - 1 : FALSE
    BY <1>2
  <2>3. <<o>>[Len(<<o>>)] = o
    BY <1>2
  <2> QED
    BY <1>1, <1>2, <2>1, <2>2, <2>3 DEF Shape
<1>4. AssignsOwn(<<o>>)
  <2>1. o \notin Assigns
    BY <1>1, KindSets
  <2>2. Vals(<<o>>, Assigns, PaOf) = {}
    BY <1>1, <2>1, OneEntry
  <2> QED
    BY <2>2 DEF AssignsOwn
<1> QED
  BY <1>2, <1>3, <1>4

\* What the invariant says when nothing is under way.
LEMMA RestParts ==
  ASSUME ListInv, todo = <<>>
  PROVE  /\ Types /\ ListsInv(fva, rva, <<>>) /\ OwnersInv(pools, reserve, tablePages, held, rva, <<>>)
         /\ SlotsInv(pools, fva, rva, <<>>) /\ Slots(pools, fva, rva, <<>>) /\ NodesApart(fva, rva)
         /\ PagesIn(<<>>, Pushes) = {} /\ Claimed(<<>>) = {} /\ \A k : OpPlaces(<<>>, k) = {}
<1>1. StackInv(<<>>) /\ Types
  BY AtRestFacts
<1>2. /\ Types /\ ListsInv(fva, rva, <<>>) /\ OwnersInv(pools, reserve, tablePages, held, rva, <<>>)
         /\ SlotsInv(pools, fva, rva, <<>>) /\ Slots(pools, fva, rva, <<>>) /\ NodesApart(fva, rva)
  BY <1>1 DEF StackInv, SlotsInv
<1>3. PagesIn(<<>>, Pushes) = {} /\ Claimed(<<>>) = {} /\ \A k : OpPlaces(<<>>, k) = {}
  BY NoEntry DEF Claimed, OpPlaces
<1> QED
  BY <1>2, <1>3

\* A call begins, with an entry that claims c.
LEMMA BeginParts ==
  ASSUME ListInv, todo = <<>>, NEW o, Begins(o, reserve), o.do \notin PushKinds \cup Pools \cup {"pop_rva"}
  PROVE  /\ ListsInv(fva, rva, <<o>>) /\ SlotsInv(pools, fva, rva, <<o>>)
         /\ Sums(<<o>>, {}, IF o.do \in ClaimKinds THEN {ClaimOf[o]} ELSE {})
<1>1. /\ Types /\ ListsInv(fva, rva, <<>>) /\ Slots(pools, fva, rva, <<>>) /\ NodesApart(fva, rva)
      /\ PagesIn(<<>>, Pushes) = {} /\ \A k : OpPlaces(<<>>, k) = {}
  BY RestParts
<1>2. /\ <<o>> # <<>> /\ Head(<<o>>) = o /\ o \in Ops /\ o.do \notin PushKinds /\ o.do \notin Pools /\ o.do # "pop_rva"
  BY OneShape DEF Begins
<1>3. Sums(<<o>>, {}, IF o.do \in ClaimKinds THEN {ClaimOf[o]} ELSE {}) /\ \A k \in Pools : SlotSums(<<o>>, k, {})
  BY <1>2, OneSum DEF ClaimKinds
<1>4. ListsInv(fva, rva, <<o>>)
  <2>1. SameRanges(rva, rva)
    BY DEF SameRanges
  <2>2. PoppedNode(rva, <<o>>)
    BY <1>2 DEF PoppedNode
  <2>3. Sums(<<o>>, PagesIn(<<>>, Pushes), IF o.do \in ClaimKinds THEN {ClaimOf[o]} ELSE {})
    BY <1>1, <1>3
  <2> QED
    BY <1>1, <2>1, <2>2, <2>3, ListsKept
<1>5. Slots(pools, fva, rva, <<o>>)
  <2>1. TakingSame(fva, rva, fva, rva, {})
    BY DEF TakingSame
  <2>2. SlotsSame(<<>>, <<o>>, {})
    BY <1>1, <1>3 DEF SlotsSame
  <2> QED
    BY <1>1, <2>1, <2>2, SlotsIdle
<1> QED
  BY <1>1, <1>3, <1>4, <1>5 DEF SlotsInv

\* A call for memory claims nothing yet.
LEMMA AskOwners ==
  ASSUME ListInv, todo = <<>>, NEW o, Begins(o, reserve), o.do \in {"pop_kmap", "pop_dynamic"}
  PROVE  OwnersInv(pools, reserve, tablePages, held, rva, <<o>>) /\ ListsInv(fva, rva, <<o>>) /\ SlotsInv(pools, fva, rva, <<o>>)
<1>1. o.do \notin PushKinds \cup Pools \cup {"pop_rva"} /\ o.do \notin ClaimKinds /\ o \in Ops /\ Quiet(o)
  BY DEF PushKinds, Pools, ClaimKinds, Begins, Quiet
<1>2. /\ ListsInv(fva, rva, <<o>>) /\ SlotsInv(pools, fva, rva, <<o>>) /\ Sums(<<o>>, {}, {})
  BY <1>1, BeginParts
<1>3. OwnersInv(pools, reserve, tablePages, held, rva, <<>>)
  BY RestParts
<1>4. KnownIn(<<o>>, StartsOf(rva))
  BY <1>1, OneSilent DEF Silent
<1>5. /\ Owned(pools, reserve, tablePages, held) \subseteq StartsOf(rva)
      /\ \A r \in AllOf(rva) : r.permanent => r.start \in 0 .. 2
  BY <1>3, OwnersParts
<1>6. {} \cap Owned(pools, reserve, tablePages, held) = {}
  OBVIOUS
<1>7. OwnersInv(pools, reserve, tablePages, held, rva, <<o>>)
  BY <1>2, <1>3, <1>4, <1>5, <1>6, OwnersMoved
<1> QED
  BY <1>2, <1>7

\* raw_kmalloc for the dynamic area: what it puts on the stack claims nothing yet.
LEMMA StepAskDynamic ==
  ASSUME ListInv, NEW n \in Nat \ {0}, RawKmallocDynamic(n)
  PROVE  ListInv'
<1>1. todo = <<>>
  BY DEF RawKmallocDynamic
<1>2. PICK o : o = Op("pop_dynamic", NoPage, NoPage, n)
  OBVIOUS
<1>3. o \in Ops /\ o.do = "pop_dynamic" /\ o.n = n
  <2>1. "pop_dynamic" \in OpKinds /\ NoPage \in Int /\ n \in Int
    BY SmallInts DEF OpKinds
  <2> QED
    BY <1>2, <2>1, OpIn
<1>4. Begins(o, reserve)
  BY <1>3 DEF Begins, EntryOk, PushKinds, Leads
<1>5. /\ <<o>> \in Seq(Ops) /\ Shape(<<o>>, reserve) /\ AssignsOwn(<<o>>) /\ Head(<<o>>) = o
  BY <1>4, OneShape
<1>6. OwnersInv(pools, reserve, tablePages, held, rva, <<o>>) /\ ListsInv(fva, rva, <<o>>) /\ SlotsInv(pools, fva, rva, <<o>>)
  BY <1>1, <1>3, <1>4, AskOwners
<1>7. PICK f \in Seq(Ops) : f = <<o>>
  BY <1>5
<1>8. Matches(f, f, reserve)
  BY <1>3, <1>5, <1>7, PlainMatches DEF PopKinds
<1>9. /\ fva' = fva /\ rva' = rva /\ pools' = pools /\ reserve' = reserve /\ pt' = pt /\ tablePages' = tablePages
      /\ held' = held /\ panic' = panic /\ todo' = f /\ lent' = lent
  BY <1>2, <1>7 DEF RawKmallocDynamic, lists, memory
<1>10. Types'
  BY <1>1, <1>9, RestParts DEF Types
<1>11. panic' \notin {"null", "assert", "permanent"}
  BY <1>9 DEF ListInv, NoFalseAlarm
<1> QED
  BY <1>5, <1>6, <1>7, <1>8, <1>9, <1>10, <1>11, Concluded

\* A block that page_malloc lends.
LEMMA Lent ==
  ASSUME Types, NEW pa \in Pages, NEW o \in 0 .. MAX_ORDER, PageMalloc(pa, o)
  PROVE  /\ Run(pa, power_of2[o]) \subseteq Pages
         /\ lent' \in [Pages -> 0 .. MAX_ORDER \cup {Ledger!NotLent}] /\ lent' = [lent EXCEPT ![pa] = o]
<1>1. Run(pa, power_of2[o]) \subseteq Pages
  BY DEF PageMalloc, Lendable
<1>2. lent' = [lent EXCEPT ![pa] = o]
  BY DEF PageMalloc, Ledger!Lend
<1> QED
  BY <1>1, <1>2 DEF Types

\* raw_kmalloc for the linear map: the pages it was lent are not yet claimed.
LEMMA StepAskKmap ==
  ASSUME ListInv, NEW q \in 0 .. MAX_ORDER, NEW n \in Nat \ {0}, n = power_of2[q], RawKmallocKmap(n)
  PROVE  ListInv'
<1>1. todo = <<>> /\ log2_floor(n) = q
  BY ExactOrder DEF RawKmallocKmap
<1>2. CASE NoneLendable(q)
  <2>1. Panic("oom")
    BY <1>1, <1>2 DEF RawKmallocKmap
  <2> QED
    BY <2>1, PanicStep
<1>3. CASE ~NoneLendable(q)
  <2>1. PICK pa \in Pages :
          /\ PageMalloc(pa, q)
          /\ todo' = KmapOps(pa, n) \o <<Op("fill", 1, NoPage, 0), Op("return", pa, NoPage, n)>>
          /\ fva' = fva /\ rva' = rva /\ pools' = pools /\ reserve' = reserve /\ pt' = pt /\ tablePages' = tablePages
          /\ held' = held /\ panic' = panic
    BY <1>1, <1>3 DEF RawKmallocKmap, lists
  <2>2. Types
    BY <1>1, RestParts
  <2>3. Run(pa, n) \subseteq Pages /\ lent' \in [Pages -> 0 .. MAX_ORDER \cup {Ledger!NotLent}]
    BY <2>1, <2>2, Lent
  <2>4. PICK o : o = Op("pop_kmap", pa, pa, n)
    OBVIOUS
  <2>5. o \in Ops /\ o.do = "pop_kmap" /\ o.n = n /\ o.va = pa /\ o.pa = pa
    <3>1. "pop_kmap" \in OpKinds /\ pa \in Int /\ n \in Int
      BY SmallInts DEF OpKinds
    <3> QED
      BY <2>4, <3>1, OpIn
  <2>6. Begins(o, reserve)
    BY <2>5 DEF Begins, EntryOk, PushKinds, Leads
  <2>7. /\ <<o>> \in Seq(Ops) /\ Shape(<<o>>, reserve) /\ AssignsOwn(<<o>>) /\ Head(<<o>>) = o /\ Tail(<<o>>) = <<>>
        /\ <<o>> # <<>>
    BY <2>6, OneShape
  <2>8. OwnersInv(pools, reserve, tablePages, held, rva, <<o>>) /\ ListsInv(fva, rva, <<o>>) /\ SlotsInv(pools, fva, rva, <<o>>)
    BY <1>1, <2>5, <2>6, AskOwners
  <2>9. PICK f \in Seq(Ops) : f = <<o>>
    BY <2>7
  <2>10. Matches(todo', f, reserve)
    <3>1. PICK x : x = AskTail(pa, n)
      OBVIOUS
    <3>2. x \in Seq(Ops)
      BY <2>3, <3>1, AskIsCall DEF IsCall
    <3>3. HiddenBy(o, <<>>, reserve, x)
      BY <2>3, <2>5, <3>1 DEF HiddenBy
    <3>4. todo' = <<o>> \o (x \o <<>>)
      <4>1. \A s \in Seq(Ops) : s \o <<>> = s
        OBVIOUS
      <4>2. todo' = <<o>> \o x
        BY <2>1, <2>4, <3>1 DEF KmapOps, AskTail
      <4> QED
        BY <3>2, <4>1, <4>2
    <3>5. PICK t : t = todo'
      OBVIOUS
    <3>6. Matches(t, f, reserve)
      BY <2>7, <2>9, <3>2, <3>3, <3>4, <3>5 DEF Matches
    <3> QED
      BY <3>5, <3>6
  <2>11. Types'
    BY <2>1, <2>2, <2>3 DEF Types
  <2>12. panic' \notin {"null", "assert", "permanent"}
    BY <2>1 DEF ListInv, NoFalseAlarm
  <2> QED
    BY <2>1, <2>7, <2>8, <2>9, <2>10, <2>11, <2>12, Concluded
<1> QED
  BY <1>2, <1>3

\* raw_kfree: a held range becomes a claim.
LEMMA StepRawKfree ==
  ASSUME ListInv, NEW h \in held, RawKfree(h)
  PROVE  ListInv'
<1>1. todo = <<>>
  BY DEF RawKfree
<1>2. PICK o : o = Op("kfree", h.va, NoPage, 0)
  OBVIOUS
<1>3. Types /\ OwnersInv(pools, reserve, tablePages, held, rva, <<>>) /\ Claimed(<<>>) = {}
  BY <1>1, RestParts
<1>4. h \in [va : Va, pages : Nat \ {0}]
  BY <1>3 DEF Types
<1>5. h.va \in Int
  BY <1>4, AreasApart DEF Va
<1>6. o \in Ops /\ o.do = "kfree" /\ o.va = h.va
  <2>1. "kfree" \in OpKinds /\ NoPage \in Int /\ 0 \in Int
    BY SmallInts DEF OpKinds
  <2> QED
    BY <1>2, <1>5, <2>1, OpIn
<1>7. Begins(o, reserve)
  BY <1>6 DEF Begins, EntryOk, PushKinds, Leads, Sized
<1>8. /\ <<o>> \in Seq(Ops) /\ Shape(<<o>>, reserve) /\ AssignsOwn(<<o>>) /\ Head(<<o>>) = o /\ <<o>> # <<>>
  BY <1>7, OneShape
<1>9. ListsInv(fva, rva, <<o>>) /\ SlotsInv(pools, fva, rva, <<o>>) /\ Sums(<<o>>, {}, {h.va})
  <2>1. o.do \notin PushKinds \cup Pools \cup {"pop_rva"} /\ o.do \in ClaimKinds /\ ClaimOf[o] = h.va
    BY <1>6, ClaimIs DEF PushKinds, Pools, ClaimKinds
  <2> QED
    BY <1>1, <1>7, <2>1, BeginParts
<1>10. PICK f \in Seq(Ops) : f = <<o>>
  BY <1>8
<1>11. OwnersInv(pools, reserve, tablePages, held \ {h}, rva, f)
  <2>1. h.va \in StartsOf(rva)
    <3>1. h.va \in Owned(pools, reserve, tablePages, held)
      BY DEF Owned, VasOf
    <3> QED
      BY <1>3, <3>1, OwnersParts
  <2>2. KnownIn(f, StartsOf(rva))
    <3>1. \A i \in At(f, Claims) : f[i] = o
      BY <1>10 DEF At
    <3>2. ClaimOf[o] = h.va
      BY <1>6, ClaimIs
    <3> QED
      BY <2>1, <3>1, <3>2 DEF KnownIn
  <2> QED
    BY <1>3, <1>9, <1>10, <2>2, OwnersFree
<1>12. Matches(f, f, reserve)
  BY <1>6, <1>8, <1>10, PlainMatches DEF PopKinds
<1>13. /\ fva' = fva /\ rva' = rva /\ pools' = pools /\ reserve' = reserve /\ pt' = pt /\ tablePages' = tablePages
      /\ held' = held \ {h} /\ panic' = panic /\ todo' = f /\ lent' = lent
  BY <1>2, <1>10 DEF RawKfree, lists, memory
<1>14. Types'
  BY <1>3, <1>13 DEF Types
<1>15. panic' \notin {"null", "assert", "permanent"}
  BY <1>13 DEF ListInv, NoFalseAlarm
<1> QED
  BY <1>8, <1>9, <1>10, <1>11, <1>12, <1>13, <1>14, <1>15, Concluded

-----------------------------------------------------------------------------
(* The refill of the reserve. *)

\* One entry in place of the first one, above which entries of a call are hidden.
LEMMA OneTop ==
  ASSUME NEW e, Top(e), NEW o \in Ops, EntryOk(o, reserve), o.do \in Plain
  PROVE  /\ <<o>> \o Tail(e) \in Seq(Ops) /\ Shape(<<o>> \o Tail(e), reserve) /\ AssignsOwn(<<o>> \o Tail(e))
         /\ Head(<<o>> \o Tail(e)) = o /\ Tail(<<o>> \o Tail(e)) = Tail(e) /\ <<o>> \o Tail(e) # <<>>
<1>1. e \in Seq(Ops) /\ e # <<>> /\ Shape(e, reserve) /\ AssignsOwn(e) /\ Tail(e) \in Seq(Ops)
  BY TopParts
<1>2. AllPlain(<<o>>, reserve)
  BY OnePlain
<1>3. \A s \in Seq(Ops) : Head(<<o>> \o s) = o /\ Tail(<<o>> \o s) = s /\ <<o>> \o s # <<>>
  OBVIOUS
<1> QED
  BY <1>1, <1>2, <1>3, PlainShape

\* The index a refill goes on with is empty.
LEMMA NextClearFacts ==
  ASSUME Clear # {}, NEW j
  PROVE  NextClear(j) \in Indices /\ reserve[NextClear(j)] = NoPage
<1>1. Clear \in SUBSET Nat /\ \A i \in Clear : i \in Indices /\ reserve[i] = NoPage
  BY HeapAssumption DEF Clear, Reserved, Indices
<1>2. CASE \E x \in Clear : x >= j
  <2> DEFINE T == {x \in Clear : x >= j}
  <2>1. T # {} /\ T \in SUBSET Nat /\ T \subseteq Clear
    BY <1>1, <1>2
  <2>2. NextClear(j) = Min(T)
    BY <1>2 DEF NextClear
  <2> HIDE DEF T
  <2>3. Min(T) \in T
    BY <2>1, LeastOf
  <2> QED
    BY <1>1, <2>1, <2>2, <2>3
<1>3. CASE ~\E x \in Clear : x >= j
  <2>1. NextClear(j) = Min(Clear)
    BY <1>3 DEF NextClear
  <2>2. Min(Clear) \in Clear
    BY <1>1, LeastOf
  <2> QED
    BY <1>1, <2>1, <2>2
<1> QED
  BY <1>2, <1>3

\* One round of the refill of the reserve.
LEMMA StepFill ==
  ASSUME ListInv, Fill
  PROVE  ListInv'
<1>1. todo # <<>> /\ Now.do = "fill"
  BY DEF Fill, Doing, Now
<1>2. PICK e \in Seq(Ops) : Top(e) /\ Tail(todo) = Tail(e)
  BY <1>1, PlainTop DEF PopKinds
<1>3. Types /\ Shape(e, reserve) /\ Head(e) = Now /\ e # <<>> /\ Tail(e) \in Seq(Ops)
  BY <1>2, TopParts
<1>4. /\ Sums(Tail(e), PagesIn(e, Pushes), Claimed(e)) /\ SlotsSame(e, Tail(e), {})
      /\ KnownIn(Tail(e), StartsOf(rva)) /\ Quiet(Now) /\ Now.do \notin Pools
  BY <1>1, <1>2, QuietTail, NowQuiet
<1>5. Claimed(e) \cap Owned(pools, reserve, tablePages, held) = {}
  <2>1. OwnersInv(pools, reserve, tablePages, held, rva, e)
    BY <1>2, TopParts
  <2> QED
    BY <2>1, OwnersParts
<1>6. CASE Clear = {}
  <2>1. /\ fva' = fva /\ rva' = rva /\ pools' = pools /\ reserve' = reserve /\ pt' = pt /\ tablePages' = tablePages
        /\ held' = held /\ panic' = panic /\ todo' = <<>> \o Tail(todo) /\ lent' = lent
    BY <1>6 DEF Fill, Then, lists, memory
  <2>2. PICK f \in Seq(Ops) : f = Tail(e)
    BY <1>3
  <2>3. Shape(f, reserve) /\ AssignsOwn(f) /\ Matches(f, f, reserve) /\ NotPopping(f) /\ <<>> \o Tail(e) = f
    BY <1>2, <2>2, TailTop, SameReserve
  <2>4. ListsInv(fva, rva, f) /\ SlotsInv(pools, fva, rva, f)
    BY <1>2, <1>4, <2>2, <2>3, ListsIdle, SlotsStill
  <2>5. OwnersInv(pools, reserve, tablePages, held, rva, f)
    BY <1>2, <1>4, <1>5, <2>2, OwnersStill
  <2>6. Types'
    BY <1>3, <2>1 DEF Types
  <2>7. panic' \notin {"null", "assert", "permanent"}
    BY <2>1 DEF ListInv, NoFalseAlarm
  <2> QED
    BY <1>2, <2>1, <2>3, <2>4, <2>5, <2>6, <2>7, Concluded
<1>7. CASE Clear # {} /\ NoneLendable(0)
  <2>1. Panic("oom")
    BY <1>7 DEF Fill
  <2> QED
    BY <2>1, PanicStep
<1>8. CASE Clear # {} /\ ~NoneLendable(0)
  <2>1. PICK i : i = NextClear(Now.va)
    OBVIOUS
  <2>2. PICK pa \in Pages :
          /\ PageMalloc(pa, 0)
          /\ todo' = (KmapOps(pa, 1) \o <<Op("keep", i, pa, 1), Op("fill", i + 1, NoPage, 0)>>) \o Tail(todo)
          /\ fva' = fva /\ rva' = rva /\ pools' = pools /\ reserve' = reserve /\ pt' = pt /\ tablePages' = tablePages
          /\ held' = held /\ panic' = panic
    BY <1>8, <2>1 DEF Fill, Then, lists
  <2>3. i \in Indices /\ reserve[i] = NoPage
    BY <1>8, <2>1, NextClearFacts
  <2>4. 0 \in 0 .. MAX_ORDER /\ power_of2[0] = 1
    BY HeapAssumption
  <2>5. Run(pa, 1) \subseteq Pages /\ lent' \in [Pages -> 0 .. MAX_ORDER \cup {Ledger!NotLent}]
    BY <1>3, <2>2, <2>4, Lent
  <2>6. PICK o : o = Op("pop_kmap", pa, pa, 1)
    OBVIOUS
  <2>7. o \in Ops /\ o.do = "pop_kmap" /\ o.n = 1 /\ o.va = pa /\ o.pa = pa
    <3>1. "pop_kmap" \in OpKinds /\ pa \in Int /\ 1 \in Int
      BY SmallInts DEF OpKinds
    <3> QED
      BY <2>6, <3>1, OpIn
  <2>8. EntryOk(o, reserve) /\ o.do \in Plain
    BY <2>7 DEF EntryOk, PushKinds, Leads, Plain, OpKinds
  <2>9. PICK f \in Seq(Ops) : f = <<o>> \o Tail(e)
    BY <1>2, <2>7, <2>8, OneTop
  <2>10. Shape(f, reserve) /\ AssignsOwn(f) /\ Head(f) = o /\ Tail(f) = Tail(e) /\ f # <<>>
    BY <1>2, <2>7, <2>8, <2>9, OneTop
  <2>11. Silent(<<o>>)
    BY <2>7, OneSilent DEF Quiet, PushKinds, Pools
  <2>12. Sums(f, PagesIn(e, Pushes), Claimed(e))
    <3>1. Sums(<<o>>, {}, {})
      BY <2>11 DEF Silent
    <3>2. Sums(<<o>> \o Tail(e), {} \union PagesIn(e, Pushes), {} \union Claimed(e))
      BY <1>4, <3>1, SumsCat
    <3> QED
      BY <2>9, <3>2
  <2>13. SlotsSame(e, f, {})
    BY <1>2, <1>4, <2>9, <2>11, PutSame DEF Silent
  <2>14. KnownIn(f, StartsOf(rva))
    <3>1. KnownIn(<<o>>, StartsOf(rva)) /\ <<o>> \in Seq(Ops)
      BY <2>11 DEF Silent, Sums
    <3> QED
      BY <1>3, <1>4, <2>9, <3>1, KnownCat
  <2>15. NotPopping(f)
    BY <2>7, <2>10 DEF NotPopping
  <2>16. ListsInv(fva, rva, f) /\ SlotsInv(pools, fva, rva, f)
    BY <1>2, <2>12, <2>13, <2>15, ListsIdle, SlotsStill
  <2>17. OwnersInv(pools, reserve, tablePages, held, rva, f)
    BY <1>2, <1>5, <2>12, <2>14, OwnersStill
  <2>18. Matches(todo', f, reserve)
    <3>1. PICK x : x = KeepTail(pa, i)
      OBVIOUS
    <3>2. /\ Tail(e) # <<>> /\ Head(Tail(e)).do = "return"
      BY <1>1, <1>2, <1>3, LastTwo
    <3>3. x \in Seq(Ops)
      <4>1. Shape(Tail(e), reserve) /\ AssignsOwn(Tail(e))
        BY <1>2, TailTop, SameReserve
      <4> QED
        BY <1>3, <2>3, <3>1, <3>2, <4>1, KeepIsCall DEF IsCall
    <3>4. HiddenBy(o, Tail(e), reserve, x)
      BY <2>3, <2>5, <2>7, <3>1, <3>2 DEF HiddenBy
    <3>5. todo' = <<o>> \o (x \o Tail(e))
      <4>1. KmapOps(pa, 1) \o <<Op("keep", i, pa, 1), Op("fill", i + 1, NoPage, 0)>> = <<o>> \o x
        BY <2>6, <3>1 DEF KmapOps, KeepTail
      <4>2. <<o>> \in Seq(Ops)
        BY <2>7
      <4>3. <<o>> \o (x \o Tail(e)) = (<<o>> \o x) \o Tail(e)
        BY <1>3, <3>3, <4>2, Regrouped
      <4> QED
        BY <1>2, <2>2, <4>1, <4>3
    <3>6. PICK t : t = todo'
      OBVIOUS
    <3>7. Matches(t, f, reserve)
      BY <2>10, <3>3, <3>4, <3>5, <3>6 DEF Matches
    <3> QED
      BY <3>6, <3>7
  <2>19. Types'
    BY <1>3, <2>2, <2>5 DEF Types
  <2>20. panic' \notin {"null", "assert", "permanent"}
    BY <2>2 DEF ListInv, NoFalseAlarm
  <2> QED
    BY <2>2, <2>10, <2>16, <2>17, <2>18, <2>19, <2>20, Concluded
<1> QED
  BY <1>6, <1>7, <1>8

\* A range that a claim names is not permanent.
LEMMA NotPermanent ==
  ASSUME NEW e, Top(e), NEW r \in AllOf(rva), r.start \in Claimed(e)
  PROVE  ~(r.permanent = TRUE)
<1>1. OwnersInv(pools, reserve, tablePages, held, rva, e)
  BY TopParts
<1>2. /\ Owned(pools, reserve, tablePages, held) \cap Claimed(e) = {} /\ Permanents(pools, rva)
  BY <1>1, OwnersParts
<1>3. ASSUME r.permanent = TRUE
      PROVE  FALSE
  <2>1. r.start \in 0 .. 2
    BY <1>2, <1>3 DEF Permanents
  <2>2. PICK k \in Pools : FirstContainer[k] = r.start
    <3>1. /\ "fva" \in Pools /\ FirstContainer["fva"] = 0 /\ "rva" \in Pools /\ FirstContainer["rva"] = 1
          /\ "mdt" \in Pools /\ FirstContainer["mdt"] = 2
      BY DEF Pools, FirstContainer
    <3>2. r.start = 0 \/ r.start = 1 \/ r.start = 2
      BY <2>1
    <3> QED
      BY <3>1, <3>2
  <2>3. pools[k].containers # <<>> /\ pools[k].containers[1] = r.start
    BY <1>2, <2>2 DEF Permanents
  <2>4. pools[k].containers \in Seq(Pages)
    BY TopParts DEF Types
  <2>5. r.start \in ToSet(pools[k].containers)
    <3>1. \A s \in Seq(Pages) : s # <<>> => 1 \in DOMAIN s
      OBVIOUS
    <3> QED
      BY <2>3, <2>4, <3>1 DEF ToSet
  <2>6. r.start \in Owned(pools, reserve, tablePages, held)
    BY <2>5 DEF Owned, InContainers
  <2> QED
    BY <1>2, <2>6
<1> QED
  BY <1>3

-----------------------------------------------------------------------------
(* raw_kfree and nodes given back. *)

\* Two operations are one on another.
LEMMA TwoEntries ==
  ASSUME NEW S, NEW a \in S, NEW b \in S
  PROVE <<a, b>> = <<a>> \o <<b>>
<1>1. <<a>> \in Seq(S) /\ <<b>> \in Seq(S) /\ <<a,b>> \in Seq(S)
  OBVIOUS
<1>2. Len(<<a>> \o <<b>>) = 2 /\ Len(<<a,b>>) = 2
  BY <1>1
<1>3. (<<a>> \o <<b>>)[1] = a /\ (<<a>> \o <<b>>)[2] = b
  BY <1>1
<1> DEFINE x == <<a>> \o <<b>>
           y == <<a, b>>
<1>4. x \in Seq(S) /\ y \in Seq(S)
  BY <1>1
<1>5. y[1] = a /\ y[2] = b
  OBVIOUS
<1> HIDE DEF x, y
<1>6. Len(x) = 2 /\ Len(y) = 2
  BY <1>2 DEF x, y
<1>7. x[1] = a /\ x[2] = b
  BY <1>3 DEF x
<1>8. \A i \in 1 .. Len(x) : x[i] = y[i]
  <2>1. \A i \in 1 .. 2 : i = 1 \/ i = 2
    OBVIOUS
  <2> QED
    BY <1>5, <1>6, <1>7, <2>1
<1>9. x = y
  BY <1>4, <1>6, <1>8, SeqEqual
<1> QED
  BY <1>9 DEF x, y

\* What raw_kfree has yet to do.
FreeOps(va, l, n) ==
  <<Op("pop_rva", va, NoPage, n), Op("push_fva", va, NoPage, n)>> \o
  (IF l = "kmap" THEN <<Op("page_free", va, va, n)>> ELSE <<>>) \o <<Op("unmap", va, NoPage, n)>>

\* What raw_kfree has to do.
LEMMA FreeOpsAre ==
  ASSUME NEW va \in Va, NEW n \in Nat \ {0}
  PROVE  FreeOps(va, ListOf(va), n) = <<Op("pop_rva", va, NoPage, n)>> \o FreeTail(va, n)
<1>1. PICK a, b, c, d : /\ a = Op("pop_rva", va, NoPage, n) /\ b = Op("push_fva", va, NoPage, n)
                        /\ c = Op("page_free", va, va, n) /\ d = Op("unmap", va, NoPage, n)
  OBVIOUS
<1>2. a \in Ops /\ b \in Ops /\ c \in Ops /\ d \in Ops
  <2>1. va \in Int /\ n \in Int /\ NoPage \in Int
    BY SmallInts, AreasApart DEF Va
  <2>2. {"pop_rva", "push_fva", "page_free", "unmap"} \subseteq OpKinds
    BY DEF OpKinds
  <2> QED
    BY <1>1, <2>1, <2>2, OpIn
<1>3. PICK y : y = IF ListOf(va) = "kmap" THEN <<c>> ELSE <<>>
  OBVIOUS
<1>4. y \in Seq(Ops) /\ <<a>> \in Seq(Ops) /\ <<b>> \in Seq(Ops) /\ <<d>> \in Seq(Ops)
  BY <1>2, <1>3
<1>5. <<a, b>> = <<a>> \o <<b>>
  BY <1>2, TwoEntries
<1>6. FreeOps(va, ListOf(va), n) = (<<a, b>> \o y) \o <<d>>
  BY <1>1, <1>3 DEF FreeOps
<1>7. FreeTail(va, n) = <<b>> \o (y \o <<d>>)
  BY <1>1, <1>3 DEF FreeTail
<1>8. ((<<a>> \o <<b>>) \o y) \o <<d>> = <<a>> \o (<<b>> \o (y \o <<d>>))
  <2>1. y \o <<d>> \in Seq(Ops) /\ <<a>> \o <<b>> \in Seq(Ops)
    BY <1>4, Regrouped
  <2>2. <<a>> \o (<<b>> \o (y \o <<d>>)) = (<<a>> \o <<b>>) \o (y \o <<d>>)
    BY <1>4, <2>1, Regrouped
  <2>3. (<<a>> \o <<b>>) \o (y \o <<d>>) = ((<<a>> \o <<b>>) \o y) \o <<d>>
    BY <1>4, <2>1, Regrouped
  <2> QED
    BY <2>2, <2>3
<1> QED
  BY <1>1, <1>5, <1>6, <1>7, <1>8

\* raw_kfree of a page of the reserve or of a pool: the claim stays until the range is
\* taken out.
LEMMA StepKfree ==
  ASSUME ListInv, Kfree
  PROVE  ListInv'
<1>1. todo # <<>> /\ Now.do = "kfree"
  BY DEF Kfree, Doing, Now
<1>2. PICK e \in Seq(Ops) : Top(e) /\ Tail(todo) = Tail(e)
  BY <1>1, PlainTop DEF PopKinds
<1>3. /\ Types /\ Shape(e, reserve) /\ Head(e) = Now /\ e # <<>> /\ Tail(e) \in Seq(Ops) /\ Now \in Ops
      /\ InAreas(fva, rva) /\ ListsInv(fva, rva, e)
  BY <1>2, TopParts
<1>4. PICK va : va = Now.va
  OBVIOUS
<1>5. PICK l : l = ListOf(va)
  OBVIOUS
<1>6. ClaimOf[Now] = va
  BY <1>1, <1>3, <1>4, ClaimIs
<1>7. /\ Sums(Tail(e), PagesIn(e, Pushes), Claimed(e) \ {va}) /\ va \in Claimed(e)
      /\ SlotsSame(e, Tail(e), {}) /\ KnownIn(Tail(e), StartsOf(rva)) /\ va \in StartsOf(rva)
  BY <1>1, <1>2, <1>6, HeadIsClaim DEF ClaimKinds
<1>8. Known(va) /\ va \in Va
  BY <1>3, <1>7, KnownStart
<1>9. PICK r : r = rva[l][Min(Found(rva[l], va))]
  OBVIOUS
<1>10. l \in Lists /\ rva[l] \in Seq(RvaNodes) /\ r \in ToSet(rva[l]) /\ r \in RvaNodes /\ r.start = va /\ r \in AllOf(rva)
  <2>1. /\ l \in Lists /\ rva[l] \in Seq(RvaNodes) /\ Min(Found(rva[l], va)) \in 1 .. Len(rva[l])
        /\ rva[l][Min(Found(rva[l], va))].start = va
    BY <1>3, <1>5, <1>8, FoundFacts
  <2>2. PICK i \in 1 .. Len(rva[l]) : r = rva[l][i]
    BY <1>9, <2>1
  <2>3. r \in ToSet(rva[l]) /\ r \in RvaNodes
    BY <2>1, <2>2 DEF ToSet
  <2>4. r \in AllOf(rva)
    BY <2>1, <2>3 DEF AllOf, Lists
  <2> QED
    BY <1>9, <2>1, <2>3, <2>4
<1>11. ~(r.permanent = TRUE) /\ r.permanent \in BOOLEAN /\ r.size \in Nat \ {0}
  <2>1. ~(r.permanent = TRUE)
    BY <1>2, <1>7, <1>10, NotPermanent
  <2>2. r.permanent \in BOOLEAN /\ r.size \in Nat \ {0}
    BY <1>10 DEF RvaNodes
  <2> QED
    BY <2>1, <2>2
<1>12. ~r.permanent
  BY <1>11, Zenon
<1>13. /\ fva' = fva /\ rva' = rva /\ pools' = pools /\ reserve' = reserve /\ pt' = pt /\ tablePages' = tablePages
       /\ held' = held /\ panic' = panic
       /\ lent' = [p \in Pages |-> IF \E d \in ToSet(r.pas) : d.pa = p THEN Ledger!NotLent ELSE lent[p]]
       /\ todo' = FreeOps(va, l, r.size) \o Tail(todo)
  BY <1>4, <1>5, <1>8, <1>9, <1>12 DEF Kfree, Then, lists, FreeOps
<1>14. PICK n \in Nat \ {0} : n = r.size
  BY <1>11
<1>15. PICK o : o = Op("pop_rva", va, NoPage, n)
  OBVIOUS
<1>16. o \in Ops /\ o.do = "pop_rva" /\ o.va = va /\ o.n = n
  <2>1. "pop_rva" \in OpKinds /\ va \in Int /\ NoPage \in Int /\ n \in Int
    BY <1>8, SmallInts, AreasApart DEF OpKinds, Va
  <2> QED
    BY <1>15, <2>1, OpIn
<1>17. EntryOk(o, reserve) /\ o.do \in Plain
  BY <1>16 DEF EntryOk, PushKinds, Leads, Plain, OpKinds
<1>18. PICK f \in Seq(Ops) : f = <<o>> \o Tail(e)
  BY <1>2, <1>16, <1>17, OneTop
<1>19. Shape(f, reserve) /\ AssignsOwn(f) /\ Head(f) = o /\ Tail(f) = Tail(e) /\ f # <<>>
  BY <1>2, <1>16, <1>17, <1>18, OneTop
<1>20. Sums(<<o>>, {}, {va}) /\ \A k \in Pools : SlotSums(<<o>>, k, {})
  <2>1. ClaimOf[o] = va /\ o.do \notin PushKinds /\ o.do \notin Pools
    BY <1>16, ClaimIs DEF PushKinds, Pools
  <2> QED
    BY <1>16, <2>1, OneSum
<1>21. Sums(f, PagesIn(e, Pushes), Claimed(e))
  <2>1. Sums(<<o>> \o Tail(e), {} \union PagesIn(e, Pushes), {va} \union (Claimed(e) \ {va}))
    BY <1>7, <1>20, SumsCat
  <2>2. {va} \union (Claimed(e) \ {va}) = Claimed(e) /\ {} \union PagesIn(e, Pushes) = PagesIn(e, Pushes)
    BY <1>7
  <2> QED
    BY <1>18, <2>1, <2>2
<1>22. SlotsSame(e, f, {})
  BY <1>1, <1>2, <1>18, <1>20, PutSame DEF Pools
<1>23. KnownIn(f, StartsOf(rva))
  <2>1. KnownIn(<<o>>, StartsOf(rva)) /\ <<o>> \in Seq(Ops)
    <3>1. <<o>> \in Seq(Ops) /\ \A i \in DOMAIN <<o>> : <<o>>[i] = o
      BY <1>16
    <3>2. ClaimOf[o] = va
      BY <1>16, ClaimIs
    <3> QED
      BY <1>7, <3>1, <3>2 DEF KnownIn, At
  <2> QED
    BY <1>3, <1>7, <1>18, <2>1, KnownCat
<1>24. ListsInv(fva, rva, f)
  <2>1. SameRanges(rva, rva)
    BY DEF SameRanges
  <2>2. PoppedNode(rva, f)
    <3>1. HasRun(rva[ListOf(va)], va, n)
      BY <1>5, <1>10, <1>14 DEF HasRun
    <3> QED
      BY <1>16, <1>19, <3>1 DEF PoppedNode
  <2> QED
    BY <1>3, <1>21, <2>1, <2>2, ListsKept
<1>25. SlotsInv(pools, fva, rva, f)
  BY <1>2, <1>22, SlotsStill
<1>26. OwnersInv(pools, reserve, tablePages, held, rva, f)
  <2>1. Claimed(e) \cap Owned(pools, reserve, tablePages, held) = {}
    <3>1. OwnersInv(pools, reserve, tablePages, held, rva, e)
      BY <1>2, TopParts
    <3> QED
      BY <3>1, OwnersParts
  <2> QED
    BY <1>2, <1>21, <1>23, <2>1, OwnersStill
<1>27. Matches(todo', f, reserve)
  <2>1. PICK x : x = FreeTail(va, n)
    OBVIOUS
  <2>2. x \in Seq(Ops)
    <3>1. Run(va, n) \subseteq Area(ListOf(va))
      <4>1. PagesOf(r) = Run(va, n)
        BY <1>10, <1>14 DEF PagesOf
      <4>2. PagesOf(r) \subseteq Cover(rva[l])
        BY <1>10 DEF Cover
      <4>3. Cover(rva[l]) \subseteq Area(l)
        BY <1>3, <1>10 DEF InAreas
      <4> QED
        BY <1>5, <4>1, <4>2, <4>3
    <3> QED
      BY <1>8, <2>1, <3>1, FreeIsFreeing DEF IsFreeing
  <2>3. HiddenBy(o, Tail(e), reserve, x)
    BY <1>8, <1>16, <2>1 DEF HiddenBy
  <2>4. todo' = <<o>> \o (x \o Tail(e))
    <3>1. FreeOps(va, l, n) = <<o>> \o x
      BY <1>5, <1>8, <1>15, <2>1, FreeOpsAre
    <3>2. <<o>> \in Seq(Ops)
      BY <1>16
    <3>3. <<o>> \o (x \o Tail(e)) = (<<o>> \o x) \o Tail(e)
      BY <1>3, <2>2, <3>2, Regrouped
    <3> QED
      BY <1>2, <1>13, <1>14, <3>1, <3>3
  <2>5. PICK t : t = todo'
    OBVIOUS
  <2>6. Matches(t, f, reserve)
    BY <1>19, <2>2, <2>3, <2>4, <2>5 DEF Matches
  <2> QED
    BY <2>5, <2>6
<1>28. Types'
  <2>1. lent' \in [Pages -> 0 .. MAX_ORDER \cup {Ledger!NotLent}]
    BY <1>3, <1>13 DEF Types
  <2> QED
    BY <1>3, <1>13, <2>1 DEF Types
<1>29. panic' \notin {"null", "assert", "permanent"}
  BY <1>13 DEF ListInv, NoFalseAlarm
<1> QED
  BY <1>13, <1>19, <1>24, <1>25, <1>26, <1>27, <1>28, <1>29, Concluded

\* A slot of pool k is given back.
LEMMA SlotsGave ==
  ASSUME NEW P, NEW F, NEW R, NEW e, NEW k, NEW s, NEW P2, NEW f,
         Slots(P, F, R, e), IsPools(P), IsGiven(k, s, P, P2), PoolsApart(P), Permanents(P, R),
         s \in OpPlaces(e, k), SlotSums(f, k, OpPlaces(e, k) \ {s}), SlotsSame(e, f, {k})
  PROVE  Slots(P2, F, R, f)
<1>1. ASSUME NEW m \in Pools
      PROVE  SlotsOf(m, P2[m], Taking(m, F, R), f)
  <2>1. SlotsOf(m, P[m], Taking(m, F, R), e)
    BY DEF Slots
  <2>2. CASE m = k
    <3>1. Distinct(P[k].containers) /\ P[k].containers[1] = FirstContainer[k]
      BY <2>2 DEF PoolsApart, Permanents
    <3>2. SlotsOf(k, P2[k], Taking(k, F, R), f)
      BY <2>1, <2>2, <3>1, SlotGiven
    <3> QED
      BY <2>2, <3>2
  <2>3. CASE m # k
    <3>1. P2[m] = P[m] /\ SlotSums(f, m, OpPlaces(e, m))
      BY <2>3 DEF IsGiven, SlotsSame
    <3> QED
      BY <2>1, <3>1, SlotsKept
  <2> QED
    BY <2>2, <2>3
<1> QED
  BY <1>1 DEF Slots

\* A slot given back: a container that holds no other node leaves the pool and is claimed.
LEMMA StepFreeNode ==
  ASSUME ListInv, NEW k \in Pools, FreeNode(k)
  PROVE  ListInv'
<1>1. todo # <<>> /\ Now.do = k /\ k \notin PopKinds /\ k \notin PushKinds /\ k \notin ClaimKinds /\ k # "push_rva"
  BY DEF FreeNode, Doing, Now, Pools, PopKinds, PushKinds, ClaimKinds
<1>2. PICK e \in Seq(Ops) : Top(e) /\ Tail(todo) = Tail(e)
  BY <1>1, PlainTop
<1>3. /\ Types /\ Shape(e, reserve) /\ Head(e) = Now /\ e # <<>> /\ Tail(e) \in Seq(Ops) /\ Now \in Ops
      /\ ListsInv(fva, rva, e) /\ Slots(pools, fva, rva, e) /\ KnownIn(e, StartsOf(rva))
      /\ OwnersInv(pools, reserve, tablePages, held, rva, e) /\ NodesApart(fva, rva)
  BY <1>2, TopParts
<1>4. PICK s : s = <<Now.va, Now.pa>>
  OBVIOUS
<1>5. SlotsOf(k, pools[k], Taking(k, fva, rva), e)
  BY <1>3 DEF Slots
<1>6. s \in OpPlaces(e, k) /\ SlotSums(Tail(e), k, OpPlaces(e, k) \ {s})
  <2>1. HeadSlot(Head(e), k) = {s}
    BY <1>1, <1>3, <1>4 DEF HeadSlot
  <2>2. Once(e, SlotOps(k), PlaceOf)
    BY <1>5 DEF SlotsOf
  <2>3. /\ SlotSums(Tail(e), k, OpPlaces(e, k) \ HeadSlot(Head(e), k))
        /\ HeadSlot(Head(e), k) \subseteq OpPlaces(e, k)
    BY <1>3, <2>2, TailSlots DEF OpPlaces
  <2> QED
    BY <2>1, <2>3
<1>7. s \in pools[k].used /\ s[1] \in ToSet(pools[k].containers) /\ Keeps(k, pools, reserve) /\ s[1] = Now.va
  <2>1. s \in pools[k].used
    BY <1>5, <1>6 DEF SlotsOf, OpPlaces
  <2> QED
    BY <1>4, <1>5, <2>1 DEF SlotsOf, Keeps
<1>8. /\ pools' = [pools EXCEPT ![k] = Shrunk(@, s)]
      /\ todo' = (IF LeavesEmpty(pools[k], s) THEN <<Op("kfree", s[1], NoPage, 0)>> ELSE <<>>) \o Tail(todo)
      /\ fva' = fva /\ rva' = rva /\ reserve' = reserve /\ pt' = pt /\ tablePages' = tablePages /\ lent' = lent
      /\ held' = held /\ panic' = panic
  BY <1>4, <1>7 DEF FreeNode, Then, memory
<1>9. IsGiven(k, s, pools, pools') /\ (LeavesEmpty(pools[k], s) <=> pools'[k].containers # pools[k].containers)
  BY <1>3, <1>7, <1>8, ShrunkIs
<1>10. PICK P2 : P2 = pools'
  OBVIOUS
<1>11. IsGiven(k, s, pools, P2) /\ (LeavesEmpty(pools[k], s) <=> P2[k].containers # pools[k].containers)
  BY <1>9, <1>10
<1>12. /\ IsPools(pools) /\ PoolsApart(pools) /\ Permanents(pools, rva)
       /\ Owned(pools, reserve, tablePages, held) \cap Claimed(e) = {}
       /\ Owned(pools, reserve, tablePages, held) \subseteq StartsOf(rva)
       /\ \A r \in AllOf(rva) : r.permanent => r.start \in 0 .. 2
  BY <1>3, OwnersParts DEF Types, IsPools
<1>13. Sums(Tail(e), PagesIn(e, Pushes), Claimed(e)) /\ SlotsSame(e, Tail(e), {k}) /\ KnownIn(Tail(e), StartsOf(rva))
  <2>1. HeadPages(Now) = {} /\ HeadClaim(Now) = {}
    BY <1>1 DEF HeadPages, HeadClaim
  <2>2. Sums(Tail(e), PagesIn(e, Pushes) \ {}, Claimed(e) \ {})
    BY <1>2, <2>1, TailSays
  <2>3. PagesIn(e, Pushes) \ {} = PagesIn(e, Pushes) /\ Claimed(e) \ {} = Claimed(e)
    OBVIOUS
  <2>4. SlotsSame(e, Tail(e), {k})
    BY <1>1, <1>2, TailSame
  <2>5. Head(e) \notin RvaPushes
    BY <1>1, <1>3, KindSets
  <2>6. KnownIn(Tail(e), StartsOf(rva))
    BY <1>3, <2>5, KnownTail
  <2> QED
    BY <2>2, <2>3, <2>4, <2>6
<1>14. Types'
  <2>1. IsPools(pools')
    BY <1>9 DEF IsGiven
  <2> QED
    BY <1>3, <1>8, <2>1 DEF Types, IsPools
<1>15. panic' \notin {"null", "assert", "permanent"}
  BY <1>8 DEF ListInv, NoFalseAlarm
<1>16. CASE ~LeavesEmpty(pools[k], s)
  <2>1. PICK f \in Seq(Ops) : f = Tail(e)
    BY <1>3
  <2>2. Shape(f, reserve) /\ AssignsOwn(f) /\ Matches(f, f, reserve) /\ NotPopping(f) /\ <<>> \o Tail(e) = f
    BY <1>2, <2>1, TailTop, SameReserve
  <2>3. todo' = f
    BY <1>2, <1>8, <1>16, <2>2
  <2>4. ListsInv(fva, rva, f)
    BY <1>2, <1>13, <2>1, <2>2, ListsIdle
  <2>5. Slots(P2, fva, rva, f)
    BY <1>3, <1>6, <1>11, <1>12, <1>13, <2>1, SlotsGave
  <2>6. OwnersInv(P2, reserve, tablePages, held, rva, e)
    BY <1>3, <1>11, <1>16, OwnersGivenSame
  <2>7. OwnersInv(P2, reserve, tablePages, held, rva, f)
    <3>1. /\ Claimed(e) \cap Owned(P2, reserve, tablePages, held) = {}
          /\ Owned(P2, reserve, tablePages, held) \subseteq StartsOf(rva)
      BY <2>6, OwnersParts
    <3> QED
      BY <1>12, <1>13, <2>1, <2>6, <3>1, OwnersMoved
  <2>8. SlotsInv(P2, fva, rva, f)
    BY <1>3, <2>5 DEF SlotsInv
  <2> QED
    BY <1>8, <1>10, <1>14, <1>15, <2>2, <2>3, <2>4, <2>7, <2>8, Concluded
<1>17. CASE LeavesEmpty(pools[k], s)
  <2>1. PICK o : o = Op("kfree", s[1], NoPage, 0)
    OBVIOUS
  <2>2. o \in Ops /\ o.do = "kfree" /\ o.va = s[1] /\ ClaimOf[o] = s[1]
    <3>1. "kfree" \in OpKinds /\ NoPage \in Int /\ 0 \in Int
      BY SmallInts DEF OpKinds
    <3>2. s[1] \in Int
      BY <1>3, <1>7 DEF Ops
    <3>3. o \in Ops /\ o.do = "kfree" /\ o.va = s[1]
      BY <2>1, <3>1, <3>2, OpIn
    <3> QED
      BY <3>3, ClaimIs
  <2>3. EntryOk(o, reserve) /\ o.do \in Plain
    BY <2>2 DEF EntryOk, PushKinds, Leads, Plain, OpKinds, Sized
  <2>4. PICK f \in Seq(Ops) : f = <<o>> \o Tail(e)
    BY <1>2, <2>2, <2>3, OneTop
  <2>5. Shape(f, reserve) /\ AssignsOwn(f) /\ Head(f) = o /\ f # <<>>
    BY <1>2, <2>2, <2>3, <2>4, OneTop
  <2>6. Matches(f, f, reserve) /\ NotPopping(f)
    BY <2>2, <2>5, PlainMatches DEF PopKinds, NotPopping
  <2>7. todo' = f
    BY <1>2, <1>8, <1>17, <2>1, <2>4
  <2>8. s[1] \in Owned(pools, reserve, tablePages, held) /\ s[1] \notin Claimed(e) /\ s[1] \in StartsOf(rva)
    <3>1. s[1] \in Owned(pools, reserve, tablePages, held)
      BY <1>7 DEF Owned, InContainers
    <3> QED
      BY <1>12, <3>1
  <2>9. Sums(<<o>>, {}, {s[1]}) /\ \A m \in Pools : SlotSums(<<o>>, m, {})
    <3>1. o.do \notin PushKinds /\ o.do \notin Pools
      BY <2>2 DEF PushKinds, Pools
    <3> QED
      BY <2>2, <3>1, OneSum
  <2>10. Sums(f, PagesIn(e, Pushes), Claimed(e) \union {s[1]})
    <3>1. {s[1]} \cap Claimed(e) = {} /\ {} \cap PagesIn(e, Pushes) = {}
      BY <2>8
    <3>2. Sums(<<o>> \o Tail(e), {} \union PagesIn(e, Pushes), {s[1]} \union Claimed(e))
      BY <1>13, <2>9, <3>1, SumsCat
    <3>3. {} \union PagesIn(e, Pushes) = PagesIn(e, Pushes) /\ {s[1]} \union Claimed(e) = Claimed(e) \union {s[1]}
      OBVIOUS
    <3> QED
      BY <2>4, <3>2, <3>3
  <2>11. SlotsSame(e, f, {k})
    BY <1>1, <1>2, <2>4, <2>9, PutSame
  <2>12. SlotSums(f, k, OpPlaces(e, k) \ {s})
    <3>1. SlotSums(<<o>>, k, {})
      BY <2>9
    <3>2. SlotSums(<<o>> \o Tail(e), k, {} \union (OpPlaces(e, k) \ {s}))
      BY <1>6, <3>1, SlotSumsCat
    <3> QED
      BY <2>4, <3>2
  <2>13. KnownIn(f, StartsOf(rva))
    <3>1. KnownIn(<<o>>, StartsOf(rva)) /\ <<o>> \in Seq(Ops)
      <4>1. <<o>> \in Seq(Ops) /\ \A i \in DOMAIN <<o>> : <<o>>[i] = o
        BY <2>2
      <4> QED
        BY <2>2, <2>8, <4>1 DEF KnownIn, At
    <3> QED
      BY <1>3, <1>13, <2>4, <3>1, KnownCat
  <2>14. ListsInv(fva, rva, f)
    BY <1>2, <2>6, <2>10, ListsIdle
  <2>15. Slots(P2, fva, rva, f)
    BY <1>3, <1>6, <1>11, <1>12, <2>11, <2>12, SlotsGave
  <2>16. OwnersInv(P2, reserve, tablePages, held, rva, f)
    BY <1>3, <1>11, <1>12, <1>17, <2>10, <2>13, OwnersGiven
  <2>17. SlotsInv(P2, fva, rva, f)
    BY <1>3, <2>15 DEF SlotsInv
  <2> QED
    BY <1>8, <1>10, <1>14, <1>15, <2>5, <2>6, <2>7, <2>14, <2>16, <2>17, Concluded
<1> QED
  BY <1>16, <1>17

-----------------------------------------------------------------------------
(* pop_rva. *)

\* The nodes that pop_rva leaves to free.
Leaving(r) == Freed(r.pas) \o <<FreeNodeOp("rva", r.at)>>

\* What a range leaves to do when it leaves the tree: its own slot and its records' to give
\* back.
LEMMA LeavingFacts ==
  ASSUME NEW r \in RvaNodes, PlacesDistinct(r.pas), NEW rs
  PROVE  /\ Leaving(r) \in Seq(Ops) /\ AllPlain(Leaving(r), rs) /\ Leaving(r) # <<>>
         /\ Leaving(r)[1].do \notin PopKinds
         /\ Sums(Leaving(r), {}, {}) /\ (\A X : KnownIn(Leaving(r), X))
         /\ SlotSums(Leaving(r), "mdt", PlacesIn(ToSet(r.pas))) /\ SlotSums(Leaving(r), "rva", {r.at})
         /\ SlotSums(Leaving(r), "fva", {})
<1>1. r.pas \in Seq(MdtNodes) /\ r.at \in Places
  BY DEF RvaNodes
<1>2. "mdt" \in Pools /\ "rva" \in Pools /\ "fva" \in Pools
  BY DEF Pools
<1>3. PICK a : a = Freed(r.pas)
  OBVIOUS
<1>4. PICK b : b = <<FreeNodeOp("rva", r.at)>>
  OBVIOUS
<1>5. /\ a \in Seq(Ops) /\ AllPlain(a, rs) /\ Sums(a, {}, {}) /\ (\A X : KnownIn(a, X))
      /\ SlotSums(a, "mdt", PlacesIn(ToSet(r.pas))) /\ SlotSums(a, "rva", {}) /\ SlotSums(a, "fva", {})
  BY <1>1, <1>2, <1>3, ManyFreed
<1>6. /\ b \in Seq(Ops) /\ AllPlain(b, rs) /\ Sums(b, {}, {}) /\ (\A X : KnownIn(b, X))
      /\ SlotSums(b, "rva", {r.at}) /\ SlotSums(b, "mdt", {}) /\ SlotSums(b, "fva", {})
  BY <1>1, <1>2, <1>4, OneFreed
<1>7. /\ b # <<>> /\ b[1].do = "rva" /\ Len(b) = 1
  BY <1>1, <1>2, <1>4, FreeNodeIs
<1>8. \A i \in 1 .. Len(a) : a[i].do = "mdt"
  <2>1. DOMAIN a = DOMAIN r.pas /\ \A j \in DOMAIN a : a[j] = FreeNodeOp("mdt", r.pas[j].at)
    BY <1>3 DEF Freed
  <2>2. DOMAIN a = 1 .. Len(a)
    BY <1>5
  <2>3. ASSUME NEW i \in 1 .. Len(a)
        PROVE  a[i].do = "mdt"
    BY <2>1, <2>2 DEF FreeNodeOp, Op
  <2> QED
    BY <2>3
<1>9. Leaving(r) = a \o b
  BY <1>3, <1>4 DEF Leaving
<1>10. AllPlain(a \o b, rs)
  <2>1. b[1].do \notin TopKinds
    BY <1>7 DEF TopKinds
  <2> QED
    BY <1>5, <1>6, <2>1, AllPlainCat
<1>11. a \o b # <<>> /\ (a \o b)[1].do \notin PopKinds /\ a \o b \in Seq(Ops)
  <2>1. Len(a \o b) = Len(a) + Len(b) /\ a \o b \in Seq(Ops)
    BY <1>5, <1>6, CatEntries
  <2>2. Len(a) \in Nat
    BY <1>5
  <2>3. Len(a \o b) >= 1
    BY <1>7, <2>1, <2>2
  <2>4. a \o b # <<>>
    BY <2>3
  <2>5. (a \o b)[1].do \in {"mdt", "rva"}
    <3>1. CASE Len(a) >= 1
      <4>1. 1 \in 1 .. Len(a)
        BY <2>2, <3>1
      <4>2. (a \o b)[1] = a[1]
        BY <1>5, <1>6, <4>1, CatEntries
      <4> QED
        BY <1>8, <4>1, <4>2
    <3>2. CASE ~(Len(a) >= 1)
      <4>1. Len(a) = 0
        BY <2>2, <3>2
      <4>2. a \o b = b
        <5>1. a = <<>>
          BY <1>5, <4>1
        <5>2. \A s \in Seq(Ops) : <<>> \o s = s
          OBVIOUS
        <5> QED
          BY <1>6, <5>1, <5>2
      <4> QED
        BY <1>7, <4>2
    <3> QED
      BY <3>1, <3>2
  <2> QED
    BY <2>1, <2>4, <2>5 DEF PopKinds
<1>12. Sums(a \o b, {}, {})
  <2>1. Sums(a \o b, {} \union {}, {} \union {})
    BY <1>5, <1>6, SumsCat
  <2> QED
    BY <2>1
<1>13. \A X : KnownIn(a \o b, X)
  BY <1>5, <1>6, KnownCat
<1>14. SlotSums(a \o b, "mdt", PlacesIn(ToSet(r.pas)))
  <2>1. SlotSums(a \o b, "mdt", PlacesIn(ToSet(r.pas)) \union {})
    BY <1>5, <1>6, SlotSumsCat
  <2>2. PlacesIn(ToSet(r.pas)) \union {} = PlacesIn(ToSet(r.pas))
    OBVIOUS
  <2> QED
    BY <2>1, <2>2
<1>15. SlotSums(a \o b, "rva", {r.at})
  <2>1. SlotSums(a \o b, "rva", {} \union {r.at})
    BY <1>5, <1>6, SlotSumsCat
  <2> QED
    BY <2>1
<1>16. SlotSums(a \o b, "fva", {})
  <2>1. SlotSums(a \o b, "fva", {} \union {})
    BY <1>5, <1>6, SlotSumsCat
  <2> QED
    BY <2>1
<1> QED
  BY <1>9, <1>10, <1>11, <1>12, <1>13, <1>14, <1>15, <1>16

\* The slots of a pool when nodes become entries of the stack.
LEMMA SlotsOutOf ==
  ASSUME NEW k, NEW pool, NEW X, NEW e, NEW S, NEW t, NEW h, SlotsOf(k, pool, X, e), S \subseteq X,
         SlotSums(t, k, S), SlotSums(h, k, OpPlaces(e, k))
  PROVE  SlotsOf(k, pool, X \ S, t \o h)
<1>1. S \cap OpPlaces(e, k) = {}
  BY DEF SlotsOf, OpPlaces
<1>2. SlotSums(t \o h, k, S \union OpPlaces(e, k))
  BY <1>1, SlotSumsCat
<1> QED
  BY <1>2, SlotsLeft

\* pop_rva: the range that is freed is found, and its slots are given back.
LEMMA StepPopRva ==
  ASSUME ListInv, PopRva
  PROVE  ListInv'
<1>1. todo # <<>> /\ Now.do = "pop_rva"
  BY DEF PopRva, Doing, Now
<1>2. PICK e \in Seq(Ops), x \in Seq(Ops) : Top(e) /\ HiddenBy(Head(e), Tail(e), reserve, x) /\ Tail(todo) = x \o Tail(e)
  BY <1>1, TopFacts
<1>3. /\ Types /\ Shape(e, reserve) /\ Head(e) = Now /\ e # <<>> /\ Tail(e) \in Seq(Ops) /\ Now \in Ops
      /\ InAreas(fva, rva) /\ ListsInv(fva, rva, e) /\ InOrder(fva, rva) /\ Ranges(fva, rva, e)
      /\ Slots(pools, fva, rva, e) /\ NodesApart(fva, rva) /\ EntryOk(Now, reserve)
      /\ OwnersInv(pools, reserve, tablePages, held, rva, e) /\ AssignsOwn(e)
  BY <1>2, TopParts
<1>4. PICK va, n, l : va = Now.va /\ n = Now.n /\ l = ListOf(va)
  OBVIOUS
<1>5. va \in Va /\ x = FreeTail(va, n) /\ n \in Nat \ {0}
  <2>1. va \in Va /\ x = FreeTail(va, n)
    BY <1>1, <1>2, <1>3, <1>4 DEF HiddenBy, PopKinds
  <2>2. n \in Int /\ n >= 1
    BY <1>1, <1>3, <1>4 DEF EntryOk, Sized, Ops
  <2> QED
    BY <2>1, <2>2
<1>6. ClaimOf[Now] = va
  BY <1>1, <1>3, <1>4, ClaimIs
<1>7. /\ Sums(Tail(e), PagesIn(e, Pushes), Claimed(e) \ {va}) /\ va \in Claimed(e)
      /\ SlotsSame(e, Tail(e), {}) /\ KnownIn(Tail(e), StartsOf(rva)) /\ va \in StartsOf(rva)
  BY <1>1, <1>2, <1>6, HeadIsClaim DEF ClaimKinds
<1>8. Known(va)
  BY <1>3, <1>7, KnownStart
<1>9. PICK i : i = Min(Found(rva[l], va))
  OBVIOUS
<1>10. PICK r : r = rva[l][i]
  OBVIOUS
<1>11. PICK s : s = rva[l]
  OBVIOUS
<1>12. l \in Lists /\ s \in Seq(RvaNodes) /\ i \in 1 .. Len(s) /\ r = s[i] /\ r.start = va /\ Spaced(s, 0) /\ Ranged(RvaNodes)
  <2>1. l \in Lists /\ rva[l] \in Seq(RvaNodes) /\ i \in 1 .. Len(rva[l]) /\ rva[l][i].start = va
    BY <1>3, <1>4, <1>8, <1>9, FoundFacts
  <2>2. Spaced(rva[l], 0)
    BY <1>3, <2>1 DEF InOrder
  <2> QED
    BY <1>10, <1>11, <2>1, <2>2, NodesRanged
<1>13. r \in ToSet(s) /\ r \in RvaNodes /\ r \in AllOf(rva) /\ r.at \in Places
  <2>1. r \in ToSet(s) /\ r \in RvaNodes
    BY <1>12 DEF ToSet
  <2>2. r \in AllOf(rva)
    BY <1>11, <1>12, <2>1 DEF AllOf, Lists
  <2>3. r.at \in Places
    BY <2>1 DEF RvaNodes
  <2> QED
    BY <2>1, <2>2, <2>3
<1>14. r.size = n
  <2>1. HasRun(s, va, n)
    BY <1>1, <1>3, <1>4, <1>11 DEF ListsInv, PoppedNode
  <2>2. PICK j \in 1 .. Len(s) : s[j].start = va /\ s[j].size = n
    <3>1. DOMAIN s = 1 .. Len(s)
      BY <1>12
    <3> QED
      BY <2>1, <3>1 DEF HasRun, ToSet
  <2>3. i = j
    <3>1. 0 \in Nat
      OBVIOUS
    <3>2. s[i].start = s[j].start
      BY <1>12, <2>2
    <3> QED
      BY <1>12, <3>1, <3>2, SpacedApart
  <2> QED
    BY <1>12, <2>2, <2>3
<1>15. PagesOf(r) = Run(va, n)
  BY <1>12, <1>14 DEF PagesOf
<1>16. Run(va, n) \subseteq Cover(s) /\ Cover(s) \subseteq CoverAll(rva) /\ Run(va, n) \subseteq Area(l)
  <2>1. Run(va, n) \subseteq Cover(s)
    BY <1>13, <1>15 DEF Cover
  <2>2. Cover(s) \subseteq CoverAll(rva)
    BY <1>11, <1>12 DEF CoverAll, Lists
  <2>3. Cover(s) \subseteq Area(l)
    BY <1>3, <1>11, <1>12 DEF InAreas
  <2> QED
    BY <2>1, <2>2, <2>3
<1>17. /\ fva' = fva /\ pools' = pools /\ reserve' = reserve /\ pt' = pt /\ tablePages' = tablePages /\ lent' = lent
       /\ held' = held /\ panic' = panic
       /\ rva' = [rva EXCEPT ![l] = ReplaceNode(s, i, <<>>)]
       /\ todo' = Leaving(r) \o Tail(todo)
  BY <1>4, <1>9, <1>10, <1>11 DEF PopRva, Then, memory, Leaving, Freed
<1>18. PICK u : u = ReplaceNode(s, i, <<>>)
  OBVIOUS
<1>19. u \in Seq(RvaNodes) /\ Spaced(u, 0) /\ ToSet(u) = ToSet(s) \ {r} /\ Cover(u) = Cover(s) \ Run(va, n)
  <2>1. 0 \in Nat
    OBVIOUS
  <2>2. u \in Seq(RvaNodes) /\ Spaced(u, 0) /\ ToSet(u) = ToSet(s) \ {s[i]}
    BY <1>12, <1>18, <2>1, RemovedFacts
  <2>3. CoverOf(ToSet(s) \ {s[i]}) = Cover(s) \ PagesOf(s[i])
    BY <1>12, <2>1, CoverWithout
  <2> QED
    BY <1>12, <1>15, <2>2, <2>3, CoverIs
<1>20. PICK R2 : R2 = rva'
  OBVIOUS
<1>21. R2 \in [Lists -> Seq(RvaNodes)] /\ R2[l] = u /\ OneList(rva, R2, l)
  <2>1. rva \in [Lists -> Seq(RvaNodes)]
    BY <1>3 DEF Types
  <2>2. R2 = [rva EXCEPT ![l] = u]
    BY <1>17, <1>18, <1>20
  <2> QED
    BY <1>12, <1>19, <2>1, <2>2, ListChanged
<1>22. IsSwap(AllOf(rva), AllOf(R2), {r}, {})
  <2>1. IsSwap(ToSet(rva[l]), ToSet(R2[l]), {r}, {})
    BY <1>11, <1>13, <1>19, <1>21 DEF IsSwap
  <2> QED
    BY <1>3, <1>12, <1>21, <2>1, TwoListsApart, AllOfChanged
<1>23. PlacesApart(AllOf(fva)) /\ PlacesApart(AllOf(rva)) /\ PlacesApart(Recs(AllOf(rva))) /\ RecsApart(AllOf(rva))
  BY <1>3, NodesParts
<1>24. PlacesDistinct(r.pas)
  <2>1. Distinct(r.pas) /\ ToSet(r.pas) \subseteq Recs(AllOf(rva))
    BY <1>13, <1>23 DEF RecsApart, Recs
  <2>2. \A d, b \in ToSet(r.pas) : d.at = b.at => d = b
    BY <1>23, <2>1 DEF PlacesApart
  <2>3. ASSUME NEW j \in DOMAIN r.pas, NEW m \in DOMAIN r.pas, r.pas[j].at = r.pas[m].at
        PROVE  j = m
    <3>1. r.pas[j] \in ToSet(r.pas) /\ r.pas[m] \in ToSet(r.pas)
      BY DEF ToSet
    <3>2. r.pas[j] = r.pas[m]
      BY <2>2, <2>3, <3>1
    <3> QED
      BY <2>1, <3>2 DEF Distinct
  <2> QED
    BY <2>3 DEF PlacesDistinct
<1>25. PICK a : a = Leaving(r)
  OBVIOUS
<1>26. /\ a \in Seq(Ops) /\ AllPlain(a, reserve) /\ a # <<>> /\ a[1].do \notin PopKinds
       /\ Sums(a, {}, {}) /\ (\A X : KnownIn(a, X))
       /\ SlotSums(a, "mdt", PlacesIn(ToSet(r.pas))) /\ SlotSums(a, "rva", {r.at}) /\ SlotSums(a, "fva", {})
  BY <1>13, <1>24, <1>25, LeavingFacts
<1>27. /\ x \in Seq(Ops) /\ AllPlain(x, reserve) /\ Sums(x, Run(va, n), {})
       /\ (\A k \in Pools : SlotSums(x, k, {})) /\ (\A X : KnownIn(x, X))
       /\ x # <<>> /\ x[1].do \notin TopKinds
  BY <1>4, <1>5, <1>16, FreeIsFreeing DEF IsFreeing
<1>28. PICK b \in Seq(Ops) : b = a \o x
  BY <1>26, <1>27, CatEntries
<1>29. AllPlain(b, reserve) /\ (b # <<>> => b[1].do \notin PopKinds)
  <2>1. AllPlain(b, reserve)
    BY <1>26, <1>27, <1>28, AllPlainCat
  <2>2. b[1] = a[1]
    <3>1. 1 \in 1 .. Len(a)
      BY <1>26
    <3> QED
      BY <1>26, <1>27, <1>28, <3>1, CatEntries
  <2> QED
    BY <1>26, <2>1, <2>2
<1>30. PICK f \in Seq(Ops) : f = b \o Tail(e)
  BY <1>3, <1>28, CatEntries
<1>31. Shape(f, reserve) /\ AssignsOwn(f) /\ Matches(f, f, reserve) /\ NotPopping(f)
  BY <1>2, <1>29, <1>30, SameReserve, PlainTopNext
<1>32. todo' = f
  <2>1. \A z \in Seq(Ops) : a \o (x \o z) = (a \o x) \o z
    <3>1. a \in Seq(Ops) /\ x \in Seq(Ops)
      BY <1>26, <1>27
    <3> QED
      BY SMTT(30), <3>1, Regrouped
  <2>2. a \o (x \o Tail(e)) = (a \o x) \o Tail(e)
    BY <1>3, <2>1
  <2> QED
    BY <1>2, <1>17, <1>25, <1>28, <1>30, <2>2
<1>33. Sums(b, Run(va, n), {}) /\ Sums(f, Run(va, n) \union PagesIn(e, Pushes), Claimed(e) \ {va})
  <2>1. Sums(a \o x, {} \union Run(va, n), {} \union {})
    BY <1>26, <1>27, SumsCat
  <2>2. Sums(b, Run(va, n), {})
    BY <1>28, <2>1
  <2>3. Run(va, n) \cap PagesIn(e, Pushes) = {}
    BY <1>3, <1>16 DEF Ranges
  <2>4. Sums(b \o Tail(e), Run(va, n) \union PagesIn(e, Pushes), {} \union (Claimed(e) \ {va}))
    BY <1>7, <2>2, <2>3, SumsCat
  <2>5. {} \union (Claimed(e) \ {va}) = Claimed(e) \ {va}
    OBVIOUS
  <2> QED
    BY <1>30, <2>2, <2>4, <2>5
<1>34. ListsInv(fva, R2, f)
  <2>1. Spaced(R2[l], 0) /\ Cover(R2[l]) = Cover(rva[l]) \ Run(va, n) /\ Run(va, n) \subseteq Cover(rva[l])
    BY <1>11, <1>16, <1>19, <1>21
  <2> QED
    BY <1>3, <1>12, <1>21, <1>31, <1>33, <2>1, ListsPopRva
<1>35. OwnersInv(pools, reserve, tablePages, held, R2, f)
  <2>1. /\ Owned(pools, reserve, tablePages, held) \cap Claimed(e) = {}
        /\ Owned(pools, reserve, tablePages, held) \subseteq StartsOf(rva)
        /\ \A q \in AllOf(rva) : q.permanent => q.start \in 0 .. 2
    BY <1>3, OwnersParts
  <2>2. StartsOf(rva) \ {va} \subseteq StartsOf(R2)
    BY <1>12, <1>22 DEF StartsOf, IsSwap
  <2>3. Owned(pools, reserve, tablePages, held) \subseteq StartsOf(R2)
    BY <1>7, <2>1, <2>2
  <2>4. KnownIn(Tail(e), StartsOf(rva) \ {va})
    <3>1. va \notin Claimed(Tail(e))
      BY <1>7 DEF Sums
    <3> QED
      BY <1>3, <1>7, <3>1, KnownWithout
  <2>5. KnownIn(Tail(e), StartsOf(R2))
    BY <1>3, <2>2, <2>4, KnownMore
  <2>6. KnownIn(b, StartsOf(R2))
    <3>1. KnownIn(a, StartsOf(R2)) /\ KnownIn(x, StartsOf(R2))
      BY <1>26, <1>27
    <3> QED
      BY <1>26, <1>27, <1>28, <3>1, KnownCat
  <2>7. KnownIn(f, StartsOf(R2))
    BY <1>3, <1>30, <2>5, <2>6, KnownCat
  <2>8. \A q \in AllOf(R2) : q.permanent => q.start \in 0 .. 2
    BY <1>22, <2>1 DEF IsSwap
  <2>9. (Claimed(e) \ {va}) \cap Owned(pools, reserve, tablePages, held) = {}
    BY <2>1
  <2> QED
    BY <1>3, <1>33, <2>3, <2>7, <2>8, <2>9, OwnersMoved
<1>36. SlotsInv(pools, fva, R2, f)
  <2>1. /\ PlacesApart(AllOf(R2)) /\ PlacesIn(AllOf(R2)) = PlacesIn(AllOf(rva)) \ {r.at} /\ r.at \in PlacesIn(AllOf(rva))
    BY <1>22, <1>23, PlaceGone
  <2>2. /\ RecsApart(AllOf(R2)) /\ PlacesApart(Recs(AllOf(R2)))
        /\ PlacesIn(Recs(AllOf(R2))) = PlacesIn(Recs(AllOf(rva))) \ PlacesIn(ToSet(r.pas))
        /\ PlacesIn(ToSet(r.pas)) \subseteq PlacesIn(Recs(AllOf(rva)))
    BY <1>22, <1>23, RecsGone
  <2>3. NodesApart(fva, R2)
    BY <1>23, <2>1, <2>2, NodesParts
  <2>4. SlotSums(x \o Tail(e), "mdt", OpPlaces(e, "mdt")) /\ SlotSums(x \o Tail(e), "rva", OpPlaces(e, "rva"))
        /\ SlotSums(x \o Tail(e), "fva", OpPlaces(e, "fva"))
    <3>1. SlotsSame(e, x \o Tail(e), {})
      BY <1>1, <1>2, <1>27, PutSame DEF Pools
    <3> QED
      BY <3>1 DEF SlotsSame, Pools
  <2>5. f = a \o (x \o Tail(e))
    BY SMTT(30), <1>3, <1>26, <1>27, <1>28, <1>30, Regrouped
  <2>6. SlotsOf("mdt", pools["mdt"], Taking("mdt", fva, rva), e) /\ SlotsOf("rva", pools["rva"], Taking("rva", fva, rva), e)
        /\ SlotsOf("fva", pools["fva"], Taking("fva", fva, rva), e)
    BY <1>3 DEF Slots, Pools
  <2>7. SlotsOf("mdt", pools["mdt"], Taking("mdt", fva, R2), f)
    <3>1. PlacesIn(ToSet(r.pas)) \subseteq Taking("mdt", fva, rva)
          /\ Taking("mdt", fva, R2) = Taking("mdt", fva, rva) \ PlacesIn(ToSet(r.pas))
      BY <2>2, TakingIs
    <3> QED
      BY SMTT(30), <1>26, <2>4, <2>5, <2>6, <3>1, SlotsOutOf
  <2>8. SlotsOf("rva", pools["rva"], Taking("rva", fva, R2), f)
    <3>1. {r.at} \subseteq Taking("rva", fva, rva) /\ Taking("rva", fva, R2) = Taking("rva", fva, rva) \ {r.at}
      BY <2>1, TakingIs
    <3>2. PICK S : S = {r.at}
      OBVIOUS
    <3>3. S \subseteq Taking("rva", fva, rva) /\ Taking("rva", fva, R2) = Taking("rva", fva, rva) \ S
          /\ SlotSums(a, "rva", S)
      BY <1>26, <3>1, <3>2
    <3> QED
      BY <1>26, <2>4, <2>5, <2>6, <3>3, SlotsOutOf
  <2>9. SlotsOf("fva", pools["fva"], Taking("fva", fva, R2), f)
    <3>1. Taking("fva", fva, R2) = Taking("fva", fva, rva)
      BY TakingIs
    <3>2. PICK S : S = {}
      OBVIOUS
    <3>3. S \subseteq Taking("fva", fva, rva) /\ Taking("fva", fva, R2) = Taking("fva", fva, rva) \ S
          /\ SlotSums(a, "fva", S)
      BY <1>26, <3>1, <3>2
    <3> QED
      BY <1>26, <2>4, <2>5, <2>6, <3>3, SlotsOutOf
  <2> QED
    BY <2>3, <2>7, <2>8, <2>9 DEF SlotsInv, Slots, Pools
<1>37. Types'
  BY <1>3, <1>17, <1>20, <1>21 DEF Types
<1>38. panic' \notin {"null", "assert", "permanent"}
  BY <1>17 DEF ListInv, NoFalseAlarm
<1> QED
  BY <1>17, <1>20, <1>31, <1>32, <1>34, <1>35, <1>36, <1>37, <1>38, Concluded

-----------------------------------------------------------------------------
(* pop_fva. *)

\* A claim is of a range that is reserved, or is about to be.
LEMMA ClaimsCovered ==
  ASSUME NEW e, Top(e)
  PROVE  /\ StartsOf(rva) \subseteq CoverAll(rva)
         /\ Claimed(e) \subseteq CoverAll(rva) \union PagesIn(e, Pushes)
<1>1. Types /\ KnownIn(e, StartsOf(rva)) /\ Shape(e, reserve) /\ e \in Seq(Ops)
  BY TopParts
<1>2. ASSUME NEW r \in AllOf(rva) PROVE r.start \in CoverAll(rva)
  <2>1. PICK l \in Lists : r \in ToSet(rva[l])
    BY DEF AllOf, Lists
  <2>2. r \in RvaNodes
    BY <1>1, <2>1, ListTypes
  <2>3. r.start \in PagesOf(r)
    BY <2>2 DEF RvaNodes, PagesOf, Run
  <2>4. r.start \in Cover(rva[l])
    BY <2>1, <2>3 DEF Cover
  <2> QED
    BY <2>4 DEF CoverAll, Lists
<1>3. StartsOf(rva) \subseteq CoverAll(rva)
  BY <1>2 DEF StartsOf
<1>4. ASSUME NEW i \in At(e, Claims), ClaimOf[e[i]] \notin StartsOf(rva)
      PROVE  ClaimOf[e[i]] \in PagesIn(e, Pushes)
  <2>1. PICK j \in At(e, RvaPushes) : e[j].va = ClaimOf[e[i]]
    BY <1>1, <1>4 DEF KnownIn
  <2>2. j \in DOMAIN e /\ e[j] \in Ops /\ e[j].do = "push_rva" /\ j \in 1 .. Len(e)
    BY <1>1, <2>1 DEF At, RvaPushes, KindOf
  <2>3. EntryOk(e[j], reserve)
    BY <1>1, <2>2 DEF Shape
  <2>4. e[j].va \in Int /\ e[j].n \in Int /\ e[j].n >= 1
    BY <2>2, <2>3 DEF EntryOk, Sized, Ops
  <2>5. e[j].va \in Run(e[j].va, e[j].n)
    BY <2>4 DEF Run
  <2>6. j \in At(e, Pushes)
    BY <2>2 DEF At, Pushes, KindOf, PushKinds
  <2> QED
    BY <2>1, <2>5, <2>6 DEF PagesIn
<1> QED
  BY <1>3, <1>4 DEF Claimed, Vals

IsHead(fr, rs) ==
  /\ AllPlain(fr, rs) /\ Sums(fr, {}, {}) /\ (\A X : KnownIn(fr, X))
  /\ fr # <<>> => fr[1].do \notin TopKinds

\* What the stack says once a range has left the free ones.
LEMMA PopStack ==
  ASSUME NEW e, Top(e), Now.do \in {"pop_kmap", "pop_dynamic"}, NEW va, NEW n, NEW y,
         IsCall(y, va, n, Tail(e), reserve), Run(va, n) \subseteq CoverAll(fva), va \in Run(va, n),
         NEW fr, IsHead(fr, reserve), NEW rs2, NoMore(reserve, rs2), NEW f, f = fr \o (y \o Tail(e))
  PROVE  /\ f \in Seq(Ops) /\ Shape(f, rs2) /\ AssignsOwn(f) /\ Matches(f, f, rs2) /\ NotPopping(f)
         /\ Sums(f, Run(va, n) \union PagesIn(e, Pushes), {va} \union Claimed(e))
         /\ KnownIn(f, StartsOf(rva)) /\ SlotsSame(e, y \o Tail(e), {})
<1>1. PICK z : z = y \o Tail(e)
  OBVIOUS
<1>2. /\ y \in Seq(Ops) /\ y # <<>> /\ y[1].do = "push_rva"
      /\ Sums(y, Run(va, n), {va}) /\ (\A k \in Pools : SlotSums(y, k, {})) /\ (\A X : KnownIn(y, X))
      /\ z \in Seq(Ops) /\ Shape(z, reserve) /\ AssignsOwn(z) /\ z # <<>> /\ z[1] = y[1]
  BY <1>1 DEF IsCall
<1>3. z[1].do \notin TopKinds /\ z[1].do \notin PopKinds
  BY <1>2 DEF TopKinds, PopKinds
<1>4. AllPlain(fr, reserve) /\ Sums(fr, {}, {}) /\ (\A X : KnownIn(fr, X)) /\ fr \in Seq(Ops)
      /\ (fr # <<>> => fr[1].do \notin PopKinds)
  BY DEF IsHead, AllPlain, TopKinds, PopKinds
<1>5. Shape(f, reserve) /\ AssignsOwn(f) /\ f \in Seq(Ops)
  BY <1>1, <1>2, <1>3, <1>4, PlainOver
<1>6. Shape(f, rs2)
  BY <1>5, ShapeLess DEF NoMore
<1>7. f # <<>> /\ f[1].do \notin PopKinds
  <2>1. CASE fr = <<>>
    <3>1. f = z
      BY <1>1, <1>2, <2>1
    <3> QED
      BY <1>2, <1>3, <3>1
  <2>2. CASE fr # <<>>
    <3>1. 1 \in 1 .. Len(fr)
      BY <1>4, <2>2
    <3>2. f[1] = fr[1] /\ 1 \in 1 .. Len(f)
      BY <1>1, <1>2, <1>4, <3>1, CatEntries
    <3>3. f # <<>>
      BY <3>2
    <3> QED
      BY <1>4, <2>2, <3>2, <3>3
  <2> QED
    BY <2>1, <2>2
<1>8. Head(f) = f[1]
  BY <1>5, <1>7
<1>9. Matches(f, f, rs2)
  BY <1>5, <1>7, <1>8, PlainMatches
<1>10. NotPopping(f)
  BY <1>7, <1>8 DEF NotPopping, PopKinds
<1>11. /\ Sums(Tail(e), PagesIn(e, Pushes), Claimed(e)) /\ KnownIn(Tail(e), StartsOf(rva)) /\ Tail(e) \in Seq(Ops)
       /\ Now.do \notin Pools
  BY QuietTail, NowQuiet, TopParts
<1>12. Run(va, n) \cap PagesIn(e, Pushes) = {} /\ {va} \cap Claimed(e) = {}
  <2>1. Ranges(fva, rva, e)
    BY TopParts
  <2>2. CoverAll(fva) \cap CoverAll(rva) = {} /\ PagesIn(e, Pushes) \cap CoverAll(fva) = {}
    BY <2>1 DEF Ranges
  <2>3. va \in CoverAll(fva)
    OBVIOUS
  <2> QED
    BY <2>2, <2>3, ClaimsCovered
<1>13. Sums(z, Run(va, n) \union PagesIn(e, Pushes), {va} \union Claimed(e))
  BY <1>1, <1>2, <1>11, <1>12, SumsCat
<1>14. Sums(f, {} \union (Run(va, n) \union PagesIn(e, Pushes)), {} \union ({va} \union Claimed(e)))
  BY <1>1, <1>4, <1>13, SumsCat
<1>15. Sums(f, Run(va, n) \union PagesIn(e, Pushes), {va} \union Claimed(e))
  <2>1. {} \union (Run(va, n) \union PagesIn(e, Pushes)) = Run(va, n) \union PagesIn(e, Pushes)
        /\ {} \union ({va} \union Claimed(e)) = {va} \union Claimed(e)
    OBVIOUS
  <2> QED
    BY <1>14, <2>1
<1>16. KnownIn(f, StartsOf(rva))
  <2>1. KnownIn(z, StartsOf(rva))
    BY <1>1, <1>2, <1>11, KnownCat
  <2> QED
    BY <1>1, <1>2, <1>4, <2>1, KnownCat
<1>17. SlotsSame(e, y \o Tail(e), {})
  BY <1>2, <1>11, PutSame
<1> QED
  BY <1>5, <1>6, <1>9, <1>10, <1>15, <1>16, <1>17

\* What the owners are when a range that is about to be reserved is claimed.
LEMMA PopOwners ==
  ASSUME NEW e, Top(e), NEW va \in CoverAll(fva), NEW P2, NEW rs2,
         OwnersInv(P2, rs2, tablePages, held, rva, e), NEW f, NEW p, Sums(f, p, {va} \union Claimed(e)),
         KnownIn(f, StartsOf(rva))
  PROVE  OwnersInv(P2, rs2, tablePages, held, rva, f)
<1>1. /\ Owned(P2, rs2, tablePages, held) \cap Claimed(e) = {}
      /\ Owned(P2, rs2, tablePages, held) \subseteq StartsOf(rva)
      /\ \A r \in AllOf(rva) : r.permanent => r.start \in 0 .. 2
  BY OwnersParts
<1>2. va \notin StartsOf(rva)
  <2>1. Ranges(fva, rva, e)
    BY TopParts
  <2>2. CoverAll(fva) \cap CoverAll(rva) = {}
    BY <2>1 DEF Ranges
  <2> QED
    BY <2>2, ClaimsCovered
<1>3. ({va} \union Claimed(e)) \cap Owned(P2, rs2, tablePages, held) = {}
  BY <1>1, <1>2
<1> QED
  BY <1>1, <1>3, OwnersMoved

IsFit(l, c, n) ==
  /\ c.i \in 1 .. Len(fva[l]) /\ c.va \in Nat /\ n \in Nat \ {0}
  /\ fva[l][c.i].start <= c.va /\ c.va + n <= End(fva[l][c.i])

\* What is known of the node that a range is taken from, and of its list.
LEMMA PopParts ==
  ASSUME NEW e, Top(e), NEW l \in Lists, NEW c, NEW n, IsFit(l, c, n)
  PROVE  /\ fva[l] \in Seq(HoleNodes) /\ Spaced(fva[l], 1) /\ fva[l][c.i] \in HoleNodes
         /\ fva[l][c.i] \in ToSet(fva[l]) /\ fva[l][c.i].at \in Places
         /\ Run(c.va, n) \subseteq Cover(fva[l]) /\ Run(c.va, n) \subseteq CoverAll(fva)
         /\ Run(c.va, n) \subseteq Area(l) /\ c.va \in Run(c.va, n)
<1>1. Types /\ InOrder(fva, rva) /\ InAreas(fva, rva)
  BY TopParts
<1>2. fva[l] \in Seq(HoleNodes) /\ Spaced(fva[l], 1)
  BY <1>1, ListTypes DEF InOrder
<1>3. PICK s, i, va, r : s = fva[l] /\ i = c.i /\ va = c.va /\ r = s[i]
  OBVIOUS
<1>4. s \in Seq(HoleNodes) /\ i \in 1 .. Len(s) /\ va \in Nat /\ n \in Nat \ {0} /\ r.start <= va /\ va + n <= End(r)
  BY <1>2, <1>3 DEF IsFit
<1>5. r \in HoleNodes /\ r \in ToSet(s)
  BY <1>3, <1>4 DEF ToSet
<1>6. r.at \in Places /\ r.start \in Nat /\ r.size \in Nat
  BY <1>5 DEF HoleNodes
<1>7. Run(va, n) \subseteq PagesOf(r) /\ va \in Run(va, n)
  BY <1>4, <1>6 DEF Run, PagesOf, End
<1>8. Run(va, n) \subseteq Cover(s)
  BY <1>5, <1>7 DEF Cover
<1>9. Cover(s) \subseteq CoverAll(fva) /\ Cover(s) \subseteq Area(l)
  BY <1>1, <1>3 DEF CoverAll, Lists, InAreas
<1> QED
  BY <1>2, <1>3, <1>4, <1>5, <1>6, <1>7, <1>8, <1>9

\* The holes of a list after a range has left one of them.
IsPop(r, va, n, s, u, fresh) ==
  /\ u \in Seq(HoleNodes) /\ Spaced(u, 1) /\ Cover(u) = Cover(s) \ Run(va, n)
  /\ \/ PagesOf(r) = Run(va, n) /\ ToSet(u) = ToSet(s) \ {r} /\ ~TakesMiddle(r, va, n)
     \/ /\ PagesOf(r) # Run(va, n) /\ ~TakesMiddle(r, va, n)
        /\ \E x \in HoleNodes : ToSet(u) = (ToSet(s) \ {r}) \union {x} /\ x.at = r.at
     \/ /\ PagesOf(r) # Run(va, n) /\ TakesMiddle(r, va, n)
        /\ \E x, y \in HoleNodes : ToSet(u) = (ToSet(s) \ {r}) \union {x, y} /\ x.at = r.at /\ y.at = fresh

\* pop_fva on one list.
LEMMA PoppedIs ==
  ASSUME NEW s \in Seq(HoleNodes), Spaced(s, 1), NEW i \in 1 .. Len(s), NEW va \in Nat, NEW n \in Nat \ {0},
         NEW r, r = s[i], r.start <= va, va + n <= End(r), NEW fresh \in Places,
         NEW u, u = ReplaceNode(s, i, Rest(r, va, n, fresh))
  PROVE  IsPop(r, va, n, s, u, fresh)
<1>1. r \in HoleNodes
  OBVIOUS
<1>2. PICK t : t = Rest(r, va, n, fresh)
  OBVIOUS
<1>3. IsRest(t, r, va, n, fresh)
  BY <1>1, <1>2, RestFacts
<1>4. /\ u \in Seq(HoleNodes) /\ Spaced(u, 1) /\ ToSet(u) = (ToSet(s) \ {r}) \union ToSet(t)
      /\ Cover(u) = Cover(s) \ Run(va, n)
  <2>1. CanPop(s, i, va, n, t, fresh)
    BY <1>3 DEF CanPop
  <2>2. Popped(ReplaceNode(s, i, t), s, i, va, n, t)
    BY <2>1, PopFacts
  <2>3. Popped(u, s, i, va, n, t)
    BY <1>2, <2>2
  <2> QED
    BY <2>3 DEF Popped
<1>5. CASE PagesOf(r) = Run(va, n) /\ ToSet(t) = {} /\ ~TakesMiddle(r, va, n)
  BY <1>4, <1>5 DEF IsPop
<1>6. CASE PagesOf(r) # Run(va, n) /\ ~TakesMiddle(r, va, n) /\ \E x \in HoleNodes : ToSet(t) = {x} /\ x.at = r.at
  <2>1. PICK x \in HoleNodes : ToSet(t) = {x} /\ x.at = r.at
    BY <1>6
  <2>2. ToSet(u) = (ToSet(s) \ {r}) \union {x}
    BY <1>4, <2>1
  <2> QED
    BY <1>4, <1>6, <2>1, <2>2 DEF IsPop
<1>7. CASE /\ PagesOf(r) # Run(va, n) /\ TakesMiddle(r, va, n)
           /\ \E x, y \in HoleNodes : ToSet(t) = {x, y} /\ x.at = r.at /\ y.at = fresh
  <2>1. PICK x \in HoleNodes, y \in HoleNodes : ToSet(t) = {x, y} /\ x.at = r.at /\ y.at = fresh
    BY <1>7
  <2>2. ToSet(u) = (ToSet(s) \ {r}) \union {x, y}
    BY <1>4, <2>1
  <2> QED
    BY <1>4, <1>7, <2>1, <2>2 DEF IsPop
<1> QED
  BY <1>3, <1>5, <1>6, <1>7 DEF IsRest

\* A range that ends where its hole does, or starts there, needs no new node.
LEMMA NoNewNode ==
  ASSUME NEW r \in HoleNodes, NEW va \in Nat, NEW n \in Nat \ {0}, r.start <= va, va + n <= End(r),
         ~TakesMiddle(r, va, n), NEW a, NEW b
  PROVE  Rest(r, va, n, a) = Rest(r, va, n, b)
<1>1. r.start \in Nat /\ End(r) \in Nat
  BY DEF HoleNodes, End
<1>2. r.start = va \/ va + n = End(r)
  BY <1>1 DEF TakesMiddle
<1> QED
  BY <1>2 DEF Rest

\* What page of the reserve and what slot the free ranges take.
LEMMA PopTakes ==
  ASSUME NEW e, Top(e), NEW mid \in BOOLEAN, NEW cost, cost = (IF mid THEN Cost("fva") ELSE 0), Lacks(cost) = "none",
         pools' = (IF mid THEN WithNode("fva") ELSE pools), TakePages(cost)
  PROVE  /\ OwnersInv(pools', reserve', tablePages, held, rva, e) /\ NoMore(reserve, reserve') /\ IsPools(pools)
         /\ IsPools(pools') /\ reserve' \in [Indices -> Pages \cup {NoPage}]
         /\ ~mid => pools' = pools /\ reserve' = reserve
         /\ mid => /\ IsTook("fva", Slot("fva"), pools, reserve, pools', reserve') /\ Slot("fva") \in Places
                   /\ FitsPool("fva", Slot("fva"), pools, reserve) /\ Slot("fva") \notin pools["fva"].used
<1>1. "fva" \in Pools /\ Types /\ OwnersInv(pools, reserve, tablePages, held, rva, e)
  BY TopParts DEF Pools
<1>2. CASE mid = TRUE
  <2>1. pools' = WithNode("fva") /\ TakePages(Cost("fva")) /\ Lacks(Cost("fva")) = "none"
    BY <1>2
  <2>2. /\ IsTook("fva", Slot("fva"), pools, reserve, pools', reserve')
        /\ OwnersInv(pools', reserve', tablePages, held, rva, e)
        /\ IsPools(pools) /\ NoMore(reserve, reserve') /\ Slot("fva") \in Places /\ Slot("fva") \notin pools["fva"].used
        /\ FitsPool("fva", Slot("fva"), pools, reserve)
    BY <1>1, <2>1, Taken DEF FitsPool
  <2>3. IsPools(pools') /\ reserve' \in [Indices -> Pages \cup {NoPage}]
    BY <2>2 DEF IsTook
  <2> QED
    BY <1>2, <2>2, <2>3
<1>3. CASE mid = FALSE
  <2>1. pools' = pools /\ TakePages(0)
    BY <1>3
  <2>2. reserve' = reserve
    BY <1>1, <2>1, NoneTaken
  <2>3. IsPools(pools) /\ reserve \in [Indices -> Pages \cup {NoPage}]
    BY <1>1 DEF Types, IsPools
  <2>4. PICK P2, rs2 : P2 = pools' /\ rs2 = reserve'
    OBVIOUS
  <2>5. P2 = pools /\ rs2 = reserve
    BY <2>1, <2>2, <2>4
  <2>6. OwnersInv(P2, rs2, tablePages, held, rva, e) /\ NoMore(reserve, rs2) /\ IsPools(P2)
    BY <1>1, <2>3, <2>5, SameReserve
  <2>7. OwnersInv(pools', reserve', tablePages, held, rva, e) /\ NoMore(reserve, reserve') /\ IsPools(pools')
    BY <2>4, <2>6
  <2>8. reserve' \in [Indices -> Pages \cup {NoPage}]
    BY <2>2, <2>3
  <2> QED
    BY <1>3, <2>1, <2>2, <2>3, <2>7, <2>8
<1> QED
  BY <1>2, <1>3

\* The state after a range has left the free ones, in constants.
IsPopState(F2, u, l, f, fr, whole, r, y, e) ==
  /\ F2 \in [Lists -> Seq(HoleNodes)] /\ F2[l] = u /\ OneList(fva, F2, l)
  /\ f = fr \o (y \o Tail(e))
  /\ fr = (IF whole THEN <<FreeNodeOp("fva", r.at)>> ELSE <<>>)

\* The slots, for each of the ways a hole changes.
LEMMA PopSlots ==
  ASSUME NEW e, Top(e), NEW l \in Lists, NEW va, NEW n, NEW r, NEW s, s = fva[l], r \in ToSet(s), r \in HoleNodes,
         NEW u, NEW fresh, IsPop(r, va, n, s, u, fresh),
         NEW y, SlotsSame(e, y \o Tail(e), {}), NEW F2, NEW f, NEW fr,
         IsPopState(F2, u, l, f, fr, PagesOf(r) = Run(va, n), r, y, e),
         NEW P2, NEW rs2,
         TakesMiddle(r, va, n) => /\ IsTook("fva", fresh, pools, reserve, P2, rs2)
                                  /\ FitsPool("fva", fresh, pools, reserve) /\ fresh \notin pools["fva"].used,
         ~TakesMiddle(r, va, n) => P2 = pools,
         IsPools(pools), y \o Tail(e) \in Seq(Ops)
  PROVE  SlotsInv(P2, F2, rva, f)
<1>1. /\ Types /\ InAreas(fva, rva) /\ Slots(pools, fva, rva, e) /\ NodesApart(fva, rva) /\ "fva" \in Pools
      /\ fva \in [Lists -> Seq(HoleNodes)]
  BY TopParts DEF Pools, Types
<1>2. PlacesApart(AllOf(fva)) /\ PlacesApart(AllOf(rva)) /\ PlacesApart(Recs(AllOf(rva))) /\ RecsApart(AllOf(rva))
  BY <1>1, NodesParts
<1>3. F2[l] = u /\ OneList(fva, F2, l) /\ f = fr \o (y \o Tail(e))
      /\ fr = (IF PagesOf(r) = Run(va, n) THEN <<FreeNodeOp("fva", r.at)>> ELSE <<>>)
  BY DEF IsPopState
<1>4. \A D, N : IsSwap(ToSet(fva[l]), ToSet(F2[l]), D, N) => IsSwap(AllOf(fva), AllOf(F2), D, N)
  BY <1>1, <1>3, TwoListsApart, AllOfChanged
<1>5. ToSet(F2[l]) = ToSet(u) /\ ToSet(fva[l]) = ToSet(s) /\ {r} \subseteq ToSet(s)
  BY <1>3
<1>6. PICK z : z = y \o Tail(e)
  OBVIOUS
<1>7. z \in Seq(Ops) /\ SlotsSame(e, z, {}) /\ f = fr \o z
  BY <1>3, <1>6
<1>8. CASE PagesOf(r) = Run(va, n) /\ ToSet(u) = ToSet(s) \ {r} /\ ~TakesMiddle(r, va, n)
  <2>1. IsSwap(AllOf(fva), AllOf(F2), {r}, {})
    <3>1. IsSwap(ToSet(fva[l]), ToSet(F2[l]), {r}, {})
      BY <1>5, <1>8 DEF IsSwap
    <3> QED
      BY <1>4, <3>1
  <2>2. PlacesApart(AllOf(F2)) /\ PlacesIn(AllOf(F2)) = PlacesIn(AllOf(fva)) \ {r.at} /\ r.at \in PlacesIn(AllOf(fva))
    BY <1>2, <2>1, PlaceGone
  <2>3. NodesApart(F2, rva)
    BY <1>2, <2>2, NodesParts
  <2>4. TakingSame(fva, rva, F2, rva, {"fva"})
    BY TakingIs DEF TakingSame
  <2>5. PICK S : S = {r.at}
    OBVIOUS
  <2>6. S \subseteq Taking("fva", fva, rva) /\ Taking("fva", F2, rva) = Taking("fva", fva, rva) \ S
    BY <2>2, <2>5, TakingIs
  <2>7. r.at \in Places
    BY DEF HoleNodes
  <2>8. fr = <<FreeNodeOp("fva", r.at)>>
    BY <1>3, <1>8
  <2>9. SlotSums(fr, "fva", S) /\ \A m \in Pools : m # "fva" => SlotSums(fr, m, {})
    BY <1>1, <2>5, <2>7, <2>8, OneFreed
  <2>10. SlotSums(z, "fva", OpPlaces(e, "fva")) /\ \A m \in Pools : SlotSums(z, m, OpPlaces(e, m))
    BY <1>1, <1>7 DEF SlotsSame
  <2>11. S \cap OpPlaces(e, "fva") = {}
    BY <1>1, <2>6 DEF Slots, SlotsOf, OpPlaces
  <2>12. SlotSums(f, "fva", S \union OpPlaces(e, "fva"))
    BY <1>7, <2>9, <2>10, <2>11, SlotSumsCat
  <2>13. SlotsSame(e, f, {"fva"})
    <3>1. ASSUME NEW m \in Pools, m # "fva" PROVE SlotSums(f, m, OpPlaces(e, m))
      <4>1. SlotSums(fr, m, {}) /\ SlotSums(z, m, OpPlaces(e, m)) /\ {} \cap OpPlaces(e, m) = {}
        BY <2>9, <2>10, <3>1
      <4>2. SlotSums(f, m, {} \union OpPlaces(e, m))
        BY <1>7, <4>1, SlotSumsCat
      <4>3. {} \union OpPlaces(e, m) = OpPlaces(e, m)
        OBVIOUS
      <4> QED
        BY <4>2, <4>3
    <3> QED
      BY <3>1 DEF SlotsSame
  <2>14. Slots(pools, F2, rva, f)
    BY <1>1, <2>4, <2>6, <2>12, <2>13, SlotsGone
  <2>15. P2 = pools
    BY <1>8
  <2> QED
    BY <2>3, <2>14, <2>15 DEF SlotsInv
<1>9. CASE PagesOf(r) # Run(va, n)
  <2>1. fr = <<>> /\ f = z
    <3>1. fr = <<>>
      BY <1>3, <1>9
    <3>2. \A t \in Seq(Ops) : <<>> \o t = t
      OBVIOUS
    <3> QED
      BY <1>7, <3>1, <3>2
  <2>2. SlotsSame(e, f, {})
    BY <1>7, <2>1
  <2>3. CASE ~TakesMiddle(r, va, n)
    <3>1. PICK x \in HoleNodes : ToSet(u) = (ToSet(s) \ {r}) \union {x} /\ x.at = r.at
      BY <1>9, <2>3 DEF IsPop
    <3>2. IsSwap(AllOf(fva), AllOf(F2), {r}, {x})
      <4>1. IsSwap(ToSet(fva[l]), ToSet(F2[l]), {r}, {x})
        BY <1>5, <3>1 DEF IsSwap
      <4> QED
        BY <1>4, <4>1
    <3>3. PlacesApart(AllOf(F2)) /\ PlacesIn(AllOf(F2)) = PlacesIn(AllOf(fva))
      BY <1>2, <3>1, <3>2, PlaceStays
    <3>4. NodesApart(F2, rva)
      BY <1>2, <3>3, NodesParts
    <3>5. TakingSame(fva, rva, F2, rva, {})
      BY <3>3, TakingIs DEF TakingSame
    <3>6. Slots(pools, F2, rva, f)
      BY <1>1, <2>2, <3>5, SlotsIdle
    <3> QED
      BY <2>3, <3>4, <3>6 DEF SlotsInv
  <2>4. CASE TakesMiddle(r, va, n)
    <3>1. PICK x \in HoleNodes, w \in HoleNodes :
            ToSet(u) = (ToSet(s) \ {r}) \union {x, w} /\ x.at = r.at /\ w.at = fresh
      BY <1>9, <2>4 DEF IsPop
    <3>2. IsSwap(AllOf(fva), AllOf(F2), {r}, {x, w})
      <4>1. IsSwap(ToSet(fva[l]), ToSet(F2[l]), {r}, {x, w})
        BY <1>5, <3>1 DEF IsSwap
      <4> QED
        BY <1>4, <4>1
    <3>3. /\ IsTook("fva", fresh, pools, reserve, P2, rs2)
          /\ FitsPool("fva", fresh, pools, reserve) /\ fresh \notin pools["fva"].used
      BY <2>4
    <3>4. w.at \notin PlacesIn(AllOf(fva))
      <4>1. fresh \notin Taking("fva", fva, rva)
        BY <1>1, <3>3, SlotIsNew
      <4> QED
        BY <3>1, <4>1, TakingIs
    <3>5. PlacesApart(AllOf(F2)) /\ PlacesIn(AllOf(F2)) = PlacesIn(AllOf(fva)) \union {w.at}
      <4>1. PICK A, A2 : A = AllOf(fva) /\ A2 = AllOf(F2)
        OBVIOUS
      <4>2. IsSplit(A, A2, r, x, w) /\ PlacesApart(A) /\ w.at \notin PlacesIn(A)
        BY <1>2, <3>1, <3>2, <3>4, <4>1 DEF IsSplit
      <4>3. PlacesApart(A2) /\ PlacesIn(A2) = PlacesIn(A) \union {w.at}
        BY <4>2, PlaceSplit
      <4> QED
        BY <4>1, <4>3
    <3>6. NodesApart(F2, rva)
      BY <1>2, <3>5, NodesParts
    <3>7. TakingSame(fva, rva, F2, rva, {"fva"})
      BY TakingIs DEF TakingSame
    <3>8. Taking("fva", F2, rva) = Taking("fva", fva, rva) \union {fresh}
      BY <3>1, <3>5, TakingIs
    <3>9. Slots(P2, F2, rva, f)
      BY <1>1, <2>2, <3>3, <3>7, <3>8, SlotsTook
    <3> QED
      BY <3>6, <3>9 DEF SlotsInv
  <2> QED
    BY <2>3, <2>4
<1> QED
  BY <1>8, <1>9 DEF IsPop

\* pop_fva, whatever comes after it.
LEMMA StepPop ==
  ASSUME ListInv, NEW e, Top(e), Now.do \in {"pop_kmap", "pop_dynamic"}, NEW l \in Lists, NEW c, NEW n, IsFit(l, c, n),
         NEW ops \in Seq(Ops), Tail(todo) \in Seq(Ops), NEW y, ops \o Tail(todo) = y \o Tail(e),
         IsCall(y, c.va, n, Tail(e), reserve), Pop(l, c, n, ops)
  PROVE  ListInv'
<1>1. PICK s, i, va, r : s = fva[l] /\ i = c.i /\ va = c.va /\ r = s[i]
  OBVIOUS
<1>2. PICK mid \in BOOLEAN : mid = TakesMiddle(r, va, n)
  BY DEF TakesMiddle
<1>3. PICK cost : cost = (IF mid THEN Cost("fva") ELSE 0)
  OBVIOUS
<1>4. PICK fr : fr = (IF PagesOf(r) = Run(va, n) THEN <<FreeNodeOp("fva", r.at)>> ELSE <<>>)
  OBVIOUS
<1>5. CASE Lacks(cost) # "none"
  <2>1. Lacks(cost) = "reserve"
    BY <1>5, LacksCase
  <2>2. Panic("reserve")
    BY <1>1, <1>2, <1>3, <1>5, <2>1 DEF Pop
  <2> QED
    BY <2>2, PanicStep
<1>6. CASE Lacks(cost) = "none"
  <2>1. /\ fva' = [fva EXCEPT ![l] = ReplaceNode(fva[l], i, Rest(r, va, n, Slot("fva")))]
        /\ pools' = (IF mid THEN WithNode("fva") ELSE pools)
        /\ TakePages(cost)
        /\ todo' = (fr \o ops) \o Tail(todo)
        /\ rva' = rva /\ lent' = lent /\ pt' = pt /\ tablePages' = tablePages /\ held' = held /\ panic' = panic
    BY <1>1, <1>2, <1>3, <1>4, <1>6 DEF Pop, Then, memory
  <2>2. /\ OwnersInv(pools', reserve', tablePages, held, rva, e) /\ NoMore(reserve, reserve') /\ IsPools(pools)
        /\ IsPools(pools') /\ reserve' \in [Indices -> Pages \cup {NoPage}]
        /\ ~mid => pools' = pools /\ reserve' = reserve
        /\ mid => /\ IsTook("fva", Slot("fva"), pools, reserve, pools', reserve') /\ Slot("fva") \in Places
                  /\ FitsPool("fva", Slot("fva"), pools, reserve) /\ Slot("fva") \notin pools["fva"].used
    BY <1>3, <1>6, <2>1, PopTakes
  <2>3. PICK P2, rs2, F2 : P2 = pools' /\ rs2 = reserve' /\ F2 = fva'
    OBVIOUS
  <2>4. /\ s \in Seq(HoleNodes) /\ Spaced(s, 1) /\ r \in HoleNodes /\ r \in ToSet(s) /\ r.at \in Places
        /\ Run(va, n) \subseteq Cover(s) /\ Run(va, n) \subseteq CoverAll(fva) /\ va \in Run(va, n)
        /\ i \in 1 .. Len(s) /\ va \in Nat /\ n \in Nat \ {0} /\ r.start <= va /\ va + n <= End(r)
    <3>1. /\ fva[l] \in Seq(HoleNodes) /\ Spaced(fva[l], 1) /\ fva[l][c.i] \in HoleNodes
          /\ fva[l][c.i] \in ToSet(fva[l]) /\ fva[l][c.i].at \in Places
          /\ Run(c.va, n) \subseteq Cover(fva[l]) /\ Run(c.va, n) \subseteq CoverAll(fva)
          /\ c.va \in Run(c.va, n)
      BY PopParts
    <3> QED
      BY <1>1, <3>1 DEF IsFit
  <2>5. PICK fresh : fresh = (IF mid THEN Slot("fva") ELSE r.at)
    OBVIOUS
  <2>6. fresh \in Places
    BY <2>2, <2>4, <2>5
  <2>7. Rest(r, va, n, Slot("fva")) = Rest(r, va, n, fresh)
    <3>1. CASE mid = TRUE
      BY <2>5, <3>1
    <3>2. CASE mid = FALSE
      BY <1>2, <2>4, <3>2, NoNewNode
    <3> QED
      BY <3>1, <3>2
  <2>8. PICK u : u = ReplaceNode(s, i, Rest(r, va, n, fresh))
    OBVIOUS
  <2>9. IsPop(r, va, n, s, u, fresh)
    BY <1>1, <2>4, <2>6, <2>8, PoppedIs
  <2>10. u \in Seq(HoleNodes) /\ Spaced(u, 1) /\ Cover(u) = Cover(s) \ Run(va, n)
    BY <2>9 DEF IsPop
  <2>11. F2 \in [Lists -> Seq(HoleNodes)] /\ F2[l] = u /\ OneList(fva, F2, l)
    <3>1. F2 = [fva EXCEPT ![l] = u]
      BY <1>1, <2>1, <2>3, <2>7, <2>8
    <3>2. fva \in [Lists -> Seq(HoleNodes)]
      BY TopParts DEF Types
    <3> QED
      BY <2>10, <3>1, <3>2, ListChanged
  <2>12. IsHead(fr, reserve)
    <3>1. CASE PagesOf(r) = Run(va, n)
      <4>1. "fva" \in Pools /\ fr = <<FreeNodeOp("fva", r.at)>>
        BY <1>4, <3>1 DEF Pools
      <4>2. AllPlain(fr, reserve) /\ Sums(fr, {}, {}) /\ (\A X : KnownIn(fr, X))
        BY <2>4, <4>1, OneFreed
      <4>3. fr[1].do = "fva"
        BY <2>4, <4>1, FreeNodeIs
      <4> QED
        BY <4>2, <4>3 DEF IsHead, TopKinds
    <3>2. CASE PagesOf(r) # Run(va, n)
      <4>1. fr = <<>>
        BY <1>4, <3>2
      <4>2. AllPlain(<<>>, reserve) /\ Sums(<<>>, {}, {}) /\ \A X : KnownIn(<<>>, X)
        BY NoPlain, NoneSilent DEF Silent
      <4> QED
        BY <4>1, <4>2 DEF IsHead
    <3> QED
      BY <3>1, <3>2
  <2>13. PICK f : f = fr \o (y \o Tail(e))
    OBVIOUS
  <2>14. IsCall(y, va, n, Tail(e), reserve) /\ NoMore(reserve, rs2)
    BY <1>1, <2>2, <2>3
  <2>15. /\ f \in Seq(Ops) /\ Shape(f, rs2) /\ AssignsOwn(f) /\ Matches(f, f, rs2) /\ NotPopping(f)
         /\ Sums(f, Run(va, n) \union PagesIn(e, Pushes), {va} \union Claimed(e))
         /\ KnownIn(f, StartsOf(rva)) /\ SlotsSame(e, y \o Tail(e), {})
    BY <2>4, <2>12, <2>13, <2>14, PopStack
  <2>16. todo' = f
    <3>1. \A a \in Seq(Ops) : (fr \o ops) \o a = fr \o (ops \o a)
      <4>1. fr \in Seq(Ops)
        BY <2>12 DEF IsHead, AllPlain
      <4> QED
        BY <4>1, Regrouped
    <3> QED
      BY <2>1, <2>13, <3>1
  <2>17. ListsInv(F2, rva, f)
    <3>1. Spaced(F2[l], 1) /\ Cover(F2[l]) = Cover(fva[l]) \ Run(va, n) /\ Run(va, n) \subseteq Cover(fva[l])
      BY <1>1, <2>4, <2>10, <2>11
    <3>2. ListsInv(fva, rva, e)
      BY TopParts
    <3> QED
      BY <2>11, <2>15, <3>1, <3>2, ListsPop
  <2>18. OwnersInv(P2, rs2, tablePages, held, rva, f)
    <3>1. OwnersInv(P2, rs2, tablePages, held, rva, e)
      BY <2>2, <2>3
    <3>2. va \in CoverAll(fva)
      BY <2>4
    <3> QED
      BY <2>15, <3>1, <3>2, PopOwners
  <2>19. SlotsInv(P2, F2, rva, f)
    <3>1. IsPopState(F2, u, l, f, fr, PagesOf(r) = Run(va, n), r, y, e)
      BY <1>4, <2>11, <2>13 DEF IsPopState
    <3>2. TakesMiddle(r, va, n) => /\ IsTook("fva", fresh, pools, reserve, P2, rs2)
                                   /\ FitsPool("fva", fresh, pools, reserve) /\ fresh \notin pools["fva"].used
      BY <1>2, <2>2, <2>3, <2>5
    <3>3. ~TakesMiddle(r, va, n) => P2 = pools
      BY <1>2, <2>2, <2>3
    <3>4. y \o Tail(e) \in Seq(Ops)
      BY <2>14 DEF IsCall
    <3>5. /\ s = fva[l] /\ r \in ToSet(s) /\ r \in HoleNodes /\ IsPop(r, va, n, s, u, fresh)
          /\ SlotsSame(e, y \o Tail(e), {}) /\ IsPools(pools)
      BY <1>1, <2>2, <2>4, <2>9, <2>15
    <3> QED
      BY <3>1, <3>2, <3>3, <3>4, <3>5, PopSlots
  <2>20. Types'
    <3>1. Types
      BY TopParts
    <3> QED
      BY <2>1, <2>2, <2>3, <2>11, <3>1 DEF Types, IsPools
  <2>21. panic' \notin {"null", "assert", "permanent"}
    BY <2>1 DEF ListInv, NoFalseAlarm
  <2>22. /\ Matches(todo', f, reserve') /\ Shape(f, reserve')
         /\ ListsInv(fva', rva', f) /\ OwnersInv(pools', reserve', tablePages', held', rva', f)
         /\ SlotsInv(pools', fva', rva', f)
    <3>1. PICK t, R2 : t = todo' /\ R2 = rva'
      OBVIOUS
    <3>2. Matches(t, f, rs2) /\ ListsInv(F2, R2, f) /\ OwnersInv(P2, rs2, tablePages, held, R2, f) /\ SlotsInv(P2, F2, R2, f)
      BY <2>1, <2>15, <2>16, <2>17, <2>18, <2>19, <3>1
    <3>3. PICK T2, H2 : T2 = tablePages' /\ H2 = held'
      OBVIOUS
    <3>4. OwnersInv(P2, rs2, T2, H2, R2, f)
      BY <2>1, <3>2, <3>3
    <3> QED
      BY <2>3, <2>15, <3>1, <3>2, <3>3, <3>4
  <2> QED
    BY <2>15, <2>20, <2>21, <2>22, Concluded
<1> QED
  BY <1>5, <1>6

\* pop_fva of the pages lent for the linear map.
LEMMA StepPopKmap ==
  ASSUME ListInv, PopKmap
  PROVE  ListInv'
<1>1. todo # <<>> /\ Now.do = "pop_kmap"
  BY DEF PopKmap, Doing, Now
<1>2. PICK e \in Seq(Ops), x \in Seq(Ops) : Top(e) /\ HiddenBy(Head(e), Tail(e), reserve, x) /\ Tail(todo) = x \o Tail(e)
  BY <1>1, TopFacts
<1>3. /\ Types /\ Shape(e, reserve) /\ Head(e) = Now /\ e # <<>> /\ Tail(e) \in Seq(Ops) /\ Now \in Ops /\ EntryOk(Now, reserve)
  BY <1>2, TopParts
<1>4. PICK va, n : va = Now.va /\ n = Now.n
  OBVIOUS
<1>5. n \in Nat \ {0}
  <2>1. n \in Int /\ n >= 1
    BY <1>1, <1>3, <1>4 DEF EntryOk, Sized, Ops
  <2> QED
    BY <2>1
<1>6. IsCall(x, va, n, Tail(e), reserve)
  <2>1. /\ va \in Pages /\ Run(va, n) \subseteq Pages
        /\ \/ Tail(e) = <<>> /\ x = AskTail(va, n)
           \/ /\ n = 1 /\ Tail(e) # <<>> /\ Head(Tail(e)).do = "return"
              /\ \E i \in Indices : reserve[i] = NoPage /\ x = KeepTail(va, i)
    BY <1>1, <1>2, <1>3, <1>4 DEF HiddenBy, PopKinds
  <2>2. CASE Tail(e) = <<>> /\ x = AskTail(va, n)
    <3>1. IsCall(AskTail(va, n), va, n, <<>>, reserve)
      BY <1>5, <2>1, AskIsCall
    <3> QED
      BY <2>2, <3>1
  <2>3. CASE /\ n = 1 /\ Tail(e) # <<>> /\ Head(Tail(e)).do = "return"
             /\ \E i \in Indices : reserve[i] = NoPage /\ x = KeepTail(va, i)
    <3>1. PICK i \in Indices : reserve[i] = NoPage /\ x = KeepTail(va, i)
      BY <2>3
    <3>2. Shape(Tail(e), reserve) /\ AssignsOwn(Tail(e))
      BY <1>2, TailTop, SameReserve
    <3>3. PICK rest : rest = Tail(e)
      OBVIOUS
    <3>4. IsCall(KeepTail(va, i), va, 1, rest, reserve)
      BY <1>3, <2>1, <2>3, <3>1, <3>2, <3>3, KeepIsCall
    <3> QED
      BY <2>3, <3>1, <3>3, <3>4
  <2> QED
    BY <2>1, <2>2, <2>3
<1>7. CASE ExactFit(fva["kmap"], va, n) = {}
  <2>1. Panic("va")
    BY <1>4, <1>7 DEF PopKmap
  <2> QED
    BY <2>1, PanicStep
<1>8. CASE ExactFit(fva["kmap"], va, n) # {}
  <2>1. PICK c \in ExactFit(fva["kmap"], va, n) : Pop("kmap", c, n, <<>>)
    BY <1>4, <1>8 DEF PopKmap
  <2>2. "kmap" \in Lists
    BY DEF Lists
  <2>3. PICK s : s = fva["kmap"]
    OBVIOUS
  <2>4. s \in Seq(HoleNodes)
    BY <1>3, <2>2, <2>3, ListTypes
  <2>5. c.i \in 1 .. Len(s) /\ c.va = va /\ s[c.i].start <= c.va /\ c.va + n <= End(s[c.i])
    BY <2>1, <2>3, <2>4, ExactIs
  <2>6. va \in Nat
    BY <1>1, <1>2, <1>3, <1>4 DEF HiddenBy, PopKinds, Pages
  <2>7. IsFit("kmap", c, n)
    BY <1>5, <2>3, <2>5, <2>6 DEF IsFit
  <2>8. PICK ops \in Seq(Ops) : ops = <<>>
    <3>1. <<>> \in Seq(Ops)
      BY NoEntry
    <3> QED
      BY <3>1
  <2>9. Tail(todo) \in Seq(Ops) /\ ops \o Tail(todo) = x \o Tail(e)
    <3>1. x \o Tail(e) \in Seq(Ops)
      BY <1>6 DEF IsCall
    <3>2. \A t \in Seq(Ops) : <<>> \o t = t
      OBVIOUS
    <3> QED
      BY <1>2, <2>8, <3>1, <3>2
  <2>10. IsCall(x, c.va, n, Tail(e), reserve) /\ Pop("kmap", c, n, ops)
    BY <1>6, <2>1, <2>5, <2>8
  <2> QED
    BY <1>1, <1>2, <2>2, <2>7, <2>9, <2>10, StepPop
<1> QED
  BY <1>7, <1>8

\* pop_fva of the first hole of the dynamic area that is large enough.
LEMMA StepPopDynamic ==
  ASSUME ListInv, PopDynamic
  PROVE  ListInv'
<1>1. todo # <<>> /\ Now.do = "pop_dynamic"
  BY DEF PopDynamic, Doing, Now
<1>2. PICK e \in Seq(Ops) : Top(e) /\ Tail(todo) = Tail(e)
  BY <1>1, PlainTop DEF PopKinds
<1>3. /\ Types /\ Shape(e, reserve) /\ Head(e) = Now /\ e # <<>> /\ Now \in Ops /\ EntryOk(Now, reserve)
  BY <1>2, TopParts
<1>4. PICK n : n = Now.n
  OBVIOUS
<1>5. n \in Nat \ {0} /\ Tail(e) = <<>>
  <2>1. n \in Int /\ n >= 1
    BY <1>1, <1>3, <1>4 DEF EntryOk, Sized, Ops
  <2>2. Tail(e) = <<>>
    BY <1>1, <1>3, LastTwo
  <2> QED
    BY <2>1, <2>2
<1>6. CASE FirstFit(fva["dynamic"], n) = {}
  <2>1. Panic("va")
    BY <1>4, <1>6 DEF PopDynamic
  <2> QED
    BY <2>1, PanicStep
<1>7. CASE FirstFit(fva["dynamic"], n) # {}
  <2>1. PICK c \in FirstFit(fva["dynamic"], n) : Pop("dynamic", c, n, DynTail(c.va, n))
    BY <1>4, <1>7 DEF PopDynamic, DynTail
  <2>2. "dynamic" \in Lists
    BY DEF Lists
  <2>3. PICK s : s = fva["dynamic"]
    OBVIOUS
  <2>4. s \in Seq(HoleNodes)
    BY <1>3, <2>2, <2>3, ListTypes
  <2>5. c.i \in 1 .. Len(s) /\ c.va \in Nat /\ s[c.i].start <= c.va /\ c.va + n <= End(s[c.i])
    BY <1>5, <2>1, <2>3, <2>4, FirstIs
  <2>6. IsFit("dynamic", c, n)
    BY <1>5, <2>3, <2>5 DEF IsFit
  <2>7. Run(c.va, n) \subseteq Area("dynamic") /\ c.va \in Run(c.va, n)
    BY <1>2, <2>2, <2>6, PopParts
  <2>8. PICK va, y : va = c.va /\ y = DynTail(va, n)
    OBVIOUS
  <2>9. va \in Area("dynamic") /\ Run(va, n) \subseteq Area("dynamic")
    BY <2>7, <2>8
  <2>10. IsCall(DynTail(va, n), va, n, <<>>, reserve)
    BY <1>5, <2>9, DynIsCall
  <2>11. IsCall(y, c.va, n, Tail(e), reserve)
    BY <1>5, <2>8, <2>10
  <2>12. y \in Seq(Ops) /\ Tail(todo) \in Seq(Ops) /\ y \o Tail(todo) = y \o Tail(e)
    <3>1. y \in Seq(Ops)
      BY <2>11 DEF IsCall
    <3>2. <<>> \in Seq(Ops)
      OBVIOUS
    <3> QED
      BY <1>2, <1>5, <3>1, <3>2
  <2>13. Pop("dynamic", c, n, y)
    BY <2>1, <2>8
  <2> QED
    BY <1>1, <1>2, <2>2, <2>6, <2>11, <2>12, <2>13, StepPop
<1> QED
  BY <1>6, <1>7

-----------------------------------------------------------------------------
(* push_fva. *)

Joins(s, va, n) == JoinsPrev(s, va) \/ JoinsNext(s, va, n)
Merges(s, va, n) == JoinsPrev(s, va) /\ JoinsNext(s, va, n)

\* A range that joins another needs no node of its own.
LEMMA NoFreshNode ==
  ASSUME NEW s, NEW va, NEW n, Joins(s, va, n), NEW a, NEW b
  PROVE  Pushed(s, va, n, a) = Pushed(s, va, n, b)
BY DEF Joins, Pushed

\* What the stack says once a range that was to be free is.
LEMMA PushStack ==
  ASSUME NEW e, Top(e), Now.do = "push_fva", NEW va, va = Now.va, NEW n, n = Now.n,
         NEW fr, IsHead(fr, reserve), NEW rs2, NoMore(reserve, rs2), NEW f, f = fr \o Tail(e)
  PROVE  /\ f \in Seq(Ops) /\ Shape(f, rs2) /\ AssignsOwn(f) /\ Matches(f, f, rs2) /\ NotPopping(f)
         /\ Sums(f, PagesIn(e, Pushes) \ Run(va, n), Claimed(e)) /\ Run(va, n) \subseteq PagesIn(e, Pushes)
         /\ KnownIn(f, StartsOf(rva))
<1>1. AllPlain(fr, reserve) /\ Sums(fr, {}, {}) /\ (\A X : KnownIn(fr, X)) /\ fr \in Seq(Ops)
      /\ (fr # <<>> => fr[1].do \notin PopKinds)
  BY DEF IsHead, AllPlain, TopKinds, PopKinds
<1>2. f \in Seq(Ops) /\ Shape(f, rs2) /\ AssignsOwn(f) /\ Matches(f, f, rs2) /\ NotPopping(f)
  BY <1>1, PlainTopNext
<1>3. Head(e) = Now /\ Now \in Ops /\ e # <<>> /\ e \in Seq(Ops) /\ KnownIn(e, StartsOf(rva)) /\ Tail(e) \in Seq(Ops)
  BY TopParts
<1>4. HeadPages(Now) = Run(va, n) /\ HeadClaim(Now) = {}
  BY DEF HeadPages, HeadClaim, PushKinds, ClaimKinds
<1>5. Sums(Tail(e), PagesIn(e, Pushes) \ Run(va, n), Claimed(e)) /\ Run(va, n) \subseteq PagesIn(e, Pushes)
  <2>1. Claimed(e) \ {} = Claimed(e)
    OBVIOUS
  <2> QED
    BY <1>4, <2>1, TailSays
<1>6. Sums(f, PagesIn(e, Pushes) \ Run(va, n), Claimed(e))
  <2>1. PICK p : p = PagesIn(e, Pushes) \ Run(va, n)
    OBVIOUS
  <2>2. Sums(f, {} \union p, {} \union Claimed(e))
    <3>1. {} \cap p = {} /\ {} \cap Claimed(e) = {}
      OBVIOUS
    <3> QED
      BY <1>1, <1>5, <2>1, <3>1, SumsCat
  <2>3. {} \union p = p /\ {} \union Claimed(e) = Claimed(e)
    OBVIOUS
  <2> QED
    BY <2>1, <2>2, <2>3
<1>7. KnownIn(f, StartsOf(rva))
  <2>1. Head(e) \notin RvaPushes
    BY <1>3, KindSets
  <2>2. KnownIn(Tail(e), StartsOf(rva))
    BY <1>3, <2>1, KnownTail
  <2> QED
    BY <1>1, <1>3, <2>2, KnownCat
<1> QED
  BY <1>2, <1>5, <1>6, <1>7

IsPushState(F2, u, l, f, fr, merges, q, e) ==
  /\ F2 \in [Lists -> Seq(HoleNodes)] /\ F2[l] = u /\ OneList(fva, F2, l)
  /\ f = fr \o Tail(e)
  /\ fr = (IF merges THEN <<FreeNodeOp("fva", q.at)>> ELSE <<>>)

IsThere(s, q, l, va) == s = fva[l] /\ q = s[Place(s, va)]
\* The slots, for each of the ways a range is put back.
LEMMA PushSlots ==
  ASSUME NEW e, Top(e), Now.do = "push_fva", NEW l \in Lists, NEW va, NEW n, NEW s, NEW q, IsThere(s, q, l, va),
         NEW u, NEW hole, IsPushed(u, s, va, n, hole),
         NEW F2, NEW f, NEW fr, IsPushState(F2, u, l, f, fr, Merges(s, va, n), q, e),
         NEW P2, NEW rs2, NEW fresh, hole.at = fresh,
         ~Joins(s, va, n) => /\ IsTook("fva", fresh, pools, reserve, P2, rs2)
                             /\ FitsPool("fva", fresh, pools, reserve) /\ fresh \notin pools["fva"].used,
         Joins(s, va, n) => P2 = pools,
         IsPools(pools)
  PROVE  SlotsInv(P2, F2, rva, f)
<1>1. /\ Types /\ InAreas(fva, rva) /\ Slots(pools, fva, rva, e) /\ NodesApart(fva, rva) /\ "fva" \in Pools
      /\ fva \in [Lists -> Seq(HoleNodes)] /\ Tail(e) \in Seq(Ops)
  BY TopParts DEF Pools, Types
<1>2. PlacesApart(AllOf(fva)) /\ PlacesApart(AllOf(rva)) /\ PlacesApart(Recs(AllOf(rva))) /\ RecsApart(AllOf(rva))
  BY <1>1, NodesParts
<1>3. F2[l] = u /\ OneList(fva, F2, l) /\ f = fr \o Tail(e)
      /\ fr = (IF Merges(s, va, n) THEN <<FreeNodeOp("fva", q.at)>> ELSE <<>>)
  BY DEF IsPushState
<1>14. s = fva[l] /\ q = s[Place(s, va)]
  BY DEF IsThere
<1>4. \A D, N : IsSwap(ToSet(fva[l]), ToSet(F2[l]), D, N) => IsSwap(AllOf(fva), AllOf(F2), D, N)
  BY <1>1, <1>3, TwoListsApart, AllOfChanged
<1>5. ToSet(F2[l]) = ToSet(u) /\ ToSet(fva[l]) = ToSet(s)
  BY <1>3, <1>14
<1>6. PICK z : z = Tail(e)
  OBVIOUS
<1>7. z \in Seq(Ops) /\ SlotsSame(e, z, {}) /\ f = fr \o z
  <2>1. SlotsSame(e, Tail(e), {})
    BY TailSame DEF Pools
  <2> QED
    BY <1>1, <1>3, <1>6, <2>1
<1>8. ToSet(s) \subseteq HoleNodes
  BY <1>1, <1>14, ListTypes
<1>9. CASE Merges(s, va, n)
  <2>1. PICK p \in ToSet(s), x \in HoleNodes :
          q \in ToSet(s) /\ p # q /\ x.at = p.at /\ ToSet(u) = (ToSet(s) \ {p, q}) \union {x}
    <3>1. \E p, t \in ToSet(s), x \in HoleNodes :
             /\ t = s[Place(s, va)] /\ p # t /\ x.at = p.at
             /\ ToSet(u) = (ToSet(s) \ {p, t}) \union {x}
      BY <1>9 DEF IsPushed, Merges
    <3>2. PICK p \in ToSet(s), t \in ToSet(s), x \in HoleNodes :
             /\ t = s[Place(s, va)] /\ p # t /\ x.at = p.at
             /\ ToSet(u) = (ToSet(s) \ {p, t}) \union {x}
      BY <3>1
    <3>3. t = q
      BY <1>14, <3>2
    <3> QED
      BY <3>2, <3>3
  <2>2. IsMerge(AllOf(fva), AllOf(F2), p, q, x)
    <3>1. IsSwap(ToSet(fva[l]), ToSet(F2[l]), {p, q}, {x})
      BY <1>5, <2>1 DEF IsSwap
    <3>2. IsSwap(AllOf(fva), AllOf(F2), {p, q}, {x})
      BY <1>4, <3>1
    <3> QED
      BY <2>1, <3>2 DEF IsMerge
  <2>3. PlacesApart(AllOf(F2)) /\ PlacesIn(AllOf(F2)) = PlacesIn(AllOf(fva)) \ {q.at} /\ q.at \in PlacesIn(AllOf(fva))
    BY <1>2, <2>2, PlaceMerged
  <2>4. NodesApart(F2, rva)
    BY <1>2, <2>3, NodesParts
  <2>5. TakingSame(fva, rva, F2, rva, {"fva"})
    BY TakingIs DEF TakingSame
  <2>6. PICK S : S = {q.at}
    OBVIOUS
  <2>7. S \subseteq Taking("fva", fva, rva) /\ Taking("fva", F2, rva) = Taking("fva", fva, rva) \ S
    BY <2>3, <2>6, TakingIs
  <2>8. q.at \in Places
    BY <1>8, <2>1 DEF HoleNodes
  <2>9. fr = <<FreeNodeOp("fva", q.at)>>
    BY <1>3, <1>9
  <2>10. SlotSums(fr, "fva", S) /\ \A m \in Pools : m # "fva" => SlotSums(fr, m, {})
    BY <1>1, <2>6, <2>8, <2>9, OneFreed
  <2>11. SlotSums(z, "fva", OpPlaces(e, "fva")) /\ \A m \in Pools : SlotSums(z, m, OpPlaces(e, m))
    BY <1>1, <1>7 DEF SlotsSame
  <2>12. S \cap OpPlaces(e, "fva") = {}
    BY <1>1, <2>7 DEF Slots, SlotsOf, OpPlaces
  <2>13. SlotSums(f, "fva", S \union OpPlaces(e, "fva"))
    BY <1>7, <2>10, <2>11, <2>12, SlotSumsCat
  <2>14. SlotsSame(e, f, {"fva"})
    <3>1. ASSUME NEW m \in Pools, m # "fva" PROVE SlotSums(f, m, OpPlaces(e, m))
      <4>1. SlotSums(fr, m, {}) /\ SlotSums(z, m, OpPlaces(e, m)) /\ {} \cap OpPlaces(e, m) = {}
        BY <2>10, <2>11, <3>1
      <4>2. SlotSums(f, m, {} \union OpPlaces(e, m))
        BY <1>7, <4>1, SlotSumsCat
      <4>3. {} \union OpPlaces(e, m) = OpPlaces(e, m)
        OBVIOUS
      <4> QED
        BY <4>2, <4>3
    <3> QED
      BY <3>1 DEF SlotsSame
  <2>15. Slots(pools, F2, rva, f)
    BY <1>1, <2>5, <2>7, <2>13, <2>14, SlotsGone
  <2>16. P2 = pools
    BY <1>9 DEF Joins, Merges
  <2> QED
    BY <2>4, <2>15, <2>16 DEF SlotsInv
<1>10. CASE ~Merges(s, va, n)
  <2>1. f = z
    <3>1. fr = <<>>
      BY <1>3, <1>10
    <3>2. \A t \in Seq(Ops) : <<>> \o t = t
      OBVIOUS
    <3> QED
      BY <1>7, <3>1, <3>2
  <2>2. SlotsSame(e, f, {})
    BY <1>7, <2>1
  <2>3. CASE Joins(s, va, n)
    <3>1. PICK p \in ToSet(s), x \in HoleNodes : x.at = p.at /\ ToSet(u) = (ToSet(s) \ {p}) \union {x}
      BY <1>10, <2>3 DEF IsPushed, Joins, Merges
    <3>2. IsSwap(AllOf(fva), AllOf(F2), {p}, {x})
      <4>1. IsSwap(ToSet(fva[l]), ToSet(F2[l]), {p}, {x})
        BY <1>5, <3>1 DEF IsSwap
      <4> QED
        BY <1>4, <4>1
    <3>3. PlacesApart(AllOf(F2)) /\ PlacesIn(AllOf(F2)) = PlacesIn(AllOf(fva))
      BY <1>2, <3>1, <3>2, PlaceStays
    <3>4. NodesApart(F2, rva)
      BY <1>2, <3>3, NodesParts
    <3>5. TakingSame(fva, rva, F2, rva, {})
      BY <3>3, TakingIs DEF TakingSame
    <3>6. Slots(pools, F2, rva, f)
      BY <1>1, <2>2, <3>5, SlotsIdle
    <3> QED
      BY <2>3, <3>4, <3>6 DEF SlotsInv
  <2>4. CASE ~Joins(s, va, n)
    <3>1. ToSet(u) = ToSet(s) \union {hole}
      BY <2>4 DEF IsPushed, Joins
    <3>2. IsSwap(AllOf(fva), AllOf(F2), {}, {hole})
      <4>1. IsSwap(ToSet(fva[l]), ToSet(F2[l]), {}, {hole})
        BY <1>5, <3>1 DEF IsSwap
      <4> QED
        BY <1>4, <4>1
    <3>3. /\ IsTook("fva", fresh, pools, reserve, P2, rs2)
          /\ FitsPool("fva", fresh, pools, reserve) /\ fresh \notin pools["fva"].used
      BY <2>4
    <3>4. hole.at \notin PlacesIn(AllOf(fva))
      <4>1. fresh \notin Taking("fva", fva, rva)
        BY <1>1, <3>3, SlotIsNew
      <4> QED
        BY <4>1, TakingIs
    <3>5. PlacesApart(AllOf(F2)) /\ PlacesIn(AllOf(F2)) = PlacesIn(AllOf(fva)) \union {hole.at}
      BY <1>2, <3>2, <3>4, PlaceAdded
    <3>6. NodesApart(F2, rva)
      BY <1>2, <3>5, NodesParts
    <3>7. TakingSame(fva, rva, F2, rva, {"fva"})
      BY TakingIs DEF TakingSame
    <3>8. Taking("fva", F2, rva) = Taking("fva", fva, rva) \union {fresh}
      BY <3>5, TakingIs
    <3>9. Slots(P2, F2, rva, f)
      BY <1>1, <2>2, <3>3, <3>7, <3>8, SlotsTook
    <3> QED
      BY <3>6, <3>9 DEF SlotsInv
  <2> QED
    BY <2>3, <2>4
<1> QED
  BY <1>9, <1>10

\* push_fva: a free range joins the holes it touches.
LEMMA StepPushFva ==
  ASSUME ListInv, PushFva
  PROVE  ListInv'
<1>1. todo # <<>> /\ Now.do = "push_fva"
  BY DEF PushFva, Doing, Now
<1>2. PICK e \in Seq(Ops) : Top(e) /\ Tail(todo) = Tail(e)
  BY <1>1, PlainTop DEF PopKinds
<1>3. /\ Types /\ Head(e) = Now /\ e # <<>> /\ Tail(e) \in Seq(Ops) /\ Now \in Ops /\ EntryOk(Now, reserve)
      /\ ListsInv(fva, rva, e) /\ InOrder(fva, rva) /\ InAreas(fva, rva) /\ Ranges(fva, rva, e)
  BY <1>2, TopParts
<1>4. PICK va, n, l, s, q : va = Now.va /\ n = Now.n /\ l = ListOf(va) /\ s = fva[l] /\ q = s[Place(s, va)]
  OBVIOUS
<1>5. n \in Nat \ {0} /\ l \in Lists /\ Run(va, n) \subseteq Area(l) /\ va \in Nat
  <2>1. n \in Int /\ n >= 1 /\ va \in Int /\ Run(va, n) \subseteq Area(l)
    BY <1>1, <1>3, <1>4 DEF EntryOk, PushKinds, Sized, Ops
  <2>2. va \in Run(va, n)
    BY <2>1 DEF Run
  <2>3. l \in Lists
    BY <1>4 DEF ListOf, Lists
  <2>4. va \in Nat
    BY <2>1, <2>2, <2>3, AreasApart
  <2> QED
    BY <2>1, <2>3, <2>4
<1>6. s \in Seq(HoleNodes) /\ Spaced(s, 1)
  BY <1>3, <1>4, <1>5, ListTypes DEF InOrder
<1>7. PICK mid \in BOOLEAN : mid = ~Joins(s, va, n)
  BY DEF Joins
<1>8. PICK cost : cost = (IF mid THEN Cost("fva") ELSE 0)
  OBVIOUS
<1>9. PICK fr : fr = (IF Merges(s, va, n) THEN <<FreeNodeOp("fva", q.at)>> ELSE <<>>)
  OBVIOUS
<1>10. CASE Lacks(cost) # "none"
  <2>1. Lacks(cost) = "reserve"
    BY <1>2, <1>10, LacksCase
  <2>2. Panic("reserve")
    <3>1. cost = IF JoinsPrev(s, va) \/ JoinsNext(s, va, n) THEN 0 ELSE Cost("fva")
      BY <1>7, <1>8 DEF Joins
    <3> QED
      BY <1>4, <1>10, <2>1, <3>1 DEF PushFva
  <2> QED
    BY <2>2, PanicStep
<1>11. CASE Lacks(cost) = "none"
  <2>1. /\ fva' = [fva EXCEPT ![l] = Pushed(s, va, n, Hole(Slot("fva"), va, n))]
        /\ pools' = (IF mid THEN WithNode("fva") ELSE pools)
        /\ TakePages(cost)
        /\ todo' = fr \o Tail(todo)
        /\ rva' = rva /\ lent' = lent /\ pt' = pt /\ tablePages' = tablePages /\ held' = held /\ panic' = panic
    <3>1. cost = IF JoinsPrev(s, va) \/ JoinsNext(s, va, n) THEN 0 ELSE Cost("fva")
      BY <1>7, <1>8 DEF Joins
    <3> QED
      BY <1>4, <1>7, <1>9, <1>11, <3>1 DEF PushFva, Then, memory, Joins, Merges
  <2>2. /\ OwnersInv(pools', reserve', tablePages, held, rva, e) /\ NoMore(reserve, reserve') /\ IsPools(pools)
        /\ IsPools(pools') /\ reserve' \in [Indices -> Pages \cup {NoPage}]
        /\ ~mid => pools' = pools /\ reserve' = reserve
        /\ mid => /\ IsTook("fva", Slot("fva"), pools, reserve, pools', reserve') /\ Slot("fva") \in Places
                  /\ FitsPool("fva", Slot("fva"), pools, reserve) /\ Slot("fva") \notin pools["fva"].used
    BY <1>2, <1>8, <1>11, <2>1, PopTakes
  <2>3. PICK P2, rs2, F2 : P2 = pools' /\ rs2 = reserve' /\ F2 = fva'
    OBVIOUS
  <2>4. PICK fresh : fresh = (IF mid THEN Slot("fva") ELSE <<0, 0>>)
    OBVIOUS
  <2>5. fresh \in Places
    <3>1. <<0, 0>> \in Places
      <4>1. 0 \in Pages /\ 0 \in Nat
        BY RangesAssumption DEF Pages
      <4> QED
        BY <4>1 DEF Places
    <3> QED
      BY <2>2, <2>4, <3>1
  <2>6. PICK hole : hole = Hole(fresh, va, n)
    OBVIOUS
  <2>7. hole \in HoleNodes /\ hole.at = fresh /\ IsRunOf(hole, va, n)
    BY <1>5, <2>5, <2>6 DEF Hole, HoleNodes, IsRunOf
  <2>8. Pushed(s, va, n, Hole(Slot("fva"), va, n)) = Pushed(s, va, n, hole)
    <3>1. CASE mid = TRUE
      BY <2>4, <2>6, <3>1
    <3>2. CASE mid = FALSE
      <4>1. Joins(s, va, n)
        BY <1>7, <3>2
      <4> QED
        BY <4>1, NoFreshNode
    <3> QED
      BY <3>1, <3>2
  <2>9. PICK u : u = Pushed(s, va, n, hole)
    OBVIOUS
  <2>10. IsHead(fr, reserve)
    <3>1. CASE Merges(s, va, n)
      <4>1. "fva" \in Pools /\ fr = <<FreeNodeOp("fva", q.at)>>
        BY <1>9, <3>1 DEF Pools
      <4>2. q.at \in Places
        <5>1. Place(s, va) \in 1 .. Len(s) + 1 /\ Place(s, va) <= Len(s)
          <6>1. Place(s, va) \in 1 .. Len(s) + 1
            BY <1>5, <1>6, NodesRanged, PlaceFacts, 1 \in Nat
          <6>2. Place(s, va) <= Len(s)
            BY <3>1 DEF Merges, JoinsNext
          <6> QED
            BY <6>1, <6>2
        <5>2. Len(s) \in Nat
          BY <1>6
        <5>3. Place(s, va) \in 1 .. Len(s)
          BY <5>1, <5>2
        <5>4. q \in HoleNodes
          BY <1>4, <1>6, <5>3
        <5> QED
          BY <5>4 DEF HoleNodes
      <4>3. AllPlain(fr, reserve) /\ Sums(fr, {}, {}) /\ (\A X : KnownIn(fr, X))
        BY <4>1, <4>2, OneFreed
      <4>4. fr[1].do = "fva"
        BY <4>1, <4>2, FreeNodeIs
      <4> QED
        BY <4>3, <4>4 DEF IsHead, TopKinds
    <3>2. CASE ~Merges(s, va, n)
      <4>1. fr = <<>>
        BY <1>9, <3>2
      <4>2. AllPlain(<<>>, reserve) /\ Sums(<<>>, {}, {}) /\ \A X : KnownIn(<<>>, X)
        BY NoPlain, NoneSilent DEF Silent
      <4> QED
        BY <4>1, <4>2 DEF IsHead
    <3> QED
      BY <3>1, <3>2
  <2>11. PICK f : f = fr \o Tail(e)
    OBVIOUS
  <2>12. NoMore(reserve, rs2)
    BY <2>2, <2>3
  <2>13. /\ f \in Seq(Ops) /\ Shape(f, rs2) /\ AssignsOwn(f) /\ Matches(f, f, rs2) /\ NotPopping(f)
         /\ Sums(f, PagesIn(e, Pushes) \ Run(va, n), Claimed(e)) /\ Run(va, n) \subseteq PagesIn(e, Pushes)
         /\ KnownIn(f, StartsOf(rva))
    BY <1>1, <1>2, <1>4, <2>10, <2>11, <2>12, PushStack
  <2>14. Run(va, n) \cap Cover(s) = {}
    <3>1. Cover(s) \subseteq CoverAll(fva)
      BY <1>4, <1>5 DEF CoverAll, Lists
    <3>2. PagesIn(e, Pushes) \cap CoverAll(fva) = {}
      BY <1>3 DEF Ranges
    <3> QED
      BY <2>13, <3>1, <3>2
  <2>15. IsPushed(u, s, va, n, hole)
    BY <1>5, <1>6, <2>7, <2>9, <2>14, PushedFacts
  <2>16. u \in Seq(HoleNodes) /\ Spaced(u, 1) /\ Cover(u) = Cover(s) \union Run(va, n)
    BY <2>15 DEF IsPushed
  <2>17. F2 \in [Lists -> Seq(HoleNodes)] /\ F2[l] = u /\ OneList(fva, F2, l)
    <3>1. F2 = [fva EXCEPT ![l] = u]
      BY <2>1, <2>3, <2>8, <2>9
    <3>2. fva \in [Lists -> Seq(HoleNodes)]
      BY <1>3 DEF Types
    <3> QED
      BY <1>5, <2>16, <3>1, <3>2, ListChanged
  <2>18. todo' = f
    BY <1>2, <2>1, <2>11
  <2>19. ListsInv(F2, rva, f)
    <3>1. Spaced(F2[l], 1) /\ Cover(F2[l]) = Cover(fva[l]) \union Run(va, n)
      BY <1>4, <2>16, <2>17
    <3> QED
      BY <1>3, <1>5, <2>13, <2>17, <3>1, ListsPushFva
  <2>20. OwnersInv(P2, rs2, tablePages, held, rva, f)
    <3>1. OwnersInv(P2, rs2, tablePages, held, rva, e)
      BY <2>2, <2>3
    <3>2. /\ Owned(P2, rs2, tablePages, held) \cap Claimed(e) = {}
          /\ Owned(P2, rs2, tablePages, held) \subseteq StartsOf(rva)
          /\ \A r \in AllOf(rva) : r.permanent => r.start \in 0 .. 2
      BY <3>1, OwnersParts
    <3>3. Claimed(e) \cap Owned(P2, rs2, tablePages, held) = {}
      BY <3>2
    <3> QED
      BY <2>13, <3>1, <3>2, <3>3, OwnersMoved
  <2>21. SlotsInv(P2, F2, rva, f)
    <3>1. IsPushState(F2, u, l, f, fr, Merges(s, va, n), q, e)
      BY <1>9, <2>11, <2>17 DEF IsPushState
    <3>2. ~Joins(s, va, n) => /\ IsTook("fva", fresh, pools, reserve, P2, rs2)
                              /\ FitsPool("fva", fresh, pools, reserve) /\ fresh \notin pools["fva"].used
      BY <1>7, <2>2, <2>3, <2>4
    <3>3. Joins(s, va, n) => P2 = pools
      BY <1>7, <2>2, <2>3
    <3>4. IsThere(s, q, l, va)
      BY <1>4 DEF IsThere
    <3> QED
      BY <1>1, <1>2, <1>5, <2>2, <2>7, <2>15, <3>1, <3>2, <3>3, <3>4, PushSlots
  <2>22. Types'
    BY <1>3, <2>1, <2>2, <2>3, <2>17 DEF Types, IsPools
  <2>23. panic' \notin {"null", "assert", "permanent"}
    BY <2>1 DEF ListInv, NoFalseAlarm
  <2>24. /\ Matches(todo', f, reserve') /\ Shape(f, reserve')
         /\ ListsInv(fva', rva', f) /\ OwnersInv(pools', reserve', tablePages', held', rva', f)
         /\ SlotsInv(pools', fva', rva', f)
    <3>1. PICK t, R2, T2, H2 : t = todo' /\ R2 = rva' /\ T2 = tablePages' /\ H2 = held'
      OBVIOUS
    <3>2. Matches(t, f, rs2) /\ ListsInv(F2, R2, f) /\ OwnersInv(P2, rs2, T2, H2, R2, f) /\ SlotsInv(P2, F2, R2, f)
      BY <2>1, <2>13, <2>18, <2>19, <2>20, <2>21, <3>1
    <3> QED
      BY <2>3, <2>13, <3>1, <3>2
  <2> QED
    BY <2>13, <2>22, <2>23, <2>24, Concluded
<1> QED
  BY <1>10, <1>11

-----------------------------------------------------------------------------
(* Blocks assigned to a range of the dynamic area. *)

\* A record put into a list that does not hold it.
LEMMA InsertDistinct ==
  ASSUME NEW S, NEW s \in Seq(S), Distinct(s), NEW d \in S, d \notin ToSet(s), NEW k \in 1 .. Len(s) + 1
  PROVE  /\ InsertAt(s, k, d) \in Seq(S) /\ ToSet(InsertAt(s, k, d)) = ToSet(s) \union {d}
         /\ Distinct(InsertAt(s, k, d))
<1>1. PICK t : t = <<d>>
  OBVIOUS
<1>2. t \in Seq(S) /\ Len(t) = 1 /\ t[1] = d /\ ToSet(t) = {d} /\ DOMAIN t = 1 .. 1
  BY <1>1 DEF ToSet
<1>3. PICK a, b : a = k - 1 /\ b = k
  OBVIOUS
<1>4. Len(s) \in Nat /\ DOMAIN s = 1 .. Len(s) /\ a \in 0 .. Len(s) /\ b \in a + 1 .. Len(s) + 1
  BY <1>3
<1>5. InsertAt(s, k, d) = Spliced(s, a, b, t)
  BY <1>1, <1>3 DEF InsertAt, Spliced
<1>6. \A i, j \in 1 .. Len(s) : s[i] = s[j] => i = j
  BY <1>4 DEF Distinct
<1>7. \A i, j \in 1 .. Len(t) : t[i] = t[j] => i = j
  BY <1>2
<1>8. \A i \in 1 .. Len(s), j \in 1 .. Len(t) : s[i] # t[j] \/ i \in a + 1 .. b - 1
  <2>1. \A i \in 1 .. Len(s) : s[i] # d
    BY <1>4 DEF ToSet
  <2>2. \A j \in 1 .. Len(t) : t[j] = d
    BY <1>2
  <2> QED
    BY <2>1, <2>2
<1>9. PICK r : r = Spliced(s, a, b, t)
  OBVIOUS
<1>10. /\ r \in Seq(S) /\ \A i, j \in 1 .. Len(r) : r[i] = r[j] => i = j
       /\ ToSet(r) = Firsts(s, a) \union ToSet(t) \union Lasts(s, b)
  BY SMTT(30), <1>4, <1>2, <1>6, <1>7, <1>8, <1>9, SplicedInto
<1>11. Firsts(s, a) \union Lasts(s, b) = ToSet(s)
  BY <1>3, LeftOut
<1>12. Distinct(r)
  <2>1. DOMAIN r = 1 .. Len(r)
    BY <1>10
  <2> QED
    BY <1>10, <2>1 DEF Distinct
<1> QED
  BY <1>2, <1>5, <1>9, <1>10, <1>11, <1>12

\* A range whose records change stays where it is.
Resembles(x, r) == x \in RvaNodes /\ r \in RvaNodes /\ x.start = r.start /\ x.size = r.size /\ x.permanent = r.permanent
IsAlike(u, s, r, x) ==
  /\ u \in Seq(RvaNodes) /\ Spaced(u, 0) /\ Cover(u) = Cover(s)
  /\ ToSet(u) = (ToSet(s) \ {r}) \union {x} /\ r \in ToSet(s)

\* A list one of whose nodes changes nothing but its records.
LEMMA AlikeFacts ==
  ASSUME NEW s \in Seq(RvaNodes), Spaced(s, 0), NEW i \in 1 .. Len(s), NEW x, Resembles(x, s[i])
  PROVE  IsAlike([s EXCEPT ![i] = x], s, s[i], x)
<1>1. PICK u : u = [s EXCEPT ![i] = x]
  OBVIOUS
<1>2. /\ Len(s) \in Nat /\ DOMAIN s = 1 .. Len(s) /\ x \in RvaNodes /\ s[i] \in RvaNodes
      /\ x.start = s[i].start /\ x.size = s[i].size
  BY DEF Resembles
<1>3. u \in Seq(RvaNodes) /\ Len(u) = Len(s) /\ DOMAIN u = 1 .. Len(s)
  BY <1>1, <1>2
<1>4. u[i] = x /\ \A j \in 1 .. Len(s) : j # i => u[j] = s[j]
  BY <1>1, <1>2
<1>5. \A j \in 1 .. Len(s) : u[j].start = s[j].start /\ u[j].size = s[j].size
  BY <1>2, <1>4
<1>6. \A j \in 1 .. Len(s) : End(u[j]) = End(s[j]) /\ PagesOf(u[j]) = PagesOf(s[j])
  BY <1>5 DEF End, PagesOf
<1>7. Spaced(u, 0)
  <2>1. \A j, k \in 1 .. Len(s) : j < k => End(s[j]) + 0 <= s[k].start
    BY DEF Spaced
  <2>2. \A j, k \in 1 .. Len(s) : j < k => End(u[j]) + 0 <= u[k].start
    BY <1>5, <1>6, <2>1
  <2> QED
    BY <1>3, <2>2 DEF Spaced
<1>8. Cover(u) = Cover(s)
  <2>1. ASSUME NEW v \in Cover(u) PROVE v \in Cover(s)
    <3>1. PICK j \in 1 .. Len(s) : v \in PagesOf(u[j])
      BY <1>3 DEF Cover, ToSet
    <3>2. v \in PagesOf(s[j]) /\ s[j] \in ToSet(s)
      BY <1>2, <1>6, <3>1 DEF ToSet
    <3> QED
      BY <3>2 DEF Cover
  <2>2. ASSUME NEW v \in Cover(s) PROVE v \in Cover(u)
    <3>1. PICK j \in 1 .. Len(s) : v \in PagesOf(s[j])
      BY <1>2 DEF Cover, ToSet
    <3>2. v \in PagesOf(u[j]) /\ u[j] \in ToSet(u)
      BY <1>3, <1>6, <3>1 DEF ToSet
    <3> QED
      BY <3>2 DEF Cover
  <2> QED
    BY <2>1, <2>2
<1>9. \A j \in 1 .. Len(s) : j # i => s[j] # s[i]
  <2> SUFFICES ASSUME NEW j \in 1 .. Len(s), j # i, s[j] = s[i]
               PROVE  FALSE
    OBVIOUS
  <2>1. s[j].start = s[i].start /\ 0 \in Nat
    OBVIOUS
  <2>2. j = i
    BY <2>1, NodesRanged, SpacedApart
  <2> QED
    BY <2>2
<1>10. ToSet(u) = (ToSet(s) \ {s[i]}) \union {x}
  <2>1. ASSUME NEW v \in ToSet(u) PROVE v \in (ToSet(s) \ {s[i]}) \union {x}
    <3>1. PICK j \in 1 .. Len(s) : v = u[j]
      BY <1>3 DEF ToSet
    <3> QED
      BY <1>2, <1>4, <1>9, <3>1 DEF ToSet
  <2>2. ASSUME NEW v \in ToSet(s), v # s[i] PROVE v \in ToSet(u)
    <3>1. PICK j \in 1 .. Len(s) : v = s[j]
      BY <1>2 DEF ToSet
    <3>2. v = u[j]
      BY <1>4, <2>2, <3>1
    <3> QED
      BY <1>3, <3>2 DEF ToSet
  <2>3. x \in ToSet(u)
    BY <1>3, <1>4 DEF ToSet
  <2> QED
    BY <2>1, <2>2, <2>3
<1>11. s[i] \in ToSet(s)
  BY <1>2 DEF ToSet
<1> QED
  BY <1>1, <1>3, <1>7, <1>8, <1>10, <1>11 DEF IsAlike

\* The index at which the record of a block goes.
LEMMA RecordPlaceFacts ==
  ASSUME NEW S, NEW s \in Seq(S), NEW va
  PROVE  RecordPlace(s, va) \in 1 .. Len(s) + 1
<1>1. PICK T : T = Among(s, LAMBDA d : d.va > va) \cup {Len(s) + 1}
  OBVIOUS
<1>2. Len(s) \in Nat /\ DOMAIN s = 1 .. Len(s)
  OBVIOUS
<1>3. T \subseteq 1 .. Len(s) + 1 /\ T # {}
  BY <1>1, <1>2 DEF Among
<1>4. T \in SUBSET Nat
  BY <1>2, <1>3
<1>5. Min(T) \in T
  BY <1>3, <1>4, LeastOf
<1> QED
  BY <1>1, <1>3, <1>5 DEF RecordPlace

\* The token of an assignment is that of a range which is reserved.
LEMMA TokenKnown ==
  ASSUME NEW e, Top(e), Now.do = "assign"
  PROVE  Now.pa \in StartsOf(rva)
<1>1. /\ Shape(e, reserve) /\ Head(e) = Now /\ e # <<>> /\ e \in Seq(Ops) /\ Tail(e) \in Seq(Ops) /\ Now \in Ops
      /\ AssignsOwn(e) /\ KnownIn(e, StartsOf(rva))
  BY TopParts
<1>2. PICK a, b : a = Head(Tail(e)) /\ b = Head(Tail(Tail(e)))
  OBVIOUS
<1>3. a \in Ops /\ b \in Ops /\ a.do = "fill" /\ b.do = "return" /\ Tail(e) = <<a, b>>
  BY <1>1, <1>2, LastTwo
<1>4. /\ Len(e) = 3 /\ e[1] = Now /\ e[2] = a /\ e[3] = b /\ DOMAIN e = 1 .. 3
  <2>5. PICK z : z = Tail(e)
    OBVIOUS
  <2>6. Len(z) = 2 /\ z[1] = a /\ z[2] = b
    <3>1. \A c, d : Len(<<c, d>>) = 2 /\ <<c, d>>[1] = c /\ <<c, d>>[2] = d
      OBVIOUS
    <3>2. z = <<a, b>>
      BY <1>3, <2>5, Zenon
    <3> QED
      BY <3>1, <3>2, Zenon
  <2>1. Len(Tail(e)) = 2 /\ Tail(e)[1] = a /\ Tail(e)[2] = b
    BY <2>5, <2>6
  <2>7. Len(Tail(e)) = Len(e) - 1 /\ Head(e) = e[1] /\ DOMAIN e = 1 .. Len(e) /\ Len(e) \in Nat
    BY <1>1, HeadTail
  <2>2. Len(e) = 3 /\ e[1] = Now /\ DOMAIN e = 1 .. Len(e)
    <3>1. PICK k, m : k = Len(e) /\ m = Len(Tail(e))
      OBVIOUS
    <3>2. k = 3
      <4>1. k \in Nat /\ m = 2 /\ m = k - 1
        BY <2>1, <2>7, <3>1
      <4> QED
        BY <4>1
    <3> QED
      BY <1>1, <2>7, <3>1, <3>2
  <2>3. \A i \in 1 .. 2 : Tail(e)[i] = e[i + 1]
    BY <1>1, <2>1, HeadTail
  <2>4. 1 \in 1 .. 2 /\ 2 \in 1 .. 2 /\ 1 + 1 = 2 /\ 2 + 1 = 3
    OBVIOUS
  <2> QED
    BY <2>1, <2>2, <2>3, <2>4
<1>5. 3 \in At(e, Returns) /\ 1 \in At(e, Assigns) /\ 3 \in At(e, Claims)
  BY <1>1, <1>3, <1>4, KindSets DEF At
<1>6. b.va \in Vals(e, Returns, VaOf) /\ Now.pa \in Vals(e, Assigns, PaOf)
  <2>1. VaOf[b] = b.va /\ PaOf[Now] = Now.pa
    BY <1>1, <1>3 DEF VaOf, PaOf
  <2> QED
    BY <1>4, <1>5, <2>1 DEF Vals
<1>7. Now.pa = b.va
  BY <1>1, <1>6 DEF AssignsOwn
<1>8. ClaimOf[e[3]] = b.va
  BY <1>3, <1>4, ClaimIs
<1>9. \A j \in At(e, RvaPushes) : ~(j < 3)
  <2>1. \A j \in 1 .. 3 : j = 1 \/ j = 2 \/ j = 3
    OBVIOUS
  <2>2. e[1] \notin RvaPushes /\ e[2] \notin RvaPushes
    BY <1>1, <1>3, <1>4, KindSets
  <2>3. \A j \in At(e, RvaPushes) : j = 3
    BY <1>4, <2>1, <2>2 DEF At
  <2> QED
    BY <2>3
<1> QED
  BY <1>1, <1>5, <1>7, <1>8, <1>9 DEF KnownIn

\* What is yet to be done once a block is assigned.
MapAndMore(va, pa, p, y, rest) ==
  <<Op("map", va, pa, p)>> \o (IF rest = 0 THEN <<>> ELSE <<Op("assign", va + p, y, rest)>>)

IsFollowUp(m, h, y, rs) ==
  /\ m \in Seq(Ops) /\ Fits(m, h, rs) /\ Silent(m) /\ m # <<>> /\ m[1].do = "map"
  /\ Vals(m, Assigns, PaOf) \subseteq {y} /\ Vals(m, Returns, VaOf) = {}

\* What a recorded block leaves to do.
LEMMA MapAndMoreFits ==
  ASSUME NEW va \in Nat, NEW pa \in Pages, NEW p \in Nat \ {0}, Run(pa, p) \subseteq Pages, NEW y \in Area("dynamic"),
         NEW rest \in Nat, NEW o \in Ops, o.do = "assign", NEW rs
  PROVE  IsFollowUp(MapAndMore(va, pa, p, y, rest), o, y, rs)
<1>1. PICK h : h = Op("map", va, pa, p)
  OBVIOUS
<1>2. h \in Ops /\ h.do = "map" /\ h.pa = pa /\ h.n = p
  <2>1. "map" \in OpKinds /\ va \in Int /\ pa \in Int /\ p \in Int
    BY SmallInts DEF OpKinds
  <2> QED
    BY <1>1, <2>1, OpIn
<1>3. EntryOk(h, rs) /\ h.do \in Plain /\ Quiet(h)
  BY <1>2 DEF EntryOk, PushKinds, Leads, Plain, OpKinds, Quiet, Pools
<1>4. PICK a : a = <<h>>
  OBVIOUS
<1>5. AllPlain(a, rs) /\ a # <<>> /\ a[1] = h /\ a \in Seq(Ops) /\ Len(a) = 1
  BY <1>2, <1>3, <1>4, OnePlain
<1>6. Silent(a) /\ Vals(a, Assigns, PaOf) = {} /\ Vals(a, Returns, VaOf) = {}
  BY <1>2, <1>3, <1>4, <1>5, OneSilent, PlainQuiet
<1>7. PICK m : m = MapAndMore(va, pa, p, y, rest)
  OBVIOUS
<1>8. CASE rest = 0
  <2>1. m = a
    <3>1. m = a \o <<>>
      BY <1>1, <1>4, <1>7, <1>8 DEF MapAndMore
    <3>2. \A t \in Seq(Ops) : t \o <<>> = t
      OBVIOUS
    <3> QED
      BY <1>5, <3>1, <3>2
  <2>2. Fits(a, o, rs)
    BY <1>5, PlainFits DEF AllPlain
  <2> QED
    BY <1>2, <1>5, <1>6, <1>7, <2>1, <2>2 DEF IsFollowUp
<1>9. CASE rest # 0
  <2>1. PICK g : g = Op("assign", va + p, y, rest)
    OBVIOUS
  <2>2. g \in Ops /\ g.do = "assign" /\ g.va = va + p /\ g.pa = y /\ g.n = rest
    <3>1. "assign" \in OpKinds /\ va + p \in Int /\ y \in Int /\ rest \in Int
      BY AreasApart DEF OpKinds, Lists
    <3> QED
      BY <2>1, <3>1, OpIn
  <2>3. EntryOk(g, rs) /\ Quiet(g)
    <3>1. va + p \in Nat /\ rest >= 1
      BY <1>9
    <3> QED
      BY <2>2, <3>1 DEF EntryOk, PushKinds, Quiet, Pools
  <2>4. PICK b : b = <<g>>
    OBVIOUS
  <2>5. b \in Seq(Ops) /\ Len(b) = 1 /\ b[1] = g /\ b # <<>> /\ m = a \o b
    BY <1>1, <1>4, <1>7, <1>9, <2>1, <2>2, <2>4 DEF MapAndMore
  <2>6. ChainOk(a, rs) /\ ChainOk(b, rs)
    BY <1>3, <1>5, <2>3, <2>5 DEF ChainOk
  <2>7. Joint(a, b)
    BY <1>2, <1>5, <2>2, <2>5 DEF Joint, Linked, TopKinds
  <2>8. Fits(b, o, rs)
    <3>1. \A q : Linked(o, q) => Linked(g, q)
      BY <2>2 DEF Linked
    <3> QED
      BY <2>2, <2>5, <2>6, <3>1 DEF Fits, Leads
  <2>9. Fits(m, o, rs)
    BY <1>5, <2>5, <2>6, <2>7, <2>8, FitsCat
  <2>10. Silent(b)
    BY <2>2, <2>3, <2>4, OneSilent
  <2>11. Silent(m)
    BY <1>6, <2>5, <2>10, SilentCat
  <2>12. Vals(b, Assigns, PaOf) = {y} /\ Vals(b, Returns, VaOf) = {}
    <3>1. g \in Assigns /\ g \notin Returns /\ PaOf[g] = y
      BY <2>2, KindSets DEF PaOf
    <3> QED
      BY <2>2, <2>4, <3>1, OneEntry
  <2>13. Vals(m, Assigns, PaOf) = Vals(a, Assigns, PaOf) \union Vals(b, Assigns, PaOf)
         /\ Vals(m, Returns, VaOf) = Vals(a, Returns, VaOf) \union Vals(b, Returns, VaOf)
    BY <1>5, <2>5, CatVals
  <2>14. m \in Seq(Ops) /\ m # <<>> /\ m[1] = h
    <3>1. 1 \in 1 .. Len(a)
      BY <1>5
    <3>2. m \in Seq(Ops) /\ 1 \in 1 .. Len(m) /\ m[1] = a[1]
      BY <1>5, <2>5, <3>1, CatEntries
    <3> QED
      BY <1>5, <3>2
  <2> QED
    BY <1>2, <1>6, <1>7, <2>9, <2>11, <2>12, <2>13, <2>14 DEF IsFollowUp
<1> QED
  BY <1>8, <1>9

Record(at, pa, o, va) == [at |-> at, pa |-> pa, order |-> o, va |-> va]
Recorded(r, d, va) == [r EXCEPT !.pas = InsertAt(r.pas, RecordPlace(r.pas, va), d)]

\* A range with one record more.
LEMMA RecordedFacts ==
  ASSUME NEW r \in RvaNodes, Distinct(r.pas), NEW d \in MdtNodes, d \notin ToSet(r.pas), NEW va
  PROVE  Resembles(Recorded(r, d, va), r) /\ IsLonger(Recorded(r, d, va), r, d)
<1>1. r.pas \in Seq(MdtNodes)
  BY DEF RvaNodes
<1>2. PICK s, k : s = r.pas /\ k = RecordPlace(s, va)
  OBVIOUS
<1>3. s \in Seq(MdtNodes) /\ k \in 1 .. Len(s) + 1 /\ Distinct(s) /\ d \notin ToSet(s)
  <2>1. s \in Seq(MdtNodes)
    BY <1>1, <1>2
  <2> QED
    BY <1>2, <2>1, RecordPlaceFacts
<1>4. PICK t : t = InsertAt(s, k, d)
  OBVIOUS
<1>5. t \in Seq(MdtNodes) /\ ToSet(t) = ToSet(s) \union {d} /\ Distinct(t)
  BY <1>3, <1>4, InsertDistinct
<1>6. PICK x : x = [r EXCEPT !.pas = t]
  OBVIOUS
<1>7. /\ x \in RvaNodes /\ x.at = r.at /\ x.start = r.start /\ x.size = r.size /\ x.permanent = r.permanent
      /\ x.pas = t
  BY <1>5, <1>6 DEF RvaNodes
<1>8. x = Recorded(r, d, va)
  BY <1>2, <1>4, <1>6 DEF Recorded
<1> QED
  BY <1>2, <1>5, <1>7, <1>8 DEF Resembles, IsLonger

\* What is known of the range that a block is assigned to.
IsTokenRange(s, i, r, y) ==
  /\ s = rva["dynamic"] /\ i = Min(Found(s, y)) /\ r = s[i]

\* The range whose address the assign carries.
LEMMA TokenRange ==
  ASSUME NEW e, Top(e), Now.do = "assign", NEW s, NEW i, NEW r, IsTokenRange(s, i, r, Now.pa)
  PROVE  /\ s \in Seq(RvaNodes) /\ Spaced(s, 0) /\ i \in 1 .. Len(s) /\ r \in RvaNodes /\ r \in ToSet(s)
         /\ r \in AllOf(rva) /\ Distinct(r.pas) /\ Now.pa \in Area("dynamic")
<1>1. /\ Types /\ InAreas(fva, rva) /\ InOrder(fva, rva) /\ EntryOk(Now, reserve) /\ NodesApart(fva, rva)
  BY TopParts
<1>2. Now.pa \in Area("dynamic") /\ "dynamic" \in Lists
  BY <1>1 DEF EntryOk, Lists
<1>3. ListOf(Now.pa) = "dynamic"
  BY <1>2, AreasApart
<1>4. Known(Now.pa)
  BY <1>1, TokenKnown, KnownStart
<1>5. s \in Seq(RvaNodes) /\ i \in 1 .. Len(s)
  <2>1. /\ rva["dynamic"] \in Seq(RvaNodes)
        /\ Min(Found(rva["dynamic"], Now.pa)) \in 1 .. Len(rva["dynamic"])
    BY <1>1, <1>3, <1>4, FoundFacts
  <2> QED
    BY <2>1 DEF IsTokenRange
<1>6. Spaced(s, 0)
  BY <1>1, <1>2 DEF IsTokenRange, InOrder
<1>7. r = s[i] /\ s = rva["dynamic"]
  BY DEF IsTokenRange
<1>8. r \in RvaNodes /\ r \in ToSet(s)
  BY <1>5, <1>7 DEF ToSet
<1>9. r \in AllOf(rva)
  BY <1>7, <1>8 DEF AllOf, Lists
<1>10. Distinct(r.pas)
  BY <1>1, <1>9, NodesParts DEF RecsApart
<1> QED
  BY <1>2, <1>5, <1>6, <1>8, <1>9, <1>10

\* The reserved ranges, when the records of one change.
IsAssigned(R2, u, s, r, x, d) ==
  /\ R2 \in [Lists -> Seq(RvaNodes)] /\ R2["dynamic"] = u /\ OneList(rva, R2, "dynamic")
  /\ s = rva["dynamic"] /\ IsAlike(u, s, r, x) /\ Resembles(x, r) /\ IsLonger(x, r, d)

\* A block recorded in that range.
LEMMA AssignedFacts ==
  ASSUME NEW e, Top(e), NEW R2, NEW u, NEW s, NEW r, NEW x, NEW d, IsAssigned(R2, u, s, r, x, d),
         d.at \notin Taking("mdt", fva, rva)
  PROVE  /\ SameRanges(rva, R2) /\ StartsOf(R2) = StartsOf(rva)
         /\ (\A q \in AllOf(rva) : q.permanent => q.start \in 0 .. 2) => \A q \in AllOf(R2) : q.permanent => q.start \in 0 .. 2
         /\ NodesApart(fva, R2) /\ TakingSame(fva, rva, fva, R2, {"mdt"})
         /\ Taking("mdt", fva, R2) = Taking("mdt", fva, rva) \union {d.at}
<1>1. /\ R2["dynamic"] = u /\ OneList(rva, R2, "dynamic") /\ s = rva["dynamic"]
      /\ u \in Seq(RvaNodes) /\ Spaced(u, 0) /\ Cover(u) = Cover(s)
      /\ ToSet(u) = (ToSet(s) \ {r}) \union {x} /\ r \in ToSet(s)
      /\ x \in RvaNodes /\ r \in RvaNodes /\ x.start = r.start /\ x.size = r.size /\ x.permanent = r.permanent
      /\ x.at = r.at
  BY DEF IsAssigned, IsAlike, Resembles, IsLonger
<1>2. Types /\ InAreas(fva, rva) /\ NodesApart(fva, rva) /\ "dynamic" \in Lists
  BY TopParts DEF Lists
<1>3. PlacesApart(AllOf(fva)) /\ PlacesApart(AllOf(rva)) /\ PlacesApart(Recs(AllOf(rva))) /\ RecsApart(AllOf(rva))
  BY <1>2, NodesParts
<1>4. IsSwap(AllOf(rva), AllOf(R2), {r}, {x})
  <2>1. IsSwap(ToSet(rva["dynamic"]), ToSet(R2["dynamic"]), {r}, {x})
    BY <1>1 DEF IsSwap
  <2> QED
    BY <1>1, <1>2, <2>1, TwoListsApart, AllOfChanged
<1>5. SameRanges(rva, R2)
  <2> SUFFICES ASSUME NEW l \in Lists
               PROVE  Cover(R2[l]) = Cover(rva[l]) /\ (Spaced(rva[l], 0) => Spaced(R2[l], 0))
    BY DEF SameRanges
  <2>1. CASE l = "dynamic"
    BY <1>1, <2>1
  <2>2. CASE l # "dynamic"
    BY <1>1, <2>2 DEF OneList
  <2> QED
    BY <2>1, <2>2
<1>6. AllOf(R2) = (AllOf(rva) \ {r}) \union {x} /\ r \in AllOf(rva)
  BY <1>4 DEF IsSwap
<1>7. StartsOf(R2) = StartsOf(rva)
  BY <1>1, <1>6 DEF StartsOf
<1>8. (\A q \in AllOf(rva) : q.permanent => q.start \in 0 .. 2) => \A q \in AllOf(R2) : q.permanent => q.start \in 0 .. 2
  BY <1>1, <1>6
<1>9. PlacesApart(AllOf(R2)) /\ PlacesIn(AllOf(R2)) = PlacesIn(AllOf(rva))
  BY <1>1, <1>3, <1>4, PlaceStays
<1>10. d.at \notin PlacesIn(Recs(AllOf(rva)))
  BY TakingIs
<1>11. IsLonger(x, r, d)
  BY DEF IsAssigned
<1>12. /\ RecsApart(AllOf(R2)) /\ PlacesApart(Recs(AllOf(R2)))
       /\ PlacesIn(Recs(AllOf(R2))) = PlacesIn(Recs(AllOf(rva))) \union {d.at}
  <2>1. PICK A, A2 : A = AllOf(rva) /\ A2 = AllOf(R2)
    OBVIOUS
  <2>2. MayRecord(A, A2, r, x, d)
    BY <1>3, <1>4, <1>10, <1>11, <2>1 DEF MayRecord
  <2>3. /\ RecsApart(A2) /\ PlacesApart(Recs(A2)) /\ PlacesIn(Recs(A2)) = PlacesIn(Recs(A)) \union {d.at}
    BY <2>2, RecsLonger
  <2> QED
    BY <2>1, <2>3
<1>13. NodesApart(fva, R2)
  BY <1>3, <1>9, <1>12, NodesParts
<1>14. TakingSame(fva, rva, fva, R2, {"mdt"})
  BY <1>9, TakingIs DEF TakingSame
<1>15. Taking("mdt", fva, R2) = Taking("mdt", fva, rva) \union {d.at}
  BY <1>12, TakingIs
<1> QED
  BY <1>5, <1>7, <1>8, <1>13, <1>14, <1>15

\* vmalloc's assignment of blocks to a range.
LEMMA StepAssign ==
  ASSUME ListInv, Assign
  PROVE  ListInv'
<1>1. todo # <<>> /\ Now.do = "assign"
  BY DEF Assign, Doing, Now
<1>2. PICK e \in Seq(Ops) : Top(e) /\ Tail(todo) = Tail(e)
  BY <1>1, PlainTop DEF PopKinds
<1>3. /\ Types /\ Head(e) = Now /\ e # <<>> /\ Tail(e) \in Seq(Ops) /\ Now \in Ops /\ EntryOk(Now, reserve)
      /\ ListsInv(fva, rva, e) /\ Slots(pools, fva, rva, e) /\ Shape(e, reserve) /\ AssignsOwn(e)
      /\ "mdt" \in Pools
  BY <1>2, TopParts DEF Pools
<1>4. PICK va, n, y, o, p : va = Now.va /\ n = Now.n /\ y = Now.pa /\ o = log2_floor(n) /\ p = power_of2[o]
  OBVIOUS
<1>5. PICK rest : rest = n - p
  OBVIOUS
<1>6. n \in Nat \ {0} /\ va \in Nat /\ y \in Area("dynamic")
  <2>1. n \in Int /\ n >= 1 /\ va \in Nat /\ y \in Area("dynamic")
    BY <1>1, <1>3, <1>4 DEF EntryOk, Sized, Ops
  <2> QED
    BY <2>1
<1>7. o \in 0 .. MAX_ORDER /\ p \in Nat \ {0} /\ rest \in Nat
  <2>1. o \in 0 .. MAX_ORDER /\ p \in Nat \ {0} /\ p <= n
    BY <1>4, <1>6, OrderFacts
  <2> QED
    BY <1>5, <1>6, <2>1
<1>8. CASE NoneLendable(o)
  <2>1. Panic("oom")
    BY <1>4, <1>8 DEF Assign
  <2> QED
    BY <2>1, PanicStep
<1>9. CASE ~NoneLendable(o) /\ Lacks(Cost("mdt")) # "none"
  <2>1. Lacks(Cost("mdt")) = "reserve"
    BY <1>2, <1>9, LacksCase
  <2>2. Panic("reserve")
    BY <1>4, <1>9, <2>1 DEF Assign
  <2> QED
    BY <2>2, PanicStep
<1>10. CASE ~NoneLendable(o) /\ Lacks(Cost("mdt")) = "none"
  <2>1. PICK s, i, r : IsTokenRange(s, i, r, y)
    BY DEF IsTokenRange
  <2>2. s = rva["dynamic"] /\ i = Min(Found(rva["dynamic"], y)) /\ r = rva["dynamic"][i]
    BY <2>1 DEF IsTokenRange
  <2>3. PICK slot : slot = Slot("mdt")
    OBVIOUS
  <2>4. PICK pa \in Pages :
          /\ PageMalloc(pa, o)
          /\ rva' = [rva EXCEPT !["dynamic"][i].pas = InsertAt(@, RecordPlace(@, va), Record(slot, pa, o, va))]
          /\ pools' = WithNode("mdt") /\ TakePages(Cost("mdt"))
          /\ todo' = MapAndMore(va, pa, p, y, rest) \o Tail(todo)
          /\ fva' = fva /\ pt' = pt /\ tablePages' = tablePages /\ held' = held /\ panic' = panic
    <3>1. \E q \in Pages :
          /\ PageMalloc(q, o)
          /\ rva' = [rva EXCEPT !["dynamic"][i].pas = InsertAt(@, RecordPlace(@, va), Record(slot, q, o, va))]
          /\ pools' = WithNode("mdt") /\ TakePages(Cost("mdt"))
          /\ todo' = MapAndMore(va, q, p, y, rest) \o Tail(todo)
          /\ UNCHANGED <<fva, pt, split, tablePages, held, panic>>
      BY <1>4, <1>5, <1>10, <2>2, <2>3 DEF Assign, Then, MapAndMore, Record
    <3> QED
      BY <3>1
  <2>5. /\ IsTook("mdt", slot, pools, reserve, pools', reserve')
        /\ OwnersInv(pools', reserve', tablePages, held, rva, e)
        /\ IsPools(pools) /\ NoMore(reserve, reserve') /\ slot \in Places /\ slot \notin pools["mdt"].used
        /\ FitsPool("mdt", slot, pools, reserve)
    BY <1>2, <1>3, <1>10, <2>3, <2>4, Taken DEF FitsPool
  <2>6. PICK P2, rs2, R2 : P2 = pools' /\ rs2 = reserve' /\ R2 = rva'
    OBVIOUS
  <2>7. Run(pa, p) \subseteq Pages /\ lent' \in [Pages -> 0 .. MAX_ORDER \cup {Ledger!NotLent}]
    BY <1>3, <1>4, <1>7, <2>4, Lent
  <2>8. PICK d : d = Record(slot, pa, o, va)
    OBVIOUS
  <2>9. d \in MdtNodes /\ d.at = slot
    BY <1>6, <1>7, <2>5, <2>8 DEF Record, MdtNodes
  <2>10. slot \notin Taking("mdt", fva, rva)
    BY <1>3, <2>5, SlotIsNew
  <2>11. /\ s \in Seq(RvaNodes) /\ Spaced(s, 0) /\ i \in 1 .. Len(s) /\ r \in RvaNodes /\ r \in ToSet(s)
         /\ r \in AllOf(rva) /\ Distinct(r.pas)
    BY <1>1, <1>2, <1>4, <2>1, TokenRange
  <2>12. d \notin ToSet(r.pas)
    <3>1. d.at \notin PlacesIn(Recs(AllOf(rva)))
      BY <2>9, <2>10, TakingIs
    <3>2. d \notin Recs(AllOf(rva))
      BY <3>1 DEF PlacesIn
    <3> QED
      BY <2>11, <3>2 DEF Recs
  <2>13. PICK x : x = Recorded(r, d, va)
    OBVIOUS
  <2>14. Resembles(x, r) /\ IsLonger(x, r, d)
    BY <2>9, <2>11, <2>12, <2>13, RecordedFacts
  <2>15. PICK u : u = [s EXCEPT ![i] = x]
    OBVIOUS
  <2>16. IsAlike(u, s, r, x)
    <3>1. r = s[i]
      BY <2>2
    <3>2. Resembles(x, s[i])
      BY <2>14, <3>1
    <3>3. IsAlike([s EXCEPT ![i] = x], s, s[i], x)
      BY <2>11, <3>2, AlikeFacts
    <3> QED
      BY <2>15, <3>1, <3>3
  <2>17. R2 = [rva EXCEPT !["dynamic"] = u]
    BY <2>2, <2>4, <2>6, <2>8, <2>13, <2>15 DEF Recorded
  <2>18. IsAssigned(R2, u, s, r, x, d)
    <3>1. rva \in [Lists -> Seq(RvaNodes)] /\ "dynamic" \in Lists
      BY <1>3 DEF Types, Lists
    <3>2. u \in Seq(RvaNodes)
      BY <2>16 DEF IsAlike
    <3>3. R2 \in [Lists -> Seq(RvaNodes)] /\ R2["dynamic"] = u /\ OneList(rva, R2, "dynamic")
      BY <2>17, <3>1, <3>2, ListChanged
    <3> QED
      BY <2>2, <2>14, <2>16, <3>3 DEF IsAssigned
  <2>19. /\ SameRanges(rva, R2) /\ StartsOf(R2) = StartsOf(rva)
         /\ (\A q \in AllOf(rva) : q.permanent => q.start \in 0 .. 2) => \A q \in AllOf(R2) : q.permanent => q.start \in 0 .. 2
         /\ NodesApart(fva, R2) /\ TakingSame(fva, rva, fva, R2, {"mdt"})
         /\ Taking("mdt", fva, R2) = Taking("mdt", fva, rva) \union {slot}
    <3>1. d.at \notin Taking("mdt", fva, rva)
      BY <2>9, <2>10
    <3> QED
      BY <1>2, <2>9, <2>18, <3>1, AssignedFacts
  <2>20. PICK m : m = MapAndMore(va, pa, p, y, rest)
    OBVIOUS
  <2>21. /\ m \in Seq(Ops) /\ Fits(m, Now, reserve) /\ Silent(m) /\ m # <<>> /\ m[1].do = "map"
         /\ Vals(m, Assigns, PaOf) \subseteq {y} /\ Vals(m, Returns, VaOf) = {}
    <3>1. PICK h : h = Now
      OBVIOUS
    <3>2. h \in Ops /\ h.do = "assign"
      BY <1>1, <1>3, <3>1
    <3>3. pa \in Pages /\ Run(pa, p) \subseteq Pages
      BY <2>4, <2>7
    <3>4. IsFollowUp(MapAndMore(va, pa, p, y, rest), h, y, reserve)
      BY <1>6, <1>7, <3>2, <3>3, MapAndMoreFits
    <3> QED
      BY <2>20, <3>1, <3>4 DEF IsFollowUp
  <2>22. PICK f : f = m \o Tail(e)
    OBVIOUS
  <2>23. f \in Seq(Ops) /\ Shape(f, rs2) /\ AssignsOwn(f) /\ todo' = f
    <3>1. Shape(f, reserve)
      BY <1>3, <2>21, <2>22, ShapeCat
    <3>2. f \in Seq(Ops)
      BY <1>3, <2>21, <2>22, CatEntries
    <3>3. Shape(f, rs2)
      BY <2>5, <2>6, <3>1, <3>2, ShapeLess DEF NoMore
    <3>4. y \in Vals(e, Assigns, PaOf)
      <4>1. Head(e) \in Assigns /\ PaOf[Head(e)] = y
        BY <1>1, <1>3, <1>4, KindSets DEF PaOf
      <4> QED
        BY <1>3, <4>1, Dropped
    <3>5. AssignsOwn(f)
      <4>1. Vals(m, Assigns, PaOf) \subseteq Vals(e, Assigns, PaOf) /\ Vals(m, Returns, VaOf) \subseteq Vals(e, Returns, VaOf)
        BY <2>21, <3>4
      <4> QED
        BY <1>3, <2>21, <2>22, <4>1, OwnPart
    <3>6. todo' = f
      BY <1>2, <2>4, <2>20, <2>22
    <3> QED
      BY <3>2, <3>3, <3>5, <3>6
  <2>24. f # <<>> /\ Head(f).do = "map"
    <3>1. Len(m) \in Nat /\ 1 \in 1 .. Len(m)
      BY <2>21
    <3>2. f[1] = m[1] /\ 1 \in 1 .. Len(f)
      BY <1>3, <2>21, <2>22, <3>1, CatEntries
    <3>3. f # <<>> /\ Head(f) = f[1]
      BY <2>23, <3>2
    <3> QED
      BY <2>21, <3>2, <3>3
  <2>25. Matches(f, f, rs2) /\ PoppedNode(R2, f)
    <3>1. Head(f).do \notin PopKinds
      BY <2>24 DEF PopKinds
    <3>2. PoppedNode(R2, f)
      BY <2>24 DEF PoppedNode
    <3> QED
      BY <2>23, <3>1, <3>2, PlainMatches
  <2>26. /\ Sums(Tail(e), PagesIn(e, Pushes), Claimed(e)) /\ SlotsSame(e, Tail(e), {})
         /\ KnownIn(Tail(e), StartsOf(rva)) /\ Quiet(Now) /\ Now.do \notin Pools
    BY <1>1, <1>2, QuietTail, NowQuiet
  <2>27. Sums(f, PagesIn(e, Pushes), Claimed(e))
    <3>1. Sums(m, {}, {})
      BY <2>21 DEF Silent
    <3>2. Sums(f, {} \union PagesIn(e, Pushes), {} \union Claimed(e))
      BY <2>22, <2>26, <3>1, SumsCat
    <3> QED
      BY <3>2
  <2>28. SlotsSame(e, f, {})
    BY <1>2, <2>21, <2>22, <2>26, PutSame DEF Silent
  <2>29. KnownIn(f, StartsOf(R2))
    <3>1. KnownIn(m, StartsOf(rva))
      BY <2>21 DEF Silent
    <3>2. KnownIn(f, StartsOf(rva))
      BY <1>3, <2>21, <2>22, <2>26, <3>1, KnownCat
    <3> QED
      BY <2>19, <3>2
  <2>30. ListsInv(fva, R2, f)
    BY <1>3, <2>19, <2>25, <2>27, ListsKept
  <2>31. OwnersInv(P2, rs2, tablePages, held, R2, f)
    <3>1. OwnersInv(P2, rs2, tablePages, held, rva, e)
      BY <2>5, <2>6
    <3>2. /\ Owned(P2, rs2, tablePages, held) \cap Claimed(e) = {}
          /\ Owned(P2, rs2, tablePages, held) \subseteq StartsOf(rva)
          /\ \A q \in AllOf(rva) : q.permanent => q.start \in 0 .. 2
      BY <3>1, OwnersParts
    <3>3. Claimed(e) \cap Owned(P2, rs2, tablePages, held) = {} /\ Owned(P2, rs2, tablePages, held) \subseteq StartsOf(R2)
          /\ \A q \in AllOf(R2) : q.permanent => q.start \in 0 .. 2
      BY <2>19, <3>2
    <3> QED
      BY <2>27, <2>29, <3>1, <3>3, OwnersMoved
  <2>32. SlotsInv(P2, fva, R2, f)
    <3>1. IsTook("mdt", slot, pools, reserve, P2, rs2)
      BY <2>5, <2>6
    <3>2. Slots(P2, fva, R2, f)
      BY <1>3, <2>5, <2>19, <2>28, <3>1, SlotsTook
    <3> QED
      BY <2>19, <3>2 DEF SlotsInv
  <2>33. Types'
    <3>1. IsPools(P2) /\ rs2 \in [Indices -> Pages \cup {NoPage}]
      BY <2>5, <2>6 DEF IsTook
    <3>2. R2 \in [Lists -> Seq(RvaNodes)]
      BY <2>18 DEF IsAssigned
    <3> QED
      BY <1>3, <2>4, <2>6, <2>7, <3>1, <3>2 DEF Types, IsPools
  <2>34. panic' \notin {"null", "assert", "permanent"}
    BY <2>4 DEF ListInv, NoFalseAlarm
  <2>35. /\ Matches(todo', f, reserve') /\ Shape(f, reserve')
         /\ ListsInv(fva', rva', f) /\ OwnersInv(pools', reserve', tablePages', held', rva', f)
         /\ SlotsInv(pools', fva', rva', f)
    <3>1. PICK t, F2, T2, H2 : t = todo' /\ F2 = fva' /\ T2 = tablePages' /\ H2 = held'
      OBVIOUS
    <3>2. Matches(t, f, rs2) /\ ListsInv(F2, R2, f) /\ OwnersInv(P2, rs2, T2, H2, R2, f) /\ SlotsInv(P2, F2, R2, f)
      BY <2>4, <2>23, <2>25, <2>30, <2>31, <2>32, <3>1
    <3> QED
      BY <2>6, <2>23, <3>1, <3>2
  <2> QED
    BY <2>23, <2>33, <2>34, <2>35, Concluded
<1> QED
  BY <1>8, <1>9, <1>10

-----------------------------------------------------------------------------
(* Every step. *)

\* Every step of the stack keeps the invariant.
LEMMA StepStep ==
  ASSUME ListInv, Step
  PROVE  ListInv'
<1>1. CASE PopKmap
  BY <1>1, StepPopKmap
<1>2. CASE PopDynamic
  BY <1>2, StepPopDynamic
<1>3. CASE PushRva
  BY <1>3, StepPushRva
<1>4. CASE MmuMap
  BY <1>4, StepMmuMap
<1>5. CASE MmuUnmap
  BY <1>5, StepMmuUnmap
<1>6. CASE Assign
  BY <1>6, StepAssign
<1>7. CASE Fill
  BY <1>7, StepFill
<1>8. CASE Keep
  BY <1>8, StepKeep
<1>9. CASE Return
  BY <1>9, StepReturn
<1>10. CASE Kfree
  BY <1>10, StepKfree
<1>11. CASE PopRva
  BY <1>11, StepPopRva
<1>12. CASE PushFva
  BY <1>12, StepPushFva
<1>13. CASE PageFree
  BY <1>13, StepPageFree
<1>14. CASE \E k \in Pools : FreeNode(k)
  BY <1>14, StepFreeNode
<1> QED
  BY <1>1, <1>2, <1>3, <1>4, <1>5, <1>6, <1>7, <1>8, <1>9, <1>10, <1>11, <1>12, <1>13, <1>14 DEF Step

\* So does every request.
LEMMA StepRequest ==
  ASSUME ListInv, NEW r \in Requests, IF r.kmap THEN RawKmallocKmap(r.pages) ELSE RawKmallocDynamic(r.pages)
  PROVE  ListInv'
<1>1. r \in [pages : Nat \ {0}, kmap : BOOLEAN]
  BY HeapAssumption
<1>2. PICK n : n = r.pages
  OBVIOUS
<1>3. n \in Nat \ {0}
  BY <1>1, <1>2
<1>4. CASE r.kmap
  <2>1. RawKmallocKmap(n)
    BY <1>2, <1>4
  <2>2. PICK q \in 0 .. MAX_ORDER : n = power_of2[q]
    BY <1>2, <1>4, HeapAssumption
  <2> QED
    BY <1>3, <2>1, <2>2, StepAskKmap
<1>5. CASE ~r.kmap
  <2>1. RawKmallocDynamic(n)
    BY <1>2, <1>5
  <2> QED
    BY <1>3, <2>1, StepAskDynamic
<1> QED
  BY <1>4, <1>5

\* So does every step.
LEMMA StepNext ==
  ASSUME ListInv, [Next]_vars
  PROVE  ListInv'
<1>1. CASE Step
  BY <1>1, StepStep
<1>2. CASE \E r \in Requests : IF r.kmap THEN RawKmallocKmap(r.pages) ELSE RawKmallocDynamic(r.pages)
  BY <1>2, StepRequest
<1>3. CASE \E h \in held : RawKfree(h)
  BY <1>3, StepRawKfree
<1>4. CASE UNCHANGED vars
  <2>1. PICK e \in Seq(Ops) : StackInv(e)
    BY DEF ListInv
  <2>2. /\ fva' = fva /\ rva' = rva /\ pools' = pools /\ reserve' = reserve /\ lent' = lent /\ pt' = pt
        /\ tablePages' = tablePages /\ held' = held /\ todo' = todo /\ panic' = panic
    BY <1>4 DEF vars, lists, memory
  <2>3. Types' /\ panic' \notin {"null", "assert", "permanent"}
    BY <2>2 DEF ListInv, Types, NoFalseAlarm
  <2>4. /\ Matches(todo, e, reserve) /\ Shape(e, reserve) /\ AssignsOwn(e)
        /\ ListsInv(fva, rva, e) /\ OwnersInv(pools, reserve, tablePages, held, rva, e)
        /\ SlotsInv(pools, fva, rva, e)
    BY <2>1 DEF StackInv
  <2>5. /\ Matches(todo', e, reserve') /\ Shape(e, reserve') /\ AssignsOwn(e)
        /\ ListsInv(fva', rva', e) /\ OwnersInv(pools', reserve', tablePages', held', rva', e)
        /\ SlotsInv(pools', fva', rva', e)
    BY <2>2, <2>4
  <2> QED
    BY <2>3, <2>5, Concluded
<1> QED
  BY <1>1, <1>2, <1>3, <1>4 DEF Next

-----------------------------------------------------------------------------
(* The boot state. *)

\* The lists at boot.
EarlyNodes == [i \in 1 .. Early |-> Reservation(<<1, i>>, i - 1, 1, i <= 3)]
HoleAfter == Hole(<<0, 1>>, Early, KmapPages - Early)
DynHole == Hole(<<0, 2>>, KmapPages, DynPages)
AtBoot(F, R) ==
  /\ F = [l \in Lists |-> IF l = "dynamic" THEN <<DynHole>> ELSE <<HoleAfter>>]
  /\ R = [l \in Lists |-> IF l = "dynamic" THEN <<>> ELSE EarlyNodes]

\* The numbers of the boot state.
LEMMA BootNumbers ==
  /\ Early \in Nat /\ Early >= 4 /\ Early < KmapPages /\ KmapPages \in Nat /\ DynPages \in Nat \ {0}
  /\ KmapPages - Early \in Nat \ {0} /\ \A c \in {0, 1, 2} : c \in Pages
  BY RangesAssumption, HeapAssumption DEF Early, Pages

\* A list of one node.
LEMMA OneNode ==
  ASSUME NEW S, NEW r \in S
  PROVE  /\ <<r>> \in Seq(S) /\ Len(<<r>>) = 1 /\ ToSet(<<r>>) = {r} /\ Cover(<<r>>) = PagesOf(r)
         /\ \A g : Spaced(<<r>>, g)
<1>1. PICK s : s = <<r>>
  OBVIOUS
<1>2. s \in Seq(S) /\ Len(s) = 1 /\ s[1] = r
  BY <1>1
<1>3. ToSet(s) = {r}
  <2>1. DOMAIN s = 1 .. 1
    BY <1>2
  <2> QED
    BY <1>2, <2>1 DEF ToSet
<1>4. Cover(s) = PagesOf(r)
  BY <1>3 DEF Cover
<1>5. \A g : Spaced(s, g)
  BY <1>2 DEF Spaced
<1> QED
  BY <1>1, <1>2, <1>3, <1>4, <1>5

\* A list without node.
LEMMA NoNode ==
  ASSUME NEW S
  PROVE  <<>> \in Seq(S) /\ ToSet(<<>>) = {} /\ Cover(<<>>) = {} /\ \A g : Spaced(<<>>, g)
<1>1. ToSet(<<>>) = {}
  BY DEF ToSet
<1> QED
  BY <1>1 DEF Cover, Spaced

\* The ranges reserved at boot, one by one.
LEMMA EarlyFacts ==
  /\ EarlyNodes \in Seq(RvaNodes) /\ Len(EarlyNodes) = Early
  /\ \A i \in 1 .. Early : /\ EarlyNodes[i].at = <<1, i>> /\ EarlyNodes[i].start = i - 1 /\ EarlyNodes[i].size = 1
                           /\ EarlyNodes[i].permanent = (i <= 3) /\ EarlyNodes[i].pas = <<>>
  /\ \A r \in ToSet(EarlyNodes) : \E i \in 1 .. Early : r = EarlyNodes[i]
  /\ \A i \in 1 .. Early : EarlyNodes[i] \in ToSet(EarlyNodes)
<1>1. Early \in Nat /\ 1 \in Pages
  BY BootNumbers
<1>2. \A i \in 1 .. Early :
        /\ EarlyNodes[i] = [at |-> <<1, i>>, start |-> i - 1, size |-> 1, permanent |-> i <= 3, pas |-> <<>>]
  BY DEF EarlyNodes, Reservation
<1>3. \A i \in 1 .. Early : EarlyNodes[i] \in RvaNodes
  <2>1. SUFFICES ASSUME NEW i \in 1 .. Early
                 PROVE  EarlyNodes[i] \in RvaNodes
    OBVIOUS
  <2>2. <<1, i>> \in Places
    BY <1>1 DEF Places
  <2>3. i - 1 \in Nat /\ 1 \in Nat \ {0} /\ (i <= 3) \in BOOLEAN
    BY <1>1
  <2>4. <<>> \in Seq(MdtNodes)
    OBVIOUS
  <2>5. PICK a, b, c, p : a = <<1, i>> /\ b = i - 1 /\ c = (i <= 3) /\ p = <<>>
    OBVIOUS
  <2>6. a \in Places /\ b \in Nat /\ c \in BOOLEAN /\ p \in Seq(MdtNodes) /\ 1 \in Nat \ {0}
    BY <2>2, <2>3, <2>4, <2>5
  <2>7. [at |-> a, start |-> b, size |-> 1, permanent |-> c, pas |-> p] \in RvaNodes
    BY <2>6 DEF RvaNodes
  <2> QED
    BY <1>2, <2>5, <2>7
<1>4. EarlyNodes \in [1 .. Early -> RvaNodes]
  BY <1>3 DEF EarlyNodes
<1>5. EarlyNodes \in Seq(RvaNodes) /\ Len(EarlyNodes) = Early /\ DOMAIN EarlyNodes = 1 .. Early
  BY <1>1, <1>4
<1> QED
  BY SMTT(30), <1>2, <1>5 DEF ToSet

\* They are the first pages, in order.
LEMMA EarlyCover == Cover(EarlyNodes) = 0 .. Early - 1 /\ Spaced(EarlyNodes, 0)
<1>1. Early \in Nat
  BY BootNumbers
<1>2. \A i \in 1 .. Early : PagesOf(EarlyNodes[i]) = (i - 1) .. (i - 1)
  BY <1>1, EarlyFacts DEF PagesOf, Run
<1>3. ASSUME NEW v \in Cover(EarlyNodes)
      PROVE  v \in 0 .. Early - 1
  <2>1. PICK r \in ToSet(EarlyNodes) : v \in PagesOf(r)
    BY <1>3 DEF Cover
  <2>2. PICK i \in 1 .. Early : r = EarlyNodes[i]
    BY <2>1, EarlyFacts
  <2> QED
    BY <1>1, <1>2, <2>1, <2>2
<1>4. ASSUME NEW v \in 0 .. Early - 1
      PROVE  v \in Cover(EarlyNodes)
  <2>1. PICK i : i = v + 1
    OBVIOUS
  <2>2. i \in 1 .. Early /\ i - 1 = v
    BY <1>1, <2>1
  <2>3. v \in PagesOf(EarlyNodes[i]) /\ EarlyNodes[i] \in ToSet(EarlyNodes)
    BY <1>1, <1>2, <2>2, EarlyFacts
  <2> QED
    BY <2>3 DEF Cover
<1>5. Spaced(EarlyNodes, 0)
  <2>1. SUFFICES ASSUME NEW i \in 1 .. Early, NEW j \in 1 .. Early, i < j
                 PROVE  End(EarlyNodes[i]) + 0 <= EarlyNodes[j].start
    BY EarlyFacts DEF Spaced
  <2>2. End(EarlyNodes[i]) = (i - 1) + 1 /\ EarlyNodes[j].start = j - 1
    BY EarlyFacts DEF End
  <2> QED
    BY <1>1, <2>1, <2>2
<1> QED
  BY <1>3, <1>4, <1>5

\* The two holes at boot are the rest of each area.
LEMMA BootHoles ==
  /\ DynHole \in HoleNodes /\ HoleAfter \in HoleNodes
  /\ DynHole.at = <<0, 2>> /\ HoleAfter.at = <<0, 1>>
  /\ PagesOf(DynHole) = Area("dynamic") /\ PagesOf(HoleAfter) = Early .. KmapPages - 1
<1>1. <<0, 2>> \in Places /\ <<0, 1>> \in Places
  BY BootNumbers DEF Places
<1>2. /\ DynHole = [at |-> <<0, 2>>, start |-> KmapPages, size |-> DynPages]
      /\ HoleAfter = [at |-> <<0, 1>>, start |-> Early, size |-> KmapPages - Early]
  BY DEF DynHole, HoleAfter, Hole
<1>3. DynHole \in HoleNodes /\ HoleAfter \in HoleNodes
  BY <1>1, <1>2, BootNumbers DEF HoleNodes
<1>4. PagesOf(DynHole) = Area("dynamic")
  BY <1>2, BootNumbers DEF PagesOf, Run, Area
<1>5. PagesOf(HoleAfter) = Early .. KmapPages - 1
  <2>1. PagesOf(HoleAfter) = Early .. Early + (KmapPages - Early) - 1
    BY <1>2 DEF PagesOf, Run
  <2> QED
    BY <2>1, BootNumbers
<1> QED
  BY <1>2, <1>3, <1>4, <1>5

\* The part about ranges holds at boot.
LEMMA BootLists ==
  ASSUME NEW F, NEW R, AtBoot(F, R)
  PROVE  /\ F \in [Lists -> Seq(HoleNodes)] /\ R \in [Lists -> Seq(RvaNodes)]
         /\ ListsInv(F, R, <<>>) /\ AllOf(F) = {DynHole, HoleAfter} /\ AllOf(R) = ToSet(EarlyNodes)
<1>1. F["dynamic"] = <<DynHole>> /\ F["kmap"] = <<HoleAfter>> /\ R["dynamic"] = <<>> /\ R["kmap"] = EarlyNodes
  BY DEF AtBoot, Lists
<1>2. F \in [Lists -> Seq(HoleNodes)] /\ R \in [Lists -> Seq(RvaNodes)]
  <2>1. <<DynHole>> \in Seq(HoleNodes) /\ <<HoleAfter>> \in Seq(HoleNodes) /\ <<>> \in Seq(RvaNodes)
    BY BootHoles
  <2> QED
    BY <2>1, EarlyFacts DEF AtBoot
<1>3. AllOf(F) = {DynHole, HoleAfter} /\ AllOf(R) = ToSet(EarlyNodes)
  <2>1. ToSet(<<DynHole>>) = {DynHole} /\ ToSet(<<HoleAfter>>) = {HoleAfter} /\ ToSet(<<>>) = {}
    BY BootHoles, OneNode, NoNode
  <2> QED
    BY <1>1, <2>1 DEF AllOf
<1>4. /\ Cover(F["dynamic"]) = Area("dynamic") /\ Cover(F["kmap"]) = Early .. KmapPages - 1
      /\ Cover(R["dynamic"]) = {} /\ Cover(R["kmap"]) = 0 .. Early - 1
  BY <1>1, BootHoles, OneNode, NoNode, EarlyCover
<1>5. InOrder(F, R)
  <2>1. Spaced(F["dynamic"], 1) /\ Spaced(F["kmap"], 1) /\ Spaced(R["dynamic"], 0) /\ Spaced(R["kmap"], 0)
    BY <1>1, BootHoles, OneNode, NoNode, EarlyCover
  <2> QED
    BY <2>1 DEF InOrder, Lists
<1>6. Area("kmap") = 0 .. KmapPages - 1 /\ Area("dynamic") = KmapPages .. KmapPages + DynPages - 1
  BY DEF Area
<1>7. InAreas(F, R)
  BY <1>4, <1>6, BootNumbers DEF InAreas, Lists
<1>8. CoverAll(F) = Early .. KmapPages + DynPages - 1 /\ CoverAll(R) = 0 .. Early - 1
  BY <1>4, <1>6, BootNumbers DEF CoverAll
<1>9. Ranges(F, R, <<>>)
  <2>1. PagesIn(<<>>, Pushes) = {} /\ PagesApart(<<>>, Pushes)
    BY NoEntry
  <2>2. Va = 0 .. KmapPages + DynPages - 1
    BY DEF Va
  <2>3. CoverAll(F) \cap CoverAll(R) = {} /\ Va \subseteq CoverAll(F) \cup CoverAll(R)
    BY <1>8, <2>2, BootNumbers
  <2> QED
    BY <2>1, <2>3 DEF Ranges
<1>10. PoppedNode(R, <<>>)
  BY DEF PoppedNode
<1> QED
  BY <1>2, <1>3, <1>5, <1>7, <1>9, <1>10 DEF ListsInv

\* The pools and the reserve at boot.
UsedAtBoot(k) ==
  {<<FirstContainer[k], i>> : i \in 1 .. CASE k = "fva" -> 2 [] k = "rva" -> Early [] k = "mdt" -> 0}
PoolsAtBoot(P, rs) ==
  /\ P = [k \in Pools |-> [containers |-> <<FirstContainer[k]>>, used |-> UsedAtBoot(k)]]
  /\ rs = [i \in Indices |-> i + 2]

\* The first containers of the pools.
LEMMA FirstValues ==
  FirstContainer["fva"] = 0 /\ FirstContainer["rva"] = 1 /\ FirstContainer["mdt"] = 2
  BY DEF FirstContainer, Pools

\* They are among the first pages.
LEMMA FirstAtBoot ==
  ASSUME NEW k \in Pools
  PROVE  FirstContainer[k] \in 0 .. 2 /\ FirstContainer[k] \in Pages
<1>1. FirstContainer["fva"] = 0 /\ FirstContainer["rva"] = 1 /\ FirstContainer["mdt"] = 2
  BY FirstValues
<1>2. 0 \in Pages /\ 1 \in Pages /\ 2 \in Pages
  BY BootNumbers
<1>3. \A m \in Pools : m = "fva" \/ m = "rva" \/ m = "mdt"
  BY DEF Pools
<1>4. FirstContainer[k] = 0 \/ FirstContainer[k] = 1 \/ FirstContainer[k] = 2
  BY <1>1, <1>3
<1>5. FirstContainer[k] \in 0 .. 2
  BY <1>4
<1>6. FirstContainer[k] \in Pages
  BY <1>2, <1>4
<1> QED
  BY <1>5, <1>6

\* The pools and the reserve at boot, one by one.
LEMMA BootPools ==
  ASSUME NEW P, NEW rs, PoolsAtBoot(P, rs)
  PROVE  /\ IsPools(P) /\ rs \in [Indices -> Pages \cup {NoPage}]
         /\ \A k \in Pools : /\ P[k].containers = <<FirstContainer[k]>> /\ P[k].used = UsedAtBoot(k)
                             /\ ToSet(P[k].containers) = {FirstContainer[k]}
         /\ \A i \in Indices : rs[i] = i + 2 /\ rs[i] # NoPage /\ i \in Nat /\ rs[i] \in 3 .. Early - 1
<1>1. \A k \in Pools : P[k] = [containers |-> <<FirstContainer[k]>>, used |-> UsedAtBoot(k)]
  BY DEF PoolsAtBoot
<1>2. ASSUME NEW k \in Pools
      PROVE  <<FirstContainer[k]>> \in Seq(Pages) /\ UsedAtBoot(k) \subseteq Places
  <2>1. FirstContainer[k] \in Pages
    BY FirstAtBoot, Zenon
  <2>2. UsedAtBoot(k) \subseteq Places
    <3>1. (CASE k = "fva" -> 2 [] k = "rva" -> Early [] k = "mdt" -> 0) \in Nat
      BY BootNumbers DEF Pools
    <3>2. \A n \in Nat : \A i \in 1 .. n : <<FirstContainer[k], i>> \in Places
      BY <2>1 DEF Places
    <3> QED
      BY <3>1, <3>2 DEF UsedAtBoot
  <2> QED
    BY <2>1, <2>2
<1>3. IsPools(P)
  BY <1>2 DEF IsPools, PoolsAtBoot
<1>4. \A i \in Indices : rs[i] = i + 2
  BY DEF PoolsAtBoot
<1>5. \A i \in Indices : i \in Nat /\ i + 2 \in 3 .. Early - 1
  BY HeapAssumption DEF Indices, Early
<1>6. \A i \in Indices : i + 2 # NoPage /\ i + 2 \in Pages
  BY <1>5, BootNumbers DEF NoPage, Pages
<1>7. rs \in [Indices -> Pages \cup {NoPage}]
  BY <1>6 DEF PoolsAtBoot
<1>8. \A k \in Pools : ToSet(<<FirstContainer[k]>>) = {FirstContainer[k]}
  <2>1. \A c : ToSet(<<c>>) = {c}
    BY OneNode
  <2> QED
    BY <2>1
<1>9. ASSUME NEW k \in Pools
      PROVE  /\ P[k].containers = <<FirstContainer[k]>> /\ P[k].used = UsedAtBoot(k)
             /\ ToSet(P[k].containers) = {FirstContainer[k]}
  <2>1. P[k] = [containers |-> <<FirstContainer[k]>>, used |-> UsedAtBoot(k)] /\ ToSet(<<FirstContainer[k]>>) = {FirstContainer[k]}
    BY <1>1, <1>8
  <2>2. P[k].containers = <<FirstContainer[k]>> /\ P[k].used = UsedAtBoot(k)
    BY <2>1
  <2> QED
    BY <2>1, <2>2
<1>10. \A i \in Indices : rs[i] = i + 2 /\ rs[i] # NoPage /\ i \in Nat /\ rs[i] \in 3 .. Early - 1
  BY <1>4, <1>5, <1>6
<1> QED
  BY <1>3, <1>7, <1>9, <1>10

\* The part about owners holds at boot.
LEMMA BootOwners ==
  ASSUME NEW P, NEW rs, NEW F, NEW R, PoolsAtBoot(P, rs), AtBoot(F, R)
  PROVE  OwnersInv(P, rs, {}, {}, R, <<>>)
<1>1. /\ \A k \in Pools : P[k].containers = <<FirstContainer[k]>> /\ ToSet(P[k].containers) = {FirstContainer[k]}
      /\ \A i \in Indices : rs[i] = i + 2 /\ rs[i] # NoPage /\ i \in Nat /\ rs[i] \in 3 .. Early - 1
  BY BootPools
<1>2. PoolsApart(P)
  <2>1. \A k \in Pools : Distinct(P[k].containers)
    <3>1. \A c : Distinct(<<c>>)
      BY DEF Distinct
    <3> QED
      BY <1>1, <3>1
  <2>2. \A k, m \in Pools : k # m => FirstContainer[k] # FirstContainer[m]
    BY FirstValues DEF Pools
  <2> QED
    BY <1>1, <2>1, <2>2 DEF PoolsApart
<1>3. InContainers(P) \subseteq 0 .. 2
  <2>1. \A k \in Pools : ToSet(P[k].containers) \subseteq 0 .. 2
    <3>1. SUFFICES ASSUME NEW k \in Pools
                   PROVE  ToSet(P[k].containers) \subseteq 0 .. 2
      OBVIOUS
    <3>2. FirstContainer[k] \in 0 .. 2
      BY FirstAtBoot, Zenon
    <3>3. ToSet(P[k].containers) = {FirstContainer[k]}
      BY <1>1
    <3> QED
      BY <3>2, <3>3
  <2> QED
    BY <2>1 DEF InContainers
<1>4. InReserve(rs) \subseteq 3 .. Early - 1
  BY <1>1 DEF InReserve, Filled
<1>5. ReserveApart(rs)
  BY <1>1 DEF ReserveApart, Filled
<1>6. VasOf({}) = {} /\ HeldApart({}) /\ Claimed(<<>>) = {} /\ Once(<<>>, Claims, ClaimOf)
  BY NoEntry DEF VasOf, HeldApart, Claimed
<1>7. ClaimsApart(P, rs, {}, {}, <<>>)
  <2>1. InContainers(P) \cap InReserve(rs) = {}
    BY <1>3, <1>4
  <2>2. FiveApart(InContainers(P), InReserve(rs), {}, {}, {})
    BY <2>1 DEF FiveApart
  <2> QED
    BY <1>2, <1>5, <1>6, <2>2 DEF ClaimsApart
<1>8. AllOf(R) = ToSet(EarlyNodes)
  BY BootLists
<1>9. \A v \in 0 .. Early - 1 : v \in StartsOf(R)
  <2>1. SUFFICES ASSUME NEW v \in 0 .. Early - 1
                 PROVE  v \in StartsOf(R)
    OBVIOUS
  <2>2. PICK i : i = v + 1
    OBVIOUS
  <2>3. i \in 1 .. Early /\ i - 1 = v
    BY <2>2, BootNumbers
  <2>4. EarlyNodes[i] \in AllOf(R) /\ EarlyNodes[i].start = v
    BY <1>8, <2>3, EarlyFacts
  <2> QED
    BY <2>4 DEF StartsOf
<1>10. ClaimsKnown(P, rs, {}, {}, R, <<>>)
  <2>1. Owned(P, rs, {}, {}) \subseteq 0 .. Early - 1
    BY <1>3, <1>4, <1>6, BootNumbers DEF Owned
  <2>2. KnownIn(<<>>, StartsOf(R))
    BY NoEntry DEF KnownIn
  <2> QED
    BY <1>9, <2>1, <2>2 DEF ClaimsKnown
<1>11. Permanents(P, R)
  <2>1. \A r \in AllOf(R) : r.permanent => r.start \in 0 .. 2
    <3>1. SUFFICES ASSUME NEW r \in AllOf(R), r.permanent
                   PROVE  r.start \in 0 .. 2
      OBVIOUS
    <3>2. PICK i \in 1 .. Early : r = EarlyNodes[i]
      BY <1>8, EarlyFacts
    <3>3. i <= 3 /\ r.start = i - 1
      BY <3>1, <3>2, EarlyFacts
    <3> QED
      BY <3>3, BootNumbers
  <2>2. \A k \in Pools : P[k].containers # <<>> /\ P[k].containers[1] = FirstContainer[k]
    <3>1. \A c : <<c>> # <<>> /\ <<c>>[1] = c
      OBVIOUS
    <3> QED
      BY <1>1, <3>1
  <2> QED
    BY <2>1, <2>2 DEF Permanents
<1> QED
  BY <1>7, <1>10, <1>11 DEF OwnersInv

\* The part about slots holds at boot.
LEMMA BootSlots ==
  ASSUME NEW P, NEW rs, NEW F, NEW R, PoolsAtBoot(P, rs), AtBoot(F, R)
  PROVE  SlotsInv(P, F, R, <<>>)
<1>1. \A k \in Pools : P[k].used = UsedAtBoot(k) /\ ToSet(P[k].containers) = {FirstContainer[k]}
  BY BootPools
<1>2. AllOf(F) = {DynHole, HoleAfter} /\ AllOf(R) = ToSet(EarlyNodes)
  BY BootLists
<1>3. \A r \in AllOf(R) : \E i \in 1 .. Early : r = EarlyNodes[i] /\ r.at = <<1, i>> /\ r.pas = <<>>
  BY <1>2, EarlyFacts
<1>4. Recs(AllOf(R)) = {}
  <2>1. \A r \in AllOf(R) : ToSet(r.pas) = {}
    BY <1>3, NoNode
  <2> QED
    BY <2>1 DEF Recs
<1>5. NodesApart(F, R)
  <2>1. PlacesApart(AllOf(F))
    <3>1. <<0, 2>> # <<0, 1>>
      OBVIOUS
    <3> QED
      BY <1>2, <3>1, BootHoles DEF PlacesApart
  <2>2. PlacesApart(AllOf(R))
    <3>1. SUFFICES ASSUME NEW r \in AllOf(R), NEW q \in AllOf(R), r.at = q.at
                   PROVE  r = q
      BY DEF PlacesApart
    <3>2. PICK i \in 1 .. Early : r = EarlyNodes[i] /\ r.at = <<1, i>>
      BY <1>3
    <3>3. PICK j \in 1 .. Early : q = EarlyNodes[j] /\ q.at = <<1, j>>
      BY <1>3
    <3>4. i = j
      BY <3>1, <3>2, <3>3
    <3> QED
      BY <3>2, <3>3, <3>4
  <2>3. PlacesApart(Recs(AllOf(R)))
    BY <1>4 DEF PlacesApart
  <2>4. RecordsApart(R)
    <3>1. \A r \in AllOf(R) : ToSet(r.pas) = {} /\ Distinct(r.pas)
      BY <1>3, NoNode DEF Distinct
    <3> QED
      BY <3>1 DEF RecordsApart
  <2> QED
    BY <2>1, <2>2, <2>3, <2>4 DEF NodesApart
<1>6. ASSUME NEW k \in Pools
      PROVE  Taking(k, F, R) = UsedAtBoot(k)
  <2>1. CASE k = "fva"
    <3>1. PlacesIn(AllOf(F)) = {<<0, 2>>, <<0, 1>>}
      BY <1>2, BootHoles DEF PlacesIn
    <3>2. UsedAtBoot(k) = {<<0, i>> : i \in 1 .. 2}
      BY <2>1, FirstValues DEF UsedAtBoot
    <3>3. 1 .. 2 = {1, 2}
      OBVIOUS
    <3> QED
      BY <2>1, <3>1, <3>2, <3>3 DEF Taking
  <2>2. CASE k = "rva"
    <3>1. UsedAtBoot(k) = {<<1, i>> : i \in 1 .. Early}
      BY <2>2, FirstValues DEF UsedAtBoot
    <3>2. \A i \in 1 .. Early : <<1, i>> \in PlacesIn(AllOf(R))
      <4>1. \A i \in 1 .. Early : EarlyNodes[i] \in AllOf(R) /\ EarlyNodes[i].at = <<1, i>>
        BY <1>2, EarlyFacts
      <4> QED
        BY <4>1 DEF PlacesIn
    <3>3. \A x \in PlacesIn(AllOf(R)) : \E i \in 1 .. Early : x = <<1, i>>
      BY <1>3 DEF PlacesIn
    <3>4. PlacesIn(AllOf(R)) = {<<1, i>> : i \in 1 .. Early}
      BY <3>2, <3>3
    <3> QED
      BY <2>2, <3>1, <3>4 DEF Taking
  <2>3. CASE k = "mdt"
    <3>1. UsedAtBoot(k) = {<<2, i>> : i \in 1 .. 0}
      BY <2>3, FirstValues DEF UsedAtBoot
    <3>2. UsedAtBoot(k) = {}
      BY <3>1
    <3>3. PlacesIn(Recs(AllOf(R))) = {}
      BY <1>4 DEF PlacesIn
    <3> QED
      BY <2>3, <3>2, <3>3 DEF Taking
  <2> QED
    BY <2>1, <2>2, <2>3 DEF Pools
<1>7. ASSUME NEW k \in Pools
      PROVE  SlotsOf(k, P[k], Taking(k, F, R), <<>>)
  <2>1. Once(<<>>, SlotOps(k), PlaceOf) /\ Vals(<<>>, SlotOps(k), PlaceOf) = {}
    BY NoEntry
  <2>2. \A s \in P[k].used : s[1] \in ToSet(P[k].containers)
    BY <1>1 DEF UsedAtBoot
  <2>3. \A c \in ToSet(P[k].containers) : c = FirstContainer[k]
    BY <1>1
  <2>4. P[k].used = Taking(k, F, R)
    BY <1>1, <1>6
  <2> QED
    BY <2>1, <2>2, <2>3, <2>4 DEF SlotsOf
<1> QED
  BY <1>5, <1>7 DEF SlotsInv, Slots

\* The invariant holds at boot.
LEMMA InitListInv ==
  ASSUME Init
  PROVE  ListInv
<1>1. PICK F, R, P, rs : F = fva /\ R = rva /\ P = pools /\ rs = reserve
  OBVIOUS
<1>2. AtBoot(F, R)
  BY <1>1 DEF Init, AtBoot, EarlyNodes, HoleAfter, DynHole
<1>3. PoolsAtBoot(P, rs)
  BY <1>1 DEF Init, PoolsAtBoot, UsedAtBoot
<1>4. tablePages = {} /\ held = {} /\ todo = <<>> /\ panic = "none"
  BY DEF Init
<1>5. Types
  <2>1. F \in [Lists -> Seq(HoleNodes)] /\ R \in [Lists -> Seq(RvaNodes)]
    BY <1>2, BootLists
  <2>2. IsPools(P) /\ rs \in [Indices -> Pages \cup {NoPage}]
    BY <1>3, BootPools
  <2>3. lent \in [Pages -> 0 .. MAX_ORDER \cup {Ledger!NotLent}]
    BY HeapAssumption DEF Init
  <2>4. pt \in [Va -> Pages \cup {NoPage}]
    BY DEF Init
  <2> QED
    BY <1>1, <1>4, <2>1, <2>2, <2>3, <2>4 DEF Types, IsPools
<1>6. NoFalseAlarm
  BY <1>4 DEF NoFalseAlarm
<1>7. Matches(<<>>, <<>>, rs) /\ Shape(<<>>, rs) /\ AssignsOwn(<<>>)
  <2>1. Vals(<<>>, Assigns, PaOf) = {}
    BY NoEntry
  <2>2. Len(<<>>) = 0
    OBVIOUS
  <2> QED
    BY <2>1, <2>2 DEF Matches, Shape, AssignsOwn
<1>8. ListsInv(F, R, <<>>) /\ OwnersInv(P, rs, {}, {}, R, <<>>) /\ SlotsInv(P, F, R, <<>>)
  BY <1>2, <1>3, BootLists, BootOwners, BootSlots
<1>9. StackInv(<<>>)
  BY <1>1, <1>4, <1>7, <1>8 DEF StackInv
<1>10. <<>> \in Seq(Ops)
  OBVIOUS
<1> QED
  BY <1>5, <1>6, <1>9, <1>10 DEF ListInv

-----------------------------------------------------------------------------
(* The sum of the sizes of a list. *)

(* vmalloc_get_free_bytes and vmalloc_get_reserved_bytes. *)
UpToNode(s, i) == UNION {PagesOf(s[j]) : j \in 1 .. i}
IsSum(f, s) == f = [i \in 0 .. Len(s) |-> IF i = 0 THEN 0 ELSE f[i - 1] + s[i].size]

\* The pages of the first nodes of a list, one node more.
LEMMA UpToNodeGrows ==
  ASSUME NEW S, Ranged(S), NEW s \in Seq(S), Spaced(s, 0), IsFiniteSet(Cover(s)), NEW i \in 1 .. Len(s)
  PROVE  Cardinality(UpToNode(s, i)) = Cardinality(UpToNode(s, i - 1)) + s[i].size
<1>1. s[i].start \in Nat /\ s[i].size \in Nat \ {0} /\ \A j \in 1 .. Len(s) : s[j].start \in Nat /\ s[j].size \in Nat \ {0}
  BY DEF Ranged
<1>2. 1 .. i = (1 .. i - 1) \union {i} /\ i - 1 \in Nat /\ Len(s) \in Nat
  OBVIOUS
<1>3. UpToNode(s, i) = UpToNode(s, i - 1) \union PagesOf(s[i])
  BY <1>2 DEF UpToNode
<1>4. UpToNode(s, i - 1) \cap PagesOf(s[i]) = {}
  <2>1. SUFFICES ASSUME NEW v \in UpToNode(s, i - 1), v \in PagesOf(s[i])
                 PROVE  FALSE
    OBVIOUS
  <2>2. PICK j \in 1 .. i - 1 : v \in PagesOf(s[j])
    BY <2>1 DEF UpToNode
  <2>3. j \in 1 .. Len(s) /\ j < i
    BY <1>2
  <2>4. End(s[j]) + 0 <= s[i].start
    BY <2>3 DEF Spaced
  <2>5. v < End(s[j]) /\ s[i].start <= v /\ v \in Int
    BY SMTT(30), <1>1, <2>1, <2>2, <2>3 DEF PagesOf, Run, End
  <2>6. End(s[j]) \in Int
    BY <1>1, <2>3 DEF End
  <2> QED
    BY <1>1, <2>4, <2>5, <2>6
<1>5. \A j \in 1 .. Len(s) : PagesOf(s[j]) \subseteq Cover(s)
  BY DEF Cover, ToSet
<1>6. UpToNode(s, i - 1) \subseteq Cover(s) /\ PagesOf(s[i]) \subseteq Cover(s)
  BY <1>2, <1>5 DEF UpToNode
<1>7. PICK A, B : A = UpToNode(s, i - 1) /\ B = PagesOf(s[i])
  OBVIOUS
<1>8. IsFiniteSet(A) /\ IsFiniteSet(B)
  BY <1>6, <1>7, FS_Subset
<1>9. Cardinality(B) = s[i].size
  <2>1. PICK a, b : a = s[i].start /\ b = s[i].start + s[i].size - 1
    OBVIOUS
  <2>2. a \in Int /\ b \in Int /\ B = a .. b
    BY <1>1, <1>7, <2>1 DEF PagesOf, Run
  <2>3. Cardinality(B) = IF a > b THEN 0 ELSE b - a + 1
    BY <2>2, FS_Interval
  <2> QED
    BY <1>1, <2>1, <2>3
<1>10. Cardinality(A \union B) = Cardinality(A) + Cardinality(B) - Cardinality(A \cap B)
  BY <1>8, FS_Union
<1>11. Cardinality(A \cap B) = 0 /\ Cardinality(A) \in Nat
  <2>1. A \cap B = {}
    BY <1>4, <1>7
  <2> QED
    BY <1>8, <2>1, FS_EmptySet, FS_CardinalityType
<1> QED
  BY <1>1, <1>3, <1>7, <1>9, <1>10, <1>11

\* Adding up the sizes of disjoint nodes counts the pages they cover.
LEMMA SumsCount ==
  ASSUME NEW S, Ranged(S), NEW s \in Seq(S), Spaced(s, 0), IsFiniteSet(Cover(s)), NEW f, IsSum(f, s)
  PROVE  f[Len(s)] = Cardinality(Cover(s))
<1>1. Len(s) \in Nat
  OBVIOUS
<1>2. f[0] = 0 /\ \A i \in 1 .. Len(s) : f[i] = f[i - 1] + s[i].size
  <2>1. f[0] = 0
    BY <1>1 DEF IsSum
  <2>2. \A i \in 1 .. Len(s) : i \in 0 .. Len(s) /\ i # 0
    BY <1>1
  <2>3. \A i \in 0 .. Len(s) : f[i] = IF i = 0 THEN 0 ELSE f[i - 1] + s[i].size
    BY DEF IsSum
  <2> QED
    BY <2>1, <2>2, <2>3
<1>3. Cardinality(UpToNode(s, 0)) = 0
  <2>1. UpToNode(s, 0) = {}
    BY DEF UpToNode
  <2> QED
    BY <2>1, FS_EmptySet
<1>4. ASSUME NEW i \in 0 .. Len(s), f[i] # Cardinality(UpToNode(s, i))
      PROVE  FALSE
  <2>1. PICK B : B = {j \in Nat : j <= Len(s) /\ f[j] # Cardinality(UpToNode(s, j))}
    OBVIOUS
  <2>2. i \in B /\ B \subseteq Nat
    BY <1>1, <1>4, <2>1
  <2>3. PICK m \in B : \A j \in B : m <= j
    BY <2>2, HasLeast
  <2>4. m \in Nat /\ m <= Len(s) /\ f[m] # Cardinality(UpToNode(s, m))
    BY <2>1, <2>3
  <2>5. m # 0
    BY <1>2, <1>3, <2>4
  <2>6. m \in 1 .. Len(s) /\ m - 1 \in Nat /\ m - 1 <= Len(s) /\ ~(m <= m - 1)
    BY <1>1, <2>4, <2>5
  <2>7. m - 1 \notin B
    BY <2>3, <2>6
  <2>8. f[m - 1] = Cardinality(UpToNode(s, m - 1))
    BY <2>1, <2>6, <2>7
  <2>9. f[m] = f[m - 1] + s[m].size
    BY <1>2, <2>6
  <2>10. Cardinality(UpToNode(s, m)) = Cardinality(UpToNode(s, m - 1)) + s[m].size
    BY <2>6, UpToNodeGrows
  <2> QED
    BY <2>4, <2>8, <2>9, <2>10
<1>5. UpToNode(s, Len(s)) = Cover(s)
  <2>1. ToSet(s) = {s[j] : j \in 1 .. Len(s)}
    BY DEF ToSet
  <2> QED
    BY <2>1 DEF UpToNode, Cover
<1> QED
  BY <1>1, <1>4, <1>5

\* So SizesOf counts pages.
LEMMA SizesCount ==
  ASSUME NEW S, Ranged(S), NEW s \in Seq(S), Spaced(s, 0), IsFiniteSet(Cover(s))
  PROVE  SizesOf(s) = Cardinality(Cover(s))
<1>1. Len(s) \in Nat
  OBVIOUS
<1>2. \E f : IsSum(f, s)
  <2>1. PICK f : f = [i \in 0 .. Len(s) |-> Cardinality(UpToNode(s, i))]
    OBVIOUS
  <2>2. ASSUME NEW i \in 0 .. Len(s)
        PROVE  f[i] = IF i = 0 THEN 0 ELSE f[i - 1] + s[i].size
    <3>1. CASE i = 0
      <4>1. UpToNode(s, 0) = {}
        BY DEF UpToNode
      <4> QED
        BY <1>1, <2>1, <3>1, <4>1, FS_EmptySet
    <3>2. CASE i # 0
      <4>1. i \in 1 .. Len(s) /\ i - 1 \in 0 .. Len(s)
        BY <1>1, <3>2
      <4>2. Cardinality(UpToNode(s, i)) = Cardinality(UpToNode(s, i - 1)) + s[i].size
        BY <4>1, UpToNodeGrows
      <4> QED
        BY <2>1, <3>2, <4>1, <4>2
    <3> QED
      BY <3>1, <3>2
  <2>3. f = [i \in 0 .. Len(s) |-> IF i = 0 THEN 0 ELSE f[i - 1] + s[i].size]
    BY <2>1, <2>2
  <2> QED
    BY <2>3 DEF IsSum
<1>3. PICK g : g = CHOOSE f : f = [i \in 0 .. Len(s) |-> IF i = 0 THEN 0 ELSE f[i - 1] + s[i].size]
  OBVIOUS
<1>4. IsSum(g, s)
  BY <1>2, <1>3 DEF IsSum
<1>5. SizesOf(s) = g[Len(s)]
  BY <1>3 DEF SizesOf
<1> QED
  BY <1>4, <1>5, SumsCount

-----------------------------------------------------------------------------
(* The theorems about the lists. *)

\* In order, and apart, as the property says it.
LEMMA SpacedOrdered ==
  ASSUME NEW S, Ranged(S), NEW s \in Seq(S)
  PROVE  /\ Spaced(s, 0) => Ordered(s)
         /\ Spaced(s, 1) => Joined(s) /\ Ordered(s) /\ Spaced(s, 0)
<1>1. \A i \in 1 .. Len(s) : End(s[i]) \in Nat /\ s[i].start \in Nat
  BY DEF Ranged, End
<1>2. \A i \in 1 .. Len(s) - 1 : i \in 1 .. Len(s) /\ i + 1 \in 1 .. Len(s) /\ i < i + 1
  OBVIOUS
<1>3. ASSUME Spaced(s, 0)
      PROVE  Ordered(s)
  <2>1. \A i \in 1 .. Len(s) - 1 : End(s[i]) + 0 <= s[i + 1].start
    BY <1>2, <1>3 DEF Spaced
  <2> QED
    BY <1>1, <1>2, <2>1 DEF Ordered
<1>4. ASSUME Spaced(s, 1)
      PROVE  Joined(s) /\ Spaced(s, 0)
  <2>1. \A i \in 1 .. Len(s) - 1 : End(s[i]) + 1 <= s[i + 1].start
    BY <1>2, <1>4 DEF Spaced
  <2>2. Joined(s)
    <3>1. SUFFICES ASSUME NEW i \in 1 .. Len(s) - 1
                   PROVE  End(s[i]) < s[i + 1].start
      BY DEF Joined
    <3>2. PICK a, b : a = End(s[i]) /\ b = s[i + 1].start
      OBVIOUS
    <3>3. a \in Nat /\ b \in Nat /\ a + 1 <= b
      BY <1>1, <1>2, <2>1, <3>1, <3>2
    <3> QED
      BY <3>2, <3>3
  <2>3. \A i, j \in 1 .. Len(s) : i < j => End(s[i]) + 1 <= s[j].start
    BY <1>4 DEF Spaced
  <2>4. Spaced(s, 0)
    BY <1>1, <2>3 DEF Spaced
  <2> QED
    BY <2>2, <2>4
<1> QED
  BY <1>3, <1>4

\* A page is covered when a node holds it.
LEMMA RunsInCover ==
  ASSUME NEW s, NEW v
  PROVE  v \in Cover(s) <=> \E i \in DOMAIN s : v \in PagesOf(s[i])
  BY DEF Cover, ToSet

\* The search of vmalloc_get_addr_info finds the range of the address.
LEMMA InfoFacts ==
  ASSUME NEW S, Ranged(S), NEW s \in Seq(S), Spaced(s, 0), NEW va \in Int
  PROVE  InfoOf(s, va) # {} <=> va \in Cover(s)
<1>1. \A i \in 1 .. Len(s) : s[i].start \in Nat /\ s[i].size \in Nat \ {0} /\ End(s[i]) = s[i].start + s[i].size
  BY DEF Ranged, End
<1>2. \A i \in 1 .. Len(s) : va \in PagesOf(s[i]) <=> s[i].start <= va /\ va < End(s[i])
  BY <1>1 DEF PagesOf, Run
<1>3. DOMAIN s = 1 .. Len(s) /\ Len(s) \in Nat
  OBVIOUS
<1>4. ASSUME va \in Cover(s)
      PROVE  InfoOf(s, va) # {}
  <2>1. PICK i \in 1 .. Len(s) : va \in PagesOf(s[i])
    BY <1>3, <1>4, RunsInCover
  <2>2. s[i].start <= va /\ va < End(s[i])
    BY <1>2, <2>1
  <2>3. ASSUME NEW j \in 1 .. i
        PROVE  s[j].start <= va
    <3>1. j \in 1 .. Len(s) /\ (j = i \/ j < i)
      BY <1>3
    <3>2. CASE j = i
      BY <2>2, <3>2
    <3>3. CASE j < i
      <4>1. End(s[j]) + 0 <= s[i].start
        BY <3>1, <3>3 DEF Spaced
      <4>2. /\ s[j].start \in Nat /\ s[j].size \in Nat /\ End(s[j]) = s[j].start + s[j].size
            /\ s[i].start \in Nat
        BY <1>1, <3>1
      <4> QED
        BY SMTT(30), <2>2, <4>1, <4>2
    <3> QED
      BY <3>1, <3>2, <3>3
  <2>4. i \in Visited(s, va)
    BY <1>3, <2>3 DEF Visited
  <2>5. PagesOf(s[i]) \in InfoOf(s, va)
    BY <2>2, <2>4 DEF InfoOf
  <2> QED
    BY <2>5
<1>5. ASSUME InfoOf(s, va) # {}
      PROVE  va \in Cover(s)
  <2>1. PICK i \in Visited(s, va) : va < End(s[i])
    BY <1>5 DEF InfoOf
  <2>2. i \in 1 .. Len(s) /\ i \in 1 .. i
    BY <1>3, <2>1 DEF Visited
  <2>3. s[i].start <= va
    BY <2>1, <2>2 DEF Visited
  <2>4. va \in PagesOf(s[i])
    BY <1>2, <2>1, <2>2, <2>3
  <2> QED
    BY <1>3, <2>2, <2>4, RunsInCover
<1> QED
  BY <1>4, <1>5

\* The nodes of one list.
LEMMA ListParts ==
  ASSUME Types, NEW l \in Lists
  PROVE  /\ fva[l] \in Seq(HoleNodes) /\ rva[l] \in Seq(RvaNodes)
  BY DEF Types

\* What the invariant says of the lists of one area.
LEMMA ListFacts ==
  ASSUME ListInv, NEW l \in Lists
  PROVE  /\ fva[l] \in Seq(HoleNodes) /\ rva[l] \in Seq(RvaNodes)
         /\ Spaced(fva[l], 1) /\ Spaced(fva[l], 0) /\ Spaced(rva[l], 0)
         /\ Cover(fva[l]) \subseteq Area(l) /\ Cover(rva[l]) \subseteq Area(l)
         /\ Cover(fva[l]) \cap Cover(rva[l]) = {}
<1>1. PICK e \in Seq(Ops) : StackInv(e)
  BY DEF ListInv
<1>2. InOrder(fva, rva) /\ InAreas(fva, rva) /\ Ranges(fva, rva, e)
  BY <1>1 DEF StackInv, ListsInv
<1>3. fva[l] \in Seq(HoleNodes) /\ rva[l] \in Seq(RvaNodes)
  BY ListParts DEF ListInv
<1>4. Spaced(fva[l], 1) /\ Spaced(rva[l], 0)
  BY <1>2 DEF InOrder
<1>5. Spaced(fva[l], 0)
  BY <1>3, <1>4, SpacedOrdered, NodesRanged
<1>6. Cover(fva[l]) \subseteq Area(l) /\ Cover(rva[l]) \subseteq Area(l)
  BY <1>2 DEF InAreas
<1>7. Cover(fva[l]) \subseteq CoverAll(fva) /\ Cover(rva[l]) \subseteq CoverAll(rva)
  BY DEF CoverAll, Lists
<1>8. CoverAll(fva) \cap CoverAll(rva) = {}
  BY <1>2 DEF Ranges
<1> QED
  BY <1>3, <1>4, <1>5, <1>6, <1>7, <1>8

\* At rest, an area is covered by its two lists.
LEMMA AtRestCover ==
  ASSUME ListInv, todo = <<>>, NEW l \in Lists
  PROVE  Cover(fva[l]) \cup Cover(rva[l]) = Area(l)
<1>1. Ranges(fva, rva, <<>>) /\ PagesIn(<<>>, Pushes) = {}
  BY RestParts DEF ListsInv
<1>2. Va \subseteq CoverAll(fva) \cup CoverAll(rva)
  BY <1>1 DEF Ranges
<1>3. \A m \in Lists : Cover(fva[m]) \subseteq Area(m) /\ Cover(rva[m]) \subseteq Area(m)
  BY ListFacts
<1>4. ASSUME NEW v \in Area(l)
      PROVE  v \in Cover(fva[l]) \cup Cover(rva[l])
  <2>1. v \in Va /\ ListOf(v) = l
    BY AreasApart
  <2>2. PICK m \in Lists : v \in Cover(fva[m]) \/ v \in Cover(rva[m])
    BY <1>2, <2>1 DEF CoverAll, Lists
  <2>3. v \in Area(m)
    BY <1>3, <2>2
  <2>4. m = l
    BY <2>1, <2>3, AreasApart
  <2> QED
    BY <2>2, <2>4
<1> QED
  BY <1>3, <1>4

\* The sizes of the areas.
LEMMA AreaSizes ==
  /\ \A l \in Lists : IsFiniteSet(Area(l))
  /\ Cardinality(Area("kmap")) = KmapPages /\ Cardinality(Area("dynamic")) = DynPages
<1>1. KmapPages \in Nat \ {0} /\ DynPages \in Nat \ {0}
  BY RangesAssumption
<1>2. IsFiniteSet(Area("kmap")) /\ Cardinality(Area("kmap")) = KmapPages
  <2>1. PICK b : b = KmapPages - 1
    OBVIOUS
  <2>2. b \in Int /\ 0 \in Int /\ ~(0 > b)
    BY <1>1, <2>1
  <2>3. Area("kmap") = 0 .. b
    BY <2>1 DEF Area
  <2>4. IsFiniteSet(0 .. b) /\ Cardinality(0 .. b) = b - 0 + 1
    BY <2>2, FS_Interval
  <2>5. b - 0 + 1 = KmapPages
    BY <1>1, <2>1
  <2> QED
    BY <2>3, <2>4, <2>5
<1>3. IsFiniteSet(Area("dynamic")) /\ Cardinality(Area("dynamic")) = DynPages
  <2>1. PICK a, b : a = KmapPages /\ b = KmapPages + DynPages - 1
    OBVIOUS
  <2>2. a \in Int /\ b \in Int /\ ~(a > b)
    BY <1>1, <2>1
  <2>3. Area("dynamic") = a .. b
    BY <2>1 DEF Area
  <2>4. IsFiniteSet(a .. b) /\ Cardinality(a .. b) = b - a + 1
    BY <2>2, FS_Interval
  <2>5. b - a + 1 = DynPages
    BY <1>1, <2>1
  <2> QED
    BY <2>3, <2>4, <2>5
<1> QED
  BY <1>2, <1>3 DEF Lists

\* At rest, the sizes of the nodes of an area add up to that of the area.
LEMMA AtRestSizes ==
  ASSUME ListInv, todo = <<>>, NEW l \in Lists
  PROVE  /\ SizesOf(fva[l]) + SizesOf(rva[l]) = Cardinality(Area(l))
         /\ SizesOf(fva[l]) \in Nat /\ SizesOf(rva[l]) \in Nat
<1>1. PICK A, B, s, t : A = Cover(fva[l]) /\ B = Cover(rva[l]) /\ s = fva[l] /\ t = rva[l]
  OBVIOUS
<1>2. A \union B = Area(l) /\ A \cap B = {} /\ A \subseteq Area(l) /\ B \subseteq Area(l)
  BY <1>1, ListFacts, AtRestCover
<1>3. IsFiniteSet(A) /\ IsFiniteSet(B)
  BY <1>2, AreaSizes, FS_Subset
<1>4. Cardinality(A \union B) = Cardinality(A) + Cardinality(B) - Cardinality(A \cap B)
  BY <1>3, FS_Union
<1>5. Cardinality(A) \in Nat /\ Cardinality(B) \in Nat /\ Cardinality(A \cap B) = 0
  BY <1>2, <1>3, FS_CardinalityType, FS_EmptySet
<1>6. s \in Seq(HoleNodes) /\ t \in Seq(RvaNodes) /\ Spaced(s, 0) /\ Spaced(t, 0) /\ A = Cover(s) /\ B = Cover(t)
  BY <1>1, ListFacts
<1>7. SizesOf(s) = Cardinality(A) /\ SizesOf(t) = Cardinality(B)
  BY <1>3, <1>6, NodesRanged, SizesCount
<1>8. Cardinality(Area(l)) = Cardinality(A) + Cardinality(B)
  <2>1. PICK a, b, c, d : a = Cardinality(A) /\ b = Cardinality(B) /\ c = Cardinality(A \cap B) /\ d = Cardinality(A \union B)
    OBVIOUS
  <2>2. a \in Nat /\ b \in Nat /\ c = 0 /\ d = a + (b - c)
    BY <1>4, <1>5, <2>1
  <2>3. d = a + b
    BY <2>2
  <2>4. A \union B = Area(l)
    BY <1>2
  <2> QED
    BY <2>1, <2>3, <2>4
<1> QED
  BY <1>1, <1>5, <1>7, <1>8

\* The invariant implies the partition.
LEMMA PartitionHolds ==
  ASSUME ListInv
  PROVE  RangesPartition
<1>1. TypeOK
  <2>1. ASSUME NEW l \in Lists, NEW lst \in {fva, rva}, NEW i \in DOMAIN lst[l]
        PROVE  PagesOf(lst[l][i]) \subseteq Area(l)
    <3>1. lst = fva \/ lst = rva
      OBVIOUS
    <3>2. Cover(lst[l]) \subseteq Area(l)
      BY <3>1, ListFacts
    <3>3. PagesOf(lst[l][i]) \subseteq Cover(lst[l])
      BY RunsInCover
    <3> QED
      BY <3>2, <3>3
  <2>2. /\ reserve \in [Indices -> Pages \cup {NoPage}] /\ pt \in [Va -> Pages \cup {NoPage}]
        /\ panic \in {"none", "oom", "va", "reserve", "null", "assert", "permanent", "mmu_free"}
    BY DEF ListInv, Types
  <2> QED
    BY <2>1, <2>2 DEF TypeOK
<1>2. ASSUME NEW l \in Lists
      PROVE  /\ Ordered(fva[l]) /\ Ordered(rva[l]) /\ Joined(fva[l])
             /\ Cover(fva[l]) \cap Cover(rva[l]) = {}
  <2>1. PICK s, t : s = fva[l] /\ t = rva[l]
    OBVIOUS
  <2>2. s \in Seq(HoleNodes) /\ t \in Seq(RvaNodes) /\ Spaced(s, 1) /\ Spaced(t, 0)
    BY <2>1, ListFacts
  <2>3. Ordered(s) /\ Ordered(t) /\ Joined(s)
    BY <2>2, SpacedOrdered, NodesRanged
  <2> QED
    BY <2>1, <2>3, ListFacts
<1>3. ASSUME AtRest
      PROVE  /\ \A l \in Lists : Cover(fva[l]) \cup Cover(rva[l]) = Area(l)
             /\ TotalOf(fva) + TotalOf(rva) = KmapPages + DynPages
             /\ \A va \in Va : AddrInfo(fva, rva, va).state = IF va \in Cover(fva[ListOf(va)]) THEN "free" ELSE "reserved"
  <2>1. todo = <<>>
    BY <1>3 DEF AtRest
  <2>2. \A l \in Lists : Cover(fva[l]) \cup Cover(rva[l]) = Area(l)
    BY <2>1, AtRestCover
  <2>3. TotalOf(fva) + TotalOf(rva) = KmapPages + DynPages
    <3>1. PICK a, b, c, d : /\ a = SizesOf(fva["kmap"]) /\ b = SizesOf(fva["dynamic"])
                            /\ c = SizesOf(rva["kmap"]) /\ d = SizesOf(rva["dynamic"])
      OBVIOUS
    <3>2. a \in Nat /\ c \in Nat /\ a + c = KmapPages
      <4>1. "kmap" \in Lists
        BY DEF Lists
      <4> QED
        BY <2>1, <3>1, <4>1, AtRestSizes, AreaSizes
    <3>3. b \in Nat /\ d \in Nat /\ b + d = DynPages
      <4>1. "dynamic" \in Lists
        BY DEF Lists
      <4> QED
        BY <2>1, <3>1, <4>1, AtRestSizes, AreaSizes
    <3>4. TotalOf(fva) = a + b /\ TotalOf(rva) = c + d
      BY <3>1 DEF TotalOf
    <3> QED
      BY <3>2, <3>3, <3>4
  <2>4. ASSUME NEW va \in Va
        PROVE  AddrInfo(fva, rva, va).state = IF va \in Cover(fva[ListOf(va)]) THEN "free" ELSE "reserved"
    <3>1. PICK l, s, t : l = ListOf(va) /\ s = fva[l] /\ t = rva[l]
      OBVIOUS
    <3>2. l \in Lists /\ va \in Area(l) /\ va \in Int
      <4>1. va \in Int
        BY RangesAssumption DEF Va
      <4> QED
        BY <3>1, <4>1, AreasApart
    <3>3. s \in Seq(HoleNodes) /\ t \in Seq(RvaNodes) /\ Spaced(s, 0) /\ Spaced(t, 0) /\ va \in Cover(s) \cup Cover(t)
      BY <2>2, <3>1, <3>2, ListFacts
    <3>4. InfoOf(s, va) # {} <=> va \in Cover(s)
      BY <3>2, <3>3, InfoFacts, NodesRanged
    <3>5. InfoOf(t, va) # {} <=> va \in Cover(t)
      BY <3>2, <3>3, InfoFacts, NodesRanged
    <3>6. CASE va \in Cover(s)
      <4>1. AddrInfo(fva, rva, va) = [state |-> "free", area |-> CHOOSE a \in InfoOf(s, va) : TRUE]
        BY <3>1, <3>4, <3>6 DEF AddrInfo
      <4> QED
        BY <3>1, <3>6, <4>1
    <3>7. CASE va \notin Cover(s)
      <4>1. AddrInfo(fva, rva, va) = [state |-> "reserved", area |-> CHOOSE a \in InfoOf(t, va) : TRUE]
        BY <3>1, <3>3, <3>4, <3>5, <3>7 DEF AddrInfo
      <4> QED
        BY <3>1, <3>7, <4>1
    <3> QED
      BY <3>6, <3>7
  <2> QED
    BY <2>2, <2>3, <2>4
<1> QED
  BY <1>1, <1>2, <1>3 DEF RangesPartition

\* The invariant of the allocator: the lists, the owners of the reserved ranges and the
\* slots of the nodes, with the operations still to be executed.
THEOREM Inductive == Spec => []ListInv
<1>1. Init => ListInv
  BY InitListInv
<1>2. ListInv /\ [Next]_vars => ListInv'
  BY StepNext
<1> QED
  BY <1>1, <1>2, PTL DEF Spec

\* Whatever is asked of the allocator, and however its operations nest, no assertion of the
\* virtual allocator fails: pop_rva finds the range kfree is given, no range freed is
\* permanent, no node is taken from a pool that has none (va.c, reserve_malloc.c).
THEOREM AllocatorNeverMisfires == Spec => []NoFalseAlarm
<1>1. ListInv => NoFalseAlarm
  BY DEF ListInv
<1> QED
  BY <1>1, Inductive, PTL

\* The holes and the reserved ranges of an area are in order, disjoint, within the area, no
\* two holes touch, and with nothing under way they fill the area: no page is lost or
\* handed out twice by the splits and merges of va.c.
THEOREM RangesArePartitioned == Spec => []RangesPartition
<1>1. ListInv => RangesPartition
  BY PartitionHolds
<1> QED
  BY <1>1, Inductive, PTL

-----------------------------------------------------------------------------
(* The nodes and their slots. *)

\* A node of the lists lst, by its list and its index.
InLists(lst, x) == x[1] \in Lists /\ x[2] \in DOMAIN lst[x[1]] /\ x = <<x[1], x[2]>>

\* The nodes of both lists, by list and index.
LEMMA NodesAre ==
  ASSUME NEW lst, NEW x
  PROVE  x \in Nodes(lst) <=> InLists(lst, x)
  BY DEF Nodes, InLists

\* All of them.
LEMMA NodesAll ==
  ASSUME NEW lst
  PROVE  AllOf(lst) = {lst[x[1]][x[2]] : x \in Nodes(lst)}
<1>1. ASSUME NEW r \in AllOf(lst)
      PROVE  r \in {lst[x[1]][x[2]] : x \in Nodes(lst)}
  <2>1. PICK l \in Lists : r \in ToSet(lst[l])
    BY <1>1 DEF AllOf, Lists
  <2>2. PICK i \in DOMAIN lst[l] : r = lst[l][i]
    BY <2>1 DEF ToSet
  <2>3. InLists(lst, <<l, i>>)
    BY <2>2 DEF InLists
  <2>4. <<l, i>> \in Nodes(lst)
    BY <2>3, NodesAre
  <2> QED
    BY <2>2, <2>4
<1>2. ASSUME NEW x \in Nodes(lst)
      PROVE  lst[x[1]][x[2]] \in AllOf(lst)
  <2>1. x[1] \in Lists /\ x[2] \in DOMAIN lst[x[1]]
    BY NodesAre DEF InLists
  <2>2. lst[x[1]][x[2]] \in ToSet(lst[x[1]])
    BY <2>1 DEF ToSet
  <2> QED
    BY <2>1, <2>2 DEF AllOf, Lists
<1> QED
  BY <1>1, <1>2

\* A node is in one place of one list.
OneEach(lst) == \A x, y \in Nodes(lst) : lst[x[1]][x[2]] = lst[y[1]][y[2]] => x = y

\* No node is there twice.
LEMMA NodeOnce ==
  ASSUME NEW lst, NEW S, Ranged(S), lst \in [Lists -> Seq(S)], InAreas(lst, lst), \A l \in Lists : Spaced(lst[l], 0)
  PROVE  OneEach(lst)
<1>1. \A l \in Lists : Ranged(ToSet(lst[l]))
  BY DEF Ranged, ToSet
<1>2. ToSet(lst["kmap"]) \cap ToSet(lst["dynamic"]) = {}
  BY <1>1, ListsApart
<1>3. SUFFICES ASSUME NEW x \in Nodes(lst), NEW y \in Nodes(lst), lst[x[1]][x[2]] = lst[y[1]][y[2]]
               PROVE  x = y
  BY DEF OneEach
<1>4. InLists(lst, x) /\ InLists(lst, y)
  BY NodesAre
<1>5. lst[x[1]][x[2]] \in ToSet(lst[x[1]]) /\ lst[y[1]][y[2]] \in ToSet(lst[y[1]])
  BY <1>4 DEF InLists, ToSet
<1>6. x[1] = y[1]
  BY <1>2, <1>3, <1>4, <1>5 DEF InLists, Lists
<1>7. PICK s, i, j : s = lst[x[1]] /\ i = x[2] /\ j = y[2]
  OBVIOUS
<1>8. s \in Seq(S) /\ Spaced(s, 0) /\ i \in 1 .. Len(s) /\ j \in 1 .. Len(s) /\ s[i] = s[j]
  BY <1>3, <1>4, <1>6, <1>7 DEF InLists
<1>9. i = j
  BY <1>8, SpacedApart
<1> QED
  BY <1>4, <1>6, <1>7, <1>9 DEF InLists

\* The slot of a node, as a function of where the node is in the lists.
LEMMA PlacedOnce ==
  ASSUME NEW lst, OneEach(lst), PlacesApart(AllOf(lst)), NEW f, f = [x \in Nodes(lst) |-> lst[x[1]][x[2]].at]
  PROVE  IsInjective(f) /\ Range(f) = PlacesIn(AllOf(lst))
<1>1. \A x \in Nodes(lst) : lst[x[1]][x[2]] \in AllOf(lst) /\ f[x] = lst[x[1]][x[2]].at
  BY NodesAll
<1>2. DOMAIN f = Nodes(lst)
  OBVIOUS
<1>3. ASSUME NEW x \in Nodes(lst), NEW y \in Nodes(lst), f[x] = f[y]
      PROVE  x = y
  <2>1. lst[x[1]][x[2]] = lst[y[1]][y[2]]
    BY <1>1, <1>3 DEF PlacesApart
  <2> QED
    BY <2>1 DEF OneEach
<1>4. Range(f) = {lst[x[1]][x[2]].at : x \in Nodes(lst)}
  BY <1>1, <1>2 DEF Range
<1>5. PlacesIn(AllOf(lst)) = {lst[x[1]][x[2]].at : x \in Nodes(lst)}
  BY NodesAll DEF PlacesIn
<1> QED
  BY <1>2, <1>3, <1>4, <1>5 DEF IsInjective

\* A record, by its range and its index in it.
IsRecord(y) == y[1] \in Nodes(rva) /\ y[2] \in DOMAIN rva[y[1][1]][y[1][2]].pas /\ y = <<y[1], y[2]>>

\* The records of the ranges, by list and indices.
LEMMA RecordsAre ==
  ASSUME NEW y
  PROVE  y \in Records <=> IsRecord(y)
  BY DEF Records, IsRecord
RecordOf(y) == rva[y[1][1]][y[1][2]].pas[y[2]]

\* All of them.
LEMMA RecordsAll == Recs(AllOf(rva)) = {RecordOf(y) : y \in Records}
<1>1. ASSUME NEW d \in Recs(AllOf(rva))
      PROVE  d \in {RecordOf(y) : y \in Records}
  <2>1. PICK r \in AllOf(rva) : d \in ToSet(r.pas)
    BY <1>1 DEF Recs
  <2>2. PICK x \in Nodes(rva) : r = rva[x[1]][x[2]]
    BY <2>1, NodesAll
  <2>3. PICK j \in DOMAIN r.pas : d = r.pas[j]
    BY <2>1 DEF ToSet
  <2>4. PICK y : y = <<x, j>>
    OBVIOUS
  <2>5. y[1] = x /\ y[2] = j
    BY <2>4
  <2>6. IsRecord(y) /\ RecordOf(y) = d
    BY <2>2, <2>3, <2>4, <2>5 DEF IsRecord, RecordOf
  <2> QED
    BY <2>6, RecordsAre
<1>2. ASSUME NEW y \in Records
      PROVE  RecordOf(y) \in Recs(AllOf(rva))
  <2>1. IsRecord(y)
    BY RecordsAre
  <2>2. PICK r : r = rva[y[1][1]][y[1][2]]
    OBVIOUS
  <2>3. r \in AllOf(rva) /\ y[2] \in DOMAIN r.pas /\ RecordOf(y) = r.pas[y[2]]
    BY <2>1, <2>2, NodesAll DEF IsRecord, RecordOf
  <2>4. RecordOf(y) \in ToSet(r.pas)
    BY <2>3 DEF ToSet
  <2> QED
    BY <2>3, <2>4 DEF Recs
<1> QED
  BY <1>1, <1>2

\* The slot of a record, as a function of where the record is.
LEMMA RecordsOnce ==
  ASSUME OneEach(rva), PlacesApart(Recs(AllOf(rva))), RecordsApart(rva), NEW f, f = [y \in Records |-> RecordOf(y).at]
  PROVE  IsInjective(f) /\ Range(f) = PlacesIn(Recs(AllOf(rva)))
<1>1. DOMAIN f = Records /\ \A y \in Records : f[y] = RecordOf(y).at /\ RecordOf(y) \in Recs(AllOf(rva))
  BY RecordsAll
<1>2. ASSUME NEW y \in Records, NEW z \in Records, f[y] = f[z]
      PROVE  y = z
  <2>1. RecordOf(y) = RecordOf(z)
    BY <1>1, <1>2 DEF PlacesApart
  <2>2. IsRecord(y) /\ IsRecord(z)
    BY RecordsAre
  <2>3. PICK r, q : r = rva[y[1][1]][y[1][2]] /\ q = rva[z[1][1]][z[1][2]]
    OBVIOUS
  <2>4. /\ r \in AllOf(rva) /\ q \in AllOf(rva) /\ y[2] \in DOMAIN r.pas /\ z[2] \in DOMAIN q.pas
        /\ RecordOf(y) = r.pas[y[2]] /\ RecordOf(z) = q.pas[z[2]]
    BY <2>2, <2>3, NodesAll DEF IsRecord, RecordOf
  <2>5. RecordOf(y) \in ToSet(r.pas) /\ RecordOf(z) \in ToSet(q.pas)
    BY <2>4 DEF ToSet
  <2>6. r = q
    BY <2>1, <2>4, <2>5 DEF RecordsApart
  <2>7. y[1] = z[1]
    BY <2>2, <2>3, <2>6 DEF OneEach, IsRecord
  <2>8. y[2] = z[2]
    BY <2>1, <2>4, <2>6 DEF RecordsApart, Distinct
  <2> QED
    BY <2>2, <2>7, <2>8 DEF IsRecord
<1>3. Range(f) = {RecordOf(y).at : y \in Records}
  BY <1>1 DEF Range
<1>4. PlacesIn(Recs(AllOf(rva))) = {RecordOf(y).at : y \in Records}
  BY RecordsAll DEF PlacesIn
<1> QED
  BY <1>1, <1>2, <1>3, <1>4 DEF IsInjective

\* The slots of the nodes of a pool.
LEMMA PlacesAre ==
  ASSUME ListInv, NEW k \in Pools
  PROVE  IsInjective(NodeAt(k)) /\ Range(NodeAt(k)) = Taking(k, fva, rva)
<1>1. PICK e \in Seq(Ops) : StackInv(e)
  BY DEF ListInv
<1>2. InOrder(fva, rva) /\ InAreas(fva, rva) /\ NodesApart(fva, rva)
  BY <1>1 DEF StackInv, ListsInv, SlotsInv
<1>3. PICK f : f = NodeAt(k)
  OBVIOUS
<1>4. OneEach(fva) /\ OneEach(rva)
  <2>1. fva \in [Lists -> Seq(HoleNodes)] /\ rva \in [Lists -> Seq(RvaNodes)]
    BY DEF ListInv, Types
  <2>2. \A l \in Lists : Spaced(fva[l], 0) /\ Spaced(rva[l], 0)
    BY ListFacts
  <2>3. InAreas(fva, fva) /\ InAreas(rva, rva)
    BY <1>2 DEF InAreas
  <2> QED
    BY <2>1, <2>2, <2>3, NodesRanged, NodeOnce
<1>5. CASE k = "fva"
  <2>1. f = [x \in Nodes(fva) |-> fva[x[1]][x[2]].at]
    BY <1>3, <1>5 DEF NodeAt
  <2>2. IsInjective(f) /\ Range(f) = PlacesIn(AllOf(fva))
    BY <1>2, <1>4, <2>1, PlacedOnce DEF NodesApart
  <2> QED
    BY <1>3, <1>5, <2>2 DEF Taking
<1>6. CASE k = "rva"
  <2>1. f = [x \in Nodes(rva) |-> rva[x[1]][x[2]].at]
    BY <1>3, <1>6 DEF NodeAt
  <2>2. IsInjective(f) /\ Range(f) = PlacesIn(AllOf(rva))
    BY <1>2, <1>4, <2>1, PlacedOnce DEF NodesApart
  <2> QED
    BY <1>3, <1>6, <2>2 DEF Taking
<1>7. CASE k = "mdt"
  <2>1. f = [y \in Records |-> RecordOf(y).at]
    BY <1>3, <1>7 DEF NodeAt, RecordOf
  <2>2. IsInjective(f) /\ Range(f) = PlacesIn(Recs(AllOf(rva)))
    BY <1>2, <1>4, <2>1, RecordsOnce DEF NodesApart
  <2> QED
    BY <1>3, <1>7, <2>2 DEF Taking
<1> QED
  BY <1>5, <1>6, <1>7 DEF Pools

\* The invariant implies the account of the nodes.
LEMMA NodesHold ==
  ASSUME ListInv
  PROVE  NodesAccounted
<1>1. PICK e \in Seq(Ops) : StackInv(e)
  BY DEF ListInv
<1>2. ASSUME NEW k \in Pools
      PROVE  /\ IsInjective(NodeAt(k)) /\ Range(NodeAt(k)) \subseteq pools[k].used
             /\ AtRest => /\ Range(NodeAt(k)) = pools[k].used
                          /\ \A c \in ToSet(Tail(pools[k].containers)) : \E s \in pools[k].used : s[1] = c
  <2>1. IsInjective(NodeAt(k)) /\ Range(NodeAt(k)) = Taking(k, fva, rva)
    BY PlacesAre
  <2>2. Taking(k, fva, rva) \subseteq pools[k].used
    BY <1>1 DEF StackInv, SlotsInv, Slots, SlotsOf
  <2>3. ASSUME AtRest
        PROVE  /\ Range(NodeAt(k)) = pools[k].used
               /\ \A c \in ToSet(Tail(pools[k].containers)) : \E s \in pools[k].used : s[1] = c
    <3>1. Slots(pools, fva, rva, <<>>) /\ OpPlaces(<<>>, k) = {} /\ OwnersInv(pools, reserve, tablePages, held, rva, <<>>) /\ Types
      BY <2>3, RestParts DEF AtRest
    <3>2. pools[k].used = Taking(k, fva, rva)
      BY <3>1 DEF Slots, SlotsOf, OpPlaces
    <3>3. \A c \in ToSet(pools[k].containers) : c # FirstContainer[k] => \E s \in pools[k].used : s[1] = c
      BY <3>1 DEF Slots, SlotsOf
    <3>4. /\ Distinct(pools[k].containers) /\ pools[k].containers # <<>> /\ pools[k].containers[1] = FirstContainer[k]
          /\ pools[k].containers \in Seq(Pages)
      BY <3>1 DEF OwnersInv, ClaimsApart, PoolsApart, Permanents, Types
    <3>5. PICK cs : cs = pools[k].containers
      OBVIOUS
    <3>6. cs \in Seq(Pages) /\ cs # <<>> /\ Distinct(cs) /\ cs[1] = FirstContainer[k]
      BY <3>4, <3>5
    <3>7. ASSUME NEW c \in ToSet(Tail(cs))
          PROVE  c \in ToSet(cs) /\ c # FirstContainer[k]
      <4>1. PICK i \in 1 .. Len(Tail(cs)) : c = Tail(cs)[i]
        BY <3>6, <3>7 DEF ToSet
      <4>2. i + 1 \in 1 .. Len(cs) /\ 1 \in 1 .. Len(cs) /\ i + 1 # 1 /\ c = cs[i + 1]
        BY <3>6, <4>1
      <4> QED
        BY <3>6, <4>2 DEF ToSet, Distinct
    <3> QED
      BY <2>1, <3>2, <3>3, <3>5, <3>7
  <2> QED
    BY <2>1, <2>2, <2>3
<1> QED
  BY <1>2 DEF NodesAccounted

\* With nothing under way, the slots in use in the containers of each pool are exactly
\* those of the nodes in the lists, one each: no node is leaked or given to two lists by
\* the nested allocations of va_nodes.
THEOREM NodesAreAccounted == Spec => []NodesAccounted
<1>1. ListInv => NodesAccounted
  BY NodesHold
<1> QED
  BY <1>1, Inductive, PTL
=============================================================================
