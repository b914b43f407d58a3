----------------------------- MODULE KernelHeap -----------------------------
(***************************************************************************)
(* raw_kmalloc and raw_kfree (kernel/mm/malloc) with the virtual allocator *)
(* and the reserve of pages they work on.  Callers hold a recursive lock,  *)
(* so one call runs at a time, but a call may enter itself: a list node    *)
(* that is freed may empty its container, which raw_kfree takes back in    *)
(* the middle of the call, and the reserve is refilled by raw_kmalloc.     *)
(* todo is the stack of what is yet to be done, innermost call first.      *)
(* Physical pages come from the ledger that PageAllocator implements; the  *)
(* tables of the MMU are seen as PageMap sees them, with the pages they    *)
(* take from the reserve.                                                  *)
(* An operator headed "Faulty" is the definition that follows it with a    *)
(* bug the code does not have: no specification uses it.                   *)
(***************************************************************************)
EXTENDS VaRanges, NodeContainers, TLC

CONSTANTS
  MAX_ORDER, power_of2,
  ReserveSize,   \* RESERVE_MALLOC_SIZE
  Region,        \* pages of a table of the last level
  Requests,      \* what callers ask for: [pages, kmap]
  MaxHeld,       \* bound: allocations held by callers at once
  AnyBlock       \* whether page_malloc lends any block, or the lowest (a bound)

ASSUME HeapAssumption ==
  /\ MAX_ORDER \in Nat /\ power_of2 \in [0 .. MAX_ORDER -> Nat \ {0}] /\ power_of2[0] = 1
  /\ \A a, b \in 0 .. MAX_ORDER : a < b => power_of2[a] < power_of2[b]
  /\ ReserveSize \in Nat \ {0} /\ Region \in Nat \ {0} /\ MaxHeld \in Nat
  /\ Requests \subseteq [pages : Nat \ {0}, kmap : BOOLEAN] /\ AnyBlock \in BOOLEAN
  /\ \A r \in Requests : r.kmap => \E o \in 0 .. MAX_ORDER : r.pages = power_of2[o]
  /\ ReserveSize + 3 < KmapPages /\ KmapPages % Region = 0

VARIABLES
  fva, rva,    \* per list, its free and its reserved ranges
  pools,       \* the containers of the nodes of each kind
  reserve,     \* reserved_addr[i], or NoPage where its bit is clear
  lent,        \* external: the blocks page_malloc has lent
  pt,          \* external: the physical page each virtual page is mapped to
  split,       \* external: the regions mapped by a table, not by a block
  tablePages,  \* external: the pages these tables took
  held,        \* ghost: what callers hold, [va, pages, phys]
  todo,        \* what the running call has yet to do
  panic        \* what stopped the core, or "none"

lists == <<fva, rva, pools>>
memory == <<lent, pt, split, tablePages>>
vars == <<lists, reserve, memory, held, todo, panic>>

Ledger == INSTANCE BlockLedger WITH N <- KmapPages
NoPage == -1
Pages == 0 .. KmapPages - 1
Indices == 1 .. ReserveSize

-----------------------------------------------------------------------------
Op(do, va, pa, n) == [do |-> do, va |-> va, pa |-> pa, n |-> n]
Doing(do) == panic = "none" /\ todo # <<>> /\ Head(todo).do = do
Now == Head(todo)
Then(ops) == todo' = ops \o Tail(todo)
Panic(what) == panic' = what /\ UNCHANGED <<lists, reserve, memory, held, todo>>

(* reserve_malloc hands out the page of the lowest bit set.  It updates    *)
(* the tag of the page, so find_rva must know it: a search that runs past  *)
(* the end of a list dereferences a null pointer.                          *)
Reserved == {i \in Indices : reserve[i] # NoPage}
Lowest(k) == {i \in Reserved : Cardinality({j \in Reserved : j <= i}) <= k}
LowestPages(k) == {reserve[i] : i \in Lowest(k)}
NextPage == IF Reserved = {} THEN NoPage ELSE reserve[Min(Reserved)]

Known(va) == Found(rva[ListOf(va)], va) # {}
Lacks(k) ==
  IF Cardinality(Reserved) < k THEN "reserve"
  ELSE IF \A p \in LowestPages(k) : Known(p) THEN "none" ELSE "null"
TakePages(k) == reserve' = [i \in Indices |-> IF i \in Lowest(k) THEN NoPage ELSE reserve[i]]

\* The pages of the reserve that a new node of pool k takes.
Cost(k) == IF IsFull(pools[k], k) THEN 1 ELSE 0
Slot(k) == NewSlot(pools[k], k, NextPage)
WithNode(k) == [pools EXCEPT ![k] = Grown(@, k, NextPage)]

FreeNodeOp(k, slot) == Op(k, slot[1], slot[2], 0)

-----------------------------------------------------------------------------
(* Boot: the three first containers and the reserve are allocated early;   *)
(* vmalloc_update_memregs registers them.  The linear map is mapped by     *)
(* blocks, free pages included.                                            *)
Hole(at, start, size) == [at |-> at, start |-> start, size |-> size]
Reservation(at, start, size, permanent) ==
  [at |-> at, start |-> start, size |-> size, permanent |-> permanent, pas |-> <<>>]

FirstContainer == [k \in Pools |-> CASE k = "fva" -> 0 [] k = "rva" -> 1 [] k = "mdt" -> 2]
Early == 3 + ReserveSize

Init ==
  /\ fva = [l \in Lists |-> IF l = "dynamic" THEN <<Hole(<<0, 2>>, KmapPages, DynPages)>>
                            ELSE <<Hole(<<0, 1>>, Early, KmapPages - Early)>>]
  /\ rva = [l \in Lists |-> IF l = "dynamic" THEN <<>>
                            ELSE [i \in 1 .. Early |-> Reservation(<<1, i>>, i - 1, 1, i <= 3)]]
  /\ pools = [k \in Pools |->
       [containers |-> <<FirstContainer[k]>>,
        used |-> {<<FirstContainer[k], i>> :
                    i \in 1 .. CASE k = "fva" -> 2 [] k = "rva" -> Early [] k = "mdt" -> 0}]]
  /\ reserve = [i \in Indices |-> i + 2]
  /\ lent = [p \in Pages |-> IF p < Early THEN 0 ELSE Ledger!NotLent]
  /\ pt = [v \in Va |-> IF v \in Pages THEN v ELSE NoPage]
  /\ split = {} /\ tablePages = {} /\ held = {} /\ todo = <<>> /\ panic = "none"

-----------------------------------------------------------------------------
(* pop_fva, with the node that reserve_from_fva_node frees or takes.       *)
Pop(l, c, n, ops) ==
  LET r     == fva[l][c.i]
      whole == PagesOf(r) = Run(c.va, n)
      cost  == IF TakesMiddle(r, c.va, n) THEN Cost("fva") ELSE 0
  IN  IF Lacks(cost) # "none" THEN Panic(Lacks(cost))
      ELSE /\ fva' = [fva EXCEPT ![l] = ReplaceNode(@, c.i, Rest(r, c.va, n, Slot("fva")))]
           /\ pools' = IF TakesMiddle(r, c.va, n) THEN WithNode("fva") ELSE pools
           /\ TakePages(cost)
           /\ Then((IF whole THEN <<FreeNodeOp("fva", r.at)>> ELSE <<>>) \o ops)
           /\ UNCHANGED <<rva, memory, held, panic>>

PopKmap ==
  /\ Doing("pop_kmap")
  /\ LET fits == ExactFit(fva["kmap"], Now.va, Now.n)
     IN  IF fits = {} THEN Panic("va") ELSE \E c \in fits : Pop("kmap", c, Now.n, <<>>)

\* What raw_kmalloc_dynamic goes on to do is known once the address is.
PopDynamic ==
  /\ Doing("pop_dynamic")
  /\ LET n == Now.n
         fits == FirstFit(fva["dynamic"], n)
     IN  IF fits = {} THEN Panic("va")
         ELSE \E c \in fits :
                Pop("dynamic", c, n, <<Op("push_rva", c.va, NoPage, n), Op("assign", c.va, c.va, n),
                                       Op("fill", 1, NoPage, 0), Op("return", c.va, NoPage, n)>>)

PushRva ==
  /\ Doing("push_rva")
  /\ LET l    == ListOf(Now.va)
         node == Reservation(Slot("rva"), Now.va, Now.n, FALSE)
     IN  IF Lacks(Cost("rva")) # "none" THEN Panic(Lacks(Cost("rva")))
         ELSE /\ rva' = [rva EXCEPT ![l] = InsertAt(@, Place(@, Now.va), node)]
              /\ pools' = WithNode("rva")
              /\ TakePages(Cost("rva"))
              /\ Then(<<>>)
              /\ UNCHANGED <<fva, memory, held, panic>>

-----------------------------------------------------------------------------
(* mmu_map and mmu_unmap.  A region that is not mapped as a whole block    *)
(* needs a table, which mmu_allocator_fn takes from the reserve; a block   *)
(* over a table calls mmu_free_fn, which panics.                           *)
RegionOf(v) == v \div Region
RegionPages(r) == Run(r * Region, Region)
Touched(va, n) == {RegionOf(v) : v \in Run(va, n)}
Whole(va, pa, n) ==
  {r \in Touched(va, n) : RegionPages(r) \subseteq Run(va, n) /\ (va - pa) % Region = 0}
Mapped(r) == \E v \in RegionPages(r) : pt[v] # NoPage

SetPages(va, pa, n, to, new) ==
  IF Lacks(Cardinality(new)) # "none" THEN Panic(Lacks(Cardinality(new)))
  ELSE IF Whole(va, pa, n) \cap split # {} THEN Panic("mmu_free")
  ELSE /\ pt' = [v \in Va |-> IF v \in Run(va, n) THEN to[v] ELSE pt[v]]
       /\ split' = split \cup new
       /\ tablePages' = tablePages \cup LowestPages(Cardinality(new))
       /\ TakePages(Cardinality(new))
       /\ Then(<<>>)
       /\ UNCHANGED <<lists, lent, held, panic>>

MmuMap ==
  /\ Doing("map")
  /\ LET va == Now.va  pa == Now.pa  n == Now.n
     IN  SetPages(va, pa, n, [v \in Run(va, n) |-> pa + v - va],
                  Touched(va, n) \ (Whole(va, pa, n) \cup split))

\* Faulty: the range rounds up to a page more.
MmuUnmapOneMore ==
  /\ Doing("unmap")
  /\ LET va == Now.va
         n == Now.n + 1
         part == Touched(va, n) \ (Whole(va, va, n) \cup split)
     IN  SetPages(va, va, n, [v \in Run(va, n) |-> NoPage], {r \in part : Mapped(r)})

MmuUnmap ==
  /\ Doing("unmap")
  /\ LET va == Now.va  n == Now.n
         part == Touched(va, n) \ (Whole(va, va, n) \cup split)
     IN  SetPages(va, va, n, [v \in Run(va, n) |-> NoPage], {r \in part : Mapped(r)})

-----------------------------------------------------------------------------
(* raw_kmalloc *)

\* page_malloc lends a block of order o, or stops the core.
Lendable(pa, o) ==
  /\ pa % power_of2[o] = 0 /\ Run(pa, power_of2[o]) \subseteq Pages
  /\ \A k \in Pages : lent[k] # Ledger!NotLent => Run(k, power_of2[lent[k]]) \cap Run(pa, power_of2[o]) = {}
NoneLendable(o) == \A pa \in Pages : ~Lendable(pa, o)
PageMalloc(pa, o) ==
  /\ Lendable(pa, o)
  /\ AnyBlock \/ \A q \in Pages : q < pa => ~Lendable(q, o)
  /\ Ledger!Lend(pa, o)

\* The largest order not above n pages.
log2_floor(n) == Max({o \in 0 .. MAX_ORDER : power_of2[o] <= n})

KmapOps(pa, n) == <<Op("pop_kmap", pa, pa, n), Op("push_rva", pa, pa, n), Op("map", pa, pa, n)>>

\* A call of raw_kmalloc; the configuration is the linear or the dynamic one.
RawKmallocKmap(n) ==
  /\ todo = <<>> /\ panic = "none" /\ Cardinality(held) < MaxHeld
  /\ IF NoneLendable(log2_floor(n)) THEN Panic("oom")
     ELSE \E pa \in Pages :
            /\ PageMalloc(pa, log2_floor(n))
            /\ todo' = KmapOps(pa, n) \o <<Op("fill", 1, NoPage, 0), Op("return", pa, NoPage, n)>>
            /\ UNCHANGED <<lists, reserve, pt, split, tablePages, held, panic>>

RawKmallocDynamic(n) ==
  /\ todo = <<>> /\ panic = "none" /\ Cardinality(held) < MaxHeld
  /\ todo' = <<Op("pop_dynamic", NoPage, NoPage, n)>>
  /\ UNCHANGED <<lists, reserve, memory, held, panic>>

\* The records of a range are in the order of their addresses.
RecordPlace(s, va) == Min(Among(s, LAMBDA d : d.va > va) \cup {Len(s) + 1})

\* A turn of the loop of raw_kmalloc_dynamic: page_malloc and vmalloc_push_pa
\* on the range whose token is pa; the map comes next.
Assign ==
  /\ Doing("assign")
  /\ LET va == Now.va
         o  == log2_floor(Now.n)
         i  == Min(Found(rva["dynamic"], Now.pa))
         rest == Now.n - power_of2[o]
     IN  IF NoneLendable(o) THEN Panic("oom")
         ELSE IF Lacks(Cost("mdt")) # "none" THEN Panic(Lacks(Cost("mdt")))
         ELSE \E pa \in Pages :
                /\ PageMalloc(pa, o)
                /\ rva' = [rva EXCEPT !["dynamic"][i].pas =
                             InsertAt(@, RecordPlace(@, va), [at |-> Slot("mdt"), pa |-> pa, order |-> o, va |-> va])]
                /\ pools' = WithNode("mdt")
                /\ TakePages(Cost("mdt"))
                /\ Then(<<Op("map", va, pa, power_of2[o])>> \o
                        (IF rest = 0 THEN <<>> ELSE <<Op("assign", va + power_of2[o], Now.pa, rest)>>))
                /\ UNCHANGED <<fva, pt, split, tablePages, held, panic>>

\* reserve_malloc_fill: the next clear bit at or after the loop's, around the
\* end, gets a page of its own raw_kmalloc; that call may clear other bits.
Clear == Indices \ Reserved
NextClear(i) == IF \E j \in Clear : j >= i THEN Min({j \in Clear : j >= i}) ELSE Min(Clear)

Fill ==
  /\ Doing("fill")
  /\ IF Clear = {} THEN Then(<<>>) /\ UNCHANGED <<lists, reserve, memory, held, panic>>
     ELSE IF NoneLendable(0) THEN Panic("oom")
     ELSE \E pa \in Pages :
            LET i == NextClear(Now.va)
            IN  /\ PageMalloc(pa, 0)
                /\ Then(KmapOps(pa, 1) \o <<Op("keep", i, pa, 1), Op("fill", i + 1, NoPage, 0)>>)
                /\ UNCHANGED <<lists, reserve, pt, split, tablePages, held, panic>>

Keep ==
  /\ Doing("keep")
  /\ reserve' = [reserve EXCEPT ![Now.va] = Now.pa]
  /\ Then(<<>>)
  /\ UNCHANGED <<lists, memory, held, panic>>

Return ==
  /\ Doing("return")
  /\ held' = held \cup {[va |-> Now.va, pages |-> Now.n]}
  /\ Then(<<>>)
  /\ UNCHANGED <<lists, reserve, memory, panic>>

-----------------------------------------------------------------------------
(* raw_kfree *)

RawKfree(h) ==
  /\ todo = <<>> /\ panic = "none"
  /\ held' = held \ {h}
  /\ todo' = <<Op("kfree", h.va, NoPage, 0)>>
  /\ UNCHANGED <<lists, reserve, memory, panic>>

\* A caller frees an address that starts no allocation.
BadFree(va) ==
  /\ todo = <<>> /\ panic = "none" /\ ~Known(va)
  /\ todo' = <<Op("kfree", va, NoPage, 0)>>
  /\ UNCHANGED <<lists, reserve, memory, held, panic>>

\* An empty list is the only one in which find_rva does not find: its loop
\* tests the caller's pointer and not its own.
NotFound(l) == IF rva[l] = <<>> THEN "assert" ELSE "null"

\* Faulty: the physical pages of a dynamic range are not freed.
KfreeKeepsPages ==
  /\ Doing("kfree")
  /\ LET va == Now.va
         l  == ListOf(va)
         r  == rva[l][Min(Found(rva[l], va))]
     IN  IF ~Known(va) THEN Panic(NotFound(l))
         ELSE IF r.permanent THEN Panic("permanent")
         ELSE /\ Then(<<Op("pop_rva", va, NoPage, r.size), Op("push_fva", va, NoPage, r.size)>> \o
                      (IF l = "kmap" THEN <<Op("page_free", va, va, r.size)>> ELSE <<>>) \o
                      <<Op("unmap", va, NoPage, r.size)>>)
              /\ UNCHANGED <<lists, reserve, memory, held, panic>>

\* The token is looked up, and the physical pages of a dynamic range are freed.
Kfree ==
  /\ Doing("kfree")
  /\ LET va == Now.va
         l  == ListOf(va)
         r  == rva[l][Min(Found(rva[l], va))]
     IN  IF ~Known(va) THEN Panic(NotFound(l))
         ELSE IF r.permanent THEN Panic("permanent")
         ELSE /\ lent' = [p \in Pages |-> IF \E d \in ToSet(r.pas) : d.pa = p
                                          THEN Ledger!NotLent ELSE lent[p]]
              /\ Then(<<Op("pop_rva", va, NoPage, r.size), Op("push_fva", va, NoPage, r.size)>> \o
                      (IF l = "kmap" THEN <<Op("page_free", va, va, r.size)>> ELSE <<>>) \o
                      <<Op("unmap", va, NoPage, r.size)>>)
              /\ UNCHANGED <<lists, reserve, pt, split, tablePages, held, panic>>

\* pop_rva unlinks the node before its parts are freed.
PopRva ==
  /\ Doing("pop_rva")
  /\ LET l == ListOf(Now.va)
         i == Min(Found(rva[l], Now.va))
         r == rva[l][i]
     IN  /\ rva' = [rva EXCEPT ![l] = ReplaceNode(@, i, <<>>)]
         /\ Then([j \in DOMAIN r.pas |-> FreeNodeOp("mdt", r.pas[j].at)] \o <<FreeNodeOp("rva", r.at)>>)
  /\ UNCHANGED <<fva, pools, reserve, memory, held, panic>>

PushFva ==
  /\ Doing("push_fva")
  /\ LET l == ListOf(Now.va)
         s == fva[l]
         joined == JoinsPrev(s, Now.va) \/ JoinsNext(s, Now.va, Now.n)
         merges == JoinsPrev(s, Now.va) /\ JoinsNext(s, Now.va, Now.n)
         cost == IF joined THEN 0 ELSE Cost("fva")
     IN  IF Lacks(cost) # "none" THEN Panic(Lacks(cost))
         ELSE /\ fva' = [fva EXCEPT ![l] =
                           Pushed(s, Now.va, Now.n, Hole(Slot("fva"), Now.va, Now.n))]
              /\ pools' = IF joined THEN pools ELSE WithNode("fva")
              /\ TakePages(cost)
              /\ Then(IF merges THEN <<FreeNodeOp("fva", s[Place(s, Now.va)].at)>> ELSE <<>>)
              /\ UNCHANGED <<rva, memory, held, panic>>

PageFree ==
  /\ Doing("page_free")
  /\ Ledger!TakeBack(Now.pa)
  /\ Then(<<>>)
  /\ UNCHANGED <<lists, reserve, pt, split, tablePages, held, panic>>

\* Faulty: the walk of container_free does not advance.
FreeNodeWalksOnSpot(k) ==
  /\ Doing(k)
  /\ LET slot == <<Now.va, Now.pa>>
     IN  IF LeavesEmpty(pools[k], slot) THEN UNCHANGED <<pools, todo>>
         ELSE pools' = [pools EXCEPT ![k] = Shrunk(@, slot)] /\ Then(<<>>)
  /\ UNCHANGED <<fva, rva, reserve, memory, held, panic>>

\* free_fva_node, free_rva_node, or a turn of vmalloc_pa_mdt_free: an empty
\* container is unlinked and freed at once.
FreeNode(k) ==
  /\ Doing(k)
  /\ LET slot == <<Now.va, Now.pa>>
     IN  /\ pools' = [pools EXCEPT ![k] = Shrunk(@, slot)]
         /\ Then(IF LeavesEmpty(pools[k], slot) THEN <<Op("kfree", Now.va, NoPage, 0)>> ELSE <<>>)
  /\ UNCHANGED <<fva, rva, reserve, memory, held, panic>>

-----------------------------------------------------------------------------
Step ==
  \/ PopKmap \/ PopDynamic \/ PushRva \/ MmuMap \/ MmuUnmap \/ Assign \/ Fill \/ Keep \/ Return
  \/ Kfree \/ PopRva \/ PushFva \/ PageFree \/ \E k \in Pools : FreeNode(k)

Next ==
  \/ Step
  \/ \E r \in Requests : IF r.kmap THEN RawKmallocKmap(r.pages) ELSE RawKmallocDynamic(r.pages)
  \/ \E h \in held : RawKfree(h)

NextAnyFree == Next \/ \E va \in Va : BadFree(va)

Spec == Init /\ [][Next]_vars
FairSpec == Spec /\ WF_vars(Step)
SpecAnyFree == Init /\ [][NextAnyFree]_vars

-----------------------------------------------------------------------------
(* Properties. *)

AtRest == todo = <<>> /\ panic = "none"

\* The shape of the state.
TypeOK ==
  /\ \A l \in Lists, lst \in {fva, rva} : \A i \in DOMAIN lst[l] : PagesOf(lst[l][i]) \subseteq Area(l)
  /\ reserve \in [Indices -> Pages \cup {NoPage}]
  /\ pt \in [Va -> Pages \cup {NoPage}]
  /\ panic \in {"none", "oom", "va", "reserve", "null", "assert", "permanent", "mmu_free"}

\* The state has its shape, and free and reserved ranges are in the order of
\* their addresses and share no page, whatever call runs; between calls they fill the whole space, free
\* ranges that touch have been joined, and the queries say so.
Ordered(s) == \A i \in 1 .. Len(s) - 1 : End(s[i]) <= s[i + 1].start
Joined(s) == \A i \in 1 .. Len(s) - 1 : End(s[i]) < s[i + 1].start
Cover(s) == UNION {PagesOf(r) : r \in ToSet(s)}
RangesPartition ==
  /\ TypeOK
  /\ \A l \in Lists :
       /\ Ordered(fva[l]) /\ Ordered(rva[l])
       /\ Cover(fva[l]) \cap Cover(rva[l]) = {}
       /\ AtRest => Joined(fva[l]) /\ Cover(fva[l]) \cup Cover(rva[l]) = Area(l)
  /\ AtRest => /\ TotalOf(fva) + TotalOf(rva) = KmapPages + DynPages
               /\ \A va \in Va : AddrInfo(fva, rva, va).state =
                    IF va \in Cover(fva[ListOf(va)]) THEN "free" ELSE "reserved"

\* No two nodes share a place in memory and every node in a list has one;
\* between calls no place is taken for nothing and no container but the first
\* is empty.
Nodes(lst) == UNION {{l} \X DOMAIN lst[l] : l \in Lists}
Records == UNION {{x} \X DOMAIN rva[x[1]][x[2]].pas : x \in Nodes(rva)}
NodeAt(k) ==
  CASE k = "fva" -> [x \in Nodes(fva) |-> fva[x[1]][x[2]].at]
    [] k = "rva" -> [x \in Nodes(rva) |-> rva[x[1]][x[2]].at]
    [] k = "mdt" -> [y \in Records |-> rva[y[1][1]][y[1][2]].pas[y[2]].at]
NodesAccounted ==
  \A k \in Pools :
    /\ IsInjective(NodeAt(k)) /\ Range(NodeAt(k)) \subseteq pools[k].used
    /\ AtRest => /\ Range(NodeAt(k)) = pools[k].used
                 /\ \A c \in ToSet(Tail(pools[k].containers)) : \E s \in pools[k].used : s[1] = c

\* The allocator's own pages, which it reads and writes through the linear
\* map, stay mapped there while they are its own. Between calls every physical
\* page that is lent has one owner: a container, the reserve, a table, or an
\* allocation of a caller; and a virtual page of the dynamic area is mapped
\* when a caller holds it.
HeldRuns == UNION {Run(h.va, h.pages) : h \in held}
Uses ==
  {<<"reserve", i>> : i \in Reserved} \cup {<<"table", p>> : p \in tablePages}
  \cup {<<"held", v>> : v \in HeldRuns}
  \cup UNION {{k} \X DOMAIN pools[k].containers : k \in Pools}
PageOf(use) ==
  CASE use[1] = "reserve" -> reserve[use[2]]
    [] use[1] = "table" -> use[2]
    [] use[1] = "held" -> pt[use[2]]
    [] OTHER -> pools[use[1]].containers[use[2]]
UsedPages == [use \in Uses |-> PageOf(use)]
Containers == UNION {ToSet(pools[k].containers) : k \in Pools}
ReservePages == {reserve[i] : i \in Reserved}
LentPages == UNION {Run(p, power_of2[lent[p]]) : p \in {q \in Pages : lent[q] # Ledger!NotLent}}
PagesAccounted ==
  /\ \A p \in Containers \cup ReservePages \cup tablePages : pt[p] = p
  /\ AtRest =>
       /\ IsInjective(UsedPages) /\ Range(UsedPages) = LentPages
       /\ {v \in Area("dynamic") : pt[v] # NoPage} = Area("dynamic") \cap HeldRuns

\* Nothing the allocator took for itself or lent is lost or counted twice:
\* neither slots for its list nodes nor pages.
HeapAccounted == NodesAccounted /\ PagesAccounted

\* Callers that free what they hold never see the null dereference of
\* find_rva nor a failed assertion.
NoFalseAlarm == panic \notin {"null", "assert", "permanent"}

\* An allocation is a range and pages of its own until it is freed.
Promise == INSTANCE HeapPromise
  WITH Phys <- Pages, allocs <- {[v \in Run(h.va, h.pages) |-> pt[v]] : h \in held}
PromiseSpec == Promise!Spec

\* raw_kfree ends, or stops the core, however many containers it gives back
\* and takes in doing so.
InFree == todo # <<>> /\ Last(todo).do \notin {"return", "pop_dynamic"}
FreesEnd == InFree ~> ~InFree \/ panic # "none"

\* "it can actually get a new idx from the reserve, thats why the for loop is
\* inside a while" (reserve_malloc.c:99-100): the loops fill the reserve.
RefillEnds == Doing("fill") ~> Clear = {} \/ panic # "none"

\* "After finishing the initial allocation, it must allocate new pages for
\* refilling the reserve" (reserve_malloc.h:11-12): freeing memory never finds
\* the reserve empty.
FreeNeverStarves == panic = "reserve" => ~InFree

\* "attempted to free an unreserved virtual address" (vmalloc.c:353) is what a
\* caller that frees such an address is told.
BadFreeIsReported == panic # "null"
=============================================================================
