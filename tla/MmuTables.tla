----------------------------- MODULE MmuTables -----------------------------
(***************************************************************************)
(* The translation tables of arm/mmu/mmu.c while mmu_map and mmu_unmap     *)
(* change them, one store at a time, under slock_; the hardware walkers    *)
(* and mmu_peek read them without it.  Addresses count pages of one        *)
(* granule.  A table has Fanout entries, is named by where it is, <<level, *)
(* region>>, and its memory is a table as long as it is in tables.         *)
(* An operator headed "Faulty" is the definition that follows it with a    *)
(* bug the code does not have: no specification uses it.                   *)
(***************************************************************************)
EXTENDS Integers, FiniteSets

CONSTANTS
  MaxLevel,     \* the level of the pages: 3, or 2 with 64K granules
  Fanout,       \* entries of a table
  VaPages,      \* virtual pages modelled
  Deltas,       \* distances from a virtual address to the physical one
  Attrs,        \* page attributes
  NoAttr,       \* the attribute bits of an entry that is not valid
  TableMemory,  \* tables the allocator has
  FreeWorks,    \* whether free_ frees; the function in use panics
  CarefulUnmaps \* callers unmap pages all mapped, or one aligned block

Levels == 0 .. MaxLevel
Va == 0 .. VaPages - 1

ASSUME MmuAssumption ==
  /\ MaxLevel \in Nat \ {0} /\ Fanout \in Nat \ {0, 1} /\ VaPages \in Nat \ {0}
  /\ Deltas \subseteq Nat /\ TableMemory \in Nat \ {0} /\ NoAttr \notin Attrs
  /\ {FreeWorks, CarefulUnmaps} \subseteq BOOLEAN

VARIABLES
  tables,  \* the entries of every allocated table
  op,      \* the call: [kind, va, pa, size, attr, level]; level is its loop's l
  freeing, \* the table unlinked and yet to be freed, or <<>>
  panic    \* the assertion or panic that stopped the core, or "none"

vars == <<tables, op, freeing, panic>>

-----------------------------------------------------------------------------
(* Descriptors: bits 0 is not valid, 1 a block, 3 a table or, at MaxLevel, *)
(* a page.                                                                 *)

Null == [bits |-> 0, out |-> 0, attr |-> NoAttr]
TableDesc == [bits |-> 3, out |-> 0, attr |-> NoAttr]

\* bd_build
BlockDesc(pa, attr, l) ==
  [bits |-> IF l = MaxLevel THEN 3 ELSE 1, out |-> pa, attr |-> attr]

Valid(d) == d.bits # 0
IsTable(d, l) == d.bits = 3 /\ l < MaxLevel

Cover[l \in Levels] == IF l = MaxLevel THEN 1 ELSE Fanout * Cover[l + 1]

\* One top table translates every address modelled.
ASSUME VaAssumption == VaPages <= Fanout * Cover[0]

TableAt(va, l) == <<l, va \div (Fanout * Cover[l])>>
Index(va, l) == (va \div Cover[l]) % Fanout
NullTable == [i \in 0 .. Fanout - 1 |-> Null]

\* What a read of a table finds; a table that is not allocated maps nothing.
Entry(va, l) ==
  IF TableAt(va, l) \in DOMAIN tables THEN tables[TableAt(va, l)][Index(va, l)] ELSE Null

\* The hardware walk: [pa, attr] of a page, or none.
None == [pa |-> 0, attr |-> NoAttr]
WalkFrom[l \in Levels] ==
  [va \in Va |->
     LET d == Entry(va, l)
     IN  IF ~Valid(d) THEN None
         ELSE IF IsTable(d, l) THEN WalkFrom[l + 1][va]
         ELSE [pa |-> d.out + (va % Cover[l]), attr |-> d.attr]]
Walk(va) == WalkFrom[0][va]

-----------------------------------------------------------------------------
(* The calls.                                                              *)

Idle == [kind |-> "none", va |-> 0, pa |-> 0, size |-> 0, attr |-> NoAttr, level |-> 0]
Remaining == op.va .. op.va + op.size - 1

\* get_target_lvl: the first level whose blocks fit.
Fits(o, l) == o.size >= Cover[l] /\ o.va % Cover[l] = 0 /\ o.pa % Cover[l] = 0
TargetLevel(o) == CHOOSE l \in 1 .. MaxLevel : Fits(o, l) /\ \A k \in 1 .. l - 1 : ~Fits(o, k)

AlignedBlock(va, size) == \E l \in Levels : size = Cover[l] /\ va % size = 0

Init ==
  /\ tables = [t \in {<<0, 0>>} |-> NullTable]
  /\ op = Idle /\ freeing = <<>> /\ panic = "none"

Map(va, delta, size, attr) ==
  /\ op.kind = "none"
  /\ va + size <= VaPages
  /\ op' = [kind |-> "map", va |-> va, pa |-> va + delta, size |-> size,
            attr |-> attr, level |-> 0]
  /\ UNCHANGED <<tables, freeing, panic>>

Unmap(va, size) ==
  /\ op.kind = "none"
  /\ va + size <= VaPages
  /\ CarefulUnmaps => \/ AlignedBlock(va, size)
                      \/ \A p \in va .. va + size - 1 : Walk(p) # None
  /\ op' = [Idle EXCEPT !.kind = "unmap", !.va = va, !.size = size]
  /\ UNCHANGED <<tables, freeing, panic>>

\* The loop goes on after n bytes, or the call returns.
Advance(n) ==
  op' = IF op.size = n THEN Idle
        ELSE [op EXCEPT !.va = @ + n, !.size = @ - n, !.level = 0,
                        !.pa = IF op.kind = "map" THEN @ + n ELSE 0]

Panic(what) == panic' = what /\ UNCHANGED <<tables, op, freeing>>

Working == op.kind # "none" /\ freeing = <<>> /\ panic = "none"
Descending == Working /\ op.level < TargetLevel(op)
Here == TableAt(op.va, op.level)
Current == Entry(op.va, op.level)
Deeper == op' = [op EXCEPT !.level = @ + 1]

\* tbl_from_td
Descend ==
  /\ Descending /\ IsTable(Current, op.level)
  /\ Deeper
  /\ UNCHANGED <<tables, freeing, panic>>

OutOfTables == Cardinality(DOMAIN tables) >= TableMemory

\* A table is allocated, filled and then linked at the entry met.
Link(filled) ==
  IF OutOfTables
    THEN Panic("alloc")
    ELSE /\ tables' = [t \in DOMAIN tables \cup {TableAt(op.va, op.level + 1)} |->
                         IF t = Here THEN [tables[t] EXCEPT ![Index(op.va, op.level)] = TableDesc]
                         ELSE IF t \in DOMAIN tables THEN tables[t]
                         ELSE filled]
         /\ Deeper
         /\ UNCHANGED <<freeing, panic>>

NewTable ==
  /\ Descending /\ op.kind = "map" /\ ~Valid(Current)
  /\ Link(NullTable)

\* Faulty: every new entry maps the start of the block.
SplitToStart ==
  /\ Descending /\ Current.bits = 1
  /\ Link([i \in 0 .. Fanout - 1 |-> BlockDesc(Current.out, Current.attr, op.level + 1)])

\* split_block
Split ==
  /\ Descending /\ Current.bits = 1
  /\ Link([i \in 0 .. Fanout - 1 |->
             BlockDesc(Current.out + i * Cover[op.level + 1], Current.attr, op.level + 1)])

\* Faulty: the loop stays where it is.
SkipNothing ==
  /\ Descending /\ op.kind = "unmap" /\ ~Valid(Current)
  /\ Advance(0)
  /\ UNCHANGED <<tables, freeing, panic>>

\* Faulty: more may be skipped than is left of the range.
Entire(m, n) == n

\* The already_unmapped branch of UNLOCKED_unmap_: a whole entry is skipped.
Smaller(m, n) == IF m < n THEN m ELSE n
SkipUnmapped ==
  /\ Descending /\ op.kind = "unmap" /\ ~Valid(Current)
  /\ Advance(Smaller(op.size, Cover[op.level]))
  /\ UNCHANGED <<tables, freeing, panic>>

\* Faulty: the table replaced is not freed.
StoreLeaks(d) ==
  /\ tables' = [tables EXCEPT ![Here][Index(op.va, op.level)] = d]
  /\ Advance(Cover[op.level]) /\ UNCHANGED <<freeing, panic>>

\* The entry of the target level is stored; a table that was there is freed.
Store(d) ==
  /\ tables' = [tables EXCEPT ![Here][Index(op.va, op.level)] = d]
  /\ IF IsTable(Current, op.level)
       THEN freeing' = TableAt(op.va, op.level + 1) /\ UNCHANGED op
       ELSE Advance(Cover[op.level]) /\ UNCHANGED freeing
  /\ UNCHANGED panic

MapStore ==
  /\ Working /\ op.kind = "map" /\ op.level = TargetLevel(op)
  /\ Store(BlockDesc(op.pa, op.attr, op.level))

\* dc_get_type asserts that an entry at MaxLevel is a page, valid or not.
UnmapStore ==
  /\ Working /\ op.kind = "unmap" /\ op.level = TargetLevel(op)
  /\ IF op.level = MaxLevel /\ ~Valid(Current)
       THEN Panic("type")
       ELSE Store(Null)

(* UNLOCKED_free_subtree, which looks at the entries of a table with the   *)
(* level of the entry that pointed to it: a page is taken for a table, and *)
(* the assertion of tbl_from_td fails.                                     *)
RegionOf(t, l) == t[2] \div (Cover[l] \div Cover[t[1]])
Under(t) == {u \in DOMAIN tables : u[1] >= t[1] /\ RegionOf(u, t[1]) = t[2]}
LevelGiven(u) == u[1] - 1
MistakesPage(u) == LevelGiven(u) + 1 = MaxLevel /\ \E i \in 0 .. Fanout - 1 : Valid(tables[u][i])

Frees(t) == Under(t)
FreeSubtree ==
  /\ freeing # <<>> /\ panic = "none"
  /\ IF ~FreeWorks \/ (\E u \in Under(freeing) : MistakesPage(u))
       THEN Panic("free")
       ELSE /\ tables' = [t \in DOMAIN tables \ Frees(freeing) |-> tables[t]]
            /\ freeing' = <<>>
            /\ Advance(Cover[op.level])
            /\ UNCHANGED panic

Step ==
  \/ Descend \/ NewTable \/ Split \/ SkipUnmapped
  \/ MapStore \/ UnmapStore \/ FreeSubtree

Next ==
  \/ Step
  \/ \E va \in Va, size \in 1 .. VaPages :
       \/ \E delta \in Deltas, attr \in Attrs : Map(va, delta, size, attr)
       \/ Unmap(va, size)

Spec == Init /\ [][Next]_vars
FairSpec == Spec /\ WF_vars(Step)

-----------------------------------------------------------------------------
(* mmu_peek and mmu_region_is_mapped, which read the tables without the    *)
(* lock: the places their loops visit, each with the entry found.          *)

EndLevel(va) ==
  CHOOSE l \in Levels :
    ~IsTable(Entry(va, l), l) /\ \A k \in 0 .. l - 1 : IsTable(Entry(va, k), k)
BlockStart(va) == va - (va % Cover[EndLevel(va)])

\* Faulty: the cover is added to the address itself.
PastCover(va) == va + Cover[EndLevel(va)]

BlockEnd(va) == BlockStart(va) + Cover[EndLevel(va)]
VisitedFrom[va \in Va] ==
  [end \in 1 .. VaPages |->
     {va} \cup IF BlockEnd(va) < end THEN VisitedFrom[BlockEnd(va)][end] ELSE {}]
Visited(va, size) == VisitedFrom[va][va + size]

Report(va) == [va |-> BlockStart(va), bytes |-> Cover[EndLevel(va)],
               entry |-> Entry(va, EndLevel(va))]
Peek(va, size) == {Report(v) : v \in Visited(va, size)}
RegionIsMapped(va, size) == \A v \in Visited(va, size) : Valid(Report(v).entry)

-----------------------------------------------------------------------------
(* What the tables promise.                                                *)

\* The shape of the state; addresses stay inside the call's range.
TypeOK ==
  /\ \A t \in DOMAIN tables :
       /\ t[1] \in Levels /\ DOMAIN tables[t] = 0 .. Fanout - 1
       /\ \A i \in 0 .. Fanout - 1 : tables[t][i].bits \in {0, 1, 3}
  /\ op.kind \in {"none", "map", "unmap"} /\ op.level \in Levels
  /\ op.size \in 0 .. VaPages - op.va
  /\ panic \in {"none", "alloc", "free", "type"}
  /\ freeing = <<>> \/ freeing \in DOMAIN tables

Parent(t) == tables[<<t[1] - 1, t[2] \div Fanout>>][t[2] % Fanout]
Child(t, i) == <<t[1] + 1, t[2] * Fanout + i>>

\* No table is lost: every one allocated is linked, or being freed.
NoTableLost ==
  \A t \in DOMAIN tables \ {<<0, 0>>} :
    \/ freeing # <<>> /\ t \in Under(freeing)
    \/ <<t[1] - 1, t[2] \div Fanout>> \in DOMAIN tables /\ IsTable(Parent(t), t[1] - 1)

\* No walker follows an entry to memory that is no table, or about to be freed.
NoDanglingEntry ==
  \A t \in DOMAIN tables : \A i \in 0 .. Fanout - 1 :
    IsTable(tables[t][i], t[1]) => Child(t, i) \in DOMAIN tables \ {freeing}

\* A block maps memory aligned to its size, below level 0: what the hardware
\* demands and split_block asserts.
BlocksAligned ==
  \A t \in DOMAIN tables : \A i \in 0 .. Fanout - 1 :
    LET d == tables[t][i]
    IN  Valid(d) /\ ~IsTable(d, t[1]) => t[1] > 0 /\ d.out % Cover[t[1]] = 0

\* Whatever the range, mmu_peek reports each page of it once, as the hardware
\* translates it, and mmu_region_is_mapped says whether all are mapped.
Covers(r, p) == p \in r.va .. r.va + r.bytes - 1
Tells(r, p) ==
  IF Valid(r.entry) THEN [pa |-> r.entry.out + (p - r.va), attr |-> r.entry.attr] ELSE None
PeekIsWalk ==
  LET walk == [p \in Va |-> Walk(p)]
  IN  \A va \in Va : \A size \in 1 .. VaPages - va :
        LET reports == Peek(va, size)
        IN  /\ \A p \in va .. va + size - 1 :
                 /\ \A r \in reports : Covers(r, p) => Tells(r, p) = walk[p]
                 /\ Cardinality({r \in reports : Covers(r, p)}) = 1
            /\ RegionIsMapped(va, size) = \A p \in va .. va + size - 1 : walk[p] # None

\* The pages the call has yet to set, and what it will set them to.
Done == IF freeing = <<>> THEN 0 ELSE Cover[op.level]
ToDo ==
  [p \in (op.va + Done) .. (op.va + op.size - 1) |->
     IF op.kind = "map" THEN [pa |-> op.pa + p - op.va, attr |-> op.attr] ELSE None]

\* A walker sees each page of a call change once, from what it was to what is
\* asked, and no other page change at all, whatever is split or replaced.
Promise == INSTANCE PageMap
  WITH Pages <- Va,
       Translations <- [pa : Nat, attr : Attrs \cup {NoAttr}],
       map <- [p \in Va |-> Walk(p)],
       todo <- ToDo
PromiseSpec == Promise!Spec

\* Every call returns, or stops the core.
CallsEnd == op.kind # "none" ~> op.kind = "none" \/ panic # "none"

\* After every store the tables form a tree that a walker may follow and that
\* the driver can free: none lost, none dangling, no block misaligned.
TablesSound == NoTableLost /\ NoDanglingEntry /\ BlocksAligned

\* UNLOCKED_free_subtree frees the tables of a range mapped page by page.
PagesNeverTakenForTables == panic # "free"
=============================================================================
