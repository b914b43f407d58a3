--------------------------- MODULE PageAllocator ---------------------------
(***************************************************************************)
(* The physical page allocator, kernel/mm/phys/page_allocator.c: a buddy   *)
(* allocator over N pages.  Its callers serialise the calls under          *)
(* the lock of raw_kmalloc.c, so an operation is a sequence of steps, one  *)
(* per turn of a loop of the source, that no other operation interleaves.  *)
(* Boot runs page_allocator_init and page_allocator_update_memregs, then   *)
(* page_malloc and page_free are called in any order.                      *)
(***************************************************************************)
EXTENDS BuddyLists, Sequences

CONSTANT MemRegs   \* early_kalloc's regions, in order of address: sequence of
                   \* [addr, pages, free, permanent], addr in pages

Regions == [addr : Pages, pages : Nat, free : BOOLEAN, permanent : BOOLEAN]

ASSUME MemRegsAssumption ==
  /\ MemRegs \in Seq(Regions)
  /\ \A r \in DOMAIN MemRegs : MemRegs[r].addr + MemRegs[r].pages <= N
  /\ \A r, s \in DOMAIN MemRegs :
        r < s => MemRegs[r].addr + MemRegs[r].pages <= MemRegs[s].addr

VARIABLES
  mem,       \* nodes and free_lists
  pc,        \* the loop being executed, "ready" between calls
  cur,       \* i of init, split_to_order_and_pop and try_merge; cur of reserve
  cur_o,     \* the local o (cur_o in reserve) of the same loops
  target_o,  \* order requested of page_malloc or reserve
  reg,       \* i of page_allocator_update_memregs, from 1
  j,         \* the page it reserves next
  remaining, \* pages still to be listed (init) or reserved (memregs)
  lent,      \* ghost: lent[i] is the order of the block handed out at i
  pinned     \* ghost: first pages of the blocks of permanent regions

vars == <<mem, pc, cur, cur_o, target_o, reg, j, remaining, lent, pinned>>

NotLent == -1
Halted == {"out of pages", "double reservation", "double free", "bad node"}
Loops  == {"init", "memregs", "reserve", "split", "merge"}

-----------------------------------------------------------------------------
(* Boot. *)

Init ==
  /\ mem = ClearMemory
  /\ pc = "init"
  /\ cur = 0 /\ cur_o = 0 /\ target_o = 0
  /\ reg = 1 /\ j = 0 /\ remaining = N
  /\ lent = [i \in Pages |-> NotLent]
  /\ pinned = {}

IsLog2Floor(o, x) == power_of2[o] <= x /\ x < 2 * power_of2[o]

\* One turn of page_allocator_init's second loop: the largest block that
\* fits in what remains is listed.
InitBlock ==
  /\ pc = "init" /\ remaining > 0
  /\ \E o \in Orders :
       /\ IsLog2Floor(o, remaining)
       /\ mem' = push_to_list(set_order(mem, cur, o), cur)
       /\ cur' = cur + power_of2[o]
       /\ remaining' = remaining - power_of2[o]
  /\ UNCHANGED <<pc, cur_o, target_o, reg, j, lent, pinned>>

\* Enter region r of page_allocator_update_memregs, or return after the last.
EnterRegion(r) ==
  /\ reg' = r
  /\ IF r \in DOMAIN MemRegs
     THEN pc' = "memregs" /\ j' = MemRegs[r].addr /\ remaining' = MemRegs[r].pages
     ELSE pc' = "ready" /\ j' = 0 /\ remaining' = 0

InitDone ==
  /\ pc = "init" /\ remaining = 0
  /\ cur' = 0
  /\ EnterRegion(1)
  /\ UNCHANGED <<mem, cur_o, target_o, lent, pinned>>

\* A free region, or one wholly reserved, is left for the next one.
NextRegion ==
  /\ pc = "memregs"
  /\ MemRegs[reg].free \/ remaining = 0
  /\ EnterRegion(reg + 1)
  /\ UNCHANGED <<mem, cur, cur_o, target_o, lent, pinned>>

\* Faulty: log2_ceil for log2_floor.
IsCeilOrder(o) ==
  /\ power_of2[o] < 2 * remaining /\ Aligned(j, o)
  /\ \A k \in Orders : k > o /\ power_of2[k] < 2 * remaining => ~Aligned(j, k)

\* The order of the next reservation: from log2_floor(remaining) down to the
\* first to which j is aligned.
IsReserveOrder(o) ==
  /\ power_of2[o] <= remaining /\ Aligned(j, o)
  /\ \A k \in Orders : k > o /\ power_of2[k] <= remaining => ~Aligned(j, k)

\* reserve(j, o) up to remove_from_list(base): the smallest free block that
\* starts at a parent of j.
ReserveFind ==
  /\ pc = "memregs" /\ ~MemRegs[reg].free /\ remaining > 0
  /\ \E o \in Orders :
       /\ IsReserveOrder(o)
       /\ target_o' = o
       /\ LET parents == {k \in o .. MAX_ORDER :
                            is_free_block(mem, parent_at_order(j, k), k)}
          IN  IF parents = {}
              THEN pc' = "double reservation" /\ UNCHANGED <<mem, cur, cur_o>>
              ELSE \E k \in parents :
                     /\ \A l \in parents : k <= l
                     /\ mem' = remove_from_list(mem, parent_at_order(j, k))
                     /\ cur' = parent_at_order(j, k) /\ cur_o' = k
                     /\ pc' = "reserve"
  /\ UNCHANGED <<reg, j, remaining, lent, pinned>>

\* reserve's test of the half that page j is in.
InLeftHalf(right) == j < right

\* One turn of reserve's loop: the half that does not hold page j is listed.
ReserveHalve ==
  /\ pc = "reserve" /\ cur_o > target_o
  /\ LET o     == cur_o - 1
         right == cur + power_of2[o]
         other == IF InLeftHalf(right) THEN right ELSE cur
     IN  /\ mem' = push_to_list(set_order(mem, other, o), other)
         /\ cur' = IF InLeftHalf(right) THEN cur ELSE right
         /\ cur_o' = o
  /\ UNCHANGED <<pc, target_o, reg, j, remaining, lent, pinned>>

\* The end of reserve and of the turn of page_allocator_update_memregs that
\* called it: the caller takes the block at j, reserve marks the one at cur.
ReserveDone ==
  /\ pc = "reserve" /\ cur_o = target_o
  /\ mem' = set_order(mem, cur, target_o)
  /\ lent' = [lent EXCEPT ![j] = target_o]
  /\ pinned' = IF MemRegs[reg].permanent THEN pinned \cup {j} ELSE pinned
  /\ remaining' = remaining - power_of2[target_o]
  /\ j' = j + power_of2[target_o]
  /\ pc' = "memregs"
  /\ cur' = 0 /\ cur_o' = 0 /\ target_o' = 0
  /\ UNCHANGED reg

-----------------------------------------------------------------------------
(* page_malloc *)

\* The list of the order is not empty: its head is returned.
MallocPop(o) ==
  /\ pc = "ready"
  /\ mem.free_lists[o] # NULL_IDX
  /\ mem' = remove_from_list(mem, mem.free_lists[o])
  /\ lent' = [lent EXCEPT ![mem.free_lists[o]] = o]
  /\ UNCHANGED <<pc, cur, cur_o, target_o, reg, j, remaining, pinned>>

\* The head of the first non-empty list above is popped and takes the order
\* requested.
MallocSplit(o) ==
  /\ pc = "ready"
  /\ \E k \in (o + 1) .. MAX_ORDER :
       LET i == mem.free_lists[k] IN
       /\ i # NULL_IDX
       /\ \A l \in o .. (k - 1) : mem.free_lists[l] = NULL_IDX
       /\ mem' = set_order(remove_from_list(mem, i), i, o)
       /\ cur' = i /\ cur_o' = k /\ target_o' = o
  /\ pc' = "split"
  /\ UNCHANGED <<reg, j, remaining, lent, pinned>>

MallocPanic(o) ==
  /\ pc = "ready"
  /\ \A k \in o .. MAX_ORDER : mem.free_lists[k] = NULL_IDX
  /\ pc' = "out of pages" /\ target_o' = o
  /\ UNCHANGED <<mem, cur, cur_o, reg, j, remaining, lent, pinned>>

\* Faulty: o is never decremented.
SplitStepStuck ==
  /\ pc = "split" /\ cur_o > target_o
  /\ LET b == buddy_of(cur, cur_o - 1)
     IN  mem' = push_to_list(set_order(mem, b, cur_o - 1), b)
  /\ UNCHANGED <<pc, cur, cur_o, target_o, reg, j, remaining, lent, pinned>>

\* One turn of split_to_order_and_pop's loop: the upper half is listed.
SplitStep ==
  /\ pc = "split" /\ cur_o > target_o
  /\ LET o == cur_o - 1
         b == buddy_of(cur, o)
     IN  /\ mem' = push_to_list(set_order(mem, b, o), b)
         /\ cur_o' = o
  /\ UNCHANGED <<pc, cur, target_o, reg, j, remaining, lent, pinned>>

\* Faulty: the loop stops an order too soon.
SplitDoneEarly ==
  /\ pc = "split" /\ cur_o <= target_o + 1
  /\ lent' = [lent EXCEPT ![cur] = target_o]
  /\ pc' = "ready"
  /\ cur' = 0 /\ cur_o' = 0 /\ target_o' = 0
  /\ UNCHANGED <<mem, reg, j, remaining, pinned>>

SplitDone ==
  /\ pc = "split" /\ cur_o = target_o
  /\ lent' = [lent EXCEPT ![cur] = target_o]
  /\ pc' = "ready"
  /\ cur' = 0 /\ cur_o' = 0 /\ target_o' = 0
  /\ UNCHANGED <<mem, reg, j, remaining, pinned>>

-----------------------------------------------------------------------------
(* page_free: a caller gives back a block it was lent. *)

Free(i) ==
  /\ pc = "ready"
  /\ lent[i] # NotLent /\ i \notin pinned
  /\ lent' = [lent EXCEPT ![i] = NotLent]
  /\ IF mem.free[i]
     THEN pc' = "double free" /\ UNCHANGED <<mem, cur>>
     ELSE pc' = "merge" /\ mem' = push_to_list(mem, i) /\ cur' = i
  /\ UNCHANGED <<cur_o, target_o, reg, j, remaining, pinned>>

\* Faulty: a free buddy of any order will do.
MergesWithAny(b, o) == b \in Pages /\ mem.free[b]

\* try_merge's test of the buddy of a block of order o.
MergesWith(b, o) == b \in Pages /\ is_free_block(mem, b, o)

\* One turn of try_merge's loop: the block and its free buddy become one
\* block of the next order.
MergeStep ==
  /\ pc = "merge"
  /\ LET o == mem.order[cur]
         b == buddy_of(cur, o)
         left == IF cur < b THEN cur ELSE b
     IN  /\ o # MAX_ORDER /\ MergesWith(b, o)
         /\ mem' = push_to_list(
                     set_order(remove_from_list(remove_from_list(mem, cur), b),
                               left, o + 1), left)
         /\ cur' = left
  /\ UNCHANGED <<pc, cur_o, target_o, reg, j, remaining, lent, pinned>>

\* Faulty: the loop may stop at a buddy that is free.
MergeDoneAnyway ==
  /\ pc = "merge"
  /\ pc' = "ready"
  /\ cur' = 0
  /\ UNCHANGED <<mem, cur_o, target_o, reg, j, remaining, lent, pinned>>

\* The block is of the largest order, or its buddy is not a free block of
\* the same order.
MergeDone ==
  /\ pc = "merge"
  /\ LET o == mem.order[cur]
         b == buddy_of(cur, o)
     IN  o = MAX_ORDER \/ (b \in Pages /\ ~MergesWith(b, o))
  /\ pc' = "ready"
  /\ cur' = 0
  /\ UNCHANGED <<mem, cur_o, target_o, reg, j, remaining, lent, pinned>>

\* get_node(b) of a buddy past the last page: DEBUG_ASSERT(i < N) stops a
\* DEBUG build here; a release build reads past the nodes, and nothing is
\* said of what it does next.
MergeBadNode ==
  /\ pc = "merge"
  /\ LET o == mem.order[cur]
     IN  o # MAX_ORDER /\ buddy_of(cur, o) \notin Pages
  /\ pc' = "bad node"
  /\ UNCHANGED <<mem, cur, cur_o, target_o, reg, j, remaining, lent, pinned>>

-----------------------------------------------------------------------------
\* A PANIC (or a failed assertion) parks the core for ever.
Hang == pc \in Halted /\ UNCHANGED vars

Step == \/ InitBlock \/ InitDone \/ NextRegion
        \/ ReserveFind \/ ReserveHalve \/ ReserveDone
        \/ SplitStep \/ SplitDone
        \/ MergeStep \/ MergeDone \/ MergeBadNode

Malloc == \E o \in Orders : MallocPop(o) \/ MallocSplit(o) \/ MallocPanic(o)

Next == Step \/ Malloc \/ (\E i \in Pages : Free(i)) \/ Hang

Spec == Init /\ [][Next]_vars

\* The core that called the allocator keeps executing it.
FairSpec == Spec /\ WF_vars(Step)

-----------------------------------------------------------------------------
(* Properties. *)

TypeOK ==
  /\ mem \in Memory
  /\ pc \in Loops \cup Halted \cup {"ready"}
  /\ cur \in 0 .. N /\ cur_o \in Orders /\ target_o \in Orders
  /\ reg \in Nat /\ j \in Nat /\ remaining \in Nat
  /\ lent \in [Pages -> Orders \cup {NotLent}]
  /\ pinned \subseteq Pages

\* The free lists are doubly linked lists of the nodes of their order that
\* are marked free, and no other node has links: every DEBUG_ASSERT of
\* push_to_list and remove_from_list holds whenever they run.
LinksConsistent == LinksOK(mem)

\* The pages a walk along free_lists[o] meets, as is_in_free_list walks it.
OnList(o) ==
  LET node[k \in Pages] ==
        IF k = 0 THEN mem.free_lists[o]
        ELSE IF node[k - 1] = NULL_IDX THEN NULL_IDX ELSE mem.next[node[k - 1]]
  IN  {node[k] : k \in Pages} \ {NULL_IDX}

\* The assertion of get_free (line 97): the free bit of a node says whether
\* a walk along the list of its order reaches it.
FreeBitIsMembership ==
  \A i \in Pages : mem.free[i] <=> i \in OnList(mem.order[i])

FreeBlocks == {<<i, mem.order[i]>> : i \in {k \in Pages : mem.free[k]}}
LentBlocks == {<<i, lent[i]>> : i \in {k \in Pages : lent[k] # NotLent}}
\* The block an operation has taken off the lists and not yet handed out.
InTransit  == IF pc \in {"reserve", "split"} THEN {<<cur, cur_o>>} ELSE {}
AllBlocks  == FreeBlocks \cup LentBlocks \cup InTransit

\* No page is in two blocks: the blocks on the lists, the ones handed out and
\* the one being split are aligned to their size, lie inside memory and are
\* disjoint, so no page is lent twice or lent while it is free.
BlocksDisjoint ==
  /\ \A b \in AllBlocks : Aligned(b[1], b[2]) /\ Block(b[1], b[2]) \subseteq Pages
  /\ \A b, c \in AllBlocks : b # c => Block(b[1], b[2]) \cap Block(c[1], c[2]) = {}

\* No page leaks: once init has listed them, every page is in some block at
\* every step of every split, merge and reservation.
NoPageLost ==
  UNION {Block(b[1], b[2]) : b \in AllBlocks}
    = IF pc = "init" THEN 0 .. (cur - 1) ELSE Pages

\* The node of a lent block keeps the order it was lent at, so page_free,
\* which is given only the address, gives back the whole block.
NodeKeepsOrder ==
  \A i \in Pages : lent[i] # NotLent => mem.order[i] = lent[i] /\ ~mem.free[i]

\* Between calls no two free buddies of one order remain unmerged.
FullyCoalesced ==
  pc = "ready" =>
    \A i \in Pages : mem.free[i] /\ mem.order[i] # MAX_ORDER =>
       LET b == buddy_of(i, mem.order[i]) IN
       ~(b \in Pages /\ is_free_block(mem, b, mem.order[i]))

\* page_malloc panics for want of pages only when every aligned run of the
\* order requested has a page in use: fragmentation by the allocator itself
\* (unmerged buddies, a list overlooked by the search) never causes it.
PanicsOnlyWhenFull ==
  pc = "out of pages" =>
    \A i \in Pages :
      Aligned(i, target_o) /\ Block(i, target_o) \subseteq Pages =>
        \E b \in LentBlocks : Block(i, target_o) \cap Block(b[1], b[2]) # {}

\* reserve ends on the block the caller takes: the walk down from the parent
\* found by the search ends at page j.
ReservesWhatIsTaken == pc = "reserve" /\ cur_o = target_o => cur = j

\* With disjoint regions and callers that free what they were lent, the
\* panics of a double reservation and of a double free never sound.
NoFalseAlarm == pc \notin {"double reservation", "double free"}

\* What the allocator asserts and panics about is true: no alarm of a caller's
\* mistake sounds without one, the assertion of get_free holds, and it is out
\* of pages only when it must be.
AlarmsAreDue == NoFalseAlarm /\ FreeBitIsMembership /\ PanicsOnlyWhenFull

\* The blocks are sound: none overlaps another, a lent block is known by its
\* order until it is freed, and reserve takes the block its caller marks.
BlocksSound == BlocksDisjoint /\ NodeKeepsOrder /\ ReservesWhatIsTaken

\* The allocator implements the ledger of lent blocks.
Ledger == INSTANCE BlockLedger
LedgerSpec == Ledger!Spec

\* Every loop ends: a call returns, or the core hangs in a panic.
CallsEnd == (pc \in Loops) ~> (pc \in Halted \cup {"ready"})
=============================================================================
