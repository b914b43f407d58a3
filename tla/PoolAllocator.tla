--------------------------- MODULE PoolAllocator ---------------------------
(***************************************************************************)
(* The pool allocator of lib/malloc/xalloc.c: regions of whole blocks in a *)
(* buffer, described by an id and the blocks that remain of the region     *)
(* (span) for each block.  It has no lock: one call at a time.  Callers    *)
(* may free any address or id, so that its checks are exercised.           *)
(***************************************************************************)
EXTENDS Integers

CONSTANTS
  EMPTY_BLOCK,  \* UINT64_MAX: the id of no region; ids end one before it
  NULL          \* no handle, no address

VARIABLES
  handle,   \* xalloc_handle without its metadata; NULL before xalloc_init
  mdt,      \* _blocks_metadata
  live,     \* ghost: regions handed out and not freed: [id, first, blocks]
  panicked, \* "no", or the PANIC of free_by_idx_
  misused   \* ghost: a free named no live region

pool == <<handle, mdt, live, panicked, misused>>

NOT_FOUND == -1
Free == [reg_id |-> EMPTY_BLOCK, span |-> 1]
Blocks == 0 .. handle.block_n - 1
Ids == 0 .. EMPTY_BLOCK

Init ==
  /\ handle = NULL /\ mdt = <<>>
  /\ live = {} /\ panicked = "no" /\ misused = FALSE

Ready == handle # NULL /\ panicked = "no"

\* xalloc_init fails, with nothing set, when the region is not aligned.
xalloc_init(region_start, block_size, block_n) ==
  /\ handle = NULL
  /\ region_start % block_size = 0
  /\ handle' = [region_start |-> region_start, block_size |-> block_size,
                block_n |-> block_n, reg_id_n |-> 0]
  /\ mdt' = [b \in 0 .. block_n - 1 |-> Free]
  /\ UNCHANGED <<live, panicked, misused>>

-----------------------------------------------------------------------------
(* The searches. *)

idx_is_not_first_id(b) == b # 0 /\ mdt[b - 1].reg_id = mdt[b].reg_id

First(S) == CHOOSE x \in S : \A y \in S : x <= y

\* From block b on, the first n empty blocks: an occupied block is skipped with
\* what remains of its region.
free_from(n) ==
  LET from[b \in 0 .. 2 * handle.block_n] ==
        IF b >= handle.block_n THEN NOT_FOUND
        ELSE IF mdt[b].reg_id # EMPTY_BLOCK THEN from[b + mdt[b].span]
        ELSE IF b + n > handle.block_n THEN NOT_FOUND
        ELSE LET taken == { j \in b .. b + n - 1 : mdt[j].reg_id # EMPTY_BLOCK }
             IN  IF taken = {} THEN b ELSE from[First(taken) + mdt[First(taken)].span]
  IN  from

search_free_region(n) ==
  IF n > handle.block_n THEN NOT_FOUND ELSE free_from(n)[0]

id_from(id) ==
  LET from[b \in 0 .. 2 * handle.block_n] ==
        IF b >= handle.block_n THEN NOT_FOUND
        ELSE IF mdt[b].reg_id = id THEN b ELSE from[b + mdt[b].span]
  IN  from

search_reg_id(id) ==
  IF id >= handle.reg_id_n THEN NOT_FOUND ELSE id_from(id)[0]

\* Faulty: any block of a region is taken for its start.
AnyBlockOfRegion(addr) ==
  LET b == (addr - handle.region_start) \div handle.block_size
  IN  IF addr < handle.region_start \/ b \notin Blocks THEN NOT_FOUND ELSE b

\* The block of an address.  Past the last block the metadata is read before the
\* bound is checked; either way the answer is the same.
search_reg_addr_idx(addr) ==
  LET offset == addr - handle.region_start
      b == offset \div handle.block_size
  IN  IF \/ addr < handle.region_start
         \/ b \notin Blocks
         \/ idx_is_not_first_id(b)
         \/ offset % handle.block_size # 0
      THEN NOT_FOUND
      ELSE b

-----------------------------------------------------------------------------
(* Operations. *)

AddressOf(b) == handle.region_start + b * handle.block_size

\* A call that finds no room changes nothing, nor does one after the last id.
xalloc_alloc(n) ==
  /\ Ready /\ n > 0 /\ handle.reg_id_n # EMPTY_BLOCK - 1
  /\ LET first == search_free_region(n)
         given == first .. first + n - 1
     IN  /\ first # NOT_FOUND
         /\ handle' = [handle EXCEPT !.reg_id_n = @ + 1]
         /\ mdt' = [b \in Blocks |->
                      IF b \in given
                      THEN [reg_id |-> handle.reg_id_n, span |-> n - (b - first)]
                      ELSE mdt[b]]
         /\ live' = live \union
                      {[id |-> handle.reg_id_n, first |-> first, blocks |-> n]}
  /\ UNCHANGED <<panicked, misused>>

FreePanics(why) ==
  panicked' = why /\ UNCHANGED <<handle, mdt, live>>

\* free_by_idx_.  Both searches return no block inside a region, so its own
\* test of that, "not the region start", never panics.
FreeByIdx(b) ==
  \/ b = NOT_FOUND /\ FreePanics("inexistent region")
  \/ /\ b # NOT_FOUND /\ mdt[b].reg_id = EMPTY_BLOCK
     /\ FreePanics("double free")
  \/ /\ b # NOT_FOUND /\ mdt[b].reg_id # EMPTY_BLOCK
     /\ mdt' = [j \in Blocks |->
                  IF j \in b .. b + mdt[b].span - 1 THEN Free ELSE mdt[j]]
     /\ live' = { r \in live : r.first # b }
     /\ UNCHANGED <<handle, panicked>>

xalloc_free(addr) ==
  /\ Ready
  /\ FreeByIdx(search_reg_addr_idx(addr))
  /\ misused' = (\A r \in live : AddressOf(r.first) # addr)

xalloc_free_id(id) ==
  /\ Ready
  /\ FreeByIdx(search_reg_id(id))
  /\ misused' = (\A r \in live : r.id # id)

\* The blocks of the region at an address, 0 when none starts there.
xalloc_get_region_blocks(addr) ==
  IF search_reg_addr_idx(addr) = NOT_FOUND THEN 0 ELSE mdt[search_reg_addr_idx(addr)].span

PoolNext ==
  \/ \E n \in 1 .. handle.block_n + 1 : xalloc_alloc(n)
  \/ \E addr \in 1 .. AddressOf(handle.block_n) : xalloc_free(addr)
  \/ \E id \in 0 .. EMPTY_BLOCK : xalloc_free_id(id)

-----------------------------------------------------------------------------
(* Properties *)

BlocksOf(r) == r.first .. r.first + r.blocks - 1
Given == UNION { BlocksOf(r) : r \in live }

\* The metadata describes exactly the regions that are out, which lie in the
\* buffer and share no block.
MetadataIsLive ==
  /\ \A r \in live :
       /\ BlocksOf(r) \subseteq Blocks
       /\ \A b \in BlocksOf(r) :
            mdt[b] = [reg_id |-> r.id, span |-> r.first + r.blocks - b]
       /\ xalloc_get_region_blocks(AddressOf(r.first)) = r.blocks
  /\ \A r, s \in live : r # s => r.id # s.id /\ BlocksOf(r) \cap BlocksOf(s) = {}
  /\ \A b \in Blocks \ Given : mdt[b] = Free

\* An allocation finds the first hole it fits in, whatever was freed before.
SearchComplete ==
  \A n \in 1 .. handle.block_n :
    LET holes == { b \in Blocks : b .. b + n - 1 \subseteq Blocks \ Given }
    IN  search_free_region(n) = IF holes = {} THEN NOT_FOUND ELSE First(holes)

\* The pool gives out disjoint regions of its buffer, finds the hole that is
\* there, and stops the core exactly at the frees that name no region: the
\* inside of one, one freed before, an id not given yet.
PoolSound ==
  handle # NULL =>
    MetadataIsLive /\ SearchComplete /\ ((panicked # "no") <=> misused)
=============================================================================
