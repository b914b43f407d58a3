---------------------------- MODULE BootMemory ----------------------------
(***************************************************************************)
(* Boot, and then one of the containers of lib/ made in a permanent early  *)
(* block, memory that the early allocator handed out for good: a pool, or  *)
(* a ring.                                                                 *)
(***************************************************************************)
EXTENDS EarlyAllocator

CONSTANTS
  BlockBytes,   \* block_size of the pool, t_size of the ring
  Values,       \* elements of the ring
  EMPTY_BLOCK,  \* UINT64_MAX in xalloc.c
  NULL

ASSUME BootAssumption ==
  /\ BlockBytes \in Nat \ {0} /\ PageBytes % BlockBytes = 0
  /\ EMPTY_BLOCK \in Nat \ {0}

VARIABLES handle, mdt, live, panicked, misused, ring, queue, lied

Pool == INSTANCE PoolAllocator
Ring == INSTANCE Pow2Ring

pool == <<handle, mdt, live, panicked, misused>>
ringVars == <<ring, queue, lied>>
vars == <<early, pool, ringVars>>

BootInit == Init /\ Pool!Init /\ Ring!Init

Boot == EarlyNext /\ UNCHANGED <<pool, ringVars>>

\* Early blocks: claims that are no reserved range and no section.
EarlyBlocks ==
  { c \in claims : \A r \in DOMAIN layout.reserved : layout.reserved[r].addr # c.addr }
    \ { Node(layout.sections[s], FALSE, TRUE, FALSE) : s \in DOMAIN layout.sections }

Slots(c) == (c.pages * PageBytes) \div BlockBytes

\* xalloc_init on a permanent early block once the kernel runs.
CreatePool ==
  /\ stage = "kernel" /\ ring = NULL
  /\ \E c \in EarlyBlocks :
       /\ c.permanent
       /\ Pool!xalloc_init(c.addr * PageBytes, BlockBytes, Slots(c))
  /\ UNCHANGED <<early, ringVars>>

UsePool ==
  /\ stage = "kernel" /\ Pool!Ready /\ Pool!PoolNext
  /\ UNCHANGED <<early, ringVars>>

\* A ring of either kind instead.
CreateRing ==
  /\ stage = "kernel" /\ handle = NULL
  /\ \E c \in EarlyBlocks, overwrite, rust \in BOOLEAN :
       c.permanent /\ Ring!New(Slots(c), overwrite, rust)
  /\ UNCHANGED <<early, pool>>

UseRing ==
  /\ stage = "kernel" /\ ring # NULL /\ Ring!RingNext
  /\ UNCHANGED <<early, pool>>

Next == Boot \/ CreatePool \/ UsePool \/ CreateRing \/ UseRing

Spec == BootInit /\ [][Next]_vars

\* A ring in an early block is a bounded queue (Pow2Ring!RingSound).
RingSound == Ring!RingSound

\* The pool keeps its promise (PoolAllocator!PoolSound), and what it gives out
\* lies in one early block, so that it shares no page with the image, OP-TEE or
\* what another allocator was given at boot.
PoolSound ==
  /\ Pool!PoolSound
  /\ \A r \in live : \E c \in EarlyBlocks :
       { Pool!AddressOf(b) \div PageBytes : b \in Pool!BlocksOf(r) } \subseteq PagesOf(c)
=============================================================================
