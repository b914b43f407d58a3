--------------------------- MODULE EarlyAllocator ---------------------------
(***************************************************************************)
(* Memory during boot: what mm_info_init checks of the memory map, the     *)
(* early allocator of kernel/mm/init/mem_regions/early_kalloc.c, the       *)
(* identity mapping built with it, the hand-over of its regions to the     *)
(* page and the virtual allocator, and the relocation that leaves only the *)
(* high half mapped.  One core, interrupts off: the calls of mm_early_init *)
(* come one after the other.  Addresses and sizes are in pages.  The list  *)
(* lies in the memory it describes, from the end of the DDR down.          *)
(* An operator headed "Faulty" is the definition that follows it with a    *)
(* bug the code does not have: no specification uses it.                   *)
(***************************************************************************)
EXTENDS Naturals, Sequences, FiniteSets

CONSTANTS
  Layouts,    \* memory maps: MEM_REGIONS, MEM_REGIONS_RESERVED, the sections of
              \* the image in the order they are reserved, and _start
  PageBytes,  \* KPAGE_SIZE
  NodeBytes,  \* sizeof(early_memreg)
  ListNodeBytes, \* sizeof(ek_node), at most half a page
  Calls,      \* early_kalloc calls of the allocators' init functions:
              \* [bytes, permanent, device]
  MaxTables,  \* tables that early_identity_mapping allocates
  MaxCalls,   \* calls before early_kalloc_get_memregs
  LowSpan,    \* pages reloc_cfg_end unmaps from 0: 5 GiB
  HighSpan    \* pages it unmaps from the first free heap address: 1 TiB

End(r) == r.addr + r.pages
PagesOf(r) == r.addr .. End(r) - 1

Spans == [addr : Nat, pages : Nat \ {0}]
Regions == [addr : Nat, pages : Nat \ {0}, type : {"ddr", "mmio", "reserved"}]

\* mem_regions.c lists its regions in order of address, each where the one
\* before it ends, and reserved ranges that share no page; the sections of the
\* image and the regions are whole pages, at least one, and _start is in the
\* image.  No init function asks for nothing.  The regions end below the 5 GiB
\* that reloc_cfg_end unmaps.
ASSUME EarlyAssumption ==
  /\ \A l \in Layouts :
       /\ l.regions \in Seq(Regions) \ {<<>>}
       /\ {l.reserved, l.sections} \subseteq Seq(Spans) \ {<<>>}
       /\ \A r \in 1 .. Len(l.regions) - 1 : End(l.regions[r]) = l.regions[r + 1].addr
       /\ \A r, s \in DOMAIN l.reserved :
            r # s => PagesOf(l.reserved[r]) \intersect PagesOf(l.reserved[s]) = {}
       /\ \A r \in DOMAIN l.regions : End(l.regions[r]) <= LowSpan
       /\ \E s \in DOMAIN l.sections : l.kernel \in PagesOf(l.sections[s])
  /\ {PageBytes, NodeBytes, ListNodeBytes} \subseteq Nat \ {0}
  /\ 2 * ListNodeBytes <= PageBytes
  /\ Calls \subseteq [bytes : Nat \ {0}, permanent : BOOLEAN, device : BOOLEAN]
  /\ {MaxTables, MaxCalls, LowSpan, HighSpan} \subseteq Nat

VARIABLES
  layout,  \* the memory map this machine boots with
  stage,   \* the call of mm_early_init that runs, or "halted", or "overrun"
  i,       \* its loop index, from 1
  nodes,   \* the list of ek_nodes, in list order; memreg_count is its length
  buf,     \* memregs_buf, <<>> until early_kalloc_get_memregs
  lo, hi,  \* pages mapped at their own address and at KERNEL_BASE
  mmu,     \* [on, high]: the enable bit of SCTLR_EL1, and whether the driver
           \* reaches the tables at KERNEL_BASE (physmap_offset)
  tables,  \* ghost: the pages of the tables
  calls,   \* early_kalloc calls made of those bounded by MaxTables, MaxCalls
  claims,  \* ghost: what was reserved or handed out, as it was asked for
  fault    \* ghost: the request the core stopped at

early == <<layout, stage, i, nodes, buf, lo, hi, mmu, tables, calls, claims, fault>>

NoFault == [why |-> "none", addr |-> 0, pages |-> 0]

Ddr(l) == { r \in DOMAIN l.regions : l.regions[r].type = "ddr" }
AddrSpace(l) ==
  CHOOSE m \in { End(l.regions[r]) : r \in DOMAIN l.regions } :
    \A r \in DOMAIN l.regions : End(l.regions[r]) <= m

Init ==
  /\ layout \in Layouts
  /\ stage = "info" /\ i = 1
  /\ nodes = <<>> /\ buf = <<>>
  /\ lo = {} /\ hi = {} /\ calls = 0
  /\ mmu = [on |-> FALSE, high |-> FALSE] /\ tables = {}
  /\ claims = {} /\ fault = NoFault

RegionPages == UNION { PagesOf(layout.regions[r]) : r \in DOMAIN layout.regions }
DdrPages == UNION { PagesOf(layout.regions[r]) : r \in Ddr(layout) }
Claimed == UNION { PagesOf(c) : c \in claims }

div_ceil(a, b) == (a + b - 1) \div b

\* alloc_node puts the nodes of the list one below the other from the end of
\* the DDR, in pages it reserves nowhere.
ListPages ==
  LET n == div_ceil(Len(nodes) * ListNodeBytes, PageBytes)
  IN  { p \in DdrPages : \E r \in Ddr(layout) : End(layout.regions[r]) - p \in 1 .. n }

\* The assertion of alloc_node, for n nodes more.
HasNodes(n) ==
  \A r \in Ddr(layout) :
    (Len(nodes) + n) * ListNodeBytes <= layout.regions[r].pages * PageBytes

\* What others own: the image and the reserved ranges, which do not wait to be
\* reserved, and the blocks handed out.
Fixed ==
  (UNION { PagesOf(layout.reserved[r]) : r \in DOMAIN layout.reserved })
    \union (UNION { PagesOf(layout.sections[s]) : s \in DOMAIN layout.sections })

\* No page of the list is also another's.
Intact == ListPages \intersect (Fixed \union Claimed) = {}

\* The list wrote over what another owns, or its owner over the list: the core
\* may go on unharmed, or nothing is known of it any more.
Overrun ==
  /\ ~Intact /\ stage \notin {"halted", "overrun"}
  /\ stage' = "overrun"
  /\ UNCHANGED <<layout, i, nodes, buf, lo, hi, mmu, tables, calls, claims, fault>>

\* PANIC or a failed ASSERT: the core stops.
Halt(why, range) ==
  /\ stage' = "halted"
  /\ fault' = [why |-> why, addr |-> range.addr, pages |-> range.pages]
  /\ UNCHANGED <<layout, i, nodes, buf, lo, hi, mmu, tables, calls, claims>>

\* The next element of the sequence the loop runs over, or the next loop.
Advance(s, next) ==
  IF i < Len(s) THEN i' = i + 1 /\ UNCHANGED stage ELSE i' = 1 /\ stage' = next

-----------------------------------------------------------------------------
(* mm_info_init *)

ValidMap(l) ==
  /\ \A r \in DOMAIN l.regions : l.regions[r].type # "reserved"
  /\ Cardinality(Ddr(l)) = 1
  /\ \A r \in Ddr(l) : l.kernel \in PagesOf(l.regions[r])
  /\ \A s \in DOMAIN l.sections : End(l.sections[s]) <= AddrSpace(l)

MmInfoInit ==
  /\ stage = "info"
  /\ \/ /\ ValidMap(layout)
        /\ stage' = "regions"
        /\ UNCHANGED <<layout, i, nodes, buf, lo, hi, mmu, tables, calls, claims, fault>>
     \/ ~ValidMap(layout) /\ Halt("memory map", NoFault)

-----------------------------------------------------------------------------
(* early_kalloc_init *)

Node(range, free, permanent, device) ==
  [addr |-> range.addr, pages |-> range.pages, free |-> free,
   permanent |-> permanent, device |-> device]

AddRegion ==
  /\ stage = "regions"
  /\ LET r == layout.regions[i]
     IN  \/ /\ HasNodes(1)
            /\ nodes' = Append(nodes, Node(r, r.type = "ddr", TRUE, r.type = "mmio"))
            /\ Advance(layout.regions, "reserved")
            /\ UNCHANGED <<layout, buf, lo, hi, mmu, tables, calls, claims, fault>>
         \/ ~HasNodes(1) /\ Halt("no node", r)

\* Faulty: every range replaces whatever node holds it.
TakersAny(e, replace_all) ==
  { n \in DOMAIN nodes : nodes[n].addr <= e.addr /\ End(e) <= End(nodes[n]) }

\* The nodes reserve_memreg may take a range from.
Takers(e, replace_all) ==
  { n \in DOMAIN nodes : /\ replace_all \/ nodes[n].free
                         /\ nodes[n].addr <= e.addr /\ End(e) <= End(nodes[n]) }

First(S) == CHOOSE x \in S : \A y \in S : x <= y

\* What follows a reserved range in its node: device_memory is set from the
\* tag, which no node lacks.
Remnant(c, e) ==
  [c EXCEPT !.addr = End(e), !.pages = End(c) - End(e), !.device = TRUE]

Split(c, e) ==
  (IF c.addr = e.addr THEN <<>> ELSE <<[c EXCEPT !.pages = e.addr - c.addr]>>)
    \o <<e>> \o (IF End(c) = End(e) THEN <<>> ELSE <<Remnant(c, e)>>)

\* It takes one or two more nodes from the end of the DDR, or none.
reserve_memreg(e, replace_all) ==
  LET n == First(Takers(e, replace_all))
      t == Split(nodes[n], e)
  IN  /\ Takers(e, replace_all) # {}
      /\ HasNodes(Len(t) - 1)
      /\ nodes' = SubSeq(nodes, 1, n - 1) \o t \o SubSeq(nodes, n + 1, Len(nodes))
      /\ claims' = claims \union {e}

NodesRunOut(e, replace_all) ==
  /\ Takers(e, replace_all) # {}
  /\ ~HasNodes(Len(Split(nodes[First(Takers(e, replace_all))], e)) - 1)
  /\ Halt("no node", e)

ReserveNext(ranges, replace_all, next) ==
  LET e == Node(ranges[i], FALSE, TRUE, FALSE)
  IN  \/ /\ reserve_memreg(e, replace_all)
         /\ Advance(ranges, next)
         /\ UNCHANGED <<layout, buf, lo, hi, mmu, tables, calls, fault>>
      \/ Takers(e, replace_all) = {} /\ Halt("region not free", e)
      \/ NodesRunOut(e, replace_all)

ReserveRegion ==
  stage = "reserved" /\ ReserveNext(layout.reserved, TRUE, "sections")

ReserveSection ==
  stage = "sections" /\ ReserveNext(layout.sections, FALSE, "map")

-----------------------------------------------------------------------------
(* early_kalloc *)

is_pow2(x) == \E p \in 0 .. x : x = 2 ^ p

\* The order is checked of the size rounded down, the pages are rounded up.
HasOrder(call) == call.permanent \/ is_pow2(call.bytes \div PageBytes)

Roomy(call) ==
  { n \in DOMAIN nodes : nodes[n].free
                         /\ nodes[n].pages >= div_ceil(call.bytes, PageBytes) }

Extent(call, addr) == [addr |-> addr, pages |-> div_ceil(call.bytes, PageBytes)]

\* Faulty: the block comes off the high end of its node.
BlockAtEnd(call) ==
  LET n == nodes[First(Roomy(call))]
      e == Extent(call, 0)
  IN  Node(Extent(call, End(n) - e.pages), FALSE, call.permanent, call.device)

\* The block a successful call returns.
Block(call) ==
  Node(Extent(call, nodes[First(Roomy(call))].addr),
       FALSE, call.permanent, call.device)

early_kalloc(call) ==
  HasOrder(call) /\ Roomy(call) # {} /\ reserve_memreg(Block(call), FALSE)

KallocPanics(call) ==
  \/ ~HasOrder(call) /\ Halt("no order", Extent(call, 0))
  \/ HasOrder(call) /\ Roomy(call) = {} /\ Halt("no memory", Extent(call, 0))
  \/ HasOrder(call) /\ Roomy(call) # {} /\ NodesRunOut(Block(call), FALSE)

Kalloc(call) ==
  \/ /\ early_kalloc(call)
     /\ calls' = calls + 1
     /\ UNCHANGED <<layout, stage, i, buf, lo, hi, mmu, fault>>
  \/ KallocPanics(call)

-----------------------------------------------------------------------------
(* early_identity_mapping: each region low and high, with tables allocated  *)
(* on the way.                                                              *)

Table == [bytes |-> PageBytes, permanent |-> FALSE, device |-> FALSE]

ImAlloc ==
  /\ stage = "map" /\ calls < MaxTables
  /\ Kalloc(Table)
  /\ tables' = tables \union (Claimed' \ Claimed)

MapRegion ==
  /\ stage = "map"
  /\ lo' = lo \union PagesOf(layout.regions[i])
  /\ hi' = hi \union PagesOf(layout.regions[i])
  /\ Advance(layout.regions, "activate")
  /\ UNCHANGED <<layout, nodes, buf, mmu, tables, calls, claims, fault>>

MmuActivate ==
  /\ stage = "activate"
  /\ mmu' = [mmu EXCEPT !.on = TRUE]
  /\ stage' = "allocators"
  /\ UNCHANGED <<layout, i, nodes, buf, lo, hi, tables, calls, claims, fault>>

\* page_allocator_init, vmalloc_init and reserve_malloc_init.
AllocatorInit ==
  /\ stage = "allocators" /\ calls < MaxCalls
  /\ \E call \in Calls : Kalloc(call)
  /\ UNCHANGED tables

\* early_kalloc_get_memregs, called first: the copy is sized before its own
\* block adds a node.
GetMemregs ==
  /\ stage = "allocators"
  /\ LET call == [bytes |-> Len(nodes) * NodeBytes,
                  permanent |-> FALSE, device |-> FALSE]
     IN  \/ /\ early_kalloc(call)
            /\ buf' = nodes'
            /\ stage' = "ended"
            /\ UNCHANGED <<layout, i, lo, hi, mmu, tables, calls, fault>>
         \/ KallocPanics(call)

\* early_kalloc_ended.
LateKalloc == stage \in {"ended", "kernel"} /\ Halt("ended", NoFault)

\* mm_reloc_kernel jumps to the high half, where reloc_cfg_end has the driver
\* reach its tables there, unmaps the low half, then what follows the memory.
MmuReloc ==
  /\ stage = "ended" /\ mmu.on
  /\ mmu' = [mmu EXCEPT !.high = TRUE]
  /\ stage' = "unmap"
  /\ UNCHANGED <<layout, i, nodes, buf, lo, hi, tables, calls, claims, fault>>

UnmapLow ==
  /\ stage = "unmap"
  /\ lo' = lo \ (0 .. LowSpan - 1)
  /\ stage' = "unmap high"
  /\ UNCHANGED <<layout, i, nodes, buf, hi, mmu, tables, calls, claims, fault>>

UnmapHigh ==
  /\ stage = "unmap high"
  /\ LET free_heap_start == End(buf[Len(buf)])
     IN  hi' = hi \ (free_heap_start .. free_heap_start + HighSpan - 1)
  /\ stage' = "kernel"
  /\ UNCHANGED <<layout, i, nodes, buf, lo, mmu, tables, calls, claims, fault>>

EarlyNext ==
  \/ MmInfoInit \/ AddRegion \/ ReserveRegion \/ ReserveSection
  \/ ImAlloc \/ MapRegion \/ MmuActivate \/ AllocatorInit \/ GetMemregs
  \/ LateKalloc \/ MmuReloc \/ UnmapLow \/ UnmapHigh \/ Overrun

-----------------------------------------------------------------------------
(* Properties *)

\* The list is in order of address, without gaps or overlaps, and covers the
\* regions: page_allocator_update_memregs and vmalloc_update_memregs walk it
\* and rely on that.
NodesTile ==
  stage \notin {"info", "regions", "halted", "overrun"} =>
    /\ \A n \in 1 .. Len(nodes) - 1 : End(nodes[n]) = nodes[n + 1].addr
    /\ UNION { PagesOf(nodes[n]) : n \in DOMAIN nodes } = RegionPages
    /\ \A n \in DOMAIN nodes : nodes[n].pages > 0

\* Each range reserved or handed out is still one node, with the attributes it
\* was asked with, and what is free is the rest of the DDR.
ClaimsKept ==
  /\ \A c \in claims : \E n \in DOMAIN nodes : nodes[n] = c
  /\ UNION { PagesOf(nodes[n]) : n \in { k \in DOMAIN nodes : nodes[k].free } } =
       ((UNION { PagesOf(nodes[n]) : n \in DOMAIN nodes }) \intersect DdrPages) \ Claimed

\* Memory runs out, or a range is not free, only when the claims leave no room
\* for it: free memory is never in two adjacent nodes that each are too small.
\* The assertion of alloc_node never stops the core in time: before the list
\* leaves the DDR at its start it has met the image, which holds _start.
HaltsForCause ==
  /\ fault.why = "no memory" =>
       \A a \in DdrPages : ~(a .. a + fault.pages - 1 \subseteq DdrPages \ Claimed)
  /\ fault.why = "region not free" =>
       ~(PagesOf(fault) \subseteq DdrPages \ Claimed)
  /\ fault.why = "no node" => ~Intact

\* After the relocation nothing is mapped low, and all the memory and devices
\* that the allocators were told of are mapped high.
OnlyHighMapped ==
  stage = "kernel" =>
    lo = {} /\ hi = UNION { PagesOf(buf[n]) : n \in DOMAIN buf }

\* While the MMU is on, the driver can reach every table where it looks for it.
TablesReachable ==
  mmu.on => tables \subseteq (IF mmu.high THEN hi ELSE lo)

\* While no page of the list is also another's: from the first reservation to
\* the relocation the list is a partition of the memory map in which every
\* reservation and every block stays what it was, and the page tables cover it.
EarlySound ==
  Intact =>
    NodesTile /\ ClaimsKept /\ HaltsForCause /\ OnlyHighMapped /\ TablesReachable

\* The pages of the DDR above the image and all that the map reserves there.
Spare == { p \in DdrPages : \A q \in Fixed \intersect DdrPages : q < p }

\* The list, whose pages nothing reserves, meets what another owns only if the
\* map has the image or a reserved range at the end of the DDR, or when every
\* page between them and the list is handed out: blocks come off the low end
\* of free memory, and meet the list last.
ListSpared ==
  ~Intact => \/ ListPages \intersect Fixed # {}
             \/ Spare \ ListPages \subseteq Claimed
=============================================================================
