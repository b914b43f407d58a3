# Verification of the i.MX8MP bare-metal kernel

The repository is a kernel for the four-core Cortex-A53 of the NXP i.MX8MP,
written in C, AArch64 assembly and some Rust, that runs on the bare machine:
it boots at EL2, drops to EL1, builds its own page tables, allocates physical
and virtual memory, takes interrupts through a GICv3 and drives a UART, a
thermal monitor and the ARM generic timer. This directory holds TLA+ models of
its parts, the TLC runs that check them and the TLAPS proofs about them.
Paths below are relative to `src/_src/` unless they start with `_include/`.

## The parts of the system

| part | state it keeps | operations | modelled in |
|---|---|---|---|
| physical page allocator, `kernel/mm/phys/page_allocator.c` | a node per page, one free list per order | init, update_memregs, page_malloc, page_free | `PageAllocator` |
| core lock, `lib/lock/corelock.*` | owner word, count | lock, try_lock, unlock | `CoreLock` |
| spin lock, irq lock, `lib/lock/spinlock*.S`, `irqlock.S` | a word; DAIF | lock, try_lock, unlock, irqsave | in one step in `TmuDriver`, `AgtTimer`, `UartDriver` |
| generic timer driver, `drivers/arm_generic_timer` | schedule, deferred schedule, gate, lock | schedule, cancel, is_armed, has_fired, interrupt | `AgtTimer` |
| virtual allocator, `kernel/mm/virt/vmalloc.c` | sorted lists of free and reserved ranges, for the linear map and the dynamic area | vmalloc, vfree, push_pa, queries | `VaRanges`, `KernelHeap` |
| its node containers, `kernel/mm/virt/containers`, `mdt` | pages of list nodes with bitfields | node new and free, container new and free | `NodeContainers`, `KernelHeap` |
| MMU tables, `arm/mmu` | three- or four-level translation tables | map, unmap, peek, is_mapped, apply | `MmuTables` |
| kernel allocator, `kernel/mm/malloc/raw_kmalloc.c`, `reserve_malloc.c` | a lock, a reserve of pages | raw_kmalloc, raw_kfree, reserve_malloc, fill | `KernelHeap` |
| memory at boot, `kernel/mm/init`, `mm_info.c`, `reloc` | list of memory regions | mm_info_init, early_kalloc, identity mapping, get_memregs, relocation | `EarlyAllocator` |
| UART driver, `drivers/uart` | two rings, cached interrupt enables, two locks | early polled output, putc, puts, read, interrupt, init | `UartDriver` |
| terminal, `kernel/io/term.c` | mode, output, format buffer | print, printf | not modelled (its early output is `EarlyPut` of `UartDriver`) |
| thermal monitor, `drivers/tmu` | copy of the interrupt enables, pending warning, lock | init in stages, enable, disable, set temperatures, queries, interrupts | `TmuDriver` |
| interrupts, `drivers/interrupts/gicv3`, `kernel/irq`, `arm/exceptions` | handler table | init, dispatch | the path of one interrupt, in `TmuDriver` |
| pool allocator, `lib/malloc/xalloc.c` | block metadata | init, alloc, free | `PoolAllocator` |
| rings, `drivers/uart/buffers.rs`, `lib/buffer` | head, tail, buffer | push, pop | the first in `UartDriver`, the second in `Pow2Ring` |
| boot, `boot`, `kernel/init`, panic, formatting, memory primitives | registers; none | straight-line code | not modelled |

How they interact: `raw_kmalloc` is called by everything that needs memory and
calls, under one core lock, the virtual allocator, the page allocator and the
MMU. The virtual allocator needs memory for its own list nodes and takes it
from a reserve of pages that `raw_kmalloc` refills; freeing a node may free a
container page, which re-enters `raw_kfree`. The boot code fills the page
allocator from the regions of the early allocator. Drivers share state between
threads and interrupt handlers through spin locks with interrupts masked; the
generic timer also runs callbacks inside its handler that may call the driver.

What is hard: histories (a page split, lent, freed and merged hundreds of
times must still be in exactly one block), re-entrance (allocators that
allocate, callbacks that call back), locks between cores built on exclusive
monitors and events, interrupts that preempt threads, and boundaries (memory
whose size is no power of two, regions at odd pages).

## Modules

| component | modules | abstract specification | proofs |
|---|---|---|---|
| page allocator | `BuddyLists`, `PageAllocator` | `BlockLedger` | `PageAllocatorProofs` |
| core lock | `CoreLock` | | `CoreProofs` |
| generic timer | `AgtTimer` | `OneShotTimer` | `CoreProofs` |
| UART | `UartDriver` | | `UartDriverProofs` |
| MMU tables | `MmuTables` | `PageMap` | `MmuTablesProofs` |
| virtual and kernel allocator | `VaRanges`, `NodeContainers`, `KernelHeap` | `HeapPromise` | `KernelHeapLemmas`, `KernelHeapProofs` |
| thermal monitor | `TmuDriver` | | `TmuDriverProofs` |
| memory at boot, pools, rings | `EarlyAllocator`, `PoolAllocator`, `Pow2Ring`, `BootMemory` | | `BootMemoryProofs` |

The `MC` modules give the constants their values for TLC.

### The page allocator

`BuddyLists` holds the memory of the allocator as one record, field by field
as in `page_node` and `free_lists`, and the pure steps: `push_to_list`,
`remove_from_list`, `buddy_of`, `parent_at_order`. `PageAllocator` is the state
machine: an action per turn of a loop of the source (`InitBlock`,
`ReserveHalve`, `SplitStep`, `MergeStep`) and per straight stretch between
loops, so that the properties are examined in the middle of every operation as
well as between operations. `pc` names the loop that runs; the callers hold the
lock of `raw_kmalloc.c`, so one operation runs at a time. `lent` is a ghost
variable: which block the callers hold at which order. Callers free what they
were lent and never what is permanent. `BlockLedger` is the abstract
specification: disjoint aligned blocks are lent and taken back.

Data left out: `page_data` (written, and read only by the debug listing) and
the byte size of a page.

### The core lock

`CoreLock` models `corelock.S` and `corelock.c` one visible instruction at a
time: `ldaxr`, `stxr`, `wfe`, `stlr`, `sev`, the count and the assertions. The
processor is external and follows the architecture manual: a store to the word
clears every exclusive monitor, the clearing of another core's monitor and an
exception return set its event register, `wfe` consumes an event. Stores are
seen by all cores at once: the accesses that matter are acquire and release.
An exclusive store fails only when the monitor was cleared. An interrupt may
come at any instruction; its handler does not take this lock.

### The generic timer

`AgtTimer` has a thread, the interrupt that preempts it and the callback that
the handler runs, on the one core the kernel starts. A call is two steps, the
try of the gate and the rest, and the interrupt may come between them. The
timer hardware (counter, compare value, enable bit) is external state.
`schedule_cycles` and `schedule_delta` differ only in how the time is computed,
so both are `Schedule` with any time, past ones included. `OneShotTimer` is the
abstract specification: the answer of every call and the moment of every
firing, the same for the thread and for a callback whose calls are deferred.

### The UART driver

`UartDriver` has the threads of the cores, the interrupt handler on the core
the interrupt goes to, and the hardware: two fifos, the RRDY and TRDY bits and
the enables of UCR1. The driver keeps a copy of the enables, `irq_status`, and
`uart_set_irq_state_` writes the copy and then the register: two steps. A put
takes `tx_lock` with interrupts masked and pushes, looks at the copy and enables
TRDY, step by step; the handler takes a snapshot of the sources, empties the
receive fifo, then fills the transmit fifo until it is full or the ring is
empty. `uart_read` is one step: interrupts are masked and on one core nothing
interleaves with it. The last stage of the initialisation enables the
interrupt in the interrupt controller, and the model keeps that order. Bytes are
numbers in the order they were put or received, which is all the properties
tell apart. A full ring stops the core, as in the code. `uart_init_stage1` is
commented out in today's `init_drivers.c`, which stays with the polled early
driver; the model has both, the early output first and then the driver as it is
meant to run.

### The MMU tables

`MmuTables` holds the entries of every table and performs a call one store at a
time, since the hardware walkers, and `mmu_peek` on other cores, read them
meanwhile; the call itself owns `slock_`. A table is named by its level and the
region it translates, which its parent entry determines; the memory of the
tables is a set of such names, so that a lost table and a dangling entry can be
told. An entry keeps the two type bits, because what they mean depends on the
level the reader believes in. Addresses count pages. `PageMap` is the abstract
specification: a call gives its pages their new translations and changes
nothing else, at any moment. `FreeWorks` says whether the free function handed
to the module works (the one in `kernel/mm/init/init.c` panics); `CarefulUnmaps`
that callers unmap what is all mapped, or one aligned block, as `raw_kfree` does.

Data left out: the other attribute bits than one label, the TLB and the choice
between the lower and upper top table.

### The kernel heap

`KernelHeap` is `raw_kmalloc` and `raw_kfree` with all that they call: the lists
of free and reserved ranges (`VaRanges`: first fit, alignment, the split of a
range and the merge with its neighbours), the containers that hold the nodes of
those lists (`NodeContainers`) and the reserve of pages that containers and
translation tables are taken from. Callers hold one recursive lock, so calls do
not interleave; what is hard is that a call enters itself: freeing a list node
may empty its container, which `raw_kfree` gives back in the middle of the call,
and the refill of the reserve is itself an allocation. `todo` is therefore a
stack of the steps still to be done, one action per kind of step, and the
invariants are examined between them. Physical pages come from `BlockLedger`,
which `PageAllocator` is proved to implement, and the tables are seen as
`PageMap` sees them, which `MmuTables` is checked to implement.
`HeapPromise` is the abstract specification: an allocation is a range of its
own, mapped to pages of its own, and stays so until it is freed.

### The thermal monitor

`TmuDriver` has the threads of two cores, the handler on the core the interrupt
goes to, and the unit as two sets: the interrupts enabled and those met. The
enables are written to the register and to the copy `irq_status` in two steps,
and in different orders for warnings and for critical temperatures. The model
also has what an interrupt goes through on its way: the stages of the
initialisation, the mask of the core, the controller's enable and active bit,
and the table of handlers. The values of temperatures are left out: a
temperature is accepted or not.

### Memory at boot, and the containers of lib/

`EarlyAllocator` follows `mm_early_init`: the checks of the memory map, one
action per region, reserved range and section, the identity mapping with its
tables, the early allocations of the other allocators, the copy of the list
handed to them, and the relocation in the three steps that matter: the driver
reaches its tables high, the low half is unmapped, what follows the memory is
unmapped. `reserve_memreg` has four cases in the code (exact, start, end,
middle); `Split` says them at once as what is left before and after the range.
`claims` is a ghost: what was reserved or handed out, as it was asked for.

The list itself is in the memory it describes: `alloc_node` writes its nodes one
below the other from the end of the DDR, in pages that nothing reserves
(`ListPages`). `Intact` says that none of these pages is also another's: part of
the image, of a reserved range or of a block handed out. Once it is false the
list and its owner write over each other, and the model promises nothing: the
core may go on unharmed, or `Overrun` ends what is known of it. The assertion of
`alloc_node`, that a node is above the start of the DDR, is the panic "no node";
it comes too late, because the image lies in between. A page counts as shared
when both have bytes in it, even if they do not overlap. On the board OP-TEE
ends at 0x58000000 and the DDR at 0x100000000, and the list of some 50 nodes has
two pages at most: it would take 2.6 GiB of early blocks to meet it.

`PoolAllocator` is `xalloc.c`, with its searches written as it walks the
metadata, span by span, so that a wrong span would lead them astray; callers
free any address and id. `Pow2Ring` is the ring of `pow2_ring.rs` in both
variants, which differ in what a push returns. Nothing in the kernel uses these
two yet; `BootMemory` composes them with the boot: a pool, or a ring, made in a
block the early allocator gave for good.

## Runs

| run | question | bounds |
|---|---|---|
| `page_allocator` | every safety property, the ledger and termination of the loops | 9 pages, 4 orders, regions at odd addresses, of several orders, permanent and not: each loop runs at least twice |
| `core_lock` | exclusion, assertions, wakeups, service of the holder, progress | 3 cores, nesting 2 |
| `agt_timer` | implements `OneShotTimer`, the thread's view, timers and handler end | 2 callbacks, times 0 and 1; callbacks make every call but `is_armed` |
| `agt_timer_armed` | violation: `is_armed` in a callback | 1 callback |
| `uart` | order and completeness of both streams, no overrun, no spurious interrupt, every byte gets out and in | 1 core, rings of 4 slots, fifos of 2 bytes, 4 bytes put in strings of 1 or 2, 1 synchronous, 4 received: both rings can fill and wrap |
| `mmu_tables` | refines `PageMap`, tables neither lost nor dangling, blocks aligned, peek right, calls end | 4 levels of 2 entries, 4 pages: splits of splits, tables replaced by blocks, ranges across two tables; physical addresses aligned and not |
| `mmu_tables_free` | violation: freeing a table of pages | the same |
| `kernel_heap` | ranges partition both areas, nodes and pages are accounted for, refines `HeapPromise`, frees end | 16 pages of linear map, 4 of dynamic area, containers of 2, 6 and 1 nodes, a reserve of 2, 2 allocations held: all three pools grow and shrink, frees nest, the reserve runs out |
| `heap_refill` | violation: the refill of the reserve | 12 and 6 pages, containers of 2, 7 and 2, a reserve of 3 |
| `thermal` | the copy of the enables is the register, no warning is lost, calls and handler end | 2 cores, 2 probes, 2 calls |
| `tmu_query` | violation: the query that keeps the lock | the same |
| `boot_memory` | while the list is alone in its pages it is a partition that keeps every block, and the relocation leaves exactly the memory mapped; the list is met only by what the map puts at the end of the DDR, or last of all; the pool; the ring | 29 maps: OP-TEE under the list, a page before it and further below, the image at the start of the DDR, inside it and over OP-TEE, devices after the DDR, maps that are refused, no room, a DDR too small for the list; 4 nodes to a page; 1 table, 3 calls in all; pools of up to 8 blocks and 3 ids, rings of 2, 4 and 8 slots |

Nesting 2 is enough to tell the outermost lock from an inner one; three cores
give a holder, a waiter and a newcomer; nine pages give merges across two
levels with a lent page in between, and a last page that has no buddy. Containers of one and two nodes are emptied
and filled by almost every call, where the real ones hold some 80 to 170: what
matters is that a call does it in the middle of another. A pool of 8 blocks with
3 ids has two regions with a hole between and reuses a freed one; the limit of
the ids, which `xalloc_alloc` tests, is reached.

### Fairness

- `PageAllocator`: weak fairness of the steps of the running operation, which
  the core executes with nothing to wait for.
- `CoreLock`: each core executes its instructions and leaves the zone it is in
  (weak fairness); interrupts do not fall between the same `ldaxr` and `stxr`
  for ever (strong fairness of the successful store). Without the last,
  TLC shows a core that is interrupted there every time. No fairness between
  cores is assumed, and the lock gives none: only that some core gets in.
- `UartDriver`: the transmitter sends, code that has begun goes on (weak
  fairness), and a pending interrupt is taken once its core unmasks (strong
  fairness: puts mask it again and again). Nobody has to put or read.
- `MmuTables` and `KernelHeap`: the running call goes on.
- `TmuDriver`: each core that runs a call goes on when it can, and so does the
  handler; nobody has to call and no temperature has to be exceeded.
- `BootMemory` states safety only: boot is one core's straight line.
- `AgtTimer`: the counter counts, a pending interrupt is taken, a callback
  returns ("should be short", says the header) and the handler goes on.

## Findings

1. `agt_timer_armed`: `AGT_timer_is_armed` leaves the gate locked when called
   from a callback, and the interrupt handler spins for ever.
2. `mmu_tables_free`: `UNLOCKED_free_subtree` is given the level of the entry
   and not of the table, and takes pages for tables.
3. `heap_refill`: each turn of `reserve_malloc_fill` may take from the reserve,
   for a container of list nodes, the page that it brings, and give the
   container back in the next turn, for ever.
4. `tmu_query`: `TMU_get_warnings_enabled` returns from inside
   `irq_spinlocked`, which leaves the lock taken and interrupts masked.

Seen in the models and kept as hazards without a run:

- `core_unlock` ends with a `DEBUG_ASSERT` that reads the lock after releasing
  it, and fails when another core takes it at once.
- `handle_TRDY_` disables TRDY after finding the ring empty, without the lock
  of the puts; with two cores a byte pushed in between stays.
- `uart_init_stage0` waits for the receive fifo to be empty and never reads it
  in the loop.
- `try_merge` asks for the node of a buddy past the last page when the number of
  pages is no power of two (the board has 2^20).
- `UNLOCKED_unmap_` passes over pages when it starts inside an unmapped entry
  (`PromiseSpec` fails with `CarefulUnmaps` false) and fails an assertion on a
  page unmapped twice (`panic = "type"`).
- `kernel_handle_irq` indexes its table with 1023 when the line of an interrupt
  drops before its number is read.
- `find_rva` dereferences NULL for an address that no range starts at.
- `early_kalloc` rounds down for the assertion on the order of a block and up
  for its pages: `early_kalloc_get_memregs` stops the core unless the list has
  43 to 127 nodes (the board has some 50), and its copy has room for one node
  too few when the nodes fill whole pages.
- `xalloc_get_region_id` returns the index of a block where an id is expected.

## Proofs

The theorems hold for every value of the constants that satisfies the
assumptions named in the modules; TLC evaluates those assumptions in every run.
Where a theorem has a hypothesis of its own it is named below, with what in the
code justifies it. 33 of the 40 properties of the passing runs are safety
properties; 31 of them are proved, and half of a 32nd (`HeapAccounted`).

### Page allocator: `PageAllocatorProofs`

All six invariants of the run and the refinement of `BlockLedger`. Assumed:
`GeometryAssumption` (what `1 << o` and `log2_floor` give) and
`MemRegsAssumption`: the regions lie inside memory, in the order of their
addresses and without overlap. The early allocator's list has both (`NodesTile`
of `EarlyAllocator`, proved in `BootMemoryProofs`), and `page_allocator_update_memregs` gets it unchanged.

The inductive invariant says: the links are consistent; every free, lent or
travelling block is *placed* (aligned, inside memory, clear of every other
block); and for each loop what its local variables mean, for example that
during `reserve` page `j` is in the block being halved and aligned to the order
wanted. Links alone are not inductive (a merge needs the buddy's block to be
disjoint from the rest), nor is disjointness (a push needs the links of the
head). From it follow `TypeOK`, `LinksConsistent`, `BlocksSound` and
`LedgerSpec`.

- `NoPageLost` needs that every page is in some block, in the block in transit
  or not yet listed, and what each loop does to that cover.
- `FullyCoalesced` needs that during a merge only the block being merged may
  have a free buddy, and that `init` lists blocks of falling size: a block it
  lists is larger than all that remains.
- `AlarmsAreDue` combines the two: every page is in a block and no two free
  buddies remain, so an aligned run that no lent block meets lies in one free
  block, whose list `page_malloc` finds not empty. For the regions reserved at
  boot it needs that all that is lent lies below the page reserved next. That
  the free bit is the membership of a list that a walk finds would be an
  induction along the list; instead the nodes are *ranked*: some numbering grows
  along every list, a push takes a number below all others, and a least or
  greatest number does for the induction.

### Core lock: `CoreProofs`

Assumed: no core has the number `UNLOCKED_VALUE`. The invariant: the word names
exactly the core that is in the zone or on its way in or out, and the count is
that core's depth; a core about to store with its monitor set has seen a word
that is still free. From it follow exclusion, the assertions, recursion without
sleep, `core_try_lock` never refusing the holder (`HolderNeverWaits` puts the
last two together) and the bound of the count. No lost wakeup has an invariant of its own: who sleeps has an
event pending or its monitor set on a taken lock.

### Generic timer: `CoreProofs`

`TypeOK`, `ThreadNeverDeferred` and the refinement of `OneShotTimer`, for any
callbacks and times. The theorems are about `Spec`, whose callbacks make every
call but `AGT_timer_is_armed`: with that call they are false (finding 1). While
the thread runs the gate is locked and the lock is free; while the handler has
the core the gate is unlocked, so a callback's calls are all deferred, and what
they leave is the only schedule because the handler has disabled the timer. The
refinement needs one more fact: a deferred schedule has already forgotten that
the timer fired, so that programming it when the handler ends forgets nothing.

### UART driver: `UartDriverProofs`

`TypeOK` on any number of cores; `BytesKeepOrder`, `NoOverrun` and
`HandlerFindsItsSource` under the hypothesis `OneCore`, for rings and fifos of
any size. The kernel starts only core 0; with two cores the properties fail
(the hazard of `handle_TRDY_` below). The invariant has three parts: the handler
and the thread of its core exclude each other, so where the one that runs is
tells how far the copy of the enables is from UCR1 and that the room it has seen
in the fifo is still there; the transmit ring holds consecutive numbers ending
with the last put, and the fifo those before them; the same for reception.

### MMU tables: `MmuTablesProofs`

`TypeOK`, `TablesSound` and `PeekIsWalk` with no hypothesis, and the refinement
of `PageMap` under `CarefulUnmaps`, for any number of levels, size of a table
and range. `VaAssumption` says that one top table translates all the addresses
modelled, as the 48 bits of `mmu_init` do.

- The tree: a table is named by its level and region, so a parent and a child
  determine each other; the invariant adds to `TablesSound` that the call's
  current table is in the tree, its level is not below the target level, and the
  table being freed is the one under the current entry.
- A walk is the entry where the descent ends (`WalkIs`), and two pages under one
  entry have one walk (`WalkTogether`). With these, linking an empty table or
  the blocks of a split changes no walk, a store changes the walks under its
  entry, and freeing what is no longer linked changes none.
- The refinement needs to know of a call in the middle of its range what its
  caller had promised of the whole: what is left is all mapped, or one aligned
  entry, or the rest of a level-0 entry in whole level-1 entries (`Careful`).
  Without it `UNLOCKED_unmap_` skips pages it was asked to unmap, which TLC
  shows with `CarefulUnmaps` false.
- `PeekIsWalk` needs in addition that every valid entry has the attributes it
  was mapped with, and that the places the loop of `mmu_peek` visits are in the
  range and their blocks cover it.

### Thermal monitor: `TmuDriverProofs`

`StatusMirrorsTier` and `WarningsNotLost`, for any number of cores, probes and
calls. The invariant: `state_lock` has one holder, a thread or the handler; the
place where the holder is says which half of the pair TIER and `irq_status` it
has written and what it will write into the other (warnings go to TIER first,
critical interrupts to the copy first); and while a warning temperature is set
with warnings off, the status saved beforehand has them on. `OneHolder` states
the first part by itself.

### Memory at boot, pools and rings: `BootMemoryProofs`

`EarlySound` and `ListSpared`, for any memory map that satisfies
`EarlyAssumption`: regions in order, each where the last one ends, reserved ranges
that share no page, image sections of whole pages with `_start` in one of them, at
least two list nodes to a page, a map that ends below the 5 GiB that the relocation
unmaps. The tables of `mem_regions.c` are so; whatever else may be wrong with a
map (a second DDR, an image outside it, reserved ranges that do not fit) the
model boots and finds out, as `mm_info_init` and `reserve_memreg` do. `EarlySound`
speaks of the states in which `Intact` holds; `ListSpared` says when it does not. The
invariant of the first (`EarlyInv`):

- the list is in order without gaps; every claim is a node of its own; what is
  free is the rest of the DDR. A range is taken from one node, and what is left
  of that node before and after it keeps all three (`TakeKeeps`);
- no two neighbours are free. The list starts with one DDR region and a split
  puts what was taken between the remnants, so free pages that follow one
  another are in one node, and a panic for want of memory is justified
  (`HaltsForCause`). Without this part `HaltsForCause` is not inductive;
- for each stage, where its loop is, what is mapped low and high, and that the
  copy of the list is the list. The tables are claims, hence in mapped pages,
  before and after the relocation;
- the assertion of `alloc_node` never stops the core while the list is intact: a
  list as long as the DDR covers the page of `_start` (`NoNodeInTime`; this is
  where half a page per node and `_start` in the image are used).

That of the second (`SpareInv`) looks at the part of the DDR above the image and the
reserved ranges (`Spare`): the blocks handed out there have no free page below
them, since `early_kalloc` takes the first node with room and its low end
(`BlockKeepsSpare`), and a split never moves free memory down. So the block that
meets the list is the one that leaves no page between (`ListIsLast`).

`EarlyInv` also says that the list handed to the page allocator is in order, without
overlap and inside the map, which `MemRegsAssumption` takes for granted.

`PoolSound`, for a pool of any number of blocks in any early block. The
metadata of each block of a region says how much of the region follows, other
blocks are empty. Both searches are walks that always go up; such a walk finds
the least block wanted when it stops only there and passes over none
(`WalkFinds`, from the least walk that fails): what `search_free_region_` skips
with a span is occupied, and what it skips after a partly occupied run contains
an occupied block. A free names a live region exactly when the block found is
the first of one, which is what comparing the neighbouring id tells
(`FirstOfRegion`).

`RingSound`, for any size, elements and mode of either ring. The slots from tail
to head hold the queue, and a ring is full when its queue has all the slots but
one.

The hypotheses `NullIsNoHandle` and `NullIsNoRing` say that the value that
stands for no pool, or no ring, is none.

### Kernel heap: `KernelHeapLemmas`, `KernelHeapProofs`

`RangesPartition`, `NoFalseAlarm` and `NodesAccounted`, the half of `HeapAccounted`
that is about nodes: for any size of the two areas, of the containers and of the
reserve, any requests, and any block `page_malloc` may lend. Assumed
(`HeapAssumption`): orders are sizes that grow, a request of the linear map is of
the size of a block, as `raw_kmalloc_kmap` asserts, and the linear map has room
for more than what is allocated at boot.

None of the three is inductive, because a call leaves the lists in the middle of a
change and enters itself: a node is out of the list and its slot is not yet given
back, a range is out of the free ones and not yet among the reserved. What is
missing is in `todo`, the stack of what is still to be done. The invariant
(`ListInv`) is therefore about the lists and a stack `e` together:

- *ranges* (`ListsInv`): the holes, the reserved ranges and the ranges that `e` is
  to push share no page and cover both areas. Lists are in order and holes do not
  touch;
- *owners* (`OwnersInv`): the pages of the containers, of the reserve and of the
  tables, the ranges callers hold, and the ranges `e` *claims* (is to return, to
  keep in the reserve or to free) are all different, and each has a node in the
  list of reserved ranges or is pushed by an entry above the claim. This is why
  `pop_rva` always finds what `kfree` is given, and `NoFalseAlarm` holds;
- *slots* (`SlotsInv`): the slots in use of a pool are those of the nodes in its
  lists and those that `e` is to give back, one each; a container other than the
  first is never empty between the steps. A container given back is a claim: it
  holds no node any more, and its page has a range.

`e` is not `todo` itself. `raw_kmalloc_kmap`, the refill and `raw_kfree` put on the
stack a pop and, below it, what is to be done with the range that the pop takes
out: while the pop is on top these entries are about a range that is still in the
list. `Matches` leaves them out, and they count once the pop is executed.

An action executes the top of the stack and puts other operations in its place.
Lemmas say what a stack pushes, claims and gives back as a sum over its pieces
(`SumsCat`, `SlotSumsCat`, `ShapeCat`), what the steps on lists do to order and
cover (`PopFacts`, `ReplacedByAny`, `SplicedCover`), what taking and giving back a node does to pool
and reserve (`TakenIs`, `SlotTaken`, `SlotGiven`); the proof of an action adds up
what it took from the one and gave to the other. `TotalOf`, a sum over a list, is a
recursive function, and `SizesCount` shows it to be the number of pages covered.

### What is only model-checked

- Liveness, which is out of the prover's reach: `CallsEnd` (of the page
  allocator, the tables and the thermal monitor), `SomeCoreGetsIn`,
  `TimersEnd`, `EveryByteMovesOn`, `FreesEnd`.
- Of the kernel heap, `PagesAccounted` (the second half of `HeapAccounted`: every
  lent page has one owner) and the refinement of `HeapPromise`. Both need, on top
  of the proved invariant, what the stack says of physical pages: which lent
  block backs which address from `page_malloc` through `mmu_map` and the
  assignment of blocks to the unmapping, with tables taken on the way.
- The properties of the runs that expect a violation.

## Not modelled, and why

- Terminal: prints under a core lock; its text is not what any property is
  about. `term_printf` uses one buffer, which an interrupt handler that prints
  on the same core would overwrite, as the lock is recursive.
- Boot code, vector tables, register accessors, cache maintenance, memory copies
  and string formatting are straight-line code without state of their own; the
  panic path prints and stops. The stages of `kernel_init` are in `TmuDriver`.
- Of the interrupt controller, priorities, affinities and private interrupts.
- `lib/lock/mutex.rs` has no user.
- Of the heap, tags and the printed dumps; of the early allocator, tags; of the
  pool, the clearing of `xalloc_calloc`.
