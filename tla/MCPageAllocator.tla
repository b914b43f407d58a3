-------------------------- MODULE MCPageAllocator --------------------------
(* Instances of PageAllocator for TLC. *)
EXTENDS PageAllocator

\* 1 << o
PowersOfTwo == [o \in Orders |-> 2 ^ o]

Region(addr, pages, free, permanent) ==
  [addr |-> addr, pages |-> pages, free |-> free, permanent |-> permanent]

\* Two early allocations that may be freed, one at an odd address, which
\* takes two reservations, and one of three pages at the start of the upper
\* half, which takes two; a permanent page; and a last page that makes the
\* memory no power of two.
SmallRegions == <<Region(0, 1, TRUE, FALSE), Region(1, 2, FALSE, FALSE),
                  Region(3, 1, TRUE, FALSE), Region(4, 3, FALSE, FALSE),
                  Region(7, 1, FALSE, TRUE), Region(8, 1, TRUE, FALSE)>>
=============================================================================
