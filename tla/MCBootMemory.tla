---------------------------- MODULE MCBootMemory ----------------------------
(* Instances of BootMemory for TLC. *)
EXTENDS BootMemory

Region(a, n, t) == [addr |-> a, pages |-> n, type |-> t]
Span(a, n) == [addr |-> a, pages |-> n]

\* The map of mem_regions.c, scaled: MMIO, then DDR; the page of the null
\* pointer and OP-TEE reserved; an image of three sections.
Board(ddr, optee, start, text) ==
  [regions  |-> << Region(0, 2, "mmio"), Region(2, ddr, "ddr") >>,
   reserved |-> << Span(0, 1), Span(optee, 2) >>,
   kernel   |-> start,
   sections |-> << Span(start, text), Span(start + text, 1), Span(start + text + 1, 1) >>]

\* OP-TEE at the end of the DDR, under the list, or a page before it; and with
\* room for blocks and the list between, as on the board, where one image is over
\* OP-TEE.
Boards ==
  { Board(9, optee, start, text) : optee \in 8 .. 9, start \in {1, 2, 3, 6}, text \in 1 .. 2 }
    \union { Board(13, optee, 3, optee - 7) : optee \in 8 .. 9 }
    \union { Board(13, 8, 6, 1) }

\* Devices follow the DDR, which so is not the last region.
Middle ==
  [Board(14, 8, 3, 1) EXCEPT !.regions = Append(@, Region(16, 2, "mmio"))]

\* Maps mm_info_init rejects: a reserved region among the others, a second DDR.
Refused ==
  { [Board(9, 8, 3, 1) EXCEPT !.regions = Append(@, Region(11, 1, t))] :
      t \in {"reserved", "ddr"} }

\* No room for a table, none for the copy of the regions, and an OP-TEE that
\* reaches past the DDR.
Tight == { Board(5, 5, 2, 1), Board(6, 6, 2, 1), Board(6, 7, 2, 1) }

\* All five sections: so many regions that the copy is not one order of pages.
Full ==
  [Board(15, 10, 3, 1) EXCEPT
     !.sections = << Span(3, 1), Span(4, 1), Span(5, 1), Span(6, 1), Span(7, 1) >>]

\* A DDR too small for the list: of a page and of three, with the image at its
\* start and, before it, as many regions or reserved pages as it takes.
Crowded(regions, ddr, pages, reserved) ==
  [regions  |-> Append(regions, Region(ddr, pages, "ddr")), reserved |-> reserved,
   kernel   |-> ddr, sections |-> << Span(ddr, 1) >>]

Odd(n) == [k \in 1 .. n |-> Span(2 * k - 1, 1)]

Overfull ==
  { Crowded([k \in 1 .. 4 |-> Region(k - 1, 1, "mmio")], 4, 1, Odd(1)),
    Crowded(<< Region(0, 4, "mmio") >>, 4, 1, << Span(1, 1), Span(2, 1) >>),
    Crowded(<< Region(0, 10, "mmio") >>, 10, 3, Odd(5)) }

Maps == Boards \union Refused \union Tight \union Overfull \union {Middle, Full}

InitCalls ==
  { [bytes |-> b, permanent |-> p, device |-> FALSE] : b \in {4, 8, 12, 16}, p \in BOOLEAN }
=============================================================================
