------------------------------ MODULE VaRanges ------------------------------
(***************************************************************************)
(* The lists of virtual ranges of kernel/mm/virt/vmalloc.c: one of free    *)
(* and one of reserved ranges for the linear map, where the address of a   *)
(* physical page is fixed, and as many for the dynamic area above it.      *)
(* Addresses count pages.  A list is a sequence of nodes with the fields   *)
(* at (where the node is in memory), start and size.                       *)
(***************************************************************************)
EXTENDS Integers, Sequences, SequencesExt, FiniteSetsExt

CONSTANTS
  KmapPages,  \* pages of the linear map, as many as there are physical pages
  DynPages,   \* pages of the dynamic area
  BlockSizes  \* pages that an entry of each level of the tables maps

ASSUME RangesAssumption ==
  /\ KmapPages \in Nat \ {0} /\ DynPages \in Nat \ {0}
  /\ BlockSizes \subseteq Nat \ {0} /\ 1 \in BlockSizes

Lists == {"kmap", "dynamic"}
Va == 0 .. KmapPages + DynPages - 1

\* list_from_va
ListOf(va) == IF va < KmapPages THEN "kmap" ELSE "dynamic"
Area(l) == IF l = "kmap" THEN 0 .. KmapPages - 1 ELSE KmapPages .. KmapPages + DynPages - 1

Run(start, size) == start .. start + size - 1
PagesOf(r) == Run(r.start, r.size)
End(r) == r.start + r.size

Among(s, Test(_)) == {i \in DOMAIN s : Test(s[i])}

(* pop_fva *)

\* The largest page that fits n pages sets the alignment.
PageAlign(n) == Max({b \in BlockSizes : b <= n})
AlignUp(x, a) == ((x + a - 1) \div a) * a

\* dynamic_fits_page_aligned
FitsAligned(r, n) == AlignUp(r.start, PageAlign(n)) + n <= End(r)

Choice(i, va) == [i |-> i, va |-> va]

\* The node that serves the exact address va, if any.
ExactFit(s, va, n) ==
  {Choice(i, va) : i \in Among(s, LAMBDA r : r.start <= va /\ va + n <= End(r))}

\* The first node with room for an aligned range, else the first with room.
FirstFit(s, n) ==
  LET aligned == Among(s, LAMBDA r : FitsAligned(r, n))
      loose   == Among(s, LAMBDA r : n <= r.size)
  IN  IF aligned # {} THEN {Choice(Min(aligned), AlignUp(s[Min(aligned)].start, PageAlign(n)))}
      ELSE IF loose # {} THEN {Choice(Min(loose), s[Min(loose)].start)}
      ELSE {}

(* reserve_from_fva_node: what is left of node r, of which n pages at va   *)
(* are taken; fresh is the node a range in the middle needs.               *)
TakesMiddle(r, va, n) == r.start < va /\ va + n < End(r)
Rest(r, va, n, fresh) ==
  LET low  == [r EXCEPT !.size = va - r.start]
      high == [r EXCEPT !.start = va + n, !.size = End(r) - (va + n)]
  IN  IF PagesOf(r) = Run(va, n) THEN <<>>
      ELSE IF r.start = va THEN <<high>>
      ELSE IF va + n = End(r) THEN <<low>>
      ELSE <<low, [high EXCEPT !.at = fresh]>>

ReplaceNodes(s, i, j, nodes) == SubSeq(s, 1, i - 1) \o nodes \o SubSeq(s, j + 1, Len(s))
ReplaceNode(s, i, nodes) == ReplaceNodes(s, i, i, nodes)

(* push_fva and push_rva: a node goes before the first one not below it.   *)
Place(s, va) == Min(Among(s, LAMBDA r : r.start >= va) \cup {Len(s) + 1})

JoinsPrev(s, va) == LET k == Place(s, va) IN k > 1 /\ End(s[k - 1]) = va
JoinsNext(s, va, n) == LET k == Place(s, va) IN k <= Len(s) /\ s[k].start = va + n

\* Faulty: a range joined to the node after it leaves that node's start.
PushedKeepsStart(s, va, n, fresh) ==
  LET k == Place(s, va)
  IN  IF JoinsPrev(s, va) THEN ReplaceNode(s, k - 1, <<[s[k - 1] EXCEPT !.size = @ + n]>>)
      ELSE IF JoinsNext(s, va, n) THEN ReplaceNode(s, k, <<[s[k] EXCEPT !.size = @ + n]>>)
      ELSE InsertAt(s, k, fresh)

\* The list with the range joined to its neighbours, or in a node of its own.
Pushed(s, va, n, fresh) ==
  LET k == Place(s, va)
      prev == s[k - 1]
      next == s[k]
  IN  IF JoinsPrev(s, va) /\ JoinsNext(s, va, n)
        THEN ReplaceNodes(s, k - 1, k, <<[prev EXCEPT !.size = @ + n + next.size]>>)
      ELSE IF JoinsPrev(s, va) THEN ReplaceNode(s, k - 1, <<[prev EXCEPT !.size = @ + n]>>)
      ELSE IF JoinsNext(s, va, n)
        THEN ReplaceNode(s, k, <<[next EXCEPT !.start = va, !.size = @ + n]>>)
      ELSE InsertAt(s, k, fresh)

\* find_rva: the node that starts at va, if any.
Found(s, va) == Among(s, LAMBDA r : r.start = va)

(* The queries. *)

\* vmalloc_get_addr_info: the free and then the reserved list are searched,
\* each up to the first node past the address.
Visited(s, va) == {i \in DOMAIN s : \A j \in 1 .. i : s[j].start <= va}
InfoOf(s, va) == {PagesOf(s[i]) : i \in {k \in Visited(s, va) : va < End(s[k])}}

AddrInfo(free, reserved, va) ==
  LET f == InfoOf(free[ListOf(va)], va)
      r == InfoOf(reserved[ListOf(va)], va)
  IN  IF f # {} THEN [state |-> "free", area |-> CHOOSE a \in f : TRUE]
      ELSE IF r # {} THEN [state |-> "reserved", area |-> CHOOSE a \in r : TRUE]
      ELSE [state |-> "unregistered", area |-> {}]

\* vmalloc_get_free_bytes, vmalloc_get_reserved_bytes
SizesOf(s) ==
  LET sum[i \in 0 .. Len(s)] == IF i = 0 THEN 0 ELSE sum[i - 1] + s[i].size
  IN  sum[Len(s)]
TotalOf(lists) == SizesOf(lists["kmap"]) + SizesOf(lists["dynamic"])
=============================================================================
