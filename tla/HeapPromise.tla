---------------------------- MODULE HeapPromise -----------------------------
(***************************************************************************)
(* What raw_kmalloc and raw_kfree promise: an allocation is a range of     *)
(* virtual pages of its own, mapped to physical pages of its own, and      *)
(* neither the range nor the mapping changes until it is freed, whatever   *)
(* the allocator does meanwhile with its own lists, containers and tables. *)
(***************************************************************************)
EXTENDS Integers

CONSTANTS Va, Phys   \* virtual and physical pages

VARIABLE allocs   \* the mapping of each allocation: virtual to physical page

Pages(a) == {a[v] : v \in DOMAIN a}
Apart(a, b) == DOMAIN a \cap DOMAIN b = {} /\ Pages(a) \cap Pages(b) = {}

IsMapping(a) ==
  /\ DOMAIN a \subseteq Va /\ Pages(a) \subseteq Phys
  /\ \A u, v \in DOMAIN a : a[u] = a[v] => u = v

Init == allocs = {}

Alloc ==
  /\ allocs \subseteq allocs'
  /\ \E a \in allocs' \ allocs :
       /\ allocs' = allocs \cup {a}
       /\ IsMapping(a) /\ \A b \in allocs : Apart(a, b)

Free == \E a \in allocs : allocs' = allocs \ {a}

Next == Alloc \/ Free
Spec == Init /\ [][Next]_allocs
=============================================================================
