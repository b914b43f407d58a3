--------------------------- MODULE NodeContainers ---------------------------
(***************************************************************************)
(* The pages that hold the list nodes of the virtual allocator             *)
(* (kernel/mm/virt/containers and kernel/mm/virt/mdt).  A pool is a list   *)
(* of container pages and a set of used slots <<page, i>>.  A pool whose   *)
(* containers are full grows by a page of the reserve; a container that    *)
(* has no node left is given back, but for the first one of the pool.      *)
(***************************************************************************)
EXTENDS Integers, Sequences, SequencesExt, FiniteSetsExt

CONSTANT Capacity   \* Capacity[k]: nodes in a container of pool k

Pools == {"fva", "rva", "mdt"}

ASSUME CapacityAssumption == Capacity \in [Pools -> Nat \ {0}]

\* The bitfields are searched container by container, lowest bit first.
FreeSlots(pool, k, c) == {i \in 1 .. Capacity[k] : <<pool.containers[c], i>> \notin pool.used}
Roomy(pool, k) == {c \in DOMAIN pool.containers : FreeSlots(pool, k, c) # {}}
IsFull(pool, k) == Roomy(pool, k) = {}

\* The slot of a new node; page is the reserve page a full pool would take.
NewSlot(pool, k, page) ==
  IF IsFull(pool, k) THEN <<page, 1>>
  ELSE LET c == Min(Roomy(pool, k)) IN <<pool.containers[c], Min(FreeSlots(pool, k, c))>>

Grown(pool, k, page) ==
  [containers |-> IF IsFull(pool, k) THEN Append(pool.containers, page) ELSE pool.containers,
   used |-> pool.used \cup {NewSlot(pool, k, page)}]

\* Faulty: the first container is given back too.
LeavesAnyEmpty(pool, slot) == \A s \in pool.used \ {slot} : s[1] # slot[1]

\* Whether freeing the slot empties a container that may be given back.
LeavesEmpty(pool, slot) ==
  /\ slot[1] # pool.containers[1]
  /\ \A s \in pool.used \ {slot} : s[1] # slot[1]

Shrunk(pool, slot) ==
  [containers |-> IF LeavesEmpty(pool, slot)
                  THEN RemoveAt(pool.containers, CHOOSE c \in DOMAIN pool.containers :
                                                   pool.containers[c] = slot[1])
                  ELSE pool.containers,
   used |-> pool.used \ {slot}]
=============================================================================
