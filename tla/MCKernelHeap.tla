---------------------------- MODULE MCKernelHeap ----------------------------
(* Instances of KernelHeap for TLC. *)
EXTENDS KernelHeap

CONSTANTS FvaNodes, RvaNodes, MdtNodes

PowersOfTwo == [o \in 0 .. MAX_ORDER |-> 2 ^ o]
Capacities == [fva |-> FvaNodes, rva |-> RvaNodes, mdt |-> MdtNodes]
Kmap(n) == [pages |-> n, kmap |-> TRUE]
Dynamic(n) == [pages |-> n, kmap |-> FALSE]
MixedRequests == {Kmap(1), Kmap(4), Dynamic(1), Dynamic(3)}
FewRequests == {Kmap(1), Dynamic(1), Dynamic(3)}
=============================================================================
