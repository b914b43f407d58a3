---------------------------- MODULE MCMmuTables ----------------------------
(* Instances of MmuTables.                                                 *)
EXTENDS MmuTables

CONSTANT a

AlignedAndNot == {0, 1}
=============================================================================
