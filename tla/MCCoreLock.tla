----------------------------- MODULE MCCoreLock -----------------------------
(* Instances of CoreLock for TLC. *)
EXTENDS CoreLock
=============================================================================
