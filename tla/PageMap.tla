------------------------------ MODULE PageMap ------------------------------
(***************************************************************************)
(* What the MMU tables promise to whoever translates addresses while they  *)
(* are changed, the hardware walker of any core included: a call gives its *)
(* pages the new translations, some at a time and in any order, and no     *)
(* other page is ever translated differently.                              *)
(***************************************************************************)
CONSTANTS Pages, Translations   \* virtual pages; translations, one of them none

VARIABLES
  map,   \* the translation of each page
  todo   \* the pages the current call has yet to set, with their translations

vars == <<map, todo>>

NoPages == [p \in {} |-> CHOOSE t \in Translations : TRUE]

Init == map \in [Pages -> Translations] /\ todo = NoPages

Call ==
  /\ DOMAIN todo = {}
  /\ DOMAIN todo' \subseteq Pages
  /\ todo' \in [DOMAIN todo' -> Translations]
  /\ UNCHANGED map

Progress ==
  /\ DOMAIN todo' \subseteq DOMAIN todo
  /\ \A p \in DOMAIN todo' : todo'[p] = todo[p]
  /\ map' = [p \in Pages |-> IF p \in DOMAIN todo \ DOMAIN todo' THEN todo[p] ELSE map[p]]

\* Progress on several pages may be seen one page at a time; a page of a split
\* or replaced block keeps its translation until it is its turn.
Next == Call \/ Progress
Spec == Init /\ [][Next]_vars
=============================================================================
