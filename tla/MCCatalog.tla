------------------------------ MODULE MCCatalog ------------------------------
(* A small instance of Catalog for TLC. *)
EXTENDS Catalog, TLC

CONSTANTS c1, c2, v1, s1, g1, g2

\* The argument is declared to one group at a time.
FewCatalogs ==
  {[w \in Callers |-> IF w.groups = g1 THEN "dry" ELSE "absent"],
   [w \in Callers |-> IF w.groups = g1 THEN "plain" ELSE "dry"]}
Symmetry == Permutations(Calls)
=============================================================================
