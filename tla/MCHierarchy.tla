---------------------------- MODULE MCHierarchy ----------------------------
(* A folder in another one, or two next to each other, and one to be created. *)
EXTENDS Hierarchy, TLC

CONSTANTS a, b, x, p1, c1, c2

Nested == (a :> NULL) @@ (x :> a)

Roots == (a :> NULL) @@ (b :> NULL)

ClientSymmetry == Permutations(Clients)

\* No folder name has an underscore.
Plain == {}
=============================================================================
