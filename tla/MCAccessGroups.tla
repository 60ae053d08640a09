--------------------------- MODULE MCAccessGroups ---------------------------
(* Values of the constants of AccessGroups for TLC. *)
EXTENDS AccessGroups

CONSTANTS a, b, u1, n1, n2, c1, c2

\* Each client is connected to a node of its own.
MCHome == (c1 :> n1) @@ (c2 :> n2)

\* Two groups of the studio, one of which a project overrides.
MCGroups == {<<a, "_">>, <<b, "_">>, <<a, "p">>}

\* A user with both of them.
MCInitialNames == [u \in {u1} |-> <<a, b>>]

MCLists == {<<b>>}
=============================================================================
