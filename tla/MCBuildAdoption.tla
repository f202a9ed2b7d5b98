--------------------------- MODULE MCBuildAdoption ---------------------------
(* Small instances of BuildAdoption, by the lineage of their plans. *)
EXTENDS BuildAdoption, TLC

CONSTANTS p1, p2, p3

OneSuccessor == {<<p1, p2>>}

\* p3 may succeed p1 at once or by way of p2: a chain, and two that compete.
Diamond == {<<p1, p2>>, <<p1, p3>>, <<p2, p3>>}

Symmetric == Permutations(Builds) \cup Permutations(Sessions)
=============================================================================
