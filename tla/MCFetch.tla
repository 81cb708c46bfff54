------------------------------ MODULE MCFetch -------------------------------
(***************************************************************************)
(* Fetch for TLC.                                                          *)
(***************************************************************************)
EXTENDS Fetch

CONSTANTS p1, p2, p3, a, b, val1, val2, id1, id2, grp

\* A fetch of everything and one that no path matches.
AllOrNone == {Paths, {}}

\* A fetch of everything.
All == {Paths}

Symmetry ==
    Permutations(Peers) \cup Permutations(Values) \cup Permutations(Paths)
        \cup Permutations(FetchIds)

\* Where the peers differ.
DataSymmetry ==
    Permutations(Values) \cup Permutations(Paths) \cup Permutations(FetchIds)
=============================================================================
