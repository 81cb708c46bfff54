------------------------------ MODULE MCRouter ------------------------------
(***************************************************************************)
(* Router for TLC.                                                         *)
(***************************************************************************)
EXTENDS Router, TLC

CONSTANTS p1, p2, p3, a

\* A state that everybody may set.
OpenKinds == {[type |-> "STATE", fetch_only |-> FALSE, restricted |-> FALSE]}

\* A state, a restricted method and a fetch-only state.
MixedKinds == {[type |-> "STATE", fetch_only |-> FALSE, restricted |-> FALSE],
               [type |-> "METHOD", fetch_only |-> FALSE, restricted |-> TRUE],
               [type |-> "STATE", fetch_only |-> TRUE, restricted |-> FALSE]}

Symmetry == Permutations(Peers)
=============================================================================
