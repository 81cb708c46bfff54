---------------------------- MODULE MCHashtable -----------------------------
(***************************************************************************)
(* Hashtable for TLC: clusters of keys that wrap around the end of a table *)
(* of eight entries.                                                       *)
(***************************************************************************)
EXTENDS Hashtable, TLC

CONSTANTS k1, k2, k3, k4, k5, k6

SixKeys == {k1, k2, k3, k4, k5, k6}

\* With hop range 2: up to three moves, and a move that is of no use.
Cluster == k1 :> 6 @@ k2 :> 6 @@ k3 :> 6 @@ k4 :> 7 @@ k5 :> 0 @@ k6 :> 0
=============================================================================
