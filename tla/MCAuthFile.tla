----------------------------- MODULE MCAuthFile -----------------------------
(***************************************************************************)
(* AuthFile for TLC: an administrator and a user whose name clients spell  *)
(* in two ways.                                                            *)
(***************************************************************************)
EXTENDS AuthFile

CONSTANTS admin, bob, BOB, g1, g2, g3

EntryOf == [n \in {admin, bob, BOB} |-> IF n = admin THEN admin ELSE bob]

FileOrder == <<admin, bob>>

\* A piece for each of the two, and one for the end of the text
Places == [u \in {admin, bob} |-> IF u = admin THEN 1 ELSE 2]

Lists(a, b) == [u \in {admin, bob} |-> IF u = admin THEN a ELSE b]

\* A table with room, one that is just full, and one name too many.
SmallGroupLists == {Lists(<<g1>>, <<g1>>), Lists(<<g1>>, <<g2, g1>>), Lists(<<g1, g2>>, <<g3>>)}
=============================================================================
