---------------------------- MODULE MCWriteBuffer ---------------------------
(***************************************************************************)
(* WriteBuffer for TLC.                                                    *)
(***************************************************************************)
EXTENDS WriteBuffer

\* Messages of a raw socket (length and text) and of the upgrade response.
SomeIoVecs == {<<1, 3>>, <<2, 3>>, <<1, 2, 3>>}
=============================================================================
