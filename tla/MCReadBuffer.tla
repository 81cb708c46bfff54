---------------------------- MODULE MCReadBuffer ----------------------------
(***************************************************************************)
(* ReadBuffer for TLC.                                                     *)
(***************************************************************************)
EXTENDS ReadBuffer
=============================================================================
