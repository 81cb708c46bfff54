------------------------------ MODULE MCServer ------------------------------
(***************************************************************************)
(* Server for TLC.                                                         *)
(***************************************************************************)
EXTENDS Server

CONSTANTS jet, http, uds, jet6, jet4, http6, http4

AllServers == <<jet, http, uds>>

LocalServers == <<jet6, jet4, http6, http4, uds>>
=============================================================================
