------------------------------ MODULE MCPulls ------------------------------
(***************************************************************************)
(* Small instances of Pulls for TLC.                                       *)
(***************************************************************************)
EXTENDS Pulls
=============================================================================
