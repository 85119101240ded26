---------------------------- MODULE MCDiscovery ----------------------------
(***************************************************************************)
(* Small instances of Discovery, with its watch, for TLC.                  *)
(***************************************************************************)
EXTENDS DiscoveryTime
=============================================================================
