----------------------------- MODULE MCReceiver -----------------------------
(***************************************************************************)
(* Small instances of Receiver for TLC.                                    *)
(***************************************************************************)
EXTENDS Receiver, TLC

ReceiverSymmetry ==
  Permutations(Conn) \cup Permutations(Finalizer)
=============================================================================
