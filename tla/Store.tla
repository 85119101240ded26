-------------------------------- MODULE Store --------------------------------
(***************************************************************************)
(* What the receiver promises about a transfer, to its sender and to its   *)
(* user: a chunk that was published is kept, a sender is told so only then *)
(* and the output is made of all chunks, once, and stays.                  *)
(*                                                                         *)
(* Where a chunk is, as a file of its own or in the output, and how merges *)
(* restarts and duplicates get in the way is left to the module Receiver,  *)
(* which implements this one.  Sender takes it for granted of the receiver *)
(* it talks to.                                                            *)
(***************************************************************************)
CONSTANT Chunk

VARIABLES
  kept,   \* the chunks that will not be lost any more
  told,   \* the chunks of which a sender knows that
  output  \* the whole file, or folder, is there

vars == <<kept, told, output>>

Init ==
  /\ kept = {}
  /\ told = {}
  /\ output = FALSE

Publish(c) ==
  /\ kept' = kept \cup {c}
  /\ UNCHANGED <<told, output>>

Tell(c) ==
  /\ c \in kept
  /\ told' = told \cup {c}
  /\ UNCHANGED <<kept, output>>

Deliver ==
  /\ kept = Chunk
  /\ output' = TRUE
  /\ UNCHANGED <<kept, told>>

Next ==
  \/ \E c \in Chunk : Publish(c) \/ Tell(c)
  \/ Deliver

Spec == Init /\ [][Next]_vars
=============================================================================
