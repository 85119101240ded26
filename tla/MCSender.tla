------------------------------ MODULE MCSender ------------------------------
(***************************************************************************)
(* Small instances of Sender for TLC, and bounded inputs for the functions *)
(* that it leaves to ChunkPlan and Channels.                               *)
(***************************************************************************)
EXTENDS Sender, ChunkPlan, Channels

CONSTANTS
  MaxBytes,     \* files of up to so many bytes ...
  MaxChunkSize, \* ... in chunks of up to so many
  Rate,         \* the rates that channels were seen to reach
  MaxInFlight,  \* the chunks that a channel is sending
  MaxChannels,  \* how many channels there are to choose from
  MaxFailures,  \* failures of a channel in a row
  MaxCooldown   \* the longest limit for the time it is out

ASSUME InputsAssumption ==
  /\ {MaxBytes, MaxChunkSize, MaxInFlight, MaxChannels, MaxFailures, MaxCooldown}
       \subseteq Nat
  /\ Rate \subseteq Nat

Channel ==
  [mbps : Rate, inFlight : 0..MaxInFlight, cooling : BOOLEAN, active : BOOLEAN]

(* The functions say nothing of the state of a call: they are evaluated    *)
(* where the first call begins.                                            *)
Planning == calls = 1 /\ \E r \in Run : pc[r] = "save"

(* BuildPlan makes a plan of as many chunks as ChunkCount says, and        *)
(* validP2PHistoryManifest accepts it after a restart for every file but   *)
(* the empty one.  That one has a plan, too, of no chunks, and is sent:    *)
(* it is the only one that a restart refuses.                              *)
PlanIsValid ==
  Planning =>
    \A totalBytes \in 0..MaxBytes, chunkSize \in 1..MaxChunkSize :
      IF totalBytes = 0
      THEN /\ DOMAIN BuildPlan(totalBytes, chunkSize) = {}
           /\ ~PlanFits(totalBytes, chunkSize)
      ELSE PlanFits(totalBytes, chunkSize)

(* NextChunk gives a chunk to a channel whenever one may be used, and then *)
(* to none that another one is much better than, whatever the order in     *)
(* which it looks at them: the hysteresis does not add up.                 *)
ChannelIsNearBest ==
  Planning =>
    \A n \in 0..MaxChannels : \A channels \in [1..n -> Channel] :
      ChoiceIsNearBest(channels)

(* ReportFailure keeps a channel out for longer and longer, up to its      *)
(* limit.                                                                  *)
ChannelsComeBack ==
  Planning =>
    \A failures \in 0..MaxFailures, max \in 1..MaxCooldown :
      \A cooldown \in 1..max : CooldownIsBounded(failures, cooldown, max)
=============================================================================
