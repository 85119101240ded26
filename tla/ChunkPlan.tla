------------------------------ MODULE ChunkPlan ------------------------------
(***************************************************************************)
(* The plan of chunks of a file (internal/chunk), which the sender and the *)
(* download manager make before a transfer, and the checks which the plan  *)
(* in a manifest has to pass when a job is restored after a restart        *)
(* (history.go).                                                           *)
(***************************************************************************)
EXTENDS Integers

CONSTANT MiB \* the number of bytes in a MiB

ASSUME MiBAssumption == MiB \in Nat \ {0}

AutoChunkSize(totalBytes) ==
  IF totalBytes < 100 * MiB THEN 2 * MiB
  ELSE IF totalBytes <= 1024 * MiB THEN 4 * MiB
  ELSE IF totalBytes <= 4 * 1024 * MiB THEN 8 * MiB
  ELSE 16 * MiB

(* The last chunk is taken for a whole one.                                *)
BugChunkCount(totalBytes, chunkSize) ==
  IF totalBytes <= 0 \/ chunkSize <= 0 THEN 0 ELSE totalBytes \div chunkSize

ChunkCount(totalBytes, chunkSize) ==
  IF totalBytes <= 0 \/ chunkSize <= 0 THEN 0
  ELSE totalBytes \div chunkSize + IF totalBytes % chunkSize # 0 THEN 1 ELSE 0

(* The loop of BuildPlan: the indexes it takes, while the offset is inside *)
(* the file, and the chunk that it makes of each.                          *)
Indexes(totalBytes, chunkSize) ==
  {i \in 0..totalBytes : i * chunkSize < totalBytes}

BuildPlan(totalBytes, chunkSize) ==
  [i \in Indexes(totalBytes, chunkSize) |->
     LET remain == totalBytes - i * chunkSize
     IN  [offset |-> i * chunkSize,
          size |-> IF remain < chunkSize THEN remain ELSE chunkSize]]

(* validP2PHistoryManifest: n chunks that follow each other from the first *)
(* byte to the last one; a file without bytes or chunks is refused.        *)
ValidPlan(plan, n, totalBytes) ==
  /\ totalBytes > 0
  /\ n > 0
  /\ DOMAIN plan = 0..(n - 1)
  /\ plan[0].offset = 0
  /\ \A i \in 0..(n - 1) :
       /\ plan[i].size > 0
       /\ plan[i].size <= totalBytes - plan[i].offset
       /\ IF i = n - 1 THEN plan[i].offset + plan[i].size = totalBytes
          ELSE plan[i].offset + plan[i].size = plan[i + 1].offset

(* The plan covers each byte of the file once, in as many chunks as        *)
(* ChunkCount says, and is one that a restart accepts.                     *)
PlanFits(totalBytes, chunkSize) ==
  ValidPlan(BuildPlan(totalBytes, chunkSize), ChunkCount(totalBytes, chunkSize),
            totalBytes)
=============================================================================
