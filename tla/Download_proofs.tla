-------------------------- MODULE Download_proofs --------------------------
(***************************************************************************)
(* Proofs about Download for every number of chunks, workers, blocks and   *)
(* runs: the type invariant, and the safety properties that the runs of    *)
(* MCDownload check on small instances.                                    *)
(***************************************************************************)
EXTENDS Download, TLAPS

(* The bounds in the form in which the steps below use them.               *)
LEMMA Bounds ==
  /\ NumChunks \in Nat /\ NumChunks >= 1
  /\ Blocks \in Nat /\ Blocks >= 1
  /\ MaxRuns \in Nat /\ MaxRuns >= 1
BY ConstantsAssumption

-----------------------------------------------------------------------------
(* The operators on manifests.                                             *)

(* Each operator that the job applies to its manifest returns a manifest   *)
(* of the same chunks.                                                     *)
LEMMA ManifestOps ==
  ASSUME NEW m \in [Chunk -> ChunkState], NEW c \in Chunk
  PROVE  /\ NewManifest(Chunk) \in [Chunk -> ChunkState]
         /\ MarkSending(m, c) \in [Chunk -> ChunkState]
         /\ MarkDone(m, c) \in [Chunk -> ChunkState]
         /\ FailChunk(m, c) \in [Chunk -> ChunkState]
         /\ ActivateChunk(m, c, ResumeAttempts) \in [Chunk -> ChunkState]
<1>1. NewManifest(Chunk) \in [Chunk -> ChunkState]
  BY DEF NewManifest, ChunkState, Status
<1>2. MarkSending(m, c) \in [Chunk -> ChunkState]
  BY DEF MarkSending, ChunkState, Status
<1>3. MarkDone(m, c) \in [Chunk -> ChunkState]
  BY DEF MarkDone, ChunkState, Status
<1>4. MarkFailed(m, c) \in [Chunk -> ChunkState]
  BY DEF MarkFailed, ChunkState, Status
<1>5. FailChunk(m, c) \in [Chunk -> ChunkState]
  BY <1>4 DEF FailChunk, ChunkState, Status
<1>6. ActivateChunk(m, c, ResumeAttempts) \in [Chunk -> ChunkState]
  BY DEF ActivateChunk, ChunkState, Status
<1> QED BY <1>1, <1>2, <1>3, <1>5, <1>6

(* The same for the operators that treat all chunks at once.               *)
LEMMA ManifestMaps ==
  ASSUME NEW m \in [Chunk -> ChunkState], NEW S
  PROVE  /\ Loaded(m) \in [Chunk -> ChunkState]
         /\ MarkCanceledPending(m) \in [Chunk -> ChunkState]
         /\ ResetStalled(m, S) \in [Chunk -> ChunkState]
         /\ Repair(m) \in [Chunk -> ChunkState]
BY DEF Loaded, NormalizeForResume, Retryable, MarkCanceledPending,
       ResetStalled, Repair, ChunkState, Status

(* Load leaves no chunk in "sending", and loading twice is loading once.   *)
LEMMA LoadedManifest ==
  ASSUME NEW m \in [Chunk -> ChunkState]
  PROVE  /\ \A c \in Chunk : Loaded(m)[c].status # "sending"
         /\ Loaded(Loaded(m)) = Loaded(m)
<1>1. Loaded(m) \in [Chunk -> ChunkState]
  BY ManifestMaps
<1>2. \A c \in Chunk : Loaded(m)[c].status # "sending"
  BY DEF Loaded, NormalizeForResume, Retryable, ChunkState, Status
<1>3. \A c \in Chunk : ~Retryable(Loaded(m)[c], ResumeAttempts)
  BY DEF Loaded, NormalizeForResume, Retryable, ChunkState, Status
<1>4. \A c \in Chunk : Loaded(Loaded(m))[c] = Loaded(m)[c]
  BY <1>1, <1>2, <1>3 DEF Loaded, NormalizeForResume
<1> QED BY <1>1, <1>2, <1>4, ManifestMaps

-----------------------------------------------------------------------------
(* Type correctness.                                                       *)

(* The states of a worker that its actions produce.                        *)
LEMMA WorkerStates ==
  /\ \A pc \in WorkerPc : At(pc) \in WorkerState
  /\ \A S \in SUBSET Chunk : [At("pick") EXCEPT !.view = S] \in WorkerState
  /\ \A c \in Chunk : /\ [At("fetch") EXCEPT !.chunk = c] \in WorkerState
                      /\ [At("ok") EXCEPT !.chunk = c] \in WorkerState
<1>1. 1 \in Chunk /\ 0 \in 0..Blocks - 1
  BY Bounds DEF Chunk
<1> QED BY <1>1 DEF At, WorkerState, WorkerPc

LEMMA StepType ==
  ASSUME TypeOK, NEW r \in Run, NEW w \in Worker, NEW s \in WorkerState,
         Step(r, w, s)
  PROVE  wk' \in [Run -> [Worker -> WorkerState]]
BY DEF TypeOK, Step

LEMMA StartWorkersType ==
  ASSUME TypeOK, NEW r \in Run, StartWorkers(r)
  PROVE  /\ phase' \in [Run -> Phase]
         /\ saver' \in [Run -> {"off", "on"}]
         /\ wk' \in [Run -> [Worker -> WorkerState]]
<1>1. At("check") \in WorkerState
  BY WorkerStates DEF WorkerPc
<1> QED BY <1>1 DEF TypeOK, StartWorkers, Phase

(* What a save leaves, of a manifest or of the copy that a run took.       *)
Image == [Chunk -> ChunkState] \cup {NoFile, Torn}

LEMMA SaveAtomicType ==
  ASSUME TypeOK, NEW r, NEW m \in Image, NEW others, NEW isLast \in BOOLEAN,
         SaveAtomic(r, m, others, isLast)
  PROVE  /\ disk' \in Image
         /\ saveErr' \in BOOLEAN
         /\ image' \in [Run -> Image]
<1>1. \A mixed : Images(others, mixed) \in [Run -> Image]
  BY DEF Images, Image, TypeOK
<1>2. disk' \in Image /\ saveErr' \in BOOLEAN
  BY DEF SaveAtomic, Image, TypeOK
<1> QED BY <1>1, <1>2 DEF SaveAtomic

LEMMA RemovePartsType ==
  ASSUME TypeOK
  PROVE  RemoveParts \in [Chunk -> Part]
BY DEF TypeOK, RemoveParts, NoPart, Part

LEMMA TypeInit == Init => TypeOK
<1> SUFFICES ASSUME Init PROVE TypeOK
  OBVIOUS
<1>1. mf \in [Chunk -> ChunkState]
  BY DEF Init, NewManifest, ChunkState, Status
<1>2. part \in [Chunk -> Part]
  BY DEF Init, Part, NoPart
<1>3. tmp \in Seq(Part) /\ Len(tmp) <= NumChunks
  BY Bounds DEF Init
<1>4. wk \in [Run -> [Worker -> WorkerState]]
  BY WorkerStates DEF Init, WorkerPc
<1>5. cur \in 0..MaxRuns
  BY Bounds DEF Init
<1>6. act \in [Run -> 1..NumChunks + 1]
  <2>1. 1 \in 1..NumChunks + 1
    BY Bounds
  <2> QED BY <2>1 DEF Init
<1> QED
  BY <1>1, <1>2, <1>3, <1>4, <1>5, <1>6 DEF Init, TypeOK, JobStatus, Phase

(* One step per group of actions: the API, the worker, the run, a restart. *)
LEMMA TypeApi ==
  ASSUME TypeOK, Api
  PROVE  TypeOK'
<1> USE DEF vars, jobVars, fileVars, runVars
<1>1. CASE Start
  BY <1>1, Bounds DEF Start, Prepared, TypeOK, Run, JobStatus, Phase
<1>2. CASE Resume
  BY <1>2, Bounds DEF Resume, TypeOK, Run, JobStatus, Phase
<1>3. CASE CancelContext
  BY <1>3 DEF CancelContext, TypeOK, Ended
<1>4. CASE CancelJob
  BY <1>4 DEF CancelJob, TypeOK, JobStatus
<1>5. CASE Forget
  BY <1>5, RemovePartsType DEF Forget, TypeOK
<1>6. CASE ForgetFails
  BY <1>6, RemovePartsType DEF ForgetFails, TypeOK
<1>7. CASE PruneTerminal
  BY <1>7 DEF PruneTerminal, TypeOK
<1>8. ASSUME NEW dc \in BOOLEAN, NEW dm \in BOOLEAN, Cleanup(dc, dm)
      PROVE  TypeOK'
  BY <1>8, RemovePartsType DEF Cleanup, CleanupSafe, TypeOK
<1> QED BY <1>1, <1>2, <1>3, <1>4, <1>5, <1>6, <1>7, <1>8 DEF Api

LEMMA TypeDispatch ==
  ASSUME TypeOK, NEW r \in Run, NEW w \in Worker, Dispatch(r, w)
  PROVE  TypeOK'
<1> USE DEF jobVars, fileVars, runVars
<1>0. wk[r][w] \in WorkerState
  BY DEF TypeOK
<1>1. CASE CheckContext(r, w)
  <2>1. At(IF canceled[r] THEN "off" ELSE "snap") \in WorkerState
    BY WorkerStates DEF WorkerPc
  <2> QED BY <1>1, <2>1, StepType DEF CheckContext, TypeOK
<1>2. CASE NothingPending(r, w)
  BY <1>2, StepType, WorkerStates DEF NothingPending, TypeOK, WorkerPc
<1>3. CASE NoChannel(r, w)
  BY <1>3, StepType, WorkerStates DEF NoChannel, TypeOK, WorkerPc
<1>4. CASE Snapshot(r, w)
  <2>1. RetryPending(mf) \in SUBSET Chunk
    BY DEF RetryPending
  <2> QED BY <1>4, <2>1, StepType, WorkerStates DEF Snapshot, TypeOK
<1>5. ASSUME NEW stalled \in SUBSET SlowChunks, SnapshotStalled(r, w, stalled)
      PROVE  TypeOK'
  <2>1. RetryPending(mf') \in SUBSET Chunk
    BY DEF RetryPending
  <2>2. mf' \in [Chunk -> ChunkState]
    BY <1>5, ManifestMaps DEF SnapshotStalled, TypeOK
  <2>3. wk' \in [Run -> [Worker -> WorkerState]]
    BY <1>5, <2>1, StepType, WorkerStates DEF SnapshotStalled
  <2> QED BY <1>5, <2>2, <2>3 DEF SnapshotStalled, TypeOK
<1>6. ASSUME NEW c \in Chunk, Pick(r, w, c)
      PROVE  TypeOK'
  <2>1. mf' \in [Chunk -> ChunkState]
    BY <1>6, ManifestOps DEF Pick, TypeOK
  <2>2. wk' \in [Run -> [Worker -> WorkerState]]
    BY <1>6, StepType, WorkerStates DEF Pick
  <2> QED BY <1>6, <2>1, <2>2 DEF Pick, TypeOK
<1>7. CASE CreatePart(r, w)
  <2>1. [wk[r][w] EXCEPT !.pc = "copy"] \in WorkerState
    BY <1>0 DEF WorkerState, WorkerPc
  <2>2. EmptyPart \in Part
    BY Bounds DEF EmptyPart, Part
  <2>3. part' \in [Chunk -> Part]
    BY <1>7, <2>2 DEF CreatePart, TypeOK
  <2> QED BY <1>7, <2>1, <2>3, StepType DEF CreatePart, TypeOK
<1>8. CASE CopyBlock(r, w)
  <2> DEFINE c == wk[r][w].chunk
             b == wk[r][w].pos + 1
  <2>1. b \in 1..Blocks /\ c \in Chunk
    BY <1>0, Bounds DEF WorkerState
  <2>2. part[c] \in Part
    BY <2>1 DEF TypeOK
  <2>3. Write(part[c], b) \in Part
    BY <2>1, <2>2, Bounds DEF Write, Part
  <2>4. part' \in [Chunk -> Part]
    BY <1>8, <2>1, <2>3 DEF CopyBlock, TypeOK
  <2>5. (IF b = Blocks THEN [At("ok") EXCEPT !.chunk = c]
                       ELSE [wk[r][w] EXCEPT !.pos = b]) \in WorkerState
    <3>1. [At("ok") EXCEPT !.chunk = c] \in WorkerState
      BY <2>1, WorkerStates
    <3>2. ASSUME b # Blocks
          PROVE  [wk[r][w] EXCEPT !.pos = b] \in WorkerState
      <4>1. b \in 0..Blocks - 1
        BY <2>1, <3>2, Bounds
      <4> QED BY <1>0, <4>1 DEF WorkerState
    <3> QED BY <3>1, <3>2
  <2>6. wk' \in [Run -> [Worker -> WorkerState]]
    BY <1>8, <2>5, StepType DEF CopyBlock
  <2> QED BY <1>8, <2>4, <2>6 DEF CopyBlock, TypeOK
<1>9. CASE ReportDone(r, w)
  <2>1. mf' \in [Chunk -> ChunkState]
    BY <1>9, <1>0, ManifestOps DEF ReportDone, TypeOK, WorkerState
  <2> QED BY <1>9, <2>1, StepType, WorkerStates
          DEF ReportDone, TypeOK, WorkerPc
<1>10. CASE ReportFailed(r, w)
  <2>1. mf' \in [Chunk -> ChunkState]
    BY <1>10, <1>0, ManifestOps DEF ReportFailed, TypeOK, WorkerState
  <2> QED BY <1>10, <2>1, StepType, WorkerStates
          DEF ReportFailed, TypeOK, WorkerPc
<1> QED
  BY <1>1, <1>2, <1>3, <1>4, <1>5, <1>6, <1>7, <1>8, <1>9, <1>10
  DEF Dispatch

LEMMA TypeProgress ==
  ASSUME TypeOK, NEW r \in Run, Progress(r)
  PROVE  TypeOK'
<1> USE DEF jobVars, fileVars, runVars
<1>0. "over" \in Phase /\ {} \in SUBSET (1..Blocks)
  BY DEF Phase
<1>1. CASE RunGone(r)
  BY <1>1 DEF RunGone, RunOver, TypeOK, Phase
<1>2. CASE RunStart(r)
  BY <1>2, StartWorkersType DEF RunStart, TypeOK
<1>3. CASE RunResume(r)
  BY <1>3 DEF RunResume, TypeOK, Phase
<1>4. CASE Activate(r)
  <2>1. mf' \in [Chunk -> ChunkState]
    BY <1>4, ManifestOps DEF Activate, TypeOK
  <2>2. act' \in [Run -> 1..NumChunks + 1]
    BY <1>4, Bounds DEF Activate, TypeOK, Chunk
  <2> QED BY <1>4, <2>1, <2>2 DEF Activate, TypeOK
<1>5. CASE ActivateSave(r)
  <2>1. act' \in [Run -> 1..NumChunks + 1]
    BY <1>5, Bounds DEF ActivateSave, TypeOK
  <2>2. image[r] \in Image
    BY DEF TypeOK, Image
  <2>3. /\ disk' \in Image /\ saveErr' \in BOOLEAN
        /\ image' \in [Run -> Image]
    BY <1>5, <2>2, SaveAtomicType DEF ActivateSave
  <2> QED BY <1>5, <2>1, <2>3, StartWorkersType DEF ActivateSave, TypeOK, Image
<1>6. CASE Join(r)
  <2>1. mf \in Image
    BY DEF TypeOK, Image
  <2>2. /\ disk' \in Image /\ saveErr' \in BOOLEAN
        /\ image' \in [Run -> Image]
    BY <1>6, <2>1, SaveAtomicType DEF Join
  <2> QED BY <1>6, <2>2 DEF Join, TypeOK, Phase, Image
<1>7. CASE Decide(r)
  BY <1>7 DEF Decide, TypeOK, Phase
<1>8. CASE EndCanceled(r)
  <2>1. mf' \in [Chunk -> ChunkState]
    BY <1>8, ManifestMaps DEF EndCanceled, TypeOK
  <2>2. mf' \in Image
    BY <2>1 DEF Image
  <2>3. /\ disk' \in Image /\ saveErr' \in BOOLEAN
        /\ image' \in [Run -> Image]
    BY <1>8, <2>2, SaveAtomicType DEF EndCanceled
  <2> QED
    BY <1>8, <2>1, <2>3 DEF EndCanceled, RunOver, TypeOK, Phase, JobStatus,
                            Image
<1>9. CASE MergeBegin(r)
  BY <1>9 DEF MergeBegin, TypeOK, Phase
<1>10. CASE MergePart(r)
  <2>1. part[Len(tmp) + 1] \in Part
    BY <1>10 DEF MergePart, TypeOK
  <2>2. tmp' \in Seq(Part) /\ Len(tmp') = Len(tmp) + 1
    BY <1>10, <2>1 DEF MergePart, TypeOK
  <2>3. Len(tmp') <= NumChunks
    BY <1>10, <2>2, Bounds DEF MergePart, Chunk
  <2> QED BY <1>10, <2>2, <2>3 DEF MergePart, TypeOK
<1>11. CASE EndDone(r)
  <2>1. tmp \in [Chunk -> Part]
    BY <1>11 DEF EndDone, TypeOK, Chunk
  <2>2. final' \in FinalFile
    BY <1>11, <2>1 DEF EndDone, FinalFile
  <2>3. tmp' \in Seq(Part) /\ Len(tmp') <= NumChunks
    BY <1>11, Bounds DEF EndDone
  <2> QED BY <1>11, <2>2, <2>3 DEF EndDone, RunOver, TypeOK, Phase, JobStatus
<1>12. CASE EndFailed(r)
  <2>1. tmp' \in Seq(Part) /\ Len(tmp') <= NumChunks
    BY <1>12, Bounds DEF EndFailed
  <2> QED BY <1>12, <2>1 DEF EndFailed, RunOver, TypeOK, Phase, JobStatus
<1>13. CASE Marshal(r)
  BY <1>13 DEF Marshal, TypeOK
<1> QED
  BY <1>1, <1>2, <1>3, <1>4, <1>5, <1>6, <1>7, <1>8, <1>9, <1>10, <1>11,
     <1>12, <1>13 DEF Progress

LEMMA GoroutinesGoneType ==
  ASSUME TypeOK, GoroutinesGone
  PROVE  /\ cur' = cur /\ part' = part /\ final' = final
         /\ canceler' \in {"idle", "called"}
         /\ phase' \in [Run -> Phase]
         /\ canceled' \in [Run -> BOOLEAN]
         /\ act' \in [Run -> 1..NumChunks + 1]
         /\ image' = [r \in Run |-> NoFile]
         /\ saver' \in [Run -> {"off", "on"}]
         /\ wk' \in [Run -> [Worker -> WorkerState]]
         /\ tmp' \in Seq(Part) /\ Len(tmp') <= NumChunks
<1>1. At("off") \in WorkerState
  BY WorkerStates DEF WorkerPc
<1>2. 1 \in 1..NumChunks + 1
  BY Bounds
<1>3. tmp' \in Seq(Part) /\ Len(tmp') <= NumChunks
  BY Bounds DEF GoroutinesGone
<1> QED BY <1>1, <1>2, <1>3 DEF GoroutinesGone, TypeOK, Phase, Ended

(* What Restart makes of the manifest it loads.                            *)
LEMMA RestartManifest ==
  ASSUME TypeOK, Restart
  PROVE  /\ disk \in [Chunk -> ChunkState]
         /\ mf' \in {Loaded(disk), Repair(Loaded(disk))}
         /\ mf' \in [Chunk -> ChunkState]
         /\ disk' = SaveRepaired(Loaded(disk), mf')
         /\ status' = RestoredStatus(mf')
<1>1. disk \in [Chunk -> ChunkState]
  BY DEF Restart, TypeOK
<1>2. /\ Loaded(disk) \in [Chunk -> ChunkState]
      /\ Repair(Loaded(disk)) \in [Chunk -> ChunkState]
  BY <1>1, ManifestMaps
<1> QED BY <1>1, <1>2 DEF Restart, Restored

LEMMA TypeRestart ==
  ASSUME TypeOK, Restart \/ RestartForgotten
  PROVE  TypeOK'
<1>1. CASE Restart
  <2>1. disk' \in [Chunk -> ChunkState]
    BY <1>1, RestartManifest DEF SaveRepaired
  <2>2. status' \in JobStatus
    BY <1>1, RestartManifest DEF RestoredStatus, JobStatus
  <2>3. GoroutinesGone /\ known' /\ saveErr' = FALSE
    BY <1>1 DEF Restart
  <2> QED
    BY <1>1, <2>1, <2>2, <2>3, RestartManifest, GoroutinesGoneType DEF TypeOK
<1>2. CASE RestartForgotten
  <2>1. mf' \in [Chunk -> ChunkState]
    <3>1. 1 \in Chunk /\ mf \in [Chunk -> ChunkState]
      BY Bounds DEF Chunk, TypeOK
    <3> QED BY <1>2, <3>1, ManifestOps DEF RestartForgotten
  <2> QED
    BY <1>2, <2>1, GoroutinesGoneType DEF RestartForgotten, TypeOK, JobStatus
<1> QED BY <1>1, <1>2

LEMMA TypeStep == TypeOK /\ [Next]_vars => TypeOK'
<1> SUFFICES ASSUME TypeOK, [Next]_vars PROVE TypeOK'
  OBVIOUS
<1>1. CASE Api
  BY <1>1, TypeApi
<1>2. CASE Restart \/ RestartForgotten
  BY <1>2, TypeRestart
<1>3. ASSUME NEW r \in Run, RunStep(r)
      PROVE  TypeOK'
  <2>1. CASE Progress(r)
    BY <1>3, <2>1, TypeProgress
  <2>2. CASE SaverSave(r)
    <3>1. mf \in Image
      BY DEF TypeOK, Image
    <3>2. /\ disk' \in Image /\ saveErr' \in BOOLEAN
          /\ image' \in [Run -> Image]
      BY <2>2, <3>1, SaveAtomicType DEF SaverSave
    <3> QED BY <2>2, <3>2 DEF SaverSave, TypeOK, jobVars, Image
  <2>3. CASE SaverStop(r)
    BY <1>3, <2>3 DEF SaverStop, TypeOK, jobVars, fileVars
  <2> QED BY <1>3, <2>1, <2>2, <2>3 DEF RunStep
<1>4. ASSUME NEW r \in Run, NEW w \in Worker, Dispatch(r, w)
      PROVE  TypeOK'
  BY <1>4, TypeDispatch
<1>5. CASE UNCHANGED vars
  BY <1>5 DEF TypeOK, vars, jobVars, fileVars, runVars
<1> QED BY <1>1, <1>2, <1>3, <1>4, <1>5 DEF Next

(* Every reachable state has the shape that the code gives its data.       *)
THEOREM TypeCorrect == Spec => []TypeOK
BY TypeInit, TypeStep, PTL DEF Spec

-----------------------------------------------------------------------------
(* The final file.                                                         *)

(* What has been merged so far, and what was published, is of full size.   *)
MergeInv ==
  /\ \A i \in 1..Len(tmp) : tmp[i].len = Blocks
  /\ FinalComplete
  /\ DoneHasFinal

(* All but four actions leave final, tmp and "done" alone.                 *)
LEMMA OutputUntouched ==
  ASSUME MergeInv, tmp' = tmp \/ tmp' = <<>>, final' = final,
         status' = "done" => status = "done" \/ final # NoFile
  PROVE  MergeInv'
<1>1. \A i \in 1..Len(tmp') : tmp'[i].len = Blocks
  <2>1. CASE tmp' = tmp
    BY <2>1 DEF MergeInv
  <2>2. CASE tmp' = <<>>
    BY <2>2
  <2> QED BY <2>1, <2>2
<1>2. FinalComplete' /\ DoneHasFinal'
  BY DEF MergeInv, FinalComplete, DoneHasFinal
<1> QED BY <1>1, <1>2 DEF MergeInv

LEMMA MergeStep == TypeOK /\ MergeInv /\ [Next]_vars => MergeInv'
<1> SUFFICES ASSUME TypeOK, MergeInv, [Next]_vars PROVE MergeInv'
  OBVIOUS
<1> USE DEF vars, jobVars, fileVars, runVars
<1>1. CASE Api
  <2>1. tmp' = tmp /\ final' = final
    BY <1>1 DEF Api, Start, Prepared, Resume, CancelContext, CancelJob, Forget,
                ForgetFails, PruneTerminal, Cleanup, CleanupSafe
  <2>2. status' = "done" => status = "done"
    BY <1>1 DEF Api, Start, Prepared, Resume, CancelContext, CancelJob, Forget,
                ForgetFails, PruneTerminal, Cleanup, CleanupSafe
  <2> QED BY <2>1, <2>2, OutputUntouched
<1>2. CASE Restart
  <2>1. status' = "done" => final # NoFile
    BY <1>2, RestartManifest DEF RestoredStatus, Complete
  <2> QED BY <1>2, <2>1, OutputUntouched DEF Restart, GoroutinesGone
<1>3. CASE RestartForgotten
  BY <1>3, OutputUntouched DEF RestartForgotten, GoroutinesGone
<1>4. ASSUME NEW r \in Run, RunStep(r)
      PROVE  MergeInv'
  <2>1. CASE MergePart(r)
    <3> DEFINE c == Len(tmp) + 1
    <3>1. part[c] \in Part /\ tmp \in Seq(Part)
      BY <2>1 DEF MergePart, TypeOK
    <3>2. /\ Len(tmp') = c
          /\ tmp'[c] = part[c]
          /\ \A i \in 1..Len(tmp) : tmp'[i] = tmp[i]
      BY <2>1, <3>1 DEF MergePart
    <3>3. tmp'[c].len = Blocks
      BY <2>1, <3>2 DEF MergePart, PartFits
    <3>4. \A i \in 1..Len(tmp') : tmp'[i].len = Blocks
      BY <3>1, <3>2, <3>3 DEF MergeInv
    <3>5. final' = final /\ status' = status
      BY <2>1 DEF MergePart
    <3> QED
      BY <3>4, <3>5 DEF MergeInv, FinalComplete, DoneHasFinal
  <2>2. CASE EndDone(r)
    <3>1. tmp \in [Chunk -> Part] /\ Len(tmp) = NumChunks
      BY <2>2 DEF EndDone, TypeOK, Chunk
    <3>2. final' \in FinalFile /\ final' = tmp
      BY <1>4, <2>2, <3>1 DEF EndDone, FinalFile
    <3>3. final' # NoFile
      BY <3>2, NoFileAssumption
    <3>4. \A c \in Chunk : final'[c].len = Blocks
      BY <3>1, <3>2 DEF MergeInv, Chunk
    <3>5. \A i \in 1..Len(tmp') : tmp'[i].len = Blocks
      BY <2>2 DEF EndDone
    <3> QED BY <3>3, <3>4, <3>5 DEF MergeInv, FinalComplete, DoneHasFinal
  <2>3. CASE EndCanceled(r) \/ EndFailed(r)
    BY <2>3, OutputUntouched DEF EndCanceled, EndFailed
  <2>4. CASE /\ ~MergePart(r) /\ ~EndDone(r)
             /\ ~EndCanceled(r) /\ ~EndFailed(r)
    <3>1. tmp' = tmp /\ final' = final /\ status' = status
      BY <1>4, <2>4
      DEF RunStep, Progress, RunGone, RunStart, RunResume, Activate, Marshal,
          ActivateSave, SaverSave, SaverStop, Join, Decide, MergeBegin
    <3> QED BY <3>1, OutputUntouched
  <2> QED BY <2>1, <2>2, <2>3, <2>4
<1>5. ASSUME NEW r \in Run, NEW w \in Worker, Dispatch(r, w)
      PROVE  MergeInv'
  <2>1. tmp' = tmp /\ final' = final /\ status' = status
    BY <1>5 DEF Dispatch, CheckContext, NothingPending, NoChannel, Snapshot,
                SnapshotStalled, Pick, CreatePart, CopyBlock, ReportDone,
                ReportFailed
  <2> QED BY <2>1, OutputUntouched
<1>6. CASE UNCHANGED vars
  BY <1>6, OutputUntouched
<1> QED BY <1>1, <1>2, <1>3, <1>4, <1>5, <1>6 DEF Next

LEMMA MergeInvariant == Spec => [](TypeOK /\ MergeInv)
<1>1. Init => MergeInv
  BY DEF Init, MergeInv, FinalComplete, DoneHasFinal
<1> QED BY <1>1, TypeInit, TypeStep, MergeStep, PTL DEF Spec

(* No partial output ever gets the final name, whatever workers of other   *)
(* runs do to the part files while mergeParts reads them.                  *)
THEOREM FinalIsComplete == Spec => []FinalComplete
<1>1. MergeInv => FinalComplete
  BY DEF MergeInv
<1> QED BY <1>1, MergeInvariant, PTL

(* A job is "done" only when its final file is there.                      *)
THEOREM DoneIsPublished == Spec => []DoneHasFinal
<1>1. MergeInv => DoneHasFinal
  BY DEF MergeInv
<1> QED BY <1>1, MergeInvariant, PTL

-----------------------------------------------------------------------------
(* The runs of a job.                                                      *)

(* A run beyond the current one has not begun; a job that was dropped does *)
(* not count as running; only a working run has workers.                   *)
RunInv ==
  /\ RunningHasRun
  /\ ~known => status # "running"
  /\ status = "none" => cur = 0
  /\ \A r \in Run : r > cur => phase[r] = "none"
  /\ \A r \in Run : phase[r] # "working" =>
                      \A w \in Worker : wk[r][w].pc = "off"

LEMMA RunInit == Init => RunInv
<1> SUFFICES ASSUME Init PROVE RunInv
  OBVIOUS
<1>1. \A r \in Run, w \in Worker : wk[r][w].pc = "off"
  BY DEF Init, At
<1> QED BY <1>1 DEF Init, RunInv, RunningHasRun

LEMMA RunApi ==
  ASSUME TypeOK, RunInv, Api
  PROVE  RunInv'
<1> USE DEF jobVars, fileVars, runVars
<1>1. CASE Start
  <2>1. cur = 0 /\ 1 \in Run
    BY <1>1, Bounds DEF Start, Prepared, RunInv, Run
  <2>2. \A r \in Run : phase[r] = "none"
    BY <2>1 DEF RunInv, Run
  <2>3. \A r \in Run : phase'[r] = IF r = 1 THEN "starting" ELSE "none"
    BY <1>1, <2>2 DEF Start, Prepared, TypeOK
  <2>4. \A r \in Run, w \in Worker : wk'[r][w].pc = "off"
    BY <1>1, <2>2 DEF Start, Prepared, RunInv
  <2>5. RunningHasRun'
    BY <1>1, <2>1, <2>3 DEF Start, Prepared, RunningHasRun, Ended
  <2> QED BY <1>1, <2>1, <2>3, <2>4, <2>5 DEF Start, Prepared, RunInv, Run
<1>2. CASE Resume
  <2>1. cur + 1 \in Run /\ cur \in Nat
    BY <1>2, Bounds DEF Resume, TypeOK, Run
  <2>2. phase[cur + 1] = "none"
    BY <2>1 DEF RunInv, Run
  <2>3. \A r \in Run : phase'[r] = IF r = cur + 1 THEN "resuming" ELSE phase[r]
    BY <1>2 DEF Resume, TypeOK
  <2>4. RunningHasRun'
    BY <1>2, <2>1, <2>3 DEF Resume, RunningHasRun, Ended
  <2>5. \A r \in Run : r > cur' => phase'[r] = "none"
    BY <1>2, <2>1, <2>3 DEF Resume, RunInv, Run
  <2>6. \A r \in Run : phase'[r] # "working" =>
                         \A w \in Worker : wk'[r][w].pc = "off"
    BY <1>2, <2>2, <2>3 DEF Resume, RunInv
  <2> QED BY <1>2, <2>4, <2>5, <2>6 DEF Resume, RunInv
<1>3. CASE CancelContext
  BY <1>3 DEF CancelContext, RunInv, RunningHasRun, Ended
<1>4. CASE CancelJob
  BY <1>4 DEF CancelJob, RunInv, RunningHasRun
<1>5. CASE Forget
  BY <1>5 DEF Forget, Terminal, RunInv, RunningHasRun, Ended
<1>6. CASE ForgetFails
  BY <1>6 DEF ForgetFails, RunInv, RunningHasRun, Ended
<1>7. CASE PruneTerminal
  BY <1>7 DEF PruneTerminal, Terminal, RunInv, RunningHasRun, Ended
<1>8. ASSUME NEW dc \in BOOLEAN, NEW dm \in BOOLEAN, Cleanup(dc, dm)
      PROVE  RunInv'
  BY <1>8 DEF Cleanup, CleanupSafe, RunInv, RunningHasRun, Ended
<1> QED BY <1>1, <1>2, <1>3, <1>4, <1>5, <1>6, <1>7, <1>8 DEF Api

(* A step of a worker leaves everything but the worker as it was, and only *)
(* workers of a working run take one.                                      *)
LEMMA DispatchFrame ==
  ASSUME TypeOK, RunInv, NEW r \in Run, NEW w \in Worker, Dispatch(r, w)
  PROVE  /\ UNCHANGED <<known, status, cur, canceler, tmp, final>>
         /\ UNCHANGED <<disk, saveErr>>
         /\ UNCHANGED <<phase, canceled, act, image, saver>>
         /\ phase[r] = "working"
         /\ \E s : wk' = [wk EXCEPT ![r][w] = s]
<1>1. UNCHANGED <<known, status, cur, canceler, tmp, final, disk, saveErr>>
  BY DEF Dispatch, CheckContext, NothingPending, NoChannel, Snapshot,
         SnapshotStalled, Pick, CreatePart, CopyBlock, ReportDone,
         ReportFailed, jobVars, fileVars
<1>2. UNCHANGED <<phase, canceled, act, image, saver>>
  BY DEF Dispatch, CheckContext, NothingPending, NoChannel, Snapshot,
         SnapshotStalled, Pick, CreatePart, CopyBlock, ReportDone,
         ReportFailed, runVars
<1>3. wk[r][w].pc # "off"
  BY DEF Dispatch, CheckContext, NothingPending, NoChannel, Snapshot,
         SnapshotStalled, Pick, CreatePart, CopyBlock, ReportDone,
         ReportFailed
<1>4. \E s : wk' = [wk EXCEPT ![r][w] = s]
  BY DEF Dispatch, CheckContext, NothingPending, NoChannel, Snapshot,
         SnapshotStalled, Pick, CreatePart, CopyBlock, ReportDone,
         ReportFailed, Step
<1> QED BY <1>1, <1>2, <1>3, <1>4 DEF RunInv

LEMMA RunDispatch ==
  ASSUME TypeOK, RunInv, NEW r \in Run, NEW w \in Worker, Dispatch(r, w)
  PROVE  RunInv'
<1>1. PICK s : wk' = [wk EXCEPT ![r][w] = s]
  BY DispatchFrame
<1>2. \A q \in Run : phase'[q] # "working" =>
                       \A v \in Worker : wk'[q][v].pc = "off"
  <2>1. SUFFICES ASSUME NEW q \in Run, phase'[q] # "working",
                        NEW v \in Worker
                 PROVE  wk'[q][v].pc = "off"
    OBVIOUS
  <2>2. q # r /\ wk[q][v].pc = "off"
    BY <2>1, DispatchFrame DEF RunInv
  <2> QED BY <1>1, <2>2 DEF TypeOK
<1> QED BY <1>2, DispatchFrame DEF RunInv, RunningHasRun, Ended

LEMMA RunProgress ==
  ASSUME TypeOK, RunInv, NEW r \in Run, RunStep(r)
  PROVE  RunInv'
<1> USE DEF jobVars, fileVars, runVars
<1>0. phase[r] # "none" => r <= cur
  BY DEF RunInv, TypeOK, Run
(* The end of a run, with the job reported as something else.              *)
<1>1. CASE EndCanceled(r) \/ EndDone(r) \/ EndFailed(r)
  <2>1. \A q \in Run : phase'[q] = IF q = r THEN "over" ELSE phase[q]
    BY <1>1 DEF EndCanceled, EndDone, EndFailed, RunOver, TypeOK
  <2>2. phase[r] \notin {"none", "working"} /\ wk' = wk
    BY <1>1 DEF EndCanceled, EndDone, EndFailed
  <2>3. status' \notin {"none", "running"} /\ cur' = cur
    BY <1>1 DEF EndCanceled, EndDone, EndFailed
  <2> QED BY <1>0, <2>1, <2>2, <2>3 DEF RunInv, RunningHasRun, TypeOK, Run
<1>2. CASE RunGone(r)
  <2>1. \A q \in Run : phase'[q] = IF q = r THEN "over" ELSE phase[q]
    BY <1>2 DEF RunGone, RunOver, TypeOK
  <2>2. phase[r] \notin {"none", "working"} /\ wk' = wk
    BY <1>2 DEF RunGone
  <2>3. /\ status # "running"
        /\ status' = status /\ cur' = cur /\ known' = known
    BY <1>2 DEF RunGone, RunInv
  <2> QED BY <1>0, <2>1, <2>2, <2>3 DEF RunInv, RunningHasRun, TypeOK, Run
<1>3. CASE RunStart(r) \/ ActivateSave(r)
  <2>1. \A q \in Run : phase'[q] = IF q = r THEN "working" ELSE phase[q]
    BY <1>3 DEF RunStart, ActivateSave, StartWorkers, TypeOK
  <2>2. phase[r] \notin {"none", "over"}
    BY <1>3 DEF RunStart, ActivateSave
  <2>3. \A q \in Run \ {r} : wk'[q] = wk[q]
    BY <1>3 DEF RunStart, ActivateSave, StartWorkers, TypeOK
  <2>4. UNCHANGED <<known, status, cur>>
    BY <1>3 DEF RunStart, ActivateSave
  <2>5. RunningHasRun'
    BY <2>1, <2>2, <2>4 DEF RunInv, RunningHasRun, Ended
  <2>6. \A q \in Run : phase'[q] # "working" =>
                         \A w \in Worker : wk'[q][w].pc = "off"
    BY <2>1, <2>3 DEF RunInv
  <2>7. \A q \in Run : q > cur' => phase'[q] = "none"
    BY <1>0, <2>1, <2>2, <2>4 DEF RunInv, TypeOK, Run
  <2> QED BY <2>4, <2>5, <2>6, <2>7 DEF RunInv
<1>4. CASE RunResume(r) \/ Join(r) \/ Decide(r) \/ MergeBegin(r)
  <2>1. /\ phase'[r] \notin {"none", "over", "working"}
        /\ \A q \in Run \ {r} : phase'[q] = phase[q]
    BY <1>4 DEF RunResume, Join, Decide, MergeBegin, TypeOK
  <2>2. phase[r] \notin {"none", "over"} /\ wk' = wk
    BY <1>4 DEF RunResume, Join, Decide, MergeBegin
  <2>3. UNCHANGED <<known, status, cur>>
    BY <1>4 DEF RunResume, Join, Decide, MergeBegin
  <2>4. \A w \in Worker : wk[r][w].pc = "off"
    BY <1>4 DEF RunResume, Join, Decide, MergeBegin, RunInv
  <2>5. RunningHasRun'
    BY <2>1, <2>2, <2>3 DEF RunInv, RunningHasRun, Ended
  <2>6. \A q \in Run : phase'[q] # "working" =>
                         \A w \in Worker : wk'[q][w].pc = "off"
    BY <2>1, <2>2, <2>4 DEF RunInv
  <2>7. \A q \in Run : q > cur' => phase'[q] = "none"
    BY <1>0, <2>1, <2>2, <2>3 DEF RunInv, TypeOK, Run
  <2> QED BY <2>3, <2>5, <2>6, <2>7 DEF RunInv
<1>5. CASE \/ Activate(r) \/ Marshal(r) \/ MergePart(r)
           \/ SaverSave(r) \/ SaverStop(r)
  <2>1. UNCHANGED <<known, status, cur, phase, wk>>
    BY <1>5 DEF Activate, Marshal, MergePart, SaverSave, SaverStop
  <2> QED BY <2>1 DEF RunInv, RunningHasRun, Ended
<1> QED BY <1>1, <1>2, <1>3, <1>4, <1>5 DEF RunStep, Progress

LEMMA RunRestart ==
  ASSUME TypeOK, RunInv, Restart \/ RestartForgotten
  PROVE  RunInv'
<1>1. /\ cur' = cur
      /\ \A r \in Run : phase[r] = "none" => phase'[r] = "none"
      /\ \A r \in Run, w \in Worker : wk'[r][w].pc = "off"
  BY DEF Restart, RestartForgotten, GoroutinesGone, Ended, At
<1>2. status' \notin {"none", "running"}
  BY RestartManifest DEF RestoredStatus, RestartForgotten
<1> QED BY <1>1, <1>2 DEF RunInv, RunningHasRun

LEMMA RunInvStep == TypeOK /\ RunInv /\ [Next]_vars => RunInv'
<1> SUFFICES ASSUME TypeOK, RunInv, [Next]_vars PROVE RunInv'
  OBVIOUS
<1>1. CASE UNCHANGED vars
  BY <1>1 DEF RunInv, RunningHasRun, Ended, vars, jobVars, runVars
<1> QED
  BY <1>1, RunApi, RunRestart, RunProgress, RunDispatch DEF Next

LEMMA RunInvariant == Spec => [](TypeOK /\ RunInv)
BY TypeInit, TypeStep, RunInit, RunInvStep, PTL DEF Spec

(* A job that is reported as running has a current run that is not over:   *)
(* it can be canceled, and its end will be reported.                       *)
THEOREM RunningIsBacked == Spec => []RunningHasRun
<1>1. RunInv => RunningHasRun
  BY DEF RunInv
<1> QED BY <1>1, RunInvariant, PTL

-----------------------------------------------------------------------------
(* Chunks that are being sent.                                             *)

Sends(r, w, c) == InFlight(r, w) /\ wk[r][w].chunk = c

(* A step that puts no chunk into "sending", and after which every worker  *)
(* that sent a chunk still does, or the chunk is no longer "sending".      *)
LEMMA SendingKept ==
  ASSUME SendingHasWorker,
         \A c \in Chunk : mf'[c].status = "sending" =>
           /\ mf[c].status = "sending"
           /\ \A r \in Run, w \in Worker : Sends(r, w, c) => Sends(r, w, c)'
  PROVE  SendingHasWorker'
BY DEF SendingHasWorker, Sends

LEMMA SendingDispatch ==
  ASSUME TypeOK, SendingHasWorker,
         NEW r \in Run, NEW w \in Worker, Dispatch(r, w)
  PROVE  SendingHasWorker'
<1>0. /\ wk[r][w] \in WorkerState
      /\ wk \in [Run -> [Worker -> WorkerState]]
      /\ mf \in [Chunk -> ChunkState]
  BY DEF TypeOK
(* A worker that holds no chunk, and takes none.                           *)
<1>1. ASSUME mf' = mf, ~InFlight(r, w), NEW s, Step(r, w, s)
      PROVE  SendingHasWorker'
  <2>1. \A q \in Run, v \in Worker, c \in Chunk :
          Sends(q, v, c) => Sends(q, v, c)'
    BY <1>0, <1>1 DEF Step, Sends, InFlight
  <2> QED BY <1>1, <2>1, SendingKept
<1>2. CASE \/ CheckContext(r, w) \/ NothingPending(r, w)
           \/ NoChannel(r, w) \/ Snapshot(r, w)
  <2>1. mf' = mf /\ ~InFlight(r, w) /\ \E s : Step(r, w, s)
    BY <1>2 DEF CheckContext, NothingPending, NoChannel, Snapshot, InFlight
  <2> QED BY <1>1, <2>1
<1>3. ASSUME NEW stalled \in SUBSET SlowChunks, SnapshotStalled(r, w, stalled)
      PROVE  SendingHasWorker'
  <2>1. \A q \in Run, v \in Worker, c \in Chunk :
          Sends(q, v, c) => Sends(q, v, c)'
    BY <1>0, <1>3 DEF SnapshotStalled, Step, Sends, InFlight
  <2>2. \A c \in Chunk : mf'[c].status = "sending" => mf[c].status = "sending"
    BY <1>0, <1>3 DEF SnapshotStalled, ResetStalled, ChunkState
  <2> QED BY <2>1, <2>2, SendingKept
<1>4. ASSUME NEW c \in Chunk, Pick(r, w, c)
      PROVE  SendingHasWorker'
  <2>1. Sends(r, w, c)'
    BY <1>0, <1>4 DEF Pick, Step, Sends, InFlight, At
  <2>2. \A q \in Run, v \in Worker, d \in Chunk :
          Sends(q, v, d) => Sends(q, v, d)'
    BY <1>0, <1>4 DEF Pick, Step, Sends, InFlight
  <2>3. \A d \in Chunk \ {c} : mf'[d] = mf[d]
    BY <1>0, <1>4 DEF Pick, MarkSending
  <2> QED BY <2>1, <2>2, <2>3 DEF SendingHasWorker, Sends
(* The worker goes on with its chunk.                                      *)
<1>5. CASE CreatePart(r, w) \/ CopyBlock(r, w)
  <2>1. InFlight(r, w) /\ mf' = mf
    BY <1>5 DEF CreatePart, CopyBlock, InFlight
  <2>2. /\ wk'[r][w].pc \in {"fetch", "copy", "ok"}
        /\ wk'[r][w].chunk = wk[r][w].chunk
    <3>1. CASE CreatePart(r, w)
      BY <1>0, <3>1 DEF CreatePart, Step, WorkerState
    <3>2. CASE CopyBlock(r, w)
      BY <1>0, <3>2 DEF CopyBlock, Step, WorkerState, At
    <3> QED BY <1>5, <3>1, <3>2
  <2>3. \A q \in Run, v \in Worker :
          <<q, v>> # <<r, w>> => wk'[q][v] = wk[q][v]
    BY <1>0, <1>5 DEF CreatePart, CopyBlock, Step
  <2>4. \A q \in Run, v \in Worker, c \in Chunk :
          Sends(q, v, c) => Sends(q, v, c)'
    BY <2>2, <2>3 DEF Sends, InFlight
  <2> QED BY <2>1, <2>4, SendingKept
(* The worker leaves its chunk, which is not "sending" any more.           *)
<1>6. CASE ReportDone(r, w) \/ ReportFailed(r, w)
  <2> DEFINE c == wk[r][w].chunk
  <2>1. c \in Chunk
    BY <1>0 DEF WorkerState
  <2>2. mf'[c].status # "sending" /\ \A d \in Chunk \ {c} : mf'[d] = mf[d]
    <3>1. CASE ReportDone(r, w)
      BY <1>0, <2>1, <3>1 DEF ReportDone, MarkDone, ChunkState
    <3>2. CASE ReportFailed(r, w)
      BY <1>0, <2>1, <3>2
      DEF ReportFailed, FailChunk, MarkFailed, ChunkState
    <3> QED BY <1>6, <3>1, <3>2
  <2>3. \A q \in Run, v \in Worker :
          <<q, v>> # <<r, w>> => wk'[q][v] = wk[q][v]
    BY <1>0, <1>6 DEF ReportDone, ReportFailed, Step
  <2>4. \A q \in Run, v \in Worker, d \in Chunk \ {c} :
          Sends(q, v, d) => Sends(q, v, d)'
    BY <2>3 DEF Sends, InFlight
  <2> QED BY <2>2, <2>4, SendingKept
<1> QED BY <1>2, <1>3, <1>4, <1>5, <1>6 DEF Dispatch

LEMMA SendingStep ==
  TypeOK /\ RunInv /\ SendingHasWorker /\ [Next]_vars => SendingHasWorker'
<1> SUFFICES ASSUME TypeOK, RunInv, SendingHasWorker, [Next]_vars
             PROVE  SendingHasWorker'
  OBVIOUS
<1> USE DEF vars, jobVars, fileVars, runVars
<1>1. CASE Api
  <2>1. mf' = mf /\ wk' = wk
    BY <1>1 DEF Api, Start, Prepared, Resume, CancelContext, CancelJob, Forget,
                ForgetFails, PruneTerminal, Cleanup, CleanupSafe
  <2> QED BY <2>1 DEF SendingHasWorker, InFlight
<1>2. CASE Restart
  <2>1. disk \in [Chunk -> ChunkState]
    BY <1>2, RestartManifest
  <2>2. \A c \in Chunk : Loaded(disk)[c].status # "sending"
    BY <2>1, LoadedManifest
  <2>3. \A c \in Chunk : Repair(Loaded(disk))[c].status # "sending"
    BY <2>1, <2>2, ManifestMaps DEF Repair, ChunkState
  <2> QED BY <1>2, <2>2, <2>3, RestartManifest DEF SendingHasWorker
<1>3. CASE RestartForgotten
  BY <1>3 DEF RestartForgotten, NewManifest, SendingHasWorker
<1>4. ASSUME NEW r \in Run, RunStep(r)
      PROVE  SendingHasWorker'
  <2>1. CASE RunStart(r) \/ ActivateSave(r)
    <3>1. mf' = mf
      BY <2>1 DEF RunStart, ActivateSave
    <3>2. \A q \in Run, w \in Worker, c \in Chunk :
            Sends(q, w, c) => Sends(q, w, c)'
      <4>1. \A w \in Worker : ~InFlight(r, w)
        BY <2>1 DEF RunStart, ActivateSave, RunInv, InFlight
      <4>2. \A q \in Run \ {r} : wk'[q] = wk[q]
        BY <2>1 DEF RunStart, ActivateSave, StartWorkers, TypeOK
      <4> QED BY <4>1, <4>2 DEF Sends, InFlight
    <3> QED BY <3>1, <3>2, SendingKept
  <2>2. CASE Activate(r)
    <3>1. wk' = wk
      BY <2>2 DEF Activate
    <3>2. \A c \in Chunk :
            mf'[c].status = "sending" => mf[c].status = "sending"
      BY <2>2 DEF Activate, ActivateChunk, TypeOK, ChunkState
    <3> QED BY <3>1, <3>2 DEF SendingHasWorker, InFlight
  <2>3. CASE EndCanceled(r)
    <3>1. wk' = wk
      BY <2>3 DEF EndCanceled
    <3>2. \A c \in Chunk : mf'[c].status # "sending"
      BY <2>3 DEF EndCanceled, MarkCanceledPending, TypeOK, ChunkState
    <3> QED BY <3>2 DEF SendingHasWorker
  <2>4. CASE ~(\/ RunStart(r) \/ ActivateSave(r) \/ Activate(r)
               \/ EndCanceled(r))
    <3>1. mf' = mf /\ wk' = wk
      BY <1>4, <2>4
      DEF RunStep, Progress, RunGone, RunResume, Marshal, Join, Decide,
          MergeBegin, MergePart, EndDone, EndFailed, SaverSave, SaverStop
    <3> QED BY <3>1 DEF SendingHasWorker, InFlight
  <2> QED BY <2>1, <2>2, <2>3, <2>4
<1>5. CASE UNCHANGED vars
  BY <1>5 DEF SendingHasWorker, InFlight
<1> QED BY <1>1, <1>2, <1>3, <1>4, <1>5, SendingDispatch DEF Next

(* No chunk is left "sending" without a worker that sends it: such a chunk *)
(* would never be picked again and the download never complete.            *)
THEOREM SendingIsHeld == Spec => []SendingHasWorker
<1>1. Init => SendingHasWorker
  BY DEF Init, NewManifest, SendingHasWorker
<1> QED BY <1>1, TypeInit, TypeStep, RunInit, RunInvStep, SendingStep, PTL
        DEF Spec

-----------------------------------------------------------------------------
(* The manifest on disk.                                                   *)

(* Some run will save the manifest once more.                              *)
Saves == \E r \in Run : phase[r] \in {"activating", "working"}

(* Only an activating run has a copy of the manifest to write, and unless  *)
(* the last save failed, the manifest on disk is behind the one in memory  *)
(* only while some run has yet to save it.                                 *)
SavedInv ==
  /\ \A r \in Run : Saving(r) => phase[r] = "activating"
  /\ disk # NoFile /\ ~saveErr =>
       \/ disk # Torn /\ Loaded(disk) = Loaded(mf)
       \/ Saves

LEMMA NotTorn == \A m \in [Chunk -> ChunkState] : m # Torn
BY NoFileAssumption

(* A save takes no copy of the manifest that was not taken before.         *)
LEMMA SavingKept ==
  ASSUME NEW r, NEW m, NEW others \in SUBSET Run, NEW isLast,
         SaveAtomic(r, m, others, isLast), NEW q \in Run, image'[q] # NoFile
  PROVE  q \in others /\ Saving(q)
<1>1. PICK mixed \in SUBSET {p \in others : Saving(p)} :
        image' = Images(others, mixed)
  BY DEF SaveAtomic
<1> QED BY <1>1 DEF Images, Saving

(* The saves of the manifest in memory, under the lock: when one fails or  *)
(* gets mixed with another, that or the saver's own run saves once more,   *)
(* or it was the last one.                                                 *)
LEMMA SavedLocked ==
  ASSUME TypeOK, SavedInv, NEW r \in Run, NEW isLast \in BOOLEAN,
         SaveAtomic(r, mf', Run, isLast),
         mf' \in [Chunk -> ChunkState], ~isLast => mf' = mf,
         phase[r] # "activating",
         \A q \in Run : q # r => phase'[q] = phase[q],
         phase' = phase \/ isLast
  PROVE  SavedInv'
<1>1. \A q \in Run : image'[q] # NoFile => Saving(q)
  BY SavingKept
<1>2. \A q \in Run : Saving(q) => q # r /\ phase'[q] = "activating"
  BY DEF SavedInv
<1>3. CASE disk' = mf'
  <2>1. disk' # Torn
    BY <1>3, NotTorn
  <2> QED BY <1>1, <1>2, <1>3, <2>1 DEF SavedInv, Saving
<1>4. CASE \E q \in Run : Saving(q)
  BY <1>1, <1>2, <1>4 DEF SavedInv, Saving, Saves
<1>5. CASE disk' = disk /\ saveErr' = (saveErr \/ isLast)
  <2>1. CASE isLast
    BY <1>1, <1>2, <1>5, <2>1 DEF SavedInv, Saving
  <2>2. CASE ~isLast
    <3>1. mf' = mf /\ phase' = phase /\ (saveErr' <=> saveErr)
      BY <1>5, <2>2
    <3>2. Saves' <=> Saves
      BY <3>1 DEF Saves
    <3> QED BY <1>1, <1>2, <1>5, <3>1, <3>2 DEF SavedInv, Saving
  <2> QED BY <2>1, <2>2
<1> QED BY <1>3, <1>4, <1>5 DEF SaveAtomic

LEMMA SavedStep == TypeOK /\ RunInv /\ SavedInv /\ [Next]_vars => SavedInv'
<1> SUFFICES ASSUME TypeOK, RunInv, SavedInv, [Next]_vars PROVE SavedInv'
  OBVIOUS
<1> USE DEF vars, jobVars, fileVars, runVars
<1>1. CASE Api
  <2>1. CASE Start
    <3>1. cur = 0 /\ \A r \in Run : phase[r] = "none" /\ ~Saving(r)
      BY <2>1 DEF Start, RunInv, SavedInv, Run
    <3>2. disk' = mf /\ mf' = mf /\ image' = image
      BY <2>1 DEF Start, Prepared
    <3>3. disk' # Torn
      BY <3>2, NotTorn DEF TypeOK
    <3> QED BY <3>1, <3>2, <3>3 DEF SavedInv, Saving
  <2>2. CASE Resume
    <3>1. cur + 1 \in Run /\ phase[cur + 1] = "none"
      BY <2>2, Bounds DEF Resume, RunInv, TypeOK, Run
    <3>2. \A r \in Run : phase[r] # "none" => phase'[r] = phase[r]
      BY <2>2, <3>1 DEF Resume, TypeOK
    <3> QED BY <2>2, <3>2 DEF Resume, SavedInv, Saving, Saves
  <2>3. CASE ~Start /\ ~Resume
    <3>1. /\ mf' = mf /\ phase' = phase /\ disk' \in {disk, NoFile}
          /\ image' = image /\ saveErr' = saveErr
      BY <1>1, <2>3 DEF Api, CancelContext, CancelJob, Forget, ForgetFails,
                        PruneTerminal, Cleanup
    <3> QED BY <3>1 DEF SavedInv, Saving, Saves
  <2> QED BY <2>1, <2>2, <2>3
<1>2. CASE Restart
  <2>1. disk \in [Chunk -> ChunkState]
    BY <1>2, RestartManifest
  <2>2. Loaded(Loaded(disk)) = Loaded(disk)
    BY <2>1, LoadedManifest
  <2>3. Loaded(disk') = Loaded(mf')
    BY <1>2, <2>2, RestartManifest DEF SaveRepaired
  <2>4. disk' # Torn
    <3>1. disk' \in [Chunk -> ChunkState]
      BY <1>2, <2>1, RestartManifest DEF SaveRepaired
    <3> QED BY <3>1, NotTorn
  <2>5. \A r \in Run : image'[r] = NoFile
    BY <1>2 DEF Restart, GoroutinesGone
  <2> QED BY <2>3, <2>4, <2>5 DEF SavedInv, Saving
<1>3. CASE RestartForgotten
  BY <1>3 DEF RestartForgotten, GoroutinesGone, SavedInv, Saving
<1>4. ASSUME NEW r \in Run, RunStep(r)
      PROVE  SavedInv'
  <2>1. CASE Join(r) \/ EndCanceled(r)
    <3>1. SaveAtomic(r, mf', Run, TRUE)
      BY <2>1 DEF Join, EndCanceled
    <3>2. mf' \in [Chunk -> ChunkState]
      BY <2>1, ManifestMaps DEF Join, EndCanceled, TypeOK
    <3>3. /\ phase[r] # "activating"
          /\ \A q \in Run : q # r => phase'[q] = phase[q]
      BY <2>1 DEF Join, EndCanceled, RunOver, TypeOK
    <3> QED BY <3>1, <3>2, <3>3, SavedLocked
  <2>2. CASE SaverSave(r)
    <3>1. SaveAtomic(r, mf', Run, FALSE) /\ mf' = mf /\ phase' = phase
      BY <2>2 DEF SaverSave
    <3>2. mf' \in [Chunk -> ChunkState]
      BY <3>1 DEF TypeOK
    <3>3. CASE phase[r] # "activating"
      BY <3>1, <3>2, <3>3, SavedLocked
    <3>4. CASE phase[r] = "activating"
      <4>1. \A q \in Run : image'[q] # NoFile => Saving(q)
        BY <3>1, SavingKept
      <4>2. Saves'
        BY <3>1, <3>4 DEF Saves
      <4> QED BY <3>1, <4>1, <4>2 DEF SavedInv, Saving
    <3> QED BY <3>3, <3>4
  <2>3. CASE Activate(r) \/ Marshal(r)
    <3>1. /\ phase[r] = "activating" /\ phase' = phase
          /\ \A q \in Run : q # r => image'[q] = image[q]
      BY <2>3 DEF Activate, Marshal, TypeOK
    <3>2. Saves'
      BY <3>1 DEF Saves
    <3> QED BY <3>1, <3>2 DEF SavedInv, Saving
  <2>4. CASE ActivateSave(r)
    <3>1. /\ phase'[r] = "working"
          /\ \A q \in Run : q # r => phase'[q] = phase[q]
      BY <2>4 DEF ActivateSave, StartWorkers, TypeOK
    <3>2. \A q \in Run : image'[q] # NoFile => q # r /\ Saving(q)
      <4>1. SaveAtomic(r, image[r], Run \ {r}, FALSE)
        BY <2>4 DEF ActivateSave
      <4>2. Run \ {r} \in SUBSET Run
        OBVIOUS
      <4>3. SUFFICES ASSUME NEW q \in Run, image'[q] # NoFile
                     PROVE  q \in Run \ {r} /\ Saving(q)
        OBVIOUS
      <4> QED BY <4>1, <4>2, <4>3, SavingKept
    <3>3. Saves'
      BY <3>1 DEF Saves
    <3> QED BY <3>1, <3>2, <3>3 DEF SavedInv, Saving
  <2>5. CASE ~(\/ Join(r) \/ EndCanceled(r) \/ SaverSave(r)
               \/ Activate(r) \/ Marshal(r) \/ ActivateSave(r))
    <3>1. UNCHANGED <<mf, disk, saveErr, image>>
      BY <1>4, <2>5
      DEF RunStep, Progress, RunGone, RunStart, RunResume, Decide,
          MergeBegin, MergePart, EndDone, EndFailed, SaverStop
    <3>2. \A q \in Run : phase[q] \in {"activating", "working"} =>
                           phase'[q] = phase[q]
      BY <1>4, <2>5
      DEF RunStep, Progress, RunGone, RunStart, RunResume, Decide, RunOver,
          StartWorkers, MergeBegin, MergePart, EndDone, EndFailed,
          SaverStop, TypeOK
    <3> QED BY <3>1, <3>2 DEF SavedInv, Saving, Saves
  <2> QED BY <2>1, <2>2, <2>3, <2>4, <2>5
<1>5. ASSUME NEW r \in Run, NEW w \in Worker, Dispatch(r, w)
      PROVE  SavedInv'
  <2>1. UNCHANGED <<disk, saveErr, phase, image>> /\ phase[r] = "working"
    BY <1>5, DispatchFrame
  <2>2. Saves'
    BY <2>1 DEF Saves
  <2> QED BY <2>1, <2>2 DEF SavedInv, Saving
<1>6. CASE UNCHANGED vars
  BY <1>6 DEF SavedInv, Saving, Saves
<1> QED BY <1>1, <1>2, <1>3, <1>4, <1>5, <1>6 DEF Next

(* When all runs are over, what the manager knows of the chunks is what a  *)
(* restart will load, unless the save at the end failed: neither an        *)
(* earlier save that failed nor the unlocked one of a resume, written late *)
(* or mixed with others, is what stays.                                    *)
THEOREM ProgressIsPersisted == Spec => []Persisted
<1>1. Init => SavedInv
  BY DEF Init, SavedInv, Saving
<1>2. SavedInv => Persisted
  BY DEF SavedInv, Saves, Persisted, Quiet, Ended
<1> QED BY <1>1, <1>2, TypeInit, TypeStep, RunInit, RunInvStep, SavedStep, PTL
        DEF Spec

-----------------------------------------------------------------------------
(* A download that was removed.                                            *)

(* No run is left, no saver, and no Cancel between its two halves.         *)
Idle == (\A r \in Run : Ended(r) /\ saver[r] = "off") /\ canceler = "idle"

Gone == status # "none" /\ ~known /\ disk = NoFile /\ Idle

GoneForGood == [][Gone => Gone']_vars

(* What ForgottenStaysForgotten asks of every removal holds of one with    *)
(* nothing of the job at work: the manager does not list the job again,    *)
(* and neither a call nor a restart brings its manifest back.  The runs,   *)
(* savers and Cancel calls that a removal leaves behind are all that can.  *)
THEOREM IdleRemovalIsFinal == Spec => GoneForGood
<1> USE DEF vars, jobVars, fileVars, runVars
<1>1. ASSUME TypeOK, RunInv, [Next]_vars, Gone
      PROVE  Gone'
  <2>1. CASE Api
    BY <1>1, <2>1
    DEF Gone, Idle, Api, Start, Resume, CancelContext, CancelJob, Forget,
        ForgetFails, PruneTerminal, Cleanup, CleanupSafe
  <2>2. CASE Restart
    BY <1>1, <2>2 DEF Gone, Restart
  <2>3. CASE RestartForgotten
    BY <1>1, <2>3 DEF Gone, Idle, RestartForgotten, GoroutinesGone, Ended
  <2>4. ASSUME NEW r \in Run, RunStep(r)
        PROVE  FALSE
    <3>1. phase[r] \in {"none", "over"} /\ saver[r] = "off"
      BY <1>1 DEF Gone, Idle, Ended
    <3> QED
      BY <2>4, <3>1
      DEF RunStep, Progress, RunGone, RunStart, RunResume, Activate, Marshal,
          ActivateSave, SaverSave, SaverStop, Join, Decide, EndCanceled,
          MergeBegin, MergePart, EndDone, EndFailed
  <2>5. ASSUME NEW r \in Run, NEW w \in Worker, Dispatch(r, w)
        PROVE  FALSE
    BY <1>1, <2>5, DispatchFrame DEF Gone, Idle, Ended
  <2>6. CASE UNCHANGED vars
    BY <1>1, <2>6 DEF Gone, Idle, Ended
  <2> QED BY <1>1, <2>1, <2>2, <2>3, <2>4, <2>5, <2>6 DEF Next
<1>2. TypeOK /\ RunInv /\ [Next]_vars => [Gone => Gone']_vars
  BY <1>1
<1> QED BY <1>2, RunInvariant, PTL DEF Spec, GoneForGood

-----------------------------------------------------------------------------
(* What it takes for the final file to be intact.                          *)

Copies(r, w, c) == wk[r][w].pc = "copy" /\ wk[r][w].chunk = c

(* No two workers have the part file of the same chunk open.               *)
OneWriter ==
  \A c \in Chunk, q, r \in Run, v, w \in Worker :
    Copies(q, v, c) /\ Copies(r, w, c) => q = r /\ v = w

(* A part without holes, and a writer that stands at its end.              *)
Solid(p) == p.good = 1..p.len

SolidParts ==
  /\ \A c \in Chunk : Solid(part[c])
  /\ \A r \in Run, w \in Worker :
       /\ wk[r][w].pc = "fetch" => wk[r][w].pos = 0
       /\ wk[r][w].pc = "copy" => part[wk[r][w].chunk].len = wk[r][w].pos

SolidOutput ==
  /\ \A i \in 1..Len(tmp) : tmp[i].good = 1..Blocks
  /\ FinalIntact

(* A step that writes no part file and after which a worker that copies    *)
(* did so before.                                                          *)
LEMMA PartsUntouched ==
  ASSUME TypeOK, SolidParts,
         part' = part \/ part' = RemoveParts,
         \A r \in Run, w \in Worker :
           \/ wk'[r][w] = wk[r][w]
           \/ wk'[r][w].pc \notin {"fetch", "copy"}
           \/ wk'[r][w].pc = "fetch" /\ wk'[r][w].pos = 0
  PROVE  SolidParts'
<1>1. Solid(NoPart)
  BY DEF Solid, NoPart
<1>2. \A c \in Chunk : Solid(part'[c])
  BY <1>1 DEF SolidParts, RemoveParts
<1>3. \A r \in Run, w \in Worker :
        wk[r][w].pc = "copy" => part'[wk[r][w].chunk] = part[wk[r][w].chunk]
  <2>1. \A r \in Run, w \in Worker : wk[r][w].chunk \in Chunk
    BY DEF TypeOK, WorkerState
  <2> QED BY <2>1 DEF RemoveParts, Open
<1> QED BY <1>2, <1>3 DEF SolidParts

LEMMA SolidDispatch ==
  ASSUME TypeOK, SolidParts, OneWriter, OneWriter',
         NEW r \in Run, NEW w \in Worker, Dispatch(r, w)
  PROVE  SolidParts'
<1> DEFINE c == wk[r][w].chunk
<1>0. /\ wk[r][w] \in WorkerState /\ c \in Chunk
      /\ wk \in [Run -> [Worker -> WorkerState]]
      /\ part \in [Chunk -> Part]
  BY DEF TypeOK, WorkerState
(* Nobody else writes the part that this worker writes.                    *)
<1>1. ASSUME NEW p \in Part, NEW s \in WorkerState,
             part' = [part EXCEPT ![c] = p], Step(r, w, s), Solid(p),
             s.pc \in {"copy", "ok"}, s.chunk = c,
             s.pc = "copy" => s.pos = p.len,
             wk[r][w].pc = "copy" \/ s.pc = "copy"
      PROVE  SolidParts'
  <2>1. \A d \in Chunk : Solid(part'[d])
    BY <1>0, <1>1 DEF SolidParts
  <2>2. wk'[r][w] = s
    BY <1>0, <1>1 DEF Step
  <2>3. \A q \in Run, v \in Worker :
          <<q, v>> # <<r, w>> => wk'[q][v] = wk[q][v]
    BY <1>0, <1>1 DEF Step
  <2>4. ASSUME NEW q \in Run, NEW v \in Worker, <<q, v>> # <<r, w>>,
               wk[q][v].pc = "copy"
        PROVE  part'[wk[q][v].chunk].len = wk[q][v].pos
    <3>1. wk[q][v].chunk \in Chunk
      BY <1>0 DEF WorkerState
    <3>2. wk[q][v].chunk # c
      <4>1. CASE wk[r][w].pc = "copy"
        BY <1>0, <2>4, <4>1 DEF OneWriter, Copies
      <4>2. CASE s.pc = "copy"
        <5>1. SUFFICES ASSUME wk[q][v].chunk = c PROVE FALSE
          OBVIOUS
        <5>2. wk'[r][w].pc = "copy" /\ wk'[r][w].chunk = c
          BY <1>1, <2>2, <4>2
        <5>3. wk'[q][v].pc = "copy" /\ wk'[q][v].chunk = c
          BY <2>3, <2>4, <5>1
        <5>4. ASSUME NEW d \in Chunk,
                     wk'[r][w].pc = "copy", wk'[r][w].chunk = d,
                     wk'[q][v].pc = "copy", wk'[q][v].chunk = d
              PROVE  q = r /\ v = w
          BY <5>4 DEF OneWriter, Copies
        <5> QED BY <1>0, <2>4, <5>2, <5>3, <5>4
      <4> QED BY <1>1, <4>1, <4>2
    <3> QED BY <1>0, <1>1, <2>4, <3>1, <3>2 DEF SolidParts
  <2>5. s.pc = "copy" => part'[s.chunk].len = s.pos
    BY <1>0, <1>1
  <2> QED BY <1>1, <2>1, <2>2, <2>3, <2>4, <2>5 DEF SolidParts
<1>2. CASE CreatePart(r, w)
  <2> DEFINE s == [wk[r][w] EXCEPT !.pc = "copy"]
  <2>1. s \in WorkerState /\ s.pc = "copy" /\ s.chunk = c /\ s.pos = 0
    BY <1>0, <1>2 DEF CreatePart, SolidParts, WorkerState, WorkerPc
  <2>2. EmptyPart \in Part /\ Solid(EmptyPart) /\ EmptyPart.len = 0
    BY Bounds DEF EmptyPart, Part, Solid
  <2>3. part' = [part EXCEPT ![c] = EmptyPart] /\ Step(r, w, s)
    BY <1>2 DEF CreatePart
  <2> HIDE DEF s
  <2> QED BY <1>1, <2>1, <2>2, <2>3
<1>3. CASE CopyBlock(r, w)
  <2> DEFINE b == wk[r][w].pos + 1
             s == IF b = Blocks THEN [At("ok") EXCEPT !.chunk = c]
                                ELSE [wk[r][w] EXCEPT !.pos = b]
             p == Write(part[c], b)
  <2>0. wk[r][w].pc = "copy" /\ wk[r][w].pos \in 0..Blocks - 1
    BY <1>0, <1>3 DEF CopyBlock, WorkerState
  <2>1. wk[r][w].pc = "copy" /\ part[c].len = b - 1 /\ b \in 1..Blocks
    BY <2>0, Bounds DEF SolidParts
  <2>2. part[c] \in Part /\ part[c].good = 1..b - 1
    BY <1>0, <2>1 DEF SolidParts, Solid
  <2>3. p.len = b /\ p.good = 1..b
    BY <2>1, <2>2, Bounds DEF Write
  <2>4. p \in Part /\ Solid(p)
    BY <2>1, <2>2, <2>3, Bounds DEF Write, Part, Solid
  <2>5. s \in WorkerState /\ s.chunk = c
    <3>1. CASE b = Blocks
      BY <1>0, <3>1, WorkerStates DEF At
    <3>2. CASE b # Blocks
      <4>1. b \in 0..Blocks - 1
        BY <2>1, <3>2, Bounds
      <4> QED BY <1>0, <3>2, <4>1 DEF WorkerState
    <3> QED BY <3>1, <3>2
  <2>6. s.pc \in {"copy", "ok"} /\ (s.pc = "copy" => s.pos = b)
    BY <1>0, <2>1 DEF At, WorkerState
  <2>7. part' = [part EXCEPT ![c] = p] /\ Step(r, w, s)
    BY <1>3 DEF CopyBlock
  <2> HIDE DEF s, p
  <2> QED BY <1>1, <2>1, <2>3, <2>4, <2>5, <2>6, <2>7
<1>4. CASE ~CreatePart(r, w) /\ ~CopyBlock(r, w)
  <2>1. part' = part
    BY <1>4 DEF Dispatch, CheckContext, NothingPending, NoChannel, Snapshot,
                SnapshotStalled, Pick, ReportDone, ReportFailed, fileVars
  <2>2. \E s : /\ Step(r, w, s)
               /\ s.pc # "copy"
               /\ s.pc = "fetch" => s.pos = 0
    <3>1. ASSUME NEW d \in Chunk, Pick(r, w, d)
          PROVE  Step(r, w, [At("fetch") EXCEPT !.chunk = d])
      BY <3>1 DEF Pick
    <3>2. ASSUME NEW d \in Chunk
          PROVE  /\ [At("fetch") EXCEPT !.chunk = d].pc = "fetch"
                 /\ [At("fetch") EXCEPT !.chunk = d].pos = 0
      BY DEF At
    <3>3. CASE \/ Snapshot(r, w)
               \/ \E S \in SUBSET SlowChunks : SnapshotStalled(r, w, S)
      <4>1. \E V : Step(r, w, [At("pick") EXCEPT !.view = V])
        BY <3>3 DEF Snapshot, SnapshotStalled
      <4>2. \A V : [At("pick") EXCEPT !.view = V].pc = "pick"
        BY DEF At
      <4> QED BY <4>1, <4>2
    <3>4. CASE \/ CheckContext(r, w) \/ NothingPending(r, w)
               \/ NoChannel(r, w)
               \/ ReportDone(r, w) \/ ReportFailed(r, w)
      <4>1. \E pc \in {"off", "snap", "check"} : Step(r, w, At(pc))
        BY <3>4 DEF CheckContext, NothingPending, NoChannel, ReportDone,
                    ReportFailed
      <4>2. \A pc \in {"off", "snap", "check"} : At(pc).pc = pc
        BY DEF At
      <4> QED BY <4>1, <4>2
    <3> QED BY <1>4, <3>1, <3>2, <3>3, <3>4 DEF Dispatch
  <2>3. \A q \in Run, v \in Worker :
           \/ wk'[q][v] = wk[q][v]
           \/ wk'[q][v].pc \notin {"fetch", "copy"}
           \/ wk'[q][v].pc = "fetch" /\ wk'[q][v].pos = 0
    BY <1>0, <2>2 DEF Step
  <2> QED BY <2>1, <2>3, PartsUntouched
<1> QED BY <1>2, <1>3, <1>4

LEMMA SolidPartsStep ==
  ASSUME TypeOK, RunInv, SolidParts, OneWriter, OneWriter', [Next]_vars
  PROVE  SolidParts'
<1> USE DEF vars, jobVars, fileVars, runVars
<1>1. CASE Api
  <2>1. wk' = wk /\ part' \in {part, RemoveParts}
    BY <1>1 DEF Api, Start, Resume, CancelContext, CancelJob, Forget,
                ForgetFails, PruneTerminal, Cleanup
  <2> QED BY <2>1, PartsUntouched
<1>2. CASE Restart \/ RestartForgotten
  <2>1. part' = part /\ \A r \in Run, w \in Worker : wk'[r][w].pc = "off"
    BY <1>2 DEF Restart, RestartForgotten, GoroutinesGone, At
  <2> QED BY <2>1, PartsUntouched
<1>3. ASSUME NEW r \in Run, RunStep(r)
      PROVE  SolidParts'
  <2>1. part' = part
    BY <1>3
    DEF RunStep, Progress, RunGone, RunStart, RunResume, Activate, Marshal,
        ActivateSave, SaverSave, SaverStop, Join, Decide, EndCanceled,
        MergeBegin, MergePart, EndDone, EndFailed
  <2>2. CASE RunStart(r) \/ ActivateSave(r)
    <3>1. /\ wk' = [wk EXCEPT ![r] = [w \in Worker |-> At("check")]]
          /\ wk \in [Run -> [Worker -> WorkerState]]
      BY <2>2 DEF RunStart, ActivateSave, StartWorkers, TypeOK
    <3>2. \A q \in Run, w \in Worker :
            wk'[q][w] = wk[q][w] \/ wk'[q][w] = At("check")
      BY <3>1
    <3>3. At("check").pc \notin {"fetch", "copy"}
      BY DEF At
    <3> QED BY <2>1, <3>2, <3>3, PartsUntouched
  <2>3. CASE ~RunStart(r) /\ ~ActivateSave(r)
    <3>1. wk' = wk
      BY <1>3, <2>3
      DEF RunStep, Progress, RunGone, RunResume, Activate, Marshal, SaverSave,
          SaverStop, Join, Decide, EndCanceled, MergeBegin, MergePart,
          EndDone, EndFailed
    <3> QED BY <2>1, <3>1, PartsUntouched
  <2> QED BY <2>2, <2>3
<1>4. CASE UNCHANGED vars
  BY <1>4, PartsUntouched
<1> QED BY <1>1, <1>2, <1>3, <1>4, SolidDispatch DEF Next

LEMMA SolidOutputStep ==
  ASSUME TypeOK, RunInv, SolidParts, SolidOutput, [Next]_vars
  PROVE  SolidOutput'
<1> USE DEF vars, jobVars, fileVars, runVars
<1>0. ASSUME tmp' = tmp \/ tmp' = <<>>, final' = final
      PROVE  SolidOutput'
  <2>1. CASE tmp' = tmp
    BY <1>0, <2>1 DEF SolidOutput, FinalIntact
  <2>2. CASE tmp' = <<>>
    BY <1>0, <2>2 DEF SolidOutput, FinalIntact
  <2> QED BY <1>0, <2>1, <2>2
<1>1. CASE Api
  BY <1>0, <1>1
  DEF Api, Start, Prepared, Resume, CancelContext, CancelJob, Forget,
      ForgetFails, PruneTerminal, Cleanup
<1>2. CASE Restart \/ RestartForgotten
  BY <1>0, <1>2 DEF Restart, RestartForgotten, GoroutinesGone
<1>3. ASSUME NEW r \in Run, RunStep(r)
      PROVE  SolidOutput'
  <2>1. CASE MergePart(r)
    <3> DEFINE c == Len(tmp) + 1
    <3>1. c \in Chunk /\ part[c] \in Part /\ tmp \in Seq(Part)
      BY <2>1 DEF MergePart, TypeOK
    <3>2. /\ Len(tmp') = c
          /\ tmp'[c] = part[c]
          /\ \A i \in 1..Len(tmp) : tmp'[i] = tmp[i]
      BY <2>1, <3>1 DEF MergePart
    <3>3. part[c].good = 1..Blocks
      BY <2>1, <3>1 DEF MergePart, PartFits, SolidParts, Solid
    <3>4. \A i \in 1..Len(tmp') : tmp'[i].good = 1..Blocks
      BY <3>1, <3>2, <3>3 DEF SolidOutput
    <3> QED BY <2>1, <3>4 DEF MergePart, SolidOutput, FinalIntact
  <2>2. CASE EndDone(r)
    <3>1. tmp \in [Chunk -> Part] /\ Len(tmp) = NumChunks
      BY <2>2 DEF EndDone, TypeOK, Chunk
    <3>2. \A c \in Chunk : final'[c].good = 1..Blocks
      BY <2>2, <3>1 DEF EndDone, SolidOutput, Chunk
    <3>3. \A i \in 1..Len(tmp') : tmp'[i].good = 1..Blocks
      BY <2>2 DEF EndDone
    <3> QED BY <3>2, <3>3 DEF SolidOutput, FinalIntact
  <2>3. CASE ~MergePart(r) /\ ~EndDone(r)
    <3>1. (tmp' = tmp \/ tmp' = <<>>) /\ final' = final
      BY <1>3, <2>3
      DEF RunStep, Progress, RunGone, RunStart, RunResume, Activate, Marshal,
          ActivateSave, SaverSave, SaverStop, Join, Decide, EndCanceled,
          MergeBegin, EndFailed
    <3> QED BY <1>0, <3>1
  <2> QED BY <2>1, <2>2, <2>3
<1>4. ASSUME NEW r \in Run, NEW w \in Worker, Dispatch(r, w)
      PROVE  SolidOutput'
  BY <1>0, <1>4, DispatchFrame
<1>5. CASE UNCHANGED vars
  BY <1>0, <1>5
<1> QED BY <1>1, <1>2, <1>3, <1>4, <1>5 DEF Next

(* The final file is intact in every history in which no two workers have  *)
(* the part file of one chunk open at once: cancels, resumes, failures,    *)
(* retries, removals, restarts and merges that run while other workers     *)
(* write leave no hole in a part and put none into the output.  Two        *)
(* writers of one part are the only way to a final file with a hole.       *)
THEOREM IntactWithOneWriter == Spec /\ []OneWriter => []FinalIntact
<1>1. Init => SolidParts /\ SolidOutput
  <2>1. Solid(NoPart)
    BY DEF Solid, NoPart
  <2> QED BY <2>1 DEF Init, SolidParts, SolidOutput, FinalIntact, At
<1>2. /\ TypeOK /\ RunInv /\ SolidParts /\ SolidOutput
      /\ OneWriter /\ OneWriter' /\ [Next]_vars
      => (SolidParts /\ SolidOutput)'
  BY SolidPartsStep, SolidOutputStep
<1>3. SolidOutput => FinalIntact
  BY DEF SolidOutput
<1> QED BY <1>1, <1>2, <1>3, RunInvariant, PTL DEF Spec

(* So a download with a single connection that is not resumed is intact,   *)
(* also when it is canceled, fails or is found again after a restart.      *)
COROLLARY SingleConnectionIsIntact ==
  ASSUME MaxRuns = 1, \A v, w \in Worker : v = w
  PROVE  Spec => []FinalIntact
<1>1. OneWriter
  BY DEF OneWriter, Run
<1> QED BY <1>1, IntactWithOneWriter, PTL
=============================================================================
