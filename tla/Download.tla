------------------------------ MODULE Download ------------------------------
(***************************************************************************)
(* One HTTP download job of internal/download/manager.go: the goroutines   *)
(* of its runs (the run itself, its chunk workers and its manifest saver), *)
(* the API calls Start, Resume, Cancel, Forget and Cleanup, and what they  *)
(* leave on disk (manifest.json, one part file per chunk, the final file). *)
(*                                                                         *)
(* A step is the body of a critical section of Manager.mu or one access to *)
(* a file outside of it; only mergeParts holds the lock over several       *)
(* steps, because workers write part files while it reads them.  What a    *)
(* goroutine read in a critical section and uses after it (the pending     *)
(* chunks of dispatchOnce, the *state that Cancel looked up) is kept in a  *)
(* variable of that goroutine.                                             *)
(*                                                                         *)
(* The runs of a job overlap: Cancel makes the job resumable at once,      *)
(* while the goroutines of the canceled run still work on the same         *)
(* manifest and on the same part files.                                    *)
(*                                                                         *)
(* Bounds: MaxRuns limits how often a job is resumed; FaultyRuns names the *)
(* runs whose saves of the manifest can go wrong, SlowChunks the chunks    *)
(* that may be sent for too long.  Elapsed time is not modelled: a timeout *)
(* is a fetch that fails, and a slow chunk may always have been sent for   *)
(* too long.  The server returns the same bytes for the same range.        *)
(*                                                                         *)
(* Any save of the manifest may fail, and the code goes on as if it had    *)
(* not.  The save after ActivateResume is not locked: it takes a copy of   *)
(* the manifest (in one step here) and writes it later.                    *)
(*                                                                         *)
(* A definition named Bug... is a plausible mistake in the definition that *)
(* follows it: PROJECT.json says which property notices it.                *)
(***************************************************************************)
EXTENDS Manifest, Integers, Sequences

CONSTANTS
  NumChunks,      \* chunks in the plan of the job
  Worker,         \* the worker goroutines of one run
  Blocks,         \* blocks in which a worker writes one part file
  MaxRuns,        \* bound: runs of the job (its start and every resume)
  FaultyRuns,     \* bound: the runs whose saves of mf may go wrong
  SlowChunks,     \* bound: the chunks that may be taken for stalled
  MaxAttempts,    \* maxChunkAttempts: 8 in the code
  ResumeAttempts, \* argument of ActivateResume and normalizeForResume: 3
  NoFile,         \* stands for a file that does not exist
  Torn            \* manifest.json with the bytes of two saves: not JSON

ASSUME ConstantsAssumption ==
  /\ NumChunks \in Nat \ {0}
  /\ Blocks \in Nat \ {0}
  /\ MaxRuns \in Nat \ {0}
  /\ FaultyRuns \subseteq 1..MaxRuns
  /\ SlowChunks \subseteq 1..NumChunks
  /\ MaxAttempts \in Nat \ {0}
  /\ ResumeAttempts \in Nat \ {0}

Chunk == 1..NumChunks
Run == 1..MaxRuns

(* A part file has a length (-1: there is no such file) and the set of its *)
(* blocks that hold the bytes of the source.  A block below the length     *)
(* that is not in the set is a hole.                                       *)
Part == [len : {-1} \cup 0..Blocks, good : SUBSET (1..Blocks)]
NoPart == [len |-> -1, good |-> {}]
EmptyPart == [len |-> 0, good |-> {}]

FinalFile == [Chunk -> Part]

ASSUME NoFileAssumption ==
  /\ NoFile \notin [Chunk -> ChunkState] \cup FinalFile
  /\ Torn \notin [Chunk -> ChunkState] \cup {NoFile}

VARIABLES
  known,     \* Manager.jobs holds the job
  status,    \* state.job.Status; "none" before Start
  cur,       \* the run that state.cancel cancels (0: none yet)
  canceler,  \* a Cancel call: "called" between its cancel() and its lock
  mf,        \* state.mf, the manifest in memory
  disk,      \* manifest.json, Torn, or NoFile
  saveErr,   \* the save that ended a run, or the restore, failed
  part,      \* the part file of each chunk
  tmp,       \* the temporary output of a merge: the parts copied so far
  final,     \* the parts in the final file, or NoFile
  phase,     \* where each run is
  canceled,  \* the context of each run is canceled
  act,       \* next chunk ActivateResume visits in each run
  image,     \* the copy of mf that a run saves without the lock, or NoFile
  saver,     \* the saver goroutine of each run
  wk         \* the workers of each run

jobVars == <<known, status, cur, canceler>>
fileVars == <<disk, saveErr, part, tmp, final>>
runVars == <<phase, canceled, act, image, saver>>
vars == <<jobVars, mf, fileVars, runVars, wk>>

JobStatus == {"none", "running", "canceled", "failed", "done"}
Phase == {"none", "starting", "resuming", "activating", "working", "joined",
          "canceling", "finishing", "merging", "over"}
WorkerPc == {"off", "check", "snap", "pick", "fetch", "copy", "ok"}
WorkerState ==
  [pc : WorkerPc, view : SUBSET Chunk, chunk : Chunk, pos : 0..Blocks - 1]

At(pc) == [pc |-> pc, view |-> {}, chunk |-> 1, pos |-> 0]

Ended(r) == phase[r] \in {"none", "over"}

(* Manager.mu: a merge in progress keeps every critical section waiting.   *)
Unlocked == \A r \in Run : phase[r] # "merging"

(* A worker of run r is between MarkAndGetSending and the report of the    *)
(* outcome.                                                                *)
InFlight(r, w) == wk[r][w].pc \in {"fetch", "copy", "ok"}

(* Windows refuses to remove a file that a worker has open.                *)
Open == {c \in Chunk : \E r \in Run, w \in Worker :
                         wk[r][w].pc = "copy" /\ wk[r][w].chunk = c}

RemoveParts == [c \in Chunk |-> IF c \in Open THEN part[c] ELSE NoPart]

(* The part file is appended to instead of written at the writer's offset. *)
BugWrite(p, b) == [len |-> p.len + 1, good |-> p.good \cup {b}]

(* f.Write of block b at the writer's own offset.                          *)
Write(p, b) == [len  |-> IF p.len < b THEN b ELSE p.len,
                good |-> p.good \cup {b}]

(* A part is merged whatever its size.                                     *)
BugPartFits(p) == p.len # -1

PartFits(p) == p.len = Blocks

OutputFree == final = NoFile

(* A job that runs may be dropped.                                         *)
BugTerminal == TRUE

Terminal == status # "running"

(* retryPending: what a worker may dispatch.                               *)
RetryPending(m) ==
  {c \in Chunk : m[c].status = "pending" \/ Retryable(m[c], MaxAttempts)}

(* resetStalledChunksLocked, for the chunks taken for stalled.             *)
ResetStalled(m, stalled) ==
  [c \in Chunk |-> IF c \in stalled THEN [m[c] EXCEPT !.status = "pending"]
                                    ELSE m[c]]

(* The attempts of a chunk are not limited.                                *)
BugFailChunk(m, c) == [m EXCEPT ![c].status = "pending"]

(* MarkFailed, and pending again while attempts are left.                  *)
FailChunk(m, c) ==
  IF m[c].attempts + 1 < MaxAttempts
  THEN [MarkFailed(m, c) EXCEPT ![c].status = "pending"]
  ELSE MarkFailed(m, c)

(* The run has a copy of the manifest to write.                            *)
Saving(r) == image[r] # NoFile

(* What the runs of others have to write, mixed with other bytes or not.   *)
Images(others, mixed) ==
  [q \in Run |-> IF q \in mixed THEN Torn
                ELSE IF q \in others THEN image[q] ELSE NoFile]

(* SaveAtomic of m by run r while the runs of others may be saving too.    *)
(* All use the same manifest.json.tmp, so the bytes of two may get mixed,  *)
(* in the file that is renamed now or in the one that another renames.     *)
(* Nobody looks at the error of a save that fails; saveErr only notes that *)
(* no other is due (isLast).                                               *)
SaveAtomic(r, m, others, isLast) ==
  LET racing == {q \in others : Saving(q) /\ {r, q} \cap FaultyRuns # {}}
  IN /\ \E mixed \in SUBSET racing : image' = Images(others, mixed)
     /\ \/ disk' = m /\ saveErr' = FALSE
        \/ racing # {} /\ disk' = Torn /\ saveErr' = FALSE
        \/ r \in FaultyRuns /\ disk' = disk /\ saveErr' = (saveErr \/ isLast)

-----------------------------------------------------------------------------
Init ==
  /\ known = FALSE
  /\ status = "none"
  /\ cur = 0
  /\ canceler = "idle"
  /\ mf = NewManifest(Chunk)
  /\ disk = NoFile
  /\ saveErr = FALSE
  /\ part = [c \in Chunk |-> NoPart]
  /\ tmp = <<>>
  /\ final = NoFile
  /\ phase = [r \in Run |-> "none"]
  /\ canceled = [r \in Run |-> FALSE]
  /\ act = [r \in Run |-> 1]
  /\ image = [r \in Run |-> NoFile]
  /\ saver = [r \in Run |-> "off"]
  /\ wk = [r \in Run |-> [w \in Worker |-> At("off")]]

-----------------------------------------------------------------------------
(* The API.                                                                *)

(* prepare probes the server, plans the chunks, reserves an output name    *)
(* and saves the new manifest; when that fails there is no job.            *)
Prepared == status' = "running" /\ disk' = mf /\ UNCHANGED saveErr

(* POST /downloads: the job is listed and its first run spawned.           *)
Start ==
  /\ status = "none"
  /\ Prepared
  /\ known' = TRUE
  /\ cur' = 1
  /\ phase' = [phase EXCEPT ![1] = "starting"]
  /\ UNCHANGED <<canceler, mf, part, tmp, final, canceled, act, image, saver,
                 wk>>

(* POST /downloads/<id>/resume: nothing waits for the runs that went       *)
(* before.                                                                 *)
Resume ==
  /\ Unlocked
  /\ known
  /\ status \in {"canceled", "failed"}
  /\ cur < MaxRuns
  /\ status' = "running"
  /\ cur' = cur + 1
  /\ phase' = [phase EXCEPT ![cur + 1] = "resuming"]
  /\ UNCHANGED <<known, canceler, mf, fileVars, canceled, act, image, saver,
                 wk>>

(* POST /downloads/<id>/cancel: the job is looked up, the lock released,   *)
(* its context canceled ...                                                *)
CancelContext ==
  /\ Unlocked
  /\ known
  /\ canceler = "idle"
  /\ canceler' = "called"
  /\ canceled' = [r \in Run |-> canceled[r] \/ (r = cur /\ ~Ended(r))]
  /\ UNCHANGED <<known, status, cur, mf, fileVars, phase, act, image, saver,
                 wk>>

(* ... and what was looked up is put back under the lock.                  *)
CancelJob ==
  /\ Unlocked
  /\ canceler = "called"
  /\ canceler' = "idle"
  /\ status' = IF status = "running" THEN "canceled" ELSE status
  /\ known' = TRUE
  /\ UNCHANGED <<cur, mf, fileVars, runVars, wk>>

(* DELETE /downloads/<id>.                                                 *)
Forget ==
  /\ Unlocked
  /\ known
  /\ Terminal
  /\ part' = RemoveParts
  /\ disk' = NoFile
  /\ known' = FALSE
  /\ UNCHANGED <<status, cur, canceler, mf, saveErr, tmp, final, runVars, wk>>

(* The same when the manifest cannot be removed: the parts are gone, the   *)
(* job stays.                                                              *)
ForgetFails ==
  /\ Unlocked
  /\ known
  /\ Terminal
  /\ disk # NoFile
  /\ part' = RemoveParts
  /\ UNCHANGED <<jobVars, mf, disk, saveErr, tmp, final, runVars, wk>>

(* PreviewCleanup.  The counters it looks at lag behind: they still count  *)
(* a done chunk that is being sent again.                                  *)
CleanupSafe ==
  /\ known
  /\ status = "done"
  /\ final # NoFile
  /\ \A c \in Chunk : mf[c].status \in {"done", "sending"}

(* POST /downloads/<id>/cleanup: the deletions asked for, outside the      *)
(* lock.                                                                   *)
Cleanup(deleteChunks, deleteManifest) ==
  /\ Unlocked
  /\ CleanupSafe
  /\ part' = IF deleteChunks THEN RemoveParts ELSE part
  /\ disk' = IF deleteManifest THEN NoFile ELSE disk
  /\ UNCHANGED <<jobVars, mf, saveErr, tmp, final, runVars, wk>>

(* pruneTerminalLocked, when another of the 500 jobs kept is newer.        *)
PruneTerminal ==
  /\ Unlocked
  /\ known
  /\ Terminal
  /\ known' = FALSE
  /\ UNCHANGED <<status, cur, canceler, mf, fileVars, runVars, wk>>

-----------------------------------------------------------------------------
(* The goroutine of a run, up to the start of its workers.                 *)

(* The context of a run that is over does not matter any more.             *)
RunOver(r) ==
  /\ phase' = [phase EXCEPT ![r] = "over"]
  /\ canceled' = [canceled EXCEPT ![r] = FALSE]

StartWorkers(r) ==
  /\ phase' = [phase EXCEPT ![r] = "working"]
  /\ saver' = [saver EXCEPT ![r] = "on"]
  /\ wk' = [wk EXCEPT ![r] = [w \in Worker |-> At("check")]]

(* run looks the job up and does nothing when it is gone.                  *)
RunGone(r) ==
  /\ Unlocked
  /\ phase[r] \in {"starting", "resuming"}
  /\ ~known
  /\ RunOver(r)
  /\ UNCHANGED <<jobVars, mf, fileVars, act, image, saver, wk>>

RunStart(r) ==
  /\ Unlocked
  /\ phase[r] = "starting"
  /\ known
  /\ StartWorkers(r)
  /\ UNCHANGED <<jobVars, mf, fileVars, canceled, act, image>>

RunResume(r) ==
  /\ Unlocked
  /\ phase[r] = "resuming"
  /\ known
  /\ phase' = [phase EXCEPT ![r] = "activating"]
  /\ UNCHANGED <<jobVars, mf, fileVars, canceled, act, image, saver, wk>>

(* ActivateResume walks the manifest without the lock, so the goroutines   *)
(* of an earlier run may take steps between two of its iterations.         *)
Activate(r) ==
  /\ phase[r] = "activating"
  /\ act[r] \in Chunk
  /\ mf' = ActivateChunk(mf, act[r], ResumeAttempts)
  /\ act' = [act EXCEPT ![r] = @ + 1]
  /\ UNCHANGED <<jobVars, fileVars, phase, canceled, image, saver, wk>>

(* The save after it is not locked either: the manifest is marshalled ...  *)
Marshal(r) ==
  /\ phase[r] = "activating"
  /\ act[r] \notin Chunk
  /\ ~Saving(r)
  /\ image' = [image EXCEPT ![r] = mf]
  /\ UNCHANGED <<jobVars, mf, fileVars, phase, canceled, act, saver, wk>>

(* ... and then written, whatever was saved in between.                    *)
ActivateSave(r) ==
  /\ phase[r] = "activating"
  /\ Saving(r)
  /\ SaveAtomic(r, image[r], Run \ {r}, FALSE)
  /\ act' = [act EXCEPT ![r] = 1]
  /\ StartWorkers(r)
  /\ UNCHANGED <<jobVars, mf, part, tmp, final, canceled>>

-----------------------------------------------------------------------------
(* dispatchOnce, run in a loop by every worker.                            *)

Step(r, w, state) == wk' = [wk EXCEPT ![r][w] = state]

CheckContext(r, w) ==
  /\ wk[r][w].pc = "check"
  /\ Step(r, w, At(IF canceled[r] THEN "off" ELSE "snap"))
  /\ UNCHANGED <<jobVars, mf, fileVars, runVars>>

(* First critical section: a worker that finds nothing to do ends, even    *)
(* when another worker may yet put a chunk back.                           *)
NothingPending(r, w) ==
  /\ Unlocked
  /\ wk[r][w].pc = "snap"
  /\ RetryPending(mf) = {}
  /\ Step(r, w, At("off"))
  /\ UNCHANGED <<jobVars, mf, fileVars, runVars>>

Snapshot(r, w) ==
  /\ Unlocked
  /\ wk[r][w].pc = "snap"
  /\ RetryPending(mf) # {}
  /\ Step(r, w, [At("pick") EXCEPT !.view = RetryPending(mf)])
  /\ UNCHANGED <<jobVars, mf, fileVars, runVars>>

(* The same after 75 s without progress: chunks that were sent for as long *)
(* go back to pending, even while a worker still holds them.               *)
SnapshotStalled(r, w, stalled) ==
  /\ Unlocked
  /\ wk[r][w].pc = "snap"
  /\ RetryPending(mf) # {}
  /\ stalled # {}
  /\ \A c \in stalled : mf[c].status = "sending"
  /\ mf' = ResetStalled(mf, stalled)
  /\ Step(r, w, [At("pick") EXCEPT !.view = RetryPending(mf')])
  /\ UNCHANGED <<jobVars, fileVars, runVars>>

(* No channel is usable, or none has room: sleep and start over.           *)
NoChannel(r, w) ==
  /\ wk[r][w].pc = "pick"
  /\ Step(r, w, At("check"))
  /\ UNCHANGED <<jobVars, mf, fileVars, runVars>>

(* Second critical section: the chunk comes from the snapshot, whatever    *)
(* happened to it since.                                                   *)
Pick(r, w, c) ==
  /\ Unlocked
  /\ wk[r][w].pc = "pick"
  /\ c \in wk[r][w].view
  /\ mf' = MarkSending(mf, c)
  /\ Step(r, w, [At("fetch") EXCEPT !.chunk = c])
  /\ UNCHANGED <<jobVars, fileVars, runVars>>

(* downloadChunkVia, no lock held: os.Create truncates the part file ...   *)
CreatePart(r, w) ==
  /\ wk[r][w].pc = "fetch"
  /\ part' = [part EXCEPT ![wk[r][w].chunk] = EmptyPart]
  /\ Step(r, w, [wk[r][w] EXCEPT !.pc = "copy"])
  /\ UNCHANGED <<jobVars, mf, disk, saveErr, tmp, final, runVars>>

(* ... and io.CopyN fills it.                                              *)
CopyBlock(r, w) ==
  LET c == wk[r][w].chunk
      b == wk[r][w].pos + 1
  IN /\ wk[r][w].pc = "copy"
     /\ part' = [part EXCEPT ![c] = Write(part[c], b)]
     /\ Step(r, w, IF b = Blocks
                   THEN [At("ok") EXCEPT !.chunk = c]
                   ELSE [wk[r][w] EXCEPT !.pos = b])
     /\ UNCHANGED <<jobVars, mf, disk, saveErr, tmp, final, runVars>>

(* Third critical section, which the file is closed before.                *)
ReportDone(r, w) ==
  /\ Unlocked
  /\ wk[r][w].pc = "ok"
  /\ mf' = MarkDone(mf, wk[r][w].chunk)
  /\ Step(r, w, At("check"))
  /\ UNCHANGED <<jobVars, fileVars, runVars>>

(* The request, the response, the body or the timeout failed; what was     *)
(* written so far stays in the part file.                                  *)
ReportFailed(r, w) ==
  /\ Unlocked
  /\ wk[r][w].pc \in {"fetch", "copy"}
  /\ mf' = FailChunk(mf, wk[r][w].chunk)
  /\ Step(r, w, At("check"))
  /\ UNCHANGED <<jobVars, fileVars, runVars>>

-----------------------------------------------------------------------------
(* The saver goroutine, woken by its ticker or by triggerSave.  It stops   *)
(* when the run does, but one that was already waiting for the lock still  *)
(* saves after that.                                                       *)

SaverSave(r) ==
  /\ Unlocked
  /\ saver[r] = "on"
  /\ SaveAtomic(r, mf, Run, FALSE)
  /\ UNCHANGED <<jobVars, mf, part, tmp, final, phase, canceled, act, saver,
                 wk>>

SaverStop(r) ==
  /\ saver[r] = "on"
  /\ canceled[r] \/ phase[r] # "working"
  /\ saver' = [saver EXCEPT ![r] = "off"]
  /\ UNCHANGED <<jobVars, mf, fileVars, phase, canceled, act, image, wk>>

-----------------------------------------------------------------------------
(* The end of a run.                                                       *)

(* wg.Wait returns and the manifest is saved, or not: the run goes on.     *)
Join(r) ==
  /\ Unlocked
  /\ phase[r] = "working"
  /\ \A w \in Worker : wk[r][w].pc = "off"
  /\ SaveAtomic(r, mf, Run, TRUE)
  /\ phase' = [phase EXCEPT ![r] = "joined"]
  /\ UNCHANGED <<jobVars, mf, part, tmp, final, canceled, act, saver, wk>>

(* ctx.Err is read without the lock.                                       *)
Decide(r) ==
  /\ phase[r] = "joined"
  /\ phase' = [phase EXCEPT
                 ![r] = IF canceled[r] THEN "canceling" ELSE "finishing"]
  /\ UNCHANGED <<jobVars, mf, fileVars, canceled, act, image, saver, wk>>

EndCanceled(r) ==
  /\ Unlocked
  /\ phase[r] = "canceling"
  /\ mf' = MarkCanceledPending(mf)
  /\ SaveAtomic(r, mf', Run, TRUE)
  /\ status' = "canceled"
  /\ RunOver(r)
  /\ UNCHANGED <<known, cur, canceler, part, tmp, final, act, saver, wk>>

(* mergeParts, from here to the end of the run under the lock.             *)
MergeBegin(r) ==
  /\ Unlocked
  /\ phase[r] = "finishing"
  /\ AllDone(mf)
  /\ OutputFree
  /\ phase' = [phase EXCEPT ![r] = "merging"]
  /\ UNCHANGED <<jobVars, mf, fileVars, canceled, act, image, saver, wk>>

MergePart(r) ==
  LET c == Len(tmp) + 1
  IN /\ phase[r] = "merging"
     /\ c \in Chunk
     /\ PartFits(part[c])
     /\ tmp' = Append(tmp, part[c])
     /\ UNCHANGED <<jobVars, mf, disk, saveErr, part, final, runVars, wk>>

EndDone(r) ==
  /\ phase[r] = "merging"
  /\ Len(tmp) = NumChunks
  /\ OutputFree
  /\ final' = tmp
  /\ tmp' = <<>>
  /\ status' = "done"
  /\ RunOver(r)
  /\ UNCHANGED <<known, cur, canceler, mf, disk, saveErr, part, act, image,
                 saver, wk>>

(* Some chunk is not done, or mergeParts gives up: there is an output      *)
(* already, a part is missing or has the wrong size, or an I/O error.  The *)
(* temporary file is removed.                                              *)
EndFailed(r) ==
  /\ phase[r] = "merging" \/ (phase[r] = "finishing" /\ Unlocked)
  /\ tmp' = <<>>
  /\ status' = "failed"
  /\ RunOver(r)
  /\ UNCHANGED <<known, cur, canceler, mf, disk, saveErr, part, final, act,
                 image, saver, wk>>

-----------------------------------------------------------------------------
(* The agent stops and starts: restoreHistory and restoreState rebuild the *)
(* job from its manifest.                                                  *)

Loaded(m) == NormalizeForResume(m, ResumeAttempts)

(* The chunks alone decide.                                                *)
BugComplete(m) == AllDone(m)

Complete(m) == final # NoFile /\ AllDone(m)

(* A done chunk without a part file of its size has to be fetched again.   *)
Repair(m) ==
  [c \in Chunk |-> IF m[c].status = "done" /\ ~PartFits(part[c])
                   THEN [m[c] EXCEPT !.status = "pending"]
                   ELSE m[c]]

(* The repaired manifest is kept in memory only.                           *)
BugSaveRepaired(loaded, repaired) == disk

SaveRepaired(loaded, repaired) ==
  IF repaired = loaded THEN disk ELSE repaired

RestoredStatus(m) ==
  IF Complete(m) THEN "done"
  ELSE IF \E c \in Chunk : /\ m[c].status = "failed"
                           /\ m[c].attempts >= MaxAttempts
  THEN "failed"
  ELSE "canceled"

(* Nothing survives of the goroutines of the agent that stopped.           *)
GoroutinesGone ==
  /\ canceler' = "idle"
  /\ phase' = [r \in Run |-> IF Ended(r) THEN phase[r] ELSE "over"]
  /\ saver' = [r \in Run |-> "off"]
  /\ wk' = [r \in Run |-> [w \in Worker |-> At("off")]]
  /\ canceled' = [r \in Run |-> FALSE]
  /\ act' = [r \in Run |-> 1]
  /\ image' = [r \in Run |-> NoFile]
  /\ tmp' = <<>>
  /\ UNCHANGED <<cur, part, final>>

(* What restoreState makes of a manifest that it could read.               *)
Restored == IF Complete(Loaded(disk)) THEN Loaded(disk)
            ELSE Repair(Loaded(disk))

Restart ==
  /\ disk \notin {NoFile, Torn}
  /\ GoroutinesGone
  /\ mf' = Restored
  /\ disk' = SaveRepaired(Loaded(disk), mf')
  /\ saveErr' = FALSE
  /\ status' = RestoredStatus(mf')
  /\ known' = TRUE

(* Without a manifest the job is not in the history any more, nor with one *)
(* that is unreadable, or that needs a repair which cannot be saved.       *)
RestartForgotten ==
  /\ status # "none"
  /\ disk \notin {NoFile, Torn} => FaultyRuns # {} /\ Restored # Loaded(disk)
  /\ GoroutinesGone
  /\ known' = FALSE
  /\ status' = IF status = "running" THEN "canceled" ELSE status
  /\ mf' = NewManifest(Chunk)
  /\ saveErr' = TRUE
  /\ UNCHANGED disk

-----------------------------------------------------------------------------
Api ==
  \/ Start \/ Resume \/ CancelContext \/ CancelJob
  \/ Forget \/ ForgetFails \/ PruneTerminal
  \/ \E dc, dm \in BOOLEAN : Cleanup(dc, dm)

Dispatch(r, w) ==
  \/ CheckContext(r, w) \/ NothingPending(r, w) \/ NoChannel(r, w)
  \/ Snapshot(r, w)
  \/ \E stalled \in SUBSET SlowChunks : SnapshotStalled(r, w, stalled)
  \/ \E c \in Chunk : Pick(r, w, c)
  \/ CreatePart(r, w) \/ CopyBlock(r, w)
  \/ ReportDone(r, w) \/ ReportFailed(r, w)

(* What a run does by itself between its creation and its end.             *)
Progress(r) ==
  \/ RunGone(r) \/ RunStart(r) \/ RunResume(r)
  \/ Activate(r) \/ Marshal(r) \/ ActivateSave(r)
  \/ Join(r) \/ Decide(r) \/ EndCanceled(r)
  \/ MergeBegin(r) \/ MergePart(r) \/ EndDone(r) \/ EndFailed(r)

RunStep(r) == Progress(r) \/ SaverSave(r) \/ SaverStop(r)

Next ==
  \/ Api
  \/ Restart \/ RestartForgotten
  \/ \E r \in Run : RunStep(r) \/ \E w \in Worker : Dispatch(r, w)

Spec == Init /\ [][Next]_vars

(* Every goroutine that can go on does, and an interface is usable again   *)
(* and again: a worker that keeps finding chunks to send gets to pick each *)
(* of them (nextChunkPos goes round the pending chunks).  Nothing is       *)
(* assumed of the API, of the savers or of restarts.                       *)
Fairness ==
  /\ WF_vars(CancelJob)
  /\ \A r \in Run :
       /\ WF_vars(Progress(r))
       /\ \A w \in Worker :
            /\ WF_vars(Dispatch(r, w))
            /\ \A c \in Chunk : SF_vars(Pick(r, w, c))

FairSpec == Spec /\ Fairness

-----------------------------------------------------------------------------
(* The shape of every variable.                                            *)
TypeOK ==
  /\ known \in BOOLEAN
  /\ status \in JobStatus
  /\ cur \in 0..MaxRuns
  /\ canceler \in {"idle", "called"}
  /\ mf \in [Chunk -> ChunkState]
  /\ disk \in [Chunk -> ChunkState] \cup {NoFile, Torn}
  /\ saveErr \in BOOLEAN
  /\ part \in [Chunk -> Part]
  /\ tmp \in Seq(Part)
  /\ Len(tmp) <= NumChunks
  /\ final \in FinalFile \cup {NoFile}
  /\ phase \in [Run -> Phase]
  /\ canceled \in [Run -> BOOLEAN]
  /\ act \in [Run -> 1..NumChunks + 1]
  /\ image \in [Run -> [Chunk -> ChunkState] \cup {NoFile, Torn}]
  /\ saver \in [Run -> {"off", "on"}]
  /\ wk \in [Run -> [Worker -> WorkerState]]

(* Whatever workers of other runs do to the part files before and while    *)
(* they are merged, a file that got the final name holds every chunk at    *)
(* its full size: no partial output under the final name (mergeParts).     *)
FinalComplete ==
  final # NoFile => \A c \in Chunk : final[c].len = Blocks

(* A job reported as done has its final file, also after a restart and     *)
(* after late runs of the same job ended.                                  *)
DoneHasFinal == status = "done" => final # NoFile

(* A job reported as running has a run behind it that Cancel reaches and   *)
(* that will report its end; otherwise it could neither be resumed nor     *)
(* removed any more.  Ends of earlier runs change the status of the job    *)
(* (run), and pruning may drop the job before its run looks it up.         *)
RunningHasRun == status = "running" => cur \in Run /\ ~Ended(cur)

(* A chunk is only ever "sending" while some worker holds it: no retry,    *)
(* reset, resume or overlap of runs leaves a chunk that nobody sends and   *)
(* nobody would pick (dispatchOnce, ActivateResume, Load).                 *)
SendingHasWorker ==
  \A c \in Chunk : mf[c].status = "sending" =>
    \E r \in Run, w \in Worker : InFlight(r, w) /\ wk[r][w].chunk = c

Quiet == \A r \in Run : Ended(r)

(* Once the runs of a job are over, a restart finds the chunks on disk in  *)
(* the state in which the manager keeps them, however the runs and the     *)
(* unlocked save of ActivateResume overlapped and whoever of them saved    *)
(* last: a stale or torn manifest.json never outlives the run that wrote   *)
(* it.  Only when the save at the very end failed, or the restore, is the  *)
(* file behind (run, restoreState, SaveAtomic).                            *)
Persisted ==
  Quiet /\ disk # NoFile /\ ~saveErr =>
    disk # Torn /\ Loaded(disk) = Loaded(mf)

(* Every run comes to an end: the retries of a chunk are limited even when *)
(* two workers or two runs work on it at once (dispatchOnce).              *)
RunsEnd == \A r \in Run : phase[r] = "working" ~> phase[r] = "over"

(* A job does not stay "running" for ever (run).                           *)
JobSettles == status = "running" ~> status # "running"

(* DELETE /downloads/<id> removes a download that is not active: nothing   *)
(* brings its manifest back (docs/DOWNLOAD_HISTORY.md).                    *)
ForgottenStaysForgotten ==
  [][status # "none" /\ ~known /\ disk = NoFile => disk' = NoFile]_disk

(* Only a validated, complete output gets the final name                   *)
(* (docs/QUALITY_AUDIT.md): every block of it holds the bytes of the       *)
(* source.                                                                 *)
FinalIntact ==
  final # NoFile => \A c \in Chunk : final[c].good = 1..Blocks
=============================================================================
