-------------------------------- MODULE Jobs --------------------------------
(***************************************************************************)
(* The send jobs of an agent (cmd/multisend-agent/send.go) and their       *)
(* history (history.go).  A job is a request to send a file to a directory *)
(* of a peer; the goroutine of a job calls the sender (module Sender) and  *)
(* reports to the job.  Every critical section of jobsMu is one action.    *)
(*                                                                         *)
(* A job is kept in memory and in a sidecar file, from which it is rebuilt *)
(* after a restart of the agent, together with the manifest that the       *)
(* sender keeps per file.  The manifest belongs to the file, its target    *)
(* address and chunk size, and not to the job: jobs that send the same     *)
(* file share it, also when they want it in different directories.         *)
(*                                                                         *)
(* A call of the sender is seen from outside: it takes a manifest, brings  *)
(* chunks to the receiver one after the other, and returns.                *)
(*                                                                         *)
(* Left out: the counters and rates of the progress, and the checks of a   *)
(* sidecar that somebody else has written.  A file that is lost stands for *)
(* one that changed, too: neither is the source of the manifest any more.  *)
(* Of a chunk that was published, but whose ack was lost, held says only   *)
(* when it was sent again.                                                 *)
(*                                                                         *)
(* A definition named Bug... is a plausible mistake in the definition that *)
(* follows it: PROJECT.json says which property notices it.                *)
(***************************************************************************)
EXTENDS Integers, FiniteSets

CONSTANTS
  MaxJobs,   \* bound: jobs; a job's number is its age, and names the transfer
             \* that its first call may begin
  File,      \* files, of one target address and chunk size each
  Dir,       \* directories of the receiver (ReceiveRelPath, LabReceivePath)
  Staged,    \* files in a staging directory of their own (cleanupPath)
  Empty,     \* those of 0 bytes, which have no chunks
  Chunk,     \* the chunks of every other file
  Run,       \* bound: goroutines at the same time ...
  JobOf,     \* ... and the job each of them would be for
  MayAsk,    \* bound: the files that a job may be asked to send
  History,   \* maxOperationHistory: 500
  MaxTrouble \* bound: the jobs up to this one may have trouble with their
             \* sidecar or staging

Job == 1..MaxJobs

ASSUME ConstantsAssumption ==
  /\ MaxJobs \in Nat
  /\ File # {} /\ Dir # {} /\ Chunk # {}
  /\ Staged \subseteq File /\ Empty \subseteq File
  /\ JobOf \in [Run -> Job]
  /\ MayAsk \in [Job -> SUBSET File]
  /\ History \in Nat \ {0}
  /\ MaxTrouble \in Nat

NoTx == 0
Tx == 0..MaxJobs

CONSTANT NoRun
ASSUME NoRunAssumption == NoRun \notin Run

VARIABLES
  created,   \* jobs created so far
  file, dir, \* the request of each of them
  status,    \* jobsByID and details.Status
  attached,  \* the jobs whose details.ManifestPath is set
  resumable, \* the jobs with details.ResumeSupported
  cur,       \* the call that cancelFunc cancels
  sidecar,   \* the sidecar of each job, and whether it names a manifest
  present,   \* the files that are there and did not change
  disk,      \* the manifest of each file
  held,      \* held[t][d]: the chunks the receiver has for t in d
  at,        \* of each goroutine: where it is
  explicit,  \* it is a resume
  stopped,   \* its context is canceled
  mf,        \* its manifest
  emitting,  \* jobs with a progress loop that is not over
  forgotten, \* history: jobs that were removed
  trouble    \* history: jobs whose sidecar or staging was in trouble

request == <<created, file, dir>>
details == <<status, attached, resumable, cur>>
call == <<explicit, mf>>
vars == <<request, details, sidecar, present, disk, held, call, at,
          stopped, emitting, forgotten, trouble>>

Stored(t, d, c) == [tx |-> t, done |-> d, canceled |-> c]
Manifests == [tx : Tx, done : SUBSET Chunk, canceled : BOOLEAN]
NoManifest == Stored(NoTx, {}, FALSE)

(* BuildPlan                                                               *)
ChunksOf(f) == IF f \in Empty THEN {} ELSE Chunk

Terminal == {"done", "failed", "canceled"}
Active == {"running", "canceling"}
Listed == {j \in Job : status[j] # "absent"}
Written == {j \in Job : sidecar[j] # "none"}
Ended(j) == status[j] \in Terminal

-----------------------------------------------------------------------------
Init ==
  /\ created = 0
  /\ file = [j \in Job |-> CHOOSE f \in File : TRUE]
  /\ dir = [j \in Job |-> CHOOSE d \in Dir : TRUE]
  /\ status = [j \in Job |-> "absent"]
  /\ attached = {}
  /\ resumable = {}
  /\ cur = [j \in Job |-> NoRun]
  /\ sidecar = [j \in Job |-> "none"]
  /\ present = File
  /\ disk = [f \in File |-> NoManifest]
  /\ held = [t \in Tx |-> [d \in Dir |-> {}]]
  /\ at = [r \in Run |-> "off"]
  /\ explicit = [r \in Run |-> FALSE]
  /\ stopped = [r \in Run |-> FALSE]
  /\ mf = [r \in Run |-> NoManifest]
  /\ emitting = {}
  /\ forgotten = {}
  /\ trouble = {}

-----------------------------------------------------------------------------
(* The history.                                                            *)

MayFail(j) == j <= MaxTrouble
Saving(j) == IF MayFail(j) THEN BOOLEAN ELSE {TRUE}

(* persistJobLocked: that a sidecar could not be written is only logged.   *)
Persist(j, isAttached, saved) ==
  /\ sidecar' = IF saved
                THEN [sidecar EXCEPT ![j] = IF isAttached THEN "attached" ELSE "bare"]
                ELSE sidecar
  /\ trouble' = IF saved THEN trouble ELSE trouble \cup {j}

(* What is in memory is left for these jobs only.                          *)
Keep(jobs, st, att, res) ==
  /\ status' = [j \in Job |-> IF j \in jobs THEN st[j] ELSE "absent"]
  /\ attached' = att \cap jobs
  /\ resumable' = res \cap jobs

(* pruneJobsLocked: of the jobs that ended the youngest stay in memory.    *)
Pruned(st) ==
  LET terminal == {j \in Job : st[j] \in Terminal}
  IN  {j \in Job : j \in terminal =>
                     Cardinality({k \in terminal : k > j}) < History}

-----------------------------------------------------------------------------
(* A call begins.                                                          *)

Free(j) == CHOOSE r \in Run : JobOf[r] = j /\ at[r] = "off"

Begin(r, j, isResume) ==
  /\ r = Free(j)
  /\ JobOf[r] = j /\ at[r] = "off"
  /\ at' = [at EXCEPT ![r] = "open"]
  /\ explicit' = [explicit EXCEPT ![r] = isResume]

(* startSend and createJob.  A staged file is made for one job.            *)
Create(j, f, d, r, saved) ==
  /\ j = created + 1
  /\ j \in Job
  /\ f \in present \cap MayAsk[j]
  /\ f \in Staged => \A k \in 1..created : file[k] # f
  /\ created' = j
  /\ file' = [file EXCEPT ![j] = f]
  /\ dir' = [dir EXCEPT ![j] = d]
  /\ LET st == [status EXCEPT ![j] = "running"]
     IN  Keep(Pruned(st), st, attached, resumable \cup {j})
  /\ cur' = [cur EXCEPT ![j] = r]
  /\ Begin(r, j, FALSE)
  /\ Persist(j, FALSE, saved)
  /\ UNCHANGED <<present, disk, held, stopped, mf,
                 emitting, forgotten>>

(* Whatever is not done can be resumed.                                    *)
BugMayResume(j) == status[j] # "done" /\ j \in resumable

(* A job can be resumed as soon as it was told to stop.                    *)
BugStopping(j) ==
  status[j] \in {"canceling", "canceled", "failed"} /\ j \in resumable

MayResume(j) == status[j] \in {"canceled", "failed"} /\ j \in resumable

(* resumeJob                                                               *)
Resume(j, r, saved) ==
  /\ j \in Listed
  /\ MayResume(j)
  /\ status' = [status EXCEPT ![j] = "running"]
  /\ cur' = [cur EXCEPT ![j] = r]
  /\ Begin(r, j, TRUE)
  /\ Persist(j, j \in attached, saved)
  /\ UNCHANGED <<request, attached, resumable, present, disk, held,
                 stopped, mf, emitting, forgotten>>

(* cancelJob: nothing happens to a job that ended.                         *)
Cancel(j, saved) ==
  /\ j \in Listed
  /\ ~Ended(j)
  /\ status' = [status EXCEPT ![j] = "canceling"]
  /\ stopped' = [r \in Run |-> stopped[r] \/ r = cur[j]]
  /\ Persist(j, j \in attached, saved)
  /\ UNCHANGED <<request, attached, resumable, cur, present, disk, held,
                 call, at, emitting, forgotten>>

-----------------------------------------------------------------------------
(* The sender, SendFileSplitWithResultCtx: modelled in detail by Sender.   *)

Goes(r, p) == at' = [at EXCEPT ![r] = p]
SourceOf(r) == file[JobOf[r]]
Calling(f) == {r \in Run : at[r] = "send" /\ SourceOf(r) = f}

(* manifestComplete: a manifest without chunks is never complete.          *)
Complete(m) == m.done # {} /\ m.done = Chunk

Continued(m) == m.tx # NoTx /\ ~m.canceled /\ ~Complete(m)

(* loadOrCreateManifest: nothing in it asks for the directory.             *)
LoadOrCreate(m, isResume, j) ==
  IF isResume \/ Continued(m) THEN [m EXCEPT !.canceled = FALSE]
  ELSE Stored(j, {}, FALSE)

Open(r) ==
  LET f == SourceOf(r)
      m == LoadOrCreate(disk[f], explicit[r], JobOf[r])
  IN  /\ at[r] = "open"
      /\ f \in present
      /\ explicit[r] => disk[f].tx # NoTx
      /\ mf' = [mf EXCEPT ![r] = m]
      /\ disk' = [disk EXCEPT ![f] = m]
      /\ emitting' = emitting \cup {JobOf[r]}
      /\ Goes(r, "send")
      /\ UNCHANGED <<request, details, sidecar, present, held,
                     explicit, stopped, forgotten, trouble>>

(* No file, no manifest to resume, no interface.                           *)
OpenFails(r) ==
  /\ at[r] = "open"
  /\ Goes(r, "failed")
  /\ UNCHANGED <<request, details, sidecar, present, disk, held, call,
                 stopped, emitting, forgotten, trouble>>

Flush(r, m, saved) ==
  disk' = IF saved THEN [disk EXCEPT ![SourceOf(r)] = m] ELSE disk

(* The receiver published a chunk and its ack arrived; the saver may skip. *)
Deliver(r, c, saved) ==
  LET m == [mf[r] EXCEPT !.done = @ \cup {c}]
  IN  /\ at[r] = "send"
      /\ c \in ChunksOf(SourceOf(r)) \ mf[r].done
      /\ held' = [held EXCEPT ![mf[r].tx][dir[JobOf[r]]] = @ \cup {c}]
      /\ mf' = [mf EXCEPT ![r] = m]
      /\ Flush(r, m, saved)
      /\ UNCHANGED <<request, details, sidecar, present, at, explicit,
                     stopped, emitting, forgotten, trouble>>

Return(r, p) ==
  /\ at[r] = "send"
  /\ Goes(r, p)
  /\ UNCHANGED <<request, details, sidecar, present, held, call, stopped,
                 emitting, forgotten, trouble>>

(* With no chunk to send the call returns without a word to the receiver.  *)
ReturnOk(r) ==
  /\ Return(r, "ok")
  /\ ~stopped[r]
  /\ mf[r].done = ChunksOf(SourceOf(r))
  /\ Flush(r, mf[r], TRUE)

ReturnCanceled(r, saved) ==
  /\ Return(r, "canceled")
  /\ stopped[r]
  /\ Flush(r, [mf[r] EXCEPT !.canceled = (mf[r].done # ChunksOf(SourceOf(r)))],
           saved)

ReturnFailed(r, saved) ==
  /\ Return(r, "failed")
  /\ ~stopped[r]
  /\ Flush(r, mf[r], saved)

-----------------------------------------------------------------------------
(* What the goroutines report to the job.                                  *)

(* A report is looked at whatever became of the job.                       *)
BugHears(j) == TRUE

(* A job that was removed or has ended hears nothing any more.             *)
Hears(j) == j \in Listed /\ ~Ended(j)

(* updateJobProgress: at once, every second, and once more after the call  *)
(* has returned.  The sidecar is written when the manifest is new.         *)
Emit(j, saved) ==
  /\ j \in emitting
  /\ emitting' = IF \E r \in Run : JobOf[r] = j /\ at[r] = "send" THEN emitting
                 ELSE emitting \ {j}
  /\ IF Hears(j)
     THEN /\ attached' = attached \cup {j}
          /\ resumable' = resumable \cup {j}
          /\ IF j \in attached THEN UNCHANGED <<sidecar, trouble>>
             ELSE Persist(j, TRUE, saved)
     ELSE UNCHANGED <<attached, resumable, sidecar, trouble>>
  /\ UNCHANGED <<request, status, cur, present, disk, held,
                 call, at, stopped, forgotten>>

(* The goroutine of a call ends.                                           *)
Leave(r) ==
  /\ at' = [at EXCEPT ![r] = "off"]
  /\ explicit' = [explicit EXCEPT ![r] = FALSE]
  /\ stopped' = [stopped EXCEPT ![r] = FALSE]
  /\ mf' = [mf EXCEPT ![r] = NoManifest]

(* setJobManifest                                                          *)
SetManifest(r, saved) ==
  /\ at[r] = "ok"
  /\ IF JobOf[r] \in Listed
     THEN /\ attached' = attached \cup {JobOf[r]}
          /\ Persist(JobOf[r], TRUE, saved)
     ELSE UNCHANGED <<attached, sidecar, trouble>>
  /\ Goes(r, "finish")
  /\ UNCHANGED <<request, status, resumable, cur, present, disk, held,
                 call, stopped, emitting, forgotten>>

MayFinish(j) == j \in Listed

(* A call that failed goes on as one that succeeded: a missing return.     *)
BugOutcome(r) == "done"

Outcome(r) == IF at[r] = "finish" THEN "done" ELSE at[r]

(* The staging goes however the call ended.                                *)
BugCleans(r) == SourceOf(r) \in Staged

Cleans(r) == at[r] = "finish" /\ SourceOf(r) \in Staged

(* finishJob; the context of the call is canceled, which nobody hears.     *)
FinishJob(j, st, saved) ==
  IF MayFinish(j)
  THEN /\ LET new == [status EXCEPT ![j] = st]
          IN  Keep(Pruned(new), new, attached, resumable)
       /\ cur' = [cur EXCEPT ![j] = NoRun]
       /\ Persist(j, j \in attached, saved)
  ELSE UNCHANGED <<details, sidecar, trouble>>

Finish(r, saved) ==
  /\ at[r] \in {"failed", "canceled", "finish"}
  /\ FinishJob(JobOf[r], Outcome(r), saved)
  /\ IF Cleans(r)
     THEN Goes(r, "clean") /\ UNCHANGED <<explicit, stopped, mf>>
     ELSE Leave(r)
  /\ UNCHANGED <<request, present, disk, held, emitting, forgotten>>

(* removeManagedCleanupPath, when the job is done.                         *)
Clean(r, removed) ==
  /\ at[r] = "clean"
  /\ present' = IF removed THEN present \ {SourceOf(r)} ELSE present
  /\ Leave(r)
  /\ UNCHANGED <<request, details, sidecar, disk, held, emitting,
                 forgotten, trouble>>

-----------------------------------------------------------------------------
(* The staging is left to the operating system.                            *)
BugWithoutStaging(j) == present

WithoutStaging(j) == present \ (Staged \cap {file[j]})

(* forgetJob: the staging, the sidecar, the entry.                         *)
Forget(j) ==
  /\ j \in Listed
  /\ Ended(j)
  /\ present' = WithoutStaging(j)
  /\ sidecar' = [sidecar EXCEPT ![j] = "none"]
  /\ Keep(Job \ {j}, status, attached, resumable)
  /\ forgotten' = forgotten \cup {j}
  /\ UNCHANGED <<request, cur, disk, held, call, at, stopped, emitting, trouble>>

(* The sidecar cannot be removed: the job stays, without its staging.      *)
ForgetFails(j) ==
  /\ MayFail(j)
  /\ j \in Listed
  /\ Ended(j)
  /\ present' = WithoutStaging(j)
  /\ trouble' = trouble \cup {j}
  /\ UNCHANGED <<request, details, sidecar, disk, held, call, at, stopped,
                 emitting, forgotten>>

(* The user removes or changes a file that nobody has open.  One that no   *)
(* job was for yet could only not be asked for, and is kept.               *)
Lose(f) ==
  /\ f \in present \ Staged
  /\ \E j \in 1..created : file[j] = f
  /\ Calling(f) = {}
  /\ present' = present \ {f}
  /\ UNCHANGED <<request, details, sidecar, disk, held, call, at, stopped,
                 emitting, forgotten, trouble>>

-----------------------------------------------------------------------------
(* The agent stops and starts.                                             *)

(* validP2PHistoryManifest refuses a manifest of 0 bytes.                  *)
Found(j) ==
  /\ sidecar[j] = "attached"
  /\ disk[file[j]].tx # NoTx
  /\ file[j] \notin Empty

Finished(j) == Found(j) /\ Complete(disk[file[j]])

(* A complete manifest is not looked for.                                  *)
BugRestored(j) ==
  IF Found(j) /\ file[j] \in present THEN "canceled" ELSE "failed"

(* jobStateFromHistory: what the sidecar says of the status is ignored.    *)
Restored(j) ==
  IF Finished(j) THEN "done"
  ELSE IF Found(j) /\ file[j] \in present THEN "canceled"
  ELSE "failed"

(* restoreJobHistory reads the sidecars that were written last.            *)
Recent(jobs) ==
  /\ jobs \subseteq Written
  /\ \/ jobs = Written /\ Cardinality(Written) <= History
     \/ Cardinality(jobs) = History

Restart(jobs) ==
  /\ Recent(jobs)
  /\ Keep(jobs, [j \in Job |-> Restored(j)],
          {j \in Job : sidecar[j] = "attached"},
          {j \in Job : Restored(j) = "canceled"})
  /\ cur' = [j \in Job |-> NoRun]
  /\ at' = [r \in Run |-> "off"]
  /\ explicit' = [r \in Run |-> FALSE]
  /\ stopped' = [r \in Run |-> FALSE]
  /\ mf' = [r \in Run |-> NoManifest]
  /\ emitting' = {}
  /\ UNCHANGED <<request, sidecar, present, disk, held, forgotten, trouble>>

-----------------------------------------------------------------------------
API(j) ==
  \/ \E r \in Run, saved \in Saving(j) :
       \/ \E f \in File, d \in Dir : Create(j, f, d, r, saved)
       \/ Resume(j, r, saved)
  \/ \E saved \in Saving(j) : Cancel(j, saved)
  \/ Forget(j) \/ ForgetFails(j)

(* A step of the goroutine of a call.                                      *)
Go(r) ==
  \/ Open(r) \/ OpenFails(r) \/ ReturnOk(r)
  \/ \E saved \in BOOLEAN :
       \/ \E c \in Chunk : Deliver(r, c, saved)
       \/ ReturnCanceled(r, saved) \/ ReturnFailed(r, saved) \/ Clean(r, saved)
  \/ \E saved \in Saving(JobOf[r]) :
       SetManifest(r, saved) \/ Finish(r, saved)

Next ==
  \/ \E j \in Job : API(j) \/ \E saved \in Saving(j) : Emit(j, saved)
  \/ \E r \in Run : Go(r)
  \/ \E f \in File : Lose(f)
  \/ \E jobs \in SUBSET Job : Restart(jobs)

Spec == Init /\ [][Next]_vars

-----------------------------------------------------------------------------
(* The shape of every variable.                                            *)
TypeOK ==
  /\ created \in 0..MaxJobs
  /\ file \in [Job -> File]
  /\ dir \in [Job -> Dir]
  /\ Listed \subseteq 1..created
  /\ status \in [Job -> {"absent"} \cup Active \cup Terminal]
  /\ attached \subseteq Listed
  /\ resumable \subseteq Listed
  /\ cur \in [Job -> Run \cup {NoRun}]
  /\ sidecar \in [Job -> {"none", "bare", "attached"}]
  /\ Written \subseteq 1..created
  /\ present \subseteq File
  /\ disk \in [File -> Manifests]
  /\ held \in [Tx -> [Dir -> SUBSET Chunk]]
  /\ at \in [Run -> {"off", "open", "send", "ok", "failed", "canceled", "finish",
                     "clean"}]
  /\ \A r \in Run : at[r] # "off" => JobOf[r] <= created
  /\ explicit \in [Run -> BOOLEAN]
  /\ stopped \in [Run -> BOOLEAN]
  /\ mf \in [Run -> Manifests]
  /\ emitting \subseteq 1..created
  /\ forgotten \subseteq 1..created
  /\ trouble \subseteq 1..created

Calls(j) == {r \in Run : JobOf[r] = j /\ at[r] \notin {"off", "clean"}}

(* A job that is running or canceling has one call, which Cancel finds     *)
(* and, when it was canceled, has reached; a job that ended has none, so   *)
(* that no late call can change what the user was told.                    *)
ActiveJobsHaveOneCall ==
  \A j \in Listed :
    /\ Calls(j) = IF Ended(j) THEN {} ELSE {cur[j]}
    /\ status[j] = "canceling" => stopped[cur[j]]

(* A job that was removed stays removed, whatever its progress loop or its *)
(* goroutine still has to say, and after every restart.                    *)
ForgottenStaysForgotten ==
  \A j \in forgotten : j \notin Listed /\ sidecar[j] = "none"

Alone(j) == \A k \in 1..created : k # j => file[k] # file[j]

(* A job that is done, also one rebuilt after a restart, has brought its   *)
(* whole file to the directory it was asked for, when no other job sends   *)
(* that file.  Of an empty file nothing is sent: its job is done, and the  *)
(* receiver has never heard of it.                                         *)
DoneIsDelivered ==
  \A j \in Listed :
    status[j] = "done" /\ Alone(j) /\ file[j] \notin Empty =>
      held[disk[file[j]].tx][dir[j]] = Chunk

(* ... and stays done, through every restart, unless its sidecar could not *)
(* be written.  The job of an empty file does not: a restart refuses its   *)
(* manifest, and lists it as failed (validP2PHistoryManifest).             *)
DoneStaysDone ==
  [][\A j \in Listed \cap Listed' :
       /\ status[j] = "done"
       /\ Alone(j)'
       /\ j \notin trouble
       /\ file[j] \notin Empty
       => status'[j] = "done"]_vars

(* A staging directory does not outlive the sidecar of its job: someone    *)
(* can always remove it.                                                   *)
StagingIsOwned ==
  \A j \in 1..created :
    file[j] \in Staged \cap present => sidecar[j] # "none" \/ j \in trouble

(* A job that offers to be resumed still has what was staged for it.       *)
ResumableKeepsStaging ==
  \A j \in Listed \ trouble :
    MayResume(j) /\ file[j] \in Staged => file[j] \in present

(* A call that succeeds has brought the whole file to the directory of its *)
(* job: docs/OPERATION_HISTORY.md says that resuming by the manifest alone *)
(* could publish in the wrong place, and that the sidecar prevents it.     *)
SentIsDelivered ==
  \A r \in Run :
    at[r] = "ok" => held[mf[r].tx][dir[JobOf[r]]] = ChunksOf(SourceOf(r))

(* What others see of the jobs.                                            *)
LifeOf(j) ==
  IF j > created THEN "new"
  ELSE IF j \in forgotten THEN "gone"
  ELSE status[j]

Life == INSTANCE JobLife WITH Job <- Job, life <- [j \in Job |-> LifeOf(j)]

(* The jobs implement JobLife: a job that was removed never comes back,    *)
(* one that is canceling does not run again before it ended, one that is   *)
(* done never runs again, unless a restart finds its manifest changed, and *)
(* a job that was pruned is only found again by a restart.                 *)
LifeSpec == Life!Spec
=============================================================================
