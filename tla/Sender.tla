------------------------------- MODULE Sender -------------------------------
(***************************************************************************)
(* The LAN sender (internal/transfer/sender.go): calls of                  *)
(* SendFileSplitWithResultCtx for one file, target and chunk size.  They   *)
(* have the same identity and so the same manifest file, also when two     *)
(* jobs send the file at the same time; each call works on a manifest of   *)
(* its own in memory.  A source that changed has another identity, hence   *)
(* another manifest.                                                       *)
(*                                                                         *)
(* A worker goroutine takes a retryable chunk under the lock of the call,  *)
(* sends it over a connection of its own without the lock, and reports     *)
(* under the lock what became of it.  That a send failed is known to the   *)
(* worker only, so that the failure and its report are one step.           *)
(*                                                                         *)
(* The receiver is the environment: it publishes a chunk and then acks it, *)
(* and the connection may break before, between and after.                 *)
(*                                                                         *)
(* Bound: MaxCalls limits the calls of a behaviour.  Left out: the         *)
(* progress counters, and which channel a chunk goes through.              *)
(*                                                                         *)
(* A definition named Bug... is a plausible mistake in the definition that *)
(* follows it: PROJECT.json says which property notices it.                *)
(***************************************************************************)
EXTENDS Manifest

CONSTANTS
  Chunk,        \* the chunks of the plan
  Run,          \* calls that may be going on at the same time
  Worker,       \* the workers of a call
  MaxCalls,     \* bound: calls
  MaxAttempts,  \* maxAttemptsPerChunk, and the limit Load uses: 3 for both
  IOErrors      \* reading the source and saving the manifest may fail

ASSUME ConstantsAssumption ==
  /\ Chunk # {}
  /\ Worker # {}
  /\ MaxCalls \in Nat
  /\ MaxAttempts \in Nat \ {0}
  /\ IOErrors \in BOOLEAN

VARIABLES
  calls,     \* calls so far; the number of a call stands for the TransferID
             \* of the manifest it may create
  disk,      \* the manifest file; its tx is 0 when there is none
  held,      \* held[t]: the chunks the receiver has published for transfer t
  pc,        \* pc[r]: where the call is
  tx,        \* tx[r]: the TransferID of its manifest
  mf,        \* mf[r]: the chunks of its manifest
  canceled,  \* canceled[r]: its context is canceled
  hard,      \* hard[r]: hardErr is set
  lastErr,   \* lastErr[r]: its manifestSaver could not write the last time
  result,    \* result[r]: what it returned
  at,        \* at[r][w]: where its worker w is
  taken,     \* taken[r][w]: the chunk that worker sends
  troubled   \* history: the calls in which something went wrong

callVars == <<pc, tx, result, canceled>>
vars == <<calls, disk, held, callVars, mf, hard, lastErr, at, taken, troubled>>

Tx == 1..MaxCalls
Chunks == [Chunk -> ChunkState]
WorkerPc == {"off", "check", "pick", "send", "published", "acked"}

Stored(m, t) == [tx |-> t, chunks |-> m]
NoManifest == Stored(NewManifest(Chunk), 0)

-----------------------------------------------------------------------------
Init ==
  /\ calls = 0
  /\ disk = NoManifest
  /\ held = [t \in Tx |-> {}]
  /\ pc = [r \in Run |-> "idle"]
  /\ tx = [r \in Run |-> 0]
  /\ mf = [r \in Run |-> NewManifest(Chunk)]
  /\ canceled = [r \in Run |-> FALSE]
  /\ hard = [r \in Run |-> FALSE]
  /\ lastErr = [r \in Run |-> FALSE]
  /\ result = [r \in Run |-> "none"]
  /\ at = [r \in Run |-> [w \in Worker |-> "off"]]
  /\ taken \in [Run -> [Worker -> {CHOOSE c \in Chunk : TRUE}]]
  /\ troubled = {}

-----------------------------------------------------------------------------
(* The beginning of a call.                                                *)

Loaded == NormalizeForResume(disk.chunks, MaxAttempts)

(* A send that was neither canceled nor finished is continued by the next  *)
(* send of the file.                                                       *)
Continued ==
  disk.tx # 0 /\ ~HasCanceledChunks(Loaded) /\ ~AllDone(Loaded)

(* loadOrCreateManifest for the call number t.                             *)
LoadOrCreate(resume, t) ==
  IF resume THEN Stored(ActivateResume(Loaded, MaxAttempts), disk.tx)
  ELSE IF Continued THEN Stored(Loaded, disk.tx)
  ELSE Stored(NewManifest(Chunk), t)

(* A resume does not look for the manifest first.                          *)
BugFound(resume) == TRUE

(* "resume requested but manifest not found"                               *)
Found(resume) == resume => disk.tx # 0

Call(r, resume) ==
  /\ pc[r] = "idle"
  /\ calls < MaxCalls
  /\ Found(resume)
  /\ calls' = calls + 1
  /\ mf' = [mf EXCEPT ![r] = LoadOrCreate(resume, calls + 1).chunks]
  /\ tx' = [tx EXCEPT ![r] = LoadOrCreate(resume, calls + 1).tx]
  /\ pc' = [pc EXCEPT ![r] = "save"]
  /\ canceled' = [canceled EXCEPT ![r] = FALSE]
  /\ hard' = [hard EXCEPT ![r] = FALSE]
  /\ lastErr' = [lastErr EXCEPT ![r] = FALSE]
  /\ result' = [result EXCEPT ![r] = "none"]
  /\ troubled' = troubled \ {r}
  /\ UNCHANGED <<disk, held, at, taken>>

(* The manifest is saved and the workers are started.                      *)
StartWorkers(r) ==
  /\ pc[r] = "save"
  /\ disk' = Stored(mf[r], tx[r])
  /\ pc' = [pc EXCEPT ![r] = "work"]
  /\ at' = [at EXCEPT ![r] = [w \in Worker |-> "check"]]
  /\ UNCHANGED <<calls, held, tx, mf, canceled, hard, lastErr, result, taken,
                 troubled>>

Return(r, res) ==
  /\ pc' = [pc EXCEPT ![r] = "idle"]
  /\ result' = [result EXCEPT ![r] = res]
  /\ UNCHANGED <<calls, held, tx, canceled, hard, at, taken>>

StartFails(r) ==
  /\ pc[r] = "save"
  /\ IOErrors
  /\ Return(r, "failed")
  /\ troubled' = troubled \cup {r}
  /\ UNCHANGED <<disk, mf, lastErr>>

-----------------------------------------------------------------------------
(* A worker.                                                               *)

WorkerAt(r, w, p) == at' = [at EXCEPT ![r] = [at[r] EXCEPT ![w] = p]]

Stopped(r) == canceled[r] \/ hard[r]

Check(r, w) ==
  /\ at[r][w] = "check"
  /\ WorkerAt(r, w, IF Stopped(r) THEN "off" ELSE "pick")
  /\ UNCHANGED <<calls, disk, held, callVars, mf, hard, lastErr, taken,
                 troubled>>

(* retryablePending                                                        *)
Pending(r) ==
  {c \in Chunk : mf[r][c].status = "pending" \/ Retryable(mf[r][c], MaxAttempts)}

NothingLeft(r, w) ==
  /\ at[r][w] = "pick"
  /\ Pending(r) = {}
  /\ WorkerAt(r, w, "off")
  /\ UNCHANGED <<calls, disk, held, callVars, mf, hard, lastErr, taken,
                 troubled>>

(* No channel is usable now: all are offline or cooling down.              *)
NoChannel(r, w) ==
  /\ at[r][w] = "pick"
  /\ Pending(r) # {}
  /\ WorkerAt(r, w, "check")
  /\ UNCHANGED <<calls, disk, held, callVars, mf, hard, lastErr, taken,
                 troubled>>

Saving == {"skipped", "written"} \cup (IF IOErrors THEN {"failed"} ELSE {})

(* Every save may be skipped.                                              *)
BugForced(saved) == TRUE

(* A forced save is not skipped.                                           *)
Forced(saved) == saved # "skipped"

(* manifestSaver.save: skipped when the last one was a moment ago.         *)
Save(r, m, saved) ==
  /\ disk' = IF saved = "written" THEN Stored(m, tx[r]) ELSE disk
  /\ lastErr' = IF saved = "skipped" THEN lastErr
                ELSE [lastErr EXCEPT ![r] = (saved = "failed")]

(* The chunk is marked when its connection is opened.                      *)
BugTake(m, c) == m

Take(m, c) == MarkSending(m, c)

Pick(r, w, c, saved) ==
  /\ at[r][w] = "pick"
  /\ c \in Pending(r)
  /\ mf' = [mf EXCEPT ![r] = Take(mf[r], c)]
  /\ taken' = [taken EXCEPT ![r] = [taken[r] EXCEPT ![w] = c]]
  /\ Save(r, Take(mf[r], c), saved)
  /\ WorkerAt(r, w, "send")
  /\ UNCHANGED <<calls, held, callVars, hard, troubled>>

(* The source cannot be read any more: no other attempt.                   *)
HashFails(r, w, saved) ==
  /\ IOErrors
  /\ at[r][w] = "send"
  /\ Forced(saved)
  /\ mf' = [mf EXCEPT ![r] = MarkFailed(mf[r], taken[r][w])]
  /\ hard' = [hard EXCEPT ![r] = TRUE]
  /\ Save(r, MarkFailed(mf[r], taken[r][w]), saved)
  /\ WorkerAt(r, w, "off")
  /\ troubled' = troubled \cup {r}
  /\ UNCHANGED <<calls, held, callVars, taken>>

(* The receiver publishes the chunk ...                                    *)
Publish(r, w) ==
  /\ at[r][w] = "send"
  /\ held' = [held EXCEPT ![tx[r]] = @ \cup {taken[r][w]}]
  /\ WorkerAt(r, w, "published")
  /\ UNCHANGED <<calls, disk, callVars, mf, hard, lastErr, taken,
                 troubled>>

(* Whatever is answered counts as an ack.                                  *)
BugAcked(p) == p \in {"send", "published"}

(* sendChunkCtx wants the ack "done" for this chunk.                       *)
Acked(p) == p = "published"

(* ... its ack arrives, and the call was not canceled meanwhile.           *)
ReceiveAck(r, w) ==
  /\ Acked(at[r][w])
  /\ ~canceled[r]
  /\ WorkerAt(r, w, "acked")
  /\ UNCHANGED <<calls, disk, held, callVars, mf, hard, lastErr, taken,
                 troubled>>

Exhausted(m, c) == m[c].attempts >= MaxAttempts

(* The attempt is not counted.                                             *)
BugFailChunk(m, c) == [m EXCEPT ![c].status = "pending"]

(* What a failure leaves behind: another attempt, or an error of the call. *)
FailChunk(m, c) ==
  LET failed == MarkFailed(m, c)
  IN  IF Exhausted(failed, c) THEN failed
      ELSE [failed EXCEPT ![c].status = "pending"]

(* The connection breaks, or the answer is not the ack "done".  The save   *)
(* is forced when the error is hard.                                       *)
SendFails(r, w, saved) ==
  LET m == FailChunk(mf[r], taken[r][w])
      isHard == hard[r] \/ Exhausted(m, taken[r][w])
  IN  /\ at[r][w] \in {"send", "published"}
      /\ isHard => Forced(saved)
      /\ mf' = [mf EXCEPT ![r] = m]
      /\ hard' = [hard EXCEPT ![r] = isHard]
      /\ Save(r, m, saved)
      /\ WorkerAt(r, w, IF canceled[r] \/ isHard THEN "off" ELSE "check")
      /\ troubled' = troubled \cup {r}
      /\ UNCHANGED <<calls, held, callVars, taken>>

ReportDone(r, w, saved) ==
  /\ at[r][w] = "acked"
  /\ mf' = [mf EXCEPT ![r] = MarkDone(mf[r], taken[r][w])]
  /\ Save(r, MarkDone(mf[r], taken[r][w]), saved)
  /\ WorkerAt(r, w, "check")
  /\ UNCHANGED <<calls, held, callVars, hard, taken, troubled>>

-----------------------------------------------------------------------------
(* The end of a call, when all workers are gone.                           *)

Joined(r) == pc[r] = "work" /\ \A w \in Worker : at[r][w] = "off"

EndCanceled(r, saved) ==
  /\ Joined(r)
  /\ canceled[r]
  /\ Forced(saved)
  /\ mf' = [mf EXCEPT ![r] = MarkCanceledPending(mf[r])]
  /\ Save(r, MarkCanceledPending(mf[r]), saved)
  /\ Return(r, "canceled")
  /\ UNCHANGED troubled

EndHard(r, saved) ==
  /\ Joined(r)
  /\ ~canceled[r] /\ hard[r]
  /\ Forced(saved)
  /\ Save(r, mf[r], saved)
  /\ Return(r, "failed")
  /\ UNCHANGED <<mf, troubled>>

EndFlushFails(r) ==
  /\ Joined(r)
  /\ ~Stopped(r)
  /\ IOErrors
  /\ Save(r, mf[r], "failed")
  /\ Return(r, "failed")
  /\ troubled' = troubled \cup {r}
  /\ UNCHANGED mf

(* Nothing is left to do.                                                  *)
BugComplete(r) == Pending(r) = {}

Complete(r) == AllDone(mf[r])

(* "transfer incomplete" unless every chunk is done.                       *)
EndFlushed(r) ==
  /\ Joined(r)
  /\ ~Stopped(r)
  /\ Save(r, mf[r], "written")
  /\ Return(r, IF Complete(r) THEN "ok" ELSE "failed")
  /\ UNCHANGED <<mf, troubled>>

-----------------------------------------------------------------------------
Cancel(r) ==
  /\ pc[r] # "idle"
  /\ ~canceled[r]
  /\ canceled' = [canceled EXCEPT ![r] = TRUE]
  /\ troubled' = troubled \cup {r}
  /\ UNCHANGED <<calls, disk, held, pc, tx, result, mf, hard, lastErr, at, taken>>

(* The agent stops and starts: only the manifest file is left.             *)
Restart ==
  /\ pc' = [r \in Run |-> "idle"]
  /\ at' = [r \in Run |-> [w \in Worker |-> "off"]]
  /\ result' = [r \in Run |-> "none"]
  /\ UNCHANGED <<calls, disk, held, tx, mf, canceled, hard, lastErr, taken,
                 troubled>>

-----------------------------------------------------------------------------
TakeChunk(r, w) == \E c \in Chunk, saved \in Saving : Pick(r, w, c, saved)

Work(r, w) ==
  \/ Check(r, w) \/ NothingLeft(r, w) \/ NoChannel(r, w) \/ TakeChunk(r, w)
  \/ Publish(r, w) \/ ReceiveAck(r, w)
  \/ \E saved \in Saving :
       HashFails(r, w, saved) \/ SendFails(r, w, saved) \/ ReportDone(r, w, saved)

Go(r) ==
  \/ StartWorkers(r) \/ StartFails(r)
  \/ \E saved \in Saving : EndCanceled(r, saved) \/ EndHard(r, saved)
  \/ EndFlushFails(r) \/ EndFlushed(r)

Next ==
  \/ \E r \in Run, resume \in BOOLEAN : Call(r, resume)
  \/ \E r \in Run : Go(r) \/ Cancel(r)
  \/ \E r \in Run, w \in Worker : Work(r, w)
  \/ Restart

Spec == Init /\ [][Next]_vars

(* Goroutines are scheduled; a connection does not stay silent for ever;   *)
(* and a channel that is asked for again and again is usable again and     *)
(* again.  Nobody needs to call, to cancel or to restart.                  *)
Fairness ==
  /\ \A r \in Run : WF_vars(Go(r))
  /\ \A r \in Run, w \in Worker : WF_vars(Work(r, w)) /\ SF_vars(TakeChunk(r, w))

FairSpec == Spec /\ Fairness

-----------------------------------------------------------------------------
(* The shape of every variable.                                            *)
TypeOK ==
  /\ calls \in 0..MaxCalls
  /\ disk \in [tx : 0..calls, chunks : Chunks]
  /\ held \in [Tx -> SUBSET Chunk]
  /\ pc \in [Run -> {"idle", "save", "work"}]
  /\ tx \in [Run -> 0..calls]
  /\ \A r \in Run : pc[r] # "idle" => tx[r] # 0
  /\ mf \in [Run -> Chunks]
  /\ canceled \in [Run -> BOOLEAN]
  /\ hard \in [Run -> BOOLEAN]
  /\ lastErr \in [Run -> BOOLEAN]
  /\ result \in [Run -> {"none", "ok", "failed", "canceled"}]
  /\ at \in [Run -> [Worker -> WorkerPc]]
  /\ taken \in [Run -> [Worker -> Chunk]]
  /\ troubled \subseteq Run

DoneIn(m) == {c \in Chunk : m[c].status = "done"}

(* A manifest, in memory or on disk, calls a chunk done only when the      *)
(* receiver has published it for that very transfer, across retries, lost  *)
(* acks, restarts, resumes and calls that overlap (sendChunkCtx,           *)
(* loadOrCreateManifest).                                                  *)
DoneIsHeld ==
  /\ disk.tx # 0 => DoneIn(disk.chunks) \subseteq held[disk.tx]
  /\ \A r \in Run : tx[r] # 0 => DoneIn(mf[r]) \subseteq held[tx[r]]

(* A send that succeeds has brought the whole file to the receiver.        *)
SuccessIsComplete ==
  \A r \in Run : result[r] = "ok" => tx[r] # 0 /\ held[tx[r]] = Chunk

Holding(r, c) ==
  {w \in Worker : at[r][w] \in {"send", "published", "acked"} /\ taken[r][w] = c}

(* While a call works, a chunk is sending exactly when a worker of it      *)
(* holds the chunk, and never two: no chunk is left behind as sending, and *)
(* a late report cannot undo a chunk that another worker has finished.     *)
SendingHasOneWorker ==
  \A r \in Run, c \in Chunk :
    pc[r] = "work" =>
      /\ mf[r][c].status = "sending" <=> Holding(r, c) # {}
      /\ \A v, w \in Holding(r, c) : v = w

(* Where one job at a time sends the file, what a call has achieved,       *)
(* however it ends, is in the manifest file for the next one, and so is    *)
(* what a canceled call leaves to a resume, unless saving failed           *)
(* (manifestSaver: most saves are skipped).                                *)
ReturnedIsSaved ==
  \A r \in Run :
    Run = {r} /\ result[r] # "none" /\ disk.tx = tx[r] /\ ~lastErr[r] =>
      /\ DoneIn(disk.chunks) = DoneIn(mf[r])
      /\ result[r] = "canceled" => disk.chunks = mf[r]

(* Every call returns.                                                     *)
CallReturns == \A r \in Run : pc[r] = "work" ~> pc[r] = "idle"

(* A send in which nothing went wrong succeeds                             *)
(* (TestSendAuthenticatedAndVerified: "send must succeed").                *)
CleanSendSucceeds == \A r \in Run : result[r] = "failed" => r \in troubled
=============================================================================
