# A TLA+ model of MultiSend

MultiSend moves large files over several network interfaces at once. An agent
(`cmd/multisend-agent`) runs on every Windows machine of a LAN; it sends files
to other agents in chunks, receives them, lets a peer pull files from it, and
downloads files over HTTP(S) in ranges. This directory models the parts of it
that keep state, checks them with TLC on small instances, and proves the most
important properties with TLAPS for every value of the constants.

## The system

| Part | Source | State | Operations | Why it is hard |
|---|---|---|---|---|
| Download manager | `internal/download/manager.go` | jobs in memory; `manifest.json`, one `chunkNNNNNN.part` per chunk and the final file on disk | Start, Resume, Cancel, Forget, Cleanup, the run of a job with its workers and its manifest saver, restore after a restart | runs of one job overlap; part files are written outside of the lock; snapshots used after an unlock; crashes |
| Chunk manifest | `internal/manifest/manifest.go` | status and attempts of every chunk | the transitions of a chunk, Load, SaveAtomic | shared by the three users below, which lock it differently |
| LAN sender | `internal/transfer/sender.go` | the manifest of a transfer, on disk next to the receiver's directory | one worker per channel and stream; acks; retries; resume | acks that are lost after the chunk was published; cancel; the file changes under the sender |
| LAN receiver | `cmd/multisend-agent/receiver.go`, `cmd/multirecv` | a session per transfer (temporary chunks, manifest, merge status), timers | a connection per chunk; publish; delayed merge | duplicates, late chunks while a merge runs, a merge that starts too early, restarts |
| Send jobs | `cmd/multisend-agent/send.go` | the list of jobs, a goroutine per job | start, cancel, resume, forget, finish | cancel and resume race with the end of the job |
| Pulls | `cmd/multisend-agent/pull.go` | a list of pulls, each a view of a job on a peer | create, poll, cancel, resume, forget | answers of the peer arrive late and out of order |
| History | `cmd/multisend-agent/history.go` | a JSON sidecar per job or pull | persist, restore, prune, forget | a sidecar written after its job was removed |
| Channel scheduler | `internal/scheduler/scheduler.go` | failures and cooldown per channel, position in the pending chunks | NextChunk, ReportSuccess, ReportFailure | backoff; round robin over a list that changes |
| Chunk plan | `internal/chunk` | none | BuildPlan, AutoChunkSize, ChunkCount | sizes that do not divide; a restore checks the plan by other rules |
| Discovery | `internal/discovery/discovery.go` | peers with the time they were last seen, their addresses and probes | packets, cycles of probes, expiry | packets out of order, expiry against the next probe |
| Ports | `internal/ports/ports.go` | ports in use | choose and verify ports | a port taken between the choice and the bind |
| Interface monitor | `internal/ifmonitor`, `internal/netif` | last counters | sampling | counters that restart |
| Wire format | `internal/proto` | none | encode and validate a chunk header, HMAC | validation shared by sender and receivers |
| Configuration | `internal/config`, `config_api.go` | `config.json` | load, normalise, save | migration of old values |
| HTTP API, web UI, CLI, scripts | `http_api.go`, `dashboard_api.go`, `web/`, `cmd/multisend`, `*.ps1`, `browser-extension` | none of their own | routing, views, installation, smoke tests | - |

How they interact: the HTTP API calls the download manager, the send jobs and
the pulls; a send job runs the LAN sender, which uses the chunk plan, the
scheduler and a manifest and talks to the receiver of another agent over one
TCP connection per chunk; a pull asks the agent of a peer to start a send job
towards this agent and then polls that job; the history writes a sidecar for
every change of a job or a pull and rebuilds both lists when the agent starts;
discovery tells all of them where the peers are.

What makes each part correct:

* **Download manager**: the final file gets its name only when every chunk is
  there; a job that is done has its file, also after a
  restart; a job that is running has a run that will end and that Cancel
  reaches; no chunk is left in `sending`; what the runs achieved is on disk, whichever of
  their saves fails or comes late, as long as the last one does not fail.
* **LAN sender**: a chunk is done only when the receiver has it, for that very
  transfer; success means that all of it was delivered; a chunk is in the hands
  of one worker; what a call achieved is saved; every call returns.
* **LAN receiver**: a chunk whose sender was told "done" is never lost; a
  session that is done has its output; a complete transfer is merged. (Both fail for a file with
  `.chunk` in its name: see Defects without a run.)
* **Send jobs, history**: a terminal job stays terminal unless it is resumed; a
  removed one stays removed; what is restored matches what was done.
* **Pulls**: the view of a pull converges to the job on the peer and never says
  more than that job; a removed pull stays removed.
* **Scheduler**: the channel chosen is hardly worse than any other, and one that
  fails is out for a bounded time. **Chunk plan**: the chunks cover the file
  without gap or overlap. **Discovery**: who is there is listed where it is, also
  when its hellos get lost; who left is forgotten.

## Modules

| Module | Models | Checked by | Proofs |
|---|---|---|---|
| `Manifest` | the transitions of a chunk manifest, as operators | the modules that extend it | - |
| `Download` | one download job, its runs, workers, saver, API calls, files and restarts | `MCDownload` | `Download_proofs` |
| `Sender` | the calls of `SendFileSplitWithResultCtx` for one file and target | `MCSender` | `Sender_proofs` |
| `Receiver` | one session of the agent's receiver | `MCReceiver` | `Receiver_proofs` |
| `Store` | abstract: what a receiver promises to a sender | `MCReceiver`, which `Receiver` implements | `Receiver_proofs` (the refinement) |
| `Jobs` | the send jobs of an agent, their goroutines, sidecars and restarts | `MCJobs` | `Jobs_proofs` |
| `JobLife` | abstract: the life of a send job, as other programs see it | `MCJobs`, which `Jobs` implements; `MCPulls`, which uses it | `JobLife_proofs` (the refinement) |
| `Pulls` | the pulls of an agent and the jobs of the peer they stand for | `MCPulls` | `Pulls_proofs` |
| `Discovery` | who is listed, from hellos, probes and time | `MCDiscovery` | `Discovery_proofs` |
| `DiscoveryTime` | `Discovery` with a watch: how long until who is there is listed, and who left forgotten | `MCDiscovery` | `Discovery_proofs` |
| `ChunkPlan` | the plan of chunks, and its check by a restore, as functions | `MCSender` | `Dispatch_proofs` |
| `Channels` | the choice of a channel and the time a failing one is out, as functions | `MCSender` | `Dispatch_proofs` |

An action is the body of a critical section, or one access to a file or a
connection outside of it. A definition that starts with `Bug` is a plausible
mistake in the definition that follows it; `PROJECT.json` pairs it with the
property that notices it.

### Download

| Variable | Code (`manager.go`) |
|---|---|
| `known`, `status`, `cur` | the entry in `Manager.jobs`, `job.Status`, the run whose context `state.cancel` cancels |
| `canceler` | a Cancel call between `cancel()` and its second critical section |
| `mf`, `disk` | `state.mf` and `manifest.json` |
| `part`, `tmp`, `final` | part files (length, and which blocks hold the bytes of the source), the temporary and the final output |
| `phase`, `canceled`, `act`, `image`, `saver` | the goroutine of each run, its context, its place in `ActivateResume`, the bytes it saves without the lock, its saver |
| `saveErr` | history: the last save of a run, or the repair of a restore, has failed since anything was saved |
| `wk` | the workers: program counter, the snapshot of pending chunks, the chunk, the offset |

Actions: `Start`, `Resume`, `CancelContext`/`CancelJob`, `Forget`,
`ForgetFails`, `Cleanup`, `PruneTerminal` are the API and the pruning;
`RunGone` to `ActivateSave` the beginning of `run`; `CheckContext` to
`ReportFailed` an iteration of `dispatchOnce`; `SaverSave`, `SaverStop` the saver;
`Join` to `EndFailed` the end of `run` with `mergeParts`; `Restart` and
`RestartForgotten` are `restoreHistory`/`restoreState` after the process ended.
Runs overlap: Resume does not wait for the run that was canceled, and both use
the same manifest and part files.

Every save may fail, and nobody looks at its error (`SaveAtomic`): the workers, the merge
and the job go on, and `manifest.json` stays what it was. All saves but one hold the lock and are
one step. The save after `ActivateResume` does not: `Marshal` takes the bytes of the manifest, and
`ActivateSave` writes and renames them when the saver or the end of an earlier run may have saved
something newer. Both use `manifest.json.tmp`, so that either of them may rename a file with the bytes of
both (`Torn`), which the next one overwrites or a restart cannot read. In a restore a job is dropped
when its manifest is torn, or when the repaired one cannot be saved (`RestartForgotten`).

### Sender

| Variable | Code (`sender.go`) |
|---|---|
| `calls` | numbers the calls; the number stands for the `TransferID` a call may create |
| `disk` | the manifest file of the identity (path, size, time, target, chunk size, fingerprint) |
| `pc`, `tx`, `mf`, `canceled`, `hard`, `lastErr`, `result` | a call: where it is, its manifest, its context, `hardErr`, `manifestSaver.lastErr`, what it returned |
| `at`, `taken` | its workers and the chunks they send |
| `held` | external: what the receiver has published, per transfer |
| `troubled` | history: the calls in which something failed or that were canceled |

Actions: `Call` (open, plan, identity, `loadOrCreateManifest`), `StartWorkers`
and `StartFails`, a worker's `Check`, `NothingLeft`, `NoChannel`, `Pick`,
`HashFails`, `Publish`, `ReceiveAck`, `SendFails`, `ReportDone`, and the ends of
a call `EndCanceled`, `EndHard`, `EndFlushFails`, `EndFlushed`; `Cancel`,
`Restart`. `Publish` is the receiver, of which the sender sees only the ack.

### Receiver

| Variable | Code (`receiver.go`, `main.go`) |
|---|---|
| `session`, `timer`, `lock` | `receiverSessionState`, its timer, `manifestMu` |
| `listed`, `file` | the session's `manifest.json` and chunk files |
| `final`, `dir` | the file under the final name (and which chunks it was merged from), the extracted directory |
| `extract`, `globbed` | inputs: the sender wants a folder extracted; the name of a plain file has `.chunk` in it |
| `conn`, `fin` | the goroutines of connections and of timers that fired |
| `acked` | history: chunks of which a sender got the ack `done` |

Actions: `Accept` to `Schedule` are `handleConn` with `publishReceiverChunk`,
`updateReceiverManifest` and `maybeScheduleReceiverFinalize`; `Fire` to `Fail` are
`finalizeReceiverSession` with merge, validation, extraction and cleanup;
`Restart` forgets session, timer and goroutines and keeps the files.

The cleanup removes what matches `*.chunk*`, in the order of the names. For a plain file called like
`main.chunk.js` that is its final file (`CleanupFinal`) and then its chunks, and the session is done
nevertheless. `AckedIsKept`, `DoneHasOutput` and `StoreSpec` speak of all other names (`~globbed`). A folder
that is extracted has a directory in the place of that file; with such a name `os.Remove` fails on it,
which is one of the failures that `Fail` stands for.

### Store, and how Receiver implements it

`Store` has three variables: the chunks that are `kept`, those of which a sender was `told`, and
whether the `output` is there. A chunk is kept for good when it was published, told after that,
and the output comes when all are kept. `Receiver` maps `kept` to the chunks that have a file, or all once
the output exists (`KeptChunks`), `told` to `acked`, and `output` to `Delivered`. A merge that began
too early, a cleanup, an extraction, a duplicate and a restart are stutters; the merge that completes
the output is `Store!Deliver`. `StoreSpec` is the refinement; it supposes that the source file stays as it is during
the transfer (`SourceUnchanged`), since a chunk with other contents replaces its file, and that the glob of the
cleanup does not match the name of the file (`~globbed`), since then the output does go away.

### Jobs

| Variable | Code (`send.go`, `history.go`) |
|---|---|
| `created`, `file`, `dir` | the requests, in the order of their `startedAt`; `dir` is `ReceiveRelPath`/`LabReceivePath` |
| `status`, `attached`, `resumable`, `cur` | the entry in `jobsByID`: `details.Status` (`"absent"`: no entry), `ManifestPath`, `ResumeSupported`; the call that `cancelFunc` cancels |
| `sidecar` | `history/jobs/job-*.json`: absent, or written, and then with or without a manifest path |
| `present`, `disk`, `held` | the source files, the manifest of each, what the receiver has, per transfer and directory |
| `at`, `explicit`, `stopped`, `mf` | the goroutines of calls: where they are, `ExplicitResume`, their context, the manifest they took |
| `emitting` | progress loops that still have something to say |
| `forgotten`, `trouble` | history: jobs that were removed; jobs whose sidecar or staging failed |

Actions: `Create`, `Resume`, `Cancel`, `Forget`, `ForgetFails` are the API;
`Open`, `OpenFails`, `Deliver`, `ReturnOk`, `ReturnCanceled`, `ReturnFailed` a call of
the sender; `SetManifest`, `Finish`, `Clean` what its goroutine does when it has
returned; `Emit` is `updateJobProgress`; `Lose` is the user, who removes or changes a
file; `Restart` is `restoreJobHistory`. `Persist` and `Pruned`, which are
`persistJobLocked` and `pruneJobsLocked`, are part of the actions in which the
code calls them. `Jobs` does not extend `Sender`: it sees a call from outside, as a
sequence of deliveries and a result. A file of 0 bytes (`Empty`) has no chunks: its send succeeds at
once without a connection to the receiver, its manifest is never complete (`Complete`), and a restore
refuses it (`Found`). `Sender` in turn has the calls of one file
for one directory; what happens between directories is asked in `Jobs`.

### JobLife, and how Jobs implements it

`JobLife` has one variable, `life`: for each job `new`, one of the five statuses,
`absent` (pruned; a restart may find it again) or `gone` (removed). Its actions are
those that the HTTP API promises: a job is created running, canceled while it is
active, resumed when it was canceled or failed, ends by itself, is removed when it
has ended, and is found in an ended state by a restart. `Jobs` maps each job to
`LifeOf(j)`, from the books alone; a step of a goroutine that does not show is a
stutter, and `FinishJob` with the pruning it does is `JobLife!Finish`. `LifeSpec` is the
refinement. `Pulls` uses `JobLife` for the jobs of the other agent: what holds of a pull
therefore holds of one over `Jobs`.

### Pulls

| Variable | Code (`pull.go`, `history.go`) |
|---|---|
| `life` | the jobs of the peer, as its `GET /remote-jobs/<id>` shows them |
| `asked` | numbers the calls of `createPull`; a call, its pull and its job have one number |
| `status`, `listed`, `sidecar` | `pullJobState.Status`, `pullsByID`, `history/pulls/pull-*.json` |
| `at`, `of`, `answer` | the HTTP requests that are under way: what they do next, the `pullJobState` they hold, `jobDetails.Status` that was decoded |
| `restarts` | bounds the restarts of this agent |
| `forgotten`, `finished` | history: pulls that were removed; jobs that were done at some time |

Actions: `Ask`, `PeerCreates`, `Created` are `createPull`, with `remoteSend` of the peer in
the middle; `Refresh`, `Answered`, `Apply` are `refreshPull` and `listPulls`, which ask the peer
without the lock; `Order`, `Ordered` are `pullRemoteAction`, with `remoteJobByID` of the peer
(`Obeys`); `GivesUp` is every error and timeout; `Forget` is `forgetPull`, `Restart` is
`restorePullHistory`, `PeerMoves` the peer's own user, sender and restarts. `Record` sets,
persists and prunes, in the order of the code. A `pullJobState` may be written by a
request after it was removed or pruned: `of` keeps the pointer. A request that gives up
ends here; what the peer was asked to do may still happen.

### Discovery

| Variable | Code (`discovery.go`) |
|---|---|
| `where`, `air` | external: the addresses of the other agents; hellos unread in the sockets |
| `peer`, `probe` | `peersByID`: entries of agents, and entries `probe-<address>`, with the age of `LastSeen` |
| `probed` | the age of `lastProbe[ip]` |
| `phase`, `todo`, `checked`, `target` | `runProbeCycle`: the candidates left, `checked`, the address it dials |
| `began`, `wait` | the age of `now` of the cycle; the timer of `probeLoop` |

Actions: `Hello` and `HandlePacket` are `announceLoop` of another agent and the two listening
loops; `BeginCycle`, `NoCycle`, `Dial`, `DialTimeout`, `UpsertProbePeer`, `EndCycle` are
`runProbeCycle` and the timer; `Tick` is time; `Moves` an agent that starts, stops or changes its
address. Entries expire by age; that `Peers` deletes them later shows nowhere.

`DiscoveryTime` adds two history variables, `same` (for how long an address has been silent, or left) and
`stays` (for how long an agent has been where it is), which no action reads. With them, what is to
happen becomes an invariant with a number of ticks in it: `Found`, a cooldown, the longest wait and the
dials of two cycles; `Gone`, the dials of a cycle and the life of an entry. `TimersAssumption` says how
the timers of the code fit: 20 s + 1 s + 2 * 9.6 s <= 45 s, 15 s <= 20 s, 9.6 s <= 15 s.

### ChunkPlan and Channels

`ChunkCount`, `BuildPlan` and `AutoChunkSize` are those of `chunk.go`; `ValidPlan` is the loop of
`validP2PHistoryManifest` and the refusal of an empty plan before it. `PlanIsValid` says that the two
disagree for a file of 0 bytes and for no other. `NextChannel` is the loop of `NextChunk` over the channels, with scores
as fractions instead of floats; `CoolsFor` the loop of `ReportFailure`. Both modules have no
state; `MCSender` evaluates them over bounded inputs, where the first call begins (`Planning`). The bounds
are constants of `MCSender` (`MaxBytes` to `MaxCooldown`), so that its properties can be proved for
any bounds.

## Runs

| Run | Asks | Instance | Result |
|---|---|---|---|
| `download_overlap` | all safety properties of a job whose runs overlap | 2 chunks, 2 runs of 1 worker, 1 attempt, stalls, saves of the first run that fail or get mixed with those of the second | holds |
| `download_ends` | does every run end, and the job settle? | 1 chunk, 2 runs of 1 worker, 2 attempts, no save faults | holds |
| `download_forgotten` | does a removed download stay removed? | 1 chunk, 1 run | **violated** |
| `download_intact` | does the final file hold the source's bytes? | 1 chunk of 2 blocks, 2 workers | **violated** |
| `receiver` | is what was acked kept, what is done there, what is complete merged, and is it a `Store`? | 2 chunks, 3 connections (2 at once), 2 finalizers, I/O errors, any name | holds |
| `receiver_idempotent` | does merging again change nothing? | 2 chunks, 4 connections | **violated** |
| `sender` | all properties of calls one after the other; is a plan whole, a channel well chosen? | 2 chunks, 2 workers, 2 calls, 2 attempts, I/O errors; files of 0 to 24 bytes, 3 channels, 8 failures | holds |
| `jobs` | does one call belong to a job, does a removed job stay removed, is a job that is done delivered, does it stay done, does its staging live as long as it is needed and no longer, and do the jobs live as `JobLife` says? | 2 jobs, 2 goroutines each, a file, an empty and a staged one, history of 1 | holds |
| `jobs_delivered` | has a call that succeeds brought the file to its directory? | 2 jobs, 1 file, 2 directories, 2 chunks | **violated** |
| `sender_resend` | does a new send succeed when nothing goes wrong in it? | 2 chunks, 2 workers, 2 calls | **violated** |
| `pulls` | is what a pull says true, does it stay so, does it come true in the end, does a removed pull stay away? | 1 pull, 2 requests, 2 restarts | holds |
| `discovery` | is a silent agent listed, one that left forgotten, an address that changed corrected, each in time? | 1 agent, 2 addresses, TTL of 5 ticks | holds |

Why the bounds are enough: the hazards need two of something, and no more. Two
runs or two calls overlap, two workers hold or wait for chunks, two chunks are
needed for one to be done and one not, two blocks for a hole before the end of
a part. Three connections are two chunks and one duplicate; two finalizers are
one that waits while another works. Attempts are limited to 1 or 2 instead of 3
and 8, so that exhausting them takes few steps; nothing in the code depends on
the number. `MaxCalls` of two gives a failed, canceled or interrupted call and
the one that continues or resumes it. Two jobs share a file, or push each other
out of a history of one; the second goroutine of a job is the one that resumes it
while the first still cleans up. Trouble with sidecars is limited to the first job
(`MaxTrouble`), and so is the file of the user (`MayAsk`): with it for both jobs the
same properties hold as well (`<<{f1, f2}, {f0, f1, f2}>>`, 2,505,298 states), but take twice as long. A file is
lost only when some job was asked for it, since before that a file that is gone is one that is not
asked for. One pull and two requests are an answer that overtakes another, and
two restarts one that undoes the other; several pulls meet only in the pruning,
which `Pulls_proofs` covers for any number. Two calls of the sender at one time, and
two workers of one run of a download, are left to the proofs, which hold for any
number of them; `download_intact` has such workers. In `download_overlap` a chunk fails
for good at once, and gets its attempt back from the next run; a second attempt
is in `download_ends`. Saves go wrong in the first run only (`FaultyRuns`), which is enough
for one that fails at the end of a run that is resumed, or of a run that ends late, and for a save of the workers
that meets the unlocked one of the resume; that the unlocked save itself fails is left to `ProgressIsPersisted`, for
any `FaultyRuns`. `download_ends` has no save faults: no goroutine reads
`manifest.json`, so that what is in it can neither keep a run from ending nor a job from settling. A chunk is taken
for stalled only while another is pending, so that stalls need two chunks and are in `download_overlap`, for the first of
them (`SlowChunks`).
That a run ends although chunks are taken for stalled again and again is not shown.

The ticks of `discovery` are about ten seconds. They are chosen tight: `TimersAssumption` holds with
equality, and with `Found` or `Gone` one tick less TLC finds a violation. With a cycle that reaches one
address only, `FoundInTime` fails. In the code an entry is renewed after at most 9.6 s of dials to
other addresses (20 of 480 ms), 21 s of waiting and 9.6 s of dials again, 40.2 s of the
45 s of `peerTTL`. With more than 20 addresses in the ARP table that are due, the same 20
are probed in each cycle, and an agent behind them is found by its hellos or not at
all; that is a limit of the code which the run leaves out.

Symmetry is used only without liveness,
and over workers, connections and finalizers, which the code does not tell
apart. The proofs hold for every value of these constants.

Deadlock is checked except in the runs of `Jobs`, where an agent may have nothing
left to do: with a history of one, sidecars that are there and files that are
gone, or no job that may still be created, every job has ended. It says little in the
others, since the agent can be restarted in almost any state: that the
system goes on is the business of the liveness properties.

### Fairness

* `Download`: weak fairness of every goroutine (Go schedules them, fetches end
  because `downloadChunkVia` has timeouts), and strong fairness of `Pick` for each chunk:
  `nextChunkPos` goes round the pending chunks and an interface that is asked for
  again and again is usable again. Nothing is assumed of API calls, the saver or
  restarts.
* `Receiver`: weak fairness of connections and finalizers; a timer that is armed
  fires or is restarted.
* `Sender`: weak fairness of calls and workers, and strong fairness of taking a
  chunk. It includes an assumption that the code does not enforce: a
  connection does not stay open and silent for ever, as the ack is read without a
  deadline. TCP keepalive, which Go sets on both sides, ends such connections.
* `Pulls`: weak fairness of a request (`postJSON` and `getJSON` have a timeout, so that it ends
  either way); strong fairness of refreshing each pull, since the open web page lists them
  again and again (`scheduleRefresh` in `web/app.js`), and of the answer to it: a peer that is
  asked for ever answers at some time. Without a page nobody asks, and a pull stays
  what it was.
* `Discovery`: no fairness. What has to happen is said with its time: a tick finds no timer due and
  no packet unread, so that `probeLoop` and the listening loops have done what they had to, and a state
  that does not come up to its time does not come at all. That a hello arrives is not assumed. The
  environment is kind to probes: the ARP table has every agent that is there, and it accepts a
  connection in time.
* `Jobs`: no fairness. That an active job ends is no run of its own: it always has one
  goroutine that has not reported (`ActiveJobsHaveOneCall`, proved), whose call of the
  sender returns (`CallReturns` of `Sender`).

## What is proved

The theorems hold for any sets of chunks, workers, calls, connections, finalizers,
files, directories and goroutines, any number of jobs and any positive limits; the assumptions are the named `ASSUME`s of the
modules, which TLC evaluates in every run.

* `Download_proofs`: `TypeCorrect`; `FinalIsComplete` and
  `DoneIsPublished`, which need that the temporary output holds complete parts only
  (`MergeInv`), as part files may change while they are merged;
  `RunningIsBacked` (`RunInv`: runs beyond the current one have not begun, a job that
  was dropped is not running, workers belong to a working run); `SendingIsHeld`;
  `ProgressIsPersisted` (`SavedInv`: whatever failed, came late or was torn, the manifest on disk is behind
  only while some run has yet to save it, or when the save that was the last has failed). Two theorems delimit findings 1 and 2: `IdleRemovalIsFinal`, and
  `IntactWithOneWriter` for the histories in which no two workers have the part file of one chunk open
  (`SolidParts`: a part has no hole, and its writer stands at its end), with
  `SingleConnectionIsIntact` for a download with one connection that is not resumed.
* `Receiver_proofs`: `TypeCorrect`, `AckedChunksAreKept` and `DoneIsThere`, from one
  inductive invariant: who works on the files holds the lock (`LockInv`); what a
  finalizer has reached in its merge (`MergeInv`); an output that was reported is
  not being rebuilt (`OutputInv`); a chunk that is about to be acked is kept
  (`AckInv`). `ImplementsStore` is the refinement of `Store`, from the same invariant: initial states map to
  initial states, and each action to one of `Store` or a stutter. None of `MergeInv`, `OutputInv` and `AckInv` is inductive alone: that a chunk file may be
  removed rests on what the finalizer has merged, and that on the lock. All three theorems are for names that
  the glob of the cleanup does not match. `PlainMergeIsIdempotent` delimits
  finding 3: it needs that no file operation fails, and `PlainInv` (what a plain session reported as its
  output is there at its size, where a further merge finds it, and the session has not failed).
* `Sender_proofs`: `TypeCorrect`; `DoneChunksAreHeld`, which needs what workers
  know (`HeldInv`: a chunk whose ack arrived was published for this transfer);
  `SendingIsOwned`, which needs that a worker's chunk is its own (`OwnerInv`);
  `SuccessDelivers`, from the two; `ReturnIsSaved`, from `AloneInv` (until it saves, a call
  that is alone knows no other done chunks than the file, and while it goes on it has
  returned nothing). `FailuresAreInherited` and `CleanCallsGiveUpNothing` delimit finding 4, from `CleanInv`
  (a call without trouble goes on until no chunk is left to try: its workers stop only then, and none of its
  chunks is canceled).
* `Jobs_proofs`: `TypeCorrect`; `OneCall`, from `CallInv` (a goroutine that has not
  reported belongs to an active job that knows it, and the other way round);
  `ForgottenForGood` and `StagingOwned`, from what every step but `Create` and `Forget`
  leaves to the books (`Books`: a sidecar is written only for a job that is
  in the list, and the list grows only from sidecars); `DoneArrived`, from
  `DeliveryInv` (`Backed`: what a manifest calls done, on disk or in a call, the
  receiver has in the directory of the one job of that file, and the manifest is
  complete from the moment a call succeeds), for files that are not empty; `DoneForGood`, an action property, from
  `CallInv`, `DeliveryInv` and what a restart needs to find a job done (`Named`,
  `Noted`); `StagingKept`, from `StageInv` (a staging has one job, is cleaned up only
  when that job is done, and is there while the job may still send it).
* `JobLife_proofs`: `ImplementsLife`, that `Jobs` implements `JobLife`: initial states map to
  initial states, and every step to a step of `JobLife` or a stutter. It rests on the
  inductive invariants of `Jobs_proofs`, and on one more, `HistoryFits`: the jobs that ended fit into
  the history, so that a job that begins or goes on drives out no other.
* `Pulls_proofs`: `TypeCorrect`; `DoneIsNoGuess`; `RemovedForGood` and `CurrentForGood`, action properties;
  from `PullInv`, which adds that pulls, their sidecars and whoever holds one have the
  numbers of calls that were made (`Numbered`: nothing is ready to come back under the number of a
  call to come), and that a job which is done is in the history of those (`JobsDone`).
* `Dispatch_proofs`: `PlanIsWhole`, for every size of a file but 0 and of a chunk, `EmptyPlanIsRefused` for 0, `AutoPlanIsWhole` and
  `EachByteOnce`, from the arithmetic of the quotient; `ChannelChosenWell`, for any sequence of
  channels, and `ChannelComesBack`, for any number of failures. The last two are about functions that are
  defined by recursion over the naturals. The induction they need is a lemma of the module
  (`Induction`), from the order of the naturals being well-founded: a set of numbers that
  has 0, and n + 1 with each n, has all of them. The loop over the channels keeps the fact that the best
  one so far is beaten by none of those before it by more than the hysteresis (`BestOf`), which is
  inductive since a score that replaces another is not below it.
  `PlanIsAlwaysValid`, `ChannelIsAlwaysNearBest` and `ChannelsAlwaysComeBack` give the invariants of the run
  `sender` for any bounds.
* `Discovery_proofs`: `TypeCorrect`; `LeftIsGone`, from `Fades` (an entry of an address that was left is at least as old as the leaving, but for the dials of a
  cycle that found somebody there); `StaysIsRight`, from `Moved` (a hello that waits, or an entry of another
  address, is older than the move); `SilentIsFound`, where a cycle reaches all addresses, from `AllProbes`
  (an address that is silent either has an entry that lasts until its next probe, or is probed before
  its time is up: `Lasts`, `Comes`) and `Scans` (a cycle goes up the addresses, so that its number of dials
  stays below those that are left).

Only model-checked: liveness (`RunsEnd`, `JobSettles`, `CompleteIsMerged`,
`CallReturns`, `PullConverges`), because fairness is out of the prover's reach; and the violations,
which are counterexamples.

## Findings

1. **A removed download comes back** (`download_forgotten`). Forget looks at the
   status, which Cancel sets to `canceled` while the goroutines of the run are still
   at work; their next save of the manifest recreates the session directory. Only what is still at
   work does: a download that is removed with no run, saver or Cancel left stays removed
   (`IdleRemovalIsFinal`).
2. **A chunk with a hole is merged** (`download_intact`). Two workers pick the same
   chunk from snapshots; one truncates the part file that the other is filling. Nothing else makes a hole: as
   long as no two workers write one part, the output is intact (`IntactWithOneWriter`).
3. **Merging again breaks a finished folder** (`receiver_idempotent`). After the
   extraction neither ZIP nor chunks are left; a late chunk causes a second
   finalization, which fails and marks the session as failed. Plain files are merged again without harm
   (`PlainMergeIsIdempotent`).
4. **One failed send makes later sends fail** (`sender_resend`). The manifest of a
   send that gave a chunk up is continued by the next plain send, in which nothing
   is left to try, and which reports an incomplete transfer. A send in which nothing goes wrong fails
   for no other reason (`FailuresAreInherited`, `CleanCallsGiveUpNothing`).
5. **A file is split over two directories** (`jobs_delivered`). The identity of a
   manifest leaves the directory out: a new job for another directory of the same
   peer continues what an earlier one left, and reports success.

## Defects without a run

The models do these as the code does, and the properties except them by name; no sentence of the
documents or tests speaks of them.

* **A file named like `main.chunk.js` is removed after its merge** (`receiver.go:749`, `CleanupFinal`): the
  session is done with a path under which there is nothing, and the chunks that were acked are gone, too.
  Without the exceptions TLC violates `AckedIsKept`, `DoneHasOutput` and `StoreSpec`.
* **A done job of an empty file is failed after a restart** (`history.go:300`, `Found`): what `BuildPlan`
  plans for 0 bytes the restore refuses. The receiver never hears of such a file. Without the exception
  TLC violates `DoneStaysDone`.
* **The last save of a download is tried once** (`manager.go:985`, `SaveAtomic`): if it fails, the next agent
  restores the job from an older manifest and downloads chunks again; if the first one after a resume
  tears the file, an agent that stops before the next save forgets the download.
* **A request brings a removed pull back** (`pull.go:688`): see Limits.

## Abstractions

* Time: a timer may fire, a timeout is a failure, a saver may skip a save.
* A save under the lock is one step that succeeds or fails, since `SaveAtomic` renames a complete temporary
  file; the one outside of it is two, `Marshal` and the rest. `MarshalIndent` reads the manifest in one
  step although workers change it meanwhile. A mix of two saves is never readable (`Torn`). A crash is
  the end of the process, not of the machine.
* Bytes: a part file is a length and a set of good blocks; a chunk file of the
  receiver is its content as a whole; hashes compare contents.
* Windows semantics: a file that is open is not removed; a rename replaces a file
  only where the code removes the old one first.
* Pruning is driven by other jobs and may happen to any terminal one.
* `Jobs`: a source that changed is one that is gone; it does so only while no call
  has it open. The receiver's answer to a chunk is in the sender's manifest at once.
  The sidecars that were written last are any of the allowed number, as writing
  one again changes the order. The status in a sidecar is not kept, since the restore
  ignores it. A job's number stands for its time of creation and the transfer it begins.
* The receiver has one session, a file is not called `manifest.json`, and refused headers change nothing; the sender's
  file does not change in the middle of a call (a source that cannot be read does
  occur); transfer IDs, which are nanoseconds, are unique.

## Limits

* `Sender` and `Receiver` are not composed in one specification. They meet in `Store`: what `Sender` takes for
  granted of the other side (`Publish` puts a chunk into `held`, where it stays, and `ReceiveAck` comes
  after it) is what `Store` says of `kept` and `told`, and `Receiver` implements `Store`. `SuccessIsComplete`
  then means that all chunks are kept and the output can be merged. It does not mean that it is merged: a
  receiver that restarts may leave a complete transfer until another chunk arrives.
* `Pulls`: a request that waits for the peer while its pull is removed writes the sidecar
  again (`persistPullLocked` after `forgetPull`), and the next restart lists the pull. The property
  `RemovedStaysAway` therefore begins when no request holds the pull. A pull whose job the peer
  has removed keeps its last status, and cannot be removed while that is `running`. A job that was
  created for a caller who gave up belongs to no pull. That the address of the peer may
  have passed to another machine is left out.
* `Channels`: an estimate of a rate is an input; the average that `ReportSuccess` keeps is left out.

## Not modelled

The wire format, configuration, ports, interface counters, HTTP routing, views, web
UI, command-line client, diagnosis tools, installer and browser extension keep no
state of a protocol: they are listed with their reasons in `PROJECT.json`. Of the
modelled parts: choosing URLs and interfaces and the range probe of downloads,
progress and throughput counters, two receiver sessions that want the same file
name, headers without a hash, and sidecars that somebody else has written. Of the
history of a pull, what it says of paths and progress. Of the scheduler, which
pending chunk is next: `Sender` takes any.
