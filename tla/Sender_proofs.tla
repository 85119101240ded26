--------------------------- MODULE Sender_proofs ---------------------------
(***************************************************************************)
(* Proofs about the LAN sender (Sender), for any sets of chunks, of calls  *)
(* at the same time and of workers.                                        *)
(*                                                                         *)
(* DoneIsHeld is not inductive: a chunk is reported as done two steps      *)
(* after the receiver has published it.  HeldInv adds the chunks in the    *)
(* hands of workers; OwnerInv says which worker a chunk belongs to.        *)
(***************************************************************************)
EXTENDS Sender, TLAPS

(* The states in which a worker holds a chunk.                             *)
Holds == {"send", "published", "acked"}

(* Workers belong to a call that works, and what they were told is true.   *)
HeldInv ==
  /\ DoneIsHeld
  /\ \A r \in Run, w \in Worker :
       /\ at[r][w] # "off" => pc[r] = "work"
       /\ at[r][w] \in {"published", "acked"} => taken[r][w] \in held[tx[r]]

(* What a call works on: every worker its own chunk, and every chunk that  *)
(* is sending has a worker.                                                *)
Owned(r) ==
  /\ \A w \in Worker :
       at[r][w] \in Holds => mf[r][taken[r][w]].status = "sending"
  /\ \A v, w \in Worker :
       at[r][v] \in Holds /\ at[r][w] \in Holds /\ taken[r][v] = taken[r][w]
         => v = w
  /\ \A c \in Chunk : mf[r][c].status = "sending" =>
       \E w \in Worker : at[r][w] \in Holds /\ taken[r][w] = c

(* A call begins with no chunk sending.                                    *)
OwnerInv ==
  \A r \in Run :
    /\ pc[r] = "save" => \A c \in Chunk : mf[r][c].status # "sending"
    /\ pc[r] = "work" => Owned(r)

-----------------------------------------------------------------------------
(* The operators on manifests.                                             *)

(* The operators that change one chunk: they return a manifest of the same *)
(* chunks, and the status of every chunk in it.                            *)
LEMMA SendingOp ==
  ASSUME NEW m \in Chunks, NEW c \in Chunk
  PROVE  /\ MarkSending(m, c) \in Chunks
         /\ MarkSending(m, c)[c].status = "sending"
         /\ \A d \in Chunk : d # c => MarkSending(m, c)[d] = m[d]
  BY DEF MarkSending, Chunks, ChunkState, Status

LEMMA DoneOp ==
  ASSUME NEW m \in Chunks, NEW c \in Chunk
  PROVE  /\ MarkDone(m, c) \in Chunks
         /\ MarkDone(m, c)[c].status = "done"
         /\ \A d \in Chunk : d # c => MarkDone(m, c)[d] = m[d]
  BY DEF MarkDone, Chunks, ChunkState, Status

LEMMA FailedOp ==
  ASSUME NEW m \in Chunks, NEW c \in Chunk
  PROVE  /\ MarkFailed(m, c) \in Chunks
         /\ MarkFailed(m, c)[c].status = "failed"
         /\ \A d \in Chunk : d # c => MarkFailed(m, c)[d] = m[d]
  BY DEF MarkFailed, Chunks, ChunkState, Status

LEMMA FailOp ==
  ASSUME NEW m \in Chunks, NEW c \in Chunk
  PROVE  /\ FailChunk(m, c) \in Chunks
         /\ FailChunk(m, c)[c].status \in {"failed", "pending"}
         /\ \A d \in Chunk : d # c => FailChunk(m, c)[d] = m[d]
  BY FailedOp DEF FailChunk, Chunks, ChunkState, Status

(* The operators that change all chunks make no chunk done.                *)
LEMMA ManifestOps ==
  ASSUME NEW m \in Chunks
  PROVE  /\ NewManifest(Chunk) \in Chunks
         /\ DoneIn(NewManifest(Chunk)) = {}
         /\ NormalizeForResume(m, MaxAttempts) \in Chunks
         /\ DoneIn(NormalizeForResume(m, MaxAttempts)) = DoneIn(m)
         /\ \A c \in Chunk : NormalizeForResume(m, MaxAttempts)[c].status # "sending"
         /\ MarkCanceledPending(m) \in Chunks
         /\ DoneIn(MarkCanceledPending(m)) = DoneIn(m)
         /\ ActivateResume(m, MaxAttempts) \in Chunks
         /\ DoneIn(ActivateResume(m, MaxAttempts)) = DoneIn(m)
         /\ \A c \in Chunk : ActivateResume(m, MaxAttempts)[c].status # "sending"
<1>1. NewManifest(Chunk) \in Chunks /\ DoneIn(NewManifest(Chunk)) = {}
  BY DEF NewManifest, Chunks, ChunkState, Status, DoneIn
<1>2. /\ NormalizeForResume(m, MaxAttempts) \in Chunks
      /\ DoneIn(NormalizeForResume(m, MaxAttempts)) = DoneIn(m)
      /\ \A c \in Chunk : NormalizeForResume(m, MaxAttempts)[c].status # "sending"
  BY DEF NormalizeForResume, Retryable, Chunks, ChunkState, Status, DoneIn
<1>3. /\ MarkCanceledPending(m) \in Chunks
      /\ DoneIn(MarkCanceledPending(m)) = DoneIn(m)
  BY DEF MarkCanceledPending, Chunks, ChunkState, Status, DoneIn
<1>4. ASSUME NEW c \in Chunk
      PROVE  /\ ActivateChunk(m, c, MaxAttempts)[c] \in ChunkState
             /\ ActivateChunk(m, c, MaxAttempts)[c].status =
                  IF m[c].status = "done" THEN "done" ELSE "pending"
  BY DEF ActivateChunk, Chunks, ChunkState, Status
<1>5. /\ ActivateResume(m, MaxAttempts) \in Chunks
      /\ \A c \in Chunk : ActivateResume(m, MaxAttempts)[c].status =
                            IF m[c].status = "done" THEN "done" ELSE "pending"
  BY <1>4 DEF ActivateResume, Chunks
<1>6. /\ DoneIn(ActivateResume(m, MaxAttempts)) = DoneIn(m)
      /\ \A c \in Chunk : ActivateResume(m, MaxAttempts)[c].status # "sending"
  BY <1>5 DEF DoneIn
<1> QED  BY <1>1, <1>2, <1>3, <1>5, <1>6

-----------------------------------------------------------------------------
(* What the parts of an action do.                                         *)

(* The manifest a call starts with: that of the file, or a new one.        *)
LEMMA Opened ==
  ASSUME TypeOK, NEW resume \in BOOLEAN, Found(resume), calls < MaxCalls
  PROVE  LET o == LoadOrCreate(resume, calls + 1)
         IN  /\ o.chunks \in Chunks
             /\ o.tx \in 1..(calls + 1)
             /\ \A c \in Chunk : o.chunks[c].status # "sending"
             /\ \/ o.tx = disk.tx /\ DoneIn(o.chunks) = DoneIn(disk.chunks)
                \/ DoneIn(o.chunks) = {}
<1> DEFINE o == LoadOrCreate(resume, calls + 1)
<1>1. disk.chunks \in Chunks /\ disk.tx \in 0..calls /\ calls \in Nat
  BY ConstantsAssumption DEF TypeOK
<1>2. /\ Loaded \in Chunks
      /\ DoneIn(Loaded) = DoneIn(disk.chunks)
      /\ \A c \in Chunk : Loaded[c].status # "sending"
  BY <1>1, ManifestOps DEF Loaded
<1>3. CASE resume
  <2>1. /\ o.chunks = ActivateResume(Loaded, MaxAttempts)
        /\ o.tx = disk.tx
        /\ disk.tx # 0
    BY <1>3 DEF LoadOrCreate, Stored, Found
  <2>2. o.tx \in 1..(calls + 1)
    BY <1>1, <2>1
  <2> QED  BY <1>2, <2>1, <2>2, ManifestOps
<1>4. CASE ~resume /\ Continued
  <2>1. o.chunks = Loaded /\ o.tx = disk.tx /\ disk.tx # 0
    BY <1>4 DEF LoadOrCreate, Stored, Continued
  <2>2. o.tx \in 1..(calls + 1)
    BY <1>1, <2>1
  <2> QED  BY <1>2, <2>1, <2>2
<1>5. CASE ~resume /\ ~Continued
  <2>1. o.chunks = NewManifest(Chunk) /\ o.tx = calls + 1
    BY <1>5 DEF LoadOrCreate, Stored
  <2>2. \A c \in Chunk : o.chunks[c].status # "sending"
    BY <2>1 DEF NewManifest
  <2>3. o.chunks \in Chunks /\ DoneIn(o.chunks) = {}
    BY <1>1, <2>1, ManifestOps
  <2> QED  BY <1>1, <2>1, <2>2, <2>3
<1> QED  BY <1>3, <1>4, <1>5

LEMMA WorkerMove ==
  ASSUME TypeOK, NEW r \in Run, NEW w \in Worker, NEW p \in WorkerPc,
         WorkerAt(r, w, p)
  PROVE  /\ at' \in [Run -> [Worker -> WorkerPc]]
         /\ at'[r][w] = p
         /\ \A v \in Worker : v # w => at'[r][v] = at[r][v]
         /\ \A q \in Run : q # r => at'[q] = at[q]
  BY DEF TypeOK, WorkerAt

LEMMA SaveMove ==
  ASSUME TypeOK, NEW r \in Run, NEW m \in Chunks, NEW saved, Save(r, m, saved)
  PROVE  /\ disk' \in [tx : 0..calls, chunks : Chunks]
         /\ lastErr' \in [Run -> BOOLEAN]
         /\ disk' = disk \/ disk' = Stored(m, tx[r])
<1>1. Stored(m, tx[r]) \in [tx : 0..calls, chunks : Chunks]
  BY DEF Stored, TypeOK
<1>2. (saved = "failed") \in BOOLEAN
  OBVIOUS
<1>3. lastErr' \in [Run -> BOOLEAN]
  BY <1>2 DEF Save, TypeOK
<1> QED  BY <1>1, <1>3 DEF Save, TypeOK

LEMMA ReturnMove ==
  ASSUME TypeOK, NEW r \in Run, NEW res \in {"ok", "failed", "canceled"},
         Return(r, res)
  PROVE  /\ pc' \in [Run -> {"idle", "save", "work"}]
         /\ pc'[r] = "idle"
         /\ \A q \in Run : q # r => pc'[q] = pc[q]
         /\ result' \in [Run -> {"none", "ok", "failed", "canceled"}]
         /\ result'[r] = res
         /\ \A q \in Run : q # r => result'[q] = result[q]
         /\ UNCHANGED <<calls, held, tx, canceled, hard, at, taken>>
  BY DEF TypeOK, Return

-----------------------------------------------------------------------------
(* Type correctness.                                                       *)

LEMMA TypeInit == Init => TypeOK
<1> SUFFICES ASSUME Init PROVE TypeOK
  OBVIOUS
<1>1. NewManifest(Chunk) \in Chunks
  BY DEF NewManifest, Chunks, ChunkState, Status
<1>2. disk \in [tx : 0..calls, chunks : Chunks] /\ calls \in 0..MaxCalls
  BY <1>1, ConstantsAssumption DEF Init, NoManifest, Stored
<1>3. taken \in [Run -> [Worker -> Chunk]]
  BY ConstantsAssumption DEF Init
<1> QED  BY <1>1, <1>2, <1>3 DEF Init, TypeOK, WorkerPc

LEMMA TypeCall ==
  ASSUME TypeOK, NEW r \in Run, NEW resume \in BOOLEAN, Call(r, resume)
  PROVE  TypeOK'
<1> DEFINE o == LoadOrCreate(resume, calls + 1)
<1>1. o.chunks \in Chunks /\ o.tx \in 1..(calls + 1)
  BY Opened DEF Call
<1>2. calls \in Nat /\ MaxCalls \in Nat
  BY ConstantsAssumption DEF TypeOK
<1>3. calls' = calls + 1 /\ calls' \in 0..MaxCalls
  BY <1>2 DEF Call
<1>4. tx' \in [Run -> 0..calls']
  BY <1>1, <1>2, <1>3 DEF Call, TypeOK
<1>5. \A q \in Run : pc'[q] # "idle" => tx'[q] # 0
  BY <1>1, <1>2 DEF Call, TypeOK
<1>6. disk' \in [tx : 0..calls', chunks : Chunks]
  BY <1>2, <1>3 DEF Call, TypeOK
<1> QED  BY <1>1, <1>3, <1>4, <1>5, <1>6 DEF Call, TypeOK

LEMMA TypeWork ==
  ASSUME TypeOK, NEW r \in Run, NEW w \in Worker, Work(r, w)
  PROVE  TypeOK'
<1> USE DEF callVars
<1>1. mf[r] \in Chunks /\ taken[r][w] \in Chunk
  BY DEF TypeOK
<1>2. CASE Check(r, w) \/ NothingLeft(r, w) \/ NoChannel(r, w) \/ ReceiveAck(r, w)
  BY <1>2, WorkerMove
  DEF TypeOK, Check, NothingLeft, NoChannel, ReceiveAck, WorkerPc
<1>3. ASSUME NEW c \in Chunk, NEW saved \in Saving, Pick(r, w, c, saved)
      PROVE  TypeOK'
  <2>1. Take(mf[r], c) \in Chunks
    BY <1>1, SendingOp DEF Take
  <2>2. at' \in [Run -> [Worker -> WorkerPc]]
    BY <1>3, WorkerMove DEF Pick, WorkerPc
  <2> QED  BY <1>3, <2>1, <2>2, SaveMove DEF TypeOK, Pick
<1>4. CASE Publish(r, w)
  <2>1. at' \in [Run -> [Worker -> WorkerPc]]
    BY <1>4, WorkerMove DEF Publish, WorkerPc
  <2>2. held' \in [Tx -> SUBSET Chunk]
    BY <1>1, <1>4 DEF TypeOK, Publish
  <2> QED  BY <1>4, <2>1, <2>2 DEF TypeOK, Publish
<1>5. ASSUME NEW saved \in Saving, HashFails(r, w, saved)
      PROVE  TypeOK'
  <2>1. MarkFailed(mf[r], taken[r][w]) \in Chunks
    BY <1>1, FailedOp
  <2>2. at' \in [Run -> [Worker -> WorkerPc]]
    BY <1>5, WorkerMove DEF HashFails, WorkerPc
  <2> QED  BY <1>5, <2>1, <2>2, SaveMove DEF TypeOK, HashFails
<1>6. ASSUME NEW saved \in Saving, SendFails(r, w, saved)
      PROVE  TypeOK'
  <2> DEFINE m == FailChunk(mf[r], taken[r][w])
             h == hard[r] \/ Exhausted(m, taken[r][w])
  <2>1. m \in Chunks
    BY <1>1, FailOp
  <2>2. at' \in [Run -> [Worker -> WorkerPc]]
    BY <1>6, WorkerMove DEF SendFails, WorkerPc
  <2>3. h \in BOOLEAN
    BY DEF TypeOK, Exhausted
  <2>4. hard' \in [Run -> BOOLEAN]
    BY <1>6, <2>3 DEF TypeOK, SendFails
  <2>5. mf' \in [Run -> Chunks]
    BY <1>6, <2>1 DEF TypeOK, SendFails
  <2>6. /\ disk' \in [tx : 0..calls, chunks : Chunks]
        /\ lastErr' \in [Run -> BOOLEAN]
    BY <1>6, <2>1, SaveMove DEF SendFails
  <2> QED  BY <1>6, <2>2, <2>4, <2>5, <2>6 DEF TypeOK, SendFails
<1>7. ASSUME NEW saved \in Saving, ReportDone(r, w, saved)
      PROVE  TypeOK'
  <2>1. MarkDone(mf[r], taken[r][w]) \in Chunks
    BY <1>1, DoneOp
  <2>2. at' \in [Run -> [Worker -> WorkerPc]]
    BY <1>7, WorkerMove DEF ReportDone, WorkerPc
  <2> QED  BY <1>7, <2>1, <2>2, SaveMove DEF TypeOK, ReportDone
<1> QED  BY <1>2, <1>3, <1>4, <1>5, <1>6, <1>7 DEF Work, TakeChunk

LEMMA TypeGo ==
  ASSUME TypeOK, NEW r \in Run, Go(r)
  PROVE  TypeOK'
<1>1. mf[r] \in Chunks /\ MarkCanceledPending(mf[r]) \in Chunks
  BY ManifestOps DEF TypeOK
<1>2. CASE StartWorkers(r)
  BY <1>1, <1>2 DEF TypeOK, StartWorkers, Stored, WorkerPc
<1>3. CASE StartFails(r)
  BY <1>3, ReturnMove DEF TypeOK, StartFails
<1>4. ASSUME NEW saved \in Saving, EndCanceled(r, saved)
      PROVE  TypeOK'
  BY <1>1, <1>4, ReturnMove, SaveMove DEF TypeOK, EndCanceled
<1>5. ASSUME NEW saved \in Saving, EndHard(r, saved)
      PROVE  TypeOK'
  BY <1>1, <1>5, ReturnMove, SaveMove DEF TypeOK, EndHard
<1>6. CASE EndFlushFails(r)
  BY <1>1, <1>6, ReturnMove, SaveMove DEF TypeOK, EndFlushFails
<1>7. CASE EndFlushed(r)
  BY <1>1, <1>7, ReturnMove, SaveMove DEF TypeOK, EndFlushed
<1> QED  BY <1>2, <1>3, <1>4, <1>5, <1>6, <1>7 DEF Go

LEMMA TypeStep == TypeOK /\ [Next]_vars => TypeOK'
<1> SUFFICES ASSUME TypeOK, [Next]_vars PROVE TypeOK'
  OBVIOUS
<1>1. ASSUME NEW r \in Run, Cancel(r) PROVE TypeOK'
  BY <1>1 DEF TypeOK, Cancel
<1>2. CASE Restart
  BY <1>2 DEF TypeOK, Restart, WorkerPc
<1>3. CASE UNCHANGED vars
  BY <1>3 DEF TypeOK, vars, callVars
<1> QED  BY <1>1, <1>2, <1>3, TypeCall, TypeGo, TypeWork DEF Next

(* The type invariant of Sender.                                           *)
THEOREM TypeCorrect == Spec => []TypeOK
  BY TypeInit, TypeStep, PTL DEF Spec

-----------------------------------------------------------------------------
(* What is done has been published.                                        *)

(* The chunks done in a manifest of which one chunk changed.               *)
LEMMA DoneOps ==
  ASSUME NEW m \in Chunks, NEW c \in Chunk
  PROVE  /\ DoneIn(MarkSending(m, c)) \subseteq DoneIn(m)
         /\ DoneIn(MarkFailed(m, c)) \subseteq DoneIn(m)
         /\ DoneIn(FailChunk(m, c)) \subseteq DoneIn(m)
         /\ DoneIn(MarkDone(m, c)) \subseteq DoneIn(m) \cup {c}
<1>1. \A d \in Chunk : d # c =>
        /\ MarkSending(m, c)[d] = m[d] /\ MarkDone(m, c)[d] = m[d]
        /\ MarkFailed(m, c)[d] = m[d] /\ FailChunk(m, c)[d] = m[d]
  BY SendingOp, DoneOp, FailedOp, FailOp
<1>2. /\ MarkSending(m, c)[c].status # "done"
      /\ MarkFailed(m, c)[c].status # "done"
      /\ FailChunk(m, c)[c].status # "done"
  BY SendingOp, FailedOp, FailOp
<1> QED  BY <1>1, <1>2 DEF DoneIn

(* A call writes to its own manifest, and that to the file, or nothing.    *)
LEMMA DoneFrame ==
  ASSUME TypeOK, DoneIsHeld, NEW r \in Run, NEW m \in Chunks,
         tx[r] # 0, tx' = tx, mf' = [mf EXCEPT ![r] = m],
         disk' = disk \/ disk' = Stored(m, tx[r]),
         \A t \in Tx : held[t] \subseteq held'[t],
         DoneIn(m) \subseteq held'[tx[r]]
  PROVE  DoneIsHeld'
<1>1. calls \in 0..MaxCalls /\ MaxCalls \in Nat
  BY ConstantsAssumption DEF TypeOK
<1>2. \A q \in Run : tx[q] # 0 => tx[q] \in Tx
  BY <1>1 DEF TypeOK, Tx
<1>3. disk.tx # 0 => disk.tx \in Tx
  BY <1>1 DEF TypeOK, Tx
<1>4. ASSUME NEW q \in Run, tx'[q] # 0 PROVE DoneIn(mf'[q]) \subseteq held'[tx'[q]]
  <2>1. CASE q = r
    <3>1. mf'[q] = m
      BY <2>1 DEF TypeOK
    <3> QED  BY <2>1, <3>1
  <2>2. CASE q # r
    <3>1. mf'[q] = mf[q] /\ DoneIn(mf[q]) \subseteq held[tx[q]] /\ tx[q] \in Tx
      BY <1>2, <1>4, <2>2 DEF TypeOK, DoneIsHeld
    <3> QED  BY <3>1
  <2> QED  BY <2>1, <2>2
<1>5. disk'.tx # 0 => DoneIn(disk'.chunks) \subseteq held'[disk'.tx]
  <2>1. CASE disk' = disk
    BY <1>3, <2>1 DEF DoneIsHeld
  <2>2. CASE disk' = Stored(m, tx[r])
    BY <2>2 DEF Stored
  <2> QED  BY <2>1, <2>2
<1> QED  BY <1>4, <1>5 DEF DoneIsHeld

LEMMA HeldInit == Init => HeldInv
  BY ManifestOps DEF Init, HeldInv, DoneIsHeld, NoManifest, Stored

LEMMA HeldCall ==
  ASSUME TypeOK, HeldInv, NEW r \in Run, NEW resume \in BOOLEAN, Call(r, resume)
  PROVE  HeldInv'
<1> DEFINE o == LoadOrCreate(resume, calls + 1)
<1>1. \/ o.tx = disk.tx /\ DoneIn(o.chunks) = DoneIn(disk.chunks)
      \/ DoneIn(o.chunks) = {}
  BY Opened DEF Call
<1>2. o.tx # 0
  <2>1. calls \in Nat
    BY DEF TypeOK
  <2> QED  BY <2>1, Opened DEF Call
<1>3. DoneIn(o.chunks) \subseteq held[o.tx]
  BY <1>1, <1>2 DEF HeldInv, DoneIsHeld
<1>4. ASSUME NEW q \in Run, tx'[q] # 0 PROVE DoneIn(mf'[q]) \subseteq held'[tx'[q]]
  <2>1. CASE q = r
    <3>1. mf'[q] = o.chunks /\ tx'[q] = o.tx /\ held' = held
      BY <2>1 DEF Call, TypeOK
    <3> QED  BY <1>3, <3>1
  <2>2. CASE q # r
    <3>1. mf'[q] = mf[q] /\ tx'[q] = tx[q] /\ held' = held
      BY <2>2 DEF Call, TypeOK
    <3> QED  BY <1>4, <3>1 DEF HeldInv, DoneIsHeld
  <2> QED  BY <2>1, <2>2
<1>5. DoneIsHeld'
  BY <1>4 DEF Call, HeldInv, DoneIsHeld
<1>6. ASSUME NEW q \in Run, NEW w \in Worker
      PROVE  /\ at'[q][w] # "off" => pc'[q] = "work"
             /\ at'[q][w] \in {"published", "acked"} => taken'[q][w] \in held'[tx'[q]]
  <2>1. CASE q = r
    <3>1. at[q][w] = "off" /\ at' = at
      BY <2>1 DEF Call, HeldInv
    <3> QED  BY <3>1
  <2>2. CASE q # r
    <3>1. pc'[q] = pc[q] /\ tx'[q] = tx[q] /\ held' = held /\ at' = at /\ taken' = taken
      BY <2>2 DEF Call, TypeOK
    <3> QED  BY <3>1 DEF HeldInv
  <2> QED  BY <2>1, <2>2
<1> QED  BY <1>5, <1>6 DEF HeldInv

(* The facts about other workers that a step of worker w of call r needs.  *)
LEMMA HeldWork ==
  ASSUME TypeOK, HeldInv, NEW r \in Run, NEW w \in Worker, Work(r, w)
  PROVE  HeldInv'
<1> USE DEF callVars
<1> DEFINE c == taken[r][w]
<1>1. mf[r] \in Chunks /\ c \in Chunk
  BY DEF TypeOK
<1>2. at[r][w] # "off" => pc[r] = "work" /\ tx[r] # 0 /\ tx[r] \in Tx
  <2>1. calls \in 0..MaxCalls /\ MaxCalls \in Nat
    BY ConstantsAssumption DEF TypeOK
  <2> QED  BY <2>1 DEF TypeOK, HeldInv, Tx
<1>3. tx[r] # 0 => DoneIn(mf[r]) \subseteq held[tx[r]]
  BY DEF HeldInv, DoneIsHeld
<1>4. ASSUME NEW p \in WorkerPc, WorkerAt(r, w, p), at[r][w] # "off",
             UNCHANGED <<pc, tx>>, taken' = taken \/ p = "send",
             \A q \in Run, v \in Worker : q # r \/ v # w => taken'[q][v] = taken[q][v],
             \A t \in Tx : held[t] \subseteq held'[t],
             p \in {"published", "acked"} => c \in held'[tx[r]]
      PROVE  \A q \in Run, v \in Worker :
               /\ at'[q][v] # "off" => pc'[q] = "work"
               /\ at'[q][v] \in {"published", "acked"} => taken'[q][v] \in held'[tx'[q]]
  <2> SUFFICES ASSUME NEW q \in Run, NEW v \in Worker
               PROVE  /\ at'[q][v] # "off" => pc'[q] = "work"
                      /\ at'[q][v] \in {"published", "acked"} => taken'[q][v] \in held'[tx'[q]]
    OBVIOUS
  <2>1. CASE q = r /\ v = w
    <3>1. at'[q][v] = p
      BY <1>4, <2>1, WorkerMove
    <3> QED  BY <1>2, <1>4, <2>1, <3>1
  <2>2. CASE q # r \/ v # w
    <3>1. at'[q][v] = at[q][v]
      BY <1>4, <2>2, WorkerMove
    <3>2. at[q][v] # "off" => pc[q] = "work" /\ tx[q] \in Tx
      <4>1. calls \in 0..MaxCalls /\ MaxCalls \in Nat
        BY ConstantsAssumption DEF TypeOK
      <4> QED  BY <4>1 DEF TypeOK, HeldInv, Tx
    <3>3. taken'[q][v] = taken[q][v] /\ tx'[q] = tx[q] /\ pc'[q] = pc[q]
      BY <1>4, <2>2
    <3> QED  BY <1>4, <3>1, <3>2, <3>3 DEF HeldInv
  <2> QED  BY <2>1, <2>2
<1>5. ASSUME NEW m \in Chunks, NEW p \in {"off", "check", "send"}, NEW saved,
             at[r][w] # "off", mf' = [mf EXCEPT ![r] = m], Save(r, m, saved),
             WorkerAt(r, w, p), UNCHANGED <<held, pc, tx>>,
             taken' = taken \/ p = "send",
             \A q \in Run, v \in Worker : q # r \/ v # w => taken'[q][v] = taken[q][v],
             DoneIn(m) \subseteq held[tx[r]]
      PROVE  HeldInv'
  <2>1. disk' = disk \/ disk' = Stored(m, tx[r])
    BY <1>5, SaveMove
  <2>2. DoneIsHeld'
    BY <1>2, <1>5, <2>1, DoneFrame DEF HeldInv
  <2>3. p \in WorkerPc
    BY DEF WorkerPc
  <2> QED  BY <1>4, <1>5, <2>2, <2>3 DEF HeldInv
<1>6. CASE Check(r, w) \/ NothingLeft(r, w) \/ NoChannel(r, w)
  <2>1. PICK p \in {"off", "check", "pick"} : WorkerAt(r, w, p)
    BY <1>6 DEF Check, NothingLeft, NoChannel
  <2>2. p \in WorkerPc /\ at[r][w] # "off" /\ UNCHANGED <<pc, tx, held, taken, mf, disk>>
    BY <1>6 DEF Check, NothingLeft, NoChannel, WorkerPc
  <2>3. DoneIsHeld'
    BY <2>2 DEF HeldInv, DoneIsHeld
  <2> QED  BY <1>4, <2>1, <2>2, <2>3 DEF HeldInv
<1>7. ASSUME NEW d \in Chunk, NEW saved \in Saving, Pick(r, w, d, saved)
      PROVE  HeldInv'
  <2>1. /\ Take(mf[r], d) \in Chunks
        /\ DoneIn(Take(mf[r], d)) \subseteq held[tx[r]]
    BY <1>1, <1>2, <1>3, <1>7, SendingOp, DoneOps DEF Take, Pick
  <2>2. \A q \in Run, v \in Worker : q # r \/ v # w => taken'[q][v] = taken[q][v]
    BY <1>7 DEF Pick, TypeOK
  <2> QED  BY <1>5, <1>7, <2>1, <2>2 DEF Pick
<1>8. CASE Publish(r, w)
  <2>1. /\ at[r][w] = "send" /\ WorkerAt(r, w, "published")
        /\ UNCHANGED <<pc, tx, taken, mf, disk>>
        /\ held' = [held EXCEPT ![tx[r]] = @ \cup {c}]
    BY <1>8 DEF Publish
  <2>2. held'[tx[r]] = held[tx[r]] \cup {c}
    BY <1>2, <2>1 DEF TypeOK
  <2>3. \A t \in Tx : held[t] \subseteq held'[t]
    BY <2>1 DEF TypeOK
  <2>4. mf' = [mf EXCEPT ![r] = mf[r]]
    BY <2>1 DEF TypeOK
  <2>5. DoneIsHeld'
    BY <1>1, <1>2, <1>3, <2>1, <2>2, <2>3, <2>4, DoneFrame DEF HeldInv
  <2>6. "published" \in WorkerPc
    BY DEF WorkerPc
  <2> QED  BY <1>4, <2>1, <2>2, <2>3, <2>5, <2>6 DEF HeldInv
<1>9. CASE ReceiveAck(r, w)
  <2>1. /\ at[r][w] = "published" /\ WorkerAt(r, w, "acked")
        /\ UNCHANGED <<pc, tx, held, taken, mf, disk>>
    BY <1>9 DEF ReceiveAck, Acked
  <2>2. c \in held'[tx[r]] /\ "acked" \in WorkerPc
    BY <2>1 DEF HeldInv, WorkerPc
  <2>3. DoneIsHeld'
    BY <2>1 DEF HeldInv, DoneIsHeld
  <2> QED  BY <1>4, <2>1, <2>2, <2>3 DEF HeldInv
<1>10. ASSUME NEW saved \in Saving, HashFails(r, w, saved)
       PROVE  HeldInv'
  <2>1. /\ MarkFailed(mf[r], c) \in Chunks
        /\ DoneIn(MarkFailed(mf[r], c)) \subseteq held[tx[r]]
    BY <1>1, <1>2, <1>3, <1>10, FailedOp, DoneOps DEF HashFails
  <2> QED  BY <1>5, <1>10, <2>1 DEF HashFails
<1>11. ASSUME NEW saved \in Saving, SendFails(r, w, saved)
       PROVE  HeldInv'
  <2>1. at[r][w] # "off"
    BY <1>11 DEF SendFails
  <2>2. /\ FailChunk(mf[r], c) \in Chunks
        /\ DoneIn(FailChunk(mf[r], c)) \subseteq held[tx[r]]
    BY <1>1, <1>2, <1>3, <2>1, FailOp, DoneOps
  <2>3. PICK p \in {"off", "check"} : WorkerAt(r, w, p)
    BY <1>11 DEF SendFails
  <2>4. /\ mf' = [mf EXCEPT ![r] = FailChunk(mf[r], c)]
        /\ Save(r, FailChunk(mf[r], c), saved)
        /\ UNCHANGED <<held, pc, tx, taken>>
    BY <1>11 DEF SendFails
  <2> QED  BY <1>5, <2>1, <2>2, <2>3, <2>4
<1>12. ASSUME NEW saved \in Saving, ReportDone(r, w, saved)
       PROVE  HeldInv'
  <2>1. at[r][w] = "acked"
    BY <1>12 DEF ReportDone
  <2>2. c \in held[tx[r]]
    BY <2>1 DEF HeldInv
  <2>3. /\ MarkDone(mf[r], c) \in Chunks
        /\ DoneIn(MarkDone(mf[r], c)) \subseteq held[tx[r]]
    <3>1. DoneIn(mf[r]) \subseteq held[tx[r]]
      BY <1>2, <1>3, <2>1
    <3>2. /\ MarkDone(mf[r], c) \in Chunks
          /\ DoneIn(MarkDone(mf[r], c)) \subseteq DoneIn(mf[r]) \cup {c}
      BY <1>1, DoneOp, DoneOps
    <3> QED  BY <2>2, <3>1, <3>2
  <2> QED  BY <1>5, <1>12, <2>1, <2>3 DEF ReportDone
<1> QED  BY <1>6, <1>7, <1>8, <1>9, <1>10, <1>11, <1>12 DEF Work, TakeChunk

LEMMA HeldGo ==
  ASSUME TypeOK, HeldInv, NEW r \in Run, Go(r)
  PROVE  HeldInv'
<1>1. mf[r] \in Chunks /\ pc[r] # "idle" /\ tx[r] # 0
  BY DEF Go, StartWorkers, StartFails, EndCanceled, EndHard, EndFlushFails,
         EndFlushed, Joined, TypeOK
<1>2. DoneIn(mf[r]) \subseteq held[tx[r]]
  BY <1>1 DEF HeldInv, DoneIsHeld
<1>3. ASSUME NEW m \in Chunks, NEW res \in {"ok", "failed", "canceled"},
             \A w \in Worker : at[r][w] = "off",
             Return(r, res), mf' = [mf EXCEPT ![r] = m],
             disk' = disk \/ disk' = Stored(m, tx[r]),
             DoneIn(m) \subseteq held[tx[r]]
      PROVE  HeldInv'
  <2>1. UNCHANGED <<held, tx, at, taken>> /\ \A q \in Run : q # r => pc'[q] = pc[q]
    BY <1>3, ReturnMove
  <2>2. DoneIsHeld'
    BY <1>1, <1>3, <2>1, DoneFrame DEF HeldInv
  <2>3. ASSUME NEW q \in Run, NEW w \in Worker
        PROVE  /\ at'[q][w] # "off" => pc'[q] = "work"
               /\ at'[q][w] \in {"published", "acked"} => taken'[q][w] \in held'[tx'[q]]
    BY <1>3, <2>1 DEF HeldInv
  <2> QED  BY <2>2, <2>3 DEF HeldInv
<1>4. mf = [mf EXCEPT ![r] = mf[r]]
  BY DEF TypeOK
<1>5. CASE StartWorkers(r)
  <2>1. /\ UNCHANGED <<held, tx, mf, taken>>
        /\ disk' = Stored(mf[r], tx[r])
    BY <1>5 DEF StartWorkers
  <2>2. DoneIsHeld'
    BY <1>1, <1>2, <1>4, <2>1, DoneFrame DEF HeldInv
  <2>3. ASSUME NEW q \in Run, NEW w \in Worker
        PROVE  /\ at'[q][w] # "off" => pc'[q] = "work"
               /\ at'[q][w] \in {"published", "acked"} => taken'[q][w] \in held'[tx'[q]]
    <3>1. CASE q = r
      BY <1>5, <3>1 DEF StartWorkers, TypeOK
    <3>2. CASE q # r
      <4>1. at'[q] = at[q] /\ pc'[q] = pc[q]
        BY <1>5, <3>2 DEF StartWorkers, TypeOK
      <4> QED  BY <2>1, <4>1 DEF HeldInv
    <3> QED  BY <3>1, <3>2
  <2> QED  BY <2>2, <2>3 DEF HeldInv
<1>6. CASE StartFails(r)
  <2>1. \A w \in Worker : at[r][w] = "off"
    BY <1>6 DEF StartFails, HeldInv
  <2> QED  BY <1>1, <1>2, <1>3, <1>4, <1>6, <2>1 DEF StartFails
<1>7. ASSUME NEW saved \in Saving, EndCanceled(r, saved)
      PROVE  HeldInv'
  <2>1. /\ MarkCanceledPending(mf[r]) \in Chunks
        /\ DoneIn(MarkCanceledPending(mf[r])) = DoneIn(mf[r])
    BY <1>1, ManifestOps
  <2>2. disk' = disk \/ disk' = Stored(MarkCanceledPending(mf[r]), tx[r])
    BY <1>7, <2>1, SaveMove DEF EndCanceled
  <2> QED  BY <1>2, <1>3, <1>7, <2>1, <2>2 DEF EndCanceled, Joined
<1>8. ASSUME NEW saved \in Saving, EndHard(r, saved)
      PROVE  HeldInv'
  <2>1. disk' = disk \/ disk' = Stored(mf[r], tx[r])
    BY <1>1, <1>8, SaveMove DEF EndHard
  <2> QED  BY <1>1, <1>2, <1>3, <1>4, <1>8, <2>1 DEF EndHard, Joined
<1>9. CASE EndFlushFails(r)
  <2>1. disk' = disk \/ disk' = Stored(mf[r], tx[r])
    BY <1>1, <1>9, SaveMove DEF EndFlushFails
  <2> QED  BY <1>1, <1>2, <1>3, <1>4, <1>9, <2>1 DEF EndFlushFails, Joined
<1>10. CASE EndFlushed(r)
  <2>1. disk' = disk \/ disk' = Stored(mf[r], tx[r])
    BY <1>1, <1>10, SaveMove DEF EndFlushed
  <2> QED  BY <1>1, <1>2, <1>3, <1>4, <1>10, <2>1 DEF EndFlushed, Joined
<1> QED  BY <1>5, <1>6, <1>7, <1>8, <1>9, <1>10 DEF Go

LEMMA HeldStep == TypeOK /\ HeldInv /\ [Next]_vars => HeldInv'
<1> SUFFICES ASSUME TypeOK, HeldInv, [Next]_vars PROVE HeldInv'
  OBVIOUS
<1>1. ASSUME NEW r \in Run, Cancel(r) PROVE HeldInv'
  BY <1>1 DEF HeldInv, DoneIsHeld, Cancel
<1>2. CASE Restart
  BY <1>2 DEF HeldInv, DoneIsHeld, Restart
<1>3. CASE UNCHANGED vars
  BY <1>3 DEF HeldInv, DoneIsHeld, vars, callVars
<1> QED  BY <1>1, <1>2, <1>3, HeldCall, HeldGo, HeldWork DEF Next

(* A manifest of the sender never claims more than the receiver has: the   *)
(* done chunks of a transfer, in memory and on disk, are published.        *)
THEOREM DoneChunksAreHeld == Spec => []DoneIsHeld
<1>1. HeldInv => DoneIsHeld
  BY DEF HeldInv
<1> QED  BY TypeInit, TypeStep, HeldInit, HeldStep, <1>1, PTL DEF Spec

-----------------------------------------------------------------------------
(* Who sends what.                                                         *)

(* A step of one call leaves what the other calls work on alone.           *)
LEMMA OwnerFrame ==
  ASSUME OwnerInv, NEW r \in Run,
         \A q \in Run : q # r => /\ pc'[q] = pc[q]
                                 /\ mf'[q] = mf[q]
                                 /\ at'[q] = at[q]
                                 /\ taken'[q] = taken[q],
         pc'[r] = "save" => \A c \in Chunk : mf'[r][c].status # "sending",
         pc'[r] = "work" => Owned(r)'
  PROVE  OwnerInv'
  BY DEF OwnerInv, Owned

LEMMA OwnerWork ==
  ASSUME TypeOK, HeldInv, OwnerInv, NEW r \in Run, NEW w \in Worker, Work(r, w)
  PROVE  OwnerInv'
<1> USE DEF callVars
<1> DEFINE c == taken[r][w]
<1>1. mf[r] \in Chunks /\ c \in Chunk
  BY DEF TypeOK
<1>2. at[r][w] # "off" => pc[r] = "work" /\ Owned(r)
  BY DEF HeldInv, OwnerInv
<1>3. ASSUME NEW p \in WorkerPc, WorkerAt(r, w, p), at[r][w] # "off",
             at[r][w] \in Holds <=> p \in Holds,
             UNCHANGED <<pc, mf, taken>>
      PROVE  OwnerInv'
  <2>1. \A v \in Worker : at'[r][v] \in Holds <=> at[r][v] \in Holds
    BY <1>3, WorkerMove
  <2>2. \A q \in Run : q # r => at'[q] = at[q]
    BY <1>3, WorkerMove
  <2>3. Owned(r)'
    BY <1>2, <1>3, <2>1 DEF Owned
  <2>4. pc'[r] = "work"
    BY <1>2, <1>3
  <2> QED  BY <1>3, <2>2, <2>3, <2>4, OwnerFrame
<1>4. ASSUME NEW m \in Chunks, NEW p \in {"off", "check"},
             at[r][w] \in Holds, WorkerAt(r, w, p),
             mf' = [mf EXCEPT ![r] = m], UNCHANGED <<pc, taken>>,
             m[c].status # "sending",
             \A d \in Chunk : d # c => m[d] = mf[r][d]
      PROVE  OwnerInv'
  <2>1. /\ p \in WorkerPc /\ p \notin Holds
        /\ at[r][w] # "off"
        /\ mf'[r] = m
        /\ \A q \in Run : q # r => mf'[q] = mf[q]
    BY <1>4 DEF WorkerPc, Holds, TypeOK
  <2>2. /\ at'[r][w] = p
        /\ \A v \in Worker : v # w => at'[r][v] = at[r][v]
        /\ \A q \in Run : q # r => at'[q] = at[q]
    BY <1>4, <2>1, WorkerMove
  <2>3. \A v \in Worker : at'[r][v] \in Holds =>
          at[r][v] \in Holds /\ v # w /\ taken[r][v] # c
    BY <1>2, <1>4, <2>1, <2>2 DEF Owned
  <2>4. \A v \in Worker : taken[r][v] \in Chunk
    BY DEF TypeOK
  <2>5. \A v \in Worker : at'[r][v] \in Holds => mf'[r][taken'[r][v]].status = "sending"
    BY <1>2, <1>4, <2>1, <2>3, <2>4 DEF Owned
  <2>6. \A u, v \in Worker : at'[r][u] \in Holds /\ at'[r][v] \in Holds
                              /\ taken'[r][u] = taken'[r][v] => u = v
    BY <1>2, <1>4, <2>1, <2>3 DEF Owned
  <2>7. ASSUME NEW d \in Chunk, mf'[r][d].status = "sending"
        PROVE  \E v \in Worker : at'[r][v] \in Holds /\ taken'[r][v] = d
    <3>1. d # c /\ mf[r][d].status = "sending"
      BY <1>4, <2>1, <2>7
    <3>2. PICK v \in Worker : at[r][v] \in Holds /\ taken[r][v] = d
      BY <1>2, <2>1, <3>1 DEF Owned
    <3>3. v # w
      BY <3>1, <3>2
    <3> QED  BY <1>4, <2>2, <3>2, <3>3
  <2>8. Owned(r)'
    BY <2>5, <2>6, <2>7 DEF Owned
  <2>9. pc'[r] = "work"
    BY <1>2, <1>4, <2>1
  <2> QED  BY <1>4, <2>1, <2>2, <2>8, <2>9, OwnerFrame
<1>5. CASE Check(r, w) \/ NothingLeft(r, w) \/ NoChannel(r, w)
  <2>1. PICK p \in {"off", "check", "pick"} : WorkerAt(r, w, p)
    BY <1>5 DEF Check, NothingLeft, NoChannel
  <2>2. /\ p \in WorkerPc /\ p \notin Holds
        /\ at[r][w] # "off" /\ at[r][w] \notin Holds
        /\ UNCHANGED <<pc, taken, mf>>
    BY <1>5 DEF Check, NothingLeft, NoChannel, WorkerPc, Holds
  <2> QED  BY <1>3, <2>1, <2>2
<1>6. CASE Publish(r, w)
  BY <1>3, <1>6 DEF Publish, Holds, WorkerPc
<1>7. CASE ReceiveAck(r, w)
  BY <1>3, <1>7 DEF ReceiveAck, Acked, Holds, WorkerPc
<1>8. ASSUME NEW d \in Chunk, NEW saved \in Saving, Pick(r, w, d, saved)
      PROVE  OwnerInv'
  <2> DEFINE m == Take(mf[r], d)
  <2>1. /\ mf[r][d].status # "sending"
        /\ at[r][w] = "pick" /\ pc' = pc /\ pc[r] = "work"
    BY <1>2, <1>8 DEF Pick, Pending, Retryable
  <2>2. m[d].status = "sending" /\ \A e \in Chunk : e # d => m[e] = mf[r][e]
    BY <1>1, SendingOp DEF Take
  <2>3. mf'[r] = m /\ \A q \in Run : q # r => mf'[q] = mf[q]
    BY <1>8 DEF Pick, TypeOK
  <2>4. /\ taken'[r][w] = d
        /\ \A v \in Worker : v # w => taken'[r][v] = taken[r][v]
        /\ \A q \in Run : q # r => taken'[q] = taken[q]
    BY <1>8 DEF Pick, TypeOK
  <2>5. "send" \in WorkerPc /\ "send" \in Holds /\ at[r][w] \notin Holds
    BY <2>1 DEF WorkerPc, Holds
  <2>6. /\ at'[r][w] = "send"
        /\ \A v \in Worker : v # w => at'[r][v] = at[r][v]
        /\ \A q \in Run : q # r => at'[q] = at[q]
    BY <1>8, <2>5, WorkerMove DEF Pick
  <2>7. \A v \in Worker : at[r][v] \in Holds => taken[r][v] # d /\ taken[r][v] \in Chunk
    BY <1>2, <2>1 DEF Owned, TypeOK
  <2>8. \A v \in Worker : at'[r][v] \in Holds => mf'[r][taken'[r][v]].status = "sending"
    BY <1>2, <2>1, <2>2, <2>3, <2>4, <2>6, <2>7 DEF Owned
  <2>9. \A u, v \in Worker : at'[r][u] \in Holds /\ at'[r][v] \in Holds
                              /\ taken'[r][u] = taken'[r][v] => u = v
    BY <1>2, <2>1, <2>4, <2>6, <2>7 DEF Owned
  <2>10. ASSUME NEW e \in Chunk, mf'[r][e].status = "sending"
         PROVE  \E v \in Worker : at'[r][v] \in Holds /\ taken'[r][v] = e
    <3>1. CASE e = d
      BY <2>4, <2>5, <2>6, <3>1
    <3>2. CASE e # d
      <4>1. mf[r][e].status = "sending"
        BY <2>2, <2>3, <2>10, <3>2
      <4>2. PICK v \in Worker : at[r][v] \in Holds /\ taken[r][v] = e
        BY <1>2, <2>1, <4>1 DEF Owned
      <4>3. v # w
        BY <2>5, <4>2
      <4> QED  BY <2>4, <2>6, <4>2, <4>3
    <3> QED  BY <3>1, <3>2
  <2>11. Owned(r)'
    BY <2>8, <2>9, <2>10 DEF Owned
  <2> QED  BY <2>1, <2>3, <2>4, <2>6, <2>11, OwnerFrame
<1>9. ASSUME NEW saved \in Saving, HashFails(r, w, saved)
      PROVE  OwnerInv'
  <2>1. at[r][w] \in Holds
    BY <1>9 DEF HashFails, Holds
  <2>2. /\ WorkerAt(r, w, "off")
        /\ mf' = [mf EXCEPT ![r] = MarkFailed(mf[r], c)]
        /\ UNCHANGED <<pc, taken>>
    BY <1>9 DEF HashFails
  <2>3. /\ MarkFailed(mf[r], c) \in Chunks
        /\ MarkFailed(mf[r], c)[c].status # "sending"
        /\ \A d \in Chunk : d # c => MarkFailed(mf[r], c)[d] = mf[r][d]
    BY <1>1, FailedOp
  <2> QED  BY <1>4, <2>1, <2>2, <2>3
<1>10. ASSUME NEW saved \in Saving, SendFails(r, w, saved)
       PROVE  OwnerInv'
  <2>1. at[r][w] \in Holds
    BY <1>10 DEF SendFails, Holds
  <2>2. PICK p \in {"off", "check"} : WorkerAt(r, w, p)
    BY <1>10 DEF SendFails
  <2>3. /\ mf' = [mf EXCEPT ![r] = FailChunk(mf[r], c)]
        /\ UNCHANGED <<pc, taken>>
    BY <1>10 DEF SendFails
  <2>4. /\ FailChunk(mf[r], c) \in Chunks
        /\ FailChunk(mf[r], c)[c].status # "sending"
        /\ \A d \in Chunk : d # c => FailChunk(mf[r], c)[d] = mf[r][d]
    BY <1>1, FailOp
  <2> QED  BY <1>4, <2>1, <2>2, <2>3, <2>4
<1>11. ASSUME NEW saved \in Saving, ReportDone(r, w, saved)
       PROVE  OwnerInv'
  <2>1. at[r][w] \in Holds
    BY <1>11 DEF ReportDone, Holds
  <2>2. /\ WorkerAt(r, w, "check")
        /\ mf' = [mf EXCEPT ![r] = MarkDone(mf[r], c)]
        /\ UNCHANGED <<pc, taken>>
    BY <1>11 DEF ReportDone
  <2>3. /\ MarkDone(mf[r], c) \in Chunks
        /\ MarkDone(mf[r], c)[c].status # "sending"
        /\ \A d \in Chunk : d # c => MarkDone(mf[r], c)[d] = mf[r][d]
    BY <1>1, DoneOp
  <2> QED  BY <1>4, <2>1, <2>2, <2>3
<1> QED  BY <1>5, <1>6, <1>7, <1>8, <1>9, <1>10, <1>11 DEF Work, TakeChunk

LEMMA OwnerStep == TypeOK /\ HeldInv /\ OwnerInv /\ [Next]_vars => OwnerInv'
<1> SUFFICES ASSUME TypeOK, HeldInv, OwnerInv, [Next]_vars PROVE OwnerInv'
  OBVIOUS
<1>1. ASSUME NEW r \in Run, NEW resume \in BOOLEAN, Call(r, resume)
      PROVE  OwnerInv'
  <2> DEFINE o == LoadOrCreate(resume, calls + 1)
  <2>1. /\ mf' = [mf EXCEPT ![r] = o.chunks]
        /\ pc' = [pc EXCEPT ![r] = "save"]
        /\ UNCHANGED <<at, taken>>
    BY <1>1 DEF Call
  <2>2. \A c \in Chunk : o.chunks[c].status # "sending"
    BY <1>1, Opened DEF Call
  <2>3. pc'[r] = "save" /\ \A q \in Run : q # r => pc'[q] = pc[q]
    BY <2>1 DEF TypeOK
  <2>4. mf'[r] = o.chunks /\ \A q \in Run : q # r => mf'[q] = mf[q]
    BY <2>1 DEF TypeOK
  <2>5. pc'[r] = "save" => \A c \in Chunk : mf'[r][c].status # "sending"
    BY <2>2, <2>4
  <2>6. \A q \in Run : q # r => at'[q] = at[q] /\ taken'[q] = taken[q]
    BY <2>1
  <2> QED  BY <2>3, <2>4, <2>5, <2>6, OwnerFrame
<1>2. ASSUME NEW r \in Run, StartWorkers(r)
      PROVE  OwnerInv'
  <2>1. /\ \A w \in Worker : at'[r][w] = "check"
        /\ \A q \in Run : q # r => at'[q] = at[q] /\ pc'[q] = pc[q]
        /\ pc'[r] = "work"
        /\ UNCHANGED <<mf, taken>>
    BY <1>2 DEF StartWorkers, TypeOK
  <2>2. \A c \in Chunk : mf[r][c].status # "sending"
    BY <1>2 DEF StartWorkers, OwnerInv
  <2>3. Owned(r)'
    BY <2>1, <2>2 DEF Owned, Holds
  <2> QED  BY <2>1, <2>3, OwnerFrame
<1>3. ASSUME NEW r \in Run, Go(r), ~StartWorkers(r)
      PROVE  OwnerInv'
  <2>1. PICK res \in {"ok", "failed", "canceled"} : Return(r, res)
    BY <1>3 DEF Go, StartFails, EndCanceled, EndHard, EndFlushFails, EndFlushed
  <2>2. /\ pc'[r] = "idle" /\ \A q \in Run : q # r => pc'[q] = pc[q]
        /\ UNCHANGED <<at, taken>>
    BY <2>1, ReturnMove
  <2>3. \A q \in Run : q # r => mf'[q] = mf[q]
    BY <1>3 DEF Go, StartFails, EndCanceled, EndHard, EndFlushFails, EndFlushed, TypeOK
  <2> QED  BY <2>2, <2>3, OwnerFrame
<1>4. ASSUME NEW r \in Run, Cancel(r) PROVE OwnerInv'
  BY <1>4 DEF OwnerInv, Owned, Cancel
<1>5. CASE Restart
  BY <1>5 DEF OwnerInv, Owned, Restart
<1>6. CASE UNCHANGED vars
  BY <1>6 DEF OwnerInv, Owned, vars, callVars
<1> QED  BY <1>1, <1>2, <1>3, <1>4, <1>5, <1>6, OwnerWork DEF Next

(* At any moment each chunk that is being sent is in the hands of exactly  *)
(* one worker of the call, whatever the number of workers and of calls.    *)
THEOREM SendingIsOwned == Spec => []SendingHasOneWorker
<1>1. Init => OwnerInv
  BY DEF Init, OwnerInv
<1>2. OwnerInv => SendingHasOneWorker
  BY DEF OwnerInv, Owned, Holds, SendingHasOneWorker, Holding
<1> QED  BY TypeInit, TypeStep, HeldInit, HeldStep, <1>1, OwnerStep, <1>2, PTL DEF Spec

-----------------------------------------------------------------------------
(* What a call that succeeded has achieved.                                *)

LEMMA SuccessStep ==
  TypeOK /\ HeldInv /\ SuccessIsComplete /\ [Next]_vars => SuccessIsComplete'
<1> SUFFICES ASSUME TypeOK, HeldInv, SuccessIsComplete, [Next]_vars
             PROVE  SuccessIsComplete'
  OBVIOUS
<1> USE DEF callVars
<1>1. \A r \in Run : tx[r] # 0 => tx[r] \in Tx
  <2>1. calls \in 0..MaxCalls /\ MaxCalls \in Nat
    BY ConstantsAssumption DEF TypeOK
  <2> QED  BY <2>1 DEF TypeOK, Tx
<1>2. ASSUME NEW r \in Run, NEW w \in Worker, Work(r, w)
      PROVE  SuccessIsComplete'
  <2>1. UNCHANGED <<tx, result>>
    BY <1>2 DEF Work, Check, NothingLeft, NoChannel, TakeChunk, Pick, HashFails,
                Publish, ReceiveAck, SendFails, ReportDone
  <2>2. held' = held \/ Publish(r, w)
    BY <1>2 DEF Work, Check, NothingLeft, NoChannel, TakeChunk, Pick, HashFails,
                ReceiveAck, SendFails, ReportDone
  <2>3. taken[r][w] \in Chunk
    BY DEF TypeOK
  <2>4. \A t \in Tx : held[t] \subseteq held'[t] /\ held'[t] \subseteq Chunk
    BY <2>2, <2>3 DEF Publish, TypeOK
  <2>5. ASSUME NEW q \in Run, result[q] = "ok"
        PROVE  tx[q] # 0 /\ held'[tx[q]] = Chunk
    <3>1. tx[q] # 0 /\ held[tx[q]] = Chunk
      BY <2>5 DEF SuccessIsComplete
    <3>2. tx[q] \in Tx
      BY <1>1, <3>1
    <3> QED  BY <2>4, <3>1, <3>2
  <2> QED  BY <2>1, <2>5 DEF SuccessIsComplete
<1>3. ASSUME NEW r \in Run, NEW res \in {"ok", "failed", "canceled"}, Return(r, res),
             res = "ok" => tx[r] # 0 /\ held[tx[r]] = Chunk
      PROVE  SuccessIsComplete'
  <2>1. /\ result'[r] = res /\ \A q \in Run : q # r => result'[q] = result[q]
        /\ held' = held /\ tx' = tx
    BY <1>3, ReturnMove
  <2> QED  BY <1>3, <2>1 DEF SuccessIsComplete
<1>4. ASSUME NEW r \in Run, EndFlushed(r)
      PROVE  SuccessIsComplete'
  <2>1. tx[r] # 0 /\ mf[r] \in Chunks
    BY <1>4 DEF EndFlushed, Joined, TypeOK
  <2>2. Complete(r) => DoneIn(mf[r]) = Chunk
    BY <2>1 DEF Complete, AllDone, DoneIn, Chunks
  <2>3. tx[r] \in Tx /\ held \in [Tx -> SUBSET Chunk]
    BY <1>1, <2>1 DEF TypeOK
  <2>6. DoneIn(mf[r]) \subseteq held[tx[r]]
    BY <2>1 DEF HeldInv, DoneIsHeld
  <2>7. Complete(r) => held[tx[r]] = Chunk
    BY <2>2, <2>3, <2>6
  <2>4. CASE Complete(r)
    <3>1. Return(r, "ok")
      BY <1>4, <2>4 DEF EndFlushed
    <3> QED  BY <1>3, <2>1, <2>4, <2>7, <3>1
  <2>5. CASE ~Complete(r)
    <3>1. Return(r, "failed")
      BY <1>4, <2>5 DEF EndFlushed
    <3> QED  BY <1>3, <3>1
  <2> QED  BY <2>4, <2>5
<1>5. ASSUME NEW r \in Run, Go(r), ~EndFlushed(r), ~StartWorkers(r)
      PROVE  SuccessIsComplete'
  <2>1. PICK res \in {"failed", "canceled"} : Return(r, res)
    BY <1>5 DEF Go, StartFails, EndCanceled, EndHard, EndFlushFails
  <2> QED  BY <1>3, <2>1
<1>6. ASSUME NEW r \in Run, StartWorkers(r) \/ Cancel(r)
      PROVE  SuccessIsComplete'
  BY <1>6 DEF StartWorkers, Cancel, SuccessIsComplete
<1>7. ASSUME NEW r \in Run, NEW resume \in BOOLEAN, Call(r, resume)
      PROVE  SuccessIsComplete'
  <2>1. /\ result'[r] = "none" /\ held' = held
        /\ \A q \in Run : q # r => result'[q] = result[q] /\ tx'[q] = tx[q]
    BY <1>7 DEF Call, TypeOK
  <2> QED  BY <2>1 DEF SuccessIsComplete
<1>8. CASE Restart
  BY <1>8 DEF Restart, SuccessIsComplete
<1>9. CASE UNCHANGED vars
  BY <1>9 DEF vars, SuccessIsComplete
<1> QED  BY <1>2, <1>4, <1>5, <1>6, <1>7, <1>8, <1>9 DEF Next

(* A call that returned without an error has delivered every chunk.        *)
THEOREM SuccessDelivers == Spec => []SuccessIsComplete
<1>1. Init => SuccessIsComplete
  BY DEF Init, SuccessIsComplete
<1> QED  BY TypeInit, TypeStep, HeldInit, HeldStep, <1>1, SuccessStep, PTL DEF Spec

-----------------------------------------------------------------------------
(* What a call that is alone has achieved is saved.                        *)

(* Until it saves, a call knows no other done chunks than the file; and    *)
(* while it goes on it has returned nothing.                               *)
SavedOf(r) ==
  /\ pc[r] = "save" /\ disk.tx = tx[r] => DoneIn(disk.chunks) = DoneIn(mf[r])
  /\ result[r] # "none" => pc[r] = "idle"

(* ReturnedIsSaved for one call.                                           *)
ReturnedOf(r) ==
  result[r] # "none" /\ disk.tx = tx[r] /\ ~lastErr[r] =>
    /\ DoneIn(disk.chunks) = DoneIn(mf[r])
    /\ result[r] = "canceled" => disk.chunks = mf[r]

Alone(r) == SavedOf(r) /\ ReturnedOf(r)

AloneInv == \A r \in Run : Run = {r} => Alone(r)

LEMMA AloneCall ==
  ASSUME TypeOK, NEW r \in Run, NEW resume \in BOOLEAN, Call(r, resume)
  PROVE  Alone(r)'
<1> DEFINE o == LoadOrCreate(resume, calls + 1)
<1>1. /\ mf'[r] = o.chunks /\ tx'[r] = o.tx /\ disk' = disk
      /\ result'[r] = "none"
  BY DEF Call, TypeOK
<1>2. disk.chunks \in Chunks /\ disk.tx \in 0..calls /\ calls \in Nat
  BY ConstantsAssumption DEF TypeOK
<1>3. Loaded \in Chunks /\ DoneIn(Loaded) = DoneIn(disk.chunks)
  BY <1>2, ManifestOps DEF Loaded
<1>4. DoneIn(o.chunks) = DoneIn(disk.chunks) \/ o.tx # disk.tx
  <2>1. CASE resume
    <3>1. o.chunks = ActivateResume(Loaded, MaxAttempts)
      BY <2>1 DEF LoadOrCreate, Stored
    <3> QED  BY <1>3, <3>1, ManifestOps
  <2>2. CASE ~resume /\ Continued
    <3>1. o.chunks = Loaded
      BY <2>2 DEF LoadOrCreate, Stored
    <3> QED  BY <1>3, <3>1
  <2>3. CASE ~resume /\ ~Continued
    <3>1. o.tx = calls + 1
      BY <2>3 DEF LoadOrCreate, Stored
    <3> QED  BY <1>2, <3>1
  <2> QED  BY <2>1, <2>2, <2>3
<1>5. disk'.tx = tx'[r] => DoneIn(disk'.chunks) = DoneIn(mf'[r])
  BY <1>1, <1>4
<1> HIDE DEF o
<1>6. DoneIn(disk.chunks)' = DoneIn(disk'.chunks) /\ DoneIn(mf[r])' = DoneIn(mf'[r])
  BY DEF DoneIn
<1> QED  BY <1>1, <1>5, <1>6 DEF Alone, SavedOf, ReturnedOf

(* A call that saves as it returns leaves what it has in the file, or it   *)
(* knows that it could not.                                                *)
LEMMA AloneSaved ==
  ASSUME TypeOK, NEW r \in Run, NEW m \in Chunks,
         NEW res \in {"ok", "failed", "canceled"},
         NEW saved \in {"written", "failed"},
         mf'[r] = m, Save(r, m, saved), Return(r, res)
  PROVE  Alone(r)'
<1>1. pc'[r] = "idle"
  BY ReturnMove
<1>2. CASE saved = "written"
  <2>1. disk'.chunks = mf'[r]
    BY <1>2 DEF Save, Stored
  <2> QED  BY <1>1, <2>1 DEF Alone, SavedOf, ReturnedOf
<1>3. CASE saved = "failed"
  <2>1. lastErr'[r] = TRUE
    BY <1>3 DEF Save, TypeOK
  <2> QED  BY <1>1, <2>1 DEF Alone, SavedOf, ReturnedOf
<1> QED  BY <1>2, <1>3

LEMMA AloneGo ==
  ASSUME TypeOK, NEW r \in Run, Alone(r), Go(r)
  PROVE  Alone(r)'
<1>1. mf[r] \in Chunks /\ mf[r] = mf[r]
  BY DEF TypeOK
<1>2. \A saved \in Saving : Forced(saved) => saved \in {"written", "failed"}
  BY DEF Saving, Forced
<1>3. CASE StartWorkers(r)
  <2>1. result'[r] = "none" /\ pc'[r] = "work"
    BY <1>3 DEF StartWorkers, Alone, SavedOf, TypeOK
  <2> QED  BY <2>1 DEF Alone, SavedOf, ReturnedOf
<1>4. CASE StartFails(r)
  <2>1. /\ pc[r] = "save" /\ Return(r, "failed")
        /\ UNCHANGED <<disk, mf, lastErr>>
    BY <1>4 DEF StartFails
  <2>2. pc'[r] = "idle" /\ result'[r] = "failed" /\ tx' = tx
    BY <2>1, ReturnMove
  <2> QED  BY <2>1, <2>2 DEF Alone, SavedOf, ReturnedOf, DoneIn
<1>5. ASSUME NEW saved \in Saving, EndCanceled(r, saved) PROVE Alone(r)'
  <2>1. /\ Save(r, MarkCanceledPending(mf[r]), saved) /\ Return(r, "canceled")
        /\ saved \in {"written", "failed"}
    BY <1>2, <1>5 DEF EndCanceled
  <2>2. /\ MarkCanceledPending(mf[r]) \in Chunks
        /\ mf'[r] = MarkCanceledPending(mf[r])
    BY <1>1, <1>5, ManifestOps DEF EndCanceled, TypeOK
  <2> QED  BY <2>1, <2>2, AloneSaved
<1>6. ASSUME NEW saved \in Saving, EndHard(r, saved) PROVE Alone(r)'
  <2>1. /\ Save(r, mf[r], saved) /\ Return(r, "failed") /\ mf'[r] = mf[r]
        /\ saved \in {"written", "failed"}
    BY <1>2, <1>6 DEF EndHard
  <2> QED  BY <1>1, <2>1, AloneSaved
<1>7. CASE EndFlushFails(r)
  <2>1. Save(r, mf[r], "failed") /\ Return(r, "failed") /\ mf'[r] = mf[r]
    BY <1>7 DEF EndFlushFails
  <2> QED  BY <1>1, <2>1, AloneSaved
<1>8. CASE EndFlushed(r)
  <2>1. /\ Save(r, mf[r], "written") /\ mf'[r] = mf[r]
        /\ \E res \in {"ok", "failed", "canceled"} : Return(r, res)
    BY <1>8 DEF EndFlushed
  <2> QED  BY <1>1, <2>1, AloneSaved
<1> QED  BY <1>3, <1>4, <1>5, <1>6, <1>7, <1>8 DEF Go

(* A worker works for a call that has not returned.                        *)
LEMMA AloneWork ==
  ASSUME TypeOK, HeldInv, NEW r \in Run, NEW w \in Worker, Alone(r), Work(r, w)
  PROVE  Alone(r)'
<1>1. at[r][w] # "off"
  BY DEF Work, Check, NothingLeft, NoChannel, TakeChunk, Pick, Publish,
         ReceiveAck, Acked, HashFails, SendFails, ReportDone
<1>2. pc[r] = "work"
  BY <1>1 DEF HeldInv
<1>3. pc' = pc /\ result' = result
  BY DEF Work, Check, NothingLeft, NoChannel, TakeChunk, Pick, Publish,
         ReceiveAck, HashFails, SendFails, ReportDone, callVars
<1>4. result[r] = "none"
  BY <1>2 DEF Alone, SavedOf
<1> QED  BY <1>2, <1>3, <1>4 DEF Alone, SavedOf, ReturnedOf

LEMMA AloneStep == TypeOK /\ HeldInv /\ AloneInv /\ [Next]_vars => AloneInv'
<1> SUFFICES ASSUME TypeOK, HeldInv, [Next]_vars, NEW r \in Run, Run = {r}, Alone(r)
             PROVE  Alone(r)'
  BY DEF AloneInv
<1>1. ASSUME NEW q \in Run, NEW resume \in BOOLEAN, Call(q, resume)
      PROVE  Alone(r)'
  <2>1. q = r
    OBVIOUS
  <2> QED  BY <1>1, <2>1, AloneCall
<1>2. ASSUME NEW q \in Run, Go(q) PROVE Alone(r)'
  <2>1. q = r
    OBVIOUS
  <2> QED  BY <1>2, <2>1, AloneGo
<1>3. ASSUME NEW q \in Run, NEW w \in Worker, Work(q, w) PROVE Alone(r)'
  <2>1. q = r
    OBVIOUS
  <2> QED  BY <1>3, <2>1, AloneWork
<1>4. ASSUME NEW q \in Run, Cancel(q) PROVE Alone(r)'
  BY <1>4 DEF Cancel, Alone, SavedOf, ReturnedOf, DoneIn
<1>5. CASE Restart
  <2>1. result'[r] = "none" /\ pc'[r] = "idle"
    BY <1>5 DEF Restart
  <2> QED  BY <2>1 DEF Alone, SavedOf, ReturnedOf
<1>6. CASE UNCHANGED vars
  BY <1>6 DEF vars, callVars, Alone, SavedOf, ReturnedOf, DoneIn
<1> QED  BY <1>1, <1>2, <1>3, <1>4, <1>5, <1>6 DEF Next

(* Where one call at a time works on the file, what a call has achieved is *)
(* in the manifest file when it has returned, unless it could not save.    *)
THEOREM ReturnIsSaved == Spec => []ReturnedIsSaved
<1>1. Init => AloneInv
  BY DEF Init, AloneInv, Alone, SavedOf, ReturnedOf
<1>2. AloneInv => ReturnedIsSaved
  BY DEF AloneInv, Alone, ReturnedOf, ReturnedIsSaved
<1> QED  BY TypeInit, TypeStep, HeldInit, HeldStep, <1>1, <1>2, AloneStep, PTL DEF Spec

-----------------------------------------------------------------------------
(* Why a call fails.                                                       *)

(* The chunks that are not tried any more.                                 *)
GivenUp(m) ==
  {c \in Chunk : m[c].status = "failed" /\ m[c].attempts >= MaxAttempts}

(* A call that failed, though nothing went wrong in it and nobody canceled *)
(* it, has a chunk that was given up.                                      *)
FailureIsInherited ==
  \A r \in Run : result[r] = "failed" /\ r \notin troubled => GivenUp(mf[r]) # {}

(* A call in which nothing goes wrong gives up no chunk itself.            *)
GivesUpNothing ==
  \A r \in Run :
    pc[r] # "idle" /\ r \notin troubled' => GivenUp(mf'[r]) \subseteq GivenUp(mf[r])

NoneCanceled(m) == \A c \in Chunk : m[c].status # "canceled"

(* A call in which nothing went wrong so far: it goes on until nothing is  *)
(* left to try.                                                            *)
Clean(r) ==
  IF pc[r] = "idle" THEN result[r] = "failed" => GivenUp(mf[r]) # {}
  ELSE /\ result[r] = "none" /\ ~canceled[r] /\ ~hard[r]
       /\ pc[r] = "work" /\ (\E w \in Worker : at[r][w] = "off") => Pending(r) = {}

CleanOf(r) ==
  /\ r \notin troubled => Clean(r)
  /\ pc[r] # "idle" => NoneCanceled(mf[r])

CleanInv == \A r \in Run : CleanOf(r)

(* A step of one call leaves the others as they are.                       *)
LEMMA CleanFrame ==
  ASSUME NEW r \in Run, CleanOf(r),
         /\ pc'[r] = pc[r] /\ result'[r] = result[r] /\ mf'[r] = mf[r] /\ at'[r] = at[r]
         /\ canceled'[r] = canceled[r] /\ hard'[r] = hard[r]
         /\ r \in troubled => r \in troubled'
  PROVE  CleanOf(r)'
BY DEF CleanOf, Clean, NoneCanceled, GivenUp, Pending

(* A manifest that is loaded or made has no canceled chunk.                *)
LEMMA CleanOpened ==
  ASSUME TypeOK, NEW resume \in BOOLEAN, Found(resume), calls < MaxCalls
  PROVE  NoneCanceled(LoadOrCreate(resume, calls + 1).chunks)
<1> DEFINE m == LoadOrCreate(resume, calls + 1).chunks
<1>1. disk.chunks \in Chunks
  BY DEF TypeOK
<1>2. Loaded \in Chunks
  BY <1>1, ManifestOps DEF Loaded
<1>3. CASE resume
  <2>1. m = ActivateResume(Loaded, MaxAttempts)
    BY <1>3 DEF LoadOrCreate, Stored
  <2>2. ASSUME NEW c \in Chunk
        PROVE  ActivateChunk(Loaded, c, MaxAttempts)[c].status \in {"done", "pending"}
    BY <1>2 DEF ActivateChunk, Chunks, ChunkState, Status
  <2>3. \A c \in Chunk : m[c] = ActivateChunk(Loaded, c, MaxAttempts)[c]
    BY <1>2, <2>1 DEF ActivateResume, Chunks
  <2> QED  BY <2>2, <2>3 DEF NoneCanceled
<1>4. CASE ~resume /\ Continued
  <2>1. m = Loaded /\ ~HasCanceledChunks(Loaded)
    BY <1>4 DEF LoadOrCreate, Stored, Continued
  <2> QED  BY <1>2, <2>1 DEF HasCanceledChunks, NoneCanceled, Chunks
<1>5. CASE ~resume /\ ~Continued
  <2>1. m = NewManifest(Chunk)
    BY <1>5 DEF LoadOrCreate, Stored
  <2> QED  BY <2>1 DEF NewManifest, NoneCanceled
<1> QED  BY <1>3, <1>4, <1>5

LEMMA CleanCall ==
  ASSUME TypeOK, NEW r \in Run, NEW resume \in BOOLEAN, Call(r, resume)
  PROVE  CleanOf(r)'
<1>1. /\ pc'[r] = "save" /\ result'[r] = "none" /\ ~canceled'[r] /\ ~hard'[r]
      /\ mf'[r] = LoadOrCreate(resume, calls + 1).chunks
  BY DEF Call, TypeOK
<1>2. NoneCanceled(mf'[r])
  BY <1>1, CleanOpened DEF Call
<1> QED  BY <1>1, <1>2 DEF CleanOf, Clean, NoneCanceled

(* What a worker does to the manifest and to itself.                       *)
LEMMA CleanWork ==
  ASSUME TypeOK, HeldInv, NEW r \in Run, NEW w \in Worker, CleanOf(r), Work(r, w)
  PROVE  CleanOf(r)'
<1> USE DEF callVars
<1> DEFINE c == taken[r][w]
<1>1. mf[r] \in Chunks /\ c \in Chunk
  BY DEF TypeOK
<1>2. UNCHANGED <<pc, result, canceled>>
  BY DEF Work, Check, NothingLeft, NoChannel, TakeChunk, Pick, Publish, ReceiveAck,
         HashFails, SendFails, ReportDone
<1>3. at[r][w] # "off" => pc[r] = "work" /\ NoneCanceled(mf[r])
  BY DEF HeldInv, CleanOf
<1>4. ASSUME NEW p \in WorkerPc, WorkerAt(r, w, p), at[r][w] # "off",
             UNCHANGED <<mf, hard, troubled>>,
             r \notin troubled /\ p = "off" => Pending(r) = {}
      PROVE  CleanOf(r)'
  <2>1. at'[r][w] = p /\ \A v \in Worker : v # w => at'[r][v] = at[r][v]
    BY <1>4, WorkerMove
  <2>2. Pending(r)' = Pending(r)
    BY <1>4 DEF Pending
  <2>3. r \notin troubled => Clean(r)'
    BY <1>2, <1>3, <1>4, <2>1, <2>2 DEF CleanOf, Clean
  <2> QED  BY <1>2, <1>3, <1>4, <2>3 DEF CleanOf, NoneCanceled
<1>5. CASE Check(r, w)
  <2>1. PICK p \in {"off", "pick"} : WorkerAt(r, w, p) /\ (p = "off" => Stopped(r))
    BY <1>5 DEF Check
  <2>2. r \notin troubled => ~Stopped(r)
    BY <1>3, <1>5 DEF Check, CleanOf, Clean, Stopped
  <2> QED  BY <1>4, <1>5, <2>1, <2>2 DEF Check, WorkerPc
<1>6. CASE NothingLeft(r, w)
  BY <1>4, <1>6 DEF NothingLeft, WorkerPc
<1>7. CASE NoChannel(r, w)
  BY <1>4, <1>7 DEF NoChannel, WorkerPc
<1>8. CASE Publish(r, w)
  BY <1>4, <1>8 DEF Publish, WorkerPc
<1>9. CASE ReceiveAck(r, w)
  BY <1>4, <1>9 DEF ReceiveAck, Acked, WorkerPc
<1>10. ASSUME NEW d \in Chunk, NEW saved \in Saving, Pick(r, w, d, saved)
       PROVE  CleanOf(r)'
  <2>1. /\ d \in Pending(r) /\ at[r][w] = "pick" /\ pc[r] = "work"
        /\ mf'[r] = Take(mf[r], d) /\ UNCHANGED <<hard, troubled>>
    BY <1>3, <1>10 DEF Pick, TypeOK
  <2>2. at'[r][w] = "send" /\ \A v \in Worker : v # w => at'[r][v] = at[r][v]
    BY <1>10, WorkerMove DEF Pick, WorkerPc
  <2>3. r \notin troubled => \A v \in Worker : at[r][v] # "off"
    BY <2>1 DEF CleanOf, Clean
  <2>4. r \notin troubled => \A v \in Worker : at'[r][v] # "off"
    BY <2>2, <2>3
  <2>5. NoneCanceled(mf'[r])
    BY <1>1, <1>3, <2>1, SendingOp DEF Take, NoneCanceled
  <2>6. r \notin troubled' => Clean(r)'
    BY <1>2, <2>1, <2>4 DEF CleanOf, Clean
  <2> QED  BY <2>5, <2>6 DEF CleanOf, NoneCanceled
<1>11. ASSUME NEW saved \in Saving, HashFails(r, w, saved) \/ SendFails(r, w, saved)
       PROVE  CleanOf(r)'
  <2>1. /\ r \in troubled' /\ at[r][w] # "off"
        /\ mf'[r] \in {MarkFailed(mf[r], c), FailChunk(mf[r], c)}
    BY <1>11 DEF HashFails, SendFails, TypeOK
  <2>2. NoneCanceled(mf'[r])
    <3>1. ASSUME NEW m \in {MarkFailed(mf[r], c), FailChunk(mf[r], c)}
          PROVE  /\ m[c].status \in {"failed", "pending"}
                 /\ \A d \in Chunk : d # c => m[d] = mf[r][d]
      <4>1. CASE m = MarkFailed(mf[r], c)
        BY <1>1, <4>1, FailedOp
      <4>2. CASE m = FailChunk(mf[r], c)
        BY <1>1, <4>2, FailOp
      <4> QED  BY <3>1, <4>1, <4>2
    <3>2. \A d \in Chunk : mf[r][d].status # "canceled"
      BY <1>3, <2>1 DEF NoneCanceled
    <3>3. ASSUME NEW m \in {MarkFailed(mf[r], c), FailChunk(mf[r], c)}, NEW d \in Chunk
          PROVE  m[d].status # "canceled"
      <4>1. CASE d = c
        BY <3>1, <4>1
      <4>2. CASE d # c
        BY <3>1, <3>2, <4>2
      <4> QED  BY <4>1, <4>2
    <3> QED  BY <2>1, <3>3 DEF NoneCanceled
  <2>3. r \in troubled'
    BY <2>1
  <2> QED  BY <2>2, <2>3 DEF CleanOf, NoneCanceled
<1>12. ASSUME NEW saved \in Saving, ReportDone(r, w, saved)
       PROVE  CleanOf(r)'
  <2>1. /\ at[r][w] = "acked" /\ pc[r] = "work"
        /\ mf'[r] = MarkDone(mf[r], c) /\ UNCHANGED <<hard, troubled>>
    BY <1>3, <1>12 DEF ReportDone, TypeOK
  <2>2. at'[r][w] = "check" /\ \A v \in Worker : v # w => at'[r][v] = at[r][v]
    BY <1>12, WorkerMove DEF ReportDone, WorkerPc
  <2>3. /\ mf'[r][c].status = "done"
        /\ \A d \in Chunk : d # c => mf'[r][d] = mf[r][d]
    BY <1>1, <2>1, DoneOp
  <2>4. NoneCanceled(mf'[r])
    BY <1>1, <1>3, <2>1, <2>3 DEF NoneCanceled
  <2>5. Pending(r)' \subseteq Pending(r)
    BY <2>3 DEF Pending, Retryable
  <2>6. r \notin troubled' => Clean(r)'
    BY <1>2, <2>1, <2>2, <2>5 DEF CleanOf, Clean
  <2> QED  BY <2>4, <2>6 DEF CleanOf, NoneCanceled
<1> QED  BY <1>5, <1>6, <1>7, <1>8, <1>9, <1>10, <1>11, <1>12 DEF Work, TakeChunk

(* With all workers gone and nothing to try, what is not done was given    *)
(* up.                                                                     *)
LEMMA Rest ==
  ASSUME TypeOK, OwnerInv, NEW r \in Run, CleanOf(r), r \notin troubled,
         Joined(r), ~AllDone(mf[r])
  PROVE  GivenUp(mf[r]) # {}
<1>1. mf[r] \in Chunks
  BY DEF TypeOK
<1>2. PICK c \in Chunk : mf[r][c].status # "done"
  BY <1>1 DEF AllDone, Chunks
<1>3. Pending(r) = {} /\ NoneCanceled(mf[r])
  BY ConstantsAssumption DEF CleanOf, Clean, Joined
<1>4. mf[r][c].status # "sending"
  BY DEF OwnerInv, Owned, Joined, Holds
<1>5. mf[r][c].status \in Status /\ mf[r][c].attempts \in Nat
  BY <1>1 DEF Chunks, ChunkState
<1>6. mf[r][c].status = "failed" /\ ~(mf[r][c].attempts < MaxAttempts)
  BY <1>2, <1>3, <1>4, <1>5 DEF Pending, NoneCanceled, Retryable, Status
<1> QED  BY <1>5, <1>6, ConstantsAssumption DEF GivenUp

LEMMA CleanGo ==
  ASSUME TypeOK, OwnerInv, NEW r \in Run, CleanOf(r), Go(r)
  PROVE  CleanOf(r)'
<1>1. CASE StartWorkers(r)
  <2>1. /\ pc'[r] = "work" /\ \A w \in Worker : at'[r][w] = "check"
        /\ UNCHANGED <<mf, result, canceled, hard, troubled>> /\ pc[r] = "save"
    BY <1>1 DEF StartWorkers, TypeOK
  <2> QED  BY <2>1 DEF CleanOf, Clean, NoneCanceled
<1>2. CASE StartFails(r) \/ EndFlushFails(r)
  <2>1. r \in troubled' /\ Return(r, "failed")
    BY <1>2 DEF StartFails, EndFlushFails
  <2> QED  BY <2>1, ReturnMove DEF CleanOf
<1>3. ASSUME NEW saved \in Saving, EndCanceled(r, saved) \/ EndHard(r, saved)
      PROVE  CleanOf(r)'
  <2>1. r \in troubled' /\ \E res \in {"failed", "canceled"} : Return(r, res)
    BY <1>3 DEF EndCanceled, EndHard, Joined, CleanOf, Clean
  <2> QED  BY <2>1, ReturnMove DEF CleanOf
<1>4. CASE EndFlushed(r)
  <2>1. Joined(r) /\ UNCHANGED <<mf, troubled>>
    BY <1>4 DEF EndFlushed
  <2>2. PICK res \in {"ok", "failed"} : Return(r, res) /\ (res = "failed" => ~AllDone(mf[r]))
    BY <1>4 DEF EndFlushed, Complete
  <2>3. pc'[r] = "idle" /\ result'[r] = res
    BY <2>2, ReturnMove
  <2>4. r \notin troubled /\ res = "failed" => GivenUp(mf[r]) # {}
    BY <2>1, <2>2, Rest
  <2> QED  BY <2>1, <2>3, <2>4 DEF CleanOf, Clean, GivenUp
<1> QED  BY <1>1, <1>2, <1>3, <1>4 DEF Go

LEMMA CleanStep ==
  TypeOK /\ HeldInv /\ OwnerInv /\ CleanInv /\ [Next]_vars => CleanInv'
<1> SUFFICES ASSUME TypeOK, HeldInv, OwnerInv, CleanInv, [Next]_vars, NEW r \in Run
             PROVE  CleanOf(r)'
  BY DEF CleanInv
<1>1. CleanOf(r)
  BY DEF CleanInv
<1>2. ASSUME NEW q \in Run, NEW resume \in BOOLEAN, Call(q, resume)
      PROVE  CleanOf(r)'
  <2>1. CASE q = r
    BY <1>2, <2>1, CleanCall
  <2>2. CASE q # r
    BY <1>1, <1>2, <2>2, CleanFrame DEF Call, TypeOK
  <2> QED  BY <2>1, <2>2
<1>3. ASSUME NEW q \in Run, Go(q) PROVE CleanOf(r)'
  <2>1. CASE q = r
    BY <1>1, <1>3, <2>1, CleanGo
  <2>2. CASE q # r
    <3>1. /\ mf'[r] = mf[r] /\ troubled \subseteq troubled'
          /\ UNCHANGED <<canceled, hard>>
      BY <1>3, <2>2 DEF Go, StartWorkers, StartFails, EndCanceled, EndHard, EndFlushFails,
                        EndFlushed, Return, TypeOK
    <3>2. pc'[r] = pc[r] /\ result'[r] = result[r] /\ at'[r] = at[r]
      BY <1>3, <2>2 DEF Go, StartWorkers, StartFails, EndCanceled, EndHard, EndFlushFails,
                        EndFlushed, Return, TypeOK
    <3> QED  BY <1>1, <3>1, <3>2, CleanFrame
  <2> QED  BY <2>1, <2>2
<1>4. ASSUME NEW q \in Run, NEW w \in Worker, Work(q, w) PROVE CleanOf(r)'
  <2>1. CASE q = r
    BY <1>1, <1>4, <2>1, CleanWork
  <2>2. CASE q # r
    <3>1. UNCHANGED <<pc, result, canceled>> /\ troubled \subseteq troubled'
      BY <1>4 DEF Work, Check, NothingLeft, NoChannel, TakeChunk, Pick, Publish, ReceiveAck,
                  HashFails, SendFails, ReportDone, callVars
    <3>2. mf'[r] = mf[r] /\ at'[r] = at[r] /\ hard'[r] = hard[r]
      BY <1>4, <2>2 DEF Work, Check, NothingLeft, NoChannel, TakeChunk, Pick, Publish,
                        ReceiveAck, HashFails, SendFails, ReportDone, WorkerAt, TypeOK
    <3> QED  BY <1>1, <3>1, <3>2, CleanFrame
  <2> QED  BY <2>1, <2>2
<1>5. ASSUME NEW q \in Run, Cancel(q) PROVE CleanOf(r)'
  <2>1. CASE q = r
    BY <1>1, <1>5, <2>1 DEF Cancel, CleanOf, NoneCanceled
  <2>2. CASE q # r
    BY <1>1, <1>5, <2>2, CleanFrame DEF Cancel, TypeOK
  <2> QED  BY <2>1, <2>2
<1>6. CASE Restart
  <2>1. result'[r] = "none" /\ pc'[r] = "idle"
    BY <1>6 DEF Restart
  <2> QED  BY <2>1 DEF CleanOf, Clean
<1>7. CASE UNCHANGED vars
  BY <1>1, <1>7, CleanFrame DEF vars, callVars
<1> QED  BY <1>2, <1>3, <1>4, <1>5, <1>6, <1>7 DEF Next

(* A call in which nothing goes wrong, with any number of workers and of   *)
(* calls at the same time, fails only for a chunk that an earlier call has *)
(* given up: CleanSendSucceeds fails for no other reason.                  *)
THEOREM FailuresAreInherited == Spec => []FailureIsInherited
<1>1. Init => CleanInv /\ OwnerInv
  BY DEF Init, CleanInv, CleanOf, Clean, OwnerInv
<1>2. CleanInv /\ TypeOK /\ HeldInv /\ OwnerInv => FailureIsInherited
  <2> SUFFICES ASSUME CleanInv, NEW r \in Run, result[r] = "failed", r \notin troubled
               PROVE  GivenUp(mf[r]) # {}
    BY DEF FailureIsInherited
  <2> QED  BY DEF CleanInv, CleanOf, Clean
<1> QED  BY TypeInit, TypeStep, HeldInit, HeldStep, OwnerStep, CleanStep, <1>1, <1>2, PTL
         DEF Spec

LEMMA SpareCleanCall ==
  ASSUME TypeOK, Next, NEW r \in Run, pc[r] # "idle", r \notin troubled'
  PROVE  GivenUp(mf'[r]) \subseteq GivenUp(mf[r])
<1>1. mf[r] \in Chunks
  BY DEF TypeOK
<1>2. ASSUME NEW c \in Chunk, mf'[r][c].status \in {"sending", "done"},
             \A d \in Chunk : d # c => mf'[r][d] = mf[r][d]
      PROVE  GivenUp(mf'[r]) \subseteq GivenUp(mf[r])
  BY <1>2 DEF GivenUp
<1>3. CASE mf'[r] = mf[r]
  BY <1>3
<1>4. ASSUME NEW q \in Run, NEW resume \in BOOLEAN, Call(q, resume)
      PROVE  mf'[r] = mf[r]
  BY <1>4 DEF Call, TypeOK
<1>5. ASSUME NEW q \in Run, Go(q) PROVE GivenUp(mf'[r]) \subseteq GivenUp(mf[r])
  <2>1. mf' = mf \/ mf' = [mf EXCEPT ![q] = MarkCanceledPending(mf[q])]
    BY <1>5 DEF Go, StartWorkers, StartFails, EndCanceled, EndHard, EndFlushFails, EndFlushed
  <2>2. GivenUp(MarkCanceledPending(mf[r])) \subseteq GivenUp(mf[r])
    BY <1>1 DEF GivenUp, MarkCanceledPending, Chunks, ChunkState, Status
  <2> QED  BY <2>1, <2>2 DEF TypeOK
<1>6. ASSUME NEW q \in Run, NEW w \in Worker, Work(q, w)
      PROVE  GivenUp(mf'[r]) \subseteq GivenUp(mf[r])
  <2>1. CASE Check(q, w) \/ NothingLeft(q, w) \/ NoChannel(q, w) \/ Publish(q, w)
             \/ ReceiveAck(q, w)
    BY <2>1 DEF Check, NothingLeft, NoChannel, Publish, ReceiveAck
  <2>2. ASSUME NEW c \in Chunk, NEW saved \in Saving, Pick(q, w, c, saved)
        PROVE  GivenUp(mf'[r]) \subseteq GivenUp(mf[r])
    <3>1. mf' = [mf EXCEPT ![q] = MarkSending(mf[q], c)]
      BY <2>2 DEF Pick, Take
    <3>2. /\ MarkSending(mf[r], c)[c].status = "sending"
          /\ \A d \in Chunk : d # c => MarkSending(mf[r], c)[d] = mf[r][d]
      BY <1>1, SendingOp
    <3>3. mf'[r] \in {mf[r], MarkSending(mf[r], c)}
      BY <3>1 DEF TypeOK
    <3> QED  BY <1>2, <3>2, <3>3
  <2>3. ASSUME NEW saved \in Saving, HashFails(q, w, saved) \/ SendFails(q, w, saved)
        PROVE  mf'[r] = mf[r]
    <3>1. q # r
      BY <2>3 DEF HashFails, SendFails
    <3> QED  BY <2>3, <3>1 DEF HashFails, SendFails, TypeOK
  <2>4. ASSUME NEW saved \in Saving, ReportDone(q, w, saved)
        PROVE  GivenUp(mf'[r]) \subseteq GivenUp(mf[r])
    <3>1. mf' = [mf EXCEPT ![q] = MarkDone(mf[q], taken[q][w])] /\ taken[q][w] \in Chunk
      BY <2>4 DEF ReportDone, TypeOK
    <3> DEFINE d == taken[q][w]
    <3>2. /\ MarkDone(mf[r], d)[d].status = "done"
          /\ \A e \in Chunk : e # d => MarkDone(mf[r], d)[e] = mf[r][e]
      BY <1>1, <3>1, DoneOp
    <3>3. mf'[r] \in {mf[r], MarkDone(mf[r], d)}
      BY <3>1 DEF TypeOK
    <3> QED  BY <1>2, <3>1, <3>2, <3>3
  <2> QED  BY <1>6, <2>1, <2>2, <2>3, <2>4 DEF Work, TakeChunk
<1>7. ASSUME NEW q \in Run, Cancel(q) PROVE mf'[r] = mf[r]
  BY <1>7 DEF Cancel
<1>8. CASE Restart
  BY <1>8 DEF Restart
<1> QED  BY <1>3, <1>4, <1>5, <1>6, <1>7, <1>8 DEF Next

(* It gives up none itself: that chunk was given up when the call began.   *)
THEOREM CleanCallsGiveUpNothing == Spec => [][GivesUpNothing]_vars
<1>1. TypeOK /\ [Next]_vars => [GivesUpNothing]_vars
  BY SpareCleanCall DEF GivesUpNothing
<1> QED  BY <1>1, TypeInit, TypeStep, PTL DEF Spec
=============================================================================
