------------------------------ MODULE Receiver ------------------------------
(***************************************************************************)
(* One session of the LAN receiver (cmd/multisend-agent/receiver.go): the  *)
(* directory in which the chunks of one transfer arrive, the goroutine of  *)
(* every connection (handleConn), and the delayed merge of the chunks      *)
(* (finalizeReceiverSession) into the final file or, for a pulled folder,  *)
(* into a directory.                                                       *)
(*                                                                         *)
(* manifestMu is the variable lock: a publisher holds it from the removal  *)
(* of an old chunk file to the save of the manifest, a finalizer from the  *)
(* load of the manifest to the end.  What a finalizer does in between to   *)
(* files that only the holder of the lock touches (the temporary output)   *)
(* is one step; what a crash or the unlocked look at a chunk file in       *)
(* handleConn can see is a step of its own.                                *)
(*                                                                         *)
(* The senders are the environment: any chunk may come at any time, again, *)
(* late, damaged or with a new content, and any ack may get lost.  Headers *)
(* that are refused (structure, authentication, path) change nothing and   *)
(* are left out; every header has a hash, as our senders write it.         *)
(*                                                                         *)
(* Bound: MaxConns limits the connections accepted in a behaviour.  The 3  *)
(* seconds of the timer are not modelled: an armed timer may fire.         *)
(*                                                                         *)
(* A definition named Bug... is a plausible mistake in the definition that *)
(* follows it: PROJECT.json says which property notices it.                *)
(***************************************************************************)
EXTENDS Naturals

CONSTANTS
  Chunk,      \* the chunks of the transfer
  Version,    \* the contents a chunk is sent with: one, or more for a source
              \* that changes during the transfer
  Conn,       \* connections that may be open at the same time
  Finalizer,  \* goroutines of fired timers that may run at the same time
  MaxConns,   \* bound: connections accepted
  IOErrors,   \* file operations may fail
  NoFile,     \* stands for a file that does not exist
  Nobody      \* stands for the holder of a free lock

ASSUME ConstantsAssumption ==
  /\ Chunk # {}
  /\ MaxConns \in Nat
  /\ IOErrors \in BOOLEAN
  /\ Version # {}
  /\ NoFile \notin Version
  /\ Nobody \notin Conn \cup Finalizer
  /\ Conn \cap Finalizer = {}

(* A file under the final name: the chunks it was merged from, or a file   *)
(* that was there before the session.  Its size is right when it has the   *)
(* size of all chunks.                                                     *)
FinalFile == [has : SUBSET Chunk, old : BOOLEAN]

ASSUME NoFileAssumption == NoFile \notin FinalFile

VARIABLES
  extract,   \* the headers ask for a folder to be extracted
  globbed,   \* the file of a plain transfer has .chunk in its name, and its
             \* final name matches the glob of the chunk files
  session,   \* receiverSessionState of the session: known, status,
             \* MergeStatus and FinalOutputPath
  timer,     \* the timer of the session is armed
  lock,      \* holder of manifestMu
  listed,    \* manifest.json: the chunks listed as done; it is created with
             \* the first of them
  file,      \* the chunk files
  final,     \* the file under the final name, or NoFile
  dir,       \* the directory into which a folder is extracted
  conn,      \* the goroutines of connections
  fin,       \* the goroutines of fired timers
  accepted,  \* connections so far
  acked      \* history: the chunks of which a sender got the ack "done"

fileVars == <<listed, file, final, dir>>
vars ==
  <<extract, globbed, session, timer, lock, fileVars, conn, fin, accepted,
    acked>>

Session ==
  [known  : BOOLEAN,
   status : {"receiving", "done"},
   merge  : {"pending", "running", "failed", "done"},
   output : {"none", "final", "dir"}]

NewSession ==
  [known |-> TRUE, status |-> "receiving", merge |-> "pending",
   output |-> "none"]

ConnPc == {"idle", "check", "existing", "receive", "publish", "rename",
           "save", "ack", "ackExisting", "schedule"}
ConnState == [pc : ConnPc, chunk : Chunk, content : Version]

FinPc == {"off", "fired", "wait", "merge", "validate", "extract",
          "extracting", "cleanup"}

SizeRight(f) == f # NoFile /\ f.has = Chunk

ConnAt(k, pc) == conn' = [conn EXCEPT ![k].pc = pc]
FinAt(f, pc) == fin' = [fin EXCEPT ![f] = pc]

(* receiverChunkMatches: size and hash of the chunk file.                  *)
Matches(k) == file[conn[k].chunk] = conn[k].content

-----------------------------------------------------------------------------
Init ==
  /\ extract \in BOOLEAN
  /\ globbed \in BOOLEAN
  /\ globbed => ~extract
  /\ session = [NewSession EXCEPT !.known = FALSE]
  /\ timer = FALSE
  /\ lock = Nobody
  /\ listed = {}
  /\ file = [c \in Chunk |-> NoFile]
  /\ final \in {NoFile} \cup [has : {Chunk, {}}, old : {TRUE}]
  /\ dir = "none"
  /\ conn \in [Conn -> [pc : {"idle"}, chunk : {CHOOSE c \in Chunk : TRUE},
                        content : {CHOOSE v \in Version : TRUE}]]
  /\ fin = [f \in Finalizer |-> "off"]
  /\ accepted = 0
  /\ acked = {}

-----------------------------------------------------------------------------
(* A connection (handleConn).                                              *)

(* A valid header arrives; ensureReceiverSession.                          *)
Accept(k, c, v) ==
  /\ conn[k].pc = "idle"
  /\ accepted < MaxConns
  /\ accepted' = accepted + 1
  /\ conn' = [conn EXCEPT ![k] = [pc |-> "check", chunk |-> c, content |-> v]]
  /\ session' = IF session.known THEN session ELSE NewSession
  /\ UNCHANGED <<extract, globbed, timer, lock, fileVars, fin, acked>>

(* The chunk file is looked at without the lock.                           *)
CheckExisting(k) ==
  /\ conn[k].pc = "check"
  /\ ConnAt(k, IF Matches(k) THEN "existing" ELSE "receive")
  /\ UNCHANGED <<extract, globbed, session, timer, lock, fileVars, fin,
                 accepted, acked>>

(* The payload arrives in a temporary file and its hash is right.          *)
ReceivePayload(k) ==
  /\ conn[k].pc = "receive"
  /\ ConnAt(k, "publish")
  /\ UNCHANGED <<extract, globbed, session, timer, lock, fileVars, fin,
                 accepted, acked>>

(* The connection breaks, the temporary file cannot be written, or the     *)
(* hash is wrong, which is reported to the sender.                         *)
RejectPayload(k) ==
  /\ conn[k].pc = "receive"
  /\ ConnAt(k, "idle")
  /\ UNCHANGED <<extract, globbed, session, timer, lock, fileVars, fin,
                 accepted, acked>>

(* publishReceiverChunk: another connection may have published the chunk;  *)
(* a chunk file with another content is removed ...                        *)
PublishBegin(k) ==
  /\ conn[k].pc = "publish"
  /\ lock = Nobody
  /\ lock' = k
  /\ ConnAt(k, IF Matches(k) THEN "save" ELSE "rename")
  /\ file' = IF Matches(k) THEN file
             ELSE [file EXCEPT ![conn[k].chunk] = NoFile]
  /\ UNCHANGED <<extract, globbed, session, timer, listed, final, dir, fin,
                 accepted, acked>>

(* ... the temporary file gets its name ...                                *)
Rename(k) ==
  /\ conn[k].pc = "rename"
  /\ ConnAt(k, "save")
  /\ file' = [file EXCEPT ![conn[k].chunk] = conn[k].content]
  /\ UNCHANGED <<extract, globbed, session, timer, lock, listed, final, dir,
                 fin, accepted, acked>>

(* The two status fields are mixed up.                                     *)
BugReopened(s) == [s EXCEPT !.status = "pending", !.merge = "receiving"]

(* A merge that is going on or done does not know of this chunk.           *)
Reopened(s) == [s EXCEPT !.status = "receiving", !.merge = "pending"]

(* updateReceiverManifestFile: one more chunk is listed as done.           *)
ListChunk(c) ==
  /\ listed' = listed \cup {c}
  /\ session' = Reopened(session)

(* ... and the manifest is saved.                                          *)
SaveManifest(k) ==
  /\ conn[k].pc = "save"
  /\ ListChunk(conn[k].chunk)
  /\ lock' = Nobody
  /\ ConnAt(k, "ack")
  /\ UNCHANGED <<extract, globbed, timer, file, final, dir, fin, accepted,
                 acked>>

(* updateReceiverManifest for the chunk file that was found in place.      *)
SaveExisting(k) ==
  /\ conn[k].pc = "existing"
  /\ lock = Nobody
  /\ ListChunk(conn[k].chunk)
  /\ ConnAt(k, "ackExisting")
  /\ UNCHANGED <<extract, globbed, timer, lock, file, final, dir, fin,
                 accepted, acked>>

(* Removal, renaming or saving fails: the connection is closed, no ack.    *)
PublishFails(k) ==
  /\ IOErrors
  /\ \/ conn[k].pc \in {"rename", "save"}
     \/ conn[k].pc \in {"publish", "existing"} /\ lock = Nobody
  /\ ConnAt(k, "idle")
  /\ lock' = Nobody
  /\ UNCHANGED <<extract, globbed, session, timer, fileVars, fin, accepted,
                 acked>>

(* The ack is written, and the sender gets it or does not.                 *)
Ack(k, delivered) ==
  /\ conn[k].pc \in {"ack", "ackExisting"}
  /\ ConnAt(k, "schedule")
  /\ acked' = IF delivered THEN acked \cup {conn[k].chunk} ELSE acked
  /\ UNCHANGED <<extract, globbed, session, timer, lock, fileVars, fin,
                 accepted>>

(* The ack cannot be written.  For a chunk that was just published, this   *)
(* is the end of the connection.                                           *)
AckFails(k) ==
  /\ conn[k].pc \in {"ack", "ackExisting"}
  /\ ConnAt(k, IF conn[k].pc = "ack" THEN "idle" ELSE "schedule")
  /\ UNCHANGED <<extract, globbed, session, timer, lock, fileVars, fin,
                 accepted, acked>>

MergeSettled == session.merge \in {"running", "done"}

(* maybeScheduleReceiverFinalize: the timer is started, or restarted.      *)
Schedule(k) ==
  /\ conn[k].pc = "schedule"
  /\ ConnAt(k, "idle")
  /\ IF MergeSettled
     THEN UNCHANGED <<session, timer>>
     ELSE timer' = TRUE /\ session' = [session EXCEPT !.merge = "pending"]
  /\ UNCHANGED <<extract, globbed, lock, fileVars, fin, accepted, acked>>

-----------------------------------------------------------------------------
(* The merge (finalizeReceiverSession).                                    *)

Fire(f) ==
  /\ timer
  /\ fin[f] = "off"
  /\ timer' = FALSE
  /\ FinAt(f, "fired")
  /\ UNCHANGED <<extract, globbed, session, lock, fileVars, conn, accepted,
                 acked>>

(* Only one merge at a time, as far as the session knows.                  *)
Begin(f) ==
  /\ fin[f] = "fired"
  /\ IF MergeSettled
     THEN FinAt(f, "off") /\ UNCHANGED session
     ELSE FinAt(f, "wait") /\ session' = [session EXCEPT !.merge = "running"]
  /\ UNCHANGED <<extract, globbed, timer, lock, fileVars, conn, accepted,
                 acked>>

(* The session is left running when a merge fails.                         *)
BugFailed(s) == s

(* failReceiverFinalize                                                    *)
Failed(s) == [s EXCEPT !.merge = "failed"]

(* markReceiverDone                                                        *)
Done(s, output) ==
  [s EXCEPT !.merge = "done", !.status = "done", !.output = output]

(* The end of a finalizer, with the lock released.                         *)
End(f, s) ==
  /\ FinAt(f, "off")
  /\ lock' = Nobody
  /\ session' = s
  /\ UNCHANGED <<extract, globbed, timer, conn, accepted, acked>>

(* Any file under the final name will do.                                  *)
BugFinalized == final # NoFile

(* A file of the right size is taken for the result of an earlier merge.   *)
Finalized == SizeRight(final)

AlreadyFinalized(f) ==
  /\ fin[f] = "wait"
  /\ lock = Nobody
  /\ listed # {}
  /\ Finalized
  /\ End(f, Done(session, "final"))
  /\ UNCHANGED fileVars

(* A file of another size is removed.  The manifest lists chunks that are  *)
(* done and no others, so that it always passes for complete.              *)
Load(f) ==
  /\ fin[f] = "wait"
  /\ lock = Nobody
  /\ listed # {}
  /\ ~Finalized
  /\ lock' = f
  /\ final' = NoFile
  /\ FinAt(f, "merge")
  /\ UNCHANGED <<extract, globbed, session, timer, listed, file, dir, conn,
                 accepted, acked>>

(* mergeReceiverChunks into a temporary file, which gets the final name    *)
(* before its size is compared.                                            *)
Merge(f) ==
  /\ fin[f] = "merge"
  /\ \A c \in listed : file[c] # NoFile
  /\ final' = [has |-> listed, old |-> FALSE]
  /\ FinAt(f, "validate")
  /\ UNCHANGED <<extract, globbed, session, timer, lock, listed, file, dir,
                 conn, accepted, acked>>

(* The merged file is not measured.                                        *)
BugWhole(f) == f # NoFile

(* validateReceiverFinalSize                                               *)
Whole(f) == SizeRight(f)

Validate(f) ==
  /\ fin[f] = "validate"
  /\ Whole(final)
  /\ FinAt(f, IF extract THEN "extract" ELSE "cleanup")
  /\ UNCHANGED <<extract, globbed, session, timer, lock, fileVars, conn,
                 accepted, acked>>

(* extractZipSafe does not touch a directory that exists.                  *)
Extract(f) ==
  /\ fin[f] = "extract"
  /\ dir = "none"
  /\ dir' = "partial"
  /\ FinAt(f, "extracting")
  /\ UNCHANGED <<extract, globbed, session, timer, lock, listed, file, final,
                 conn, accepted, acked>>

(* The ZIP is removed; that it may fail is ignored.                        *)
Extracted(f, removed) ==
  /\ fin[f] = "extracting"
  /\ removed \/ IOErrors
  /\ dir' = "whole"
  /\ final' = IF removed THEN NoFile ELSE final
  /\ FinAt(f, "cleanup")
  /\ UNCHANGED <<extract, globbed, session, timer, lock, listed, file, conn,
                 accepted, acked>>

(* cleanupReceiverChunks removes what matches *.chunk* in the directory of *)
(* the session, in the order of the names.  The final file of a plain      *)
(* transfer is there as well: if its name matches, main.chunk.js goes      *)
(* before main.chunk.js.chunk000001.                                       *)
CleanupFinal(f) ==
  /\ fin[f] = "cleanup"
  /\ globbed
  /\ final # NoFile
  /\ final' = NoFile
  /\ UNCHANGED <<extract, globbed, session, timer, lock, listed, file, dir,
                 conn, fin, accepted, acked>>

(* Nothing that comes before the chunk files is left to be removed.        *)
FinalSwept == globbed => final = NoFile

(* A chunk file is removed ...                                             *)
Cleanup(f, c) ==
  /\ fin[f] = "cleanup"
  /\ FinalSwept
  /\ file[c] # NoFile
  /\ file' = [file EXCEPT ![c] = NoFile]
  /\ UNCHANGED <<extract, globbed, session, timer, lock, listed, final, dir,
                 conn, fin, accepted, acked>>

(* ... and the session is done with the path of the output, which is not   *)
(* looked at again.                                                        *)
Finish(f) ==
  /\ fin[f] = "cleanup"
  /\ FinalSwept
  /\ \A c \in Chunk : file[c] = NoFile
  /\ End(f, Done(session, IF extract THEN "dir" ELSE "final"))
  /\ UNCHANGED fileVars

(* What may go wrong without any I/O error: no manifest, a listed chunk    *)
(* without a file, a merge that came too early, a directory in the way.    *)
Obstacle(f) ==
  \/ fin[f] = "wait" /\ lock = Nobody /\ listed = {}
  \/ fin[f] = "merge" /\ \E c \in listed : file[c] = NoFile
  \/ fin[f] = "validate" /\ ~Whole(final)
  \/ fin[f] = "extract" /\ dir # "none"

IOError(f) ==
  /\ IOErrors
  /\ \/ fin[f] = "wait" /\ lock = Nobody
     \/ fin[f] \in {"merge", "validate", "extract", "extracting", "cleanup"}

Fail(f) ==
  /\ Obstacle(f) \/ IOError(f)
  /\ End(f, Failed(session))
  /\ UNCHANGED fileVars

-----------------------------------------------------------------------------
(* The agent stops and starts: the session, its timer and all goroutines   *)
(* are gone; nothing looks for sessions on disk.                           *)
Restart ==
  /\ session' = [NewSession EXCEPT !.known = FALSE]
  /\ timer' = FALSE
  /\ lock' = Nobody
  /\ conn' = [k \in Conn |-> [conn[k] EXCEPT !.pc = "idle"]]
  /\ fin' = [f \in Finalizer |-> "off"]
  /\ UNCHANGED <<extract, globbed, fileVars, accepted, acked>>

-----------------------------------------------------------------------------
(* What a connection does once its header was read.                        *)
Handle(k) ==
  \/ CheckExisting(k) \/ ReceivePayload(k) \/ RejectPayload(k)
  \/ PublishBegin(k) \/ Rename(k) \/ SaveManifest(k) \/ SaveExisting(k)
  \/ PublishFails(k)
  \/ \E delivered \in BOOLEAN : Ack(k, delivered)
  \/ AckFails(k) \/ Schedule(k)

Finalize(f) ==
  \/ Begin(f) \/ AlreadyFinalized(f) \/ Load(f) \/ Merge(f) \/ Validate(f)
  \/ Extract(f) \/ \E removed \in BOOLEAN : Extracted(f, removed)
  \/ CleanupFinal(f) \/ \E c \in Chunk : Cleanup(f, c)
  \/ Finish(f) \/ Fail(f)

Next ==
  \/ \E k \in Conn, c \in Chunk, v \in Version : Accept(k, c, v)
  \/ \E k \in Conn : Handle(k)
  \/ \E f \in Finalizer : Fire(f) \/ Finalize(f)
  \/ Restart

Spec == Init /\ [][Next]_vars

(* A connection that was accepted goes on (a peer that sends nothing more  *)
(* ends it with an error), an armed timer fires and goroutines are         *)
(* scheduled.  Nothing is assumed of the senders.                          *)
Fairness ==
  /\ \A k \in Conn : WF_vars(Handle(k))
  /\ WF_vars(\E f \in Finalizer : Fire(f))
  /\ \A f \in Finalizer : WF_vars(Finalize(f))

FairSpec == Spec /\ Fairness

-----------------------------------------------------------------------------
(* The shape of every variable.                                            *)
TypeOK ==
  /\ extract \in BOOLEAN
  /\ globbed \in BOOLEAN
  /\ session \in Session
  /\ timer \in BOOLEAN
  /\ lock \in {Nobody} \cup Conn \cup Finalizer
  /\ listed \subseteq Chunk
  /\ file \in [Chunk -> Version \cup {NoFile}]
  /\ final \in FinalFile \cup {NoFile}
  /\ dir \in {"none", "partial", "whole"}
  /\ conn \in [Conn -> ConnState]
  /\ fin \in [Finalizer -> FinPc]
  /\ accepted \in 0..MaxConns
  /\ acked \subseteq Chunk

(* The output of the transfer exists, as a merged file or as a directory.  *)
Delivered == (SizeRight(final) /\ ~final.old) \/ dir = "whole"

(* The source has the same content whenever a chunk is read from it.       *)
SourceUnchanged == \A v, w \in Version : v = w

(* A chunk is kept while its file is there, and in the output.             *)
KeptChunks == {c \in Chunk : file[c] # NoFile \/ Delivered}

Promised ==
  INSTANCE Store
    WITH kept <- KeptChunks, told <- acked, output <- Delivered

(* The session does what Store promises, for a source that does not change *)
(* and unless the clean-up takes the final file for a chunk: no chunk that *)
(* was published is lost, acked or not, an ack comes after that, and the   *)
(* output, which comes when every chunk was published, never goes away     *)
(* (publishReceiverChunk, finalizeReceiverSession).                        *)
StoreSpec ==
  /\ ~globbed => Promised!Init
  /\ [][~globbed => [Promised!Next]_Promised!vars]_vars

(* A chunk whose sender was told "done" is never lost, although merges     *)
(* start too early, run twice, remove stale outputs and clean up, and the  *)
(* agent may stop at any point: its file is there until the output is      *)
(* (handleConn, finalizeReceiverSession).  A final file with .chunk in its *)
(* name is the exception: cleanupReceiverChunks removes it and the chunks. *)
AckedIsKept ==
  SourceUnchanged /\ ~globbed =>
    \A c \in acked : file[c] # NoFile \/ Delivered

(* What a session reports as done is there, at its full size: the file,    *)
(* or the directory; late chunks, further merges and extractions do not    *)
(* take it away (markReceiverDone).  The file may be older than the        *)
(* session: see AlreadyFinalized.  With .chunk in its name the file is     *)
(* gone when the session is done: see CleanupFinal.                        *)
DoneHasOutput ==
  session.status = "done" /\ ~globbed =>
    \/ session.output = "final" /\ SizeRight(final)
    \/ session.output = "dir" /\ dir = "whole"

(* Once a connection is about to schedule the merge of a complete transfer *)
(* the merge is tried, whatever timers, merges and other connections do    *)
(* meanwhile; only a restart forgets it (maybeScheduleReceiverFinalize).   *)
CompleteIsMerged ==
  (\E k \in Conn : conn[k].pc = "schedule") /\ listed = Chunk
    ~> session.merge \in {"done", "failed"} \/ ~session.known

(* Merging again changes nothing (TestFinalizeReceiverSessionIdempotent):  *)
(* with its output in place, no session turns from done to failed.         *)
FinalizeIdempotent ==
  Delivered /\ session.output # "none" => session.merge # "failed"
=============================================================================
