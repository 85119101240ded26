------------------------------ MODULE Manifest ------------------------------
(***************************************************************************)
(* The chunk manifest shared by downloads, LAN senders and receivers       *)
(* (internal/manifest).  A manifest maps the index of a chunk to its       *)
(* status and the number of attempts that failed.  Sizes, offsets, hashes, *)
(* timestamps and error texts play no part in the control of the program   *)
(* and are left out; a chunk that is done has BytesDone equal to its size. *)
(*                                                                         *)
(* A definition named Bug... is a plausible mistake in the definition that *)
(* follows it: PROJECT.json says which property notices it.                *)
(***************************************************************************)
EXTENDS Naturals

Status == {"pending", "sending", "done", "failed", "canceled"}

ChunkState == [status : Status, attempts : Nat]

(* Every chunk of a plan that was just built.                              *)
NewManifest(Chunks) ==
  [c \in Chunks |-> [status |-> "pending", attempts |-> 0]]

MarkSending(mf, c) == [mf EXCEPT ![c].status = "sending"]

MarkDone(mf, c) == [mf EXCEPT ![c].status = "done"]

MarkFailed(mf, c) ==
  [mf EXCEPT ![c] = [status |-> "failed", attempts |-> mf[c].attempts + 1]]

Retryable(state, maxAttempts) ==
  state.status = "failed" /\ state.attempts < maxAttempts

(* Nobody sends any more, but a chunk that was being sent stays so.        *)
BugNormalizeForResume(mf, maxAttempts) ==
  [c \in DOMAIN mf |-> IF Retryable(mf[c], maxAttempts)
                       THEN [mf[c] EXCEPT !.status = "pending"] ELSE mf[c]]

(* What Load does to a manifest it read: nobody is sending any more, and   *)
(* a chunk with attempts left may be tried again.                          *)
NormalizeForResume(mf, maxAttempts) ==
  [c \in DOMAIN mf |->
     IF mf[c].status = "sending" \/ Retryable(mf[c], maxAttempts)
     THEN [mf[c] EXCEPT !.status = "pending"]
     ELSE mf[c]]

(* One iteration of ActivateResume: everything but a done chunk becomes    *)
(* pending, and a chunk that failed for good gets its attempts back.       *)
ActivateChunk(mf, c, maxAttempts) ==
  IF mf[c].status = "done" THEN mf
  ELSE [mf EXCEPT ![c] =
          [status   |-> "pending",
           attempts |-> IF /\ mf[c].status = "failed"
                           /\ mf[c].attempts >= maxAttempts
                        THEN 0 ELSE mf[c].attempts]]

(* ActivateResume as a whole, for a manifest nobody else looks at.         *)
ActivateResume(mf, maxAttempts) ==
  [c \in DOMAIN mf |-> ActivateChunk(mf, c, maxAttempts)[c]]

HasCanceledChunks(mf) == \E c \in DOMAIN mf : mf[c].status = "canceled"

MarkCanceledPending(mf) ==
  [c \in DOMAIN mf |->
     IF mf[c].status \in {"pending", "sending"}
     THEN [mf[c] EXCEPT !.status = "canceled"]
     ELSE mf[c]]

AllDone(mf) == \A c \in DOMAIN mf : mf[c].status = "done"
=============================================================================
