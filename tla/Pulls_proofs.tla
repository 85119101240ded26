---------------------------- MODULE Pulls_proofs ----------------------------
(***************************************************************************)
(* Proofs about the pulls of an agent (Pulls), for any number of pulls,    *)
(* requests and restarts, and any limit of the history.                    *)
(***************************************************************************)
EXTENDS Pulls, TLAPS

ReqPc == {"idle", "create", "cancel", "resume", "get", "apply"}
Shown == Status \cup {NoStatus}

LEMMA Statuses ==
  /\ NoStatus \notin Status
  /\ Status \subseteq Peer!Lives
  /\ "running" \in Status /\ "canceling" \in Status
  /\ "canceled" \in Status /\ "done" \in Status
  /\ Active = {"running", "canceling"}
BY DEF NoStatus, Status, Active, Ended, Peer!Active, Peer!Ended, Peer!Lives

LEMMA Pulls ==
  ASSUME NEW p \in Pull
  PROVE  p \in Nat /\ p >= 1 /\ p # NoPull
BY ConstantsAssumption DEF Pull, NoPull

(* The types, with names for the sets.                                     *)
Types ==
  /\ life \in [Pull -> Peer!Lives]
  /\ asked \in 0..MaxPulls
  /\ status \in [Pull -> Shown]
  /\ sidecar \in [Pull -> Shown]
  /\ listed \subseteq {p \in Pull : status[p] # NoStatus}
  /\ at \in [Req -> ReqPc]
  /\ of \in [Req -> Pull \cup {NoPull}]
  /\ answer \in [Req -> Shown]
  /\ restarts \in 0..MaxRestarts
  /\ forgotten \subseteq Pull
  /\ finished \subseteq Pull

(* What a request knows goes with what it is doing.                        *)
Request(r) ==
  /\ at[r] = "idle" <=> of[r] = NoPull
  /\ at[r] = "apply" <=> answer[r] # NoStatus

Requests == \A r \in Req : Request(r)

LEMMA TypeParts == TypeOK <=> Types /\ Requests
BY DEF TypeOK, Types, Requests, Request, Shown, ReqPc

-----------------------------------------------------------------------------
(* The parts that actions are made of.                                     *)

LEMMA RecordMove ==
  ASSUME Types, NEW p \in Pull, NEW s \in Status, NEW saved \in BOOLEAN,
         NEW known, known \subseteq listed \cup {p}, Record(p, s, known, saved)
  PROVE  /\ status' \in [Pull -> Shown] /\ sidecar' \in [Pull -> Shown]
         /\ listed' \subseteq known
         /\ listed' \subseteq {q \in Pull : status'[q] # NoStatus}
         /\ status'[p] = s
         /\ sidecar'[p] \in {s, sidecar[p]}
         /\ \A q \in Pull \ {p} : status'[q] = status[q] /\ sidecar'[q] = sidecar[q]
<1>1. s \in Shown /\ s # NoStatus
  BY Statuses DEF Shown
<1>2. /\ status' \in [Pull -> Shown] /\ status'[p] = s
      /\ \A q \in Pull \ {p} : status'[q] = status[q]
  BY <1>1 DEF Record, Types
<1>3. /\ sidecar' \in [Pull -> Shown] /\ sidecar'[p] \in {s, sidecar[p]}
      /\ \A q \in Pull \ {p} : sidecar'[q] = sidecar[q]
  BY <1>1 DEF Record, Types
<1>4. listed' \subseteq known
  BY DEF Record, Pruned
<1>5. known \subseteq {q \in Pull : status'[q] # NoStatus}
  BY <1>1, <1>2 DEF Types
<1> QED  BY <1>2, <1>3, <1>4, <1>5

LEMMA BeginMove ==
  ASSUME Types, NEW r \in Req, NEW p \in Pull, NEW what \in ReqPc \ {"idle", "apply"},
         Begin(r, p, what)
  PROVE  /\ at[r] = "idle"
         /\ at' \in [Req -> ReqPc] /\ at'[r] = what
         /\ of' \in [Req -> Pull \cup {NoPull}] /\ of'[r] = p
         /\ answer' = answer
         /\ \A q \in Req \ {r} : at'[q] = at[q] /\ of'[q] = of[q]
BY DEF Begin, Goes, Types

LEMMA GoesMove ==
  ASSUME Types, NEW r \in Req, NEW what \in ReqPc, Goes(r, what)
  PROVE  /\ at' \in [Req -> ReqPc] /\ at'[r] = what
         /\ \A q \in Req \ {r} : at'[q] = at[q]
BY DEF Goes, Types

LEMMA OverMove ==
  ASSUME Types, NEW r \in Req, Over(r)
  PROVE  /\ at' \in [Req -> ReqPc] /\ at'[r] = "idle"
         /\ of' \in [Req -> Pull \cup {NoPull}] /\ of'[r] = NoPull
         /\ answer' \in [Req -> Shown] /\ answer'[r] = NoStatus
         /\ \A q \in Req \ {r} : at'[q] = at[q] /\ of'[q] = of[q] /\ answer'[q] = answer[q]
<1>1. "idle" \in ReqPc /\ NoStatus \in Shown
  BY DEF ReqPc, Shown
<1>2. at' \in [Req -> ReqPc] /\ at'[r] = "idle" /\ \A q \in Req \ {r} : at'[q] = at[q]
  BY <1>1 DEF Over, Types
<1>3. /\ of' \in [Req -> Pull \cup {NoPull}] /\ of'[r] = NoPull
      /\ \A q \in Req \ {r} : of'[q] = of[q]
  BY DEF Over, Types
<1>4. /\ answer' \in [Req -> Shown] /\ answer'[r] = NoStatus
      /\ \A q \in Req \ {r} : answer'[q] = answer[q]
  BY <1>1 DEF Over, Types
<1> QED  BY <1>2, <1>3, <1>4

(* The jobs of the peer keep their shape, and only Finish and Restart make *)
(* one done.                                                               *)
LEMMA PeerMove ==
  ASSUME life \in [Pull -> Peer!Lives], NEW p \in Pull,
         Peer!Create(p) \/ Peer!Cancel(p) \/ Peer!Resume(p) \/ Peer!Forget(p)
  PROVE  /\ life' \in [Pull -> Peer!Lives]
         /\ life'[p] # "done"
         /\ \A q \in Pull \ {p} : life'[q] = life[q]
<1>1. PICK s \in {"running", "canceling", "gone"} : Peer!Becomes(p, s)
  BY DEF Peer!Create, Peer!Cancel, Peer!Resume, Peer!Forget
<1>2. s \in Peer!Lives /\ s # "done"
  BY DEF Peer!Lives, Peer!Active
<1> QED  BY <1>1, <1>2 DEF Peer!Becomes

LEMMA ObeysMove ==
  ASSUME life \in [Pull -> Peer!Lives], NEW p \in Pull, NEW what, Obeys(p, what)
  PROVE  /\ life' \in [Pull -> Peer!Lives]
         /\ life'[p] = "done" => life[p] = "done"
         /\ \A q \in Pull \ {p} : life'[q] = life[q]
BY PeerMove DEF Obeys

LEMMA RestoredMove ==
  ASSUME NEW s \in Status
  PROVE  /\ Restored(s) \in Status
         /\ Restored(s) = "done" => s = "done"
         /\ s \in Ended => Restored(s) = s
BY Statuses DEF Restored, Status, Ended, Active, Peer!Active, Peer!Ended

-----------------------------------------------------------------------------
(* The invariant.  A pull and whoever holds it have the number of a call   *)
(* that was made, and a job that is done is in the history of those.       *)
Numbered ==
  /\ \A r \in Req : of[r] \in 0..asked
  /\ listed \subseteq 1..asked
  /\ Written \subseteq 1..asked
  /\ forgotten \subseteq 1..asked

JobsDone == \A p \in Pull : life[p] = "done" => p \in finished

PullInv == Types /\ Requests /\ Numbered /\ DoneWasDone /\ JobsDone

LEMMA PullInit == Init => PullInv
<1> SUFFICES ASSUME Init PROVE PullInv
  OBVIOUS
<1>1. TypeOK
  BY ConstantsAssumption, Statuses
  DEF Init, TypeOK, Peer!Init, Peer!Lives, NoStatus, NoPull
<1>2. Numbered
  BY DEF Init, Numbered, Written, NoPull
<1>3. DoneWasDone /\ JobsDone
  BY DEF Init, DoneWasDone, JobsDone, Peer!Init, NoStatus
<1> QED  BY <1>1, <1>2, <1>3, TypeParts DEF PullInv

LEMMA Parts ==
  ASSUME PullInv
  PROVE  /\ Types /\ Numbered /\ DoneWasDone /\ JobsDone
         /\ \A r \in Req : Request(r)
         /\ asked \in Nat
<1>1. Types /\ Requests
  BY DEF PullInv
<1> QED  BY <1>1, ConstantsAssumption DEF PullInv, Types, Requests

(* A request starts: createPull, refreshPull, pullRemoteAction.            *)
LEMMA InvStarts ==
  ASSUME PullInv, NEW r \in Req, NEW p \in Pull, NEW what \in ReqPc \ {"idle", "apply"},
         Begin(r, p, what), asked' \in asked..MaxPulls, p <= asked',
         UNCHANGED <<life, pull, history, finished>>
  PROVE  PullInv'
<1>1. /\ at[r] = "idle" /\ at' \in [Req -> ReqPc] /\ at'[r] = what
      /\ of' \in [Req -> Pull \cup {NoPull}] /\ of'[r] = p
      /\ answer' = answer
      /\ \A q \in Req \ {r} : at'[q] = at[q] /\ of'[q] = of[q]
  BY BeginMove, Parts
<1>2. p \in 1..asked' /\ 0..asked \subseteq 0..asked' /\ 1..asked \subseteq 1..asked'
  BY Pulls, Parts
<1>3. Types'
  BY <1>1, Parts, ConstantsAssumption DEF Types, pull, history
<1>4. \A q \in Req : Request(q)'
  BY <1>1, Parts, Pulls DEF Request
<1>5. Numbered'
  BY <1>1, <1>2, Parts DEF Numbered, Written, pull, history
<1>6. DoneWasDone'
  <2>1. answer[r] = NoStatus
    BY <1>1, Parts DEF Request
  <2> QED  BY <1>1, <2>1, Parts DEF DoneWasDone, pull, NoStatus
<1>7. JobsDone'
  BY Parts DEF JobsDone
<1> QED  BY <1>3, <1>4, <1>5, <1>6, <1>7 DEF PullInv, Requests

(* The jobs of the peer change, and the history knows what is done.        *)
LEMMA InvPeer ==
  ASSUME PullInv, life' \in [Pull -> Peer!Lives], finished \subseteq finished',
         finished' \subseteq Pull,
         \A p \in Pull : life'[p] = "done" => p \in finished',
         UNCHANGED <<asked, pull, request, history>>
  PROVE  PullInv'
<1>1. Types'
  BY Parts DEF Types, pull, request, history
<1>2. \A r \in Req : Request(r)'
  BY Parts DEF Request, request
<1>3. Numbered'
  BY Parts DEF Numbered, Written, pull, request, history
<1>4. DoneWasDone' /\ JobsDone'
  BY Parts DEF DoneWasDone, JobsDone, pull, request
<1> QED  BY <1>1, <1>2, <1>3, <1>4 DEF PullInv, Requests

LEMMA InvPeerCreates ==
  ASSUME PullInv, NEW p \in Pull, PeerCreates(p)
  PROVE  PullInv'
<1>1. /\ life' \in [Pull -> Peer!Lives] /\ life'[p] # "done"
      /\ \A q \in Pull \ {p} : life'[q] = life[q]
  BY PeerMove, Parts DEF PeerCreates, Types
<1>2. \A q \in Pull : life'[q] = "done" => q \in finished
  BY <1>1, Parts DEF JobsDone
<1> QED  BY <1>1, <1>2, InvPeer, Parts DEF PeerCreates, Types

LEMMA InvPeerMoves ==
  ASSUME PullInv, PeerMoves
  PROVE  PullInv'
<1>1. life' \in [Pull -> Peer!Lives]
  <2>1. CASE \E p \in Pull : Peer!Cancel(p) \/ Peer!Resume(p) \/ Peer!Forget(p)
    BY <2>1, PeerMove, Parts DEF Types
  <2>2. CASE \E p \in Pull : Peer!Finish(p)
    BY <2>2 DEF Peer!Finish
  <2>3. CASE Peer!Restart
    BY <2>3 DEF Peer!Restart
  <2> QED  BY <2>1, <2>2, <2>3 DEF PeerMoves
<1>2. /\ finished \subseteq finished' /\ finished' \subseteq Pull
      /\ \A p \in Pull : life'[p] = "done" => p \in finished'
  BY Parts DEF PeerMoves, Types
<1> QED  BY <1>1, <1>2, InvPeer DEF PeerMoves

(* A request ends in an error.                                             *)
LEMMA InvGivesUp ==
  ASSUME PullInv, NEW r \in Req, GivesUp(r)
  PROVE  PullInv'
<1>1. /\ at' \in [Req -> ReqPc] /\ at'[r] = "idle"
      /\ of' \in [Req -> Pull \cup {NoPull}] /\ of'[r] = NoPull
      /\ answer' \in [Req -> Shown] /\ answer'[r] = NoStatus
      /\ \A q \in Req \ {r} : at'[q] = at[q] /\ of'[q] = of[q] /\ answer'[q] = answer[q]
  BY OverMove, Parts DEF GivesUp
<1>2. UNCHANGED <<life, asked, pull, history, finished>>
  BY DEF GivesUp
<1>3. Types'
  BY <1>1, <1>2, Parts DEF Types, pull, history
<1>4. \A q \in Req : Request(q)'
  BY <1>1, Parts DEF Request
<1>5. Numbered'
  BY <1>1, <1>2, Parts DEF Numbered, Written, pull, history, NoPull
<1>6. DoneWasDone' /\ JobsDone'
  BY <1>1, <1>2, Parts DEF DoneWasDone, JobsDone, pull, NoStatus
<1> QED  BY <1>3, <1>4, <1>5, <1>6 DEF PullInv, Requests

(* refreshPull or pullRemoteAction goes on to ask for the job.             *)
LEMMA InvOrdered ==
  ASSUME PullInv, NEW r \in Req, Ordered(r)
  PROVE  PullInv'
<1>1. /\ at[r] \in {"cancel", "resume"} /\ Obeys(of[r], at[r]) /\ Goes(r, "get")
      /\ UNCHANGED <<asked, pull, of, answer, history, finished>>
  BY DEF Ordered
<1>2. /\ at' \in [Req -> ReqPc] /\ at'[r] = "get"
      /\ \A q \in Req \ {r} : at'[q] = at[q]
  BY <1>1, GoesMove, Parts DEF ReqPc
<1>3. of[r] \in Pull
  BY <1>1, Parts DEF Types, Request
<1>4. /\ life' \in [Pull -> Peer!Lives]
      /\ \A p \in Pull : life'[p] = "done" => life[p] = "done"
  BY <1>1, <1>3, ObeysMove, Parts DEF Types
<1>5. Types'
  BY <1>1, <1>2, <1>4, Parts DEF Types, pull, history
<1>6. \A q \in Req : Request(q)'
  BY <1>1, <1>2, Parts DEF Request
<1>7. Numbered'
  BY <1>1, Parts DEF Numbered, Written, pull, history
<1>8. DoneWasDone' /\ JobsDone'
  BY <1>1, <1>4, Parts DEF DoneWasDone, JobsDone, pull
<1> QED  BY <1>5, <1>6, <1>7, <1>8 DEF PullInv, Requests

LEMMA InvAnswered ==
  ASSUME PullInv, NEW r \in Req, Answered(r)
  PROVE  PullInv'
<1>1. /\ at[r] = "get" /\ life[of[r]] \in Status
      /\ answer' = [answer EXCEPT ![r] = life[of[r]]]
      /\ Goes(r, "apply")
      /\ UNCHANGED <<life, asked, pull, of, history, finished>>
  BY DEF Answered
<1>2. /\ at' \in [Req -> ReqPc] /\ at'[r] = "apply"
      /\ \A q \in Req \ {r} : at'[q] = at[q]
  BY <1>1, GoesMove, Parts DEF ReqPc
<1>3. of[r] \in Pull
  BY <1>1, Parts DEF Types, Request
<1>4. /\ answer' \in [Req -> Shown] /\ answer'[r] = life[of[r]] /\ answer'[r] # NoStatus
      /\ \A q \in Req \ {r} : answer'[q] = answer[q]
  BY <1>1, Statuses, Parts DEF Types, Shown
<1>5. Types'
  BY <1>1, <1>2, <1>4, Parts DEF Types, pull, history
<1>6. \A q \in Req : Request(q)'
  BY <1>1, <1>2, <1>4, Parts DEF Request
<1>7. Numbered'
  BY <1>1, Parts DEF Numbered, Written, pull, history
<1>8. DoneWasDone' /\ JobsDone'
  BY <1>1, <1>3, <1>4, Parts DEF DoneWasDone, JobsDone, pull
<1> QED  BY <1>5, <1>6, <1>7, <1>8 DEF PullInv, Requests

(* What the peer said is written to the pull.                              *)
LEMMA InvRecord ==
  ASSUME PullInv, NEW p \in 1..asked, NEW s \in Status, NEW saved \in BOOLEAN, NEW known,
         p \in Pull, known \subseteq listed \cup {p}, Record(p, s, known, saved),
         s = "done" => p \in finished,
         UNCHANGED <<life, asked, history, finished>>
  PROVE  /\ status' \in [Pull -> Shown] /\ sidecar' \in [Pull -> Shown]
         /\ listed' \subseteq {q \in Pull : status'[q] # NoStatus}
         /\ listed' \subseteq 1..asked /\ Written' \subseteq 1..asked
         /\ \A q \in Pull : "done" \in {status'[q], sidecar'[q]} => q \in finished'
<1>1. /\ status' \in [Pull -> Shown] /\ sidecar' \in [Pull -> Shown]
      /\ listed' \subseteq known
      /\ listed' \subseteq {q \in Pull : status'[q] # NoStatus}
      /\ status'[p] = s
      /\ sidecar'[p] \in {s, sidecar[p]}
      /\ \A q \in Pull \ {p} : status'[q] = status[q] /\ sidecar'[q] = sidecar[q]
  BY RecordMove, Parts
<1>2. listed' \subseteq 1..asked
  BY <1>1, Parts DEF Numbered
<1>3. Written' \subseteq 1..asked
  BY <1>1, Parts DEF Numbered, Written
<1>4. \A q \in Pull : "done" \in {status'[q], sidecar'[q]} => q \in finished'
  BY <1>1, Parts DEF DoneWasDone
<1> QED  BY <1>1, <1>2, <1>3, <1>4

LEMMA InvCreated ==
  ASSUME PullInv, NEW r \in Req, NEW saved \in BOOLEAN, Created(r, saved)
  PROVE  PullInv'
<1>1. /\ at[r] = "create" /\ Goes(r, "get")
      /\ Record(of[r], "running", listed \cup {of[r]}, saved)
      /\ UNCHANGED <<life, asked, of, answer, history, finished>>
  BY DEF Created
<1>2. /\ at' \in [Req -> ReqPc] /\ at'[r] = "get"
      /\ \A q \in Req \ {r} : at'[q] = at[q]
  BY <1>1, GoesMove, Parts DEF ReqPc
<1>3. of[r] \in Pull /\ of[r] \in 1..asked
  <2>1. of[r] \in Pull
    BY <1>1, Parts DEF Types, Request
  <2> QED  BY <2>1, Pulls, Parts DEF Numbered
<1>4. /\ status' \in [Pull -> Shown] /\ sidecar' \in [Pull -> Shown]
      /\ listed' \subseteq {q \in Pull : status'[q] # NoStatus}
      /\ listed' \subseteq 1..asked /\ Written' \subseteq 1..asked
      /\ \A q \in Pull : "done" \in {status'[q], sidecar'[q]} => q \in finished'
  BY <1>1, <1>3, InvRecord, Statuses
<1>5. Types'
  BY <1>1, <1>2, <1>4, Parts DEF Types, history
<1>6. \A q \in Req : Request(q)'
  BY <1>1, <1>2, Parts DEF Request
<1>7. Numbered'
  BY <1>1, <1>4, Parts DEF Numbered, history
<1>8. DoneWasDone' /\ JobsDone'
  BY <1>1, <1>4, Parts DEF DoneWasDone, JobsDone
<1> QED  BY <1>5, <1>6, <1>7, <1>8 DEF PullInv, Requests

LEMMA InvApply ==
  ASSUME PullInv, NEW r \in Req, NEW saved \in BOOLEAN, Apply(r, saved)
  PROVE  PullInv'
<1>1. /\ at[r] = "apply" /\ Over(r)
      /\ Record(of[r], answer[r], listed, saved)
      /\ UNCHANGED <<life, asked, history, finished>>
  BY DEF Apply
<1>2. /\ at' \in [Req -> ReqPc] /\ at'[r] = "idle"
      /\ of' \in [Req -> Pull \cup {NoPull}] /\ of'[r] = NoPull
      /\ answer' \in [Req -> Shown] /\ answer'[r] = NoStatus
      /\ \A q \in Req \ {r} : at'[q] = at[q] /\ of'[q] = of[q] /\ answer'[q] = answer[q]
  BY <1>1, OverMove, Parts
<1>3. of[r] \in Pull /\ of[r] \in 1..asked
  <2>1. of[r] \in Pull
    BY <1>1, Parts DEF Types, Request
  <2> QED  BY <2>1, Pulls, Parts DEF Numbered
<1>4. answer[r] \in Status /\ (answer[r] = "done" => of[r] \in finished)
  BY <1>1, Parts DEF Types, Request, DoneWasDone, Shown
<1>5. /\ status' \in [Pull -> Shown] /\ sidecar' \in [Pull -> Shown]
      /\ listed' \subseteq {q \in Pull : status'[q] # NoStatus}
      /\ listed' \subseteq 1..asked /\ Written' \subseteq 1..asked
      /\ \A q \in Pull : "done" \in {status'[q], sidecar'[q]} => q \in finished'
  BY <1>1, <1>3, <1>4, InvRecord
<1>6. Types'
  BY <1>1, <1>2, <1>5, Parts DEF Types, history
<1>7. \A q \in Req : Request(q)'
  BY <1>2, Parts DEF Request
<1>8. Numbered'
  BY <1>1, <1>2, <1>5, Parts DEF Numbered, history, NoPull
<1>9. DoneWasDone' /\ JobsDone'
  BY <1>1, <1>2, <1>5, Parts DEF DoneWasDone, JobsDone, NoStatus
<1> QED  BY <1>6, <1>7, <1>8, <1>9 DEF PullInv, Requests

LEMMA InvForget ==
  ASSUME PullInv, NEW p \in Pull, Forget(p)
  PROVE  PullInv'
<1>1. /\ p \in listed
      /\ sidecar' = [sidecar EXCEPT ![p] = NoStatus]
      /\ listed' = listed \ {p} /\ forgotten' = forgotten \cup {p}
      /\ UNCHANGED <<life, asked, status, request, restarts, finished>>
  BY DEF Forget
<1>2. /\ sidecar' \in [Pull -> Shown] /\ sidecar'[p] = NoStatus
      /\ \A q \in Pull \ {p} : sidecar'[q] = sidecar[q]
  BY <1>1, Parts DEF Types, Shown
<1>3. Types'
  BY <1>1, <1>2, Parts DEF Types, request
<1>4. \A r \in Req : Request(r)'
  BY <1>1, Parts DEF Request, request
<1>5. Numbered'
  BY <1>1, <1>2, Parts DEF Numbered, Written, request
<1>6. DoneWasDone' /\ JobsDone'
  BY <1>1, <1>2, Parts DEF DoneWasDone, JobsDone, request, NoStatus
<1> QED  BY <1>3, <1>4, <1>5, <1>6 DEF PullInv, Requests

(* What a restart brings back.                                             *)
LEMMA RestartMove ==
  ASSUME PullInv, NEW pulls \in SUBSET Pull, Restart(pulls)
  PROVE  /\ pulls \subseteq Written /\ listed' = pulls
         /\ status' \in [Pull -> Shown]
         /\ \A p \in pulls : /\ sidecar[p] \in Status
                              /\ status'[p] = Restored(sidecar[p]) /\ status'[p] \in Status
         /\ \A p \in Pull \ pulls : status'[p] = NoStatus
         /\ at' = [r \in Req |-> "idle"] /\ of' = [r \in Req |-> NoPull]
         /\ answer' = [r \in Req |-> NoStatus]
         /\ restarts' \in 0..MaxRestarts
         /\ UNCHANGED <<life, asked, sidecar, forgotten, finished>>
<1>1. /\ pulls \subseteq Written /\ listed' = pulls
      /\ status' = [p \in Pull |-> IF p \in pulls THEN Restored(sidecar[p]) ELSE NoStatus]
      /\ restarts < MaxRestarts /\ restarts' = restarts + 1
      /\ at' = [r \in Req |-> "idle"] /\ of' = [r \in Req |-> NoPull]
      /\ answer' = [r \in Req |-> NoStatus]
      /\ UNCHANGED <<life, asked, sidecar, forgotten, finished>>
  BY DEF Restart, Recent
<1>2. \A p \in pulls : sidecar[p] \in Status
  BY <1>1, Parts DEF Written, Types, Shown
<1>3. \A p \in pulls : status'[p] = Restored(sidecar[p]) /\ status'[p] \in Status
  BY <1>1, <1>2, RestoredMove
<1>4. \A p \in Pull \ pulls : status'[p] = NoStatus
  BY <1>1
<1>5. status' \in [Pull -> Shown]
  BY <1>1, <1>2, RestoredMove DEF Shown
<1>6. restarts' \in 0..MaxRestarts
  BY <1>1, ConstantsAssumption, Parts DEF Types
<1> QED  BY <1>1, <1>2, <1>3, <1>4, <1>5, <1>6

LEMMA InvRestart ==
  ASSUME PullInv, NEW pulls \in SUBSET Pull, Restart(pulls)
  PROVE  PullInv'
<1>1. /\ pulls \subseteq Written /\ listed' = pulls
      /\ status' \in [Pull -> Shown]
      /\ \A p \in pulls : /\ sidecar[p] \in Status
                           /\ status'[p] = Restored(sidecar[p]) /\ status'[p] \in Status
      /\ \A p \in Pull \ pulls : status'[p] = NoStatus
      /\ at' = [r \in Req |-> "idle"] /\ of' = [r \in Req |-> NoPull]
      /\ answer' = [r \in Req |-> NoStatus]
      /\ restarts' \in 0..MaxRestarts
      /\ UNCHANGED <<life, asked, sidecar, forgotten, finished>>
  BY RestartMove
<1>2. Types'
  BY <1>1, Parts, Statuses DEF Types, Shown, ReqPc
<1>3. \A r \in Req : Request(r)'
  BY <1>1 DEF Request
<1>4. Numbered'
  BY <1>1, Parts DEF Numbered, Written, NoPull
<1>5. \A p \in Pull : status'[p] = "done" => sidecar[p] = "done"
  BY <1>1, RestoredMove DEF NoStatus
<1>6. DoneWasDone' /\ JobsDone'
  BY <1>1, <1>5, Parts DEF DoneWasDone, JobsDone, NoStatus
<1> QED  BY <1>2, <1>3, <1>4, <1>6 DEF PullInv, Requests

(* The steps, one action each, of which some only start a request.         *)
Calls(r, p) ==
  /\ \E what \in {"create", "get", "cancel", "resume"} : Begin(r, p, what)
  /\ \/ asked < MaxPulls /\ asked' = asked + 1 /\ p = asked + 1 /\ at'[r] = "create"
     \/ asked' = asked /\ p \in listed /\ at'[r] # "create"
  /\ UNCHANGED <<life, pull, history, finished>>

LEMMA CallsMove ==
  ASSUME PullInv, NEW r \in Req
  PROVE  /\ Ask(r) => Calls(r, asked + 1)
         /\ \A p \in Pull : Refresh(r, p) => Calls(r, p)
         /\ \A p \in Pull, what \in {"cancel", "resume"} : Order(r, p, what) => Calls(r, p)
<1>1. \A p, what : Begin(r, p, what) => at'[r] = what
  BY Parts DEF Begin, Goes, Types
<1>2. Ask(r) => Calls(r, asked + 1)
  BY <1>1 DEF Ask, Calls
<1>3. \A p \in Pull : Refresh(r, p) => Calls(r, p)
  BY <1>1 DEF Refresh, Known, Calls
<1>4. \A p \in Pull, what \in {"cancel", "resume"} : Order(r, p, what) => Calls(r, p)
  BY <1>1 DEF Order, Known, Calls
<1> QED  BY <1>2, <1>3, <1>4

LEMMA Steps ==
  ASSUME PullInv, [Next]_vars
  PROVE  \/ \E r \in Req, p \in Pull : Calls(r, p)
         \/ \E r \in Req : Ordered(r) \/ Answered(r) \/ GivesUp(r)
         \/ \E r \in Req, saved \in BOOLEAN : Created(r, saved) \/ Apply(r, saved)
         \/ \E p \in Pull : PeerCreates(p) \/ Forget(p)
         \/ \E pulls \in SUBSET Pull : Restart(pulls)
         \/ PeerMoves
         \/ UNCHANGED vars
<1>1. ASSUME NEW r \in Req, Ask(r) PROVE \E p \in Pull : Calls(r, p)
  <2>1. asked + 1 \in Pull
    BY <1>1, Parts, ConstantsAssumption DEF Ask, Pull
  <2> QED  BY <1>1, <2>1, CallsMove
<1>2. ASSUME NEW r \in Req, Go(r)
      PROVE  \/ Ordered(r) \/ Answered(r) \/ GivesUp(r)
             \/ \E saved \in BOOLEAN : Created(r, saved) \/ Apply(r, saved)
  BY <1>2 DEF Go
<1>3. ASSUME NEW r \in Req, NEW p \in Pull,
             Refresh(r, p) \/ \E what \in {"cancel", "resume"} : Order(r, p, what)
      PROVE  Calls(r, p)
  BY <1>3, CallsMove
<1> QED  BY <1>1, <1>2, <1>3 DEF Next

LEMMA InvCalls ==
  ASSUME PullInv, NEW r \in Req, NEW p \in Pull, Calls(r, p)
  PROVE  PullInv'
<1>1. PICK what \in {"create", "get", "cancel", "resume"} : Begin(r, p, what)
  BY DEF Calls
<1>2. what \in ReqPc \ {"idle", "apply"}
  BY DEF ReqPc
<1>3. asked' \in asked..MaxPulls /\ p <= asked'
  <2>1. asked \in 0..MaxPulls /\ MaxPulls \in Nat
    BY Parts, ConstantsAssumption DEF Types
  <2>2. CASE asked < MaxPulls /\ asked' = asked + 1 /\ p = asked + 1
    BY <2>1, <2>2
  <2>3. CASE asked' = asked /\ p \in listed
    BY <2>1, <2>3, Parts DEF Numbered
  <2> QED  BY <2>2, <2>3 DEF Calls
<1>4. UNCHANGED <<life, pull, history, finished>>
  BY DEF Calls
<1> QED  BY <1>1, <1>2, <1>3, <1>4, InvStarts

LEMMA InvStep == PullInv /\ [Next]_vars => PullInv'
<1> SUFFICES ASSUME PullInv, [Next]_vars PROVE PullInv'
  OBVIOUS
<1>1. ASSUME NEW pulls \in SUBSET Pull, Restart(pulls) PROVE PullInv'
  BY <1>1, InvRestart
<1>2. CASE UNCHANGED vars
  <2>1. UNCHANGED <<life, asked, pull, request, history, finished>>
    BY <1>2 DEF vars
  <2> QED  BY <2>1, InvPeer, Parts DEF Types, JobsDone
<1> QED
  BY <1>1, <1>2, Steps, InvCalls, InvOrdered, InvAnswered, InvGivesUp, InvCreated,
     InvApply, InvPeerCreates, InvForget, InvPeerMoves

LEMMA InvAlways == Spec => []PullInv
BY PullInit, InvStep, PTL DEF Spec

(* The variables always have their shape: a request that has an answer is  *)
(* the one that is about to write it, and what is listed has a status.     *)
THEOREM TypeCorrect == Spec => []TypeOK
<1>1. PullInv => TypeOK
  BY TypeParts DEF PullInv
<1> QED  BY <1>1, InvAlways, PTL

(* A pull says that its file has arrived only when the job of the peer was *)
(* done, also when it is read from a sidecar after a restart, and whatever *)
(* the order in which answers come.                                        *)
THEOREM DoneIsNoGuess == Spec => []DoneWasDone
<1>1. PullInv => DoneWasDone
  BY DEF PullInv
<1> QED  BY <1>1, InvAlways, PTL

-----------------------------------------------------------------------------
(* Removal.  Nothing brings a pull back but a request that holds it.       *)

LEMMA AwayStep ==
  ASSUME PullInv, [Next]_vars, NEW p \in Pull, Away(p)
  PROVE  Away(p)'
<1>0. /\ p \in forgotten /\ p \notin listed /\ sidecar[p] = NoStatus
      /\ \A r \in Req : of[r] # p
      /\ p \in 1..asked /\ asked \in Nat
  BY Parts DEF Away, Holding, Numbered
<1>1. ASSUME UNCHANGED <<pull, forgotten>>, \A r \in Req : of'[r] # p PROVE Away(p)'
  BY <1>0, <1>1 DEF Away, Holding, pull
<1>2. ASSUME NEW r \in Req, NEW k \in Pull, Calls(r, k) PROVE Away(p)'
  <2>1. k # p
    BY <1>0, <1>2 DEF Calls
  <2>2. of'[r] = k /\ \A q \in Req \ {r} : of'[q] = of[q]
    <3>1. PICK what \in ReqPc \ {"idle", "apply"} : Begin(r, k, what)
      BY <1>2 DEF Calls, ReqPc
    <3> QED  BY <3>1, BeginMove, Parts
  <2> QED  BY <1>0, <1>1, <1>2, <2>1, <2>2 DEF Calls, history
<1>3. ASSUME NEW r \in Req, Ordered(r) \/ Answered(r) PROVE Away(p)'
  BY <1>0, <1>1, <1>3 DEF Ordered, Answered, history
<1>4. ASSUME NEW r \in Req, GivesUp(r) PROVE Away(p)'
  <2>1. of'[r] = NoPull /\ \A q \in Req \ {r} : of'[q] = of[q]
    BY <1>4, OverMove, Parts DEF GivesUp
  <2> QED  BY <1>0, <1>1, <1>4, <2>1, Pulls DEF GivesUp, history
<1>5. ASSUME NEW r \in Req, NEW saved \in BOOLEAN, Created(r, saved) PROVE Away(p)'
  <2>1. of[r] \in Pull \ {p}
    BY <1>0, <1>5, Parts DEF Created, Types, Request, Requests
  <2>2. p \notin listed' /\ sidecar'[p] = NoStatus
    <3>1. Record(of[r], "running", listed \cup {of[r]}, saved)
      BY <1>5 DEF Created
    <3>2. /\ listed' \subseteq listed \cup {of[r]}
          /\ \A q \in Pull \ {of[r]} : sidecar'[q] = sidecar[q]
      BY <2>1, <3>1, RecordMove, Statuses, Parts
    <3> QED  BY <1>0, <2>1, <3>2
  <2> QED  BY <1>0, <1>5, <2>2 DEF Created, Away, Holding, history
<1>6. ASSUME NEW r \in Req, NEW saved \in BOOLEAN, Apply(r, saved) PROVE Away(p)'
  <2>1. of[r] \in Pull \ {p} /\ answer[r] \in Status
    BY <1>0, <1>6, Parts DEF Apply, Types, Request, Shown
  <2>2. Record(of[r], answer[r], listed, saved) /\ listed \subseteq listed \cup {of[r]}
    BY <1>6 DEF Apply
  <2>3. p \notin listed' /\ sidecar'[p] = NoStatus
    <3>1. /\ listed' \subseteq listed
          /\ \A q \in Pull \ {of[r]} : sidecar'[q] = sidecar[q]
      BY <2>1, <2>2, RecordMove, Parts
    <3> QED  BY <1>0, <2>1, <3>1
  <2>4. of'[r] = NoPull /\ \A q \in Req \ {r} : of'[q] = of[q]
    BY <1>6, OverMove, Parts DEF Apply
  <2> QED  BY <1>0, <1>6, <2>3, <2>4, Pulls DEF Apply, Away, Holding, history
<1>7. ASSUME NEW k \in Pull, PeerCreates(k) PROVE Away(p)'
  BY <1>0, <1>1, <1>7 DEF PeerCreates, request, history
<1>8. ASSUME NEW k \in Pull, Forget(k) PROVE Away(p)'
  BY <1>0, <1>8, Parts DEF Forget, Away, Holding, request, Types
<1>9. ASSUME NEW pulls \in SUBSET Pull, Restart(pulls) PROVE Away(p)'
  <2>1. p \notin pulls
    BY <1>0, <1>9, RestartMove DEF Written
  <2> QED  BY <1>0, <1>9, <2>1, RestartMove, Pulls DEF Away, Holding
<1>10. CASE PeerMoves
  BY <1>0, <1>1, <1>10 DEF PeerMoves, request, history
<1>11. CASE UNCHANGED vars
  BY <1>0, <1>1, <1>11 DEF vars, request, history
<1> QED
  BY <1>2, <1>3, <1>4, <1>5, <1>6, <1>7, <1>8, <1>9, <1>10, <1>11, Steps

(* A pull that was removed is not listed and has no sidecar ever again,    *)
(* once no request holds it: neither another pull nor a restart brings it  *)
(* back.                                                                   *)
THEOREM RemovedForGood == Spec => RemovedStaysAway
<1>1. PullInv /\ [Next]_vars => [\A p \in Pull : Away(p) => Away(p)']_vars
  BY AwayStep
<1> QED  BY <1>1, InvAlways, PTL DEF Spec, RemovedStaysAway

-----------------------------------------------------------------------------
(* What is up to date stays so.                                            *)

Same(p) ==
  p \in listed' /\ status'[p] = status[p] /\ sidecar'[p] = sidecar[p] /\ life'[p] = life[p]

(* No request that begins or goes on asks for the job or brings an older   *)
(* answer.                                                                 *)
Fresh(p) == \A r \in Holding(p) : at[r] # "create" /\ answer[r] \in {NoStatus, life[p]}

LEMMA CurrentParts ==
  ASSUME NEW p \in Pull
  PROVE  /\ Current(p) => /\ p \in listed /\ status[p] = life[p] /\ sidecar[p] = life[p]
                          /\ life[p] \in Ended /\ Fresh(p)
         /\ Current(p) /\ Same(p) /\ Fresh(p)' => Current(p)'
BY DEF Current, Same, Fresh

LEMMA CurrentStep ==
  ASSUME PullInv, [Next]_vars, NEW p \in Pull, Current(p), p \in listed', life'[p] = life[p]
  PROVE  Current(p)'
<1>0. /\ p \in listed /\ status[p] = life[p] /\ sidecar[p] = life[p]
      /\ life[p] \in Ended /\ Fresh(p) /\ p \in 1..asked /\ asked \in Nat
  BY CurrentParts, Parts DEF Numbered
<1>1. ASSUME UNCHANGED pull PROVE Same(p)
  BY <1>1 DEF Same, pull
<1>2. ASSUME UNCHANGED <<pull, request>> PROVE Current(p)'
  <2>1. Fresh(p)'
    BY <1>0, <1>2 DEF Fresh, Holding, request
  <2> QED  BY <1>1, <1>2, <2>1, CurrentParts
<1>3. ASSUME NEW r \in Req, NEW k \in Pull, Calls(r, k) PROVE Current(p)'
  <2>1. /\ at[r] = "idle" /\ of'[r] = k /\ answer' = answer
        /\ \A q \in Req \ {r} : at'[q] = at[q] /\ of'[q] = of[q]
    <3>1. PICK what \in ReqPc \ {"idle", "apply"} : Begin(r, k, what)
      BY <1>3 DEF Calls, ReqPc
    <3> QED  BY <3>1, BeginMove, Parts
  <2>2. answer[r] = NoStatus
    BY <2>1, Parts DEF Request
  <2>3. k = p => at'[r] # "create"
    BY <1>0, <1>3 DEF Calls
  <2>4. Fresh(p)'
    BY <1>0, <2>1, <2>2, <2>3 DEF Fresh, Holding
  <2>5. UNCHANGED pull
    BY <1>3 DEF Calls
  <2> QED  BY <1>1, <2>4, <2>5, CurrentParts
<1>4. ASSUME NEW r \in Req, Ordered(r) PROVE Current(p)'
  <2>1. /\ at'[r] = "get" /\ \A q \in Req \ {r} : at'[q] = at[q]
        /\ UNCHANGED <<pull, of, answer>>
    BY <1>4, GoesMove, Parts DEF Ordered, ReqPc
  <2>2. Fresh(p)'
    BY <1>0, <2>1 DEF Fresh, Holding
  <2> QED  BY <1>1, <2>1, <2>2, CurrentParts
<1>5. ASSUME NEW r \in Req, Answered(r) PROVE Current(p)'
  <2>1. /\ at'[r] = "apply" /\ \A q \in Req \ {r} : at'[q] = at[q]
        /\ UNCHANGED <<pull, of>>
    BY <1>5, GoesMove, Parts DEF Answered, ReqPc
  <2>2. answer'[r] = life[of[r]] /\ \A q \in Req \ {r} : answer'[q] = answer[q]
    BY <1>5, Parts DEF Answered, Types
  <2>3. Fresh(p)'
    BY <1>0, <2>1, <2>2 DEF Fresh, Holding
  <2> QED  BY <1>1, <2>1, <2>3, CurrentParts
<1>6. ASSUME NEW r \in Req, GivesUp(r) PROVE Current(p)'
  <2>1. /\ of'[r] = NoPull
        /\ \A q \in Req \ {r} : at'[q] = at[q] /\ of'[q] = of[q] /\ answer'[q] = answer[q]
        /\ UNCHANGED pull
    BY <1>6, OverMove, Parts DEF GivesUp
  <2>2. Fresh(p)'
    BY <1>0, <2>1, Pulls DEF Fresh, Holding
  <2> QED  BY <1>1, <2>1, <2>2, CurrentParts
<1>7. ASSUME NEW r \in Req, NEW saved \in BOOLEAN, Created(r, saved) PROVE Current(p)'
  <2>1. /\ at[r] = "create" /\ UNCHANGED <<of, answer, life>>
        /\ Record(of[r], "running", listed \cup {of[r]}, saved)
    BY <1>7 DEF Created
  <2>2. of[r] \in Pull /\ of[r] # p
    BY <1>0, <2>1, Parts DEF Types, Request, Fresh, Holding
  <2>3. Same(p)
    BY <2>1, <2>2, RecordMove, Statuses, Parts DEF Same
  <2>4. \A q \in Req \ {r} : at'[q] = at[q]
    BY <1>7, GoesMove, Parts DEF Created, ReqPc
  <2>5. Fresh(p)'
    BY <1>0, <2>1, <2>2, <2>4 DEF Fresh, Holding
  <2> QED  BY <2>3, <2>5, CurrentParts
<1>8. ASSUME NEW r \in Req, NEW saved \in BOOLEAN, Apply(r, saved) PROVE Current(p)'
  <2>1. /\ at[r] = "apply" /\ Over(r) /\ UNCHANGED life
        /\ Record(of[r], answer[r], listed, saved) /\ listed \subseteq listed \cup {of[r]}
    BY <1>8 DEF Apply
  <2>2. of[r] \in Pull /\ answer[r] \in Status
    BY <2>1, Parts DEF Types, Request, Shown
  <2>3. of[r] = p => answer[r] = life[p]
    BY <1>0, <2>2, Statuses DEF Fresh, Holding
  <2>4. /\ status'[of[r]] = answer[r] /\ sidecar'[of[r]] \in {answer[r], sidecar[of[r]]}
        /\ \A q \in Pull \ {of[r]} : status'[q] = status[q] /\ sidecar'[q] = sidecar[q]
    BY <2>1, <2>2, RecordMove, Parts
  <2>5. Same(p)
    BY <1>0, <2>1, <2>3, <2>4 DEF Same
  <2>6. /\ of'[r] = NoPull
        /\ \A q \in Req \ {r} : at'[q] = at[q] /\ of'[q] = of[q] /\ answer'[q] = answer[q]
    BY <2>1, OverMove, Parts
  <2>7. Fresh(p)'
    BY <1>0, <2>1, <2>6, Pulls DEF Fresh, Holding
  <2> QED  BY <2>5, <2>7, CurrentParts
<1>9. ASSUME NEW k \in Pull, PeerCreates(k) PROVE Current(p)'
  BY <1>2, <1>9 DEF PeerCreates
<1>10. ASSUME NEW k \in Pull, Forget(k) PROVE Current(p)'
  <2>1. /\ k # p /\ UNCHANGED <<life, status, request>>
        /\ sidecar' = [sidecar EXCEPT ![k] = NoStatus]
    BY <1>10 DEF Forget
  <2>2. Same(p)
    BY <1>0, <2>1 DEF Same
  <2>3. Fresh(p)'
    BY <1>0, <2>1 DEF Fresh, Holding, request
  <2> QED  BY <2>2, <2>3, CurrentParts
<1>11. ASSUME NEW pulls \in SUBSET Pull, Restart(pulls) PROVE Current(p)'
  <2>1. /\ p \in pulls /\ status'[p] = Restored(sidecar[p]) /\ sidecar[p] \in Status
        /\ of' = [r \in Req |-> NoPull] /\ UNCHANGED <<life, sidecar>>
    BY <1>11, RestartMove
  <2>2. Restored(sidecar[p]) = sidecar[p]
    BY <1>0, <2>1, RestoredMove
  <2>3. Same(p)
    BY <1>0, <2>1, <2>2 DEF Same
  <2>4. Fresh(p)'
    BY <2>1, Pulls DEF Fresh, Holding
  <2> QED  BY <2>3, <2>4, CurrentParts
<1>12. CASE PeerMoves
  BY <1>2, <1>12 DEF PeerMoves
<1>13. CASE UNCHANGED vars
  BY <1>2, <1>13 DEF vars
<1> QED
  BY <1>3, <1>4, <1>5, <1>6, <1>7, <1>8, <1>9, <1>10, <1>11, <1>12, <1>13, Steps

(* A pull that ended as its job did, in memory and in its sidecar, is not  *)
(* taken back by refreshes, orders, errors or restarts.                    *)
THEOREM CurrentForGood == Spec => CurrentStaysCurrent
<1>1. ASSUME PullInv, [Next]_vars, NEW p \in Pull, Current(p)
      PROVE  Current(p)' \/ p \notin listed' \/ life'[p] # life[p]
  BY <1>1, CurrentStep
<1>2. PullInv /\ [Next]_vars
        => [\A p \in Pull : Current(p) =>
              Current(p)' \/ p \notin listed' \/ life'[p] # life[p]]_vars
  BY <1>1
<1> QED  BY <1>2, InvAlways, PTL DEF Spec, CurrentStaysCurrent

=============================================================================
