-------------------------------- MODULE Pulls --------------------------------
(***************************************************************************)
(* Pulls (cmd/multisend-agent/pull.go, history.go): an agent asks another  *)
(* one, the peer, to send it a file.  The file travels as a send job of    *)
(* the peer; the pull is what the agent that asked knows of that job.  It  *)
(* learns it by asking: every refresh, cancel and resume is an HTTP        *)
(* request to the peer, made without pullsMu, whose answer is then written *)
(* to the pull, in memory and in a sidecar file.                           *)
(*                                                                         *)
(* The jobs of the peer are those of JobLife, which Jobs implements: the   *)
(* peer's user, its sender and its restarts change them at any time.       *)
(*                                                                         *)
(* A request is refused, gets no answer or one that comes too late in one  *)
(* and the same step, GivesUp: the caller is told of an error and nothing  *)
(* else happens.  What the peer was asked to do may happen all the same.   *)
(*                                                                         *)
(* Left out: the authorisation of a request, what a pull says of paths and *)
(* progress, and the checks of a sidecar that somebody else has written.   *)
(*                                                                         *)
(* A definition named Bug... is a plausible mistake in the definition that *)
(* follows it: PROJECT.json says which property notices it.                *)
(***************************************************************************)
EXTENDS Integers, FiniteSets

CONSTANTS
  MaxPulls,   \* bound: calls of createPull; the number of a call is also that
              \* of the job it asks for and of its pull, and is their age
  Req,        \* bound: HTTP requests at the same time
  History,    \* maxOperationHistory: 500
  MaxRestarts \* bound: restarts of the agent that pulls

ASSUME ConstantsAssumption ==
  /\ MaxPulls \in Nat
  /\ History \in Nat \ {0}
  /\ MaxRestarts \in Nat

Pull == 1..MaxPulls
NoPull == 0

VARIABLES
  life,      \* the jobs of the peer
  asked,     \* calls of createPull so far
  status,    \* Status of each pull, also of one that is no longer listed
  listed,    \* pullsByID
  sidecar,   \* the status in the sidecar of each pull
  at,        \* of each request: what it is about to do
  of,        \* the pull it holds
  answer,    \* the status that the peer has answered
  restarts,  \* of this agent
  forgotten, \* history: pulls that were removed
  finished   \* history: jobs of the peer that were done at some time

Peer == INSTANCE JobLife WITH Job <- Pull

request == <<at, of, answer>>
pull == <<status, listed, sidecar>>
history == <<restarts, forgotten>>
vars == <<life, asked, pull, request, history, finished>>

Active == Peer!Active
Ended == Peer!Ended
NoStatus == "none"
Status == Active \cup Ended
Written == {p \in Pull : sidecar[p] # NoStatus}

Init ==
  /\ Peer!Init
  /\ asked = 0
  /\ status = [p \in Pull |-> NoStatus]
  /\ listed = {}
  /\ sidecar = [p \in Pull |-> NoStatus]
  /\ at = [r \in Req |-> "idle"]
  /\ of = [r \in Req |-> NoPull]
  /\ answer = [r \in Req |-> NoStatus]
  /\ restarts = 0
  /\ forgotten = {}
  /\ finished = {}

-----------------------------------------------------------------------------
(* The history.                                                            *)

(* prunePullsLocked: of the pulls that ended the youngest stay listed.     *)
Pruned(pulls, st) ==
  LET terminal == {p \in pulls : st[p] \in Ended}
  IN  {p \in pulls : p \in terminal =>
                       Cardinality({q \in terminal : q > p}) < History}

(* An answer is not for a pull that has ended.                             *)
BugRecord(p, s, known, saved) ==
  /\ status' = IF status[p] \in Ended THEN status ELSE [status EXCEPT ![p] = s]
  /\ sidecar' = IF saved THEN [sidecar EXCEPT ![p] = status'[p]] ELSE sidecar
  /\ listed' = Pruned(known, status')

(* The status is set, persisted (persistPullLocked; an error is logged)    *)
(* and the history pruned, whether the pull is listed or not.              *)
Record(p, s, known, saved) ==
  /\ status' = [status EXCEPT ![p] = s]
  /\ sidecar' = IF saved THEN [sidecar EXCEPT ![p] = s] ELSE sidecar
  /\ listed' = Pruned(known, status')

-----------------------------------------------------------------------------
(* Requests.                                                               *)

Goes(r, where) == at' = [at EXCEPT ![r] = where]

(* The answer is not cleared.                                              *)
BugOver(r) ==
  /\ at' = [at EXCEPT ![r] = "idle"]
  /\ of' = [of EXCEPT ![r] = NoPull]
  /\ UNCHANGED answer

(* The goroutine ends.                                                     *)
Over(r) ==
  /\ at' = [at EXCEPT ![r] = "idle"]
  /\ of' = [of EXCEPT ![r] = NoPull]
  /\ answer' = [answer EXCEPT ![r] = NoStatus]

Begin(r, p, what) ==
  /\ at[r] = "idle"
  /\ Goes(r, what)
  /\ of' = [of EXCEPT ![r] = p]
  /\ UNCHANGED answer

(* createPull posts /remote-send.                                          *)
Ask(r) ==
  /\ asked < MaxPulls
  /\ asked' = asked + 1
  /\ Begin(r, asked + 1, "create")
  /\ UNCHANGED <<life, pull, history, finished>>

(* remoteSend of the peer, which packs a directory before it makes the     *)
(* job; it does not notice that the caller has given up.                   *)
PeerCreates(p) ==
  /\ p <= asked
  /\ Peer!Create(p)
  /\ UNCHANGED <<asked, pull, request, history, finished>>

(* The answer names the job: there is a pull, which is refreshed at once.  *)
Created(r, saved) ==
  /\ at[r] = "create"
  /\ life[of[r]] # "new"
  /\ Record(of[r], "running", listed \cup {of[r]}, saved)
  /\ Goes(r, "get")
  /\ UNCHANGED <<life, asked, of, answer, history, finished>>

(* A pull is looked up in the history, which the sidecars are part of.     *)
BugKnown(p) == status[p] # NoStatus

Known(p) == p \in listed

(* refreshPull, and listPulls for each of the pulls it has listed.         *)
Refresh(r, p) ==
  /\ Known(p)
  /\ Begin(r, p, "get")
  /\ UNCHANGED <<life, asked, pull, history, finished>>

(* pullRemoteAction, before it posts to the peer.                          *)
Order(r, p, what) ==
  /\ what \in {"cancel", "resume"}
  /\ Known(p)
  /\ Begin(r, p, what)
  /\ UNCHANGED <<life, asked, pull, history, finished>>

(* What the peer does (remoteJobByID): a job that ended need not be        *)
(* canceled, one that it does not know cannot.                             *)
Obeys(p, what) ==
  \/ what = "cancel" /\ Peer!Cancel(p)
  \/ what = "cancel" /\ life[p] \in Ended /\ UNCHANGED life
  \/ what = "resume" /\ Peer!Resume(p)

Ordered(r) ==
  /\ at[r] \in {"cancel", "resume"}
  /\ Obeys(of[r], at[r])
  /\ Goes(r, "get")
  /\ UNCHANGED <<asked, pull, of, answer, history, finished>>

(* pullViewFromRemote: the peer has answered ...                           *)
Answered(r) ==
  /\ at[r] = "get"
  /\ life[of[r]] \in Status
  /\ answer' = [answer EXCEPT ![r] = life[of[r]]]
  /\ Goes(r, "apply")
  /\ UNCHANGED <<life, asked, pull, of, history, finished>>

(* ... and what it said is written to the pull that was looked up before.  *)
Apply(r, saved) ==
  /\ at[r] = "apply"
  /\ Record(of[r], answer[r], listed, saved)
  /\ Over(r)
  /\ UNCHANGED <<life, asked, history, finished>>

(* The peer is not found or does not answer in time, or refuses.           *)
GivesUp(r) ==
  /\ at[r] \in {"create", "cancel", "resume", "get"}
  /\ Over(r)
  /\ UNCHANGED <<life, asked, pull, history, finished>>

-----------------------------------------------------------------------------
(* forgetPull                                                              *)
Forget(p) ==
  /\ p \in listed
  /\ status[p] \in Ended
  /\ sidecar' = [sidecar EXCEPT ![p] = NoStatus]
  /\ listed' = listed \ {p}
  /\ forgotten' = forgotten \cup {p}
  /\ UNCHANGED <<life, asked, status, request, restarts, finished>>

(* Whatever is not done was interrupted.                                   *)
BugRestored(s) == IF s = "done" THEN s ELSE "canceled"

(* A pull that was under way is taken to have arrived.                     *)
BugArrived(s) == IF s = "running" THEN "done" ELSE s

(* restorePullHistory: nothing comes back as active.                       *)
Restored(s) == IF s \in Active THEN "canceled" ELSE s

(* It reads the sidecars that were written last.                           *)
Recent(pulls) ==
  /\ pulls \subseteq Written
  /\ \/ pulls = Written /\ Cardinality(Written) <= History
     \/ Cardinality(pulls) = History

Restart(pulls) ==
  /\ restarts < MaxRestarts
  /\ restarts' = restarts + 1
  /\ Recent(pulls)
  /\ listed' = pulls
  /\ status' = [p \in Pull |-> IF p \in pulls THEN Restored(sidecar[p])
                               ELSE NoStatus]
  /\ at' = [r \in Req |-> "idle"]
  /\ of' = [r \in Req |-> NoPull]
  /\ answer' = [r \in Req |-> NoStatus]
  /\ UNCHANGED <<life, asked, sidecar, forgotten, finished>>

(* The peer goes on: its calls end, its user and its restarts intervene.   *)
PeerMoves ==
  /\ \/ \E p \in Pull : Peer!Cancel(p) \/ Peer!Resume(p) \/ Peer!Finish(p)
                          \/ Peer!Forget(p)
     \/ Peer!Restart
  /\ finished' = finished \cup {p \in Pull : life'[p] = "done"}
  /\ UNCHANGED <<asked, pull, request, history>>

-----------------------------------------------------------------------------
Go(r) ==
  \/ Ordered(r) \/ Answered(r) \/ GivesUp(r)
  \/ \E saved \in BOOLEAN : Created(r, saved) \/ Apply(r, saved)

Next ==
  \/ \E r \in Req :
       \/ Ask(r) \/ Go(r)
       \/ \E p \in Pull : Refresh(r, p) \/ \E what \in {"cancel", "resume"} : Order(r, p, what)
  \/ \E p \in Pull : PeerCreates(p) \/ Forget(p)
  \/ \E pulls \in SUBSET Pull : Restart(pulls)
  \/ PeerMoves

Spec == Init /\ [][Next]_vars

(* A request ends, because the client of both has a timeout.  While the    *)
(* web page is open it lists the pulls again and again, and a peer that is *)
(* asked again and again answers at some time.                             *)
FairSpec ==
  /\ Spec
  /\ \A r \in Req : WF_vars(Go(r))
  /\ \A p \in Pull :
       /\ SF_vars(\E r \in Req : Refresh(r, p))
       /\ SF_vars(\E r \in Req : of[r] = p /\ Answered(r))

-----------------------------------------------------------------------------
(* The shape of every variable.                                            *)
TypeOK ==
  /\ life \in [Pull -> Peer!Lives]
  /\ asked \in 0..MaxPulls
  /\ status \in [Pull -> Status \cup {NoStatus}]
  /\ sidecar \in [Pull -> Status \cup {NoStatus}]
  /\ listed \subseteq {p \in Pull : status[p] # NoStatus}
  /\ at \in [Req -> {"idle", "create", "cancel", "resume", "get", "apply"}]
  /\ of \in [Req -> Pull \cup {NoPull}]
  /\ answer \in [Req -> Status \cup {NoStatus}]
  /\ \A r \in Req :
       /\ at[r] = "idle" <=> of[r] = NoPull
       /\ at[r] = "apply" <=> answer[r] # NoStatus
  /\ restarts \in 0..MaxRestarts
  /\ forgotten \subseteq Pull
  /\ finished \subseteq Pull

(* Nobody is told that a file has arrived whose job was never done: what   *)
(* a pull says, in memory, in its sidecar or in an answer that is under    *)
(* way, the job of that pull has said before.                              *)
DoneWasDone ==
  /\ \A p \in Pull : "done" \in {status[p], sidecar[p]} => p \in finished
  /\ \A r \in Req : answer[r] = "done" => of[r] \in finished

Holding(p) == {r \in Req : of[r] = p}

(* A pull that was removed stays removed, in memory and in its directory,  *)
(* once no request that has looked it up before is under way.              *)
Away(p) ==
  p \in forgotten \ listed /\ sidecar[p] = NoStatus /\ Holding(p) = {}

RemovedStaysAway == [][\A p \in Pull : Away(p) => Away(p)']_vars

(* A pull that ended as its job did, and whose sidecar says so, goes on    *)
(* saying so for as long as that job does not change, through restarts,    *)
(* orders and refreshes; only an answer that is older can undo it.         *)
Current(p) ==
  /\ p \in listed
  /\ status[p] = life[p] /\ sidecar[p] = life[p]
  /\ life[p] \in Ended
  /\ \A r \in Holding(p) : at[r] # "create" /\ answer[r] \in {NoStatus, life[p]}

CurrentStaysCurrent ==
  [][\A p \in Pull : Current(p) =>
       Current(p)' \/ p \notin listed' \/ life'[p] # life[p]]_vars

(* A pull is in the end what its job is: one that was told to be canceled  *)
(* by a restart, or set back by an answer that came late, is told at last. *)
PullConverges ==
  \A p \in Pull :
    <>[](p \in listed /\ life[p] = "done") => <>[](status[p] = "done")
=============================================================================
