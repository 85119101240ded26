---------------------------- MODULE DiscoveryTime ----------------------------
(***************************************************************************)
(* Discovery with a watch: how long is it until who is there is listed, or *)
(* who is not there forgotten?  Two history variables count the ticks for  *)
(* which an address and an agent have been as they are.  No action reads   *)
(* them, and Watch has one value for each of them after every step, so     *)
(* that they neither add a behaviour nor take one away.                    *)
(***************************************************************************)
EXTENDS Discovery

(* The timers fit: an entry outlasts the longer interval and the dials of  *)
(* two cycles, an address may be probed again after that interval, and its *)
(* entry still is recent when the cycle that made it ends.                 *)
ASSUME TimersAssumption ==
  /\ Slow + Jitter + 2 * Dials <= TTL
  /\ Cooldown <= Slow
  /\ Dials <= Recent

VARIABLES
  same,  \* the time since an address came to be silent, or was left
  stays  \* the time since an agent came to where it is

watch == <<same, stays>>
timedVars == <<vars, watch>>

(* An address that is in use is silent if only probes can tell.            *)
Left(a) == a \notin Occupied
Silent(a) == a \in Occupied /\ ~HasRealPeer(a)

Longest == (IF Fast > Slow THEN Fast ELSE Slow) + Jitter

(* A cycle that just began finds that it has probed the address: it is a   *)
(* whole cycle, a wait, and the dials of the next cycle until it is found. *)
Found == Cooldown + Longest + 2 * Dials

(* A probe that was answered before the agent left is entered after the    *)
(* other dials.                                                            *)
Gone == Dials + TTL + 1

LongEnough == IF Found > Gone THEN Found ELSE Gone

Later(time, ticks, limit) == IF time + ticks > limit THEN limit ELSE time + ticks

(* The time that an address has been in a situation goes on from one state *)
(* to the next.                                                            *)
GoesOn(a) == (Left(a) /\ Left(a)') \/ (Silent(a) /\ Silent(a)')

Watch(ticks) ==
  /\ same' = [a \in Addr |-> IF GoesOn(a) THEN Later(same[a], ticks, LongEnough) ELSE 0]
  /\ stays' = [n \in Node |->
                 IF where'[n] = where[n] THEN Later(stays[n], ticks, Old) ELSE 0]

TimedInit ==
  /\ Init
  /\ same = [a \in Addr |-> 0]
  /\ stays = [n \in Node |-> 0]

TimedNext ==
  \/ (Network \/ Probing) /\ Watch(0)
  \/ Tick /\ Watch(1)

TimedSpec == TimedInit /\ [][TimedNext]_timedVars

-----------------------------------------------------------------------------
(* An agent that is where it is without being heard is listed after so     *)
(* many ticks, and from then on without a break: the entry of a probe does *)
(* not expire before the next probe renews it, however long the dials of   *)
(* the other addresses take.                                               *)
FoundInTime == \A a \in Addr : Silent(a) /\ same[a] >= Found => a \in Listed

(* An address that nobody has is not listed any more after so many ticks,  *)
(* whichever way it got there.                                             *)
GoneInTime == \A a \in Addr : Left(a) /\ same[a] >= Gone => a \notin Listed

(* An agent that stays where it is for longer than an entry lasts is not   *)
(* listed elsewhere, and one that is not there not at all, in whatever     *)
(* order its hellos are read.                                              *)
RightInTime ==
  \A n \in Node : stays[n] > TTL /\ n \in Heard => peer[n].addr = where[n]
=============================================================================
