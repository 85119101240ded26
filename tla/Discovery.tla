------------------------------ MODULE Discovery ------------------------------
(***************************************************************************)
(* The discovery of other agents on the LAN (internal/discovery).  An      *)
(* agent hears of another one in two ways: by the hello that every agent   *)
(* multicasts and broadcasts (handlePacket), and by connecting to the      *)
(* addresses of the ARP table (probeLoop), which finds an agent whose      *)
(* hellos do not get through.  Whoever was not heard of for a while is     *)
(* not listed any more.                                                    *)
(*                                                                         *)
(* Time goes by in ticks, which find no timer due and no packet unread:    *)
(* the goroutines are faster than a tick.  Whatever was last seen longer   *)
(* ago than TTL is as good as deleted: Peers deletes it, and nobody else   *)
(* regards it.                                                             *)
(*                                                                         *)
(* The environment is kind to probes: the ARP table has the address of     *)
(* every agent that is there, and it accepts a connection in time.  It is  *)
(* not kind to hellos, any of which may be lost, or may wait in one of the *)
(* two sockets until the other has been read.                              *)
(*                                                                         *)
(* Left out: interfaces and networks, ports, packets that are not hellos   *)
(* of another agent, and what a hello says besides who sent it.            *)
(*                                                                         *)
(* A definition named Bug... is a plausible mistake in the definition that *)
(* follows it: PROJECT.json says which property notices it.                *)
(***************************************************************************)
EXTENDS Integers, FiniteSets

CONSTANTS
  Node,     \* the other agents
  MaxAddr,  \* the addresses of the LAN, in the order of the ARP table
  TTL,      \* peerTTL: 45 s, in ticks
  Cooldown, \* an address is not probed again before: 15 s
  Recent,   \* a peer seen since then makes probing less urgent: 15 s
  Fast,     \* from one cycle of probes to the next: 6 s ...
  Slow,     \* ... or 20 s, ...
  Jitter,   \* ... or a tick later
  MaxHosts, \* addresses probed in a cycle: 20
  Dials     \* a cycle takes no longer: 20 dials of at most 480 ms

ASSUME ConstantsAssumption ==
  /\ MaxAddr \in Nat \ {0}
  /\ {TTL, Cooldown, Recent, Fast, Slow, MaxHosts} \subseteq Nat \ {0}
  /\ {Jitter, Dials} \subseteq Nat

Addr == 1..MaxAddr
Nowhere == 0

VARIABLES
  where,   \* the address of each agent
  air,     \* hellos that wait in a socket: the addresses they came from
  peer,    \* peersByID: the address and age of each agent that was heard of
  probe,   \* the age of the entry "probe-<address>" of each address
  probed,  \* lastProbe: the age of the last probe of each address
  phase,   \* what probeLoop is doing
  todo,    \* the candidates of this cycle that are left
  checked, \* the number of those probed
  target,  \* the address it connects to
  began,   \* the age of this cycle
  wait     \* until the next one

cycle == <<phase, todo, checked, target, began, wait>>
vars == <<where, air, peer, probe, probed, cycle>>

Old == TTL + 1
Unknown == [addr |-> Nowhere, age |-> Old]
At(a) == {n \in Node : where[n] = a}
Occupied == {a \in Addr : At(a) # {}}

(* hasFreshRealPeerForAddr                                                 *)
HasRealPeer(a) == \E n \in Node : peer[n].addr = a

(* Peers: the addresses that it returns, of agents and of probes.          *)
Heard == {n \in Node : peer[n].age <= TTL}
Probed == {a \in Addr : probe[a] <= TTL /\ ~HasRealPeer(a)}
Listed == {peer[n].addr : n \in Heard} \cup Probed

Init ==
  /\ where \in [Node -> Addr \cup {Nowhere}]
  /\ \A n, m \in Node : where[n] = where[m] => n = m \/ where[n] = Nowhere
  /\ air = [n \in Node |-> {}]
  /\ peer = [n \in Node |-> Unknown]
  /\ probe = [a \in Addr |-> Old]
  /\ probed = [a \in Addr |-> Cooldown + Dials]
  /\ phase = "wait"
  /\ todo = {}
  /\ checked = 0
  /\ target = Nowhere
  /\ began = 0
  /\ wait = 1

-----------------------------------------------------------------------------
(* An agent starts, stops or gets another address.                         *)
Moves(n, a) ==
  /\ a # where[n]
  /\ a # Nowhere => At(a) = {}
  /\ where' = [where EXCEPT ![n] = a]
  /\ UNCHANGED <<air, peer, probe, probed, cycle>>

(* sendHelloMulticast and sendHelloBroadcast of an agent, when the hello   *)
(* arrives.                                                                *)
Hello(n) ==
  /\ where[n] # Nowhere
  /\ air' = [air EXCEPT ![n] = @ \cup {where[n]}]
  /\ UNCHANGED <<where, peer, probe, probed, cycle>>

(* An agent that is known was seen again.                                  *)
BugSeen(n, a) == [addr |-> IF n \in Heard THEN peer[n].addr ELSE a, age |-> 0]

Seen(n, a) == [addr |-> a, age |-> 0]

(* handlePacket, called by the two listening loops.                        *)
HandlePacket(n, a) ==
  /\ a \in air[n]
  /\ air' = [air EXCEPT ![n] = @ \ {a}]
  /\ peer' = [peer EXCEPT ![n] = Seen(n, a)]
  /\ UNCHANGED <<where, probe, probed, cycle>>

-----------------------------------------------------------------------------
(* probeLoop.                                                              *)

(* nextProbeInterval: entries of probes count as well.                     *)
Stable ==
  \/ \E n \in Node : peer[n].age <= Recent
  \/ \E a \in Addr : probe[a] <= Recent

Waits ==
  /\ phase' = "wait"
  /\ \E jitter \in 0..Jitter : wait' = (IF Stable THEN Slow ELSE Fast) + jitter
  /\ todo' = {}
  /\ checked' = 0
  /\ target' = Nowhere
  /\ began' = 0
  /\ UNCHANGED <<where, air, peer, probe, probed>>

(* candidateIPsFromARP: the ARP table keeps addresses that nobody has any  *)
(* more.                                                                   *)
Candidates(arp) == Occupied \subseteq arp

(* runProbeCycle                                                           *)
BeginCycle(arp) ==
  /\ phase = "wait" /\ wait = 0
  /\ Candidates(arp)
  /\ arp # {}
  /\ phase' = "scan"
  /\ todo' = arp
  /\ UNCHANGED <<where, air, peer, probe, probed, checked, target, began, wait>>

NoCycle ==
  /\ phase = "wait" /\ wait = 0
  /\ Candidates({})
  /\ Waits

(* Only what is not listed is probed.                                      *)
BugDue(a) == probed[a] - began >= Cooldown /\ probe[a] > TTL

(* Not wasProbedRecently, when the cycle began.                            *)
Due(a) == probed[a] - began >= Cooldown

Dues == {a \in todo : Due(a)}

(* markProbed, with the time at which the cycle began.                     *)
Dial(a) ==
  /\ phase = "scan"
  /\ checked < MaxHosts
  /\ a \in Dues
  /\ \A b \in Dues : a <= b
  /\ checked' = checked + 1
  /\ todo' = {b \in todo : b > a}
  /\ probed' = [probed EXCEPT ![a] = began]
  /\ phase' = "dial"
  /\ target' = a
  /\ UNCHANGED <<where, air, peer, probe, began, wait>>

(* An address was seen when it was probed.                                 *)
BugAnswers == TRUE

Answers == At(target) # {}

DialTimeout ==
  /\ phase = "dial"
  /\ phase' = IF Answers THEN "open" ELSE "scan"
  /\ target' = IF Answers THEN target ELSE Nowhere
  /\ UNCHANGED <<where, air, peer, probe, probed, todo, checked, began, wait>>

(* upsertProbePeer                                                         *)
UpsertProbePeer ==
  /\ phase = "open"
  /\ probe' = IF HasRealPeer(target) THEN probe ELSE [probe EXCEPT ![target] = 0]
  /\ phase' = "scan"
  /\ target' = Nowhere
  /\ UNCHANGED <<where, air, peer, probed, todo, checked, began, wait>>

EndCycle ==
  /\ phase = "scan"
  /\ checked = MaxHosts \/ Dues = {}
  /\ Waits

Probing ==
  \/ \E arp \in SUBSET Addr : BeginCycle(arp)
  \/ NoCycle
  \/ \E a \in Addr : Dial(a)
  \/ DialTimeout \/ UpsertProbePeer \/ EndCycle

-----------------------------------------------------------------------------
Older(age, limit) == IF age < limit THEN age + 1 ELSE age

(* An entry is kept for a tick longer.                                     *)
BugAges(p) == IF p.age <= TTL THEN [p EXCEPT !.age = @ + 1] ELSE Unknown

Ages(p) == IF p.age < TTL THEN [p EXCEPT !.age = @ + 1] ELSE Unknown

Tick ==
  /\ \A n \in Node : air[n] = {}
  /\ IF phase = "wait" THEN wait > 0 ELSE began < Dials
  /\ peer' = [n \in Node |-> Ages(peer[n])]
  /\ probe' = [a \in Addr |-> Older(probe[a], Old)]
  /\ probed' = [a \in Addr |-> Older(probed[a], Cooldown + Dials)]
  /\ wait' = IF phase = "wait" THEN wait - 1 ELSE wait
  /\ began' = IF phase = "wait" THEN began ELSE began + 1
  /\ UNCHANGED <<where, air, phase, todo, checked, target>>

Network ==
  \E n \in Node :
    \/ \E a \in Addr \cup {Nowhere} : Moves(n, a)
    \/ Hello(n)
    \/ \E a \in Addr : HandlePacket(n, a)

Next == Network \/ Probing \/ Tick

Spec == Init /\ [][Next]_vars

-----------------------------------------------------------------------------
(* The shape of every variable.                                            *)
TypeOK ==
  /\ where \in [Node -> Addr \cup {Nowhere}]
  /\ air \in [Node -> SUBSET Addr]
  /\ peer \in [Node -> [addr : Addr, age : 0..TTL] \cup {Unknown}]
  /\ probe \in [Addr -> 0..Old]
  /\ probed \in [Addr -> 0..(Cooldown + Dials)]
  /\ phase \in {"wait", "scan", "dial", "open"}
  /\ todo \subseteq Addr
  /\ checked \in 0..MaxHosts
  /\ target \in Addr \cup {Nowhere}
  /\ target # Nowhere <=> phase \in {"dial", "open"}
  /\ phase = "wait" => todo = {} /\ checked = 0 /\ began = 0
  /\ began \in 0..Dials
  /\ wait \in 0..((IF Fast > Slow THEN Fast ELSE Slow) + Jitter)
=============================================================================
