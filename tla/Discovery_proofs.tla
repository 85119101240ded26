-------------------------- MODULE Discovery_proofs --------------------------
(***************************************************************************)
(* Proofs about the discovery of agents (Discovery), for any agents and    *)
(* addresses, and any intervals.                                           *)
(***************************************************************************)
EXTENDS DiscoveryTime, TLAPS

Entry == [addr : Addr, age : 0..TTL] \cup {Unknown}

LEMMA Bounds ==
  /\ MaxAddr \in Nat /\ MaxAddr >= 1 /\ TTL \in Nat /\ TTL >= 1
  /\ Cooldown \in Nat /\ Fast \in Nat /\ Fast >= 1 /\ Slow \in Nat /\ Slow >= 1
  /\ MaxHosts \in Nat /\ Jitter \in Nat /\ Dials \in Nat
  /\ Longest \in Nat /\ Longest >= 1
BY ConstantsAssumption DEF Longest

(* The agents and what was heard of them.                                  *)
PeerTypes ==
  /\ where \in [Node -> Addr \cup {Nowhere}]
  /\ air \in [Node -> SUBSET Addr]
  /\ peer \in [Node -> Entry]

ProbeTypes ==
  /\ probe \in [Addr -> 0..Old]
  /\ probed \in [Addr -> 0..(Cooldown + Dials)]

(* The loop of probes.                                                     *)
CycleTypes ==
  /\ phase \in {"wait", "scan", "dial", "open"}
  /\ todo \subseteq Addr
  /\ checked \in 0..MaxHosts
  /\ target \in Addr \cup {Nowhere}
  /\ target # Nowhere <=> phase \in {"dial", "open"}
  /\ phase = "wait" => todo = {} /\ checked = 0 /\ began = 0
  /\ began \in 0..Dials
  /\ wait \in 0..Longest

LEMMA Types == TypeOK <=> PeerTypes /\ ProbeTypes /\ CycleTypes
BY DEF TypeOK, PeerTypes, ProbeTypes, CycleTypes, Entry, Longest

LEMMA Addresses == Nowhere \notin Addr /\ Unknown \in Entry
BY DEF Addr, Nowhere, Entry

LEMMA TypeInit == Init => TypeOK
<1> SUFFICES ASSUME Init PROVE PeerTypes /\ ProbeTypes /\ CycleTypes
  BY Types
<1>1. PeerTypes
  BY Addresses DEF Init, PeerTypes
<1>2. ProbeTypes
  BY Bounds DEF Init, ProbeTypes, Old
<1>3. CycleTypes
  BY Bounds DEF Init, CycleTypes
<1> QED  BY <1>1, <1>2, <1>3

-----------------------------------------------------------------------------
(* Agents move, send hellos and are heard.                                 *)
LEMMA NetworkStep ==
  ASSUME PeerTypes, ProbeTypes, CycleTypes, Network
  PROVE  PeerTypes' /\ ProbeTypes' /\ CycleTypes'
<1> PICK n \in Node :
      \/ \E a \in Addr \cup {Nowhere} : Moves(n, a)
      \/ Hello(n)
      \/ \E a \in Addr : HandlePacket(n, a)
  BY DEF Network
<1>1. UNCHANGED <<probe, probed, cycle>>
  BY DEF Moves, Hello, HandlePacket
<1>2. ProbeTypes' /\ CycleTypes'
  BY <1>1 DEF ProbeTypes, CycleTypes, cycle
<1>3. ASSUME NEW a \in Addr \cup {Nowhere}, Moves(n, a) PROVE PeerTypes'
  BY <1>3 DEF Moves, PeerTypes
<1>4. CASE Hello(n)
  <2>1. where[n] \in Addr
    BY <1>4 DEF Hello, PeerTypes
  <2>2. PeerTypes'
    BY <1>4, <2>1 DEF Hello, PeerTypes
  <2> QED  BY <1>2, <2>2
<1>5. ASSUME NEW a \in Addr, HandlePacket(n, a) PROVE PeerTypes'
  <2>1. Seen(n, a) \in Entry
    BY Bounds DEF Seen, Entry
  <2> QED  BY <1>5, <2>1 DEF HandlePacket, PeerTypes
<1> QED  BY <1>2, <1>3, <1>4, <1>5

(* The loop waits for its next cycle.                                      *)
LEMMA WaitsStep ==
  ASSUME PeerTypes, ProbeTypes, CycleTypes, Waits
  PROVE  PeerTypes' /\ ProbeTypes' /\ CycleTypes'
<1>1. PeerTypes' /\ ProbeTypes'
  BY DEF Waits, PeerTypes, ProbeTypes
<1>2. wait' \in 0..Longest
  <2>1. PICK jitter \in 0..Jitter : wait' = (IF Stable THEN Slow ELSE Fast) + jitter
    BY DEF Waits
  <2> QED  BY <2>1, Bounds DEF Longest
<1>3. CycleTypes'
  BY <1>2, Bounds DEF Waits, CycleTypes
<1> QED  BY <1>1, <1>3

LEMMA ProbingStep ==
  ASSUME PeerTypes, ProbeTypes, CycleTypes, Probing
  PROVE  PeerTypes' /\ ProbeTypes' /\ CycleTypes'
<1>1. ASSUME NEW arp \in SUBSET Addr, BeginCycle(arp)
      PROVE  PeerTypes' /\ ProbeTypes' /\ CycleTypes'
  <2>1. PeerTypes' /\ ProbeTypes'
    BY <1>1 DEF BeginCycle, PeerTypes, ProbeTypes
  <2>2. CycleTypes'
    BY <1>1 DEF BeginCycle, CycleTypes
  <2> QED  BY <2>1, <2>2
<1>2. ASSUME NEW a \in Addr, Dial(a)
      PROVE  PeerTypes' /\ ProbeTypes' /\ CycleTypes'
  <2>1. PeerTypes'
    BY <1>2 DEF Dial, PeerTypes
  <2>2. began \in 0..(Cooldown + Dials)
    BY Bounds DEF CycleTypes
  <2>3. ProbeTypes'
    BY <1>2, <2>2 DEF Dial, ProbeTypes
  <2>4. checked' \in 0..MaxHosts
    BY <1>2, Bounds DEF Dial, CycleTypes
  <2>5. CycleTypes'
    BY <1>2, <2>4, Addresses DEF Dial, CycleTypes
  <2> QED  BY <2>1, <2>3, <2>5
<1>3. CASE DialTimeout
  <2>1. PeerTypes' /\ ProbeTypes'
    BY <1>3 DEF DialTimeout, PeerTypes, ProbeTypes
  <2>2. CycleTypes'
    BY <1>3 DEF DialTimeout, CycleTypes
  <2> QED  BY <2>1, <2>2
<1>4. CASE UpsertProbePeer
  <2>1. PeerTypes'
    BY <1>4 DEF UpsertProbePeer, PeerTypes
  <2>2. 0 \in 0..Old
    BY Bounds DEF Old
  <2>3. ProbeTypes'
    BY <1>4, <2>2 DEF UpsertProbePeer, ProbeTypes
  <2>4. CycleTypes'
    BY <1>4 DEF UpsertProbePeer, CycleTypes
  <2> QED  BY <2>1, <2>3, <2>4
<1>5. CASE NoCycle \/ EndCycle
  BY <1>5, WaitsStep DEF NoCycle, EndCycle
<1> QED  BY <1>1, <1>2, <1>3, <1>4, <1>5 DEF Probing

(* Time goes by.                                                           *)
LEMMA TickStep ==
  ASSUME PeerTypes, ProbeTypes, CycleTypes, Tick
  PROVE  PeerTypes' /\ ProbeTypes' /\ CycleTypes'
<1>1. ASSUME NEW e \in Entry PROVE Ages(e) \in Entry
  <2>1. CASE e.age < TTL
    <3>1. e # Unknown
      BY <2>1, Bounds DEF Unknown, Old
    <3>2. e \in [addr : Addr, age : 0..TTL]
      BY <3>1 DEF Entry
    <3>3. [e EXCEPT !.age = @ + 1] \in [addr : Addr, age : 0..TTL]
      BY <2>1, <3>2, Bounds
    <3> QED  BY <2>1, <3>3 DEF Ages, Entry
  <2>2. CASE ~(e.age < TTL)
    BY <2>2 DEF Ages, Entry
  <2> QED  BY <2>1, <2>2
<1>2. PeerTypes'
  BY <1>1 DEF Tick, PeerTypes
<1>3. \A limit \in Nat : \A age \in 0..limit : Older(age, limit) \in 0..limit
  BY DEF Older
<1>4. Old \in Nat /\ Cooldown + Dials \in Nat
  BY Bounds DEF Old
<1>5. ProbeTypes'
  BY <1>3, <1>4 DEF Tick, ProbeTypes
<1>6. wait' \in 0..Longest /\ began' \in 0..Dials /\ (phase = "wait" => began' = 0)
  BY Bounds DEF Tick, CycleTypes
<1>7. CycleTypes'
  BY <1>6 DEF Tick, CycleTypes
<1> QED  BY <1>2, <1>5, <1>7

LEMMA TypeStep == TypeOK /\ [Next]_vars => TypeOK'
<1> SUFFICES ASSUME PeerTypes, ProbeTypes, CycleTypes, [Next]_vars
             PROVE  PeerTypes' /\ ProbeTypes' /\ CycleTypes'
  BY Types DEF TypeOK, PeerTypes, ProbeTypes, CycleTypes, Entry, Longest
<1>1. CASE UNCHANGED vars
  BY <1>1 DEF vars, cycle, PeerTypes, ProbeTypes, CycleTypes
<1> QED  BY <1>1, NetworkStep, ProbingStep, TickStep DEF Next

(* The variables always have their shape: an age is never above the limit  *)
(* of its entry, and a cycle that waits has nothing left to do.            *)
THEOREM TypeCorrect == Spec => []TypeOK
<1>1. Init => TypeOK
  BY TypeInit
<1>2. TypeOK /\ [Next]_vars => TypeOK'
  BY TypeStep
<1> QED  BY <1>1, <1>2, PTL DEF Spec

-----------------------------------------------------------------------------
(* The watch.                                                              *)

WatchTypes ==
  /\ same \in [Addr -> 0..LongEnough]
  /\ stays \in [Node -> 0..Old]

AllTypes == PeerTypes /\ ProbeTypes /\ CycleTypes /\ WatchTypes

LEMMA Limits ==
  /\ Found \in Nat /\ Gone \in Nat /\ LongEnough \in Nat /\ Old \in Nat
  /\ Found <= LongEnough /\ Gone <= LongEnough
BY Bounds DEF Found, Gone, LongEnough, Old

LEMMA LaterType ==
  ASSUME NEW limit \in Nat, NEW time \in 0..limit
  PROVE  /\ Later(time, 0, limit) = time
         /\ Later(time, 1, limit) \in 0..limit
         /\ Later(time, 1, limit) <= time + 1
BY DEF Later

(* A timed step is one of the agent, or none.                              *)
LEMMA TimedStep == [TimedNext]_timedVars => [Next]_vars
BY DEF TimedNext, Next, timedVars

LEMMA AllTypesInit == TimedInit => AllTypes
<1> SUFFICES ASSUME TimedInit PROVE AllTypes
  OBVIOUS
<1>1. PeerTypes /\ ProbeTypes /\ CycleTypes
  BY TypeInit, Types DEF TimedInit
<1>2. WatchTypes
  BY Limits DEF TimedInit, WatchTypes
<1> QED  BY <1>1, <1>2 DEF AllTypes

LEMMA AllTypesStep ==
  ASSUME AllTypes, [TimedNext]_timedVars
  PROVE  AllTypes'
<1>1. PeerTypes' /\ ProbeTypes' /\ CycleTypes'
  <2>1. TypeOK'
    BY TimedStep, TypeStep, Types DEF AllTypes
  <2> QED  BY <2>1 DEF TypeOK, PeerTypes, ProbeTypes, CycleTypes, Entry, Longest
<1>2. ASSUME NEW ticks \in {0, 1}, Watch(ticks) PROVE WatchTypes'
  <2>1. \A limit \in Nat : \A time \in 0..limit : Later(time, ticks, limit) \in 0..limit
    BY DEF Later
  <2>2. \A a \in Addr : Later(same[a], ticks, LongEnough) \in 0..LongEnough
    BY <2>1, Limits DEF AllTypes, WatchTypes
  <2>3. \A n \in Node : Later(stays[n], ticks, Old) \in 0..Old
    BY <2>1, Limits DEF AllTypes, WatchTypes
  <2> QED  BY <1>2, <2>2, <2>3, Limits DEF Watch, WatchTypes
<1>3. CASE UNCHANGED timedVars
  <2>1. UNCHANGED <<same, stays>>
    BY <1>3 DEF timedVars, watch
  <2>2. WatchTypes'
    BY <2>1 DEF AllTypes, WatchTypes
  <2> QED  BY <1>1, <2>2 DEF AllTypes
<1>4. CASE TimedNext
  <2>1. WatchTypes'
    BY <1>2, <1>4 DEF TimedNext
  <2> QED  BY <1>1, <2>1 DEF AllTypes
<1> QED  BY <1>3, <1>4

-----------------------------------------------------------------------------
(* An address that was left.                                               *)

(* What is still known of an address that was left.                        *)
FadesIn(a) ==
  Left(a) =>
    /\ \A n \in Node : a \in air[n] => same[a] = 0
    /\ \A n \in Node : peer[n].addr = a => peer[n].age >= same[a]
    /\ phase = "open" /\ target = a => same[a] <= began
    /\ probe[a] >= same[a] - Dials \/ probe[a] = Old

Fades == \A a \in Addr : FadesIn(a)

LEMMA FadesInit == TimedInit => Fades
BY AllTypesInit, Bounds DEF TimedInit, Init, Fades, FadesIn, AllTypes, WatchTypes, PeerTypes,
   Nowhere, Addr, Unknown, Old

LEMMA FadesNew ==
  ASSUME NEW a \in Addr, AllTypes', same'[a] = 0
  PROVE  FadesIn(a)'
<1>1. \A n \in Node : peer'[n].age >= 0
  BY Bounds DEF AllTypes, PeerTypes, Entry, Unknown, Old
<1>2. began' >= 0 /\ probe'[a] >= 0 - Dials
  BY Bounds DEF AllTypes, ProbeTypes, CycleTypes, Old
<1> QED  BY <1>1, <1>2 DEF FadesIn

LEMMA FadesStep ==
  ASSUME AllTypes, AllTypes', Fades, [TimedNext]_timedVars
  PROVE  Fades'
<1> SUFFICES ASSUME NEW a \in Addr, Left(a)' PROVE FadesIn(a)'
  BY DEF Fades, FadesIn
<1>1. CASE UNCHANGED timedVars
  BY <1>1 DEF timedVars, watch, vars, cycle, Fades, FadesIn, Left, Occupied, At
<1>2. CASE ~Left(a) /\ ~UNCHANGED timedVars
  <2>1. ~GoesOn(a)
    BY <1>2 DEF GoesOn, Left, Silent
  <2>2. same'[a] = 0
    BY <1>2, <2>1 DEF TimedNext, Watch
  <2> QED  BY <2>2, FadesNew
<1>3. CASE Left(a) /\ (Network \/ Probing) /\ Watch(0)
  <2>1. GoesOn(a)
    BY <1>3 DEF GoesOn
  <2>2. same'[a] = same[a] /\ same[a] \in 0..LongEnough
    BY <1>3, <2>1, LaterType, Limits DEF Watch, AllTypes, WatchTypes
  <2>3. FadesIn(a) /\ \A n \in Node : where[n] # a
    BY <1>3 DEF Fades, Left, Occupied, At
  <2>4. CASE Network
    <3>1. PICK n \in Node :
            \/ \E b \in Addr \cup {Nowhere} : Moves(n, b)
            \/ Hello(n)
            \/ \E b \in Addr : HandlePacket(n, b)
      BY <2>4 DEF Network
    <3>2. UNCHANGED <<probe, phase, target, began>>
      BY <3>1 DEF Moves, Hello, HandlePacket, cycle
    <3>3. ASSUME NEW b \in Addr \cup {Nowhere}, Moves(n, b) PROVE FadesIn(a)'
      BY <1>3, <2>2, <2>3, <3>2, <3>3 DEF Moves, FadesIn
    <3>4. CASE Hello(n)
      <4>1. \A m \in Node : a \in air'[m] => a \in air[m]
        BY <2>3, <3>4 DEF Hello, AllTypes, PeerTypes
      <4> QED  BY <1>3, <2>2, <2>3, <3>2, <3>4, <4>1 DEF Hello, FadesIn
    <3>5. ASSUME NEW b \in Addr, HandlePacket(n, b) PROVE FadesIn(a)'
      <4>1. \A m \in Node : a \in air'[m] => a \in air[m]
        BY <3>5 DEF HandlePacket, AllTypes, PeerTypes
      <4>2. \A m \in Node : peer'[m] = IF m = n THEN Seen(n, b) ELSE peer[m]
        BY <3>5 DEF HandlePacket, AllTypes, PeerTypes
      <4>3. b = a => same[a] = 0
        BY <1>3, <2>3, <3>5 DEF HandlePacket, FadesIn
      <4>4. \A m \in Node : peer'[m].addr = a => peer'[m].age >= same[a]
        BY <1>3, <2>3, <4>2, <4>3 DEF Seen, FadesIn
      <4> QED  BY <1>3, <2>2, <2>3, <3>2, <4>1, <4>4 DEF FadesIn
    <3> QED  BY <3>1, <3>3, <3>4, <3>5
  <2>5. CASE Probing
    <3>1. UNCHANGED <<where, air, peer>>
      BY <2>5 DEF Probing, BeginCycle, NoCycle, Waits, Dial, DialTimeout, UpsertProbePeer, EndCycle
    <3>2. phase' = "open" /\ target' = a => same[a] <= began'
      <4>1. CASE DialTimeout
        <5>1. target # a \/ phase' # "open"
          BY <1>3, <4>1 DEF DialTimeout, Answers, Left, Occupied, AllTypes, CycleTypes
        <5> QED  BY <4>1, <5>1 DEF DialTimeout
      <4>2. CASE UpsertProbePeer \/ NoCycle \/ EndCycle
        BY <4>2 DEF UpsertProbePeer, NoCycle, EndCycle, Waits
      <4>3. ASSUME NEW arp \in SUBSET Addr, BeginCycle(arp) PROVE phase' # "open"
        BY <4>3 DEF BeginCycle
      <4>4. ASSUME NEW b \in Addr, Dial(b) PROVE phase' # "open"
        BY <4>4 DEF Dial
      <4> QED  BY <2>5, <4>1, <4>2, <4>3, <4>4 DEF Probing
    <3>3. probe'[a] >= same[a] - Dials \/ probe'[a] = Old
      <4>1. CASE UpsertProbePeer
        <5>1. probe'[a] = probe[a] \/ (target = a /\ probe'[a] = 0)
          BY <4>1 DEF UpsertProbePeer, AllTypes, ProbeTypes
        <5>2. target = a => same[a] <= began /\ began <= Dials
          BY <1>3, <2>3, <4>1, Bounds DEF UpsertProbePeer, FadesIn, AllTypes, CycleTypes
        <5> QED  BY <1>3, <2>2, <2>3, <5>1, <5>2, Bounds DEF FadesIn, AllTypes, CycleTypes
      <4>2. CASE UNCHANGED probe
        BY <1>3, <2>3, <4>2 DEF FadesIn
      <4> QED  BY <2>5, <4>1, <4>2 DEF Probing, BeginCycle, NoCycle, EndCycle, Waits, Dial, DialTimeout
    <3> QED  BY <1>3, <2>2, <2>3, <3>1, <3>2, <3>3 DEF FadesIn
  <2> QED  BY <1>3, <2>4, <2>5
<1>4. CASE Left(a) /\ Tick /\ Watch(1)
  <2>1. GoesOn(a)
    BY <1>4 DEF GoesOn
  <2>2. same'[a] <= same[a] + 1 /\ same[a] \in Nat /\ same'[a] \in Nat
    BY <1>4, <2>1, LaterType, Limits DEF Watch, AllTypes, WatchTypes
  <2>3. FadesIn(a)
    BY DEF Fades
  <2>4. \A n \in Node : a \notin air'[n]
    BY <1>4 DEF Tick
  <2>5. ASSUME NEW n \in Node, peer'[n].addr = a PROVE peer'[n].age >= same'[a]
    <3>1. peer'[n] = Ages(peer[n]) /\ peer[n] \in Entry
      BY <1>4 DEF Tick, AllTypes, PeerTypes
    <3>2. peer'[n] # Unknown
      BY <2>5, Addresses DEF Unknown
    <3>3. peer[n].age < TTL /\ peer'[n] = [peer[n] EXCEPT !.age = @ + 1]
      BY <3>1, <3>2 DEF Ages
    <3>4. peer[n] \in [addr : Addr, age : 0..TTL]
      BY <3>1, <3>3, Bounds DEF Entry, Unknown, Old
    <3>5. peer[n].addr = a /\ peer'[n].age = peer[n].age + 1 /\ peer[n].age \in Nat
      BY <2>5, <3>3, <3>4
    <3>6. peer[n].age >= same[a]
      BY <1>4, <2>3, <3>5 DEF FadesIn
    <3> QED  BY <2>2, <3>5, <3>6
  <2>6. phase' = "open" /\ target' = a => same'[a] <= began'
    BY <1>4, <2>2, <2>3, Bounds DEF Tick, FadesIn, AllTypes, CycleTypes
  <2>7. probe'[a] >= same'[a] - Dials \/ probe'[a] = Old
    <3>1. probe'[a] = Older(probe[a], Old) /\ probe[a] \in 0..Old
      BY <1>4 DEF Tick, AllTypes, ProbeTypes
    <3> QED  BY <1>4, <2>2, <2>3, <3>1, Limits, Bounds DEF Older, FadesIn
  <2> QED  BY <2>4, <2>5, <2>6, <2>7 DEF FadesIn
<1> QED  BY <1>1, <1>2, <1>3, <1>4 DEF TimedNext

LEMMA FadesIsEnough == AllTypes /\ Fades => GoneInTime
<1> SUFFICES ASSUME AllTypes, Fades, NEW a \in Addr, Left(a), same[a] >= Gone
             PROVE  a \notin Listed
  BY DEF GoneInTime
<1>1. FadesIn(a) /\ same[a] \in Nat /\ probe[a] \in 0..Old
  BY DEF Fades, AllTypes, WatchTypes, ProbeTypes
<1>2. \A n \in Heard : peer[n].addr # a
  <2> SUFFICES ASSUME NEW n \in Node, peer[n].age <= TTL, peer[n].addr = a PROVE FALSE
    BY DEF Heard
  <2>1. peer[n].age >= same[a] /\ peer[n].age \in Nat
    BY <1>1, Bounds DEF FadesIn, AllTypes, PeerTypes, Entry, Unknown, Old
  <2> QED  BY <1>1, <2>1, Bounds DEF Gone
<1>3. probe[a] > TTL
  BY <1>1, Bounds DEF FadesIn, Gone, Old
<1> QED  BY <1>1, <1>2, <1>3, Bounds DEF Listed, Probed, Old

-----------------------------------------------------------------------------
(* An agent that has moved.                                                *)

(* What was heard of an agent that is not where it is.                     *)
MovedOn(n) ==
  /\ \A a \in air[n] : a # where[n] => stays[n] = 0
  /\ peer[n].addr # where[n] /\ peer[n].addr # Nowhere => peer[n].age >= stays[n]

Moved == \A n \in Node : MovedOn(n)

LEMMA MovedInit == TimedInit => Moved
BY Addresses DEF TimedInit, Init, Moved, MovedOn, Unknown

LEMMA MovedStep ==
  ASSUME AllTypes, AllTypes', Moved, [TimedNext]_timedVars
  PROVE  Moved'
<1> SUFFICES ASSUME NEW n \in Node PROVE MovedOn(n)'
  BY DEF Moved
<1>1. MovedOn(n) /\ stays[n] \in 0..Old
  BY DEF Moved, AllTypes, WatchTypes
<1>2. peer'[n].age \in Nat
  BY Limits, Bounds DEF AllTypes, PeerTypes, Entry, Unknown
<1>3. CASE UNCHANGED timedVars
  BY <1>1, <1>3 DEF timedVars, watch, vars, MovedOn
<1>4. CASE where'[n] # where[n] /\ TimedNext
  <2>1. stays'[n] = 0
    BY <1>4 DEF TimedNext, Watch
  <2> QED  BY <1>2, <2>1 DEF MovedOn
<1>5. CASE where'[n] = where[n] /\ (Network \/ Probing) /\ Watch(0)
  <2>1. stays'[n] = stays[n]
    BY <1>1, <1>5, LaterType, Limits DEF Watch
  <2>2. CASE Network
    <3>1. PICK m \in Node :
            \/ \E b \in Addr \cup {Nowhere} : Moves(m, b)
            \/ Hello(m)
            \/ \E b \in Addr : HandlePacket(m, b)
      BY <2>2 DEF Network
    <3>2. ASSUME NEW b \in Addr \cup {Nowhere}, Moves(m, b) PROVE MovedOn(n)'
      BY <1>1, <1>5, <2>1, <3>2 DEF Moves, MovedOn
    <3>3. CASE Hello(m)
      <4>1. air'[n] \subseteq air[n] \cup {where[n]}
        BY <3>3 DEF Hello, AllTypes, PeerTypes
      <4> QED  BY <1>1, <1>5, <2>1, <3>3, <4>1 DEF Hello, MovedOn
    <3>4. ASSUME NEW b \in Addr, HandlePacket(m, b) PROVE MovedOn(n)'
      <4>1. air'[n] \subseteq air[n]
        BY <3>4 DEF HandlePacket, AllTypes, PeerTypes
      <4>2. CASE m = n
        <5>1. peer'[n] = Seen(n, b) /\ b \in air[n]
          BY <3>4, <4>2 DEF HandlePacket, AllTypes, PeerTypes
        <5> QED  BY <1>1, <1>2, <1>5, <2>1, <4>1, <5>1 DEF Seen, MovedOn
      <4>3. CASE m # n
        <5>1. peer'[n] = peer[n]
          BY <3>4, <4>3 DEF HandlePacket, AllTypes, PeerTypes
        <5> QED  BY <1>1, <1>5, <2>1, <4>1, <5>1 DEF MovedOn
      <4> QED  BY <4>2, <4>3
    <3> QED  BY <3>1, <3>2, <3>3, <3>4
  <2>3. CASE Probing
    <3>1. UNCHANGED <<where, air, peer>>
      BY <2>3 DEF Probing, BeginCycle, NoCycle, Waits, Dial, DialTimeout, UpsertProbePeer, EndCycle
    <3> QED  BY <1>1, <2>1, <3>1 DEF MovedOn
  <2> QED  BY <1>5, <2>2, <2>3
<1>6. CASE where'[n] = where[n] /\ Tick /\ Watch(1)
  <2>1. stays'[n] <= stays[n] + 1 /\ stays'[n] \in 0..Old
    BY <1>1, <1>6, LaterType, Limits DEF Watch
  <2>2. air'[n] = {}
    BY <1>6 DEF Tick
  <2>3. ASSUME peer'[n].addr # where[n], peer'[n].addr # Nowhere
        PROVE  peer'[n].age >= stays'[n]
    <3>1. peer'[n] = Ages(peer[n]) /\ peer[n] \in Entry
      BY <1>6 DEF Tick, AllTypes, PeerTypes
    <3>2. peer'[n] # Unknown
      BY <2>3 DEF Unknown
    <3>3. peer[n].age < TTL /\ peer'[n] = [peer[n] EXCEPT !.age = @ + 1]
      BY <3>1, <3>2 DEF Ages
    <3>4. peer[n] \in [addr : Addr, age : 0..TTL]
      BY <3>1, <3>3, Bounds DEF Entry, Unknown, Old
    <3>5. peer[n].addr = peer'[n].addr /\ peer'[n].age = peer[n].age + 1 /\ peer[n].age \in Nat
      BY <3>3, <3>4
    <3>6. peer[n].age >= stays[n]
      BY <1>1, <2>3, <3>5 DEF MovedOn
    <3> QED  BY <1>1, <2>1, <3>5, <3>6
  <2> QED  BY <1>6, <2>2, <2>3 DEF MovedOn
<1> QED  BY <1>3, <1>4, <1>5, <1>6 DEF TimedNext

LEMMA MovedIsEnough == AllTypes /\ Moved => RightInTime
<1> SUFFICES ASSUME AllTypes, Moved, NEW n \in Node, stays[n] > TTL, peer[n].age <= TTL,
                    peer[n].addr # where[n]
             PROVE  FALSE
  BY DEF RightInTime, Heard
<1>1. peer[n] \in [addr : Addr, age : 0..TTL]
  BY Bounds DEF AllTypes, PeerTypes, Entry, Unknown, Old
<1>2. peer[n].addr # Nowhere
  BY <1>1, Addresses
<1>3. peer[n].age >= stays[n] /\ stays[n] \in Nat
  BY <1>2 DEF Moved, MovedOn, AllTypes, WatchTypes
<1> QED  BY <1>1, <1>3, Bounds

-----------------------------------------------------------------------------
(* An address that only probes can find.                                   *)

(* A cycle is going to dial an address, or is about to enter it.           *)
Pending(a) == target = a \/ (a \in todo /\ Due(a))

(* The candidates come after the addresses that were dialed, ...           *)
TodoBound == \A a \in todo : checked < a

(* ... and the address that is dialed was marked in this cycle.            *)
Marked == \A a \in Addr : target = a => probed[a] = began

(* Its entry lasts until the next dial.                                    *)
Lasts(a) ==
  IF phase = "wait"
  THEN probe[a] + wait + Dials <= TTL /\ probed[a] + wait >= Cooldown
  ELSE IF Pending(a) THEN probe[a] + Dials - began <= TTL
  ELSE probe[a] <= began /\ probed[a] = began

(* It is not long any more until its first dial.                           *)
Comes(a) ==
  IF phase = "wait"
  THEN /\ same[a] + wait + Dials < Found
       /\ same[a] <= probed[a] \/ probed[a] >= Cooldown
  ELSE IF Pending(a) THEN same[a] + Dials - began < Found
  ELSE /\ same[a] < Cooldown + began
       /\ same[a] <= probed[a] \/ probed[a] >= Cooldown

Probes(a) == Silent(a) => Lasts(a) \/ Comes(a)

Scans == TodoBound /\ Marked

LEMMA ScansInit == TimedInit => Scans
BY Addresses DEF TimedInit, Init, Scans, TodoBound, Marked

LEMMA ScansStep ==
  ASSUME AllTypes, Scans, [TimedNext]_timedVars
  PROVE  Scans'
<1> USE DEF Scans, TodoBound, Marked
<1>1. CASE UNCHANGED vars
  BY <1>1 DEF vars, cycle
<1>2. CASE Network
  BY <1>2 DEF Network, Moves, Hello, HandlePacket, cycle
<1>3. CASE NoCycle \/ EndCycle
  BY <1>3, Addresses DEF NoCycle, EndCycle, Waits
<1>4. ASSUME NEW arp \in SUBSET Addr, BeginCycle(arp) PROVE Scans'
  BY <1>4 DEF BeginCycle, AllTypes, CycleTypes, Addr
<1>5. ASSUME NEW a \in Addr, Dial(a) PROVE Scans'
  <2>1. \A b \in todo' : checked' < b
    BY <1>5, Bounds DEF Dial, Dues, AllTypes, CycleTypes, Addr
  <2>2. probed'[a] = began' /\ target' = a
    BY <1>5 DEF Dial, AllTypes, ProbeTypes
  <2> QED  BY <2>1, <2>2
<1>6. CASE DialTimeout \/ UpsertProbePeer
  BY <1>6, Addresses DEF DialTimeout, UpsertProbePeer
<1>7. CASE Tick
  <2>1. UNCHANGED <<todo, checked, target>>
    BY <1>7 DEF Tick
  <2>2. ASSUME NEW a \in Addr, target = a PROVE probed'[a] = began'
    <3>1. phase # "wait"
      BY <2>2, Addresses DEF AllTypes, CycleTypes
    <3>2. began \in Nat /\ began < Dials /\ began' = began + 1
      BY <1>7, <3>1, Bounds DEF Tick, AllTypes, CycleTypes
    <3>3. probed'[a] = Older(began, Cooldown + Dials)
      BY <1>7, <2>2 DEF Tick
    <3> QED  BY <3>2, <3>3, Bounds DEF Older
  <2> QED  BY <2>1, <2>2
<1> QED  BY <1>1, <1>2, <1>3, <1>4, <1>5, <1>6, <1>7 DEF TimedNext, timedVars, Probing

AllProbes == \A a \in Addr : Probes(a)

LEMMA Timers ==
  /\ Cooldown >= 1 /\ Recent \in Nat
  /\ Slow + Jitter + 2 * Dials <= TTL
  /\ Cooldown <= Slow
  /\ Dials <= Recent
BY ConstantsAssumption, TimersAssumption

(* The sums of them that decide whether an entry lasts or a probe comes.   *)
LEMMA EntryLasts ==
  ASSUME NEW p \in Nat, NEW b \in Nat, NEW w \in Nat,
         p <= b, b <= Dials, w >= Slow, w <= Slow + Jitter
  PROVE  p + w + Dials <= TTL /\ b + w >= Cooldown
BY Bounds, Timers

LEMMA ProbeComes ==
  ASSUME NEW b \in Nat, NEW w \in Nat, w <= Longest
  PROVE  0 + w + Dials < Found /\ 0 + Dials - b < Found /\ 0 < Cooldown + b
BY Bounds, Timers DEF Found

(* What is used of the types.                                              *)
LEMMA ProbeNumbers ==
  ASSUME AllTypes, NEW a \in Addr
  PROVE  /\ probe[a] \in Nat /\ probed[a] \in Nat /\ same[a] \in Nat
         /\ probed[a] <= Cooldown + Dials /\ same[a] <= LongEnough
         /\ began \in Nat /\ began <= Dials /\ wait \in Nat /\ wait <= Longest
         /\ phase = "wait" => began = 0 /\ todo = {} /\ checked = 0
         /\ target = a => phase \in {"dial", "open"}
BY Bounds, Limits, Addresses DEF AllTypes, ProbeTypes, CycleTypes, WatchTypes

(* An address that has just become silent is found in time.                *)
LEMMA ComesNew ==
  ASSUME NEW a \in Addr, AllTypes', same'[a] = 0
  PROVE  Comes(a)'
<1>1. /\ probed'[a] \in Nat /\ began' \in Nat /\ wait' \in Nat /\ wait' <= Longest
  BY Bounds DEF AllTypes, ProbeTypes, CycleTypes
<1>2. /\ same'[a] + wait' + Dials < Found /\ same'[a] + Dials - began' < Found
      /\ same'[a] < Cooldown + began' /\ same'[a] <= probed'[a]
  BY <1>1, ProbeComes
<1> QED  BY <1>2 DEF Comes

LEMMA ProbesInit == TimedInit => AllProbes
<1> SUFFICES ASSUME TimedInit, NEW a \in Addr PROVE Probes(a)
  BY DEF AllProbes
<1>1. same[a] = 0
  BY DEF TimedInit
<1>2. probed[a] \in Nat /\ phase = "wait" /\ wait <= Longest /\ wait \in Nat
  BY AllTypesInit, ProbeNumbers DEF TimedInit, Init
<1> QED  BY <1>1, <1>2, Bounds, Timers DEF Probes, Comes, Found

(* Nothing that the probes depend on changes.                              *)
LEMMA ProbesSame ==
  ASSUME NEW a \in Addr, Lasts(a) \/ Comes(a),
         same'[a] = same[a], UNCHANGED <<probe, probed, cycle>>
  PROVE  Lasts(a)' \/ Comes(a)'
BY DEF Lasts, Comes, Pending, Due, cycle

(* The loop of probes, with an address that is silent.                     *)
LEMMA ProbesProbing ==
  ASSUME AllTypes, AllTypes', Scans, MaxAddr <= MaxHosts, Probing,
         NEW a \in Addr, Silent(a), Lasts(a) \/ Comes(a), same'[a] = same[a]
  PROVE  Lasts(a)' \/ Comes(a)'
<1> DEFINE p == probe[a] q == probed[a] s == same[a] b == began w == wait
<1>1. /\ p \in Nat /\ q \in Nat /\ s \in Nat /\ b \in Nat /\ w \in Nat
      /\ q <= Cooldown + Dials /\ b <= Dials /\ w <= Longest
      /\ phase = "wait" => began = 0 /\ todo = {} /\ checked = 0
      /\ target = a => phase \in {"dial", "open"}
  BY ProbeNumbers
<1>2. a \in Occupied /\ At(a) # {} /\ ~HasRealPeer(a)
  BY DEF Silent, Occupied
<1>3. ASSUME NEW arp \in SUBSET Addr, BeginCycle(arp) PROVE Lasts(a)' \/ Comes(a)'
  <2>1. a \in todo' /\ phase = "wait" /\ wait = 0 /\ phase' = "scan" /\ b = 0
        /\ UNCHANGED <<probe, probed, began, target>> /\ target # a
    BY <1>1, <1>2, <1>3 DEF BeginCycle, Candidates
  <2>2. Pending(a)' <=> q >= Cooldown
    BY <1>1, <2>1 DEF Pending, Due
  <2>3. CASE Lasts(a)
    <3>1. p + Dials <= TTL /\ q >= Cooldown
      BY <1>1, <2>1, <2>3, Bounds DEF Lasts
    <3> QED  BY <1>1, <2>1, <2>2, <3>1, Bounds DEF Lasts
  <2>4. CASE Comes(a)
    <3>1. s + Dials < Found /\ (s <= q \/ q >= Cooldown)
      BY <1>1, <2>1, <2>4, Bounds, Limits DEF Comes
    <3> QED  BY <1>1, <2>1, <2>2, <3>1, Bounds, Limits DEF Comes
  <2> QED  BY <2>3, <2>4
<1>4. CASE NoCycle
  BY <1>2, <1>4 DEF NoCycle, Candidates
<1>5. ASSUME NEW c \in Addr, Dial(c) PROVE Lasts(a)' \/ Comes(a)'
  <2>1. /\ phase = "scan" /\ phase' = "dial" /\ target' = c /\ target # a
        /\ UNCHANGED <<probe, began>> /\ todo' = {d \in todo : d > c}
        /\ probed' = [probed EXCEPT ![c] = began] /\ c \in Dues /\ \A d \in Dues : c <= d
    BY <1>1, <1>5 DEF Dial
  <2>2. Pending(a) => Pending(a)'
    <3>1. CASE a = c
      BY <2>1, <3>1 DEF Pending
    <3>2. CASE a # c /\ Pending(a)
      <4>1. a \in todo /\ Due(a) /\ c < a
        BY <2>1, <3>2 DEF Pending, Dues, Addr
      <4>2. a \in todo' /\ Due(a)'
        BY <2>1, <3>2, <4>1 DEF Due, AllTypes, ProbeTypes
      <4> QED  BY <4>2 DEF Pending
    <3> QED  BY <3>1, <3>2
  <2>3. ~Pending(a) => ~Pending(a)' /\ probed'[a] = q
    <3>1. ASSUME ~Pending(a) PROVE a # c
      BY <2>1, <3>1 DEF Pending, Dues
    <3>2. ASSUME ~Pending(a) PROVE probed'[a] = q /\ ~Pending(a)'
      BY <2>1, <3>1, <3>2 DEF Pending, Due, AllTypes, ProbeTypes
    <3> QED  BY <3>2
  <2> QED  BY <2>1, <2>2, <2>3 DEF Lasts, Comes
<1>6. CASE DialTimeout
  <2>1. /\ phase = "dial" /\ phase' # "wait" /\ UNCHANGED <<probe, probed, todo, began>>
        /\ target' = target \/ (target' = Nowhere /\ target # a)
    BY <1>2, <1>6 DEF DialTimeout, Answers
  <2>2. Pending(a)' <=> Pending(a)
    BY <2>1, Addresses DEF Pending, Due
  <2> QED  BY <2>1, <2>2 DEF Lasts, Comes
<1>7. CASE UpsertProbePeer
  <2>1. /\ phase = "open" /\ phase' = "scan" /\ target' = Nowhere
        /\ UNCHANGED <<probed, todo, began>>
    BY <1>7 DEF UpsertProbePeer
  <2>2. CASE target = a
    <3>1. probe'[a] = 0 /\ q = b
      BY <1>2, <1>7, <2>2 DEF UpsertProbePeer, AllTypes, ProbeTypes, Scans, Marked
    <3>2. ~Pending(a)'
      BY <1>1, <2>1, <3>1, Addresses, Timers, Bounds DEF Pending, Due
    <3> QED  BY <1>1, <2>1, <3>1, <3>2 DEF Lasts
  <2>3. CASE target # a
    <3>1. probe'[a] = p
      BY <1>7, <2>3 DEF UpsertProbePeer, AllTypes, ProbeTypes
    <3>2. Pending(a)' <=> Pending(a)
      BY <2>1, <2>3, Addresses DEF Pending, Due
    <3> QED  BY <2>1, <3>1, <3>2 DEF Lasts, Comes
  <2> QED  BY <2>2, <2>3
<1>8. CASE EndCycle
  <2>1. phase = "scan" /\ phase' = "wait" /\ target # a /\ UNCHANGED <<probe, probed>>
    BY <1>1, <1>8 DEF EndCycle, Waits
  <2>2. Dues = {}
    <3>1. CASE checked = MaxHosts
      <4>1. \A c \in todo : FALSE
        BY <3>1, Bounds DEF Scans, TodoBound, AllTypes, CycleTypes, Addr
      <4> QED  BY <4>1 DEF Dues
    <3> QED  BY <1>8, <3>1 DEF EndCycle
  <2>3. ~Pending(a)
    BY <2>1, <2>2 DEF Pending, Dues
  <2>4. wait' \in 0..Longest
    BY DEF AllTypes, CycleTypes
  <2>5. CASE Lasts(a)
    <3>1. p <= b /\ q = b
      BY <2>1, <2>3, <2>5 DEF Lasts
    <3>2. Stable
      BY <1>1, <3>1, Timers, Bounds DEF Stable
    <3>3. wait' >= Slow /\ wait' <= Slow + Jitter
      BY <1>8, <3>2, Bounds DEF EndCycle, Waits
    <3>4. p + wait' + Dials <= TTL /\ q + wait' >= Cooldown
      <4>1. wait' \in Nat
        BY <2>4, Bounds
      <4> QED  BY <1>1, <3>1, <3>3, <4>1, EntryLasts
    <3> QED  BY <2>1, <3>4 DEF Lasts
  <2>6. CASE Comes(a)
    <3>1. s < Cooldown + b /\ (s <= q \/ q >= Cooldown)
      BY <2>1, <2>3, <2>6 DEF Comes
    <3> QED  BY <1>1, <2>1, <2>4, <3>1, Timers, Bounds DEF Comes, Found
  <2> QED  BY <2>5, <2>6
<1> QED  BY <1>3, <1>4, <1>5, <1>6, <1>7, <1>8 DEF Probing

(* Time goes by, and an address stays silent.                              *)
LEMMA ProbesTick ==
  ASSUME AllTypes, AllTypes', Tick,
         NEW a \in Addr, Lasts(a) \/ Comes(a), same'[a] <= same[a] + 1
  PROVE  Lasts(a)' \/ Comes(a)'
<1> DEFINE p == probe[a] q == probed[a] s == same[a] b == began w == wait
<1>1. /\ p \in Nat /\ q \in Nat /\ s \in Nat /\ b \in Nat /\ w \in Nat
      /\ q <= Cooldown + Dials /\ b <= Dials
  BY ProbeNumbers
<1>2. /\ UNCHANGED <<phase, todo, target>>
      /\ probe'[a] = Older(p, Old) /\ probed'[a] = Older(q, Cooldown + Dials)
      /\ IF phase = "wait" THEN w > 0 /\ wait' = w - 1
         ELSE b < Dials /\ began' = b + 1
  BY DEF Tick
<1>3. probe'[a] <= p + 1 /\ probe'[a] \in Nat /\ same'[a] \in Nat
  BY <1>1, <1>2, Limits DEF Older, AllTypes, WatchTypes
<1>4. probed'[a] = q + 1 \/ (q = Cooldown + Dials /\ probed'[a] = q)
  BY <1>1, <1>2, Bounds DEF Older
<1>5. CASE phase = "wait"
  <2>1. CASE Lasts(a)
    <3>1. p + w + Dials <= TTL /\ q + w >= Cooldown
      BY <1>5, <2>1 DEF Lasts
    <3>2. probe'[a] + wait' + Dials <= TTL /\ probed'[a] + wait' >= Cooldown
      BY <1>1, <1>2, <1>3, <1>4, <1>5, <3>1, Bounds
    <3> QED  BY <1>2, <1>5, <3>2 DEF Lasts
  <2>2. CASE Comes(a)
    <3>1. s + w + Dials < Found /\ (s <= q \/ q >= Cooldown)
      BY <1>5, <2>2 DEF Comes
    <3>2. same'[a] + wait' + Dials < Found /\ (same'[a] <= probed'[a] \/ probed'[a] >= Cooldown)
      BY <1>1, <1>2, <1>3, <1>4, <1>5, <3>1, Bounds, Limits
    <3> QED  BY <1>2, <1>5, <3>2 DEF Comes
  <2> QED  BY <2>1, <2>2
<1>6. CASE phase # "wait"
  <2>1. began' = b + 1 /\ b < Dials
    BY <1>2, <1>6
  <2>2. Due(a)' <=> Due(a)
    BY <1>1, <1>4, <2>1, Bounds DEF Due
  <2>3. Pending(a)' <=> Pending(a)
    BY <1>2, <2>2 DEF Pending
  <2>4. CASE Pending(a)
    <3>1. p + Dials - b <= TTL \/ s + Dials - b < Found
      BY <1>6, <2>4 DEF Lasts, Comes
    <3>2. probe'[a] + Dials - began' <= TTL \/ same'[a] + Dials - began' < Found
      BY <1>1, <1>3, <2>1, <3>1, Bounds, Limits
    <3> QED  BY <1>2, <1>6, <2>3, <2>4, <3>2 DEF Lasts, Comes
  <2>5. CASE ~Pending(a)
    <3>1. \/ p <= b /\ q = b
          \/ s < Cooldown + b /\ (s <= q \/ q >= Cooldown)
      BY <1>6, <2>5 DEF Lasts, Comes
    <3>2. \/ probe'[a] <= began' /\ probed'[a] = began'
          \/ same'[a] < Cooldown + began' /\ (same'[a] <= probed'[a] \/ probed'[a] >= Cooldown)
      BY <1>1, <1>3, <1>4, <2>1, <3>1, Bounds
    <3> QED  BY <1>2, <1>6, <2>3, <2>5, <3>2 DEF Lasts, Comes
  <2> QED  BY <2>4, <2>5
<1> QED  BY <1>5, <1>6

LEMMA ProbesStep ==
  ASSUME AllTypes, AllTypes', Scans, AllProbes, MaxAddr <= MaxHosts, [TimedNext]_timedVars
  PROVE  AllProbes'
<1> SUFFICES ASSUME NEW a \in Addr, Silent(a)' PROVE Lasts(a)' \/ Comes(a)'
  BY DEF AllProbes, Probes
<1>1. CASE UNCHANGED timedVars
  <2>1. Silent(a)
    BY <1>1 DEF timedVars, vars, Silent, Occupied, At, HasRealPeer
  <2>2. Lasts(a) \/ Comes(a)
    BY <2>1 DEF AllProbes, Probes
  <2>3. same'[a] = same[a] /\ UNCHANGED <<probe, probed, cycle>>
    BY <1>1 DEF timedVars, watch, vars
  <2> QED  BY <2>2, <2>3, ProbesSame
<1>2. CASE TimedNext /\ ~Silent(a)
  <2>1. ~GoesOn(a)
    BY <1>2 DEF GoesOn, Left, Silent
  <2>2. same'[a] = 0
    BY <1>2, <2>1 DEF TimedNext, Watch
  <2>3. Comes(a)'
    BY <2>2, ComesNew
  <2> QED  BY <2>3
<1>3. CASE TimedNext /\ Silent(a)
  <2>1. Lasts(a) \/ Comes(a)
    BY <1>3 DEF AllProbes, Probes
  <2>2. GoesOn(a) /\ same[a] \in 0..LongEnough
    BY <1>3 DEF GoesOn, AllTypes, WatchTypes
  <2>3. CASE Network /\ Watch(0)
    <3>1. same'[a] = same[a]
      BY <2>2, <2>3, LaterType, Limits DEF Watch
    <3>2. UNCHANGED <<probe, probed, cycle>>
      BY <2>3 DEF Network, Moves, Hello, HandlePacket
    <3> QED  BY <2>1, <3>1, <3>2, ProbesSame
  <2>4. CASE Probing /\ Watch(0)
    <3>1. same'[a] = same[a]
      BY <2>2, <2>4, LaterType, Limits DEF Watch
    <3> QED  BY <1>3, <2>1, <2>4, <3>1, ProbesProbing
  <2>5. CASE Tick /\ Watch(1)
    <3>1. same'[a] <= same[a] + 1
      BY <2>2, <2>5, LaterType, Limits DEF Watch
    <3> QED  BY <2>1, <2>5, <3>1, ProbesTick
  <2> QED  BY <1>3, <2>3, <2>4, <2>5 DEF TimedNext
<1> QED  BY <1>1, <1>2, <1>3

LEMMA ProbesAreEnough == AllTypes /\ AllProbes => FoundInTime
<1> SUFFICES ASSUME AllTypes, AllProbes, NEW a \in Addr, Silent(a), same[a] >= Found
             PROVE  a \in Listed
  BY DEF FoundInTime
<1>1. /\ probe[a] \in Nat /\ probed[a] \in Nat /\ same[a] \in Nat
      /\ began \in Nat /\ began <= Dials /\ wait \in Nat
  BY ProbeNumbers
<1>2. ~Comes(a)
  BY <1>1, Bounds, Timers DEF Comes, Found
<1>3. Lasts(a)
  BY <1>2 DEF AllProbes, Probes
<1>4. probe[a] <= TTL
  BY <1>1, <1>3, Bounds, Timers DEF Lasts
<1> QED  BY <1>4 DEF Listed, Probed, Silent

-----------------------------------------------------------------------------
LEMMA TimedTypes == TimedSpec => []AllTypes
<1>1. AllTypes /\ [TimedNext]_timedVars => AllTypes'
  BY AllTypesStep
<1> QED  BY <1>1, AllTypesInit, PTL DEF TimedSpec

(* An address that nobody has any more is not listed when Gone ticks have  *)
(* gone by, whatever packets and probes were on the way.                   *)
THEOREM LeftIsGone == TimedSpec => []GoneInTime
<1>1. AllTypes /\ AllTypes' /\ Fades /\ [TimedNext]_timedVars => Fades'
  BY FadesStep
<1> QED  BY <1>1, FadesInit, FadesIsEnough, TimedTypes, PTL DEF TimedSpec

(* An agent that stays is listed where it is when an entry's time has gone *)
(* by, whatever the order in which its hellos are read.                    *)
THEOREM StaysIsRight == TimedSpec => []RightInTime
<1>1. AllTypes /\ AllTypes' /\ Moved /\ [TimedNext]_timedVars => Moved'
  BY MovedStep
<1> QED  BY <1>1, MovedInit, MovedIsEnough, TimedTypes, PTL DEF TimedSpec

(* An agent that only probes can find is listed when Found ticks have gone *)
(* by, and without a break from then on, if a cycle reaches every address. *)
THEOREM SilentIsFound ==
  ASSUME MaxAddr <= MaxHosts
  PROVE  TimedSpec => []FoundInTime
<1>1. AllTypes /\ AllTypes' /\ Scans /\ AllProbes /\ [TimedNext]_timedVars => AllProbes'
  BY ProbesStep
<1>2. AllTypes /\ Scans /\ [TimedNext]_timedVars => Scans'
  BY ScansStep
<1> QED  BY <1>1, <1>2, ProbesInit, ScansInit, ProbesAreEnough, TimedTypes, PTL DEF TimedSpec
=============================================================================
