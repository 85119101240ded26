------------------------------- MODULE Channels -------------------------------
(***************************************************************************)
(* How a call of the sender chooses the channel for the next chunk         *)
(* (internal/scheduler): a channel is a local address, with the rate it    *)
(* was seen to reach and the chunks it is sending.  Which of the pending   *)
(* chunks is next is left open in Sender.                                  *)
(*                                                                         *)
(* A rate is a natural number, a score is the quotient of two.             *)
(***************************************************************************)
EXTENDS Integers, Sequences

InitialEstimatedMbps == 10
HysteresisFactor == [num |-> 21, den |-> 20]

(* A channel nobody has heard of is given a chance, and so is an idle one. *)
Score(c) ==
  LET mbps == IF c.mbps = 0 /\ c.inFlight = 0 THEN InitialEstimatedMbps ELSE c.mbps
  IN  IF c.inFlight = 0 THEN [num |-> 3 * mbps, den |-> 2]
      ELSE [num |-> mbps, den |-> c.inFlight + 1]

Above(s, t) == s.num * t.den > t.num * s.den

Times(s, t) == [num |-> s.num * t.num, den |-> s.den * t.den]

(* The best one is left for whatever is not much worse.                    *)
BugBetter(c, best) == Above(Times(Score(c), HysteresisFactor), Score(best))

(* The best one is left for what is much better only.                      *)
Better(c, best) == Above(Score(c), Times(Score(best), HysteresisFactor))

Usable(c) == c.active /\ ~c.cooling

None == 0

(* An iteration of the loop of NextChunk over the channels.                *)
Improved(best, channels, i) ==
  IF Usable(channels[i]) /\ (best = None \/ Better(channels[i], channels[best]))
  THEN i ELSE best

NextChannel(channels) ==
  LET best[i \in 0..Len(channels)] ==
        IF i = 0 THEN None ELSE Improved(best[i - 1], channels, i)
  IN  best[Len(channels)]

(* ReportFailure: the third failure in a row, and each one after it, takes *)
(* the channel out for longer.                                             *)
BugDoubled(cd, max) == IF cd >= max THEN max ELSE 2 * cd

Doubled(cd, max) == IF 2 * cd >= max THEN max ELSE 2 * cd

Cooled(cd, n, cooldown, max) ==
  IF n < 3 THEN 0 ELSE IF n = 3 THEN cooldown ELSE Doubled(cd, max)

CoolsFor(failures, cooldown, max) ==
  LET cd[n \in 0..failures] ==
        IF n = 0 THEN 0 ELSE Cooled(cd[n - 1], n, cooldown, max)
  IN  cd[failures]

(* A chunk gets a channel if there is one that may be used, and none that  *)
(* may be used is much better than the one it gets, in whatever order they *)
(* are looked at: the hysteresis does not add up.                          *)
ChoiceIsNearBest(channels) ==
  LET chosen == NextChannel(channels)
      usable == {i \in DOMAIN channels : Usable(channels[i])}
  IN  IF chosen = None THEN usable = {}
      ELSE chosen \in usable /\ \A i \in usable : ~Better(channels[i], channels[chosen])

(* However often a channel fails, it is not out for longer than the limit, *)
(* and not for a shorter time than before.                                 *)
CooldownIsBounded(failures, cooldown, max) ==
  /\ CoolsFor(failures, cooldown, max) <= max
  /\ CoolsFor(failures, cooldown, max) <= CoolsFor(failures + 1, cooldown, max)
=============================================================================
