--------------------------- MODULE Dispatch_proofs ---------------------------
(***************************************************************************)
(* Proofs about the functions that a call of the sender uses: the plan of  *)
(* any file, in chunks of any size, is whole (ChunkPlan); of any number of *)
(* channels a good one is chosen, and one that fails is not out for too    *)
(* long, however often it fails (Channels).                                *)
(*                                                                         *)
(* The loops of Channels are recursive functions.  The library states      *)
(* induction for an operator; here it is derived, for a set, from the      *)
(* theorem that the order of the natural numbers is well-founded.          *)
(***************************************************************************)
EXTENDS MCSender, WellFoundedInduction, TLAPS

-----------------------------------------------------------------------------
(* Arithmetic.                                                             *)

LEMMA Division ==
  ASSUME NEW a \in Nat, NEW b \in Nat \ {0}
  PROVE  /\ a \div b \in Nat /\ a % b \in Nat
         /\ a % b < b
         /\ a = b * (a \div b) + (a % b)
OBVIOUS

LEMMA Products ==
  ASSUME NEW a \in Int, NEW b \in Int, NEW c \in Nat, a <= b
  PROVE  a * c \in Int /\ b * c \in Int /\ a * c <= b * c
<1>1. (b - a) * c >= 0
  OBVIOUS
<1> QED  BY <1>1

LEMMA NextProduct ==
  ASSUME NEW a \in Int, NEW c \in Int
  PROVE  /\ (a + 1) * c = a * c + c
         /\ (a - 1) * c = a * c - c
         /\ c * a = a * c
OBVIOUS
-----------------------------------------------------------------------------
(* The number of chunks is the quotient rounded up.                        *)
LEMMA RoundedUp ==
  ASSUME NEW total \in Nat \ {0}, NEW size \in Nat \ {0}, NEW n, n = ChunkCount(total, size)
  PROVE  n \in Nat \ {0} /\ (n - 1) * size < total /\ total <= n * size /\ n <= total
<1> DEFINE q == total \div size
<1> DEFINE m == total % size
<1>1. q \in Nat /\ m \in Nat /\ m < size /\ total = size * q + m
  BY Division
<1>2. n = q + (IF m # 0 THEN 1 ELSE 0)
  BY DEF ChunkCount
<1> HIDE DEF q, m
<1>3. /\ (q + 1) * size = q * size + size /\ (q - 1) * size = q * size - size
      /\ size * q = q * size /\ q * size \in Int
  BY <1>1, NextProduct
<1>4. n \in Nat \ {0} /\ (n - 1) * size < total /\ total <= n * size
  <2>1. CASE m # 0
    <3>1. n = q + 1 /\ n - 1 = q
      BY <1>1, <1>2, <2>1
    <3>2. m > 0
      BY <1>1, <2>1
    <3> QED  BY <1>1, <1>3, <3>1, <3>2
  <2>2. CASE m = 0
    <3>1. n = q
      BY <1>1, <1>2, <2>2
    <3>2. q # 0
      BY <1>1, <1>3, <2>2
    <3> QED  BY <1>1, <1>3, <2>2, <3>1, <3>2
  <2> QED  BY <2>1, <2>2
<1>5. n - 1 <= (n - 1) * size
  <2>1. 1 * (n - 1) <= size * (n - 1)
    BY <1>4, Products
  <2>2. size * (n - 1) = (n - 1) * size
    BY <1>4, NextProduct
  <2> QED  BY <1>4, <2>1, <2>2
<1>6. (n - 1) * size \in Int
  BY <1>4, Products
<1> QED  BY <1>4, <1>5, <1>6

(* The loop of BuildPlan makes as many.                                    *)
LEMMA PlanIndexes ==
  ASSUME NEW total \in Nat \ {0}, NEW size \in Nat \ {0}, NEW n, n = ChunkCount(total, size)
  PROVE  Indexes(total, size) = 0..(n - 1)
<1>1. n \in Nat \ {0} /\ (n - 1) * size < total /\ total <= n * size /\ n <= total
  BY RoundedUp
<1>2. ASSUME NEW i \in 0..(n - 1) PROVE i \in 0..total /\ i * size < total
  <2>1. i * size \in Int /\ (n - 1) * size \in Int /\ i * size <= (n - 1) * size
    BY <1>1, Products
  <2> QED  BY <1>1, <2>1
<1>3. ASSUME NEW i \in 0..total, i * size < total PROVE i \in 0..(n - 1)
  <2>1. CASE n <= i
    <3>1. n * size \in Int /\ i * size \in Int /\ n * size <= i * size
      BY <1>1, <2>1, Products
    <3> QED  BY <1>1, <1>3, <3>1
  <2> QED  BY <1>1, <2>1
<1> QED  BY <1>2, <1>3 DEF Indexes

(* The plan of a file that is not empty is valid: its chunks follow each   *)
(* other from the first byte to the last, in the number that ChunkCount    *)
(* gives, so that a restart accepts what a sender planned.                 *)
THEOREM PlanIsWhole ==
  \A total, size \in Nat \ {0} : PlanFits(total, size)
<1> SUFFICES ASSUME NEW total \in Nat \ {0}, NEW size \in Nat \ {0}
             PROVE  PlanFits(total, size)
  OBVIOUS
<1> DEFINE n == ChunkCount(total, size)
<1> DEFINE plan == BuildPlan(total, size)
<1>1. n \in Nat \ {0} /\ (n - 1) * size < total /\ total <= n * size
  BY RoundedUp
<1>2. DOMAIN plan = 0..(n - 1)
  BY PlanIndexes DEF BuildPlan
<1>3. ASSUME NEW i \in 0..(n - 1)
      PROVE  /\ i * size \in Int /\ plan[i].offset = i * size
             /\ plan[i].size = IF total - i * size < size THEN total - i * size ELSE size
  <2>1. i * size \in Int
    BY <1>1, Products
  <2>2. i \in Indexes(total, size)
    BY PlanIndexes
  <2> QED  BY <2>1, <2>2 DEF BuildPlan
<1> HIDE DEF n, plan
<1>4. plan[0].offset = 0
  BY <1>1, <1>3
<1>5. ASSUME NEW i \in 0..(n - 1)
      PROVE  /\ plan[i].size > 0
             /\ plan[i].size <= total - plan[i].offset
             /\ IF i = n - 1 THEN plan[i].offset + plan[i].size = total
                ELSE plan[i].offset + plan[i].size = plan[i + 1].offset
  <2>1. i \in Int /\ i * size \in Int /\ i * size < total
    <3>1. i * size <= (n - 1) * size /\ i * size \in Int /\ (n - 1) * size \in Int
      BY <1>1, Products
    <3> QED  BY <1>1, <3>1
  <2>2. (i + 1) * size = i * size + size
    BY <2>1, NextProduct
  <2>3. plan[i].size > 0 /\ plan[i].size <= total - plan[i].offset
    BY <1>3, <2>1
  <2>4. CASE i = n - 1
    <3>1. total <= i * size + size
      BY <1>1, <2>2, <2>4
    <3> QED  BY <1>3, <2>1, <2>3, <2>4, <3>1
  <2>5. CASE i # n - 1
    <3>1. i + 1 \in 0..(n - 1)
      BY <1>1, <2>5
    <3>2. (i + 1) * size <= (n - 1) * size /\ (n - 1) * size \in Int
      BY <1>1, <3>1, Products
    <3>3. plan[i].size = size
      BY <1>1, <1>3, <2>1, <2>2, <3>2
    <3> QED  BY <1>3, <2>1, <2>2, <2>3, <2>5, <3>1, <3>3
  <2> QED  BY <2>4, <2>5
<1> QED  BY <1>1, <1>2, <1>4, <1>5 DEF PlanFits, ValidPlan, n, plan

(* The plan of an empty file has no chunks, and a restart refuses it.      *)
LEMMA EmptyPlanIsRefused ==
  ASSUME NEW size \in Nat \ {0}
  PROVE  DOMAIN BuildPlan(0, size) = {} /\ ~PlanFits(0, size)
<1>1. Indexes(0, size) = {}
  <2>1. ASSUME NEW i \in 0..0 PROVE i * size = 0
    OBVIOUS
  <2> QED  BY <2>1 DEF Indexes
<1> QED  BY <1>1 DEF BuildPlan, PlanFits, ValidPlan

(* In particular with the size of a chunk that is chosen for the file.     *)
COROLLARY AutoPlanIsWhole ==
  \A total \in Nat \ {0} : PlanFits(total, AutoChunkSize(total))
<1>1. \A total \in Nat \ {0} : AutoChunkSize(total) \in Nat \ {0}
  BY MiBAssumption DEF AutoChunkSize
<1> QED  BY <1>1, PlanIsWhole

(* Each byte of the file is in one chunk of its plan, and in no other.     *)
THEOREM EachByteOnce ==
  ASSUME NEW total \in Nat \ {0}, NEW size \in Nat \ {0}, NEW b \in 0..(total - 1)
  PROVE  \E i \in Indexes(total, size) : \A k \in Indexes(total, size) :
           LET chunk == BuildPlan(total, size)[k]
           IN  b \in chunk.offset..(chunk.offset + chunk.size - 1) <=> k = i
<1> DEFINE q == b \div size
<1>1. q \in Nat /\ b = size * q + (b % size) /\ b % size \in Nat /\ b % size < size
  BY Division
<1>2. q * size = size * q /\ (q + 1) * size = q * size + size /\ q * size \in Int
  BY <1>1, NextProduct
<1>3. q * size <= b /\ b < (q + 1) * size
  BY <1>1, <1>2
<1> HIDE DEF q
<1>4. q <= b
  <2>1. 1 * q <= size * q /\ size * q \in Int
    BY <1>1, Products
  <2> QED  BY <1>1, <1>2, <1>3, <2>1
<1>5. q \in Indexes(total, size)
  BY <1>1, <1>3, <1>4, <1>2 DEF Indexes
<1>6. ASSUME NEW k \in Indexes(total, size)
      PROVE  LET chunk == BuildPlan(total, size)[k]
             IN  b \in chunk.offset..(chunk.offset + chunk.size - 1) <=> k = q
  <2>1. k \in Nat /\ k * size \in Int /\ (k + 1) * size = k * size + size
    BY NextProduct, Products DEF Indexes
  <2>2. /\ BuildPlan(total, size)[k].offset = k * size
        /\ BuildPlan(total, size)[k].size =
             IF total - k * size < size THEN total - k * size ELSE size
    BY DEF BuildPlan
  <2>3. CASE k = q
    BY <1>2, <1>3, <2>1, <2>2, <2>3
  <2>4. CASE k < q
    <3>1. (k + 1) * size <= q * size
      BY <1>1, <2>1, <2>4, Products
    <3> QED  BY <1>2, <1>3, <2>1, <2>2, <2>4, <3>1
  <2>5. CASE q < k
    <3>1. (q + 1) * size <= k * size
      BY <1>1, <2>1, <2>5, Products
    <3> QED  BY <1>2, <1>3, <2>1, <2>2, <2>5, <3>1
  <2> QED  BY <1>1, <2>1, <2>3, <2>4, <2>5
<1> QED  BY <1>5, <1>6
-----------------------------------------------------------------------------
(* Induction.                                                              *)

LessThan == OpToRel(<, Nat)

(* A set with 0, and with each number that follows one of its own.         *)
LEMMA Induction ==
  ASSUME NEW n \in Nat, NEW T, 0 \in T,
         \A i \in 1..n : i - 1 \in T => i \in T
  PROVE  0..n \subseteq T
<1> DEFINE Missing == (0..n) \ T
<1> SUFFICES ASSUME Missing # {} PROVE FALSE
  OBVIOUS
<1>1. IsWellFoundedOn(LessThan, Nat)
  BY NatLessThanWellFounded, Zenon DEF LessThan
<1>2. Missing \subseteq Nat
  OBVIOUS
<1> HIDE DEF Missing
<1>3. PICK i \in Missing : \A k \in Missing : <<k, i>> \notin LessThan
  BY <1>1, <1>2, WFMin, Zenon
<1>4. i \in 1..n /\ i - 1 \in Nat /\ i - 1 < i /\ i - 1 \in 0..n
  BY DEF Missing
<1>5. <<i - 1, i>> \in LessThan
  BY <1>2, <1>4 DEF LessThan, OpToRel
<1>6. i - 1 \in T
  BY <1>3, <1>4, <1>5 DEF Missing
<1> QED  BY <1>4, <1>6 DEF Missing

(* f is a loop of n steps.                                                 *)
IsLoop(f, n, first, step) ==
  f = [i \in 0..n |-> IF i = 0 THEN first ELSE step[<<f[i - 1], i>>]]

(* There is such a function for any steps.                                 *)
LEMMA LoopExists ==
  ASSUME NEW n \in Nat, NEW S, NEW first \in S, NEW step \in [S \X (1..n) -> S]
  PROVE  \E f \in [0..n -> S] : IsLoop(f, n, first, step)
<1> DEFINE T == {k \in 0..n : \E f \in [0..k -> S] : IsLoop(f, k, first, step)}
<1>1. 0 \in T
  <2> DEFINE f == [i \in 0..0 |-> first]
  <2>1. f \in [0..0 -> S] /\ f = [i \in 0..0 |-> IF i = 0 THEN first ELSE step[<<f[i - 1], i>>]]
    OBVIOUS
  <2> HIDE DEF f
  <2>2. IsLoop(f, 0, first, step)
    BY <2>1 DEF IsLoop
  <2> QED  BY <2>1, <2>2
<1>2. ASSUME NEW k \in 1..n, k - 1 \in T PROVE k \in T
  <2>1. PICK f \in [0..(k - 1) -> S] : IsLoop(f, k - 1, first, step)
    BY <1>2
  <2> DEFINE g == [i \in 0..k |-> IF i < k THEN f[i] ELSE step[<<f[k - 1], k>>]]
  <2>2. step[<<f[k - 1], k>>] \in S
    BY <2>1
  <2>3. g \in [0..k -> S]
    BY <2>1, <2>2
  <2>4. ASSUME NEW i \in 0..k
        PROVE  g[i] = IF i = 0 THEN first ELSE step[<<g[i - 1], i>>]
    <3>1. CASE i = k
      <4>1. g[k - 1] = f[k - 1] /\ k # 0
        OBVIOUS
      <4> QED  BY <3>1, <4>1
    <3>2. CASE i < k
      <4>1. i \in 0..(k - 1) /\ g[i] = f[i]
        BY <3>2
      <4>2. f[i] = IF i = 0 THEN first ELSE step[<<f[i - 1], i>>]
        BY <2>1, <4>1 DEF IsLoop
      <4>3. CASE i = 0
        BY <4>1, <4>2, <4>3
      <4>4. CASE i # 0
        <5>1. g[i - 1] = f[i - 1]
          BY <3>2, <4>4
        <5> QED  BY <4>1, <4>2, <4>4, <5>1
      <4> QED  BY <4>3, <4>4
    <3> QED  BY <3>1, <3>2
  <2> HIDE DEF g
  <2>5. IsLoop(g, k, first, step)
    BY <2>3, <2>4 DEF IsLoop
  <2> QED  BY <2>3, <2>5
<1> HIDE DEF T
<1>3. n \in T
  BY <1>1, <1>2, Induction
<1> QED  BY <1>3 DEF T

-----------------------------------------------------------------------------
(* The choice of a channel.                                                *)

Rated == [mbps : Nat, inFlight : Nat, cooling : BOOLEAN, active : BOOLEAN]
Fraction == [num : Nat, den : Nat \ {0}]

LEMMA ScoreType == ASSUME NEW c \in Rated PROVE Score(c) \in Fraction
BY DEF Rated, Fraction, Score, InitialEstimatedMbps

(* To multiply both sides, and to cancel.                                  *)
LEMMA Scale ==
  ASSUME NEW a \in Nat, NEW b \in Nat, NEW c \in Nat, a <= b
  PROVE  a * c \in Nat /\ b * c \in Nat /\ a * c <= b * c
<1>1. \E d \in Nat : b = a + d
  <2>1. b - a \in Nat /\ b = a + (b - a)
    OBVIOUS
  <2> QED  BY <2>1
<1>2. PICK d \in Nat : b = a + d
  BY <1>1
<1>3. (a + d) * c = a * c + d * c /\ d * c \in Nat /\ a * c \in Nat
  OBVIOUS
<1> QED  BY <1>2, <1>3

LEMMA CancelFactor ==
  ASSUME NEW a \in Nat, NEW b \in Nat, NEW c \in Nat \ {0}, a * c <= b * c
  PROVE  a <= b
<1> SUFFICES ASSUME b + 1 <= a PROVE FALSE
  OBVIOUS
<1>1. (b + 1) * c <= a * c /\ a * c \in Nat /\ (b + 1) * c \in Nat
  BY Scale
<1>2. (b + 1) * c = b * c + c /\ b * c \in Nat
  OBVIOUS
<1> QED  BY <1>1, <1>2

LEMMA Reorder ==
  ASSUME NEW a \in Nat, NEW b \in Nat, NEW c \in Nat
  PROVE  (a * b) * c = (a * c) * b /\ (a * b) * c = (c * b) * a /\ a * b \in Nat
OBVIOUS

(* Whatever is not much better than a channel is not much better than one  *)
(* which is much better.                                                   *)
LEMMA BetterIsEnough ==
  ASSUME NEW c \in Rated, NEW best \in Rated, NEW new \in Rated,
         ~Better(c, best), Better(new, best)
  PROVE  ~Better(c, new)
<1> DEFINE sc == Score(c) sb == Score(best) sn == Score(new)
<1>1. sc \in Fraction /\ sb \in Fraction /\ sn \in Fraction
  BY ScoreType
<1>2. /\ ~(sc.num * (sb.den * 20) > (sb.num * 21) * sc.den)
      /\ sn.num * (sb.den * 20) > (sb.num * 21) * sn.den
  BY DEF Better, Above, Times, HysteresisFactor
<1>3. Better(c, new) <=> sc.num * (sn.den * 20) > (sn.num * 21) * sc.den
  BY DEF Better, Above, Times, HysteresisFactor
<1> HIDE DEF sc, sb, sn
<1> DEFINE x == sc.num xd == sc.den  b == sb.num bd == sb.den  n == sn.num nd == sn.den
<1>4. x \in Nat /\ b \in Nat /\ n \in Nat
      /\ xd \in Nat \ {0} /\ bd \in Nat \ {0} /\ nd \in Nat \ {0}
  BY <1>1 DEF Fraction
<1>5. x * (bd * 20) <= (b * 21) * xd /\ (b * 21) * nd <= n * (bd * 20)
      /\ (Better(c, new) <=> x * (nd * 20) > (n * 21) * xd)
  <2>1. x * (bd * 20) \in Nat /\ (b * 21) * xd \in Nat /\ (b * 21) * nd \in Nat /\ n * (bd * 20) \in Nat
    BY <1>4
  <2> QED  BY <1>2, <1>3, <2>1
<1> HIDE DEF x, xd, b, bd, n, nd
<1>6. (x * nd) * (bd * 20) <= (n * xd) * (bd * 20)
  <2> DEFINE B == bd * 20  C == b * 21
  <2>1. B \in Nat /\ C \in Nat
    BY <1>4
  <2>2. x * B <= C * xd /\ C * nd <= n * B
    BY <1>5
  <2> HIDE DEF B, C
  <2>3. x * B \in Nat /\ C * xd \in Nat /\ C * nd \in Nat /\ n * B \in Nat
    BY <1>4, <2>1
  <2>4. (x * B) * nd <= (C * xd) * nd
    BY <1>4, <2>2, <2>3, Scale
  <2>5. (C * nd) * xd <= (n * B) * xd
    BY <1>4, <2>2, <2>3, Scale
  <2>6. (x * B) * nd = (x * nd) * B /\ (C * xd) * nd = (C * nd) * xd
        /\ (n * B) * xd = (n * xd) * B
    BY <1>4, <2>1, Reorder
  <2>7. (x * nd) * B \in Nat /\ (C * nd) * xd \in Nat /\ (n * xd) * B \in Nat
    BY <1>4, <2>1, <2>3
  <2> QED  BY <2>4, <2>5, <2>6, <2>7 DEF B
<1>7. x * nd <= n * xd
  <2>1. bd * 20 \in Nat \ {0} /\ x * nd \in Nat /\ n * xd \in Nat
    BY <1>4
  <2> QED  BY <1>6, <2>1, CancelFactor
<1>8. x * (nd * 20) = 20 * (x * nd) /\ (n * 21) * xd = 21 * (n * xd)
      /\ x * nd \in Nat /\ n * xd \in Nat
  BY <1>4
<1> QED  BY <1>5, <1>7, <1>8

(* A channel is not much better than itself.                               *)
LEMMA NotBetterThanItself ==
  ASSUME NEW c \in Rated
  PROVE  ~Better(c, c)
<1> DEFINE s == Score(c)
<1>1. s \in Fraction
  BY ScoreType
<1>2. Better(c, c) <=> s.num * (s.den * 20) > (s.num * 21) * s.den
  BY DEF Better, Above, Times, HysteresisFactor
<1> HIDE DEF s
<1>3. s.num \in Nat /\ s.den \in Nat
  BY <1>1 DEF Fraction
<1>4. s.num * (s.den * 20) = 20 * (s.num * s.den)
      /\ (s.num * 21) * s.den = 21 * (s.num * s.den) /\ s.num * s.den \in Nat
  BY <1>3
<1> QED  BY <1>2, <1>4

(* What the loop has chosen among the first k channels.                    *)
BestOf(channels, k, best) ==
  LET usable == {i \in 1..k : Usable(channels[i])}
  IN  IF best = None THEN usable = {}
      ELSE best \in usable /\ \A i \in usable : ~Better(channels[i], channels[best])

LEMMA BestOfNext ==
  ASSUME NEW channels \in Seq(Rated), NEW k \in 1..Len(channels), NEW best,
         BestOf(channels, k - 1, best)
  PROVE  BestOf(channels, k, Improved(best, channels, k))
<1>1. \A i \in 1..k : channels[i] \in Rated
  OBVIOUS
<1>2. 1..k = (1..(k - 1)) \cup {k} /\ k # None
  BY DEF None
<1>3. CASE ~Usable(channels[k])
  <2>1. Improved(best, channels, k) = best
    BY <1>3 DEF Improved
  <2> QED  BY <1>2, <1>3, <2>1 DEF BestOf
<1>4. CASE Usable(channels[k]) /\ best = None
  <2>1. Improved(best, channels, k) = k
    BY <1>4 DEF Improved
  <2>2. ~Better(channels[k], channels[k])
    BY <1>1, NotBetterThanItself
  <2> QED  BY <1>2, <1>4, <2>1, <2>2 DEF BestOf
<1>5. CASE Usable(channels[k]) /\ best # None
  <2>1. best \in 1..(k - 1) /\ Usable(channels[best])
        /\ \A i \in 1..(k - 1) : Usable(channels[i]) => ~Better(channels[i], channels[best])
    BY <1>5 DEF BestOf
  <2>2. CASE Better(channels[k], channels[best])
    <3>1. Improved(best, channels, k) = k
      BY <1>5, <2>2 DEF Improved
    <3>2. \A i \in 1..(k - 1) : Usable(channels[i]) => ~Better(channels[i], channels[k])
      BY <1>1, <1>2, <2>1, <2>2, BetterIsEnough
    <3>3. ~Better(channels[k], channels[k])
      BY <1>1, NotBetterThanItself
    <3> QED  BY <1>2, <1>5, <3>1, <3>2, <3>3 DEF BestOf
  <2>3. CASE ~Better(channels[k], channels[best])
    <3>1. Improved(best, channels, k) = best
      BY <1>5, <2>3 DEF Improved
    <3> QED  BY <1>2, <1>5, <2>1, <2>3, <3>1 DEF BestOf
  <2> QED  BY <2>2, <2>3
<1> QED  BY <1>3, <1>4, <1>5

(* Of any number of channels, with any rates, NextChunk chooses one if any *)
(* may be used, and one that none is much better than.                     *)
THEOREM ChannelChosenWell ==
  \A channels \in Seq(Rated) : ChoiceIsNearBest(channels)
<1> SUFFICES ASSUME NEW channels \in Seq(Rated) PROVE ChoiceIsNearBest(channels)
  OBVIOUS
<1> DEFINE n == Len(channels)
<1> DEFINE step == [z \in (0..n) \X (1..n) |-> Improved(z[1], channels, z[2])]
<1>1. n \in Nat /\ DOMAIN channels = 1..n /\ None \in 0..n
  BY DEF None
<1>2. step \in [(0..n) \X (1..n) -> 0..n]
  BY <1>1 DEF Improved
<1>3. \E best \in [0..n -> 0..n] : IsLoop(best, n, None, step)
  <2> HIDE DEF n, step
  <2> QED  BY <1>1, <1>2, LoopExists
<1>4. ASSUME NEW best \in [0..n -> 0..n], IsLoop(best, n, None, step)
      PROVE  best = [i \in 0..n |-> IF i = 0 THEN None ELSE Improved(best[i - 1], channels, i)]
  <2>1. \A i \in 1..n : <<best[i - 1], i>> \in (0..n) \X (1..n)
    BY <1>1
  <2>2. \A i \in 1..n : step[<<best[i - 1], i>>] = Improved(best[i - 1], channels, i)
    BY <2>1
  <2> HIDE DEF n, step
  <2>3. best = [i \in 0..n |-> IF i = 0 THEN None ELSE step[<<best[i - 1], i>>]]
    BY <1>4 DEF IsLoop
  <2>4. \A i \in 0..n : i # 0 => i \in 1..n
    BY <1>1
  <2> QED  BY <2>2, <2>3, <2>4
<1> DEFINE best == CHOOSE best : best = [i \in 0..n |-> IF i = 0 THEN None ELSE Improved(best[i - 1], channels, i)]
<1>5. best = [i \in 0..n |-> IF i = 0 THEN None ELSE Improved(best[i - 1], channels, i)]
  <2> HIDE DEF n, step
  <2> QED  BY <1>3, <1>4
<1>6. NextChannel(channels) = best[n]
  BY DEF NextChannel
<1> HIDE DEF best
<1> DEFINE T == {k \in 0..n : BestOf(channels, k, best[k])}
<1>7. 0 \in T
  BY <1>1, <1>5 DEF BestOf, None
<1>8. ASSUME NEW k \in 1..n, k - 1 \in T PROVE k \in T
  <2>1. best[k] = Improved(best[k - 1], channels, k)
    BY <1>1, <1>5
  <2> QED  BY <1>1, <1>8, <2>1, BestOfNext
<1> HIDE DEF T
<1>9. n \in T
  <2> HIDE DEF n
  <2>1. 0..n \subseteq T
    BY <1>1, <1>7, <1>8, Induction
  <2> QED  BY <1>1, <2>1
<1>10. BestOf(channels, n, NextChannel(channels))
  BY <1>6, <1>9 DEF T
<1> QED  BY <1>1, <1>10 DEF ChoiceIsNearBest, BestOf

-----------------------------------------------------------------------------
(* The time that a channel is out.                                         *)

LEMMA CooledType ==
  ASSUME NEW max \in Nat, NEW cooldown \in 0..max, NEW cd \in 0..max, NEW n \in Nat
  PROVE  Cooled(cd, n, cooldown, max) \in 0..max
BY DEF Cooled, Doubled

(* ReportFailure, once for each of the failures.                           *)
Cooldowns(failures, cooldown, max) ==
  CHOOSE cd : cd = [n \in 0..failures |->
                      IF n = 0 THEN 0 ELSE Cooled(cd[n - 1], n, cooldown, max)]

LEMMA CooldownsType ==
  ASSUME NEW failures \in Nat, NEW max \in Nat, NEW cooldown \in 0..max
  PROVE  LET cd == Cooldowns(failures, cooldown, max)
         IN  /\ cd \in [0..failures -> 0..max]
             /\ cd[0] = 0
             /\ \A n \in 1..failures : cd[n] = Cooled(cd[n - 1], n, cooldown, max)
             /\ CoolsFor(failures, cooldown, max) = cd[failures]
<1> DEFINE step == [z \in (0..max) \X (1..failures) |-> Cooled(z[1], z[2], cooldown, max)]
<1>1. step \in [(0..max) \X (1..failures) -> 0..max]
  <2>1. \A cd \in 0..max, n \in 1..failures : Cooled(cd, n, cooldown, max) \in 0..max
    BY CooledType
  <2> QED  BY <2>1
<1>2. PICK f \in [0..failures -> 0..max] : IsLoop(f, failures, 0, step)
  <2> HIDE DEF step
  <2>1. 0 \in 0..max
    OBVIOUS
  <2> QED  BY <1>1, <2>1, LoopExists
<1>3. ASSUME NEW g \in [0..failures -> 0..max], IsLoop(g, failures, 0, step)
      PROVE  g = [n \in 0..failures |-> IF n = 0 THEN 0 ELSE Cooled(g[n - 1], n, cooldown, max)]
  <2>1. \A n \in 1..failures : <<g[n - 1], n>> \in (0..max) \X (1..failures)
    OBVIOUS
  <2>2. \A n \in 1..failures : step[<<g[n - 1], n>>] = Cooled(g[n - 1], n, cooldown, max)
    BY <2>1
  <2> HIDE DEF step
  <2>3. g = [n \in 0..failures |-> IF n = 0 THEN 0 ELSE step[<<g[n - 1], n>>]]
    BY <1>3 DEF IsLoop
  <2>4. \A n \in 0..failures : n # 0 => n \in 1..failures
    OBVIOUS
  <2> QED  BY <2>2, <2>3, <2>4
<1> DEFINE cd == Cooldowns(failures, cooldown, max)
<1>4. cd = [n \in 0..failures |-> IF n = 0 THEN 0 ELSE Cooled(cd[n - 1], n, cooldown, max)]
  <2> HIDE DEF step
  <2> QED  BY <1>2, <1>3 DEF Cooldowns
<1>5. CoolsFor(failures, cooldown, max) = cd[failures]
  BY DEF CoolsFor, Cooldowns
<1> HIDE DEF cd, step
<1>6. cd[0] = 0 /\ \A n \in 1..failures : cd[n] = Cooled(cd[n - 1], n, cooldown, max)
  <2>1. 0 \in 0..failures /\ \A n \in 1..failures : n \in 0..failures /\ n # 0
    OBVIOUS
  <2> QED  BY <1>4, <2>1
<1> DEFINE T == {n \in 0..failures : cd[n] \in 0..max}
<1>7. 0 \in T
  BY <1>6
<1>8. ASSUME NEW n \in 1..failures, n - 1 \in T PROVE n \in T
  <2>1. cd[n] = Cooled(cd[n - 1], n, cooldown, max) /\ cd[n - 1] \in 0..max
    BY <1>6, <1>8
  <2>2. n \in Nat /\ n \in 0..failures
    OBVIOUS
  <2>3. Cooled(cd[n - 1], n, cooldown, max) \in 0..max
    BY <2>1, <2>2, CooledType
  <2> QED  BY <2>1, <2>2, <2>3
<1> HIDE DEF T
<1>9. 0..failures \subseteq T
  BY <1>7, <1>8, Induction
<1>10. cd \in [0..failures -> 0..max]
  <2>1. \A n \in 0..failures : cd[n] \in 0..max
    BY <1>9 DEF T
  <2> QED  BY <1>4, <2>1
<1> QED  BY <1>5, <1>6, <1>10 DEF cd

(* A failure more, and what came before is the same.                       *)
LEMMA CooldownsAgree ==
  ASSUME NEW failures \in Nat, NEW max \in Nat, NEW cooldown \in 0..max
  PROVE  Cooldowns(failures, cooldown, max)[failures]
           = Cooldowns(failures + 1, cooldown, max)[failures]
<1> DEFINE f == Cooldowns(failures, cooldown, max)
           g == Cooldowns(failures + 1, cooldown, max)
<1>1. f[0] = 0 /\ \A n \in 1..failures : f[n] = Cooled(f[n - 1], n, cooldown, max)
  BY CooldownsType
<1>2. g[0] = 0 /\ \A n \in 1..(failures + 1) : g[n] = Cooled(g[n - 1], n, cooldown, max)
  BY CooldownsType
<1> HIDE DEF f, g
<1> DEFINE T == {n \in 0..failures : f[n] = g[n]}
<1>3. 0 \in T
  BY <1>1, <1>2
<1>4. ASSUME NEW n \in 1..failures, n - 1 \in T PROVE n \in T
  BY <1>1, <1>2, <1>4
<1> HIDE DEF T
<1>5. 0..failures \subseteq T
  BY <1>3, <1>4, Induction
<1> QED  BY <1>5 DEF T, f, g

(* However often a channel fails, with whatever limits, it is not out for  *)
(* longer than the limit, and not for a shorter time than before.          *)
THEOREM ChannelComesBack ==
  ASSUME NEW failures \in Nat, NEW max \in Nat, NEW cooldown \in 0..max
  PROVE  CooldownIsBounded(failures, cooldown, max)
<1> DEFINE n == failures + 1
           g == Cooldowns(n, cooldown, max)
<1>1. CoolsFor(failures, cooldown, max) = g[failures] /\ CoolsFor(n, cooldown, max) = g[n]
  <2>1. CoolsFor(failures, cooldown, max) = Cooldowns(failures, cooldown, max)[failures]
    BY CooldownsType
  <2>2. n \in Nat
    OBVIOUS
  <2>3. CoolsFor(n, cooldown, max) = g[n]
    <3> HIDE DEF n
    <3> QED  BY <2>2, CooldownsType
  <2>4. Cooldowns(failures, cooldown, max)[failures] = g[failures]
    BY CooldownsAgree
  <2> QED  BY <2>1, <2>3, <2>4
<1>2. /\ g[0] = 0 /\ g \in [0..n -> 0..max]
      /\ \A k \in 1..n : g[k] = Cooled(g[k - 1], k, cooldown, max)
  BY CooldownsType
<1> HIDE DEF g
<1>3. g[failures] \in 0..max /\ g[n] = Cooled(g[failures], n, cooldown, max)
  BY <1>2
<1>4. n <= 3 => g[failures] = 0
  <2>1. CASE failures = 0
    BY <1>2, <2>1
  <2>2. CASE failures \in 1..n /\ failures # 0
    BY <1>2, <2>2 DEF Cooled
  <2> QED  BY <2>1, <2>2
<1>5. g[failures] <= g[n]
  BY <1>3, <1>4 DEF Cooled, Doubled
<1> QED  BY <1>1, <1>3, <1>5 DEF CooldownIsBounded

-----------------------------------------------------------------------------
(* The functions do what a call needs of them, whatever their inputs.      *)

(* The plan of a file that is sent passes the checks of a restart exactly  *)
(* when the file is not empty.                                             *)
COROLLARY PlanIsAlwaysValid == Spec => []PlanIsValid
<1>1. PlanIsValid
  BY InputsAssumption, PlanIsWhole, EmptyPlanIsRefused DEF PlanIsValid
<1> QED  BY <1>1, PTL

(* A chunk gets a channel that no other one is much better than.           *)
COROLLARY ChannelIsAlwaysNearBest == Spec => []ChannelIsNearBest
<1>1. \A n \in 0..MaxChannels : \A channels \in [1..n -> Channel] : channels \in Seq(Rated)
  <2>1. Channel \subseteq Rated
    <3> SUFFICES ASSUME NEW c \in Channel PROVE c \in Rated
      OBVIOUS
    <3>1. Rate \subseteq Nat /\ 0..MaxInFlight \subseteq Nat
      BY InputsAssumption
    <3> QED  BY <3>1 DEF Channel, Rated
  <2>2. \A n \in Nat : [1..n -> Channel] \subseteq Seq(Rated)
    BY <2>1
  <2> QED  BY <2>2, InputsAssumption
<1>2. ChannelIsNearBest
  BY <1>1, ChannelChosenWell DEF ChannelIsNearBest
<1> QED  BY <1>2, PTL

(* A channel that fails is back in time.                                   *)
COROLLARY ChannelsAlwaysComeBack == Spec => []ChannelsComeBack
<1>1. ChannelsComeBack
  BY InputsAssumption, ChannelComesBack DEF ChannelsComeBack
<1> QED  BY <1>1, PTL
=============================================================================
