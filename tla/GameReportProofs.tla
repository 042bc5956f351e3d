-------------------------- MODULE GameReportProofs --------------------------
(***************************************************************************)
(* What GameReport computes, for a game of any length and any scores.      *)
(*                                                                         *)
(* Verdicts and losses are facts about one move and its two evaluations.   *)
(* The summaries need the sum of the losses to be a natural number, for    *)
(* which the fold over a set is first shown to be defined (FoldExists) and *)
(* then by a set of smallest size on which it would not be natural         *)
(* (FoldNatural).  The comparison of two players is about integer division *)
(* with rounding (HalfUpMonotone, AccuracyAntitone).                       *)
(***************************************************************************)
EXTENDS GameReport, FiniteSetTheorems, NaturalsInduction, WellFoundedInduction, TLAPS

Evaluations == [ply : Nat, score : StockfishScores, played : BOOLEAN]

(* The evaluations of a game that was analysed to its end. *)
CompleteGame(evs) ==
  /\ evs \in Seq(Evaluations) /\ Len(evs) > 0
  /\ \A i \in 1 .. Len(evs) : evs[i].ply = i - 1

MovesOf(evs) == 1 .. Len(evs) - 1

-----------------------------------------------------------------------------
(* One move.                                                               *)
LEMMA Parity == \A n \in Nat : n % 2 \in {0, 1} /\ (n + 1) % 2 = 1 - (n % 2)
OBVIOUS

LEMMA MaxOfTwo ==
  ASSUME NEW x \in Int
  PROVE  Max({0, x}) = IF x > 0 THEN x ELSE 0
BY DEF Max

(* The evaluations around a move. *)
LEMMA Around ==
  ASSUME NEW evs, CompleteGame(evs), NEW p \in MovesOf(evs)
  PROVE  /\ p \in Nat /\ p > 0
         /\ evs[p] \in Evaluations /\ evs[p + 1] \in Evaluations
         /\ evs[p].ply = p - 1 /\ evs[p + 1].ply = p
         /\ p \in 1 .. Len(evs) /\ p + 1 \in 1 .. Len(evs)
<1>1. Len(evs) \in Nat
  BY DEF CompleteGame
<1>2. p \in Nat /\ p > 0 /\ p \in 1 .. Len(evs) /\ p + 1 \in 1 .. Len(evs)
  BY <1>1 DEF MovesOf
<1> QED
  BY <1>1, <1>2 DEF CompleteGame

(* The metric of a move, from the scores before and after it. *)
LEMMA MetricOf ==
  ASSUME NEW evs, CompleteGame(evs), NEW p \in MovesOf(evs)
  PROVE  LET metric == MoveMetric(evs, p)
             before == evs[p].score
             after == evs[p + 1].score IN
         /\ metric.mover = IF p % 2 = 1 THEN "WHITE" ELSE "BLACK"
         /\ metric.before = before
         /\ metric.after = [kind |-> after.kind, value |-> -after.value]
         /\ metric.outcome = Outcome(before.kind, after.kind)
         /\ metric.outcome = "CENTIPAWN_LOSS" <=>
              before.kind = "CENTIPAWN" /\ after.kind = "CENTIPAWN"
         /\ metric.outcome = "CENTIPAWN_LOSS" =>
              metric.loss = Max({0, before.value + after.value})
         /\ metric.outcome # "CENTIPAWN_LOSS" => metric.loss = Nothing
         /\ metric.bestMoveEqual \in BOOLEAN
<1> DEFINE before == evs[p].score
           after == evs[p + 1].score
           mover == SideToMove(p - 1)
<1>1. /\ before \in StockfishScores /\ after \in StockfishScores
      /\ evs[p].played \in BOOLEAN /\ p \in Nat /\ p > 0
  BY Around DEF Evaluations
<1>2. p % 2 \in {0, 1} /\ p % 2 = 1 - ((p - 1) % 2)
  <2>1. p - 1 \in Nat /\ (p - 1) + 1 = p
    BY <1>1
  <2> QED
    BY <2>1, Parity, <1>1
<1>3. mover = (IF p % 2 = 1 THEN "WHITE" ELSE "BLACK") /\ SideToMove(p) # mover
  BY <1>1, <1>2 DEF SideToMove
<1>4. Normalize(before, SideToMove(p - 1), mover) = before
  BY DEF Normalize
<1>5. Normalize(after, SideToMove(p), mover) = [kind |-> after.kind, value |-> -after.value]
  BY <1>1, <1>3 DEF Normalize, StockfishScores
<1>6. /\ before.kind \in {"CENTIPAWN", "MATE"} /\ after.kind \in {"CENTIPAWN", "MATE"}
      /\ before.value \in Int /\ after.value \in Int
  BY <1>1 DEF StockfishScores
<1>7. Outcome(before.kind, after.kind) = "CENTIPAWN_LOSS" <=>
        before.kind = "CENTIPAWN" /\ after.kind = "CENTIPAWN"
  BY <1>6 DEF Outcome
<1>8. before.value - (-after.value) = before.value + after.value
  BY <1>6
<1> DEFINE turned == [kind |-> after.kind, value |-> -after.value]
           outcome == Outcome(before.kind, after.kind)
<1>9. turned.kind = after.kind /\ turned.value = -after.value
  OBVIOUS
<1>10. MoveMetric(evs, p) =
         [mover |-> mover, before |-> before, after |-> turned, outcome |-> outcome,
          loss |-> IF outcome = "CENTIPAWN_LOSS" THEN Max({0, before.value + after.value})
                   ELSE Nothing,
          bestMoveEqual |-> evs[p].played]
  <2> HIDE DEF before, turned, outcome
  <2>1. MoveMetric(evs, p) =
         [mover |-> mover, before |-> before, after |-> turned,
          outcome |-> Outcome(before.kind, turned.kind),
          loss |-> IF Outcome(before.kind, turned.kind) = "CENTIPAWN_LOSS"
                   THEN Max({0, before.value - turned.value}) ELSE Nothing,
          bestMoveEqual |-> evs[p].played]
    <3>1. Normalize(evs[p].score, SideToMove(p - 1), SideToMove(p - 1)) = before
      BY <1>4 DEF before
    <3>2. Normalize(evs[p + 1].score, SideToMove(p), SideToMove(p - 1)) = turned
      BY <1>5 DEF turned
    <3> QED
      BY <3>1, <3>2, Zenon DEF MoveMetric
  <2> QED
    BY <2>1, <1>8, <1>9 DEF outcome
<1> HIDE DEF before, after, mover, turned, outcome
<1>11. outcome = "CENTIPAWN_LOSS" <=> before.kind = "CENTIPAWN" /\ after.kind = "CENTIPAWN"
  BY <1>7 DEF outcome
<1>12. /\ MoveMetric(evs, p).mover = mover
       /\ MoveMetric(evs, p).before = before
       /\ MoveMetric(evs, p).after = turned
       /\ MoveMetric(evs, p).outcome = outcome
       /\ MoveMetric(evs, p).loss = IF outcome = "CENTIPAWN_LOSS"
                                    THEN Max({0, before.value + after.value}) ELSE Nothing
       /\ MoveMetric(evs, p).bestMoveEqual = evs[p].played
  BY <1>10
<1> QED
  BY <1>1, <1>3, <1>11, <1>12 DEF before, after, turned, outcome

(* The class of a score for the player it is told to.                      *)
Class(score) == IF score.kind = "CENTIPAWN" THEN 0 ELSE IF score.value > 0 THEN 1 ELSE -1

(* The gain of a move is what it changes in the class of its mover.        *)
LEMMA GainOfMover ==
  ASSUME NEW evs, CompleteGame(evs), NEW p \in MovesOf(evs),
         ~Undecided(evs[p]), ~Undecided(evs[p + 1])
  PROVE  Gain(evs, p) = Class(MoveMetric(evs, p).after) - Class(MoveMetric(evs, p).before)
<1> DEFINE before == evs[p].score
           after == evs[p + 1].score
           turned == [kind |-> after.kind, value |-> -after.value]
<1>1. /\ p \in Nat /\ p > 0 /\ evs[p].ply = p - 1 /\ evs[p + 1].ply = p
      /\ before.kind \in {"CENTIPAWN", "MATE"} /\ before.value \in Int
      /\ after.kind \in {"CENTIPAWN", "MATE"} /\ after.value \in Int
  BY Around DEF Evaluations, StockfishScores
<1>2. p % 2 \in {0, 1} /\ (p - 1) % 2 = 1 - (p % 2)
  <2>1. p - 1 \in Nat /\ (p - 1) + 1 = p
    BY <1>1
  <2> QED
    BY <2>1, Parity, <1>1
<1>3. (before.kind = "MATE" => before.value # 0) /\ (after.kind = "MATE" => after.value # 0)
  BY DEF Undecided
<1>4. turned.kind = after.kind /\ turned.value = -after.value
  OBVIOUS
<1>5. MoveMetric(evs, p).after = turned /\ MoveMetric(evs, p).before = before
  BY MetricOf
<1>6. /\ WhiteStanding(evs[p]) = IF p % 2 = 1 THEN Class(before) ELSE -Class(before)
      /\ WhiteStanding(evs[p + 1]) = IF p % 2 = 1 THEN Class(turned) ELSE -Class(turned)
  <2> HIDE DEF turned
  <2>1. CASE p % 2 = 1
    BY <2>1, <1>1, <1>2, <1>3, <1>4 DEF WhiteStanding, Class
  <2>2. CASE p % 2 = 0
    BY <2>2, <1>1, <1>2, <1>3, <1>4 DEF WhiteStanding, Class
  <2> QED
    BY <2>1, <2>2, <1>2
<1>7. Class(before) \in Int /\ Class(turned) \in Int
  BY DEF Class
<1> HIDE DEF before, turned
<1> QED
  BY <1>2, <1>5, <1>6, <1>7 DEF Gain, before

(* Verdicts of a move beside a mate.  The precedence of mates decides      *)
(* before the loss or the best move is looked at.                          *)
LEMMA VerdictFair ==
  ASSUME NEW evs, CompleteGame(evs), NEW p \in MovesOf(evs)
  PROVE  VerdictIsFair(evs, p, MoveQuality(MoveMetric(evs, p)))
<1> DEFINE metric == MoveMetric(evs, p)
<1>1. /\ metric.before = evs[p].score
      /\ metric.after.kind = evs[p + 1].score.kind
      /\ metric.after.value = -evs[p + 1].score.value
      /\ metric.outcome = Outcome(evs[p].score.kind, evs[p + 1].score.kind)
  <2>1. /\ metric.before = evs[p].score
        /\ metric.after = [kind |-> evs[p + 1].score.kind, value |-> -evs[p + 1].score.value]
        /\ metric.outcome = Outcome(evs[p].score.kind, evs[p + 1].score.kind)
    BY MetricOf
  <2> HIDE DEF metric
  <2> QED
    BY <2>1
<1>2. /\ evs[p].score.kind \in {"CENTIPAWN", "MATE"} /\ evs[p].score.value \in Int
      /\ evs[p + 1].score.kind \in {"CENTIPAWN", "MATE"} /\ evs[p + 1].score.value \in Int
  BY Around DEF Evaluations, StockfishScores
<1>3. /\ metric.before.kind \in {"CENTIPAWN", "MATE"} /\ metric.before.value \in Int
      /\ metric.after.kind \in {"CENTIPAWN", "MATE"} /\ metric.after.value \in Int
      /\ metric.outcome = Outcome(metric.before.kind, metric.after.kind)
      /\ Undecided(evs[p]) <=> metric.before.kind = "MATE" /\ metric.before.value = 0
      /\ Undecided(evs[p + 1]) <=> metric.after.kind = "MATE" /\ metric.after.value = 0
  BY <1>1, <1>2 DEF Undecided
<1>4. ~Undecided(evs[p]) /\ ~Undecided(evs[p + 1]) =>
        Gain(evs, p) = Class(metric.after) - Class(metric.before)
  BY GainOfMover
<1> SUFFICES VerdictIsFair(evs, p, MoveQuality(metric))
  OBVIOUS
<1> HIDE DEF metric
<1>5. MatePrecedence(metric) # "NONE" => MoveQuality(metric) = MatePrecedence(metric)
  BY DEF MoveQuality
<1>6. Rewarded(metric) \in {"BEST", "EXCELLENT"}
  BY DEF Rewarded
<1>7. CASE metric.before.kind = "CENTIPAWN" /\ metric.after.kind = "CENTIPAWN"
  BY <1>3, <1>4, <1>7 DEF VerdictIsFair, Class
<1>8. CASE metric.before.kind = "CENTIPAWN" /\ metric.after.kind = "MATE"
  <2>1. metric.outcome = "CENTIPAWN_TO_MATE"
    BY <1>3, <1>8 DEF Outcome
  <2>2. MoveQuality(metric) = IF metric.after.value = 0 THEN "UNCLASSIFIED"
                              ELSE IF metric.after.value > 0 THEN Rewarded(metric)
                              ELSE "BLUNDER"
    <3>1. MatePrecedence(metric) = IF metric.after.value = 0 THEN "UNCLASSIFIED"
                              ELSE IF metric.after.value > 0 THEN Rewarded(metric)
                              ELSE "BLUNDER"
      BY <2>1, <1>3 DEF MatePrecedence
    <3> QED
      BY <3>1, <1>5, <1>6
  <2> QED
    BY <2>2, <1>3, <1>4, <1>6, <1>8 DEF VerdictIsFair, Class
<1>9. CASE metric.before.kind = "MATE" /\ metric.after.kind = "CENTIPAWN"
  <2>1. metric.outcome = "MATE_TO_CENTIPAWN"
    BY <1>3, <1>9 DEF Outcome
  <2>2. MoveQuality(metric) = IF metric.before.value = 0 THEN "UNCLASSIFIED"
                              ELSE IF metric.before.value > 0 THEN "BLUNDER"
                              ELSE Rewarded(metric)
    <3>1. MatePrecedence(metric) = IF metric.before.value = 0 THEN "UNCLASSIFIED"
                              ELSE IF metric.before.value > 0 THEN "BLUNDER"
                              ELSE Rewarded(metric)
      BY <2>1, <1>3 DEF MatePrecedence
    <3> QED
      BY <3>1, <1>5, <1>6
  <2> QED
    BY <2>2, <1>3, <1>4, <1>6, <1>9 DEF VerdictIsFair, Class
<1>10. CASE metric.before.kind = "MATE" /\ metric.after.kind = "MATE"
  <2>1. metric.outcome = "MATE_TO_MATE"
    BY <1>3, <1>10 DEF Outcome
  <2> DEFINE b == metric.before.value
             a == metric.after.value
  <2>2. /\ b = 0 \/ a = 0 => MatePrecedence(metric) = "UNCLASSIFIED"
        /\ b > 0 /\ a < 0 => MatePrecedence(metric) = "BLUNDER"
        /\ b < 0 /\ a > 0 => MatePrecedence(metric) = Rewarded(metric)
    BY <2>1, <1>3 DEF MatePrecedence
  <2>3. CASE b = 0 \/ a = 0
    BY <2>3, <2>2, <1>5, <1>3, <1>10 DEF VerdictIsFair
  <2>4. CASE b # 0 /\ a # 0
    <3>1. Gain(evs, p) < 0 => b > 0 /\ a < 0
      BY <2>4, <1>3, <1>4, <1>10 DEF Class
    <3>2. Gain(evs, p) > 0 => b < 0 /\ a > 0
      BY <2>4, <1>3, <1>4, <1>10 DEF Class
    <3> QED
      BY <3>1, <3>2, <2>2, <2>4, <1>3, <1>5, <1>6 DEF VerdictIsFair
  <2> QED
    BY <2>3, <2>4, <1>3
<1> QED
  BY <1>3, <1>7, <1>8, <1>9, <1>10

(* The loss of a move whose two evaluations are shown.                     *)
LEMMA LossShown ==
  ASSUME NEW evs, CompleteGame(evs), NEW p \in MovesOf(evs)
  PROVE  LossIsShown([ply \in MovesOf(evs) |-> PublicMove(evs, ply)], p)
<1> DEFINE m == [ply \in MovesOf(evs) |-> PublicMove(evs, ply)]
<1> SUFFICES ASSUME p > 1, NEW before \in m[p - 1].after, NEW after \in m[p].after
             PROVE  m[p].loss = Max({0, before + after})
  BY DEF LossIsShown
<1>1. p - 1 \in MovesOf(evs) /\ p \in Nat /\ (p - 1) + 1 = p
  <2>1. Len(evs) \in Nat
    BY DEF CompleteGame
  <2> QED
    BY <2>1 DEF MovesOf
<1>2. /\ m[p - 1].after = IF evs[p].score.kind = "CENTIPAWN" THEN {evs[p].score.value} ELSE {}
      /\ m[p].after = IF evs[p + 1].score.kind = "CENTIPAWN" THEN {evs[p + 1].score.value} ELSE {}
      /\ m[p].loss = MoveMetric(evs, p).loss
  BY <1>1 DEF PublicMove
<1>3. /\ evs[p].score.kind = "CENTIPAWN" /\ before = evs[p].score.value
      /\ evs[p + 1].score.kind = "CENTIPAWN" /\ after = evs[p + 1].score.value
  <2> HIDE DEF m
  <2> QED
    BY <1>2
<1>4. MoveMetric(evs, p).loss = Max({0, evs[p].score.value + evs[p + 1].score.value})
  BY <1>3, MetricOf
<1> HIDE DEF m
<1> QED
  BY <1>2, <1>3, <1>4

-----------------------------------------------------------------------------
(* The moves of a player.                                                  *)
MovesBy(evs, color) == {p \in MovesOf(evs) : MoveMetric(evs, p).mover = color}
Counted(evs, color) ==
  {p \in MovesBy(evs, color) : MoveMetric(evs, p).outcome = "CENTIPAWN_LOSS"}

LEMMA FiniteMoves ==
  ASSUME NEW evs, CompleteGame(evs)
  PROVE  /\ IsFiniteSet(MovesOf(evs)) /\ Cardinality(MovesOf(evs)) = Len(evs) - 1
         /\ \A S \in SUBSET MovesOf(evs) : IsFiniteSet(S) /\ Cardinality(S) \in Nat
<1>1. Len(evs) - 1 \in Nat
  BY DEF CompleteGame
<1>2. IsFiniteSet(MovesOf(evs)) /\ Cardinality(MovesOf(evs)) = Len(evs) - 1
  BY <1>1, FS_Interval DEF MovesOf
<1> QED
  BY <1>2, FS_Subset, FS_CardinalityType

LEMMA MovesArePartitioned ==
  ASSUME NEW evs, CompleteGame(evs)
  PROVE  Cardinality(MovesBy(evs, "WHITE")) + Cardinality(MovesBy(evs, "BLACK")) = Len(evs) - 1
<1> DEFINE W == MovesBy(evs, "WHITE")
           B == MovesBy(evs, "BLACK")
<1>1. \A p \in MovesOf(evs) : MoveMetric(evs, p).mover \in {"WHITE", "BLACK"}
  <2> TAKE p \in MovesOf(evs)
  <2>1. MoveMetric(evs, p).mover = IF p % 2 = 1 THEN "WHITE" ELSE "BLACK"
    BY MetricOf
  <2> QED
    BY <2>1
<1>2. W \cup B = MovesOf(evs) /\ W \cap B = {} /\ W \subseteq MovesOf(evs) /\ B \subseteq MovesOf(evs)
  BY <1>1 DEF MovesBy
<1> HIDE DEF W, B
<1>3. IsFiniteSet(W) /\ IsFiniteSet(B) /\ Cardinality(W) \in Nat /\ Cardinality(B) \in Nat
  BY <1>2, FiniteMoves
<1>4. Cardinality(MovesOf(evs)) = Cardinality(W) + Cardinality(B) - Cardinality({})
  BY <1>2, <1>3, FS_Union
<1> QED
  BY <1>3, <1>4, FS_EmptySet, FiniteMoves DEF W, B

-----------------------------------------------------------------------------
(* The sum of the losses.                                                  *)
LEMMA LeastNumber ==
  ASSUME NEW B \in SUBSET Nat, B # {}
  PROVE  \E n \in B : \A k \in B : n <= k
<1> DEFINE R == OpToRel(<, Nat)
<1>1. PICK n \in B : \A k \in B : ~(<<k, n>> \in R)
  <2> HIDE DEF R
  <2>1. IsWellFoundedOn(R, Nat)
    BY NatLessThanWellFounded DEF R
  <2> QED
    BY <2>1, WFMin
<1>2. \A k \in B : ~(k < n)
  BY <1>1 DEF OpToRel
<1> QED
  BY <1>2

(* What MapThenSumSet chooses next, and the sum of a set from the sums it  *)
(* knows of smaller ones.                                                  *)
LossOf(evs, p) == MoveMetric(evs, p).loss
First(s) == CHOOSE x \in s : TRUE
SumFrom(evs, g, s) == IF s = {} THEN 0 ELSE LossOf(evs, First(s)) + g[s \ {First(s)}]

Smaller(S, n) == {s \in SUBSET S : Cardinality(s) <= n}

LEMMA OneLess ==
  ASSUME NEW S, IsFiniteSet(S), NEW s \in SUBSET S, s # {}
  PROVE  /\ First(s) \in s /\ First(s) \in S /\ s \ {First(s)} \in SUBSET S
         /\ IsFiniteSet(s) /\ Cardinality(s) \in Nat /\ Cardinality(s \ {First(s)}) \in Nat
         /\ Cardinality(s \ {First(s)}) = Cardinality(s) - 1
<1>1. First(s) \in s
  BY DEF First
<1>2. IsFiniteSet(s)
  BY FS_Subset
<1> HIDE DEF First
<1> QED
  BY <1>1, <1>2, FS_RemoveElement, FS_CardinalityType

(* The recursion has a solution on the sets of at most n elements.         *)
LEMMA FoldExists ==
  ASSUME NEW S, IsFiniteSet(S), NEW evs, \A p \in S : LossOf(evs, p) \in Nat
  PROVE  \E g : g = [s \in SUBSET S |-> SumFrom(evs, g, s)]
<1> DEFINE Solved(n) == \E g : g = [s \in Smaller(S, n) |-> SumFrom(evs, g, s)]
           B == {n \in Nat : ~Solved(n)}
<1>1. B = {}
  <2> SUFFICES ASSUME B # {} PROVE FALSE
    OBVIOUS
  <2>1. PICK n \in B : \A k \in B : n <= k
    <3> B \in SUBSET Nat
      OBVIOUS
    <3> HIDE DEF B
    <3> QED
      BY LeastNumber
  <2>2. n \in Nat /\ ~Solved(n)
    BY <2>1
  <2>3. CASE n = 0
    <3> DEFINE g == [s \in Smaller(S, 0) |-> 0]
    <3>1. \A s \in Smaller(S, 0) : s = {}
      <4> TAKE s \in Smaller(S, 0)
      <4>1. IsFiniteSet(s) /\ Cardinality(s) = 0
        BY FS_Subset, FS_CardinalityType DEF Smaller
      <4> QED
        BY <4>1, FS_EmptySet
    <3>2. \A h : [s \in Smaller(S, 0) |-> SumFrom(evs, h, s)] = g
      BY <3>1 DEF SumFrom
    <3>3. g = [s \in Smaller(S, 0) |-> SumFrom(evs, g, s)]
      BY <3>2
    <3> HIDE DEF g
    <3>4. Solved(0)
      BY <3>3
    <3> QED
      BY <2>2, <2>3, <3>4
  <2>4. CASE n > 0
    <3>1. n - 1 \in Nat /\ Solved(n - 1)
      <4>1. n - 1 \in Nat /\ ~(n <= n - 1)
        BY <2>2, <2>4
      <4> QED
        BY <4>1, <2>1
    <3>2. PICK g : g = [s \in Smaller(S, n - 1) |-> SumFrom(evs, g, s)]
      BY <3>1
    <3> DEFINE h == [s \in Smaller(S, n) |-> SumFrom(evs, g, s)]
    <3>3. ASSUME NEW s \in Smaller(S, n)
          PROVE  SumFrom(evs, g, s) = SumFrom(evs, h, s)
      <4>1. CASE s = {}
        BY <4>1 DEF SumFrom
      <4>2. CASE s # {}
        <5> DEFINE t == s \ {First(s)}
        <5>1. t \in Smaller(S, n - 1) /\ t \in Smaller(S, n)
          <6>1. /\ s \in SUBSET S /\ Cardinality(s) <= n
            BY DEF Smaller
          <6>2. /\ t \in SUBSET S /\ Cardinality(t) \in Nat
                /\ Cardinality(s) \in Nat /\ Cardinality(t) = Cardinality(s) - 1
            BY <6>1, <4>2, OneLess
          <6> HIDE DEF t
          <6> QED
            BY <6>1, <6>2, <2>2 DEF Smaller
        <5> HIDE DEF t
        <5>2. g[t] = SumFrom(evs, g, t)
          BY <3>2, <5>1
        <5>3. h[t] = SumFrom(evs, g, t)
          BY <5>1
        <5> HIDE DEF h
        <5> QED
          BY <4>2, <5>2, <5>3 DEF SumFrom, t
      <4> QED
        BY <4>1, <4>2
    <3>4. h = [s \in Smaller(S, n) |-> SumFrom(evs, h, s)]
      BY <3>3, Zenon
    <3> HIDE DEF h
    <3>5. Solved(n)
      BY <3>4
    <3> QED
      BY <3>5, <2>2
  <2> QED
    BY <2>2, <2>3, <2>4
<1>2. Cardinality(S) \in Nat /\ Smaller(S, Cardinality(S)) = SUBSET S
  BY FS_CardinalityType, FS_Subset DEF Smaller
<1>3. Solved(Cardinality(S))
  <2> HIDE DEF Solved
  <2> QED
    BY <1>1, <1>2
<1> QED
  BY <1>2, <1>3

(* Whatever solves the recursion has natural numbers as values.            *)
LEMMA FoldNatural ==
  ASSUME NEW S, IsFiniteSet(S), NEW evs, \A p \in S : LossOf(evs, p) \in Nat,
         NEW g, g = [s \in SUBSET S |-> SumFrom(evs, g, s)]
  PROVE  g[S] \in Nat
<1> DEFINE Wrong == {s \in SUBSET S : g[s] \notin Nat}
           B == {Cardinality(s) : s \in Wrong}
<1>1. Wrong = {}
  <2> SUFFICES ASSUME Wrong # {} PROVE FALSE
    OBVIOUS
  <2>1. B \in SUBSET Nat /\ B # {}
    <3>1. \A s \in Wrong : Cardinality(s) \in Nat
      BY FS_Subset, FS_CardinalityType
    <3>2. PICK s : s \in Wrong
      BY Zenon
    <3>3. Cardinality(s) \in B
      BY <3>2
    <3> HIDE DEF Wrong
    <3> QED
      BY <3>1, <3>3
  <2>2. PICK n \in B : \A k \in B : n <= k
    <3> HIDE DEF B
    <3> QED
      BY <2>1, LeastNumber
  <2>3. PICK s \in Wrong : n = Cardinality(s)
    BY <2>2
  <2>4. s \in SUBSET S /\ g[s] = SumFrom(evs, g, s) /\ g[s] \notin Nat
    BY <2>3
  <2>5. s # {}
    BY <2>4 DEF SumFrom
  <2> DEFINE t == s \ {First(s)}
  <2>6. /\ t \in SUBSET S /\ First(s) \in S
        /\ Cardinality(s) \in Nat /\ Cardinality(t) = Cardinality(s) - 1
    BY <2>4, <2>5, OneLess
  <2> HIDE DEF t
  <2>7. t \notin Wrong
    <3> SUFFICES ASSUME t \in Wrong PROVE FALSE
      OBVIOUS
    <3>1. Cardinality(t) \in B
      OBVIOUS
    <3> HIDE DEF B, Wrong
    <3> QED
      BY <2>2, <2>3, <2>6, <3>1
  <2>8. g[t] \in Nat
    BY <2>6, <2>7
  <2>9. g[s] = LossOf(evs, First(s)) + g[t]
    BY <2>4, <2>5 DEF SumFrom, t
  <2> QED
    BY <2>4, <2>6, <2>8, <2>9
<1> QED
  BY <1>1

TotalLoss(evs, S) == MapThenSumSet(LAMBDA p : MoveMetric(evs, p).loss, S)

LEMMA SumIsNatural ==
  ASSUME NEW S, IsFiniteSet(S), NEW evs, \A p \in S : LossOf(evs, p) \in Nat
  PROVE  TotalLoss(evs, S) \in Nat
<1> DEFINE it == CHOOSE g : g = [s \in SUBSET S |-> SumFrom(evs, g, s)]
<1>1. it = [s \in SUBSET S |-> SumFrom(evs, it, s)]
  BY FoldExists
<1>2. TotalLoss(evs, S) = it[S]
  BY DEF TotalLoss, MapThenSumSet, MapThenFoldSet, SumFrom, First, LossOf
<1> HIDE DEF it
<1>3. it[S] \in Nat
  BY <1>1, FoldNatural
<1> QED
  BY <1>2, <1>3

-----------------------------------------------------------------------------
(* Rounding.                                                               *)
LEMMA DivisionBounds ==
  ASSUME NEW n \in Int, NEW d \in Nat \ {0}
  PROVE  n \div d \in Int /\ d * (n \div d) <= n /\ n < d * (n \div d) + d
OBVIOUS

LEMMA Scaled ==
  ASSUME NEW k \in Nat \ {0}, NEW u \in Int, NEW v \in Int
  PROVE  (u <= v => k * u <= k * v) /\ (u < v => k * u < k * v)
OBVIOUS

LEMMA HalfUpBounds ==
  ASSUME NEW n \in Nat, NEW d \in Nat \ {0}
  PROVE  LET q == HalfUp(n, d) IN
         /\ q \in Nat
         /\ d * (2 * q - 1) <= 2 * n
         /\ 2 * n < d * (2 * q + 1)
<1> DEFINE q == HalfUp(n, d)
<1>1. /\ q \in Int
      /\ (2 * d) * q <= 2 * n + d
      /\ 2 * n + d < (2 * d) * q + 2 * d
  <2>1. 2 * n + d \in Int /\ 2 * d \in Nat \ {0}
    OBVIOUS
  <2> QED
    BY <2>1, DivisionBounds DEF HalfUp
<1> HIDE DEF q
<1>2. d * (2 * q - 1) <= 2 * n /\ 2 * n < d * (2 * q + 1)
  BY <1>1
<1>3. q >= 0
  <2> SUFFICES ASSUME q < 0 PROVE FALSE
    BY <1>1
  <2>1. 2 * q + 1 <= 0 /\ 2 * q + 1 \in Int
    BY <1>1
  <2>2. d * (2 * q + 1) <= d * 0 /\ d * 0 = 0 /\ d * (2 * q + 1) \in Int
    BY <2>1, Scaled
  <2>3. 2 * n < d * (2 * q + 1) /\ 2 * n \in Nat
    BY <1>2
  <2> HIDE DEF q
  <2> QED
    BY <2>2, <2>3
<1> QED
  BY <1>1, <1>2, <1>3 DEF q

(* The greater fraction is not rounded to the lesser number.               *)
LEMMA HalfUpMonotone ==
  ASSUME NEW a \in Nat, NEW b \in Nat, NEW d \in Nat \ {0}, NEW e \in Nat \ {0},
         a * e <= b * d
  PROVE  HalfUp(a, d) <= HalfUp(b, e)
<1> DEFINE q == HalfUp(a, d)
           r == HalfUp(b, e)
<1>1. /\ q \in Nat /\ d * (2 * q - 1) <= 2 * a
      /\ r \in Nat /\ 2 * b < e * (2 * r + 1)
  BY HalfUpBounds
<1> HIDE DEF q, r
<1> SUFFICES ASSUME r + 1 <= q PROVE FALSE
  BY <1>1 DEF q, r
<1> DEFINE x == 2 * q - 1
<1>2. x \in Int /\ 2 * r + 1 <= x
  BY <1>1
<1>3. e * (2 * r + 1) <= e * x
  BY <1>1, <1>2, Scaled
<1>4. 2 * b < e * x /\ d * x <= 2 * a /\ e * x \in Int /\ d * x \in Int
  BY <1>1, <1>2, <1>3
<1> HIDE DEF x
<1>5. d * (2 * b) < d * (e * x)
  BY <1>4, Scaled
<1>6. e * (d * x) <= e * (2 * a)
  BY <1>4, Scaled
<1>7. /\ d * (e * x) = e * (d * x) /\ d * (e * x) \in Int
      /\ e * (2 * a) = 2 * (a * e) /\ d * (2 * b) = 2 * (b * d)
      /\ a * e \in Int /\ b * d \in Int
  BY <1>2
<1> QED
  BY <1>5, <1>6, <1>7

-----------------------------------------------------------------------------
(* The summaries.                                                          *)
LEMMA SummaryOf ==
  ASSUME NEW evs, CompleteGame(evs), NEW color
  PROVE  LET all == Cardinality(MovesBy(evs, color))
             counted == Cardinality(Counted(evs, color))
             summary == Summary(evs, color) IN
         /\ all \in Nat /\ counted \in Nat /\ counted <= all
         /\ summary.total = all /\ summary.eligible = counted /\ summary.losses \in Nat
         /\ counted = 0 => summary.accuracy = Nothing
         /\ counted > 0 => /\ summary.acpl = HalfUp(100 * summary.losses, counted)
                           /\ summary.accuracy = Accuracy(summary.acpl)
         /\ summary.cplCoverage = Percentage(counted, all)
         /\ summary.classified =
              all - Cardinality({p \in MovesBy(evs, color) :
                                   MoveQuality(MoveMetric(evs, p)) = "UNCLASSIFIED"})
         /\ summary.coverage = Percentage(summary.classified, all)
<1> DEFINE S == Counted(evs, color)
           all == Cardinality(MovesBy(evs, color))
           counted == Cardinality(S)
           losses == TotalLoss(evs, S)
           acpl == IF S = {} THEN Nothing ELSE Averaged(losses, counted, all)
           unjudged == Cardinality({p \in MovesBy(evs, color) :
                                      MoveQuality(MoveMetric(evs, p)) = "UNCLASSIFIED"})
           counts == [q \in Qualities |->
                        Cardinality({p \in MovesBy(evs, color) :
                                       MoveQuality(MoveMetric(evs, p)) = q})]
<1>1. /\ MovesBy(evs, color) \subseteq MovesOf(evs) /\ S \subseteq MovesBy(evs, color)
      /\ IsFiniteSet(MovesBy(evs, color)) /\ IsFiniteSet(S)
      /\ all \in Nat /\ counted \in Nat /\ counted <= all
  <2>1. MovesBy(evs, color) \subseteq MovesOf(evs) /\ S \subseteq MovesBy(evs, color)
    BY DEF MovesBy, Counted
  <2> HIDE DEF S
  <2> QED
    BY <2>1, FiniteMoves, FS_Subset
<1>2. \A p \in S : LossOf(evs, p) \in Nat
  <2> TAKE p \in S
  <2>1. p \in MovesOf(evs) /\ MoveMetric(evs, p).outcome = "CENTIPAWN_LOSS"
    BY <1>1 DEF Counted
  <2>2. /\ evs[p].score.value \in Int /\ evs[p + 1].score.value \in Int
    BY <2>1, Around DEF Evaluations, StockfishScores
  <2>3. LossOf(evs, p) = Max({0, evs[p].score.value + evs[p + 1].score.value})
    BY <2>1, MetricOf DEF LossOf
  <2> QED
    BY <2>2, <2>3, MaxOfTwo
<1>3. losses \in Nat
  <2> HIDE DEF S
  <2> QED
    BY <1>1, <1>2, SumIsNatural
<1>4. S = {} <=> counted = 0
  <2> HIDE DEF S
  <2> QED
    BY <1>1, FS_EmptySet
<1>5. counts["UNCLASSIFIED"] = unjudged
  BY DEF Qualities
<1>6. Summary(evs, color) =
        [total |-> all, eligible |-> counted, cplCoverage |-> Percentage(counted, all),
         losses |-> losses, acpl |-> acpl,
         accuracy |-> IF acpl = Nothing THEN Nothing ELSE Accuracy(acpl),
         classified |-> all - counts["UNCLASSIFIED"],
         coverage |-> Percentage(all - counts["UNCLASSIFIED"], all),
         counts |-> counts]
  BY Zenon DEF Summary, TotalLoss, MovesBy, Counted, MovesOf
<1>7. counted > 0 => acpl = HalfUp(100 * losses, counted) /\ acpl \in Nat /\ acpl # Nothing
  <2> SUFFICES ASSUME counted > 0
               PROVE  acpl = HalfUp(100 * losses, counted) /\ acpl \in Nat /\ acpl # Nothing
    OBVIOUS
  <2> HIDE DEF losses, counted, S
  <2>1. 100 * losses \in Nat /\ counted \in Nat \ {0} /\ S # {}
    BY <1>1, <1>3, <1>4
  <2>2. acpl = HalfUp(100 * losses, counted)
    BY <2>1 DEF Averaged
  <2>3. HalfUp(100 * losses, counted) \in Nat
    BY <2>1, HalfUpBounds
  <2> HIDE DEF acpl
  <2> QED
    BY <2>2, <2>3 DEF Nothing
<1>8. counted = 0 => acpl = Nothing
  BY <1>4
<1> HIDE DEF S, all, counted, losses, acpl, unjudged, counts
<1> DEFINE summary == Summary(evs, color)
<1>9. /\ summary.total = all /\ summary.eligible = counted /\ summary.losses = losses
      /\ summary.acpl = acpl
      /\ summary.accuracy = IF acpl = Nothing THEN Nothing ELSE Accuracy(acpl)
      /\ summary.cplCoverage = Percentage(counted, all)
      /\ summary.classified = all - unjudged
      /\ summary.coverage = Percentage(summary.classified, all)
  BY <1>5, <1>6
<1> HIDE DEF summary
<1> QED
  BY <1>1, <1>3, <1>7, <1>8, <1>9 DEF summary, S, all, counted, unjudged

LEMMA AccuracyOf ==
  ASSUME NEW evs, CompleteGame(evs), NEW color
  PROVE  LET summary == Summary(evs, color) IN
         /\ summary.eligible \in Nat /\ summary.losses \in Nat
         /\ summary.eligible = 0 => summary.accuracy = Nothing
         /\ summary.eligible > 0 =>
              summary.accuracy = Accuracy(HalfUp(100 * summary.losses, summary.eligible))
<1> DEFINE summary == Summary(evs, color)
           counted == Cardinality(Counted(evs, color))
<1>1. /\ counted \in Nat /\ summary.eligible = counted /\ summary.losses \in Nat
      /\ counted = 0 => summary.accuracy = Nothing
      /\ counted > 0 => /\ summary.acpl = HalfUp(100 * summary.losses, counted)
                        /\ summary.accuracy = Accuracy(summary.acpl)
  BY SummaryOf
<1> HIDE DEF summary, counted
<1>2. /\ summary.eligible \in Nat /\ summary.losses \in Nat
      /\ summary.eligible = 0 => summary.accuracy = Nothing
      /\ summary.eligible > 0 =>
           summary.accuracy = Accuracy(HalfUp(100 * summary.losses, summary.eligible))
  BY <1>1
<1> QED
  BY <1>2 DEF summary

LEMMA AccuracyAntitone ==
  ASSUME NEW a \in Nat, NEW b \in Nat, a <= b
  PROVE  Accuracy(b) <= Accuracy(a)
<1> DEFINE N == 1000000 * ScaleCentipawns
           d == 100 * ScaleCentipawns + a
           e == 100 * ScaleCentipawns + b
<1>1. N \in Nat \ {0} /\ d \in Nat \ {0} /\ e \in Nat \ {0} /\ d <= e
  BY SMT, ScalePositive
<1> HIDE DEF N, d, e
<1>2. N * d <= N * e
  BY <1>1, Scaled
<1>3. HalfUp(N, e) <= HalfUp(N, d)
  BY <1>1, <1>2, HalfUpMonotone
<1> QED
  BY SMT, <1>3 DEF Accuracy, N, d, e

(* Averages compare as the losses for each counted move do.                *)
LEMMA AveragesCompare ==
  ASSUME NEW l \in Nat, NEW k \in Nat, NEW n \in Nat \ {0}, NEW o \in Nat \ {0},
         l * o <= k * n
  PROVE  /\ HalfUp(100 * l, n) <= HalfUp(100 * k, o)
         /\ Accuracy(HalfUp(100 * k, o)) <= Accuracy(HalfUp(100 * l, n))
<1>1. (100 * l) * o <= (100 * k) * n
  <2>1. /\ (100 * l) * o = 100 * (l * o) /\ l * o \in Int
        /\ (100 * k) * n = 100 * (k * n) /\ k * n \in Int
    OBVIOUS
  <2> QED
    BY <2>1
<1>2. 100 * l \in Nat /\ 100 * k \in Nat
  OBVIOUS
<1>3. HalfUp(100 * l, n) <= HalfUp(100 * k, o)
  BY <1>1, <1>2, HalfUpMonotone
<1>4. HalfUp(100 * l, n) \in Nat /\ HalfUp(100 * k, o) \in Nat
  BY <1>2, HalfUpBounds
<1> QED
  BY <1>3, <1>4, AccuracyAntitone

(* What Report consists of.                                                *)
LEMMA ReportOf ==
  ASSUME NEW evs
  PROVE  /\ Report(evs).white = Summary(evs, "WHITE")
         /\ Report(evs).black = Summary(evs, "BLACK")
         /\ Report(evs).moves = [p \in MovesOf(evs) |-> PublicMove(evs, p)]
BY DEF Report, Aggregate, MovesOf

(* MoveClassificationService, GameMetricAggregationService and the public  *)
(* mapping: in the report of a game of any length, with any scores, the    *)
(* verdicts follow the standing of the mover, losses are what the shown    *)
(* evaluations differ by, every move counts once and accuracies rank as    *)
(* losses do.                                                              *)
THEOREM ReportsAreFair == \A evs : CompleteGame(evs) => FairReport(evs)
<1> SUFFICES ASSUME NEW evs, CompleteGame(evs) PROVE FairReport(evs)
  OBVIOUS
<1> DEFINE moves == [p \in MovesOf(evs) |-> PublicMove(evs, p)]
           white == Summary(evs, "WHITE")
           black == Summary(evs, "BLACK")
<1>1. ASSUME NEW p \in MovesOf(evs)
      PROVE  VerdictIsFair(evs, p, moves[p].quality) /\ LossIsShown(moves, p)
  <2>1. moves[p].quality = MoveQuality(MoveMetric(evs, p))
    BY DEF PublicMove
  <2>2. LossIsShown(moves, p)
    BY LossShown
  <2> QED
    BY <2>1, <2>2, VerdictFair
<1>2. white.total + black.total = Len(evs) - 1
  BY SummaryOf, MovesArePartitioned
<1>3. PlayersAreFair(white, black)
  <2>1. /\ white.eligible \in Nat /\ white.losses \in Nat
        /\ white.eligible > 0 =>
             white.accuracy = Accuracy(HalfUp(100 * white.losses, white.eligible))
    BY AccuracyOf
  <2>2. /\ black.eligible \in Nat /\ black.losses \in Nat
        /\ black.eligible > 0 =>
             black.accuracy = Accuracy(HalfUp(100 * black.losses, black.eligible))
    BY AccuracyOf
  <2> HIDE DEF white, black
  <2> DEFINE lead == black.losses * white.eligible - white.losses * black.eligible
  <2> SUFFICES ASSUME white.eligible > 0, black.eligible > 0
               PROVE  /\ lead >= 0 => white.accuracy >= black.accuracy
                      /\ lead <= 0 => white.accuracy <= black.accuracy
    BY DEF PlayersAreFair
  <2>3. /\ black.losses * white.eligible \in Int /\ white.losses * black.eligible \in Int
        /\ white.eligible \in Nat \ {0} /\ black.eligible \in Nat \ {0}
    BY <2>1, <2>2
  <2>4. ASSUME lead >= 0 PROVE white.accuracy >= black.accuracy
    <3>1. white.losses * black.eligible <= black.losses * white.eligible
      BY <2>3, <2>4
    <3>2. Accuracy(HalfUp(100 * black.losses, black.eligible))
            <= Accuracy(HalfUp(100 * white.losses, white.eligible))
      BY <3>1, <2>1, <2>2, <2>3, AveragesCompare
    <3> QED
      BY <3>2, <2>1, <2>2
  <2>5. ASSUME lead <= 0 PROVE white.accuracy <= black.accuracy
    <3>1. black.losses * white.eligible <= white.losses * black.eligible
      BY <2>3, <2>5
    <3>2. Accuracy(HalfUp(100 * white.losses, white.eligible))
            <= Accuracy(HalfUp(100 * black.losses, black.eligible))
      BY <3>1, <2>1, <2>2, <2>3, AveragesCompare
    <3> QED
      BY <3>2, <2>1, <2>2
  <2> QED
    BY <2>4, <2>5
<1>4. DOMAIN moves = MovesOf(evs)
  OBVIOUS
<1> HIDE DEF moves, white, black
<1>5. /\ Report(evs).moves = moves /\ Report(evs).white = white /\ Report(evs).black = black
  BY ReportOf DEF moves, white, black
<1> QED
  BY <1>1, <1>2, <1>3, <1>4, <1>5 DEF FairReport

(* Two decimals of a percentage, or None. *)
Percentages == {Nothing} \cup {x \in Nat : x <= 10000}

(* GameMetricAggregationService: no player is credited with more counted   *)
(* or classified moves than he made, and coverages and accuracy lie        *)
(* between 0 and 100, or are absent for want of a move.                    *)
InRange(summary) ==
  /\ summary.eligible <= summary.total /\ summary.classified \in 0 .. summary.total
  /\ {summary.cplCoverage, summary.coverage, summary.accuracy} \subseteq Percentages
  /\ summary.total = 0 <=> summary.coverage = Nothing
  /\ summary.eligible = 0 <=> summary.accuracy = Nothing

LEMMA SomePercentage ==
  ASSUME NEW x \in Nat, x <= 10000
  PROVE  x \in Percentages /\ x # Nothing
BY SMT DEF Percentages, Nothing

LEMMA NoPercentage == Nothing \in Percentages
BY SMT DEF Percentages

LEMMA PercentageInRange ==
  ASSUME NEW d \in Nat, NEW n \in 0 .. d
  PROVE  /\ Percentage(n, d) \in Percentages
         /\ d = 0 <=> Percentage(n, d) = Nothing
<1>1. CASE d = 0
  BY <1>1, NoPercentage DEF Percentage
<1>2. CASE d # 0
  <2>1. d \in Nat \ {0} /\ 10000 * n \in Nat /\ (10000 * n) * 1 <= 10000 * d
    BY SMT, <1>2
  <2>2. HalfUp(10000 * n, d) \in Nat
    BY SMT, <2>1, HalfUpBounds
  <2>3. HalfUp(10000 * n, d) <= HalfUp(10000, 1)
    BY SMT, <2>1, HalfUpMonotone
  <2>4. HalfUp(10000, 1) = 10000
    BY SMT DEF HalfUp
  <2>5. Percentage(n, d) = HalfUp(10000 * n, d)
    BY SMT, <1>2 DEF Percentage
  <2> DEFINE percentage == HalfUp(10000 * n, d)
  <2>6. percentage \in Nat /\ percentage <= 10000
    BY SMT, <2>2, <2>3, <2>4
  <2> HIDE DEF percentage
  <2>7. percentage \in Percentages /\ percentage # Nothing
    BY SMT, <2>6, SomePercentage
  <2> QED
    BY SMT, <1>2, <2>5, <2>7 DEF percentage
<1> QED
  BY <1>1, <1>2

LEMMA AccuracyInRange ==
  ASSUME NEW acpl \in Nat
  PROVE  Accuracy(acpl) \in Percentages \ {Nothing}
<1> DEFINE N == 1000000 * ScaleCentipawns
           d == 100 * ScaleCentipawns + acpl
<1>1. N \in Nat /\ d \in Nat \ {0} /\ N * 1 <= 10000 * d
  BY SMT, ScalePositive
<1> HIDE DEF N, d
<1>2. HalfUp(N, d) \in Nat
  BY <1>1, HalfUpBounds
<1>3. HalfUp(N, d) <= HalfUp(10000, 1)
  BY SMT, <1>1, HalfUpMonotone
<1>4. HalfUp(10000, 1) = 10000
  BY SMT DEF HalfUp
<1> DEFINE accuracy == HalfUp(N, d)
<1>5. accuracy \in Nat /\ accuracy <= 10000
  BY SMT, <1>2, <1>3, <1>4
<1> HIDE DEF accuracy
<1>6. accuracy \in Percentages \ {Nothing}
  BY SMT, <1>5, SomePercentage
<1> QED
  BY SMT, <1>6 DEF Accuracy, accuracy, N, d

(* GameMetricAggregationService: the figures of both players are in range. *)
THEOREM ReportsAreInRange ==
  \A evs : CompleteGame(evs) => InRange(Report(evs).white) /\ InRange(Report(evs).black)
<1>1. ASSUME NEW evs, CompleteGame(evs), NEW color
      PROVE  InRange(Summary(evs, color))
  <2> DEFINE summary == Summary(evs, color)
             all == Cardinality(MovesBy(evs, color))
             counted == Cardinality(Counted(evs, color))
             Unjudged == {p \in MovesBy(evs, color) :
                            MoveQuality(MoveMetric(evs, p)) = "UNCLASSIFIED"}
             unjudged == Cardinality(Unjudged)
  <2>1. /\ all \in Nat /\ counted \in Nat /\ counted <= all
        /\ summary.total = all /\ summary.eligible = counted
        /\ summary.cplCoverage = Percentage(counted, all)
        /\ summary.classified = all - unjudged
        /\ summary.coverage = Percentage(summary.classified, all)
    BY <1>1, SummaryOf
  <2>2. /\ summary.losses \in Nat
        /\ summary.eligible = 0 => summary.accuracy = Nothing
        /\ summary.eligible > 0 =>
             summary.accuracy = Accuracy(HalfUp(100 * summary.losses, summary.eligible))
    BY <1>1, AccuracyOf
  <2>3. unjudged \in Nat /\ unjudged <= all
    <3>1. Unjudged \subseteq MovesBy(evs, color) /\ MovesBy(evs, color) \subseteq MovesOf(evs)
      BY DEF MovesBy
    <3> HIDE DEF Unjudged
    <3> QED
      BY <1>1, <3>1, FiniteMoves, FS_Subset
  <2> HIDE DEF summary, all, counted, unjudged
  <2>4. all - unjudged \in 0 .. all /\ counted \in 0 .. all
    BY <2>1, <2>3
  <2>5. /\ {summary.cplCoverage, summary.coverage} \subseteq Percentages
        /\ summary.total = 0 <=> summary.coverage = Nothing
    BY <2>1, <2>4, PercentageInRange
  <2>6. /\ summary.accuracy \in Percentages
        /\ summary.eligible = 0 <=> summary.accuracy = Nothing
    <3>1. CASE summary.eligible = 0
      BY <3>1, <2>2, NoPercentage
    <3>2. CASE summary.eligible # 0
      <4>1. 100 * summary.losses \in Nat /\ summary.eligible \in Nat \ {0}
        BY <2>1, <2>2, <3>2
      <4>2. HalfUp(100 * summary.losses, summary.eligible) \in Nat
        BY <4>1, HalfUpBounds
      <4>3. summary.accuracy \in Percentages \ {Nothing}
        BY <4>1, <4>2, <2>2, AccuracyInRange
      <4> QED
        BY <4>3, <3>2
    <3> QED
      BY <3>1, <3>2
  <2>7. InRange(summary)
    BY <2>1, <2>4, <2>5, <2>6 DEF InRange
  <2> QED
    BY <2>7 DEF summary
<1>2. ASSUME NEW evs, CompleteGame(evs)
      PROVE  InRange(Report(evs).white) /\ InRange(Report(evs).black)
  <2>1. InRange(Summary(evs, "WHITE")) /\ InRange(Summary(evs, "BLACK"))
    BY <1>1, <1>2
  <2>2. /\ Report(evs).white = Summary(evs, "WHITE")
        /\ Report(evs).black = Summary(evs, "BLACK")
    BY ReportOf
  <2> QED
    BY <2>1, <2>2
<1> QED
  BY <1>2
=============================================================================
