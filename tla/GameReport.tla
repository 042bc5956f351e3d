----------------------------- MODULE GameReport -----------------------------
(***************************************************************************)
(* The report of a completely analysed game: a metric and a verdict for    *)
(* every move, and a summary for every player.  Pure functions of the      *)
(* evaluations, which are a sequence: the position after ply p is number   *)
(* p + 1.  A score is relative to the side to move; `played' says that the *)
(* best move of a position is the move that was made in it.  Decimals of   *)
(* two places are kept as integers, in hundredths.                         *)
(***************************************************************************)
EXTENDS Integers, Sequences, FiniteSets, FiniteSetsExt

CONSTANT ScaleCentipawns
ASSUME ScalePositive == ScaleCentipawns \in Nat \ {0}

Nothing == -1     \* None for a number that is never negative

Qualities == {"BEST", "EXCELLENT", "GOOD", "INACCURACY", "MISTAKE", "BLUNDER",
              "UNCLASSIFIED"}

(* StockfishScore: centipawns or a mate, and never both. *)
StockfishScores == [kind : {"CENTIPAWN", "MATE"}, value : Int]

SideToMove(ply) == IF ply % 2 = 0 THEN "WHITE" ELSE "BLACK"

(* Defect: the score of the position after the move is not turned round. *)
NormalizeUnturned(score, side, mover) == score

Normalize(score, side, mover) ==
  IF side = mover THEN score ELSE [score EXCEPT !.value = -@]

Outcome(before, after) ==
  CASE before = "CENTIPAWN" /\ after = "CENTIPAWN" -> "CENTIPAWN_LOSS"
    [] before = "MATE"      /\ after = "MATE"      -> "MATE_TO_MATE"
    [] before = "CENTIPAWN" /\ after = "MATE"      -> "CENTIPAWN_TO_MATE"
    [] before = "MATE"      /\ after = "CENTIPAWN" -> "MATE_TO_CENTIPAWN"

(* The metric of the move that leads to position `ply'. *)
MoveMetric(evaluations, ply) ==
  LET mover == SideToMove(ply - 1)
      before == Normalize(evaluations[ply].score, SideToMove(ply - 1), mover)
      after == Normalize(evaluations[ply + 1].score, SideToMove(ply), mover)
      outcome == Outcome(before.kind, after.kind) IN
  [mover |-> mover, before |-> before, after |-> after, outcome |-> outcome,
   loss |-> IF outcome = "CENTIPAWN_LOSS" THEN Max({0, before.value - after.value})
            ELSE Nothing,
   bestMoveEqual |-> evaluations[ply].played]

(* CentipawnLossThresholdPolicy *)
ThresholdQuality(loss) ==
  CASE loss <= 20                -> "EXCELLENT"
    [] loss > 20  /\ loss <= 50  -> "GOOD"
    [] loss > 50  /\ loss <= 100 -> "INACCURACY"
    [] loss > 100 /\ loss <= 200 -> "MISTAKE"
    [] loss > 200                -> "BLUNDER"

Rewarded(metric) == IF metric.bestMoveEqual THEN "BEST" ELSE "EXCELLENT"

(* A mate that appears, vanishes or changes hands decides before anything  *)
(* else; "NONE" leaves the verdict to the comparison with the best move.   *)
MatePrecedence(metric) ==
  LET before == metric.before.value
      after == metric.after.value IN
  CASE metric.outcome = "CENTIPAWN_TO_MATE" ->
         (CASE after = 0 -> "UNCLASSIFIED"
            [] after > 0 -> Rewarded(metric)
            [] after < 0 -> "BLUNDER")
    [] metric.outcome = "MATE_TO_CENTIPAWN" ->
         (CASE before = 0 -> "UNCLASSIFIED"
            [] before > 0 -> "BLUNDER"
            [] before < 0 -> Rewarded(metric))
    [] metric.outcome = "MATE_TO_MATE" ->
         (CASE before = 0 \/ after = 0 -> "UNCLASSIFIED"
            [] before > 0 /\ after < 0 -> "BLUNDER"
            [] before < 0 /\ after > 0 -> Rewarded(metric)
            [] OTHER -> "NONE")
    [] OTHER -> "NONE"

(* A mate that stays in the same hands, whoever they are. *)
SamePolarityQuality(metric) ==
  IF metric.before.value * metric.after.value > 0 THEN "GOOD" ELSE "UNCLASSIFIED"

MoveQuality(metric) ==
  LET decided == MatePrecedence(metric) IN
  CASE decided # "NONE" -> decided
    [] decided = "NONE" /\ metric.bestMoveEqual -> "BEST"
    [] OTHER -> IF metric.outcome = "MATE_TO_MATE" THEN SamePolarityQuality(metric)
                ELSE ThresholdQuality(metric.loss)

(* ROUND_HALF_UP of n / d, for n that is not negative *)
HalfUp(n, d) == (2 * n + d) \div (2 * d)

Percentage(n, d) == IF d = 0 THEN Nothing ELSE HalfUp(10000 * n, d)

(* Average centipawn loss, in hundredths. *)
Averaged(losses, eligible, all) == HalfUp(100 * losses, eligible)

(* AccuracyPolicy.transform: 100 * scale / (scale + acpl), in hundredths *)
Accuracy(acpl) == HalfUp(1000000 * ScaleCentipawns, 100 * ScaleCentipawns + acpl)

Summary(evaluations, color) ==
  LET moves == {p \in 1 .. Len(evaluations) - 1 : MoveMetric(evaluations, p).mover = color}
      eligible == {p \in moves : MoveMetric(evaluations, p).outcome = "CENTIPAWN_LOSS"}
      losses == MapThenSumSet(LAMBDA p : MoveMetric(evaluations, p).loss, eligible)
      acpl == IF eligible = {} THEN Nothing
              ELSE Averaged(losses, Cardinality(eligible), Cardinality(moves))
      counts == [q \in Qualities |->
                   Cardinality({p \in moves : MoveQuality(MoveMetric(evaluations, p)) = q})]
      classified == Cardinality(moves) - counts["UNCLASSIFIED"] IN
  [total |-> Cardinality(moves),
   eligible |-> Cardinality(eligible),
   cplCoverage |-> Percentage(Cardinality(eligible), Cardinality(moves)),
   losses |-> losses,
   acpl |-> acpl,
   accuracy |-> IF acpl = Nothing THEN Nothing ELSE Accuracy(acpl),
   classified |-> classified,
   coverage |-> Percentage(classified, Cardinality(moves)),
   counts |-> counts]

Aggregate(evaluations) ==
  [white |-> Summary(evaluations, "WHITE"), black |-> Summary(evaluations, "BLACK")]

(* What the owner is shown of a move.  The evaluation after it is the one  *)
(* of the side to move then, and {} when there is a mate.                  *)
PublicMove(evaluations, ply) ==
  LET metric == MoveMetric(evaluations, ply)
      after == evaluations[ply + 1].score IN
  [mover |-> metric.mover,
   quality |-> MoveQuality(metric),
   loss |-> metric.loss,
   alternative |-> ~metric.bestMoveEqual,
   after |-> IF after.kind = "CENTIPAWN" THEN {after.value} ELSE {}]

(* map_public_analysis *)
Report(evaluations) ==
  LET players == Aggregate(evaluations) IN
  [white |-> players.white, black |-> players.black,
   moves |-> [ply \in 1 .. Len(evaluations) - 1 |-> PublicMove(evaluations, ply)]]

-----------------------------------------------------------------------------
(* Reference for the report: the standing of White in a position, in       *)
(* classes, from what the side to move is told.                            *)
WhiteStanding(e) ==
  LET s == IF e.ply % 2 = 0 THEN e.score.value ELSE -e.score.value IN
  IF e.score.kind = "CENTIPAWN" THEN 0 ELSE IF s > 0 THEN 1 ELSE -1

Gain(evaluations, p) ==
  (WhiteStanding(evaluations[p + 1]) - WhiteStanding(evaluations[p]))
    * (IF p % 2 = 1 THEN 1 ELSE -1)

(* A mate in zero moves does not say whose it is. *)
Undecided(e) == e.score.kind = "MATE" /\ e.score.value = 0

VerdictIsFair(evaluations, p, quality) ==
  IF Undecided(evaluations[p]) \/ Undecided(evaluations[p + 1])
  THEN quality = "UNCLASSIFIED"
  ELSE /\ Gain(evaluations, p) < 0 => quality = "BLUNDER"
       /\ Gain(evaluations, p) > 0 => quality \in {"BEST", "EXCELLENT"}

LossIsShown(m, p) ==
  p > 1 => \A before \in m[p - 1].after, after \in m[p].after :
             m[p].loss = Max({0, before + after})

PlayersAreFair(white, black) ==
  white.eligible > 0 /\ black.eligible > 0 =>
    LET lead == black.losses * white.eligible - white.losses * black.eligible IN
    /\ lead >= 0 => white.accuracy >= black.accuracy
    /\ lead <= 0 => white.accuracy <= black.accuracy

(* A move after which the mover stands in a worse class (a mate lost, or a *)
(* mate to suffer) is a BLUNDER, one after which he stands in a better     *)
(* class is praised, and one beside a mate that is nobody's is not judged; *)
(* the loss of a move is what the two evaluations shown around it differ   *)
(* by; every move counts for one player; and the player who lost less for  *)
(* each counted move is never told the lower accuracy.                     *)
FairReport(evaluations) ==
  LET report == Report(evaluations)
      moves == report.moves IN
  /\ \A p \in DOMAIN moves :
       VerdictIsFair(evaluations, p, moves[p].quality) /\ LossIsShown(moves, p)
  /\ report.white.total + report.black.total = Len(evaluations) - 1
  /\ PlayersAreFair(report.white, report.black)
=============================================================================
