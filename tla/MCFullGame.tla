----------------------------- MODULE MCFullGame -----------------------------
EXTENDS FullGame, TLC

CONSTANTS a, b

Game(moves) == [status |-> "FINISHED", verified |-> TRUE, moves |-> moves,
                legal |-> TRUE, terminal |-> FALSE]

(* a: a game of three moves; b: games that must not be analysed, and a     *)
(* short one that ends in mate.                                            *)
TheGames ==
  (a :> {Game(3), Game(4)}) @@
  (b :> { [Game(1) EXCEPT !.terminal = TRUE],
          [Game(1) EXCEPT !.status = "CAPTURING"],
          [Game(1) EXCEPT !.verified = FALSE, !.status = "DEEP_ANALYSIS_RUNNING"],
          Game(0),
          [Game(2) EXCEPT !.legal = FALSE] })

Score(kind, value) == [kind |-> kind, value |-> value]

Output(score, played) == [score |-> score, played |-> played]

TheOutputs ==
  (a :> { Output(Score("CENTIPAWN", 0), FALSE), Output(Score("CENTIPAWN", 60), TRUE),
          Output(Score("MATE", 2), TRUE), Output(Score("MATE", -1), FALSE),
          Output(Score("MATE", 0), FALSE) }) @@
  (b :> {Output(Score("CENTIPAWN", 30), FALSE)})
=============================================================================
