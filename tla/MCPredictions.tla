--------------------------- MODULE MCPredictions ----------------------------
(* Two customers and three stakes on one or two questions.                 *)
EXTENDS Predictions

CONSTANTS u1, u2

MCBet(u, mode, q, side, amount) ==
  [account |-> <<u, mode>>, question |-> q, side |-> side, amount |-> amount]

(* Two winners that share an odd pool; a customer who changes sides and    *)
(* has another question under way; a stake in each mode.                   *)
MCBets == {
  <<MCBet(u1, "DEMO", 1, "YES", 2), MCBet(u1, "DEMO", 1, "YES", 2), MCBet(u2, "DEMO", 1, "NO", 3)>>,
  <<MCBet(u1, "DEMO", 1, "YES", 2), MCBet(u1, "DEMO", 1, "NO", 2), MCBet(u1, "DEMO", 2, "YES", 2)>>,
  <<MCBet(u1, "DEMO", 1, "YES", 2), MCBet(u2, "REAL", 1, "NO", 3), MCBet(u2, "REAL", 1, "NO", 1)>>}
=============================================================================
