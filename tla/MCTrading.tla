----------------------------- MODULE MCTrading ------------------------------
(* Trading for TLC, as whole commands with every price and quantity, and,  *)
(* for what must eventually happen, as the statements of Transactions.     *)
EXTENDS Transactions

CONSTANTS u1, c1, c2, k1, k2, r1, r2

Demo == <<u1, "DEMO">>

Open(c, key)  == [op |-> "OPEN", account |-> Demo, key |-> key, c |-> c,
                  side |-> "BUY", quantity |-> 1]
Close(c, key) == [Open(c, key) EXCEPT !.op = "CLOSE"]
Reset(key)    == [Open(c1, key) EXCEPT !.op = "RESET"]

(* A retried open, the same order under another key, the key on another    *)
(* order; two closes of one position; a reset.                             *)
MCInputs == {Open(c1, k1), Open(c1, k2), Open(c2, k1), Close(c1, k1), Close(c1, k2), Reset(k1)}

VARIABLE part

MCInit == part \in {"COMMANDS", "STATEMENTS"} /\ TxInit

MCNext ==
  /\ UNCHANGED part
  /\ \/ part = "COMMANDS" /\ Next /\ UNCHANGED <<command, stream, tx>>
     \/ part = "STATEMENTS" /\ TxNext

MCSpec == MCInit /\ [][MCNext]_<<txVars, part>> /\ TxFairness
=============================================================================
