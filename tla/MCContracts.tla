---------------------------- MODULE MCContracts -----------------------------
(* Timed contracts of one customer on a small instance: both in the demo   *)
(* account, or one in each.                                                *)
EXTENDS TimedContracts

CONSTANTS u1, k1, k2, w1, w2

MCPlan(first, second) ==
  [k \in Keys |->
     [account |-> <<u1, IF k = k1 THEN first ELSE second>>,
      direction |-> IF k = k1 THEN "UP" ELSE "DOWN",
      stake |-> IF k = k1 THEN 3 ELSE 4, fee |-> 2, duration |-> IF k = k1 THEN 2 ELSE 3]]

MCPlans == {MCPlan("DEMO", "DEMO"), MCPlan("DEMO", "REAL")}
=============================================================================
