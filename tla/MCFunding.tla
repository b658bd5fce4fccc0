----------------------------- MODULE MCFunding ------------------------------
(* Instances of Funding for TLC.                                           *)
EXTENDS Funding, TLC

CONSTANTS u1, a1, a2, m1, d1, d2, w1, w2, ref1, ref2, f1, f2

MCSymmetry ==
  Permutations(Admins) \cup Permutations(DepositKeys) \cup Permutations(WithdrawalKeys)
    \cup Permutations(References) \cup Permutations(Files)

(* In sandbox mode, where the operators need not differ and a withdrawal   *)
(* can be completed at once: one withdrawal, at rates that stay.           *)
SandboxBound ==
  isVirtual =>
    /\ Cardinality({w \in Withdrawals : withdrawal[w] # NoRequest}) <= 1
    /\ rates.deposit = rates.withdrawal
    /\ {"DEPOSIT", "WITHDRAWAL"} \X Users \subseteq open
=============================================================================
