--------------------------- MODULE MCPayoutLedger ---------------------------
(* Instances of PayoutLedger for TLC.                                      *)
EXTENDS PayoutLedger

Taken(p, d, t) == [program |-> p, difficulty |-> d, at |-> t]

\* A large and a small miner: the small one's part of a reward is under the
\* floor.
OneLog == {<<Taken(1, 9, 1), Taken(2, 1, 2)>>}

\* The large miner owes, the small one is owed.
DebtAndCarry == [p \in Program |-> IF p = 1 THEN -2 ELSE 3]

AllPriors == [Program -> {-5, 0, 3, 7, 30}]
=============================================================================
