------------------------------ MODULE MCLedger ------------------------------
(* Ledger with words of 8 and a gwei of 3 wei. *)
EXTENDS Ledger

\* Permanent debts of less and of more than one word (9.2 MASQ), slopes that fit in 64 bits
\* and ones that do not, a debt threshold of a word, intervals of 0 and of more than a gwei.
MixedThresholds ==
  [debtThreshold : {1, 2, 3, 5, 8}, permanentDebtAllowed : {0, 1, 2, 4},
   maturity : 0 .. 1, gracePeriod : 0 .. 2, interval : 0 .. 4]

\* A permanent debt allowed of more than one word.
LargeThresholds ==
  [debtThreshold : {5}, permanentDebtAllowed : {4},
   maturity : {0}, gracePeriod : {0}, interval : {1}]

=============================================================================
