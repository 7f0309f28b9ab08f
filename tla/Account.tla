------------------------------ MODULE Account ------------------------------
(***************************************************************************)
(* What the tables payable and receivable promise of an account: it is     *)
(* opened by its first charge, and from then on holds the exact sum of     *)
(* what was charged less what was paid.                                    *)
(***************************************************************************)
EXTENDS Integers

CONSTANTS Amounts  \* amounts that are charged or paid at a time, in wei

VARIABLES open, balance

vars == <<open, balance>>

Init == open = FALSE /\ balance = 0

Charge ==
  /\ open' = TRUE
  /\ \E n \in Amounts : balance' = balance + n

Pay ==
  /\ open /\ UNCHANGED open
  /\ \E n \in Amounts : balance' = balance - n

Spec == Init /\ [][Charge \/ Pay]_vars

=============================================================================
