------------------------------- MODULE Ledger -------------------------------
(***************************************************************************)
(* An account in the database and what the payment thresholds say of it.   *)
(*                                                                         *)
(* A balance is a 128-bit integer that SQLite cannot hold.  It is kept in  *)
(* two 64-bit columns of a strict table: the low one takes 63 bits and is  *)
(* never negative, the high one takes the rest.  An update adds both       *)
(* columns; when the sum of the low ones does not fit, SQLite refuses the  *)
(* statement, and the row is read, corrected and written.                  *)
(*                                                                         *)
(* A creditor bans the debtor when the row is delinquent, a SQL condition  *)
(* on the two columns; a debtor pays a creditor when the balance exceeds   *)
(* the limit for its age.  Both use the same thresholds.                   *)
(***************************************************************************)
EXTENDS Integers

CONSTANTS
  Word,        \* 2^63
  WeisInGwei,  \* 10^9, also the longest threshold interval allowed
  Thresholds,  \* values users may configure for payment-thresholds
  Amounts,     \* amounts charged or paid at a time, in wei
  MaxBalance,  \* bound: the largest debt, and the largest credit
  MaxAge,      \* bound: the greatest age of a debt
  NoRow        \* the table has no row for the wallet

PaymentThresholds ==
  [debtThreshold : Nat, permanentDebtAllowed : Nat,
   maturity : Nat, gracePeriod : Nat, interval : Nat]

ASSUME LedgerAssumption ==
  /\ Word \in Nat \ {0} /\ WeisInGwei \in Nat \ {0}
  /\ Thresholds \subseteq PaymentThresholds
  /\ Amounts \subseteq Nat
  /\ MaxBalance \in Nat /\ MaxAge \in Nat
  /\ NoRow \notin [high : Int, low : Int]

VARIABLES
  thresholds,  \* the thresholds of the Node
  row,         \* balance_high_b and balance_low_b, or NoRow
  age          \* seconds since last_received_timestamp or last_paid_timestamp

vars == <<thresholds, row, age>>

-----------------------------------------------------------------------------
(* Two columns for one integer *)

GweiToWei(n) == n * WeisInGwei

\* BigIntDivider.deconstruct: an arithmetic shift, and a mask
Deconstruct(n) == [high |-> n \div Word, low |-> n % Word]

\* BigIntDivider.reconstitute
Reconstitute(r) == r.high * Word + r.low

Fits(n) == -Word <= n /\ n < Word

\* Mutant: the carry is lost.
CorrectBytes_NoCarry(r, d) == [high |-> r.high + d.high, low |-> (r.low + d.low) % Word]

\* UpdateOverflowHandlerReal.correct_bytes
CorrectBytes(r, d) == [high |-> r.high + d.high + 1, low |-> (r.low + d.low) % Word]

\* BigIntDbProcessorReal.execute: the row after a change by d
Execute(r, d) ==
  IF Fits(r.low + d.low) THEN [high |-> r.high + d.high, low |-> r.low + d.low]
                         ELSE CorrectBytes(r, d)

-----------------------------------------------------------------------------
(* Thresholds *)

\* Mutant: the permanent debt may be as large as the debt threshold.
CheckPaymentThresholds_Equal(th) ==
  /\ th.debtThreshold >= th.permanentDebtAllowed
  /\ th.interval <= WeisInGwei

\* check_payment_thresholds.  It accepts an interval of 0 and a slope of any size.
CheckPaymentThresholds(th) ==
  /\ th.debtThreshold > th.permanentDebtAllowed
  /\ th.interval <= WeisInGwei

PermanentDebt(th) == GweiToWei(th.permanentDebtAllowed)

\* Mutant: the quotient is rounded down.
Slope_Floor(th) == (PermanentDebt(th) - GweiToWei(th.debtThreshold)) \div th.interval

\* ThresholdUtils.slope: the quotient of a negative number, rounded towards zero.  The
\* division panics when the interval is 0.
Slope(th) == -((GweiToWei(th.debtThreshold) - PermanentDebt(th)) \div th.interval)

\* ThresholdUtils.calculate_finite_debt_limit_by_age
LimitByAge(th, a) ==
  IF a > th.maturity + th.interval THEN PermanentDebt(th)
  ELSE Slope(th) * a + (GweiToWei(th.debtThreshold) - th.maturity * Slope(th))

\* PayableScanner.payable_exceeded_threshold: the debtor is to pay
PayableExceededThreshold(th, balance, a) ==
  /\ a > th.maturity
  /\ balance > PermanentDebt(th)
  /\ balance > LimitByAge(th, a)

\* Mutant: no grace is given.
SuggAndGraceAge_NoGrace(th, a) == a - th.maturity

\* PaymentThresholds.sugg_and_grace less the time stamp of the row
SuggAndGraceAge(th, a) == a - th.maturity - th.gracePeriod

\* A conversion to i64 keeps the lowest 64 bits.
AsI64(n) == ((n + Word) % (2 * Word)) - Word

\* The functions slope_drop_high_bytes and slope_drop_low_bytes
SlopeDrop(th, t) == Deconstruct(GweiToWei(th.debtThreshold) + AsI64(Slope(th)) * t)

Above(r, s) == r.high > s.high \/ (r.high = s.high /\ r.low > s.low)

\* Thresholds with which new_delinquencies does not panic before its query, in the division
\* by the interval or in the conversion of the debt threshold to an i64 ...
ThresholdsConvert(th) == th.interval # 0 /\ th.debtThreshold < Word

\* ... and whose slope the conversion to an i64 keeps.
ThresholdsCompute(th) == ThresholdsConvert(th) /\ Fits(Slope(th))

\* The condition on a row in ReceivableDaoReal.new_delinquencies, if ThresholdsConvert
Delinquent(th, r, a) ==
  LET t == SuggAndGraceAge(th, a)
      p == Deconstruct(PermanentDebt(th))
  IN  /\ t > 0
      /\ Above(r, SlopeDrop(th, t))
      /\ r.high > p.high \/ (r.high = 0 /\ r.low > p.low)

-----------------------------------------------------------------------------
Worth == IF row = NoRow THEN 0 ELSE Reconstitute(row)

Init ==
  /\ thresholds \in {th \in Thresholds : CheckPaymentThresholds(th)}
  /\ row = NoRow
  /\ age = 0

\* more_money_receivable, more_money_payable: the first charge inserts a row.
Charge(n) ==
  /\ Worth + n <= MaxBalance
  /\ \/ row = NoRow /\ row' = Deconstruct(n) /\ age' = 0
     \/ row # NoRow /\ row' = Execute(row, Deconstruct(n)) /\ UNCHANGED age
  /\ UNCHANGED thresholds

\* more_money_received, transactions_confirmed; without a row nothing changes.  A payment is
\* dated when it is received, or when its fingerprint was made, some time before.
Pay(n) ==
  /\ row # NoRow /\ -MaxBalance <= Worth - n
  /\ row' = Execute(row, Deconstruct(-n))
  /\ age' \in 0 .. age
  /\ UNCHANGED thresholds

Tick ==
  /\ row # NoRow /\ age < MaxAge
  /\ age' = age + 1
  /\ UNCHANGED <<thresholds, row>>

Next == (\E n \in Amounts : Charge(n) \/ Pay(n)) \/ Tick

Spec == Init /\ [][Next]_vars

-----------------------------------------------------------------------------
(* Properties *)

\* A row, however often execute has updated it, keeps its low column in 63 bits.
TypeOK ==
  /\ thresholds \in Thresholds /\ CheckPaymentThresholds(thresholds)
  /\ row = NoRow \/ row \in [high : Int, low : 0 .. Word - 1]
  /\ age \in Nat

Exact == INSTANCE Account WITH open <- row # NoRow, balance <- Worth

\* The two columns always hold the exact balance, over carries and borrows between
\* them: execute and correct_bytes implement addition and subtraction of integers.
BooksAreExact == Exact!Spec

\* slope_drop_high_bytes and slope_drop_low_bytes return an error, on which the scan
\* panics, unless the slope is negative.  If the slope fits in an i64, thresholds that
\* check_payment_thresholds accepts never make them: the quotient is never rounded to 0.
DelinquencyIsDefined ==
  ThresholdsCompute(thresholds) /\ row # NoRow /\ SuggAndGraceAge(thresholds, age) > 0 => AsI64(Slope(thresholds)) < 0

\* While a mature debt ages, the limit above which it is to be paid never rises, also
\* where the slope ends and the permanent limit begins.
LimitNeverRises ==
  [][age' > age /\ age > thresholds.maturity =>
       LimitByAge(thresholds, age') <= LimitByAge(thresholds, age)]_vars

\* Thresholds for which the SQL condition is exact: the permanent debt fits in the low
\* column, and the slope in 64 bits.
ThresholdsAreSmall(th) == ThresholdsCompute(th) /\ PermanentDebt(th) < Word

\* With small thresholds, a creditor calls a debt delinquent only if a debtor with the same
\* thresholds was to pay this debt a whole grace period earlier.
GraceIsGranted ==
  ThresholdsAreSmall(thresholds) /\ row # NoRow /\ Delinquent(thresholds, row, age) =>
    PayableExceededThreshold(thresholds, Worth, age - thresholds.gracePeriod)

\* Receivables up to the permanent debt allowed cause no ban, however old they are.
PermanentDebtIsAllowed ==
  row # NoRow /\ Delinquent(thresholds, row, age) => Worth > PermanentDebt(thresholds)

=============================================================================
