---------------------------- MODULE LedgerProof ----------------------------
(* Theorems about Ledger, for every word size, amount and set of thresholds. *)
EXTENDS Ledger, TLAPS

-----------------------------------------------------------------------------
(* Two columns for one integer *)

Column == [high : Int, low : 0 .. Word - 1]

\* Quotient and remainder make up a number.
LEMMA DivMod ==
  ASSUME NEW n \in Int, NEW w \in Nat \ {0}
  PROVE  n \div w \in Int /\ n % w \in 0 .. w - 1 /\ n = w * (n \div w) + (n % w)
OBVIOUS

LEMMA DeconstructExact ==
  ASSUME NEW n \in Int
  PROVE  Deconstruct(n) \in Column /\ Reconstitute(Deconstruct(n)) = n
BY LedgerAssumption, DivMod DEF Deconstruct, Reconstitute, Column

\* A remainder after a sum of two remainders.
LEMMA Carry ==
  ASSUME NEW w \in Nat \ {0}, NEW a \in 0 .. w - 1, NEW b \in 0 .. w - 1, a + b >= w
  PROVE  (a + b) % w = a + b - w
OBVIOUS

LEMMA Distribute ==
  ASSUME NEW a \in Int, NEW b \in Int, NEW c \in Int, NEW w \in Int
  PROVE  (a + b + c) * w = a * w + b * w + c * w
OBVIOUS

LEMMA ExecuteExact ==
  ASSUME NEW r \in Column, NEW d \in Column
  PROVE  Execute(r, d) \in Column
         /\ Reconstitute(Execute(r, d)) = Reconstitute(r) + Reconstitute(d)
<1>1. r.high \in Int /\ d.high \in Int /\ r.low \in 0 .. Word - 1 /\ d.low \in 0 .. Word - 1
      /\ Word \in Nat \ {0}
  BY LedgerAssumption DEF Column
<1> DEFINE low == r.low + d.low
<1>2. low \in Int /\ low >= 0
  BY <1>1
<1>3. CASE low < Word
  <2>1. Fits(low)
    BY <1>1, <1>2, <1>3 DEF Fits
  <2>2. Execute(r, d) = [high |-> r.high + d.high, low |-> low]
    BY <2>1 DEF Execute
  <2>3. Execute(r, d) \in Column
    BY <1>1, <1>2, <1>3, <2>2 DEF Column
  <2>4. (r.high + d.high + 0) * Word = r.high * Word + d.high * Word + 0 * Word
    BY <1>1, Distribute
  <2> QED
    BY <1>1, <2>2, <2>3, <2>4 DEF Reconstitute
<1>4. CASE low >= Word
  <2>1. ~Fits(low)
    BY <1>1, <1>2, <1>4 DEF Fits
  <2>2. low % Word = low - Word
    BY <1>1, <1>4, Carry
  <2>3. low - Word \in 0 .. Word - 1
    BY <1>1, <1>4
  <2>4. Execute(r, d) = [high |-> r.high + d.high + 1, low |-> low - Word]
    BY <2>1, <2>2 DEF Execute, CorrectBytes
  <2>5. Execute(r, d) \in Column
    BY <1>1, <2>3, <2>4 DEF Column
  <2>6. (r.high + d.high + 1) * Word = r.high * Word + d.high * Word + 1 * Word
    BY <1>1, Distribute
  <2> QED
    BY <1>1, <2>4, <2>5, <2>6 DEF Reconstitute
<1> QED
  BY <1>1, <1>2, <1>3, <1>4

\* Comparing columns is comparing the numbers they stand for.
LEMMA AboveIsGreater ==
  ASSUME NEW r \in Column, NEW s \in Column, Above(r, s)
  PROVE  Reconstitute(r) > Reconstitute(s)
<1>1. r.high \in Int /\ s.high \in Int /\ r.low \in 0 .. Word - 1 /\ s.low \in 0 .. Word - 1
      /\ Word \in Nat \ {0}
  BY LedgerAssumption DEF Column
<1>2. CASE r.high = s.high
  BY <1>1, <1>2 DEF Above, Reconstitute
<1>3. CASE r.high > s.high
  <2>1. PICK k \in Nat : r.high = s.high + 1 + k
    <3>1. r.high - s.high - 1 \in Nat /\ r.high = s.high + 1 + (r.high - s.high - 1)
      BY <1>1, <1>3
    <3> QED
      BY <3>1
  <2>2. r.high * Word = s.high * Word + 1 * Word + k * Word
    BY <1>1, <2>1, Distribute
  <2>3. k * Word >= 0
    BY <1>1
  <2>4. s.high * Word \in Int /\ k * Word \in Int
    BY <1>1
  <2> QED
    BY <1>1, <2>2, <2>3, <2>4 DEF Reconstitute
<1> QED
  BY <1>2, <1>3 DEF Above

-----------------------------------------------------------------------------
(* Type correctness, and the books *)

THEOREM TypeCorrect == Spec => []TypeOK
<1>1. Init => TypeOK
  BY DEF Init, TypeOK
<1>2. ASSUME TypeOK, [Next]_vars PROVE TypeOK'
  <2>1. CASE \E n \in Amounts : Charge(n)
    <3>1. PICK n \in Amounts : Charge(n)
      BY <2>1
    <3>2. Deconstruct(n) \in Column
      BY DeconstructExact, LedgerAssumption
    <3>3. row # NoRow => Execute(row, Deconstruct(n)) \in Column
      BY <1>2, <3>2, ExecuteExact DEF TypeOK, Column
    <3> QED
      BY <1>2, <3>1, <3>2, <3>3 DEF Charge, TypeOK, Column
  <2>2. CASE \E n \in Amounts : Pay(n)
    <3>1. PICK n \in Amounts : Pay(n)
      BY <2>2
    <3>2. -n \in Int
      BY LedgerAssumption
    <3>3. Deconstruct(-n) \in Column
      BY <3>2, DeconstructExact
    <3>4. Execute(row, Deconstruct(-n)) \in Column
      BY <1>2, <3>1, <3>3, ExecuteExact DEF Pay, TypeOK, Column
    <3> QED
      BY <1>2, <3>1, <3>4 DEF Pay, TypeOK, Column
  <2>3. CASE Tick
    BY <1>2, <2>3 DEF Tick, TypeOK
  <2>4. CASE UNCHANGED vars
    BY <1>2, <2>4 DEF vars, TypeOK
  <2> QED
    BY <1>2, <2>1, <2>2, <2>3, <2>4 DEF Next
<1> QED
  BY <1>1, <1>2, PTL DEF Spec

\* The columns of the table, with carries and borrows between them, implement an
\* account that holds one exact integer.
THEOREM LedgerIsExact == Spec => BooksAreExact
<1>1. Init => Exact!Init
  BY DEF Init, Exact!Init, Worth
<1>2. ASSUME TypeOK, TypeOK', [Next]_vars
      PROVE  [Exact!Charge \/ Exact!Pay]_Exact!vars
  <2>1. row # NoRow => row \in Column
    BY <1>2 DEF TypeOK, Column
  <2>2. \A r \in Column : r # NoRow
    BY LedgerAssumption DEF Column
  <2>3. CASE \E n \in Amounts : Charge(n)
    <3>1. PICK n \in Amounts : Charge(n)
      BY <2>3
    <3>2. n \in Int /\ Deconstruct(n) \in Column /\ Reconstitute(Deconstruct(n)) = n
      BY DeconstructExact, LedgerAssumption
    <3>3. row' \in Column /\ Reconstitute(row') = Worth + n
      BY <2>1, <3>1, <3>2, ExecuteExact DEF Charge, Worth
    <3>4. row' # NoRow /\ Worth' = Worth + n
      BY <2>2, <3>3 DEF Worth
    <3> QED
      BY <3>4 DEF Exact!Charge
  <2>4. CASE \E n \in Amounts : Pay(n)
    <3>1. PICK n \in Amounts : Pay(n)
      BY <2>4
    <3>2. n \in Int /\ -n \in Int
      BY LedgerAssumption
    <3>3. Deconstruct(-n) \in Column /\ Reconstitute(Deconstruct(-n)) = -n
      BY <3>2, DeconstructExact
    <3>4. row \in Column /\ row # NoRow
      BY <2>1, <3>1 DEF Pay
    <3>5. row' \in Column /\ Reconstitute(row') = Reconstitute(row) + (-n)
      BY <3>1, <3>3, <3>4, ExecuteExact DEF Pay
    <3>6. Reconstitute(row) \in Int
      BY <3>4, LedgerAssumption DEF Reconstitute, Column
    <3>7. row' # NoRow /\ Worth' = Worth - n
      BY <2>2, <3>2, <3>4, <3>5, <3>6 DEF Worth
    <3> QED
      BY <3>4, <3>7 DEF Exact!Pay
  <2>5. CASE Tick \/ UNCHANGED vars
    BY <2>5 DEF Tick, vars, Exact!vars, Worth
  <2> QED
    BY <1>2, <2>3, <2>4, <2>5 DEF Next
<1> QED
  BY <1>1, <1>2, TypeCorrect, PTL DEF Spec, BooksAreExact, Exact!Spec

-----------------------------------------------------------------------------
(* Thresholds *)

LEMMA Monotone ==
  ASSUME NEW k \in Nat, NEW a \in Int, NEW b \in Int, a <= b
  PROVE  k * a <= k * b
OBVIOUS

LEMMA ThresholdTypes ==
  ASSUME NEW th \in Thresholds
  PROVE  /\ th.maturity \in Nat /\ th.gracePeriod \in Nat /\ th.interval \in Nat
         /\ th.debtThreshold \in Nat /\ th.permanentDebtAllowed \in Nat
         /\ GweiToWei(th.debtThreshold) \in Nat /\ PermanentDebt(th) \in Nat
BY LedgerAssumption DEF PaymentThresholds, GweiToWei, PermanentDebt

\* Accepted thresholds with an interval have a negative slope that does not fall below the
\* permanent debt within it.
LEMMA SlopeBounds ==
  ASSUME NEW th \in Thresholds, CheckPaymentThresholds(th), th.interval # 0
  PROVE  /\ Slope(th) \in Int /\ Slope(th) < 0 /\ -Slope(th) \in Nat
         /\ PermanentDebt(th) <= GweiToWei(th.debtThreshold) - (-Slope(th)) * th.interval
<1> DEFINE D == GweiToWei(th.debtThreshold)
           P == PermanentDebt(th)
           I == th.interval
           k == (D - P) \div I
<1>1. D \in Nat /\ P \in Nat /\ I \in Nat \ {0} /\ Slope(th) = -k
  BY ThresholdTypes DEF Slope
<1>2. D - P >= WeisInGwei
  <2>1. PICK e \in Nat : th.debtThreshold = th.permanentDebtAllowed + 1 + e
    <3>1. th.debtThreshold - th.permanentDebtAllowed - 1 \in Nat
          /\ th.debtThreshold = th.permanentDebtAllowed + 1 + (th.debtThreshold - th.permanentDebtAllowed - 1)
      BY ThresholdTypes DEF CheckPaymentThresholds
    <3> QED
      BY <3>1
  <2>2. D = P + 1 * WeisInGwei + e * WeisInGwei
    BY <2>1, Distribute, ThresholdTypes, LedgerAssumption DEF GweiToWei, PermanentDebt
  <2>3. e * WeisInGwei \in Nat
    BY LedgerAssumption
  <2> QED
    BY <1>1, <2>2, <2>3, LedgerAssumption
<1>3. I <= WeisInGwei /\ WeisInGwei \in Nat
  BY LedgerAssumption DEF CheckPaymentThresholds
<1> HIDE DEF D, P, I
<1>4. D - P \in Int /\ D - P >= I
  BY <1>1, <1>2, <1>3
<1>5. k \in Int /\ (D - P) % I \in 0 .. I - 1 /\ D - P = I * k + ((D - P) % I)
  BY <1>1, <1>4, DivMod
<1> HIDE DEF k
<1>6. k >= 1
  <2> SUFFICES ASSUME k <= 0 PROVE FALSE
    BY <1>5
  <2>1. I * k <= I * 0
    BY <1>1, <1>5, Monotone
  <2> QED
    BY <1>1, <1>4, <1>5, <2>1
<1>7. k * I <= D - P
  BY <1>1, <1>5
<1>8. k * I \in Int
  BY <1>1, <1>5
<1> QED
  BY <1>1, <1>5, <1>6, <1>7, <1>8 DEF D, P, I

\* A slope that fits in 64 bits survives the conversion.
LEMMA FitsIsExact ==
  ASSUME NEW n \in Int, Fits(n)
  PROVE  AsI64(n) = n
<1>1. Word \in Nat \ {0} /\ n + Word \in Int /\ 0 <= n + Word /\ n + Word < 2 * Word
  BY LedgerAssumption DEF Fits
<1>2. (n + Word) % (2 * Word) = n + Word
  BY <1>1
<1> QED
  BY <1>1, <1>2 DEF AsI64

\* The limit at a time after maturity, until the slope ends.
LEMMA LimitOnSlope ==
  ASSUME NEW th \in Thresholds, CheckPaymentThresholds(th), th.interval # 0,
         NEW t \in Int, t <= th.interval
  PROVE  LimitByAge(th, th.maturity + t) = GweiToWei(th.debtThreshold) + Slope(th) * t
<1>1. Slope(th) \in Int /\ th.maturity \in Nat /\ GweiToWei(th.debtThreshold) \in Int /\ th.interval \in Nat
  BY SlopeBounds, ThresholdTypes
<1>2. ~(th.maturity + t > th.maturity + th.interval)
  BY <1>1
<1>3. Slope(th) * (th.maturity + t) = th.maturity * Slope(th) + Slope(th) * t
  BY <1>1
<1>4. th.maturity * Slope(th) \in Int /\ Slope(th) * t \in Int
  BY <1>1
<1> QED
  BY <1>1, <1>2, <1>3, <1>4 DEF LimitByAge

LEMMA SmallNumber ==
  ASSUME NEW w \in Nat \ {0}, NEW n \in Nat, n < w
  PROVE  n \div w = 0 /\ n % w = n
<1> DEFINE q == n \div w
           r == n % w
<1>1. q \in Int /\ r \in 0 .. w - 1 /\ n = w * q + r
  BY DivMod
<1> HIDE DEF q, r
<1>2. CASE q >= 1
  <2>1. w * 1 <= w * q
    BY <1>1, <1>2, Monotone
  <2> QED
    BY <1>1, <2>1
<1>3. CASE q <= -1
  <2>1. w * q <= w * (-1)
    BY <1>1, <1>3, Monotone
  <2> QED
    BY <1>1, <2>1
<1>4. CASE q = 0
  BY <1>1, <1>4 DEF q, r
<1> QED
  BY <1>1, <1>2, <1>3, <1>4

LEMMA NegativeProduct ==
  ASSUME NEW m \in Int, NEW i \in Int
  PROVE  m * i = -((-m) * i) /\ m * i \in Int
OBVIOUS

LEMMA NextMultiple ==
  ASSUME NEW m \in Int, NEW i \in Int
  PROVE  m * (i + 1) = m * i + m /\ m * i \in Int
OBVIOUS

\* The SQL condition, for small thresholds, in terms of integers.
LEMMA DelinquentMeaning ==
  ASSUME NEW th \in Thresholds, CheckPaymentThresholds(th), ThresholdsAreSmall(th),
         NEW r \in Column, NEW a \in Int, Delinquent(th, r, a)
  PROVE  LET t == a - th.maturity - th.gracePeriod
         IN  /\ t > 0
             /\ Reconstitute(r) > GweiToWei(th.debtThreshold) + Slope(th) * t
             /\ Reconstitute(r) > PermanentDebt(th)
<1> DEFINE t == a - th.maturity - th.gracePeriod
           n == GweiToWei(th.debtThreshold) + Slope(th) * t
           p == Deconstruct(PermanentDebt(th))
<1>1. th.maturity \in Nat /\ th.gracePeriod \in Nat /\ t \in Int /\ Slope(th) \in Int
      /\ PermanentDebt(th) \in Nat /\ PermanentDebt(th) < Word /\ Word \in Nat \ {0}
  BY ThresholdTypes, SlopeBounds, LedgerAssumption
     DEF ThresholdsAreSmall, ThresholdsCompute, ThresholdsConvert
<1>2. n \in Int
  BY <1>1, ThresholdTypes
<1>3. t > 0 /\ (r.high > p.high \/ (r.high = 0 /\ r.low > p.low))
  BY DEF Delinquent, SuggAndGraceAge
<1>4. Above(r, Deconstruct(n))
  BY FitsIsExact, <1>1 DEF Delinquent, SuggAndGraceAge, SlopeDrop, ThresholdsAreSmall,
                             ThresholdsCompute
<1> HIDE DEF n
<1>5. Reconstitute(r) > n
  BY <1>2, <1>4, DeconstructExact, AboveIsGreater
<1>6. Reconstitute(r) > PermanentDebt(th)
  <2>1. p.high = 0 /\ p.low = PermanentDebt(th)
    BY <1>1, SmallNumber DEF Deconstruct
  <2>2. r.high \in Int /\ r.low \in 0 .. Word - 1
    BY DEF Column
  <2>3. CASE r.high = 0
    BY <1>1, <1>3, <2>1, <2>2, <2>3 DEF Reconstitute
  <2>4. CASE r.high >= 1
    <3>1. Word * 1 <= Word * r.high
      BY <1>1, <2>2, <2>4, Monotone
    <3>2. r.high * Word >= Word /\ r.high * Word \in Int
      BY <1>1, <2>2, <3>1
    <3> QED
      BY <1>1, <2>2, <3>2 DEF Reconstitute
  <2> QED
    BY <1>3, <2>1, <2>2, <2>3, <2>4
<1> QED
  BY <1>3, <1>5, <1>6 DEF n

\* With small thresholds, new_delinquencies has nobody banned for a debt within the
\* permanent limit, or for one that a debtor with the same thresholds was not to pay a
\* whole grace period before.
THEOREM BansAreDue ==
  Spec => [](GraceIsGranted /\ (ThresholdsAreSmall(thresholds) => PermanentDebtIsAllowed))
<1>1. TypeOK => GraceIsGranted /\ (ThresholdsAreSmall(thresholds) => PermanentDebtIsAllowed)
  <2> SUFFICES ASSUME TypeOK, ThresholdsAreSmall(thresholds)
               PROVE  GraceIsGranted /\ PermanentDebtIsAllowed
    BY DEF GraceIsGranted
  <2> DEFINE th == thresholds
             t  == age - th.maturity - th.gracePeriod
  <2>1. th \in Thresholds /\ CheckPaymentThresholds(th) /\ ThresholdsAreSmall(th) /\ age \in Int
        /\ (row # NoRow => row \in Column)
    BY DEF TypeOK, Column
  <2>2. th.interval # 0
    BY DEF ThresholdsAreSmall, ThresholdsCompute, ThresholdsConvert
  <2>3. ASSUME row # NoRow, Delinquent(th, row, age)
        PROVE  /\ t > 0 /\ Worth > PermanentDebt(th)
               /\ Worth > GweiToWei(th.debtThreshold) + Slope(th) * t
    BY <2>1, <2>3, DelinquentMeaning DEF Worth
  <2>4. ASSUME row # NoRow, Delinquent(th, row, age)
        PROVE  PayableExceededThreshold(th, Worth, age - th.gracePeriod)
    <3>1. th.maturity \in Nat /\ th.gracePeriod \in Nat /\ th.interval \in Nat /\ t \in Int
          /\ age - th.gracePeriod = th.maturity + t
      BY <2>1, ThresholdTypes
    <3>2. age - th.gracePeriod > th.maturity
      BY <2>3, <2>4, <3>1
    <3>3. CASE t <= th.interval
      <4>1. LimitByAge(th, age - th.gracePeriod) = GweiToWei(th.debtThreshold) + Slope(th) * t
        BY <2>1, <2>2, <3>1, <3>3, LimitOnSlope
      <4> QED
        BY <2>3, <2>4, <3>2, <4>1 DEF PayableExceededThreshold
    <3>4. CASE t > th.interval
      <4>1. LimitByAge(th, age - th.gracePeriod) = PermanentDebt(th)
        BY <3>1, <3>4 DEF LimitByAge
      <4> QED
        BY <2>3, <2>4, <3>2, <4>1 DEF PayableExceededThreshold
    <3> QED
      BY <3>1, <3>3, <3>4
  <2> QED
    BY <2>3, <2>4 DEF GraceIsGranted, PermanentDebtIsAllowed
<1> QED
  BY <1>1, TypeCorrect, PTL

\* Accepted thresholds whose slope fits in an i64 give the SQL of new_delinquencies a negative
\* slope, for which its functions are defined.
THEOREM DelinquencyIsComputed == Spec => []DelinquencyIsDefined
<1>1. TypeOK => DelinquencyIsDefined
  <2> SUFFICES ASSUME TypeOK, ThresholdsCompute(thresholds) PROVE AsI64(Slope(thresholds)) < 0
    BY DEF DelinquencyIsDefined
  <2>1. thresholds \in Thresholds /\ CheckPaymentThresholds(thresholds) /\ thresholds.interval # 0
    BY DEF TypeOK, ThresholdsCompute, ThresholdsConvert
  <2>2. Slope(thresholds) \in Int /\ Slope(thresholds) < 0
    BY <2>1, SlopeBounds
  <2> QED
    BY <2>2, FitsIsExact DEF ThresholdsCompute
<1> QED
  BY <1>1, TypeCorrect, PTL

\* The limit on a debt never rises with its age, for all accepted thresholds.
THEOREM LimitFalls == Spec => LimitNeverRises
<1>1. ASSUME TypeOK, [Next]_vars, age' > age, age > thresholds.maturity
      PROVE  LimitByAge(thresholds, age') <= LimitByAge(thresholds, age)
  <2> DEFINE th == thresholds
             k == -Slope(th)
             t == age - th.maturity
             D == GweiToWei(th.debtThreshold)
  <2>1. th \in Thresholds /\ CheckPaymentThresholds(th) /\ age \in Nat /\ age' = age + 1
    BY <1>1 DEF TypeOK, Next, Charge, Pay, Tick, vars
  <2>2. th.maturity \in Nat /\ th.interval \in Nat /\ D \in Nat /\ PermanentDebt(th) \in Nat
    BY <2>1, ThresholdTypes
  <2>0. CASE th.interval = 0
    <3>1. age > th.maturity + th.interval /\ age' > th.maturity + th.interval
      BY <1>1, <2>0, <2>1, <2>2
    <3> QED
      BY <2>2, <3>1 DEF LimitByAge
  <2> SUFFICES ASSUME th.interval # 0
               PROVE  LimitByAge(th, age') <= LimitByAge(th, age)
    BY <2>0
  <2>6. Slope(th) \in Int /\ Slope(th) < 0 /\ k \in Nat
        /\ PermanentDebt(th) <= D - k * th.interval
    BY <2>1, SlopeBounds
  <2>3. t \in Nat /\ age = th.maturity + t /\ age' = th.maturity + (t + 1)
    BY <1>1, <2>1, <2>2
  <2> HIDE DEF t, D
  <2>4. CASE t + 1 <= th.interval
    <3>1. LimitByAge(th, th.maturity + (t + 1)) = D + Slope(th) * (t + 1)
      BY <2>1, <2>2, <2>3, <2>4, LimitOnSlope DEF D
    <3>3. LimitByAge(th, th.maturity + t) = D + Slope(th) * t
      BY <2>1, <2>2, <2>3, <2>4, LimitOnSlope DEF D
    <3>2. Slope(th) * (t + 1) = Slope(th) * t + Slope(th) /\ Slope(th) * t \in Int
      <4>1. Slope(th) \in Int /\ t \in Int
        BY <2>3, <2>6
      <4> QED
        BY <4>1, NextMultiple
    <3> QED
      BY <2>2, <2>3, <2>6, <3>1, <3>2, <3>3
  <2>5. CASE t + 1 > th.interval
    <3>1. LimitByAge(th, age') = PermanentDebt(th)
      BY <2>2, <2>3, <2>5 DEF LimitByAge
    <3>2. CASE t > th.interval
      <4>1. LimitByAge(th, age) = PermanentDebt(th)
        BY <2>2, <2>3, <3>2 DEF LimitByAge
      <4> QED
        BY <2>2, <3>1, <4>1
    <3>3. CASE t = th.interval
      <4>1. LimitByAge(th, age) = D + Slope(th) * th.interval
        BY <2>1, <2>2, <2>3, <3>3, LimitOnSlope DEF D
      <4>2. D + Slope(th) * th.interval = D - k * th.interval
        BY <2>2, <2>6, NegativeProduct
      <4> QED
        BY <2>2, <2>6, <3>1, <4>1, <4>2
    <3> QED
      BY <2>2, <2>3, <2>5, <3>2, <3>3
  <2> QED
    BY <2>2, <2>3, <2>4, <2>5
<1>2. ASSUME TypeOK, [Next]_vars
      PROVE  [age' > age /\ age > thresholds.maturity =>
                LimitByAge(thresholds, age') <= LimitByAge(thresholds, age)]_vars
  BY <1>1, <1>2
<1> QED
  BY <1>2, TypeCorrect, PTL DEF Spec, LimitNeverRises

=============================================================================
