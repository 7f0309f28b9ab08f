--------------------------- MODULE PaymentsProof ---------------------------
(* What the theorems about Payments rest on: its steps keep the types, do not start a scan *)
(* while another one runs, and do this to the books, the futures and the mailbox.           *)
EXTENDS Payments, TLAPS

-----------------------------------------------------------------------------
(* Finite sets *)

\* What the proofs use of Cardinality.  The theorems about finite sets give it, in the modules
\* that state the theorems about Payments: it is an assumption of the lemmas.
SizeIsNatural == \A S : IsFiniteSet(S) => Cardinality(S) \in Nat /\ (Cardinality(S) = 0 => S = {})
PartIsSmaller ==
  \A S, T : IsFiniteSet(S) /\ T \in SUBSET S =>
    Cardinality(T) <= Cardinality(S) /\ (Cardinality(T) = Cardinality(S) => T = S)
OneToOne(f, S, T) == f \in [S -> T] /\ \A a, b \in S : f[a] = f[b] => a = b
Onto(f, S, T) == \A n \in T : \E a \in S : f[a] = n
OneToOneIsOnto ==
  \A S, f : IsFiniteSet(S) /\ OneToOne(f, S, 0 .. Cardinality(S) - 1) => Onto(f, S, 0 .. Cardinality(S) - 1)
CardinalityFacts == SizeIsNatural /\ PartIsSmaller /\ OneToOneIsOnto

LEMMA EmptyFinite == IsFiniteSet({})
<1>1. <<>> \in Seq({})
  OBVIOUS
<1> QED
  BY Zenon, <1>1 DEF IsFiniteSet

\* The image of a finite set under a function is finite.
LEMMA ImageFinite ==
  ASSUME NEW S, IsFiniteSet(S), NEW f, NEW T, T = {f[x] : x \in S}
  PROVE  IsFiniteSet(T)
<1>1. PICK q \in Seq(S) : \A x \in S : \E i \in 1 .. Len(q) : q[i] = x
  BY Zenon DEF IsFiniteSet
<1> DEFINE r == [i \in 1 .. Len(q) |-> f[q[i]]]
<1>2. r \in Seq(T) /\ Len(r) = Len(q)
  OBVIOUS
<1>3. ASSUME NEW x \in S PROVE \E i \in 1 .. Len(r) : r[i] = f[x]
  <2>1. PICK i \in 1 .. Len(q) : q[i] = x
    BY Zenon, <1>1
  <2>2. r[i] = f[x] /\ i \in 1 .. Len(r)
    BY Zenon, <1>2, <2>1
  <2> QED
    BY Zenon, <2>2
<1> HIDE DEF r
<1>4. \A t \in T : \E i \in 1 .. Len(r) : r[i] = t
  BY Zenon, <1>3
<1> QED
  BY Zenon, <1>2, <1>4 DEF IsFiniteSet

LEMMA SubsetFinite ==
  ASSUME NEW S, IsFiniteSet(S), NEW T \in SUBSET S
  PROVE  IsFiniteSet(T)
<1>1. CASE T = {}
  BY Zenon, <1>1, EmptyFinite
<1>2. CASE T # {}
  <2>1. PICK t \in T : TRUE
    BY Zenon, <1>2
  <2> DEFINE f == [x \in S |-> IF x \in T THEN x ELSE t]
  <2>2. T = {f[x] : x \in S}
    BY Zenon, <2>1
  <2> HIDE DEF f
  <2> QED
    BY Zenon, <2>2, ImageFinite
<1> QED
  BY Zenon, <1>1, <1>2

LEMMA UnionFinite ==
  ASSUME NEW S, IsFiniteSet(S), NEW T, IsFiniteSet(T)
  PROVE  IsFiniteSet(S \cup T)
<1> DEFINE U == S \cup T
<1>1. PICK q \in Seq(S) : \A x \in S : \E i \in 1 .. Len(q) : q[i] = x
  BY Zenon DEF IsFiniteSet
<1>2. PICK r \in Seq(T) : \A x \in T : \E i \in 1 .. Len(r) : r[i] = x
  BY Zenon DEF IsFiniteSet
<1>3. q \in Seq(U) /\ r \in Seq(U)
  OBVIOUS
<1>4. /\ q \o r \in Seq(U) /\ Len(q \o r) = Len(q) + Len(r) /\ Len(q) \in Nat /\ Len(r) \in Nat
      /\ \A i \in 1 .. Len(q) : (q \o r)[i] = q[i]
      /\ \A i \in 1 .. Len(r) : (q \o r)[Len(q) + i] = r[i]
  BY <1>3
<1>5. ASSUME NEW x \in U PROVE \E i \in 1 .. Len(q \o r) : (q \o r)[i] = x
  <2>1. CASE x \in S
    <3>1. PICK i \in 1 .. Len(q) : q[i] = x
      BY Zenon, <1>1, <2>1
    <3> QED
      BY ONLY <1>4, <3>1
  <2>2. CASE x \in T
    <3>1. PICK i \in 1 .. Len(r) : r[i] = x
      BY Zenon, <1>2, <2>2
    <3>2. Len(q) + i \in 1 .. Len(q \o r) /\ (q \o r)[Len(q) + i] = x
      BY ONLY <1>4, <3>1
    <3> QED
      BY Zenon, <3>2
  <2> QED
    BY Zenon, <2>1, <2>2
<1> QED
  BY Zenon, <1>4, <1>5 DEF IsFiniteSet

-----------------------------------------------------------------------------
(* Type correctness *)

\* What a future holds follows from its kind.
LEMMA TaskFields ==
  ASSUME TypeOK, NEW s \in Slots, Busy(s)
  PROVE  /\ task[s] \in Task /\ task[s].ctx \in Skeletons
         /\ task[s].kind \in {"agent", "nonce"} => task[s].accounts \in Batch(Account)
         /\ task[s].kind = "nonce" => task[s].gas \in GasPrices
         /\ task[s].kind = "submit" => task[s].txs \in Batch(Tx)
         /\ task[s].kind = "reply" => task[s].oks \in Batch(Tx) /\ task[s].fails \in Batch(Tx)
         /\ task[s].kind = "receipts" => task[s].snapshot \in Batch(Fingerprint)
BY Zenon DEF TypeOK, Busy, Task

\* The futures that a payment goes on with.
LEMMA SubmitTask ==
  ASSUME NEW txs \in Batch(Tx), NEW c \in Skeletons
  PROVE  /\ [kind |-> "submit", txs |-> txs, ctx |-> c] \in Task
         /\ [kind |-> "submit", txs |-> txs, ctx |-> c] # Idle
<1>1. [kind |-> "submit", txs |-> txs, ctx |-> c] \in Task
  BY DEF Task
<1> QED
  BY Zenon, <1>1, IdleAssumption

LEMMA ReplyTask ==
  ASSUME NEW txs \in Batch(Tx), NEW c \in Skeletons
  PROVE  /\ [kind |-> "reply", oks |-> txs, fails |-> {}, ctx |-> c] \in Task
         /\ [kind |-> "reply", oks |-> txs, fails |-> {}, ctx |-> c] # Idle
<1>1. {} \in Batch(Tx)
  BY Zenon, EmptyFinite DEF Batch
<1>2. [kind |-> "reply", oks |-> txs, fails |-> {}, ctx |-> c] \in Task
  BY <1>1 DEF Task
<1> QED
  BY Zenon, <1>2, IdleAssumption

\* What a message holds follows from its type.
LEMMA HeadFields ==
  ASSUME TypeOK, inbox # <<>>
  PROVE  /\ Head(inbox) \in Msg /\ Tail(inbox) \in Seq(Msg)
         /\ Head(inbox).type # "Seeds" => Head(inbox).ctx \in Skeletons
         /\ Head(inbox).type = "Agent" => Head(inbox).accounts \in Batch(Account) /\ Head(inbox).gas \in GasPrices
         /\ Head(inbox).type = "Seeds" => Head(inbox).txs \in Batch(Tx)
         /\ Head(inbox).type = "Sent" => Head(inbox).oks \in Batch(Tx) /\ Head(inbox).fails \in Batch(Tx)
         /\ Head(inbox).type = "Receipts" =>
              /\ Head(inbox).confirmed \in Batch(Fingerprint)
              /\ Head(inbox).failures \in Batch(Fingerprint)
              /\ Head(inbox).still \in Batch(Fingerprint)
<1>1. Head(inbox) \in Msg /\ Tail(inbox) \in Seq(Msg)
  BY DEF TypeOK
<1> QED
  BY Zenon, <1>1 DEF Msg

LEMMA BatchSubset ==
  ASSUME NEW S, NEW B \in Batch(S), NEW T \in SUBSET B
  PROVE  T \in Batch(S)
BY Zenon, SubsetFinite DEF Batch

LEMMA BatchUnion ==
  ASSUME NEW S, NEW B \in Batch(S), NEW C \in Batch(S)
  PROVE  B \cup C \in Batch(S)
BY Zenon, UnionFinite DEF Batch

LEMMA AppendNothing ==
  ASSUME NEW S, NEW q \in Seq(S)
  PROVE  q \o <<>> = q
OBVIOUS

\* Signing gives typed transactions as long as the nonces last.
LEMMA SignedTxsTyped ==
  ASSUME CardinalityFacts, TypeOK, NEW accounts \in Batch(Account), NEW gas \in GasPrices, NEW first \in Nonces,
         first + Cardinality(accounts) <= world.maxNonce
  PROVE  SignedTxs(accounts, gas, first) \in Batch(Tx)
<1> DEFINE Before(a) == {b \in accounts : b.wallet < a.wallet}
           Sign(a) == [nonce |-> first + Cardinality(Before(a)), wallet |-> a.wallet,
                       amount |-> a.amount, gas |-> gas]
<1>1. IsFiniteSet(accounts) /\ accounts \subseteq Account
  BY Zenon DEF Batch
<1>2. ASSUME NEW a \in accounts
      PROVE  Sign(a) \in Tx
  <2>1. a.wallet \in Nat /\ a.wallet \in Wallets /\ a.amount \in Nat
    BY Zenon, <1>1, PaymentsAssumption DEF Account
  <2>2. Before(a) \in SUBSET accounts /\ Before(a) # accounts
    BY <2>1
  <2>3. /\ Cardinality(Before(a)) \in Nat /\ Cardinality(accounts) \in Nat
        /\ Cardinality(Before(a)) < Cardinality(accounts)
    <3> HIDE DEF Before
    <3>1. IsFiniteSet(Before(a))
      BY Zenon, <1>1, <2>2, SubsetFinite
    <3>2. Cardinality(Before(a)) \in Nat /\ Cardinality(accounts) \in Nat
      BY Zenon, <1>1, <3>1 DEF CardinalityFacts, SizeIsNatural
    <3>3. Cardinality(Before(a)) <= Cardinality(accounts) /\ Cardinality(Before(a)) # Cardinality(accounts)
      BY Zenon, <1>1, <2>2 DEF CardinalityFacts, PartIsSmaller
    <3> QED
      BY <3>2, <3>3
  <2>a. world.maxNonce \in 0 .. MaxNonce /\ MaxNonce \in Nat
    BY Zenon, PaymentsAssumption DEF TypeOK, World
  <2>4. first + Cardinality(Before(a)) \in Nonces
    <3> HIDE DEF Before
    <3> QED BY <2>3, <2>a DEF Nonces
  <2> QED
    BY Zenon, <2>1, <2>4 DEF Tx
<1>3. SignedTxs(accounts, gas, first) = {Sign(a) : a \in accounts}
  BY Zenon DEF SignedTxs
<1>4. IsFiniteSet({Sign(a) : a \in accounts})
  <2> DEFINE f == [a \in accounts |-> Sign(a)]
             T == {Sign(a) : a \in accounts}
  <2>1. T = {f[a] : a \in accounts}
    BY Zenon
  <2>2. IsFiniteSet(T)
    <3> HIDE DEF f, T
    <3> QED BY Zenon, <1>1, <2>1, ImageFinite
  <2> QED BY Zenon, <2>2
<1> QED
  BY Zenon, <1>2, <1>3, <1>4 DEF Batch

LEMMA InitTyped == Init => TypeOK
<1> SUFFICES ASSUME Init PROVE TypeOK
  BY Zenon
<1>1. fingerprints \in Batch(Fingerprint)
  BY Zenon, EmptyFinite DEF Init, Batch
<1>2. inbox \in Seq(Msg)
  BY DEF Init
<1>3. task \in [Slots -> Task \cup {Idle}]
  BY Zenon DEF Init
<1>4. /\ balance \in [Wallets -> Int] /\ pending \in [Wallets -> Nat] /\ charged \in [Wallets -> Nat]
      /\ asked \in [Contexts -> Nat] /\ answered \in [Contexts -> Nat]
  BY DEF Init, NoRow
<1>5. node \in {"up", "panicked", "killed"} /\ consuming \in BOOLEAN /\ payScan \in BOOLEAN
      /\ pendScan \in BOOLEAN
  BY Zenon DEF Init
<1> QED
  BY Zenon, <1>1, <1>2, <1>3, <1>4, <1>5 DEF Init, TypeOK

\* The beginning of the scans keeps the types.
LEMMA ScansTyped ==
  ASSUME TypeOK, NEW ctx \in Skeletons, ScanForPayables(ctx) \/ ScanForPendingPayables(ctx)
  PROVE  TypeOK'
<1>1. asked' \in [Contexts -> Nat]
  <2>1. Ask(ctx) /\ asked \in [Contexts -> Nat]
    BY Zenon DEF ScanForPayables, ScanForPendingPayables, TypeOK
  <2> QED
    BY <2>1 DEF Ask
<1>2. UNCHANGED <<db, chain, node, setup, answered, history, inbox>>
  BY Zenon DEF ScanForPayables, ScanForPendingPayables, memory
<1>3. payScan' \in BOOLEAN /\ pendScan' \in BOOLEAN
  BY Zenon DEF ScanForPayables, ScanForPendingPayables, memory, TypeOK
<1>4. task' \in [Slots -> Task \cup {Idle}]
  <2> DEFINE seen == {[wallet |-> w, amount |-> balance[w]] : w \in Qualified}
  <2>1. CASE ScanForPayables(ctx)
    <3>1. Qualified \subseteq Wallets /\ IsFiniteSet(Qualified)
      BY Zenon, PaymentsAssumption, SubsetFinite DEF Qualified, TypeOK
    <3>2. seen \subseteq Account
      BY <3>1 DEF Qualified, Account, TypeOK
    <3>3. IsFiniteSet(seen)
      <4> DEFINE f == [w \in Qualified |-> [wallet |-> w, amount |-> balance[w]]]
      <4>1. seen = {f[w] : w \in Qualified}
        BY Zenon
      <4> HIDE DEF seen, f
      <4> QED BY Zenon, <3>1, <4>1, ImageFinite
    <3>4. [kind |-> "agent", ctx |-> ctx, accounts |-> seen] \in Task
      <4> HIDE DEF seen
      <4> QED BY Zenon, <3>2, <3>3 DEF Task, Batch
    <3> QED
      BY Zenon, <2>1, <3>4 DEF ScanForPayables, memory, TypeOK
  <2>2. CASE ScanForPendingPayables(ctx)
    <3>1. Errorless \in Batch(Fingerprint)
      BY Zenon, BatchSubset DEF Errorless, TypeOK
    <3>2. [kind |-> "receipts", snapshot |-> Errorless, ctx |-> ctx] \in Task
      BY Zenon, <3>1 DEF Task
    <3> QED
      BY Zenon, <2>2, <3>2 DEF ScanForPendingPayables, memory, TypeOK
  <2> QED
    BY Zenon, <2>1, <2>2
<1> QED
  BY Zenon, <1>1, <1>2, <1>3, <1>4 DEF TypeOK, db, chain, history, setup

\* The environment is chosen once.
LEMMA WorldIsFixed ==
  ASSUME [Next]_vars
  PROVE  world' = world
<1>1. ASSUME NEW s \in Slots, Bridge(s) PROVE world' = world
  BY Zenon, <1>1 DEF Bridge, BuildAgent, FetchNonceAndSign, SubmitBatch, BatchReply, BatchFails,
              FetchReceipts, Step, setup
<1>2. CASE Accountant
  BY Zenon, <1>2 DEF Accountant, PayablePaymentSetup, NewPendingPayableFingerprints, SentPayables,
              ScanError, TransactionReceipts, setup
<1>3. ASSUME NEW ctx \in Skeletons, ScanForPayables(ctx) \/ ScanForPendingPayables(ctx)
      PROVE  world' = world
  BY Zenon, <1>3 DEF ScanForPayables, ScanForPendingPayables, setup
<1>4. ASSUME \/ \E w \in Wallets : MoreMoneyPayable(w) \/ DebtAges(w)
             \/ UpdateWallets \/ \E tx \in mempool : Mine(tx)
             \/ Kill \/ Restart \/ UNCHANGED vars
      PROVE  world' = world
  BY Zenon, <1>4 DEF MoreMoneyPayable, DebtAges, UpdateWallets, Mine, Kill, Restart, setup, vars
<1> QED
  BY Zenon, <1>1, <1>2, <1>3, <1>4 DEF Next

\* The type invariant is inductive, whatever fails.
LEMMA TypesInductive ==
  CardinalityFacts /\ TypeOK /\ [Next]_vars => TypeOK'

\* Appending to the mailbox.
<1>AppendTyped.
    ASSUME NEW S, NEW q \in Seq(S), NEW r \in Seq(S)
    PROVE  q \o r \in Seq(S)
  BY <1>AppendTyped

\* A step of a future keeps the types if what it becomes and what it sends are typed.
<1>StepTyped.
    ASSUME TypeOK, NEW s \in Slots, NEW next \in Task \cup {Idle}, NEW msgs \in Seq(Msg),
           Step(s, next, msgs)
    PROVE  /\ task' \in [Slots -> Task \cup {Idle}]
           /\ inbox' \in Seq(Msg)
  BY <1>StepTyped, Zenon, <1>AppendTyped DEF TypeOK, Step

\* New fingerprints are typed: their rowids are positive.
<1>NewFingerprintsTyped.
    ASSUME CardinalityFacts, NEW txs \in Batch(Tx), NEW top \in Nat
    PROVE  NewFingerprints(txs, top) \in Batch(Fingerprint)
  <2> USE <1>NewFingerprintsTyped
  <2> DEFINE UpTo(tx) == {u \in txs : u.nonce <= tx.nonce}
             Row(tx) == [rowid |-> top + Cardinality(UpTo(tx)), tx |-> tx, error |-> FALSE]
  <2>1. IsFiniteSet(txs) /\ txs \subseteq Tx
    BY Zenon DEF Batch
  <2>2. ASSUME NEW tx \in txs
        PROVE  Row(tx) \in Fingerprint
    <3>1. tx.nonce \in Int
      BY <2>1, PaymentsAssumption DEF Tx, Nonces
    <3>2. tx \in UpTo(tx)
      BY <3>1
    <3>3. IsFiniteSet(UpTo(tx)) /\ Cardinality(UpTo(tx)) \in Nat
      BY Zenon, <2>1, SubsetFinite DEF CardinalityFacts, SizeIsNatural
    <3>4. Cardinality(UpTo(tx)) # 0
      BY Zenon, <3>2, <3>3 DEF CardinalityFacts, SizeIsNatural
    <3> QED
      BY <2>1, <3>3, <3>4 DEF Fingerprint, NoRow
  <2>3. NewFingerprints(txs, top) = {Row(tx) : tx \in txs}
    BY Zenon DEF NewFingerprints
  <2>4. IsFiniteSet({Row(tx) : tx \in txs})
    <3> DEFINE f == [tx \in txs |-> Row(tx)]
               T == {Row(tx) : tx \in txs}
    <3>1. T = {f[tx] : tx \in txs}
      BY Zenon
    <3>2. IsFiniteSet(T)
      <4> HIDE DEF f, T
      <4> QED BY Zenon, <2>1, <3>1, ImageFinite
    <3> QED BY Zenon, <3>2
  <2> QED
    BY Zenon, <2>2, <2>3, <2>4 DEF Batch

\* Marking accounts writes rowids only.
<1>MarkPendingTyped.
    ASSUME TypeOK, NEW txs, MarkPending(txs)
    PROVE  pending' \in [Wallets -> Nat]
  <2> USE <1>MarkPendingTyped
  <2>1. ASSUME NEW w \in Wallets, \E f \in Markable(txs) : f.tx.wallet = w
        PROVE  (CHOOSE f \in Markable(txs) : f.tx.wallet = w).rowid \in Nat
    <3>1. Markable(txs) \subseteq Fingerprint
      BY Zenon DEF TypeOK, Batch, Markable, FingerprintsOf
    <3> QED
      BY Zenon, <2>1, <3>1 DEF Fingerprint
  <2> QED
    BY Zenon, <2>1 DEF MarkPending, TypeOK

\* Settling subtracts amounts and clears rowids.
<1>TransactionsConfirmedTyped.
    ASSUME TypeOK, NEW fs \in SUBSET Fingerprint, TransactionsConfirmed(fs)
    PROVE  /\ balance' \in [Wallets -> Int] /\ pending' \in [Wallets -> Nat]
           /\ aged' \subseteq Wallets /\ settled' \subseteq Tx
  <2> USE <1>TransactionsConfirmedTyped
  <2> DEFINE hit(w) == {f \in fs : pending[w] = f.rowid}
  <2>1. ASSUME NEW w \in Wallets, hit(w) # {}
        PROVE  BalanceAfter(w, CHOOSE f \in hit(w) : TRUE) \in Int
    <3>1. (CHOOSE f \in hit(w) : TRUE) \in Fingerprint
      BY Zenon, <2>1
    <3> QED
      BY <3>1 DEF BalanceAfter, TypeOK, Fingerprint, Tx
  <2>2. balance' \in [Wallets -> Int]
    BY Zenon, <2>1 DEF TransactionsConfirmed, TypeOK
  <2>3. pending' \in [Wallets -> Nat]
    BY Zenon DEF TransactionsConfirmed, TypeOK, NoRow
  <2>4. aged' \subseteq Wallets /\ settled' \subseteq Tx
    BY Zenon DEF TransactionsConfirmed, TypeOK, Fingerprint
  <2> QED
    BY Zenon, <2>2, <2>3, <2>4

\* Flagging keeps a finite set of typed rows.
<1>FlaggedTyped.
    ASSUME NEW fs \in Batch(Fingerprint), NEW rows
    PROVE  {[f EXCEPT !.error = @ \/ f.rowid \in rows] : f \in fs} \in Batch(Fingerprint)
  <2> USE <1>FlaggedTyped
  <2> DEFINE Flag(f) == [f EXCEPT !.error = @ \/ f.rowid \in rows]
             T == {Flag(f) : f \in fs}
             g == [f \in fs |-> Flag(f)]
  <2>1. IsFiniteSet(fs) /\ fs \subseteq Fingerprint
    BY Zenon DEF Batch
  <2>2. ASSUME NEW f \in fs PROVE Flag(f) \in Fingerprint
    <3>1. PICK r \in Nat \ {NoRow}, t \in Tx, e \in BOOLEAN : f = [rowid |-> r, tx |-> t, error |-> e]
      BY Zenon, <2>1 DEF Fingerprint
    <3>2. Flag(f) = [rowid |-> r, tx |-> t, error |-> e \/ r \in rows]
      BY <3>1
    <3>3. (e \/ r \in rows) \in BOOLEAN
      BY Zenon
    <3> QED BY Zenon, <3>2, <3>3 DEF Fingerprint
  <2>3. T = {g[f] : f \in fs}
    BY Zenon
  <2>4. IsFiniteSet(T)
    <3> HIDE DEF g, T
    <3> QED BY Zenon, <2>1, <2>3, ImageFinite
  <2> QED
    BY Zenon, <2>2, <2>4 DEF Batch

\* The futures of the bridge keep the types.
<1>BridgeTyped.
    ASSUME CardinalityFacts, TypeOK, NEW s \in Slots, Bridge(s)
    PROVE  TypeOK'
  <2> USE <1>BridgeTyped
  <2> USE TaskFields
  <2>a. SUFFICES /\ task' \in [Slots -> Task \cup {Idle}] /\ inbox' \in Seq(Msg)
                 /\ mempool' \subseteq Tx /\ succeeded' \subseteq Tx /\ failed' \subseteq Tx
                 /\ UNCHANGED <<db, node, setup, payScan, pendScan, ui, history>>
    BY Zenon DEF TypeOK, db, ui, history, setup
  <2>b. /\ <<>> \in Seq(Msg)
        /\ \A m \in Msg : <<m>> \in Seq(Msg)
        /\ \A m, n \in Msg : <<m, n>> \in Seq(Msg)
    OBVIOUS
  <2>c. \A ctx \in Skeletons, hashes \in Batch(Tx) : PaymentFailure(hashes, ctx) \in Seq(Msg)
    <3>1. {} \in Batch(Tx)
      BY Zenon, EmptyFinite DEF Batch
    <3> QED
      BY Zenon, <2>b, <3>1 DEF PaymentFailure, SentMsg, ScanErrorMsg, Msg
  <2>d. {} \in Batch(Tx)
    BY Zenon, EmptyFinite DEF Batch
  <2>1. CASE BuildAgent(s)
    <3>1. Busy(s) /\ task[s].kind = "agent" /\ UNCHANGED chain
      BY Zenon, <2>1 DEF BuildAgent, Runs
    <3>2. \A gas \in GasPrices : AgentMsg(task[s].accounts, gas, task[s].ctx) \in Msg
      BY Zenon, <3>1 DEF AgentMsg, Msg
    <3>3. AgentFailure(task[s].ctx) \in Seq(Msg)
      BY Zenon, <2>b, <3>1 DEF AgentFailure, ScanErrorMsg, Msg
    <3>4. PICK msgs \in Seq(Msg) : Step(s, Idle, msgs)
      BY Zenon, <2>1, <2>b, <3>2, <3>3 DEF BuildAgent
    <3> QED
      BY Zenon, <3>1, <3>4, <1>StepTyped DEF Step, chain, TypeOK
  <2>2. CASE FetchNonceAndSign(s)
    <3>1. Busy(s) /\ task[s].kind = "nonce" /\ UNCHANGED chain
      BY Zenon, <2>2 DEF FetchNonceAndSign, Runs
    <3>2. ASSUME NEW first \in Nonces, first + Cardinality(task[s].accounts) <= world.maxNonce
          PROVE  LET txs == SignedTxs(task[s].accounts, task[s].gas, first)
                 IN  /\ [kind |-> "submit", txs |-> txs, ctx |-> task[s].ctx] \in Task
                     /\ Announcement(txs) \in Seq(Msg)
      <4> DEFINE txs == SignedTxs(task[s].accounts, task[s].gas, first)
      <4>1. txs \in Batch(Tx)
        BY Zenon, <3>1, <3>2, SignedTxsTyped
      <4> HIDE DEF txs
      <4>2. [kind |-> "submit", txs |-> txs, ctx |-> task[s].ctx] \in Task
        BY Zenon, <3>1, <4>1 DEF Task
      <4>3. SeedsMsg(txs) \in Msg
        BY Zenon, <4>1 DEF SeedsMsg, Msg
      <4> QED
        BY Zenon, <2>b, <4>2, <4>3 DEF Announcement, txs
    <3>3. PICK next \in Task \cup {Idle}, msgs \in Seq(Msg) : Step(s, next, msgs)
      BY Zenon, <2>2, <2>c, <2>d, <3>1, <3>2 DEF FetchNonceAndSign
    <3> QED
      BY Zenon, <3>1, <3>3, <1>StepTyped DEF Step, chain, TypeOK
  <2>3. CASE SubmitBatch(s)
    <3>1. Busy(s) /\ task[s].kind = "submit" /\ UNCHANGED <<succeeded, failed>>
      BY Zenon, <2>3 DEF SubmitBatch, Runs
    <3>2. PICK fails \in SUBSET task[s].txs :
            /\ mempool' = (mempool \ Outbid(task[s].txs \ fails)) \cup (task[s].txs \ fails)
            /\ Step(s, [kind |-> "reply", oks |-> task[s].txs \ fails, fails |-> fails,
                        ctx |-> task[s].ctx], <<>>)
      BY Zenon, <2>3 DEF SubmitBatch
    <3>3. fails \in Batch(Tx) /\ (task[s].txs \ fails) \in Batch(Tx) /\ task[s].txs \subseteq Tx
      <4>1. task[s].txs \in Batch(Tx) /\ task[s].txs \subseteq Tx
        BY Zenon, <3>1 DEF Batch
      <4>2. (task[s].txs \ fails) \in SUBSET task[s].txs
        BY Zenon
      <4> QED
        BY <4>1, <4>2, BatchSubset
    <3>4. [kind |-> "reply", oks |-> task[s].txs \ fails, fails |-> fails, ctx |-> task[s].ctx] \in Task
      BY Zenon, <3>1, <3>3 DEF Task
    <3> QED
      BY Zenon, <2>b, <3>1, <3>2, <3>3, <3>4, <1>StepTyped DEF Step, TypeOK
  <2>4. CASE BatchReply(s)
    <3>1. Busy(s) /\ task[s].kind = "reply" /\ UNCHANGED chain
      BY Zenon, <2>4 DEF BatchReply, Runs
    <3>2. SentMsg(task[s].oks, task[s].fails, task[s].ctx) \in Msg
      BY Zenon, <3>1 DEF SentMsg, Msg
    <3>3. PICK msgs \in Seq(Msg) : Step(s, Idle, msgs)
      BY Zenon, <2>4, <2>b, <2>c, <3>1, <3>2, BatchUnion DEF BatchReply
    <3> QED
      BY Zenon, <3>1, <3>3, <1>StepTyped DEF Step, chain, TypeOK
  <2>5. CASE BatchFails(s)
    <3>1. Busy(s) /\ task[s].kind = "submit" /\ UNCHANGED chain
      BY Zenon, <2>5 DEF BatchFails, Runs
    <3>2. PICK msgs \in Seq(Msg) : Step(s, Idle, msgs)
      BY Zenon, <2>5, <2>c, <3>1 DEF BatchFails
    <3> QED
      BY Zenon, <3>1, <3>2, <1>StepTyped DEF Step, chain, TypeOK
  <2>6. CASE FetchReceipts(s)
    <3>1. Busy(s) /\ task[s].kind = "receipts" /\ UNCHANGED chain
      BY Zenon, <2>6 DEF FetchReceipts, Runs
    <3>2. \A c, f, t \in SUBSET task[s].snapshot : ReceiptsMsg(c, f, t, task[s].ctx) \in Msg
      BY <3>1, BatchSubset DEF ReceiptsMsg, Msg
    <3>3. ScanErrorMsg("pendingPayables", task[s].ctx) \in Msg
      BY Zenon, <3>1 DEF ScanErrorMsg, Msg
    <3>4. PICK msgs \in Seq(Msg) : Step(s, Idle, msgs)
      <4>1. ASSUME NEW unread \in SUBSET task[s].snapshot
            PROVE  LET read      == task[s].snapshot \ unread
                       confirmed == {f \in read : f.tx \in succeeded}
                       failures  == {f \in read : f.tx \in failed}
                   IN  <<ReceiptsMsg(confirmed, failures, task[s].snapshot \ (confirmed \cup failures),
                                     task[s].ctx)>> \in Seq(Msg)
        BY Zenon, <2>b, <3>2
      <4> QED
        BY Zenon, <2>6, <2>b, <3>3, <4>1 DEF FetchReceipts
    <3> QED
      BY Zenon, <3>1, <3>4, <1>StepTyped DEF Step, chain, TypeOK
  <2> QED
    BY Zenon, <2>1, <2>2, <2>3, <2>4, <2>5, <2>6 DEF Bridge

\* The Accountant's handlers of the bridge's answers keep the types.
<1>AccountantTyped.
    ASSUME CardinalityFacts, TypeOK, Accountant
    PROVE  TypeOK'
  <2> USE <1>AccountantTyped
  <2> USE HeadFields
  <2>a. inbox # <<>>
    BY Zenon DEF Accountant, PayablePaymentSetup, NewPendingPayableFingerprints, SentPayables, ScanError,
           TransactionReceipts, Received
  <2>b. Tail(inbox) \in Seq(Msg) /\ <<>> \in Seq(Msg)
    BY <2>a
  <2>c. \A ctx \in Skeletons : Answer(ctx) => answered' \in [Contexts -> Nat]
    BY DEF Answer, TypeOK, Skeletons
  <2>d. \A how \in {"panicked", "killed"} : Stop(how) =>
          /\ node' \in {"up", "panicked", "killed"} /\ payScan' \in BOOLEAN /\ pendScan' \in BOOLEAN
          /\ task' \in [Slots -> Task \cup {Idle}] /\ inbox' \in Seq(Msg)
    BY Zenon, <2>b DEF Stop
  <2>1. CASE PayablePaymentSetup
    <3>1. Head(inbox).type = "Agent"
      BY Zenon, <2>1 DEF PayablePaymentSetup, Received
    <3>2. [kind |-> "nonce", accounts |-> Head(inbox).accounts, gas |-> Head(inbox).gas,
           ctx |-> Head(inbox).ctx] \in Task
      BY Zenon, <2>a, <3>1 DEF Task
    <3>3. task' \in [Slots -> Task \cup {Idle}]
      BY Zenon, <2>1, <3>2 DEF PayablePaymentSetup, TypeOK
    <3>4. inbox' \in Seq(Msg) /\ UNCHANGED <<db, chain, node, setup, payScan, pendScan, ui, history>>
      BY Zenon, <2>1, <2>b DEF PayablePaymentSetup
    <3> QED
      BY Zenon, <3>3, <3>4 DEF TypeOK, db, chain, ui, history, setup
  <2>2. CASE NewPendingPayableFingerprints
    <3>1. Head(inbox).type = "Seeds"
      BY Zenon, <2>2 DEF NewPendingPayableFingerprints, Received
    <3>2. fingerprints \in Batch(Fingerprint) /\ Rowids \cup {NoRow} \subseteq Nat
      BY DEF TypeOK, Rowids, NoRow, Fingerprint, Batch
    <3>3. \A top \in Rowids \cup {NoRow} : NewFingerprints(Head(inbox).txs, top) \in Batch(Fingerprint)
      <4>1. Head(inbox).txs \in Batch(Tx)
        BY Zenon, <2>a, <3>1
      <4> QED
        BY Zenon, <3>2, <4>1, <1>NewFingerprintsTyped
    <3>4. fingerprints' \in Batch(Fingerprint)
      <4>1. \/ fingerprints' = fingerprints
            \/ \E top \in Rowids \cup {NoRow} :
                 fingerprints' = fingerprints \cup NewFingerprints(Head(inbox).txs, top)
        BY Zenon, <2>2 DEF NewPendingPayableFingerprints
      <4>2. \A top \in Rowids \cup {NoRow} :
              fingerprints \cup NewFingerprints(Head(inbox).txs, top) \in Batch(Fingerprint)
        BY Zenon, <3>2, <3>3, BatchUnion
      <4> QED
        BY Zenon, <3>2, <4>1, <4>2
    <3>5. /\ inbox' \in Seq(Msg)
          /\ UNCHANGED <<balance, pending, aged, chain, node, setup, payScan, pendScan, task, ui, history>>
      BY Zenon, <2>2, <2>b DEF NewPendingPayableFingerprints
    <3> QED
      BY Zenon, <3>4, <3>5 DEF TypeOK, chain, ui, history, setup
  <2>3. CASE SentPayables
    <3>1. Head(inbox).type = "Sent"
      BY Zenon, <2>3 DEF SentPayables, Received
    <3>2. pending' \in [Wallets -> Nat]
      BY Zenon, <2>3, <1>MarkPendingTyped DEF SentPayables
    <3>3. fingerprints' \in SUBSET fingerprints
      BY Zenon, <2>3 DEF SentPayables
    <3>4. fingerprints' \in Batch(Fingerprint)
      BY Zenon, <3>3, BatchSubset DEF TypeOK
    <3>5. /\ node' \in {"up", "panicked", "killed"} /\ payScan' \in BOOLEAN /\ pendScan' \in BOOLEAN
          /\ task' \in [Slots -> Task \cup {Idle}] /\ inbox' \in Seq(Msg)
          /\ answered' \in [Contexts -> Nat]
      BY Zenon, <2>3, <2>a, <2>b, <2>c, <2>d, <3>1 DEF SentPayables, TypeOK
    <3>6. UNCHANGED <<balance, aged, chain, setup, asked, history>>
      BY Zenon, <2>3 DEF SentPayables
    <3> QED
      BY Zenon, <3>2, <3>4, <3>5, <3>6 DEF TypeOK, chain, history, setup
  <2>4. CASE ScanError
    <3>1. Head(inbox).type = "ScanError"
      BY Zenon, <2>4 DEF ScanError, Received
    <3>2. inbox' \in Seq(Msg) /\ answered' \in [Contexts -> Nat]
      BY Zenon, <2>4, <2>a, <2>b, <2>c, <3>1 DEF ScanError
    <3>3. payScan' \in BOOLEAN /\ pendScan' \in BOOLEAN
      BY Zenon, <2>4 DEF ScanError, MarkAsEnded
    <3>4. UNCHANGED <<db, chain, node, setup, task, asked, history>>
      BY Zenon, <2>4 DEF ScanError
    <3> QED
      BY Zenon, <3>2, <3>3, <3>4 DEF TypeOK, db, chain, history, setup
  <2>5. CASE TransactionReceipts
    <3>1. Head(inbox).type = "Receipts"
      BY Zenon, <2>5 DEF TransactionReceipts, Received
    <3>2. Attempted(Head(inbox).confirmed) \in SUBSET Fingerprint
      BY Zenon, <2>a, <3>1 DEF Attempted, Batch
    <3>3. /\ balance' \in [Wallets -> Int] /\ pending' \in [Wallets -> Nat]
          /\ aged' \subseteq Wallets /\ settled' \subseteq Tx
      BY Zenon, <2>5, <3>2, <1>TransactionsConfirmedTyped DEF TransactionReceipts
    <3>4. fingerprints' \in Batch(Fingerprint)
      <4> DEFINE remaining == {f \in fingerprints : f.rowid \notin Rows(Head(inbox).confirmed)}
      <4>1. remaining \in Batch(Fingerprint)
        BY Zenon, BatchSubset DEF TypeOK
      <4>2. {[f EXCEPT !.error = @ \/ f.rowid \in Rows(Head(inbox).failures)] : f \in remaining}
               \in Batch(Fingerprint)
        <5> HIDE DEF remaining
        <5> QED BY Zenon, <4>1, <1>FlaggedTyped
      <4> QED
        BY Zenon, <2>5, <4>1, <4>2 DEF TransactionReceipts, TypeOK
    <3>5. /\ node' \in {"up", "panicked", "killed"} /\ payScan' \in BOOLEAN /\ pendScan' \in BOOLEAN
          /\ task' \in [Slots -> Task \cup {Idle}] /\ inbox' \in Seq(Msg)
          /\ answered' \in [Contexts -> Nat]
      BY Zenon, <2>5, <2>a, <2>b, <2>c, <2>d, <3>1 DEF TransactionReceipts, TypeOK
    <3>6. UNCHANGED <<chain, setup, asked, charged>>
      BY Zenon, <2>5 DEF TransactionReceipts
    <3> QED
      BY Zenon, <3>3, <3>4, <3>5, <3>6 DEF TypeOK, chain, setup
  <2> QED
    BY Zenon, <2>1, <2>2, <2>3, <2>4, <2>5 DEF Accountant

<1> SUFFICES ASSUME CardinalityFacts, TypeOK, [Next]_vars
             PROVE  TypeOK'
  OBVIOUS
<1>1. ASSUME NEW w \in Wallets, MoreMoneyPayable(w) \/ DebtAges(w)
      PROVE  TypeOK'
  <2>a. /\ balance' = balance \/ balance' = [balance EXCEPT ![w] = @ + 1]
        /\ charged' = charged \/ charged' = [charged EXCEPT ![w] = @ + 1]
        /\ aged' \subseteq aged \cup {w}
    <3>1. CASE MoreMoneyPayable(w)
      BY Zenon, <3>1 DEF MoreMoneyPayable
    <3>2. CASE DebtAges(w)
      BY Zenon, <3>2 DEF DebtAges, history
    <3> QED
      BY Zenon, <1>1, <3>1, <3>2
  <2>1. balance' \in [Wallets -> Int] /\ charged' \in [Wallets -> Nat] /\ aged' \subseteq Wallets
    <3>1. balance \in [Wallets -> Int] /\ charged \in [Wallets -> Nat] /\ aged \subseteq Wallets
      BY Zenon DEF TypeOK
    <3>2. balance' \in [Wallets -> Int]
      BY <2>a, <3>1
    <3>3. charged' \in [Wallets -> Nat]
      BY <2>a, <3>1
    <3> QED
      BY Zenon, <1>1, <2>a, <3>1, <3>2, <3>3
  <2>2. UNCHANGED <<pending, fingerprints, chain, node, setup, memory, ui, settled>>
    BY Zenon, <1>1 DEF MoreMoneyPayable, DebtAges, history
  <2> QED
    BY Zenon, <2>1, <2>2 DEF TypeOK, chain, memory, ui, setup
<1>2. CASE UpdateWallets
  BY Zenon, <1>2 DEF UpdateWallets, TypeOK, db, chain, memory, ui, history, setup
<1>3. ASSUME NEW tx \in mempool, Mine(tx)
      PROVE  TypeOK'
  <2>1. mempool' \subseteq Tx /\ succeeded' \subseteq Tx /\ failed' \subseteq Tx
    BY Zenon, <1>3 DEF Mine, TypeOK
  <2>2. UNCHANGED <<db, node, setup, memory, ui, history>>
    BY Zenon, <1>3 DEF Mine
  <2> QED
    BY Zenon, <2>1, <2>2 DEF TypeOK, db, memory, ui, history, setup
<1>4. CASE Kill
  <2>1. /\ node' \in {"up", "panicked", "killed"} /\ payScan' \in BOOLEAN /\ pendScan' \in BOOLEAN
        /\ task' \in [Slots -> Task \cup {Idle}] /\ inbox' \in Seq(Msg)
        /\ UNCHANGED <<chain, setup, ui, charged>>
    <3>1. Stop("killed") /\ UNCHANGED <<chain, setup, ui, charged>>
      BY Zenon, <1>4 DEF Kill
    <3>2. <<>> \in Seq(Msg)
      OBVIOUS
    <3> QED
      BY Zenon, <3>1, <3>2 DEF Stop
  <2>2. /\ balance' \in [Wallets -> Int] /\ pending' \in [Wallets -> Nat]
        /\ aged' \subseteq Wallets /\ settled' \subseteq Tx
        /\ fingerprints' \in Batch(Fingerprint)
    <3>1. CASE UNCHANGED <<db, settled>>
      BY Zenon, <3>1 DEF TypeOK, db
    <3>2. CASE /\ Received("Sent") /\ MarkPending(Head(inbox).oks)
               /\ UNCHANGED <<balance, aged, fingerprints, settled>>
      BY Zenon, <3>2, <1>MarkPendingTyped DEF TypeOK
    <3>3. ASSUME NEW fs \in SUBSET Head(inbox).confirmed, Received("Receipts"),
                 TransactionsConfirmed(fs), fingerprints' \in SUBSET fingerprints
          PROVE  <2>2!1 /\ <2>2!2 /\ <2>2!3
      <4>1. fs \in SUBSET Fingerprint
        BY Zenon, <3>3, HeadFields DEF Received, Batch
      <4>2. fingerprints' \in Batch(Fingerprint)
        BY Zenon, <3>3, BatchSubset DEF TypeOK
      <4> QED
        BY Zenon, <3>3, <4>1, <4>2, <1>TransactionsConfirmedTyped
    <3> QED
      BY Zenon, <1>4, <3>1, <3>2, <3>3 DEF Kill, Attempted
  <2> QED
    BY Zenon, <2>1, <2>2 DEF TypeOK, chain, ui, setup
<1>5. CASE Restart
  BY Zenon, <1>5 DEF Restart, TypeOK, db, chain, memory, ui, history, setup
<1>6. CASE UNCHANGED vars
  BY Zenon, <1>6 DEF TypeOK, vars, db, chain, memory, ui, history, setup
<1> QED
  BY Zenon, <1>1, <1>2, <1>3, <1>4, <1>5, <1>6, ScansTyped, <1>BridgeTyped, <1>AccountantTyped DEF Next

-----------------------------------------------------------------------------
(* One payable scan at a time *)

LEMMA TailWords ==
  ASSUME NEW q \in Seq(Msg), q # <<>>
  PROVE  /\ \A i \in PayWords(Tail(q)) : i \in Nat /\ i # 0 /\ i + 1 \in PayWords(q)
         /\ Word(Head(q)) => 1 \in PayWords(q)
<1> DEFINE r == Tail(q)
<1>1. /\ Len(q) \in Nat /\ Len(q) > 0 /\ Len(r) = Len(q) - 1 /\ Head(q) = q[1]
      /\ \A i \in 1 .. Len(r) : r[i] = q[i + 1]
  OBVIOUS
<1> HIDE DEF r
<1>2. \A i \in PayWords(r) : i \in Nat /\ i # 0 /\ i + 1 \in PayWords(q)
  BY <1>1 DEF PayWords
<1>3. Word(Head(q)) => 1 \in PayWords(q)
  BY <1>1 DEF PayWords
<1> QED
  BY Zenon, <1>2, <1>3 DEF r

\* Taking a message off the mailbox leaves no word that was not there.
LEMMA TailExclusion ==
  ASSUME TypeOK, ScanExclusion, inbox # <<>>, inbox' = Tail(inbox)
  PROVE  /\ \A i, j \in PayWords(inbox') : i = j
         /\ PayWords(inbox) = {} => PayWords(inbox') = {}
         /\ Word(Head(inbox)) => PayWords(inbox') = {} /\ PayFutures = {} /\ payScan
<1>1. inbox \in Seq(Msg)
  BY Zenon DEF TypeOK
<1>2. \A i \in PayWords(inbox') : i \in Nat /\ i # 0 /\ i + 1 \in PayWords(inbox)
  BY Zenon, <1>1, TailWords
<1>3. Word(Head(inbox)) => 1 \in PayWords(inbox)
  BY Zenon, <1>1, TailWords
<1> QED
  BY <1>2, <1>3 DEF ScanExclusion

\* The exclusion is inductive while no batch fails as a whole.
LEMMA ExclusionInductive ==
  CardinalityFacts /\ BatchesDoNotFail /\ TypeOK /\ ScanExclusion /\ [Next]_vars => ScanExclusion'

<1>AppendWords.
    ASSUME NEW q \in Seq(Msg), NEW m \in Msg
    PROVE  PayWords(q \o <<m>>) = PayWords(q) \cup (IF Word(m) THEN {Len(q) + 1} ELSE {})
  <2> USE <1>AppendWords
  <2> DEFINE r == q \o <<m>>
  <2>1. /\ Len(q) \in Nat /\ Len(r) = Len(q) + 1 /\ r[Len(q) + 1] = m
        /\ \A i \in 1 .. Len(q) : r[i] = q[i]
    OBVIOUS
  <2> HIDE DEF r
  <2>2. PayWords(r) = PayWords(q) \cup (IF Word(m) THEN {Len(q) + 1} ELSE {})
    BY <2>1 DEF PayWords
  <2> QED
    BY Zenon, <2>2 DEF r

\* A future of a payable scan that finishes with one word, and one that goes on without
\* a word, both keep the exclusion.
<1>StepExclusion.
    ASSUME TypeOK, ScanExclusion, NEW s \in Slots, s \in PayFutures,
           NEW next \in Task \cup {Idle}, NEW m \in Msg, Step(s, next, <<m>>),
           Word(m) => next = Idle
    PROVE  ScanExclusion'
  <2> USE <1>StepExclusion
  <2>1. PayWords(inbox) = {} /\ payScan /\ \A t \in PayFutures : t = s
    BY Zenon DEF ScanExclusion
  <2>2. inbox' = inbox \o <<m>> /\ task' = [task EXCEPT ![s] = next] /\ payScan' = payScan
    BY Zenon DEF Step
  <2>3. PayWords(inbox') = IF Word(m) THEN {Len(inbox) + 1} ELSE {}
    BY Zenon, <2>1, <2>2, <1>AppendWords DEF TypeOK
  <2>4. \A t \in PayFutures' : t = s
    BY Zenon, <2>1, <2>2 DEF PayFutures, Busy, TypeOK
  <2>5. Word(m) => PayFutures' = {}
    BY Zenon, <2>2, <2>4 DEF PayFutures, Busy, TypeOK
  <2> QED
    BY Zenon, <2>1, <2>2, <2>3, <2>4, <2>5 DEF ScanExclusion

\* Whatever leaves the scan flag and the words alone and changes no payable future.
<1>UnchangedExclusion.
    ASSUME ScanExclusion, PayFutures' \subseteq PayFutures, inbox' = inbox, payScan' = payScan
    PROVE  ScanExclusion'
  BY <1>UnchangedExclusion DEF ScanExclusion, PayWords, Word

<1>StoppedExclusion.
    ASSUME NEW how, Stop(how)
    PROVE  ScanExclusion'
  <2> USE <1>StoppedExclusion
  <2>1. PayWords(inbox') = {}
    BY DEF Stop, PayWords
  <2>2. PayFutures' = {}
    BY Zenon DEF Stop, PayFutures, Busy
  <2> QED
    BY Zenon, <2>1, <2>2 DEF ScanExclusion

<1>BridgeExclusion.
    ASSUME CardinalityFacts, BatchesDoNotFail, TypeOK, ScanExclusion, NEW s \in Slots, Bridge(s)
    PROVE  ScanExclusion'
  <2> USE <1>BridgeExclusion
  <2>a. \A kind \in PayKinds : Runs(s, kind) => s \in PayFutures
    BY Zenon DEF Runs, PayFutures
  <2>1. CASE BuildAgent(s)
    <3>1. s \in PayFutures /\ Busy(s) /\ task[s].kind = "agent"
      BY Zenon, <2>1, <2>a DEF BuildAgent, PayKinds, Runs
    <3>2. PICK m \in Msg : Step(s, Idle, <<m>>)
      <4>1. \A gas \in GasPrices : AgentMsg(task[s].accounts, gas, task[s].ctx) \in Msg
        BY Zenon, TaskFields, <3>1 DEF AgentMsg, Msg
      <4>2. ScanErrorMsg("payables", task[s].ctx) \in Msg
        BY Zenon, TaskFields, <3>1 DEF ScanErrorMsg, Msg
      <4> QED
        BY Zenon, <2>1, <4>1, <4>2 DEF BuildAgent, AgentFailure
    <3> QED
      BY Zenon, <3>1, <3>2, <1>StepExclusion
  <2>2. CASE FetchNonceAndSign(s)
    <3>1. s \in PayFutures /\ Busy(s) /\ task[s].kind = "nonce"
      BY Zenon, <2>2, <2>a DEF FetchNonceAndSign, PayKinds, Runs
    <3>2. PICK first \in Nonces :
            /\ first + Cardinality(task[s].accounts) <= world.maxNonce
            /\ LET txs == SignedTxs(task[s].accounts, task[s].gas, first)
               IN  Step(s, [kind |-> "submit", txs |-> txs, ctx |-> task[s].ctx], Announcement(txs))
      BY ZenonT(40), <2>2 DEF FetchNonceAndSign, BatchesDoNotFail
    <3> DEFINE txs == SignedTxs(task[s].accounts, task[s].gas, first)
    <3>3. txs \in Batch(Tx)
      BY Zenon, TaskFields, <3>1, <3>2, SignedTxsTyped
    <3>4. Step(s, [kind |-> "submit", txs |-> txs, ctx |-> task[s].ctx], <<SeedsMsg(txs)>>)
      BY Zenon, <3>2 DEF Announcement
    <3> HIDE DEF txs
    <3>5. [kind |-> "submit", txs |-> txs, ctx |-> task[s].ctx] \in Task /\ SeedsMsg(txs) \in Msg
      BY Zenon, TaskFields, <3>1, <3>3 DEF Task, SeedsMsg, Msg
    <3>6. ~Word(SeedsMsg(txs))
      BY Zenon DEF Word, SeedsMsg
    <3> QED
      BY Zenon, <3>1, <3>4, <3>5, <3>6, <1>StepExclusion
  <2>3. CASE SubmitBatch(s)
    <3>1. s \in PayFutures
      BY Zenon, <2>3, <2>a DEF SubmitBatch, PayKinds
    <3>2. PICK next : Step(s, next, <<>>)
      BY Zenon, <2>3 DEF SubmitBatch
    <3>3. inbox' = inbox /\ task' = [task EXCEPT ![s] = next] /\ payScan' = payScan
      <4>1. inbox \o <<>> = inbox
        BY Zenon, AppendNothing DEF TypeOK
      <4> QED
        BY Zenon, <3>2, <4>1 DEF Step
    <3>4. PayFutures' \subseteq PayFutures
      BY Zenon, <3>1, <3>3 DEF PayFutures, Busy, TypeOK
    <3> QED
      BY Zenon, <3>3, <3>4, <1>UnchangedExclusion
  <2>4. CASE BatchReply(s)
    <3>1. s \in PayFutures /\ Busy(s) /\ task[s].kind = "reply"
      BY Zenon, <2>4, <2>a DEF BatchReply, PayKinds, Runs
    <3>2. Step(s, Idle, <<SentMsg(task[s].oks, task[s].fails, task[s].ctx)>>)
      BY Zenon, <2>4 DEF BatchReply, BatchesDoNotFail
    <3>3. SentMsg(task[s].oks, task[s].fails, task[s].ctx) \in Msg
      BY Zenon, TaskFields, <3>1 DEF SentMsg, Msg
    <3> QED
      BY Zenon, <3>1, <3>2, <3>3, <1>StepExclusion
  <2>5. CASE BatchFails(s)
    BY Zenon, <2>5 DEF BatchFails, BatchesDoNotFail
  <2>6. CASE FetchReceipts(s)
    <3>1. Busy(s) /\ task[s].kind = "receipts"
      BY Zenon, <2>6 DEF FetchReceipts, Runs
    <3>2. PICK m \in Msg : Step(s, Idle, <<m>>) /\ ~Word(m)
      <4>1. \A c, f, t \in SUBSET task[s].snapshot :
              ReceiptsMsg(c, f, t, task[s].ctx) \in Msg /\ ~Word(ReceiptsMsg(c, f, t, task[s].ctx))
        <5>1. \A c \in SUBSET task[s].snapshot : c \in Batch(Fingerprint)
          BY Zenon, TaskFields, <3>1, BatchSubset
        <5>2. task[s].ctx \in Skeletons
          BY Zenon, TaskFields, <3>1
        <5> QED
          BY ZenonT(40), <5>1, <5>2 DEF ReceiptsMsg, Msg, Word
      <4>2. /\ ScanErrorMsg("pendingPayables", task[s].ctx) \in Msg
            /\ ~Word(ScanErrorMsg("pendingPayables", task[s].ctx))
        BY Zenon, TaskFields, <3>1 DEF ScanErrorMsg, Msg, Word
      <4>3. CASE Step(s, Idle, <<ScanErrorMsg("pendingPayables", task[s].ctx)>>)
        BY Zenon, <4>2, <4>3
      <4>4. ASSUME NEW unread \in SUBSET task[s].snapshot,
                   LET read      == task[s].snapshot \ unread
                       confirmed == {f \in read : f.tx \in succeeded}
                       failures  == {f \in read : f.tx \in failed}
                   IN  Step(s, Idle, <<ReceiptsMsg(confirmed, failures,
                              task[s].snapshot \ (confirmed \cup failures), task[s].ctx)>>)
            PROVE  \E m \in Msg : Step(s, Idle, <<m>>) /\ ~Word(m)
        BY Zenon, <4>1, <4>4
      <4> QED
        BY Zenon, <2>6, <4>3, <4>4 DEF FetchReceipts
    <3>3. inbox' = inbox \o <<m>> /\ task' = [task EXCEPT ![s] = Idle] /\ payScan' = payScan
      BY Zenon, <3>2 DEF Step
    <3>4. PayWords(inbox') = PayWords(inbox)
      BY Zenon, <3>2, <3>3, <1>AppendWords DEF TypeOK
    <3>5. PayFutures' \subseteq PayFutures
      BY Zenon, <3>1, <3>3 DEF PayFutures, Busy, TypeOK
    <3> QED
      BY Zenon, <3>3, <3>4, <3>5 DEF ScanExclusion
  <2> QED
    BY Zenon, <2>1, <2>2, <2>3, <2>4, <2>5, <2>6 DEF Bridge

<1>AccountantExclusion.
    ASSUME TypeOK, ScanExclusion, Accountant
    PROVE  ScanExclusion'
  <2> USE <1>AccountantExclusion
  <2>a. ASSUME inbox # <<>>, inbox' = Tail(inbox), PayFutures' \subseteq PayFutures, payScan' = payScan
        PROVE  ScanExclusion'
    BY Zenon, <2>a, TailExclusion DEF ScanExclusion
  <2>b. ASSUME inbox # <<>>, inbox' = Tail(inbox), task' = task, Word(Head(inbox)), payScan' = FALSE
        PROVE  ScanExclusion'
    <3>1. PayFutures' = PayFutures
      BY Zenon, <2>b DEF PayFutures, Busy
    <3> QED
      BY Zenon, <2>b, <3>1, TailExclusion DEF ScanExclusion
  <2>1. CASE PayablePaymentSetup
    <3>1. inbox # <<>> /\ inbox' = Tail(inbox) /\ Word(Head(inbox)) /\ payScan' = payScan
      BY Zenon, <2>1 DEF PayablePaymentSetup, Received, Word
    <3>2. PICK s \in Slots : \E next : task' = [task EXCEPT ![s] = next]
      BY Zenon, <2>1 DEF PayablePaymentSetup
    <3>3. PayWords(inbox') = {} /\ PayFutures = {} /\ payScan
      BY Zenon, <3>1, TailExclusion
    <3>4. \A t \in PayFutures' : t = s
      BY Zenon, <3>2, <3>3 DEF PayFutures, Busy, TypeOK
    <3> QED
      BY Zenon, <3>1, <3>3, <3>4 DEF ScanExclusion
  <2>2. CASE NewPendingPayableFingerprints
    BY Zenon, <2>2, <2>a DEF NewPendingPayableFingerprints, Received, PayFutures, Busy
  <2>3. CASE SentPayables
    <3>1. inbox # <<>> /\ Word(Head(inbox))
      BY Zenon, <2>3 DEF SentPayables, Received, Word
    <3>2. CASE inbox' = Tail(inbox) /\ payScan' = FALSE /\ UNCHANGED <<node, pendScan, task>>
      BY Zenon, <3>1, <3>2, <2>b
    <3>3. CASE Stop("panicked")
      BY Zenon, <3>3, <1>StoppedExclusion
    <3> QED
      BY Zenon, <2>3, <3>2, <3>3 DEF SentPayables
  <2>4. CASE ScanError
    <3>1. inbox # <<>> /\ Head(inbox).type = "ScanError" /\ inbox' = Tail(inbox) /\ task' = task
      BY Zenon, <2>4 DEF ScanError, Received
    <3>2. payScan' = (payScan /\ Head(inbox).scan # "payables")
      BY Zenon, <2>4 DEF ScanError, MarkAsEnded
    <3>3. CASE Head(inbox).scan = "payables"
      BY Zenon, <2>b, <3>1, <3>2, <3>3 DEF Word
    <3>4. CASE Head(inbox).scan # "payables"
      <4>1. payScan' = payScan
        BY Zenon, <3>2, <3>4 DEF TypeOK
      <4> QED
        BY Zenon, <2>a, <3>1, <4>1 DEF PayFutures, Busy
    <3> QED
      BY Zenon, <3>3, <3>4
  <2>5. CASE TransactionReceipts
    <3>1. CASE inbox' = Tail(inbox) /\ UNCHANGED <<node, payScan, task>>
      BY <2>5, <2>a, <3>1 DEF TransactionReceipts, Received, PayFutures, Busy
    <3>2. CASE Stop("panicked")
      BY Zenon, <3>2, <1>StoppedExclusion
    <3> QED
      BY Zenon, <2>5, <3>1, <3>2 DEF TransactionReceipts
  <2> QED
    BY Zenon, <2>1, <2>2, <2>3, <2>4, <2>5 DEF Accountant

<1> SUFFICES ASSUME CardinalityFacts, BatchesDoNotFail, TypeOK, ScanExclusion, [Next]_vars
             PROVE  ScanExclusion'
  OBVIOUS
<1>1. ASSUME UNCHANGED memory PROVE ScanExclusion'
  BY Zenon, <1>1, <1>UnchangedExclusion DEF memory, PayFutures, Busy
<1>2. ASSUME NEW ctx \in Skeletons, ScanForPayables(ctx)
      PROVE  ScanExclusion'
  <2>1. CASE UNCHANGED memory
    BY Zenon, <1>1, <2>1
  <2>2. ASSUME ~payScan, payScan' = TRUE, inbox' = inbox,
               NEW s \in Slots, NEW next, task' = [task EXCEPT ![s] = next]
        PROVE  ScanExclusion'
    <3>1. PayFutures = {} /\ PayWords(inbox') = {}
      BY Zenon, <2>2 DEF ScanExclusion
    <3>2. \A t \in PayFutures' : t = s
      BY Zenon, <2>2, <3>1 DEF PayFutures, Busy, TypeOK
    <3> QED
      BY Zenon, <2>2, <3>1, <3>2 DEF ScanExclusion
  <2> QED
    BY Zenon, <1>2, <2>1, <2>2 DEF ScanForPayables, PayableScanMayBegin
<1>3. ASSUME NEW ctx \in Skeletons, ScanForPendingPayables(ctx)
      PROVE  ScanExclusion'
  <2>1. CASE UNCHANGED memory
    BY Zenon, <1>1, <2>1
  <2>2. ASSUME NEW s \in Slots, UNCHANGED <<payScan, inbox>>,
               task' = [task EXCEPT ![s] = [kind |-> "receipts", snapshot |-> Errorless, ctx |-> ctx]]
        PROVE  ScanExclusion'
    <3>1. PayFutures' \subseteq PayFutures
      BY Zenon, <2>2 DEF PayFutures, Busy, TypeOK, PayKinds
    <3> QED
      BY Zenon, <2>2, <3>1, <1>UnchangedExclusion
  <2> QED
    BY Zenon, <1>3, <2>1, <2>2 DEF ScanForPendingPayables
<1>4. CASE Kill
  BY Zenon, <1>4, <1>StoppedExclusion DEF Kill
<1>5. ASSUME \/ \E w \in Wallets : MoreMoneyPayable(w) \/ DebtAges(w)
             \/ UpdateWallets \/ \E tx \in mempool : Mine(tx)
             \/ Restart \/ UNCHANGED vars
      PROVE  UNCHANGED memory
  BY Zenon, <1>5 DEF MoreMoneyPayable, DebtAges, UpdateWallets, Mine, Restart, vars
<1> QED
  BY <1>1, <1>2, <1>3, <1>4, <1>5, <1>BridgeExclusion, <1>AccountantExclusion DEF Next

-----------------------------------------------------------------------------
(* What is under way, and the rows it is about *)

\* The messages in the Accountant's mailbox, and the futures of the bridge.
Mail == {inbox[i] : i \in 1 .. Len(inbox)}
Running == {task[s] : s \in {t \in Slots : Busy(t)}}

\* What ends a scan for pending payables or carries it on.
PendWord(m) == m.type = "Receipts" \/ (m.type = "ScanError" /\ m.scan = "pendingPayables")
PendWords(q) == {i \in 1 .. Len(q) : PendWord(q[i])}
PendFutures == {s \in Slots : Runs(s, "receipts")}

\* No two scans for pending payables overlap, so that no row of a scan's snapshot is deleted
\* before its receipts are dealt with.
PendExclusion ==
  /\ \A s, t \in PendFutures : s = t
  /\ \A i, j \in PendWords(inbox) : i = j
  /\ PendFutures = {} \/ PendWords(inbox) = {}
  /\ ~pendScan => PendFutures = {} /\ PendWords(inbox) = {}

\* A batch pays a creditor once and uses a nonce once.
OnePerWallet(accounts) == \A a, b \in accounts : a.wallet = b.wallet => a = b
OneEach(txs) == \A t, u \in txs : t.wallet = u.wallet \/ t.nonce = u.nonce => t = u

\* The nonces in use have no gap, and a batch that is to be submitted continues them: so the
\* chain refuses none of it, and none of it outbids an earlier payment.
NoncesAreDense == \A t \in OnChain : \A n \in 0 .. t.nonce - 1 : Taken(n)
Continues(txs) ==
  \A t \in txs : /\ ~Taken(t.nonce)
                 /\ \A n \in 0 .. t.nonce - 1 : Taken(n) \/ \E u \in txs : u.nonce = n

TaskIsSound(k) ==
  /\ k.kind \in {"agent", "nonce"} => OnePerWallet(k.accounts)
  /\ k.kind = "submit" => OneEach(k.txs) /\ Continues(k.txs)
  /\ k.kind = "reply" => OneEach(k.oks) /\ k.fails = {}
  /\ k.kind = "receipts" => k.snapshot \subseteq fingerprints

MsgIsSound(m) ==
  /\ m.type = "Agent" => OnePerWallet(m.accounts)
  /\ m.type = "Seeds" => OneEach(m.txs)
  /\ m.type = "Sent" => OneEach(m.oks) /\ m.fails = {}
  /\ m.type = "Receipts" => m.confirmed \cup m.failures \cup m.still \subseteq fingerprints

RowidsAreUnique == \A f, g \in fingerprints : f.rowid = g.rowid => f = g
Waits(w) == \E f \in fingerprints : f.rowid = pending[w] /\ f.tx.wallet = w

\* What holds unless a batch fails as a whole or the chain refuses a payment, over kills and
\* restarts: fingerprints are only deleted once they are confirmed.
RowsInv ==
  /\ NoncesAreDense
  /\ RowidsAreUnique
  /\ \A k \in Running : TaskIsSound(k)
  /\ \A m \in Mail : MsgIsSound(m)
  /\ \A w \in Wallets : pending[w] # NoRow => Waits(w)

-----------------------------------------------------------------------------
(* The mailbox and the futures *)

LEMMA MailAppended ==
  ASSUME TypeOK, NEW s \in Slots, NEW next, NEW m \in Msg, Step(s, next, <<m>>)
  PROVE  Mail' = Mail \cup {m}
<1> DEFINE q == inbox
           r == inbox'
<1>1. q \in Seq(Msg) /\ r = q \o <<m>>
  BY Zenon DEF TypeOK, Step
<1>2. /\ Len(q) \in Nat /\ Len(r) = Len(q) + 1 /\ r[Len(q) + 1] = m
      /\ \A i \in 1 .. Len(q) : r[i] = q[i]
  BY <1>1
<1> HIDE DEF q, r
<1>3. {r[i] : i \in 1 .. Len(r)} = {q[i] : i \in 1 .. Len(q)} \cup {m}
  BY <1>2
<1> QED
  BY Zenon, <1>3 DEF Mail, q, r

LEMMA MailKept ==
  ASSUME TypeOK, NEW s \in Slots, NEW next, Step(s, next, <<>>)
  PROVE  inbox' = inbox /\ Mail' = Mail
<1>1. inbox' = inbox
  BY Zenon, AppendNothing DEF TypeOK, Step
<1> QED
  BY Zenon, <1>1 DEF Mail

LEMMA MailServed ==
  ASSUME TypeOK, inbox # <<>>, inbox' = Tail(inbox)
  PROVE  Mail' \subseteq Mail /\ Head(inbox) \in Mail /\ Mail \subseteq Mail' \cup {Head(inbox)}
<1> DEFINE q == inbox
           r == inbox'
<1>1. q \in Seq(Msg) /\ r = Tail(q)
  BY Zenon DEF TypeOK
<1>2. /\ Len(q) \in Nat /\ Len(q) > 0 /\ Len(r) = Len(q) - 1 /\ Head(q) = q[1]
      /\ \A i \in 1 .. Len(r) : r[i] = q[i + 1]
  BY <1>1
<1> HIDE DEF q, r
<1>3. {r[i] : i \in 1 .. Len(r)} \subseteq {q[i] : i \in 1 .. Len(q)}
  BY <1>2
<1>4. \A i \in 1 .. Len(q) : i = 1 \/ (i - 1 \in 1 .. Len(r) /\ r[i - 1] = q[i])
  BY <1>2
<1>5. {q[i] : i \in 1 .. Len(q)} \subseteq {r[i] : i \in 1 .. Len(r)} \cup {q[1]}
  BY <1>4
<1>6. q[1] \in {q[i] : i \in 1 .. Len(q)} /\ Head(q) = q[1]
  BY <1>2
<1> QED
  BY Zenon, <1>3, <1>5, <1>6 DEF Mail, q, r

LEMMA MailStopped ==
  ASSUME NEW how, Stop(how)
  PROVE  Mail' = {} /\ Running' = {}
BY DEF Stop, Mail, Running, Busy

LEMMA SlotFilled ==
  ASSUME TypeOK, NEW s \in Slots, NEW next, task' = [task EXCEPT ![s] = next]
  PROVE  /\ Running' \subseteq Running \cup ({next} \ {Idle})
         /\ \A k \in Running' : k = next \/ \E t \in Slots : t # s /\ Busy(t) /\ k = task[t]
         /\ \A k \in Running : k \in Running' \/ (Busy(s) /\ k = task[s])
<1>1. task'[s] = next /\ \A t \in Slots : t # s => task'[t] = task[t]
  BY Zenon DEF TypeOK
<1> QED
  BY <1>1 DEF Running, Busy

\* A future of a payable scan is the only one, and nothing that ends its scan is in the mailbox.
LEMMA PayStep ==
  ASSUME TypeOK, ScanExclusion, NEW s \in PayFutures, NEW next, task' = [task EXCEPT ![s] = next]
  PROVE  /\ \A k \in Running' : k = next \/ (k \in Running /\ k.kind \notin PayKinds)
         /\ \A k \in Running : k = task[s] \/ k.kind \notin PayKinds
         /\ \A m \in Mail : ~Word(m)
<1>1. s \in Slots /\ Busy(s)
  BY Zenon DEF PayFutures
<1>2. \A t \in Slots : t # s /\ Busy(t) => task[t].kind \notin PayKinds
  BY Zenon DEF ScanExclusion, PayFutures
<1>3. \A k \in Running' : k = next \/ \E t \in Slots : t # s /\ Busy(t) /\ k = task[t]
  BY Zenon, <1>1, SlotFilled
<1>4. PayWords(inbox) = {}
  BY Zenon DEF ScanExclusion
<1> QED
  BY Zenon, <1>1, <1>2, <1>3, <1>4 DEF Running, Mail, PayWords

\* When the last word about a payable scan is heard, nothing of that scan is left.
LEMMA LastWord ==
  ASSUME TypeOK, ScanExclusion, inbox # <<>>, Word(Head(inbox)), inbox' = Tail(inbox)
  PROVE  /\ \A k \in Running : k.kind \notin PayKinds
         /\ \A m \in Mail' : ~Word(m)
<1>1. PayWords(inbox') = {} /\ PayFutures = {}
  BY Zenon, TailExclusion
<1> QED
  BY Zenon, <1>1 DEF PayWords, PayFutures, Running, Mail

\* No scan is running: no future and no message of one.
LEMMA NoScan ==
  ASSUME ScanExclusion, ~payScan
  PROVE  /\ \A k \in Running : k.kind \notin PayKinds
         /\ \A m \in Mail : ~Word(m)
BY Zenon DEF ScanExclusion, PayWords, PayFutures, Running, Mail

-----------------------------------------------------------------------------
(* Ranks *)

\* How many members have a smaller key.
RankBy(S, key) == [a \in S |-> Cardinality({b \in S : key[b] < key[a]})]

\* Numbering the members of a finite set by a key that is an integer of their own, from 0 and
\* without a gap.
LEMMA Ranks ==
  ASSUME CardinalityFacts, NEW S, IsFiniteSet(S), NEW key, OneToOne(key, S, Int),
         NEW rank, rank = RankBy(S, key)
  PROVE  OneToOne(rank, S, 0 .. Cardinality(S) - 1) /\ Onto(rank, S, 0 .. Cardinality(S) - 1)
<1> USE DEF OneToOne
<1> DEFINE Below(a) == {b \in S : key[b] < key[a]}
<1>0. rank = [a \in S |-> Cardinality(Below(a))]
  BY Zenon DEF RankBy
<1>1. Cardinality(S) \in Nat
  BY Zenon DEF CardinalityFacts, SizeIsNatural
<1>2. ASSUME NEW a \in S
      PROVE  /\ IsFiniteSet(Below(a)) /\ Cardinality(Below(a)) \in Nat
             /\ Cardinality(Below(a)) < Cardinality(S)
  <2>1. Below(a) \in SUBSET S /\ a \notin Below(a)
    OBVIOUS
  <2>2. Below(a) # S
    BY Zenon, <2>1
  <2> HIDE DEF Below
  <2>3. IsFiniteSet(Below(a))
    BY Zenon, <2>1, SubsetFinite
  <2>4. /\ Cardinality(Below(a)) \in Nat /\ Cardinality(Below(a)) <= Cardinality(S)
        /\ Cardinality(Below(a)) # Cardinality(S)
    BY Zenon, <2>1, <2>2, <2>3 DEF CardinalityFacts, SizeIsNatural, PartIsSmaller
  <2> QED
    BY <1>1, <2>3, <2>4
<1>3. ASSUME NEW a \in S, NEW b \in S, key[a] < key[b]
      PROVE  Cardinality(Below(a)) < Cardinality(Below(b))
  <2>1. Below(a) \in SUBSET Below(b) /\ a \in Below(b) /\ a \notin Below(a)
    BY <1>3
  <2>2. Below(a) # Below(b)
    BY Zenon, <2>1
  <2>3. IsFiniteSet(Below(b)) /\ Cardinality(Below(a)) \in Nat /\ Cardinality(Below(b)) \in Nat
    BY Zenon, <1>2
  <2> HIDE DEF Below
  <2>4. Cardinality(Below(a)) <= Cardinality(Below(b)) /\ Cardinality(Below(b)) # Cardinality(Below(a))
    BY <2>1, <2>2, <2>3 DEF CardinalityFacts, PartIsSmaller
  <2> QED
    BY <2>3, <2>4
<1>4. \A a, b \in S : rank[a] = rank[b] => a = b
  <2> SUFFICES ASSUME NEW a \in S, NEW b \in S, rank[a] = rank[b] PROVE a = b
    BY Zenon
  <2>1. ~(key[a] < key[b]) /\ ~(key[b] < key[a])
    <3> HIDE DEF Below
    <3> QED BY <1>0, <1>2, <1>3
  <2> QED
    BY <2>1
<1>5. rank \in [S -> 0 .. Cardinality(S) - 1]
  <2> HIDE DEF Below
  <2> QED BY <1>0, <1>1, <1>2
<1>6. OneToOne(rank, S, 0 .. Cardinality(S) - 1)
  BY Zenon, <1>4, <1>5
<1> HIDE DEF Below, OneToOne
<1> QED
  BY Zenon, <1>6 DEF CardinalityFacts, OneToOneIsOnto

\* The transactions of a batch pay each creditor once and use consecutive nonces.
LEMMA SignedInLine ==
  ASSUME CardinalityFacts, NEW accounts \in Batch(Account), OnePerWallet(accounts), NEW gas,
         NEW first \in Nat,
         NEW signed, signed = SignedTxs(accounts, gas, first)
  PROVE  /\ OneEach(signed)
         /\ \A t \in signed : /\ t.nonce \in Nat /\ t.nonce >= first
                              /\ \A n \in first .. t.nonce - 1 : \E u \in signed : u.nonce = n
         /\ \A t \in signed : \E a \in accounts : t.wallet = a.wallet
<1> DEFINE key == [a \in accounts |-> a.wallet]
           rank == [a \in accounts |-> Cardinality({b \in accounts : key[b] < key[a]})]
           Sign(a) == [nonce |-> first + rank[a], wallet |-> a.wallet, amount |-> a.amount, gas |-> gas]
           txs == {Sign(a) : a \in accounts}
<1>1. IsFiniteSet(accounts) /\ \A a \in accounts : a.wallet \in Int
  <2>1. IsFiniteSet(accounts) /\ accounts \subseteq Account
    BY Zenon DEF Batch
  <2>2. Wallets \subseteq Int
    BY PaymentsAssumption
  <2>3. \A a \in Account : a.wallet \in Int
    BY Zenon, <2>2 DEF Account
  <2> QED
    BY Zenon, <2>1, <2>3
<1>2. OneToOne(key, accounts, Int)
  BY Zenon, <1>1 DEF OnePerWallet, OneToOne
<1>3. signed = txs
  <2>1. \A a \in accounts : {b \in accounts : key[b] < key[a]} = {b \in accounts : b.wallet < a.wallet}
    BY Zenon
  <2> QED
    BY Zenon, <2>1 DEF SignedTxs
<1>b. rank = RankBy(accounts, key)
  BY Zenon DEF RankBy
<1> HIDE DEF key, rank
<1>a. OneToOne(rank, accounts, 0 .. Cardinality(accounts) - 1)
      /\ Onto(rank, accounts, 0 .. Cardinality(accounts) - 1)
  BY Zenon, <1>1, <1>2, <1>b, Ranks
<1>4. /\ rank \in [accounts -> 0 .. Cardinality(accounts) - 1]
      /\ \A a, b \in accounts : rank[a] = rank[b] => a = b
      /\ \A n \in 0 .. Cardinality(accounts) - 1 : \E a \in accounts : rank[a] = n
  BY Zenon, <1>a DEF OneToOne, Onto
<1>5. Cardinality(accounts) \in Nat
  BY Zenon, <1>1 DEF CardinalityFacts, SizeIsNatural
<1>6. \A a \in accounts : rank[a] \in Nat /\ rank[a] < Cardinality(accounts)
  BY <1>4, <1>5
<1>7. OneEach(txs)
  <2> SUFFICES ASSUME NEW a \in accounts, NEW b \in accounts,
                      Sign(a).wallet = Sign(b).wallet \/ Sign(a).nonce = Sign(b).nonce
               PROVE  a = b
    BY DEF OneEach
  <2> QED
    BY <1>4, <1>6 DEF OnePerWallet
<1>8. ASSUME NEW a \in accounts
      PROVE  /\ Sign(a).nonce \in Nat /\ Sign(a).nonce >= first
             /\ \A n \in first .. Sign(a).nonce - 1 : \E u \in txs : u.nonce = n
  <2>1. Sign(a).nonce = first + rank[a]
    BY Zenon
  <2>2. ASSUME NEW n \in first .. Sign(a).nonce - 1 PROVE \E u \in txs : u.nonce = n
    <3>1. n - first \in 0 .. Cardinality(accounts) - 1
      BY <1>5, <1>6, <2>1
    <3>2. PICK b \in accounts : rank[b] = n - first
      BY <1>4, <3>1
    <3>3. Sign(b).nonce = n
      BY <3>2
    <3> QED
      BY Zenon, <3>3
  <2> QED
    BY <1>6, <2>1, <2>2
<1>9. \A t \in txs : \E a \in accounts : t.wallet = a.wallet
  OBVIOUS
<1> QED
  BY <1>3, <1>7, <1>8, <1>9

LEMMA SignedWallets ==
  ASSUME NEW accounts, NEW gas, NEW first, NEW t \in SignedTxs(accounts, gas, first)
  PROVE  \E a \in accounts : t.wallet = a.wallet
<1>1. \E a \in accounts : \E n : t = [nonce |-> n, wallet |-> a.wallet, amount |-> a.amount, gas |-> gas]
  BY Zenon DEF SignedTxs
<1> QED
  BY ONLY <1>1

\* The rows of new fingerprints are new and differ.
LEMMA NewRows ==
  ASSUME CardinalityFacts, NEW txs \in Batch(Tx), OneEach(txs), NEW top \in Nat
  PROVE  /\ \A f \in NewFingerprints(txs, top) : f.rowid > top /\ f.rowid \in Nat
         /\ \A f, g \in NewFingerprints(txs, top) : f.rowid = g.rowid => f = g
         /\ {f.tx : f \in NewFingerprints(txs, top)} = txs
         /\ \A f, g \in NewFingerprints(txs, top) : f.tx = g.tx => f = g
<1> DEFINE UpTo(t) == {u \in txs : u.nonce <= t.nonce}
           Row(t) == [rowid |-> top + Cardinality(UpTo(t)), tx |-> t, error |-> FALSE]
<1>1. IsFiniteSet(txs) /\ \A t \in txs : t.nonce \in Int
  BY PaymentsAssumption DEF Batch, Tx, Nonces
<1>2. NewFingerprints(txs, top) = {Row(t) : t \in txs}
  BY Zenon DEF NewFingerprints
<1>3. ASSUME NEW t \in txs
      PROVE  IsFiniteSet(UpTo(t)) /\ Cardinality(UpTo(t)) \in Nat /\ Cardinality(UpTo(t)) > 0
  <2>1. UpTo(t) \in SUBSET txs /\ t \in UpTo(t)
    BY <1>1
  <2> HIDE DEF UpTo
  <2>2. IsFiniteSet(UpTo(t)) /\ Cardinality(UpTo(t)) \in Nat
    BY <1>1, <2>1, SubsetFinite DEF CardinalityFacts, SizeIsNatural
  <2>3. Cardinality(UpTo(t)) # 0
    BY <2>1, <2>2 DEF CardinalityFacts, SizeIsNatural
  <2> QED
    BY <2>2, <2>3
<1>4. ASSUME NEW t \in txs, NEW u \in txs, t.nonce < u.nonce
      PROVE  Cardinality(UpTo(t)) # Cardinality(UpTo(u))
  <2>1. UpTo(t) \in SUBSET UpTo(u) /\ u \in UpTo(u) /\ u \notin UpTo(t)
    BY <1>1, <1>4
  <2>2. UpTo(t) # UpTo(u)
    BY <2>1
  <2> HIDE DEF UpTo
  <2> QED
    BY <1>3, <2>1, <2>2 DEF CardinalityFacts, PartIsSmaller
<1>5. ASSUME NEW t \in txs, NEW u \in txs, Row(t).rowid = Row(u).rowid PROVE t = u
  <2>1. Cardinality(UpTo(t)) = Cardinality(UpTo(u))
    <3> HIDE DEF UpTo
    <3> QED BY <1>3, <1>5
  <2>2. t.nonce = u.nonce
    BY <1>1, <1>4, <2>1
  <2> QED
    BY Zenon, <2>2 DEF OneEach
<1>6. \A t \in txs : Row(t).rowid > top /\ Row(t).rowid \in Nat /\ Row(t).tx = t
  <2> HIDE DEF UpTo
  <2> QED BY <1>3
<1> HIDE DEF Row
<1> QED
  BY <1>2, <1>5, <1>6


-----------------------------------------------------------------------------
(* The steps of the bridge, unless a batch fails as a whole *)

LEMMA AgentStep ==
  ASSUME TypeOK, NEW s \in Slots, BuildAgent(s)
  PROVE  /\ s \in PayFutures /\ task[s].kind = "agent" /\ task[s] \in Running
         /\ UNCHANGED chain
         /\ \E m \in Msg : /\ Step(s, Idle, <<m>>)
                           /\ \/ m.type = "Agent" /\ m.accounts = task[s].accounts
                              \/ m.type = "ScanError" /\ m.scan = "payables"
<1>1. Busy(s) /\ task[s].kind = "agent" /\ UNCHANGED chain
  BY DEF BuildAgent, Runs
<1>2. \A gas \in GasPrices : AgentMsg(task[s].accounts, gas, task[s].ctx) \in Msg
  BY <1>1, TaskFields DEF AgentMsg, Msg
<1>3. ScanErrorMsg("payables", task[s].ctx) \in Msg
  BY <1>1, TaskFields DEF ScanErrorMsg, Msg
<1>4. \/ \E gas \in GasPrices : Step(s, Idle, <<AgentMsg(task[s].accounts, gas, task[s].ctx)>>)
      \/ Step(s, Idle, <<ScanErrorMsg("payables", task[s].ctx)>>)
  BY Zenon DEF BuildAgent, AgentFailure
<1>5. /\ \A gas : AgentMsg(task[s].accounts, gas, task[s].ctx).type = "Agent"
                  /\ AgentMsg(task[s].accounts, gas, task[s].ctx).accounts = task[s].accounts
      /\ ScanErrorMsg("payables", task[s].ctx).type = "ScanError"
      /\ ScanErrorMsg("payables", task[s].ctx).scan = "payables"
  BY Zenon DEF AgentMsg, ScanErrorMsg
<1>6. \E m \in Msg : /\ Step(s, Idle, <<m>>)
                     /\ \/ m.type = "Agent" /\ m.accounts = task[s].accounts
                        \/ m.type = "ScanError" /\ m.scan = "payables"
  BY Zenon, <1>2, <1>3, <1>4, <1>5
<1> QED
  BY <1>1, <1>6 DEF PayFutures, PayKinds, Running

LEMMA SignStep ==
  ASSUME CardinalityFacts, TypeOK, BatchesDoNotFail, NEW s \in Slots, FetchNonceAndSign(s)
  PROVE  /\ s \in PayFutures /\ task[s].kind = "nonce" /\ task[s] \in Running
         /\ UNCHANGED chain
         /\ \E first \in Nonces : \E txs \in Batch(Tx) :
              /\ PendingNonce(first) /\ txs = SignedTxs(task[s].accounts, task[s].gas, first)
              /\ SeedsMsg(txs) \in Msg
              /\ Step(s, [kind |-> "submit", txs |-> txs, ctx |-> task[s].ctx], <<SeedsMsg(txs)>>)
<1>1. Busy(s) /\ task[s].kind = "nonce" /\ UNCHANGED chain
  BY Zenon DEF FetchNonceAndSign, Runs
<1>2. PICK first \in Nonces :
        /\ PendingNonce(first) /\ first + Cardinality(task[s].accounts) <= world.maxNonce
        /\ LET txs == SignedTxs(task[s].accounts, task[s].gas, first)
           IN  Step(s, [kind |-> "submit", txs |-> txs, ctx |-> task[s].ctx], Announcement(txs))
  BY Zenon DEF FetchNonceAndSign, BatchesDoNotFail
<1> DEFINE txs == SignedTxs(task[s].accounts, task[s].gas, first)
<1>3. txs \in Batch(Tx)
  BY <1>1, <1>2, TaskFields, SignedTxsTyped
<1>4. Step(s, [kind |-> "submit", txs |-> txs, ctx |-> task[s].ctx], <<SeedsMsg(txs)>>)
  BY <1>2 DEF Announcement
<1>5. SeedsMsg(txs) \in Msg
  <2> HIDE DEF txs
  <2> QED BY <1>3 DEF SeedsMsg, Msg
<1>6. s \in PayFutures /\ task[s] \in Running
  BY <1>1 DEF PayFutures, PayKinds, Running
<1> QED
  BY ZenonT(40), <1>1, <1>2, <1>3, <1>4, <1>5, <1>6

LEMMA ReplyStep ==
  ASSUME TypeOK, BatchesDoNotFail, NEW s \in Slots, BatchReply(s)
  PROVE  /\ s \in PayFutures /\ task[s].kind = "reply" /\ task[s] \in Running
         /\ UNCHANGED chain
         /\ SentMsg(task[s].oks, task[s].fails, task[s].ctx) \in Msg
         /\ Step(s, Idle, <<SentMsg(task[s].oks, task[s].fails, task[s].ctx)>>)
<1>1. Busy(s) /\ task[s].kind = "reply" /\ UNCHANGED chain
  BY DEF BatchReply, Runs
<1>2. SentMsg(task[s].oks, task[s].fails, task[s].ctx) \in Msg
  BY <1>1, TaskFields DEF SentMsg, Msg
<1>3. Step(s, Idle, <<SentMsg(task[s].oks, task[s].fails, task[s].ctx)>>)
  BY Zenon DEF BatchReply, BatchesDoNotFail
<1> QED
  BY <1>1, <1>2, <1>3 DEF PayFutures, PayKinds, Running

LEMMA ReceiptsStep ==
  ASSUME TypeOK, NEW s \in Slots, FetchReceipts(s)
  PROVE  /\ s \in PendFutures /\ task[s].kind = "receipts" /\ task[s] \in Running
         /\ UNCHANGED chain
         /\ \E m \in Msg : /\ Step(s, Idle, <<m>>) /\ PendWord(m) /\ ~Word(m)
                           /\ m.type \in {"Receipts", "ScanError"}
                           /\ m.type = "Receipts" =>
                                /\ m.confirmed \cup m.failures \cup m.still \subseteq task[s].snapshot
                                /\ \A f \in m.confirmed : f.tx \in succeeded
<1>1. Busy(s) /\ task[s].kind = "receipts" /\ UNCHANGED chain
  BY Zenon DEF FetchReceipts, Runs
<1> DEFINE Good(m) == /\ Step(s, Idle, <<m>>) /\ PendWord(m) /\ ~Word(m)
                      /\ m.type \in {"Receipts", "ScanError"}
                      /\ m.type = "Receipts" =>
                           /\ m.confirmed \cup m.failures \cup m.still \subseteq task[s].snapshot
                           /\ \A f \in m.confirmed : f.tx \in succeeded
<1>2. ASSUME NEW c \in SUBSET task[s].snapshot, NEW f \in SUBSET task[s].snapshot,
             NEW t \in SUBSET task[s].snapshot, \A g \in c : g.tx \in succeeded,
             Step(s, Idle, <<ReceiptsMsg(c, f, t, task[s].ctx)>>)
      PROVE  \E m \in Msg : Good(m)
  <2>1. c \in Batch(Fingerprint) /\ f \in Batch(Fingerprint) /\ t \in Batch(Fingerprint)
    BY Zenon, TaskFields, <1>1, BatchSubset
  <2>2. task[s].ctx \in Skeletons
    BY Zenon, TaskFields, <1>1
  <2>3. PICK m : m = ReceiptsMsg(c, f, t, task[s].ctx)
    BY Zenon
  <2>4. m \in Msg /\ m.type = "Receipts" /\ m.confirmed = c /\ m.failures = f /\ m.still = t
    BY <2>1, <2>2, <2>3 DEF ReceiptsMsg, Msg
  <2>5. PendWord(m) /\ ~Word(m)
    BY <2>4 DEF PendWord, Word
  <2>6. Step(s, Idle, <<m>>)
    BY Zenon, <1>2, <2>3
  <2> QED
    BY <1>2, <2>4, <2>5, <2>6
<1>3. ASSUME Step(s, Idle, <<ScanErrorMsg("pendingPayables", task[s].ctx)>>)
      PROVE  \E m \in Msg : Good(m)
  <2>1. PICK m : m = ScanErrorMsg("pendingPayables", task[s].ctx)
    BY Zenon
  <2>2. m \in Msg /\ m.type = "ScanError" /\ m.scan = "pendingPayables"
    BY <1>1, <2>1, TaskFields DEF ScanErrorMsg, Msg
  <2>3. PendWord(m) /\ ~Word(m)
    BY <2>2 DEF PendWord, Word
  <2>4. Step(s, Idle, <<m>>)
    BY ZenonT(40), <1>3, <2>1
  <2> QED
    BY <2>2, <2>3, <2>4
<1>4. ASSUME NEW unread \in SUBSET task[s].snapshot,
             LET read      == task[s].snapshot \ unread
                 confirmed == {f \in read : f.tx \in succeeded}
                 failures  == {f \in read : f.tx \in failed}
             IN  Step(s, Idle, <<ReceiptsMsg(confirmed, failures,
                        task[s].snapshot \ (confirmed \cup failures), task[s].ctx)>>)
      PROVE  \E m \in Msg : Good(m)
  <2> HIDE DEF Good
  <2> QED BY <1>2, <1>4
<1>5. \E m \in Msg : Good(m)
  <2> HIDE DEF Good
  <2> QED BY ZenonT(40), <1>3, <1>4 DEF FetchReceipts
<1> QED
  BY <1>1, <1>5 DEF PendFutures, Runs, Running


\* A batch that continues the nonces on the chain is accepted as it is.
LEMMA SubmitStep ==
  ASSUME TypeOK, RowidsAreStable, RowsInv, NEW s \in Slots, SubmitBatch(s)
  PROVE  /\ s \in PayFutures /\ task[s].kind = "submit" /\ task[s] \in Running
         /\ mempool' = mempool \cup task[s].txs /\ UNCHANGED <<succeeded, failed>>
         /\ Step(s, [kind |-> "reply", oks |-> task[s].txs, fails |-> {}, ctx |-> task[s].ctx], <<>>)
<1>1. Busy(s) /\ task[s].kind = "submit" /\ UNCHANGED <<succeeded, failed>>
  BY Zenon DEF SubmitBatch, Runs
<1>2. task[s] \in Running
  BY <1>1 DEF Running
<1>3. \A t \in task[s].txs : ~Taken(t.nonce)
  BY <1>1, <1>2 DEF RowsInv, TaskIsSound, Continues
<1>4. Refused(task[s].txs) = {} /\ Outbid(task[s].txs) = {}
  BY <1>3 DEF Refused, Outbid, Taken, OnChain
<1>5. "ItemRejected" \notin world.faults
  BY DEF RowidsAreStable
<1>6. PICK fails \in SUBSET task[s].txs :
        /\ fails = Refused(task[s].txs)
        /\ mempool' = (mempool \ Outbid(task[s].txs \ fails)) \cup (task[s].txs \ fails)
        /\ Step(s, [kind |-> "reply", oks |-> task[s].txs \ fails, fails |-> fails,
                    ctx |-> task[s].ctx], <<>>)
  BY ZenonT(40), <1>5 DEF SubmitBatch
<1>7. fails = {} /\ task[s].txs \ fails = task[s].txs
  BY <1>4, <1>6
<1>8. /\ mempool' = mempool \cup task[s].txs
      /\ Step(s, [kind |-> "reply", oks |-> task[s].txs, fails |-> {}, ctx |-> task[s].ctx], <<>>)
  <2>1. mempool' = (mempool \ Outbid(task[s].txs)) \cup task[s].txs
    BY <1>6, <1>7
  <2> QED
    BY <1>4, <1>6, <1>7, <2>1
<1> QED
  BY <1>1, <1>2, <1>8 DEF PayFutures, PayKinds

-----------------------------------------------------------------------------
(* The handlers of the Accountant, unless the chain refuses payments *)

\* No fingerprint is deleted: the accounts are marked, or the Node panics.
LEMMA SentStep ==
  ASSUME TypeOK, RowsInv, SentPayables
  PROVE  LET m == Head(inbox)
         IN  /\ inbox # <<>> /\ m \in Mail /\ m.type = "Sent" /\ m \in Msg
             /\ OneEach(m.oks) /\ m.fails = {}
             /\ MarkPending(m.oks) /\ UNCHANGED <<fingerprints, chain, settled, world>>
             /\ \/ /\ Markable(m.oks) = FingerprintsOf(m.oks) /\ m.oks \subseteq KnownHashes
                   /\ inbox' = Tail(inbox) /\ UNCHANGED <<node, pendScan, task>>
                \/ /\ ~(Markable(m.oks) = FingerprintsOf(m.oks) /\ m.oks \subseteq KnownHashes)
                   /\ Stop("panicked")
<1> DEFINE m == Head(inbox)
           all == Markable(m.oks) = FingerprintsOf(m.oks) /\ m.oks \subseteq KnownHashes
<1>1. inbox # <<>> /\ m.type = "Sent"
  BY Zenon DEF SentPayables, Received
<1>2. m \in Mail /\ m \in Msg
  <2>1. inbox \in Seq(Msg) /\ 1 \in 1 .. Len(inbox) /\ m = inbox[1]
    BY <1>1 DEF TypeOK
  <2> QED
    BY <2>1, <1>1, HeadFields DEF Mail
<1>3. OneEach(m.oks) /\ m.fails = {}
  BY <1>1, <1>2 DEF RowsInv, MsgIsSound
<1>4. FingerprintsOf(m.fails) = {} /\ m.fails \subseteq KnownHashes
  BY <1>3 DEF FingerprintsOf
<1> HIDE DEF m
<1>5. /\ MarkPending(m.oks) /\ UNCHANGED <<balance, aged, chain, setup, asked, history>>
      /\ fingerprints' = IF all THEN fingerprints \ FingerprintsOf(m.fails) ELSE fingerprints
      /\ \/ /\ all /\ m.fails \subseteq KnownHashes
            /\ inbox' = Tail(inbox) /\ UNCHANGED <<node, pendScan, task>>
         \/ ~(all /\ m.fails \subseteq KnownHashes) /\ Stop("panicked")
  <2> HIDE DEF all
  <2> QED BY Zenon DEF SentPayables, m, all
<1>6. fingerprints' = fingerprints
  BY <1>4, <1>5
<1>7. UNCHANGED <<chain, settled, world>>
  BY <1>5 DEF history, setup
<1> QED
  BY ZenonT(40), <1>1, <1>2, <1>3, <1>4, <1>5, <1>6, <1>7 DEF m

\* The error flag of a row.
Flag(f, rows) == [f EXCEPT !.error = @ \/ f.rowid \in rows]

LEMMA FlagFields ==
  ASSUME NEW f \in Fingerprint, NEW rows
  PROVE  Flag(f, rows).rowid = f.rowid /\ Flag(f, rows).tx = f.tx
<1>1. PICK r \in Nat \ {NoRow}, t \in Tx, e \in BOOLEAN : f = [rowid |-> r, tx |-> t, error |-> e]
  BY Zenon DEF Fingerprint
<1>2. Flag(f, rows) = [rowid |-> r, tx |-> t, error |-> e \/ r \in rows]
  BY <1>1 DEF Flag
<1> QED
  BY <1>1, <1>2

\* Receipts are about fingerprints that exist: either each one confirmed is settled and its row
\* deleted, or the Node panics over one that no account waits for.
LEMMA ReceiptsHandled ==
  ASSUME TypeOK, RowsInv, TransactionReceipts
  PROVE  LET m == Head(inbox)
         IN  /\ inbox # <<>> /\ m \in Mail /\ m.type = "Receipts" /\ m \in Msg
             /\ m.confirmed \subseteq fingerprints /\ UNCHANGED <<chain, world>>
             /\ \/ /\ \A f \in m.confirmed : MatchesOne(f)
                   /\ TransactionsConfirmed(m.confirmed)
                   /\ fingerprints' = {Flag(f, Rows(m.failures)) :
                                         f \in {g \in fingerprints : g.rowid \notin Rows(m.confirmed)}}
                   /\ inbox' = Tail(inbox) /\ pendScan' = FALSE /\ UNCHANGED <<node, payScan, task>>
                \/ /\ \E f \in m.confirmed : ~MatchesOne(f)
                   /\ \E fs \in SUBSET m.confirmed : TransactionsConfirmed(fs)
                   /\ fingerprints' = fingerprints
                   /\ Stop("panicked")
<1> DEFINE m == Head(inbox)
           all == \A f \in m.confirmed : MatchesOne(f)
           remaining == {f \in fingerprints : f.rowid \notin Rows(m.confirmed)}
           flagged == {[f EXCEPT !.error = @ \/ f.rowid \in Rows(m.failures)] : f \in remaining}
           rows == Rows(m.confirmed) \cup Rows(m.failures) \cup Rows(m.still) \subseteq Rowids
<1>1. inbox # <<>> /\ m.type = "Receipts"
  BY SMTT(30) DEF TransactionReceipts, Received
<1>2. m \in Mail /\ m \in Msg
  <2>1. inbox \in Seq(Msg) /\ 1 \in 1 .. Len(inbox) /\ m = inbox[1]
    BY <1>1 DEF TypeOK
  <2> QED
    BY <2>1, <1>1, HeadFields DEF Mail
<1>3. m.confirmed \cup m.failures \cup m.still \subseteq fingerprints
  BY <1>1, <1>2 DEF RowsInv, MsgIsSound
<1> HIDE DEF m
<1>4. rows /\ Rows(m.confirmed) \subseteq Rowids
  BY <1>3 DEF Rows, Rowids
<1> HIDE DEF remaining, flagged, rows, all
<1>5. /\ TransactionsConfirmed(Attempted(m.confirmed)) /\ UNCHANGED <<chain, setup, asked, charged>>
      /\ fingerprints' = IF ~all THEN fingerprints
                         ELSE IF Rows(m.confirmed) \subseteq Rowids THEN flagged ELSE remaining
      /\ \/ /\ all /\ rows
            /\ inbox' = Tail(inbox) /\ pendScan' = FALSE /\ UNCHANGED <<node, payScan, task>>
         \/ ~(all /\ rows) /\ Stop("panicked")
  BY Zenon DEF TransactionReceipts, m, all, rows, flagged, remaining
<1>6. Attempted(m.confirmed) \in SUBSET m.confirmed
  BY Zenon DEF Attempted
<1>7. all => Attempted(m.confirmed) = m.confirmed
  BY Zenon DEF Attempted, all
<1>8. UNCHANGED <<chain, world>>
  BY <1>5 DEF setup
<1>9. CASE all
  <2>1. /\ TransactionsConfirmed(m.confirmed) /\ fingerprints' = flagged
        /\ inbox' = Tail(inbox) /\ pendScan' = FALSE /\ UNCHANGED <<node, payScan, task>>
    <3>1. TransactionsConfirmed(m.confirmed)
      BY Zenon, <1>5, <1>7, <1>9
    <3> QED
      BY Zenon, <1>4, <1>5, <1>9, <3>1
  <2>2. flagged = {Flag(f, Rows(m.failures)) : f \in {g \in fingerprints : g.rowid \notin Rows(m.confirmed)}}
    BY Zenon DEF flagged, Flag, remaining
  <2> QED
    BY ZenonT(40), <1>1, <1>2, <1>3, <1>8, <1>9, <2>1, <2>2 DEF all, m
<1>10. CASE ~all
  <2>1. fingerprints' = fingerprints /\ Stop("panicked")
    BY Zenon, <1>5, <1>10
  <2> QED
    BY ZenonT(40), <1>1, <1>2, <1>3, <1>5, <1>6, <1>8, <1>10, <2>1 DEF all, m
<1> QED
  BY Zenon, <1>9, <1>10

-----------------------------------------------------------------------------
(* One scan for pending payables at a time *)

\* Taking a message off the mailbox leaves no word that was not there.
LEMMA TailPend ==
  ASSUME TypeOK, PendExclusion, inbox # <<>>, inbox' = Tail(inbox)
  PROVE  /\ \A i, j \in PendWords(inbox') : i = j
         /\ PendWords(inbox) = {} => PendWords(inbox') = {}
         /\ PendWord(Head(inbox)) => PendWords(inbox') = {} /\ PendFutures = {} /\ pendScan
<1> DEFINE q == inbox
           r == inbox'
<1>1. /\ Len(q) \in Nat /\ Len(q) > 0 /\ Len(r) = Len(q) - 1 /\ Head(q) = q[1]
      /\ \A i \in 1 .. Len(r) : r[i] = q[i + 1]
  BY DEF TypeOK
<1> HIDE DEF q, r
<1>2. \A i \in PendWords(r) : i \in Nat /\ i # 0 /\ i + 1 \in PendWords(q)
  BY <1>1 DEF PendWords
<1>3. PendWord(Head(q)) => 1 \in PendWords(q)
  BY <1>1 DEF PendWords
<1> QED
  BY <1>2, <1>3 DEF PendExclusion, q, r

LEMMA PendInductive ==
  CardinalityFacts /\ BatchesDoNotFail /\ TypeOK /\ PendExclusion /\ [Next]_vars => PendExclusion'

<1>AppendPendWords.
    ASSUME NEW q \in Seq(Msg), NEW m \in Msg
    PROVE  PendWords(q \o <<m>>) = PendWords(q) \cup (IF PendWord(m) THEN {Len(q) + 1} ELSE {})
  <2> USE <1>AppendPendWords
  <2> DEFINE r == q \o <<m>>
  <2>1. /\ Len(q) \in Nat /\ Len(r) = Len(q) + 1 /\ r[Len(q) + 1] = m
        /\ \A i \in 1 .. Len(q) : r[i] = q[i]
    OBVIOUS
  <2> HIDE DEF r
  <2>2. PendWords(r) = PendWords(q) \cup (IF PendWord(m) THEN {Len(q) + 1} ELSE {})
    BY <2>1 DEF PendWords
  <2> QED
    BY Zenon, <2>2 DEF r

\* What leaves the words and the flag alone and begins no future that asks for receipts.
<1>PendKept.
    ASSUME PendExclusion, PendFutures' \subseteq PendFutures, pendScan' = pendScan,
           PendWords(inbox') = PendWords(inbox)
    PROVE  PendExclusion'
  BY <1>PendKept, Zenon DEF PendExclusion

<1>PendServed.
    ASSUME TypeOK, PendExclusion, PendFutures' \subseteq PendFutures, inbox # <<>>, inbox' = Tail(inbox),
           pendScan' = pendScan \/ PendWord(Head(inbox))
    PROVE  PendExclusion'
  BY <1>PendServed, TailPend DEF PendExclusion

<1>PendStopped.
    ASSUME NEW how, Stop(how)
    PROVE  PendExclusion'
  <2> USE <1>PendStopped
  <2>1. PendWords(inbox') = {}
    BY DEF Stop, PendWords
  <2>2. PendFutures' = {}
    BY DEF Stop, PendFutures, Runs, Busy
  <2> QED
    BY <2>1, <2>2 DEF PendExclusion

<1>PendFuturesKept.
    ASSUME TypeOK, NEW s \in Slots, NEW next, next = Idle \/ next.kind # "receipts",
           task' = [task EXCEPT ![s] = next]
    PROVE  PendFutures' \subseteq PendFutures \ {s}
  BY <1>PendFuturesKept DEF PendFutures, Runs, Busy, TypeOK

<1>BridgePend.
    ASSUME CardinalityFacts, BatchesDoNotFail, TypeOK, PendExclusion, NEW s \in Slots, Bridge(s)
    PROVE  PendExclusion'
  <2> USE <1>BridgePend
  <2>a. ASSUME NEW next, next = Idle \/ next.kind # "receipts", NEW m \in Msg, ~PendWord(m),
               Step(s, next, <<m>>)
        PROVE  PendExclusion'
    <3>1. inbox' = inbox \o <<m>> /\ task' = [task EXCEPT ![s] = next] /\ pendScan' = pendScan
      BY <2>a DEF Step
    <3>2. PendWords(inbox') = PendWords(inbox)
      BY ZenonT(40), <2>a, <3>1, <1>AppendPendWords DEF TypeOK
    <3>3. PendFutures' \subseteq PendFutures
      BY Zenon, <2>a, <3>1, <1>PendFuturesKept
    <3> QED
      BY <3>1, <3>2, <3>3, <1>PendKept
  <2>1. CASE BuildAgent(s)
    <3>1. PICK m \in Msg : /\ Step(s, Idle, <<m>>)
                           /\ \/ m.type = "Agent" /\ m.accounts = task[s].accounts
                              \/ m.type = "ScanError" /\ m.scan = "payables"
      BY Zenon, <2>1, AgentStep
    <3>2. ~PendWord(m)
      BY <3>1 DEF PendWord
    <3> QED
      BY Zenon, <2>a, <3>1, <3>2
  <2>2. CASE FetchNonceAndSign(s)
    <3>1. PICK first \in Nonces, txs \in Batch(Tx) :
            /\ SeedsMsg(txs) \in Msg
            /\ Step(s, [kind |-> "submit", txs |-> txs, ctx |-> task[s].ctx], <<SeedsMsg(txs)>>)
      BY Zenon, <2>2, SignStep
    <3>2. ~PendWord(SeedsMsg(txs))
      BY Zenon DEF PendWord, SeedsMsg
    <3>3. [kind |-> "submit", txs |-> txs, ctx |-> task[s].ctx].kind # "receipts"
      BY Zenon
    <3> QED
      BY Zenon, <2>a, <3>1, <3>2, <3>3
  <2>3. CASE SubmitBatch(s)
    <3>1. PICK oks, fails : Step(s, [kind |-> "reply", oks |-> oks, fails |-> fails, ctx |-> task[s].ctx], <<>>)
      BY Zenon, <2>3 DEF SubmitBatch
    <3> DEFINE next == [kind |-> "reply", oks |-> oks, fails |-> fails, ctx |-> task[s].ctx]
    <3>2. inbox' = inbox /\ task' = [task EXCEPT ![s] = next] /\ pendScan' = pendScan
      <4>1. inbox \o <<>> = inbox
        BY AppendNothing DEF TypeOK
      <4> QED
        BY <3>1, <4>1 DEF Step
    <3>3. next.kind # "receipts"
      BY Zenon
    <3> HIDE DEF next
    <3>4. PendFutures' \subseteq PendFutures
      BY Zenon, <3>2, <3>3, <1>PendFuturesKept
    <3> QED
      BY <3>2, <3>4, <1>PendKept
  <2>4. CASE BatchReply(s)
    <3>1. PICK m \in Msg : Step(s, Idle, <<m>>) /\ m.type = "Sent"
      <4>1. SentMsg(task[s].oks, task[s].fails, task[s].ctx).type = "Sent"
        BY Zenon DEF SentMsg
      <4> QED
        BY Zenon, <2>4, <4>1, ReplyStep
    <3>2. ~PendWord(m)
      BY <3>1 DEF PendWord
    <3> QED
      BY Zenon, <2>a, <3>1, <3>2
  <2>5. CASE BatchFails(s)
    BY <2>5 DEF BatchFails, BatchesDoNotFail
  <2>6. CASE FetchReceipts(s)
    <3>1. s \in PendFutures
      BY Zenon, <2>6, ReceiptsStep
    <3>2. PICK m \in Msg : Step(s, Idle, <<m>>) /\ PendWord(m)
      BY Zenon, <2>6, ReceiptsStep
    <3>3. inbox' = inbox \o <<m>> /\ task' = [task EXCEPT ![s] = Idle] /\ pendScan' = pendScan
      BY Zenon, <3>2 DEF Step
    <3>4. PendWords(inbox) = {} /\ pendScan /\ \A t \in PendFutures : t = s
      BY <3>1 DEF PendExclusion
    <3>5. PendWords(inbox') = {Len(inbox) + 1}
      BY ZenonT(40), <3>2, <3>3, <3>4, <1>AppendPendWords DEF TypeOK
    <3>6. PendFutures' = {}
      BY Zenon, <3>3, <3>4, <1>PendFuturesKept
    <3> QED
      BY <3>3, <3>4, <3>5, <3>6 DEF PendExclusion
  <2> QED
    BY <2>1, <2>2, <2>3, <2>4, <2>5, <2>6 DEF Bridge

<1>AccountantPend.
    ASSUME TypeOK, PendExclusion, Accountant
    PROVE  PendExclusion'
  <2> USE <1>AccountantPend
  <2>1. CASE PayablePaymentSetup
    <3>1. inbox # <<>> /\ inbox' = Tail(inbox) /\ pendScan' = pendScan
      BY <2>1 DEF PayablePaymentSetup, Received
    <3>2. PICK s \in Slots : \E next : next.kind # "receipts" /\ task' = [task EXCEPT ![s] = next]
      <4>1. \A a, g, c : [kind |-> "nonce", accounts |-> a, gas |-> g, ctx |-> c].kind # "receipts"
        BY Zenon
      <4> QED
        BY Zenon, <2>1, <4>1 DEF PayablePaymentSetup
    <3> QED
      BY ZenonT(40), <3>1, <3>2, <1>PendFuturesKept, <1>PendServed
  <2>2. CASE NewPendingPayableFingerprints
    <3>1. inbox # <<>> /\ inbox' = Tail(inbox) /\ pendScan' = pendScan /\ task' = task
      BY Zenon, <2>2 DEF NewPendingPayableFingerprints, Received
    <3> QED
      BY Zenon, <3>1, <1>PendServed DEF PendFutures, Runs, Busy
  <2>3. CASE SentPayables
    <3>1. inbox # <<>>
      BY Zenon, <2>3 DEF SentPayables, Received
    <3>2. CASE inbox' = Tail(inbox) /\ UNCHANGED <<node, pendScan, task>>
      BY <3>1, <3>2, <1>PendServed DEF PendFutures, Runs, Busy
    <3>3. CASE Stop("panicked")
      BY Zenon, <3>3, <1>PendStopped
    <3> QED
      BY ZenonT(40), <2>3, <3>2, <3>3 DEF SentPayables
  <2>4. CASE ScanError
    <3>1. inbox # <<>> /\ Head(inbox).type = "ScanError" /\ inbox' = Tail(inbox) /\ task' = task
      BY Zenon, <2>4 DEF ScanError, Received
    <3>2. pendScan' = (pendScan /\ Head(inbox).scan # "pendingPayables")
      BY <2>4 DEF ScanError, MarkAsEnded
    <3>3. pendScan' = pendScan \/ PendWord(Head(inbox))
      BY <3>1, <3>2 DEF PendWord, TypeOK
    <3> QED
      BY <3>1, <3>3, <1>PendServed DEF PendFutures, Runs, Busy
  <2>5. CASE TransactionReceipts
    <3>1. inbox # <<>> /\ PendWord(Head(inbox))
      BY Zenon, <2>5 DEF TransactionReceipts, Received, PendWord
    <3>2. CASE inbox' = Tail(inbox) /\ task' = task
      BY <3>1, <3>2, <1>PendServed DEF PendFutures, Runs, Busy
    <3>3. CASE Stop("panicked")
      BY Zenon, <3>3, <1>PendStopped
    <3> QED
      BY Zenon, <2>5, <3>2, <3>3 DEF TransactionReceipts
  <2> QED
    BY Zenon, <2>1, <2>2, <2>3, <2>4, <2>5 DEF Accountant

<1> SUFFICES ASSUME CardinalityFacts, BatchesDoNotFail, TypeOK, PendExclusion,
                    [Next]_vars
             PROVE  PendExclusion'
  OBVIOUS
<1>1. ASSUME UNCHANGED memory PROVE PendExclusion'
  BY <1>1, <1>PendKept DEF memory, PendFutures, Runs, Busy
<1>2. ASSUME NEW ctx \in Skeletons, ScanForPayables(ctx)
      PROVE  PendExclusion'
  <2>1. CASE UNCHANGED memory
    BY Zenon, <1>1, <2>1
  <2>2. ASSUME NEW s \in Slots, NEW next, next.kind # "receipts", UNCHANGED <<pendScan, inbox>>,
               task' = [task EXCEPT ![s] = next]
        PROVE  PendExclusion'
    BY Zenon, <2>2, <1>PendFuturesKept, <1>PendKept
  <2>3. \A a : [kind |-> "agent", ctx |-> ctx, accounts |-> a].kind # "receipts"
    BY Zenon
  <2> QED
    BY Zenon, <1>2, <2>1, <2>2, <2>3 DEF ScanForPayables
<1>3. ASSUME NEW ctx \in Skeletons, ScanForPendingPayables(ctx)
      PROVE  PendExclusion'
  <2>1. CASE UNCHANGED memory
    BY Zenon, <1>1, <2>1
  <2>2. ASSUME ~pendScan, pendScan' = TRUE, inbox' = inbox,
               NEW s \in Slots, NEW next, task' = [task EXCEPT ![s] = next]
        PROVE  PendExclusion'
    <3>1. PendFutures = {} /\ PendWords(inbox') = {}
      BY Zenon, <2>2 DEF PendExclusion
    <3>2. \A t \in PendFutures' : t = s
      BY <2>2, <3>1 DEF PendFutures, Runs, Busy, TypeOK
    <3> QED
      BY <2>2, <3>1, <3>2 DEF PendExclusion
  <2> QED
    BY ZenonT(40), <1>3, <2>1, <2>2 DEF ScanForPendingPayables
<1>4. CASE Kill
  BY SMTT(30), <1>4, <1>PendStopped DEF Kill
<1>5. ASSUME \/ \E w \in Wallets : MoreMoneyPayable(w) \/ DebtAges(w)
             \/ UpdateWallets \/ \E tx \in mempool : Mine(tx)
             \/ Restart \/ UNCHANGED vars
      PROVE  UNCHANGED memory
  BY Zenon, <1>5 DEF MoreMoneyPayable, DebtAges, UpdateWallets, Mine, Restart, vars
<1> QED
  BY <1>1, <1>2, <1>3, <1>4, <1>5, <1>BridgePend, <1>AccountantPend DEF Next

-----------------------------------------------------------------------------
(* What the steps do to the books, the futures and the mailbox, unless the chain refuses *)
(* payments                                                                               *)

\* The futures that belong to no payable scan.
Others == {k \in Running : k.kind \notin PayKinds}

BooksKept == UNCHANGED <<pending, fingerprints, settled, mempool, succeeded, failed, node>>

LEMMA RunningTyped ==
  ASSUME TypeOK
  PROVE  /\ Running \subseteq Task /\ Idle \notin Running
         /\ \A k \in Others : k.kind = "receipts"
<1>1. Running \subseteq Task /\ Idle \notin Running
  BY Zenon DEF TypeOK, Running, Busy
<1>2. \A k \in Task : k.kind \in PayKinds \/ k.kind = "receipts"
  BY Zenon DEF Task, PayKinds
<1> QED
  BY <1>1, <1>2 DEF Others

LEMMA MailTyped ==
  ASSUME TypeOK
  PROVE  Mail \subseteq Msg
BY DEF TypeOK, Mail

\* A future of a payable scan moves on.
LEMMA PayMove ==
  ASSUME TypeOK, ScanExclusion, NEW s \in PayFutures, NEW next,
         next = Idle \/ next.kind \in PayKinds, task' = [task EXCEPT ![s] = next]
  PROVE  /\ Running = Others \cup {task[s]}
         /\ Running' = Others \cup ({next} \ {Idle})
         /\ \A m \in Mail : ~Word(m)
<1>1. s \in Slots /\ Busy(s) /\ task[s].kind \in PayKinds /\ task[s] \in Running
  BY Zenon DEF PayFutures, Running
<1>2. /\ \A k \in Running' : k = next \/ (k \in Running /\ k.kind \notin PayKinds)
      /\ \A k \in Running : k = task[s] \/ k.kind \notin PayKinds
      /\ \A m \in Mail : ~Word(m)
  BY Zenon, PayStep
<1>3. \A k \in Running : k \in Running' \/ k = task[s]
  BY ZenonT(40), <1>1, SlotFilled
<1>4. next # Idle => next \in Running'
  BY <1>1 DEF Running, Busy, TypeOK
<1>5. Idle \notin Running'
  BY Zenon DEF Running, Busy
<1>6. Running = Others \cup {task[s]}
  BY <1>1, <1>2 DEF Others
<1>7. Running' \subseteq Others \cup ({next} \ {Idle})
  BY <1>2, <1>5 DEF Others
<1>8. Others \subseteq Running'
  BY <1>1, <1>3 DEF Others
<1> QED
  BY Zenon, <1>2, <1>4, <1>6, <1>7, <1>8

\* A future begins in a free slot.
LEMMA SlotTaken ==
  ASSUME TypeOK, NEW s \in Slots, FreeSlot(s), NEW next \in Task, task' = [task EXCEPT ![s] = next]
  PROVE  Running' = Running \cup {next}
<1>1. task'[s] = next /\ ~Busy(s) /\ \A t \in Slots : t # s => task'[t] = task[t]
  BY Zenon DEF TypeOK, FreeSlot
<1>2. next # Idle
  BY Zenon, IdleAssumption
<1> QED
  BY <1>1, <1>2 DEF Running, Busy

\* Nothing changes but the debts, what the UI asked for, and where on the chain a payment is.
LEMMA CalmEffect ==
  ASSUME TypeOK,
         \/ \E w \in Wallets : MoreMoneyPayable(w) \/ DebtAges(w)
         \/ UpdateWallets \/ \E tx \in mempool : Mine(tx)
         \/ Restart \/ UNCHANGED vars
  PROVE  /\ UNCHANGED <<pending, fingerprints, settled, task, inbox>>
         /\ Running' = Running /\ Mail' = Mail /\ OnChain' = OnChain
         /\ succeeded \subseteq succeeded' /\ mempool' \cup succeeded' \subseteq mempool \cup succeeded
         /\ node' = node \/ Restart
<1>1. UNCHANGED <<pending, fingerprints, settled, task, inbox>> /\ (node' = node \/ Restart)
  BY Zenon DEF MoreMoneyPayable, DebtAges, UpdateWallets, Mine, Restart, vars, db, memory, history
<1>2. Running' = Running /\ Mail' = Mail
  BY <1>1 DEF Running, Busy, Mail
<1>3. UNCHANGED <<mempool, succeeded, failed>> \/ \E tx \in mempool : Mine(tx)
  BY ZenonT(40) DEF MoreMoneyPayable, DebtAges, UpdateWallets, Restart, vars, chain
<1>4. ASSUME NEW tx \in mempool, Mine(tx)
      PROVE  /\ OnChain' = OnChain
             /\ succeeded \subseteq succeeded' /\ mempool' \cup succeeded' \subseteq mempool \cup succeeded
  BY Zenon, <1>4 DEF Mine, OnChain
<1>5. /\ OnChain' = OnChain
      /\ succeeded \subseteq succeeded' /\ mempool' \cup succeeded' \subseteq mempool \cup succeeded
  BY <1>3, <1>4 DEF OnChain
<1> QED
  BY SMTT(30), <1>1, <1>2, <1>5

LEMMA PayScanEffect ==
  ASSUME TypeOK, NEW ctx \in Skeletons, ScanForPayables(ctx)
  PROVE  /\ BooksKept /\ inbox' = inbox /\ Mail' = Mail /\ node = "up"
         /\ \/ Running' = Running /\ task' = task
            \/ /\ ~payScan
               /\ \E k \in Task : /\ Running' = Running \cup {k} /\ k.kind = "agent"
                                  /\ k.accounts = {[wallet |-> w, amount |-> balance[w]] : w \in Qualified}
<1>1. UNCHANGED <<db, chain, node, setup, answered, history, inbox>> /\ node = "up"
  BY Zenon DEF ScanForPayables, memory
<1>2. BooksKept /\ inbox' = inbox
  BY Zenon, <1>1 DEF BooksKept, db, chain, history
<1>3. Mail' = Mail
  BY Zenon, <1>2 DEF Mail
<1> DEFINE k == [kind |-> "agent", ctx |-> ctx,
                 accounts |-> {[wallet |-> w, amount |-> balance[w]] : w \in Qualified}]
<1>4. CASE UNCHANGED memory
  <2>1. task' = task /\ Running' = Running
    BY Zenon, <1>4 DEF memory, Running, Busy
  <2> QED
    BY ZenonT(40), <1>1, <1>2, <1>3, <2>1
<1>5. CASE /\ PayableScanMayBegin
           /\ \E s \in Slots : FreeSlot(s) /\ task' = [task EXCEPT ![s] = k]
  <2>1. PICK s \in Slots : FreeSlot(s) /\ task' = [task EXCEPT ![s] = k]
    BY Zenon, <1>5
  <2>2. task'[s] = k /\ task' \in [Slots -> Task \cup {Idle}]
    <3>1. TypeOK'
      BY ScansTyped
    <3>2. task'[s] = k
      <4> HIDE DEF k
      <4> QED BY <2>1 DEF TypeOK
    <3> QED
      BY ZenonT(40), <3>1, <3>2 DEF TypeOK
  <2>3. k.kind = "agent" /\ k.accounts = {[wallet |-> w, amount |-> balance[w]] : w \in Qualified}
    BY Zenon
  <2>4. ~payScan
    BY Zenon, <1>5 DEF PayableScanMayBegin
  <2>5. k # Idle => k \in Task
    <3> HIDE DEF k
    <3> QED BY Zenon, <2>2
  <2> HIDE DEF k
  <2>6. CASE k \in Task
    BY ZenonT(40), <1>1, <1>2, <1>3, <2>1, <2>3, <2>4, <2>6, SlotTaken
  <2>7. CASE k = Idle
    <3>1. task' = task
      BY <2>1, <2>7 DEF TypeOK, FreeSlot, Busy
    <3>2. Running' = Running
      BY <3>1 DEF Running, Busy
    <3> QED
      BY ZenonT(40), <1>1, <1>2, <1>3, <3>1, <3>2
  <2> QED
    BY <2>5, <2>6, <2>7
<1> QED
  BY ZenonT(40), <1>4, <1>5 DEF ScanForPayables

LEMMA PendScanEffect ==
  ASSUME TypeOK, NEW ctx \in Skeletons, ScanForPendingPayables(ctx)
  PROVE  /\ BooksKept /\ inbox' = inbox /\ Mail' = Mail /\ node = "up"
         /\ \/ Running' = Running
            \/ \E k \in Task : Running' = Running \cup {k} /\ k.kind = "receipts" /\ k.snapshot \subseteq fingerprints
<1>1. UNCHANGED <<db, chain, node, setup, answered, history, inbox>> /\ node = "up"
  BY DEF ScanForPendingPayables, memory
<1>2. BooksKept /\ inbox' = inbox
  BY Zenon, <1>1 DEF BooksKept, db, chain, history
<1>3. Mail' = Mail
  BY Zenon, <1>2 DEF Mail
<1> DEFINE k == [kind |-> "receipts", snapshot |-> Errorless, ctx |-> ctx]
<1>4. k \in Task /\ k.kind = "receipts" /\ k.snapshot \subseteq fingerprints
  <2>1. Errorless \in Batch(Fingerprint) /\ Errorless \subseteq fingerprints
    BY BatchSubset DEF Errorless, TypeOK
  <2> QED
    BY <2>1 DEF Task
<1>5. CASE UNCHANGED memory
  <2>1. Running' = Running
    BY Zenon, <1>5 DEF memory, Running, Busy
  <2> QED
    BY ZenonT(40), <1>1, <1>2, <1>3, <2>1
<1>6. CASE \E s \in Slots : FreeSlot(s) /\ task' = [task EXCEPT ![s] = k]
  <2> HIDE DEF k
  <2> QED
    BY ZenonT(40), <1>1, <1>2, <1>3, <1>4, <1>6, SlotTaken
<1> QED
  BY ZenonT(40), <1>5, <1>6 DEF ScanForPendingPayables

\* What a step of a future leaves alone.
LEMMA StepKeepsBooks ==
  ASSUME NEW s, NEW next, NEW msgs, Step(s, next, msgs)
  PROVE  /\ UNCHANGED <<pending, fingerprints, settled, node, payScan, pendScan>>
         /\ UNCHANGED chain => BooksKept
         /\ task' = [task EXCEPT ![s] = next] /\ inbox' = inbox \o msgs
<1>1. UNCHANGED <<pending, fingerprints, settled, node, payScan, pendScan>>
  BY Zenon DEF Step, db, history
<1>2. UNCHANGED chain => BooksKept
  BY Zenon, <1>1 DEF BooksKept, chain
<1> QED
  BY <1>1, <1>2 DEF Step

LEMMA AgentEffect ==
  ASSUME TypeOK, ScanExclusion, NEW s \in Slots, BuildAgent(s)
  PROVE  /\ BooksKept /\ Running' = Others /\ \A m \in Mail : ~Word(m)
         /\ \E k \in Running, m \in Msg :
              /\ k.kind = "agent" /\ Mail' = Mail \cup {m} /\ inbox' = inbox \o <<m>>
              /\ \/ m.type = "Agent" /\ m.accounts = k.accounts
                 \/ m.type = "ScanError"
<1>1. s \in PayFutures /\ task[s].kind = "agent" /\ task[s] \in Running /\ UNCHANGED chain
  BY Zenon, AgentStep
<1>2. PICK m \in Msg : /\ Step(s, Idle, <<m>>)
                       /\ \/ m.type = "Agent" /\ m.accounts = task[s].accounts
                          \/ m.type = "ScanError" /\ m.scan = "payables"
  BY Zenon, AgentStep
<1>3. BooksKept /\ task' = [task EXCEPT ![s] = Idle] /\ inbox' = inbox \o <<m>>
  BY Zenon, <1>1, <1>2, StepKeepsBooks
<1>4. Running' = Others /\ \A n \in Mail : ~Word(n)
  BY ZenonT(40), <1>1, <1>3, PayMove
<1>5. Mail' = Mail \cup {m}
  BY Zenon, <1>2, MailAppended
<1> QED
  BY ZenonT(40), <1>1, <1>2, <1>3, <1>4, <1>5

LEMMA SignEffect ==
  ASSUME CardinalityFacts, TypeOK, BatchesDoNotFail, ScanExclusion, NEW s \in Slots, FetchNonceAndSign(s)
  PROVE  /\ BooksKept /\ \A m \in Mail : ~Word(m)
         /\ \E k \in Running, n \in Task, first \in Nonces, txs \in Batch(Tx) :
              /\ k.kind = "nonce" /\ k.accounts \in Batch(Account)
              /\ PendingNonce(first) /\ txs = SignedTxs(k.accounts, k.gas, first)
              /\ n.kind = "submit" /\ n.txs = txs
              /\ Running = Others \cup {k} /\ Running' = Others \cup {n}
              /\ Mail' = Mail \cup {SeedsMsg(txs)} /\ inbox' = inbox \o <<SeedsMsg(txs)>>
              /\ SeedsMsg(txs) \in Msg
<1>1. s \in PayFutures /\ task[s].kind = "nonce" /\ task[s] \in Running /\ UNCHANGED chain
  BY Zenon, SignStep
<1>2. PICK first \in Nonces, txs \in Batch(Tx) :
        /\ PendingNonce(first) /\ txs = SignedTxs(task[s].accounts, task[s].gas, first)
        /\ SeedsMsg(txs) \in Msg
        /\ Step(s, [kind |-> "submit", txs |-> txs, ctx |-> task[s].ctx], <<SeedsMsg(txs)>>)
  BY ZenonT(40), SignStep
<1> DEFINE n == [kind |-> "submit", txs |-> txs, ctx |-> task[s].ctx]
<1>3. n.kind = "submit" /\ n.txs = txs /\ n.kind \in PayKinds
  BY Zenon DEF PayKinds
<1>4. task[s].accounts \in Batch(Account) /\ task[s].ctx \in Skeletons
  <2>1. Busy(s)
    BY Zenon, <1>1 DEF PayFutures
  <2> QED
    BY Zenon, <1>1, <2>1, TaskFields
<1>5. n \in Task /\ n # Idle
  BY Zenon, <1>2, <1>4, SubmitTask
<1> HIDE DEF n
<1>6. Step(s, n, <<SeedsMsg(txs)>>)
  BY Zenon, <1>2 DEF n
<1>7. BooksKept /\ task' = [task EXCEPT ![s] = n] /\ inbox' = inbox \o <<SeedsMsg(txs)>>
  BY Zenon, <1>1, <1>6, StepKeepsBooks
<1>8. Running = Others \cup {task[s]} /\ Running' = Others \cup {n} /\ \A m \in Mail : ~Word(m)
  BY ZenonT(40), <1>1, <1>3, <1>5, <1>7, PayMove
<1>9. Mail' = Mail \cup {SeedsMsg(txs)}
  BY Zenon, <1>2, <1>6, MailAppended
<1> QED
  BY ZenonT(40), <1>1, <1>2, <1>3, <1>4, <1>5, <1>7, <1>8, <1>9

LEMMA SubmitEffect ==
  ASSUME TypeOK, RowidsAreStable, ScanExclusion, RowsInv, NEW s \in Slots, SubmitBatch(s)
  PROVE  /\ UNCHANGED <<pending, fingerprints, settled, node, succeeded, failed, inbox>>
         /\ Mail' = Mail /\ \A m \in Mail : ~Word(m)
         /\ \E k \in Running, n \in Task :
              /\ k.kind = "submit" /\ n.kind = "reply" /\ n.oks = k.txs /\ n.fails = {}
              /\ mempool' = mempool \cup k.txs
              /\ Running = Others \cup {k} /\ Running' = Others \cup {n}
<1>1. /\ s \in PayFutures /\ task[s].kind = "submit" /\ task[s] \in Running
      /\ mempool' = mempool \cup task[s].txs /\ UNCHANGED <<succeeded, failed>>
  BY ZenonT(40), SubmitStep
<1> DEFINE n == [kind |-> "reply", oks |-> task[s].txs, fails |-> {}, ctx |-> task[s].ctx]
<1>2. n.kind = "reply" /\ n.oks = task[s].txs /\ n.fails = {} /\ n.kind \in PayKinds
  BY Zenon DEF PayKinds
<1>3. task[s].txs \in Batch(Tx) /\ task[s].ctx \in Skeletons
  <2>1. Busy(s)
    BY Zenon, <1>1 DEF PayFutures
  <2> QED
    BY Zenon, <1>1, <2>1, TaskFields
<1>4. n \in Task /\ n # Idle
  BY Zenon, <1>3, ReplyTask
<1> HIDE DEF n
<1>5. Step(s, n, <<>>)
  BY Zenon, SubmitStep DEF n
<1>6. UNCHANGED <<pending, fingerprints, settled, node>> /\ task' = [task EXCEPT ![s] = n]
  BY Zenon, <1>5, StepKeepsBooks
<1>7. inbox' = inbox /\ Mail' = Mail
  BY ZenonT(40), <1>5, MailKept
<1>8. Running = Others \cup {task[s]} /\ Running' = Others \cup {n} /\ \A m \in Mail : ~Word(m)
  BY ZenonT(40), <1>1, <1>2, <1>4, <1>6, PayMove
<1> QED
  BY ZenonT(40), <1>1, <1>2, <1>4, <1>6, <1>7, <1>8

LEMMA ReplyEffect ==
  ASSUME TypeOK, BatchesDoNotFail, ScanExclusion, NEW s \in Slots, BatchReply(s)
  PROVE  /\ BooksKept /\ Running' = Others /\ \A m \in Mail : ~Word(m)
         /\ \E k \in Running, m \in Msg :
              /\ k.kind = "reply" /\ Running = Others \cup {k}
              /\ m.type = "Sent" /\ m.oks = k.oks /\ m.fails = k.fails
              /\ Mail' = Mail \cup {m} /\ inbox' = inbox \o <<m>>
<1>1. s \in PayFutures /\ task[s].kind = "reply" /\ task[s] \in Running /\ UNCHANGED chain
  BY Zenon, ReplyStep
<1>2. PICK m \in Msg : m = SentMsg(task[s].oks, task[s].fails, task[s].ctx) /\ Step(s, Idle, <<m>>)
  BY Zenon, ReplyStep
<1>3. m.type = "Sent" /\ m.oks = task[s].oks /\ m.fails = task[s].fails
  BY Zenon, <1>2 DEF SentMsg
<1>4. BooksKept /\ task' = [task EXCEPT ![s] = Idle] /\ inbox' = inbox \o <<m>>
  BY Zenon, <1>1, <1>2, StepKeepsBooks
<1>5. Running = Others \cup {task[s]} /\ Running' = Others /\ \A n \in Mail : ~Word(n)
  BY ZenonT(40), <1>1, <1>4, PayMove
<1>6. Mail' = Mail \cup {m}
  BY Zenon, <1>2, MailAppended
<1> QED
  BY Zenon, <1>1, <1>3, <1>4, <1>5, <1>6

LEMMA AskEffect ==
  ASSUME TypeOK, NEW s \in Slots, FetchReceipts(s)
  PROVE  /\ BooksKept /\ Running' \subseteq Running
         /\ \A k \in Running : k.kind \in PayKinds => k \in Running'
         /\ \E k \in Running, m \in Msg :
              /\ k.kind = "receipts" /\ Mail' = Mail \cup {m} /\ inbox' = inbox \o <<m>>
              /\ m.type \in {"Receipts", "ScanError"}
              /\ m.type = "Receipts" =>
                   /\ m.confirmed \cup m.failures \cup m.still \subseteq k.snapshot
                   /\ \A f \in m.confirmed : f.tx \in succeeded
<1>1. s \in PendFutures /\ task[s].kind = "receipts" /\ task[s] \in Running /\ UNCHANGED chain
  BY Zenon, ReceiptsStep
<1>2. PICK m \in Msg : /\ Step(s, Idle, <<m>>)
                       /\ m.type \in {"Receipts", "ScanError"}
                       /\ m.type = "Receipts" =>
                            /\ m.confirmed \cup m.failures \cup m.still \subseteq task[s].snapshot
                            /\ \A f \in m.confirmed : f.tx \in succeeded
  BY Zenon, ReceiptsStep
<1>3. BooksKept /\ task' = [task EXCEPT ![s] = Idle] /\ inbox' = inbox \o <<m>>
  BY ZenonT(40), <1>1, <1>2, StepKeepsBooks
<1>4. Running' \subseteq Running /\ \A k \in Running : k \in Running' \/ k = task[s]
  <2>1. Running' \subseteq Running \cup ({Idle} \ {Idle})
    BY Zenon, <1>3, SlotFilled
  <2>2. \A k \in Running : k \in Running' \/ (Busy(s) /\ k = task[s])
    BY ZenonT(40), <1>3, SlotFilled
  <2> QED
    BY Zenon, <2>1, <2>2
<1>5. \A k \in Running : k.kind \in PayKinds => k \in Running'
  BY Zenon, <1>1, <1>4 DEF PayKinds
<1>6. Mail' = Mail \cup {m}
  BY Zenon, <1>2, MailAppended
<1> QED
  BY ZenonT(40), <1>1, <1>2, <1>3, <1>4, <1>5, <1>6

LEMMA SetupEffect ==
  ASSUME TypeOK, ScanExclusion, PayablePaymentSetup
  PROVE  /\ BooksKept /\ inbox # <<>> /\ inbox' = Tail(inbox) /\ Mail' \subseteq Mail
         /\ Running = Others /\ \A m \in Mail' : ~Word(m)
         /\ \E h \in Mail, k \in Task :
              /\ h = Head(inbox) /\ h.type = "Agent" /\ Mail \subseteq Mail' \cup {h}
              /\ k.kind = "nonce" /\ k.accounts = h.accounts /\ Running' = Running \cup {k}
<1>1. inbox # <<>> /\ Head(inbox).type = "Agent" /\ inbox' = Tail(inbox)
  BY Zenon DEF PayablePaymentSetup, Received
<1>2. BooksKept
  BY Zenon DEF PayablePaymentSetup, BooksKept, db, chain, history
<1>3. Mail' \subseteq Mail /\ Head(inbox) \in Mail /\ Mail \subseteq Mail' \cup {Head(inbox)}
  BY Zenon, <1>1, MailServed
<1>4. Running = Others /\ \A m \in Mail' : ~Word(m)
  <2>1. Word(Head(inbox))
    BY Zenon, <1>1 DEF Word
  <2>2. (\A k \in Running : k.kind \notin PayKinds) /\ \A m \in Mail' : ~Word(m)
    BY ZenonT(40), <1>1, <2>1, LastWord
  <2> QED
    BY Zenon, <2>2 DEF Others
<1> DEFINE k == [kind |-> "nonce", accounts |-> Head(inbox).accounts, gas |-> Head(inbox).gas,
                 ctx |-> Head(inbox).ctx]
<1>5. k \in Task /\ k.kind = "nonce" /\ k.accounts = Head(inbox).accounts
  <2>1. /\ Head(inbox).accounts \in Batch(Account) /\ Head(inbox).gas \in GasPrices
        /\ Head(inbox).ctx \in Skeletons
    BY Zenon, <1>1, HeadFields
  <2> QED
    BY Zenon, <2>1 DEF Task
<1>6. \E s \in Slots : FreeSlot(s) /\ task' = [task EXCEPT ![s] = k]
  BY Zenon DEF PayablePaymentSetup
<1> HIDE DEF k
<1>7. Running' = Running \cup {k}
  BY ZenonT(40), <1>5, <1>6, SlotTaken
<1> QED
  BY ZenonT(40), <1>1, <1>2, <1>3, <1>4, <1>5, <1>7

LEMMA SeedsEffect ==
  ASSUME TypeOK, NewPendingPayableFingerprints
  PROVE  /\ UNCHANGED <<pending, settled, mempool, succeeded, failed, node>>
         /\ inbox # <<>> /\ inbox' = Tail(inbox) /\ Mail' \subseteq Mail /\ Running' = Running
         /\ \E h \in Mail :
              /\ h = Head(inbox) /\ h.type = "Seeds" /\ h.txs \in Batch(Tx) /\ Mail \subseteq Mail' \cup {h}
              /\ \/ /\ h.txs \cap KnownHashes = {}
                    /\ \E top \in Nat : MaxRowid(top) /\ fingerprints' = fingerprints \cup NewFingerprints(h.txs, top)
                 \/ /\ h.txs \cap KnownHashes # {} \/ "InsertError" \in world.faults
                    /\ fingerprints' = fingerprints
<1>1. inbox # <<>> /\ Head(inbox).type = "Seeds" /\ inbox' = Tail(inbox)
  BY Zenon DEF NewPendingPayableFingerprints, Received
<1>2. UNCHANGED <<pending, settled, mempool, succeeded, failed, node, task>>
  BY Zenon DEF NewPendingPayableFingerprints, chain, history
<1>3. Running' = Running
  BY Zenon, <1>2 DEF Running, Busy
<1>4. Mail' \subseteq Mail /\ Head(inbox) \in Mail /\ Mail \subseteq Mail' \cup {Head(inbox)}
  BY ZenonT(40), <1>1, MailServed
<1>5. Head(inbox).txs \in Batch(Tx)
  BY ZenonT(40), <1>1, HeadFields
<1>6. Rowids \cup {NoRow} \subseteq Nat
  BY DEF TypeOK, Rowids, NoRow, Fingerprint, Batch
<1>7. \/ /\ Head(inbox).txs \cap KnownHashes = {}
         /\ \E top \in Nat : MaxRowid(top) /\ fingerprints' = fingerprints \cup NewFingerprints(Head(inbox).txs, top)
      \/ /\ Head(inbox).txs \cap KnownHashes # {} \/ "InsertError" \in world.faults
         /\ fingerprints' = fingerprints
  BY Zenon, <1>6 DEF NewPendingPayableFingerprints
<1> QED
  BY ZenonT(40), <1>1, <1>2, <1>3, <1>4, <1>5, <1>7

LEMMA SentEffect ==
  ASSUME TypeOK, ScanExclusion, RowsInv, SentPayables
  PROVE  /\ UNCHANGED <<fingerprints, settled, mempool, succeeded, failed>>
         /\ Mail' \subseteq Mail /\ Running' \subseteq Running /\ Running = Others
         /\ \E h \in Mail :
              /\ h = Head(inbox) /\ h.type = "Sent" /\ OneEach(h.oks) /\ h.oks \in Batch(Tx)
              /\ MarkPending(h.oks) /\ inbox # <<>>
              /\ \/ /\ Markable(h.oks) = FingerprintsOf(h.oks) /\ h.oks \subseteq KnownHashes
                    /\ inbox' = Tail(inbox) /\ node' = node /\ Running' = Running
                    /\ Mail \subseteq Mail' \cup {h} /\ \A m \in Mail' : ~Word(m)
                 \/ node' = "panicked" /\ Running' = {} /\ Mail' = {} /\ inbox' = <<>>
<1> DEFINE h == Head(inbox)
<1>1. /\ inbox # <<>> /\ h \in Mail /\ h.type = "Sent" /\ OneEach(h.oks)
      /\ MarkPending(h.oks) /\ UNCHANGED <<fingerprints, chain, settled, world>>
  BY Zenon, SentStep
<1>2. h.oks \in Batch(Tx)
  BY Zenon, <1>1, HeadFields
<1>3. UNCHANGED <<fingerprints, settled, mempool, succeeded, failed>>
  BY Zenon, <1>1 DEF chain
<1>4. Word(h)
  BY Zenon, <1>1 DEF Word
<1>5. Running = Others
  <2>1. \A k \in Running : k.kind \notin PayKinds
    <3>1. 1 \in PayWords(inbox)
      BY Zenon, <1>1, <1>4, TailWords DEF TypeOK
    <3>2. PayFutures = {}
      BY Zenon, <3>1 DEF ScanExclusion
    <3> QED
      BY Zenon, <3>2 DEF Running, PayFutures
  <2> QED
    BY Zenon, <2>1 DEF Others
<1>6. CASE /\ Markable(h.oks) = FingerprintsOf(h.oks) /\ h.oks \subseteq KnownHashes
           /\ inbox' = Tail(inbox) /\ UNCHANGED <<node, pendScan, task>>
  <2>1. Running' = Running
    BY Zenon, <1>6 DEF Running, Busy
  <2>2. Mail' \subseteq Mail /\ Mail \subseteq Mail' \cup {h}
    BY Zenon, <1>1, <1>6, MailServed
  <2>3. \A m \in Mail' : ~Word(m)
    BY ZenonT(40), <1>1, <1>4, <1>6, LastWord
  <2>4. node' = node
    BY Zenon, <1>6
  <2> HIDE DEF h
  <2> QED
    BY ZenonT(40), <1>1, <1>2, <1>3, <1>5, <1>6, <2>1, <2>2, <2>3, <2>4 DEF h
<1>7. CASE Stop("panicked")
  <2>1. Mail' = {} /\ Running' = {}
    BY Zenon, <1>7, MailStopped
  <2>2. node' = "panicked" /\ inbox' = <<>>
    BY Zenon, <1>7 DEF Stop
  <2>3. Mail' \subseteq Mail /\ Running' \subseteq Running
    BY Zenon, <2>1
  <2> QED
    BY ZenonT(40), <1>1, <1>2, <1>3, <1>5, <2>1, <2>2, <2>3
<1> QED
  BY Zenon, <1>6, <1>7, SentStep

LEMMA ErrorEffect ==
  ASSUME TypeOK, ScanError
  PROVE  /\ BooksKept /\ inbox # <<>> /\ inbox' = Tail(inbox) /\ Mail' \subseteq Mail
         /\ Running' = Running
         /\ \E h \in Mail : h = Head(inbox) /\ h.type = "ScanError" /\ Mail \subseteq Mail' \cup {h}
<1>1. inbox # <<>> /\ Head(inbox).type = "ScanError" /\ inbox' = Tail(inbox)
  BY Zenon DEF ScanError, Received
<1>2. BooksKept /\ task' = task
  BY Zenon DEF ScanError, BooksKept, db, chain, history
<1>3. Running' = Running
  BY Zenon, <1>2 DEF Running, Busy
<1>4. Mail' \subseteq Mail /\ Head(inbox) \in Mail /\ Mail \subseteq Mail' \cup {Head(inbox)}
  BY Zenon, <1>1, MailServed
<1> QED
  BY ZenonT(40), <1>1, <1>2, <1>3, <1>4

LEMMA HandledEffect ==
  ASSUME TypeOK, PendExclusion, RowsInv, TransactionReceipts
  PROVE  /\ UNCHANGED <<mempool, succeeded, failed>> /\ Mail' \subseteq Mail /\ Running' \subseteq Running
         /\ \A k \in Running : k.kind # "receipts"
         /\ \A m \in Mail' : m.type # "Receipts"
         /\ \E h \in Mail :
              /\ h = Head(inbox) /\ h.type = "Receipts" /\ h.confirmed \subseteq fingerprints
              /\ inbox # <<>>
              /\ \/ /\ \A f \in h.confirmed : MatchesOne(f)
                    /\ TransactionsConfirmed(h.confirmed)
                    /\ fingerprints' = {Flag(f, Rows(h.failures)) :
                                          f \in {g \in fingerprints : g.rowid \notin Rows(h.confirmed)}}
                    /\ inbox' = Tail(inbox) /\ node' = node /\ Running' = Running
                    /\ Mail \subseteq Mail' \cup {h}
                 \/ /\ \E f \in h.confirmed : ~MatchesOne(f)
                    /\ \E fs \in SUBSET h.confirmed : TransactionsConfirmed(fs)
                    /\ fingerprints' = fingerprints
                    /\ node' = "panicked" /\ Running' = {} /\ Mail' = {} /\ inbox' = <<>>
<1> DEFINE h == Head(inbox)
<1>1. /\ inbox # <<>> /\ h \in Mail /\ h.type = "Receipts" /\ h.confirmed \subseteq fingerprints
      /\ UNCHANGED <<chain, world>>
  BY Zenon, ReceiptsHandled
<1>2. UNCHANGED <<mempool, succeeded, failed>>
  BY Zenon, <1>1 DEF chain
<1>3. PendWord(h) /\ inbox \in Seq(Msg)
  BY Zenon, <1>1 DEF PendWord, TypeOK
<1>4. \A k \in Running : k.kind # "receipts"
  <2>1. 1 \in PendWords(inbox)
    BY <1>1, <1>3 DEF PendWords
  <2>2. PendFutures = {}
    BY Zenon, <2>1 DEF PendExclusion
  <2> QED
    BY Zenon, <2>2 DEF Running, PendFutures, Runs
<1>5. CASE /\ \A f \in h.confirmed : MatchesOne(f)
           /\ TransactionsConfirmed(h.confirmed)
           /\ fingerprints' = {Flag(f, Rows(h.failures)) :
                                 f \in {g \in fingerprints : g.rowid \notin Rows(h.confirmed)}}
           /\ inbox' = Tail(inbox) /\ pendScan' = FALSE /\ UNCHANGED <<node, payScan, task>>
  <2>1. Running' = Running /\ node' = node /\ inbox' = Tail(inbox)
    BY Zenon, <1>5 DEF Running, Busy
  <2>2. Mail' \subseteq Mail /\ Mail \subseteq Mail' \cup {h}
    BY Zenon, <1>1, <2>1, MailServed
  <2>3. PendWords(inbox') = {}
    BY ZenonT(40), <1>1, <1>3, <2>1, TailPend
  <2>4. \A m \in Mail' : m.type # "Receipts"
    BY Zenon, <2>3 DEF Mail, PendWords, PendWord
  <2>5. Running' \subseteq Running
    BY Zenon, <2>1
  <2> HIDE DEF h
  <2> QED
    BY ZenonT(40), <1>1, <1>2, <1>4, <1>5, <2>1, <2>2, <2>4, <2>5 DEF h
<1>6. CASE /\ \E f \in h.confirmed : ~MatchesOne(f)
           /\ \E fs \in SUBSET h.confirmed : TransactionsConfirmed(fs)
           /\ fingerprints' = fingerprints
           /\ Stop("panicked")
  <2>1. Mail' = {} /\ Running' = {}
    BY ZenonT(40), <1>6, MailStopped
  <2>2. node' = "panicked" /\ inbox' = <<>>
    BY Zenon, <1>6 DEF Stop
  <2>3. Mail' \subseteq Mail /\ Running' \subseteq Running /\ \A m \in Mail' : m.type # "Receipts"
    BY Zenon, <2>1
  <2> QED
    BY ZenonT(40), <1>1, <1>2, <1>4, <1>6, <2>1, <2>2, <2>3
<1> QED
  BY ZenonT(40), <1>5, <1>6, ReceiptsHandled

LEMMA KillEffect ==
  ASSUME TypeOK, RowsInv, Kill
  PROVE  /\ UNCHANGED <<mempool, succeeded, failed>> /\ node' = "killed" /\ Running' = {} /\ Mail' = {}
         /\ \/ UNCHANGED <<pending, fingerprints, settled>>
            \/ /\ UNCHANGED <<fingerprints, settled>>
               /\ \E h \in Mail : h.type = "Sent" /\ MarkPending(h.oks)
            \/ \E fs \in SUBSET fingerprints :
                 /\ TransactionsConfirmed(fs)
                 /\ \/ fingerprints' = fingerprints
                    \/ fingerprints' = {f \in fingerprints : f.rowid \notin Rows(fs)}
<1>1. Stop("killed") /\ UNCHANGED <<chain, setup, ui, charged>> /\ "Kill" \in world.faults
  BY Zenon DEF Kill
<1>2. /\ UNCHANGED <<mempool, succeeded, failed>> /\ node' = "killed" /\ Running' = {} /\ Mail' = {}
  <2>1. Running' = {} /\ Mail' = {}
    BY ZenonT(40), <1>1, MailStopped
  <2> QED
    BY Zenon, <1>1, <2>1 DEF Stop, chain
<1>3. ASSUME NEW type, Received(type)
      PROVE  Head(inbox) \in Mail /\ Head(inbox).type = type
  <2>1. inbox \in Seq(Msg) /\ inbox # <<>> /\ Head(inbox).type = type
    BY Zenon, <1>3 DEF Received, TypeOK
  <2>2. 1 \in 1 .. Len(inbox) /\ Head(inbox) = inbox[1]
    BY <2>1
  <2> QED
    BY Zenon, <2>1, <2>2 DEF Mail
<1>4. CASE UNCHANGED <<db, settled>>
  <2>1. UNCHANGED <<pending, fingerprints, settled>>
    BY Zenon, <1>4 DEF db
  <2> QED
    BY Zenon, <1>2, <2>1
<1>5. CASE /\ Received("Sent") /\ MarkPending(Head(inbox).oks)
           /\ UNCHANGED <<balance, aged, fingerprints, settled>>
  <2>1. UNCHANGED <<fingerprints, settled>>
    BY Zenon, <1>5
  <2> QED
    BY ZenonT(40), <1>2, <1>3, <1>5, <2>1
<1>6. CASE Received("Receipts")
  <2>1. Head(inbox).confirmed \subseteq fingerprints
    <3>1. Head(inbox) \in Mail /\ Head(inbox).type = "Receipts"
      BY Zenon, <1>3, <1>6
    <3> QED
      BY Zenon, <3>1 DEF RowsInv, MsgIsSound
  <2>2. ASSUME NEW last, TransactionsConfirmed({f \in Attempted(Head(inbox).confirmed) : f.rowid <= last})
        PROVE  \E fs \in SUBSET fingerprints : TransactionsConfirmed(fs)
    <3>1. {f \in Attempted(Head(inbox).confirmed) : f.rowid <= last} \in SUBSET fingerprints
      BY Zenon, <2>1 DEF Attempted
    <3> QED
      BY ZenonT(40), <2>2, <3>1
  <2>3. CASE /\ \E last \in Rows(Head(inbox).confirmed) :
                  TransactionsConfirmed({f \in Attempted(Head(inbox).confirmed) : f.rowid <= last})
             /\ UNCHANGED fingerprints
    <3>1. fingerprints' = fingerprints
      BY Zenon, <2>3
    <3> QED
      BY ZenonT(40), <1>2, <2>2, <2>3, <3>1
  <2>4. CASE /\ TransactionsConfirmed(Head(inbox).confirmed)
             /\ fingerprints' = {f \in fingerprints : f.rowid \notin Rows(Head(inbox).confirmed)}
    <3>1. Head(inbox).confirmed \in SUBSET fingerprints
      BY Zenon, <2>1
    <3> QED
      BY ZenonT(40), <1>2, <2>4, <3>1
  <2>5. \/ UNCHANGED <<db, settled>>
        \/ Received("Sent") /\ MarkPending(Head(inbox).oks) /\ UNCHANGED <<balance, aged, fingerprints, settled>>
        \/ /\ \E last \in Rows(Head(inbox).confirmed) :
                TransactionsConfirmed({f \in Attempted(Head(inbox).confirmed) : f.rowid <= last})
           /\ UNCHANGED fingerprints
        \/ /\ TransactionsConfirmed(Head(inbox).confirmed)
           /\ fingerprints' = {f \in fingerprints : f.rowid \notin Rows(Head(inbox).confirmed)}
    BY Zenon DEF Kill
  <2> QED
    BY ZenonT(40), <1>4, <1>5, <2>3, <2>4, <2>5
<1> QED
  BY ZenonT(40), <1>4, <1>5, <1>6 DEF Kill

=============================================================================
