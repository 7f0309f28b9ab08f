-------------------------- MODULE ReceivablesProof --------------------------
(* Theorems about Receivables, for every set of debtors, bound and set of faults. *)
EXTENDS Receivables, FiniteSetTheorems, TLAPS

-----------------------------------------------------------------------------
(* Type correctness *)

\* The bounds of an environment.
LEMMA WorldFields ==
  ASSUME NEW w \in Worlds
  PROVE  /\ w.payments \subseteq Payments /\ w.ranges \subseteq Ranges
         /\ w.maxBlock \in Nat /\ w.maxCharge \in Nat /\ w.maxAsks \in Nat
BY ReceivablesAssumption DEF World

\* What a future holds follows from its kind.
LEMMA TaskFields ==
  ASSUME TypeOK, NEW s \in Slots, Busy(s)
  PROVE  /\ task[s].ctx \in Skeletons
         /\ task[s].kind \in {"head", "logs"} => task[s].start \in Markers
         /\ task[s].kind = "head" => task[s].range \in Ranges \cup {NoLimit}
         /\ task[s].kind = "logs" => task[s].first \in Markers /\ task[s].end \in Markers
BY DEF TypeOK, Busy, Task

\* What a message holds follows from its type.
LEMMA HeadFields ==
  ASSUME TypeOK, inbox # <<>>
  PROVE  /\ Head(inbox) \in Msg /\ Tail(inbox) \in Seq(Msg)
         /\ Head(inbox).ctx \in Skeletons
         /\ Head(inbox).type = "Received" =>
              /\ Head(inbox).txs \in SUBSET Transfer
              /\ Head(inbox).first \in Nat /\ Head(inbox).new \in Markers
<1>1. Head(inbox) \in Msg /\ Tail(inbox) \in Seq(Msg)
  BY DEF TypeOK
<1> QED
  BY <1>1 DEF Msg

\* The last block of a query is a block, or unknown.
LEMMA EndBlockTyped ==
  ASSUME NEW start \in Markers, NEW range \in Ranges \cup {NoLimit}, NEW h \in Markers
  PROVE  EndBlock(start, range, h) \in Markers
BY ReceivablesAssumption DEF EndBlock, Markers

\* The answers to the query for the head are blocks, or the error.
LEMMA HeadAnswersTyped ==
  ASSUME TypeOK, NEW start
  PROVE  HeadAnswers(start) \subseteq Markers /\ Views \subseteq Nat
BY DEF HeadAnswers, Views, Markers, TypeOK

LEMMA NewStartBlockTyped ==
  ASSUME NEW txs \in SUBSET Transfer, NEW start \in Markers, NEW end \in Markers
  PROVE  NewStartBlock(txs, start, end) \subseteq Markers
BY DEF NewStartBlock, Markers, Transfer, Highest

LEMMA CreditTyped ==
  ASSUME TypeOK, NEW txs \in SUBSET Transfer, Credit(txs)
  PROVE  balance' \in [Debtors -> Int] /\ aged' \subseteq Debtors /\ credited' \in [Payments -> Nat]
<1>1. ASSUME NEW d \in Debtors PROVE Cardinality(PaidBy(d, txs)) \in Nat
  <2>1. PaidBy(d, txs) \subseteq Payments
    BY DEF PaidBy
  <2> QED
    BY <2>1, FS_Subset, FS_CardinalityType, ReceivablesAssumption
<1> QED
  BY <1>1 DEF TypeOK, Credit

LEMMA AnswerTyped ==
  ASSUME TypeOK, NEW ctx \in Skeletons, Answer(ctx)
  PROVE  answered' \in [Contexts -> Nat]
<1>1. answered \in [Contexts -> Nat]
  BY DEF TypeOK
<1> QED
  BY <1>1 DEF Answer, Skeletons

LEMMA AskTyped ==
  ASSUME TypeOK, NEW ctx \in Skeletons, Ask(ctx)
  PROVE  asked' \in [Contexts -> Nat]
<1>1. asked \in [Contexts -> Nat]
  BY DEF TypeOK
<1>2. CASE ctx = NoUi /\ UNCHANGED asked
  BY <1>1, <1>2
<1>3. CASE ctx \in Contexts /\ asked' = [asked EXCEPT ![ctx] = @ + 1]
  BY <1>1, <1>3
<1> QED
  BY <1>2, <1>3 DEF Ask

\* A step of the bridge that makes a future idle and appends a message.
LEMMA AppendTyped ==
  ASSUME TypeOK, NEW m \in Msg
  PROVE  Append(inbox, m) \in Seq(Msg)
BY DEF TypeOK

LEMMA InitTyped == Init => TypeOK
<1> SUFFICES ASSUME Init PROVE TypeOK
  OBVIOUS
<1>1. head \in Nat
  BY ReceivablesAssumption DEF Init
<1>2. startBlock \in Markers /\ origin \in Markers
  BY <1>1 DEF Init, Markers
<1>3. inbox \in Seq(Msg) /\ task \in [Slots -> Task \cup {Idle}]
  BY DEF Init
<1>4. balance \in [Debtors -> Int] /\ charged \in [Debtors -> Nat] /\ credited \in [Payments -> Nat]
  BY DEF Init
<1>5. asked \in [Contexts -> Nat] /\ answered \in [Contexts -> Nat]
  BY DEF Init
<1>6. transfers \in SUBSET Transfer /\ scanning \in BOOLEAN
      /\ maxBlockCount \in Ranges \cup {NoLimit} /\ node \in {"up", "killed"}
      /\ world \in Worlds
  BY Zenon, WorldFields DEF Init
<1>7. rows \subseteq Debtors /\ aged \subseteq Debtors /\ banned \subseteq Debtors /\ banCache \subseteq Debtors
  BY DEF Init
<1> QED
  BY <1>1, <1>2, <1>3, <1>4, <1>5, <1>6, <1>7 DEF TypeOK

LEMMA BridgeTyped ==
  ASSUME TypeOK, NEW s \in Slots, Bridge(s)
  PROVE  TypeOK'
<1>1. CASE RetrieveTransactions(s)
  <2>1. [kind |-> "head", start |-> startBlock, range |-> maxBlockCount, ctx |-> task[s].ctx] \in Task
    BY <1>1, TaskFields DEF RetrieveTransactions, Runs, TypeOK, Task
  <2> QED
    BY <1>1, <2>1 DEF RetrieveTransactions, TypeOK, chain, config, ledger, bans, ui, history
<1>2. CASE HeadReply(s)
  <2>1. PICK h \in HeadAnswers(task[s].start) :
          task' = [task EXCEPT ![s] = [kind |-> "logs", start |-> task[s].start, ctx |-> task[s].ctx,
                                       first |-> FirstBlock(task[s].start, h),
                                       end |-> EndBlock(task[s].start, task[s].range, h)]]
    BY Zenon, <1>2 DEF HeadReply
  <2>2. task[s].start \in Markers /\ task[s].range \in Ranges \cup {NoLimit} /\ task[s].ctx \in Skeletons
    BY <1>2, TaskFields DEF HeadReply, Runs
  <2>3. h \in Markers
    BY HeadAnswersTyped
  <2>4. FirstBlock(task[s].start, h) \in Markers /\ EndBlock(task[s].start, task[s].range, h) \in Markers
    BY <2>2, <2>3, EndBlockTyped DEF FirstBlock
  <2>5. [kind |-> "logs", start |-> task[s].start, ctx |-> task[s].ctx,
         first |-> FirstBlock(task[s].start, h),
         end |-> EndBlock(task[s].start, task[s].range, h)] \in Task
    BY <2>2, <2>4 DEF Task
  <2> QED
    BY <1>2, <2>1, <2>5 DEF HeadReply, TypeOK, chain, config, ledger, bans, ui, history
<1>3. CASE LogsReply(s)
  <2>1. task[s].start \in Markers /\ task[s].first \in Markers /\ task[s].end \in Markers /\ task[s].ctx \in Skeletons
    BY <1>3, TaskFields DEF LogsReply, Runs
  <2>2. PICK view \in Views :
          LET first == IF task[s].first = Uninitialized THEN view ELSE task[s].first
              txs   == Logs(first, task[s].end, view)
          IN  \E new \in NewStartBlock(txs, task[s].start, task[s].end) :
                inbox' = Append(inbox, ReceivedMsg(txs, first, new, task[s].ctx))
    BY Zenon, <1>3 DEF LogsReply
  <2> DEFINE first == IF task[s].first = Uninitialized THEN view ELSE task[s].first
             txs   == Logs(first, task[s].end, view)
  <2>3. PICK new \in NewStartBlock(txs, task[s].start, task[s].end) :
          inbox' = Append(inbox, ReceivedMsg(txs, first, new, task[s].ctx))
    BY <2>2
  <2>4. first \in Nat
    BY <2>1, HeadAnswersTyped DEF Markers
  <2>5. txs \in SUBSET Transfer
    BY DEF Logs, TypeOK
  <2>6. new \in Markers
    BY <2>1, <2>5, NewStartBlockTyped
  <2> HIDE DEF first, txs
  <2>7. ReceivedMsg(txs, first, new, task[s].ctx) \in Msg
    BY <2>1, <2>4, <2>5, <2>6 DEF ReceivedMsg, Msg
  <2>8. inbox' \in Seq(Msg)
    BY <2>3, <2>7, AppendTyped
  <2> QED
    BY <1>3, <2>8 DEF LogsReply, TypeOK, chain, config, ledger, bans, ui, history
<1>4. CASE LogsFail(s)
  <2>1. ScanErrorMsg(task[s].ctx) \in Msg
    BY <1>4, TaskFields DEF LogsFail, Runs, ScanErrorMsg, Msg
  <2>2. inbox' \in Seq(Msg)
    BY <1>4, <2>1, AppendTyped DEF LogsFail
  <2> QED
    BY <1>4, <2>2, WorldFields DEF LogsFail, ExtractMaxBlockCount, TypeOK, chain, ledger, bans, ui, history
<1> QED
  BY <1>1, <1>2, <1>3, <1>4 DEF Bridge

LEMMA AccountantTyped ==
  ASSUME TypeOK, Accountant
  PROVE  TypeOK'
<1>1. CASE ReceivedPayments
  <2> DEFINE m == Head(inbox)
  <2>1. m.type = "Received" /\ inbox # <<>>
    BY <1>1 DEF ReceivedPayments, Received
  <2>2. m.txs \in SUBSET Transfer /\ m.first \in Nat /\ m.new \in Markers /\ m.ctx \in Skeletons
        /\ Tail(inbox) \in Seq(Msg)
    BY <2>1, HeadFields
  <2>3. answered' \in [Contexts -> Nat]
    BY <1>1, <2>2, AnswerTyped DEF ReceivedPayments
  <2>4. balance' \in [Debtors -> Int] /\ aged' \subseteq Debtors /\ credited' \in [Payments -> Nat]
    <3>1. CASE UNCHANGED <<startBlock, balance, aged, credited, origin>>
      BY <3>1 DEF TypeOK
    <3>2. CASE Credit(m.txs)
      BY <3>2, <2>2, CreditTyped
    <3> QED
      BY <1>1, <3>1, <3>2 DEF ReceivedPayments
  <2>5. startBlock' \in Markers /\ origin' \in Markers
    BY <1>1, <2>2 DEF ReceivedPayments, TypeOK, Markers
  <2> QED
    BY Zenon, <1>1, <2>2, <2>3, <2>4, <2>5
    DEF ReceivedPayments, MarkAsEnded, TypeOK, chain, bans
<1>2. CASE ScanError
  <2>1. Head(inbox).ctx \in Skeletons /\ Tail(inbox) \in Seq(Msg)
    BY <1>2, HeadFields DEF ScanError, Received
  <2>2. answered' \in [Contexts -> Nat]
    BY <1>2, <2>1, AnswerTyped DEF ScanError
  <2> QED
    BY Zenon, <1>2, <2>1, <2>2
    DEF ScanError, MarkAsEnded, TypeOK, chain, config, ledger, bans, history
<1> QED
  BY <1>1, <1>2 DEF Accountant

LEMMA BansTyped ==
  ASSUME TypeOK
  PROVE  TableWithBans \subseteq Debtors /\ CacheWithBans \subseteq Debtors
BY DEF TypeOK, TableWithBans, CacheWithBans, NewDelinquencies

LEMMA ScanTyped ==
  ASSUME TypeOK, NEW ctx \in Skeletons, ScanForReceivables(ctx)
  PROVE  TypeOK'
<1>1. asked' \in [Contexts -> Nat]
  BY AskTyped DEF ScanForReceivables
<1>2. CASE UNCHANGED <<bans, memory>>
  BY <1>1, <1>2 DEF ScanForReceivables, TypeOK, bans, memory, chain, config, ledger, history
<1>3. CASE /\ scanning' = TRUE
           /\ ScanForDelinquencies
           /\ \E s \in Slots :
                /\ ~Busy(s)
                /\ task' = [task EXCEPT ![s] = [kind |-> "request", ctx |-> ctx]]
           /\ UNCHANGED inbox
  <2>1. task' \in [Slots -> Task \cup {Idle}]
    BY <1>3 DEF TypeOK, Task
  <2>2. banned' \subseteq Debtors /\ banCache' \subseteq Debtors
    BY <1>3, BansTyped DEF ScanForDelinquencies
  <2> QED
    BY <1>1, <1>3, <2>1, <2>2 DEF ScanForReceivables, TypeOK, chain, config, ledger, history
<1> QED
  BY Zenon, <1>2, <1>3 DEF ScanForReceivables, FreeSlot

\* Mining, reorganisations, the user, kills and restarts.
LEMMA EnvironmentTyped ==
  ASSUME TypeOK, MineBlock \/ Reorg \/ SetStartBlock \/ Kill \/ Restart
  PROVE  TypeOK'
<1>1. CASE MineBlock
  <2>1. PICK new \in SUBSET Unused : \E payer \in [new -> Debtors] :
          transfers' = transfers \cup
                         {[id |-> p, from |-> payer[p], block |-> head + 1] : p \in new}
    BY <1>1 DEF MineBlock
  <2>2. PICK payer \in [new -> Debtors] :
          transfers' = transfers \cup
                         {[id |-> p, from |-> payer[p], block |-> head + 1] : p \in new}
    BY <2>1
  <2>3. transfers' \in SUBSET Transfer
    BY <2>2, WorldFields DEF TypeOK, Transfer, Unused
  <2> QED
    BY <1>1, <2>3 DEF MineBlock, TypeOK, config, ledger, bans, memory, ui, history
<1>2. CASE Reorg
  <2>1. transfers' \in SUBSET Transfer
    <3>1. PICK t \in transfers : transfers' = (transfers \ {t}) \cup {[t EXCEPT !.block = head + 1]}
      BY <1>2 DEF Reorg
    <3>2. t \in Transfer /\ head + 1 \in Nat
      BY DEF TypeOK
    <3>3. [t EXCEPT !.block = head + 1] \in Transfer
      BY <3>2 DEF Transfer
    <3> QED
      BY Zenon, <3>1, <3>3 DEF TypeOK
  <2> QED
    BY <1>2, <2>1 DEF Reorg, TypeOK, config, ledger, bans, memory, ui, history
<1>3. CASE SetStartBlock
  BY <1>3, WorldFields DEF SetStartBlock, TypeOK, Markers, chain, ledger, bans, memory, ui, history
<1>4. CASE Kill
  <2>1. banned' \subseteq Debtors
    BY <1>4, BansTyped DEF Kill, TypeOK
  <2>2. inbox' \in Seq(Msg)
    BY <1>4 DEF Kill
  <2> QED
    BY Zenon, <1>4, <2>1, <2>2 DEF Kill, TypeOK, chain, config, ledger, ui, history
<1>5. CASE Restart
  BY <1>5 DEF Restart, Restarted, TypeOK, chain, config, ledger, memory, ui, history
<1> QED
  BY <1>1, <1>2, <1>3, <1>4, <1>5

\* The database, the ban cache, the chain, the queries and the mailbox stay well
\* formed under every step of the receivable scan, the chain and the user.
THEOREM TypeCorrect == Spec => []TypeOK
<1>1. ASSUME TypeOK, [Next]_vars PROVE TypeOK'
  <2>1. CASE \E d \in Debtors : MoreMoneyReceivable(d)
    BY <1>1, <2>1 DEF MoreMoneyReceivable, TypeOK, chain, config, bans, memory, ui
  <2>2. CASE \E d \in Debtors : DebtAges(d)
    BY <1>1, <2>2 DEF DebtAges, TypeOK, chain, config, bans, memory, ui, history
  <2>3. CASE \E ctx \in Skeletons : ScanForReceivables(ctx)
    BY <1>1, <2>3, ScanTyped
  <2>4. CASE \E s \in Slots : Bridge(s)
    BY <1>1, <2>4, BridgeTyped
  <2>5. CASE Accountant
    BY <1>1, <2>5, AccountantTyped
  <2>6. CASE MineBlock \/ Reorg \/ SetStartBlock \/ Kill \/ Restart
    BY <1>1, <2>6, EnvironmentTyped
  <2>7. CASE UNCHANGED vars
    BY <1>1, <2>7 DEF TypeOK, vars, chain, config, ledger, bans, memory, ui, history
  <2> QED
    BY <1>1, <2>1, <2>2, <2>3, <2>4, <2>5, <2>6, <2>7 DEF Next
<1> QED
  BY <1>1, InitTyped, PTL DEF Spec

-----------------------------------------------------------------------------
(* No payment is credited twice, as long as the chain is reliable *)

LEMMA ViewIsHead == ChainIsReliable => Views = {head}
BY DEF ChainIsReliable, Views

\* One message is in the mailbox, so that the mailbox is empty once it is served.
LEMMA OneMessage ==
  ASSUME NEW S, NEW q \in Seq(S), Len(q) <= 1, q # <<>>
  PROVE  Tail(q) = <<>> /\ Head(q) = q[1] /\ 1 \in 1 .. Len(q)
OBVIOUS

LEMMA FirstMessage ==
  ASSUME NEW S, NEW q \in Seq(S), q = <<>>, NEW m
  PROVE  Len(Append(q, m)) = 1 /\ Append(q, m)[1] = m /\ Append(q, m) # <<>>
OBVIOUS

\* A query ends at or after every block that was credited already.
LEMMA QueryEndsLate ==
  ASSUME TypeOK, InOrder, NEW range \in Ranges \cup {NoLimit},
         NEW h \in Markers, h = head \/ h = Uninitialized,
         EndBlock(startBlock, range, h) # Uninitialized,
         NEW t \in transfers, Credited(t)
  PROVE  t.block <= EndBlock(startBlock, range, h)
<1>1. startBlock \in Nat /\ t.block \in Nat /\ t.block < startBlock /\ t.block <= head /\ head \in Nat
  BY DEF TypeOK, Transfer, Markers, InOrder, CreditsLieBelow, ChainIsSettled
<1>2. range # NoLimit => range \in Nat \ {0}
  BY ReceivablesAssumption
<1> QED
  BY <1>1, <1>2, ReceivablesAssumption DEF EndBlock, Markers

\* The new start block lies above what the query found and above what was credited.
LEMMA NewStartIsAbove ==
  ASSUME TypeOK, InOrder, NEW s \in Slots, Runs(s, "logs"),
         NEW txs \in SUBSET transfers,
         \A t \in txs : task[s].end # Uninitialized => t.block <= task[s].end,
         \A t \in txs : startBlock # Uninitialized => startBlock <= t.block,
         NEW new \in NewStartBlock(txs, task[s].start, task[s].end),
         new # Uninitialized, NEW t \in transfers, t \in txs \/ Credited(t)
  PROVE  t.block < new
<1>1. /\ task[s].start = startBlock
      /\ task[s].end # Uninitialized => \A u \in transfers : Credited(u) => u.block <= task[s].end
  BY DEF InOrder, QueryIsCurrent
<1>2. task[s].end \in Markers /\ startBlock \in Markers /\ \A u \in transfers : u.block \in Nat
  BY TaskFields DEF Runs, TypeOK, Transfer
<1>3. Credited(t) => startBlock # Uninitialized /\ t.block < startBlock
  BY DEF InOrder, CreditsLieBelow
<1>4. CASE task[s].end # Uninitialized
  BY <1>1, <1>2, <1>4 DEF NewStartBlock, Markers
<1>5. CASE task[s].end = Uninitialized /\ txs # {}
  <2>1. PICK u \in Highest(txs) : new = u.block + 1
    BY <1>5 DEF NewStartBlock
  <2>2. u \in txs /\ \A v \in txs : v.block <= u.block
    BY <2>1 DEF Highest
  <2>3. CASE t \in txs
    BY <2>1, <2>2, <2>3, <1>2
  <2>4. CASE Credited(t)
    BY <2>1, <2>2, <2>4, <1>2, <1>3 DEF Markers
  <2> QED
    BY <2>3, <2>4
<1>6. CASE task[s].end = Uninitialized /\ txs = {}
  BY <1>1, <1>2, <1>3, <1>6 DEF NewStartBlock, Markers
<1> QED
  BY <1>4, <1>5, <1>6

\* The parts of the state the invariant speaks of.
OrderVars == <<head, transfers, startBlock, scanning, task, inbox, credited>>

LEMMA OrderFrame ==
  ASSUME InOrder, UNCHANGED OrderVars
  PROVE  InOrder'
BY DEF InOrder, OrderVars, OneQuery, ChainIsSettled, CreditsLieBelow, QueryIsCurrent,
       AnswerIsCurrent, Credited, Busy, Runs

LEMMA InitInOrder ==
  ASSUME Init
  PROVE  InOrder /\ AtMostOnce
<1>1. \A s \in Slots : ~Busy(s)
  BY DEF Init, Busy
<1>2. inbox = <<>> /\ Len(inbox) = 0 /\ transfers = {} /\ \A p \in Payments : credited[p] = 0
  BY DEF Init
<1> QED
  BY <1>1, <1>2 DEF InOrder, AtMostOnce, OneQuery, ChainIsSettled, CreditsLieBelow,
                    QueryIsCurrent, Runs

LEMMA ScanInOrder ==
  ASSUME TypeOK, InOrder, NEW ctx \in Skeletons, ScanForReceivables(ctx)
  PROVE  InOrder'
<1>1. CASE UNCHANGED <<bans, memory>>
  BY <1>1, OrderFrame DEF ScanForReceivables, OrderVars, bans, memory, chain, config, ledger, history
<1>2. CASE /\ ReceivableScanMayBegin
           /\ scanning' = TRUE
           /\ \E s \in Slots :
                /\ ~Busy(s)
                /\ task' = [task EXCEPT ![s] = [kind |-> "request", ctx |-> ctx]]
           /\ UNCHANGED inbox
  <2>1. UNCHANGED <<head, transfers, startBlock, credited>>
    BY DEF ScanForReceivables, chain, config, history
  <2>2. inbox = <<>> /\ \A s \in Slots : ~Busy(s)
    BY <1>2 DEF InOrder, OneQuery, ReceivableScanMayBegin
  <2>3. PICK s \in Slots : task' = [task EXCEPT ![s] = [kind |-> "request", ctx |-> ctx]]
    BY Zenon, <1>2
  <2>4. task'[s].kind = "request" /\ \A r \in Slots : r # s => task'[r] = Idle
    BY <2>2, <2>3 DEF TypeOK, Busy
  <2>5. OneQuery'
    BY <1>2, <2>2, <2>4 DEF OneQuery, Busy
  <2>6. \A r \in Slots : QueryIsCurrent(r)'
    BY <2>4 DEF QueryIsCurrent, Runs, Busy
  <2>7. (ChainIsSettled /\ CreditsLieBelow)'
    BY <2>1 DEF InOrder, ChainIsSettled, CreditsLieBelow, Credited
  <2>8. \A i \in 1 .. Len(inbox') : AnswerIsCurrent(inbox[i])'
    BY <1>2, <2>2
  <2> QED
    BY <2>5, <2>6, <2>7, <2>8 DEF InOrder
<1> QED
  BY Zenon, <1>1, <1>2 DEF ScanForReceivables, FreeSlot

\* A future that goes on to its next query.
LEMMA QueryGoesOn ==
  ASSUME TypeOK, InOrder, NEW s \in Slots, Busy(s),
         NEW t, task' = [task EXCEPT ![s] = t], QueryIsCurrent(s)',
         UNCHANGED <<head, transfers, startBlock, scanning, inbox, credited>>
  PROVE  InOrder'
<1>1. inbox = <<>> /\ scanning /\ \A r \in Slots : r # s => ~Busy(r) /\ task'[r] = task[r]
  BY DEF InOrder, OneQuery, TypeOK
<1>2. OneQuery'
  BY <1>1 DEF InOrder, OneQuery, Busy
<1>3. \A r \in Slots : QueryIsCurrent(r)'
  BY <1>1 DEF QueryIsCurrent, Runs, Busy
<1>4. (ChainIsSettled /\ CreditsLieBelow)'
  BY DEF InOrder, ChainIsSettled, CreditsLieBelow, Credited
<1>5. \A i \in 1 .. Len(inbox') : AnswerIsCurrent(inbox[i])'
  BY <1>1
<1> QED
  BY <1>2, <1>3, <1>4, <1>5 DEF InOrder

\* A future that ends with a message to the Accountant.
LEMMA QueryEnds ==
  ASSUME TypeOK, InOrder, NEW s \in Slots, Busy(s),
         task' = [task EXCEPT ![s] = Idle],
         NEW m, inbox' = Append(inbox, m), AnswerIsCurrent(m)',
         UNCHANGED <<head, transfers, startBlock, scanning, credited>>
  PROVE  InOrder'
<1>1. inbox = <<>> /\ scanning /\ \A r \in Slots : task'[r] = Idle
  BY DEF InOrder, OneQuery, TypeOK, Busy
<1>2. Len(inbox') = 1 /\ inbox'[1] = m /\ inbox' # <<>>
  BY <1>1, FirstMessage DEF TypeOK
<1>3. OneQuery'
  BY <1>1, <1>2 DEF OneQuery, Busy
<1>4. \A r \in Slots : QueryIsCurrent(r)'
  BY <1>1 DEF QueryIsCurrent, Runs, Busy
<1>5. (ChainIsSettled /\ CreditsLieBelow)'
  BY DEF InOrder, ChainIsSettled, CreditsLieBelow, Credited
<1>6. \A i \in 1 .. Len(inbox') : AnswerIsCurrent(inbox[i])'
  BY <1>2 DEF AnswerIsCurrent, Credited
<1> QED
  BY <1>3, <1>4, <1>5, <1>6 DEF InOrder

LEMMA BridgeInOrder ==
  ASSUME ChainIsReliable, TypeOK, InOrder, NEW s \in Slots, Bridge(s)
  PROVE  InOrder' /\ UNCHANGED credited
<1>1. CASE RetrieveTransactions(s)
  <2> DEFINE t == [kind |-> "head", start |-> startBlock, range |-> maxBlockCount, ctx |-> task[s].ctx]
  <2>1. Busy(s) /\ task' = [task EXCEPT ![s] = t]
        /\ UNCHANGED <<head, transfers, startBlock, scanning, inbox, credited>>
    BY <1>1 DEF RetrieveTransactions, Runs, chain, config, history
  <2>2. QueryIsCurrent(s)'
    BY <2>1 DEF QueryIsCurrent, Runs, TypeOK
  <2> HIDE DEF t
  <2> QED
    BY Zenon, <2>1, <2>2, QueryGoesOn
<1>2. CASE HeadReply(s)
  <2>1. PICK h \in HeadAnswers(task[s].start) :
          task' = [task EXCEPT ![s] = [kind |-> "logs", start |-> task[s].start, ctx |-> task[s].ctx,
                                       first |-> FirstBlock(task[s].start, h),
                                       end |-> EndBlock(task[s].start, task[s].range, h)]]
    BY Zenon, <1>2 DEF HeadReply
  <2> DEFINE t == [kind |-> "logs", start |-> task[s].start, ctx |-> task[s].ctx,
                   first |-> FirstBlock(task[s].start, h),
                   end |-> EndBlock(task[s].start, task[s].range, h)]
  <2>2. Busy(s) /\ Runs(s, "head") /\ task' = [task EXCEPT ![s] = t]
        /\ UNCHANGED <<head, transfers, startBlock, scanning, inbox, credited>>
    BY Zenon, <1>2, <2>1 DEF HeadReply, Runs, chain, config, history
  <2>3. task[s].start = startBlock /\ task[s].range \in Ranges \cup {NoLimit}
    BY <2>2, TaskFields DEF InOrder, QueryIsCurrent, Runs
  <2>4. h \in Markers /\ (h = head \/ h = Uninitialized)
    BY HeadAnswersTyped, ViewIsHead DEF HeadAnswers
  <2>5. task'[s] = t
    BY <2>2 DEF TypeOK
  <2>6. t.start = startBlock /\ (startBlock # Uninitialized => t.first = startBlock)
    BY <2>3 DEF FirstBlock
  <2>7. t.end # Uninitialized => \A u \in transfers : Credited(u) => u.block <= t.end
    BY <2>3, <2>4, QueryEndsLate
  <2>8. t.kind = "logs"
    OBVIOUS
  <2> HIDE DEF t
  <2>9. QueryIsCurrent(s)'
    BY <2>2, <2>5, <2>6, <2>7, <2>8 DEF QueryIsCurrent, Runs, Credited
  <2> QED
    BY Zenon, <2>2, <2>9, QueryGoesOn
<1>3. CASE LogsReply(s)
  <2>1. Runs(s, "logs") /\ Busy(s) /\ task' = [task EXCEPT ![s] = Idle]
        /\ UNCHANGED <<head, transfers, startBlock, scanning, credited>>
    BY <1>3 DEF LogsReply, Runs, chain, config, history
  <2>2. LET first == IF task[s].first = Uninitialized THEN head ELSE task[s].first
            txs   == Logs(first, task[s].end, head)
        IN  \E new \in NewStartBlock(txs, task[s].start, task[s].end) :
              inbox' = Append(inbox, ReceivedMsg(txs, first, new, task[s].ctx))
    BY <1>3, ViewIsHead DEF LogsReply
  <2> DEFINE first == IF task[s].first = Uninitialized THEN head ELSE task[s].first
             txs   == Logs(first, task[s].end, head)
  <2>3. PICK new \in NewStartBlock(txs, task[s].start, task[s].end) :
          inbox' = Append(inbox, ReceivedMsg(txs, first, new, task[s].ctx))
    BY <2>2
  <2>4. startBlock # Uninitialized => first = startBlock
    BY <2>1 DEF InOrder, QueryIsCurrent
  <2>5. /\ txs \subseteq transfers
        /\ \A t \in txs : task[s].end # Uninitialized => t.block <= task[s].end
        /\ \A t \in txs : startBlock # Uninitialized => startBlock <= t.block
    BY <2>4 DEF Logs
  <2>6. PICK m : m = ReceivedMsg(txs, first, new, task[s].ctx)
    OBVIOUS
  <2>7. m.txs = txs /\ m.new = new /\ inbox' = Append(inbox, m)
    BY <2>3, <2>6 DEF ReceivedMsg
  <2> HIDE DEF first, txs
  <2>8. \A t \in txs : ~Credited(t)
    <3> SUFFICES ASSUME NEW t \in txs, Credited(t) PROVE FALSE
      OBVIOUS
    <3>1. startBlock \in Nat /\ t.block \in Nat /\ t.block < startBlock
      BY <2>5 DEF InOrder, CreditsLieBelow, TypeOK, Markers, Transfer
    <3> QED
      BY <3>1, <2>5, ReceivablesAssumption
  <2>9. new # Uninitialized => \A t \in transfers : (t \in txs \/ Credited(t)) => t.block < new
    BY <2>1, <2>3, <2>5, NewStartIsAbove
  <2>10. txs # {} => new # Uninitialized
    <3>1. task[s].end \in Markers /\ task[s].start \in Markers /\ \A t \in txs : t.block \in Nat
      BY <2>1, <2>5, TaskFields DEF Runs, TypeOK, Transfer
    <3> QED
      BY <3>1, <2>3, ReceivablesAssumption DEF NewStartBlock, Highest, Markers
  <2>11. AnswerIsCurrent(m)'
    BY Zenon, <2>1, <2>5, <2>7, <2>8, <2>9, <2>10 DEF AnswerIsCurrent, Credited
  <2> QED
    BY Zenon, <2>1, <2>7, <2>11, QueryEnds
<1>4. CASE LogsFail(s)
  <2>1. PICK m : m = ScanErrorMsg(task[s].ctx)
    OBVIOUS
  <2>2. Busy(s) /\ task' = [task EXCEPT ![s] = Idle] /\ inbox' = Append(inbox, m)
        /\ UNCHANGED <<head, transfers, startBlock, scanning, credited>>
    BY Zenon, <1>4, <2>1 DEF LogsFail, Runs, chain, history
  <2>3. AnswerIsCurrent(m)'
    BY <2>1 DEF AnswerIsCurrent, ScanErrorMsg
  <2> QED
    BY Zenon, <2>2, <2>3, QueryEnds
<1> QED
  BY <1>1, <1>2, <1>3, <1>4 DEF Bridge

LEMMA AccountantInOrder ==
  ASSUME TypeOK, InOrder, AtMostOnce, Accountant
  PROVE  InOrder' /\ AtMostOnce'
<1>1. inbox # <<>> /\ inbox' = Tail(inbox) /\ UNCHANGED <<head, transfers, task>>
  BY DEF Accountant, ReceivedPayments, ScanError, Received, chain
<1>2. inbox' = <<>> /\ Head(inbox) = inbox[1] /\ 1 \in 1 .. Len(inbox)
  BY <1>1, OneMessage DEF InOrder, OneQuery, TypeOK
<1>3. \A s \in Slots : ~Busy(s) /\ ~Busy(s)'
  BY <1>1 DEF InOrder, OneQuery, Busy
<1>4. OneQuery' /\ ChainIsSettled' /\ \A s \in Slots : QueryIsCurrent(s)'
  BY <1>1, <1>2, <1>3 DEF InOrder, OneQuery, ChainIsSettled, QueryIsCurrent, Runs
<1>5. \A i \in 1 .. Len(inbox') : AnswerIsCurrent(inbox[i])'
  BY <1>2
<1>6. CASE UNCHANGED <<startBlock, credited>>
  <2>1. CreditsLieBelow' /\ AtMostOnce'
    BY <1>1, <1>6 DEF InOrder, CreditsLieBelow, Credited, AtMostOnce
  <2> QED
    BY <2>1, <1>4, <1>5 DEF InOrder
<1>7. CASE /\ ReceivedPayments
           /\ Head(inbox).new # Uninitialized
           /\ startBlock' = Head(inbox).new
           /\ Credit(Head(inbox).txs)
  <2> DEFINE m == Head(inbox)
  <2>1. m.type = "Received" /\ AnswerIsCurrent(m)
    BY <1>2, <1>7 DEF ReceivedPayments, Received, InOrder
  <2>2. /\ m.txs \subseteq transfers /\ \A t \in m.txs : ~Credited(t)
        /\ \A t \in transfers : (t \in m.txs \/ Credited(t)) => t.block < m.new
    BY <1>7, <2>1 DEF AnswerIsCurrent
  <2>3. credited' = [p \in Payments |->
                       IF \E t \in m.txs : t.id = p THEN credited[p] + 1 ELSE credited[p]]
    BY <1>7 DEF Credit
  <2>4. startBlock' = m.new /\ m.new # Uninitialized
    BY <1>7
  <2> HIDE DEF m
  <2>5. \A t \in transfers : t.id \in Payments
    BY DEF TypeOK, Transfer
  <2>6. AtMostOnce'
    <3> SUFFICES ASSUME NEW p \in Payments PROVE credited'[p] <= 1
      BY DEF AtMostOnce
    <3>1. CASE \E t \in m.txs : t.id = p
      BY <3>1, <2>2, <2>3 DEF Credited, TypeOK
    <3>2. CASE ~\E t \in m.txs : t.id = p
      BY <3>2, <2>3 DEF AtMostOnce
    <3> QED
      BY <3>1, <3>2
  <2>7. \A p \in Payments : credited'[p] > 0 => \E t \in transfers' : t.id = p
    BY <1>1, <2>2, <2>3 DEF InOrder, CreditsLieBelow
  <2>8. ASSUME NEW t \in transfers, credited'[t.id] > 0
        PROVE  t.block < m.new
    <3>1. CASE Credited(t)
      BY <3>1, <2>2
    <3>2. CASE ~Credited(t)
      <4>1. \E u \in m.txs : u.id = t.id
        BY <2>8, <3>2, <2>3, <2>5 DEF Credited
      <4>2. t \in m.txs
        BY <4>1, <2>2 DEF InOrder, ChainIsSettled
      <4> QED
        BY <4>2, <2>2
    <3> QED
      BY <3>1, <3>2
  <2>9. CreditsLieBelow'
    BY <1>1, <2>4, <2>7, <2>8 DEF CreditsLieBelow, Credited
  <2> QED
    BY <2>6, <2>9, <1>4, <1>5 DEF InOrder
<1> QED
  BY <1>6, <1>7 DEF Accountant, ReceivedPayments, ScanError, config, history

LEMMA MineInOrder ==
  ASSUME TypeOK, InOrder, MineBlock
  PROVE  InOrder' /\ UNCHANGED credited
<1>1. PICK new \in SUBSET Unused : \E payer \in [new -> Debtors] :
        transfers' = transfers \cup
                       {[id |-> p, from |-> payer[p], block |-> head + 1] : p \in new}
  BY DEF MineBlock
<1>2. PICK payer \in [new -> Debtors] :
        transfers' = transfers \cup
                       {[id |-> p, from |-> payer[p], block |-> head + 1] : p \in new}
  BY <1>1
<1>3. head' = head + 1 /\ head \in Nat
      /\ UNCHANGED <<startBlock, scanning, task, inbox, credited>>
  BY DEF MineBlock, TypeOK, config, memory, history
<1>4. \A t \in transfers : t.block \in Nat /\ t.block <= head /\ t.id \in Payments
  BY DEF TypeOK, Transfer, InOrder, ChainIsSettled
<1>5. ASSUME NEW t \in transfers', t \notin transfers
      PROVE  t.id \in new /\ t.id \in Unused /\ t.block = head + 1
             /\ t = [id |-> t.id, from |-> payer[t.id], block |-> head + 1]
  BY <1>2, <1>5
<1>6. ASSUME NEW t \in transfers', t \notin transfers
      PROVE  ~Credited(t)
  BY Zenon, <1>5, <1>6, WorldFields DEF TypeOK, Credited, Unused, InOrder, CreditsLieBelow
<1>7. ChainIsSettled'
  <2>1. ASSUME NEW t \in transfers', NEW u \in transfers', t.id = u.id PROVE t = u
    BY <2>1, <1>5 DEF Unused, InOrder, ChainIsSettled
  <2>2. \A t \in transfers' : t.block <= head'
    BY <1>3, <1>4, <1>5
  <2> QED
    BY <2>1, <2>2 DEF ChainIsSettled
<1>8. CreditsLieBelow'
  BY <1>2, <1>3, <1>6 DEF InOrder, CreditsLieBelow, Credited
<1>9. OneQuery'
  BY <1>3 DEF InOrder, OneQuery, Busy
<1>10. \A s \in Slots : QueryIsCurrent(s)'
  BY <1>3, <1>6 DEF InOrder, QueryIsCurrent, Runs, Busy, Credited
<1>11. \A i \in 1 .. Len(inbox') : AnswerIsCurrent(inbox[i])'
  <2> SUFFICES ASSUME NEW i \in 1 .. Len(inbox) PROVE AnswerIsCurrent(inbox[i])'
    BY <1>3
  <2>1. AnswerIsCurrent(inbox[i])
    BY DEF InOrder
  <2> QED
    BY <2>1, <1>2, <1>3, <1>6 DEF AnswerIsCurrent, Credited
<1> QED
  BY <1>3, <1>7, <1>8, <1>9, <1>10, <1>11 DEF InOrder

\* A crash forgets the query; the database was not touched.
LEMMA KillInOrder ==
  ASSUME TypeOK, InOrder, Kill
  PROVE  InOrder' /\ UNCHANGED credited
<1>1. inbox' = <<>> /\ Len(inbox') = 0 /\ scanning' = FALSE /\ \A s \in Slots : task'[s] = Idle
  BY DEF Kill
<1>2. UNCHANGED <<head, transfers, startBlock, credited>>
  BY DEF Kill, chain, config, history
<1>3. OneQuery' /\ (\A s \in Slots : QueryIsCurrent(s)')
      /\ \A i \in 1 .. Len(inbox') : AnswerIsCurrent(inbox[i])'
  BY <1>1 DEF OneQuery, QueryIsCurrent, Runs, Busy
<1>4. (ChainIsSettled /\ CreditsLieBelow)'
  BY <1>2 DEF InOrder, ChainIsSettled, CreditsLieBelow, Credited
<1> QED
  BY <1>2, <1>3, <1>4 DEF InOrder

\* The environment is chosen once.
LEMMA WorldIsFixed == [Next]_vars => UNCHANGED world
<1> SUFFICES ASSUME [Next]_vars PROVE UNCHANGED world
  OBVIOUS
<1>1. CASE \E d \in Debtors : MoreMoneyReceivable(d) \/ DebtAges(d)
  BY <1>1 DEF MoreMoneyReceivable, DebtAges, chain
<1>2. CASE \E ctx \in Skeletons : ScanForReceivables(ctx)
  BY <1>2 DEF ScanForReceivables, chain
<1>3. CASE \E s \in Slots : Bridge(s)
  BY <1>3 DEF Bridge, RetrieveTransactions, HeadReply, LogsReply, LogsFail, chain
<1>4. CASE Accountant
  BY <1>4 DEF Accountant, ReceivedPayments, ScanError, chain
<1>5. CASE MineBlock \/ Reorg
  BY <1>5 DEF MineBlock, Reorg
<1>6. CASE SetStartBlock \/ Kill \/ Restart \/ UNCHANGED vars
  BY <1>6 DEF SetStartBlock, Kill, Restart, vars, chain
<1> QED
  BY <1>1, <1>2, <1>3, <1>4, <1>5, <1>6 DEF Next

\* While the queries are answered by chain nodes that know the head, the chain does
\* not reorganise and the user leaves the start block alone, no payment is taken into
\* account twice, however queries, mined blocks, failures, kills and restarts interleave.
THEOREM CreditedOnce == Spec => [](ScansAreInOrder /\ NeverCreditedTwice)
<1>1. Init => ScansAreInOrder /\ NeverCreditedTwice
  BY InitInOrder DEF ScansAreInOrder, NeverCreditedTwice
<1>2. ASSUME TypeOK, ChainIsReliable, InOrder, AtMostOnce, [Next]_vars
      PROVE  InOrder' /\ AtMostOnce'
  <2>1. UNCHANGED credited => AtMostOnce'
    BY <1>2 DEF AtMostOnce
  <2>2. CASE UNCHANGED OrderVars
    BY <1>2, <2>1, <2>2, OrderFrame DEF OrderVars
  <2>3. CASE \E d \in Debtors : MoreMoneyReceivable(d) \/ DebtAges(d)
    BY <2>2, <2>3 DEF MoreMoneyReceivable, DebtAges, OrderVars, chain, config, memory, history
  <2>4. CASE \E ctx \in Skeletons : ScanForReceivables(ctx)
    BY Zenon, <1>2, <2>1, <2>4, ScanInOrder DEF ScanForReceivables, history
  <2>5. CASE \E s \in Slots : Bridge(s)
    BY <1>2, <2>1, <2>5, BridgeInOrder
  <2>6. CASE Accountant
    BY <1>2, <2>6, AccountantInOrder
  <2>7. CASE MineBlock
    BY <1>2, <2>1, <2>7, MineInOrder
  <2>8. CASE Reorg \/ SetStartBlock
    BY <1>2, <2>8 DEF Reorg, SetStartBlock, ChainIsReliable
  <2>9. CASE Kill
    BY <1>2, <2>1, <2>9, KillInOrder
  <2>10. CASE Restart
    BY <2>2, <2>10 DEF Restart, OrderVars, chain, config, memory, history
  <2>11. CASE UNCHANGED vars
    BY <2>2, <2>11 DEF vars, OrderVars, chain, config, memory, history
  <2> QED
    BY <1>2, <2>3, <2>4, <2>5, <2>6, <2>7, <2>8, <2>9, <2>10, <2>11 DEF Next
<1>3. ASSUME TypeOK, ScansAreInOrder, NeverCreditedTwice, [Next]_vars
      PROVE  ScansAreInOrder' /\ NeverCreditedTwice'
  BY <1>2, <1>3, WorldIsFixed DEF ScansAreInOrder, NeverCreditedTwice, ChainIsReliable
<1> QED
  BY <1>1, <1>3, TypeCorrect, PTL DEF Spec

\* On such a chain, an answer only brings payments at or above the stored start block that
\* were not credited yet, whatever happened while the bridge waited for it.
COROLLARY AnswersAreCurrent == Spec => []ScansAreInOrder
BY CreditedOnce, PTL

-----------------------------------------------------------------------------
(* No payment is skipped, as long as the chain is reliable and tells its head *)

\* A query for logs ends at a block the chain had.
QueryIsBounded(s) == Runs(s, "logs") => task[s].end \in Nat /\ task[s].end <= head

\* An answer starts where the last scan ended, and brings every payment up to the new
\* start block, which is not beyond the next block.
AnswerIsComplete(m) ==
  m.type = "Received" =>
    /\ m.new \in Nat /\ m.new <= head + 1
    /\ startBlock # Uninitialized => m.first = startBlock
    /\ \A t \in transfers : m.first <= t.block /\ t.block < m.new => t \in m.txs

\* The start block has a history exactly when there is one, and is not beyond the next block.
StartIsKnown ==
  /\ origin = Uninitialized <=> startBlock = Uninitialized
  /\ startBlock # Uninitialized => startBlock <= head + 1

AllCredited ==
  \A t \in transfers :
    (origin # Uninitialized /\ startBlock # Uninitialized
       /\ origin <= t.block /\ t.block < startBlock) => credited[t.id] = 1

Complete ==
  /\ StartIsKnown /\ AllCredited
  /\ \A s \in Slots : QueryIsBounded(s)
  /\ \A i \in 1 .. Len(inbox) : AnswerIsComplete(inbox[i])

LEMMA CompleteFrame ==
  ASSUME Complete, UNCHANGED <<OrderVars, origin>>
  PROVE  Complete'
BY DEF Complete, OrderVars, StartIsKnown, AllCredited, QueryIsBounded, AnswerIsComplete, Busy, Runs

LEMMA InitComplete ==
  ASSUME Init
  PROVE  Complete
<1>1. (\A s \in Slots : ~Busy(s)) /\ Len(inbox) = 0 /\ transfers = {}
  BY DEF Init, Busy
<1>2. StartIsKnown
  BY WorldFields DEF Init, StartIsKnown
<1> QED
  BY <1>1, <1>2 DEF Complete, AllCredited, QueryIsBounded, Runs

\* What a step of the bridge, which changes neither the chain nor the books, has to keep.
LEMMA BooksFrame ==
  ASSUME Complete, UNCHANGED <<head, transfers, startBlock, credited, origin>>,
         \A s \in Slots : QueryIsBounded(s)',
         \A i \in 1 .. Len(inbox') : AnswerIsComplete(inbox[i])'
  PROVE  Complete'
BY DEF Complete, StartIsKnown, AllCredited

\* A query for logs ends at the head, or before it.
LEMMA EndIsKnown ==
  ASSUME NEW start \in Markers, NEW range \in Ranges \cup {NoLimit}, NEW h \in Nat
  PROVE  EndBlock(start, range, h) \in Nat /\ EndBlock(start, range, h) <= h
<1>1. range # NoLimit => range \in Nat \ {0}
  BY ReceivablesAssumption
<1> QED
  BY <1>1, ReceivablesAssumption DEF EndBlock, Markers

LEMMA BridgeComplete ==
  ASSUME ChainIsReliable, HeadIsKnown, TypeOK, InOrder, Complete, NEW s \in Slots, Bridge(s)
  PROVE  Complete'
<1>1. UNCHANGED <<head, transfers, startBlock, credited, origin>>
  BY DEF Bridge, RetrieveTransactions, HeadReply, LogsReply, LogsFail, chain, config, history
<1>2. Busy(s) /\ inbox = <<>> /\ \A r \in Slots : r # s => ~Busy(r)
  BY DEF Bridge, RetrieveTransactions, HeadReply, LogsReply, LogsFail, Runs, InOrder, OneQuery
<1>3. CASE RetrieveTransactions(s)
  <2>1. \A r \in Slots : QueryIsBounded(r)'
    BY <1>2, <1>3 DEF RetrieveTransactions, QueryIsBounded, Runs, Busy, TypeOK
  <2>2. Len(inbox') = 0
    BY <1>2, <1>3 DEF RetrieveTransactions
  <2> QED
    BY <1>1, <2>1, <2>2, BooksFrame
<1>4. CASE HeadReply(s)
  <2>1. HeadAnswers(task[s].start) = {head}
    BY ViewIsHead DEF HeadAnswers, HeadIsKnown
  <2>2. task' = [task EXCEPT ![s] = [kind |-> "logs", start |-> task[s].start, ctx |-> task[s].ctx,
                                     first |-> FirstBlock(task[s].start, head),
                                     end |-> EndBlock(task[s].start, task[s].range, head)]]
    BY <1>4, <2>1 DEF HeadReply
  <2>3. task[s].start \in Markers /\ task[s].range \in Ranges \cup {NoLimit} /\ head \in Nat
    BY <1>4, TaskFields DEF HeadReply, Runs, TypeOK
  <2>4. task'[s].end \in Nat /\ task'[s].end <= head
    BY <2>2, <2>3, EndIsKnown DEF TypeOK
  <2>5. \A r \in Slots : r # s => task'[r] = task[r]
    BY <2>2 DEF TypeOK
  <2>6. \A r \in Slots : QueryIsBounded(r)'
    BY <1>1, <1>2, <2>4, <2>5 DEF QueryIsBounded, Runs, Busy
  <2>7. Len(inbox') = 0
    BY <1>2, <1>4 DEF HeadReply
  <2> QED
    BY <1>1, <2>6, <2>7, BooksFrame
<1>5. CASE LogsReply(s)
  <2> DEFINE first == IF task[s].first = Uninitialized THEN head ELSE task[s].first
             txs   == Logs(first, task[s].end, head)
  <2>1. Runs(s, "logs") /\ task[s].end \in Nat /\ task[s].end <= head /\ head \in Nat
    BY <1>5 DEF LogsReply, Complete, QueryIsBounded, TypeOK
  <2>2. NewStartBlock(txs, task[s].start, task[s].end) = {task[s].end + 1}
    BY <2>1, ReceivablesAssumption DEF NewStartBlock
  <2>3. inbox' = Append(inbox, ReceivedMsg(txs, first, task[s].end + 1, task[s].ctx))
    BY <1>5, <2>2, ViewIsHead DEF LogsReply
  <2>4. startBlock # Uninitialized => first = startBlock
    BY <2>1 DEF InOrder, QueryIsCurrent
  <2>5. \A t \in transfers : first <= t.block /\ t.block < task[s].end + 1 => t \in txs
    BY <2>1 DEF Logs, TypeOK, Transfer
  <2>6. PICK m : m = ReceivedMsg(txs, first, task[s].end + 1, task[s].ctx)
    OBVIOUS
  <2>7. m.txs = txs /\ m.first = first /\ m.new = task[s].end + 1 /\ inbox' = Append(inbox, m)
    <3>1. m.txs = txs /\ m.first = first /\ m.new = task[s].end + 1
      BY <2>6 DEF ReceivedMsg
    <3>2. inbox' = Append(inbox, m)
      BY Zenon, <2>3, <2>6
    <3> QED
      BY Zenon, <3>1, <3>2
  <2> HIDE DEF first, txs
  <2>8. AnswerIsComplete(m)'
    <3>1. m.new \in Nat /\ m.new <= head + 1
      BY <2>1, <2>7
    <3>2. startBlock # Uninitialized => m.first = startBlock
      BY Zenon, <2>4, <2>7
    <3>3. \A t \in transfers : m.first <= t.block /\ t.block < m.new => t \in m.txs
      BY Zenon, <2>5, <2>7
    <3> QED
      BY Zenon, <1>1, <3>1, <3>2, <3>3 DEF AnswerIsComplete
  <2>9. Len(inbox') = 1 /\ inbox'[1] = m
    BY <1>2, <2>7, FirstMessage DEF TypeOK
  <2>10. \A i \in 1 .. Len(inbox') : AnswerIsComplete(inbox[i])'
    BY <2>8, <2>9 DEF AnswerIsComplete
  <2>11. \A r \in Slots : QueryIsBounded(r)'
    BY <1>2, <1>5 DEF LogsReply, QueryIsBounded, Runs, Busy, TypeOK
  <2> QED
    BY <1>1, <2>10, <2>11, BooksFrame
<1>6. CASE LogsFail(s)
  <2>1. PICK m : m = ScanErrorMsg(task[s].ctx)
    OBVIOUS
  <2>2. inbox' = Append(inbox, m) /\ m.type = "ScanError"
    BY <1>6, <2>1 DEF LogsFail, ScanErrorMsg
  <2>3. Len(inbox') = 1 /\ inbox'[1] = m
    BY <1>2, <2>2, FirstMessage DEF TypeOK
  <2>4. \A i \in 1 .. Len(inbox') : AnswerIsComplete(inbox[i])'
    BY <2>2, <2>3 DEF AnswerIsComplete
  <2>5. \A r \in Slots : QueryIsBounded(r)'
    BY <1>2, <1>6 DEF LogsFail, QueryIsBounded, Runs, Busy, TypeOK
  <2> QED
    BY <1>1, <2>4, <2>5, BooksFrame
<1> QED
  BY <1>3, <1>4, <1>5, <1>6 DEF Bridge

LEMMA AccountantComplete ==
  ASSUME TypeOK, InOrder, Complete, Accountant
  PROVE  Complete'
<1>1. inbox # <<>> /\ inbox' = Tail(inbox) /\ UNCHANGED <<head, transfers, task>>
  BY DEF Accountant, ReceivedPayments, ScanError, Received, chain
<1>2. inbox' = <<>> /\ Head(inbox) = inbox[1] /\ 1 \in 1 .. Len(inbox)
  BY <1>1, OneMessage DEF InOrder, OneQuery, TypeOK
<1>3. (\A s \in Slots : QueryIsBounded(s)') /\ \A i \in 1 .. Len(inbox') : AnswerIsComplete(inbox[i])'
  BY <1>1, <1>2 DEF Complete, QueryIsBounded, Runs, Busy
<1>4. CASE UNCHANGED <<startBlock, credited, origin>>
  BY <1>1, <1>3, <1>4, BooksFrame
<1>5. CASE /\ ReceivedPayments
           /\ startBlock' = Head(inbox).new
           /\ Credit(Head(inbox).txs)
           /\ origin' = IF origin = Uninitialized THEN Head(inbox).first ELSE origin
  <2> DEFINE m == Head(inbox)
  <2>1. m.type = "Received" /\ AnswerIsComplete(m) /\ AnswerIsCurrent(m)
    BY <1>2, <1>5 DEF ReceivedPayments, Received, Complete, InOrder
  <2>2. /\ m.new \in Nat /\ m.new <= head + 1 /\ m.first \in Nat
        /\ startBlock # Uninitialized => m.first = startBlock
        /\ \A t \in transfers : m.first <= t.block /\ t.block < m.new => t \in m.txs
        /\ m.txs \subseteq transfers /\ \A t \in m.txs : ~Credited(t)
    BY <1>1, <2>1, HeadFields DEF AnswerIsComplete, AnswerIsCurrent
  <2>3. credited' = [p \in Payments |->
                       IF \E t \in m.txs : t.id = p THEN credited[p] + 1 ELSE credited[p]]
    BY <1>5 DEF Credit
  <2>4. startBlock' = m.new /\ origin' = IF origin = Uninitialized THEN m.first ELSE origin
    BY <1>5
  <2> HIDE DEF m
  <2>5. StartIsKnown'
    BY <1>1, <2>2, <2>4, ReceivablesAssumption DEF Complete, StartIsKnown
  <2>6. ASSUME NEW t \in transfers, origin' <= t.block, t.block < m.new
        PROVE  credited'[t.id] = 1
    <3>1. t.id \in Payments /\ t.block \in Nat /\ startBlock \in Markers /\ credited[t.id] \in Nat
      BY DEF TypeOK, Transfer
    <3>2. CASE t \in m.txs
      BY <3>1, <3>2, <2>2, <2>3 DEF Credited
    <3>3. CASE t \notin m.txs
      <4>1. startBlock # Uninitialized /\ origin # Uninitialized
        BY <3>3, <2>2, <2>4, <2>6 DEF Complete, StartIsKnown
      <4>2. t.block < startBlock /\ origin <= t.block
        BY <4>1, <3>1, <3>3, <2>2, <2>4, <2>6 DEF Markers
      <4>3. credited[t.id] = 1
        BY <4>1, <4>2 DEF Complete, AllCredited
      <4>4. ~\E u \in m.txs : u.id = t.id
        BY <3>3, <2>2 DEF InOrder, ChainIsSettled
      <4> QED
        BY <3>1, <4>3, <4>4, <2>3
    <3> QED
      BY <3>2, <3>3
  <2>7. AllCredited'
    BY <1>1, <2>4, <2>6 DEF AllCredited
  <2> QED
    BY <1>3, <2>5, <2>7 DEF Complete
<1> QED
  BY <1>4, <1>5 DEF Accountant, ReceivedPayments, ScanError, config, history

LEMMA MineComplete ==
  ASSUME TypeOK, Complete, MineBlock
  PROVE  Complete'
<1>1. head' = head + 1 /\ head \in Nat /\ startBlock \in Markers
      /\ UNCHANGED <<startBlock, task, inbox, credited, origin>>
  BY DEF MineBlock, TypeOK, config, memory, history
<1>2. transfers \subseteq transfers' /\ \A t \in transfers' : t \notin transfers => t.block = head + 1
  <2> DEFINE Mined(new, payer) == {[id |-> p, from |-> payer[p], block |-> head + 1] : p \in new}
  <2>1. PICK new \in SUBSET Unused : \E payer \in [new -> Debtors] : transfers' = transfers \cup Mined(new, payer)
    BY Zenon DEF MineBlock
  <2>2. PICK payer \in [new -> Debtors] : transfers' = transfers \cup Mined(new, payer)
    BY Zenon, <2>1
  <2>3. \A t \in Mined(new, payer) : t.block = head + 1
    OBVIOUS
  <2> HIDE DEF Mined
  <2> QED
    BY Zenon, <2>2, <2>3
<1>3. StartIsKnown'
  BY <1>1 DEF Complete, StartIsKnown, Markers
<1>4. AllCredited'
  BY <1>1, <1>2 DEF Complete, StartIsKnown, AllCredited, Markers
<1>5. ASSUME NEW s \in Slots PROVE QueryIsBounded(s)'
  <2>1. QueryIsBounded(s) /\ task'[s] = task[s] /\ head' = head + 1 /\ head \in Nat
    BY <1>1 DEF Complete
  <2> QED
    BY <2>1 DEF QueryIsBounded, Runs, Busy
<1>6. ASSUME NEW i \in 1 .. Len(inbox) PROVE AnswerIsComplete(inbox[i])'
  <2>1. PICK m : m = inbox[i]
    OBVIOUS
  <2>2. AnswerIsComplete(m)
    BY Zenon, <2>1 DEF Complete
  <2>3. ASSUME m.type = "Received", NEW t \in transfers', m.first <= t.block, t.block < m.new
        PROVE  t \in m.txs
    <3>1. m.new \in Nat /\ m.new <= head + 1
      BY Zenon, <2>2, <2>3 DEF AnswerIsComplete
    <3>2. t.block # head + 1
      BY <1>1, <2>3, <3>1
    <3>3. t \in transfers
      BY Zenon, <1>2, <3>2
    <3> QED
      BY Zenon, <2>2, <2>3, <3>3 DEF AnswerIsComplete
  <2>4. m.type = "Received" => m.new \in Nat /\ m.new <= head' + 1
                               /\ (startBlock' # Uninitialized => m.first = startBlock')
    BY <1>1, <2>2 DEF AnswerIsComplete
  <2>5. AnswerIsComplete(m)'
    BY Zenon, <2>3, <2>4 DEF AnswerIsComplete
  <2> QED
    BY Zenon, <1>1, <2>1, <2>5
<1> QED
  BY Zenon, <1>1, <1>3, <1>4, <1>5, <1>6 DEF Complete

LEMMA KillComplete ==
  ASSUME Complete, Kill
  PROVE  Complete'
<1>1. Len(inbox') = 0 /\ \A s \in Slots : ~Busy(s)'
  BY DEF Kill, Busy
<1>2. UNCHANGED <<head, transfers, startBlock, credited, origin>>
  BY DEF Kill, chain, config, history
<1>3. \A s \in Slots : QueryIsBounded(s)'
  BY Zenon, <1>1 DEF QueryIsBounded, Runs
<1>4. \A i \in 1 .. Len(inbox') : FALSE
  BY <1>1
<1> QED
  BY Zenon, <1>2, <1>3, <1>4, BooksFrame

CompleteIfKnown == ChainIsReliable /\ HeadIsKnown => Complete

\* On a reliable chain that tells its head, the start block never passes a payment that
\* was not taken into account: an answer brings every payment from the stored start block
\* up to the new one, which is never beyond the block the chain will mine next.
THEOREM NoneSkipped == Spec => []NothingSkipped
<1>1. Init => CompleteIfKnown
  BY InitComplete DEF CompleteIfKnown
<1>2. ASSUME TypeOK, ChainIsReliable, HeadIsKnown, InOrder, Complete, [Next]_vars
      PROVE  Complete'
  <2>1. CASE UNCHANGED <<OrderVars, origin>>
    BY <1>2, <2>1, CompleteFrame
  <2>2. CASE \E d \in Debtors : MoreMoneyReceivable(d) \/ DebtAges(d)
    BY <2>1, <2>2 DEF MoreMoneyReceivable, DebtAges, OrderVars, chain, config, memory, history
  <2>3. CASE \E ctx \in Skeletons : ScanForReceivables(ctx)
    <3>1. UNCHANGED <<head, transfers, startBlock, credited, origin, inbox>>
      BY <2>3 DEF ScanForReceivables, chain, config, history, memory
    <3>2. \A s \in Slots : task'[s] # task[s] => task'[s].kind = "request"
      BY <1>2, <2>3 DEF ScanForReceivables, TypeOK, memory
    <3>3. \A s \in Slots : Runs(s, "logs")' => task'[s] = task[s] /\ Runs(s, "logs")
      BY <3>2 DEF Runs, Busy
    <3>4. \A s \in Slots : QueryIsBounded(s)'
      BY <1>2, <3>1, <3>3 DEF Complete, QueryIsBounded
    <3>5. \A i \in 1 .. Len(inbox') : AnswerIsComplete(inbox[i])'
      BY <1>2, <3>1 DEF Complete, AnswerIsComplete
    <3> QED
      BY <1>2, <3>1, <3>4, <3>5, BooksFrame
  <2>4. CASE \E s \in Slots : Bridge(s)
    BY <1>2, <2>4, BridgeComplete
  <2>5. CASE Accountant
    BY <1>2, <2>5, AccountantComplete
  <2>6. CASE MineBlock
    BY <1>2, <2>6, MineComplete
  <2>7. CASE Reorg \/ SetStartBlock
    BY <1>2, <2>7 DEF Reorg, SetStartBlock, ChainIsReliable
  <2>8. CASE Kill
    BY <1>2, <2>8, KillComplete
  <2>9. CASE Restart \/ UNCHANGED vars
    BY <2>1, <2>9 DEF Restart, vars, OrderVars, chain, config, memory, history
  <2> QED
    BY <1>2, <2>2, <2>3, <2>4, <2>5, <2>6, <2>7, <2>8, <2>9 DEF Next
<1>3. ASSUME TypeOK, ScansAreInOrder, CompleteIfKnown, [Next]_vars
      PROVE  CompleteIfKnown'
  BY <1>2, <1>3, WorldIsFixed DEF ScansAreInOrder, CompleteIfKnown, ChainIsReliable, HeadIsKnown
<1>4. CompleteIfKnown => NothingSkipped
  BY DEF CompleteIfKnown, Complete, AllCredited, NothingSkipped
<1> QED
  BY <1>1, <1>3, <1>4, TypeCorrect, CreditedOnce, PTL DEF Spec

-----------------------------------------------------------------------------
(* A UI is not answered more often than it asked *)

\* The conversations the query under way, or the answer to it, belongs to.
Concerns(c) ==
  \/ \E s \in Slots : Busy(s) /\ task[s].ctx = c
  \/ inbox # <<>> /\ Head(inbox).ctx = c

\* There is at most one query or answer, and its conversation still waits for one.
AnswersAreDue ==
  /\ OneQuery /\ AnsweredOnce
  /\ \A c \in Contexts : Concerns(c) => answered[c] < asked[c]

\* The parts of the state the invariant speaks of.
DialogVars == <<scanning, task, inbox, asked, answered>>

LEMMA DialogFrame ==
  ASSUME AnswersAreDue, UNCHANGED DialogVars
  PROVE  AnswersAreDue'
BY DEF AnswersAreDue, DialogVars, OneQuery, AnsweredOnce, Concerns, Busy

LEMMA InitDue ==
  ASSUME Init
  PROVE  AnswersAreDue
<1>1. inbox = <<>> /\ Len(inbox) = 0 /\ \A s \in Slots : ~Busy(s)
  BY DEF Init, Busy
<1>2. \A c \in Contexts : answered[c] = 0 /\ asked[c] = 0
  BY DEF Init
<1> QED
  BY <1>1, <1>2 DEF AnswersAreDue, OneQuery, AnsweredOnce, Concerns

LEMMA ScanDue ==
  ASSUME TypeOK, AnswersAreDue, NEW ctx \in Skeletons, ScanForReceivables(ctx)
  PROVE  AnswersAreDue'
<1>1. answered' = answered /\ answered \in [Contexts -> Nat] /\ asked \in [Contexts -> Nat]
  BY DEF ScanForReceivables, TypeOK
<1>2. \A c \in Contexts : answered'[c] = answered[c] /\ answered[c] \in Nat /\ asked[c] \in Nat
  BY <1>1
<1>3. \A c \in Contexts : asked'[c] = IF c = ctx THEN asked[c] + 1 ELSE asked[c]
  <2>1. CASE ctx = NoUi /\ UNCHANGED asked
    BY <2>1, ReceivablesAssumption
  <2>2. CASE ctx \in Contexts /\ asked' = [asked EXCEPT ![ctx] = @ + 1]
    BY <2>2, <1>1
  <2> QED
    BY <2>1, <2>2 DEF ScanForReceivables, Ask
<1>4. AnsweredOnce'
  BY <1>2, <1>3 DEF AnswersAreDue, AnsweredOnce
<1>5. CASE UNCHANGED <<bans, memory>>
  <2>1. UNCHANGED <<scanning, task, inbox>>
    BY <1>5 DEF memory
  <2>2. OneQuery' /\ \A c \in Contexts : Concerns(c)' => Concerns(c)
    BY <2>1 DEF AnswersAreDue, OneQuery, Concerns, Busy
  <2> QED
    BY <2>2, <1>2, <1>3, <1>4 DEF AnswersAreDue
<1>6. CASE /\ ~scanning /\ scanning' = TRUE
           /\ \E s \in Slots : task' = [task EXCEPT ![s] = [kind |-> "request", ctx |-> ctx]]
           /\ UNCHANGED inbox
  <2>1. inbox = <<>> /\ Len(inbox) = 0 /\ \A s \in Slots : ~Busy(s)
    BY <1>6 DEF AnswersAreDue, OneQuery
  <2>2. PICK s \in Slots : task' = [task EXCEPT ![s] = [kind |-> "request", ctx |-> ctx]]
    BY Zenon, <1>6
  <2>3. task'[s].ctx = ctx /\ \A r \in Slots : r # s => ~Busy(r)'
    BY <2>1, <2>2 DEF TypeOK, Busy
  <2>4. OneQuery'
    BY <1>6, <2>1, <2>3 DEF OneQuery
  <2>5. \A c \in Contexts : Concerns(c)' => c = ctx
    <3>1. inbox' = <<>>
      BY Zenon, <1>6, <2>1
    <3> QED
      BY Zenon, <3>1, <2>3 DEF Concerns
  <2>6. \A c \in Contexts : Concerns(c)' => answered'[c] < asked'[c]
    BY <1>2, <1>3, <2>5 DEF AnswersAreDue, AnsweredOnce
  <2> QED
    BY <1>4, <2>4, <2>6 DEF AnswersAreDue
<1> QED
  BY Zenon, <1>5, <1>6 DEF ScanForReceivables, ReceivableScanMayBegin

LEMMA BridgeDue ==
  ASSUME TypeOK, AnswersAreDue, NEW s \in Slots, Bridge(s)
  PROVE  AnswersAreDue'
<1>1. UNCHANGED <<scanning, asked, answered>> /\ Busy(s)
  BY DEF Bridge, RetrieveTransactions, HeadReply, LogsReply, LogsFail, Runs, ui
<1>2. scanning /\ inbox = <<>> /\ \A r \in Slots : r # s => task[r] = Idle
  BY <1>1 DEF AnswersAreDue, OneQuery, Busy
<1>3. CASE RetrieveTransactions(s) \/ HeadReply(s)
  <2>1. inbox' = <<>> /\ Len(inbox') = 0
    BY Zenon, <1>2, <1>3 DEF RetrieveTransactions, HeadReply
  <2>2. task'[s].ctx = task[s].ctx /\ \A r \in Slots : r # s => task'[r] = Idle
    <3>1. PICK t : t.ctx = task[s].ctx /\ task' = [task EXCEPT ![s] = t]
      BY <1>3 DEF RetrieveTransactions, HeadReply
    <3>2. DOMAIN task = Slots
      BY DEF TypeOK
    <3> QED
      BY <1>2, <3>1, <3>2
  <2>3. OneQuery'
    BY <1>1, <1>2, <2>1, <2>2 DEF OneQuery, Busy
  <2>4. \A c \in Contexts : Concerns(c)' => Concerns(c)
    BY <1>1, <2>1, <2>2 DEF Concerns, Busy
  <2> QED
    BY Zenon, <1>1, <2>3, <2>4 DEF AnswersAreDue, AnsweredOnce
<1>4. CASE LogsReply(s) \/ LogsFail(s)
  <2>1. \E m : m.ctx = task[s].ctx /\ inbox' = Append(inbox, m)
    BY Zenon, <1>4 DEF LogsReply, LogsFail, ReceivedMsg, ScanErrorMsg
  <2>2. PICK m : m.ctx = task[s].ctx /\ inbox' = Append(inbox, m)
    BY <2>1
  <2>3. Len(inbox') = 1 /\ inbox' # <<>> /\ Head(inbox') = m
    BY <1>2, <2>2
  <2>4. \A r \in Slots : task'[r] = Idle
    BY Zenon, <1>2, <1>4 DEF LogsReply, LogsFail, TypeOK
  <2>5. OneQuery'
    BY <1>1, <1>2, <2>3, <2>4 DEF OneQuery, Busy
  <2>6. \A c \in Contexts : Concerns(c)' => Concerns(c)
    BY <1>1, <2>2, <2>3, <2>4 DEF Concerns, Busy
  <2> QED
    BY <1>1, <2>5, <2>6 DEF AnswersAreDue, AnsweredOnce
<1> QED
  BY <1>3, <1>4 DEF Bridge

LEMMA AccountantDue ==
  ASSUME TypeOK, AnswersAreDue, Accountant
  PROVE  AnswersAreDue'
<1>1. inbox # <<>> /\ inbox' = Tail(inbox) /\ UNCHANGED <<task, asked>> /\ Answer(Head(inbox).ctx)
  BY DEF Accountant, ReceivedPayments, ScanError, Received
<1>2. inbox' = <<>> /\ Len(inbox') = 0
  <2>1. inbox \in Seq(Msg) /\ Len(inbox) <= 1
    BY DEF AnswersAreDue, OneQuery, TypeOK
  <2>2. inbox' = <<>>
    BY <1>1, <2>1, OneMessage
  <2> QED
    BY <2>2
<1>3. \A s \in Slots : ~Busy(s)'
  BY <1>1 DEF AnswersAreDue, OneQuery, Busy
<1>4. OneQuery' /\ \A c \in Contexts : ~Concerns(c)'
  BY <1>2, <1>3 DEF OneQuery, Concerns
<1>5. answered \in [Contexts -> Nat] /\ asked \in [Contexts -> Nat]
  BY DEF TypeOK
<1>6. ASSUME NEW c \in Contexts PROVE answered'[c] <= asked'[c]
  <2>1. answered[c] \in Nat /\ asked[c] \in Nat /\ answered[c] <= asked[c]
    BY <1>5 DEF AnswersAreDue, AnsweredOnce
  <2>2. CASE c = Head(inbox).ctx
    <3>1. answered[c] < asked[c]
      BY <1>1, <2>2 DEF AnswersAreDue, Concerns
    <3>2. answered'[c] = answered[c] + 1
      BY <1>1, <1>5, <2>2, ReceivablesAssumption DEF Answer
    <3> QED
      BY <1>1, <2>1, <3>1, <3>2
  <2>3. CASE c # Head(inbox).ctx
    BY <1>1, <1>5, <2>1, <2>3 DEF Answer
  <2> QED
    BY <2>2, <2>3
<1> QED
  BY <1>4, <1>6 DEF AnswersAreDue, AnsweredOnce

LEMMA KillDue ==
  ASSUME AnswersAreDue, Kill
  PROVE  AnswersAreDue'
<1>1. inbox' = <<>> /\ Len(inbox') = 0 /\ (\A s \in Slots : ~Busy(s)') /\ UNCHANGED <<asked, answered>>
  BY DEF Kill, Busy, ui
<1> QED
  BY <1>1 DEF AnswersAreDue, AnsweredOnce, OneQuery, Concerns

\* Under every fault, a UI gets no more answers than it asked for: at most one query is
\* under way, it ends with one message, and a kill forgets both.
THEOREM AnswersWereAsked == Spec => []AnsweredOnce
<1>1. Init => AnswersAreDue
  BY InitDue
<1>2. ASSUME TypeOK, AnswersAreDue, [Next]_vars PROVE AnswersAreDue'
  <2>1. CASE UNCHANGED DialogVars
    BY <1>2, <2>1, DialogFrame
  <2>2. CASE \E d \in Debtors : MoreMoneyReceivable(d) \/ DebtAges(d)
    BY <2>1, <2>2 DEF MoreMoneyReceivable, DebtAges, DialogVars, memory, ui
  <2>3. CASE \E ctx \in Skeletons : ScanForReceivables(ctx)
    BY <1>2, <2>3, ScanDue
  <2>4. CASE \E s \in Slots : Bridge(s)
    BY <1>2, <2>4, BridgeDue
  <2>5. CASE Accountant
    BY <1>2, <2>5, AccountantDue
  <2>6. CASE Kill
    BY <1>2, <2>6, KillDue
  <2>7. CASE MineBlock \/ Reorg \/ SetStartBlock \/ Restart \/ UNCHANGED vars
    BY <2>1, <2>7 DEF MineBlock, Reorg, SetStartBlock, Restart, vars, DialogVars, memory, ui
  <2> QED
    BY <1>2, <2>2, <2>3, <2>4, <2>5, <2>6, <2>7 DEF Next
<1>3. AnswersAreDue => AnsweredOnce
  BY DEF AnswersAreDue
<1> QED
  BY <1>1, <1>2, <1>3, TypeCorrect, PTL DEF Spec

-----------------------------------------------------------------------------
(* The ban cache and the table of bans *)

\* Under every fault, the cache that decides about packages and the table that survives
\* a restart hold the same debtors whenever the Node is running.
THEOREM BansStayEqual == Spec => []BansAgree
<1>1. Init => BansAgree
  BY DEF Init, BansAgree
<1>2. ASSUME BansAgree, [Next]_vars PROVE BansAgree'
  <2>1. CASE UNCHANGED <<bans, node>>
    BY <1>2, <2>1 DEF BansAgree, bans
  <2>2. CASE \E d \in Debtors : MoreMoneyReceivable(d) \/ DebtAges(d)
    BY <2>1, <2>2 DEF MoreMoneyReceivable, DebtAges
  <2>3. CASE \E ctx \in Skeletons : ScanForReceivables(ctx)
    <3>1. PICK ctx \in Skeletons : ScanForReceivables(ctx)
      BY <2>3
    <3>2. CASE ScanForDelinquencies
      <4>1. banCache = banned
        BY <1>2, <3>1 DEF BansAgree, ScanForReceivables
      <4>2. TableWithBans = CacheWithBans
        BY <4>1 DEF TableWithBans, CacheWithBans
      <4> QED
        BY <3>2, <4>2 DEF ScanForDelinquencies, BansAgree
    <3> QED
      BY <3>1, <3>2, <2>1 DEF ScanForReceivables
  <2>4. CASE (\E s \in Slots : Bridge(s)) \/ Accountant
    BY <2>1, <2>4 DEF Bridge, RetrieveTransactions, HeadReply, LogsReply, LogsFail,
                      Accountant, ReceivedPayments, ScanError
  <2>5. CASE MineBlock \/ Reorg \/ SetStartBlock
    BY <2>1, <2>5 DEF MineBlock, Reorg, SetStartBlock
  <2>6. CASE Kill \/ Restart
    BY <2>6 DEF Kill, Restart, Restarted, BansAgree
  <2>7. CASE UNCHANGED vars
    BY <2>1, <2>7 DEF vars, bans
  <2> QED
    BY <1>2, <2>2, <2>3, <2>4, <2>5, <2>6, <2>7 DEF Next
<1> QED
  BY <1>1, <1>2, PTL DEF Spec

=============================================================================
