----------------------- MODULE PaymentsAnswersProof -----------------------
(* Theorems about Payments, for every set of wallets, bound and set of faults: the types are *)
(* as declared, payable scans do not overlap, and a UI is not answered more often than it    *)
(* asked.                                                                                     *)
EXTENDS PaymentsProof

INSTANCE FiniteSetTheorems

\* What the lemmas assume of Cardinality.
LEMMA Counted == CardinalityFacts
<1>1. SizeIsNatural
  BY FS_CardinalityType, FS_EmptySet DEF SizeIsNatural
<1>2. PartIsSmaller
  BY FS_Subset DEF PartIsSmaller
<1>3. ASSUME NEW S, IsFiniteSet(S), NEW f \in [S -> 0 .. Cardinality(S) - 1],
             \A a, b \in S : f[a] = f[b] => a = b, NEW n \in 0 .. Cardinality(S) - 1
      PROVE  \E a \in S : f[a] = n
  <2> DEFINE N == 0 .. Cardinality(S) - 1
  <2>1. IsFiniteSet(N) /\ Cardinality(N) = Cardinality(S)
    <3>1. Cardinality(S) \in Nat
      BY <1>3, FS_CardinalityType
    <3>2. Cardinality(S) - 1 \in Int /\ 0 \in Int
      BY <3>1
    <3>3. IsFiniteSet(N) /\ Cardinality(N) = IF 0 > Cardinality(S) - 1 THEN 0 ELSE Cardinality(S) - 1 - 0 + 1
      BY Zenon, <3>2, FS_Interval
    <3> QED
      BY <3>1, <3>3
  <2>2. f \in Injection(S, N)
    BY Zenon, <1>3 DEF Injection, IsInjective
  <2> HIDE DEF N
  <2>3. Cardinality(S) = Cardinality(N) <=> f \in Surjection(S, N)
    BY ONLY <1>3, <2>1, <2>2, FS_Injection
  <2> QED
    BY <2>1, <2>3 DEF Surjection, N
<1> QED
  BY Zenon, <1>1, <1>2, <1>3 DEF CardinalityFacts, OneToOneIsOnto, OneToOne, Onto

\* Type correctness: in every state the Node reaches, every table, message and future
\* is well formed, whatever fails, and over any number of kills and restarts.
THEOREM TypeCorrect == Spec => []TypeOK
<1>1. TypeOK /\ [Next]_vars => TypeOK'
  BY Counted, TypesInductive
<1> QED
  BY <1>1, InitTyped, PTL DEF Spec

\* Two payable scans never overlap as long as no payment batch fails as a whole: for every
\* number of creditors, futures and conversations, with every other fault, and over kills
\* and restarts.
THEOREM OneScan == Spec => []OneScanAtATime
<1>1. Init => ScanExclusion
  BY DEF Init, ScanExclusion, PayFutures, PayWords, Busy
<1>2. TypeOK /\ (BatchesDoNotFail => ScanExclusion) /\ [Next]_vars
        => (BatchesDoNotFail => ScanExclusion)'
  <2> SUFFICES ASSUME TypeOK, BatchesDoNotFail => ScanExclusion, [Next]_vars, BatchesDoNotFail'
               PROVE  ScanExclusion'
    OBVIOUS
  <2>1. BatchesDoNotFail
    BY WorldIsFixed DEF BatchesDoNotFail
  <2> QED
    BY <2>1, Counted, ExclusionInductive
<1>3. TypeOK /\ (BatchesDoNotFail => ScanExclusion) => OneScanAtATime
  <2> SUFFICES ASSUME TypeOK, BatchesDoNotFail => ScanExclusion PROVE OneScanAtATime
    OBVIOUS
  <2>1. PayMessages \subseteq PayWords(inbox)
    BY DEF PayMessages, PayWords, Word, TypeOK
  <2> QED
    BY <2>1 DEF ScanExclusion, OneScanAtATime
<1> QED
  BY <1>1, <1>2, <1>3, TypeCorrect, PTL DEF Spec

-----------------------------------------------------------------------------
(* The counting behind AnsweredOnce *)

\* The futures, and the messages other than announcements, of a conversation: each of
\* them leads to at most one answer.
Futures(c) == {s \in Slots : Busy(s) /\ task[s].ctx = c}
Speaks(m, c) == m.type # "Seeds" /\ m.ctx = c
Words(q, c) == {i \in 1 .. Len(q) : Speaks(q[i], c)}

\* The answers given and the answers to come are no more than the requests.
Due(c) == answered[c] + Cardinality(Futures(c)) + Cardinality(Words(inbox, c)) <= asked[c]

AnswersAreDue == \A c \in Contexts : Due(c)

LEMMA Finite ==
  ASSUME NEW c
  PROVE  /\ IsFiniteSet(Futures(c)) /\ Cardinality(Futures(c)) \in Nat
         /\ \A q \in Seq(Msg) : IsFiniteSet(Words(q, c)) /\ Cardinality(Words(q, c)) \in Nat
<1>1. IsFiniteSet(Slots)
  BY FS_Interval, PaymentsAssumption DEF Slots
<1>2. Futures(c) \in SUBSET Slots
  BY DEF Futures
<1>3. ASSUME NEW q \in Seq(Msg)
      PROVE  IsFiniteSet(Words(q, c)) /\ Cardinality(Words(q, c)) \in Nat
  <2>1. IsFiniteSet(1 .. Len(q))
    BY FS_Interval
  <2>2. Words(q, c) \in SUBSET (1 .. Len(q))
    BY DEF Words
  <2> QED
    BY <2>1, <2>2, FS_Subset, FS_CardinalityType
<1> QED
  BY <1>1, <1>2, <1>3, FS_Subset, FS_CardinalityType

LEMMA AppendCount ==
  ASSUME NEW q \in Seq(Msg), NEW m \in Msg, NEW c
  PROVE  Cardinality(Words(q \o <<m>>, c)) = Cardinality(Words(q, c)) + (IF Speaks(m, c) THEN 1 ELSE 0)
<1> DEFINE r == q \o <<m>>
<1>1. /\ Len(q) \in Nat /\ Len(r) = Len(q) + 1 /\ r[Len(q) + 1] = m
      /\ \A i \in 1 .. Len(q) : r[i] = q[i]
  OBVIOUS
<1> HIDE DEF r
<1>2. CASE Speaks(m, c)
  <2>1. Words(r, c) = Words(q, c) \cup {Len(q) + 1} /\ Len(q) + 1 \notin Words(q, c)
    BY <1>1, <1>2 DEF Words
  <2> QED
    BY ZenonT(40), <1>2, <2>1, Finite, FS_AddElement DEF r
<1>3. CASE ~Speaks(m, c)
  <2>1. Words(r, c) = Words(q, c)
    BY <1>1, <1>3 DEF Words
  <2> QED
    <3>1. Cardinality(Words(q, c)) \in Nat
      BY Finite
    <3>2. Cardinality(Words(q \o <<m>>, c)) = Cardinality(Words(q, c))
      BY <2>1 DEF r
    <3> QED
      BY <1>3, <3>1, <3>2
<1> QED
  BY <1>2, <1>3

LEMMA TailCount ==
  ASSUME NEW q \in Seq(Msg), q # <<>>, NEW c
  PROVE  Cardinality(Words(q, c)) = Cardinality(Words(Tail(q), c)) + (IF Speaks(Head(q), c) THEN 1 ELSE 0)
<1> DEFINE r == Tail(q)
           S == Words(r, c)
           T == Words(q, c) \ {1}
           f == [i \in S |-> i + 1]
<1>1. /\ Len(q) \in Nat /\ Len(q) > 0 /\ Len(r) = Len(q) - 1 /\ Head(q) = q[1]
      /\ r \in Seq(Msg) /\ \A i \in 1 .. Len(r) : r[i] = q[i + 1]
  OBVIOUS
<1> HIDE DEF r
<1>2. \A i \in S : i \in Nat /\ i + 1 \in T
  BY <1>1 DEF Words
<1>3. \A j \in T : j - 1 \in S /\ j \in Int
  BY <1>1 DEF Words
<1> HIDE DEF S, T
<1>4. f \in Injection(S, T)
  BY <1>2 DEF Injection, IsInjective
<1>5. f \in Surjection(S, T)
  <2>1. \A j \in T : f[j - 1] = j
    BY <1>3
  <2> QED
    BY <1>2, <1>3, <2>1 DEF Surjection
<1>6. ExistsBijection(S, T)
  BY <1>4, <1>5 DEF ExistsBijection, Bijection
<1>7. IsFiniteSet(S) /\ Cardinality(T) = Cardinality(S)
  BY Zenon, <1>1, <1>6, Finite, FS_Bijection DEF S
<1>8. Cardinality(T) = IF 1 \in Words(q, c) THEN Cardinality(Words(q, c)) - 1
                                            ELSE Cardinality(Words(q, c))
  BY Zenon, Finite, FS_RemoveElement DEF T
<1>9. 1 \in Words(q, c) <=> Speaks(Head(q), c)
  BY <1>1 DEF Words
<1>10. Cardinality(Words(q, c)) \in Nat
  BY Zenon, Finite
<1> QED
  BY <1>7, <1>8, <1>9, <1>10 DEF S, r

\* A slot that is given another future, or none.
LEMMA FutureCount ==
  ASSUME TypeOK, NEW s \in Slots, NEW next, task' = [task EXCEPT ![s] = next], NEW c
  PROVE  Cardinality(Futures(c)') + (IF Busy(s) /\ task[s].ctx = c THEN 1 ELSE 0)
           = Cardinality(Futures(c)) + (IF next # Idle /\ next.ctx = c THEN 1 ELSE 0)
<1>1. task'[s] = next /\ \A t \in Slots : t # s => task'[t] = task[t]
  BY DEF TypeOK
<1>2. Futures(c)' \ {s} = Futures(c) \ {s}
  BY <1>1 DEF Futures, Busy
<1>3. (s \in Futures(c) <=> Busy(s) /\ task[s].ctx = c)
      /\ (s \in Futures(c)' <=> next # Idle /\ next.ctx = c)
  BY <1>1 DEF Futures, Busy
<1>4. IsFiniteSet(Futures(c)) /\ Cardinality(Futures(c)) \in Nat
  BY Finite
<1>5. IsFiniteSet(Futures(c)') /\ Cardinality(Futures(c)') \in Nat
  <2>1. IsFiniteSet(Slots) /\ Futures(c)' \in SUBSET Slots
    BY FS_Interval, PaymentsAssumption DEF Slots, Futures
  <2> QED
    BY <2>1, FS_Subset, FS_CardinalityType
<1>6. Cardinality(Futures(c) \ {s}) = IF s \in Futures(c) THEN Cardinality(Futures(c)) - 1
                                                          ELSE Cardinality(Futures(c))
  BY Zenon, <1>4, FS_RemoveElement
<1>7. Cardinality(Futures(c)' \ {s}) = IF s \in Futures(c)' THEN Cardinality(Futures(c)') - 1
                                                            ELSE Cardinality(Futures(c)')
  BY Zenon, <1>5, FS_RemoveElement
<1>8. Cardinality(Futures(c)' \ {s}) = Cardinality(Futures(c) \ {s})
  BY <1>2
<1>9. Cardinality(Futures(c) \ {s}) + (IF s \in Futures(c) THEN 1 ELSE 0) = Cardinality(Futures(c))
  BY <1>4, <1>6
<1>10. Cardinality(Futures(c) \ {s}) + (IF s \in Futures(c)' THEN 1 ELSE 0) = Cardinality(Futures(c)')
  BY <1>5, <1>7, <1>8
<1>11. Cardinality(Futures(c) \ {s}) \in Int
  BY <1>4, <1>6
<1> QED
  BY <1>3, <1>9, <1>10, <1>11

\* A free slot that is given a future of conversation ctx.
LEMMA NewFutureCount ==
  ASSUME TypeOK, NEW ctx, NEW c,
         \E s \in Slots : \E next : ~Busy(s) /\ next.ctx = ctx /\ task' = [task EXCEPT ![s] = next]
  PROVE  /\ Cardinality(Futures(c)') \in Nat
         /\ Cardinality(Futures(c)') <= Cardinality(Futures(c)) + (IF ctx = c THEN 1 ELSE 0)
<1>0. PICK s \in Slots : \E next : ~Busy(s) /\ next.ctx = ctx /\ task' = [task EXCEPT ![s] = next]
  BY Zenon
<1>1. PICK next : ~Busy(s) /\ next.ctx = ctx /\ task' = [task EXCEPT ![s] = next]
  BY Zenon, <1>0
<1>2. Cardinality(Futures(c)') + (IF Busy(s) /\ task[s].ctx = c THEN 1 ELSE 0)
        = Cardinality(Futures(c)) + (IF next # Idle /\ next.ctx = c THEN 1 ELSE 0)
  BY Zenon, <1>1, FutureCount
<1>3. Cardinality(Futures(c)') \in Nat
  <2>1. IsFiniteSet(Slots) /\ Futures(c)' \in SUBSET Slots
    BY FS_Interval, PaymentsAssumption DEF Slots, Futures
  <2> QED
    BY <2>1, FS_Subset, FS_CardinalityType
<1>4. Cardinality(Futures(c)) \in Nat
  BY Finite
<1> QED
  BY <1>1, <1>2, <1>3, <1>4

LEMMA Counts ==
  ASSUME TypeOK, NEW c \in Contexts
  PROVE  /\ answered[c] \in Nat /\ asked[c] \in Nat
         /\ Cardinality(Futures(c)) \in Nat /\ Cardinality(Words(inbox, c)) \in Nat
<1>1. inbox \in Seq(Msg) /\ answered \in [Contexts -> Nat] /\ asked \in [Contexts -> Nat]
  BY DEF TypeOK
<1> QED
  BY Zenon, <1>1, Finite

LEMMA NoUiApart == NoUi \notin Contexts
BY PaymentsAssumption

LEMMA DueFrame ==
  ASSUME AnswersAreDue, UNCHANGED <<task, inbox, asked, answered>>
  PROVE  AnswersAreDue'
BY DEF AnswersAreDue, Due, Futures, Words, Busy

\* A scan is asked for; it may begin, with one future.
LEMMA AskDue ==
  ASSUME TypeOK, AnswersAreDue, NEW ctx \in Skeletons, Ask(ctx), UNCHANGED <<inbox, answered>>,
         \/ UNCHANGED task
         \/ \E s \in Slots : \E next : ~Busy(s) /\ next.ctx = ctx /\ task' = [task EXCEPT ![s] = next]
  PROVE  AnswersAreDue'
<1> SUFFICES ASSUME NEW c \in Contexts PROVE Due(c)'
  BY DEF AnswersAreDue
<1>c. /\ answered[c] \in Nat /\ asked[c] \in Nat
      /\ Cardinality(Futures(c)) \in Nat /\ Cardinality(Words(inbox, c)) \in Nat
  BY Counts
<1>0. asked \in [Contexts -> Nat] /\ asked[c] \in Nat
  BY <1>c DEF TypeOK
<1>1. asked'[c] = asked[c] + (IF c = ctx THEN 1 ELSE 0)
  <2>1. CASE ctx = NoUi /\ UNCHANGED asked
    BY <1>0, <2>1, NoUiApart
  <2>2. CASE ctx \in Contexts /\ asked' = [asked EXCEPT ![ctx] = @ + 1]
    BY <1>0, <2>2
  <2> QED
    BY <2>1, <2>2 DEF Ask
<1>2. Cardinality(Futures(c)') \in Nat /\ Cardinality(Futures(c)') <= Cardinality(Futures(c)) + (IF ctx = c THEN 1 ELSE 0)
  <2>1. CASE UNCHANGED task
    <3>1. Futures(c)' = Futures(c)
      BY <2>1 DEF Futures, Busy
    <3> QED
      BY <3>1, <1>c
  <2>2. CASE \E s \in Slots : \E next : ~Busy(s) /\ next.ctx = ctx /\ task' = [task EXCEPT ![s] = next]
    BY Zenon, <2>2, NewFutureCount
  <2> QED
    BY <2>1, <2>2
<1>3. Words(inbox, c)' = Words(inbox, c)
  BY DEF Words
<1>4. Due(c)
  BY DEF AnswersAreDue
<1> QED
  BY <1>1, <1>2, <1>3, <1>4, <1>c DEF Due

\* A future either ends with one message of its conversation, or goes on and at most
\* announces fingerprints.
LEMMA StepDue ==
  ASSUME TypeOK, AnswersAreDue, NEW s \in Slots, Busy(s),
         NEW next, NEW m \in Msg, Step(s, next, <<m>>),
         \/ next = Idle /\ m.ctx = task[s].ctx
         \/ next.ctx = task[s].ctx /\ m.type = "Seeds"
  PROVE  AnswersAreDue'
<1> SUFFICES ASSUME NEW c \in Contexts PROVE Due(c)'
  BY DEF AnswersAreDue
<1>c. /\ answered[c] \in Nat /\ asked[c] \in Nat
      /\ Cardinality(Futures(c)) \in Nat /\ Cardinality(Words(inbox, c)) \in Nat
  BY Counts
<1>1. UNCHANGED <<asked, answered>> /\ inbox \in Seq(Msg)
  BY DEF Step, ui, TypeOK
<1>2. Cardinality(Futures(c)') + (IF task[s].ctx = c THEN 1 ELSE 0)
        = Cardinality(Futures(c)) + (IF next # Idle /\ next.ctx = c THEN 1 ELSE 0)
  BY ZenonT(40), FutureCount DEF Step
<1>3. Cardinality(Words(inbox', c)) = Cardinality(Words(inbox, c)) + (IF Speaks(m, c) THEN 1 ELSE 0)
  BY <1>1, AppendCount DEF Step
<1>4. Words(inbox, c)' = Words(inbox', c)
  BY DEF Words
<1>5. Cardinality(Futures(c)') \in Nat
  <2>1. IsFiniteSet(Slots) /\ Futures(c)' \in SUBSET Slots
    BY FS_Interval, PaymentsAssumption DEF Slots, Futures
  <2> QED
    BY <2>1, FS_Subset, FS_CardinalityType
<1>6. Due(c)
  BY DEF AnswersAreDue
<1>7. (IF next # Idle /\ next.ctx = c THEN 1 ELSE 0) + (IF Speaks(m, c) THEN 1 ELSE 0) <= (IF task[s].ctx = c THEN 1 ELSE 0)
  BY DEF Speaks
<1>a. answered'[c] = answered[c] /\ asked'[c] = asked[c]
  BY <1>1
<1>8. /\ (IF next # Idle /\ next.ctx = c THEN 1 ELSE 0) \in Nat /\ (IF Speaks(m, c) THEN 1 ELSE 0) \in Nat
      /\ (IF task[s].ctx = c THEN 1 ELSE 0) \in Nat
  OBVIOUS
<1> QED
  BY SMTT(30), <1>a, <1>2, <1>3, <1>4, <1>5, <1>6, <1>7, <1>8, <1>c DEF Due

\* A submitted batch waits for its reply: no message is sent.
LEMMA SilentStepDue ==
  ASSUME TypeOK, AnswersAreDue, NEW s \in Slots, Busy(s),
         NEW next, Step(s, next, <<>>), next.ctx = task[s].ctx
  PROVE  AnswersAreDue'
<1> SUFFICES ASSUME NEW c \in Contexts PROVE Due(c)'
  BY DEF AnswersAreDue
<1>c. /\ answered[c] \in Nat /\ asked[c] \in Nat
      /\ Cardinality(Futures(c)) \in Nat /\ Cardinality(Words(inbox, c)) \in Nat
  BY Counts
<1>1. UNCHANGED <<asked, answered>> /\ inbox' = inbox
  <2>1. inbox \o <<>> = inbox
    BY AppendNothing DEF TypeOK
  <2> QED
    BY <2>1 DEF Step, ui
<1>2. \A t \in Slots : task'[t] # Idle /\ task'[t].ctx = c => task[t] # Idle /\ task[t].ctx = c
  BY DEF Step, TypeOK, Busy
<1>3. Futures(c)' \subseteq Futures(c)
  BY <1>2 DEF Futures, Busy
<1>4. Cardinality(Futures(c)') \in Nat /\ Cardinality(Futures(c)') <= Cardinality(Futures(c))
  BY <1>3, Finite, FS_Subset, FS_CardinalityType
<1>5. Words(inbox, c)' = Words(inbox, c)
  BY <1>1 DEF Words
<1>6. Due(c)
  BY DEF AnswersAreDue
<1> QED
  BY SMTT(30), <1>1, <1>4, <1>5, <1>6, <1>c DEF Due

LEMMA BridgeDue ==
  ASSUME BatchesDoNotFail, TypeOK, AnswersAreDue, NEW s \in Slots, Bridge(s)
  PROVE  AnswersAreDue'
<1>a. ASSUME Busy(s), NEW m \in Msg, m.ctx = task[s].ctx, Step(s, Idle, <<m>>)
      PROVE  AnswersAreDue'
  BY <1>a, StepDue
<1>1. CASE BuildAgent(s)
  <2>1. Busy(s) /\ task[s].kind = "agent"
    BY SMTT(30), <1>1 DEF BuildAgent, Runs
  <2>2. \A gas \in GasPrices : /\ AgentMsg(task[s].accounts, gas, task[s].ctx) \in Msg
                               /\ AgentMsg(task[s].accounts, gas, task[s].ctx).ctx = task[s].ctx
    BY SMTT(30), TaskFields, <2>1 DEF AgentMsg, Msg
  <2>3. /\ ScanErrorMsg("payables", task[s].ctx) \in Msg
        /\ ScanErrorMsg("payables", task[s].ctx).ctx = task[s].ctx
    BY TaskFields, <2>1 DEF ScanErrorMsg, Msg
  <2>4. CASE Step(s, Idle, <<ScanErrorMsg("payables", task[s].ctx)>>)
    BY <1>a, <2>1, <2>3, <2>4
  <2>5. ASSUME NEW gas \in GasPrices, Step(s, Idle, <<AgentMsg(task[s].accounts, gas, task[s].ctx)>>)
        PROVE  AnswersAreDue'
    BY <1>a, <2>1, <2>2, <2>5
  <2> QED
    BY ZenonT(40), <1>1, <2>4, <2>5 DEF BuildAgent, AgentFailure
<1>2. CASE FetchNonceAndSign(s)
  <2>1. Busy(s) /\ task[s].kind = "nonce"
    BY SMTT(30), <1>2 DEF FetchNonceAndSign, Runs
  <2>2. PICK first \in Nonces :
          /\ first + Cardinality(task[s].accounts) <= world.maxNonce
          /\ LET txs == SignedTxs(task[s].accounts, task[s].gas, first)
             IN  Step(s, [kind |-> "submit", txs |-> txs, ctx |-> task[s].ctx], Announcement(txs))
    BY SMTT(30), <1>2 DEF FetchNonceAndSign, BatchesDoNotFail
  <2> DEFINE txs == SignedTxs(task[s].accounts, task[s].gas, first)
             next == [kind |-> "submit", txs |-> txs, ctx |-> task[s].ctx]
  <2>3. txs \in Batch(Tx)
    BY SMTT(30), TaskFields, <2>1, <2>2, Counted, SignedTxsTyped
  <2>4. Step(s, next, <<SeedsMsg(txs)>>)
    BY <2>2 DEF Announcement
  <2> HIDE DEF txs
  <2>5. next.ctx = task[s].ctx /\ SeedsMsg(txs) \in Msg /\ SeedsMsg(txs).type = "Seeds"
    BY <2>3 DEF SeedsMsg, Msg
  <2> HIDE DEF next
  <2> QED
    BY SMTT(30), <2>1, <2>4, <2>5, StepDue
<1>3. CASE SubmitBatch(s)
  <2>1. Busy(s)
    BY <1>3 DEF SubmitBatch, Runs
  <2>2. PICK next : Step(s, next, <<>>) /\ next.ctx = task[s].ctx
    BY SMTT(30), <1>3 DEF SubmitBatch
  <2> QED
    BY SMTT(30), <2>1, <2>2, SilentStepDue
<1>4. CASE BatchReply(s)
  <2>1. Busy(s) /\ task[s].kind = "reply"
    BY <1>4 DEF BatchReply, Runs
  <2>2. Step(s, Idle, <<SentMsg(task[s].oks, task[s].fails, task[s].ctx)>>)
    BY SMTT(30), <1>4 DEF BatchReply, BatchesDoNotFail
  <2>3. /\ SentMsg(task[s].oks, task[s].fails, task[s].ctx) \in Msg
        /\ SentMsg(task[s].oks, task[s].fails, task[s].ctx).ctx = task[s].ctx
    BY TaskFields, <2>1 DEF SentMsg, Msg
  <2> QED
    BY SMTT(30), <1>a, <2>1, <2>2, <2>3
<1>5. CASE BatchFails(s)
  BY <1>5 DEF BatchFails, BatchesDoNotFail
<1>6. CASE FetchReceipts(s)
  <2>1. Busy(s) /\ task[s].kind = "receipts"
    BY SMTT(30), <1>6 DEF FetchReceipts, Runs
  <2>2. \A c, f, t \in SUBSET task[s].snapshot :
          /\ ReceiptsMsg(c, f, t, task[s].ctx) \in Msg
          /\ ReceiptsMsg(c, f, t, task[s].ctx).ctx = task[s].ctx
    BY SMTT(30), TaskFields, <2>1, BatchSubset DEF ReceiptsMsg, Msg
  <2>3. /\ ScanErrorMsg("pendingPayables", task[s].ctx) \in Msg
        /\ ScanErrorMsg("pendingPayables", task[s].ctx).ctx = task[s].ctx
    BY SMTT(30), TaskFields, <2>1 DEF ScanErrorMsg, Msg
  <2>4. CASE Step(s, Idle, <<ScanErrorMsg("pendingPayables", task[s].ctx)>>)
    BY <1>a, <2>1, <2>3, <2>4
  <2>5. ASSUME NEW unread \in SUBSET task[s].snapshot,
               LET read      == task[s].snapshot \ unread
                   confirmed == {f \in read : f.tx \in succeeded}
                   failures  == {f \in read : f.tx \in failed}
               IN  Step(s, Idle, <<ReceiptsMsg(confirmed, failures,
                          task[s].snapshot \ (confirmed \cup failures), task[s].ctx)>>)
        PROVE  AnswersAreDue'
    <3>1. \E m \in Msg : Step(s, Idle, <<m>>) /\ m.ctx = task[s].ctx
      BY SMTT(30), <2>2, <2>5
    <3> QED
      BY SMTT(30), <1>a, <2>1, <3>1
  <2> QED
    BY ZenonT(40), <1>6, <2>4, <2>5 DEF FetchReceipts
<1> QED
  BY SMTT(30), <1>1, <1>2, <1>3, <1>4, <1>5, <1>6 DEF Bridge

\* A message is taken off the mailbox: its conversation gets an answer, or a future
\* takes the conversation over.
LEMMA ServeDue ==
  ASSUME TypeOK, AnswersAreDue, inbox # <<>>, inbox' = Tail(inbox), UNCHANGED asked,
         \/ /\ Head(inbox).type # "Seeds"
            /\ Answer(Head(inbox).ctx) /\ UNCHANGED task
         \/ Head(inbox).type = "Seeds" /\ UNCHANGED <<answered, task>>
         \/ /\ Head(inbox).type # "Seeds" /\ UNCHANGED answered
            /\ \E s \in Slots : \E next :
                 ~Busy(s) /\ next.ctx = Head(inbox).ctx /\ task' = [task EXCEPT ![s] = next]
  PROVE  AnswersAreDue'
<1> SUFFICES ASSUME NEW c \in Contexts PROVE Due(c)'
  BY DEF AnswersAreDue
<1>c. /\ answered[c] \in Nat /\ asked[c] \in Nat
      /\ Cardinality(Futures(c)) \in Nat /\ Cardinality(Words(inbox, c)) \in Nat
  BY Counts
<1>1. inbox \in Seq(Msg) /\ Tail(inbox) \in Seq(Msg) /\ answered \in [Contexts -> Nat]
  BY DEF TypeOK
<1>2. Cardinality(Words(inbox, c))
        = Cardinality(Words(inbox', c)) + (IF Speaks(Head(inbox), c) THEN 1 ELSE 0)
  BY <1>1, TailCount
<1>3. Words(inbox, c)' = Words(inbox', c)
  BY DEF Words
<1>4. Cardinality(Words(inbox', c)) \in Nat
  BY ZenonT(40), <1>1, Finite
<1>5. Due(c) /\ asked'[c] = asked[c]
  BY DEF AnswersAreDue
<1>6. UNCHANGED task => Futures(c)' = Futures(c)
  BY SMTT(30) DEF Futures, Busy
<1>7. CASE Head(inbox).type # "Seeds" /\ Answer(Head(inbox).ctx) /\ UNCHANGED task
  <2>1. answered'[c] = answered[c] + (IF Speaks(Head(inbox), c) THEN 1 ELSE 0)
    BY SMTT(30), <1>1, <1>7, NoUiApart DEF Answer, Speaks
  <2>2. Cardinality(Futures(c)') = Cardinality(Futures(c))
    BY SMTT(30), <1>6, <1>7
  <2> QED
    BY SMTT(30), <1>2, <1>3, <1>4, <1>5, <1>c, <2>1, <2>2 DEF Due
<1>8. CASE Head(inbox).type = "Seeds" /\ UNCHANGED <<answered, task>>
  <2>1. ~Speaks(Head(inbox), c) /\ answered'[c] = answered[c]
    BY <1>8 DEF Speaks
  <2>2. Cardinality(Futures(c)') = Cardinality(Futures(c))
    BY SMTT(30), <1>6, <1>8
  <2> QED
    BY SMTT(30), <1>2, <1>3, <1>4, <1>5, <1>c, <2>1, <2>2 DEF Due
<1>9. CASE /\ Head(inbox).type # "Seeds" /\ UNCHANGED answered
           /\ \E s \in Slots : \E next :
                ~Busy(s) /\ next.ctx = Head(inbox).ctx /\ task' = [task EXCEPT ![s] = next]
  <2>1. /\ Cardinality(Futures(c)') \in Nat
        /\ Cardinality(Futures(c)') <= Cardinality(Futures(c)) + (IF Head(inbox).ctx = c THEN 1 ELSE 0)
    BY Zenon, <1>9, NewFutureCount
  <2>2. Speaks(Head(inbox), c) <=> Head(inbox).ctx = c
    BY SMTT(30), <1>9 DEF Speaks
  <2>3. Cardinality(Futures(c)') + Cardinality(Words(inbox', c))
          <= Cardinality(Futures(c)) + Cardinality(Words(inbox, c))
    BY SMTT(30), <1>2, <1>4, <1>c, <2>1, <2>2
  <2>4. answered'[c] = answered[c]
    BY <1>9
  <2> QED
    BY SMTT(30), <1>3, <1>4, <1>5, <1>c, <2>1, <2>3, <2>4 DEF Due
<1> QED
  BY <1>7, <1>8, <1>9

LEMMA StoppedDue ==
  ASSUME TypeOK, AnswersAreDue, NEW how, Stop(how), UNCHANGED ui
  PROVE  AnswersAreDue'
<1> SUFFICES ASSUME NEW c \in Contexts PROVE Due(c)'
  BY DEF AnswersAreDue
<1>c. /\ answered[c] \in Nat /\ asked[c] \in Nat
      /\ Cardinality(Futures(c)) \in Nat /\ Cardinality(Words(inbox, c)) \in Nat
  BY Counts
<1>1. Futures(c)' = {} /\ Words(inbox, c)' = {}
  BY DEF Stop, Futures, Words, Busy
<1>2. Due(c)
  BY DEF AnswersAreDue
<1> QED
  BY <1>1, <1>2, <1>c, FS_EmptySet DEF Due, ui

LEMMA AccountantDue ==
  ASSUME TypeOK, AnswersAreDue, Accountant
  PROVE  AnswersAreDue'
<1>1. CASE PayablePaymentSetup
  <2>1. inbox # <<>> /\ Head(inbox).type = "Agent" /\ inbox' = Tail(inbox) /\ UNCHANGED <<asked, answered>>
    BY <1>1 DEF PayablePaymentSetup, Received, ui
  <2>2. \E s \in Slots : \E next :
          ~Busy(s) /\ next.ctx = Head(inbox).ctx /\ task' = [task EXCEPT ![s] = next]
    BY ZenonT(40), <1>1 DEF PayablePaymentSetup, FreeSlot
  <2> QED
    BY ZenonT(40), <2>1, <2>2, ServeDue
<1>2. CASE NewPendingPayableFingerprints
  BY SMTT(30), <1>2, ServeDue DEF NewPendingPayableFingerprints, Received, ui
<1>3. CASE SentPayables
  <2>1. inbox # <<>> /\ Head(inbox).type = "Sent" /\ UNCHANGED asked
    BY <1>3 DEF SentPayables, Received
  <2>2. CASE inbox' = Tail(inbox) /\ Answer(Head(inbox).ctx) /\ UNCHANGED task
    BY <2>1, <2>2, ServeDue
  <2>3. CASE Stop("panicked") /\ UNCHANGED answered
    BY SMTT(30), <2>1, <2>3, StoppedDue DEF ui
  <2> QED
    BY SMTT(30), <1>3, <2>2, <2>3 DEF SentPayables
<1>4. CASE ScanError
  BY <1>4, ServeDue DEF ScanError, Received
<1>5. CASE TransactionReceipts
  <2>1. inbox # <<>> /\ Head(inbox).type = "Receipts" /\ UNCHANGED asked
    BY <1>5 DEF TransactionReceipts, Received
  <2>2. CASE inbox' = Tail(inbox) /\ Answer(Head(inbox).ctx) /\ UNCHANGED task
    BY <2>1, <2>2, ServeDue
  <2>3. CASE Stop("panicked") /\ UNCHANGED answered
    BY <2>1, <2>3, StoppedDue DEF ui
  <2> QED
    BY <1>5, <2>2, <2>3 DEF TransactionReceipts
<1> QED
  BY <1>1, <1>2, <1>3, <1>4, <1>5 DEF Accountant

\* Unless a batch fails as a whole, no conversation of a UI gets more answers than it made
\* requests: each request starts at most one future, each future and each message of the
\* bridge leads to at most one message or answer, and a kill or a panic drops them.
THEOREM AnswersWereAsked == Spec => []AnsweredOnce
<1>1. Init => AnswersAreDue
  <2> SUFFICES ASSUME Init, NEW c \in Contexts PROVE Due(c)
    BY DEF AnswersAreDue
  <2>1. Futures(c) = {} /\ Words(inbox, c) = {} /\ answered[c] = 0 /\ asked[c] = 0
    BY DEF Init, Futures, Words, Busy
  <2> QED
    BY <2>1, FS_EmptySet DEF Due
<1>2. ASSUME BatchesDoNotFail, TypeOK, AnswersAreDue, [Next]_vars
      PROVE  AnswersAreDue'
  <2>1. ASSUME UNCHANGED <<memory, ui>> PROVE AnswersAreDue'
    BY <1>2, <2>1, DueFrame DEF memory, ui
  <2>2. ASSUME NEW ctx \in Skeletons, ScanForPayables(ctx) \/ ScanForPendingPayables(ctx)
        PROVE  AnswersAreDue'
    <3>1. Ask(ctx) /\ UNCHANGED <<inbox, answered>>
      BY <2>2 DEF ScanForPayables, ScanForPendingPayables, memory
    <3>2. \/ UNCHANGED task
          \/ \E s \in Slots : \E next :
               ~Busy(s) /\ next.ctx = ctx /\ task' = [task EXCEPT ![s] = next]
      BY Zenon, <2>2 DEF ScanForPayables, ScanForPendingPayables, memory, FreeSlot
    <3> QED
      BY SMTT(30), <1>2, <3>1, <3>2, AskDue
  <2>3. ASSUME NEW s \in Slots, Bridge(s) PROVE AnswersAreDue'
    BY <1>2, <2>3, BridgeDue
  <2>4. CASE Accountant
    BY <1>2, <2>4, AccountantDue
  <2>5. CASE Kill
    BY SMTT(30), <1>2, <2>5, StoppedDue DEF Kill
  <2>6. ASSUME \/ \E w \in Wallets : MoreMoneyPayable(w) \/ DebtAges(w)
               \/ UpdateWallets \/ \E tx \in mempool : Mine(tx)
               \/ Restart \/ UNCHANGED vars
        PROVE  UNCHANGED <<memory, ui>>
    BY <2>6 DEF MoreMoneyPayable, DebtAges, UpdateWallets, Mine, Restart, vars
  <2> QED
    BY SMTT(30), <1>2, <2>1, <2>2, <2>3, <2>4, <2>5, <2>6 DEF Next
<1>3. TypeOK /\ (BatchesDoNotFail => AnswersAreDue) /\ [Next]_vars
        => (BatchesDoNotFail => AnswersAreDue)'
  <2> SUFFICES ASSUME TypeOK, BatchesDoNotFail => AnswersAreDue, [Next]_vars, BatchesDoNotFail'
               PROVE  AnswersAreDue'
    OBVIOUS
  <2>1. BatchesDoNotFail
    BY WorldIsFixed DEF BatchesDoNotFail
  <2> QED
    BY <1>2, <2>1
<1>4. TypeOK /\ (BatchesDoNotFail => AnswersAreDue) => AnsweredOnce
  <2> SUFFICES ASSUME TypeOK, AnswersAreDue, NEW c \in Contexts PROVE answered[c] <= asked[c]
    BY DEF AnsweredOnce
  <2> QED
    BY Counts DEF AnswersAreDue, Due
<1> QED
  BY <1>1, <1>3, <1>4, TypeCorrect, PTL DEF Spec
=============================================================================
