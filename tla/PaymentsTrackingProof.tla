----------------------- MODULE PaymentsTrackingProof -----------------------
(* Payments are tracked until they are settled: theorems about Payments, for every set of *)
(* wallets, bound and set of faults.                                                       *)
EXTENDS PaymentsProof

\* A creditor who may be paid: nothing on the chain is left to be settled.
Free(w) == w \in Wallets /\ pending[w] = NoRow /\ \A t \in OnChain \ settled : t.wallet # w

\* The account of a payment waits for it.
Shown(t) == \E f \in fingerprints : f.rowid = pending[t.wallet] /\ f.tx = t

\* The Accountant has yet to hear that this payment was accepted.
Awaited(t) == \/ \E k \in Running : k.kind = "reply" /\ t \in k.oks
              \/ \E m \in Mail : m.type = "Sent" /\ t \in m.oks

Accepted(t) == t \in OnChain /\ pending[t.wallet] = NoRow

TaskIsDue(k) ==
  /\ k.kind \in {"agent", "nonce"} => \A a \in k.accounts : Free(a.wallet)
  /\ k.kind = "submit" => \A t \in k.txs : Free(t.wallet)
  /\ k.kind = "reply" => \A t \in k.oks : Accepted(t)

MsgIsDue(m) ==
  /\ m.type = "Agent" => \A a \in m.accounts : Free(a.wallet)
  /\ m.type = "Sent" => \A t \in m.oks : Accepted(t)

OnePerCreditor == \A t, u \in OnChain \ settled : t.wallet = u.wallet => t = u

\* What holds, further, as long as the Node has not stopped: every payment on the chain is either
\* one the Accountant will hear of or one an account waits for, and who is about to be paid is free.
DebtsInv ==
  /\ \A t \in OnChain \ settled : Awaited(t) \/ Shown(t)
  /\ \A k \in Running : TaskIsDue(k)
  /\ \A m \in Mail : MsgIsDue(m)

\* The batches under way, and the announcements of fingerprints.
Batches == {k.txs : k \in {j \in Running : j.kind = "submit"}}
           \cup {k.oks : k \in {j \in Running : j.kind = "reply"}}
           \cup {m.oks : m \in {n \in Mail : n.type = "Sent"}}
Submitting == UNION {k.txs : k \in {j \in Running : j.kind = "submit"}}
Announced == UNION {m.txs : m \in {n \in Mail : n.type = "Seeds"}}

\* One announcement at a time, and ahead of what is heard about the submission.
SeedsIn(q) == {i \in 1 .. Len(q) : q[i].type = "Seeds"}
InOrder(q) == /\ \A i, j \in SeedsIn(q) : i = j
              /\ \A i \in 1 .. Len(q), j \in SeedsIn(q) : q[i].type = "Sent" => j < i

Tracked == (mempool \cup succeeded) \ settled \subseteq KnownHashes \cup Announced

\* The announcement of a batch under way is in the mailbox or its fingerprints are stored; no
\* payment has two fingerprints, or one after it was settled.
TrackingInv ==
  /\ \A f, g \in fingerprints : f.tx = g.tx => f = g
  /\ settled \subseteq OnChain /\ settled \cap (KnownHashes \cup Announced) = {}
  /\ KnownHashes \subseteq OnChain \cup Submitting
  /\ KnownHashes \cap Announced = {}
  /\ \A m \in Mail : m.type = "Seeds" => m.txs \in Batches
  /\ \A B \in Batches : B \subseteq KnownHashes \/ SeedsMsg(B) \in Mail
  /\ InOrder(inbox)
  /\ \A m \in Mail : m.type = "Receipts" => \A f \in m.confirmed : f.tx \in succeeded

-----------------------------------------------------------------------------
(* Rows are not deleted while an account waits for them *)

\* Settling leaves an account waiting unless it releases it.
LEMMA ConfirmedPending ==
  ASSUME NEW fs, TransactionsConfirmed(fs), NEW w \in Wallets
  PROVE  \/ pending'[w] = NoRow
         \/ pending'[w] = pending[w] /\ pending[w] \notin Rows(fs)
BY Zenon DEF TransactionsConfirmed, Rows

\* The payments signed from the pending nonce on continue the nonces in use.
LEMMA SignedContinues ==
  ASSUME CardinalityFacts, NoncesAreDense, NEW accounts \in Batch(Account), OnePerWallet(accounts),
         NEW gas,
         NEW first \in Nat, PendingNonce(first), NEW txs, txs = SignedTxs(accounts, gas, first)
  PROVE  Continues(txs)
<1>1. \A t \in txs : /\ t.nonce \in Nat /\ t.nonce >= first
                     /\ \A i \in first .. t.nonce - 1 : \E u \in txs : u.nonce = i
  BY SignedInLine
<1>2. ASSUME NEW t \in txs, Taken(t.nonce) PROVE FALSE
  <2>1. PICK v \in OnChain : v.nonce = t.nonce
    BY Zenon, <1>2 DEF Taken
  <2>2. t.nonce # first
    BY Zenon, <1>2 DEF PendingNonce
  <2>3. first \in 0 .. v.nonce - 1
    BY <1>1, <2>1, <2>2
  <2>4. Taken(first)
    BY Zenon, <2>3 DEF NoncesAreDense
  <2> QED
    BY Zenon, <2>4 DEF PendingNonce
<1>3. ASSUME NEW t \in txs, NEW i \in 0 .. t.nonce - 1
      PROVE  Taken(i) \/ \E u \in txs : u.nonce = i
  <2>1. CASE i < first
    BY <1>1, <2>1 DEF PendingNonce
  <2>2. CASE i >= first
    BY <1>1, <2>2
  <2> QED
    BY <2>1, <2>2
<1> QED
  BY Zenon, <1>2, <1>3 DEF Continues

\* The rows stay in order whatever else fails.
LEMMA RowsInductive ==
  /\ CardinalityFacts /\ RowidsAreStable /\ TypeOK
  /\ ScanExclusion /\ PendExclusion /\ RowsInv /\ [Next]_vars
  => RowsInv'

\* More fingerprints, and the same nonces in use, leave what is under way sound.
<1>SoundKept.
    ASSUME OnChain' = OnChain, fingerprints \subseteq fingerprints'
    PROVE  /\ \A k : TaskIsSound(k) => TaskIsSound(k)'
           /\ \A m : MsgIsSound(m) => MsgIsSound(m)'
  <2> USE <1>SoundKept
  <2>1. \A n : Taken(n)' <=> Taken(n)
    BY Zenon DEF Taken
  <2>2. \A txs : Continues(txs) => Continues(txs)'
    BY Zenon, <2>1 DEF Continues
  <2>3. \A k : TaskIsSound(k) => TaskIsSound(k)'
    BY Zenon, <2>2 DEF TaskIsSound, OneEach, OnePerWallet
  <2>4. \A m : MsgIsSound(m) => MsgIsSound(m)'
    BY Zenon DEF MsgIsSound, OneEach, OnePerWallet
  <2> QED
    BY Zenon, <2>3, <2>4

<1>DenseKept.
    ASSUME NoncesAreDense, OnChain' = OnChain
    PROVE  NoncesAreDense'
  BY <1>DenseKept, Zenon DEF NoncesAreDense, Taken

\* A step that adds no transaction and deletes no fingerprint.
<1>RowsFrame.
    ASSUME RowsInv, OnChain' = OnChain, fingerprints' = fingerprints,
           \A w \in Wallets : pending'[w] = pending[w] \/ pending'[w] = NoRow \/ Waits(w)',
           \A k \in Running' : k \in Running \/ TaskIsSound(k)',
           \A m \in Mail' : m \in Mail \/ MsgIsSound(m)'
    PROVE  RowsInv'
  <2> USE <1>RowsFrame
  <2>1. NoncesAreDense'
    BY Zenon, <1>DenseKept DEF RowsInv
  <2>2. RowidsAreUnique'
    BY Zenon DEF RowsInv, RowidsAreUnique
  <2>3. \A k \in Running' : TaskIsSound(k)'
    BY Zenon, <1>SoundKept DEF RowsInv
  <2>4. \A m \in Mail' : MsgIsSound(m)'
    BY Zenon, <1>SoundKept DEF RowsInv
  <2>5. \A w \in Wallets : pending'[w] # NoRow => Waits(w)'
    BY DEF RowsInv, Waits
  <2> QED
    BY ZenonT(40), <2>1, <2>2, <2>3, <2>4, <2>5 DEF RowsInv

<1>BooksRows.
    ASSUME RowsInv, BooksKept,
           \A k \in Running' : k \in Running \/ TaskIsSound(k)',
           \A m \in Mail' : m \in Mail \/ MsgIsSound(m)'
    PROVE  RowsInv'
  <2> USE <1>BooksRows
  <2>1. OnChain' = OnChain /\ fingerprints' = fingerprints /\ pending' = pending
    BY Zenon DEF BooksKept, OnChain
  <2> QED
    BY Zenon, <2>1, <1>RowsFrame

\* Marking an account ties it to a fingerprint of a payment to it.
<1>MarkedWaits.
    ASSUME NEW txs, MarkPending(txs), fingerprints' = fingerprints, NEW w \in Wallets
    PROVE  pending'[w] = pending[w] \/ Waits(w)'
  <2> USE <1>MarkedWaits
  <2>1. pending'[w] = IF \E f \in Markable(txs) : f.tx.wallet = w
                      THEN (CHOOSE f \in Markable(txs) : f.tx.wallet = w).rowid
                      ELSE pending[w]
    BY Zenon DEF MarkPending
  <2>2. ASSUME \E f \in Markable(txs) : f.tx.wallet = w
        PROVE  Waits(w)'
    <3>1. PICK f : f = CHOOSE g \in Markable(txs) : g.tx.wallet = w
      BY Zenon
    <3>2. f \in Markable(txs) /\ f.tx.wallet = w
      BY ZenonT(40), <2>2, <3>1
    <3>3. f \in fingerprints' /\ pending'[w] = f.rowid
      BY Zenon, <2>1, <2>2, <3>1, <3>2 DEF Markable, FingerprintsOf
    <3> QED
      BY Zenon, <3>2, <3>3 DEF Waits
  <2> QED
    BY Zenon, <2>1, <2>2

<1>ConfirmedWaits.
    ASSUME RowsInv, NEW fs, TransactionsConfirmed(fs),
           \A f \in fingerprints : f.rowid \notin Rows(fs) =>
              \E g \in fingerprints' : g.rowid = f.rowid /\ g.tx = f.tx
    PROVE  \A w \in Wallets : pending'[w] # NoRow => Waits(w)'
  <2> USE <1>ConfirmedWaits
  <2> SUFFICES ASSUME NEW w \in Wallets, pending'[w] # NoRow PROVE Waits(w)'
    BY Zenon
  <2>1. pending'[w] = pending[w] /\ pending[w] \notin Rows(fs)
    BY Zenon, ConfirmedPending
  <2>2. PICK f \in fingerprints : f.rowid = pending[w] /\ f.tx.wallet = w
    BY Zenon, <2>1 DEF RowsInv, Waits
  <2>3. PICK g \in fingerprints' : g.rowid = f.rowid /\ g.tx = f.tx
    BY Zenon, <2>1, <2>2
  <2> QED
    BY Zenon, <2>1, <2>2, <2>3 DEF Waits

<1>BridgeRows.
    ASSUME CardinalityFacts, RowidsAreStable, TypeOK, ScanExclusion, RowsInv, NEW s \in Slots, Bridge(s)
    PROVE  RowsInv'
  <2> USE <1>BridgeRows
  <2>0. BatchesDoNotFail
    BY Zenon DEF RowidsAreStable
  <2>1. CASE BuildAgent(s)
    <3>1. BooksKept /\ Running' = Others
      BY Zenon, <2>1, AgentEffect
    <3>2. PICK k \in Running, m \in Msg : /\ k.kind = "agent" /\ Mail' = Mail \cup {m}
                                          /\ \/ m.type = "Agent" /\ m.accounts = k.accounts
                                             \/ m.type = "ScanError"
      BY ZenonT(40), <2>1, AgentEffect
    <3>3. MsgIsSound(m)'
      <4>1. OnePerWallet(k.accounts)
        BY SMTT(30), <3>2 DEF RowsInv, TaskIsSound
      <4> QED
        BY SMTT(30), <3>2, <4>1 DEF MsgIsSound, OnePerWallet
    <3> QED
      BY <3>1, <3>2, <3>3, <1>BooksRows DEF Others
  <2>2. CASE FetchNonceAndSign(s)
    <3>1. BooksKept
      BY Zenon, <2>0, <2>2, SignEffect
    <3>2. PICK k \in Running, n \in Task, first \in Nonces, txs \in Batch(Tx) :
            /\ k.kind = "nonce" /\ k.accounts \in Batch(Account)
            /\ PendingNonce(first) /\ txs = SignedTxs(k.accounts, k.gas, first)
            /\ n.kind = "submit" /\ n.txs = txs
            /\ Running' = Others \cup {n} /\ Mail' = Mail \cup {SeedsMsg(txs)}
      BY ZenonT(40), <2>0, <2>2, SignEffect
    <3>3. OnePerWallet(k.accounts) /\ first \in Nat
      <4>1. k \in Running /\ k.kind = "nonce" /\ first \in Nonces
        BY Zenon, <3>2
      <4>2. TaskIsSound(k)
        BY ZenonT(40), <4>1 DEF RowsInv
      <4>3. OnePerWallet(k.accounts)
        BY ONLY <4>1, <4>2 DEF TaskIsSound
      <4>4. first \in Nat
        BY ONLY SMTT(30), <4>1, PaymentsAssumption DEF Nonces
      <4> QED
        BY Zenon, <4>3, <4>4
    <3>4. /\ OneEach(txs)
          /\ \A t \in txs : /\ t.nonce \in Nat /\ t.nonce >= first
                            /\ \A i \in first .. t.nonce - 1 : \E u \in txs : u.nonce = i
      BY <3>2, <3>3, SignedInLine
    <3>5. Continues(txs)
      BY ZenonT(40), <3>2, <3>3, SignedContinues DEF RowsInv
    <3>6. TaskIsSound(n)'
      <4>1. TaskIsSound(n)
        BY <3>2, <3>4, <3>5 DEF TaskIsSound
      <4>2. OnChain' = OnChain /\ fingerprints \subseteq fingerprints'
        BY SMTT(30), <3>1 DEF BooksKept, OnChain
      <4> QED
        BY SMTT(30), <4>1, <4>2, <1>SoundKept
    <3>7. MsgIsSound(SeedsMsg(txs))'
      BY <3>4 DEF MsgIsSound, SeedsMsg, OneEach
    <3> QED
      BY <3>1, <3>2, <3>6, <3>7, <1>BooksRows DEF Others
  <2>3. CASE SubmitBatch(s)
    <3>1. UNCHANGED <<pending, fingerprints, succeeded, failed>> /\ Mail' = Mail
      BY ZenonT(40), <2>3, SubmitEffect
    <3>2. PICK k \in Running, n \in Task :
            /\ k.kind = "submit" /\ n.kind = "reply" /\ n.oks = k.txs /\ n.fails = {}
            /\ mempool' = mempool \cup k.txs /\ Running' = Others \cup {n}
      BY ZenonT(40), <2>3, SubmitEffect
    <3>3. OneEach(k.txs) /\ Continues(k.txs)
      BY <3>2 DEF RowsInv, TaskIsSound
    <3>4. OnChain' = OnChain \cup k.txs
      BY <3>1, <3>2 DEF OnChain
    <3>5. NoncesAreDense'
      <4>1. \A i : Taken(i)' <=> Taken(i) \/ \E u \in k.txs : u.nonce = i
        BY <3>4 DEF Taken
      <4> QED
        BY ZenonT(40), <3>3, <3>4, <4>1 DEF NoncesAreDense, Continues, RowsInv
    <3>6. \A j \in Running' : TaskIsSound(j)'
      <4>1. ASSUME NEW j \in Others PROVE TaskIsSound(j)'
        <5>1. j.kind = "receipts" /\ j \in Running
          BY SMTT(30), RunningTyped DEF Others
        <5> QED
          BY ZenonT(40), <3>1, <5>1 DEF RowsInv, TaskIsSound
      <4>2. TaskIsSound(n)'
        BY SMTT(30), <3>2, <3>3 DEF TaskIsSound, OneEach
      <4> QED
        BY <3>2, <4>1, <4>2
    <3>7. \A m \in Mail' : MsgIsSound(m)'
      BY SMTT(30), <3>1 DEF RowsInv, MsgIsSound, OneEach, OnePerWallet
    <3>8. RowidsAreUnique' /\ \A w \in Wallets : pending'[w] # NoRow => Waits(w)'
      BY SMTT(30), <3>1 DEF RowsInv, RowidsAreUnique, Waits
    <3> QED
      BY ZenonT(40), <3>5, <3>6, <3>7, <3>8 DEF RowsInv
  <2>4. CASE BatchReply(s)
    <3>1. BooksKept /\ Running' = Others
      BY Zenon, <2>0, <2>4, ReplyEffect
    <3>2. PICK k \in Running, m \in Msg :
            /\ k.kind = "reply" /\ m.type = "Sent" /\ m.oks = k.oks /\ m.fails = k.fails
            /\ Mail' = Mail \cup {m}
      BY ZenonT(40), <2>0, <2>4, ReplyEffect
    <3>3. MsgIsSound(m)'
      <4>1. OneEach(k.oks) /\ k.fails = {}
        BY ZenonT(40), <3>2 DEF RowsInv, TaskIsSound
      <4> QED
        BY <3>2, <4>1 DEF MsgIsSound, OneEach
    <3> QED
      BY <3>1, <3>2, <3>3, <1>BooksRows DEF Others
  <2>5. CASE BatchFails(s)
    BY SMTT(30), <2>0, <2>5 DEF BatchFails, BatchesDoNotFail
  <2>6. CASE FetchReceipts(s)
    <3>1. BooksKept /\ Running' \subseteq Running
      BY Zenon, <2>6, AskEffect
    <3>2. PICK k \in Running, m \in Msg :
            /\ k.kind = "receipts" /\ Mail' = Mail \cup {m}
            /\ m.type \in {"Receipts", "ScanError"}
            /\ m.type = "Receipts" => m.confirmed \cup m.failures \cup m.still \subseteq k.snapshot
      BY ZenonT(40), <2>6, AskEffect
    <3>3. MsgIsSound(m)'
      <4>1. k.snapshot \subseteq fingerprints'
        BY <3>1, <3>2 DEF RowsInv, TaskIsSound, BooksKept
      <4> QED
        BY SMTT(30), <3>2, <4>1 DEF MsgIsSound
    <3> QED
      BY <3>1, <3>2, <3>3, <1>BooksRows
  <2> QED
    BY SMTT(30), <2>1, <2>2, <2>3, <2>4, <2>5, <2>6 DEF Bridge

<1>AccountantRows.
    ASSUME CardinalityFacts, TypeOK, ScanExclusion, PendExclusion, RowsInv, Accountant
    PROVE  RowsInv'
  <2> USE <1>AccountantRows
  <2>1. CASE PayablePaymentSetup
    <3>1. BooksKept /\ Mail' \subseteq Mail
      BY ZenonT(40), <2>1, SetupEffect
    <3>2. PICK h \in Mail, k \in Task :
            h.type = "Agent" /\ k.kind = "nonce" /\ k.accounts = h.accounts /\ Running' = Running \cup {k}
      BY ZenonT(40), <2>1, SetupEffect
    <3>3. TaskIsSound(k)'
      <4>1. OnePerWallet(k.accounts)
        BY Zenon, <3>2 DEF RowsInv, MsgIsSound
      <4> QED
        BY <3>2, <4>1 DEF TaskIsSound, OnePerWallet
    <3> QED
      BY <3>1, <3>2, <3>3, <1>BooksRows
  <2>2. CASE NewPendingPayableFingerprints
    <3>1. /\ UNCHANGED <<pending, mempool, succeeded, failed>>
          /\ Mail' \subseteq Mail /\ Running' = Running
      BY Zenon, <2>2, SeedsEffect
    <3>2. PICK h \in Mail :
            /\ h.type = "Seeds" /\ h.txs \in Batch(Tx)
            /\ \/ \E top \in Nat : MaxRowid(top) /\ fingerprints' = fingerprints \cup NewFingerprints(h.txs, top)
               \/ fingerprints' = fingerprints
      BY ZenonT(40), <2>2, SeedsEffect
    <3>3. OneEach(h.txs)
      BY ZenonT(40), <3>2 DEF RowsInv, MsgIsSound
    <3>4. OnChain' = OnChain /\ fingerprints \subseteq fingerprints'
      BY SMTT(30), <3>1, <3>2 DEF OnChain
    <3>5. RowidsAreUnique'
      <4>1. ASSUME NEW top \in Nat, MaxRowid(top),
                   fingerprints' = fingerprints \cup NewFingerprints(h.txs, top)
            PROVE  RowidsAreUnique'
        <5>1. /\ \A f \in NewFingerprints(h.txs, top) : f.rowid > top /\ f.rowid \in Nat
              /\ \A f, g \in NewFingerprints(h.txs, top) : f.rowid = g.rowid => f = g
          BY ZenonT(40), <3>2, <3>3, NewRows
        <5>2. \A f \in fingerprints : f.rowid \in Nat /\ f.rowid <= top
          BY SMTT(30), <4>1 DEF TypeOK, Batch, Fingerprint, MaxRowid, Rowids
        <5>3. ASSUME NEW f \in fingerprints, NEW g \in NewFingerprints(h.txs, top) PROVE f.rowid # g.rowid
          BY <5>1, <5>2
        <5> QED
          BY ZenonT(40), <4>1, <5>1, <5>3 DEF RowidsAreUnique, RowsInv
      <4> QED
        BY <3>2, <4>1 DEF RowsInv, RowidsAreUnique
    <3>6. NoncesAreDense'
      BY SMTT(30), <3>4, <1>DenseKept DEF RowsInv
    <3>7. (\A k \in Running' : TaskIsSound(k)') /\ \A m \in Mail' : MsgIsSound(m)'
      BY SMTT(30), <3>1, <3>4, <1>SoundKept DEF RowsInv
    <3>8. \A w \in Wallets : pending'[w] # NoRow => Waits(w)'
      <4>1. pending' = pending
        BY SMTT(30), <3>1
      <4> QED
        BY <3>4, <4>1 DEF RowsInv, Waits
    <3> QED
      BY ZenonT(40), <3>5, <3>6, <3>7, <3>8 DEF RowsInv
  <2>3. CASE SentPayables
    <3>1. /\ UNCHANGED <<fingerprints, mempool, succeeded, failed>>
          /\ Mail' \subseteq Mail /\ Running' \subseteq Running
      BY Zenon, <2>3, SentEffect
    <3>2. PICK h \in Mail : MarkPending(h.oks)
      BY ZenonT(40), <2>3, SentEffect
    <3>3. OnChain' = OnChain /\ fingerprints' = fingerprints
      BY <3>1 DEF OnChain
    <3>4. \A w \in Wallets : pending'[w] = pending[w] \/ Waits(w)'
      BY ZenonT(40), <3>2, <3>3, <1>MarkedWaits
    <3> QED
      BY <3>1, <3>3, <3>4, <1>RowsFrame
  <2>4. CASE ScanError
    <3>1. BooksKept /\ Mail' \subseteq Mail /\ Running' = Running
      BY ZenonT(40), <2>4, ErrorEffect
    <3> QED
      BY <3>1, <1>BooksRows
  <2>5. CASE TransactionReceipts
    <3>1. /\ UNCHANGED <<mempool, succeeded, failed>> /\ Mail' \subseteq Mail /\ Running' \subseteq Running
          /\ \A k \in Running : k.kind # "receipts"
          /\ \A m \in Mail' : m.type # "Receipts"
      BY ZenonT(40), <2>5, HandledEffect
    <3>2. OnChain' = OnChain
      BY <3>1 DEF OnChain
    <3>3. PICK h \in Mail :
            \/ /\ TransactionsConfirmed(h.confirmed)
               /\ fingerprints' = {Flag(f, Rows(h.failures)) :
                                     f \in {g \in fingerprints : g.rowid \notin Rows(h.confirmed)}}
            \/ /\ \E fs \in SUBSET h.confirmed : TransactionsConfirmed(fs)
               /\ fingerprints' = fingerprints
      BY Zenon, <2>5, HandledEffect
    <3>4. CASE /\ TransactionsConfirmed(h.confirmed)
               /\ fingerprints' = {Flag(f, Rows(h.failures)) :
                                     f \in {g \in fingerprints : g.rowid \notin Rows(h.confirmed)}}
      <4>1. \A f \in fingerprints : Flag(f, Rows(h.failures)).rowid = f.rowid
                                    /\ Flag(f, Rows(h.failures)).tx = f.tx
        BY SMTT(30), FlagFields DEF TypeOK, Batch
      <4>2. RowidsAreUnique'
        <5> SUFFICES ASSUME NEW p \in fingerprints', NEW q \in fingerprints', p.rowid = q.rowid
                     PROVE  p = q
          BY DEF RowidsAreUnique
        <5>1. PICK f \in fingerprints, g \in fingerprints :
                p = Flag(f, Rows(h.failures)) /\ q = Flag(g, Rows(h.failures))
          BY ZenonT(40), <3>4
        <5>2. f = g
          BY SMTT(30), <4>1, <5>1 DEF RowsInv, RowidsAreUnique
        <5> QED
          BY <5>1, <5>2
      <4>3. \A f \in fingerprints : f.rowid \notin Rows(h.confirmed) =>
               \E g \in fingerprints' : g.rowid = f.rowid /\ g.tx = f.tx
        BY <3>4, <4>1
      <4>4. \A w \in Wallets : pending'[w] # NoRow => Waits(w)'
        BY ZenonT(40), <3>4, <4>3, <1>ConfirmedWaits
      <4>5. \A k \in Running' : TaskIsSound(k)'
        <5>1. \A n : Taken(n)' <=> Taken(n)
          BY <3>2 DEF Taken
        <5>2. \A txs : Continues(txs) => Continues(txs)'
          BY <5>1 DEF Continues
        <5>3. ASSUME NEW k \in Running' PROVE TaskIsSound(k)'
          <6>1. TaskIsSound(k) /\ k.kind # "receipts"
            BY SMTT(30), <3>1 DEF RowsInv
          <6> QED
            BY ZenonT(40), <5>2, <6>1 DEF TaskIsSound, OneEach, OnePerWallet
        <5> QED
          BY <5>3
      <4>6. \A m \in Mail' : MsgIsSound(m)'
        BY ZenonT(40), <3>1 DEF RowsInv, MsgIsSound, OneEach, OnePerWallet
      <4>7. NoncesAreDense'
        BY <3>2, <1>DenseKept DEF RowsInv
      <4> QED
        BY ZenonT(40), <4>2, <4>4, <4>5, <4>6, <4>7 DEF RowsInv
    <3>5. ASSUME NEW fs, TransactionsConfirmed(fs), fingerprints' = fingerprints
          PROVE  RowsInv'
      <4>1. \A w \in Wallets : pending'[w] = pending[w] \/ pending'[w] = NoRow
        BY Zenon, <3>5, ConfirmedPending
      <4> QED
        BY Zenon, <3>1, <3>2, <3>5, <4>1, <1>RowsFrame
    <3> QED
      BY ZenonT(40), <3>3, <3>4, <3>5
  <2> QED
    BY SMTT(30), <2>1, <2>2, <2>3, <2>4, <2>5 DEF Accountant

<1> SUFFICES ASSUME CardinalityFacts, RowidsAreStable, TypeOK, ScanExclusion, PendExclusion,
                    RowsInv, [Next]_vars
             PROVE  RowsInv'
  OBVIOUS
<1>1. ASSUME \/ \E w \in Wallets : MoreMoneyPayable(w) \/ DebtAges(w)
             \/ UpdateWallets \/ \E tx \in mempool : Mine(tx)
             \/ Restart \/ UNCHANGED vars
      PROVE  RowsInv'
  <2>1. /\ pending' = pending /\ fingerprints' = fingerprints /\ Running' = Running /\ Mail' = Mail
        /\ OnChain' = OnChain
    BY Zenon, <1>1, CalmEffect
  <2> QED
    BY <2>1, <1>RowsFrame
<1>2. ASSUME NEW ctx \in Skeletons, ScanForPayables(ctx)
      PROVE  RowsInv'
  <2>1. BooksKept /\ Mail' = Mail
    BY Zenon, <1>2, PayScanEffect
  <2>2. CASE Running' = Running
    BY SMTT(30), <2>1, <2>2, <1>BooksRows
  <2>3. ASSUME NEW k \in Task, Running' = Running \cup {k}, k.kind = "agent",
               k.accounts = {[wallet |-> w, amount |-> balance[w]] : w \in Qualified}
        PROVE  RowsInv'
    <3>1. OnePerWallet(k.accounts)
      BY <2>3 DEF OnePerWallet
    <3>2. TaskIsSound(k)'
      BY <2>3, <3>1 DEF TaskIsSound, OnePerWallet
    <3> QED
      BY SMTT(30), <2>1, <2>3, <3>2, <1>BooksRows
  <2> QED
    BY Zenon, <1>2, <2>2, <2>3, PayScanEffect
<1>3. ASSUME NEW ctx \in Skeletons, ScanForPendingPayables(ctx)
      PROVE  RowsInv'
  <2>1. BooksKept /\ Mail' = Mail
    BY ZenonT(40), <1>3, PendScanEffect
  <2>2. CASE Running' = Running
    BY Zenon, <2>1, <2>2, <1>BooksRows
  <2>3. ASSUME NEW k \in Task, Running' = Running \cup {k}, k.kind = "receipts", k.snapshot \subseteq fingerprints
        PROVE  RowsInv'
    <3>1. TaskIsSound(k)'
      BY <2>1, <2>3 DEF TaskIsSound, BooksKept
    <3> QED
      BY SMTT(30), <2>1, <2>3, <3>1, <1>BooksRows
  <2> QED
    BY Zenon, <1>3, <2>2, <2>3, PendScanEffect
<1>4. CASE Kill
  <2>1. /\ UNCHANGED <<mempool, succeeded, failed>> /\ Running' = {} /\ Mail' = {}
    BY Zenon, <1>4, KillEffect
  <2>2. OnChain' = OnChain
    BY <2>1 DEF OnChain
  <2>3. CASE UNCHANGED <<pending, fingerprints, settled>>
    BY <2>1, <2>2, <2>3, <1>RowsFrame
  <2>4. ASSUME NEW txs, MarkPending(txs), fingerprints' = fingerprints
        PROVE  RowsInv'
    BY <2>1, <2>2, <2>4, <1>MarkedWaits, <1>RowsFrame
  <2>5. ASSUME NEW fs, TransactionsConfirmed(fs),
               \/ fingerprints' = fingerprints
               \/ fingerprints' = {f \in fingerprints : f.rowid \notin Rows(fs)}
        PROVE  RowsInv'
    <3>1. \A f \in fingerprints : f.rowid \notin Rows(fs) => f \in fingerprints'
      BY <2>5
    <3>2. \A w \in Wallets : pending'[w] # NoRow => Waits(w)'
      BY Zenon, <2>5, <3>1, <1>ConfirmedWaits
    <3>3. RowidsAreUnique'
      BY <2>5 DEF RowidsAreUnique, RowsInv
    <3>4. NoncesAreDense'
      BY <2>2, <1>DenseKept DEF RowsInv
    <3> QED
      BY Zenon, <2>1, <3>2, <3>3, <3>4 DEF RowsInv
  <2>6. CASE UNCHANGED <<fingerprints, settled>> /\ \E h \in Mail : MarkPending(h.oks)
    <3>1. fingerprints' = fingerprints
      BY <2>6
    <3> QED
      BY Zenon, <2>4, <2>6, <3>1
  <2> QED
    BY Zenon, <1>4, <2>3, <2>5, <2>6, KillEffect
<1> QED
  BY ZenonT(40), <1>1, <1>2, <1>3, <1>4, <1>BridgeRows, <1>AccountantRows DEF Next

LEMMA InitRows == Init => ScanExclusion /\ PendExclusion /\ RowsInv
<1> SUFFICES ASSUME Init PROVE ScanExclusion /\ PendExclusion /\ RowsInv
  OBVIOUS
<1>1. Running = {} /\ Mail = {} /\ OnChain = {} /\ fingerprints = {}
  BY DEF Init, Running, Mail, Busy, OnChain
<1>2. RowsInv
  BY <1>1 DEF Init, RowsInv, NoncesAreDense, RowidsAreUnique
<1>3. ScanExclusion
  BY DEF Init, ScanExclusion, PayFutures, PayWords, Busy
<1>4. PendExclusion
  BY DEF Init, PendExclusion, PendFutures, Runs, PendWords, Busy
<1> QED
  BY <1>2, <1>3, <1>4

\* What the rest of the proofs build on.
Base == TypeOK /\ (RowidsAreStable => ScanExclusion /\ PendExclusion /\ RowsInv)

LEMMA BaseInductive == CardinalityFacts /\ Base /\ [Next]_vars /\ TypeOK' => Base'
<1> SUFFICES ASSUME CardinalityFacts, Base, [Next]_vars, TypeOK', RowidsAreStable'
             PROVE  ScanExclusion' /\ PendExclusion' /\ RowsInv'
  BY DEF Base
<1>1. RowidsAreStable /\ BatchesDoNotFail
  BY WorldIsFixed DEF RowidsAreStable, BatchesDoNotFail
<1>2. TypeOK /\ ScanExclusion /\ PendExclusion /\ RowsInv
  BY <1>1 DEF Base
<1> QED
  BY ZenonT(40), <1>1, <1>2, ExclusionInductive, PendInductive, RowsInductive

-----------------------------------------------------------------------------
(* Who is about to be paid has nothing outstanding *)

LEMMA SettledGrows ==
  ASSUME NEW fs, TransactionsConfirmed(fs)
  PROVE  settled \subseteq settled'
BY Zenon DEF TransactionsConfirmed

\* While the Node is up, the debts are in order; once it has stopped, nothing of ours runs.
Debts == OnePerCreditor /\ (node = "up" => DebtsInv) /\ (node # "up" => Running = {} /\ Mail = {})

LEMMA AtWork ==
  ASSUME Debts, \/ \E s \in Slots : Bridge(s)
                \/ \E ctx \in Skeletons : ScanForPayables(ctx) \/ ScanForPendingPayables(ctx)
                \/ Accountant \/ Kill
  PROVE  node = "up" /\ DebtsInv
<1>1. ASSUME NEW s \in Slots, Bridge(s) PROVE node = "up"
  <2>1. task[s] \in Running
    BY ZenonT(40), <1>1 DEF Bridge, BuildAgent, FetchNonceAndSign, SubmitBatch, BatchReply, BatchFails, FetchReceipts,
                Runs, Running
  <2> QED
    BY Zenon, <2>1 DEF Debts
<1>2. ASSUME NEW ctx \in Skeletons, ScanForPayables(ctx) \/ ScanForPendingPayables(ctx) PROVE node = "up"
  BY ZenonT(40), <1>2 DEF ScanForPayables, ScanForPendingPayables
<1>3. ASSUME Accountant PROVE node = "up"
  BY ZenonT(40), <1>3 DEF Accountant, PayablePaymentSetup, NewPendingPayableFingerprints, SentPayables, ScanError,
              TransactionReceipts, Received
<1>4. ASSUME Kill PROVE node = "up"
  BY ZenonT(40), <1>4 DEF Kill
<1> QED
  BY SMTT(30), <1>1, <1>2, <1>3, <1>4 DEF Debts

LEMMA DebtsInductive ==
  /\ CardinalityFacts /\ RowidsAreStable /\ NeverRestarted /\ TypeOK
  /\ ScanExclusion /\ PendExclusion /\ RowsInv /\ Debts /\ [Next]_vars
  => Debts'

\* Fewer payments left to be settled, and no account newly waiting, leave what is due due.
<1>DueKept.
    ASSUME TypeOK, OnChain' = OnChain, settled \subseteq settled',
           \A w \in Wallets : pending[w] = NoRow => pending'[w] = NoRow
    PROVE  /\ \A k : TaskIsDue(k) => TaskIsDue(k)'
           /\ \A m : MsgIsDue(m) => MsgIsDue(m)'
  <2> USE <1>DueKept
  <2>1. \A w : Free(w) => Free(w)'
    BY DEF Free
  <2>2. \A t : Accepted(t) => Accepted(t)'
    <3>1. \A t \in OnChain : t.wallet \in Wallets
      BY DEF TypeOK, OnChain, Tx
    <3> QED
      BY <3>1 DEF Accepted
  <2>3. \A k : TaskIsDue(k) => TaskIsDue(k)'
    BY ZenonT(40), <2>1, <2>2 DEF TaskIsDue
  <2>4. \A m : MsgIsDue(m) => MsgIsDue(m)'
    BY Zenon, <2>1, <2>2 DEF MsgIsDue
  <2> QED
    BY <2>3, <2>4

<1>OnePerCreditorKept.
    ASSUME OnePerCreditor, OnChain' = OnChain, settled \subseteq settled'
    PROVE  OnePerCreditor'
  BY <1>OnePerCreditorKept DEF OnePerCreditor

\* What is under way goes on, and nothing is settled or marked.
<1>DebtsFrame.
    ASSUME TypeOK, DebtsInv, OnChain' = OnChain, settled' = settled, pending' = pending,
           fingerprints \subseteq fingerprints', \A t : Awaited(t) => Awaited(t)',
           \A k \in Running' : k \in Running \/ TaskIsDue(k)',
           \A m \in Mail' : m \in Mail \/ MsgIsDue(m)'
    PROVE  DebtsInv'
  <2> USE <1>DebtsFrame
  <2>1. \A t : Shown(t) => Shown(t)'
    BY DEF Shown
  <2>2. \A t \in OnChain' \ settled' : Awaited(t)' \/ Shown(t)'
    BY <2>1 DEF DebtsInv
  <2>3. (\A k : TaskIsDue(k) => TaskIsDue(k)') /\ \A m : MsgIsDue(m) => MsgIsDue(m)'
    BY <1>DueKept
  <2>4. (\A k \in Running' : TaskIsDue(k)') /\ \A m \in Mail' : MsgIsDue(m)'
    BY <2>3 DEF DebtsInv
  <2> QED
    BY ZenonT(40), <2>2, <2>4 DEF DebtsInv

<1>BooksDebts.
    ASSUME TypeOK, OnePerCreditor, DebtsInv, BooksKept, \A t : Awaited(t) => Awaited(t)',
           \A k \in Running' : k \in Running \/ TaskIsDue(k)',
           \A m \in Mail' : m \in Mail \/ MsgIsDue(m)'
    PROVE  OnePerCreditor' /\ DebtsInv'
  <2> USE <1>BooksDebts
  <2>1. /\ OnChain' = OnChain /\ fingerprints' = fingerprints /\ pending' = pending /\ settled' = settled
    BY DEF BooksKept, OnChain
  <2>2. OnePerCreditor'
    BY <2>1, <1>OnePerCreditorKept
  <2>3. fingerprints \subseteq fingerprints'
    BY <2>1
  <2> QED
    BY ZenonT(40), <2>1, <2>2, <2>3, <1>DebtsFrame

<1>AwaitedKept.
    ASSUME \A k \in Running : k.kind = "reply" => k \in Running',
           \A m \in Mail : m.type = "Sent" => m \in Mail'
    PROVE  \A t : Awaited(t) => Awaited(t)'
  BY <1>AwaitedKept DEF Awaited

<1>BridgeDebts.
    ASSUME CardinalityFacts, RowidsAreStable, TypeOK, ScanExclusion, RowsInv, OnePerCreditor, DebtsInv,
           NEW s \in Slots, Bridge(s)
    PROVE  OnePerCreditor' /\ DebtsInv'
  <2> USE <1>BridgeDebts
  <2>0. BatchesDoNotFail
    BY DEF RowidsAreStable
  <2>1. CASE BuildAgent(s)
    <3>1. BooksKept /\ Running' = Others /\ \A m \in Mail : ~Word(m)
      BY ZenonT(40), <2>1, AgentEffect
    <3>2. PICK k \in Running, m \in Msg : /\ k.kind = "agent" /\ Mail' = Mail \cup {m}
                                          /\ \/ m.type = "Agent" /\ m.accounts = k.accounts
                                             \/ m.type = "ScanError"
      BY Zenon, <2>1, AgentEffect
    <3>3. s \in PayFutures /\ task[s].kind = "agent"
      BY ZenonT(40), <2>1, AgentStep
    <3>4. \A j \in Running : j.kind # "reply"
      <4>1. \A t \in PayFutures : t = s
        BY ZenonT(40), <3>3 DEF ScanExclusion
      <4> QED
        BY Zenon, <3>3, <4>1 DEF Running, PayFutures, PayKinds
    <3>5. \A t : Awaited(t) => Awaited(t)'
      BY Zenon, <3>2, <3>4, <1>AwaitedKept
    <3>6. MsgIsDue(m)'
      <4>1. MsgIsDue(m)
        BY Zenon, <3>2 DEF DebtsInv, TaskIsDue, MsgIsDue
      <4>2. OnChain' = OnChain /\ settled \subseteq settled' /\ pending' = pending
        BY Zenon, <3>1 DEF BooksKept, OnChain
      <4> QED
        BY Zenon, <4>1, <4>2, <1>DueKept
    <3> QED
      BY ZenonT(40), <3>1, <3>2, <3>5, <3>6, <1>BooksDebts DEF Others
  <2>2. CASE FetchNonceAndSign(s)
    <3>1. BooksKept /\ \A m \in Mail : ~Word(m)
      BY Zenon, <2>0, <2>2, SignEffect
    <3>2. PICK k \in Running, n \in Task, first \in Nonces, txs \in Batch(Tx) :
            /\ k.kind = "nonce" /\ k.accounts \in Batch(Account)
            /\ PendingNonce(first) /\ txs = SignedTxs(k.accounts, k.gas, first)
            /\ n.kind = "submit" /\ n.txs = txs
            /\ Running = Others \cup {k} /\ Running' = Others \cup {n}
            /\ Mail' = Mail \cup {SeedsMsg(txs)} /\ inbox' = inbox \o <<SeedsMsg(txs)>>
            /\ SeedsMsg(txs) \in Msg
      BY Zenon, <2>0, <2>2, SignEffect
    <3>3. \A t : Awaited(t) => Awaited(t)'
      BY ZenonT(40), <3>1, <3>2, <1>AwaitedKept DEF PayKinds
    <3>4. \A t \in txs : Free(t.wallet)
      <4>1. OnePerWallet(k.accounts) /\ first \in Nat /\ \A a \in k.accounts : Free(a.wallet)
        <5>1. k \in Running /\ k.kind = "nonce" /\ first \in Nonces
          BY Zenon, <3>2
        <5>2. TaskIsSound(k) /\ TaskIsDue(k)
          BY ZenonT(40), <5>1 DEF RowsInv, DebtsInv
        <5>3. OnePerWallet(k.accounts) /\ \A a \in k.accounts : Free(a.wallet)
          BY ONLY <5>1, <5>2 DEF TaskIsSound, TaskIsDue
        <5>4. first \in Nat
          BY ONLY <5>1, PaymentsAssumption DEF Nonces
        <5> QED
          BY ZenonT(40), <5>3, <5>4
      <4>2. \A t \in txs : \E a \in k.accounts : t.wallet = a.wallet
        <5>1. k.accounts \in Batch(Account) /\ txs = SignedTxs(k.accounts, k.gas, first)
          BY Zenon, <3>2
        <5>2. \A t \in SignedTxs(k.accounts, k.gas, first) : \E a \in k.accounts : t.wallet = a.wallet
          BY ONLY SignedWallets
        <5> QED
          BY ONLY Zenon, <5>1, <5>2
      <4> QED
        BY ZenonT(40), <4>1, <4>2
    <3>5. TaskIsDue(n)'
      <4>1. TaskIsDue(n)
        BY Zenon, <3>2, <3>4 DEF TaskIsDue
      <4>2. OnChain' = OnChain /\ settled \subseteq settled' /\ pending' = pending
        BY Zenon, <3>1 DEF BooksKept, OnChain
      <4> QED
        BY Zenon, <4>1, <4>2, <1>DueKept
    <3>6. MsgIsDue(SeedsMsg(txs))'
      BY ZenonT(40) DEF MsgIsDue, SeedsMsg
    <3> QED
      BY ZenonT(40), <3>1, <3>2, <3>3, <3>5, <3>6, <1>BooksDebts DEF Others
  <2>3. CASE SubmitBatch(s)
    <3>1. /\ UNCHANGED <<pending, fingerprints, settled, succeeded, failed>> /\ Mail' = Mail
          /\ \A m \in Mail : ~Word(m)
      BY Zenon, <2>3, SubmitEffect
    <3>2. PICK k \in Running, n \in Task :
            /\ k.kind = "submit" /\ n.kind = "reply" /\ n.oks = k.txs
            /\ mempool' = mempool \cup k.txs /\ Running = Others \cup {k} /\ Running' = Others \cup {n}
      BY ZenonT(40), <2>3, SubmitEffect
    <3>3. OnChain' = OnChain \cup k.txs
      BY ZenonT(40), <3>1, <3>2 DEF OnChain
    <3>4. OneEach(k.txs) /\ \A t \in k.txs : Free(t.wallet)
      BY ZenonT(40), <3>2 DEF RowsInv, TaskIsSound, DebtsInv, TaskIsDue
    <3>5. OnePerCreditor'
      <4> SUFFICES ASSUME NEW t \in OnChain' \ settled', NEW u \in OnChain' \ settled', t.wallet = u.wallet
                   PROVE  t = u
        BY Zenon DEF OnePerCreditor
      <4>1. CASE t \in k.txs \/ u \in k.txs
        BY ZenonT(40), <3>1, <3>3, <3>4, <4>1 DEF Free, OneEach
      <4>2. CASE t \notin k.txs /\ u \notin k.txs
        BY ZenonT(40), <3>1, <3>3, <4>2 DEF OnePerCreditor
      <4> QED
        BY Zenon, <4>1, <4>2
    <3>6. \A t \in OnChain' \ settled' : Awaited(t)' \/ Shown(t)'
      <4>1. \A t \in k.txs : Awaited(t)'
        BY Zenon, <3>2 DEF Awaited
      <4>2. \A t \in OnChain \ settled : Shown(t)
        BY Zenon, <3>1, <3>2 DEF DebtsInv, Awaited, Others, PayKinds, Word
      <4>3. \A t : Shown(t) => Shown(t)'
        BY Zenon, <3>1 DEF Shown
      <4> QED
        BY ZenonT(40), <3>1, <3>3, <4>1, <4>2, <4>3
    <3>7. \A j \in Running' : TaskIsDue(j)'
      <4>1. ASSUME NEW j \in Others PROVE TaskIsDue(j)'
        <5>1. j.kind = "receipts"
          BY Zenon, RunningTyped
        <5> QED
          BY Zenon, <5>1 DEF TaskIsDue
      <4>2. TaskIsDue(n)'
        <5>1. \A t \in n.oks : Accepted(t)'
          BY Zenon, <3>1, <3>2, <3>3, <3>4 DEF Accepted, Free
        <5> QED
          BY Zenon, <3>2, <5>1 DEF TaskIsDue
      <4> QED
        BY Zenon, <3>2, <4>1, <4>2
    <3>8. \A m \in Mail' : MsgIsDue(m)'
      BY Zenon, <3>1 DEF MsgIsDue, Word
    <3> QED
      BY ZenonT(40), <3>5, <3>6, <3>7, <3>8 DEF DebtsInv
  <2>4. CASE BatchReply(s)
    <3>1. BooksKept /\ Running' = Others
      BY ZenonT(40), <2>0, <2>4, ReplyEffect
    <3>2. PICK k \in Running, m \in Msg :
            /\ k.kind = "reply" /\ Running = Others \cup {k} /\ m.type = "Sent" /\ m.oks = k.oks
            /\ Mail' = Mail \cup {m}
      BY ZenonT(40), <2>0, <2>4, ReplyEffect
    <3>3. \A t : Awaited(t) => Awaited(t)'
      BY SMTT(30), <3>1, <3>2 DEF Awaited
    <3>4. MsgIsDue(m)'
      <4>1. MsgIsDue(m)
        BY Zenon, <3>2 DEF DebtsInv, TaskIsDue, MsgIsDue
      <4>2. OnChain' = OnChain /\ settled \subseteq settled' /\ pending' = pending
        BY Zenon, <3>1 DEF BooksKept, OnChain
      <4> QED
        BY Zenon, <4>1, <4>2, <1>DueKept
    <3> QED
      BY Zenon, <3>1, <3>2, <3>3, <3>4, <1>BooksDebts DEF Others
  <2>5. CASE BatchFails(s)
    BY Zenon, <2>0, <2>5 DEF BatchFails, BatchesDoNotFail
  <2>6. CASE FetchReceipts(s)
    <3>1. BooksKept /\ Running' \subseteq Running /\ \A k \in Running : k.kind \in PayKinds => k \in Running'
      BY Zenon, <2>6, AskEffect
    <3>2. PICK m \in Msg : Mail' = Mail \cup {m} /\ m.type \in {"Receipts", "ScanError"}
      BY ZenonT(40), <2>6, AskEffect
    <3>3. \A t : Awaited(t) => Awaited(t)'
      BY Zenon, <3>1, <3>2, <1>AwaitedKept DEF PayKinds
    <3>4. MsgIsDue(m)'
      BY Zenon, <3>2 DEF MsgIsDue
    <3> QED
      BY Zenon, <3>1, <3>2, <3>3, <3>4, <1>BooksDebts
  <2> QED
    BY SMTT(30), <2>1, <2>2, <2>3, <2>4, <2>5, <2>6 DEF Bridge

\* Settling the payments of some rows leaves every other payment shown.
<1>ConfirmedShown.
    ASSUME TypeOK, RowsInv, NEW fs, fs \subseteq fingerprints, TransactionsConfirmed(fs),
           \A f \in fingerprints : f.rowid \notin Rows(fs) =>
              \E g \in fingerprints' : g.rowid = f.rowid /\ g.tx = f.tx,
           NEW t \in OnChain, t \notin settled', Shown(t)
    PROVE  Shown(t)'
  <2> USE <1>ConfirmedShown
  <2>1. PICK f \in fingerprints : f.rowid = pending[t.wallet] /\ f.tx = t
    BY Zenon DEF Shown
  <2>2. t.wallet \in Wallets /\ f.rowid # NoRow
    BY ZenonT(40), <2>1 DEF TypeOK, OnChain, Tx, Batch, Fingerprint
  <2>3. f \notin fs
    <3>1. Debtors(f) # {}
      BY Zenon, <2>1, <2>2 DEF Debtors
    <3> QED
      BY ZenonT(40), <2>1, <3>1 DEF TransactionsConfirmed
  <2>4. f.rowid \notin Rows(fs)
    BY Zenon, <2>1, <2>3 DEF RowsInv, RowidsAreUnique, Rows
  <2>5. pending'[t.wallet] = pending[t.wallet]
    BY SMTT(30), <2>1, <2>2, <2>4 DEF TransactionsConfirmed, Rows
  <2>6. PICK g \in fingerprints' : g.rowid = f.rowid /\ g.tx = f.tx
    BY Zenon, <2>1, <2>4
  <2> QED
    BY Zenon, <2>1, <2>5, <2>6 DEF Shown

\* Marking shows the payments of the batch, and hides none.
<1>MarkedShown.
    ASSUME TypeOK, NEW txs, OneEach(txs), txs \subseteq KnownHashes, MarkPending(txs),
           Markable(txs) = FingerprintsOf(txs), fingerprints' = fingerprints,
           NEW t \in OnChain, t \in txs \/ Shown(t)
    PROVE  Shown(t)'
  <2> USE <1>MarkedShown
  <2>1. t.wallet \in Wallets
    BY Zenon DEF TypeOK, OnChain, Tx
  <2>2. pending'[t.wallet] = IF \E f \in Markable(txs) : f.tx.wallet = t.wallet
                             THEN (CHOOSE f \in Markable(txs) : f.tx.wallet = t.wallet).rowid
                             ELSE pending[t.wallet]
    BY ZenonT(40), <2>1 DEF MarkPending
  <2>3. CASE t \in txs
    <3>1. PICK f \in fingerprints : f.tx = t
      BY ZenonT(40), <2>3 DEF KnownHashes
    <3>2. f \in Markable(txs)
      BY Zenon, <2>3, <3>1 DEF FingerprintsOf
    <3>3. PICK g : g = CHOOSE h \in Markable(txs) : h.tx.wallet = t.wallet
      BY Zenon
    <3>4. g \in Markable(txs) /\ g.tx.wallet = t.wallet
      BY ZenonT(40), <3>1, <3>2, <3>3
    <3>5. g \in fingerprints /\ g.tx = t
      BY Zenon, <2>3, <3>4 DEF Markable, FingerprintsOf, OneEach
    <3>6. pending'[t.wallet] = g.rowid
      BY Zenon, <2>2, <3>1, <3>2, <3>3
    <3> QED
      BY Zenon, <3>5, <3>6 DEF Shown
  <2>4. CASE Shown(t)
    <3>1. PICK f \in fingerprints : f.rowid = pending[t.wallet] /\ f.tx = t
      BY Zenon, <2>4 DEF Shown
    <3>2. f.rowid # NoRow
      BY Zenon, <3>1 DEF TypeOK, Batch, Fingerprint
    <3>3. pending'[t.wallet] = pending[t.wallet]
      BY Zenon, <2>2, <3>1, <3>2 DEF Markable
    <3> QED
      BY Zenon, <3>1, <3>3 DEF Shown
  <2> QED
    BY Zenon, <2>3, <2>4

<1>OthersAreDue.
    ASSUME TypeOK, NEW k \in Others PROVE TaskIsDue(k)'
  <2> USE <1>OthersAreDue
  <2>1. k.kind = "receipts"
    BY Zenon, RunningTyped
  <2> QED
    BY Zenon, <2>1 DEF TaskIsDue

<1>AccountantDebts.
    ASSUME TypeOK, ScanExclusion, PendExclusion, RowsInv, OnePerCreditor, DebtsInv, Accountant
    PROVE  OnePerCreditor' /\ (node' = "up" => DebtsInv')
  <2> USE <1>AccountantDebts
  <2>1. CASE PayablePaymentSetup
    <3>1. BooksKept /\ Mail' \subseteq Mail
      BY Zenon, <2>1, SetupEffect
    <3>2. PICK h \in Mail, k \in Task :
            /\ h.type = "Agent" /\ Mail \subseteq Mail' \cup {h}
            /\ k.kind = "nonce" /\ k.accounts = h.accounts /\ Running' = Running \cup {k}
      BY Zenon, <2>1, SetupEffect
    <3>3. TaskIsDue(k)'
      <4>1. TaskIsDue(k)
        BY Zenon, <3>2 DEF DebtsInv, TaskIsDue, MsgIsDue
      <4>2. OnChain' = OnChain /\ settled \subseteq settled' /\ pending' = pending
        BY Zenon, <3>1 DEF BooksKept, OnChain
      <4> QED
        BY Zenon, <4>1, <4>2, <1>DueKept
    <3>4. \A t : Awaited(t) => Awaited(t)'
      BY Zenon, <3>2, <1>AwaitedKept
    <3> QED
      BY ZenonT(40), <3>1, <3>2, <3>3, <3>4, <1>BooksDebts
  <2>2. CASE NewPendingPayableFingerprints
    <3>1. /\ UNCHANGED <<pending, settled, mempool, succeeded, failed>>
          /\ Mail' \subseteq Mail /\ Running' = Running
      BY Zenon, <2>2, SeedsEffect
    <3>2. PICK h \in Mail :
            /\ h.type = "Seeds" /\ Mail \subseteq Mail' \cup {h}
            /\ \/ \E top \in Nat : fingerprints' = fingerprints \cup NewFingerprints(h.txs, top)
               \/ fingerprints' = fingerprints
      BY Zenon, <2>2, SeedsEffect
    <3>3. OnChain' = OnChain /\ settled' = settled /\ pending' = pending /\ fingerprints \subseteq fingerprints'
      BY Zenon, <3>1, <3>2 DEF OnChain
    <3>4. \A t : Awaited(t) => Awaited(t)'
      BY Zenon, <3>1, <3>2, <1>AwaitedKept
    <3> QED
      BY Zenon, <3>1, <3>3, <3>4, <1>DebtsFrame, <1>OnePerCreditorKept
  <2>3. CASE SentPayables
    <3>1. UNCHANGED <<fingerprints, settled, mempool, succeeded, failed>> /\ Running = Others
      BY Zenon, <2>3, SentEffect
    <3>2. PICK h \in Mail :
            /\ h.type = "Sent" /\ OneEach(h.oks) /\ MarkPending(h.oks)
            /\ \/ /\ Markable(h.oks) = FingerprintsOf(h.oks) /\ h.oks \subseteq KnownHashes
                  /\ Running' = Running /\ Mail \subseteq Mail' \cup {h} /\ \A m \in Mail' : ~Word(m)
               \/ node' = "panicked"
      BY ZenonT(40), <2>3, SentEffect
    <3>3. OnChain' = OnChain /\ settled' = settled /\ fingerprints' = fingerprints
      BY Zenon, <3>1 DEF OnChain
    <3>4. OnePerCreditor'
      BY Zenon, <3>3, <1>OnePerCreditorKept
    <3>5. ASSUME Markable(h.oks) = FingerprintsOf(h.oks), h.oks \subseteq KnownHashes,
                 Running' = Running, Mail \subseteq Mail' \cup {h}, \A m \in Mail' : ~Word(m)
          PROVE  DebtsInv'
      <4>1. ASSUME NEW t \in OnChain \ settled PROVE t \in h.oks \/ Shown(t)
        <5>1. Awaited(t) => t \in h.oks
          BY Zenon, <3>1, <3>5 DEF Awaited, Others, PayKinds, Word
        <5> QED
          BY Zenon, <5>1 DEF DebtsInv
      <4>2. \A t \in OnChain' \ settled' : Shown(t)'
        BY Zenon, <3>2, <3>3, <3>5, <4>1, <1>MarkedShown
      <4>3. \A k \in Running' : TaskIsDue(k)'
        BY Zenon, <3>1, <3>5, <1>OthersAreDue
      <4>4. \A m \in Mail' : MsgIsDue(m)'
        BY Zenon, <3>5 DEF MsgIsDue, Word
      <4> QED
        BY ZenonT(40), <4>2, <4>3, <4>4 DEF DebtsInv
    <3> QED
      BY Zenon, <3>2, <3>4, <3>5
  <2>4. CASE ScanError
    <3>1. BooksKept /\ Mail' \subseteq Mail /\ Running' = Running
      BY Zenon, <2>4, ErrorEffect
    <3>2. PICK h \in Mail : h.type = "ScanError" /\ Mail \subseteq Mail' \cup {h}
      BY Zenon, <2>4, ErrorEffect
    <3>3. \A t : Awaited(t) => Awaited(t)'
      BY Zenon, <3>1, <3>2, <1>AwaitedKept
    <3> QED
      BY Zenon, <3>1, <3>3, <1>BooksDebts
  <2>5. CASE TransactionReceipts
    <3>1. UNCHANGED <<mempool, succeeded, failed>> /\ Mail' \subseteq Mail /\ Running' \subseteq Running
      BY ZenonT(40), <2>5, HandledEffect
    <3>2. OnChain' = OnChain
      BY Zenon, <3>1 DEF OnChain
    <3>3. PICK h \in Mail :
            /\ h.type = "Receipts" /\ h.confirmed \subseteq fingerprints
            /\ \/ /\ TransactionsConfirmed(h.confirmed)
                  /\ fingerprints' = {Flag(f, Rows(h.failures)) :
                                        f \in {g \in fingerprints : g.rowid \notin Rows(h.confirmed)}}
                  /\ Running' = Running /\ Mail \subseteq Mail' \cup {h}
               \/ /\ \E fs \in SUBSET h.confirmed : TransactionsConfirmed(fs)
                  /\ node' = "panicked"
      BY ZenonT(40), <2>5, HandledEffect
    <3>4. settled \subseteq settled'
      BY Zenon, <3>3, SettledGrows
    <3>5. OnePerCreditor'
      BY Zenon, <3>2, <3>4, <1>OnePerCreditorKept
    <3>6. ASSUME TransactionsConfirmed(h.confirmed),
                 fingerprints' = {Flag(f, Rows(h.failures)) :
                                    f \in {g \in fingerprints : g.rowid \notin Rows(h.confirmed)}},
                 Running' = Running, Mail \subseteq Mail' \cup {h}
          PROVE  DebtsInv'
      <4>1. \A f \in fingerprints : Flag(f, Rows(h.failures)).rowid = f.rowid
                                    /\ Flag(f, Rows(h.failures)).tx = f.tx
        BY Zenon, FlagFields DEF TypeOK, Batch
      <4>2. \A f \in fingerprints : f.rowid \notin Rows(h.confirmed) =>
               \E g \in fingerprints' : g.rowid = f.rowid /\ g.tx = f.tx
        BY Zenon, <3>6, <4>1
      <4>3. \A t : Awaited(t) => Awaited(t)'
        BY Zenon, <3>3, <3>6, <1>AwaitedKept
      <4>4. \A t \in OnChain : t \notin settled' /\ Shown(t) => Shown(t)'
        BY ZenonT(40), <3>3, <3>6, <4>2, <1>ConfirmedShown
      <4>5. \A t \in OnChain' \ settled' : Awaited(t)' \/ Shown(t)'
        BY SMTT(30), <3>2, <3>4, <4>3, <4>4 DEF DebtsInv
      <4>6. \A w \in Wallets : pending[w] = NoRow => pending'[w] = NoRow
        BY Zenon, <3>6, ConfirmedPending
      <4>7. (\A k : TaskIsDue(k) => TaskIsDue(k)') /\ \A m : MsgIsDue(m) => MsgIsDue(m)'
        BY Zenon, <3>2, <3>4, <4>6, <1>DueKept
      <4>8. (\A k \in Running' : TaskIsDue(k)') /\ \A m \in Mail' : MsgIsDue(m)'
        BY Zenon, <3>1, <4>7 DEF DebtsInv
      <4> QED
        BY ZenonT(40), <4>5, <4>8 DEF DebtsInv
    <3> QED
      BY ZenonT(40), <3>3, <3>5, <3>6
  <2> QED
    BY Zenon, <2>1, <2>2, <2>3, <2>4, <2>5 DEF Accountant

<1>StoppedRuns.
    ASSUME TypeOK, ScanExclusion, PendExclusion, RowsInv, Accountant, node = "up", node' # "up"
    PROVE  Running' = {} /\ Mail' = {}
  <2> USE <1>StoppedRuns
  <2>1. ASSUME BooksKept PROVE FALSE
    BY Zenon, <2>1 DEF BooksKept
  <2>2. ASSUME PayablePaymentSetup PROVE FALSE
    BY ZenonT(40), <2>1, <2>2, SetupEffect
  <2>3. ASSUME ScanError PROVE FALSE
    BY ZenonT(40), <2>1, <2>3, ErrorEffect
  <2>4. ASSUME NewPendingPayableFingerprints PROVE FALSE
    <3>1. UNCHANGED <<pending, settled, mempool, succeeded, failed, node>>
      BY ZenonT(40), <2>4, SeedsEffect
    <3> QED
      BY Zenon, <3>1
  <2>5. CASE SentPayables
    BY ZenonT(40), <2>5, SentEffect
  <2>6. CASE TransactionReceipts
    BY ZenonT(40), <2>6, HandledEffect
  <2> QED
    BY Zenon, <2>2, <2>3, <2>4, <2>5, <2>6 DEF Accountant

<1> SUFFICES ASSUME CardinalityFacts, RowidsAreStable, NeverRestarted, TypeOK, ScanExclusion, PendExclusion,
                    RowsInv, Debts, [Next]_vars
             PROVE  Debts'
  OBVIOUS
<1>1. ASSUME \/ \E w \in Wallets : MoreMoneyPayable(w) \/ DebtAges(w)
             \/ UpdateWallets \/ \E tx \in mempool : Mine(tx)
             \/ Restart \/ UNCHANGED vars
      PROVE  Debts'
  <2>1. /\ UNCHANGED <<pending, fingerprints, settled, task, inbox>>
        /\ Running' = Running /\ Mail' = Mail /\ OnChain' = OnChain /\ (node' = node \/ Restart)
    BY ZenonT(40), <1>1, CalmEffect
  <2>2. /\ pending' = pending /\ fingerprints \subseteq fingerprints' /\ settled' = settled /\ node' = node
    BY Zenon, <2>1 DEF Restart, NeverRestarted
  <2>3. \A t : Awaited(t) => Awaited(t)'
    BY Zenon, <2>1, <1>AwaitedKept
  <2>4. DebtsInv => DebtsInv'
    BY Zenon, <2>1, <2>2, <2>3, <1>DebtsFrame
  <2>5. OnePerCreditor'
    BY Zenon, <2>1, <2>2, <1>OnePerCreditorKept DEF Debts
  <2> QED
    BY Zenon, <2>1, <2>2, <2>4, <2>5 DEF Debts
<1>2. ASSUME NEW ctx \in Skeletons, ScanForPayables(ctx)
      PROVE  Debts'
  <2>1. BooksKept /\ Mail' = Mail /\ node = "up"
    BY ZenonT(40), <1>2, PayScanEffect
  <2>2. OnePerCreditor /\ DebtsInv /\ node' = "up"
    BY Zenon, <2>1 DEF Debts, BooksKept
  <2>3. CASE Running' = Running
    <3>1. \A t : Awaited(t) => Awaited(t)'
      BY Zenon, <2>1, <2>3, <1>AwaitedKept
    <3> QED
      BY Zenon, <2>1, <2>2, <2>3, <3>1, <1>BooksDebts DEF Debts
  <2>4. ASSUME ~payScan, NEW k \in Task, Running' = Running \cup {k}, k.kind = "agent",
               k.accounts = {[wallet |-> w, amount |-> balance[w]] : w \in Qualified}
        PROVE  Debts'
    <3>1. \A t : Awaited(t) => Awaited(t)'
      BY Zenon, <2>1, <2>4, <1>AwaitedKept
    <3>2. \A t \in OnChain \ settled : Shown(t)
      <4>1. (\A j \in Running : j.kind \notin PayKinds) /\ \A m \in Mail : ~Word(m)
        BY Zenon, <2>4, NoScan
      <4> QED
        BY Zenon, <2>2, <4>1 DEF DebtsInv, Awaited, PayKinds, Word
    <3>3. \A t \in OnChain \ settled : pending[t.wallet] # NoRow
      BY Zenon, <3>2 DEF Shown, TypeOK, Batch, Fingerprint
    <3>4. \A w \in Qualified : Free(w)
      BY Zenon, <3>3 DEF Free, Qualified, TypeOK
    <3>5. TaskIsDue(k)
      <4>1. \A a \in k.accounts : a.wallet \in Qualified
        BY ONLY <2>4, SMTT(30)
      <4> QED
        BY ZenonT(40), <2>4, <3>4, <4>1 DEF TaskIsDue
    <3>6. TaskIsDue(k)'
      <4>1. OnChain' = OnChain /\ settled \subseteq settled' /\ pending' = pending
        BY Zenon, <2>1 DEF BooksKept, OnChain
      <4> QED
        BY Zenon, <3>5, <4>1, <1>DueKept
    <3> QED
      BY SMTT(30), <2>1, <2>2, <2>4, <3>1, <3>6, <1>BooksDebts DEF Debts
  <2> QED
    BY ZenonT(40), <1>2, <2>3, <2>4, PayScanEffect
<1>3. ASSUME NEW ctx \in Skeletons, ScanForPendingPayables(ctx)
      PROVE  Debts'
  <2>1. BooksKept /\ Mail' = Mail /\ node = "up"
    BY ZenonT(40), <1>3, PendScanEffect
  <2>2. OnePerCreditor /\ DebtsInv /\ node' = "up"
    BY Zenon, <2>1 DEF Debts, BooksKept
  <2>3. /\ Running \subseteq Running' /\ \A k \in Running' : k \in Running \/ k.kind = "receipts"
    BY ZenonT(40), <1>3, PendScanEffect
  <2>4. \A t : Awaited(t) => Awaited(t)'
    BY Zenon, <2>1, <2>3, <1>AwaitedKept
  <2>5. \A k \in Running' : k \in Running \/ TaskIsDue(k)'
    BY ZenonT(40), <2>3 DEF TaskIsDue
  <2> QED
    BY Zenon, <2>1, <2>2, <2>4, <2>5, <1>BooksDebts DEF Debts
<1>4. CASE Kill
  <2>1. UNCHANGED <<mempool, succeeded, failed>> /\ node' = "killed" /\ Running' = {} /\ Mail' = {}
    BY ZenonT(40), <1>4, KillEffect
  <2>2. OnChain' = OnChain
    BY Zenon, <2>1 DEF OnChain
  <2>3. settled \subseteq settled'
    BY Zenon, <1>4, KillEffect, SettledGrows
  <2> QED
    BY Zenon, <2>1, <2>2, <2>3, <1>OnePerCreditorKept DEF Debts
<1>5. ASSUME NEW s \in Slots, Bridge(s)
      PROVE  Debts'
  <2>1. node = "up" /\ OnePerCreditor /\ DebtsInv
    BY ZenonT(40), <1>5, AtWork DEF Debts
  <2>2. node' = "up"
    BY ZenonT(40), <1>5, <2>1 DEF Bridge, BuildAgent, FetchNonceAndSign, SubmitBatch, BatchReply, BatchFails, FetchReceipts,
                      Step
  <2> QED
    BY ZenonT(40), <1>5, <2>1, <2>2, <1>BridgeDebts DEF Debts
<1>6. CASE Accountant
  <2>1. node = "up" /\ OnePerCreditor /\ DebtsInv
    BY ZenonT(40), <1>6, AtWork DEF Debts
  <2> QED
    BY ZenonT(40), <1>6, <2>1, <1>AccountantDebts, <1>StoppedRuns DEF Debts
<1> QED
  BY ZenonT(40), <1>1, <1>2, <1>3, <1>4, <1>5, <1>6 DEF Next

LEMMA InitDebts == Init => Debts
<1> SUFFICES ASSUME Init PROVE Debts
  BY Zenon
<1>1. Running = {} /\ Mail = {} /\ OnChain = {}
  BY DEF Init, Running, Mail, Busy, OnChain
<1> QED
  BY Zenon, <1>1 DEF Debts, OnePerCreditor, DebtsInv

\* Unless the chain refuses payments or the Node is restarted.
SoundDebts == Base /\ (RowidsAreStable /\ NeverRestarted => Debts)

LEMMA SoundDebtsInductive == CardinalityFacts /\ SoundDebts /\ [Next]_vars /\ TypeOK' => SoundDebts'
<1> SUFFICES ASSUME CardinalityFacts, SoundDebts, [Next]_vars, TypeOK'
             PROVE  SoundDebts'
  BY Zenon
<1>1. Base'
  BY Zenon, BaseInductive DEF SoundDebts
<1>2. ASSUME RowidsAreStable', NeverRestarted' PROVE Debts'
  <2>1. RowidsAreStable /\ NeverRestarted
    BY Zenon, <1>2, WorldIsFixed DEF RowidsAreStable, BatchesDoNotFail, NeverRestarted
  <2>2. TypeOK /\ ScanExclusion /\ PendExclusion /\ RowsInv /\ Debts
    BY Zenon, <2>1 DEF SoundDebts, Base
  <2> QED
    BY ZenonT(40), <2>1, <2>2, DebtsInductive
<1> QED
  BY Zenon, <1>1, <1>2 DEF SoundDebts

-----------------------------------------------------------------------------
(* Payments on the chain are tracked *)

LEMMA AppendInOrder ==
  ASSUME NEW q \in Seq(Msg), NEW m \in Msg, InOrder(q),
         m.type = "Seeds" => \A i \in 1 .. Len(q) : q[i].type \notin {"Seeds", "Sent"}
  PROVE  InOrder(q \o <<m>>)
<1> DEFINE r == q \o <<m>>
<1>1. /\ Len(q) \in Nat /\ Len(r) = Len(q) + 1 /\ r[Len(q) + 1] = m
      /\ \A i \in 1 .. Len(q) : r[i] = q[i]
  BY SMTT(30)
<1> HIDE DEF r
<1>2. SeedsIn(r) = SeedsIn(q) \cup (IF m.type = "Seeds" THEN {Len(q) + 1} ELSE {})
  BY SMTT(30), <1>1 DEF SeedsIn
<1>3. CASE m.type = "Seeds"
  <2>1. SeedsIn(r) = {Len(q) + 1}
    BY Zenon, <1>2, <1>3 DEF SeedsIn
  <2>2. \A i \in 1 .. Len(r) : r[i].type # "Sent"
    BY SMTT(30), <1>1, <1>3
  <2>3. InOrder(r)
    BY Zenon, <2>1, <2>2 DEF InOrder
  <2> QED
    BY Zenon, <2>3 DEF r
<1>4. CASE m.type # "Seeds"
  <2>1. SeedsIn(r) = SeedsIn(q) /\ \A j \in SeedsIn(q) : j \in Nat /\ j < Len(q) + 1
    BY SMTT(30), <1>1, <1>2, <1>4 DEF SeedsIn
  <2>2. InOrder(r)
    BY <1>1, <2>1 DEF InOrder
  <2> QED
    BY Zenon, <2>2 DEF r
<1> QED
  BY Zenon, <1>3, <1>4

LEMMA TailInOrder ==
  ASSUME NEW q \in Seq(Msg), q # <<>>, InOrder(q)
  PROVE  /\ InOrder(Tail(q))
         /\ Head(q).type \in {"Seeds", "Sent"} => SeedsIn(Tail(q)) = {}
<1> DEFINE r == Tail(q)
<1>1. /\ Len(q) \in Nat /\ Len(q) > 0 /\ Len(r) = Len(q) - 1 /\ Head(q) = q[1]
      /\ \A i \in 1 .. Len(r) : r[i] = q[i + 1]
  OBVIOUS
<1> HIDE DEF r
<1>2. \A i \in SeedsIn(r) : i \in Nat /\ i > 0 /\ i + 1 \in SeedsIn(q)
  BY SMTT(30), <1>1 DEF SeedsIn
<1>3. InOrder(r)
  <2>1. \A i, j \in SeedsIn(r) : i = j
    BY SMTT(30), <1>2 DEF InOrder
  <2>2. ASSUME NEW i \in 1 .. Len(r), NEW j \in SeedsIn(r), r[i].type = "Sent" PROVE j < i
    <3>1. i + 1 \in 1 .. Len(q) /\ q[i + 1].type = "Sent" /\ j + 1 \in SeedsIn(q) /\ j \in Nat
      BY SMTT(30), <1>1, <1>2, <2>2
    <3>2. j + 1 < i + 1
      BY Zenon, <3>1 DEF InOrder
    <3> QED
      BY SMTT(30), <3>1, <3>2
  <2> QED
    BY Zenon, <2>1, <2>2 DEF InOrder
<1>4. ASSUME Head(q).type \in {"Seeds", "Sent"} PROVE SeedsIn(r) = {}
  <2>1. 1 \in 1 .. Len(q) /\ q[1].type \in {"Seeds", "Sent"}
    BY SMTT(30), <1>1, <1>4
  <2>2. \A j \in SeedsIn(q) : j = 1 \/ j < 1
    BY Zenon, <2>1 DEF InOrder, SeedsIn
  <2> QED
    BY SMTT(30), <1>2, <2>2
<1> QED
  BY Zenon, <1>3, <1>4 DEF r

\* The mailbox is served: what became of the announcements.
LEMMA SeedsServed ==
  ASSUME TypeOK, InOrder(inbox), inbox # <<>>, inbox' = Tail(inbox)
  PROVE  /\ InOrder(inbox')
         /\ Head(inbox).type \in {"Seeds", "Sent"} => \A m \in Mail' : m.type # "Seeds"
<1>1. inbox \in Seq(Msg)
  BY Zenon DEF TypeOK
<1>2. InOrder(inbox') /\ (Head(inbox).type \in {"Seeds", "Sent"} => SeedsIn(inbox') = {})
  BY Zenon, <1>1, TailInOrder
<1> QED
  BY ZenonT(40), <1>2 DEF Mail, SeedsIn

LEMMA SeedsAppended ==
  ASSUME TypeOK, InOrder(inbox), NEW m \in Msg, inbox' = inbox \o <<m>>,
         m.type = "Seeds" => \A n \in Mail : n.type \notin {"Seeds", "Sent"}
  PROVE  InOrder(inbox')
<1>1. inbox \in Seq(Msg)
  BY Zenon DEF TypeOK
<1>2. m.type = "Seeds" => \A i \in 1 .. Len(inbox) : inbox[i].type \notin {"Seeds", "Sent"}
  BY Zenon DEF Mail
<1> QED
  BY Zenon, <1>1, <1>2, AppendInOrder

\* A message that is sent at the head of the mailbox has no announcement behind it.
LEMMA NoSeedsBehindSent ==
  ASSUME TypeOK, InOrder(inbox), inbox # <<>>, Head(inbox).type = "Sent"
  PROVE  \A m \in Mail : m.type # "Seeds"
<1>1. Len(inbox) \in Nat /\ 1 \in 1 .. Len(inbox) /\ inbox[1].type = "Sent"
  BY DEF TypeOK
<1>2. \A j \in SeedsIn(inbox) : j < 1 /\ j \in 1 .. Len(inbox)
  BY Zenon, <1>1 DEF InOrder, SeedsIn
<1>3. SeedsIn(inbox) = {}
  BY <1>2
<1> QED
  BY Zenon, <1>3 DEF SeedsIn, Mail

\* A future of a payable scan is the only one, and no message of a scan is waiting.
LEMMA Alone ==
  ASSUME ScanExclusion, NEW k \in Running, k.kind \in PayKinds
  PROVE  Running = Others \cup {k} /\ \A m \in Mail : ~Word(m)
<1>1. PICK s \in PayFutures : task[s] = k
  BY Zenon DEF Running, PayFutures
<1>2. \A t \in PayFutures : t = s
  BY Zenon DEF ScanExclusion
<1>3. PayWords(inbox) = {}
  BY Zenon, <1>1 DEF ScanExclusion
<1>4. \A j \in Running : j.kind \in PayKinds => j = k
  BY Zenon, <1>1, <1>2 DEF Running, PayFutures
<1>5. \A m \in Mail : ~Word(m)
  BY Zenon, <1>3 DEF PayWords, Mail
<1> QED
  BY Zenon, <1>4, <1>5 DEF Others

\* There is one batch under way at most.
LEMMA OneBatch ==
  ASSUME ScanExclusion, NEW B \in Batches, NEW C \in Batches
  PROVE  B = C
<1>1. \A m, n \in Mail : Word(m) /\ Word(n) => m = n
  BY DEF ScanExclusion, PayWords, Mail
<1>2. CASE \E k \in Running : k.kind \in {"submit", "reply"}
  <2>1. PICK k \in Running : k.kind \in {"submit", "reply"}
    BY Zenon, <1>2
  <2>2. Running = Others \cup {k} /\ \A m \in Mail : ~Word(m)
    BY Zenon, <2>1, Alone DEF PayKinds
  <2>3. \A D \in Batches : D = IF k.kind = "submit" THEN k.txs ELSE k.oks
    BY Zenon, <2>1, <2>2 DEF Batches, Others, PayKinds, Word
  <2> QED
    BY Zenon, <2>3
<1>3. CASE \A k \in Running : k.kind \notin {"submit", "reply"}
  BY Zenon, <1>1, <1>3 DEF Batches, Word
<1> QED
  BY Zenon, <1>2, <1>3

\* The payments of a batch under way: on the chain or being submitted, to accounts not waiting.
LEMMA BatchesAreDue ==
  ASSUME DebtsInv, NEW B \in Batches, NEW t \in B
  PROVE  t \in OnChain \cup Submitting /\ pending[t.wallet] = NoRow
<1>1. CASE \E k \in Running : k.kind = "submit" /\ B = k.txs
  BY Zenon, <1>1 DEF DebtsInv, TaskIsDue, Free, Submitting
<1>2. CASE \E k \in Running : k.kind = "reply" /\ B = k.oks
  BY Zenon, <1>2 DEF DebtsInv, TaskIsDue, Accepted
<1>3. CASE \E m \in Mail : m.type = "Sent" /\ B = m.oks
  BY Zenon, <1>3 DEF DebtsInv, MsgIsDue, Accepted
<1> QED
  BY Zenon, <1>1, <1>2, <1>3 DEF Batches

LEMMA BatchesKept ==
  ASSUME \A k : k.kind \in {"submit", "reply"} => (k \in Running' <=> k \in Running),
         \A m : m.type = "Sent" => (m \in Mail' <=> m \in Mail)
  PROVE  Batches' = Batches /\ Submitting' = Submitting
BY DEF Batches, Submitting

LEMMA AnnouncedKept ==
  ASSUME \A m : m.type = "Seeds" => (m \in Mail' <=> m \in Mail)
  PROVE  Announced' = Announced
BY Zenon DEF Announced

\* Nothing happens to the batch under way, to its announcement or to the rows.
LEMMA TrackingFrame ==
  ASSUME TrackingInv, fingerprints' = fingerprints, settled' = settled, OnChain' = OnChain,
         succeeded \subseteq succeeded', InOrder(inbox'),
         \A k : k.kind \in {"submit", "reply"} => (k \in Running' <=> k \in Running),
         \A m : m.type \in {"Seeds", "Sent"} => (m \in Mail' <=> m \in Mail),
         \A m \in Mail' : m.type = "Receipts" => m \in Mail \/ \A f \in m.confirmed : f.tx \in succeeded
  PROVE  TrackingInv'
<1>1. Batches' = Batches /\ Submitting' = Submitting /\ Announced' = Announced /\ KnownHashes' = KnownHashes
  BY SMTT(30), BatchesKept, AnnouncedKept DEF KnownHashes
<1>2. \A f, g \in fingerprints' : f.tx = g.tx => f = g
  BY Zenon DEF TrackingInv
<1>3. /\ settled' \subseteq OnChain' /\ settled' \cap (KnownHashes' \cup Announced') = {}
      /\ KnownHashes' \subseteq OnChain' \cup Submitting' /\ KnownHashes' \cap Announced' = {}
  BY Zenon, <1>1 DEF TrackingInv
<1>4. \A m \in Mail' : m.type = "Seeds" => m.txs \in Batches'
  BY SMTT(30), <1>1 DEF TrackingInv
<1>5. \A B \in Batches' : B \subseteq KnownHashes' \/ SeedsMsg(B) \in Mail'
  <2>1. \A B : SeedsMsg(B).type = "Seeds"
    BY Zenon DEF SeedsMsg
  <2> QED
    BY SMTT(30), <1>1, <2>1 DEF TrackingInv
<1>6. \A m \in Mail' : m.type = "Receipts" => \A f \in m.confirmed : f.tx \in succeeded'
  BY Zenon DEF TrackingInv
<1> QED
  BY ZenonT(40), <1>2, <1>3, <1>4, <1>5, <1>6 DEF TrackingInv

LEMMA TrackedKept ==
  ASSUME Tracked, KnownHashes \subseteq KnownHashes', settled' = settled,
         mempool' \cup succeeded' \subseteq mempool \cup succeeded, Announced' = Announced
  PROVE  Tracked'
BY Zenon DEF Tracked

\* The books stay as they are, and so do the batch and its announcement.
LEMMA BooksTracked ==
  ASSUME Tracked, TrackingInv, BooksKept, InOrder(inbox'),
         \A k : k.kind \in {"submit", "reply"} => (k \in Running' <=> k \in Running),
         \A m : m.type \in {"Seeds", "Sent"} => (m \in Mail' <=> m \in Mail),
         \A m \in Mail' : m.type = "Receipts" => m \in Mail \/ \A f \in m.confirmed : f.tx \in succeeded
  PROVE  Tracked' /\ TrackingInv'
<1>1. /\ fingerprints' = fingerprints /\ settled' = settled /\ OnChain' = OnChain
      /\ mempool' \cup succeeded' \subseteq mempool \cup succeeded
      /\ succeeded \subseteq succeeded' /\ KnownHashes \subseteq KnownHashes'
  BY Zenon DEF BooksKept, OnChain, KnownHashes
<1>2. Announced' = Announced
  BY SMTT(30), AnnouncedKept
<1>3. Tracked'
  BY Zenon, <1>1, <1>2, TrackedKept
<1>4. TrackingInv'
  BY SMTT(30), <1>1, TrackingFrame
<1> QED
  BY ZenonT(40), <1>3, <1>4

LEMMA SignTracked ==
  ASSUME CardinalityFacts, RowidsAreStable, TypeOK, ScanExclusion, RowsInv, DebtsInv, Tracked,
         TrackingInv,
         NEW s \in Slots, FetchNonceAndSign(s)
  PROVE  Tracked' /\ TrackingInv'
<1>1. BooksKept /\ \A m \in Mail : ~Word(m)
  BY ZenonT(40), SignEffect DEF RowidsAreStable
<1>2. PICK k \in Running, n \in Task, first \in Nonces, txs \in Batch(Tx) :
        /\ k.kind = "nonce" /\ k.accounts \in Batch(Account)
        /\ PendingNonce(first) /\ txs = SignedTxs(k.accounts, k.gas, first)
        /\ n.kind = "submit" /\ n.txs = txs
        /\ Running = Others \cup {k} /\ Running' = Others \cup {n}
        /\ Mail' = Mail \cup {SeedsMsg(txs)} /\ inbox' = inbox \o <<SeedsMsg(txs)>>
        /\ SeedsMsg(txs) \in Msg
  BY ZenonT(40), SignEffect DEF RowidsAreStable
<1>3. /\ fingerprints' = fingerprints /\ settled' = settled /\ OnChain' = OnChain
      /\ mempool' = mempool /\ succeeded' = succeeded /\ KnownHashes' = KnownHashes
  BY Zenon, <1>1 DEF BooksKept, OnChain, KnownHashes
<1>4. Batches = {} /\ Submitting = {}
  BY ZenonT(40), <1>1, <1>2 DEF Batches, Submitting, Others, PayKinds, Word
<1>5. \A m \in Mail : m.type \notin {"Seeds", "Sent"}
  BY ZenonT(40), <1>1, <1>4 DEF TrackingInv, Word
<1>6. SeedsMsg(txs).type = "Seeds" /\ SeedsMsg(txs).txs = txs
  BY Zenon DEF SeedsMsg
<1>7. Announced = {} /\ Announced' = txs
  BY ZenonT(40), <1>2, <1>5, <1>6 DEF Announced
<1>8. Submitting' = txs /\ Batches' = {txs}
  BY ZenonT(40), <1>1, <1>2, <1>5, <1>6 DEF Batches, Submitting, Others, PayKinds
<1>9. txs \cap OnChain = {}
  <2>1. OnePerWallet(k.accounts) /\ first \in Nat
    <3>1. k \in Running /\ k.kind = "nonce" /\ first \in Nonces
      BY ZenonT(40), <1>2
    <3> QED
      BY SMTT(30), <3>1, PaymentsAssumption DEF RowsInv, TaskIsSound, Nonces
  <2>2. Continues(txs)
    BY ZenonT(40), <1>2, <2>1, SignedContinues DEF RowsInv
  <2> QED
    BY Zenon, <2>2 DEF Continues, Taken
<1>10. Tracked'
  BY Zenon, <1>3, <1>7 DEF Tracked
<1>11. \A f, g \in fingerprints' : f.tx = g.tx => f = g
  BY ZenonT(40), <1>3 DEF TrackingInv
<1>12. /\ settled' \subseteq OnChain' /\ settled' \cap (KnownHashes' \cup Announced') = {}
       /\ KnownHashes' \subseteq OnChain' \cup Submitting' /\ KnownHashes' \cap Announced' = {}
  BY ZenonT(40), <1>3, <1>4, <1>7, <1>9 DEF TrackingInv
<1>13. (\A m \in Mail' : m.type = "Seeds" => m.txs \in Batches')
       /\ \A B \in Batches' : B \subseteq KnownHashes' \/ SeedsMsg(B) \in Mail'
  BY ZenonT(40), <1>2, <1>5, <1>6, <1>8
<1>14. InOrder(inbox')
  BY ZenonT(40), <1>2, <1>5, SeedsAppended DEF TrackingInv
<1>15. \A m \in Mail' : m.type = "Receipts" => \A f \in m.confirmed : f.tx \in succeeded'
  BY ZenonT(40), <1>2, <1>3, <1>6 DEF TrackingInv
<1> QED
  BY ZenonT(40), <1>10, <1>11, <1>12, <1>13, <1>14, <1>15 DEF TrackingInv

LEMMA SubmitTracked ==
  ASSUME RowidsAreStable, TypeOK, ScanExclusion, RowsInv, DebtsInv, Tracked, TrackingInv,
         NEW s \in Slots, SubmitBatch(s)
  PROVE  Tracked' /\ TrackingInv'
<1>1. /\ UNCHANGED <<pending, fingerprints, settled, node, succeeded, failed, inbox>>
      /\ Mail' = Mail /\ \A m \in Mail : ~Word(m)
  BY ZenonT(40), SubmitEffect
<1>2. PICK k \in Running, n \in Task :
        /\ k.kind = "submit" /\ n.kind = "reply" /\ n.oks = k.txs
        /\ mempool' = mempool \cup k.txs /\ Running = Others \cup {k} /\ Running' = Others \cup {n}
  BY ZenonT(40), SubmitEffect
<1>3. /\ fingerprints' = fingerprints /\ settled' = settled /\ OnChain' = OnChain \cup k.txs
      /\ succeeded' = succeeded /\ KnownHashes' = KnownHashes /\ Announced' = Announced /\ inbox' = inbox
  BY ZenonT(40), <1>1, <1>2 DEF OnChain, KnownHashes, Announced
<1>4. Submitting = k.txs /\ Submitting' = {} /\ Batches = {k.txs} /\ Batches' = {k.txs}
  BY ZenonT(40), <1>1, <1>2 DEF Batches, Submitting, Others, PayKinds, Word
<1>5. k.txs \subseteq KnownHashes \cup Announced
  <2>1. k.txs \subseteq KnownHashes \/ SeedsMsg(k.txs) \in Mail
    BY ZenonT(40), <1>4 DEF TrackingInv
  <2>2. SeedsMsg(k.txs).type = "Seeds" /\ SeedsMsg(k.txs).txs = k.txs
    BY Zenon DEF SeedsMsg
  <2> QED
    BY Zenon, <2>1, <2>2 DEF Announced
<1>6. Tracked'
  BY Zenon, <1>2, <1>3, <1>5 DEF Tracked
<1>7. /\ settled' \subseteq OnChain' /\ settled' \cap (KnownHashes' \cup Announced') = {}
      /\ KnownHashes' \subseteq OnChain' \cup Submitting' /\ KnownHashes' \cap Announced' = {}
  BY Zenon, <1>3, <1>4 DEF TrackingInv
<1>8. \A m \in Mail' : m.type = "Seeds" => m.txs \in Batches'
  BY ZenonT(40), <1>1, <1>4 DEF TrackingInv
<1>9. \A B \in Batches' : B \subseteq KnownHashes' \/ SeedsMsg(B) \in Mail'
  BY ZenonT(40), <1>1, <1>3, <1>4 DEF TrackingInv
<1>10. \A m \in Mail' : m.type = "Receipts" => \A f \in m.confirmed : f.tx \in succeeded'
  BY ZenonT(40), <1>1, <1>3 DEF TrackingInv
<1>11. (\A f, g \in fingerprints' : f.tx = g.tx => f = g) /\ InOrder(inbox')
  BY ZenonT(40), <1>3 DEF TrackingInv
<1> QED
  BY ZenonT(40), <1>6, <1>7, <1>8, <1>9, <1>10, <1>11 DEF TrackingInv

LEMMA ReplyTracked ==
  ASSUME RowidsAreStable, TypeOK, ScanExclusion, RowsInv, DebtsInv, Tracked, TrackingInv,
         NEW s \in Slots, BatchReply(s)
  PROVE  Tracked' /\ TrackingInv'
<1>1. BooksKept /\ Running' = Others /\ \A m \in Mail : ~Word(m)
  BY ZenonT(40), ReplyEffect DEF RowidsAreStable
<1>2. PICK k \in Running, m \in Msg :
        /\ k.kind = "reply" /\ Running = Others \cup {k}
        /\ m.type = "Sent" /\ m.oks = k.oks /\ m.fails = k.fails
        /\ Mail' = Mail \cup {m} /\ inbox' = inbox \o <<m>>
  BY ZenonT(40), ReplyEffect DEF RowidsAreStable
<1>3. /\ fingerprints' = fingerprints /\ settled' = settled /\ OnChain' = OnChain
      /\ mempool' \cup succeeded' \subseteq mempool \cup succeeded
      /\ succeeded' = succeeded /\ KnownHashes' = KnownHashes
  BY ZenonT(40), <1>1 DEF BooksKept, OnChain, KnownHashes
<1>4. Submitting = {} /\ Submitting' = {} /\ Batches = {k.oks} /\ Batches' = {k.oks}
  BY ZenonT(40), <1>1, <1>2 DEF Batches, Submitting, Others, PayKinds, Word
<1>5. Announced' = Announced
  BY Zenon, <1>2, AnnouncedKept
<1>6. Tracked'
  BY Zenon, <1>3, <1>5, TrackedKept
<1>7. /\ settled' \subseteq OnChain' /\ settled' \cap (KnownHashes' \cup Announced') = {}
      /\ KnownHashes' \subseteq OnChain' \cup Submitting' /\ KnownHashes' \cap Announced' = {}
  BY Zenon, <1>3, <1>4, <1>5 DEF TrackingInv
<1>8. \A n \in Mail' : n.type = "Seeds" => n.txs \in Batches'
  BY ZenonT(40), <1>2, <1>4 DEF TrackingInv
<1>9. \A B \in Batches' : B \subseteq KnownHashes' \/ SeedsMsg(B) \in Mail'
  BY ZenonT(40), <1>2, <1>3, <1>4 DEF TrackingInv
<1>10. \A n \in Mail' : n.type = "Receipts" => \A f \in n.confirmed : f.tx \in succeeded'
  BY ZenonT(40), <1>2, <1>3 DEF TrackingInv
<1>11. InOrder(inbox')
  BY ZenonT(40), <1>2, SeedsAppended DEF TrackingInv
<1>12. \A f, g \in fingerprints' : f.tx = g.tx => f = g
  BY ZenonT(40), <1>3 DEF TrackingInv
<1> QED
  BY ZenonT(40), <1>6, <1>7, <1>8, <1>9, <1>10, <1>11, <1>12 DEF TrackingInv

LEMMA BridgeTracked ==
  ASSUME CardinalityFacts, RowidsAreStable, TypeOK, ScanExclusion, RowsInv, DebtsInv, Tracked,
         TrackingInv,
         NEW s \in Slots, Bridge(s)
  PROVE  Tracked' /\ TrackingInv'
<1>1. CASE BuildAgent(s)
  <2>1. BooksKept /\ Running' = Others /\ \A m \in Mail : ~Word(m)
    BY ZenonT(40), <1>1, AgentEffect
  <2>2. PICK k \in Running, m \in Msg :
          /\ k.kind = "agent" /\ Mail' = Mail \cup {m} /\ inbox' = inbox \o <<m>>
          /\ \/ m.type = "Agent" /\ m.accounts = k.accounts
             \/ m.type = "ScanError"
    BY ZenonT(40), <1>1, AgentEffect
  <2>3. Running = Others \cup {k}
    BY ZenonT(40), <2>2, Alone DEF PayKinds
  <2>4. \A j : j.kind \in {"submit", "reply"} => (j \in Running' <=> j \in Running)
    BY ZenonT(40), <2>1, <2>2, <2>3
  <2>5. m.type \in {"Agent", "ScanError"}
    BY ZenonT(40), <2>2
  <2>6. InOrder(inbox')
    BY ZenonT(40), <2>2, <2>5, SeedsAppended DEF TrackingInv
  <2>7. /\ \A n : n.type \in {"Seeds", "Sent"} => (n \in Mail' <=> n \in Mail)
        /\ \A n \in Mail' : n.type = "Receipts" => n \in Mail
    BY Zenon, <2>2, <2>5
  <2> QED
    BY ZenonT(40), <2>1, <2>4, <2>6, <2>7, BooksTracked
<1>2. CASE BatchFails(s)
  BY Zenon, <1>2 DEF BatchFails, RowidsAreStable, BatchesDoNotFail
<1>3. CASE FetchReceipts(s)
  <2>1. BooksKept /\ Running' \subseteq Running /\ \A k \in Running : k.kind \in PayKinds => k \in Running'
    BY ZenonT(40), <1>3, AskEffect
  <2>2. PICK m \in Msg :
          /\ Mail' = Mail \cup {m} /\ inbox' = inbox \o <<m>>
          /\ m.type \in {"Receipts", "ScanError"}
          /\ m.type = "Receipts" => \A f \in m.confirmed : f.tx \in succeeded
    BY ZenonT(40), <1>3, AskEffect
  <2>3. \A j : j.kind \in {"submit", "reply"} => (j \in Running' <=> j \in Running)
    BY Zenon, <2>1 DEF PayKinds
  <2>4. InOrder(inbox')
    BY Zenon, <2>2, SeedsAppended DEF TrackingInv
  <2>5. /\ \A n : n.type \in {"Seeds", "Sent"} => (n \in Mail' <=> n \in Mail)
        /\ \A n \in Mail' : n.type = "Receipts" => n \in Mail \/ \A f \in n.confirmed : f.tx \in succeeded
    BY Zenon, <2>2
  <2> QED
    BY ZenonT(40), <2>1, <2>3, <2>4, <2>5, BooksTracked
<1> QED
  BY ZenonT(40), <1>1, <1>2, <1>3, SignTracked, SubmitTracked, ReplyTracked DEF Bridge

\* The announced fingerprints are stored: none of them was known.
LEMMA SeedsTracked ==
  ASSUME CardinalityFacts, "InsertError" \notin world.faults, TypeOK, ScanExclusion, RowsInv, DebtsInv,
         Tracked, TrackingInv, NewPendingPayableFingerprints
  PROVE  Tracked' /\ TrackingInv'
<1>1. /\ UNCHANGED <<pending, settled, mempool, succeeded, failed, node>>
      /\ inbox # <<>> /\ inbox' = Tail(inbox) /\ Mail' \subseteq Mail /\ Running' = Running
  BY ZenonT(40), SeedsEffect
<1>2. PICK h \in Mail :
        /\ h = Head(inbox) /\ h.type = "Seeds" /\ h.txs \in Batch(Tx) /\ Mail \subseteq Mail' \cup {h}
        /\ \/ /\ h.txs \cap KnownHashes = {}
              /\ \E top \in Nat : MaxRowid(top) /\ fingerprints' = fingerprints \cup NewFingerprints(h.txs, top)
           \/ /\ h.txs \cap KnownHashes # {} \/ "InsertError" \in world.faults
              /\ fingerprints' = fingerprints
  BY ZenonT(40), SeedsEffect
<1>3. h.txs \subseteq Announced /\ h.txs \in Batches /\ OneEach(h.txs)
  <2>1. h \in Mail /\ h.type = "Seeds"
    BY ZenonT(40), <1>2
  <2>2. h.txs \subseteq Announced
    BY Zenon, <2>1 DEF Announced
  <2>3. h.txs \in Batches
    BY ZenonT(40), <2>1 DEF TrackingInv
  <2>4. OneEach(h.txs)
    BY ZenonT(40), <2>1 DEF RowsInv, MsgIsSound
  <2> QED
    BY Zenon, <2>2, <2>3, <2>4
<1>4. h.txs \cap KnownHashes = {}
  BY ZenonT(40), <1>3 DEF TrackingInv
<1>5. PICK top \in Nat : fingerprints' = fingerprints \cup NewFingerprints(h.txs, top)
  BY ZenonT(40), <1>2, <1>4
<1>6. /\ {f.tx : f \in NewFingerprints(h.txs, top)} = h.txs
      /\ \A f, g \in NewFingerprints(h.txs, top) : f.tx = g.tx => f = g
  BY ZenonT(40), <1>2, <1>3, NewRows
<1>7. KnownHashes' = KnownHashes \cup h.txs
  BY Zenon, <1>5, <1>6 DEF KnownHashes
<1>8. InOrder(inbox') /\ \A m \in Mail' : m.type # "Seeds"
  BY ZenonT(40), <1>1, <1>2, SeedsServed DEF TrackingInv
<1>9. Announced' = {} /\ Announced = h.txs
  BY ZenonT(40), <1>2, <1>8 DEF Announced
<1>10. OnChain' = OnChain /\ succeeded' = succeeded /\ settled' = settled
  BY Zenon, <1>1 DEF OnChain
<1>11. Batches' = Batches /\ Submitting' = Submitting
  BY ZenonT(40), <1>1, <1>2, BatchesKept
<1>12. Tracked'
  BY Zenon, <1>1, <1>7, <1>9 DEF Tracked
<1>13. \A f, g \in fingerprints' : f.tx = g.tx => f = g
  <2>1. ASSUME NEW f \in fingerprints, NEW g \in NewFingerprints(h.txs, top) PROVE f.tx # g.tx
    BY Zenon, <1>4, <1>6 DEF KnownHashes
  <2> QED
    BY ZenonT(40), <1>5, <1>6, <2>1 DEF TrackingInv
<1>14. /\ settled' \subseteq OnChain' /\ settled' \cap (KnownHashes' \cup Announced') = {}
       /\ KnownHashes' \cap Announced' = {}
  BY ZenonT(40), <1>3, <1>7, <1>9, <1>10 DEF TrackingInv
<1>15. KnownHashes' \subseteq OnChain' \cup Submitting'
  <2>1. h.txs \subseteq OnChain \cup Submitting
    BY Zenon, <1>3, BatchesAreDue
  <2> QED
    BY ZenonT(40), <1>7, <1>10, <1>11, <2>1 DEF TrackingInv
<1>16. \A B \in Batches' : B \subseteq KnownHashes' \/ SeedsMsg(B) \in Mail'
  <2>1. \A B \in Batches : B = h.txs
    BY ZenonT(40), <1>3, OneBatch
  <2> QED
    BY ZenonT(40), <1>7, <1>11, <2>1
<1>17. \A m \in Mail' : m.type = "Receipts" => \A f \in m.confirmed : f.tx \in succeeded'
  BY ZenonT(40), <1>1, <1>10 DEF TrackingInv
<1>18. \A m \in Mail' : m.type = "Seeds" => m.txs \in Batches'
  BY ZenonT(40), <1>8
<1> QED
  BY ZenonT(40), <1>8, <1>12, <1>13, <1>14, <1>15, <1>16, <1>17, <1>18 DEF TrackingInv

\* By the time the Accountant hears of the submission, the fingerprints are stored.
LEMMA SentTracked ==
  ASSUME TypeOK, ScanExclusion, RowsInv, DebtsInv, Tracked, TrackingInv, SentPayables
  PROVE  Tracked' /\ (node' = "up" => TrackingInv')
<1>1. /\ UNCHANGED <<fingerprints, settled, mempool, succeeded, failed>>
      /\ Mail' \subseteq Mail /\ Running' \subseteq Running /\ Running = Others
  BY ZenonT(40), SentEffect
<1>2. PICK h \in Mail :
        /\ h = Head(inbox) /\ h.type = "Sent" /\ inbox # <<>>
        /\ \/ /\ inbox' = Tail(inbox) /\ Running' = Running /\ \A m \in Mail' : ~Word(m)
           \/ node' = "panicked"
  BY ZenonT(40), SentEffect
<1>3. \A m \in Mail : m.type # "Seeds"
  BY ZenonT(40), <1>2, NoSeedsBehindSent DEF TrackingInv
<1>4. Announced = {} /\ Announced' = {}
  BY ZenonT(40), <1>1, <1>3 DEF Announced
<1>5. /\ OnChain' = OnChain /\ fingerprints' = fingerprints /\ settled' = settled
      /\ succeeded' = succeeded /\ KnownHashes' = KnownHashes
      /\ mempool' \cup succeeded' \subseteq mempool \cup succeeded
  BY ZenonT(40), <1>1 DEF OnChain, KnownHashes
<1>6. Tracked'
  BY SMTT(30), <1>4, <1>5, TrackedKept
<1>7. ASSUME inbox' = Tail(inbox), Running' = Running, \A m \in Mail' : ~Word(m)
      PROVE  TrackingInv'
  <2>1. Submitting = {} /\ Submitting' = {} /\ Batches' = {}
    BY ZenonT(40), <1>1, <1>7 DEF Batches, Submitting, Others, PayKinds, Word
  <2>2. /\ settled' \subseteq OnChain' /\ settled' \cap (KnownHashes' \cup Announced') = {}
        /\ KnownHashes' \subseteq OnChain' \cup Submitting' /\ KnownHashes' \cap Announced' = {}
    BY Zenon, <1>4, <1>5, <2>1 DEF TrackingInv
  <2>3. InOrder(inbox')
    BY ZenonT(40), <1>2, <1>7, SeedsServed DEF TrackingInv
  <2>4. \A m \in Mail' : m.type = "Seeds" => m.txs \in Batches'
    BY Zenon, <1>1, <1>3
  <2>5. \A m \in Mail' : m.type = "Receipts" => \A f \in m.confirmed : f.tx \in succeeded'
    BY ZenonT(40), <1>1, <1>5 DEF TrackingInv
  <2>6. \A f, g \in fingerprints' : f.tx = g.tx => f = g
    BY ZenonT(40), <1>5 DEF TrackingInv
  <2>7. \A B \in Batches' : B \subseteq KnownHashes' \/ SeedsMsg(B) \in Mail'
    BY Zenon, <2>1
  <2> QED
    BY ZenonT(40), <2>2, <2>3, <2>4, <2>5, <2>6, <2>7 DEF TrackingInv
<1> QED
  BY ZenonT(40), <1>2, <1>6, <1>7

\* A row an account waits for is about a payment to that account, and to no other.
LEMMA DebtorIsPayee ==
  ASSUME TypeOK, RowsInv, NEW f \in fingerprints, NEW w \in Debtors(f)
  PROVE  f.tx.wallet = w /\ pending[f.tx.wallet] # NoRow
<1>1. w \in Wallets /\ pending[w] = f.rowid /\ f.rowid # NoRow
  BY Zenon DEF Debtors, TypeOK, Batch, Fingerprint
<1>2. PICK g \in fingerprints : g.rowid = pending[w] /\ g.tx.wallet = w
  BY ZenonT(40), <1>1 DEF RowsInv, Waits
<1>3. g = f
  BY Zenon, <1>1, <1>2 DEF RowsInv, RowidsAreUnique
<1> QED
  BY Zenon, <1>1, <1>2, <1>3

LEMMA ShownMatches ==
  ASSUME TypeOK, RowsInv, NEW f \in fingerprints, NEW g \in fingerprints, f.tx = g.tx => f = g,
         f.tx \in OnChain, g.rowid = pending[f.tx.wallet], g.tx = f.tx
  PROVE  MatchesOne(f)
<1>1. f.tx.wallet \in Wallets
  BY ZenonT(40) DEF TypeOK, OnChain, Tx
<1>2. f.tx.wallet \in Debtors(f)
  BY Zenon, <1>1 DEF Debtors
<1>3. \A w \in Debtors(f) : w = f.tx.wallet
  BY ZenonT(40), DebtorIsPayee
<1>4. Debtors(f) = {f.tx.wallet}
  BY Zenon, <1>2, <1>3
<1> QED
  BY Zenon, <1>1, <1>4 DEF MatchesOne

\* A confirmation that no account waits for is about a batch the Accountant has yet to hear of,
\* whose fingerprints were stored: nothing is announced then.
LEMMA NothingAnnounced ==
  ASSUME TypeOK, ScanExclusion, RowsInv, DebtsInv, TrackingInv,
         NEW f \in fingerprints, f.tx \in succeeded, ~MatchesOne(f)
  PROVE  Announced = {}
<1>1. f.tx \in KnownHashes /\ f.tx \in OnChain /\ f.tx \notin settled
  BY DEF KnownHashes, OnChain, TrackingInv
<1>2. ~Shown(f.tx)
  <2>1. ASSUME NEW g \in fingerprints, g.rowid = pending[f.tx.wallet], g.tx = f.tx PROVE FALSE
    <3>1. f.tx = g.tx => f = g
      BY Zenon DEF TrackingInv
    <3> QED
      BY Zenon, <1>1, <2>1, <3>1, ShownMatches
  <2> QED
    BY ZenonT(40), <2>1 DEF Shown
<1>3. Awaited(f.tx)
  BY Zenon, <1>1, <1>2 DEF DebtsInv
<1>4. PICK B \in Batches : f.tx \in B
  BY Zenon, <1>3 DEF Awaited, Batches
<1>5. ASSUME NEW m \in Mail, m.type = "Seeds" PROVE FALSE
  <2>1. m.txs = B
    BY Zenon, <1>5, OneBatch DEF TrackingInv
  <2>2. f.tx \in Announced
    BY Zenon, <1>4, <1>5, <2>1 DEF Announced
  <2> QED
    BY ZenonT(40), <1>1, <2>2 DEF TrackingInv
<1> QED
  BY Zenon, <1>5 DEF Announced

LEMMA ReceiptsTracked ==
  ASSUME TypeOK, ScanExclusion, PendExclusion, RowsInv, DebtsInv, Tracked, TrackingInv, TransactionReceipts
  PROVE  Tracked' /\ (node' = "up" => TrackingInv')
<1>1. /\ UNCHANGED <<mempool, succeeded, failed>> /\ Mail' \subseteq Mail
      /\ \A m \in Mail' : m.type # "Receipts"
  BY ZenonT(40), HandledEffect
<1>2. PICK h \in Mail :
        /\ h = Head(inbox) /\ h.type = "Receipts" /\ h.confirmed \subseteq fingerprints /\ inbox # <<>>
        /\ \/ /\ \A f \in h.confirmed : MatchesOne(f)
              /\ TransactionsConfirmed(h.confirmed)
              /\ fingerprints' = {Flag(f, Rows(h.failures)) :
                                    f \in {g \in fingerprints : g.rowid \notin Rows(h.confirmed)}}
              /\ inbox' = Tail(inbox) /\ Running' = Running /\ Mail \subseteq Mail' \cup {h}
           \/ /\ \E f \in h.confirmed : ~MatchesOne(f)
              /\ \E fs \in SUBSET h.confirmed : TransactionsConfirmed(fs)
              /\ fingerprints' = fingerprints /\ node' = "panicked"
  BY ZenonT(40), HandledEffect
<1>3. \A f \in h.confirmed : f.tx \in succeeded
  BY ZenonT(40), <1>2 DEF TrackingInv
<1>4. OnChain' = OnChain /\ succeeded' = succeeded /\ mempool' = mempool
  BY Zenon, <1>1 DEF OnChain
<1>5. ASSUME NEW f \in h.confirmed, ~MatchesOne(f),
             NEW fs \in SUBSET h.confirmed, TransactionsConfirmed(fs), fingerprints' = fingerprints
      PROVE  Tracked'
  <2>1. Announced = {}
    BY ZenonT(40), <1>2, <1>3, <1>5, NothingAnnounced
  <2>2. settled \subseteq settled' /\ KnownHashes' = KnownHashes
    BY Zenon, <1>5, SettledGrows DEF KnownHashes
  <2> QED
    BY Zenon, <1>4, <2>1, <2>2 DEF Tracked
<1>6. ASSUME \A f \in h.confirmed : MatchesOne(f), TransactionsConfirmed(h.confirmed),
             fingerprints' = {Flag(f, Rows(h.failures)) :
                                f \in {g \in fingerprints : g.rowid \notin Rows(h.confirmed)}},
             inbox' = Tail(inbox), Running' = Running, Mail \subseteq Mail' \cup {h}
      PROVE  Tracked' /\ TrackingInv'
  <2>1. \A f \in fingerprints : Flag(f, Rows(h.failures)).rowid = f.rowid
                                /\ Flag(f, Rows(h.failures)).tx = f.tx
    BY ZenonT(40), FlagFields DEF TypeOK, Batch
  <2>2. settled' = settled \cup {f.tx : f \in h.confirmed}
    <3>1. \A f \in h.confirmed : Debtors(f) # {}
      BY ZenonT(40), <1>6 DEF MatchesOne
    <3>2. {g \in h.confirmed : Debtors(g) # {}} = h.confirmed
      BY Zenon, <3>1
    <3> QED
      BY ZenonT(40), <1>6, <3>2 DEF TransactionsConfirmed
  <2>3. \A p \in fingerprints' : \E f \in fingerprints \ h.confirmed : p = Flag(f, Rows(h.failures))
    BY ZenonT(40), <1>6 DEF Rows
  <2>4. \A f \in fingerprints \ h.confirmed : f.rowid \notin Rows(h.confirmed)
    BY ZenonT(40), <1>2 DEF RowsInv, RowidsAreUnique, Rows
  <2>5. KnownHashes' = {f.tx : f \in fingerprints \ h.confirmed}
    <3>1. \A p \in fingerprints' : \E f \in fingerprints \ h.confirmed : p.tx = f.tx
      BY ZenonT(40), <2>1, <2>3
    <3>2. \A f \in fingerprints \ h.confirmed : \E p \in fingerprints' : p.tx = f.tx
      BY ZenonT(40), <1>6, <2>1, <2>4
    <3> QED
      BY <3>1, <3>2 DEF KnownHashes
  <2>6. \A t \in KnownHashes : t \in KnownHashes' \/ t \in settled'
    BY Zenon, <2>2, <2>5 DEF KnownHashes
  <2>7. KnownHashes' \subseteq KnownHashes
    BY Zenon, <2>5 DEF KnownHashes
  <2>8. Announced' = Announced
    BY ZenonT(40), <1>1, <1>2, <1>6, AnnouncedKept
  <2>9. Batches' = Batches /\ Submitting' = Submitting
    BY ZenonT(40), <1>1, <1>2, <1>6, BatchesKept
  <2>10. Tracked'
    BY SMTT(30), <1>4, <2>2, <2>6, <2>8 DEF Tracked
  <2>11. \A p, q \in fingerprints' : p.tx = q.tx => p = q
    <3> SUFFICES ASSUME NEW p \in fingerprints', NEW q \in fingerprints', p.tx = q.tx PROVE p = q
      BY Zenon
    <3>1. PICK f \in fingerprints, g \in fingerprints :
            p = Flag(f, Rows(h.failures)) /\ q = Flag(g, Rows(h.failures))
      BY ZenonT(40), <2>3
    <3>2. f = g
      BY ZenonT(40), <2>1, <3>1 DEF TrackingInv
    <3> QED
      BY Zenon, <3>1, <3>2
  <2>12. settled' \subseteq OnChain'
    BY ZenonT(40), <1>3, <1>4, <2>2 DEF TrackingInv, OnChain
  <2>13. settled' \cap KnownHashes' = {}
    <3>1. \A t \in KnownHashes' : t \notin settled
      BY Zenon, <2>7 DEF TrackingInv
    <3>2. ASSUME NEW f \in h.confirmed, NEW g \in fingerprints \ h.confirmed PROVE f.tx # g.tx
      BY ZenonT(40), <1>2 DEF TrackingInv
    <3> QED
      BY Zenon, <2>2, <2>5, <3>1, <3>2
  <2>14. settled' \cap Announced' = {}
    <3>1. \A f \in h.confirmed : f.tx \in KnownHashes
      BY ZenonT(40), <1>2 DEF KnownHashes
    <3> QED
      BY ZenonT(40), <2>2, <2>8, <3>1 DEF TrackingInv
  <2>15. KnownHashes' \subseteq OnChain' \cup Submitting' /\ KnownHashes' \cap Announced' = {}
    BY ZenonT(40), <1>4, <2>7, <2>8, <2>9 DEF TrackingInv
  <2>16. \A m \in Mail' : m.type = "Seeds" => m.txs \in Batches'
    BY ZenonT(40), <1>1, <2>9 DEF TrackingInv
  <2>17. ASSUME NEW B \in Batches' PROVE B \subseteq KnownHashes' \/ SeedsMsg(B) \in Mail'
    <3>1. CASE SeedsMsg(B) \in Mail
      <4>1. SeedsMsg(B) # h
        BY <1>2 DEF SeedsMsg
      <4> QED
        BY Zenon, <1>6, <3>1, <4>1
    <3>2. CASE B \subseteq KnownHashes
      <4>1. ASSUME NEW t \in B PROVE t \in KnownHashes'
        <5>1. pending[t.wallet] = NoRow
          BY Zenon, <2>9, BatchesAreDue
        <5>2. PICK f \in fingerprints : f.tx = t
          BY Zenon, <3>2 DEF KnownHashes
        <5>3. f \notin h.confirmed
          BY ZenonT(40), <1>6, <5>1, <5>2, DebtorIsPayee DEF MatchesOne
        <5> QED
          BY Zenon, <2>5, <5>2, <5>3
      <4> QED
        BY Zenon, <4>1
    <3> QED
      BY ZenonT(40), <2>9, <3>1, <3>2 DEF TrackingInv
  <2>18. InOrder(inbox')
    BY ZenonT(40), <1>2, <1>6, SeedsServed DEF TrackingInv
  <2>19. settled' \cap (KnownHashes' \cup Announced') = {}
    BY SMTT(30), <2>13, <2>14
  <2>20. \A m \in Mail' : m.type = "Receipts" => \A f \in m.confirmed : f.tx \in succeeded'
    BY Zenon, <1>1
  <2> QED
    BY ZenonT(40), <2>10, <2>11, <2>12, <2>15, <2>16, <2>17, <2>18, <2>19, <2>20 DEF TrackingInv
<1> QED
  BY ZenonT(40), <1>2, <1>5, <1>6

LEMMA AccountantTracked ==
  ASSUME CardinalityFacts, "InsertError" \notin world.faults, TypeOK, ScanExclusion, PendExclusion,
         RowsInv, DebtsInv,
         Tracked, TrackingInv, Accountant
  PROVE  Tracked' /\ (node' = "up" => TrackingInv')
<1>1. CASE PayablePaymentSetup
  <2>1. BooksKept /\ inbox # <<>> /\ inbox' = Tail(inbox) /\ Mail' \subseteq Mail
    BY ZenonT(40), <1>1, SetupEffect
  <2>2. PICK h \in Mail, k \in Task :
          /\ h = Head(inbox) /\ h.type = "Agent" /\ Mail \subseteq Mail' \cup {h}
          /\ k.kind = "nonce" /\ k.accounts = h.accounts /\ Running' = Running \cup {k}
    BY ZenonT(40), <1>1, SetupEffect
  <2>3. InOrder(inbox')
    BY Zenon, <2>1, SeedsServed DEF TrackingInv
  <2>4. \A j : j.kind \in {"submit", "reply"} => (j \in Running' <=> j \in Running)
    BY Zenon, <2>2
  <2>5. \A m : m.type \in {"Seeds", "Sent"} => (m \in Mail' <=> m \in Mail)
    BY Zenon, <2>1, <2>2
  <2> QED
    BY Zenon, <2>1, <2>3, <2>4, <2>5, BooksTracked
<1>2. CASE ScanError
  <2>1. BooksKept /\ inbox # <<>> /\ inbox' = Tail(inbox) /\ Mail' \subseteq Mail /\ Running' = Running
    BY ZenonT(40), <1>2, ErrorEffect
  <2>2. PICK h \in Mail : h.type = "ScanError" /\ Mail \subseteq Mail' \cup {h}
    BY ZenonT(40), <1>2, ErrorEffect
  <2>3. InOrder(inbox')
    BY Zenon, <2>1, SeedsServed DEF TrackingInv
  <2>4. \A m : m.type \in {"Seeds", "Sent"} => (m \in Mail' <=> m \in Mail)
    BY Zenon, <2>1, <2>2
  <2> QED
    BY Zenon, <2>1, <2>3, <2>4, BooksTracked
<1> QED
  BY ZenonT(40), <1>1, <1>2, SeedsTracked, SentTracked, ReceiptsTracked DEF Accountant

Tracking == Tracked /\ (node = "up" => TrackingInv)

LEMMA TrackingInductive ==
  ASSUME CardinalityFacts, RowidsAreStable, AnnouncementsAreStored, TypeOK, ScanExclusion,
         PendExclusion, RowsInv, Debts,
         Tracking, [Next]_vars
  PROVE  Tracking'
<1>0. "InsertError" \notin world.faults /\ "Kill" \notin world.faults /\ "Restart" \notin world.faults
  BY Zenon DEF AnnouncementsAreStored
<1>1. ASSUME \/ \E w \in Wallets : MoreMoneyPayable(w) \/ DebtAges(w)
             \/ UpdateWallets \/ \E tx \in mempool : Mine(tx)
             \/ Restart \/ UNCHANGED vars
      PROVE  Tracking'
  <2>1. /\ UNCHANGED <<pending, fingerprints, settled, task, inbox>>
        /\ Running' = Running /\ Mail' = Mail /\ OnChain' = OnChain
        /\ succeeded \subseteq succeeded' /\ mempool' \cup succeeded' \subseteq mempool \cup succeeded
        /\ (node' = node \/ Restart)
    BY ZenonT(40), <1>1, CalmEffect
  <2>2. fingerprints' = fingerprints /\ settled' = settled /\ inbox' = inbox /\ node' = node
    BY ZenonT(40), <1>0, <2>1 DEF Restart
  <2>3. KnownHashes \subseteq KnownHashes' /\ Announced' = Announced
    BY ZenonT(40), <2>1, <2>2 DEF KnownHashes, Announced
  <2>4. Tracked'
    BY Zenon, <2>1, <2>2, <2>3, TrackedKept DEF Tracking
  <2>5. ASSUME TrackingInv PROVE TrackingInv'
    <3>1. InOrder(inbox')
      BY Zenon, <2>2, <2>5 DEF TrackingInv
    <3> QED
      BY Zenon, <2>1, <2>2, <2>5, <3>1, TrackingFrame
  <2> QED
    BY Zenon, <2>2, <2>4, <2>5 DEF Tracking
<1>2. ASSUME NEW ctx \in Skeletons, ScanForPayables(ctx) \/ ScanForPendingPayables(ctx)
      PROVE  Tracking'
  <2>1. BooksKept /\ inbox' = inbox /\ Mail' = Mail /\ node = "up"
    BY ZenonT(40), <1>2, PayScanEffect, PendScanEffect
  <2>2. \/ Running' = Running
        \/ \E k \in Task : Running' = Running \cup {k} /\ k.kind \in {"agent", "receipts"}
    <3>1. CASE ScanForPayables(ctx)
      <4>1. \/ Running' = Running
            \/ \E k \in Task : Running' = Running \cup {k} /\ k.kind = "agent"
        BY ZenonT(40), <3>1, PayScanEffect
      <4> QED
        BY Zenon, <4>1
    <3>2. CASE ScanForPendingPayables(ctx)
      <4>1. \/ Running' = Running
            \/ \E k \in Task : Running' = Running \cup {k} /\ k.kind = "receipts"
        BY ZenonT(40), <3>2, PendScanEffect
      <4> QED
        BY Zenon, <4>1
    <3> QED
      BY Zenon, <1>2, <3>1, <3>2
  <2>3. \A k : k.kind \in {"submit", "reply"} => (k \in Running' <=> k \in Running)
    BY Zenon, <2>2
  <2>4. Tracked /\ TrackingInv
    BY Zenon, <2>1 DEF Tracking
  <2>5. InOrder(inbox')
    BY ZenonT(40), <2>1, <2>4 DEF TrackingInv
  <2>6. Tracked' /\ TrackingInv'
    BY ZenonT(40), <2>1, <2>3, <2>4, <2>5, BooksTracked
  <2> QED
    BY Zenon, <2>6 DEF Tracking
<1>3. CASE Kill
  BY ZenonT(40), <1>0, <1>3 DEF Kill
<1>4. ASSUME NEW s \in Slots, Bridge(s)
      PROVE  Tracking'
  <2>1. node = "up" /\ DebtsInv
    BY ZenonT(40), <1>4, AtWork
  <2> QED
    BY ZenonT(40), <1>4, <2>1, BridgeTracked DEF Tracking
<1>5. CASE Accountant
  <2>1. node = "up" /\ DebtsInv
    BY ZenonT(40), <1>5, AtWork
  <2> QED
    BY ZenonT(40), <1>0, <1>5, <2>1, AccountantTracked DEF Tracking
<1> QED
  BY ZenonT(40), <1>1, <1>2, <1>3, <1>4, <1>5 DEF Next

LEMMA InitTracking == Init => Tracking
<1> SUFFICES ASSUME Init PROVE Tracking
  BY Zenon
<1>1. /\ Running = {} /\ Mail = {} /\ OnChain = {} /\ fingerprints = {} /\ settled = {}
      /\ mempool = {} /\ succeeded = {} /\ inbox = <<>>
  BY SMTT(30) DEF Init, Running, Mail, Busy, OnChain
<1>2. KnownHashes = {} /\ Announced = {} /\ Submitting = {} /\ Batches = {} /\ Tracked
  BY Zenon, <1>1 DEF KnownHashes, Announced, Submitting, Batches, Tracked
<1>3. InOrder(inbox)
  BY SMTT(30), <1>1 DEF InOrder, SeedsIn
<1> QED
  BY Zenon, <1>1, <1>2, <1>3 DEF Tracking, TrackingInv

SoundTracking == SoundDebts /\ (RowidsAreStable /\ AnnouncementsAreStored => Tracking)

LEMMA SoundTrackingInductive == CardinalityFacts /\ SoundTracking /\ [Next]_vars /\ TypeOK' => SoundTracking'
<1> SUFFICES ASSUME CardinalityFacts, SoundTracking, [Next]_vars, TypeOK'
             PROVE  SoundTracking'
  BY Zenon
<1>1. SoundDebts'
  BY Zenon, SoundDebtsInductive DEF SoundTracking
<1>2. ASSUME RowidsAreStable', AnnouncementsAreStored' PROVE Tracking'
  <2>1. RowidsAreStable /\ AnnouncementsAreStored
    BY Zenon, <1>2, WorldIsFixed DEF RowidsAreStable, BatchesDoNotFail, AnnouncementsAreStored
  <2>2. NeverRestarted
    BY Zenon, <2>1 DEF AnnouncementsAreStored, NeverRestarted
  <2>3. TypeOK /\ ScanExclusion /\ PendExclusion /\ RowsInv /\ Debts /\ Tracking
    BY Zenon, <2>1, <2>2 DEF SoundTracking, SoundDebts, Base
  <2> QED
    BY ZenonT(40), <2>1, <2>3, TrackingInductive
<1> QED
  BY Zenon, <1>1, <1>2 DEF SoundTracking

-----------------------------------------------------------------------------
(* The theorems *)

INSTANCE FiniteSetTheorems

\* What the lemmas assume of Cardinality.
LEMMA Counted == CardinalityFacts
<1>1. SizeIsNatural
  BY SMTT(30), FS_CardinalityType, FS_EmptySet DEF SizeIsNatural
<1>2. PartIsSmaller
  BY Zenon, FS_Subset DEF PartIsSmaller
<1>3. ASSUME NEW S, IsFiniteSet(S), NEW f \in [S -> 0 .. Cardinality(S) - 1],
             \A a, b \in S : f[a] = f[b] => a = b, NEW n \in 0 .. Cardinality(S) - 1
      PROVE  \E a \in S : f[a] = n
  <2> DEFINE N == 0 .. Cardinality(S) - 1
  <2>1. IsFiniteSet(N) /\ Cardinality(N) = Cardinality(S)
    <3>1. Cardinality(S) \in Nat
      BY Zenon, <1>3, FS_CardinalityType
    <3>2. Cardinality(S) - 1 \in Int /\ 0 \in Int
      BY <3>1
    <3>3. IsFiniteSet(N) /\ Cardinality(N) = IF 0 > Cardinality(S) - 1 THEN 0 ELSE Cardinality(S) - 1 - 0 + 1
      BY ZenonT(40), <3>2, FS_Interval
    <3> QED
      BY SMTT(30), <3>1, <3>3
  <2>2. f \in Injection(S, N)
    BY ZenonT(40), <1>3 DEF Injection, IsInjective
  <2> HIDE DEF N
  <2>3. Cardinality(S) = Cardinality(N) <=> f \in Surjection(S, N)
    BY ONLY SMTT(30), <1>3, <2>1, <2>2, FS_Injection
  <2> QED
    BY SMTT(30), <2>1, <2>3 DEF Surjection, N
<1> QED
  BY ZenonT(40), <1>1, <1>2, <1>3 DEF CardinalityFacts, OneToOneIsOnto, OneToOne, Onto

LEMMA TypesHold == Spec => []TypeOK
<1>1. TypeOK /\ [Next]_vars => TypeOK'
  BY SMTT(30), Counted, TypesInductive
<1> QED
  BY <1>1, InitTyped, PTL DEF Spec

LEMMA BaseHolds == Spec => []Base
<1>1. Init /\ TypeOK => Base
  BY Zenon, InitRows DEF Base
<1>2. Base /\ [Next]_vars /\ TypeOK' => Base'
  BY ZenonT(40), Counted, BaseInductive
<1> QED
  BY <1>1, <1>2, TypesHold, PTL DEF Spec

\* Unless the chain refuses payments, an account that waits for a confirmation waits for a
\* fingerprint in table pending_payable about a payment to that account, so that a scan can
\* release it: over kills between any two statements of a handler, panics and restarts.
THEOREM WaitingIsFounded == Spec => []PendingHasFingerprint
<1>1. Base => PendingHasFingerprint
  BY Zenon DEF Base, RowsInv, Waits, PendingHasFingerprint
<1> QED
  BY <1>1, BaseHolds, PTL

LEMMA SoundDebtsHold == Spec => []SoundDebts
<1>1. Init /\ Base => SoundDebts
  BY SMTT(30), InitDebts DEF SoundDebts
<1>2. SoundDebts /\ [Next]_vars /\ TypeOK' => SoundDebts'
  BY Zenon, Counted, SoundDebtsInductive
<1> QED
  BY <1>1, <1>2, BaseHolds, TypesHold, PTL DEF Spec

\* Unless the chain refuses payments, or the Node is restarted after it stopped amid one, no
\* creditor ever has two payments of ours on the chain that the books do not show: whatever
\* the order in which futures end and messages are dealt with, and over kills and panics.
THEOREM NeverPaidTwice == Spec => []OneOutstandingPayment
<1>1. SoundDebts => OneOutstandingPayment
  BY Zenon DEF SoundDebts, Debts, OnePerCreditor, OneOutstandingPayment
<1> QED
  BY <1>1, SoundDebtsHold, PTL

\* Unless the chain refuses payments, a payment that reached the chain and may still succeed
\* is not forgotten while announcements are stored: until the books show it, pending_payable
\* has its fingerprint, or its announcement is in the mailbox.
THEOREM NoneForgotten == Spec => []PaymentsAreTracked
<1>1. Init /\ SoundDebts => SoundTracking
  BY Zenon, InitTracking DEF SoundTracking
<1>2. TypeOK /\ SoundTracking => PaymentsAreTracked
  <2> SUFFICES ASSUME TypeOK, SoundTracking, RowidsAreStable, AnnouncementsAreStored,
                      NEW tx \in (mempool \cup succeeded) \ settled
               PROVE  \/ tx \in KnownHashes
                      \/ \E i \in DOMAIN inbox : inbox[i].type = "Seeds" /\ tx \in inbox[i].txs
    BY Zenon DEF PaymentsAreTracked
  <2>1. tx \in KnownHashes \cup Announced
    BY Zenon DEF SoundTracking, Tracking, Tracked
  <2>2. DOMAIN inbox = 1 .. Len(inbox)
    BY SMTT(30) DEF TypeOK
  <2> QED
    BY SMTT(30), <2>1, <2>2 DEF Announced, Mail
<1>3. SoundTracking /\ [Next]_vars /\ TypeOK' => SoundTracking'
  BY Zenon, Counted, SoundTrackingInductive
<1> QED
  BY <1>1, <1>2, <1>3, SoundDebtsHold, TypesHold, PTL DEF Spec
=============================================================================
