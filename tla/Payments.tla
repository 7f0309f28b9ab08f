------------------------------ MODULE Payments ------------------------------
(***************************************************************************)
(* Paying creditors: the payable and pending-payable scans of the          *)
(* Accountant, the tables payable and pending_payable, the payment futures *)
(* of the BlockchainBridge, and the blockchain as those futures see it.    *)
(*                                                                         *)
(* A payable scan snapshots the accounts worth paying and marks itself     *)
(* running; the bridge builds an agent, fetches a nonce, signs one         *)
(* transaction per account, announces their hashes to the Accountant       *)
(* ("fingerprints") and submits the batch; the Accountant then ties each   *)
(* accepted transaction to its account.  A pending-payable scan asks for   *)
(* the receipts of all fingerprints and settles the accounts whose         *)
(* transactions were mined.                                                *)
(*                                                                         *)
(* The Accountant and the BlockchainBridge are actors in two threads.  The *)
(* bridge answers through the Accountant's mailbox, in order; timers and   *)
(* UI requests may be handled between any two of its messages.             *)
(***************************************************************************)
EXTENDS Integers, Sequences, FiniteSets

CONSTANTS
  Wallets,    \* creditors, numbered by the position of their row in table payable
  MaxNonce,   \* bound: transactions our consuming wallet ever signs
  GasPrices,  \* gas prices the chain may ask for
  MaxTasks,   \* bound: futures the bridge runs at a time
  Contexts,   \* conversations a UI holds with the Node
  NoUi,       \* response_skeleton_opt = None: the scan was triggered by a timer
  Idle,       \* a free slot for a future
  Worlds      \* the environments considered, see World

AllFaults == { "AgentError",    \* gas price or balance query fails
               "NonceError",    \* the transaction count query fails
               "BatchError",    \* the batch request fails before it reaches the chain
               "LostReply",     \* the batch reaches the chain, its reply does not come back
               "ItemRejected",  \* the chain refuses a transaction of the batch
               "InsertError",   \* SQLite refuses the fingerprints
               "ReceiptsError", \* the receipts query fails as a whole
               "ReceiptError",  \* one receipt cannot be fetched or decoded
               "TxFails",       \* a transaction is mined but reverted
               "EarlyMining",   \* mined before the Accountant heard it was accepted
               "Kill",          \* the process is killed
               "Restart" }      \* the Node is started again after it stopped

\* An environment, which is chosen once: who charges us, the faults that may happen, and
\* its bounds.
World == [creditors : SUBSET Wallets,    \* whose services we use
          faults    : SUBSET AllFaults,
          maxCharge : Nat,               \* bound: total charged by one creditor
          maxNonce  : 0 .. MaxNonce,     \* bound: transactions signed
          maxInbox  : Nat,               \* bound: messages waiting when a payable scan begins
          maxAsks   : Nat]               \* bound: scan requests in one conversation

ASSUME PaymentsAssumption ==
  /\ Wallets \subseteq Nat /\ IsFiniteSet(Wallets)
  /\ MaxNonce \in Nat /\ MaxTasks \in Nat
  /\ GasPrices \subseteq Nat /\ IsFiniteSet(GasPrices)
  /\ NoUi \notin Contexts
  /\ Worlds \subseteq World

NoRow  == 0                    \* SQL null; SQLite counts rowids from 1
Slots  == 1 .. MaxTasks
Nonces == 0 .. MaxNonce - 1
Skeletons == Contexts \cup {NoUi}

\* A signed transaction.  Signing is deterministic, so the transaction stands for
\* its hash: same nonce, recipient, amount and gas price give the same hash.
Tx == [nonce : Nonces, wallet : Wallets, amount : Nat, gas : GasPrices]

\* A row of table pending_payable.
Fingerprint == [rowid : Nat \ {NoRow}, tx : Tx, error : BOOLEAN]

VARIABLES
  world,         \* the environment, one of Worlds
  (* the database *)
  balance,       \* payable.balance, per wallet
  pending,       \* payable.pending_payable_rowid, per wallet
  aged,          \* wallets whose last_paid_timestamp is old enough for their debt to be paid
  fingerprints,  \* table pending_payable
  (* the blockchain *)
  mempool, succeeded, failed,
  (* the Node's memory *)
  node,          \* "up", "panicked" or "killed"
  consuming,     \* consuming_wallet_opt is Some
  payScan,       \* PayableScanner.initiated_at_opt is Some
  pendScan,      \* PendingPayableScanner.initiated_at_opt is Some
  task,          \* futures of the bridge
  inbox,         \* messages of the bridge in the Accountant's mailbox
  (* the UI *)
  asked, answered,
  (* history *)
  charged,       \* what each creditor has charged so far
  settled        \* transactions the books have been adjusted for

setup   == <<world, consuming>>
db      == <<balance, pending, aged, fingerprints>>
chain   == <<mempool, succeeded, failed>>
memory  == <<payScan, pendScan, task, inbox>>
ui      == <<asked, answered>>
history == <<charged, settled>>
vars    == <<db, chain, node, setup, memory, ui, history>>

-----------------------------------------------------------------------------
(* Messages of the bridge to the Accountant, and its futures *)

\* An account as a scan saw it: the creditor and the balance to pay.
Account == [wallet : Wallets, amount : Nat]

Batch(S) == {T \in SUBSET S : IsFiniteSet(T)}

AgentMsg(accounts, gas, ctx) == [type |-> "Agent", accounts |-> accounts, gas |-> gas, ctx |-> ctx]
SeedsMsg(txs)               == [type |-> "Seeds", txs |-> txs]
SentMsg(oks, fails, ctx)    == [type |-> "Sent", oks |-> oks, fails |-> fails, ctx |-> ctx]
ScanErrorMsg(scan, ctx)     == [type |-> "ScanError", scan |-> scan, ctx |-> ctx]
ReceiptsMsg(c, f, s, ctx)   ==
  [type |-> "Receipts", confirmed |-> c, failures |-> f, still |-> s, ctx |-> ctx]

Msg == [type : {"Agent"}, accounts : Batch(Account), gas : GasPrices, ctx : Skeletons]
       \cup [type : {"Seeds"}, txs : Batch(Tx)]
       \cup [type : {"Sent"}, oks : Batch(Tx), fails : Batch(Tx), ctx : Skeletons]
       \cup [type : {"ScanError"}, scan : {"payables", "pendingPayables"}, ctx : Skeletons]
       \cup [type : {"Receipts"}, confirmed : Batch(Fingerprint), failures : Batch(Fingerprint),
             still : Batch(Fingerprint), ctx : Skeletons]

Task == [kind : {"agent"}, accounts : Batch(Account), ctx : Skeletons]
        \cup [kind : {"nonce"}, accounts : Batch(Account), gas : GasPrices, ctx : Skeletons]
        \cup [kind : {"submit"}, txs : Batch(Tx), ctx : Skeletons]
        \cup [kind : {"reply"}, oks : Batch(Tx), fails : Batch(Tx), ctx : Skeletons]
        \cup [kind : {"receipts"}, snapshot : Batch(Fingerprint), ctx : Skeletons]

\* A free slot is told from a future.
ASSUME IdleAssumption == Idle \notin Task

PayKinds == {"agent", "nonce", "submit", "reply"}

Busy(s) == task[s] # Idle
Runs(s, kind) == Busy(s) /\ task[s].kind = kind

\* The slot the next future goes to.
FreeSlot(s) == ~Busy(s) /\ \A t \in Slots : t < s => Busy(t)

Received(type) == node = "up" /\ inbox # <<>> /\ Head(inbox).type = type

-----------------------------------------------------------------------------
Init ==
  /\ world \in Worlds
  /\ balance = [w \in Wallets |-> 0]
  /\ pending = [w \in Wallets |-> NoRow]
  /\ aged = {}
  /\ fingerprints = {}
  /\ mempool = {} /\ succeeded = {} /\ failed = {}
  /\ node = "up"
  /\ consuming \in BOOLEAN
  /\ payScan = FALSE /\ pendScan = FALSE
  /\ task = [s \in Slots |-> Idle]
  /\ inbox = <<>>
  /\ asked = [c \in Contexts |-> 0] /\ answered = [c \in Contexts |-> 0]
  /\ charged = [w \in Wallets |-> 0]
  /\ settled = {}

\* The Node stops: everything it kept in memory is gone, the database stays.
Stop(how) ==
  /\ node' = how
  /\ payScan' = FALSE /\ pendScan' = FALSE
  /\ task' = [s \in Slots |-> Idle]
  /\ inbox' = <<>>

Answer(ctx) ==
  answered' = IF ctx = NoUi THEN answered ELSE [answered EXCEPT ![ctx] = @ + 1]

\* A scan is requested by a timer or in a conversation of a UI.
Ask(ctx) ==
  \/ ctx = NoUi /\ UNCHANGED asked
  \/ /\ ctx \in Contexts /\ asked[ctx] < world.maxAsks
     /\ asked' = [asked EXCEPT ![ctx] = @ + 1]

-----------------------------------------------------------------------------
(* The Accountant: debts, wallets, and the beginning of the scans *)

\* ReportServicesConsumed: one creditor charges for a service.
MoreMoneyPayable(w) ==
  /\ node = "up" /\ w \in world.creditors /\ charged[w] < world.maxCharge
  /\ balance' = [balance EXCEPT ![w] = @ + 1]
  /\ charged' = [charged EXCEPT ![w] = @ + 1]
  /\ UNCHANGED <<pending, aged, fingerprints, chain, node, setup, memory, ui, settled>>

\* Time passes: the debt's age brings it past the payment thresholds.
DebtAges(w) ==
  /\ w \in world.creditors \ aged
  /\ aged' = aged \cup {w}
  /\ UNCHANGED <<balance, pending, fingerprints, chain, node, setup, memory, ui, history>>

UpdateWallets ==
  /\ node = "up" /\ ~consuming
  /\ consuming' = TRUE
  /\ UNCHANGED <<world, db, chain, node, memory, ui, history>>

\* Mutant: accounts already waiting for a confirmation qualify again.
Qualified_PendingToo == {w \in aged : balance[w] > 0}

\* PayableScanner.payable_exceeded_threshold over PayableDao.non_pending_payables.  That
\* panics over a negative balance, which is left out: balances are negative only after a
\* debt was paid twice, and what NeverOverpaid and BooksBalance say together excludes it.
Qualified == {w \in aged : pending[w] = NoRow /\ balance[w] > 0}

\* Mutant: ScanAlreadyRunning is not checked.
PayableScanMayBegin_Unguarded == consuming /\ Qualified # {}

\* The errors of begin_scan: no consuming wallet, ScanAlreadyRunning, NothingToProcess.
PayableScanMayBegin == consuming /\ ~payScan /\ Qualified # {}

ScanForPayables(ctx) ==
  /\ node = "up"
  /\ Ask(ctx)
  /\ \/ /\ ~PayableScanMayBegin
        /\ UNCHANGED memory
     \/ /\ PayableScanMayBegin /\ Len(inbox) < world.maxInbox
        /\ payScan' = TRUE
        /\ \E s \in Slots :
             /\ FreeSlot(s)
             /\ task' = [task EXCEPT ![s] = [kind |-> "agent", ctx |-> ctx,
                           accounts |-> {[wallet |-> w, amount |-> balance[w]] :
                                           w \in Qualified}]]
        /\ UNCHANGED <<pendScan, inbox>>
  /\ UNCHANGED <<db, chain, node, setup, answered, history>>

\* Mutant: the flagged fingerprints are the ones asked about.
Errorless_Flagged == {f \in fingerprints : f.error}

\* PendingPayableDao.return_all_errorless_fingerprints
Errorless == {f \in fingerprints : ~f.error}

ScanForPendingPayables(ctx) ==
  /\ node = "up"
  /\ Ask(ctx)
  /\ \/ /\ ~consuming \/ pendScan \/ Errorless = {}
        /\ UNCHANGED memory
     \/ /\ consuming /\ ~pendScan /\ Errorless # {}
        /\ pendScan' = TRUE
        /\ \E s \in Slots :
             /\ FreeSlot(s)
             /\ task' = [task EXCEPT ![s] =
                           [kind |-> "receipts", snapshot |-> Errorless, ctx |-> ctx]]
        /\ UNCHANGED <<payScan, inbox>>
  /\ UNCHANGED <<db, chain, node, setup, answered, history>>

-----------------------------------------------------------------------------
(* The BlockchainBridge: each request is a future of its own *)

\* A future of kind k makes its next step: it sends msgs to the Accountant and
\* becomes next (Idle when it is finished).
Step(s, next, msgs) ==
  /\ task' = [task EXCEPT ![s] = next]
  /\ inbox' = inbox \o msgs
  /\ UNCHANGED <<db, node, setup, payScan, pendScan, ui, history>>

\* What a failed future of a payable scan tells the Accountant: the result of the
\* payments, then, from handle_scan_future, a ScanError.
PaymentFailure(hashes, ctx) == <<SentMsg({}, hashes, ctx), ScanErrorMsg("payables", ctx)>>

\* Mutant: the failure of the agent is reported the way a failed payment is.
AgentFailure_Twice(ctx) == PaymentFailure({}, ctx)

\* What is sent when no agent could be built: the ScanError of handle_scan_future alone.
AgentFailure(ctx) == <<ScanErrorMsg("payables", ctx)>>

BuildAgent(s) ==
  /\ node = "up" /\ Runs(s, "agent")
  /\ \/ \E gas \in GasPrices : Step(s, Idle, <<AgentMsg(task[s].accounts, gas, task[s].ctx)>>)
     \/ /\ "AgentError" \in world.faults
        /\ Step(s, Idle, AgentFailure(task[s].ctx))
  /\ UNCHANGED chain

OnChain == mempool \cup succeeded \cup failed
Taken(n) == \E tx \in OnChain : tx.nonce = n

\* eth_getTransactionCount("pending"): the first nonce no known transaction has
PendingNonce(n) == ~Taken(n) /\ \A m \in 0 .. n - 1 : Taken(m)

\* One transaction per account, in the order of the accounts, with consecutive nonces.
SignedTxs(accounts, gas, first) ==
  {[nonce  |-> first + Cardinality({b \in accounts : b.wallet < a.wallet}),
    wallet |-> a.wallet,
    amount |-> a.amount,
    gas    |-> gas] : a \in accounts}

\* Mutant: the batch goes out without its fingerprints being announced.
Announcement_Missing(txs) == <<>>

Announcement(txs) == <<SeedsMsg(txs)>>

\* get_transaction_id, then signing; the fingerprints leave before the batch does.
FetchNonceAndSign(s) ==
  /\ node = "up" /\ Runs(s, "nonce")
  /\ \/ \E first \in Nonces :
          /\ PendingNonce(first) /\ first + Cardinality(task[s].accounts) <= world.maxNonce
          /\ LET txs == SignedTxs(task[s].accounts, task[s].gas, first)
             IN  Step(s, [kind |-> "submit", txs |-> txs, ctx |-> task[s].ctx], Announcement(txs))
     \/ /\ "NonceError" \in world.faults
        /\ Step(s, Idle, PaymentFailure({}, task[s].ctx))
  /\ UNCHANGED chain

\* The chain refuses a transaction whose nonce is taken, unless it outbids one that
\* is not mined yet; that one is dropped.
Refused(txs) == {tx \in txs : \E t \in OnChain : t.nonce = tx.nonce /\ (t \in mempool => tx.gas <= t.gas)}
Outbid(txs)  == {t \in mempool : \E tx \in txs : tx.nonce = t.nonce}

\* The batch reaches the chain.
SubmitBatch(s) ==
  /\ node = "up" /\ Runs(s, "submit")
  /\ \E fails \in SUBSET task[s].txs :
       LET oks == task[s].txs \ fails
       IN  /\ Refused(task[s].txs) \subseteq fails
           /\ fails = Refused(task[s].txs) \/ "ItemRejected" \in world.faults
           /\ mempool' = (mempool \ Outbid(oks)) \cup oks
           /\ Step(s, [kind |-> "reply", oks |-> oks, fails |-> fails, ctx |-> task[s].ctx], <<>>)
  /\ UNCHANGED <<succeeded, failed>>

BatchReply(s) ==
  /\ node = "up" /\ Runs(s, "reply")
  /\ \/ Step(s, Idle, <<SentMsg(task[s].oks, task[s].fails, task[s].ctx)>>)
     \/ /\ "LostReply" \in world.faults
        /\ Step(s, Idle, PaymentFailure(task[s].oks \cup task[s].fails, task[s].ctx))
  /\ UNCHANGED chain

BatchFails(s) ==
  /\ node = "up" /\ Runs(s, "submit") /\ "BatchError" \in world.faults
  /\ Step(s, Idle, PaymentFailure(task[s].txs, task[s].ctx))
  /\ UNCHANGED chain

\* The receipts, paired with the fingerprints of the request.  No receipt yet, and
\* a receipt that could not be fetched, both count as still pending.
FetchReceipts(s) ==
  /\ node = "up" /\ Runs(s, "receipts")
  /\ \/ \E unread \in SUBSET task[s].snapshot :
          LET read      == task[s].snapshot \ unread
              confirmed == {f \in read : f.tx \in succeeded}
              failures  == {f \in read : f.tx \in failed}
          IN  /\ unread = {} \/ "ReceiptError" \in world.faults
              /\ Step(s, Idle, <<ReceiptsMsg(confirmed, failures,
                                   task[s].snapshot \ (confirmed \cup failures), task[s].ctx)>>)
     \/ /\ "ReceiptsError" \in world.faults
        /\ Step(s, Idle, <<ScanErrorMsg("pendingPayables", task[s].ctx)>>)
  /\ UNCHANGED chain

-----------------------------------------------------------------------------
(* The Accountant: the answers of the bridge *)

\* BlockchainAgentWithContextMessage: no adjustment is ever needed, the payments
\* go back to the bridge as they are.
PayablePaymentSetup ==
  /\ Received("Agent")
  /\ inbox' = Tail(inbox)
  /\ \E s \in Slots :
       /\ FreeSlot(s)
       /\ task' = [task EXCEPT ![s] = [kind |-> "nonce", accounts |-> Head(inbox).accounts,
                                       gas |-> Head(inbox).gas, ctx |-> Head(inbox).ctx]]
  /\ UNCHANGED <<db, chain, node, setup, payScan, pendScan, ui, history>>

Rowids == {f.rowid : f \in fingerprints}
MaxRowid(r) == \A q \in Rowids : q <= r

KnownHashes == {f.tx : f \in fingerprints}

\* New rows get the rowids after the highest one in use, in the order of the batch.
NewFingerprints(txs, top) ==
  {[rowid |-> top + Cardinality({u \in txs : u.nonce <= tx.nonce}),
    tx |-> tx, error |-> FALSE] : tx \in txs}

\* A failed insertion (a unique index guards the hashes) is logged and forgotten.
NewPendingPayableFingerprints ==
  /\ Received("Seeds")
  /\ inbox' = Tail(inbox)
  /\ \/ /\ Head(inbox).txs \cap KnownHashes = {}
        /\ \E top \in Rowids \cup {NoRow} :
             /\ MaxRowid(top)
             /\ fingerprints' = fingerprints \cup NewFingerprints(Head(inbox).txs, top)
     \/ /\ Head(inbox).txs \cap KnownHashes # {} \/ "InsertError" \in world.faults
        /\ UNCHANGED fingerprints
  /\ UNCHANGED <<balance, pending, aged, chain, node, setup, payScan, pendScan, task, ui,
                 history>>

FingerprintsOf(txs) == {f \in fingerprints : f.tx \in txs}

\* The rows mark_pending_payables_rowids changes: only accounts not pending yet.
Markable(txs) == {f \in FingerprintsOf(txs) : pending[f.tx.wallet] = NoRow}

MarkPending(txs) ==
  pending' = [w \in Wallets |->
                IF \E f \in Markable(txs) : f.tx.wallet = w
                THEN (CHOOSE f \in Markable(txs) : f.tx.wallet = w).rowid
                ELSE pending[w]]

\* PayableScanner.finish_scan.  Missing fingerprints, and accounts that are pending
\* already, make it panic, after the statements before that point took effect.
SentPayables ==
  /\ Received("Sent")
  /\ LET m == Head(inbox)
         markedAll == Markable(m.oks) = FingerprintsOf(m.oks) /\ m.oks \subseteq KnownHashes
         fine == markedAll /\ m.fails \subseteq KnownHashes
     IN  /\ MarkPending(m.oks)
         /\ fingerprints' = IF markedAll THEN fingerprints \ FingerprintsOf(m.fails)
                                         ELSE fingerprints
         /\ \/ /\ fine
               /\ inbox' = Tail(inbox)
               /\ payScan' = FALSE
               /\ Answer(m.ctx)
               /\ UNCHANGED <<node, pendScan, task>>
            \/ ~fine /\ Stop("panicked") /\ UNCHANGED answered
  /\ UNCHANGED <<balance, aged, chain, setup, asked, history>>

\* Mutants: the scan types are swapped; the payable scan is not ended.
MarkAsEnded_Swapped(scan) ==
  /\ payScan'  = (payScan /\ scan # "pendingPayables")
  /\ pendScan' = (pendScan /\ scan # "payables")
MarkAsEnded_NotPayables(scan) ==
  /\ payScan'  = payScan
  /\ pendScan' = (pendScan /\ scan # "pendingPayables")

MarkAsEnded(scan) ==
  /\ payScan'  = (payScan /\ scan # "payables")
  /\ pendScan' = (pendScan /\ scan # "pendingPayables")

ScanError ==
  /\ Received("ScanError")
  /\ inbox' = Tail(inbox)
  /\ MarkAsEnded(Head(inbox).scan)
  /\ Answer(Head(inbox).ctx)
  /\ UNCHANGED <<db, chain, node, setup, task, asked, history>>

\* transactions_confirmed settles one fingerprint after the other, by rowid, and
\* gives up at the first that does not match exactly one account.
Debtors(f) == {w \in Wallets : pending[w] = f.rowid}
MatchesOne(f) == \E w \in Wallets : Debtors(f) = {w}

Attempted(confirmed) ==
  {f \in confirmed : \A g \in confirmed : g.rowid < f.rowid => MatchesOne(g)}

\* Mutant: the account is cleared, whatever was paid.
BalanceAfter_Cleared(w, f) == 0

BalanceAfter(w, f) == balance[w] - f.tx.amount

TransactionsConfirmed(fs) ==
  LET hit(w) == {f \in fs : pending[w] = f.rowid}
  IN  /\ balance' = [w \in Wallets |-> IF hit(w) = {} THEN balance[w]
                       ELSE BalanceAfter(w, CHOOSE f \in hit(w) : TRUE)]
      /\ pending' = [w \in Wallets |-> IF hit(w) = {} THEN pending[w] ELSE NoRow]
      /\ aged' = {w \in aged : hit(w) = {}}
      /\ settled' = settled \cup {f.tx : f \in {g \in fs : Debtors(g) # {}}}

Rows(fs) == {f.rowid : f \in fs}

\* PendingPayableScanner.finish_scan: confirm, delete the confirmed fingerprints,
\* flag the failed ones, count an attempt for the others.  Each statement must
\* find every row it names.
TransactionReceipts ==
  /\ Received("Receipts")
  /\ LET m == Head(inbox)
         allMatch  == \A f \in m.confirmed : MatchesOne(f)
         remaining == {f \in fingerprints : f.rowid \notin Rows(m.confirmed)}
         flagged   == {[f EXCEPT !.error = @ \/ f.rowid \in Rows(m.failures)] : f \in remaining}
         fine == /\ allMatch
                 /\ Rows(m.confirmed) \cup Rows(m.failures) \cup Rows(m.still) \subseteq Rowids
     IN  /\ TransactionsConfirmed(Attempted(m.confirmed))
         /\ fingerprints' =
              IF ~allMatch THEN fingerprints
              ELSE IF Rows(m.confirmed) \subseteq Rowids THEN flagged ELSE remaining
         /\ \/ /\ fine
               /\ inbox' = Tail(inbox)
               /\ pendScan' = FALSE
               /\ Answer(m.ctx)
               /\ UNCHANGED <<node, payScan, task>>
            \/ ~fine /\ Stop("panicked") /\ UNCHANGED answered
  /\ UNCHANGED <<chain, setup, asked, charged>>

-----------------------------------------------------------------------------
(* The blockchain, and the end and the return of the process *)

Mined == succeeded \cup failed

\* The Accountant has yet to hear that this transaction was accepted.
Unannounced(tx) ==
  \/ \E s \in Slots : Runs(s, "reply") /\ tx \in task[s].oks
  \/ \E i \in DOMAIN inbox : inbox[i].type = "Sent" /\ tx \in inbox[i].oks

Mine(tx) ==
  /\ tx \in mempool
  /\ \A n \in 0 .. tx.nonce - 1 : \E t \in Mined : t.nonce = n
  /\ Unannounced(tx) => "EarlyMining" \in world.faults
  /\ mempool' = mempool \ {tx}
  /\ \/ succeeded' = succeeded \cup {tx} /\ UNCHANGED failed
     \/ "TxFails" \in world.faults /\ failed' = failed \cup {tx} /\ UNCHANGED succeeded
  /\ UNCHANGED <<db, node, setup, memory, ui, history>>

\* The process is killed, possibly between two statements of a handler, each of
\* which SQLite commits on its own.
Kill ==
  /\ node = "up" /\ "Kill" \in world.faults
  /\ Stop("killed")
  /\ \/ UNCHANGED <<db, settled>>
     \/ /\ Received("Sent")
        /\ MarkPending(Head(inbox).oks)
        /\ UNCHANGED <<balance, aged, fingerprints, settled>>
     \/ /\ Received("Receipts")
        /\ LET confirmed == Head(inbox).confirmed
           IN  \/ /\ \E last \in Rows(confirmed) :
                       TransactionsConfirmed({f \in Attempted(confirmed) : f.rowid <= last})
                  /\ UNCHANGED fingerprints
               \/ /\ \A f \in confirmed : MatchesOne(f)
                  /\ TransactionsConfirmed(confirmed)
                  /\ fingerprints' = {f \in fingerprints : f.rowid \notin Rows(confirmed)}
  /\ UNCHANGED <<chain, setup, ui, charged>>

Restart ==
  /\ node # "up" /\ "Restart" \in world.faults
  /\ node' = "up"
  /\ UNCHANGED <<db, chain, setup, memory, ui, history>>

-----------------------------------------------------------------------------
Bridge(s) ==
  \/ BuildAgent(s) \/ FetchNonceAndSign(s) \/ SubmitBatch(s)
  \/ BatchReply(s) \/ BatchFails(s) \/ FetchReceipts(s)

Accountant ==
  \/ PayablePaymentSetup \/ NewPendingPayableFingerprints \/ SentPayables
  \/ ScanError \/ TransactionReceipts

Next ==
  \/ \E w \in Wallets : MoreMoneyPayable(w) \/ DebtAges(w)
  \/ UpdateWallets
  \/ \E ctx \in Skeletons : ScanForPayables(ctx) \/ ScanForPendingPayables(ctx)
  \/ \E s \in Slots : Bridge(s)
  \/ Accountant
  \/ \E tx \in mempool : Mine(tx)
  \/ Kill
  \/ Restart

Spec == Init /\ [][Next]_vars

\* Timers fire again and again, mailboxes are served, the chain mines, debts grow old.
\* A user is never obliged to act, nor a chain node to answer.
Fairness ==
  /\ WF_vars(Accountant)
  /\ WF_vars(ScanForPayables(NoUi)) /\ WF_vars(ScanForPendingPayables(NoUi))
  /\ WF_vars(\E tx \in mempool : Mine(tx))
  /\ \A w \in Wallets : WF_vars(DebtAges(w))

FairSpec == Spec /\ Fairness

-----------------------------------------------------------------------------
(* Properties *)

\* The columns, the chain, the futures and the Accountant's mailbox are well formed.
TypeOK ==
  /\ world \in Worlds
  /\ balance \in [Wallets -> Int]
  /\ pending \in [Wallets -> Nat]
  /\ aged \subseteq Wallets
  /\ fingerprints \in Batch(Fingerprint)
  /\ mempool \subseteq Tx /\ succeeded \subseteq Tx /\ failed \subseteq Tx
  /\ node \in {"up", "panicked", "killed"}
  /\ consuming \in BOOLEAN /\ payScan \in BOOLEAN /\ pendScan \in BOOLEAN
  /\ task \in [Slots -> Task \cup {Idle}]
  /\ inbox \in Seq(Msg)
  /\ asked \in [Contexts -> Nat] /\ answered \in [Contexts -> Nat]
  /\ charged \in [Wallets -> Nat]
  /\ settled \subseteq Tx

\* The work a payable scan still has to do before the accounts it chose are
\* settled or released: its future, or the message that future left.
PayFutures == {s \in Slots : Busy(s) /\ task[s].kind \in PayKinds}
PayMessages == {i \in DOMAIN inbox : inbox[i].type \in {"Agent", "Sent"}}

\* A batch that fails as a whole is reported twice, by a SentPayables and by a ScanError,
\* and each of them ends the scan that is running, the second one the next scan.
BatchesDoNotFail == world.faults \cap {"NonceError", "BatchError", "LostReply"} = {}

\* Unless a batch fails as a whole, two payable scans never run at the same time: at most
\* one future or message in flight carries accounts to be paid
\* (USER-INTERFACE-INTERFACE.md, scanIntervals).
OneScanAtATime ==
  BatchesDoNotFail =>
    /\ \A s, t \in PayFutures : s = t
    /\ \A i, j \in PayMessages : i = j
    /\ PayFutures = {} \/ PayMessages = {}

\* Why it holds: at most one future or message exists that will end the scan or carry it
\* on, and none does when no scan is marked as running.
Word(m) == m.type \in {"Agent", "Sent"} \/ (m.type = "ScanError" /\ m.scan = "payables")
PayWords(q) == {i \in 1 .. Len(q) : Word(q[i])}

ScanExclusion ==
  /\ \A s, t \in PayFutures : s = t
  /\ \A i, j \in PayWords(inbox) : i = j
  /\ PayFutures = {} \/ PayWords(inbox) = {}
  /\ ~payScan => PayFutures = {} /\ PayWords(inbox) = {}

\* Unless a batch fails as a whole, every request of a conversation is answered at most
\* once, so that the next message in a conversation is the response to its latest request.
AnsweredOnce == BatchesDoNotFail => \A c \in Contexts : answered[c] <= asked[c]

\* SQLite gives a deleted rowid out again.  A receipts query that is still under way when
\* the chain has refused a payment, and the Accountant deleted its row, names that row.
RowidsAreStable == BatchesDoNotFail /\ "ItemRejected" \notin world.faults

\* What a restarted Node does not know: which payments it submitted but had not marked.
NeverRestarted == "Restart" \notin world.faults

\* Unless the chain refuses payments or whole batches, or the Node is restarted after it
\* stopped amid one, a creditor never has two payments of ours on the chain that the books do
\* not show: the second of them would pay the same debt again.
OneOutstandingPayment ==
  RowidsAreStable /\ NeverRestarted =>
    \A t, u \in OnChain \ settled : t.wallet = u.wallet => t = u

\* Unless the chain refuses payments or batches, an account waiting for a confirmation waits for a
\* fingerprint that exists and is about a payment to that account: otherwise no scan could
\* ever release it.
PendingHasFingerprint ==
  RowidsAreStable => \A w \in Wallets : pending[w] # NoRow =>
    \E f \in fingerprints : f.rowid = pending[w] /\ f.tx.wallet = w

\* What loses a fingerprint: SQLite refuses it, the process is killed when the batch is out
\* and its announcement still in the mailbox, or it panics then, over the receipt of a
\* payment made before it was restarted.
AnnouncementsAreStored == world.faults \cap {"InsertError", "Kill", "Restart"} = {}

\* Unless the chain refuses payments or batches, a payment that reached the chain and may still
\* succeed is not forgotten while announcements are stored: until the books show it, a
\* fingerprint does, or the announcement of one is in the mailbox.
PaymentsAreTracked ==
  RowidsAreStable /\ AnnouncementsAreStored => \A tx \in (mempool \cup succeeded) \ settled :
    \/ tx \in KnownHashes
    \/ \E i \in DOMAIN inbox : inbox[i].type = "Seeds" /\ tx \in inbox[i].txs

\* What the code does not see to: it sets no timeout for its requests, so a chain node that
\* takes one and never answers keeps the future, and the mark of its scan, for ever.
RequestsEnd == \A s \in Slots : WF_vars(Bridge(s))

\* If requests to the chain end, with an answer or an error, a payable scan that has begun
\* comes to its end: otherwise every later one would be refused with ScanAlreadyRunning.
PayableScanEnds == RequestsEnd => (payScan ~> ~payScan)

\* If they do, then while nothing fails and there is a consuming wallet, every debt is
\* eventually paid on the chain and taken off the books.
DebtsArePaid ==
  RequestsEnd => \A w \in Wallets : (world.faults = {} /\ consuming /\ balance[w] > 0) ~> balance[w] = 0
=============================================================================
