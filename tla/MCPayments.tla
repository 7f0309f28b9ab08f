----------------------------- MODULE MCPayments -----------------------------
(* Payments on small instances. *)
EXTENDS Payments, FiniteSetsExt

\* Two creditors; a Node that is killed, users who ask for scans, a Node that returns, a
\* chain that refuses payments.
SafetyWorlds ==
  {[creditors |-> {1, 2}, maxCharge |-> 2, maxNonce |-> 3, maxInbox |-> 3, maxAsks |-> 0,
    faults |-> {"AgentError", "InsertError", "ReceiptsError", "ReceiptError", "TxFails",
                "EarlyMining", "Kill"}],
   [creditors |-> {1, 2}, maxCharge |-> 1, maxNonce |-> 3, maxInbox |-> 3, maxAsks |-> 2,
    faults |-> {"AgentError", "ReceiptsError", "ReceiptError", "TxFails", "EarlyMining"}],
   [creditors |-> {1, 2}, maxCharge |-> 2, maxNonce |-> 2, maxInbox |-> 3, maxAsks |-> 0,
    faults |-> {"InsertError", "ReceiptError", "TxFails", "EarlyMining", "Kill", "Restart"}],
   [creditors |-> {1, 2}, maxCharge |-> 1, maxNonce |-> 3, maxInbox |-> 3, maxAsks |-> 1,
    faults |-> {"ItemRejected", "ReceiptsError", "TxFails"}]}

\* Every fault with one creditor; no fault with two.
LivenessWorlds ==
  {[creditors |-> {1}, maxCharge |-> 1, maxNonce |-> 1, maxInbox |-> 2, maxAsks |-> 0,
    faults |-> AllFaults],
   [creditors |-> {1, 2}, maxCharge |-> 2, maxNonce |-> 4, maxInbox |-> 3, maxAsks |-> 0,
    faults |-> {}]}

PaidTo(w, txs) == MapThenSumSet(LAMBDA tx : tx.amount, {tx \in txs : tx.wallet = w})

\* Unless the chain refuses payments or batches, or the Node is restarted, the batches submitted
\* never send a creditor more than they charged, though a scan pays the balances it saw when
\* it began.
NeverOverpaid ==
  RowidsAreStable /\ NeverRestarted => \A w \in Wallets : PaidTo(w, mempool \cup succeeded) <= charged[w]

\* Unless the chain refuses payments or batches, the balance of a creditor is what they charged less
\* the payments the books were adjusted for by transactions_confirmed: no payment is
\* subtracted twice, from another account, or by another amount.
BooksBalance ==
  RowidsAreStable => \A w \in Wallets : balance[w] = charged[w] - PaidTo(w, settled)

=============================================================================
