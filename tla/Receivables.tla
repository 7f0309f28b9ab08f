---------------------------- MODULE Receivables ----------------------------
(***************************************************************************)
(* Being paid by debtors: the receivable scan of the Accountant, the       *)
(* tables receivable and banned, the ban cache, the stored start block,    *)
(* and the query of the BlockchainBridge for payments to our wallet.       *)
(*                                                                         *)
(* A receivable scan bans and unbans debtors and then asks the bridge for  *)
(* the payments received since the start block.  The bridge reads the      *)
(* start block and the block range from the database, asks the chain for   *)
(* its head, asks for the logs up to a last block it computes, and answers *)
(* with the payments and a new start block.  The Accountant credits the    *)
(* payments and stores the new start block in one database transaction.    *)
(*                                                                         *)
(* Each query to the chain is a step of its own: blocks may be mined, the  *)
(* user may move the start block, and the Node may be killed in between.   *)
(***************************************************************************)
EXTENDS Integers, Sequences, FiniteSets

CONSTANTS
  Debtors,       \* wallets of the Nodes we serve
  Payments,      \* identities of the payments debtors may make
  Ranges,        \* block ranges a provider may limit our queries to
  Uninitialized, \* BlockMarker::Uninitialized; no start block in the database
  NoLimit,       \* BlockScanRange::NoLimit; no block range in the database
  DebtLimit,     \* a debt of sufficient age is delinquent above this amount
  UnbanBelow,    \* a banned debtor is unbanned at or below this amount
  Slots,         \* bound: numbers of the futures the bridge runs at a time
  Idle,          \* a free slot for a future
  Contexts,      \* conversations a UI holds with the Node
  NoUi,          \* response_skeleton_opt = None: the scan was triggered by a timer
  Worlds         \* the environments considered, see World

AllFaults == { "HeadUnknown",   \* the query for the head of the chain fails
               "LaggingNode",   \* queries may be answered by a chain node that is behind
               "LogsError",     \* the query for the logs fails
               "RangeError",    \* it fails because the provider limits the block range
               "Reorg",         \* a payment moves from the head to the next block
               "UserMovesStart",\* the user sets the start block
               "Kill",          \* the process is killed
               "Restart" }      \* the Node is started again after it stopped

\* An environment, which is chosen once: the payments that may be made, the limits a
\* provider may have, the faults that may happen, and its bounds.
World == [payments  : SUBSET Payments,
          ranges    : SUBSET Ranges,
          faults    : SUBSET AllFaults,
          maxCharge : Nat,               \* bound: what we charge one debtor altogether
          maxBlock  : Nat,               \* bound: the highest block
          maxAsks   : Nat]               \* bound: scan requests in one conversation

ASSUME ReceivablesAssumption ==
  /\ IsFiniteSet(Payments)
  /\ Slots \subseteq Nat
  /\ Ranges \subseteq Nat \ {0}
  /\ Uninitialized \notin Nat /\ NoLimit \notin Nat
  /\ DebtLimit \in Int /\ UnbanBelow \in Int
  /\ NoUi \notin Contexts
  /\ Worlds \subseteq World

Markers   == Nat \cup {Uninitialized}
Skeletons == Contexts \cup {NoUi}

\* A transfer of one unit of money to our earning wallet, in a block of the chain.
Transfer == [id : Payments, from : Debtors, block : Nat]

VARIABLES
  world,         \* the environment, one of Worlds
  (* the blockchain *)
  head,          \* number of its last block
  transfers,     \* payments to our wallet
  (* the database *)
  startBlock,    \* config.start_block
  maxBlockCount, \* config.max_block_count
  rows,          \* wallets that have a row in table receivable
  balance,       \* receivable.balance, per wallet
  aged,          \* wallets whose last_received_timestamp is past maturity and grace
  banned,        \* table banned
  (* the Node's memory *)
  node,          \* "up" or "killed"
  banCache,      \* BAN_CACHE
  scanning,      \* ReceivableScanner.initiated_at_opt is Some
  task,          \* futures of the bridge
  inbox,         \* messages of the bridge in the Accountant's mailbox
  (* the UI *)
  asked, answered,
  (* history *)
  charged,       \* what each debtor was charged so far
  credited,      \* how often each payment was taken into account
  origin         \* the first block the Node ever scanned

chain   == <<world, head, transfers>>
config  == <<startBlock, maxBlockCount>>
ledger  == <<rows, balance, aged>>
bans    == <<banned, banCache>>
memory  == <<scanning, task, inbox>>
ui      == <<asked, answered>>
history == <<charged, credited, origin>>
vars    == <<chain, config, ledger, bans, node, memory, ui, history>>

ReceivedMsg(txs, first, new, ctx) ==
  [type |-> "Received", txs |-> txs, first |-> first, new |-> new, ctx |-> ctx]
ScanErrorMsg(ctx) == [type |-> "ScanError", ctx |-> ctx]

\* `first' is not sent by the code: it is the first block of the query, for `origin'.
Msg == [type : {"Received"}, txs : SUBSET Transfer, first : Nat, new : Markers, ctx : Skeletons]
       \cup [type : {"ScanError"}, ctx : Skeletons]

\* A future before it reads the configuration, before it hears the head of the
\* chain, and before it hears the logs.
Task == [kind : {"request"}, ctx : Skeletons]
        \cup [kind : {"head"}, start : Markers, range : Ranges \cup {NoLimit}, ctx : Skeletons]
        \cup [kind : {"logs"}, start : Markers, first : Markers, end : Markers, ctx : Skeletons]

Busy(s) == task[s] # Idle
Runs(s, kind) == Busy(s) /\ task[s].kind = kind

\* The slot the next future goes to.
FreeSlot(s) == ~Busy(s) /\ \A t \in Slots : t < s => Busy(t)

Received(type) == node = "up" /\ inbox # <<>> /\ Head(inbox).type = type

-----------------------------------------------------------------------------
Init ==
  /\ world \in Worlds
  /\ head \in 0 .. world.maxBlock
  /\ transfers = {}
  /\ startBlock \in (0 .. head + 1) \cup {Uninitialized}
  /\ maxBlockCount \in world.ranges \cup {NoLimit}
  /\ rows = {} /\ balance = [d \in Debtors |-> 0] /\ aged = {}
  /\ banned = {} /\ banCache = {}
  /\ node = "up"
  /\ scanning = FALSE
  /\ task = [s \in Slots |-> Idle]
  /\ inbox = <<>>
  /\ asked = [c \in Contexts |-> 0] /\ answered = [c \in Contexts |-> 0]
  /\ charged = [d \in Debtors |-> 0]
  /\ credited = [p \in Payments |-> 0]
  /\ origin = startBlock

Answer(ctx) ==
  answered' = IF ctx = NoUi THEN answered ELSE [answered EXCEPT ![ctx] = @ + 1]

Ask(ctx) ==
  \/ ctx = NoUi /\ UNCHANGED asked
  \/ /\ ctx \in Contexts /\ asked[ctx] < world.maxAsks
     /\ asked' = [asked EXCEPT ![ctx] = @ + 1]

-----------------------------------------------------------------------------
(* Debts and debtors *)

\* ReportRoutingServiceProvided, ReportExitServiceProvided: a debtor is charged one unit.
MoreMoneyReceivable(d) ==
  /\ node = "up" /\ charged[d] < world.maxCharge
  /\ rows' = rows \cup {d}
  /\ balance' = [balance EXCEPT ![d] = @ + 1]
  /\ charged' = [charged EXCEPT ![d] = @ + 1]
  /\ UNCHANGED <<chain, config, aged, bans, node, memory, ui, credited, origin>>

\* Time passes: the last payment of a debtor is long ago.
DebtAges(d) ==
  /\ d \in rows \ aged
  /\ aged' = aged \cup {d}
  /\ UNCHANGED <<chain, config, rows, balance, bans, node, memory, ui, history>>

\* ReceivableDao.new_delinquencies
NewDelinquencies == {d \in (rows \cap aged) \ banned : balance[d] > DebtLimit}

\* The tables after BannedDao.ban of every new delinquent: a debtor in the cache
\* is not written to the table again.
TableWithBans == banned \cup (NewDelinquencies \ banCache)
CacheWithBans == banCache \cup NewDelinquencies

\* ReceivableDao.paid_delinquencies, as far as BannedDao.unban acts on them
Reformed == {d \in rows \cap TableWithBans \cap CacheWithBans : balance[d] <= UnbanBelow}

ScanForDelinquencies ==
  /\ banned' = TableWithBans \ Reformed
  /\ banCache' = CacheWithBans \ Reformed

\* Mutant: ScanAlreadyRunning is not checked.
ReceivableScanMayBegin_Unguarded == TRUE

ReceivableScanMayBegin == ~scanning

ScanForReceivables(ctx) ==
  /\ node = "up"
  /\ Ask(ctx)
  /\ \/ /\ ~ReceivableScanMayBegin
        /\ UNCHANGED <<bans, memory>>
     \/ /\ ReceivableScanMayBegin
        /\ scanning' = TRUE
        /\ ScanForDelinquencies
        /\ \E s \in Slots :
             /\ FreeSlot(s)
             /\ task' = [task EXCEPT ![s] = [kind |-> "request", ctx |-> ctx]]
        /\ UNCHANGED inbox
  /\ UNCHANGED <<chain, config, ledger, node, answered, history>>

-----------------------------------------------------------------------------
(* The query of the BlockchainBridge *)

\* BlockchainBridge.handle_retrieve_transactions reads the configuration.
RetrieveTransactions(s) ==
  /\ node = "up" /\ Runs(s, "request")
  /\ task' = [task EXCEPT ![s] = [kind |-> "head", start |-> startBlock,
                                  range |-> maxBlockCount, ctx |-> @.ctx]]
  /\ UNCHANGED <<chain, config, ledger, bans, node, scanning, inbox, ui, history>>

\* Bound: the faults that make the Node scan a block again happen only until a
\* payment has been credited twice.
MayRescan == \A p \in Payments : credited[p] <= 1

\* The heads a query may be answered by.
Views == {head} \cup (IF "LaggingNode" \in world.faults /\ MayRescan THEN 0 .. head ELSE {})

\* The answers to get_block_number; Uninitialized stands for an error.  Bound: it
\* fails only while the start block, which then grows, is at most maxBlock.
HeadAnswers(start) ==
  Views \cup (IF "HeadUnknown" \in world.faults /\ (start # Uninitialized => start <= world.maxBlock)
             THEN {Uninitialized} ELSE {})

\* Mutant: the range counts from the start block, whatever the head of the chain.
EndBlock_Headless(start, range, h) ==
  IF start # Uninitialized /\ range # NoLimit THEN start + range - 1 ELSE h

\* Mutant: a range of n blocks is taken to end n - 2 blocks further on.
EndBlock_Short(start, range, h) ==
  LET local == IF start # Uninitialized /\ range # NoLimit
               THEN start + range - 2 ELSE Uninitialized
  IN  IF h = Uninitialized THEN local
      ELSE IF local = Uninitialized \/ h < local THEN h ELSE local

\* calculate_end_block_marker; Uninitialized stands for the latest block.
EndBlock(start, range, h) ==
  LET local == IF start # Uninitialized /\ range # NoLimit
               THEN start + range - 1 ELSE Uninitialized
  IN  IF h = Uninitialized THEN local
      ELSE IF local = Uninitialized \/ h < local THEN h ELSE local

\* The block a query starts from; Uninitialized stands for the latest one.
FirstBlock(start, h) == IF start # Uninitialized THEN start ELSE h

HeadReply(s) ==
  /\ node = "up" /\ Runs(s, "head")
  /\ \E h \in HeadAnswers(task[s].start) :
       task' = [task EXCEPT ![s] = [kind |-> "logs", start |-> @.start, ctx |-> @.ctx,
                                    first |-> FirstBlock(@.start, h),
                                    end |-> EndBlock(@.start, @.range, h)]]
  /\ UNCHANGED <<chain, config, ledger, bans, node, scanning, inbox, ui, history>>

Highest(txs) == {t \in txs : \A u \in txs : u.block <= t.block}

\* find_new_start_block, as the set of its one value
NewStartBlock(txs, start, end) ==
  IF end # Uninitialized THEN {end + 1}
  ELSE IF txs # {} THEN {t.block + 1 : t \in Highest(txs)}
  ELSE IF start # Uninitialized THEN {start + 1} ELSE {Uninitialized}

\* The payments from block `first' to block `end' a chain node at head `view' knows of.
Logs(first, end, view) ==
  {t \in transfers : first <= t.block /\ t.block <= view /\ (end # Uninitialized => t.block <= end)}

LogsReply(s) ==
  /\ node = "up" /\ Runs(s, "logs")
  /\ \E view \in Views :
       LET first == IF task[s].first = Uninitialized THEN view ELSE task[s].first
           txs   == Logs(first, task[s].end, view)
       IN  \E new \in NewStartBlock(txs, task[s].start, task[s].end) :
             inbox' = Append(inbox, ReceivedMsg(txs, first, new, task[s].ctx))
  /\ task' = [task EXCEPT ![s] = Idle]
  /\ UNCHANGED <<chain, config, ledger, bans, node, scanning, ui, history>>

\* The limit found in the provider's error message
ExtractMaxBlockCount == world.ranges

\* The query fails.  A provider may name its limit, which is stored.
LogsFail(s) ==
  /\ node = "up" /\ Runs(s, "logs")
  /\ \/ "LogsError" \in world.faults /\ UNCHANGED maxBlockCount
     \/ "RangeError" \in world.faults /\ maxBlockCount' \in ExtractMaxBlockCount
  /\ inbox' = Append(inbox, ScanErrorMsg(task[s].ctx))
  /\ task' = [task EXCEPT ![s] = Idle]
  /\ UNCHANGED <<chain, startBlock, ledger, bans, node, scanning, ui, history>>

-----------------------------------------------------------------------------
(* The Accountant finishes the scan *)

\* Mutant: a scan is not marked as ended.
MarkAsEnded_Forgotten == UNCHANGED scanning

MarkAsEnded == scanning' = FALSE

PaidBy(d, txs) == {p \in Payments : \E t \in txs : t.id = p /\ t.from = d}

\* Payments of debtors without a row are only logged.
Credit(txs) ==
  /\ balance' = [d \in Debtors |-> IF d \in rows THEN balance[d] - Cardinality(PaidBy(d, txs))
                                                 ELSE balance[d]]
  /\ aged' = aged \ {d \in rows : PaidBy(d, txs) # {}}
  /\ credited' = [p \in Payments |->
                    IF \E t \in txs : t.id = p THEN credited[p] + 1 ELSE credited[p]]

\* ReceivableScanner.finish_scan.  Without payments the start block is stored if
\* there is one.  With payments there is one ("unreachable!" otherwise), and it is
\* stored in the same database transaction, so that a crash undoes both.
ReceivedPayments ==
  /\ Received("Received")
  /\ LET m == Head(inbox)
     IN  /\ \/ /\ m.txs = {} /\ m.new = Uninitialized
               /\ UNCHANGED <<startBlock, balance, aged, credited, origin>>
            \/ /\ m.new # Uninitialized
               /\ startBlock' = m.new
               /\ Credit(m.txs)
               /\ origin' = IF origin = Uninitialized THEN m.first ELSE origin
         /\ Answer(m.ctx)
  /\ MarkAsEnded
  /\ inbox' = Tail(inbox)
  /\ UNCHANGED <<chain, maxBlockCount, rows, bans, node, task, asked, charged>>

ScanError ==
  /\ Received("ScanError")
  /\ MarkAsEnded
  /\ Answer(Head(inbox).ctx)
  /\ inbox' = Tail(inbox)
  /\ UNCHANGED <<chain, config, ledger, bans, node, task, asked, history>>

-----------------------------------------------------------------------------
(* The environment *)

Unused == {p \in world.payments : \A t \in transfers : t.id # p}

\* The chain mines a block with any set of new payments to us.
MineBlock ==
  /\ head < world.maxBlock
  /\ head' = head + 1
  /\ \E new \in SUBSET Unused : \E payer \in [new -> Debtors] :
       transfers' = transfers \cup
                      {[id |-> p, from |-> payer[p], block |-> head + 1] : p \in new}
  /\ UNCHANGED <<world, config, ledger, bans, node, memory, ui, history>>

\* The chain replaces its last block: a payment in it ends up in the next one.
Reorg ==
  /\ "Reorg" \in world.faults /\ head < world.maxBlock
  /\ head' = head + 1
  /\ \E t \in transfers :
       /\ t.block = head
       /\ transfers' = (transfers \ {t}) \cup {[t EXCEPT !.block = head + 1]}
  /\ UNCHANGED <<world, config, ledger, bans, node, memory, ui, history>>

\* Configurator.set_start_block: a number, or "none".
SetStartBlock ==
  /\ "UserMovesStart" \in world.faults /\ node = "up" /\ MayRescan
  /\ startBlock' \in (0 .. world.maxBlock) \cup {Uninitialized}
  /\ UNCHANGED <<chain, maxBlockCount, ledger, bans, node, memory, ui, history>>

\* The process is killed, possibly while it is banning or unbanning: each ban is a
\* database statement of its own.  The database transaction that credits payments
\* is rolled back.
Kill ==
  /\ "Kill" \in world.faults /\ node = "up"
  /\ node' = "killed"
  /\ banCache' = {}
  /\ scanning' = FALSE
  /\ task' = [s \in Slots |-> Idle]
  /\ inbox' = <<>>
  /\ \/ UNCHANGED banned
     \/ /\ ReceivableScanMayBegin
        /\ \/ \E done \in SUBSET (TableWithBans \ banned) : banned' = banned \cup done
           \/ \E done \in SUBSET Reformed : banned' = TableWithBans \ done
  /\ UNCHANGED <<chain, config, ledger, ui, history>>

\* Mutant: the ban cache starts empty.
Restarted_NoLoad == banCache' = {}

\* BannedCacheLoaderReal.load
Restarted == banCache' = banned

Restart ==
  /\ "Restart" \in world.faults /\ node = "killed"
  /\ node' = "up"
  /\ Restarted
  /\ UNCHANGED <<chain, config, ledger, banned, memory, ui, history>>

-----------------------------------------------------------------------------
Bridge(s) == RetrieveTransactions(s) \/ HeadReply(s) \/ LogsReply(s) \/ LogsFail(s)

Accountant == ReceivedPayments \/ ScanError

Next ==
  \/ \E d \in Debtors : MoreMoneyReceivable(d) \/ DebtAges(d)
  \/ \E ctx \in Skeletons : ScanForReceivables(ctx)
  \/ \E s \in Slots : Bridge(s)
  \/ Accountant
  \/ MineBlock
  \/ Reorg
  \/ SetStartBlock
  \/ Kill
  \/ Restart

Spec == Init /\ [][Next]_vars

\* The timer fires again and again and the Accountant serves its mailbox. Nothing is
\* assumed of the chain's node, which may leave a request without an answer.
Fairness ==
  /\ WF_vars(Accountant)
  /\ WF_vars(ScanForReceivables(NoUi))

FairSpec == Spec /\ Fairness

-----------------------------------------------------------------------------
(* Properties *)

\* The tables, the ban cache, the queries and the Accountant's mailbox are well formed.
TypeOK ==
  /\ world \in Worlds
  /\ head \in Nat
  /\ transfers \in SUBSET Transfer
  /\ startBlock \in Markers /\ maxBlockCount \in Ranges \cup {NoLimit}
  /\ rows \subseteq Debtors /\ aged \subseteq Debtors
  /\ balance \in [Debtors -> Int]
  /\ banned \subseteq Debtors /\ banCache \subseteq Debtors
  /\ node \in {"up", "killed"}
  /\ scanning \in BOOLEAN
  /\ task \in [Slots -> Task \cup {Idle}]
  /\ inbox \in Seq(Msg)
  /\ asked \in [Contexts -> Nat] /\ answered \in [Contexts -> Nat]
  /\ charged \in [Debtors -> Nat]
  /\ credited \in [Payments -> Nat]
  /\ origin \in Markers

Credited(t) == credited[t.id] > 0

\* At most one query, or the answer to one, is under way, and only during a scan.
OneQuery ==
  /\ \A s, t \in Slots : Busy(s) /\ Busy(t) => s = t
  /\ \A s \in Slots : Busy(s) => scanning /\ inbox = <<>>
  /\ Len(inbox) <= 1 /\ (inbox # <<>> => scanning)

\* The chain never rewrites a payment.
ChainIsSettled ==
  /\ \A t, u \in transfers : t.id = u.id => t = u
  /\ \A t \in transfers : t.block <= head

\* Payments credited lie below the start block.
CreditsLieBelow ==
  /\ \A p \in Payments : credited[p] > 0 => \E t \in transfers : t.id = p
  /\ \A t \in transfers : Credited(t) => startBlock # Uninitialized /\ t.block < startBlock

\* A query starts at the stored start block and does not end before a credited payment.
QueryIsCurrent(s) ==
  /\ Runs(s, "head") => task[s].start = startBlock
  /\ Runs(s, "logs") =>
       /\ task[s].start = startBlock
       /\ startBlock # Uninitialized => task[s].first = startBlock
       /\ task[s].end # Uninitialized =>
            \A t \in transfers : Credited(t) => t.block <= task[s].end

\* An answer brings payments of the chain that were not credited before, and a start
\* block above these and above the credited ones.
AnswerIsCurrent(m) ==
  m.type = "Received" =>
    /\ m.txs \subseteq transfers /\ \A t \in m.txs : ~Credited(t)
    /\ m.txs # {} => m.new # Uninitialized
    /\ m.new # Uninitialized =>
         \A t \in transfers : (t \in m.txs \/ Credited(t)) => t.block < m.new

\* Every scan takes up where the last one ended.
InOrder ==
  /\ OneQuery /\ ChainIsSettled /\ CreditsLieBelow
  /\ \A s \in Slots : QueryIsCurrent(s)
  /\ \A i \in 1 .. Len(inbox) : AnswerIsCurrent(inbox[i])

AtMostOnce == \A p \in Payments : credited[p] <= 1

\* Requests to the chain end with an answer or an error. The code sets no timeout, so
\* this is up to the chain's node, and what depends on it says so.
RequestsEnd == \A s \in Slots : WF_vars(Bridge(s))

\* The faults under which blocks may be scanned again, and skipped.
ChainIsReliable == world.faults \cap {"LaggingNode", "Reorg", "UserMovesStart"} = {}
HeadIsKnown == "HeadUnknown" \notin world.faults

\* What every scan of a reliable chain relies on: an answer only holds payments that are
\* on the chain, at or above the stored start block and not credited yet, and the new
\* start block lies above them; so "Failed to get start_block while transactions were
\* present" is indeed unreachable.
ScansAreInOrder == ChainIsReliable => InOrder

\* No payment on a reliable chain is taken into account twice, whatever is killed, fails
\* or is mined between the queries of a scan: crediting and moving the start block are one
\* database transaction, and each scan reads the start block the last one stored.
NeverCreditedTwice == ChainIsReliable => AtMostOnce

\* The start block is where the last scan left off: as long as the chain is reliable and
\* tells its head, every payment in a block from the first one scanned up to the start
\* block has been taken into account.
NothingSkipped ==
  ChainIsReliable /\ HeadIsKnown => \A t \in transfers :
    (origin # Uninitialized /\ startBlock # Uninitialized
       /\ origin <= t.block /\ t.block < startBlock) => credited[t.id] = 1

\* While the Node runs, the ban cache, which decides about every package, and the
\* table banned, which survives a restart, agree, also after a crash in the middle
\* of banning and unbanning.
BansAgree == node = "up" => banCache = banned

\* A UI gets at most one answer for each scan it asked for.
AnsweredOnce == \A c \in Contexts : answered[c] <= asked[c]

\* Provided the Node is some day left running and the chain, a reliable one that tells its
\* head, answers some of the queries for logs, every payment made after the first block
\* the Node scanned is credited: failed queries, kills and small block ranges only delay it.
PaymentsAreCredited ==
  (ChainIsReliable /\ HeadIsKnown /\ <>[](node = "up") /\ []<><<\E s \in Slots : LogsReply(s)>>_vars) =>
    \A p \in Payments :
      (\E t \in transfers : t.id = p /\ origin # Uninitialized /\ origin <= t.block)
        ~> credited[p] = 1

\* Provided requests to the chain end, a banned debtor who has paid is unbanned, whatever
\* the chain answers, unless the debt grows again or the Node stops: the scan that is
\* under way ends, and the next one looks for paid delinquencies.
ReformedAreUnbanned ==
  RequestsEnd => \A d \in Debtors :
    (d \in banned /\ balance[d] <= UnbanBelow)
      ~> (d \notin banned \/ balance[d] > UnbanBelow \/ node # "up")

=============================================================================
