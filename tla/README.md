# A TLA+ model of the paper node

This directory is a verification development for the node in `src/paper`: an
early block-lattice node, in which every account has a chain of blocks of its
own, money moves by pairs of send and receive blocks, and representatives vote
on forks. The modules are translated from `secure.cpp`, `node.cpp` and
`utility.cpp`; `PROJECT.json` maps every definition to the lines it models.

## 1. The system

| part | code | what it does | concurrency |
|---|---|---|---|
| blocks, visitors | `secure.cpp` 133-1440, 2138-2310 | four kinds of blocks; balance, amount, account and representative computed by walking chains | pure |
| block store | `secure.cpp` 1441-2043 | LMDB tables: blocks by kind with a trailer naming the successor, accounts, frontiers, pending, representation, unsynced, checksum | transactions |
| ledger | `secure.cpp` 2311-2844 | `process` (verdict and effect) and `rollback` (recursive through receivers) | inside a write transaction |
| votes | `secure.cpp` 64-131 | one vote per representative, tally by weight | none |
| elections, conflicts | `node.cpp` 5644-5875 | one election per root; votes replace the winner by rollback and process; confirmation; timeout | network thread and service threads |
| gap cache, processing | `node.cpp` 2113-2351 | blocks that wait for another block | all threads that process blocks |
| work pool | `node.cpp` 1544-1658 | proof of work by worker threads | workers, callers, `stop` |
| processor service | `node.cpp` 1407-1516 | timed operations run by threads | runners, pollers, `stop` |
| send queue | `node.cpp` 4892-4956 | UDP packets one at a time, rebroadcasts | socket handlers, service |
| database environment | `utility.cpp` 47-161 | counts transactions, grows the memory map while none is open | all threads |
| wallets | `node.cpp` 520-1375, 5877-5980 | encrypted keys, queue of actions per account, work cache, search for pending blocks | all threads |
| bootstrap | `node.cpp` 3824-4664, 4966-5494 | frontier comparison, bulk pull and push, the order in which blocks are handed over | asio handlers |
| peers | `node.cpp` 4690-4881 | contacts, attempts, purging | mutex |
| network, messages | `node.cpp` 18-446, 5987-6065 | parsing, dispatch, keepalives | asio handlers |
| landing | `node.cpp` 6067-6228 | a schedule of distributions | timer |
| RPC, Qt, command line | `node.cpp` 2753-3568, `qt/`, `cli/`, `landing/` | front ends | - |

`paper_trail/` is an older copy of the node which no build target uses.
`blake2`, `ed25519-donna`, `liblmdb` and `xxhash` are vendored libraries.

How they interact: the network (or a wallet, or a bootstrap connection) hands a
block to the gap cache loop, which asks the ledger; the verdict *gap* caches the
block, *fork* starts an election, *progress* republishes it through the send
queue. An election changes the ledger again. Everything delayed runs in the
processor service, and every table access in a transaction of the database
environment. New blocks of a wallet take their work from the work pool.
A wallet receives what an election confirms or a search finds, and two nodes
bring their ledgers together by bootstrapping.

## 2. Modules

| module | models | state | actions |
|---|---|---|---|
| `BlockLattice` | blocks and the visitors over them | constants only: a fixed set `Hash` of blocks that may arrive | `BalanceOf`, `AccountOf`, `RepBlockOf`, `Height`, `Depth` as recursive functions |
| `LedgerTables` | the tables and the pure effects on them | a record of tables | `ProcessResult` and `Processed`, `Undone` with their assertions |
| `Totals` | sums over finite functions | - | `Total` |
| `TableInvariants` | when tables are consistent | - | `TablesInv` and its parts |
| `Ledger` | the ledger as a machine | `store`, the transaction `txn`, the stack `targets` of nested rollbacks, `failed` | process, start, step and end of a rollback, abort, reopening |
| `Votes` | votes, tally, winner | - | operators |
| `VoteCount` | `votes::vote` over time | votes, the newest sequence seen | `CastVote` |
| `Election` | an election of one root, with what can happen to the ledger meanwhile | see the module | arrival, fork, start, votes of two threads, timeout, stopping |
| `GapCache` | the gap cache and the threads that process blocks | tables, the cache by arrival, the block in each thread's hands | deliver, process, cache, next |
| `WorkPool` | the work pool | its members, where each thread is | one action per critical section |
| `ProcessorService` | the processor service | queue, clock, where each thread is | one action per critical section |
| `DelayedOperations` | what the service promises, without threads | promised and called operations, clock | add, call, stop, tick |
| `SendQueue` | the send queue | queue, socket, delayed operations | send, completion, delayed sends, stop |
| `MdbEnv` | the database environment | counters, map size, where each thread is | one action per critical section |
| `Wallet` | the actions of a wallet, their queue, the work cache, the search for pending blocks | heights and balances of its accounts, pending sends, where each action and the search is | one action per transaction or critical section |
| `WalletStore` | the encrypted keys of the wallets | passwords, entries, a backup | create, passwords, rekey, insert, move, backup, import, destroy, restart |
| `Bootstrap` | one bootstrap session of two nodes | both ledgers, `unchecked`, `unsynced`, client, server, the two directions of the connection | one action per asio handler |
| `TableProofs` | what `Total` does when one value changes, what extending or retracting a chain does to each part of `TablesInv`, and each kind of block when it is processed: `TablesInv` is kept | - | lemmas |
| `LedgerProofs` | each kind of block when it is undone, the one head block that a step moves, reopening, the nesting of rollbacks, and the induction over the steps of `Ledger` | - | theorems |
| `GapProofs` | `GapCache` | - | theorems |
| `NodeProofs` | `ProcessorService` against `DelayedOperations`, `SendQueue`, `Wallet`, and `WalletStore` as the instance `Store` | - | theorems |
| `ThreadProofs` | `MdbEnv`, `WorkPool`, `Election` | - | theorems |
| `BootstrapFacts` | the operators of `Bootstrap`, the invariant of a session, and the steps that begin, break, ask for and answer a request | - | lemmas |
| `BootstrapPulls` | the comparison of the frontiers and the pulls | - | lemmas |
| `BootstrapProofs` | the processing of what was pulled, the pushes, and the induction | - | theorems |

`MC*` modules give the constants values. `GapCache` composes the ledger tables
with the cache; `Election` composes votes with the one fact about the ledger an
election depends on (which candidate is stored).

**Data.** A block is identified with its hash, and the set of blocks that can
ever arrive is a constant, as a hash cannot be chosen. Amounts are natural
numbers; the total supply is a constant, and `SupplyConserved` shows that sums
stay below it, so the 128-bit amounts cannot wrap unless an assertion fails
first. A signature is either that of the owner or another one. LMDB (external)
is taken to give atomic and isolated transactions; a crash in the middle of one
restores the tables of its beginning.

**Tables.** `Tables` in `LedgerTables` has one field per LMDB table; the four
tables of blocks are one set with the successor of each block kept apart, as the
code keeps it in the trailer of the entry. `SuccessorDel` keeps what
`block_del` really does to the predecessor's trailer.

**Rollback.** `ledger::rollback` is recursive: to undo a send whose money was
received, it rolls back the receiver's chain first. `targets` is the stack of
the arguments, and one step undoes one block, so that TLC sees every
intermediate state. `failed` records the first assertion that would stop the
process.

**Threads.** In `WorkPool`, `ProcessorService`, `MdbEnv` and `SendQueue` an
action is one critical section, up to the next wait or unlock; condition
variables are modelled with their waiting sets, `notify_one`, `notify_all` and
spurious wakeups.

**Refinement.** `DelayedOperations` is the abstract specification of the service.
`ProcessorService` instantiates it with the queue as the promised operations and
the operations taken from it as the called ones; `KeepsPromise` says that it
implements it, fairness included.

**Wallets.** `Wallet` does not use the ledger tables: no other node has the keys of
the wallet and nothing is rolled back here, so that the head of an account is
known by the height of its chain. An action is split where the code ends one
transaction and begins another. `WalletStore` treats encryption symbolically: it
is the xor with a stream (AES in counter mode), so that a wallet key decrypted
with a wrong password is wrong by a pair of passwords.

**Bootstrap.** A ledger is a set of blocks that is closed under dependencies. The
connection is two sequences of messages, at most `Window` long, and may break.
One session runs at a time.

## 3. Runs

| run | configuration | question |
|---|---|---|
| `ledger` | `MCLedger.cfg`, 11 blocks, 3 accounts, rivals, a change of representative | Do transfers, forks and rollbacks, nested ones too, keep the tables consistent? |
| `weight_assertion` | `WeightAssertion.cfg` | (violated) `assert (source_previous >= amount_a)` |
| `election` | `Election.cfg`, two voters, two candidates | Does the winner lead, is it confirmed once, does the election end? |
| `winner_rollback` | `WinnerRollback.cfg` | (violated) the winner that is rolled back is stored |
| `vote_sequence` | `VoteSequence.cfg` | (violated) only votes with an increasing sequence number are accepted |
| `gap_cache` | `GapCache.cfg`, 6 blocks, 2 threads (one serves bulk pulls, too), a cache of 2 | Does the order of arrival matter? |
| `work_pool` | `WorkPool.cfg`, 2 workers, 2 callers, 3 calls | Does every caller get its own result, and does the pool stop? |
| `processor_service` | `ProcessorService.cfg`, 2 runners, a poller, 3 operations | Does the service implement `DelayedOperations`, in spite of sleeping threads and stopping? |
| `send_queue` | `SendQueue.cfg`, 4 packets with 0 to 2 rebroadcasts | Is one packet on the socket at a time, and every packet sent as often as it should be? |
| `database` | `MdbEnv.cfg`, 3 threads, one of which nests | Is the map only resized while nothing is open, does it suffice, and does every transaction open? |
| `wallet` | `Wallet.cfg`, an account, 3 sends, a change, confirmations, a search | Are the blocks of the wallet accepted, is its work ready, does everything asked for happen? |
| `bootstrap` | `Bootstrap.cfg`, 8 blocks, 3 accounts, a fork, any two ledgers | Do two ledgers become one, with broken connections and blocks that arrive meanwhile? |

### The properties

* **Ledger.** `SupplyConserved`: balances and receivables sum to the genesis
  amount, in the middle of a rollback too. `WeightConserved`: so do the weights,
  until an assertion fails. `BalancesMatchChains`, `PendingExact` (and
  `FrontiersAreHeads`, `Closed`, which are only proved): the tables agree with
  each other and with what the visitors compute from the chains. `ChainsDoNotFork`: at most one stored block
  per root, and trailers lead to it. `ForkHasRival`: *fork* means a stored
  rival. `RollbackFindsTarget`, `CallsNested`, `RollbackEnds`: a rollback
  terminates, and never loses a chain it has been called for.
  `ChecksumFollowsHeads`: the checksum changes by exactly the heads that change.
* **Election.** `WinnerLeads`, `ConfirmedOnce`, `ElectionEnds`.
* **Gap cache.** `OrderDoesNotMatter`, with the exact list of exceptions the code
  has; `GapsAreOpen`; `LoopEnds`.
* **Work pool.** `ResultsAwaited` (every awaited root is in exactly one place),
  `GenerateReturns`, `WorkersExit`.
* **Service.** `NobodyOversleeps`; `KeepsPromise`, the refinement: an operation
  is called once, not early, in the order of time, and in the end unless the
  service is stopped; `RunnersExit`.
* **Send queue.** `OneSender`, `CallbackLast`, `EverythingSent`.
* **Database.** `ResizesAlone`, `MapSuffices`, `TransactionOpens`.
* **Wallet.** `OwnBlocksAccepted`: the ledger takes every block a wallet makes.
  `WorkReady`: the cached work of an idle account is for its next block.
  `SearchFindsAll`: a search that comes to its end has received what was pending
  when it began. `EverythingDone`: `send_sync` and `change_sync` return.
  `SearchEnds`, with an exception (section 4).
* **Bootstrap.** `SessionConverges`: after an undisturbed session both nodes have
  the blocks of both, but for disputed ones and what depends on them.
  `PushedInOrder`: a block is pushed after what it refers to. `PulledIsKept`:
  what was pulled gets into the ledger. Both have the same exception.
  `SessionEnds`.

### Bounds

The universes of blocks contain each pattern that the ledger distinguishes: a
send received by an open and by a receive, received late, not received, a rival
for a send and for an open block, an overspending send, a chain that depends on
a chain that depends on a third, and a change of representative; changes before
and after a transfer are in the universe of `weight_assertion`. Elections have two
voters of which neither (9 of 16) exceeds the contested threshold of 15/16 alone while one exceeds the uncontested one of 1/2.
`MaxGaps` is smaller than the number of gaps the universe has, so that the cache
overflows; `MaxCalls`, `MaxTime` and `MaxLoad` allow a second request while
the first is served, operations in the past, present and future, and a growth
of the map. `Wallet` has two sends from different accounts for one of its own, so
that actions queue up and a search has something left to find; with one of the
`Confirmations` a send may be both confirmed and found by the search. `Bootstrap` starts from every pair of
ledgers of its universe; a `Window` of 2 makes both sides wait for each other.

### Fairness

* Ledger: the thread inside a transaction goes on (weak). Nobody has to start
  anything.
* Election: the service runs what is due and the clock advances.
* Work pool and database: a thread that can go on does, and a thread that waits
  for a mutex gets it at some time although others do, too (strong, per
  thread). A random search finds work at some time.
* Service: the clock advances, the threads in `run` go on; nobody has to poll.
* Send queue: the socket completes sends, and the service runs its operations,
  which `ProcessorService` shows.
* Wallet: threads that perform actions or search go on. Clients, the network and
  the user do nothing they do not want to.
* Bootstrap: handlers of an open connection run. Nobody has to connect: the code
  has no periodic bootstrap.

## 4. Disagreements with the code's own statements

Three runs are expected to fail; the findings in `PROJECT.json` quote the lines.

* `weight_assertion`: a receive takes the weight from the *current*
  representative of the sender, which need not be the one that held it.
* `winner_rollback`: `election::vote` does not look at whether the winner could
  be processed, and later rolls it back.
* `vote_sequence`: the sequence number of a replaced vote is not stored.

Further statements that the models refute, kept as definitions without a run of
their own:

* `RepBlockOfChain` (`Ledger`): undoing a receive stores the representative block
  of the *sender's* chain (`secure.cpp:2350`).
* `ChecksumPersists` (`Ledger`): opening the store resets the checksum
  (`secure.cpp:1473`), while `core_test/ledger.cpp:47` says that it is the same
  after reloading.
* `RollbackStopsAtTarget` (`Ledger`): the comment at `secure.cpp:2473` says that
  blocks are rolled back until the argument is the frontier; the argument is
  undone, too.
* `RivalStored`, `StopFindsRoot` (`Election`): the assertions at `node.cpp:5654`
  and `node.cpp:5839`.
* `SingleTransaction` (`MdbEnv`): `lmdb.h:918` allows a thread one transaction;
  `frontier_req_client::received_frontier` nests two. `TransactionOpens` is
  therefore stated with that exception: if the map has to grow just then, the
  thread that resizes and the frontier client wait for each other for ever.
* `SearchSucceeded` (`WorkPool`): the assertion at `node.cpp:1602` fails when two
  callers ask for one root (`SharedRoots` of `MCWorkPool` in place of
  `DisjointRoots`): a root that is requested again meets a worker that gave up on
  its first request.
* `receive_all` logs that it is "stopping pending search" (`node.cpp:1161`) and
  does not stop: it looks at the same block for ever. `SearchTurnsInPlace` is this
  exception of `SearchEnds`.
* `SessionConverges` needs one session at a time, but `bootstrap_initiator::bootstrap`
  does not set `in_progress` (`node.cpp:3846`).
* `KeysKept` (`WalletStore`) gives up keys that the code loses: those inserted into
  a locked wallet (`insert` does not look at the lock), moved onto their own
  wallet, or moved into a wallet that has never been given a password.
* With a representative in the node's own wallet, `ConfirmedOnce` fails: the
  node's vote runs in a service thread without the mutex of `conflicts`.

## 5. Proofs

Every theorem is for all values of the constants: any finite universe of blocks and
accounts, any number of threads, voters, packets, roots, sends, wallets, keys and
passwords. The runs of section 3 show the same properties on small instances.

*Assumptions.* For the ledger, `BlockLattice` assumes that the blocks are well formed (an
`open` block of the genesis account, predecessors and sources in the universe)
and that the recursive functions unfold (`WalksUnfold`, `DepthUnfolds`): the
visitors terminate because hashes cannot be cyclic, which no first-order
assumption on the constants expresses without induction. TLC evaluates these
assumptions in every run.

*Sums.* Conservation needs sums over all accounts. `Total` is defined by counting
pairs, so that `TotalUpdate` (changing one value changes the total by the
difference) has a proof without induction over the data.

*The inductive invariant.* `IndInv` (in `LedgerProofs`) is `LedgerInv`, `TypeOK`,
`CallsNested` and that no rollback has met a missing block. `LedgerInv` states
`TablesInv` of the committed tables and of those of the transaction, and
`TablesInv` is `ChainInv` (heads, references, heights, successors),
`PendingInv`, `BalancesNatural` and the two sums `MoneyCounted` and
`WeightCounted`. `CallsNested` orders the stack of rollbacks. No single property of section 3 is
inductive: that undoing a block restores the balance needs
`BalancesMatchChains`; that needs heads to be stored and owned
(`HeadsOwned`, `HeadsIndexed`), that needs successors to be linked
(`SuccessorsLinked`), so that the block undone is the last of its chain; that a
rollback never meets a missing receiver needs `PendingExact`; and that a
nested rollback leaves the chains of the outer calls alone needs the heights
and depths of blocks (`HeightsOrdered`, `DepthsOrdered`): an inner call works
on blocks that are strictly deeper than the block the outer one waits for.

*Steps.* `ExtendsChainInv` and `RetractsChainInv` treat the chains once for all
kinds of block; `PendingPut`, `PendingTake`, `PendingDrop`, `PendingRestore` the
receivables; `MoneyMoves` and `WeightMoves` the sums. From them follow one lemma
per kind of block (`SendKeepsInv`, ..., `UndoSendKeepsInv`, ...), put together in
`ProcessKeepsInv` and `UndoKeepsInv`. `PushNested` and `PopNested` treat the stack
when a rollback recurses and when it undoes a block. `StepKeepsInv` and
`InitKeepsInv` combine all of this.

*Checksum.* `ChecksumFollowsHeads` is an action property. `DriftKept` says that
`change_latest` is right whenever the new head block was no head before;
`ProcessMovesHead` and `UndoMovesHead` show that this is so: a block that is
processed was not stored, and the predecessor of a head block is not a head,
which needs that a head belongs to its own chain (`HeadsOwned`).

*Gap cache.* `CacheType` (a cache within its limit, unique by both indices) and
`HandType` give `TypeOK`; the tables stay consistent by `ProcessKeepsInv`.
`GapsAreOpen` speaks of threads at rest; `ClosedInHand` says what holds while they
are not: whoever stored the block that an entry waits for has yet to look in the
cache. `OrderDoesNotMatter` follows with `AccountedFor`: a block that arrived is
stored, or a thread has it, or the cache has it under one of its references. Its
hypothesis `WithoutRivals` is about the universe of blocks: no forks, no send
above the balance, nothing received by the wrong account; `OnlyGaps` shows that
such a block is refused for a gap only. With forks the property is false, as one
of two rivals is refused; which one wins is up to the election. The run evaluates
`WithoutRivals` on its universe. Assumed is `GapAssumption`.

*Elections.* `WinnerLeads` is about the moments at which nobody counts, so the
invariant has to say what holds in between: `LeadsOrCounts`, the winner leads or
some thread has changed the ballots and has yet to count them. With it go
`NotBegun` (nobody votes before the constructor has) and `StartsOnce`.
`ConfirmedOnce` is proved from `ConfirmInv` with the hypothesis `Local = {}`: it
is false for a node that holds a representative (section 4). Assumed are
`ElectionAssumption` and `VotesAssumption`: finitely many voters and candidates,
natural weights, and that the vote of the constructor, which is nobody's, has
none.

*Service.* `ServiceInv` strengthens `NobodyOversleeps` by `Sane`: the clock
and the times of operations are numbers, and no queued operation has run. `TopExists` says that
a queue that is not empty has an operation that is due first; it rests on the
well-foundedness of the natural numbers. `StepImplements` maps each step to one
of `DelayedOperations` or to none. Of `KeepsPromise` this proves the initial
states and the steps; its fairness stays with TLC. Assumed is
`ServiceAssumption`.

*Send queue.* That the callback of a packet comes once and last is a fact about all
the places in which the packet can be. `InOnePlace`: what is left of its
rebroadcasts is one entry of the queue or one operation of the service, never
both (the front of the queue, once its handler has passed it on, counts no more).
`AddsUp`: the rebroadcasts left there and the sends so far make up the number
that was asked for. With `SendTypeOK`, `OneSender` and `CallbackLast` they are
inductive (`QueueInv`). Assumed is `SendAssumption`.

*Database.* `Counted` says what `open_transactions` counts (nested transactions
twice), `OneResizes` that one thread drains exactly while `resizing` is set, and
`SizeKnown` that the size it has read is still the size. `Room` is the invariant
behind `MapSuffices`: there is room for all that the open transactions and those
before the next look at the size can add. It holds under `Reserve`, the
hypothesis of `MapSuffices`; `ResizesAlone` needs no hypothesis. Assumed is
`MdbAssumption`.

*Work pool.* `ResultsAwaited` is proved with `OwnRoots`: a caller waits for one of
its own roots. What counts the places of a root in the queue (`QueuedAppend`,
`QueuedTail`) is proved from bijections between positions. Assumed are
`WorkPoolAssumption` and, as the hypothesis `RootsDiffer`, that no two callers ask
for one root, without which the property is false (section 4). Nothing has to be known
about the workers: a worker that comes late finds another current root, which
is what the guards of `PublishWork` and `Discard` compare.

*Wallet.* A block is made in one transaction and processed in another one.
`MadeFits` says that in between it still fits the ledger; that needs `SendsOnce`
(a send is asked for and made once) and `QueueShape` (an account performs one
action at a time). `WorkKept` follows the work through `work_update` and a key
that is inserted meanwhile: the root it is for, the height of the account and the
work agree, or somebody is about to store the right one. `SearchPassed` is the
invariant of the search: what it has yet to find comes after the place where it
is, or from the account that it receives from at the moment. `SearchFindsAll`, an
action property, follows. Assumed is `WalletAssumption`.

*Wallet store.* `KeysKept`: a key that was entrusted to a wallet is in some wallet,
encrypted with the right wallet key, and a text opens that wallet. It is
inductive with the types. The theorem assumes `StoreConstants`: the empty text is a
text, no text derives the zero password, and the mark of a missing entry is no
entry. There is no run of this module; `KeysKept` is shown by its proof alone.

*Bootstrap.* Nothing is known of the two ledgers but that they are ledgers, and
`unchecked` and `unsynced` may hold what an earlier, broken session left. The
invariant has two parts. `Control` says in which of five phases a session is
(off, frontiers, pulls, processing, pushes) and what each allows: which request is
on its way, queued behind the callback of the last answer or being served, which
messages the two directions hold and that each answer ends with its end mark. It
holds whatever arrives meanwhile. `Covered` accounts, in a session in which nothing
arrives, for every block that one node lacks; the place in which it is changes with
the phase. While frontiers are compared (`QuietFrontiers`) a missing block belongs
to an account that is still to be compared, or to a pull, or is in `unsynced`. During
the pulls (`QuietPulls`) it is in `unchecked`, in the connection, below the block
that the server sends next (`ToCome`), or its account is still to be pulled. While
they are processed (`QuietProcess`) it is in `unchecked`. During the pushes
(`QuietPush`) it is in `unsynced`, on the stack or in the connection, after all that
it depends on (`InOrder`). Blocks that descend from a fork are excepted where nobody hands them over;
`ForkDisputed` and `HeadsCompared` show that comparing head blocks alone finds every
other difference. At the end of the pushes nothing is left to account for, which is
`SessionConverges`; `PushedInOrder` is `InOrder` of the first message;
`PulledIsKept` is proved with the step of `process_end` (`ProcessOneStep`): the stack
holds each block above those that depend on it (`Linked`), so that a block comes off
the stack when the ledger has its dependencies. Assumed are `BootstrapAssumption`
(finitely many blocks, chains of one account) and that the recursive functions
unfold on chains without cycles (`ChainUnfolds`, `DownUnfolds`, `FillUnfolds`,
`RepublishedUnfolds`).

The theorems (the induction over each specification is a theorem of its own:
`Invariance`, `EnvInvariance`, `QueueInvariance`, `SessionInvariant`):

| module | theorem | property |
|---|---|---|
| `TableProofs` | `TotalUpdate` | one value changes a total by the difference |
| `LedgerProofs` | `TypeCorrect` | `TypeOK`, `LedgerInv` |
| | `MoneyConserved`, `WeightsConserved` | `SupplyConserved`, `WeightConserved` |
| | `TablesAgree` | `FrontiersAreHeads`, `PendingExact`, `Closed` |
| | `BalancesTrue` | `BalancesMatchChains` |
| | `NoForkStored`, `ForksHaveRivals` | `ChainsDoNotFork`, `ForkHasRival` |
| | `RollbackSafe`, `CallsStayNested` | `RollbackFindsTarget`, `CallsNested` |
| | `ChecksumInStep` | `ChecksumFollowsHeads` |
| `GapProofs` | `CacheSound`, `GapsStayOpen` | `TypeOK` of `GapCache`, `GapsAreOpen` |
| | `OrderIsIrrelevant` | `OrderDoesNotMatter` |
| `NodeProofs` | `NobodyOversleepsEver` | `NobodyOversleeps` |
| | `ServiceImplements` | the steps of `KeepsPromise` |
| | `AssertionsHold`, `OneSenderEver`, `CallbackAfterLast` | `SendTypeOK`, `OneSender`, `CallbackLast` |
| | `NothingRefused`, `WorkIsReady` | `OwnBlocksAccepted`, `WorkReady` |
| | `SearchIsComplete` | `SearchFindsAll` |
| | `KeysAreKept` | `KeysKept` of `WalletStore` |
| `ThreadProofs` | `MapLargeEnough`, `ResizedAlone` | `MapSuffices`, `ResizesAlone` |
| | `TransactionsCounted` | `EnvTypeOK` |
| | `OneResultEach` | `ResultsAwaited` |
| | `WinnerAlwaysLeads`, `ConfirmedOnlyOnce` | `WinnerLeads`, `ConfirmedOnce` |
| `BootstrapProofs` | `SessionInvariant` | `IndInv` of `BootstrapFacts` |
| | `SessionsConverge`, `PushesInOrder` | `SessionConverges`, `PushedInOrder` |
| | `PullsAreKept` | `PulledIsKept` |

*Only model-checked:*

* everything under fairness (`RollbackEnds`, `ElectionEnds`, `LoopEnds`,
  `GenerateReturns`, `WorkersExit`, `RunnersExit`, `EverythingSent`,
  `TransactionOpens`, `EverythingDone`, `SearchEnds`, `SessionEnds`, and the fairness of `KeepsPromise`): the prover does not do
  liveness;
* that the recursive functions of `BlockLattice` and `Bootstrap` unfold, which
  would be an induction over data: the proofs assume it, and the runs evaluate it
  on their universes.

## 6. Plan

1. Composition: the send queue over `DelayedOperations` in place of its own
   account of the service.
2. Two sessions of `Bootstrap` at a time, with an exact statement of what they
   still promise.

## 7. Not modelled

* **RPC server, Qt wallet, command line programs** translate requests into calls
  of the modelled parts.
* **Encodings and cryptography**: the formats of messages, blocks, accounts and
  numbers, hashing and signatures are functions without state. A block is
  identified with its hash, and a signature is valid or not.
* **Network and message parser**: socket and parsing errors only drop messages,
  and the modules take any delivery.
* **Peers**: a table of endpoints and times. The other parts rely on no more than
  that it returns some peers.
* **Bootstrap initiator**: when and with whom to bootstrap. `gap_cache::vote`, which
  only asks it for an attempt, is left out with it.
* **Landing**: arithmetic on the clock and a file with the time of the last
  distribution; it acts through `send_sync`, which is modelled.
* **Wallets**: the destruction of a wallet that is acting, the representative of a
  wallet as a stored value, and the handles of the database.
* **LMDB**: its transactions are taken as atomic and isolated.
* **`paper_trail/`** is not built.
