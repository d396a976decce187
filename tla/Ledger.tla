------------------------------- MODULE Ledger -------------------------------
(***************************************************************************)
(* The transactions of paper::ledger (paper/secure.cpp): ledger::process,  *)
(* ledger::rollback with the visitor it calls, and the reopening of the    *)
(* store after a stop or a crash.                                          *)
(*                                                                         *)
(* `store' is what is committed; `txn' is what the one write transaction   *)
(* sees.  A process call is one atomic transaction.  A rollback is a       *)
(* transaction of many steps, one per block undone, during which the       *)
(* process may die.                                                        *)
(***************************************************************************)
EXTENDS TableInvariants, Sequences

VARIABLES
    store,     \* the committed tables
    txn,       \* the tables as the open write transaction sees them
    targets,   \* arguments of the rollback calls in progress, innermost last
    failed     \* the assertion that stopped the process, or "none"

vars == <<store, txn, targets, failed>>

-----------------------------------------------------------------------------
(* The transactions.                                                       *)

Running == failed = "none"
Idle == Running /\ targets = <<>> /\ txn = store

Init ==
    /\ store = GenesisTables
    /\ txn = store
    /\ targets = <<>>
    /\ failed = "none"

(* ledger::process in a transaction of its own.                            *)
Process(h, signer) ==
    /\ Idle
    /\ ProcessResult(txn, h, signer) = "progress"
    /\ ProcessFailure(txn, h) = "none"
    /\ txn' = Processed(txn, h)
    /\ store' = txn'
    /\ UNCHANGED <<targets, failed>>

(* The same, stopped by an assertion before anything is committed.         *)
ProcessAsserts(h, signer) ==
    /\ Idle
    /\ ProcessResult(txn, h, signer) = "progress"
    /\ ProcessFailure(txn, h) # "none"
    /\ failed' = ProcessFailure(txn, h)
    /\ UNCHANGED <<store, txn, targets>>

(* ledger::rollback is called on a stored block.                           *)
Rollback(h) ==
    /\ Idle
    /\ h \in store.blocks \ {GenesisHash}
    /\ targets' = <<h>>
    /\ UNCHANGED <<store, txn, failed>>

(* The argument of the innermost rollback call, and the head block of the  *)
(* chain that this call works on.                                          *)
Target == targets[Len(targets)]

Latest(s) == HeadOf(s, Target)

RollingBack == Running /\ targets # <<>>

(* Mutant: the nested call is for the block that receives, not for the     *)
(* head of the receiver's chain.                                           *)
RollbackReceiverBlock ==
    /\ RollingBack
    /\ Latest(txn) # NoHash
    /\ Received(txn, Latest(txn))
    /\ AccountExists(txn, Block[Latest(txn)].destination)
    /\ \E h \in txn.blocks \ {GenesisHash} :
          /\ Receives(h) /\ Block[h].source = Latest(txn)
          /\ targets' = Append(targets, h)
    /\ UNCHANGED <<store, txn, failed>>

RollbackReceiver ==
    /\ RollingBack
    /\ Latest(txn) # NoHash
    /\ Received(txn, Latest(txn))
    /\ AccountExists(txn, Block[Latest(txn)].destination)
    /\ targets' = Append(targets, txn.accounts[Block[Latest(txn)].destination].head)
    /\ UNCHANGED <<store, txn, failed>>

(* Mutant: the loop does not notice that it undid its argument.            *)
RollbackHeadGoesOn ==
    /\ RollingBack
    /\ Latest(txn) # NoHash
    /\ ~Received(txn, Latest(txn))
    /\ UndoFailure(txn, Latest(txn)) = "none"
    /\ txn' = Undone(txn, Latest(txn))
    /\ UNCHANGED <<store, targets, failed>>

(* One turn of the loop in ledger::rollback, which ends the call when the  *)
(* block undone is its argument.                                           *)
RollbackHead ==
    /\ RollingBack
    /\ Latest(txn) # NoHash
    /\ ~Received(txn, Latest(txn))
    /\ UndoFailure(txn, Latest(txn)) = "none"
    /\ txn' = Undone(txn, Latest(txn))
    /\ targets' = IF Latest(txn) = Target THEN SubSeq(targets, 1, Len(targets) - 1) ELSE targets
    /\ UNCHANGED <<store, failed>>

(* The assertions on the way: the account has a latest block, the receiver *)
(* of a received send has one, and those of move_representation.           *)
RollbackFailure ==
    IF Latest(txn) = NoHash THEN "latest_error"
    ELSE IF ~Received(txn, Latest(txn)) THEN UndoFailure(txn, Latest(txn))
    ELSE IF AccountExists(txn, Block[Latest(txn)].destination) THEN "none" ELSE "block"

RollbackAsserts ==
    /\ RollingBack
    /\ RollbackFailure # "none"
    /\ failed' = RollbackFailure
    /\ UNCHANGED <<store, txn, targets>>

RolledBack == Running /\ targets = <<>> /\ txn # store

(* The end of the transaction of election::vote: the block that replaces   *)
(* the one rolled back is processed, whatever the verdict, and the         *)
(* transaction commits.                                                    *)
Commit(winner, signer) ==
    LET progress == ProcessResult(txn, winner, signer) = "progress"
    IN /\ RolledBack
       /\ progress => ProcessFailure(txn, winner) = "none"
       /\ txn' = IF progress THEN Processed(txn, winner) ELSE txn
       /\ store' = txn'
       /\ UNCHANGED <<targets, failed>>

CommitAsserts(winner, signer) ==
    /\ RolledBack
    /\ ProcessResult(txn, winner, signer) = "progress"
    /\ ProcessFailure(txn, winner) # "none"
    /\ failed' = ProcessFailure(txn, winner)
    /\ UNCHANGED <<store, txn, targets>>

(* The process stops or dies, at any moment, and the store is opened again *)
(* (block_store::block_store).  An uncommitted transaction is lost.        *)
Reopen ==
    /\ store' = [store EXCEPT !.checksum = {}]
    /\ txn' = store'
    /\ targets' = <<>>
    /\ failed' = "none"

Next ==
    \/ \E h \in Hash, signer \in Account : Process(h, signer) \/ ProcessAsserts(h, signer)
    \/ \E h \in Hash : Rollback(h)
    \/ RollbackReceiver \/ RollbackHead \/ RollbackAsserts
    \/ \E h \in Hash, signer \in Account : Commit(h, signer) \/ CommitAsserts(h, signer)
    \/ Reopen

(* A rollback runs in one thread with nothing to wait for, so it keeps     *)
(* taking steps as long as the process runs.                               *)
Fairness ==
    WF_vars(RollbackReceiver \/ RollbackHead \/ RollbackAsserts)

Spec == Init /\ [][Next]_vars /\ Fairness

-----------------------------------------------------------------------------
(* Properties.                                                             *)

(* The order of the arguments of rollback calls in progress.              *)
Nested(s, calls) ==
    /\ \A i \in 1..Len(calls) : calls[i] \in s.blocks \ {GenesisHash}
    /\ \A i \in 2..Len(calls) : HeadOf(s, calls[i]) = calls[i]
    /\ \A i, j \in 1..Len(calls) :
          i < j => Depth[HeadOf(s, calls[i])] < Depth[HeadOf(s, calls[j])]
    /\ \A i \in 1..(Len(calls) - 1) :
          /\ Received(s, HeadOf(s, calls[i]))
          /\ Block[HeadOf(s, calls[i])].destination = AccountOf[calls[i + 1]]

(* The tables are consistent before, during and after every transaction:   *)
(* no step of ledger::process or ledger::rollback breaks a part of the     *)
(* invariant that the others rely on.                                      *)
LedgerInv == TablesInv(store) /\ TablesInv(txn)

(* Every table holds values of its type, the genesis block is stored, an   *)
(* account without a head block is absent as a whole, and rollback calls   *)
(* are on blocks.                                                          *)
TypeOK ==
    /\ TablesOK(store) /\ TablesOK(txn)
    /\ targets \in Seq(Hash)
    /\ failed \in {"none", "source_block", "destination_block", "source_previous",
                   "latest_error", "block"}

(* No operation makes or destroys money: what the accounts hold and what   *)
(* is on its way between them is always the genesis amount, also after     *)
(* each step of a rollback (ledger_processor, rollback_visitor).           *)
SupplyConserved == MoneyCounted(store) /\ MoneyCounted(txn)

(* move_representation neither makes nor destroys voting weight: as long   *)
(* as its assertions hold the weights sum up to the genesis amount.        *)
WeightConserved == WeightCounted(store) /\ WeightCounted(txn)

(* The frontiers table is the inverse of the head blocks of the accounts   *)
(* table, which ledger_processor asserts before it extends a chain.        *)
FrontiersAreHeads == HeadsIndexed(store) /\ HeadsIndexed(txn)

(* The cached balance of an account is what balance_visitor computes from  *)
(* its chain, and the chain is the account's own.                          *)
BalancesMatchChains == HeadsOwned(store) /\ HeadsOwned(txn)

(* A send is pending, with the sender, amount and destination its chain    *)
(* gives it, exactly while no stored block receives it, and no two stored  *)
(* blocks receive the same send (pending_put and pending_del).             *)
PendingExact == PendingInv(store) /\ PendingInv(txn)

(* Everything a stored block refers to is stored, its predecessor is in    *)
(* the same chain and the send it receives was made to its account, so     *)
(* that the visitors never meet a missing block (their assertions          *)
(* block != nullptr), also halfway through a rollback.                     *)
Closed == ReferencesStored(store) /\ ReferencesStored(txn)

(* The chains do not fork: of the blocks with one root the store holds at  *)
(* most one, and a block that is not a head has a stored successor, to     *)
(* which its trailer leads (the assertions of ledger::successor).          *)
ChainsDoNotFork ==
    \A s \in {store, txn} :
        /\ \A h, i \in s.blocks : Root(h) = Root(i) => h = i
        /\ \A h \in s.blocks : s.frontiers[h] = NoAccount =>
              s.successor[h] \in s.blocks /\ Follows(s.successor[h], h)

(* A block is refused as a fork only if the store holds another block with *)
(* the same root, which is what process_receive starts an election about.  *)
(* A receive block counts when its predecessor is a block of its account.  *)
ForkHasRival ==
    \A h \in Hash, signer \in Account :
        /\ ProcessResult(txn, h, signer) = "fork"
        /\ IsReceive(h) => AccountOf[Block[h].previous] = AccountOf[h]
        => \E g \in txn.blocks \ {h} : Root(g) = Root(h)

(* rollback finds what it was called for: while calls are in progress      *)
(* every argument is still stored, the arguments differ, and none of the   *)
(* assertions on missing blocks or accounts in ledger::rollback fails.     *)
RollbackFindsTarget ==
    /\ \A i \in 1..Len(targets) : targets[i] \in txn.blocks \ {GenesisHash}
    /\ \A i, j \in 1..Len(targets) : targets[i] = targets[j] => i = j
    /\ failed \notin {"latest_error", "block"}

(* The rollback calls in progress.  The argument of each nested call is    *)
(* the head of a chain, into which the head of the chain of the call       *)
(* before it was sent and received, so that the chains that the calls work *)
(* on are all different (the recursion in rollback_visitor::send_block).   *)
CallsNested == Nested(txn, targets)

(* change_latest keeps the checksum in step with the head blocks: only the *)
(* opening of the store changes by how much the two differ.                *)
ChecksumFollowsHeads ==
    [][Reopen \/ ChecksumDrift(txn') = ChecksumDrift(txn)]_vars

(* A rollback that is not interrupted undoes its target or is stopped by   *)
(* an assertion; nested calls do not go on for ever.                       *)
RollbackEnds == targets # <<>> ~> (targets = <<>> \/ ~Running)

-----------------------------------------------------------------------------
(* What comments, assertions and tests say and the code does not do.       *)

(* assert (source_previous >= amount_a) in move_representation: the weight *)
(* that a transfer takes away is there to be taken.                        *)
WeightIsThere == failed # "source_previous"

(* The accounts table maps an account to its representative: rep_block is  *)
(* the block of the account's chain that representative_visitor finds.     *)
RepBlockOfChain ==
    \A a \in Account : AccountExists(store, a) =>
        store.accounts[a].rep_block = RepBlockOf[store.accounts[a].head]

(* The checksum is the same when the ledger is reloaded.                   *)
ChecksumPersists == ChecksumDrift(store) = {}

(* rollback ends when its argument is the frontier of its account.         *)
RollbackStopsAtTarget ==
    [][RollbackHead /\ Len(targets') < Len(targets)
        => txn'.accounts[AccountOf[Target]].head = Target]_vars
=============================================================================
