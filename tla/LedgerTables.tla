---------------------------- MODULE LedgerTables ----------------------------
(***************************************************************************)
(* The tables of paper::block_store and what paper::ledger does to them    *)
(* (paper/secure.cpp): the verdict and the effect of ledger_processor on a *)
(* block, and what rollback_visitor does to the head block of a chain.     *)
(*                                                                         *)
(* A value of Tables is the content of the LMDB tables.  Everything here   *)
(* is a function of such a value; the modules that use it say which        *)
(* transactions are run on it.                                             *)
(***************************************************************************)
EXTENDS BlockLattice

(* The tables.                                                             *)

Info == [head : Hash \cup {NoHash}, rep_block : Hash \cup {NoHash}, balance : Nat]
NoInfo == [head |-> NoHash, rep_block |-> NoHash, balance |-> 0]

Receivable == [source : Account, amount : Nat, destination : Account]
NoReceivable == [source |-> NoAccount, amount |-> 0, destination |-> NoAccount]

Tables ==
    [blocks : SUBSET Hash,                                 \* keys of the four block tables
     successor : [Hash -> Hash \cup {NoHash}],             \* trailer of each stored block
     accounts : [Account -> Info],
     frontiers : [Hash -> Account \cup {NoAccount}],
     pending : [Hash -> Receivable \cup {NoReceivable}],
     representation : [Account -> Nat],
     checksum : SUBSET Hash]        \* the hashes that an XOR checksum contains

AccountExists(s, a) == s.accounts[a].head # NoHash
PendingExists(s, h) == s.pending[h] # NoReceivable

(* genesis::initialize *)
GenesisTables ==
    [blocks |-> {GenesisHash},
     successor |-> [h \in Hash |-> NoHash],
     accounts |-> [a \in Account |->
         IF a = GenesisAccount
         THEN [head |-> GenesisHash, rep_block |-> GenesisHash, balance |-> GenesisAmount]
         ELSE NoInfo],
     frontiers |-> [h \in Hash |-> IF h = GenesisHash THEN GenesisAccount ELSE NoAccount],
     pending |-> [h \in Hash |-> NoReceivable],
     representation |-> [a \in Account |-> IF a = GenesisAccount THEN GenesisAmount ELSE 0],
     checksum |-> {GenesisHash}]

(* Mutant: the trailer of the predecessor is written only while empty.      *)
SuccessorPutOnce(s, h) ==
    LET stored == [s.successor EXCEPT ![h] = NoHash]
    IN IF IsOpen(h) \/ stored[Block[h].previous] # NoHash THEN stored
       ELSE [stored EXCEPT ![Block[h].previous] = h]

(* block_put, which stores the block with an empty trailer and writes its  *)
(* hash into the trailer of its predecessor.                               *)
SuccessorPut(s, h) ==
    LET stored == [s.successor EXCEPT ![h] = NoHash]
    IN IF IsOpen(h) THEN stored ELSE [stored EXCEPT ![Block[h].previous] = h]

(* block_del, which removes the entry with its trailer and does not touch  *)
(* the trailer of the predecessor.                                         *)
SuccessorDel(s, h) == [s.successor EXCEPT ![h] = NoHash]

(* checksum_update *)
Toggle(set, h) == IF h \in set THEN set \ {h} ELSE set \cup {h}

(* change_latest: its two effects.  A zero hash deletes the account.       *)
LatestPut(s, a, h, rep_block, balance) ==
    [s.accounts EXCEPT ![a] =
        IF h = NoHash THEN NoInfo
        ELSE [head |-> h, rep_block |-> rep_block, balance |-> balance]]

(* Mutant: the old head block stays in the checksum.                       *)
ChecksumPutKeepsOld(s, a, h) == IF h = NoHash THEN s.checksum ELSE Toggle(s.checksum, h)

ChecksumPut(s, a, h) ==
    LET cleared == IF AccountExists(s, a) THEN Toggle(s.checksum, s.accounts[a].head)
                   ELSE s.checksum
    IN IF h = NoHash THEN cleared ELSE Toggle(cleared, h)

(* frontier_del and frontier_put of one operation.  A chain that is opened *)
(* has no frontier to delete, one that is removed has none to put.         *)
FrontierMove(s, old, new, a) ==
    [h \in Hash |-> IF h = new THEN a ELSE IF h = old THEN NoAccount ELSE s.frontiers[h]]

(* move_representation: the assertion it fails, if any, and its effect.    *)
MoveFailure(s, from, to, amount) ==
    IF from \notin s.blocks THEN "source_block"
    ELSE IF to \notin s.blocks THEN "destination_block"
    ELSE IF s.representation[Block[from].representative] < amount THEN "source_previous"
    ELSE "none"

(* Mutant: the weight of the destination is read before the source is      *)
(* written.                                                                *)
MoveStale(s, from, to, amount) ==
    [s.representation EXCEPT ![Block[from].representative] = @ - amount,
        ![Block[to].representative] = s.representation[Block[to].representative] + amount]

Move(s, from, to, amount) ==
    LET taken == [s.representation EXCEPT ![Block[from].representative] = @ - amount]
    IN [taken EXCEPT ![Block[to].representative] = @ + amount]

-----------------------------------------------------------------------------
(* ledger_processor: the verdict on a block that carries the signature of  *)
(* `signer'.  Every verdict but "progress" leaves the tables alone.        *)

(* Mutant: the balance of a send is not compared with the account's.       *)
SendResultNoOverspend(s, h, signer) ==
    LET p == Block[h].previous
    IN IF h \in s.blocks THEN "old"
       ELSE IF p \notin s.blocks THEN "gap_previous"
       ELSE IF s.frontiers[p] = NoAccount THEN "fork"
       ELSE IF signer # s.frontiers[p] THEN "bad_signature" ELSE "progress"

(* Mutant: a send block that does not follow the latest block is a fork    *)
(* even when its predecessor is unknown.                                   *)
SendResultGapIsFork(s, h, signer) ==
    LET p == Block[h].previous
        a == s.frontiers[p]
    IN IF h \in s.blocks THEN "old"
       ELSE IF a = NoAccount THEN "fork"
       ELSE IF signer # a THEN "bad_signature"
       ELSE IF s.accounts[a].balance < Block[h].balance THEN "overspend"
       ELSE "progress"

SendResult(s, h, signer) ==
    LET p == Block[h].previous
        a == s.frontiers[p]
    IN IF h \in s.blocks THEN "old"
       ELSE IF p \notin s.blocks THEN "gap_previous"
       ELSE IF a = NoAccount THEN "fork"
       ELSE IF signer # a THEN "bad_signature"
       ELSE IF s.accounts[a].balance < Block[h].balance THEN "overspend"
       ELSE "progress"

ChangeResult(s, h, signer) ==
    LET p == Block[h].previous
        a == s.frontiers[p]
    IN IF h \in s.blocks THEN "old"
       ELSE IF p \notin s.blocks THEN "gap_previous"
       ELSE IF a = NoAccount THEN "fork"
       ELSE IF signer # a THEN "bad_signature"
       ELSE "progress"

ReceiveResult(s, h, signer) ==
    LET p == Block[h].previous
        r == s.pending[Block[h].source]
    IN IF h \in s.blocks THEN "old"
       ELSE IF Block[h].source \notin s.blocks THEN "gap_source"
       ELSE IF r = NoReceivable THEN "unreceivable"
       ELSE IF signer # r.destination THEN "bad_signature"
       ELSE IF ~AccountExists(s, r.destination) THEN "gap_previous"
       ELSE IF s.accounts[r.destination].head = p THEN "progress"
       ELSE IF p \in s.blocks THEN "fork" ELSE "gap_previous"

OpenResult(s, h, signer) ==
    LET r == s.pending[Block[h].source]
    IN IF h \in s.blocks THEN "old"
       ELSE IF Block[h].source \notin s.blocks THEN "gap_source"
       ELSE IF r = NoReceivable THEN "unreceivable"
       ELSE IF r.destination # Block[h].account THEN "account_mismatch"
       ELSE IF signer # r.destination THEN "bad_signature"
       ELSE IF AccountExists(s, r.destination) THEN "fork"
       ELSE "progress"

ProcessResult(s, h, signer) ==
    CASE IsSend(h) -> SendResult(s, h, signer)
      [] IsReceive(h) -> ReceiveResult(s, h, signer)
      [] IsOpen(h) -> OpenResult(s, h, signer)
      [] IsChange(h) -> ChangeResult(s, h, signer)

(* What "progress" does to the tables.                                     *)

SendBlockEffect(s, h) ==
    LET p == Block[h].previous
        a == s.frontiers[p]
        info == s.accounts[a]
    IN [blocks |-> s.blocks \cup {h},
        successor |-> SuccessorPut(s, h),
        accounts |-> LatestPut(s, a, h, info.rep_block, Block[h].balance),
        frontiers |-> FrontierMove(s, p, h, a),
        pending |-> [s.pending EXCEPT ![h] =
            [source |-> a, amount |-> info.balance - Block[h].balance,
             destination |-> Block[h].destination]],
        representation |-> s.representation,
        checksum |-> ChecksumPut(s, a, h)]

ChangeBlockEffect(s, h) ==
    LET p == Block[h].previous
        a == s.frontiers[p]
        info == s.accounts[a]
    IN [blocks |-> s.blocks \cup {h},
        successor |-> SuccessorPut(s, h),
        accounts |-> LatestPut(s, a, h, h, info.balance),
        frontiers |-> FrontierMove(s, p, h, a),
        pending |-> s.pending,
        representation |-> Move(s, info.rep_block, h, BalanceOf[p]),
        checksum |-> ChecksumPut(s, a, h)]

ReceiveBlockEffect(s, h) ==
    LET p == Block[h].previous
        r == s.pending[Block[h].source]
        a == r.destination
        info == s.accounts[a]
    IN [blocks |-> s.blocks \cup {h},
        successor |-> SuccessorPut(s, h),
        accounts |-> LatestPut(s, a, h, info.rep_block, info.balance + r.amount),
        frontiers |-> FrontierMove(s, p, h, a),
        pending |-> [s.pending EXCEPT ![Block[h].source] = NoReceivable],
        representation |-> Move(s, s.accounts[r.source].rep_block, info.rep_block, r.amount),
        checksum |-> ChecksumPut(s, a, h)]

OpenBlockEffect(s, h) ==
    LET r == s.pending[Block[h].source]
        a == r.destination
    IN [blocks |-> s.blocks \cup {h},
        successor |-> SuccessorPut(s, h),
        accounts |-> LatestPut(s, a, h, h, r.amount),
        frontiers |-> FrontierMove(s, NoHash, h, a),
        pending |-> [s.pending EXCEPT ![Block[h].source] = NoReceivable],
        representation |-> Move(s, s.accounts[r.source].rep_block, h, r.amount),
        checksum |-> ChecksumPut(s, a, h)]

Processed(s, h) ==
    CASE IsSend(h) -> SendBlockEffect(s, h)
      [] IsReceive(h) -> ReceiveBlockEffect(s, h)
      [] IsOpen(h) -> OpenBlockEffect(s, h)
      [] IsChange(h) -> ChangeBlockEffect(s, h)

(* The assertion of move_representation that "progress" runs into.  The    *)
(* block itself is already stored when it is called.                       *)
ProcessFailure(s, h) ==
    LET stored == [s EXCEPT !.blocks = @ \cup {h}]
        r == s.pending[Block[h].source]
        sender == s.accounts[r.source].rep_block
        a == s.frontiers[Block[h].previous]
    IN CASE IsSend(h) -> "none"
         [] IsReceive(h) -> MoveFailure(stored, sender, s.accounts[r.destination].rep_block, r.amount)
         [] IsOpen(h) -> MoveFailure(stored, sender, h, r.amount)
         [] IsChange(h) -> MoveFailure(stored, s.accounts[a].rep_block, h, BalanceOf[Block[h].previous])

-----------------------------------------------------------------------------
(* rollback_visitor: what undoing the head block h of a chain does.        *)

(* Mutant: the account keeps the balance the undone send left it.          *)
UndoSendKeepsBalance(s, h) ==
    LET p == Block[h].previous
        a == s.pending[h].source
    IN [s EXCEPT !.blocks = @ \ {h},
        !.successor = SuccessorDel(s, h),
        !.accounts = LatestPut(s, a, p, s.accounts[a].rep_block, s.accounts[a].balance),
        !.frontiers = FrontierMove(s, h, p, a),
        !.pending = [s.pending EXCEPT ![h] = NoReceivable],
        !.checksum = ChecksumPut(s, a, p)]

UndoSendBlock(s, h) ==
    LET p == Block[h].previous
        a == s.pending[h].source
    IN [blocks |-> s.blocks \ {h},
        successor |-> SuccessorDel(s, h),
        accounts |-> LatestPut(s, a, p, s.accounts[a].rep_block, BalanceOf[p]),
        frontiers |-> FrontierMove(s, h, p, a),
        pending |-> [s.pending EXCEPT ![h] = NoReceivable],
        representation |-> s.representation,
        checksum |-> ChecksumPut(s, a, p)]

(* Mutant: sender and receiver are swapped.                                *)
RestoredSwapped(h) ==
    LET source == Block[h].source
    IN [source |-> AccountOf[h], amount |-> AmountOf(source), destination |-> AccountOf[source]]

(* The receivable that is put back when a receive or open block is undone. *)
Restored(h) ==
    LET source == Block[h].source
    IN [source |-> AccountOf[source], amount |-> AmountOf(source), destination |-> AccountOf[h]]

(* Mutant: the visitor does not handle receive blocks.                     *)
UndoReceiveNothing(s, h) == s

(* Mutant: undoing a receive block does not give the money back.           *)
UndoReceiveKeepsMoney(s, h) ==
    LET p == Block[h].previous
        source == Block[h].source
        a == AccountOf[h]
    IN [s EXCEPT !.blocks = @ \ {h},
        !.successor = SuccessorDel(s, h),
        !.accounts = LatestPut(s, a, p, RepBlockOf[source], s.accounts[a].balance),
        !.frontiers = FrontierMove(s, h, p, a),
        !.representation = Move(s, RepBlockOf[h], RepBlockOf[source], AmountOf(source)),
        !.checksum = ChecksumPut(s, a, p)]

UndoReceiveBlock(s, h) ==
    LET p == Block[h].previous
        source == Block[h].source
        a == AccountOf[h]
    IN [blocks |-> s.blocks \ {h},
        successor |-> SuccessorDel(s, h),
        accounts |-> LatestPut(s, a, p, RepBlockOf[source], BalanceOf[p]),
        frontiers |-> FrontierMove(s, h, p, a),
        pending |-> [s.pending EXCEPT ![source] = Restored(h)],
        representation |-> Move(s, RepBlockOf[h], RepBlockOf[source], AmountOf(source)),
        checksum |-> ChecksumPut(s, a, p)]

UndoOpenBlock(s, h) ==
    LET source == Block[h].source
        a == AccountOf[h]
    IN [blocks |-> s.blocks \ {h},
        successor |-> SuccessorDel(s, h),
        accounts |-> LatestPut(s, a, NoHash, RepBlockOf[source], 0),
        frontiers |-> FrontierMove(s, h, NoHash, NoAccount),
        pending |-> [s.pending EXCEPT ![source] = Restored(h)],
        representation |-> Move(s, RepBlockOf[h], RepBlockOf[source], AmountOf(source)),
        checksum |-> ChecksumPut(s, a, NoHash)]

UndoChangeBlock(s, h) ==
    LET p == Block[h].previous
        a == AccountOf[p]
    IN [blocks |-> s.blocks \ {h},
        successor |-> SuccessorDel(s, h),
        accounts |-> LatestPut(s, a, p, RepBlockOf[p], s.accounts[a].balance),
        frontiers |-> FrontierMove(s, h, p, a),
        pending |-> s.pending,
        representation |-> Move(s, h, RepBlockOf[p], BalanceOf[p]),
        checksum |-> ChecksumPut(s, a, p)]

Undone(s, h) ==
    CASE IsSend(h) -> UndoSendBlock(s, h)
      [] IsReceive(h) -> UndoReceiveBlock(s, h)
      [] IsOpen(h) -> UndoOpenBlock(s, h)
      [] IsChange(h) -> UndoChangeBlock(s, h)

(* The assertion of the visitors that undoing h runs into.  The source of  *)
(* the genesis block is no block, so that block cannot be undone.          *)
UndoFailure(s, h) ==
    CASE IsSend(h) -> "none"
      [] h = GenesisHash -> "block"
      [] Receives(h) /\ h # GenesisHash -> MoveFailure(s, RepBlockOf[h], RepBlockOf[Block[h].source], AmountOf(Block[h].source))
      [] IsChange(h) -> MoveFailure(s, h, RepBlockOf[Block[h].previous], BalanceOf[Block[h].previous])

(* ledger::latest of the account of a block: the head of its chain.        *)
HeadOf(s, h) == s.accounts[AccountOf[h]].head

(* A send whose amount was received cannot be undone before the receiving  *)
(* chain is: rollback_visitor calls rollback on its latest block.          *)
Received(s, h) == IsSend(h) /\ ~PendingExists(s, h)
=============================================================================
