---------------------------- MODULE LedgerProofs ----------------------------
(***************************************************************************)
(* The inductive invariant of module Ledger and the theorems about it, for *)
(* every universe of blocks. rollback_visitor keeps the tables consistent  *)
(* when it undoes the head block of a chain, one lemma per type of block.  *)
(***************************************************************************)
EXTENDS Ledger, TableProofs

-----------------------------------------------------------------------------
(* The undoing of a head block keeps the tables consistent: one lemma per  *)
(* type of block (rollback_visitor).                                       *)

(* The send that a stored block receives.                                  *)
LEMMA SourceFacts ==
    ASSUME NEW s, TablesInv(s), NEW h \in s.blocks, Receives(h), h # GenesisHash
    PROVE  /\ Block[h].source \in Hash /\ Block[h].source \in s.blocks
           /\ IsSend(Block[h].source) /\ AmountOf(Block[h].source) \in Nat
           /\ AccountOf[h] = Block[Block[h].source].destination
           /\ AccountOf[Block[h].source] \in Account
           /\ s.pending[Block[h].source].amount = 0
<1>1. /\ ReferencesStored(s) /\ AmountsNatural(s) /\ PendingSound(s) /\ s.blocks \subseteq Hash
  BY InvFacts DEF ChainInv, PendingInv
<1>2. /\ Block[h].source \in s.blocks /\ IsSend(Block[h].source)
      /\ AccountOf[h] = Block[Block[h].source].destination
  BY <1>1 DEF ReferencesStored
<1>3. AmountOf(Block[h].source) \in Nat
  BY <1>1, <1>2 DEF AmountsNatural
<1>4. AccountOf[Block[h].source] \in Account
  BY <1>2, SenderFacts
<1>5. s.pending[Block[h].source] = NoReceivable
  <2>1. IsReceiverOf(h, Block[h].source)
    BY DEF IsReceiverOf
  <2> QED
    BY <1>1, <1>2, <2>1, Zenon DEF PendingSound, PendingExists
<1>6. s.pending[Block[h].source].amount = 0
  BY <1>5 DEF NoReceivable
<1> QED
  BY <1>1, <1>2, <1>3, <1>4, <1>6

(* Nothing receives a block that is not a send.                            *)
LEMMA NotReceived ==
    ASSUME NEW s, TablesInv(s), NEW h \in Hash, ~IsSend(h)
    PROVE  \A i \in s.blocks : ~(Receives(i) /\ i # GenesisHash /\ Block[i].source = h)
<1>1. ReferencesStored(s)
  BY InvFacts DEF ChainInv
<1> QED
  BY <1>1 DEF ReferencesStored

(* rollback_visitor::send_block, called when the send is still pending,    *)
(* keeps the tables consistent.                                            *)
LEMMA UndoSendKeepsInv ==
    ASSUME NEW s, TablesInv(s), NEW h \in Hash, IsSend(h), ~Received(s, h),
           NEW a \in Account, s.accounts[a].head = h
    PROVE  TablesInv(UndoSendBlock(s, h))
<1> DEFINE p == Block[h].previous
           rep == s.accounts[a].rep_block
           i == [head |-> p, rep_block |-> rep, balance |-> BalanceOf[p]]
           t == UndoSendBlock(s, h)
<1>1. /\ h \in s.blocks /\ AccountOf[h] = a /\ s.accounts[a].balance = BalanceOf[h]
      /\ rep \in Hash /\ Represents(rep)
  BY HeadFacts
<1>2. ~IsOpen(h) /\ Block[h].balance \in Nat /\ h # GenesisHash
  BY SendKind, Zenon
<1>3. /\ p \in Hash /\ p \in s.blocks /\ p # NoHash /\ BalanceOf[p] \in Nat
  BY <1>1, <1>2, PreviousFacts, Numbers
<1>4. s.pending[h] # NoReceivable
  BY DEF Received, PendingExists
<1>5. s.pending[h].source = a /\ s.pending[h].amount = AmountOf(h)
  BY <1>1, <1>4, ReceivableFacts
<1>6. t = [blocks |-> s.blocks \ {h}, successor |-> SuccessorDel(s, h),
           accounts |-> [s.accounts EXCEPT ![a] = i],
           frontiers |-> FrontierMove(s, h, p, a),
           pending |-> [s.pending EXCEPT ![h] = NoReceivable],
           representation |-> s.representation, checksum |-> ChecksumPut(s, a, p)]
  BY <1>3, <1>5 DEF UndoSendBlock, LatestPut
<1>7. BalanceOf[h] = Block[h].balance /\ AmountOf(h) = BalanceOf[p] - Block[h].balance
  BY WalksUnfold DEF AmountOf
<1>8. /\ i = [head |-> p, rep_block |-> rep, balance |-> BalanceOf[p]]
      /\ i.head = p /\ i.balance = BalanceOf[p]
  OBVIOUS
<1>a. p = Block[h].previous
  OBVIOUS
<1> HIDE DEF p, rep, i, t
<1>9. i \in Info
  BY <1>1, <1>3, <1>8 DEF Info
<1>10. /\ s \in Tables /\ s.blocks \subseteq Hash /\ GenesisHash \in s.blocks
       /\ ChainInv(s) /\ PendingInv(s) /\ PendingSound(s)
       /\ s.representation \in [Account -> Nat] /\ Total(s.representation) = GenesisAmount
  BY InvFacts DEF PendingInv, WeightCounted
<1>11. /\ SuccessorDel(s, h) \in [Hash -> Hash \cup {NoHash}]
       /\ FrontierMove(s, h, p, a) \in [Hash -> Account \cup {NoAccount}]
       /\ ChecksumPut(s, a, p) \in SUBSET Hash
  BY <1>3, <1>10, HelperTypes
<1>12. ChainInv(t)
  <2>1. \A x \in s.blocks : ~(Receives(x) /\ x # GenesisHash /\ Block[x].source = h)
    BY <1>4, <1>10, Zenon DEF PendingSound, PendingExists, IsReceiverOf
  <2>2. Retracts(s, t, h, a, rep)
    BY <1>1, <1>2, <1>6, <1>8, <1>a, <2>1 DEF Retracts
  <2> QED
    BY <1>10, <2>2, RetractsChainInv
<1>13. PendingInv(t)
  BY <1>6, <1>10, PendingDrop
<1>14. Rewrites(s, t, a, i, h, NoReceivable)
  <2>1. NoReceivable.amount = 0
    BY DEF NoReceivable
  <2>2. i.balance + NoReceivable.amount = s.accounts[a].balance + s.pending[h].amount
    <3>1. \A m, n \in Nat : m + 0 = n + (m - n)
      OBVIOUS
    <3>2. i.balance + NoReceivable.amount = BalanceOf[p] + 0
      BY <1>8, <2>1
    <3>3. s.accounts[a].balance = Block[h].balance
      BY <1>1, <1>7
    <3>4. s.pending[h].amount = BalanceOf[p] - Block[h].balance
      BY <1>5, <1>7
    <3>5. BalanceOf[p] + 0 = Block[h].balance + (BalanceOf[p] - Block[h].balance)
      BY <1>2, <1>3, <3>1
    <3> QED
      BY <3>2, <3>3, <3>4, <3>5, Zenon
  <2>3. Shifts(s, t, a, i, h, NoReceivable)
    BY <1>6, <1>9, <2>2 DEF Shifts
  <2>4. s.blocks \ {h} \in SUBSET Hash /\ GenesisHash \in s.blocks \ {h}
    BY <1>2, <1>10
  <2> QED
    BY <1>3, <1>6, <1>8, <1>10, <1>11, <2>3, <2>4 DEF Rewrites
<1>15. TablesInv(t)
  BY <1>12, <1>13, <1>14, Assembled
<1> QED
  BY <1>15 DEF t

(* rollback_visitor::receive_block keeps the tables consistent.            *)
LEMMA UndoReceiveKeepsInv ==
    ASSUME NEW s, TablesInv(s), NEW h \in Hash, IsReceive(h),
           UndoFailure(s, h) = "none", NEW a \in Account, s.accounts[a].head = h
    PROVE  TablesInv(UndoReceiveBlock(s, h))
<1> DEFINE p == Block[h].previous
           u == Block[h].source
           rep == RepBlockOf[u]
           amount == AmountOf(u)
           i == [head |-> p, rep_block |-> rep, balance |-> BalanceOf[p]]
           r == Restored(h)
           t == UndoReceiveBlock(s, h)
<1>1. h \in s.blocks /\ AccountOf[h] = a /\ s.accounts[a].balance = BalanceOf[h]
  BY HeadFacts
<1>2. ~IsOpen(h) /\ ~IsSend(h) /\ ~IsChange(h) /\ Receives(h) /\ h # GenesisHash
  BY ReceiveKind, Zenon
<1>3. p \in Hash /\ p \in s.blocks /\ p # NoHash /\ BalanceOf[p] \in Nat
  BY <1>1, <1>2, PreviousFacts, Numbers
<1>4. /\ u \in Hash /\ IsSend(u) /\ amount \in Nat /\ s.pending[u].amount = 0
      /\ AccountOf[h] = Block[u].destination /\ AccountOf[u] \in Account
  BY <1>1, <1>2, SourceFacts
<1>5. /\ BalanceOf[h] = BalanceOf[p] + amount
      /\ rep \in Hash /\ Represents(rep) /\ RepBlockOf[h] \in Hash /\ Represents(RepBlockOf[h])
  BY <1>4, WalksUnfold
<1>6. t = [blocks |-> s.blocks \ {h}, successor |-> SuccessorDel(s, h),
           accounts |-> [s.accounts EXCEPT ![a] = i],
           frontiers |-> FrontierMove(s, h, p, a),
           pending |-> [s.pending EXCEPT ![u] = r],
           representation |-> Move(s, RepBlockOf[h], rep, amount),
           checksum |-> ChecksumPut(s, a, p)]
  BY <1>1, <1>3 DEF UndoReceiveBlock, LatestPut
<1>7. MoveFailure(s, RepBlockOf[h], rep, amount) = "none"
  BY <1>2 DEF UndoFailure
<1>8. /\ i = [head |-> p, rep_block |-> rep, balance |-> BalanceOf[p]]
      /\ i.head = p /\ i.balance = BalanceOf[p]
  OBVIOUS
<1>9. /\ r = Restored(h) /\ r.amount = amount
      /\ r = [source |-> AccountOf[u], amount |-> amount, destination |-> AccountOf[h]]
  BY DEF Restored
<1>a. p = Block[h].previous /\ u = Block[h].source
  OBVIOUS
<1> HIDE DEF p, u, rep, amount, i, r, t
<1>10. i \in Info /\ r \in Receivable
  <2>1. i \in Info
    BY <1>3, <1>4, <1>5, <1>8 DEF Info
  <2>2. r \in Receivable
    BY <1>1, <1>4, <1>9 DEF Receivable
  <2> QED
    BY <2>1, <2>2
<1>11. /\ s \in Tables /\ s.blocks \subseteq Hash /\ GenesisHash \in s.blocks
       /\ ChainInv(s) /\ PendingInv(s) /\ ReferencesStored(s)
  BY InvFacts DEF ChainInv
<1>12. /\ SuccessorDel(s, h) \in [Hash -> Hash \cup {NoHash}]
       /\ FrontierMove(s, h, p, a) \in [Hash -> Account \cup {NoAccount}]
       /\ ChecksumPut(s, a, p) \in SUBSET Hash
  BY <1>3, <1>11, HelperTypes
<1>13. /\ Move(s, RepBlockOf[h], rep, amount) \in [Account -> Nat]
       /\ Total(Move(s, RepBlockOf[h], rep, amount)) = GenesisAmount
  BY <1>4, <1>5, <1>7, WeightMoves
<1>14. ChainInv(t)
  <2>1. Retracts(s, t, h, a, rep)
    BY <1>1, <1>2, <1>5, <1>6, <1>8, <1>a, NotReceived, Zenon DEF Retracts
  <2> QED
    BY <1>11, <2>1, RetractsChainInv
<1>15. PendingInv(t)
  <2>1. t.blocks = s.blocks \ {h} /\ t.pending = [s.pending EXCEPT ![u] = Restored(h)]
    BY <1>6, <1>9, Zenon
  <2> QED
    BY <1>1, <1>2, <1>4, <1>11, <1>a, <2>1, PendingRestore, Zenon
<1>16. Rewrites(s, t, a, i, u, r)
  <2>1. i.balance + r.amount = s.accounts[a].balance + s.pending[u].amount
    <3>1. r.amount = amount
      BY <1>9
    <3>2. i.balance = BalanceOf[p] /\ BalanceOf[p] \in Nat
      BY <1>3, <1>8
    <3>3. s.accounts[a].balance = BalanceOf[p] + amount /\ s.pending[u].amount = 0 /\ amount \in Nat
      BY <1>1, <1>4, <1>5
    <3> QED
      BY <3>1, <3>2, <3>3
  <2>2. Shifts(s, t, a, i, u, r)
    BY <1>4, <1>6, <1>10, <2>1 DEF Shifts
  <2>3. s.blocks \ {h} \in SUBSET Hash /\ GenesisHash \in s.blocks \ {h}
    BY <1>2, <1>11
  <2> QED
    BY <1>3, <1>6, <1>8, <1>12, <1>13, <2>2, <2>3, Zenon DEF Rewrites
<1>17. TablesInv(t)
  BY <1>14, <1>15, <1>16, Assembled
<1> QED
  BY <1>17 DEF t

(* rollback_visitor::open_block keeps the tables consistent.               *)
LEMMA UndoOpenKeepsInv ==
    ASSUME NEW s, TablesInv(s), NEW h \in Hash, IsOpen(h),
           UndoFailure(s, h) = "none", NEW a \in Account, s.accounts[a].head = h
    PROVE  TablesInv(UndoOpenBlock(s, h))
<1> DEFINE u == Block[h].source
           rep == RepBlockOf[u]
           amount == AmountOf(u)
           r == Restored(h)
           t == UndoOpenBlock(s, h)
<1>1. h \in s.blocks /\ AccountOf[h] = a /\ s.accounts[a].balance = BalanceOf[h]
  BY HeadFacts
<1>2. ~IsSend(h) /\ ~IsChange(h) /\ Receives(h)
  BY BlockFacts DEF Receives
<1>3. h # GenesisHash
  BY <1>2 DEF UndoFailure
<1>4. /\ u \in Hash /\ IsSend(u) /\ amount \in Nat /\ s.pending[u].amount = 0
      /\ AccountOf[h] = Block[u].destination /\ AccountOf[u] \in Account
  BY <1>1, <1>2, <1>3, SourceFacts
<1>5. /\ BalanceOf[h] = amount
      /\ rep \in Hash /\ Represents(rep) /\ RepBlockOf[h] \in Hash /\ Represents(RepBlockOf[h])
  BY <1>3, <1>4, WalksUnfold
<1>6. t = [blocks |-> s.blocks \ {h}, successor |-> SuccessorDel(s, h),
           accounts |-> [s.accounts EXCEPT ![a] = NoInfo],
           frontiers |-> FrontierMove(s, h, NoHash, NoAccount),
           pending |-> [s.pending EXCEPT ![u] = r],
           representation |-> Move(s, RepBlockOf[h], rep, amount),
           checksum |-> ChecksumPut(s, a, NoHash)]
  BY <1>1 DEF UndoOpenBlock, LatestPut
<1>7. MoveFailure(s, RepBlockOf[h], rep, amount) = "none"
  BY <1>2, <1>3 DEF UndoFailure
<1>8. /\ r = Restored(h) /\ r.amount = amount
      /\ r = [source |-> AccountOf[u], amount |-> amount, destination |-> AccountOf[h]]
  BY DEF Restored
<1>a. u = Block[h].source
  OBVIOUS
<1> HIDE DEF u, rep, amount, r, t
<1>9. NoInfo \in Info /\ NoInfo.balance = 0 /\ r \in Receivable
  <2>1. NoInfo \in Info /\ NoInfo.balance = 0
    BY DEF Info, NoInfo
  <2>2. r \in Receivable
    BY <1>1, <1>4, <1>8 DEF Receivable
  <2> QED
    BY <2>1, <2>2
<1>10. /\ s \in Tables /\ s.blocks \subseteq Hash /\ GenesisHash \in s.blocks
       /\ ChainInv(s) /\ PendingInv(s) /\ ReferencesStored(s)
  BY InvFacts DEF ChainInv
<1>11. /\ SuccessorDel(s, h) \in [Hash -> Hash \cup {NoHash}]
       /\ FrontierMove(s, h, NoHash, NoAccount) \in [Hash -> Account \cup {NoAccount}]
       /\ ChecksumPut(s, a, NoHash) \in SUBSET Hash
  BY <1>10, HelperTypes
<1>12. /\ Move(s, RepBlockOf[h], rep, amount) \in [Account -> Nat]
       /\ Total(Move(s, RepBlockOf[h], rep, amount)) = GenesisAmount
  <2>1. s.representation = s.representation
    OBVIOUS
  <2>2. /\ RepBlockOf[h] \in Hash /\ Represents(RepBlockOf[h])
        /\ rep \in Hash /\ Represents(rep) /\ amount \in Nat
    BY <1>4, <1>5, Zenon
  <2> QED
    BY <1>7, <2>1, <2>2, WeightMoves
<1>13. ChainInv(t)
  <2>1. Retracts(s, t, h, a, rep)
    BY <1>1, <1>2, <1>5, <1>6, NotReceived DEF Retracts
  <2> QED
    BY <1>10, <2>1, RetractsChainInv
<1>14. PendingInv(t)
  <2>1. t.blocks = s.blocks \ {h} /\ t.pending = [s.pending EXCEPT ![u] = Restored(h)]
    BY <1>6, <1>8, Zenon
  <2> QED
    BY <1>1, <1>2, <1>3, <1>4, <1>10, <1>a, <2>1, PendingRestore, Zenon
<1>15. Rewrites(s, t, a, NoInfo, u, r)
  <2>1. NoInfo.balance + r.amount = s.accounts[a].balance + s.pending[u].amount
    <3>1. r.amount = amount /\ NoInfo.balance = 0
      BY <1>8, <1>9
    <3>2. s.accounts[a].balance = amount /\ s.pending[u].amount = 0 /\ amount \in Nat
      BY <1>1, <1>4, <1>5
    <3> QED
      BY <3>1, <3>2
  <2>2. Shifts(s, t, a, NoInfo, u, r)
    BY <1>4, <1>6, <1>9, <2>1 DEF Shifts
  <2>3. s.blocks \ {h} \in SUBSET Hash /\ GenesisHash \in s.blocks \ {h}
    BY <1>3, <1>10
  <2> QED
    BY <1>6, <1>11, <1>12, <2>2, <2>3, Zenon DEF Rewrites
<1>16. TablesInv(t)
  BY <1>13, <1>14, <1>15, Assembled
<1> QED
  BY <1>16 DEF t

(* rollback_visitor::change_block keeps the tables consistent.             *)
LEMMA UndoChangeKeepsInv ==
    ASSUME NEW s, TablesInv(s), NEW h \in Hash, IsChange(h),
           UndoFailure(s, h) = "none", NEW a \in Account, s.accounts[a].head = h
    PROVE  TablesInv(UndoChangeBlock(s, h))
<1> DEFINE p == Block[h].previous
           rep == RepBlockOf[p]
           i == [head |-> p, rep_block |-> rep, balance |-> s.accounts[a].balance]
           t == UndoChangeBlock(s, h)
<1>1. h \in s.blocks /\ AccountOf[h] = a /\ s.accounts[a].balance = BalanceOf[h]
  BY HeadFacts
<1>2. /\ ~IsOpen(h) /\ ~IsSend(h) /\ ~IsReceive(h) /\ ~Receives(h)
      /\ Represents(h) /\ h # GenesisHash
  <2>1. ~IsOpen(h) /\ ~IsSend(h) /\ ~IsReceive(h)
    BY BlockFacts, Zenon
  <2>2. h # GenesisHash
    BY <2>1, GenesisBlock DEF IsOpen
  <2> QED
    BY <2>1, <2>2, Zenon DEF Receives, Represents
<1>3. /\ p \in Hash /\ p \in s.blocks /\ p # NoHash /\ BalanceOf[p] \in Nat
      /\ AccountOf[p] = a
  BY <1>1, <1>2, PreviousFacts, Numbers
<1>4. BalanceOf[h] = BalanceOf[p] /\ rep \in Hash /\ Represents(rep)
  BY <1>3, WalksUnfold
<1>5. t = [blocks |-> s.blocks \ {h}, successor |-> SuccessorDel(s, h),
           accounts |-> [s.accounts EXCEPT ![a] = i],
           frontiers |-> FrontierMove(s, h, p, a), pending |-> s.pending,
           representation |-> Move(s, h, rep, BalanceOf[p]),
           checksum |-> ChecksumPut(s, a, p)]
  BY <1>3, Zenon DEF UndoChangeBlock, LatestPut
<1>6. MoveFailure(s, h, rep, BalanceOf[p]) = "none"
  BY <1>2 DEF UndoFailure
<1>7. /\ i = [head |-> p, rep_block |-> rep, balance |-> s.accounts[a].balance]
      /\ i.head = p /\ i.balance = s.accounts[a].balance
  OBVIOUS
<1>a. p = Block[h].previous
  OBVIOUS
<1> HIDE DEF p, rep, i, t
<1>8. i \in Info /\ i.balance = BalanceOf[p]
  BY <1>1, <1>3, <1>4, <1>7 DEF Info
<1>9. /\ s \in Tables /\ s.blocks \subseteq Hash /\ GenesisHash \in s.blocks
      /\ s.pending \in [Hash -> Receivable \cup {NoReceivable}]
      /\ ChainInv(s) /\ PendingInv(s)
  BY InvFacts
<1>10. /\ SuccessorDel(s, h) \in [Hash -> Hash \cup {NoHash}]
       /\ FrontierMove(s, h, p, a) \in [Hash -> Account \cup {NoAccount}]
       /\ ChecksumPut(s, a, p) \in SUBSET Hash
  BY <1>3, <1>9, HelperTypes
<1>11. /\ Move(s, h, rep, BalanceOf[p]) \in [Account -> Nat]
       /\ Total(Move(s, h, rep, BalanceOf[p])) = GenesisAmount
  <2>1. /\ Represents(h) /\ rep \in Hash /\ Represents(rep) /\ BalanceOf[p] \in Nat
        /\ MoveFailure(s, h, rep, BalanceOf[p]) = "none"
    BY <1>2, <1>3, <1>4, <1>6, Zenon
  <2> QED
    BY <2>1, WeightMovesBack, Zenon
<1>12. ChainInv(t)
  <2>1. Retracts(s, t, h, a, rep)
    BY <1>1, <1>2, <1>4, <1>5, <1>7, <1>8, <1>a, NotReceived DEF Retracts
  <2> QED
    BY <1>9, <2>1, RetractsChainInv
<1>13. PendingInv(t)
  BY <1>5, <1>9, PendingSame
<1>14. Rewrites(s, t, a, i, h, s.pending[h])
  <2>1. /\ s.pending[h] \in Receivable \cup {NoReceivable}
        /\ s.pending = [s.pending EXCEPT ![h] = s.pending[h]]
    BY <1>9
  <2>2. Shifts(s, t, a, i, h, s.pending[h])
    BY <1>5, <1>7, <1>8, <2>1, Zenon DEF Shifts
  <2>3. s.blocks \ {h} \in SUBSET Hash /\ GenesisHash \in s.blocks \ {h}
    BY <1>2, <1>9, Zenon
  <2> QED
    BY <1>3, <1>5, <1>7, <1>10, <1>11, <2>2, <2>3 DEF Rewrites
<1>15. TablesInv(t)
  BY <1>12, <1>13, <1>14, Assembled, Zenon
<1> QED
  BY <1>15 DEF t

(* One turn of the loop of ledger::rollback keeps the tables consistent.   *)
LEMMA UndoKeepsInv ==
    ASSUME NEW s, TablesInv(s), NEW h \in Hash, NEW a \in Account, s.accounts[a].head = h,
           ~Received(s, h), UndoFailure(s, h) = "none"
    PROVE  TablesInv(Undone(s, h))
<1>1. CASE IsSend(h)
  BY <1>1, BlockFacts, UndoSendKeepsInv DEF Undone
<1>2. CASE IsReceive(h)
  BY <1>2, BlockFacts, UndoReceiveKeepsInv DEF Undone
<1>3. CASE IsOpen(h)
  BY <1>3, BlockFacts, UndoOpenKeepsInv DEF Undone
<1>4. CASE IsChange(h)
  BY <1>4, BlockFacts, UndoChangeKeepsInv DEF Undone
<1> QED
  BY <1>1, <1>2, <1>3, <1>4, BlockFacts

-----------------------------------------------------------------------------
(* change_latest: the checksum follows the head blocks.                    *)

(* The head block of account a becomes g, and the checksum is told.        *)
HeadMoves(s, t, a, g) ==
    /\ \A b \in Account : t.accounts[b].head = IF b = a THEN g ELSE s.accounts[b].head
    /\ t.checksum = ChecksumPut(s, a, g)

(* change_latest takes the old head block out of the checksum and puts the *)
(* new one in; both are right if the new one was not a head block.         *)
LEMMA DriftKept ==
    ASSUME NEW s, TablesInv(s), NEW t, NEW a \in Account, NEW g, HeadMoves(s, t, a, g),
           g # NoHash => \A b \in Account : s.accounts[b].head # g
    PROVE  ChecksumDrift(t) = ChecksumDrift(s)
<1> DEFINE old == s.accounts[a].head
<1>1. \A b \in Account : s.accounts[b].head = old /\ old # NoHash => b = a
  <2>1. HeadsOwned(s)
    BY InvFacts DEF ChainInv
  <2> QED
    BY <2>1 DEF HeadsOwned, AccountExists
<1>2. \A x : x \in t.checksum <=>
             ~(x \in s.checksum <=> ((x = old /\ old # NoHash) \/ (x = g /\ g # NoHash)))
  <2>1. t.checksum = ChecksumPut(s, a, g) /\ (g # NoHash => old # g)
    BY DEF HeadMoves
  <2> QED
    BY <2>1 DEF ChecksumPut, Toggle, AccountExists
<1>3. \A x : x \in Heads(t) <=>
             ~(x \in Heads(s) <=> ((x = old /\ old # NoHash) \/ (x = g /\ g # NoHash)))
  <2>1. \A b \in Account : t.accounts[b].head = IF b = a THEN g ELSE s.accounts[b].head
    BY DEF HeadMoves
  <2>2. \A x : x \in Heads(t) <=> x # NoHash /\ \E b \in Account : x = t.accounts[b].head
    BY DEF Heads
  <2>3. \A x : x \in Heads(s) <=> x # NoHash /\ \E b \in Account : x = s.accounts[b].head
    BY DEF Heads
  <2> TAKE x
  <2>4. CASE x = NoHash
    BY <2>2, <2>3, <2>4
  <2>5. CASE x # NoHash /\ x = g
    BY <2>1, <2>2, <2>3, <2>5
  <2>6. CASE x # NoHash /\ x # g /\ x = old
    <3>1. x \in Heads(s)
      BY <2>3, <2>6
    <3>2. \A b \in Account : x # t.accounts[b].head
      BY <1>1, <2>1, <2>6
    <3> QED
      BY <2>2, <2>6, <3>1, <3>2
  <2>7. CASE x # NoHash /\ x # g /\ x # old
    BY <2>1, <2>2, <2>3, <2>7
  <2> QED
    BY <2>4, <2>5, <2>6, <2>7
<1> HIDE DEF old
<1>4. \A x : x \in ChecksumDrift(t) <=> x \in ChecksumDrift(s)
  BY <1>2, <1>3, Zenon DEF ChecksumDrift, SymmetricDifference
<1> QED
  BY <1>4 DEF ChecksumDrift, SymmetricDifference

(* The head that ledger_processor puts: a block that was not stored.       *)
LEMMA ProcessMovesHead ==
    ASSUME NEW s, TablesInv(s), NEW h \in Hash, NEW signer \in Account,
           ProcessResult(s, h, signer) = "progress"
    PROVE  h \notin s.blocks /\ \E a \in Account : HeadMoves(s, Processed(s, h), a, h)
<1>1. /\ s.accounts \in [Account -> Info] /\ s.blocks \subseteq Hash /\ h # NoHash
      /\ s.frontiers \in [Hash -> Account \cup {NoAccount}]
  BY InvFacts, Numbers
<1>2. ASSUME NEW a \in Account, NEW t, NEW rep, NEW balance,
             t.accounts = LatestPut(s, a, h, rep, balance), t.checksum = ChecksumPut(s, a, h)
      PROVE  HeadMoves(s, t, a, h)
  BY <1>1, <1>2 DEF LatestPut, HeadMoves
<1>3. CASE IsSend(h)
  <2>1. SendResult(s, h, signer) = "progress" /\ Processed(s, h) = SendBlockEffect(s, h)
    BY <1>3, BlockFacts DEF ProcessResult, Processed
  <2>2. h \notin s.blocks /\ s.frontiers[Block[h].previous] \in Account
    BY <1>1, <2>1 DEF SendResult
  <2>3. /\ SendBlockEffect(s, h).accounts
               = LatestPut(s, s.frontiers[Block[h].previous], h,
                           s.accounts[s.frontiers[Block[h].previous]].rep_block, Block[h].balance)
        /\ SendBlockEffect(s, h).checksum = ChecksumPut(s, s.frontiers[Block[h].previous], h)
    BY Zenon DEF SendBlockEffect
  <2> QED
    BY <1>2, <2>1, <2>2, <2>3
<1>4. CASE IsChange(h)
  <2>1. ChangeResult(s, h, signer) = "progress" /\ Processed(s, h) = ChangeBlockEffect(s, h)
    BY <1>4, BlockFacts DEF ProcessResult, Processed
  <2>2. h \notin s.blocks /\ s.frontiers[Block[h].previous] \in Account
    BY <1>1, <2>1 DEF ChangeResult
  <2>3. /\ ChangeBlockEffect(s, h).accounts
               = LatestPut(s, s.frontiers[Block[h].previous], h, h,
                           s.accounts[s.frontiers[Block[h].previous]].balance)
        /\ ChangeBlockEffect(s, h).checksum = ChecksumPut(s, s.frontiers[Block[h].previous], h)
    BY Zenon DEF ChangeBlockEffect
  <2> QED
    BY <1>2, <2>1, <2>2, <2>3
<1>5. CASE IsReceive(h)
  <2>1. ReceiveResult(s, h, signer) = "progress" /\ Processed(s, h) = ReceiveBlockEffect(s, h)
    BY <1>5, BlockFacts DEF ProcessResult, Processed
  <2>2. h \notin s.blocks /\ Block[h].source \in Hash /\ s.pending[Block[h].source] # NoReceivable
    BY <1>1, <2>1, Zenon DEF ReceiveResult
  <2>3. s.pending[Block[h].source].destination \in Account
    BY <2>2, ReceivableFacts
  <2> DEFINE r == s.pending[Block[h].source]
  <2>4. /\ ReceiveBlockEffect(s, h).accounts
               = LatestPut(s, r.destination, h, s.accounts[r.destination].rep_block,
                           s.accounts[r.destination].balance + r.amount)
        /\ ReceiveBlockEffect(s, h).checksum = ChecksumPut(s, r.destination, h)
    BY Zenon DEF ReceiveBlockEffect
  <2> QED
    BY <1>2, <2>1, <2>2, <2>3, <2>4, Zenon
<1>6. CASE IsOpen(h)
  <2>1. OpenResult(s, h, signer) = "progress" /\ Processed(s, h) = OpenBlockEffect(s, h)
    BY <1>6, BlockFacts DEF ProcessResult, Processed
  <2>2. h \notin s.blocks /\ Block[h].source \in Hash /\ s.pending[Block[h].source] # NoReceivable
    BY <1>1, <2>1 DEF OpenResult
  <2>3. s.pending[Block[h].source].destination \in Account
    BY <2>2, ReceivableFacts
  <2> DEFINE r == s.pending[Block[h].source]
  <2>4. /\ OpenBlockEffect(s, h).accounts = LatestPut(s, r.destination, h, h, r.amount)
        /\ OpenBlockEffect(s, h).checksum = ChecksumPut(s, r.destination, h)
    BY Zenon DEF OpenBlockEffect
  <2> QED
    BY <1>2, <2>1, <2>2, <2>3, <2>4
<1> QED
  BY <1>3, <1>4, <1>5, <1>6, BlockFacts

(* The head that rollback_visitor puts back: the predecessor of the head   *)
(* block, which is not a head, or nothing.                                 *)
LEMMA UndoMovesHead ==
    ASSUME NEW s, TablesInv(s), NEW h \in Hash, NEW a \in Account, s.accounts[a].head = h,
           ~Received(s, h)
    PROVE  \E g : /\ HeadMoves(s, Undone(s, h), a, g)
                  /\ g # NoHash => \A b \in Account : s.accounts[b].head # g
<1> DEFINE p == Block[h].previous
<1>0. h \in s.blocks /\ AccountOf[h] = a
  BY HeadFacts
<1>1. h \in s.blocks /\ AccountOf[h] = a /\ s.accounts \in [Account -> Info]
  BY <1>0, InvFacts, Zenon
<1>2. ASSUME ~IsOpen(h)
      PROVE  /\ p \in Hash /\ p # NoHash /\ AccountOf[p] = a
             /\ \A b \in Account : s.accounts[b].head # p
  <2>1. p \in Hash /\ p \in s.blocks /\ AccountOf[p] = a /\ p # NoHash
    BY <1>1, <1>2, PreviousFacts, Numbers
  <2>2. p # h
    <3>1. Height[h] = Height[p] + 1 /\ Height[p] \in Nat
      BY <1>2, <2>1, WalksUnfold
    <3> QED
      BY <3>1
  <2>3. ASSUME NEW b \in Account, s.accounts[b].head = p PROVE FALSE
    <3> HIDE DEF p
    <3>1. AccountOf[p] = b
      BY <2>1, <2>3, HeadFacts
    <3> QED
      BY <2>1, <2>2, <2>3, <3>1, Zenon
  <2> QED
    BY <2>1, <2>3
<1> DEFINE t == Undone(s, h)
<1> SUFFICES \E g : /\ HeadMoves(s, t, a, g)
                    /\ g # NoHash => \A b \in Account : s.accounts[b].head # g
  OBVIOUS
<1>u. t = Undone(s, h)
  OBVIOUS
<1> HIDE DEF t
<1>3. ASSUME NEW rep, NEW balance, ~IsOpen(h),
             t.accounts = LatestPut(s, a, p, rep, balance), t.checksum = ChecksumPut(s, a, p)
      PROVE  \E g : /\ HeadMoves(s, t, a, g)
                    /\ g # NoHash => \A b \in Account : s.accounts[b].head # g
  <2> HIDE DEF p
  <2>1. p # NoHash /\ \A b \in Account : s.accounts[b].head # p
    BY <1>2, <1>3, Zenon
  <2>2. ASSUME NEW b \in Account
        PROVE  t.accounts[b].head = IF b = a THEN p ELSE s.accounts[b].head
    <3> DEFINE i == [head |-> p, rep_block |-> rep, balance |-> balance]
    <3>1. i.head = p
      OBVIOUS
    <3>2. t.accounts = [s.accounts EXCEPT ![a] = i]
      BY <1>3, <2>1, Zenon DEF LatestPut
    <3> HIDE DEF i
    <3> QED
      BY <1>1, <3>1, <3>2
  <2>3. HeadMoves(s, t, a, p)
    BY <1>3, <2>2, Zenon DEF HeadMoves
  <2> QED
    BY <2>1, <2>3, Zenon
<1>4. CASE IsSend(h)
  <2>1. ~IsOpen(h) /\ Undone(s, h) = UndoSendBlock(s, h)
    BY <1>4, BlockFacts DEF Undone
  <2>2. s.pending[h].source = a
    BY <1>1, <1>4, ReceivableFacts DEF Received, PendingExists
  <2>3. /\ UndoSendBlock(s, h).accounts = LatestPut(s, a, p, s.accounts[a].rep_block, BalanceOf[p])
        /\ UndoSendBlock(s, h).checksum = ChecksumPut(s, a, p)
    BY <2>2 DEF UndoSendBlock
  <2>4. /\ t.accounts = LatestPut(s, a, p, s.accounts[a].rep_block, BalanceOf[p])
        /\ t.checksum = ChecksumPut(s, a, p)
    BY <1>u, <2>1, <2>3, Zenon
  <2> QED
    BY <1>3, <2>1, <2>4, Zenon
<1>5. CASE IsReceive(h)
  <2>1. ~IsOpen(h) /\ Undone(s, h) = UndoReceiveBlock(s, h)
    BY <1>5, BlockFacts DEF Undone
  <2>2. /\ UndoReceiveBlock(s, h).accounts = LatestPut(s, a, p, RepBlockOf[Block[h].source], BalanceOf[p])
        /\ UndoReceiveBlock(s, h).checksum = ChecksumPut(s, a, p)
    BY <1>1, Zenon DEF UndoReceiveBlock
  <2>3. /\ t.accounts = LatestPut(s, a, p, RepBlockOf[Block[h].source], BalanceOf[p])
        /\ t.checksum = ChecksumPut(s, a, p)
    BY <1>u, <2>1, <2>2, Zenon
  <2> QED
    BY <1>3, <2>1, <2>3, Zenon
<1>6. CASE IsChange(h)
  <2>1. ~IsOpen(h) /\ Undone(s, h) = UndoChangeBlock(s, h)
    BY <1>6, BlockFacts DEF Undone
  <2>2. AccountOf[p] = a
    BY <1>2, <2>1
  <2>3. /\ UndoChangeBlock(s, h).accounts = LatestPut(s, a, p, RepBlockOf[p], s.accounts[a].balance)
        /\ UndoChangeBlock(s, h).checksum = ChecksumPut(s, a, p)
    BY <2>2, Zenon DEF UndoChangeBlock
  <2>4. /\ t.accounts = LatestPut(s, a, p, RepBlockOf[p], s.accounts[a].balance)
        /\ t.checksum = ChecksumPut(s, a, p)
    BY <1>u, <2>1, <2>3, Zenon
  <2> QED
    BY <1>3, <2>1, <2>4, Zenon
<1>7. CASE IsOpen(h)
  <2>1. Undone(s, h) = UndoOpenBlock(s, h)
    BY <1>7, BlockFacts DEF Undone
  <2>2. /\ UndoOpenBlock(s, h).accounts = [s.accounts EXCEPT ![a] = NoInfo]
        /\ UndoOpenBlock(s, h).checksum = ChecksumPut(s, a, NoHash)
    BY <1>1, Zenon DEF UndoOpenBlock, LatestPut
  <2>3. ASSUME NEW b \in Account
        PROVE  UndoOpenBlock(s, h).accounts[b].head = IF b = a THEN NoHash ELSE s.accounts[b].head
    <3> DEFINE u == UndoOpenBlock(s, h)
    <3>1. u.accounts = [s.accounts EXCEPT ![a] = NoInfo]
      BY <2>2
    <3> HIDE DEF u
    <3>2. u.accounts[b].head = IF b = a THEN NoHash ELSE s.accounts[b].head
      BY <1>1, <3>1 DEF NoInfo
    <3> QED
      BY <3>2 DEF u
  <2>4. HeadMoves(s, t, a, NoHash)
    BY <1>u, <2>1, <2>2, <2>3, Zenon DEF HeadMoves
  <2> QED
    BY <2>4, Zenon
<1> QED
  BY <1>4, <1>5, <1>6, <1>7, BlockFacts

-----------------------------------------------------------------------------
(* The opening of a store, and the stack of nested rollback calls.         *)

(* Opening the store, which resets the checksum, leaves the rest alone.    *)
LEMMA ReopenKeepsInv ==
    ASSUME NEW s, TablesInv(s)
    PROVE  TablesInv([s EXCEPT !.checksum = {}])
<1> DEFINE t == [s EXCEPT !.checksum = {}]
<1>1. s \in Tables
  BY InvFacts
<1>2. /\ t.blocks = s.blocks /\ t.successor = s.successor /\ t.accounts = s.accounts
      /\ t.frontiers = s.frontiers /\ t.pending = s.pending
      /\ t.representation = s.representation
  BY <1>1 DEF Tables
<1>3. t \in Tables
  BY <1>1 DEF Tables
<1> HIDE DEF t
<1>4. TablesOK(t)
  BY <1>2, <1>3 DEF TablesInv, TablesOK, AccountExists
<1>5. ChainInv(t)
  <2>0. ChainInv(s)
    BY DEF TablesInv
  <2>1. HeadsIndexed(t)
    BY <1>2, <2>0 DEF ChainInv, HeadsIndexed
  <2>2. HeadsOwned(t)
    BY <1>2, <2>0 DEF ChainInv, HeadsOwned, AccountExists
  <2>3. ReferencesStored(t) /\ DepthsOrdered(t)
    BY <1>2, <2>0 DEF ChainInv, ReferencesStored, DepthsOrdered
  <2>4. HeightsOrdered(t)
    BY <1>2, <2>0 DEF ChainInv, HeightsOrdered, AccountExists
  <2>5. SuccessorsLinked(t)
    BY <1>2, <2>0 DEF ChainInv, SuccessorsLinked
  <2>6. AccountsOpened(t)
    BY <1>2, <2>0 DEF ChainInv, AccountsOpened, AccountExists
  <2> QED
    BY <2>1, <2>2, <2>3, <2>4, <2>5, <2>6 DEF ChainInv
<1>6. PendingInv(t)
  BY <1>2 DEF TablesInv, PendingInv, PendingSound, PendingComplete, PendingExists,
              ReceivedOnce, AmountsNatural
<1>7. MoneyCounted(t) /\ WeightCounted(t) /\ BalancesNatural(t)
  BY <1>2 DEF TablesInv, MoneyCounted, WeightCounted, BalancesNatural, Balances, PendingAmounts
<1> QED
  BY <1>4, <1>5, <1>6, <1>7 DEF TablesInv, t

-----------------------------------------------------------------------------
(* The rollback calls.                                                     *)

(* The chain of a stored block and its head.                               *)
LEMMA ChainFacts ==
    ASSUME NEW s, TablesInv(s), NEW h \in s.blocks
    PROVE  /\ h \in Hash /\ AccountOf[h] \in Account
           /\ HeadOf(s, h) \in Hash /\ HeadOf(s, h) \in s.blocks
           /\ AccountOf[HeadOf(s, h)] = AccountOf[h]
           /\ Height[h] <= Height[HeadOf(s, h)]
           /\ h # GenesisHash => HeadOf(s, h) # GenesisHash
<1>1. HeightsOrdered(s) /\ HeadsOwned(s) /\ s.blocks \subseteq Hash /\ GenesisHash \in s.blocks
  BY InvFacts DEF ChainInv
<1>2. /\ AccountOf[h] \in Account /\ AccountExists(s, AccountOf[h])
      /\ Height[h] <= Height[HeadOf(s, h)]
  BY <1>1 DEF HeightsOrdered, HeadOf
<1>3. HeadOf(s, h) \in s.blocks /\ AccountOf[HeadOf(s, h)] = AccountOf[h]
  BY <1>1, <1>2 DEF HeadsOwned, HeadOf
<1>4. ASSUME HeadOf(s, h) = GenesisHash
      PROVE  h = GenesisHash
  <2>1. Height[GenesisHash] = 0 /\ Height[h] \in Nat
    BY <1>1, WalksUnfold, GenesisBlock DEF IsOpen
  <2>2. Height[h] = Height[GenesisHash] /\ AccountOf[h] = AccountOf[GenesisHash]
    BY <1>2, <1>3, <1>4, <2>1
  <2> QED
    BY <1>1, <2>2 DEF HeightsOrdered
<1> QED
  BY <1>1, <1>2, <1>3, <1>4

(* g is the head block that the innermost call works on, and q the head of *)
(* the chain that a send g went to.                                        *)
LastHead(s, calls, g) == g = HeadOf(s, calls[Len(calls)])
ReceiverHead(s, g, q) == q = s.accounts[Block[g].destination].head

(* A send that was received has a receiving chain, whose head was made     *)
(* after the send.                                                         *)
LEMMA ReceiverFacts ==
    ASSUME NEW s, TablesInv(s), NEW g \in s.blocks, Received(s, g),
           NEW q, ReceiverHead(s, g, q)
    PROVE  /\ AccountExists(s, Block[g].destination)
           /\ q \in s.blocks \ {GenesisHash} /\ AccountOf[q] = Block[g].destination
           /\ HeadOf(s, q) = q /\ Depth[g] < Depth[q]
<1>1. /\ PendingComplete(s) /\ ReferencesStored(s) /\ DepthsOrdered(s) /\ HeightsOrdered(s)
      /\ s.blocks \subseteq Hash
  BY InvFacts DEF ChainInv, PendingInv
<1>2. PICK r \in s.blocks : IsReceiverOf(r, g)
  BY <1>1 DEF PendingComplete, Received
<1>3. r # GenesisHash /\ Receives(r) /\ Block[r].source = g
  BY <1>1, <1>2, GenesisReceivesNothing DEF IsReceiverOf
<1>4. AccountOf[r] = Block[g].destination /\ HeadOf(s, r) = q
  BY <1>1, <1>3 DEF ReferencesStored, HeadOf, ReceiverHead
<1>5. /\ q \in Hash /\ q \in s.blocks /\ AccountOf[q] = AccountOf[r]
      /\ Height[r] <= Height[q] /\ q # GenesisHash
  BY <1>3, <1>4, ChainFacts
<1>6. /\ Depth[g] < Depth[r] /\ Depth[g] \in Nat /\ Depth[r] \in Nat /\ Depth[q] \in Nat
  BY <1>1, <1>3, <1>5, DepthUnfolds
<1>7. r = q \/ Height[r] < Height[q]
  <2>1. Height[r] \in Nat /\ Height[q] \in Nat
    BY <1>1, <1>5, WalksUnfold, Zenon
  <2>2. Height[r] = Height[q] => r = q
    BY <1>1, <1>5 DEF HeightsOrdered
  <2> QED
    BY <1>5, <2>1, <2>2
<1>8. r = q \/ Depth[r] < Depth[q]
  BY <1>1, <1>5, <1>7 DEF DepthsOrdered
<1>9. Depth[g] < Depth[q]
  BY <1>6, <1>8
<1>10. AccountExists(s, Block[g].destination) /\ HeadOf(s, q) = q
  BY <1>4, <1>5, Numbers DEF AccountExists, HeadOf, ReceiverHead
<1> QED
  BY <1>4, <1>5, <1>9, <1>10

(* A nested call goes to a chain that no call before it works on.          *)
LEMMA PushNested ==
    ASSUME NEW s, TablesInv(s), NEW calls \in Seq(Hash), calls # <<>>, Nested(s, calls),
           NEW g, LastHead(s, calls, g), Received(s, g),
           NEW q, ReceiverHead(s, g, q)
    PROVE  Nested(s, Append(calls, q))
<1> DEFINE n == Len(calls)
           more == Append(calls, q)
<1>1. n \in Nat /\ n > 0 /\ Len(more) = n + 1 /\ more[n + 1] = q
      /\ \A i \in 1..n : more[i] = calls[i]
  OBVIOUS
<1>2. /\ \A i \in 1..n : calls[i] \in s.blocks \ {GenesisHash}
      /\ \A i \in 2..n : HeadOf(s, calls[i]) = calls[i]
      /\ \A i, j \in 1..n : i < j => Depth[HeadOf(s, calls[i])] < Depth[HeadOf(s, calls[j])]
      /\ \A i \in 1..(n - 1) : /\ Received(s, HeadOf(s, calls[i]))
                               /\ Block[HeadOf(s, calls[i])].destination = AccountOf[calls[i + 1]]
  BY DEF Nested
<1>3. g = HeadOf(s, calls[n])
  BY DEF LastHead
<1> HIDE DEF n, more
<1>4. g \in s.blocks
  BY <1>1, <1>2, <1>3, ChainFacts
<1>5. /\ q \in s.blocks \ {GenesisHash} /\ AccountOf[q] = Block[g].destination
      /\ HeadOf(s, q) = q /\ Depth[g] < Depth[q]
  BY <1>4, ReceiverFacts
<1>6. \A i \in 1..n : Depth[HeadOf(s, calls[i])] < Depth[q]
  <2> TAKE i \in 1..n
  <2>1. CASE i = n
    BY <1>3, <1>5, <2>1
  <2>2. CASE i < n
    <3>1. Depth[HeadOf(s, calls[i])] < Depth[g]
      BY <1>1, <1>2, <1>3, <2>2
    <3>2. calls[i] \in s.blocks /\ q \in Hash /\ g \in Hash
      BY <1>2, <1>4, <1>5, ChainFacts
    <3>3. Depth[HeadOf(s, calls[i])] \in Nat /\ Depth[g] \in Nat /\ Depth[q] \in Nat
      BY <3>2, ChainFacts, DepthUnfolds
    <3> QED
      BY <1>5, <3>1, <3>3
  <2> QED
    BY <1>1, <2>1, <2>2
<1>7. \A i \in 1..(n + 1) : more[i] \in s.blocks \ {GenesisHash}
  BY <1>1, <1>2, <1>5
<1>8. \A i \in 2..(n + 1) : HeadOf(s, more[i]) = more[i]
  BY <1>1, <1>2, <1>5
<1>9. \A i, j \in 1..(n + 1) :
         i < j => Depth[HeadOf(s, more[i])] < Depth[HeadOf(s, more[j])]
  BY <1>1, <1>2, <1>5, <1>6
<1>10. \A i \in 1..n : /\ Received(s, HeadOf(s, more[i]))
                       /\ Block[HeadOf(s, more[i])].destination = AccountOf[more[i + 1]]
  BY <1>1, <1>2, <1>3, <1>5
<1>11. (n + 1) - 1 = n
  BY <1>1
<1> QED
  BY <1>1, <1>7, <1>8, <1>9, <1>10, <1>11 DEF Nested, more

(* What the undoing of the head h of the chain of a leaves alone.          *)
LeavesAlone(s, t, h, a) ==
    /\ t.blocks = s.blocks \ {h}
    /\ \A b \in Account \ {a} : t.accounts[b] = s.accounts[b]
    /\ \A g \in Hash \ {h} : ~IsReceiverOf(h, g) => t.pending[g] = s.pending[g]

(* rollback_visitor changes one account and one receivable.                *)
LEMMA UndoLeavesAlone ==
    ASSUME NEW s, TablesInv(s), NEW h \in Hash, NEW a \in Account, s.accounts[a].head = h,
           ~Received(s, h), UndoFailure(s, h) = "none"
    PROVE  LeavesAlone(s, Undone(s, h), h, a)
<1>1. /\ AccountOf[h] = a /\ h \in s.blocks
      /\ s.accounts \in [Account -> Info]
      /\ s.pending \in [Hash -> Receivable \cup {NoReceivable}]
  BY InvFacts, HeadFacts
<1>2. CASE IsSend(h)
  <2>1. s.pending[h].source = a
    BY <1>1, <1>2, ReceivableFacts DEF Received, PendingExists
  <2>2. Undone(s, h) = UndoSendBlock(s, h)
    BY <1>2, BlockFacts DEF Undone
  <2>3. /\ Undone(s, h).blocks = s.blocks \ {h}
        /\ Undone(s, h).accounts = LatestPut(s, a, Block[h].previous, s.accounts[a].rep_block,
                                             BalanceOf[Block[h].previous])
        /\ Undone(s, h).pending = [s.pending EXCEPT ![h] = NoReceivable]
    BY <2>1, <2>2 DEF UndoSendBlock
  <2> QED
    BY <1>1, <2>3 DEF LatestPut, LeavesAlone
<1>3. CASE IsReceive(h)
  <2>1. Undone(s, h) = UndoReceiveBlock(s, h)
    BY <1>3, BlockFacts DEF Undone
  <2> DEFINE p == Block[h].previous
             u == Block[h].source
             pending == [s.pending EXCEPT ![u] = Restored(h)]
  <2>a. UndoReceiveBlock(s, h) =
           [blocks |-> s.blocks \ {h}, successor |-> SuccessorDel(s, h),
            accounts |-> LatestPut(s, a, p, RepBlockOf[u], BalanceOf[p]),
            frontiers |-> FrontierMove(s, h, p, a),
            pending |-> pending,
            representation |-> Move(s, RepBlockOf[h], RepBlockOf[u], AmountOf(u)),
            checksum |-> ChecksumPut(s, a, p)]
    BY <1>1, Zenon DEF UndoReceiveBlock
  <2>2. /\ Undone(s, h).blocks = s.blocks \ {h}
        /\ Undone(s, h).accounts = LatestPut(s, a, p, RepBlockOf[u], BalanceOf[p])
        /\ Undone(s, h).pending = pending
    <3> HIDE DEF u, pending, p
    <3>1. UndoReceiveBlock(s, h).blocks = s.blocks \ {h}
      BY <2>a, SMTT(30)
    <3>2. UndoReceiveBlock(s, h).accounts = LatestPut(s, a, p, RepBlockOf[u], BalanceOf[p])
      BY <2>a, SMTT(30)
    <3>3. UndoReceiveBlock(s, h).pending = pending
      BY <2>a, SMTT(30)
    <3> QED
      BY <2>1, <3>1, <3>2, <3>3, Zenon
  <2> QED
    BY <1>1, <1>3, <2>2, Zenon DEF LatestPut, LeavesAlone, IsReceiverOf, Receives
<1>4. CASE IsOpen(h)
  <2>1. Undone(s, h) = UndoOpenBlock(s, h)
    BY <1>4, BlockFacts DEF Undone
  <2> DEFINE u == Block[h].source
             pending == [s.pending EXCEPT ![u] = Restored(h)]
  <2>a. UndoOpenBlock(s, h) =
           [blocks |-> s.blocks \ {h}, successor |-> SuccessorDel(s, h),
            accounts |-> LatestPut(s, a, NoHash, RepBlockOf[u], 0),
            frontiers |-> FrontierMove(s, h, NoHash, NoAccount),
            pending |-> pending,
            representation |-> Move(s, RepBlockOf[h], RepBlockOf[u], AmountOf(u)),
            checksum |-> ChecksumPut(s, a, NoHash)]
    BY <1>1, Zenon DEF UndoOpenBlock
  <2>2. /\ Undone(s, h).blocks = s.blocks \ {h}
        /\ Undone(s, h).accounts = LatestPut(s, a, NoHash, RepBlockOf[u], 0)
        /\ Undone(s, h).pending = pending
    <3> HIDE DEF u, pending
    <3>1. UndoOpenBlock(s, h).blocks = s.blocks \ {h}
      BY <2>a, SMTT(30)
    <3>2. UndoOpenBlock(s, h).accounts = LatestPut(s, a, NoHash, RepBlockOf[u], 0)
      BY <2>a, SMTT(30)
    <3>3. UndoOpenBlock(s, h).pending = pending
      BY <2>a, SMTT(30)
    <3> QED
      BY <2>1, <3>1, <3>2, <3>3, Zenon
  <2> QED
    BY <1>1, <1>4, <2>2, Zenon DEF LatestPut, LeavesAlone, IsReceiverOf, Receives
<1>5. CASE IsChange(h)
  <2>1. Undone(s, h) = UndoChangeBlock(s, h)
    BY <1>5, BlockFacts DEF Undone
  <2>2. AccountOf[Block[h].previous] = a
    BY <1>1, <1>5, BlockFacts, PreviousFacts
  <2>3. /\ Undone(s, h).blocks = s.blocks \ {h}
        /\ Undone(s, h).accounts = LatestPut(s, a, Block[h].previous, RepBlockOf[Block[h].previous],
                                             s.accounts[a].balance)
        /\ Undone(s, h).pending = s.pending
    BY <2>1, <2>2 DEF UndoChangeBlock
  <2> QED
    BY <1>1, <2>3 DEF LatestPut, LeavesAlone
<1> QED
  BY <1>2, <1>3, <1>4, <1>5, BlockFacts

(* A stack without its last element.                                       *)
LEMMA FrontFacts ==
    ASSUME NEW S, NEW seq \in Seq(S), seq # <<>>
    PROVE  LET front == SubSeq(seq, 1, Len(seq) - 1)
           IN /\ front \in Seq(S) /\ Len(front) = Len(seq) - 1
              /\ \A i \in 1..(Len(seq) - 1) : front[i] = seq[i]
<1>1. Len(seq) \in Nat /\ Len(seq) > 0 /\ \A i \in 1..(Len(seq) - 1) : seq[i] \in S
  OBVIOUS
<1>2. CASE Len(seq) = 1
  BY <1>1, <1>2
<1>3. CASE Len(seq) > 1
  <2> DEFINE m == Len(seq) - 1
  <2>1. m \in Nat /\ 1 <= m /\ m <= Len(seq)
    BY <1>1, <1>3
  <2>2. SubSeq(seq, 1, m) \in Seq(S)
    BY <1>1, <2>1
  <2>3. Len(SubSeq(seq, 1, m)) = m
    BY <1>1, <2>1
  <2>4. \A i \in 1..m : SubSeq(seq, 1, m)[i] = seq[i]
    BY <1>1, <2>1
  <2> QED
    BY <2>2, <2>3, <2>4
<1>4. Len(seq) = 1 \/ Len(seq) > 1
  <2>1. Len(seq) \in Nat /\ Len(seq) > 0
    BY <1>1
  <2>2. \A k \in Nat : k > 0 => k = 1 \/ k > 1
    OBVIOUS
  <2> QED
    BY <2>1, <2>2, Zenon
<1> QED
  BY <1>2, <1>3, <1>4

(* The turn of the innermost call leaves the chains of the other calls     *)
(* alone; it ends every call but the outermost one.                        *)
LEMMA PopNested ==
    ASSUME NEW s, TablesInv(s), NEW t, NEW calls \in Seq(Hash), calls # <<>>,
           Nested(s, calls), NEW h, LastHead(s, calls, h),
           LeavesAlone(s, t, h, AccountOf[calls[Len(calls)]])
    PROVE  /\ h = calls[Len(calls)] => Nested(t, SubSeq(calls, 1, Len(calls) - 1))
           /\ h # calls[Len(calls)] => Nested(t, calls)
<1> DEFINE n == Len(calls)
           last == calls[n]
           less == SubSeq(calls, 1, n - 1)
<1>1. /\ n \in Nat /\ n > 0 /\ n - 1 \in Nat /\ Len(less) = n - 1
      /\ \A i \in 1..(n - 1) : less[i] = calls[i]
  <2>1. n \in Nat /\ n > 0
    OBVIOUS
  <2>2. n - 1 \in Nat /\ n - 1 <= Len(calls) /\ 1..(n - 1) \subseteq 1..n
    BY <2>1
  <2>3. Len(less) = n - 1 /\ \A i \in 1..(n - 1) : less[i] = calls[i]
    BY <2>1, <2>2, FrontFacts
  <2> QED
    BY <2>1, <2>2, <2>3
<1>2. /\ \A i \in 1..n : calls[i] \in s.blocks \ {GenesisHash}
      /\ \A i \in 2..n : HeadOf(s, calls[i]) = calls[i]
      /\ \A i, j \in 1..n : i < j => Depth[HeadOf(s, calls[i])] < Depth[HeadOf(s, calls[j])]
      /\ \A i \in 1..(n - 1) : /\ Received(s, HeadOf(s, calls[i]))
                               /\ Block[HeadOf(s, calls[i])].destination = AccountOf[calls[i + 1]]
  BY DEF Nested
<1>3. /\ h = HeadOf(s, last) /\ last = calls[n] /\ LeavesAlone(s, t, h, AccountOf[last])
      /\ last \in s.blocks
  BY <1>1, <1>2 DEF LastHead
<1> HIDE DEF n, last, less
<1>4. \A i \in 1..n : /\ AccountOf[calls[i]] \in Account /\ HeadOf(s, calls[i]) \in Hash
                      /\ AccountOf[HeadOf(s, calls[i])] = AccountOf[calls[i]]
  BY <1>2, ChainFacts
<1>5. \A i, j \in 1..n : i < j => AccountOf[calls[i]] # AccountOf[calls[j]]
  <2> SUFFICES ASSUME NEW i \in 1..n, NEW j \in 1..n, i < j,
                      AccountOf[calls[i]] = AccountOf[calls[j]]
               PROVE  FALSE
    OBVIOUS
  <2>1. HeadOf(s, calls[i]) = HeadOf(s, calls[j])
    BY DEF HeadOf
  <2>2. Depth[HeadOf(s, calls[i])] < Depth[HeadOf(s, calls[i])]
    BY <1>2, <2>1
  <2>3. Depth[HeadOf(s, calls[i])] \in Nat
    BY <1>4, DepthUnfolds
  <2> QED
    BY <2>2, <2>3
<1>6. ASSUME NEW i \in 1..(n - 1)
      PROVE  /\ calls[i] # h /\ calls[i] \in t.blocks \ {GenesisHash}
             /\ HeadOf(t, calls[i]) = HeadOf(s, calls[i])
  <2>1. i \in 1..n /\ n \in 1..n /\ i < n
    BY <1>1
  <2>2. AccountOf[calls[i]] # AccountOf[last] /\ AccountOf[calls[i]] \in Account
    BY <1>3, <1>4, <1>5, <2>1
  <2>3. AccountOf[h] = AccountOf[last]
    BY <1>3, <1>4, <2>1
  <2>4. calls[i] # h
    BY <2>2, <2>3
  <2> QED
    BY <1>2, <1>3, <2>1, <2>2, <2>4, Zenon DEF LeavesAlone, HeadOf
<1>7. ASSUME NEW i \in 1..(n - 2)
      PROVE  Received(t, HeadOf(s, calls[i]))
  <2>1. i \in 1..n /\ i + 1 \in 1..n /\ n \in 1..n /\ i + 1 < n /\ i \in 1..(n - 1)
    BY <1>1
  <2>2. HeadOf(s, calls[i]) # h
    <3>1. i < n
      BY <1>1, <2>1
    <3>2. AccountOf[calls[i]] # AccountOf[calls[n]]
      BY <1>5, <2>1, <3>1, Zenon
    <3>3. /\ AccountOf[HeadOf(s, calls[i])] = AccountOf[calls[i]]
          /\ AccountOf[HeadOf(s, calls[n])] = AccountOf[calls[n]]
      BY <1>4, <2>1, Zenon
    <3>4. h = HeadOf(s, calls[n])
      BY <1>3
    <3> QED
      BY <3>2, <3>3, <3>4, Zenon
  <2>3. ~IsReceiverOf(h, HeadOf(s, calls[i]))
    <3> SUFFICES ASSUME IsReceiverOf(h, HeadOf(s, calls[i])) PROVE FALSE
      OBVIOUS
    <3>1. h \in s.blocks /\ AccountOf[h] = AccountOf[last] /\ ReferencesStored(s)
      BY <1>3, ChainFacts, InvFacts, Zenon DEF ChainInv
    <3>2. h # GenesisHash
      BY <1>4, <2>1, GenesisReceivesNothing
    <3>3. AccountOf[h] = Block[HeadOf(s, calls[i])].destination
      BY <3>1, <3>2 DEF ReferencesStored, IsReceiverOf
    <3>4. AccountOf[last] = AccountOf[calls[i + 1]]
      BY <1>2, <2>1, <3>1, <3>3
    <3> QED
      BY <1>3, <1>5, <2>1, <3>4
  <2>4. Received(s, HeadOf(s, calls[i])) /\ HeadOf(s, calls[i]) \in Hash
    BY <1>2, <1>4, <2>1
  <2> QED
    BY <1>3, <2>2, <2>3, <2>4 DEF LeavesAlone, Received, PendingExists
<1>8. h = last => Nested(t, less)
  <2>1. \A i \in 1..(n - 1) : less[i] \in t.blocks \ {GenesisHash}
    BY <1>1, <1>6
  <2>2. \A i \in 2..(n - 1) : HeadOf(t, less[i]) = less[i]
    BY <1>1, <1>2, <1>6
  <2>3. \A i, j \in 1..(n - 1) :
           i < j => Depth[HeadOf(t, less[i])] < Depth[HeadOf(t, less[j])]
    BY <1>1, <1>2, <1>6
  <2>4. \A i \in 1..(n - 2) :
           /\ Received(t, HeadOf(t, less[i]))
           /\ Block[HeadOf(t, less[i])].destination = AccountOf[less[i + 1]]
    <3> TAKE i \in 1..(n - 2)
    <3>1. i \in 1..(n - 1) /\ i + 1 \in 1..(n - 1)
      BY <1>1
    <3>2. less[i] = calls[i] /\ less[i + 1] = calls[i + 1]
      BY <1>1, <3>1
    <3>3. HeadOf(t, less[i]) = HeadOf(s, calls[i])
      BY <1>6, <3>1, <3>2
    <3> QED
      BY <1>2, <1>7, <3>1, <3>2, <3>3
  <2>5. (n - 1) - 1 = n - 2
    BY <1>1
  <2> QED
    BY <1>1, <2>1, <2>2, <2>3, <2>4, <2>5 DEF Nested
<1>9. ASSUME h # last
      PROVE  Nested(t, calls)
  <2>1. n = 1
    BY <1>1, <1>2, <1>3, <1>9
  <2>2. calls[1] \in t.blocks \ {GenesisHash}
    BY <1>2, <1>3, <1>9, <2>1 DEF LeavesAlone
  <2> QED
    BY <2>1, <2>2 DEF Nested, n
<1> QED
  BY <1>8, <1>9 DEF n, last, less

-----------------------------------------------------------------------------
(* The invariant and the theorems.                                         *)

(* The invariant that is inductive: the tables are consistent, the calls   *)
(* are nested, and no assertion about a missing block was ever hit.        *)
LostBlock == {"latest_error", "block"}
IndInv == LedgerInv /\ TypeOK /\ CallsNested /\ failed \notin LostBlock

MoveFailures == {"none", "source_block", "destination_block", "source_previous"}

(* Only the undoing of the genesis block misses a block.                   *)
LEMMA FailureRange ==
    ASSUME NEW s, NEW h \in Hash
    PROVE  /\ ProcessFailure(s, h) \in MoveFailures
           /\ h # GenesisHash => UndoFailure(s, h) \in MoveFailures
<1>1. \A z, x, y, v : MoveFailure(z, x, y, v) \in MoveFailures
  BY DEF MoveFailure, MoveFailures
<1>2. "none" \in MoveFailures
  BY DEF MoveFailures
<1>3. ProcessFailure(s, h) \in MoveFailures
  <2>1. CASE IsSend(h)
    BY <1>2, <2>1, BlockFacts, Zenon DEF ProcessFailure
  <2>2. CASE IsReceive(h)
    <3>1. ~IsSend(h)
      BY <2>2, BlockFacts
    <3>2. MoveFailure([s EXCEPT !.blocks = @ \cup {h}],
                      s.accounts[s.pending[Block[h].source].source].rep_block,
                      s.accounts[s.pending[Block[h].source].destination].rep_block,
                      s.pending[Block[h].source].amount) \in MoveFailures
      BY <1>1, Zenon
    <3> QED
      BY <2>2, <3>1, <3>2, FailureOfReceive, Zenon
  <2>3. CASE IsOpen(h)
    <3>1. MoveFailure([s EXCEPT !.blocks = @ \cup {h}],
                      s.accounts[s.pending[Block[h].source].source].rep_block,
                      h, s.pending[Block[h].source].amount) \in MoveFailures
      BY <1>1, Zenon
    <3> QED
      BY <2>3, <3>1, FailureOfOpen, Zenon
  <2>4. CASE IsChange(h)
    BY <1>1, <2>4, BlockFacts DEF ProcessFailure
  <2> QED
    BY <2>1, <2>2, <2>3, <2>4, BlockFacts
<1>4. ASSUME h # GenesisHash
      PROVE  UndoFailure(s, h) \in MoveFailures
  <2>1. CASE IsSend(h)
    BY <1>2, <1>4, <2>1, BlockFacts DEF UndoFailure, Receives
  <2>2. CASE Receives(h)
    <3>1. ~IsSend(h) /\ ~IsChange(h)
      BY <2>2, BlockFacts DEF Receives
    <3>2. UndoFailure(s, h) = MoveFailure(s, RepBlockOf[h], RepBlockOf[Block[h].source],
                                          AmountOf(Block[h].source))
      BY <1>4, <2>2, <3>1 DEF UndoFailure
    <3> QED
      BY <1>1, <3>2
  <2>3. CASE IsChange(h)
    <3>1. ~IsSend(h) /\ ~Receives(h)
      BY <2>3, BlockFacts DEF Receives
    <3>2. UndoFailure(s, h) = MoveFailure(s, h, RepBlockOf[Block[h].previous],
                                          BalanceOf[Block[h].previous])
      BY <1>4, <2>3, <3>1 DEF UndoFailure
    <3> QED
      BY <1>1, <3>2
  <2> QED
    BY <2>1, <2>2, <2>3, BlockFacts DEF Receives
<1> QED
  BY <1>3, <1>4

(* The stacks of no call and of one call.                                  *)
LEMMA ShortNested ==
    ASSUME NEW s
    PROVE  /\ Nested(s, <<>>)
           /\ \A h \in s.blocks \ {GenesisHash} : Nested(s, <<h>>)
<1>1. Nested(s, <<>>)
  BY DEF Nested
<1>2. ASSUME NEW h \in s.blocks \ {GenesisHash}
      PROVE  Nested(s, <<h>>)
  <2>1. Len(<<h>>) = 1 /\ <<h>>[1] = h
    OBVIOUS
  <2>2. \A i, j \in 1..1 : ~(i < j)
    OBVIOUS
  <2>3. 2..1 = {} /\ 1..(1 - 1) = {} /\ 1..1 = {1}
    OBVIOUS
  <2> QED
    BY <2>1, <2>2, <2>3 DEF Nested
<1> QED
  BY <1>1, <1>2

(* The block that the innermost call works on.                             *)
LEMMA LatestFacts ==
    ASSUME IndInv, RollingBack
    PROVE  /\ TablesInv(txn) /\ targets \in Seq(Hash) /\ Len(targets) \in 1..Len(targets)
           /\ Target \in txn.blocks /\ AccountOf[Target] \in Account
           /\ Latest(txn) \in Hash /\ Latest(txn) \in txn.blocks
           /\ Latest(txn) # NoHash /\ Latest(txn) # GenesisHash
           /\ LastHead(txn, targets, Latest(txn))
           /\ txn.accounts[AccountOf[Target]].head = Latest(txn)
<1>1. TablesInv(txn) /\ targets \in Seq(Hash) /\ targets # <<>> /\ Nested(txn, targets)
  BY DEF IndInv, LedgerInv, TypeOK, CallsNested, RollingBack
<1>2. Len(targets) \in 1..Len(targets)
  <2>1. Len(targets) \in Nat /\ Len(targets) > 0
    BY <1>1
  <2> QED
    BY <2>1
<1>3. Target \in txn.blocks \ {GenesisHash}
  BY <1>1, <1>2 DEF Nested, Target
<1>4. /\ AccountOf[Target] \in Account /\ HeadOf(txn, Target) \in Hash
      /\ HeadOf(txn, Target) \in txn.blocks /\ HeadOf(txn, Target) # GenesisHash
  BY <1>1, <1>3, ChainFacts
<1> QED
  BY <1>1, <1>2, <1>3, <1>4, Numbers DEF Latest, LastHead, Target, HeadOf

(* Every step keeps the invariant.                                         *)
LEMMA StepKeepsInv ==
    ASSUME IndInv, [Next]_vars
    PROVE  IndInv'
<1>1. /\ TablesInv(store) /\ TablesInv(txn) /\ targets \in Seq(Hash)
      /\ Nested(txn, targets) /\ failed \in MoveFailures
  BY DEF IndInv, LedgerInv, TypeOK, CallsNested, MoveFailures, LostBlock
<1>2. SUFFICES /\ TablesInv(store)' /\ TablesInv(txn)' /\ targets' \in Seq(Hash)
               /\ Nested(txn', targets') /\ failed' \in MoveFailures
  <2>1. TablesOK(store)' /\ TablesOK(txn)'
    BY <1>2 DEF TablesInv
  <2> QED
    BY <1>2, <2>1 DEF IndInv, LedgerInv, TypeOK, CallsNested, MoveFailures, LostBlock
<1>3. ASSUME NEW h \in Hash, NEW signer \in Account, Process(h, signer)
      PROVE  /\ TablesInv(store)' /\ TablesInv(txn)' /\ targets' \in Seq(Hash)
             /\ Nested(txn', targets') /\ failed' \in MoveFailures
  <2>1. TablesInv(Processed(txn, h))
    BY <1>1, <1>3, ProcessKeepsInv DEF Process
  <2>2. /\ txn' = Processed(txn, h) /\ store' = Processed(txn, h)
        /\ targets' = <<>> /\ failed' = failed
    BY <1>3 DEF Process, Idle
  <2> QED
    BY <1>1, <2>1, <2>2, ShortNested
<1>4. ASSUME NEW h \in Hash, NEW signer \in Account, ProcessAsserts(h, signer)
      PROVE  /\ TablesInv(store)' /\ TablesInv(txn)' /\ targets' \in Seq(Hash)
             /\ Nested(txn', targets') /\ failed' \in MoveFailures
  BY <1>1, <1>4, FailureRange DEF ProcessAsserts
<1>5. ASSUME NEW h \in Hash, Rollback(h)
      PROVE  /\ TablesInv(store)' /\ TablesInv(txn)' /\ targets' \in Seq(Hash)
             /\ Nested(txn', targets') /\ failed' \in MoveFailures
  <2>1. h \in txn.blocks \ {GenesisHash}
    BY <1>5 DEF Rollback, Idle
  <2>2. Nested(txn, <<h>>)
    BY <2>1, ShortNested
  <2> QED
    BY <1>1, <1>5, <2>2 DEF Rollback
<1>6. ASSUME RollbackReceiver
      PROVE  /\ TablesInv(store)' /\ TablesInv(txn)' /\ targets' \in Seq(Hash)
             /\ Nested(txn', targets') /\ failed' \in MoveFailures
  <2> DEFINE g == Latest(txn)
             q == txn.accounts[Block[g].destination].head
  <2>1. /\ g \in txn.blocks /\ LastHead(txn, targets, g) /\ targets # <<>>
        /\ Received(txn, g) /\ ReceiverHead(txn, g, q) /\ targets' = Append(targets, q)
        /\ store' = store /\ txn' = txn /\ failed' = failed
    BY <1>6, LatestFacts DEF RollbackReceiver, RollingBack, ReceiverHead
  <2> HIDE DEF g, q
  <2>2. Nested(txn, Append(targets, q))
    BY <1>1, <2>1, PushNested
  <2>3. q \in Hash
    BY <1>1, <2>1, ReceiverFacts, InvFacts, Zenon
  <2> QED
    BY <1>1, <2>1, <2>2, <2>3
<1>7. ASSUME RollbackHead
      PROVE  /\ TablesInv(store)' /\ TablesInv(txn)' /\ targets' \in Seq(Hash)
             /\ Nested(txn', targets') /\ failed' \in MoveFailures
  <2> DEFINE h == Latest(txn)
             a == AccountOf[Target]
             t == Undone(txn, h)
  <2>1. /\ h \in Hash /\ a \in Account /\ txn.accounts[a].head = h
        /\ LastHead(txn, targets, h) /\ targets # <<>>
        /\ ~Received(txn, h) /\ UndoFailure(txn, h) = "none"
        /\ a = AccountOf[targets[Len(targets)]]
    BY <1>7, LatestFacts DEF RollbackHead, RollingBack, Target
  <2>2. /\ txn' = t /\ store' = store /\ failed' = failed
        /\ targets' = IF h = targets[Len(targets)]
                      THEN SubSeq(targets, 1, Len(targets) - 1) ELSE targets
        /\ t = Undone(txn, h)
    BY <1>7 DEF RollbackHead, Target
  <2> HIDE DEF h, a, t
  <2>3. TablesInv(t)
    BY <1>1, <2>1, <2>2, UndoKeepsInv
  <2>4. LeavesAlone(txn, t, h, AccountOf[targets[Len(targets)]])
    BY <1>1, <2>1, <2>2, UndoLeavesAlone
  <2>5. /\ h = targets[Len(targets)] => Nested(t, SubSeq(targets, 1, Len(targets) - 1))
        /\ h # targets[Len(targets)] => Nested(t, targets)
    BY <1>1, <2>1, <2>4, PopNested, Zenon
  <2>6. SubSeq(targets, 1, Len(targets) - 1) \in Seq(Hash)
    BY <1>1, <2>1, FrontFacts
  <2> QED
    BY <1>1, <2>2, <2>3, <2>5, <2>6
<1>8. ASSUME RollbackAsserts
      PROVE  /\ TablesInv(store)' /\ TablesInv(txn)' /\ targets' \in Seq(Hash)
             /\ Nested(txn', targets') /\ failed' \in MoveFailures
  <2>1. /\ Latest(txn) \in Hash /\ Latest(txn) \in txn.blocks
        /\ Latest(txn) # NoHash /\ Latest(txn) # GenesisHash
    BY <1>8, LatestFacts DEF RollbackAsserts
  <2>2. UndoFailure(txn, Latest(txn)) \in MoveFailures /\ "none" \in MoveFailures
    BY <2>1, FailureRange DEF MoveFailures
  <2>3. Received(txn, Latest(txn)) => AccountExists(txn, Block[Latest(txn)].destination)
    <3>1. ReceiverHead(txn, Latest(txn), txn.accounts[Block[Latest(txn)].destination].head)
      BY DEF ReceiverHead
    <3> QED
      BY <1>1, <2>1, <3>1, ReceiverFacts
  <2>4. RollbackFailure \in MoveFailures
    BY <2>1, <2>2, <2>3 DEF RollbackFailure
  <2> QED
    BY <1>1, <1>8, <2>4 DEF RollbackAsserts
<1>9. ASSUME NEW h \in Hash, NEW signer \in Account, Commit(h, signer)
      PROVE  /\ TablesInv(store)' /\ TablesInv(txn)' /\ targets' \in Seq(Hash)
             /\ Nested(txn', targets') /\ failed' \in MoveFailures
  <2>1. TablesInv(txn')
    <3>1. CASE ProcessResult(txn, h, signer) = "progress"
      BY <1>1, <1>9, <3>1, ProcessKeepsInv DEF Commit
    <3>2. CASE ProcessResult(txn, h, signer) # "progress"
      BY <1>1, <1>9, <3>2 DEF Commit
    <3> QED
      BY <3>1, <3>2
  <2>2. store' = txn' /\ targets' = <<>> /\ failed' = failed
    BY <1>9 DEF Commit, RolledBack
  <2> QED
    BY <1>1, <2>1, <2>2, ShortNested
<1>10. ASSUME NEW h \in Hash, NEW signer \in Account, CommitAsserts(h, signer)
       PROVE  /\ TablesInv(store)' /\ TablesInv(txn)' /\ targets' \in Seq(Hash)
              /\ Nested(txn', targets') /\ failed' \in MoveFailures
  BY <1>1, <1>10, FailureRange DEF CommitAsserts
<1>11. ASSUME Reopen
       PROVE  /\ TablesInv(store)' /\ TablesInv(txn)' /\ targets' \in Seq(Hash)
              /\ Nested(txn', targets') /\ failed' \in MoveFailures
  <2>1. /\ store' = [store EXCEPT !.checksum = {}] /\ txn' = store'
        /\ targets' = <<>> /\ failed' = "none"
    BY <1>11 DEF Reopen
  <2>2. TablesInv([store EXCEPT !.checksum = {}])
    BY <1>1, ReopenKeepsInv
  <2> QED
    BY <2>1, <2>2, ShortNested DEF MoveFailures
<1>12. CASE UNCHANGED vars
  BY <1>1, <1>12 DEF vars
<1> QED
  BY <1>3, <1>4, <1>5, <1>6, <1>7, <1>8, <1>9, <1>10, <1>11, <1>12 DEF Next

-----------------------------------------------------------------------------
(* What the invariant says.                                                *)

(* At most one stored block has a given root, and the trailer of a block   *)
(* that is not a head leads to its successor (ledger::successor).          *)
LEMMA NoFork ==
    ASSUME NEW s, TablesInv(s)
    PROVE  /\ \A h, i \in s.blocks : Root(h) = Root(i) => h = i
           /\ \A h \in s.blocks : s.frontiers[h] = NoAccount =>
                 s.successor[h] \in s.blocks /\ Follows(s.successor[h], h)
<1>1. SuccessorsLinked(s) /\ HeightsOrdered(s) /\ s.blocks \subseteq Hash
  BY InvFacts, Zenon DEF ChainInv
<1>2. ASSUME NEW h \in s.blocks, NEW i \in s.blocks, Root(h) = Root(i)
      PROVE  h = i
  <2>1. CASE IsOpen(h) /\ IsOpen(i)
    <3>1. AccountOf[h] = AccountOf[i] /\ Height[h] = Height[i]
      BY <1>1, <1>2, <2>1, OpenStarts DEF Root
    <3> QED
      BY <1>1, <3>1 DEF HeightsOrdered
  <2>2. CASE ~IsOpen(h) /\ ~IsOpen(i)
    <3>1. Block[h].previous = Block[i].previous
      BY <1>2, <2>2 DEF Root
    <3> QED
      BY <1>1, <2>2, <3>1 DEF SuccessorsLinked
  <2>3. CASE IsOpen(h) /\ ~IsOpen(i)
    BY <1>1, <1>2, <2>3, Numbers, BlockFacts, PreviousType DEF Root
  <2>4. CASE ~IsOpen(h) /\ IsOpen(i)
    BY <1>1, <1>2, <2>4, Numbers, BlockFacts, PreviousType DEF Root
  <2> QED
    BY <2>1, <2>2, <2>3, <2>4
<1>3. ASSUME NEW h \in s.blocks, s.frontiers[h] = NoAccount
      PROVE  s.successor[h] \in s.blocks /\ Follows(s.successor[h], h)
  <2>1. PICK i \in s.blocks : Follows(i, h)
    BY <1>1, <1>3 DEF SuccessorsLinked
  <2> QED
    BY <1>1, <2>1 DEF SuccessorsLinked, Follows
<1> QED
  BY <1>2, <1>3

(* ledger_processor answers fork only where the store holds another block  *)
(* with the root of the refused one.                                       *)
LEMMA ForkRival ==
    ASSUME NEW s, TablesInv(s), NEW h \in Hash, NEW signer \in Account,
           ProcessResult(s, h, signer) = "fork",
           IsReceive(h) => AccountOf[Block[h].previous] = AccountOf[h]
    PROVE  \E g \in s.blocks \ {h} : Root(g) = Root(h)
<1> DEFINE p == Block[h].previous
           u == Block[h].source
<1>1. /\ SuccessorsLinked(s) /\ HeadsIndexed(s) /\ HeadsOwned(s) /\ AccountsOpened(s)
      /\ PendingSound(s) /\ s.blocks \subseteq Hash
      /\ s.frontiers \in [Hash -> Account \cup {NoAccount}]
      /\ s.pending \in [Hash -> Receivable \cup {NoReceivable}]
  BY InvFacts, Zenon DEF ChainInv, PendingInv
<1>2. ASSUME ~IsOpen(h), h \notin s.blocks, p \in s.blocks, s.frontiers[p] = NoAccount
      PROVE  \E g \in s.blocks \ {h} : Root(g) = Root(h)
  <2>1. PICK i \in s.blocks : Follows(i, p)
    BY <1>1, <1>2 DEF SuccessorsLinked
  <2> QED
    BY <1>2, <2>1 DEF Follows, Root
<1>3. CASE IsSend(h)
  <2>1. SendResult(s, h, signer) = "fork" /\ ~IsOpen(h)
    BY <1>3, BlockFacts DEF ProcessResult
  <2>2. h \notin s.blocks /\ p \in s.blocks /\ s.frontiers[p] = NoAccount
    BY <2>1 DEF SendResult
  <2> QED
    BY <1>2, <2>1, <2>2
<1>4. CASE IsChange(h)
  <2>1. ChangeResult(s, h, signer) = "fork" /\ ~IsOpen(h)
    BY <1>4, BlockFacts DEF ProcessResult
  <2>2. h \notin s.blocks /\ p \in s.blocks /\ s.frontiers[p] = NoAccount
    BY <2>1 DEF ChangeResult
  <2> QED
    BY <1>2, <2>1, <2>2
<1>5. CASE IsReceive(h)
  <2>1. ReceiveResult(s, h, signer) = "fork" /\ ~IsOpen(h) /\ u \in Hash
    BY <1>5, BlockFacts DEF ProcessResult
  <2>2. /\ h \notin s.blocks /\ p \in s.blocks /\ PendingExists(s, u)
        /\ s.accounts[s.pending[u].destination].head # p
    BY <2>1, Zenon DEF ReceiveResult, PendingExists
  <2>3. IsSend(u) /\ s.pending[u].destination = Block[u].destination
    BY <2>1, <2>2, ReceivableFacts, Zenon DEF PendingExists
  <2>4. AccountOf[p] = Block[u].destination
    BY <1>5, <2>3, WalksUnfold, Zenon
  <2>5. s.frontiers[p] = NoAccount
    <3>0. p \in Hash
      BY <1>1, <2>2, Zenon
    <3>f. s.frontiers[p] \in Account \cup {NoAccount}
      BY <1>1, <3>0
    <3>1. SUFFICES ASSUME NEW a \in Account, s.frontiers[p] = a PROVE FALSE
      BY <3>f
    <3>2. s.accounts[a].head = p /\ p \in Hash
      <4>1. HeadsIndexed(s)
        BY <1>1
      <4> QED
        BY <3>0, <3>1, <4>1, Zenon DEF HeadsIndexed
    <3>3. AccountOf[p] = a
      BY <3>2, HeadFacts
    <3> QED
      BY <2>2, <2>3, <2>4, <3>2, <3>3, Zenon
  <2> QED
    BY <1>2, <2>1, <2>2, <2>5, Zenon
<1>6. CASE IsOpen(h)
  <2>1. OpenResult(s, h, signer) = "fork" /\ Block[h].account \in Account
    BY <1>6, BlockFacts DEF ProcessResult
  <2>2. h \notin s.blocks /\ AccountExists(s, Block[h].account)
    BY <2>1 DEF OpenResult
  <2>3. PICK g \in s.blocks : IsOpen(g) /\ Block[g].account = Block[h].account
    BY <1>1, <2>1, <2>2 DEF AccountsOpened
  <2> QED
    BY <1>6, <2>2, <2>3 DEF Root
<1> QED
  BY <1>3, <1>4, <1>5, <1>6, BlockFacts

(* No two rollback calls in progress have the same argument: the chains    *)
(* they work on have heads of different depth.                             *)
LEMMA CallsDiffer ==
    ASSUME NEW s, TablesInv(s), NEW calls \in Seq(Hash), Nested(s, calls)
    PROVE  \A i, j \in 1..Len(calls) : calls[i] = calls[j] => i = j
<1>1. SUFFICES \A i, j \in 1..Len(calls) : calls[i] = calls[j] => ~(i < j)
  <2>1. \A i, j \in Int : ~(i < j) /\ ~(j < i) => i = j
    OBVIOUS
  <2>2. \A i \in 1..Len(calls) : i \in Int
    OBVIOUS
  <2> QED
    BY <1>1, <2>1, <2>2
<1> SUFFICES ASSUME NEW i \in 1..Len(calls), NEW j \in 1..Len(calls),
                    calls[i] = calls[j], i < j
             PROVE  FALSE
  OBVIOUS
<1>2. Depth[HeadOf(s, calls[i])] < Depth[HeadOf(s, calls[j])]
  BY DEF Nested
<1>3. HeadOf(s, calls[i]) = HeadOf(s, calls[j]) /\ calls[i] \in s.blocks
  BY DEF Nested
<1>4. HeadOf(s, calls[i]) \in Hash
  BY <1>3, ChainFacts
<1>5. Depth[HeadOf(s, calls[i])] \in Nat
  BY <1>4, DepthUnfolds
<1> QED
  BY <1>2, <1>3, <1>5

-----------------------------------------------------------------------------
(* The theorems.                                                           *)

(* The opening of an empty store establishes the invariant.                *)
LEMMA InitKeepsInv ==
    ASSUME Init
    PROVE  IndInv
<1>1. TablesInv(store) /\ TablesInv(txn) /\ targets = <<>> /\ failed = "none"
  BY GenesisInv DEF Init
<1>2. TablesOK(store) /\ TablesOK(txn)
  BY <1>1 DEF TablesInv
<1>3. Nested(txn, targets)
  BY <1>1, ShortNested
<1> QED
  BY <1>1, <1>2, <1>3 DEF IndInv, LedgerInv, TypeOK, CallsNested, LostBlock

(* The inductive invariant holds in every state of every behaviour of      *)
(* ledger::process, ledger::rollback and the reopening of the store.       *)
THEOREM Invariance == Spec => []IndInv
<1>1. Init => IndInv
  BY InitKeepsInv
<1>2. IndInv /\ [Next]_vars => IndInv'
  BY StepKeepsInv
<1> QED
  BY <1>1, <1>2, PTL DEF Spec

(* The tables keep their types and are consistent before, during and after *)
(* every transaction.                                                      *)
THEOREM TypeCorrect == Spec => [](TypeOK /\ LedgerInv)
BY Invariance, PTL DEF IndInv

(* Balances and receivables always sum up to the genesis amount, whatever  *)
(* blocks ledger_processor accepts and rollback_visitor undoes.            *)
THEOREM MoneyConserved == Spec => []SupplyConserved
<1>1. IndInv => SupplyConserved
  BY DEF IndInv, LedgerInv, TablesInv, SupplyConserved
<1> QED
  BY <1>1, Invariance, PTL

(* The weights of the representatives always sum up to the genesis amount, *)
(* although move_representation may take them from the wrong one.          *)
THEOREM WeightsConserved == Spec => []WeightConserved
<1>1. IndInv => WeightConserved
  BY DEF IndInv, LedgerInv, TablesInv, WeightConserved
<1> QED
  BY <1>1, Invariance, PTL

(* The accounts, frontiers, pending and block tables agree with each other *)
(* and with what the visitors compute from the blocks.                     *)
THEOREM TablesAgree == Spec => [](FrontiersAreHeads /\ PendingExact /\ Closed)
<1>1. IndInv => FrontiersAreHeads /\ PendingExact /\ Closed
  BY DEF IndInv, LedgerInv, TablesInv, ChainInv, FrontiersAreHeads, PendingExact, Closed
<1> QED
  BY <1>1, Invariance, PTL

(* The balance that the accounts table caches is always the one that       *)
(* balance_visitor computes from the account's chain.                      *)
THEOREM BalancesTrue == Spec => []BalancesMatchChains
<1>1. IndInv => BalancesMatchChains
  BY DEF IndInv, LedgerInv, TablesInv, ChainInv, BalancesMatchChains
<1> QED
  BY <1>1, Invariance, PTL

(* Of the blocks that exclude each other the store holds at most one, and  *)
(* the trailers of the blocks are the chains in the other direction        *)
(* (block_put and block_del keep them so, ledger::successor relies on it). *)
THEOREM NoForkStored == Spec => []ChainsDoNotFork
<1>1. IndInv => ChainsDoNotFork
  <2>1. SUFFICES ASSUME IndInv, NEW s \in {store, txn}
                 PROVE  /\ \A h, i \in s.blocks : Root(h) = Root(i) => h = i
                        /\ \A h \in s.blocks : s.frontiers[h] = NoAccount =>
                              s.successor[h] \in s.blocks /\ Follows(s.successor[h], h)
    BY DEF ChainsDoNotFork
  <2>2. TablesInv(s)
    BY <2>1 DEF IndInv, LedgerInv
  <2> QED
    BY <2>2, NoFork
<1> QED
  BY <1>1, Invariance, PTL

(* A fork verdict of ledger_processor always has a stored rival block.     *)
THEOREM ForksHaveRivals == Spec => []ForkHasRival
<1>1. IndInv => ForkHasRival
  <2>1. SUFFICES ASSUME IndInv, NEW h \in Hash, NEW signer \in Account,
                        ProcessResult(txn, h, signer) = "fork",
                        IsReceive(h) => AccountOf[Block[h].previous] = AccountOf[h]
                 PROVE  \E g \in txn.blocks \ {h} : Root(g) = Root(h)
    BY DEF ForkHasRival
  <2>2. TablesInv(txn)
    BY <2>1 DEF IndInv, LedgerInv
  <2> QED
    BY <2>1, <2>2, ForkRival
<1> QED
  BY <1>1, Invariance, PTL

(* ledger::rollback always finds its argument and every chain on the way,  *)
(* however deep its calls nest.                                            *)
THEOREM RollbackSafe == Spec => []RollbackFindsTarget
<1>1. IndInv => RollbackFindsTarget
  <2>1. SUFFICES ASSUME IndInv PROVE RollbackFindsTarget
    OBVIOUS
  <2>2. /\ TablesInv(txn) /\ targets \in Seq(Hash) /\ Nested(txn, targets)
        /\ failed \notin {"latest_error", "block"}
    BY <2>1 DEF IndInv, LedgerInv, TypeOK, CallsNested, LostBlock
  <2>3. \A i, j \in 1..Len(targets) : targets[i] = targets[j] => i = j
    BY <2>2, CallsDiffer
  <2>4. \A i \in 1..Len(targets) : targets[i] \in txn.blocks \ {GenesisHash}
    BY <2>2 DEF Nested
  <2> QED
    BY <2>2, <2>3, <2>4 DEF RollbackFindsTarget
<1> QED
  BY <1>1, Invariance, PTL

(* The nested calls of ledger::rollback work on different chains, each one *)
(* on the chain that received from the chain of the call before it.        *)
THEOREM CallsStayNested == Spec => []CallsNested
BY Invariance, PTL DEF IndInv

(* A step of ledger_processor or of rollback_visitor changes the checksum  *)
(* by the head blocks that it changes, whatever the two were before.       *)
LEMMA StepKeepsDrift ==
    ASSUME IndInv, Next, ~Reopen
    PROVE  ChecksumDrift(txn') = ChecksumDrift(txn)
<1>1. TablesInv(txn)
  BY DEF IndInv, LedgerInv
<1>2. ASSUME NEW h \in Hash, NEW signer \in Account, ProcessResult(txn, h, signer) = "progress"
      PROVE  ChecksumDrift(Processed(txn, h)) = ChecksumDrift(txn)
  <2>1. PICK a \in Account : HeadMoves(txn, Processed(txn, h), a, h)
    BY <1>1, <1>2, ProcessMovesHead
  <2>2. ASSUME NEW b \in Account, txn.accounts[b].head = h PROVE FALSE
    <3>1. h \notin txn.blocks
      BY <1>1, <1>2, ProcessMovesHead, Zenon
    <3>2. h \in txn.blocks
      BY <1>1, <2>2, HeadFacts
    <3> QED
      BY <3>1, <3>2
  <2> QED
    BY <1>1, <2>1, <2>2, DriftKept
<1>3. ASSUME RollbackHead
      PROVE  ChecksumDrift(txn') = ChecksumDrift(txn)
  <2> DEFINE h == Latest(txn)
             a == AccountOf[Target]
  <2>1. /\ h \in Hash /\ a \in Account /\ txn.accounts[a].head = h /\ ~Received(txn, h)
        /\ txn' = Undone(txn, h)
    BY <1>3, LatestFacts DEF RollbackHead, RollingBack
  <2> HIDE DEF h, a
  <2>2. PICK g : /\ HeadMoves(txn, Undone(txn, h), a, g)
                 /\ g # NoHash => \A b \in Account : txn.accounts[b].head # g
    BY <1>1, <2>1, UndoMovesHead
  <2>3. ChecksumDrift(Undone(txn, h)) = ChecksumDrift(txn)
    BY <1>1, <2>1, <2>2, DriftKept
  <2> QED
    BY <2>1, <2>3
<1>4. ASSUME NEW h \in Hash, NEW signer \in Account, Process(h, signer) \/ Commit(h, signer)
      PROVE  ChecksumDrift(txn') = ChecksumDrift(txn)
  <2>1. \/ txn' = txn
        \/ ProcessResult(txn, h, signer) = "progress" /\ txn' = Processed(txn, h)
    BY <1>4 DEF Process, Commit
  <2> QED
    BY <1>2, <2>1
<1> QED
  BY <1>3, <1>4, Zenon DEF Next, ProcessAsserts, Rollback, RollbackReceiver, RollbackAsserts, CommitAsserts

(* change_latest keeps the checksum in step with the head blocks: nothing  *)
(* but the opening of the store, which clears it, changes their difference.*)
THEOREM ChecksumInStep == Spec => ChecksumFollowsHeads
<1>1. IndInv /\ [Next]_vars => [Reopen \/ ChecksumDrift(txn') = ChecksumDrift(txn)]_vars
  BY StepKeepsDrift
<1> QED
  BY <1>1, Invariance, PTL DEF Spec, ChecksumFollowsHeads
=============================================================================
