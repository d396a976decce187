-------------------------- MODULE TableInvariants ---------------------------
(***************************************************************************)
(* When one value s of the ledger's tables is consistent: the parts of the *)
(* invariant that ledger::process and ledger::rollback keep, and that each *)
(* module with the tables among its variables relies on.                   *)
(***************************************************************************)
EXTENDS LedgerTables, Totals

TablesOK(s) ==
    /\ s \in Tables /\ GenesisHash \in s.blocks
    /\ \A a \in Account : ~AccountExists(s, a) => s.accounts[a] = NoInfo

HeadsIndexed(s) ==
    \A h \in Hash, a \in Account : s.frontiers[h] = a <=> s.accounts[a].head = h

HeadsOwned(s) ==
    \A a \in Account : AccountExists(s, a) =>
        LET info == s.accounts[a]
        IN /\ info.head \in s.blocks
           /\ AccountOf[info.head] = a
           /\ info.balance = BalanceOf[info.head]
           /\ info.rep_block \in Hash /\ Represents(info.rep_block)

ReferencesStored(s) ==
    \A h \in s.blocks :
        /\ ~IsOpen(h) => Block[h].previous \in s.blocks
                         /\ AccountOf[Block[h].previous] = AccountOf[h]
        /\ Receives(h) /\ h # GenesisHash =>
              /\ Block[h].source \in s.blocks /\ IsSend(Block[h].source)
              /\ AccountOf[h] = Block[Block[h].source].destination

(* A chain holds one block of each height up to that of its head.          *)
HeightsOrdered(s) ==
    /\ \A h \in s.blocks :
        /\ AccountOf[h] \in Account /\ AccountExists(s, AccountOf[h])
        /\ Height[h] <= Height[s.accounts[AccountOf[h]].head]
    /\ \A h, i \in s.blocks :
        AccountOf[h] = AccountOf[i] /\ Height[h] = Height[i] => h = i

(* The blocks of a chain are made one after the other.                     *)
DepthsOrdered(s) ==
    \A h, i \in s.blocks :
        AccountOf[h] = AccountOf[i] /\ Height[h] < Height[i] => Depth[h] < Depth[i]

Follows(i, h) == ~IsOpen(i) /\ Block[i].previous = h

SuccessorsLinked(s) ==
    /\ \A h \in s.blocks : ~IsOpen(h) => s.successor[Block[h].previous] = h
    /\ \A h \in s.blocks : s.frontiers[h] = NoAccount => \E i \in s.blocks : Follows(i, h)

AccountsOpened(s) ==
    \A a \in Account : AccountExists(s, a) =>
        \E h \in s.blocks : IsOpen(h) /\ Block[h].account = a

IsReceiverOf(r, h) == Receives(r) /\ Block[r].source = h

PendingSound(s) ==
    \A h \in Hash : PendingExists(s, h) =>
        /\ h \in s.blocks /\ IsSend(h)
        /\ \A r \in s.blocks : ~IsReceiverOf(r, h)
        /\ s.pending[h] = [source |-> AccountOf[h], amount |-> AmountOf(h),
                           destination |-> Block[h].destination]

PendingComplete(s) ==
    \A h \in s.blocks : IsSend(h) =>
        PendingExists(s, h) \/ \E r \in s.blocks : IsReceiverOf(r, h)

ReceivedOnce(s) ==
    \A r, q \in {h \in s.blocks : Receives(h)} : Block[r].source = Block[q].source => r = q

AmountsNatural(s) == \A h \in s.blocks : IsSend(h) => AmountOf(h) \in Nat

BalancesNatural(s) == \A h \in s.blocks : BalanceOf[h] \in Nat

Balances(s) == [a \in Account |-> s.accounts[a].balance]
PendingAmounts(s) == [h \in Hash |-> s.pending[h].amount]

MoneyCounted(s) == Total(Balances(s)) + Total(PendingAmounts(s)) = GenesisAmount

WeightCounted(s) == Total(s.representation) = GenesisAmount

ChainInv(s) ==
    /\ HeadsIndexed(s) /\ HeadsOwned(s) /\ ReferencesStored(s)
    /\ HeightsOrdered(s) /\ DepthsOrdered(s) /\ SuccessorsLinked(s) /\ AccountsOpened(s)

PendingInv(s) ==
    /\ PendingSound(s) /\ PendingComplete(s) /\ ReceivedOnce(s) /\ AmountsNatural(s)

TablesInv(s) ==
    /\ TablesOK(s) /\ ChainInv(s) /\ PendingInv(s) /\ BalancesNatural(s)
    /\ MoneyCounted(s) /\ WeightCounted(s)

-----------------------------------------------------------------------------
(* How far the checksum is from the sum of the head blocks.                *)

SymmetricDifference(S, T) == (S \ T) \cup (T \ S)
Heads(s) == {s.accounts[a].head : a \in Account} \ {NoHash}
ChecksumDrift(s) == SymmetricDifference(s.checksum, Heads(s))
=============================================================================
