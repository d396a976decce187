---------------------------- MODULE TableProofs -----------------------------
(***************************************************************************)
(* Lemmas about the tables of the ledger, for every universe of blocks. A  *)
(* step of the ledger puts a block on top of a chain or takes the top      *)
(* block off one. Extends and Retracts say what such a step does to the    *)
(* chains, whatever the type of the block; two lemmas show that they keep  *)
(* ChainInv. What remains for each type of block is its effect on the      *)
(* pending table, the money and the weights; with it each type of block    *)
(* keeps the tables consistent when ledger::process takes it.              *)
(***************************************************************************)
EXTENDS TableInvariants, FiniteSetTheorems, TLAPS

-----------------------------------------------------------------------------
(* How Total reacts to the update of one entry.                            *)

(* The units at one argument.                                              *)
Slice(f, x) == {x} \X (1..f[x])

(* A function with natural values holds as many units at x as its value    *)
(* there.                                                                  *)
LEMMA SliceCardinality ==
    ASSUME NEW f, NEW x, f[x] \in Nat
    PROVE  IsFiniteSet(Slice(f, x)) /\ Cardinality(Slice(f, x)) = f[x]
<1>1. IsFiniteSet({x}) /\ Cardinality({x}) = 1
  BY FS_Singleton, Zenon
<1>2. IsFiniteSet(1..f[x]) /\ Cardinality(1..f[x]) = f[x]
  BY FS_Interval, SMTT(60)
<1>3. /\ IsFiniteSet({x} \X (1..f[x]))
      /\ Cardinality({x} \X (1..f[x])) = Cardinality({x}) * Cardinality(1..f[x])
  <2>1. \A T : IsFiniteSet(T) => /\ IsFiniteSet({x} \X T)
                                 /\ Cardinality({x} \X T) = Cardinality({x}) * Cardinality(T)
    BY <1>1, FS_Product
  <2> QED
    BY <1>2, <2>1, Zenon
<1> QED
  BY <1>1, <1>2, <1>3, SMT DEF Slice

(* Disjoint finite sets have as many elements together as each by itself.  *)
LEMMA DisjointUnion ==
    ASSUME NEW S, IsFiniteSet(S), NEW T, IsFiniteSet(T), S \cap T = {}
    PROVE  Cardinality(S \cup T) = Cardinality(S) + Cardinality(T)
<1>1. Cardinality(S \cup T) = Cardinality(S) + Cardinality(T) - Cardinality(S \cap T)
  BY FS_Union
<1>2. Cardinality(S \cap T) = 0
  BY FS_EmptySet
<1>3. Cardinality(S) \in Nat /\ Cardinality(T) \in Nat
  BY FS_CardinalityType
<1> QED
  BY <1>1, <1>2, <1>3, SMT

(* The units of a finite function are finitely many.                       *)
LEMMA UnitsFinite ==
    ASSUME NEW S, IsFiniteSet(S), NEW f \in [S -> Nat]
    PROVE  IsFiniteSet(Units(f))
<1> DEFINE P == {Slice(f, x) : x \in S}
           g == [x \in S |-> Slice(f, x)]
<1>1. g \in Surjection(S, P)
  BY DEF Surjection
<1>2. IsFiniteSet(P)
  BY <1>1, FS_Surjection
<1>3. \A T \in P : IsFiniteSet(T)
  BY SliceCardinality
<1>4. Units(f) = UNION P
  BY DEF Units, Slice
<1> QED
  BY <1>2, <1>3, <1>4, FS_UNION

(* A total is a natural number.                                            *)
LEMMA TotalType ==
    ASSUME NEW S, IsFiniteSet(S), NEW f \in [S -> Nat]
    PROVE  Total(f) \in Nat
BY UnitsFinite, FS_CardinalityType DEF Total

(* Changing one entry of f changes the total by the change of that entry.  *)
THEOREM TotalUpdate ==
    ASSUME NEW S, IsFiniteSet(S), NEW f \in [S -> Nat], NEW x \in S, NEW v \in Nat
    PROVE  Total([f EXCEPT ![x] = v]) = Total(f) - f[x] + v
<1> DEFINE e == [f EXCEPT ![x] = v]
           Rest == Units(f) \ Slice(f, x)
<1>1. e \in [S -> Nat] /\ e[x] = v
  OBVIOUS
<1>2. IsFiniteSet(Units(f)) /\ IsFiniteSet(Rest) /\ Cardinality(Rest) \in Nat
  BY UnitsFinite, FS_Difference, FS_CardinalityType, Zenon
<1>3. /\ IsFiniteSet(Slice(f, x)) /\ Cardinality(Slice(f, x)) = f[x]
      /\ IsFiniteSet(Slice(e, x)) /\ Cardinality(Slice(e, x)) = v
  <2>1. f[x] \in Nat
    OBVIOUS
  <2> HIDE DEF e
  <2> QED
    BY <1>1, <2>1, SliceCardinality
<1>4. Units(f) = Rest \cup Slice(f, x) /\ Rest \cap Slice(f, x) = {}
  BY DEF Units, Slice
<1>5. Units(e) = Rest \cup Slice(e, x) /\ Rest \cap Slice(e, x) = {}
  <2>1. \A u : u \in Rest <=> \E y \in S : y # x /\ u \in Slice(f, y)
    BY DEF Units, Slice
  <2>2. \A y \in S : y # x => Slice(e, y) = Slice(f, y)
    BY DEF Slice
  <2>3. \A u : u \in Units(e) <=> \E y \in S : u \in Slice(e, y)
    BY DEF Units, Slice
  <2>4. \A y \in S : y # x => Slice(e, y) \cap Slice(e, x) = {}
    BY DEF Slice
  <2> HIDE DEF e, Rest
  <2> QED
    BY <2>1, <2>2, <2>3, <2>4
<1>6. Cardinality(Units(f)) = Cardinality(Rest) + f[x]
  <2> HIDE DEF Rest, e
  <2> QED
    BY <1>2, <1>3, <1>4, DisjointUnion
<1>7. Cardinality(Units(e)) = Cardinality(Rest) + v
  <2> HIDE DEF Rest, e
  <2> QED
    BY <1>2, <1>3, <1>5, DisjointUnion
<1>8. Cardinality(Units(f)) \in Nat /\ f[x] \in Nat
  BY <1>2, FS_CardinalityType
<1> QED
  BY <1>2, <1>6, <1>7, <1>8, SMT DEF Total

-----------------------------------------------------------------------------
(* What a step does to the chains.                                         *)

(* What the type of a block says about its fields.                         *)
LEMMA BlockFacts ==
    ASSUME NEW h \in Hash
    PROVE  /\ IsSend(h) => /\ Block[h].previous \in Hash /\ Block[h].destination \in Account
                           /\ Block[h].balance \in Nat
                           /\ ~IsReceive(h) /\ ~IsOpen(h) /\ ~IsChange(h)
           /\ IsReceive(h) => /\ Block[h].previous \in Hash /\ Block[h].source \in Hash
                              /\ ~IsOpen(h) /\ ~IsChange(h)
           /\ IsOpen(h) => /\ Block[h].account \in Account /\ Block[h].representative \in Account
                           /\ h # GenesisHash => Block[h].source \in Hash
                           /\ ~IsChange(h)
           /\ IsChange(h) => Block[h].previous \in Hash /\ Block[h].representative \in Account
           /\ IsSend(h) \/ IsReceive(h) \/ IsOpen(h) \/ IsChange(h)
BY BlockType, GenesisBlock
   DEF SendBlock, ReceiveBlock, OpenBlock, ChangeBlock, IsSend, IsReceive, IsOpen, IsChange, Amount

(* Adding nothing, on either side.                                         *)
LEMMA ZeroAdded ==
    ASSUME NEW n \in Nat
    PROVE  n + 0 = 0 + n
OBVIOUS

(* A debit that fits is not too large.                                     *)
LEMMA FitsNotLess ==
    ASSUME NEW m \in Nat, NEW n \in Int, m <= n
    PROVE  ~(n < m)
OBVIOUS

(* A block that is not an open block names its predecessor.                *)
LEMMA PreviousType ==
    ASSUME NEW h \in Hash, ~IsOpen(h)
    PROVE  Block[h].previous \in Hash
BY BlockFacts

(* A send block and a receive block are neither open blocks nor genesis.   *)
LEMMA SendKind ==
    ASSUME NEW h \in Hash, IsSend(h)
    PROVE  ~IsOpen(h) /\ Block[h].balance \in Nat /\ h # GenesisHash
BY BlockFacts, GenesisBlock DEF IsOpen

LEMMA ReceiveKind ==
    ASSUME NEW h \in Hash, IsReceive(h)
    PROVE  ~IsOpen(h) /\ ~IsSend(h) /\ ~IsChange(h) /\ Receives(h) /\ h # GenesisHash
BY BlockFacts, GenesisBlock DEF IsOpen, Receives

(* An open block starts the chain of the account it names.                 *)
LEMMA OpenStarts ==
    ASSUME NEW h \in Hash, IsOpen(h)
    PROVE  AccountOf[h] = Block[h].account /\ Height[h] = 0
BY WalksUnfold

(* A block that is not an open block is one above its predecessor.         *)
LEMMA HeightStep ==
    ASSUME NEW h \in Hash, ~IsOpen(h)
    PROVE  /\ Height[h] = Height[Block[h].previous] + 1
           /\ Block[h].previous \in Hash /\ Height[Block[h].previous] \in Nat
<1>1. Block[h].previous \in Hash
  BY PreviousType
<1> QED
  BY <1>1, WalksUnfold

(* A block that names a representative names an account.                   *)
LEMMA RepresentativeType ==
    ASSUME NEW h \in Hash, Represents(h)
    PROVE  Block[h].representative \in Account
BY BlockFacts DEF Represents

-----------------------------------------------------------------------------
(* Chains.                                                                 *)

(* Block h, whose chain is a's, is put on top of it.                       *)
Extends(s, t, h, a, rep) ==
    /\ h \in Hash \ s.blocks /\ a \in Account /\ AccountOf[h] = a
    /\ rep \in Hash /\ Represents(rep)
    /\ t.blocks = s.blocks \cup {h}
    /\ t.successor = SuccessorPut(s, h)
    /\ t.accounts = [s.accounts EXCEPT ![a] =
                        [head |-> h, rep_block |-> rep, balance |-> BalanceOf[h]]]
    /\ \/ IsOpen(h) /\ ~AccountExists(s, a) /\ t.frontiers = FrontierMove(s, NoHash, h, a)
       \/ /\ ~IsOpen(h) /\ s.accounts[a].head = Block[h].previous
          /\ t.frontiers = FrontierMove(s, Block[h].previous, h, a)
    /\ Receives(h) => /\ Block[h].source \in s.blocks /\ IsSend(Block[h].source)
                      /\ AccountOf[h] = Block[Block[h].source].destination

(* A chain that is put a block on stays well formed (change_latest,        *)
(* block_put and the frontier updates of ledger_processor).                *)
LEMMA ExtendsChainInv ==
    ASSUME NEW s \in Tables, NEW t, NEW h, NEW a, NEW rep,
           ChainInv(s), Extends(s, t, h, a, rep)
    PROVE  ChainInv(t)
<1> USE DEF AccountExists
<1> DEFINE p == Block[h].previous
<1>0. /\ h \in Hash /\ h \notin s.blocks /\ a \in Account /\ AccountOf[h] = a /\ h # NoHash
      /\ s.blocks \subseteq Hash
      /\ s.accounts \in [Account -> Info]
      /\ s.frontiers \in [Hash -> Account \cup {NoAccount}]
      /\ s.successor \in [Hash -> Hash \cup {NoHash}]
  BY Numbers DEF Extends, Tables
<1>1. /\ t.accounts[a].head = h /\ t.accounts[a].rep_block = rep
      /\ t.accounts[a].balance = BalanceOf[h]
      /\ \A b \in Account \ {a} : t.accounts[b] = s.accounts[b]
  BY <1>0 DEF Extends
<1>2. t.blocks = s.blocks \cup {h}
  BY DEF Extends
<1>3. \A i \in Hash : ~IsOpen(i) => Block[i].previous \in Hash
  BY PreviousType
<1>4. /\ \A i \in s.blocks : s.accounts[AccountOf[i]].head \in s.blocks
      /\ \A i \in Hash : Height[i] \in Nat
  BY WalksUnfold DEF ChainInv, HeightsOrdered, HeadsOwned
(* No stored block refers to h.                                            *)
<1>5. /\ \A i \in s.blocks : ~IsOpen(i) => Block[i].previous # h
      /\ ~IsOpen(h) => p # h /\ p \in s.blocks /\ AccountOf[p] = a
  <2>1. \A i \in s.blocks : ~IsOpen(i) => Block[i].previous # h
    BY <1>0 DEF ChainInv, ReferencesStored
  <2>2. ~IsOpen(h) => p # h /\ p \in s.blocks /\ AccountOf[p] = a
    <3> SUFFICES ASSUME ~IsOpen(h) PROVE p # h /\ p \in s.blocks /\ AccountOf[p] = a
      OBVIOUS
    <3>1. s.accounts[a].head = p /\ p \in Hash
      BY <1>0, <1>3 DEF Extends
    <3>2. s.accounts[a].head # NoHash
      BY <3>1, Numbers
    <3> QED
      BY <1>0, <3>1, <3>2 DEF ChainInv, HeadsOwned
  <2> QED
    BY <2>1, <2>2
(* No stored block follows the old head of the chain.                      *)
<1>6. ~IsOpen(h) => \A i \in s.blocks : ~Follows(i, p)
  <2> SUFFICES ASSUME ~IsOpen(h), NEW i \in s.blocks, Follows(i, p)
               PROVE FALSE
    OBVIOUS
  <2>1. AccountOf[i] = a /\ s.accounts[a].head = p
    BY <1>5 DEF ChainInv, ReferencesStored, Follows, Extends
  <2>2. Height[i] = Height[p] + 1 /\ Height[p] \in Nat
    <3>1. i \in Hash /\ ~IsOpen(i) /\ Block[i].previous = p
      BY <1>0 DEF Follows
    <3> QED
      BY <3>1, HeightStep, Zenon
  <2>3. Height[i] <= Height[p]
    BY <2>1 DEF ChainInv, HeightsOrdered
  <2> QED
    BY <2>2, <2>3
<1>7. HeadsIndexed(t)
  <2> SUFFICES ASSUME NEW i \in Hash, NEW b \in Account
               PROVE t.frontiers[i] = b <=> t.accounts[b].head = i
    BY DEF HeadsIndexed
  <2>1. s.frontiers[i] = b <=> s.accounts[b].head = i
    BY DEF ChainInv, HeadsIndexed
  <2>2. s.frontiers[h] = NoAccount
    <3>1. \A c \in Account : s.accounts[c].head # h
      BY <1>0 DEF ChainInv, HeadsOwned
    <3> QED
      BY <1>0, <3>1 DEF ChainInv, HeadsIndexed
  <2>3. CASE IsOpen(h)
    <3>1. t.frontiers[i] = IF i = h THEN a ELSE s.frontiers[i]
      BY <2>3, Numbers DEF Extends, FrontierMove
    <3>2. s.accounts[a].head = NoHash
      BY <2>3 DEF Extends
    <3> QED
      BY <1>0, <1>1, <2>1, <2>2, <3>1, <3>2, Numbers
  <2>4. CASE ~IsOpen(h)
    <3>1. t.frontiers[i] = IF i = h THEN a ELSE IF i = p THEN NoAccount ELSE s.frontiers[i]
      BY <2>4 DEF Extends, FrontierMove
    <3>2. s.accounts[a].head = p /\ s.frontiers[p] = a
      BY <1>0, <1>5, <2>4 DEF Extends, ChainInv, HeadsIndexed
    <3> QED
      BY <1>0, <1>1, <1>5, <2>1, <2>2, <2>4, <3>1, <3>2, Numbers
  <2> QED
    BY <2>3, <2>4
<1>8. HeadsOwned(t)
  <2> SUFFICES ASSUME NEW b \in Account, t.accounts[b].head # NoHash
               PROVE  /\ t.accounts[b].head \in t.blocks /\ AccountOf[t.accounts[b].head] = b
                      /\ t.accounts[b].balance = BalanceOf[t.accounts[b].head]
                      /\ t.accounts[b].rep_block \in Hash /\ Represents(t.accounts[b].rep_block)
    BY DEF HeadsOwned
  <2>1. CASE b = a
    BY <1>0, <1>1, <1>2, <2>1 DEF Extends
  <2>2. CASE b # a
    <3>1. t.accounts[b] = s.accounts[b]
      BY <1>1, <2>2
    <3> QED
      BY <1>2, <3>1 DEF ChainInv, HeadsOwned
  <2> QED
    BY <2>1, <2>2
<1>9. ReferencesStored(t)
  <2> SUFFICES ASSUME NEW i \in t.blocks
               PROVE  /\ ~IsOpen(i) => /\ Block[i].previous \in t.blocks
                                       /\ AccountOf[Block[i].previous] = AccountOf[i]
                      /\ Receives(i) /\ i # GenesisHash =>
                            /\ Block[i].source \in t.blocks /\ IsSend(Block[i].source)
                            /\ AccountOf[i] = Block[Block[i].source].destination
    BY DEF ReferencesStored
  <2>1. CASE i = h
    BY <1>0, <1>2, <1>5, <2>1 DEF Extends
  <2>2. CASE i \in s.blocks
    BY <1>2, <2>2 DEF ChainInv, ReferencesStored
  <2> QED
    BY <1>2, <2>1, <2>2
<1>10. HeightsOrdered(t)
  <2>1. \A i \in s.blocks : AccountOf[i] = a => Height[i] < Height[h]
    <3> SUFFICES ASSUME NEW i \in s.blocks, AccountOf[i] = a
                 PROVE Height[i] < Height[h]
      OBVIOUS
    <3>1. s.accounts[a].head # NoHash /\ Height[i] <= Height[s.accounts[a].head]
      BY DEF ChainInv, HeightsOrdered
    <3>2. ~IsOpen(h) /\ s.accounts[a].head = p
      BY <3>1 DEF Extends
    <3>3. Height[h] = Height[p] + 1
      BY <1>0, <3>2, WalksUnfold
    <3> QED
      BY <1>0, <1>4, <1>5, <3>1, <3>2, <3>3
  <2>2. \A i \in t.blocks :
           /\ AccountOf[i] \in Account /\ t.accounts[AccountOf[i]].head # NoHash
           /\ Height[i] <= Height[t.accounts[AccountOf[i]].head]
    <3> SUFFICES ASSUME NEW i \in t.blocks
                 PROVE  /\ AccountOf[i] \in Account /\ t.accounts[AccountOf[i]].head # NoHash
                        /\ Height[i] <= Height[t.accounts[AccountOf[i]].head]
      OBVIOUS
    <3>1. CASE i = h
      <4>1. Height[h] <= Height[h]
        BY <1>0, <1>4
      <4> QED
        BY <1>0, <1>1, <3>1, <4>1, Zenon
    <3>2. CASE i \in s.blocks /\ AccountOf[i] = a
      BY <1>0, <1>1, <1>4, <2>1, <3>2
    <3>3. CASE i \in s.blocks /\ AccountOf[i] # a
      BY <1>1, <3>3 DEF ChainInv, HeightsOrdered
    <3> QED
      BY <1>2, <3>1, <3>2, <3>3
  <2>3. \A i, j \in t.blocks : AccountOf[i] = AccountOf[j] /\ Height[i] = Height[j] => i = j
    <3> SUFFICES ASSUME NEW i \in t.blocks, NEW j \in t.blocks,
                        AccountOf[i] = AccountOf[j], Height[i] = Height[j]
                 PROVE i = j
      OBVIOUS
    <3>1. CASE i \in s.blocks /\ j \in s.blocks
      BY <3>1 DEF ChainInv, HeightsOrdered
    <3>2. CASE i = h /\ j \in s.blocks
      BY <1>0, <1>4, <2>1, <3>2
    <3>3. CASE i \in s.blocks /\ j = h
      BY <1>0, <1>4, <2>1, <3>3
    <3> QED
      BY <1>2, <3>1, <3>2, <3>3
  <2> QED
    BY <2>2, <2>3 DEF HeightsOrdered
<1>11a. DepthsOrdered(t)
  <2> SUFFICES ASSUME NEW i \in t.blocks, NEW j \in t.blocks,
                      AccountOf[i] = AccountOf[j], Height[i] < Height[j]
               PROVE  Depth[i] < Depth[j]
    BY DEF DepthsOrdered
  <2>1. CASE i \in s.blocks /\ j \in s.blocks
    BY <2>1 DEF ChainInv, DepthsOrdered
  <2>2. CASE i \in s.blocks /\ j = h
    <3>1. s.accounts[a].head # NoHash /\ Height[i] <= Height[s.accounts[a].head]
      BY <1>0, <2>2 DEF ChainInv, HeightsOrdered
    <3>2. ~IsOpen(h) /\ s.accounts[a].head = p /\ p \in s.blocks /\ AccountOf[p] = a
      BY <1>0, <3>1 DEF Extends, ChainInv, HeadsOwned
    <3>3. Depth[p] < Depth[h] /\ Depth[i] \in Nat /\ Depth[p] \in Nat /\ Depth[h] \in Nat
      BY <1>0, <2>2, <3>2, DepthUnfolds
    <3>4. i = p \/ Height[i] < Height[p]
      <4>1. Height[i] \in Nat /\ Height[p] \in Nat /\ Height[i] <= Height[p]
        BY <1>0, <1>4, <2>2, <3>1, <3>2
      <4>2. Height[i] = Height[p] => i = p
        BY <1>0, <2>2, <3>2 DEF ChainInv, HeightsOrdered
      <4> HIDE DEF p
      <4> QED
        BY <4>1, <4>2
    <3>5. i = p \/ Depth[i] < Depth[p]
      BY <1>0, <2>2, <3>2, <3>4 DEF ChainInv, DepthsOrdered
    <3> QED
      BY <2>2, <3>3, <3>5
  <2>3. CASE i = h
    <3>1. Height[j] <= Height[h]
      BY <1>0, <1>1, <1>10, <2>3 DEF HeightsOrdered
    <3> QED
      BY <1>0, <1>2, <1>4, <2>3, <3>1
  <2> QED
    BY <1>2, <2>1, <2>2, <2>3
<1>11. SuccessorsLinked(t)
  <2>1. ASSUME NEW i \in t.blocks, ~IsOpen(i)
        PROVE  t.successor[Block[i].previous] = i
    <3>1. CASE i = h
      BY <1>0, <1>3, <1>5, <2>1, <3>1 DEF Extends, SuccessorPut
    <3>2. CASE i \in s.blocks
      <4>1. s.successor[Block[i].previous] = i /\ Block[i].previous # h /\ Block[i].previous \in Hash
        BY <1>0, <1>3, <1>5, <2>1, <3>2 DEF ChainInv, SuccessorsLinked
      <4>2. ~IsOpen(h) => Block[i].previous # p
        BY <1>6, <2>1, <3>2 DEF Follows
      <4> QED
        BY <1>0, <1>3, <4>1, <4>2 DEF Extends, SuccessorPut
    <3> QED
      BY <1>2, <2>1, <3>1, <3>2
  <2>2. ASSUME NEW i \in t.blocks, t.frontiers[i] = NoAccount
        PROVE  \E j \in t.blocks : Follows(j, i)
    <3>1. i # h
      BY <1>0, <1>1, <1>7, <2>2, Numbers DEF HeadsIndexed
    <3>2. CASE ~IsOpen(h) /\ i = p
      BY <1>2, <3>2 DEF Follows
    <3>3. CASE IsOpen(h) \/ i # p
      <4>1. i \in s.blocks /\ i \in Hash
        BY <1>0, <1>2, <2>2, <3>1
      <4>2. t.frontiers[i] = s.frontiers[i]
        BY <3>1, <3>3, <4>1, Numbers DEF Extends, FrontierMove
      <4> QED
        BY <1>2, <2>2, <4>1, <4>2 DEF ChainInv, SuccessorsLinked
    <3> QED
      BY <3>2, <3>3
  <2> QED
    BY <2>1, <2>2 DEF SuccessorsLinked
<1>12. AccountsOpened(t)
  <2> SUFFICES ASSUME NEW b \in Account, t.accounts[b].head # NoHash
               PROVE \E i \in t.blocks : IsOpen(i) /\ Block[i].account = b
    BY DEF AccountsOpened
  <2>1. CASE b = a /\ IsOpen(h)
    BY <1>0, <1>2, <2>1, OpenStarts, Zenon
  <2>2. CASE b # a \/ ~IsOpen(h)
    <3>1. s.accounts[b].head # NoHash
      <4>1. CASE b # a
        BY <1>1, <4>1
      <4>2. CASE b = a
        <5>1. ~IsOpen(h)
          BY <2>2, <4>2
        <5>2. s.accounts[a].head = Block[h].previous /\ Block[h].previous \in Hash
          BY <1>0, <1>3, <5>1 DEF Extends
        <5> QED
          BY <4>2, <5>2, Numbers
      <4> QED
        BY <4>1, <4>2
    <3> QED
      BY <1>2, <3>1 DEF ChainInv, AccountsOpened
  <2> QED
    BY <2>1, <2>2
<1> QED
  BY <1>7, <1>8, <1>9, <1>10, <1>11a, <1>11, <1>12 DEF ChainInv

(* The head h of the chain of a, which no stored block receives, is taken  *)
(* off.                                                                    *)
Retracts(s, t, h, a, rep) ==
    /\ a \in Account /\ h \in Hash /\ s.accounts[a].head = h
    /\ rep \in Hash /\ Represents(rep)
    /\ \A i \in s.blocks : ~(Receives(i) /\ i # GenesisHash /\ Block[i].source = h)
    /\ t.blocks = s.blocks \ {h}
    /\ t.successor = SuccessorDel(s, h)
    /\ \/ /\ IsOpen(h)
          /\ t.accounts = [s.accounts EXCEPT ![a] = NoInfo]
          /\ t.frontiers = FrontierMove(s, h, NoHash, NoAccount)
       \/ /\ ~IsOpen(h)
          /\ t.accounts = [s.accounts EXCEPT ![a] =
                  [head |-> Block[h].previous, rep_block |-> rep,
                   balance |-> BalanceOf[Block[h].previous]]]
          /\ t.frontiers = FrontierMove(s, h, Block[h].previous, a)

(* A chain that loses its head stays well formed (change_latest, block_del *)
(* and the frontier updates of rollback_visitor).                          *)
LEMMA RetractsChainInv ==
    ASSUME NEW s \in Tables, NEW t, NEW h, NEW a, NEW rep,
           ChainInv(s), Retracts(s, t, h, a, rep)
    PROVE  ChainInv(t)
<1> USE DEF AccountExists
<1> DEFINE p == Block[h].previous
<1>0. /\ h \in Hash /\ a \in Account /\ h # NoHash
      /\ s.accounts[a].head = h /\ h \in s.blocks /\ AccountOf[h] = a
      /\ s.blocks \subseteq Hash
      /\ s.accounts \in [Account -> Info]
      /\ s.frontiers \in [Hash -> Account \cup {NoAccount}]
      /\ s.successor \in [Hash -> Hash \cup {NoHash}]
  <2>1. a \in Account /\ h \in Hash /\ s.accounts[a].head = h /\ h # NoHash
    BY Numbers DEF Retracts
  <2>2. h \in s.blocks /\ AccountOf[h] = a
    BY <2>1 DEF ChainInv, HeadsOwned
  <2>3. /\ s.blocks \subseteq Hash
        /\ s.accounts \in [Account -> Info]
        /\ s.frontiers \in [Hash -> Account \cup {NoAccount}]
        /\ s.successor \in [Hash -> Hash \cup {NoHash}]
    BY DEF Tables
  <2> QED
    BY <2>1, <2>2, <2>3
<1>1. /\ IsOpen(h) => t.accounts[a].head = NoHash
      /\ ~IsOpen(h) => /\ t.accounts[a].head = p /\ t.accounts[a].rep_block = rep
                       /\ t.accounts[a].balance = BalanceOf[p]
      /\ \A b \in Account \ {a} : t.accounts[b] = s.accounts[b]
  <2>1. CASE IsOpen(h)
    <3>1. t.accounts = [s.accounts EXCEPT ![a] = NoInfo]
      BY <2>1, Zenon DEF Retracts
    <3> QED
      BY <1>0, <2>1, <3>1 DEF NoInfo
  <2>2. CASE ~IsOpen(h)
    <3>1. t.accounts = [s.accounts EXCEPT ![a] =
                           [head |-> p, rep_block |-> rep, balance |-> BalanceOf[p]]]
      BY <2>2, Zenon DEF Retracts
    <3> HIDE DEF p
    <3> QED
      BY <1>0, <2>2, <3>1
  <2> QED
    BY <2>1, <2>2
<1>2. t.blocks = s.blocks \ {h}
  BY DEF Retracts
<1>3. \A i \in Hash : ~IsOpen(i) => Block[i].previous \in Hash
  BY PreviousType
<1>4. \A i \in Hash : Height[i] \in Nat
  BY WalksUnfold
<1>5. ~IsOpen(h) => /\ p \in s.blocks /\ p # h /\ AccountOf[p] = a
                    /\ Height[h] = Height[p] + 1
  <2> SUFFICES ASSUME ~IsOpen(h)
               PROVE  p \in s.blocks /\ p # h /\ AccountOf[p] = a /\ Height[h] = Height[p] + 1
    OBVIOUS
  <2>1. p \in s.blocks /\ AccountOf[p] = a
    BY <1>0 DEF ChainInv, ReferencesStored
  <2>2. Height[h] = Height[p] + 1
    BY <1>0, WalksUnfold
  <2>3. Height[h] \in Nat /\ Height[p] \in Nat
    BY <1>0, <1>4, <2>1
  <2>4. p # h
    <3> SUFFICES ASSUME p = h PROVE FALSE
      OBVIOUS
    <3> HIDE DEF p
    <3> QED
      BY <2>2, <2>3
  <2> QED
    BY <2>1, <2>2, <2>4
(* h is the highest block of its chain, so that none follows it.           *)
<1>6. /\ \A i \in t.blocks : AccountOf[i] = a => Height[i] < Height[h]
      /\ \A i \in s.blocks : ~Follows(i, h)
  <2>1. \A i \in s.blocks : AccountOf[i] = a => Height[i] <= Height[h]
    BY <1>0 DEF ChainInv, HeightsOrdered
  <2>2. \A i \in t.blocks : AccountOf[i] = a => Height[i] < Height[h]
    <3> SUFFICES ASSUME NEW i \in t.blocks, AccountOf[i] = a PROVE Height[i] < Height[h]
      OBVIOUS
    <3>1. i \in s.blocks /\ i # h /\ Height[i] <= Height[h]
      BY <1>2, <2>1
    <3>2. Height[i] # Height[h]
      BY <1>0, <3>1 DEF ChainInv, HeightsOrdered
    <3> QED
      BY <1>0, <1>4, <3>1, <3>2
  <2>3. ASSUME NEW i \in s.blocks, Follows(i, h) PROVE FALSE
    <3>1. AccountOf[i] = a /\ Height[i] = Height[h] + 1
      <4>1. i \in Hash /\ ~IsOpen(i) /\ Block[i].previous = h
        BY <1>0, <2>3 DEF Follows
      <4>2. AccountOf[h] = AccountOf[i]
        BY <2>3, <4>1 DEF ChainInv, ReferencesStored
      <4>3. Height[i] = Height[h] + 1
        BY <4>1, WalksUnfold
      <4> QED
        BY <1>0, <4>2, <4>3
    <3> QED
      BY <1>0, <1>4, <2>1, <3>1
  <2> QED
    BY <2>2, <2>3
<1>7. HeadsIndexed(t)
  <2> SUFFICES ASSUME NEW i \in Hash, NEW b \in Account
               PROVE t.frontiers[i] = b <=> t.accounts[b].head = i
    BY DEF HeadsIndexed
  <2>1. s.frontiers[i] = b <=> s.accounts[b].head = i
    BY DEF ChainInv, HeadsIndexed
  <2>2. CASE IsOpen(h)
    <3>1. t.frontiers[i] = IF i = h THEN NoAccount ELSE s.frontiers[i]
      BY <2>2, Numbers DEF Retracts, FrontierMove
    <3>2. b # a => s.accounts[b].head # h
      BY <1>0 DEF ChainInv, HeadsOwned
    <3> QED
      BY <1>0, <1>1, <2>1, <2>2, <3>1, <3>2, Numbers, SMTT(60)
  <2>3. CASE ~IsOpen(h)
    <3>1. t.frontiers[i] = IF i = p THEN a ELSE IF i = h THEN NoAccount ELSE s.frontiers[i]
      BY <2>3 DEF Retracts, FrontierMove
    <3>2. b # a => s.accounts[b].head # h /\ s.accounts[b].head # p
      <4>1. h # NoHash /\ p # NoHash /\ AccountOf[h] = a /\ AccountOf[p] = a
        BY <1>0, <1>5, <2>3, Numbers
      <4> HIDE DEF p
      <4> QED
        BY <4>1 DEF ChainInv, HeadsOwned
    <3> QED
      BY <1>0, <1>1, <1>5, <2>1, <2>3, <3>1, <3>2, Numbers
  <2> QED
    BY <2>2, <2>3
<1>8. HeadsOwned(t)
  <2> SUFFICES ASSUME NEW b \in Account, t.accounts[b].head # NoHash
               PROVE  /\ t.accounts[b].head \in t.blocks
                      /\ AccountOf[t.accounts[b].head] = b
                      /\ t.accounts[b].balance = BalanceOf[t.accounts[b].head]
                      /\ t.accounts[b].rep_block \in Hash /\ Represents(t.accounts[b].rep_block)
    BY DEF HeadsOwned
  <2>1. CASE b = a
    BY <1>0, <1>1, <1>2, <1>5, <2>1 DEF Retracts
  <2>2. CASE b # a
    <3>1. s.accounts[b].head # h
      BY <1>0, <2>2 DEF ChainInv, HeadsOwned
    <3> QED
      BY <1>1, <1>2, <2>2, <3>1 DEF ChainInv, HeadsOwned
  <2> QED
    BY <2>1, <2>2
<1>9. ReferencesStored(t)
  <2> SUFFICES ASSUME NEW i \in t.blocks
               PROVE  /\ ~IsOpen(i) => /\ Block[i].previous \in t.blocks
                                       /\ AccountOf[Block[i].previous] = AccountOf[i]
                      /\ Receives(i) /\ i # GenesisHash =>
                            /\ Block[i].source \in t.blocks /\ IsSend(Block[i].source)
                            /\ AccountOf[i] = Block[Block[i].source].destination
    BY DEF ReferencesStored
  <2>1. i \in s.blocks /\ ~Follows(i, h)
    BY <1>2, <1>6
  <2> QED
    BY <1>2, <2>1 DEF ChainInv, ReferencesStored, Retracts, Follows
<1>10. HeightsOrdered(t)
  <2>1. ASSUME NEW i \in t.blocks
        PROVE  /\ AccountOf[i] \in Account /\ t.accounts[AccountOf[i]].head # NoHash
               /\ Height[i] <= Height[t.accounts[AccountOf[i]].head]
    <3>1. CASE AccountOf[i] = a
      <4>1. Height[i] < Height[h] /\ i \in Hash
        BY <1>0, <1>2, <1>6, <3>1
      <4>2. ~IsOpen(h)
        <5>1. Height[i] \in Nat /\ (IsOpen(h) => Height[h] = 0)
          BY <1>0, <4>1, WalksUnfold
        <5> QED
          BY <4>1, <5>1
      <4>3. p \in Hash /\ Height[p] \in Nat /\ Height[h] = Height[p] + 1 /\ Height[i] \in Nat
        BY <1>0, <1>3, <1>4, <1>5, <4>1, <4>2
      <4>4. t.accounts[a].head = p /\ p # NoHash
        BY <1>1, <4>2, <4>3, Numbers
      <4>5. Height[i] <= Height[p]
        BY <4>1, <4>3
      <4> QED
        BY <1>0, <3>1, <4>4, <4>5
    <3>2. CASE AccountOf[i] # a
      BY <1>1, <1>2, <3>2 DEF ChainInv, HeightsOrdered
    <3> QED
      BY <3>1, <3>2
  <2>2. \A i, j \in t.blocks : AccountOf[i] = AccountOf[j] /\ Height[i] = Height[j] => i = j
    BY <1>2 DEF ChainInv, HeightsOrdered
  <2> QED
    BY <2>1, <2>2 DEF HeightsOrdered
<1>11a. DepthsOrdered(t)
  BY <1>2 DEF ChainInv, DepthsOrdered
<1>11. SuccessorsLinked(t)
  <2>1. ASSUME NEW i \in t.blocks, ~IsOpen(i)
        PROVE  t.successor[Block[i].previous] = i
    <3>1. Block[i].previous # h /\ Block[i].previous \in Hash /\ i \in s.blocks
      BY <1>0, <1>2, <1>3, <1>6, <2>1 DEF Follows
    <3>2. s.successor[Block[i].previous] = i
      BY <2>1, <3>1 DEF ChainInv, SuccessorsLinked
    <3> QED
      BY <1>0, <3>1, <3>2 DEF Retracts, SuccessorDel
  <2>2. ASSUME NEW i \in t.blocks, t.frontiers[i] = NoAccount
        PROVE  \E j \in t.blocks : Follows(j, i)
    <3>1. i \in s.blocks /\ i # h /\ i \in Hash
      BY <1>0, <1>2
    <3>2. s.frontiers[i] = NoAccount /\ (~IsOpen(h) => i # p)
      BY <1>0, <2>2, <3>1, Numbers DEF Retracts, FrontierMove
    <3>3. PICK j \in s.blocks : Follows(j, i)
      BY <3>1, <3>2 DEF ChainInv, SuccessorsLinked
    <3>4. j # h
      BY <3>2, <3>3 DEF Follows
    <3> QED
      BY <1>2, <3>3, <3>4
  <2> QED
    BY <2>1, <2>2 DEF SuccessorsLinked
<1>12. AccountsOpened(t)
  <2> SUFFICES ASSUME NEW b \in Account, t.accounts[b].head # NoHash
               PROVE \E i \in t.blocks : IsOpen(i) /\ Block[i].account = b
    BY DEF AccountsOpened
  <2>1. s.accounts[b].head # NoHash
    BY <1>0, <1>1
  <2>2. PICK i \in s.blocks : IsOpen(i) /\ Block[i].account = b
    BY <2>1 DEF ChainInv, AccountsOpened
  <2>3. i # h
    <3>1. ASSUME i = h PROVE FALSE
      <4>1. AccountOf[h] = b
        BY <1>0, <2>2, <3>1, WalksUnfold
      <4>2. a = b /\ IsOpen(h)
        BY <1>0, <2>2, <3>1, <4>1
      <4> QED
        BY <1>1, <4>2
    <3> QED
      BY <3>1
  <2> QED
    BY <1>2, <2>2, <2>3
<1> QED
  BY <1>7, <1>8, <1>9, <1>10, <1>11a, <1>11, <1>12 DEF ChainInv

-----------------------------------------------------------------------------
(* The pending table.                                                      *)

(* The genesis block receives no send.                                     *)
LEMMA GenesisReceivesNothing ==
    \A h \in Hash : ~IsReceiverOf(GenesisHash, h)
BY GenesisBlock, Numbers DEF IsReceiverOf

(* A receivable that is there differs from none.                           *)
LEMMA ReceivableExists ==
    ASSUME NEW r, r.source \in Account
    PROVE  r # NoReceivable
BY Numbers DEF NoReceivable

(* A new send is pending (pending_put in ledger_processor::send_block).    *)
LEMMA PendingPut ==
    ASSUME NEW s \in Tables, NEW t, NEW h \in Hash \ s.blocks, IsSend(h),
           PendingInv(s), ReferencesStored(s),
           AccountOf[h] \in Account, AmountOf(h) \in Nat,
           t.blocks = s.blocks \cup {h},
           t.pending = [s.pending EXCEPT ![h] =
               [source |-> AccountOf[h], amount |-> AmountOf(h),
                destination |-> Block[h].destination]]
    PROVE  PendingInv(t)
<1>0. s.pending \in [Hash -> Receivable \cup {NoReceivable}] /\ s.blocks \subseteq Hash
  BY DEF Tables
<1>1. ~Receives(h)
  BY BlockFacts DEF Receives
<1>2. \A r \in t.blocks : ~IsReceiverOf(r, h)
  BY <1>1, GenesisReceivesNothing DEF ReferencesStored, IsReceiverOf
<1>3. t.pending[h] # NoReceivable
  BY <1>0, ReceivableExists
<1>4. \A i \in Hash : i # h => t.pending[i] = s.pending[i]
  BY <1>0
<1>5. PendingSound(t)
  BY <1>0, <1>1, <1>2, <1>4, SMTT(60) DEF PendingInv, PendingSound, PendingExists, IsReceiverOf
<1>6. PendingComplete(t)
  BY <1>0, <1>3, <1>4 DEF PendingInv, PendingComplete, PendingExists
<1>7. ReceivedOnce(t)
  BY <1>1 DEF PendingInv, ReceivedOnce
<1>8. AmountsNatural(t)
  BY DEF PendingInv, AmountsNatural
<1> QED
  BY <1>5, <1>6, <1>7, <1>8 DEF PendingInv

(* A receive or open block takes the pending send that is its source       *)
(* (pending_del in ledger_processor).                                      *)
LEMMA PendingTake ==
    ASSUME NEW s \in Tables, NEW t, NEW h \in Hash \ s.blocks, Receives(h),
           PendingInv(s), Block[h].source \in Hash, PendingExists(s, Block[h].source),
           t.blocks = s.blocks \cup {h},
           t.pending = [s.pending EXCEPT ![Block[h].source] = NoReceivable]
    PROVE  PendingInv(t)
<1> DEFINE u == Block[h].source
<1>0. s.pending \in [Hash -> Receivable \cup {NoReceivable}] /\ s.blocks \subseteq Hash
  BY DEF Tables
<1>1. ~IsSend(h) /\ IsReceiverOf(h, u)
  BY BlockFacts DEF Receives, IsReceiverOf
<1>2. \A r \in s.blocks : ~IsReceiverOf(r, u)
  <2> HIDE DEF u
  <2>1. u \in Hash /\ PendingExists(s, u)
    BY DEF u
  <2> QED
    BY <2>1, Zenon DEF PendingInv, PendingSound
<1>3. t.pending[u] = NoReceivable /\ \A i \in Hash : i # u => t.pending[i] = s.pending[i]
  BY <1>0
<1>4. PendingSound(t)
  BY <1>0, <1>1, <1>3 DEF PendingInv, PendingSound, PendingExists, IsReceiverOf
<1>5. PendingComplete(t)
  BY <1>0, <1>1, <1>3 DEF PendingInv, PendingComplete, PendingExists
<1>6. ReceivedOnce(t)
  BY <1>1, <1>2 DEF PendingInv, ReceivedOnce, IsReceiverOf
<1>7. AmountsNatural(t)
  BY <1>1 DEF PendingInv, AmountsNatural
<1> QED
  BY <1>4, <1>5, <1>6, <1>7 DEF PendingInv

(* A change block, stored or removed, leaves the pending table as it is.   *)
LEMMA PendingSame ==
    ASSUME NEW s \in Tables, NEW t, NEW h \in Hash, IsChange(h), PendingInv(s),
           t.blocks = s.blocks \cup {h} \/ t.blocks = s.blocks \ {h},
           t.pending = s.pending
    PROVE  PendingInv(t)
<1>0. s.blocks \subseteq Hash
  BY DEF Tables
<1>1. ~IsSend(h) /\ ~Receives(h)
  BY BlockFacts DEF Receives
<1>2. PendingSound(t)
  <2> SUFFICES ASSUME NEW g \in Hash, PendingExists(t, g)
               PROVE  /\ g \in t.blocks /\ IsSend(g) /\ \A r \in t.blocks : ~IsReceiverOf(r, g)
                      /\ t.pending[g] = [source |-> AccountOf[g], amount |-> AmountOf(g),
                                         destination |-> Block[g].destination]
    BY Zenon DEF PendingSound
  <2>1. PendingExists(s, g)
    BY DEF PendingExists
  <2>2. /\ g \in s.blocks /\ IsSend(g) /\ \A r \in s.blocks : ~IsReceiverOf(r, g)
        /\ s.pending[g] = [source |-> AccountOf[g], amount |-> AmountOf(g),
                           destination |-> Block[g].destination]
    BY <2>1, Zenon DEF PendingInv, PendingSound
  <2>3. g \in t.blocks /\ \A r \in t.blocks : r \in s.blocks \/ r = h
    BY <1>1, <2>2
  <2>4. ~IsReceiverOf(h, g)
    BY <1>1 DEF IsReceiverOf
  <2> QED
    BY <2>2, <2>3, <2>4, Zenon
<1>3. PendingComplete(t)
  BY <1>0, <1>1 DEF PendingInv, PendingComplete, PendingExists, IsReceiverOf
<1>4. ReceivedOnce(t)
  BY <1>1 DEF PendingInv, ReceivedOnce
<1>5. AmountsNatural(t)
  BY <1>1 DEF PendingInv, AmountsNatural
<1> QED
  BY <1>2, <1>3, <1>4, <1>5 DEF PendingInv

(* A send that is pending is removed with its receivable (pending_del in   *)
(* rollback_visitor::send_block).                                          *)
LEMMA PendingDrop ==
    ASSUME NEW s \in Tables, NEW t, NEW h \in Hash, IsSend(h), PendingInv(s),
           t.blocks = s.blocks \ {h},
           t.pending = [s.pending EXCEPT ![h] = NoReceivable]
    PROVE  PendingInv(t)
<1>0. s.pending \in [Hash -> Receivable \cup {NoReceivable}] /\ s.blocks \subseteq Hash
  BY DEF Tables
<1>1. ~Receives(h)
  BY BlockFacts DEF Receives
<1>2. t.pending[h] = NoReceivable /\ \A i \in Hash : i # h => t.pending[i] = s.pending[i]
  BY <1>0
<1>3. PendingSound(t)
  BY <1>0, <1>1, <1>2 DEF PendingInv, PendingSound, PendingExists
<1>4. PendingComplete(t)
  BY <1>0, <1>1, <1>2 DEF PendingInv, PendingComplete, PendingExists, IsReceiverOf
<1>5. ReceivedOnce(t)
  BY DEF PendingInv, ReceivedOnce
<1>6. AmountsNatural(t)
  BY DEF PendingInv, AmountsNatural
<1> QED
  BY <1>3, <1>4, <1>5, <1>6 DEF PendingInv

(* A receive or open block that is removed makes its source pending again  *)
(* (pending_put in rollback_visitor).                                      *)
LEMMA PendingRestore ==
    ASSUME NEW s \in Tables, NEW t, NEW h \in s.blocks, Receives(h), h # GenesisHash,
           PendingInv(s), ReferencesStored(s),
           AccountOf[Block[h].source] \in Account,
           AccountOf[h] = Block[Block[h].source].destination,
           t.blocks = s.blocks \ {h},
           t.pending = [s.pending EXCEPT ![Block[h].source] = Restored(h)]
    PROVE  PendingInv(t)
<1> DEFINE u == Block[h].source
<1>0. s.pending \in [Hash -> Receivable \cup {NoReceivable}] /\ s.blocks \subseteq Hash
  BY DEF Tables
<1>1. u \in s.blocks /\ IsSend(u) /\ u # h
  <2>1. u \in s.blocks /\ IsSend(u)
    BY DEF ReferencesStored
  <2>2. ~IsReceive(u) /\ ~IsOpen(u)
    BY <1>0, <2>1, BlockFacts
  <2> QED
    BY <2>1, <2>2 DEF Receives
<1>2. \A r \in t.blocks : ~IsReceiverOf(r, u)
  BY DEF PendingInv, ReceivedOnce, IsReceiverOf
<1>3. t.pending[u] = Restored(h) /\ \A i \in Hash : i # u => t.pending[i] = s.pending[i]
  BY <1>0, <1>1
<1>4. t.pending[u] # NoReceivable
  BY <1>3, ReceivableExists DEF Restored
<1>5. PendingSound(t)
  <2> SUFFICES ASSUME NEW i \in Hash, PendingExists(t, i)
               PROVE  /\ i \in t.blocks /\ IsSend(i)
                      /\ \A r \in t.blocks : ~IsReceiverOf(r, i)
                      /\ t.pending[i] = [source |-> AccountOf[i], amount |-> AmountOf(i),
                                         destination |-> Block[i].destination]
    BY DEF PendingSound
  <2>1. CASE i = u
    BY <1>1, <1>2, <1>3, <2>1 DEF Restored
  <2>2. CASE i # u
    <3>1. PendingExists(s, i)
      BY <1>3, <2>2 DEF PendingExists
    <3>2. i # h
      <4>1. IsSend(i)
        BY <3>1, Zenon DEF PendingInv, PendingSound
      <4>2. ~IsSend(h)
        BY <1>0, BlockFacts DEF Receives
      <4> QED
        BY <4>1, <4>2
    <3> QED
      BY <1>3, <2>2, <3>1, <3>2, Zenon DEF PendingInv, PendingSound
  <2> QED
    BY <2>1, <2>2
<1>6. PendingComplete(t)
  BY <1>0, <1>3, <1>4 DEF PendingInv, PendingComplete, PendingExists, IsReceiverOf
<1>7. ReceivedOnce(t)
  BY DEF PendingInv, ReceivedOnce
<1>8. AmountsNatural(t)
  BY DEF PendingInv, AmountsNatural
<1> QED
  BY <1>5, <1>6, <1>7, <1>8 DEF PendingInv

-----------------------------------------------------------------------------
(* Money and weight.                                                       *)

(* TotalUpdate for the sums over accounts.                                 *)
LEMMA AccountTotal ==
    \A f \in [Account -> Nat], a \in Account, v \in Nat :
        Total([f EXCEPT ![a] = v]) = Total(f) - f[a] + v
<1> TAKE f \in [Account -> Nat], a \in Account, v \in Nat
<1> QED
  BY TotalUpdate, FiniteUniverse, Zenon

(* The same for the sums over hashes.                                      *)
LEMMA HashTotal ==
    \A f \in [Hash -> Nat], h \in Hash, v \in Nat :
        Total([f EXCEPT ![h] = v]) = Total(f) - f[h] + v
<1> TAKE f \in [Hash -> Nat], h \in Hash, v \in Nat
<1> QED
  BY TotalUpdate, FiniteUniverse, Zenon

(* From s to t an account's entry becomes i and a receivable r, and what   *)
(* one gains the other loses.                                              *)
Shifts(s, t, a, i, h, r) ==
    /\ a \in Account /\ h \in Hash
    /\ i \in Info /\ r \in Receivable \cup {NoReceivable}
    /\ t.accounts = [s.accounts EXCEPT ![a] = i]
    /\ t.pending = [s.pending EXCEPT ![h] = r]
    /\ i.balance + r.amount = s.accounts[a].balance + s.pending[h].amount

(* What a receivable is worth.                                             *)
LEMMA ReceivableAmount ==
    ASSUME NEW r \in Receivable \cup {NoReceivable}
    PROVE  r.amount \in Nat
BY DEF Receivable, NoReceivable

(* Money that is shifted is neither made nor destroyed.                    *)
LEMMA MoneyMoves ==
    ASSUME NEW s \in Tables, NEW t, NEW a, NEW i, NEW h, NEW r,
           MoneyCounted(s), Shifts(s, t, a, i, h, r)
    PROVE  MoneyCounted(t)
<1>a. /\ a \in Account /\ h \in Hash
      /\ t.accounts = [s.accounts EXCEPT ![a] = i]
      /\ t.pending = [s.pending EXCEPT ![h] = r]
      /\ i.balance + r.amount = s.accounts[a].balance + s.pending[h].amount
  BY DEF Shifts
<1>c. a \in Account /\ h \in Hash
  BY <1>a
<1>b. i.balance \in Nat /\ r.amount \in Nat
  <2>1. i \in Info /\ r \in Receivable \cup {NoReceivable}
    BY DEF Shifts
  <2>2. i.balance \in Nat
    BY <2>1 DEF Info
  <2>3. r.amount \in Nat
    BY <2>1, ReceivableAmount, Zenon
  <2> QED
    BY <2>2, <2>3
<1>0. /\ \A b \in Account : s.accounts[b].balance \in Nat
      /\ \A g \in Hash : s.pending[g].amount \in Nat
      /\ DOMAIN s.accounts = Account /\ DOMAIN s.pending = Hash
  BY DEF Tables, Info, Receivable, NoReceivable
<1>1. Balances(s) \in [Account -> Nat] /\ PendingAmounts(s) \in [Hash -> Nat]
  BY <1>0 DEF Balances, PendingAmounts
<1>2. Balances(t) = [Balances(s) EXCEPT ![a] = i.balance]
  BY <1>0, <1>a, Zenon DEF Balances
<1>3. PendingAmounts(t) = [PendingAmounts(s) EXCEPT ![h] = r.amount]
  BY <1>0, <1>a, Zenon DEF PendingAmounts
<1>4. Total(Balances(t)) = Total(Balances(s)) - s.accounts[a].balance + i.balance
  <2>1. Balances(s)[a] = s.accounts[a].balance
    BY <1>a DEF Balances
  <2>2. Total([Balances(s) EXCEPT ![a] = i.balance])
          = Total(Balances(s)) - Balances(s)[a] + i.balance
    BY <1>b, <1>c, <1>1, AccountTotal, Zenon
  <2> QED
    BY <1>2, <2>1, <2>2
<1>5. Total(PendingAmounts(t)) = Total(PendingAmounts(s)) - s.pending[h].amount + r.amount
  <2>1. PendingAmounts(s)[h] = s.pending[h].amount
    BY <1>a DEF PendingAmounts
  <2>2. Total([PendingAmounts(s) EXCEPT ![h] = r.amount])
          = Total(PendingAmounts(s)) - PendingAmounts(s)[h] + r.amount
    BY <1>b, <1>c, <1>1, HashTotal, Zenon
  <2> QED
    BY <1>3, <2>1, <2>2
<1>6. Total(Balances(s)) \in Nat /\ Total(PendingAmounts(s)) \in Nat
  BY <1>1, TotalType, FiniteUniverse
<1>7. /\ s.accounts[a].balance \in Int /\ s.pending[h].amount \in Int
      /\ i.balance \in Int /\ r.amount \in Int
  BY <1>0, <1>b, <1>c
<1>8. i.balance + r.amount = s.accounts[a].balance + s.pending[h].amount
  BY <1>a
<1>9. Total(Balances(s)) + Total(PendingAmounts(s)) = GenesisAmount
  BY DEF MoneyCounted
<1> QED
  BY <1>4, <1>5, <1>6, <1>7, <1>8, <1>9 DEF MoneyCounted

(* move_representation moves weight when its assertions hold.              *)
LEMMA MoveCounts ==
    ASSUME NEW s \in Tables, NEW from \in Hash, Represents(from),
           NEW to \in Hash, Represents(to), NEW amount \in Nat,
           s.representation[Block[from].representative] >= amount
    PROVE  /\ Move(s, from, to, amount) \in [Account -> Nat]
           /\ Total(Move(s, from, to, amount)) = Total(s.representation)
<1> DEFINE x == Block[from].representative
           y == Block[to].representative
           w == s.representation
           taken == [w EXCEPT ![x] = w[x] - amount]
<1>1. x \in Account /\ y \in Account /\ w \in [Account -> Nat]
  BY RepresentativeType DEF Tables
<1>2. w[x] - amount \in Nat /\ w[x] \in Nat
  BY <1>1
<1>3. taken \in [Account -> Nat] /\ Total(taken) = Total(w) - w[x] + (w[x] - amount)
  BY <1>1, <1>2, TotalUpdate, FiniteUniverse
<1>4. Move(s, from, to, amount) = [taken EXCEPT ![y] = taken[y] + amount]
  BY <1>1 DEF Move
<1>5. taken[y] + amount \in Nat /\ taken[y] \in Nat
  <2> HIDE DEF taken
  <2> QED
    BY <1>1, <1>3
<1>6. /\ [taken EXCEPT ![y] = taken[y] + amount] \in [Account -> Nat]
      /\ Total([taken EXCEPT ![y] = taken[y] + amount]) = Total(taken) - taken[y] + (taken[y] + amount)
  <2> HIDE DEF taken
  <2> QED
    BY <1>1, <1>3, <1>5, TotalUpdate, FiniteUniverse, Zenon
<1>7. Total(w) \in Nat
  BY <1>1, TotalType, FiniteUniverse
<1>8. Total([taken EXCEPT ![y] = taken[y] + amount]) = Total(w)
  <2> HIDE DEF taken, w, x, y
  <2> QED
    BY <1>2, <1>3, <1>5, <1>6, <1>7
<1> QED
  BY <1>4, <1>6, <1>8, Zenon

(* What it means that no assertion of move_representation fails.           *)
LEMMA MoveAllowed ==
    ASSUME NEW s, NEW from, NEW to, NEW amount, MoveFailure(s, from, to, amount) = "none"
    PROVE  /\ from \in s.blocks /\ to \in s.blocks
           /\ ~(s.representation[Block[from].representative] < amount)
BY DEF MoveFailure

-----------------------------------------------------------------------------
(* The operations keep the tables consistent.                              *)

(* Facts about tables that satisfy the invariant, read off its parts.      *)
LEMMA InvFacts ==
    ASSUME NEW s, TablesInv(s)
    PROVE  /\ s \in Tables /\ s.blocks \subseteq Hash /\ GenesisHash \in s.blocks
           /\ s.accounts \in [Account -> Info]
           /\ s.frontiers \in [Hash -> Account \cup {NoAccount}]
           /\ s.successor \in [Hash -> Hash \cup {NoHash}]
           /\ s.pending \in [Hash -> Receivable \cup {NoReceivable}]
           /\ s.representation \in [Account -> Nat]
           /\ s.checksum \in SUBSET Hash
           /\ ChainInv(s) /\ PendingInv(s) /\ BalancesNatural(s)
           /\ MoneyCounted(s) /\ WeightCounted(s)
           /\ \A a \in Account : s.accounts[a].head = NoHash => s.accounts[a] = NoInfo
           /\ \A h \in Hash : s.pending[h].amount \in Nat
           /\ \A a \in Account : s.accounts[a].balance \in Nat
BY SMTT(60) DEF TablesInv, TablesOK, Tables, AccountExists, Info, Receivable, NoReceivable

(* The types of what the helpers return.                                   *)
LEMMA HelperTypes ==
    ASSUME NEW s \in Tables, NEW h \in Hash, NEW a \in Account
    PROVE  /\ ~IsOpen(h) => SuccessorPut(s, h) \in [Hash -> Hash \cup {NoHash}]
           /\ IsOpen(h) => SuccessorPut(s, h) \in [Hash -> Hash \cup {NoHash}]
           /\ SuccessorDel(s, h) \in [Hash -> Hash \cup {NoHash}]
           /\ ChecksumPut(s, a, h) \in SUBSET Hash
           /\ ChecksumPut(s, a, NoHash) \in SUBSET Hash
           /\ \A old, new, b : b \in Account \cup {NoAccount} =>
                 FrontierMove(s, old, new, b) \in [Hash -> Account \cup {NoAccount}]
<1>1. /\ s.successor \in [Hash -> Hash \cup {NoHash}] /\ s.checksum \in SUBSET Hash
      /\ s.accounts[a].head \in Hash \cup {NoHash}
      /\ s.frontiers \in [Hash -> Account \cup {NoAccount}]
  BY DEF Tables, Info
<1>2. ~IsOpen(h) => SuccessorPut(s, h) \in [Hash -> Hash \cup {NoHash}]
  BY <1>1, PreviousType DEF SuccessorPut
<1>3. IsOpen(h) => SuccessorPut(s, h) \in [Hash -> Hash \cup {NoHash}]
  BY <1>1 DEF SuccessorPut
<1>4. SuccessorDel(s, h) \in [Hash -> Hash \cup {NoHash}]
  BY <1>1 DEF SuccessorDel
<1>5. ChecksumPut(s, a, h) \in SUBSET Hash /\ ChecksumPut(s, a, NoHash) \in SUBSET Hash
  BY <1>1 DEF ChecksumPut, Toggle, AccountExists
<1>6. \A old, new, b : b \in Account \cup {NoAccount} =>
         FrontierMove(s, old, new, b) \in [Hash -> Account \cup {NoAccount}]
  BY <1>1 DEF FrontierMove
<1> QED
  BY <1>2, <1>3, <1>4, <1>5, <1>6

(* A block that is not stored owes nothing.                                *)
LEMMA FreshOwesNothing ==
    ASSUME NEW s, PendingSound(s), NEW h \in Hash, h \notin s.blocks
    PROVE  s.pending[h].amount = 0
<1>1. s.pending[h] = NoReceivable
  BY Zenon DEF PendingSound, PendingExists
<1> QED
  BY <1>1 DEF NoReceivable

(* A latest block in the frontiers table is the head of its account.       *)
LEMMA FrontierFacts ==
    ASSUME NEW s, TablesInv(s), NEW p \in Hash, s.frontiers[p] # NoAccount
    PROVE  /\ s.frontiers[p] \in Account
           /\ s.accounts[s.frontiers[p]].head = p
<1>1. s.frontiers[p] \in Account
  BY InvFacts, SMTT(60)
<1>2. HeadsIndexed(s)
  BY InvFacts DEF ChainInv
<1> QED
  BY <1>1, <1>2 DEF HeadsIndexed

(* What the accounts table holds for an account with a head block.         *)
LEMMA HeadFacts ==
    ASSUME NEW s, TablesInv(s), NEW a \in Account, NEW p \in Hash, s.accounts[a].head = p
    PROVE  /\ p \in s.blocks /\ AccountOf[p] = a /\ BalanceOf[p] \in Nat
           /\ s.accounts[a].balance = BalanceOf[p]
           /\ s.accounts[a].rep_block \in Hash /\ Represents(s.accounts[a].rep_block)
<1>1. HeadsOwned(s) /\ s.accounts[a].balance \in Nat
  BY InvFacts DEF ChainInv
<1>2. AccountExists(s, a)
  BY Numbers DEF AccountExists
<1> QED
  BY <1>1, <1>2 DEF HeadsOwned

(* The same, of a block that is known to be the head of some account.      *)
LEMMA HeadOwner ==
    ASSUME NEW s, TablesInv(s), NEW p \in Hash,
           s.frontiers[p] \in Account, s.accounts[s.frontiers[p]].head = p
    PROVE  /\ s.frontiers[p] = AccountOf[p]
           /\ s.accounts[AccountOf[p]].head = p /\ s.accounts[AccountOf[p]].balance = BalanceOf[p]
<1>1. PICK a \in Account : a = s.frontiers[p]
  BY Zenon
<1>2. s.accounts[a].head = p
  BY <1>1, Zenon
<1>3. AccountOf[p] = a /\ s.accounts[a].balance = BalanceOf[p]
  BY <1>2, HeadFacts
<1> QED
  BY <1>1, <1>2, <1>3, Zenon

(* From s to t the entry of one account and one receivable are rewritten,  *)
(* no money and no weight is made, and the tables keep their types.        *)
Rewrites(s, t, a, i, h, r) ==
    /\ Shifts(s, t, a, i, h, r)
    /\ i.head = NoHash => i = NoInfo
    /\ \A x \in t.blocks : x \in s.blocks \/ BalanceOf[x] = i.balance
    /\ t = [blocks |-> t.blocks, successor |-> t.successor,
            accounts |-> t.accounts, frontiers |-> t.frontiers, pending |-> t.pending,
            representation |-> t.representation, checksum |-> t.checksum]
    /\ t.blocks \in SUBSET Hash /\ GenesisHash \in t.blocks
    /\ t.successor \in [Hash -> Hash \cup {NoHash}]
    /\ t.frontiers \in [Hash -> Account \cup {NoAccount}]
    /\ t.checksum \in SUBSET Hash
    /\ t.representation \in [Account -> Nat]
    /\ Total(t.representation) = GenesisAmount

(* The parts of an operation on the tables, put together.                  *)
LEMMA Assembled ==
    ASSUME NEW s, NEW t, NEW a, NEW i, NEW h, NEW r, TablesInv(s),
           Rewrites(s, t, a, i, h, r), ChainInv(t), PendingInv(t)
    PROVE  TablesInv(t)
<1>1. /\ s \in Tables /\ s.accounts \in [Account -> Info]
      /\ s.pending \in [Hash -> Receivable \cup {NoReceivable}]
      /\ MoneyCounted(s) /\ BalancesNatural(s)
      /\ \A x \in Account : s.accounts[x].head = NoHash => s.accounts[x] = NoInfo
  BY InvFacts
<1>2. /\ a \in Account /\ h \in Hash
      /\ i \in Info /\ r \in Receivable \cup {NoReceivable}
      /\ t.accounts = [s.accounts EXCEPT ![a] = i]
      /\ t.pending = [s.pending EXCEPT ![h] = r]
  BY DEF Rewrites, Shifts
<1>3. /\ t.accounts \in [Account -> Info]
      /\ t.pending \in [Hash -> Receivable \cup {NoReceivable}]
  BY <1>1, <1>2
<1>4. t \in Tables
  BY <1>3 DEF Tables, Rewrites
<1>5. \A x \in Account : t.accounts[x].head = NoHash => t.accounts[x] = NoInfo
  BY <1>1, <1>2 DEF Rewrites
<1>6. MoneyCounted(t)
  BY <1>1, MoneyMoves DEF Rewrites
<1>7. Total(t.representation) = GenesisAmount /\ GenesisHash \in t.blocks
  BY DEF Rewrites
<1>8. BalancesNatural(t)
  <2>1. i.balance \in Nat
    BY <1>2 DEF Info
  <2> QED
    BY <1>1, <2>1 DEF Rewrites, BalancesNatural
<1> QED
  BY <1>4, <1>5, <1>6, <1>7, <1>8 DEF TablesInv, TablesOK, AccountExists, WeightCounted

(* move_representation, called on tables whose weights are those of s.     *)
LEMMA WeightMoves ==
    ASSUME NEW s, TablesInv(s), NEW z, z.representation = s.representation,
           NEW from \in Hash, Represents(from), NEW to \in Hash, Represents(to),
           NEW amount \in Nat, MoveFailure(z, from, to, amount) = "none"
    PROVE  /\ Move(s, from, to, amount) \in [Account -> Nat]
           /\ Total(Move(s, from, to, amount)) = GenesisAmount
<1>1. s \in Tables /\ Total(s.representation) = GenesisAmount
  BY InvFacts DEF WeightCounted
<1>2. ~(s.representation[Block[from].representative] < amount)
  BY MoveAllowed
<1>3. s.representation[Block[from].representative] \in Nat
  BY <1>1, RepresentativeType DEF Tables
<1>4. s.representation[Block[from].representative] >= amount
  BY <1>2, <1>3
<1> QED
  BY <1>1, <1>4, MoveCounts

(* The same where the amount is checked against the tables themselves.     *)
LEMMA WeightMovesBack ==
    ASSUME NEW s, TablesInv(s),
           NEW from \in Hash, Represents(from), NEW to \in Hash, Represents(to),
           NEW amount \in Nat, MoveFailure(s, from, to, amount) = "none"
    PROVE  /\ Move(s, from, to, amount) \in [Account -> Nat]
           /\ Total(Move(s, from, to, amount)) = GenesisAmount
BY WeightMoves

(* The account of a stored block, which is the sender if it is a send.     *)
LEMMA SenderFacts ==
    ASSUME NEW s, TablesInv(s), NEW u \in s.blocks
    PROVE  /\ AccountOf[u] \in Account
           /\ s.accounts[AccountOf[u]].rep_block \in Hash
           /\ Represents(s.accounts[AccountOf[u]].rep_block)
<1>1. HeightsOrdered(s) /\ HeadsOwned(s)
  BY InvFacts DEF ChainInv
<1>2. AccountOf[u] \in Account /\ AccountExists(s, AccountOf[u])
  BY <1>1 DEF HeightsOrdered
<1> QED
  BY <1>1, <1>2 DEF HeadsOwned

(* What the pending table holds for a send.                                *)
LEMMA ReceivableFacts ==
    ASSUME NEW s, TablesInv(s), NEW u \in Hash, s.pending[u] # NoReceivable
    PROVE  /\ u \in s.blocks /\ IsSend(u) /\ AmountOf(u) \in Nat
           /\ s.pending[u].source = AccountOf[u]
           /\ s.pending[u].amount = AmountOf(u)
           /\ s.pending[u].destination = Block[u].destination
           /\ Block[u].destination \in Account
<1>1. PendingSound(s) /\ AmountsNatural(s)
  BY InvFacts DEF PendingInv
<1>2. /\ u \in s.blocks /\ IsSend(u)
      /\ s.pending[u] = [source |-> AccountOf[u], amount |-> AmountOf(u),
                         destination |-> Block[u].destination]
  BY <1>1 DEF PendingSound, PendingExists
<1>3. AmountOf(u) \in Nat
  BY <1>1, <1>2 DEF AmountsNatural
<1>4. Block[u].destination \in Account
  BY <1>2, BlockFacts
<1> QED
  BY <1>2, <1>3, <1>4

(* The predecessor of a stored block.                                      *)
LEMMA PreviousFacts ==
    ASSUME NEW s, TablesInv(s), NEW h \in s.blocks, ~IsOpen(h)
    PROVE  /\ Block[h].previous \in Hash /\ Block[h].previous \in s.blocks
           /\ AccountOf[Block[h].previous] = AccountOf[h]
           /\ BalanceOf[Block[h].previous] \in Nat
<1>1. ReferencesStored(s) /\ BalancesNatural(s) /\ s.blocks \subseteq Hash
  BY InvFacts DEF ChainInv
<1>2. Block[h].previous \in s.blocks /\ AccountOf[Block[h].previous] = AccountOf[h]
  BY <1>1 DEF ReferencesStored
<1> QED
  BY <1>1, <1>2 DEF BalancesNatural


-----------------------------------------------------------------------------
(* ledger::process keeps the tables consistent: one lemma per type of      *)
(* block.                                                                  *)

(* ledger_processor::send_block keeps the tables consistent.               *)
LEMMA SendKeepsInv ==
    ASSUME NEW s, TablesInv(s), NEW h \in Hash, NEW signer \in Account, IsSend(h),
           SendResult(s, h, signer) = "progress"
    PROVE  TablesInv(SendBlockEffect(s, h))
<1> DEFINE p == Block[h].previous
           a == s.frontiers[p]
           d == Block[h].destination
           left == Block[h].balance
           rep == s.accounts[a].rep_block
           i == [head |-> h, rep_block |-> rep, balance |-> left]
           r == [source |-> a, amount |-> s.accounts[a].balance - left, destination |-> d]
           t == SendBlockEffect(s, h)
<1>1. /\ h \notin s.blocks /\ p \in s.blocks /\ a # NoAccount
      /\ ~(s.accounts[a].balance < left)
  BY DEF SendResult
<1>2. /\ ~IsOpen(h) /\ ~IsReceive(h) /\ p \in Hash /\ left \in Nat
      /\ d \in Account /\ h # NoHash
  BY BlockFacts, Numbers
<1>3. a \in Account /\ s.accounts[a].head = p
  BY <1>1, <1>2, FrontierFacts, Zenon
<1>4. t = [blocks |-> s.blocks \cup {h}, successor |-> SuccessorPut(s, h),
           accounts |-> [s.accounts EXCEPT ![a] = i],
           frontiers |-> FrontierMove(s, p, h, a),
           pending |-> [s.pending EXCEPT ![h] = r],
           representation |-> s.representation, checksum |-> ChecksumPut(s, a, h)]
  BY <1>2, Zenon DEF SendBlockEffect, LatestPut
<1>5. AccountOf[h] = AccountOf[p] /\ BalanceOf[h] = left /\ AmountOf(h) = BalanceOf[p] - left
  BY WalksUnfold, Zenon DEF AmountOf
<1>6. /\ i.head = h /\ i.balance = left /\ r.amount = s.accounts[a].balance - left
      /\ r = [source |-> a, amount |-> s.accounts[a].balance - left, destination |-> d]
      /\ i = [head |-> h, rep_block |-> rep, balance |-> left]
      /\ p = Block[h].previous /\ d = Block[h].destination
      /\ rep = s.accounts[a].rep_block
  OBVIOUS
<1> HIDE DEF p, a, d, left, rep, i, r, t
<1>7. /\ AccountOf[p] = a /\ BalanceOf[p] \in Nat /\ s.accounts[a].balance = BalanceOf[p]
      /\ rep \in Hash /\ Represents(rep)
  BY <1>2, <1>3, <1>6, HeadFacts
<1>8. AmountOf(h) \in Nat /\ r.amount = AmountOf(h) /\ i.balance + r.amount = BalanceOf[p]
  BY <1>1, <1>2, <1>5, <1>6, <1>7
<1>9. i \in Info /\ r \in Receivable
  <2>1. s.accounts[a].balance - left \in Nat
    BY <1>6, <1>8, Zenon
  <2>2. \A x, y \in Hash, n \in Nat : [head |-> x, rep_block |-> y, balance |-> n] \in Info
    BY DEF Info
  <2>3. i \in Info
    BY <1>2, <1>6, <1>7, <2>2, Zenon
  <2>4. r \in Receivable
    BY <1>2, <1>3, <1>6, <2>1, Zenon DEF Receivable
  <2> QED
    BY <2>3, <2>4, Zenon
<1>10. /\ s \in Tables /\ s.blocks \subseteq Hash /\ GenesisHash \in s.blocks
       /\ ChainInv(s) /\ PendingInv(s) /\ ReferencesStored(s) /\ PendingSound(s)
       /\ s.representation \in [Account -> Nat] /\ Total(s.representation) = GenesisAmount
  BY InvFacts, Zenon DEF ChainInv, PendingInv, WeightCounted
<1>11. /\ SuccessorPut(s, h) \in [Hash -> Hash \cup {NoHash}]
       /\ FrontierMove(s, p, h, a) \in [Hash -> Account \cup {NoAccount}]
       /\ ChecksumPut(s, a, h) \in SUBSET Hash
  BY <1>2, <1>3, <1>10, HelperTypes
<1>12. ChainInv(t)
  <2>1. Extends(s, t, h, a, rep)
    BY <1>1, <1>2, <1>3, <1>4, <1>5, <1>6, <1>7, Zenon DEF Extends, Receives
  <2> QED
    BY <1>10, <2>1, ExtendsChainInv, Zenon
<1>13. PendingInv(t)
  BY <1>1, <1>3, <1>4, <1>5, <1>6, <1>7, <1>8, <1>10, PendingPut
<1>14. i.balance + r.amount = s.accounts[a].balance + s.pending[h].amount
  <2>1. s.pending[h].amount = 0
    BY <1>1, <1>10, FreshOwesNothing
  <2> QED
    BY <1>7, <1>8, <2>1
<1>15. i.head # NoHash /\ s.blocks \cup {h} \in SUBSET Hash /\ GenesisHash \in s.blocks
  BY <1>2, <1>6, <1>10, Zenon
<1>16. /\ t = [blocks |-> t.blocks, successor |-> t.successor,
               accounts |-> t.accounts, frontiers |-> t.frontiers, pending |-> t.pending,
               representation |-> t.representation, checksum |-> t.checksum]
       /\ t.accounts = [s.accounts EXCEPT ![a] = i] /\ t.pending = [s.pending EXCEPT ![h] = r]
       /\ t.blocks = s.blocks \cup {h} /\ t.successor = SuccessorPut(s, h)
       /\ t.frontiers = FrontierMove(s, p, h, a) /\ t.representation = s.representation
       /\ t.checksum = ChecksumPut(s, a, h)
  BY <1>4
<1>17. TablesInv(t)
  <2>1. Rewrites(s, t, a, i, h, r)
    BY <1>3, <1>5, <1>6, <1>9, <1>10, <1>11, <1>14, <1>15, <1>16, Zenon DEF Rewrites, Shifts
  <2> QED
    BY <1>12, <1>13, <2>1, Assembled
<1> QED
  BY <1>17 DEF t

(* ledger_processor::change_block keeps the tables consistent.             *)
LEMMA ChangeKeepsInv ==
    ASSUME NEW s, TablesInv(s), NEW h \in Hash, NEW signer \in Account, IsChange(h),
           ChangeResult(s, h, signer) = "progress", ProcessFailure(s, h) = "none"
    PROVE  TablesInv(ChangeBlockEffect(s, h))
<1> DEFINE p == Block[h].previous
           a == s.frontiers[p]
           rep == s.accounts[a].rep_block
           i == [head |-> h, rep_block |-> h, balance |-> s.accounts[a].balance]
           z == [s EXCEPT !.blocks = @ \cup {h}]
           t == ChangeBlockEffect(s, h)
<1>1. h \notin s.blocks /\ p \in s.blocks /\ a # NoAccount
  BY DEF ChangeResult
<1>2. /\ ~IsOpen(h) /\ ~IsReceive(h) /\ ~IsSend(h) /\ p \in Hash
      /\ h # NoHash /\ Represents(h)
  BY BlockFacts, Numbers DEF Represents
<1>3. a \in Account /\ s.accounts[a].head = p
  BY <1>1, <1>2, FrontierFacts
<1>4. t = [blocks |-> s.blocks \cup {h}, successor |-> SuccessorPut(s, h),
           accounts |-> [s.accounts EXCEPT ![a] = i],
           frontiers |-> FrontierMove(s, p, h, a),
           pending |-> s.pending,
           representation |-> Move(s, rep, h, BalanceOf[p]),
           checksum |-> ChecksumPut(s, a, h)]
  BY <1>2, Zenon DEF ChangeBlockEffect, LatestPut
<1>5. AccountOf[h] = AccountOf[p] /\ BalanceOf[h] = BalanceOf[p]
  BY WalksUnfold, Zenon
<1>6. MoveFailure(z, rep, h, BalanceOf[p]) = "none"
  BY <1>2 DEF ProcessFailure
<1>7. /\ s \in Tables /\ s.blocks \subseteq Hash /\ GenesisHash \in s.blocks
      /\ s.pending \in [Hash -> Receivable \cup {NoReceivable}]
      /\ ChainInv(s) /\ PendingInv(s)
  BY InvFacts, Zenon
<1>8. z.representation = s.representation
  BY <1>7 DEF Tables
<1>9. /\ i = [head |-> h, rep_block |-> h, balance |-> s.accounts[a].balance]
      /\ i.head = h /\ i.balance = s.accounts[a].balance
      /\ p = Block[h].previous /\ rep = s.accounts[a].rep_block
  OBVIOUS
<1> HIDE DEF p, a, rep, i, z, t
<1>10. /\ AccountOf[p] = a /\ BalanceOf[p] \in Nat /\ s.accounts[a].balance = BalanceOf[p]
       /\ rep \in Hash /\ Represents(rep)
  BY <1>2, <1>3, <1>9, HeadFacts
<1>11. i \in Info /\ i.head # NoHash
  BY <1>2, <1>9, <1>10 DEF Info
<1>12. /\ SuccessorPut(s, h) \in [Hash -> Hash \cup {NoHash}]
       /\ FrontierMove(s, p, h, a) \in [Hash -> Account \cup {NoAccount}]
       /\ ChecksumPut(s, a, h) \in SUBSET Hash
  BY <1>2, <1>3, <1>7, HelperTypes, Zenon
<1>13. /\ Move(s, rep, h, BalanceOf[p]) \in [Account -> Nat]
       /\ Total(Move(s, rep, h, BalanceOf[p])) = GenesisAmount
  BY <1>2, <1>6, <1>8, <1>10, WeightMoves, Zenon
<1>14. ChainInv(t)
  <2>1. Extends(s, t, h, a, h)
    BY <1>1, <1>2, <1>3, <1>4, <1>5, <1>9, <1>10, Zenon DEF Extends, Receives
  <2> QED
    BY <1>7, <2>1, ExtendsChainInv, Zenon
<1>15. PendingInv(t)
  BY <1>4, <1>7, PendingSame
<1>16. Rewrites(s, t, a, i, h, s.pending[h])
  <2>1. /\ s.pending[h] \in Receivable \cup {NoReceivable}
        /\ s.pending = [s.pending EXCEPT ![h] = s.pending[h]]
    BY <1>7, Zenon
  <2>2. Shifts(s, t, a, i, h, s.pending[h])
    BY <1>3, <1>4, <1>9, <1>11, <2>1, Zenon DEF Shifts
  <2>3. s.blocks \cup {h} \in SUBSET Hash /\ GenesisHash \in s.blocks
    BY <1>7
  <2> QED
    BY <1>4, <1>5, <1>9, <1>10, <1>11, <1>12, <1>13, <2>2, <2>3, Zenon DEF Rewrites
<1>17. TablesInv(t)
  BY <1>14, <1>15, <1>16, Assembled
<1> QED
  BY <1>17 DEF t

(* The assertions of move_representation, as each operation calls it.      *)
LEMMA FailureOfReceive ==
    ASSUME NEW s, NEW h \in Hash, IsReceive(h), ~IsSend(h)
    PROVE  ProcessFailure(s, h) =
              MoveFailure([s EXCEPT !.blocks = @ \cup {h}],
                          s.accounts[s.pending[Block[h].source].source].rep_block,
                          s.accounts[s.pending[Block[h].source].destination].rep_block,
                          s.pending[Block[h].source].amount)
<1>1. ~IsOpen(h) /\ ~IsChange(h)
  BY BlockFacts
<1> QED
  BY <1>1 DEF ProcessFailure

(* The same for an open block.                                             *)
LEMMA FailureOfOpen ==
    ASSUME NEW s, NEW h \in Hash, IsOpen(h)
    PROVE  ProcessFailure(s, h) =
              MoveFailure([s EXCEPT !.blocks = @ \cup {h}],
                          s.accounts[s.pending[Block[h].source].source].rep_block,
                          h, s.pending[Block[h].source].amount)
<1>1. ~IsSend(h) /\ ~IsReceive(h) /\ ~IsChange(h)
  BY BlockFacts
<1> QED
  BY <1>1 DEF ProcessFailure

(* ledger_processor::receive_block keeps the tables consistent.            *)
LEMMA ReceiveKeepsInv ==
    ASSUME NEW s, TablesInv(s), NEW h \in Hash, NEW signer \in Account, IsReceive(h),
           ReceiveResult(s, h, signer) = "progress", ProcessFailure(s, h) = "none"
    PROVE  TablesInv(ReceiveBlockEffect(s, h))
<1> DEFINE p == Block[h].previous
           u == Block[h].source
           a == s.pending[u].destination
           amount == s.pending[u].amount
           rep == s.accounts[a].rep_block
           from == s.accounts[s.pending[u].source].rep_block
           i == [head |-> h, rep_block |-> rep, balance |-> s.accounts[a].balance + amount]
           z == [s EXCEPT !.blocks = @ \cup {h}]
           t == ReceiveBlockEffect(s, h)
<1>1. h \notin s.blocks /\ s.pending[u] # NoReceivable /\ s.accounts[a].head = p
  BY Zenon DEF ReceiveResult
<1>2. /\ ~IsOpen(h) /\ ~IsSend(h) /\ p \in Hash /\ u \in Hash /\ h # NoHash
      /\ Receives(h)
  BY BlockFacts, Numbers DEF Receives
<1>3. t = [blocks |-> s.blocks \cup {h}, successor |-> SuccessorPut(s, h),
           accounts |-> [s.accounts EXCEPT ![a] = i],
           frontiers |-> FrontierMove(s, p, h, a),
           pending |-> [s.pending EXCEPT ![u] = NoReceivable],
           representation |-> Move(s, from, rep, amount),
           checksum |-> ChecksumPut(s, a, h)]
  BY <1>2, Zenon DEF ReceiveBlockEffect, LatestPut
<1>4. IsSend(u) => /\ AccountOf[h] = Block[u].destination
                   /\ BalanceOf[h] = BalanceOf[p] + AmountOf(u)
  BY WalksUnfold, Zenon
<1>5. MoveFailure(z, from, rep, amount) = "none"
  <2>1. ProcessFailure(s, h) = MoveFailure(z, from, rep, amount)
    BY <1>2, FailureOfReceive, Zenon
  <2> QED
    BY <2>1, Zenon
<1>6. /\ s \in Tables /\ s.blocks \subseteq Hash /\ GenesisHash \in s.blocks
      /\ s.pending \in [Hash -> Receivable \cup {NoReceivable}]
      /\ ChainInv(s) /\ PendingInv(s)
  BY InvFacts, Zenon
<1>7. z.representation = s.representation
  BY <1>6 DEF Tables
<1>8. /\ i = [head |-> h, rep_block |-> rep, balance |-> s.accounts[a].balance + amount]
      /\ i.head = h /\ i.balance = s.accounts[a].balance + amount
  OBVIOUS
<1>a. p = Block[h].previous /\ u = Block[h].source
  OBVIOUS
<1>b. a = s.pending[u].destination /\ amount = s.pending[u].amount
  OBVIOUS
<1>c. from = s.accounts[s.pending[u].source].rep_block
  OBVIOUS
<1>d. rep = s.accounts[a].rep_block
  OBVIOUS
<1> HIDE DEF p, u, a, amount, rep, from, i, z, t
<1>9. /\ u \in s.blocks /\ IsSend(u) /\ a \in Account /\ a = Block[u].destination
      /\ amount = AmountOf(u) /\ amount \in Nat /\ s.pending[u].source = AccountOf[u]
  BY <1>1, <1>2, <1>b, ReceivableFacts
<1>10. from \in Hash /\ Represents(from)
  BY <1>9, <1>c, SenderFacts
<1>11. /\ AccountOf[p] = a /\ BalanceOf[p] \in Nat /\ s.accounts[a].balance = BalanceOf[p]
       /\ rep \in Hash /\ Represents(rep)
  <2>1. a \in Account /\ p \in Hash /\ s.accounts[a].head = p
    BY <1>1, <1>2, <1>9
  <2>2. /\ AccountOf[p] = a /\ BalanceOf[p] \in Nat /\ s.accounts[a].balance = BalanceOf[p]
        /\ s.accounts[a].rep_block \in Hash /\ Represents(s.accounts[a].rep_block)
    BY <2>1, HeadFacts
  <2> QED
    BY <1>d, <2>2
<1>12. i \in Info /\ i.head # NoHash /\ i.balance = BalanceOf[h] /\ AccountOf[h] = a
  <2>1. \A b, m \in Nat : b + m \in Nat
    OBVIOUS
  <2>2. i.balance \in Nat
    BY <1>8, <1>9, <1>11, <2>1, Zenon
  <2> QED
    BY <1>2, <1>4, <1>8, <1>9, <1>11, <2>2 DEF Info
<1>13. /\ SuccessorPut(s, h) \in [Hash -> Hash \cup {NoHash}]
       /\ FrontierMove(s, p, h, a) \in [Hash -> Account \cup {NoAccount}]
       /\ ChecksumPut(s, a, h) \in SUBSET Hash
  BY <1>2, <1>6, <1>9, HelperTypes, Zenon
<1>14. /\ Move(s, from, rep, amount) \in [Account -> Nat]
       /\ Total(Move(s, from, rep, amount)) = GenesisAmount
  BY <1>5, <1>7, <1>9, <1>10, <1>11, WeightMoves, Zenon
<1>15. ChainInv(t)
  <2>1. Extends(s, t, h, a, rep)
    BY <1>1, <1>2, <1>3, <1>8, <1>9, <1>a, <1>11, <1>12, Zenon DEF Extends
  <2> QED
    BY <1>6, <2>1, ExtendsChainInv, Zenon
<1>16. PendingInv(t)
  <2>1. t.blocks = s.blocks \cup {h} /\ t.pending = [s.pending EXCEPT ![u] = NoReceivable]
    BY <1>3
  <2>2. PendingExists(s, u)
    BY <1>1 DEF PendingExists
  <2> QED
    BY <1>1, <1>2, <1>6, <1>a, <2>1, <2>2, PendingTake, Zenon
<1>17. Rewrites(s, t, a, i, u, NoReceivable)
  <2>1. NoReceivable.amount = 0
    BY DEF NoReceivable
  <2>2. i.balance + NoReceivable.amount = s.accounts[a].balance + s.pending[u].amount
    <3>1. s.accounts[a].balance \in Nat /\ i.balance = s.accounts[a].balance + amount
      BY <1>8, <1>11, Zenon
    <3>2. s.pending[u].amount = amount /\ amount \in Nat
      BY <1>9, <1>b, Zenon
    <3>3. \A b, m \in Nat : b + m + 0 = b + m
      OBVIOUS
    <3>4. s.accounts[a].balance + amount + 0 = s.accounts[a].balance + amount
      BY <3>1, <3>2, <3>3, Zenon
    <3> QED
      BY <2>1, <3>1, <3>2, <3>4, Zenon
  <2>3. Shifts(s, t, a, i, u, NoReceivable)
    BY <1>2, <1>3, <1>9, <1>12, <2>2, Zenon DEF Shifts
  <2>4. s.blocks \cup {h} \in SUBSET Hash /\ GenesisHash \in s.blocks
    BY <1>6
  <2> QED
    BY <1>3, <1>12, <1>13, <1>14, <2>3, <2>4, Zenon DEF Rewrites
<1>18. TablesInv(t)
  BY <1>15, <1>16, <1>17, Assembled
<1> QED
  BY <1>18 DEF t

(* ledger_processor::open_block keeps the tables consistent.               *)
LEMMA OpenKeepsInv ==
    ASSUME NEW s, TablesInv(s), NEW h \in Hash, NEW signer \in Account,
           IsOpen(h), h # GenesisHash,
           OpenResult(s, h, signer) = "progress", ProcessFailure(s, h) = "none"
    PROVE  TablesInv(OpenBlockEffect(s, h))
<1> DEFINE u == Block[h].source
           a == s.pending[u].destination
           amount == s.pending[u].amount
           from == s.accounts[s.pending[u].source].rep_block
           i == [head |-> h, rep_block |-> h, balance |-> amount]
           z == [s EXCEPT !.blocks = @ \cup {h}]
           t == OpenBlockEffect(s, h)
<1>1. /\ h \notin s.blocks /\ s.pending[u] # NoReceivable
      /\ a = Block[h].account /\ ~AccountExists(s, a)
  BY DEF OpenResult
<1>2. ~IsSend(h) /\ u \in Hash /\ h # NoHash /\ Receives(h) /\ Represents(h)
  BY BlockFacts, Numbers DEF Receives, Represents
<1>3. t = [blocks |-> s.blocks \cup {h}, successor |-> SuccessorPut(s, h),
           accounts |-> [s.accounts EXCEPT ![a] = i],
           frontiers |-> FrontierMove(s, NoHash, h, a),
           pending |-> [s.pending EXCEPT ![u] = NoReceivable],
           representation |-> Move(s, from, h, amount),
           checksum |-> ChecksumPut(s, a, h)]
  BY <1>2, Zenon DEF OpenBlockEffect, LatestPut
<1>4. /\ AccountOf[h] = Block[h].account
      /\ IsSend(u) => BalanceOf[h] = AmountOf(u)
  BY WalksUnfold, Zenon
<1>5. MoveFailure(z, from, h, amount) = "none"
  <2>1. ProcessFailure(s, h) = MoveFailure(z, from, h, amount)
    BY FailureOfOpen, Zenon
  <2> QED
    BY <2>1, Zenon
<1>6. /\ s \in Tables /\ s.blocks \subseteq Hash /\ GenesisHash \in s.blocks
      /\ s.pending \in [Hash -> Receivable \cup {NoReceivable}]
      /\ s.accounts \in [Account -> Info]
      /\ ChainInv(s) /\ PendingInv(s)
      /\ \A x \in Account : s.accounts[x].head = NoHash => s.accounts[x] = NoInfo
  BY InvFacts, Zenon
<1>7. z.representation = s.representation
  BY <1>6 DEF Tables
<1>8. /\ i = [head |-> h, rep_block |-> h, balance |-> amount]
      /\ i.head = h /\ i.balance = amount
  OBVIOUS
<1>a. u = Block[h].source
  OBVIOUS
<1>b. a = s.pending[u].destination /\ amount = s.pending[u].amount
  OBVIOUS
<1>c. from = s.accounts[s.pending[u].source].rep_block
  OBVIOUS
<1> HIDE DEF u, a, amount, from, i, z, t
<1>9. /\ u \in s.blocks /\ IsSend(u) /\ a \in Account /\ a = Block[u].destination
      /\ amount = AmountOf(u) /\ amount \in Nat /\ s.pending[u].source = AccountOf[u]
  BY <1>1, <1>2, <1>b, ReceivableFacts
<1>10. from \in Hash /\ Represents(from)
  BY <1>9, <1>c, SenderFacts
<1>11. s.accounts[a].balance = 0
  <2>1. s.accounts[a] = NoInfo
    BY <1>1, <1>6, <1>9 DEF AccountExists
  <2> QED
    BY <2>1 DEF NoInfo
<1>12. i \in Info /\ i.head # NoHash /\ i.balance = BalanceOf[h] /\ AccountOf[h] = a
  BY <1>1, <1>2, <1>4, <1>8, <1>9 DEF Info
<1>13. /\ SuccessorPut(s, h) \in [Hash -> Hash \cup {NoHash}]
       /\ FrontierMove(s, NoHash, h, a) \in [Hash -> Account \cup {NoAccount}]
       /\ ChecksumPut(s, a, h) \in SUBSET Hash
  BY <1>6, <1>9, HelperTypes, Zenon
<1>14. /\ Move(s, from, h, amount) \in [Account -> Nat]
       /\ Total(Move(s, from, h, amount)) = GenesisAmount
  BY <1>2, <1>5, <1>7, <1>9, <1>10, WeightMoves, Zenon
<1>15. ChainInv(t)
  <2>1. Extends(s, t, h, a, h)
    BY <1>1, <1>2, <1>3, <1>8, <1>9, <1>a, <1>12, Zenon DEF Extends
  <2> QED
    BY <1>6, <2>1, ExtendsChainInv, Zenon
<1>16. PendingInv(t)
  <2>1. t.blocks = s.blocks \cup {h} /\ t.pending = [s.pending EXCEPT ![u] = NoReceivable]
    BY <1>3, Zenon
  <2>2. PendingExists(s, u)
    BY <1>1 DEF PendingExists
  <2> QED
    BY <1>1, <1>2, <1>6, <1>a, <2>1, <2>2, PendingTake, Zenon
<1>17. Rewrites(s, t, a, i, u, NoReceivable)
  <2>1. NoReceivable.amount = 0
    BY DEF NoReceivable
  <2>2. i.balance + NoReceivable.amount = s.accounts[a].balance + s.pending[u].amount
    <3>1. i.balance = amount /\ s.pending[u].amount = amount /\ s.accounts[a].balance = 0
      BY <1>8, <1>b, <1>11, Zenon
    <3>2. amount + 0 = 0 + amount
      BY <1>9, ZeroAdded, Zenon
    <3> QED
      BY <2>1, <3>1, <3>2, Zenon
  <2>3. Shifts(s, t, a, i, u, NoReceivable)
    BY <1>2, <1>3, <1>9, <1>12, <2>2, Zenon DEF Shifts
  <2>4. s.blocks \cup {h} \in SUBSET Hash /\ GenesisHash \in s.blocks
    BY <1>6
  <2> QED
    BY <1>3, <1>12, <1>13, <1>14, <2>3, <2>4, Zenon DEF Rewrites
<1>18. TablesInv(t)
  BY <1>15, <1>16, <1>17, Assembled
<1> QED
  BY <1>18 DEF t

(* ledger::process keeps the tables consistent.                            *)
LEMMA ProcessKeepsInv ==
    ASSUME NEW s, TablesInv(s), NEW h \in Hash, NEW signer \in Account,
           ProcessResult(s, h, signer) = "progress", ProcessFailure(s, h) = "none"
    PROVE  TablesInv(Processed(s, h))
<1>1. CASE IsSend(h)
  <2>1. ProcessResult(s, h, signer) = SendResult(s, h, signer)
    BY <1>1, BlockFacts DEF ProcessResult
  <2>2. Processed(s, h) = SendBlockEffect(s, h)
    BY <1>1, BlockFacts DEF Processed
  <2> QED
    BY <1>1, <2>1, <2>2, SendKeepsInv
<1>2. CASE IsReceive(h)
  <2>1. ProcessResult(s, h, signer) = ReceiveResult(s, h, signer)
    BY <1>2, BlockFacts DEF ProcessResult
  <2>2. Processed(s, h) = ReceiveBlockEffect(s, h)
    BY <1>2, BlockFacts DEF Processed
  <2> QED
    BY <1>2, <2>1, <2>2, ReceiveKeepsInv
<1>3. CASE IsOpen(h)
  <2>1. ProcessResult(s, h, signer) = OpenResult(s, h, signer)
    BY <1>3, BlockFacts DEF ProcessResult
  <2>2. Processed(s, h) = OpenBlockEffect(s, h)
    BY <1>3, BlockFacts DEF Processed
  <2>3. h \notin s.blocks
    BY <2>1 DEF OpenResult
  <2>4. h # GenesisHash
    BY <2>3, InvFacts
  <2> QED
    BY <1>3, <2>1, <2>2, <2>4, OpenKeepsInv
<1>4. CASE IsChange(h)
  <2>1. ProcessResult(s, h, signer) = ChangeResult(s, h, signer)
    BY <1>4, BlockFacts DEF ProcessResult
  <2>2. Processed(s, h) = ChangeBlockEffect(s, h)
    BY <1>4, BlockFacts DEF Processed
  <2> QED
    BY <1>4, <2>1, <2>2, ChangeKeepsInv
<1> QED
  BY <1>1, <1>2, <1>3, <1>4, BlockFacts

-----------------------------------------------------------------------------
(* The tables of the genesis block.                                        *)

(* The sum of a function that is zero but for one value.                   *)
LEMMA SingleTotal ==
    ASSUME NEW S, IsFiniteSet(S), NEW x \in S, NEW v \in Nat
    PROVE  /\ Total([y \in S |-> 0]) = 0
           /\ Total([y \in S |-> IF y = x THEN v ELSE 0]) = v
<1> DEFINE zero == [y \in S |-> 0]
           single == [y \in S |-> IF y = x THEN v ELSE 0]
<1>1. Units(zero) = {}
  BY DEF Units
<1>2. Total(zero) = 0
  BY <1>1, FS_EmptySet DEF Total
<1>3. single = [zero EXCEPT ![x] = v] /\ zero \in [S -> Nat] /\ zero[x] = 0
  OBVIOUS
<1> HIDE DEF zero, single
<1>4. Total([zero EXCEPT ![x] = v]) = Total(zero) - zero[x] + v
  BY <1>3, TotalUpdate, Zenon
<1>5. Total(single) = v
  BY <1>2, <1>3, <1>4
<1> QED
  BY <1>2, <1>5 DEF zero, single

(* The weight of the genesis account, or its balance.                      *)
LEMMA GenesisTotal ==
    Total([a \in Account |-> IF a = GenesisAccount THEN GenesisAmount ELSE 0]) = GenesisAmount
<1>1. IsFiniteSet(Account) /\ GenesisAccount \in Account /\ GenesisAmount \in Nat
  BY FiniteUniverse, GenesisBlock
<1> QED
  BY <1>1, SingleTotal, Zenon

(* What genesis::initialize writes is consistent.                          *)
LEMMA GenesisInv == TablesInv(GenesisTables)
<1> DEFINE s == GenesisTables
           info == [head |-> GenesisHash, rep_block |-> GenesisHash, balance |-> GenesisAmount]
<1>0. /\ GenesisAmount \in Nat /\ GenesisAccount \in Account /\ GenesisHash \in Hash
      /\ GenesisHash # NoHash /\ GenesisAccount # NoAccount /\ NoHash \notin Hash
  BY GenesisBlock, Numbers
<1>1. /\ s.blocks = {GenesisHash} /\ s.successor = [h \in Hash |-> NoHash]
      /\ s.accounts = [a \in Account |-> IF a = GenesisAccount THEN info ELSE NoInfo]
      /\ s.frontiers = [h \in Hash |-> IF h = GenesisHash THEN GenesisAccount ELSE NoAccount]
      /\ s.pending = [h \in Hash |-> NoReceivable]
      /\ s.representation = [a \in Account |-> IF a = GenesisAccount THEN GenesisAmount ELSE 0]
  BY DEF GenesisTables
<1>2. /\ info \in Info /\ info.head = GenesisHash /\ info.rep_block = GenesisHash
      /\ info.balance = GenesisAmount
      /\ NoInfo \in Info /\ NoInfo.head = NoHash /\ NoInfo.balance = 0
  BY <1>0 DEF Info, NoInfo
<1>3. s \in Tables
  <2>1. /\ [a \in Account |-> IF a = GenesisAccount THEN info ELSE NoInfo] \in [Account -> Info]
        /\ [h \in Hash |-> NoReceivable] \in [Hash -> Receivable \cup {NoReceivable}]
        /\ [a \in Account |-> IF a = GenesisAccount THEN GenesisAmount ELSE 0]
              \in [Account -> Nat]
    BY <1>0, <1>2
  <2> QED
    BY <1>0, <2>1 DEF GenesisTables, Tables
<1> HIDE DEF info
<1>4. TablesOK(s)
  BY <1>0, <1>1, <1>2, <1>3 DEF TablesOK, AccountExists
<1>5. /\ IsOpen(GenesisHash) /\ Represents(GenesisHash)
      /\ AccountOf[GenesisHash] = GenesisAccount /\ BalanceOf[GenesisHash] = GenesisAmount
      /\ Block[GenesisHash].account = GenesisAccount
      /\ Height[GenesisHash] \in Nat /\ ~IsSend(GenesisHash)
  <2>1. IsOpen(GenesisHash) /\ Block[GenesisHash].account = GenesisAccount
    BY GenesisBlock DEF IsOpen
  <2>2. Represents(GenesisHash) /\ ~IsSend(GenesisHash)
    BY <1>0, <2>1, BlockFacts, Zenon DEF Represents
  <2>3. AccountOf[GenesisHash] = GenesisAccount
    BY <1>0, <2>1, WalksUnfold, Zenon
  <2>4. BalanceOf[GenesisHash] = GenesisAmount /\ Height[GenesisHash] \in Nat
    BY <1>0, WalksUnfold, Zenon
  <2> QED
    BY <2>1, <2>2, <2>3, <2>4, Zenon
<1>6. ChainInv(s)
  <2>0. \A a \in Account : s.accounts[a].head # NoHash => a = GenesisAccount /\ s.accounts[a] = info
    BY <1>1, <1>2
  <2>1. HeadsIndexed(s)
    BY <1>0, <1>1, <1>2, Numbers DEF HeadsIndexed
  <2>2. HeadsOwned(s)
    <3> SUFFICES ASSUME NEW a \in Account, AccountExists(s, a)
                 PROVE  /\ s.accounts[a].head \in s.blocks /\ AccountOf[s.accounts[a].head] = a
                        /\ s.accounts[a].balance = BalanceOf[s.accounts[a].head]
                        /\ s.accounts[a].rep_block \in Hash /\ Represents(s.accounts[a].rep_block)
      BY Zenon DEF HeadsOwned
    <3>1. a = GenesisAccount /\ s.accounts[a] = info
      BY <2>0, Zenon DEF AccountExists
    <3>2. GenesisHash \in s.blocks
      BY <1>1
    <3> QED
      BY <1>0, <1>2, <1>5, <3>1, <3>2, Zenon
  <2>3. ReferencesStored(s)
    BY <1>1, <1>5 DEF ReferencesStored
  <2>4. HeightsOrdered(s)
    <3>1. s.accounts[GenesisAccount].head = GenesisHash
      BY <1>0, <1>1, <1>2
    <3>2. \A h \in s.blocks : h = GenesisHash
      BY <1>1
    <3>3. GenesisHash # NoHash /\ Height[GenesisHash] <= Height[GenesisHash]
      BY <1>0, <1>5
    <3> QED
      BY <1>0, <1>5, <3>1, <3>2, <3>3 DEF HeightsOrdered, AccountExists
  <2>5. SuccessorsLinked(s)
    <3>1. \A h \in s.blocks : h = GenesisHash
      BY <1>1
    <3>2. s.frontiers[GenesisHash] # NoAccount
      BY <1>0, <1>1
    <3> QED
      BY <1>5, <3>1, <3>2, Zenon DEF SuccessorsLinked
  <2>6. AccountsOpened(s)
    <3>1. GenesisHash \in s.blocks
      BY <1>1
    <3> QED
      BY <1>5, <2>0, <3>1, Zenon DEF AccountsOpened, AccountExists
  <2>7. DepthsOrdered(s)
    <3>1. \A h \in s.blocks : h = GenesisHash
      BY <1>1
    <3>2. ~(Height[GenesisHash] < Height[GenesisHash])
      BY <1>5
    <3> QED
      BY <3>1, <3>2, Zenon DEF DepthsOrdered
  <2> QED
    BY <2>1, <2>2, <2>3, <2>4, <2>5, <2>6, <2>7 DEF ChainInv
<1>7. PendingInv(s)
  <2>1. /\ \A h \in s.blocks : h = GenesisHash
        /\ \A h \in Hash : ~PendingExists(s, h)
    BY <1>1 DEF PendingExists
  <2> QED
    BY <1>5, <2>1, Zenon
     DEF PendingInv, PendingSound, PendingComplete, ReceivedOnce, AmountsNatural
<1>8. MoneyCounted(s)
  <2>1. Balances(s) = [a \in Account |-> IF a = GenesisAccount THEN GenesisAmount ELSE 0]
    BY <1>1, <1>2 DEF Balances
  <2>2. PendingAmounts(s) = [h \in Hash |-> 0]
    BY <1>1 DEF PendingAmounts, NoReceivable
  <2>3. Total(Balances(s)) = GenesisAmount
    BY <2>1, GenesisTotal
  <2>4. Total(PendingAmounts(s)) = 0
    BY <1>0, <2>2, SingleTotal, FiniteUniverse
  <2> QED
    BY <1>0, <2>3, <2>4 DEF MoneyCounted
<1>9. WeightCounted(s)
  BY <1>1, GenesisTotal DEF WeightCounted
<1>10. BalancesNatural(s)
  BY <1>0, <1>1, <1>5 DEF BalancesNatural
<1> QED
  BY <1>4, <1>6, <1>7, <1>8, <1>9, <1>10 DEF TablesInv
=============================================================================
