--------------------------- MODULE BootstrapFacts ---------------------------
(***************************************************************************)
(* Bootstrapping with any number of blocks: facts about chains, ledgers    *)
(* and the operators of Bootstrap, the inductive invariant of a session,   *)
(* and that the steps which begin, break, ask for and answer a request     *)
(* keep it.                                                                *)
(***************************************************************************)
EXTENDS Bootstrap, FiniteSetTheorems, TLAPS

-----------------------------------------------------------------------------
(* Chains and ledgers.                                                     *)

(* A sequence of length zero is empty.                                     *)
LEMMA NothingLeft ==
    ASSUME NEW S, NEW s \in Seq(S), Len(s) = 0
    PROVE  s = <<>>
  OBVIOUS

(* A set of naturals has a least element.                                  *)
LEMMA LeastNat ==
    ASSUME NEW S \in SUBSET Nat, S # {}
    PROVE  \E n \in S : \A m \in S : n <= m
<1> DEFINE less == {p \in Nat \X Nat : p[1] < p[2]}
<1>1. IsWellFoundedOn(less, Nat)
  BY NatLessThanWellFounded, Zenon DEF OpToRel
<1>2. \A m, n \in Nat : m < n => <<m, n>> \in less
  OBVIOUS
<1> HIDE DEF less
<1>3. PICK n \in S : \A m \in S : ~(<<m, n>> \in less)
  BY <1>1, WFMin, Zenon
<1>4. ASSUME NEW m \in S PROVE n <= m
  <2>1. m \in Nat /\ n \in Nat /\ ~(m < n)
    BY <1>2, <1>3, Zenon
  <2> QED
    BY <2>1
<1> QED
  BY <1>4

(* The place of a block in the chain of its account.                       *)
LEMMA HeightFacts ==
    ASSUME NEW b \in Hash
    PROVE  /\ Height[b] \in Nat /\ Height[b] <= Cardinality(Hash) /\ b # NoHash
           /\ Chain[b].previous # NoHash => /\ Chain[b].previous \in Hash
                                            /\ Chain[Chain[b].previous].account = Chain[b].account
                                            /\ Height[b] = Height[Chain[b].previous] + 1
           /\ Chain[b].previous = NoHash => Height[b] = 0
<1>1. Cardinality(Hash) \in Nat
  BY BootstrapAssumption, FS_CardinalityType
<1>2. /\ b # NoHash
      /\ Chain[b].previous # NoHash => /\ Chain[b].previous \in Hash
                                       /\ Chain[Chain[b].previous].account = Chain[b].account
  BY BootstrapAssumption
<1>3. /\ Height[b] \in 0..Cardinality(Hash)
      /\ Height[b] = IF Chain[b].previous = NoHash THEN 0 ELSE Height[Chain[b].previous] + 1
  BY ChainUnfolds
<1> QED
  BY <1>1, <1>2, <1>3

(* What a block depends on comes before it.                                *)
LEMMA DependencyFacts ==
    ASSUME NEW b \in Hash
    PROVE  /\ Dependencies(b) \subseteq Hash /\ Depth[b] \in Nat
           /\ \A d \in Dependencies(b) : Depth[d] < Depth[b] /\ Ancestry[d] \subseteq Ancestry[b]
           /\ b \in Ancestry[b]
<1>1. /\ Ancestry[b] = {b} \cup UNION {Ancestry[d] : d \in Dependencies(b)}
      /\ Depth[b] \in Nat /\ \A d \in Dependencies(b) : Depth[d] < Depth[b]
  BY ChainUnfolds
<1>2. /\ Chain[b].source \in Hash \cup {NoHash}
      /\ Chain[b].previous \in Hash \cup {NoHash}
  BY BootstrapAssumption
<1>3. Dependencies(b) \subseteq Hash
  BY <1>2 DEF Dependencies
<1> QED
  BY <1>1, <1>3

(* Accounts are numbers, none of which is 0.                               *)
LEMMA AccountFacts ==
    ASSUME NEW b \in Hash
    PROVE  Chain[b].account \in Nat /\ Chain[b].account # 0
BY BootstrapAssumption

(* A set of blocks has a lowest block, a highest one and a least one in    *)
(* the order of dependencies.                                              *)
LEMMA LowestBlock ==
    ASSUME NEW S \in SUBSET Hash, S # {}
    PROVE  \E b \in S : \A c \in S : Height[b] <= Height[c]
<1> DEFINE heights == {Height[b] : b \in S}
<1>1. heights \in SUBSET Nat /\ heights # {}
  BY HeightFacts
<1>2. PICK n \in heights : \A m \in heights : n <= m
  BY <1>1, LeastNat, Zenon
<1> QED
  BY <1>2

(* Of some blocks, one is the highest in the chain of its account.         *)
LEMMA HighestBlock ==
    ASSUME NEW S \in SUBSET Hash, S # {}
    PROVE  \E b \in S : \A c \in S : Height[c] <= Height[b]
<1> DEFINE room(b) == Cardinality(Hash) - Height[b]
           rooms == {room(b) : b \in S}
<1>1. Cardinality(Hash) \in Nat
  BY BootstrapAssumption, FS_CardinalityType
<1>2. \A b \in S : Height[b] \in Nat /\ room(b) \in Nat
  BY <1>1, HeightFacts
<1>3. rooms \in SUBSET Nat /\ rooms # {}
  BY <1>2
<1>4. PICK n \in rooms : \A m \in rooms : n <= m
  BY <1>3, LeastNat, Zenon
<1>5. PICK b \in S : n = room(b)
  BY <1>4
<1>6. \A c \in S : room(b) <= room(c)
  BY <1>4, <1>5
<1> QED
  BY <1>1, <1>2, <1>6

(* Of some blocks, one has the fewest ancestors: it depends on none of the *)
(* others.                                                                 *)
LEMMA LeastBlock ==
    ASSUME NEW S \in SUBSET Hash, S # {}
    PROVE  \E b \in S : \A c \in S : Depth[b] <= Depth[c]
<1> DEFINE depths == {Depth[b] : b \in S}
<1>1. depths \in SUBSET Nat /\ depths # {}
  BY DependencyFacts
<1>2. PICK n \in depths : \A m \in depths : n <= m
  BY <1>1, LeastNat, Zenon
<1> QED
  BY <1>2

(* A ledger has what its blocks depend on, and no two rivals.              *)
LEMMA LedgerFacts ==
    ASSUME NEW L \in Ledgers
    PROVE  /\ L \subseteq Hash
           /\ \A b \in L : /\ Dependencies(b) \subseteq L /\ Rivals(b) \cap L = {}
                           /\ Chain[b].previous # NoHash => Chain[b].previous \in L
           /\ \A b, c \in L : Chain[b].account = Chain[c].account /\ Chain[b].previous = Chain[c].previous
                                 => b = c
<1>1. /\ L \subseteq Hash /\ \A b \in L : Dependencies(b) \subseteq L /\ Rivals(b) \cap L = {}
  BY DEF Ledgers
<1>2. \A b \in L : Chain[b].previous # NoHash => Chain[b].previous \in L
  BY <1>1 DEF Dependencies
<1>3. \A b, c \in L : Chain[b].account = Chain[c].account /\ Chain[b].previous = Chain[c].previous
                                 => b = c
  BY <1>1 DEF Rivals
<1> QED
  BY <1>1, <1>2, <1>3

(* The blocks of an account in a ledger form one chain: there is at most   *)
(* one at each height.                                                     *)
LEMMA OneAtHeight ==
    ASSUME NEW L \in Ledgers, NEW b \in L, NEW c \in L,
           Chain[b].account = Chain[c].account, Height[b] = Height[c]
    PROVE  b = c
<1> DEFINE Twin(x) == \E y \in L : /\ Chain[x].account = Chain[y].account
                                   /\ Height[x] = Height[y] /\ x # y
           twins == {x \in L : Twin(x)}
<1> SUFFICES ASSUME b # c PROVE FALSE
  OBVIOUS
<1>1. twins \in SUBSET Hash /\ twins # {}
  BY LedgerFacts
<1>2. PICK x \in twins : \A z \in twins : Height[x] <= Height[z]
  BY <1>1, LowestBlock, Zenon
<1>3. PICK y \in L : Chain[x].account = Chain[y].account /\ Height[x] = Height[y] /\ x # y
  OBVIOUS
<1>4. x \in L /\ x \in Hash /\ y \in Hash
  BY LedgerFacts
<1> HIDE DEF twins
<1>5. Chain[x].previous # Chain[y].previous
  BY <1>3, <1>4, LedgerFacts
<1>6. Height[x] \in Nat /\ Chain[x].previous # NoHash /\ Chain[y].previous # NoHash
  BY <1>3, <1>4, <1>5, HeightFacts
<1> DEFINE p == Chain[x].previous
           q == Chain[y].previous
<1>7. /\ p \in L /\ q \in L /\ Chain[p].account = Chain[q].account
      /\ Height[p] = Height[q] /\ Height[p] < Height[x] /\ Height[p] \in Nat
  BY <1>3, <1>4, <1>6, HeightFacts, LedgerFacts
<1>8. p \in twins
  BY <1>5, <1>7 DEF twins
<1> QED
  BY <1>2, <1>6, <1>7, <1>8

(* A block below another one of its account is followed by one.            *)
LEMMA SuccessorExists ==
    ASSUME NEW L \in Ledgers, NEW b \in L, NEW c \in L,
           Chain[b].account = Chain[c].account, Height[b] < Height[c]
    PROVE  \E d \in L : Chain[d].account = Chain[b].account /\ Chain[d].previous = b
<1> DEFINE above == {d \in L : Chain[d].account = Chain[b].account /\ Height[b] < Height[d]}
<1>1. above \in SUBSET Hash /\ above # {}
  BY LedgerFacts
<1>2. PICK d \in above : \A e \in above : Height[d] <= Height[e]
  BY <1>1, LowestBlock, Zenon
<1>3. d \in L /\ Chain[d].account = Chain[b].account /\ Height[b] < Height[d]
  OBVIOUS
<1>4. d \in Hash /\ b \in Hash
  BY <1>3, LedgerFacts
<1>5. Height[b] \in Nat /\ Height[d] \in Nat
  BY <1>4, HeightFacts
<1> DEFINE p == Chain[d].previous
<1>6. p # NoHash
  BY <1>3, <1>4, <1>5, HeightFacts
<1>7. p \in L
  BY <1>3, <1>6, LedgerFacts
<1>8. Chain[p].account = Chain[b].account /\ Height[d] = Height[p] + 1
  BY <1>3, <1>4, <1>6, HeightFacts
<1>9. p \in Hash /\ Height[p] \in Nat
  BY <1>7, LedgerFacts, HeightFacts
<1>10. Height[p] = Height[b]
  <2>1. p \notin above
    <3> HIDE DEF above, p
    <3> QED
      BY <1>2, <1>5, <1>8, <1>9
  <2>2. ~(Height[b] < Height[p])
    BY <1>7, <1>8, <2>1
  <2> QED
    BY <1>3, <1>5, <1>8, <1>9, <2>2
<1>11. p = b
  BY <1>7, <1>8, <1>10, OneAtHeight
<1> QED
  BY <1>3, <1>11

(* The chain of an account begins with a block that has no predecessor.    *)
LEMMA OpenExists ==
    ASSUME NEW L \in Ledgers, NEW b \in L
    PROVE  \E o \in L : Chain[o].account = Chain[b].account /\ Chain[o].previous = NoHash
<1> DEFINE chain == {d \in L : Chain[d].account = Chain[b].account}
<1>1. chain \in SUBSET Hash /\ chain # {}
  BY LedgerFacts
<1>2. PICK o \in chain : \A e \in chain : Height[o] <= Height[e]
  BY <1>1, LowestBlock, Zenon
<1>3. o \in L /\ Chain[o].account = Chain[b].account /\ o \in Hash
  BY LedgerFacts
<1>4. ASSUME Chain[o].previous # NoHash PROVE FALSE
  <2> DEFINE p == Chain[o].previous
  <2>1. /\ p \in L /\ p \in Hash /\ Chain[p].account = Chain[b].account
        /\ Height[o] = Height[p] + 1
    BY <1>3, <1>4, LedgerFacts, HeightFacts
  <2>2. p \in chain /\ Height[p] \in Nat
    BY <2>1, HeightFacts
  <2> HIDE DEF p, chain
  <2> QED
    BY <1>2, <2>1, <2>2
<1> QED
  BY <1>3, <1>4

(* latest_get: the head of an account is its highest block.                *)
LEMMA LatestFacts ==
    ASSUME NEW L \in Ledgers, NEW a \in Accounts(L)
    PROVE  /\ Latest(L, a) \in L /\ Chain[Latest(L, a)].account = a
           /\ \A b \in L : Chain[b].account = a => Height[b] <= Height[Latest(L, a)]
<1> DEFINE chain == {b \in L : Chain[b].account = a}
           IsLast(b) == Chain[b].account = a /\ \A c \in L : Chain[c].previous # b
<1>1. chain \in SUBSET Hash /\ chain # {}
  BY LedgerFacts DEF Accounts
<1>2. PICK m \in chain : \A c \in chain : Height[c] <= Height[m]
  BY <1>1, HighestBlock, Zenon
<1>3. m \in L /\ m \in Hash /\ Chain[m].account = a /\ Height[m] \in Nat
  BY LedgerFacts, HeightFacts
<1>4. IsLast(m)
  <2> SUFFICES ASSUME NEW c \in L, Chain[c].previous = m PROVE FALSE
    BY <1>3
  <2>1. c \in Hash /\ Chain[c].previous # NoHash
    BY <1>3, LedgerFacts, HeightFacts
  <2>2. Chain[c].account = a /\ Height[c] = Height[m] + 1
    BY <1>3, <2>1, HeightFacts
  <2>3. Height[c] <= Height[m]
    BY <1>2, <2>2
  <2> QED
    BY <1>3, <2>2, <2>3
<1>5. Latest(L, a) \in L /\ IsLast(Latest(L, a))
  BY <1>3, <1>4 DEF Latest
<1>6. Latest(L, a) = m
  <2>1. Latest(L, a) \in Hash /\ Latest(L, a) \in chain
    BY <1>5, LedgerFacts
  <2>2. Height[Latest(L, a)] \in Nat /\ Height[Latest(L, a)] <= Height[m]
    BY <1>2, <2>1, HeightFacts
  <2>3. ~(Height[Latest(L, a)] < Height[m])
    BY <1>3, <1>5, SuccessorExists
  <2> QED
    BY <1>3, <1>5, <2>2, <2>3, OneAtHeight
<1> QED
  BY <1>2, <1>3, <1>6

(* Two ledgers that share a block share the chain below it.                *)
LEMMA SharedBelow ==
    ASSUME NEW L \in Ledgers, NEW M \in Ledgers, NEW h \in L, h \in M,
           NEW b \in L, Chain[b].account = Chain[h].account, Height[b] <= Height[h]
    PROVE  b \in M
<1> DEFINE above == {g \in L : g \in M /\ Chain[g].account = Chain[b].account /\ Height[b] <= Height[g]}
<1>1. above \in SUBSET Hash /\ above # {}
  BY LedgerFacts
<1>2. PICK g \in above : \A e \in above : Height[g] <= Height[e]
  BY <1>1, LowestBlock, Zenon
<1>3. g \in L /\ g \in M /\ Chain[g].account = Chain[b].account /\ Height[b] <= Height[g]
  OBVIOUS
<1>4. g \in Hash /\ b \in Hash
  BY <1>3, LedgerFacts
<1>5. Height[b] \in Nat /\ Height[g] \in Nat
  BY <1>4, HeightFacts
<1>6. Height[g] = Height[b]
  <2> SUFFICES ASSUME Height[b] < Height[g] PROVE FALSE
    BY <1>3, <1>5
  <2> DEFINE p == Chain[g].previous
  <2>1. p # NoHash
    BY <1>4, <1>5, HeightFacts
  <2>2. p \in L /\ p \in M
    BY <1>3, <2>1, LedgerFacts
  <2>3. p \in Hash /\ Chain[p].account = Chain[b].account /\ Height[g] = Height[p] + 1
    BY <1>3, <1>4, <2>1, HeightFacts
  <2>4. Height[p] \in Nat
    BY <2>3, HeightFacts
  <2>5. Height[b] <= Height[p]
    BY <1>5, <2>3, <2>4
  <2>6. p \in above
    BY <2>2, <2>3, <2>5
  <2> HIDE DEF p, above
  <2> QED
    BY <1>2, <2>3, <2>4, <2>6
<1>7. g = b
  BY <1>3, <1>6, OneAtHeight
<1> QED
  BY <1>3, <1>7

(* The blocks that descend from a fork within a set of blocks.             *)
DisputedIn(b, stored) == \E c \in Ancestry[b] : Rivals(c) \cap stored # {}

(* A block is disputed if one that it depends on is, or if it has a rival. *)
LEMMA DisputedFacts ==
    ASSUME NEW b \in Hash, NEW stored
    PROVE  /\ Rivals(b) \cap stored # {} => DisputedIn(b, stored)
           /\ \A d \in Dependencies(b) : DisputedIn(d, stored) => DisputedIn(b, stored)
BY DependencyFacts DEF DisputedIn

(* If neither of two nodes knows the other's head of an account, what one  *)
(* has of it and the other has not descends from a fork.                   *)
LEMMA ForkDisputed ==
    ASSUME NEW L \in Ledgers, NEW M \in Ledgers, NEW a \in Accounts(M), Latest(M, a) \notin L,
           NEW b \in L, b \notin M, Chain[b].account = a
    PROVE  DisputedIn(b, L \cup M)
<1> DEFINE agreed == {c \in L : /\ c \notin M /\ Chain[c].account = a
                                /\ ~DisputedIn(c, L \cup M)}
<1> SUFFICES ASSUME agreed # {} PROVE FALSE
  BY Zenon
<1>1. agreed \in SUBSET Hash
  BY LedgerFacts
<1>2. PICK c \in agreed : \A e \in agreed : Height[c] <= Height[e]
  BY <1>1, LowestBlock, Zenon
<1>3. c \in L /\ c \notin M /\ Chain[c].account = a /\ ~DisputedIn(c, L \cup M)
  OBVIOUS
<1>4. c \in Hash /\ Height[c] \in Nat
  BY <1>3, LedgerFacts, HeightFacts
<1>5. /\ Latest(M, a) \in M /\ Chain[Latest(M, a)].account = a
      /\ \A e \in M : Chain[e].account = a => Height[e] <= Height[Latest(M, a)]
  BY LatestFacts
<1>6. ASSUME NEW r \in M, Chain[r].account = a, Chain[r].previous = Chain[c].previous PROVE FALSE
  <2>1. r \in Rivals(c)
    BY <1>3, <1>6, LedgerFacts DEF Rivals
  <2> QED
    BY <1>3, <1>4, <2>1, DisputedFacts
<1>7. Chain[c].previous # NoHash
  BY <1>5, <1>6, OpenExists
<1> DEFINE p == Chain[c].previous
<1>8. /\ p \in L /\ p \in Hash /\ Chain[p].account = a /\ Height[c] = Height[p] + 1
      /\ p \in Dependencies(c)
  BY <1>3, <1>4, <1>7, LedgerFacts, HeightFacts DEF Dependencies
<1>9. Height[p] \in Nat
  BY <1>8, HeightFacts
<1>10. p \in M
  <2> SUFFICES ASSUME p \notin M PROVE FALSE
    OBVIOUS
  <2>1. ~DisputedIn(p, L \cup M)
    BY <1>3, <1>4, <1>8, DisputedFacts
  <2>2. p \in agreed
    BY <1>8, <2>1
  <2> HIDE DEF p, agreed
  <2> QED
    BY <1>2, <1>8, <1>9, <2>2
<1>11. p # Latest(M, a)
  BY <1>8
<1>12. Latest(M, a) \in Hash /\ Height[Latest(M, a)] \in Nat
  BY <1>5, LedgerFacts, HeightFacts
<1>13. Height[p] < Height[Latest(M, a)]
  <2>1. Height[p] <= Height[Latest(M, a)]
    BY <1>5, <1>8, <1>10
  <2>2. Height[p] # Height[Latest(M, a)]
    BY <1>5, <1>8, <1>10, <1>11, OneAtHeight
  <2> QED
    BY <1>9, <1>12, <2>1, <2>2
<1>14. \E d \in M : Chain[d].account = Chain[p].account /\ Chain[d].previous = p
  BY <1>5, <1>8, <1>10, <1>13, SuccessorExists
<1> QED
  BY <1>6, <1>8, <1>14

-----------------------------------------------------------------------------
(* The operators that the session is built from.                           *)

(* What is walked through from a block of a ledger is in the ledger.       *)
LEMMA DownInside ==
    ASSUME NEW L \in Ledgers, NEW h \in L \cup {NoHash}, NEW e \in Hash \cup {NoHash}
    PROVE  Down(h, e) \subseteq L
<1>1. Down(NoHash, e) = {}
  BY DownUnfolds, Zenon
<1> DEFINE bad == {g \in L : ~(Down(g, e) \subseteq L)}
<1> SUFFICES ASSUME bad # {} PROVE FALSE
  BY <1>1, Zenon
<1>2. bad \in SUBSET Hash
  BY LedgerFacts
<1>3. PICK g \in bad : \A c \in bad : Height[g] <= Height[c]
  BY <1>2, LowestBlock, Zenon
<1>4. g \in L /\ g \in Hash /\ ~(Down(g, e) \subseteq L)
  BY <1>2
<1> DEFINE p == Chain[g].previous
<1>5. Down(g, e) = IF g \in {NoHash, e} THEN {} ELSE {g} \cup Down(p, e)
  BY <1>4, DownUnfolds, Zenon
<1>6. p # NoHash /\ ~(Down(p, e) \subseteq L)
  BY <1>1, <1>4, <1>5
<1>7. p \in L /\ p \in Hash /\ Height[g] = Height[p] + 1
  BY <1>4, <1>6, LedgerFacts, HeightFacts
<1>8. Height[p] \in Nat /\ p \in bad
  BY <1>6, <1>7, HeightFacts
<1> HIDE DEF p, bad
<1> QED
  BY <1>3, <1>7, <1>8

(* The walk down from a block meets all blocks above its end.              *)
LEMMA DownCovers ==
    ASSUME NEW L \in Ledgers, NEW h \in L, NEW b \in L, Chain[b].account = Chain[h].account,
           Height[b] <= Height[h], NEW e \in Hash \cup {NoHash},
           e # NoHash => Height[e] < Height[b]
    PROVE  b \in Down(h, e)
<1> DEFINE bad == {g \in L : /\ Chain[g].account = Chain[b].account /\ Height[b] <= Height[g]
                             /\ b \notin Down(g, e)}
<1> SUFFICES ASSUME bad # {} PROVE FALSE
  BY Zenon
<1>1. bad \in SUBSET Hash
  BY LedgerFacts
<1>2. PICK g \in bad : \A c \in bad : Height[g] <= Height[c]
  BY <1>1, LowestBlock, Zenon
<1>3. /\ g \in L /\ g \in Hash /\ Chain[g].account = Chain[b].account /\ Height[b] <= Height[g]
      /\ b \notin Down(g, e)
  BY <1>1
<1>4. b \in Hash
  BY LedgerFacts
<1>5. Height[b] \in Nat /\ Height[g] \in Nat /\ g # NoHash
  BY <1>3, <1>4, HeightFacts
<1>6. g # e
  <2> SUFFICES ASSUME g = e PROVE FALSE
    OBVIOUS
  <2>1. Height[g] < Height[b]
    BY <1>5
  <2> QED
    BY <1>3, <1>5, <2>1
<1> DEFINE p == Chain[g].previous
<1>7. Down(g, e) = {g} \cup Down(p, e)
  BY <1>3, <1>5, <1>6, DownUnfolds
<1>8. Height[b] < Height[g] /\ b \notin Down(p, e)
  <2>1. b # g /\ b \notin Down(p, e)
    BY <1>3, <1>7
  <2>2. Height[b] # Height[g]
    BY <1>3, <2>1, OneAtHeight
  <2> QED
    BY <1>3, <1>5, <2>1, <2>2
<1>9. p # NoHash
  BY <1>3, <1>5, <1>8, HeightFacts
<1>10. p \in L /\ p \in Hash /\ Chain[p].account = Chain[b].account /\ Height[g] = Height[p] + 1
  BY <1>3, <1>9, LedgerFacts, HeightFacts
<1>11. Height[p] \in Nat
  BY <1>10, HeightFacts
<1>12. Height[b] <= Height[p]
  BY <1>5, <1>8, <1>10, <1>11
<1>13. p \in bad
  BY <1>8, <1>10, <1>12
<1> HIDE DEF p, bad
<1> QED
  BY <1>2, <1>10, <1>11, <1>13

(* latest_begin finds the first account from lo on.                        *)
LEMMA FromFacts ==
    ASSUME NEW L \in Ledgers, NEW lo \in Nat
    PROVE  LET f == From(L, lo)
           IN /\ f = NoInfo => \A b \in L : Chain[b].account < lo
              /\ f # NoInfo =>
                    /\ f = [account |-> f.account, head |-> f.head]
                    /\ f.account \in Accounts(L) /\ f.account \in Nat /\ f.account # 0
                    /\ f.account >= lo /\ f.head = Latest(L, f.account)
                    /\ f.head \in L /\ Chain[f.head].account = f.account
                    /\ \A b \in L : Chain[b].account >= lo => f.account <= Chain[b].account
<1> DEFINE f == From(L, lo)
           found == {x \in Accounts(L) : x >= lo}
           first == CHOOSE x \in found : \A y \in found : x <= y
<1>1. /\ \A x \in Accounts(L) : x \in Nat /\ x # 0
      /\ \A b \in L : Chain[b].account \in Accounts(L)
  BY LedgerFacts, AccountFacts DEF Accounts
<1>2. CASE found = {}
  <2>1. f = NoInfo
    BY <1>2 DEF From
  <2>2. \A b \in L : Chain[b].account < lo
    BY <1>1, <1>2
  <2> QED
    BY <2>1, <2>2
<1>3. CASE found # {}
  <2>1. found \in SUBSET Nat
    BY <1>1
  <2>2. \E n \in found : \A m \in found : n <= m
    BY <1>3, <2>1, LeastNat, Zenon
  <2>3. first \in found /\ \A m \in found : first <= m
    BY <2>2
  <2>4. PICK a \in found : a = first
    BY <2>3
  <2>5. f = [account |-> a, head |-> Latest(L, a)]
    BY <1>3, <2>4 DEF From
  <2>6. a \in Accounts(L) /\ a >= lo /\ a \in Nat /\ a # 0 /\ \A m \in found : a <= m
    BY <1>1, <2>3, <2>4
  <2>7. \A b \in L : Chain[b].account >= lo => a <= Chain[b].account
    BY <1>1, <2>6, Zenon
  <2>8. Latest(L, a) \in L /\ Chain[Latest(L, a)].account = a
    BY <2>6, LatestFacts
  <2> HIDE DEF found, f
  <2>9. f.account = a /\ f.head = Latest(L, a)
    BY <2>5
  <2> QED
    BY <2>5, <2>6, <2>7, <2>8, <2>9 DEF f, NoInfo
<1> QED
  BY <1>2, <1>3

(* ledger::process stores a block only if the ledger remains one, and does *)
(* so if the block is ready, unless it has a rival.                        *)
LEMMA ProcessedFacts ==
    ASSUME NEW L \in Ledgers, NEW b \in Hash
    PROVE  /\ Processed(L, b) \in Ledgers /\ L \subseteq Processed(L, b)
           /\ Processed(L, b) \subseteq L \cup {b}
           /\ Verdict(L, b) # "gap" <=> b \in L \/ Dependencies(b) \subseteq L
           /\ Verdict(L, b) # "gap" => b \in Processed(L, b) \/ Rivals(b) \cap L # {}
           /\ Verdict(L, b) = "progress" => Processed(L, b) = L \cup {b}
<1>1. /\ b \in L => Verdict(L, b) = "old"
      /\ b \notin L /\ ~(Dependencies(b) \subseteq L) => Verdict(L, b) = "gap"
      /\ b \notin L /\ Dependencies(b) \subseteq L =>
            Verdict(L, b) = IF Rivals(b) \cap L = {} THEN "progress" ELSE "fork"
  BY DEF Verdict
<1>2. Processed(L, b) = IF Verdict(L, b) = "progress" THEN L \cup {b} ELSE L
  BY DEF Processed
<1>3. Verdict(L, b) = "progress" => L \cup {b} \in Ledgers
  <2> SUFFICES ASSUME b \notin L, Dependencies(b) \subseteq L, Rivals(b) \cap L = {}
               PROVE  L \cup {b} \in Ledgers
    BY <1>1
  <2>1. \A c \in L : b \notin Rivals(c)
    BY LedgerFacts DEF Rivals
  <2>2. b \notin Rivals(b)
    BY DEF Rivals
  <2>3. L \subseteq Hash /\ Genesis \subseteq L
    BY DEF Ledgers
  <2> QED
    BY <2>1, <2>2, <2>3, LedgerFacts DEF Ledgers
<1> QED
  BY <1>1, <1>2, <1>3

(* What process_receive_republish does to a ledger and to the gap cache.   *)
Republishes(L, W, f) ==
    /\ f.ledger \in Ledgers /\ L \subseteq f.ledger /\ f.ledger \subseteq L \cup W /\ f.waiting \subseteq W
    /\ \A b \in Ready(L, W) : b \notin f.waiting /\ (b \in f.ledger \/ Rivals(b) \cap f.ledger # {})

(* process_receive_republish goes on with what waited for the block that   *)
(* it has just stored.                                                     *)
LEMMA RepublishOne ==
    ASSUME NEW L \in Ledgers, NEW W \in SUBSET Hash, NEW b \in Ready(L, W), NEW f,
           Republishes(Processed(L, b), W \ {b}, f)
    PROVE  Republishes(L, W, f)
<1> DEFINE M == Processed(L, b)
<1>1. b \in W /\ b \in Hash /\ Verdict(L, b) # "gap"
  BY DEF Ready
<1>2. /\ M \in Ledgers /\ L \subseteq M /\ M \subseteq L \cup {b}
      /\ b \in M \/ Rivals(b) \cap L # {}
  BY <1>1, ProcessedFacts
<1> HIDE DEF M
<1>3. /\ f.ledger \in Ledgers /\ M \subseteq f.ledger /\ f.ledger \subseteq M \cup (W \ {b})
      /\ f.waiting \subseteq W \ {b}
      /\ \A c \in Ready(M, W \ {b}) :
            c \notin f.waiting /\ (c \in f.ledger \/ Rivals(c) \cap f.ledger # {})
  BY Zenon DEF Republishes, M
<1>4. ASSUME NEW c \in Ready(L, W)
      PROVE  c \notin f.waiting /\ (c \in f.ledger \/ Rivals(c) \cap f.ledger # {})
  <2>1. c \in W /\ c \in Hash /\ Verdict(L, c) # "gap"
    BY DEF Ready
  <2>2. CASE c = b
    BY <1>2, <1>3, <2>2
  <2>3. CASE c # b
    <3>1. c \in L \/ Dependencies(c) \subseteq L
      BY <2>1, ProcessedFacts
    <3>2. Verdict(M, c) # "gap"
      BY <1>2, <2>1, <3>1, ProcessedFacts
    <3>3. c \in Ready(M, W \ {b})
      BY <2>1, <2>3, <3>2 DEF Ready
    <3> QED
      BY <1>3, <3>3, Zenon
  <2> QED
    BY <2>2, <2>3
<1> QED
  BY <1>1, <1>2, <1>3, <1>4 DEF Republishes

(* process_receive_republish takes only blocks that it was given or that   *)
(* waited in the gap cache, and leaves none there whose dependencies are   *)
(* stored.                                                                 *)
LEMMA RepublishedFacts ==
    ASSUME NEW L \in Ledgers, NEW W \in SUBSET Hash
    PROVE  Republishes(L, W, Republished(L, W))
<1> DEFINE Bad(M, V) == ~Republishes(M, V, Republished(M, V))
           sizes == {n \in Nat : \E M \in Ledgers, V \in SUBSET Hash : Bad(M, V) /\ Cardinality(V) = n}
<1>1. \A V \in SUBSET Hash : IsFiniteSet(V) /\ Cardinality(V) \in Nat
  BY BootstrapAssumption, FS_Subset, FS_CardinalityType
<1> SUFFICES ASSUME Bad(L, W) PROVE FALSE
  OBVIOUS
<1>2. sizes \in SUBSET Nat /\ sizes # {}
  BY <1>1
<1>3. PICK n \in sizes : \A m \in sizes : n <= m
  BY <1>2, LeastNat, Zenon
<1>4. PICK M \in Ledgers, V \in SUBSET Hash : Bad(M, V) /\ Cardinality(V) = n
  OBVIOUS
<1> DEFINE ready == Ready(M, V)
           b == CHOOSE b \in ready : TRUE
<1>5. Republished(M, V) = IF ready = {} THEN [ledger |-> M, waiting |-> V]
                          ELSE Republished(Processed(M, b), V \ {b})
  BY RepublishedUnfolds, Zenon
<1>6. ready # {}
  <2> SUFFICES ASSUME ready = {} PROVE FALSE
    OBVIOUS
  <2> HIDE DEF ready
  <2> DEFINE f == [ledger |-> M, waiting |-> V]
  <2>1. Republished(M, V) = f
    BY <1>5
  <2>2. Republishes(M, V, f)
    BY DEF Republishes, ready
  <2> QED
    BY <1>4, <2>1, <2>2, Zenon
<1>7. b \in ready /\ b \in V
  BY <1>6 DEF Ready
<1> HIDE DEF b
<1>8. Processed(M, b) \in Ledgers /\ V \ {b} \in SUBSET Hash
  BY <1>7, ProcessedFacts
<1>9. Cardinality(V \ {b}) \in Nat /\ Cardinality(V \ {b}) < Cardinality(V)
  BY <1>1, <1>7, <1>8, FS_RemoveElement
<1>10. Bad(Processed(M, b), V \ {b})
  <2>1. Republished(M, V) = Republished(Processed(M, b), V \ {b})
    BY <1>5, <1>6, Zenon
  <2> QED
    BY <1>4, <1>7, <2>1, RepublishOne, Zenon
<1>11. Cardinality(V \ {b}) \in sizes
  BY <1>8, <1>9, <1>10, Zenon
<1> HIDE DEF sizes
<1> QED
  BY <1>2, <1>3, <1>4, <1>9, <1>11

(* add_dependency_visitor: what is missing is a dependency.                *)
LEMMA MissingFacts ==
    ASSUME NEW b \in Hash, NEW Y
    PROVE  /\ Missing(b, Y) # NoHash => /\ Missing(b, Y) \in Dependencies(b) \ Y
                                        /\ Missing(b, Y) \in Hash
           /\ Missing(b, Y) = NoHash => Dependencies(b) \subseteq Y
<1>1. /\ Missing(b, Y) # NoHash => Missing(b, Y) \in Dependencies(b) \ Y
      /\ Missing(b, Y) = NoHash => Dependencies(b) \subseteq Y
  BY DEF Missing, Dependencies
<1> QED
  BY <1>1, DependencyFacts

(* A stack in which a block is above those that depend on it.              *)
Linked(stack) ==
    \A i, j \in 1..Len(stack) :
        i < j => Depth[stack[j]] < Depth[stack[i]] /\ Ancestry[stack[j]] \subseteq Ancestry[stack[i]]

(* What fill_dependencies puts on the stack.                               *)
Fills(b, sync, s) ==
    /\ s \in Seq(Hash) /\ Len(s) >= 1 /\ s[1] = b /\ Linked(s)
    /\ \A i \in 1..(Len(s) - 1) :
          s[i] \in sync.retrieves /\ s[i + 1] = Missing(s[i], sync.synchronized) /\ s[i + 1] # NoHash
    /\ s[Len(s)] \notin sync.retrieves \/ Missing(s[Len(s)], sync.synchronized) = NoHash

(* fill_dependencies pushes one block on the stack, and goes on with what  *)
(* that one lacks.                                                         *)
LEMMA FillOne ==
    ASSUME NEW b \in Hash, NEW sync, NEW m \in Hash, m = Missing(b, sync.synchronized),
           b \in sync.retrieves, NEW s, Fills(m, sync, s)
    PROVE  Fills(b, sync, <<b>> \o s)
<1> DEFINE t == <<b>> \o s
<1>1. /\ s \in Seq(Hash) /\ Len(s) >= 1 /\ s[1] = m /\ Linked(s)
      /\ \A i \in 1..(Len(s) - 1) :
            s[i] \in sync.retrieves /\ s[i + 1] = Missing(s[i], sync.synchronized) /\ s[i + 1] # NoHash
      /\ s[Len(s)] \notin sync.retrieves \/ Missing(s[Len(s)], sync.synchronized) = NoHash
  BY DEF Fills
<1>2. Len(s) \in Nat /\ m # NoHash /\ \A i \in 1..Len(s) : s[i] \in Hash
  <2>1. s \in Seq(Hash) /\ m # NoHash
    BY <1>1, HeightFacts, Zenon
  <2> QED
    BY <2>1
<1>3. /\ t \in Seq(Hash) /\ Len(t) = Len(s) + 1 /\ t[1] = b
      /\ \A i \in 1..Len(s) : t[i + 1] = s[i]
  <2>1. <<b>> \in Seq(Hash) /\ Len(<<b>>) = 1 /\ <<b>>[1] = b
    OBVIOUS
  <2>2. /\ t \in Seq(Hash) /\ Len(t) = 1 + Len(s)
        /\ \A i \in 1..(1 + Len(s)) : t[i] = IF i <= 1 THEN <<b>>[i] ELSE s[i - 1]
    BY <1>1, <2>1
  <2> HIDE DEF t
  <2> QED
    BY <1>2, <2>1, <2>2
<1>4. Depth[m] < Depth[b] /\ Ancestry[m] \subseteq Ancestry[b]
  BY <1>2, MissingFacts, DependencyFacts
<1> HIDE DEF t
<1>5. Linked(t)
  <2> SUFFICES ASSUME NEW i \in 1..Len(t), NEW j \in 1..Len(t), i < j
               PROVE  Depth[t[j]] < Depth[t[i]] /\ Ancestry[t[j]] \subseteq Ancestry[t[i]]
    BY Zenon DEF Linked
  <2>1. PICK k \in 1..Len(s) : k = j - 1 /\ t[j] = s[k]
    BY <1>2, <1>3
  <2>2. CASE i = 1
    <3>1. CASE j = 2
      BY <1>1, <1>3, <1>4, <2>1, <2>2, <3>1
    <3>2. CASE j > 2
      <4>0. 1 \in 1..Len(s) /\ 1 < k
        BY <1>1, <1>2, <2>1, <3>2
      <4>1. Depth[s[k]] < Depth[m] /\ Ancestry[s[k]] \subseteq Ancestry[m]
        BY <1>1, <4>0, Zenon DEF Linked
      <4>2. Depth[b] \in Nat /\ Depth[m] \in Nat /\ Depth[s[k]] \in Nat
        BY <1>2, <2>1, DependencyFacts
      <4> QED
        BY <1>3, <1>4, <2>1, <2>2, <4>1, <4>2
    <3> QED
      BY <2>2, <3>1, <3>2
  <2>3. CASE i # 1
    <3>1. PICK l \in 1..Len(s) : l = i - 1 /\ t[i] = s[l]
      BY <1>2, <1>3, <2>3
    <3>2. l < k
      BY <2>1, <3>1
    <3>3. Depth[s[k]] < Depth[s[l]] /\ Ancestry[s[k]] \subseteq Ancestry[s[l]]
      BY <1>1, <3>2, Zenon DEF Linked
    <3> QED
      BY <2>1, <3>1, <3>3, Zenon
  <2> QED
    BY <2>2, <2>3
<1>6. ASSUME NEW i \in 1..(Len(t) - 1)
      PROVE  t[i] \in sync.retrieves /\ t[i + 1] = Missing(t[i], sync.synchronized) /\ t[i + 1] # NoHash
  <2>1. CASE i = 1
    BY <1>1, <1>2, <1>3, <2>1
  <2>2. CASE i # 1
    <3>1. i - 1 \in 1..(Len(s) - 1) /\ t[i] = s[i - 1] /\ t[i + 1] = s[i]
      BY <1>2, <1>3, <2>2
    <3> QED
      BY <1>1, <3>1
  <2> QED
    BY <2>1, <2>2
<1>7. t[Len(t)] = s[Len(s)] /\ Len(t) >= 1
  BY <1>1, <1>2, <1>3
<1> QED
  BY <1>1, <1>3, <1>5, <1>6, <1>7 DEF Fills, t

(* fill_dependencies ends with a block that lacks nothing, or that cannot  *)
(* be retrieved, for every block and all that is synchronized.             *)
LEMMA FillFacts ==
    ASSUME NEW b \in Hash, NEW sync \in Syncs
    PROVE  Fills(b, sync, Fill(b, sync))
<1> DEFINE bad == {c \in Hash : ~Fills(c, sync, Fill(c, sync))}
<1> SUFFICES ASSUME bad # {} PROVE FALSE
  BY Zenon
<1>1. PICK c \in bad : \A e \in bad : Depth[c] <= Depth[e]
  BY LeastBlock, Zenon
<1>2. c \in Hash /\ ~Fills(c, sync, Fill(c, sync))
  OBVIOUS
<1> DEFINE m == Missing(c, sync.synchronized)
<1>3. Fill(c, sync) = IF c \notin sync.retrieves \/ m = NoHash THEN <<c>> ELSE <<c>> \o Fill(m, sync)
  BY <1>2, FillUnfolds, Zenon
<1>4. c \in sync.retrieves /\ m # NoHash
  <2> SUFFICES ASSUME c \notin sync.retrieves \/ m = NoHash PROVE FALSE
    OBVIOUS
  <2>1. Fill(c, sync) = <<c>>
    BY <1>3, Zenon
  <2>2. Fills(c, sync, <<c>>)
    BY <1>2 DEF Fills, Linked
  <2> QED
    BY <1>2, <2>1, <2>2, Zenon
<1>5. m \in Hash /\ m \in Dependencies(c)
  BY <1>2, <1>4, MissingFacts
<1>6. Depth[m] < Depth[c] /\ Depth[m] \in Nat /\ Depth[c] \in Nat
  BY <1>2, <1>5, DependencyFacts
<1>7. m \notin bad
  <2> HIDE DEF bad, m
  <2> QED
    BY <1>1, <1>6
<1>8. Fills(m, sync, Fill(m, sync))
  BY <1>5, <1>7
<1>9. Fill(c, sync) = <<c>> \o Fill(m, sync)
  BY <1>3, <1>4, Zenon
<1> QED
  BY <1>2, <1>4, <1>5, <1>8, <1>9, FillOne, Zenon

(* Sequences.                                                              *)
LEMMA TailFacts ==
    ASSUME NEW S, NEW s \in Seq(S), s # <<>>
    PROVE  /\ Len(s) \in Nat /\ Len(s) >= 1 /\ Head(s) = s[1] /\ s[1] \in S
           /\ Tail(s) \in Seq(S) /\ Len(Tail(s)) = Len(s) - 1
           /\ \A i \in 1..Len(Tail(s)) : i + 1 \in 1..Len(s) /\ Tail(s)[i] = s[i + 1]
           /\ \A i \in 1..Len(s) : i # 1 => i - 1 \in 1..Len(Tail(s)) /\ Tail(s)[i - 1] = s[i]
OBVIOUS

(* A connection with nothing in it.                                        *)
LEMMA EmptyFacts == Len(<<>>) = 0 /\ \A s : s = <<>> => Len(s) = 0
  OBVIOUS

(* Something is put at the end of a sequence.                              *)
LEMMA AppendFacts ==
    ASSUME NEW S, NEW s \in Seq(S), NEW e \in S
    PROVE  /\ Append(s, e) \in Seq(S) /\ Append(s, e) # <<>> /\ Len(s) \in Nat
           /\ Len(Append(s, e)) = Len(s) + 1 /\ Append(s, e)[Len(s) + 1] = e
           /\ \A i \in 1..Len(s) : i \in 1..Len(Append(s, e)) /\ Append(s, e)[i] = s[i]
           /\ s = <<>> => Append(s, e) = <<e>>
<1>1. /\ Append(s, e) \in Seq(S) /\ Append(s, e) # <<>>
      /\ Len(Append(s, e)) = Len(s) + 1 /\ Append(s, e)[Len(s) + 1] = e
      /\ \A i \in 1..Len(s) : Append(s, e)[i] = s[i]
  OBVIOUS
<1>2. Len(s) \in Nat
  OBVIOUS
<1>3. s = <<>> => Append(s, e) = <<e>>
  OBVIOUS
<1> QED
  BY <1>1, <1>2, <1>3

(* What is sent comes last, after all that was sent before.                *)
LEMMA SentFacts ==
    ASSUME NEW S, NEW s \in Seq(S), NEW e \in S, NEW t, t = Append(s, e)
    PROVE  /\ Len(s) \in Nat /\ Len(t) \in Nat /\ Len(t) = Len(s) + 1 /\ t \in Seq(S) /\ t # <<>>
           /\ Len(t) \in 1..Len(t) /\ t[Len(t)] = e
           /\ \A i \in 1..Len(s) : i \in 1..Len(t) /\ t[i] = s[i]
           /\ \A i \in 1..Len(t) : \/ i \in 1..Len(s) /\ t[i] = s[i] /\ i < Len(t)
                                   \/ i = Len(t) /\ t[i] = e
<1>1. /\ t \in Seq(S) /\ t # <<>> /\ Len(s) \in Nat
      /\ Len(t) = Len(s) + 1 /\ t[Len(s) + 1] = e
      /\ \A i \in 1..Len(s) : i \in 1..Len(t) /\ t[i] = s[i]
  BY AppendFacts
<1>2. \A n \in Nat : /\ n + 1 \in Nat /\ n + 1 \in 1..(n + 1)
                    /\ \A i \in 1..(n + 1) : (i \in 1..n /\ i < n + 1) \/ i = n + 1
  OBVIOUS
<1> QED
  BY <1>1, <1>2, Zenon

(* A stack, its top, and what is below.                                    *)
LEMMA FrontFacts ==
    ASSUME NEW S, NEW s \in Seq(S), s # <<>>
    PROVE  /\ Len(s) \in Nat /\ Len(s) >= 1 /\ Last(s) = s[Len(s)] /\ Last(s) \in S
           /\ Front(s) \in Seq(S) /\ Len(Front(s)) = Len(s) - 1
           /\ \A i \in 1..(Len(s) - 1) : Front(s)[i] = s[i]
           /\ ToSet(s) = ToSet(Front(s)) \cup {Last(s)}
<1>1. Len(s) \in Nat /\ Len(s) >= 1 /\ \A i \in 1..Len(s) : s[i] \in S
  OBVIOUS
<1>2. \A i \in 1..(Len(s) - 1) : s[i] \in S
  BY <1>1
<1>3. /\ SubSeq(s, 1, Len(s) - 1) \in Seq(S)
      /\ Len(SubSeq(s, 1, Len(s) - 1)) = IF 1 <= Len(s) - 1 THEN Len(s) - 1 - 1 + 1 ELSE 0
      /\ \A i \in 1..(Len(s) - 1 - 1 + 1) : SubSeq(s, 1, Len(s) - 1)[i] = s[1 + i - 1]
  BY <1>1, <1>2
<1>4. Front(s) = SubSeq(s, 1, Len(s) - 1) /\ Last(s) = s[Len(s)]
  BY DEF Front, Last
<1>5. Front(s) \in Seq(S) /\ Len(Front(s)) = Len(s) - 1
  <2>1. Len(Front(s)) = IF 1 <= Len(s) - 1 THEN Len(s) - 1 - 1 + 1 ELSE 0
    BY <1>3, <1>4, Zenon
  <2>2. \A n \in Nat : n >= 1 => (IF 1 <= n - 1 THEN n - 1 - 1 + 1 ELSE 0) = n - 1
    OBVIOUS
  <2> QED
    BY <1>1, <1>3, <1>4, <2>1, <2>2, Zenon
<1>6. \A i \in 1..(Len(s) - 1) : Front(s)[i] = s[i]
  BY <1>1, <1>3, <1>4
<1>7. ToSet(s) = ToSet(Front(s)) \cup {Last(s)}
  <2>1. ToSet(s) = {s[i] : i \in 1..Len(s)} /\ ToSet(Front(s)) = {Front(s)[i] : i \in 1..(Len(s) - 1)}
    BY <1>5 DEF ToSet
  <2>2. ToSet(Front(s)) = {s[i] : i \in 1..(Len(s) - 1)}
    BY <1>6, <2>1
  <2> QED
    BY <1>1, <1>4, <2>1, <2>2
<1> QED
  BY <1>1, <1>4, <1>5, <1>6, <1>7

(* The elements of a sequence.                                             *)
LEMMA ToSetFacts ==
    ASSUME NEW S, NEW s \in Seq(S)
    PROVE  /\ \A i \in 1..Len(s) : s[i] \in ToSet(s)
           /\ \A x \in ToSet(s) : x \in S /\ \E i \in 1..Len(s) : x = s[i]
BY DEF ToSet

(* What is below a block on a stack depends on it, so that it is not the   *)
(* block itself.                                                           *)
LEMMA LinkedFacts ==
    ASSUME NEW s \in Seq(Hash), s # <<>>, Linked(s)
    PROVE  /\ Front(s) \in Seq(Hash) /\ Linked(Front(s)) /\ Last(s) \in Hash
           /\ ToSet(s) = ToSet(Front(s)) \cup {Last(s)}
           /\ \A b \in ToSet(Front(s)) : Depth[Last(s)] < Depth[b]
           /\ \A b \in ToSet(s) : /\ Depth[Last(s)] <= Depth[b]
                                  /\ Ancestry[Last(s)] \subseteq Ancestry[b]
<1>1. /\ Len(s) \in Nat /\ Len(s) >= 1 /\ Last(s) = s[Len(s)] /\ Last(s) \in Hash
      /\ Front(s) \in Seq(Hash) /\ Len(Front(s)) = Len(s) - 1
      /\ \A i \in 1..(Len(s) - 1) : Front(s)[i] = s[i]
      /\ ToSet(s) = ToSet(Front(s)) \cup {Last(s)}
  BY FrontFacts
<1>2. Linked(Front(s))
  <2> SUFFICES ASSUME NEW i \in 1..Len(Front(s)), NEW j \in 1..Len(Front(s)), i < j
               PROVE  /\ Depth[Front(s)[j]] < Depth[Front(s)[i]]
                      /\ Ancestry[Front(s)[j]] \subseteq Ancestry[Front(s)[i]]
    BY Zenon DEF Linked
  <2>1. /\ i \in 1..Len(s) /\ j \in 1..Len(s) /\ Front(s)[i] = s[i] /\ Front(s)[j] = s[j]
    BY <1>1
  <2>2. Depth[s[j]] < Depth[s[i]] /\ Ancestry[s[j]] \subseteq Ancestry[s[i]]
    BY <2>1, Zenon DEF Linked
  <2> QED
    BY <2>1, <2>2, Zenon
<1>3. ASSUME NEW b \in ToSet(Front(s))
      PROVE  b \in Hash /\ Depth[Last(s)] < Depth[b] /\ Ancestry[Last(s)] \subseteq Ancestry[b]
  <2>1. PICK i \in 1..Len(Front(s)) : b = Front(s)[i]
    BY <1>1, ToSetFacts
  <2>2. i \in 1..Len(s) /\ Len(s) \in 1..Len(s) /\ i < Len(s) /\ b = s[i]
    BY <1>1, <2>1
  <2>3. Depth[s[Len(s)]] < Depth[s[i]] /\ Ancestry[s[Len(s)]] \subseteq Ancestry[s[i]]
    BY <2>2, Zenon DEF Linked
  <2>4. b \in Hash
    BY <1>1, ToSetFacts
  <2> QED
    BY <1>1, <2>2, <2>3, <2>4, Zenon
<1>4. ASSUME NEW b \in ToSet(s)
      PROVE  Depth[Last(s)] <= Depth[b] /\ Ancestry[Last(s)] \subseteq Ancestry[b]
  <2>1. CASE b = Last(s)
    BY <1>1, <2>1, DependencyFacts
  <2>2. CASE b # Last(s)
    <3>1. b \in ToSet(Front(s))
      BY <1>1, <2>2
    <3>2. b \in Hash /\ Depth[Last(s)] < Depth[b] /\ Ancestry[Last(s)] \subseteq Ancestry[b]
      BY <1>3, <3>1
    <3>3. Depth[b] \in Nat /\ Depth[Last(s)] \in Nat
      BY <1>1, <3>2, DependencyFacts
    <3> QED
      BY <3>2, <3>3
  <2> QED
    BY <2>1, <2>2
<1> QED
  BY <1>1, <1>2, <1>3, <1>4

(* What is put on the stack of a ledger's blocks is in the ledger.         *)
LEMMA FillInside ==
    ASSUME NEW sync, NEW L \in Ledgers, NEW b \in L, NEW s, Fills(b, sync, s)
    PROVE  ToSet(s) \subseteq L
<1>1. /\ s \in Seq(Hash) /\ s[1] = b
      /\ \A i \in 1..(Len(s) - 1) :
            s[i + 1] = Missing(s[i], sync.synchronized) /\ s[i + 1] # NoHash
  BY DEF Fills
<1>2. Len(s) \in Nat /\ \A i \in 1..Len(s) : s[i] \in Hash
  BY <1>1
<1> DEFINE out == {i \in 1..Len(s) : s[i] \notin L}
<1> SUFFICES ASSUME out # {} PROVE FALSE
  BY <1>1, ToSetFacts
<1>3. out \in SUBSET Nat
  BY <1>2
<1>4. PICK n \in out : \A m \in out : n <= m
  BY <1>3, LeastNat, Zenon
<1>5. n \in 1..Len(s) /\ s[n] \notin L
  OBVIOUS
<1>6. PICK m \in 1..(Len(s) - 1) : n = m + 1
  BY <1>1, <1>2, <1>5
<1>7. m \in 1..Len(s) /\ m \notin out
  BY <1>2, <1>4, <1>6
<1>8. s[m] \in L /\ s[m] \in Hash
  BY <1>2, <1>7
<1>9. s[n] \in Dependencies(s[m])
  BY <1>1, <1>6, <1>8, MissingFacts
<1> QED
  BY <1>5, <1>8, <1>9, LedgerFacts

(* fill_dependencies: the stack grows by what the block on top needs, up   *)
(* to a block that is not there or that needs nothing.                     *)
LEMMA FilledFacts ==
    ASSUME NEW stack \in Seq(Hash), stack # <<>>, Linked(stack), NEW sync \in Syncs
    PROVE  LET r == Front(stack) \o Fill(Last(stack), sync)
           IN /\ r \in Seq(Hash) /\ r # <<>> /\ Linked(r) /\ ToSet(stack) \subseteq ToSet(r)
              /\ ToSet(Front(r)) \subseteq ToSet(stack) \cup sync.retrieves
              /\ Last(r) \notin sync.retrieves \/ Dependencies(Last(r)) \subseteq sync.synchronized
              /\ \/ Last(r) \in ToSet(stack)
                 \/ \E y \in sync.retrieves : Last(r) \in Dependencies(y) \ sync.synchronized
              /\ \A L \in Ledgers : ToSet(stack) \subseteq L => ToSet(r) \subseteq L
<1> DEFINE top == Last(stack)
           rest == Front(stack)
           s == Fill(top, sync)
           r == rest \o s
           n == Len(stack)
<1>1. /\ n \in Nat /\ n >= 1 /\ top = stack[n] /\ top \in Hash
      /\ rest \in Seq(Hash) /\ Len(rest) = n - 1
      /\ \A i \in 1..(n - 1) : rest[i] = stack[i]
      /\ ToSet(stack) = ToSet(rest) \cup {top}
  BY FrontFacts
<1> HIDE DEF top, rest
<1>2. Fills(top, sync, s)
  BY <1>1, FillFacts, Zenon
<1> HIDE DEF s
<1>3. /\ s \in Seq(Hash) /\ s[1] = top /\ Linked(s)
      /\ \A i \in 1..(Len(s) - 1) :
            s[i] \in sync.retrieves /\ s[i + 1] = Missing(s[i], sync.synchronized) /\ s[i + 1] # NoHash
      /\ s[Len(s)] \notin sync.retrieves \/ Missing(s[Len(s)], sync.synchronized) = NoHash
  BY <1>2, Zenon DEF Fills
<1>4. Len(s) \in Nat /\ Len(s) >= 1 /\ s # <<>>
  <2>1. Len(s) >= 1
    BY <1>2, Zenon DEF Fills
  <2> QED
    BY <1>3, <2>1
<1>5. /\ r \in Seq(Hash) /\ Len(r) = n - 1 + Len(s)
      /\ \A i \in 1..(n - 1 + Len(s)) : r[i] = IF i <= n - 1 THEN rest[i] ELSE s[i - (n - 1)]
  <2>1. /\ r \in Seq(Hash) /\ Len(r) = Len(rest) + Len(s)
        /\ \A i \in 1..(Len(rest) + Len(s)) : r[i] = IF i <= Len(rest) THEN rest[i] ELSE s[i - Len(rest)]
    <3>1. rest \in Seq(Hash) /\ s \in Seq(Hash)
      BY <1>1, <1>3
    <3> HIDE DEF n
    <3> QED
      BY <3>1
  <2> HIDE DEF r, n
  <2> QED
    BY <1>1, <2>1
<1> HIDE DEF r
<1>6. /\ Len(r) \in Nat /\ Len(r) >= 1 /\ r # <<>>
      /\ \A i \in 1..Len(r) : \/ i \in 1..(n - 1) /\ r[i] = stack[i]
                              \/ \E k \in 1..Len(s) : i = n - 1 + k /\ r[i] = s[k]
      /\ \A k \in 1..Len(s) : n - 1 + k \in 1..Len(r) /\ r[n - 1 + k] = s[k]
      /\ \A i \in 1..(n - 1) : i \in 1..Len(r) /\ r[i] = rest[i]
  <2>1. Len(r) \in Nat /\ Len(r) >= 1
    BY <1>1, <1>4, <1>5
  <2>2. r # <<>>
    BY <2>1
  <2>3. ASSUME NEW i \in 1..Len(r)
        PROVE  \/ i \in 1..(n - 1) /\ r[i] = stack[i]
               \/ \E k \in 1..Len(s) : i = n - 1 + k /\ r[i] = s[k]
    <3> HIDE DEF n
    <3>1. CASE i <= n - 1
      BY <1>1, <1>4, <1>5, <3>1
    <3>2. CASE ~(i <= n - 1)
      <4>1. i - (n - 1) \in 1..Len(s) /\ r[i] = s[i - (n - 1)] /\ i = n - 1 + (i - (n - 1))
        BY <1>1, <1>4, <1>5, <3>2
      <4> QED
        BY <4>1
    <3> QED
      BY <3>1, <3>2
  <2>4. ASSUME NEW k \in 1..Len(s) PROVE n - 1 + k \in 1..Len(r) /\ r[n - 1 + k] = s[k]
    <3> HIDE DEF n
    <3>1. PICK i \in 1..(n - 1 + Len(s)) : i = n - 1 + k
      BY <1>1, <1>4
    <3>2. ~(i <= n - 1) /\ i - (n - 1) = k
      BY <1>1, <3>1
    <3>3. r[i] = s[i - (n - 1)]
      BY <1>5, <3>2, Zenon
    <3> QED
      BY <1>5, <3>1, <3>2, <3>3, Zenon
  <2>5. ASSUME NEW i \in 1..(n - 1) PROVE i \in 1..Len(r) /\ r[i] = rest[i]
    BY <1>1, <1>4, <1>5
  <2> QED
    BY <2>1, <2>2, <2>3, <2>4, <2>5
<1>7. Linked(r)
  <2> SUFFICES ASSUME NEW i \in 1..Len(r), NEW j \in 1..Len(r), i < j
               PROVE  Depth[r[j]] < Depth[r[i]] /\ Ancestry[r[j]] \subseteq Ancestry[r[i]]
    BY Zenon DEF Linked
  <2>1. CASE j \in 1..(n - 1)
    <3>1. i \in 1..n /\ j \in 1..n /\ r[i] = stack[i] /\ r[j] = stack[j]
      BY <1>1, <1>6, <2>1
    <3> QED
      BY <3>1, Zenon DEF Linked
  <2>2. CASE j \notin 1..(n - 1)
    <3>1. PICK k \in 1..Len(s) : j = n - 1 + k /\ r[j] = s[k]
      BY <1>6, <2>2
    <3>2. CASE i \in 1..(n - 1)
      <4>1. i \in 1..n /\ n \in 1..n /\ i < n /\ r[i] = stack[i] /\ 1 \in 1..Len(s)
        BY <1>1, <1>4, <1>6, <3>2
      <4>2. Depth[top] < Depth[r[i]] /\ Ancestry[top] \subseteq Ancestry[r[i]]
        BY <1>1, <4>1, Zenon DEF Linked
      <4>3. CASE k = 1
        BY <1>3, <3>1, <4>2, <4>3
      <4>4. CASE k # 1
        <5>1. 1 < k
          BY <4>4
        <5>2. Depth[r[j]] < Depth[top] /\ Ancestry[r[j]] \subseteq Ancestry[top]
          BY <1>3, <3>1, <4>1, <5>1, Zenon DEF Linked
        <5>3. r[i] \in Hash /\ r[j] \in Hash
          BY <1>5
        <5>4. Depth[r[i]] \in Nat /\ Depth[r[j]] \in Nat /\ Depth[top] \in Nat
          BY <1>1, <5>3, DependencyFacts
        <5> QED
          BY <4>2, <5>2, <5>4
      <4> QED
        BY <4>3, <4>4
    <3>3. CASE i \notin 1..(n - 1)
      <4>1. PICK l \in 1..Len(s) : i = n - 1 + l /\ r[i] = s[l]
        BY <1>6, <3>3
      <4>2. l < k
        BY <1>1, <3>1, <4>1
      <4> QED
        BY <1>3, <3>1, <4>1, <4>2, Zenon DEF Linked
    <3> QED
      BY <3>2, <3>3
  <2> QED
    BY <2>1, <2>2
<1>8. ToSet(r) = ToSet(rest) \cup ToSet(s)
  <2>1. ASSUME NEW x \in ToSet(r) PROVE x \in ToSet(rest) \cup ToSet(s)
    <3>1. PICK i \in 1..Len(r) : x = r[i]
      BY <1>5, ToSetFacts
    <3>2. CASE i \in 1..(n - 1)
      <4>1. i \in 1..Len(rest) /\ x = rest[i]
        BY <1>1, <1>6, <3>1, <3>2
      <4> QED
        BY <1>1, <4>1, ToSetFacts
    <3>3. CASE i \notin 1..(n - 1)
      <4>1. PICK k \in 1..Len(s) : x = s[k]
        BY <1>6, <3>1, <3>3
      <4> QED
        BY <1>3, <4>1, ToSetFacts, Zenon
    <3> QED
      BY <3>2, <3>3
  <2>2. ASSUME NEW x \in ToSet(rest) PROVE x \in ToSet(r)
    <3>1. PICK i \in 1..(n - 1) : x = rest[i]
      BY <1>1, ToSetFacts
    <3>2. i \in 1..Len(r) /\ r[i] = x
      BY <1>6, <3>1, Zenon
    <3> QED
      BY <1>5, <3>2, ToSetFacts, Zenon
  <2>3. ASSUME NEW x \in ToSet(s) PROVE x \in ToSet(r)
    <3>1. PICK k \in 1..Len(s) : x = s[k]
      BY <1>3, ToSetFacts
    <3>2. n - 1 + k \in 1..Len(r) /\ r[n - 1 + k] = x
      BY <1>6, <3>1
    <3> QED
      BY <1>5, <3>2, ToSetFacts
  <2> QED
    BY <2>1, <2>2, <2>3
<1>9. ToSet(stack) \subseteq ToSet(r)
  <2>1. top \in ToSet(s)
    BY <1>3, <1>4, ToSetFacts
  <2> QED
    BY <1>1, <1>8, <2>1
<1>10. Last(r) = s[Len(s)] /\ Last(r) \in Hash
  <2>1. Last(r) = r[Len(r)] /\ Last(r) \in Hash
    BY <1>5, <1>6, FrontFacts
  <2>2. Len(s) \in 1..Len(s) /\ Len(r) = n - 1 + Len(s)
    BY <1>4, <1>5
  <2> QED
    BY <1>6, <2>1, <2>2, Zenon
<1>11. ToSet(Front(r)) \subseteq ToSet(stack) \cup sync.retrieves
  <2> SUFFICES ASSUME NEW x \in ToSet(Front(r)) PROVE x \in ToSet(stack) \cup sync.retrieves
    OBVIOUS
  <2>1. /\ Front(r) \in Seq(Hash) /\ Len(Front(r)) = Len(r) - 1
        /\ \A i \in 1..(Len(r) - 1) : Front(r)[i] = r[i]
    BY <1>5, <1>6, FrontFacts, Zenon
  <2>2. PICK i \in 1..(Len(r) - 1) : x = r[i]
    BY <2>1, ToSetFacts
  <2>3. i \in 1..Len(r)
    BY <1>6, <2>2
  <2>4. CASE i \in 1..(n - 1)
    <3>1. i \in 1..Len(stack) /\ x = stack[i]
      BY <1>1, <1>6, <2>2, <2>3, <2>4
    <3> QED
      BY <3>1, ToSetFacts
  <2>5. CASE i \notin 1..(n - 1)
    <3>1. PICK k \in 1..Len(s) : i = n - 1 + k /\ x = s[k]
      BY <1>6, <2>2, <2>3, <2>5
    <3>2. k \in 1..(Len(s) - 1)
      BY <1>1, <1>4, <1>5, <2>2, <3>1
    <3> QED
      BY <1>3, <3>1, <3>2
  <2> QED
    BY <2>4, <2>5
<1>12. Last(r) \notin sync.retrieves \/ Dependencies(Last(r)) \subseteq sync.synchronized
  BY <1>3, <1>10, MissingFacts
<1>13. \/ Last(r) \in ToSet(stack)
       \/ \E y \in sync.retrieves : Last(r) \in Dependencies(y) \ sync.synchronized
  <2>1. CASE Len(s) = 1
    BY <1>1, <1>3, <1>10, <2>1
  <2>2. CASE Len(s) # 1
    <3>1. PICK m \in 1..(Len(s) - 1) : m + 1 = Len(s)
      <4>1. \A l \in Nat : l >= 1 /\ l # 1 => l - 1 \in 1..(l - 1) /\ l - 1 + 1 = l
        OBVIOUS
      <4> QED
        BY <1>4, <2>2, <4>1, Zenon
    <3>2. s[m] \in sync.retrieves /\ s[m] \in Hash
      <4>1. s[m] \in sync.retrieves
        BY <1>3, Zenon
      <4>2. m \in 1..Len(s)
        BY <1>4
      <4> QED
        BY <1>3, <4>1, <4>2
    <3>3. Last(r) = Missing(s[m], sync.synchronized) /\ Last(r) # NoHash
      BY <1>3, <1>10, <3>1
    <3>4. Last(r) \in Dependencies(s[m]) \ sync.synchronized
      BY <3>2, <3>3, MissingFacts
    <3> QED
      BY <3>2, <3>4
  <2> QED
    BY <2>1, <2>2
<1>14. ASSUME NEW L \in Ledgers, ToSet(stack) \subseteq L PROVE ToSet(r) \subseteq L
  <2>1. top \in L /\ ToSet(rest) \subseteq L
    BY <1>1, <1>14
  <2>2. ToSet(s) \subseteq L
    BY <1>2, <2>1, FillInside
  <2> QED
    BY <1>8, <2>1, <2>2
<1> QED
  BY <1>5, <1>6, <1>7, <1>9, <1>11, <1>12, <1>13, <1>14 DEF r, s, top, rest

-----------------------------------------------------------------------------
(* The inductive invariant.                                                *)

Info == [account : Nat, head : Hash \cup {NoHash}]
Pull == [start : Nat, end : Hash \cup {NoHash}]
Requests == {FrontierReq, BulkPush} \cup {BulkPull(pull) : pull \in Pull}
Blocks == {NotABlock} \cup {BlockMessage(b) : b \in Hash}
Frontiers == {Frontier(info) : info \in Info}
ClientAt == {"off", "frontiers", "pulling", "processing", "pushing", "done"}
ServerAt == {"off", "idle", "finish", "frontiers", "pull", "push"}
Client == [at : ClientAt, info : Info, pulls : SUBSET Pull, stack : Seq(Hash)]
Server == [at : ServerAt, reading : BOOLEAN, requests : Seq(Requests), info : Info,
           current : Hash \cup {NoHash}, end : Hash \cup {NoHash}]

(* An entry of the accounts table that was read from a ledger.             *)
HeadIn(info, ledger) == info # NoInfo => info.head \in ledger /\ info.account = Chain[info.head].account

(* What the tables hold: only blocks of ours are pushed, and only blocks   *)
(* of theirs are pulled.                                                   *)
Stored ==
    /\ ours \in Ledgers /\ theirs \in Ledgers /\ quiet \in BOOLEAN
    /\ gaps \subseteq ours /\ unsynced \subseteq ours /\ unchecked \subseteq theirs
    /\ client \in Client /\ server \in Server
    /\ toServer \in Seq(Requests \cup Blocks) /\ toClient \in Seq(Frontiers \cup Blocks)
    /\ HeadIn(client.info, ours) /\ HeadIn(server.info, theirs)

(* The server waits for a request, perhaps before the callback of the last *)
(* answer; a request is on its way or queued; a request is being served;   *)
(* all is answered.                                                        *)
Free ==
    /\ server.reading
    /\ \/ server.at = "idle" /\ server.requests = <<>>
       \/ server.at = "finish" /\ Len(server.requests) = 1
Queued(request) ==
    server.at = "finish" /\ Len(server.requests) = 2 /\ server.requests[2] = request
Asked(request) ==
    \/ Free /\ toServer = <<request>>
    \/ Queued(request) /\ server.reading /\ toServer = <<>>
Serves(at, request) ==
    server.at = at /\ server.requests = <<request>> /\ server.reading /\ toServer = <<>>
Answered == Free /\ toServer = <<>>

OffPhase == client = ClientOff /\ server = ServerOff /\ toServer = <<>> /\ toClient = <<>>

(* The frontiers end with an empty one.                                    *)
FrontierMessages ==
    \A i \in 1..Len(toClient) :
        /\ toClient[i] \in Frontiers /\ HeadIn(toClient[i].info, theirs)
        /\ i < Len(toClient) => toClient[i].info # NoInfo
FrontierPhase ==
    /\ client.at = "frontiers" /\ client.stack = <<>> /\ FrontierMessages
    /\ \/ Asked(FrontierReq) /\ toClient = <<>>
       \/ /\ Serves("frontiers", FrontierReq)
          /\ \A i \in 1..Len(toClient) : toClient[i].info # NoInfo
       \/ Answered /\ toClient # <<>> /\ toClient[Len(toClient)].info = NoInfo

(* The blocks of a pull end with not_a_block.                              *)
BlocksThenEnd(ended) ==
    \A i \in 1..Len(toClient) :
        \/ (\E b \in theirs : toClient[i] = BlockMessage(b)) /\ (ended => i < Len(toClient))
        \/ toClient[i] = NotABlock /\ ended /\ i = Len(toClient)
Sending == server.current # server.end => server.current \in theirs
PullPhase ==
    /\ client.at = "pulling" /\ client.stack = <<>>
    /\ \/ \E pull \in Pull : Asked(BulkPull(pull)) /\ toClient = <<>>
       \/ \E pull \in Pull : Serves("pull", BulkPull(pull)) /\ BlocksThenEnd(FALSE) /\ Sending
       \/ Answered /\ toClient # <<>> /\ BlocksThenEnd(TRUE)

ProcessPhase ==
    /\ client.at = "processing" /\ Linked(client.stack) /\ ToSet(client.stack) \subseteq theirs
    /\ Answered /\ toClient = <<>>

(* The request to push comes first, and not_a_block comes last.            *)
PushMessages ==
    \A i \in 1..Len(toServer) :
        \/ toServer[i] = BulkPush /\ i = 1 /\ server.reading
        \/ /\ \E b \in ours : toServer[i] = BlockMessage(b)
           /\ server.reading => i > 1
           /\ client.at = "done" => i < Len(toServer)
        \/ toServer[i] = NotABlock /\ i = Len(toServer) /\ client.at = "done" /\ (server.reading => i > 1)
PushPhase ==
    /\ client.at \in {"pushing", "done"} /\ toClient = <<>>
    /\ Linked(client.stack) /\ ToSet(client.stack) \subseteq ours
    /\ client.at = "done" => /\ toServer # <<>> /\ toServer[Len(toServer)] = NotABlock
                            /\ unsynced = {} /\ client.stack = <<>>
    /\ PushMessages
    /\ \/ Free /\ toServer # <<>>
       \/ Queued(BulkPush) /\ ~server.reading
       \/ server.at = "push" /\ server.requests = <<BulkPush>> /\ ~server.reading

Control == Stored /\ (OffPhase \/ FrontierPhase \/ PullPhase \/ ProcessPhase \/ PushPhase)

(* A quiet session.  The frontiers sent are those of all accounts from lo  *)
(* on, and the accounts below lo have been compared.                       *)
Expected(lo, i) == IF i = 1 THEN lo ELSE toClient[i - 1].info.account + 1
Stream(lo) ==
    /\ \A i \in 1..Len(toClient) : toClient[i].info = From(theirs, Expected(lo, i))
    /\ server.at = "frontiers" => server.info = From(theirs, Expected(lo, Len(toClient) + 1))
    /\ Asked(FrontierReq) => lo = 1
PullOK(pull) ==
    /\ pull.start \in Accounts(theirs)
    /\ pull.end # NoHash => pull.end \in ours /\ Chain[pull.end].account = pull.start
Compared(lo) ==
    /\ client.info # NoInfo => /\ client.info.account >= lo
                               /\ client.info.head = Latest(ours, client.info.account)
    /\ \A b \in ours \ theirs :
          client.info = NoInfo \/ Chain[b].account < client.info.account => b \in unsynced \/ Disputed(b)
    /\ \A b \in theirs \ ours :
          Chain[b].account < lo => \E pull \in client.pulls : pull.start = Chain[b].account
    /\ \A pull \in client.pulls : PullOK(pull)
QuietFrontiers == \E lo \in Nat : Stream(lo) /\ Compared(lo)

(* What they lack is to be pushed, and what we lack has been pulled, is in *)
(* the connection or will be sent.                                         *)
PushesCovered == \A b \in ours \ theirs : b \in unsynced \/ Disputed(b)
ToCome(b) ==
    /\ server.at = "pull" /\ server.current # server.end
    /\ Chain[b].account = Chain[server.current].account /\ Height[b] <= Height[server.current]
    /\ server.end # NoHash => Height[server.end] < Height[b]
Above ==
    server.at = "pull" /\ server.end # NoHash =>
        /\ server.end \in theirs /\ server.current \in theirs
        /\ Chain[server.end].account = Chain[server.current].account
        /\ Height[server.end] <= Height[server.current]
QuietPulls ==
    /\ PushesCovered /\ Above
    /\ \A pull \in client.pulls : PullOK(pull)
    /\ \A pull \in Pull : Asked(BulkPull(pull)) => PullOK(pull)
    /\ \A b \in theirs \ ours :
          \/ b \in unchecked
          \/ \E pull \in client.pulls : pull.start = Chain[b].account
          \/ \E pull \in Pull : Asked(BulkPull(pull)) /\ pull.start = Chain[b].account
          \/ ToCome(b)
          \/ \E i \in 1..Len(toClient) : toClient[i] = BlockMessage(b)

QuietProcess ==
    /\ PushesCovered
    /\ ToSet(client.stack) \subseteq unchecked
    /\ \A b \in theirs \ ours : b \in unchecked \/ Disputed(b)

(* What is pushed comes after what it depends on.                          *)
InOrder(i, b) ==
    \/ Disputed(b)
    \/ \A d \in Dependencies(b) : d \in theirs \/ \E j \in 1..(i - 1) : toServer[j] = BlockMessage(d)
QuietPush ==
    /\ \A b \in theirs \ ours : Disputed(b)
    /\ \A b \in ours \ theirs : \/ b \in unsynced \/ Disputed(b) \/ b \in ToSet(client.stack)
                                \/ \E i \in 1..Len(toServer) : toServer[i] = BlockMessage(b)
    /\ \A i \in 1..Len(toServer) : \A b \in ours : toServer[i] = BlockMessage(b) => InOrder(i, b)

Covered ==
    quiet => /\ client.at = "frontiers" => QuietFrontiers
             /\ client.at = "pulling" => QuietPulls
             /\ client.at = "processing" => QuietProcess
             /\ client.at \in {"pushing", "done"} => QuietPush

IndInv == Control /\ Covered

-----------------------------------------------------------------------------
(* The server.                                                             *)

(* Messages are told apart by their types.                                 *)
LEMMA MessageFacts ==
    /\ FrontierReq # BulkPush /\ NotABlock \notin Requests
    /\ \A pull : BulkPull(pull) # FrontierReq /\ BulkPull(pull) # BulkPush
    /\ \A p, q : BulkPull(p) = BulkPull(q) => p = q
    /\ \A b : BlockMessage(b).block = b /\ BlockMessage(b) # NotABlock /\ BlockMessage(b) \notin Requests
    /\ \A b, c : BlockMessage(b) = BlockMessage(c) => b = c
    /\ \A m \in Frontiers : m = Frontier(m.info) /\ m.info \in Info /\ m \notin Blocks
    /\ \A info : Frontier(info).info = info
<1>1. /\ FrontierReq.type = "frontier_req" /\ BulkPush.type = "bulk_push" /\ NotABlock.type = "not_a_block"
      /\ \A p : BulkPull(p).type = "bulk_pull" /\ BulkPull(p).pull = p
      /\ \A b : BlockMessage(b).type = "block" /\ BlockMessage(b).block = b
      /\ \A i : Frontier(i).type = "frontier" /\ Frontier(i).info = i
  BY DEF FrontierReq, BulkPush, NotABlock, BulkPull, BlockMessage, Frontier
<1>2. /\ FrontierReq # BulkPush /\ NotABlock \notin Requests
      /\ \A b : BlockMessage(b) # NotABlock /\ BlockMessage(b) \notin Requests
  BY <1>1 DEF Requests
<1>3. \A pull : BulkPull(pull) # FrontierReq /\ BulkPull(pull) # BulkPush
  BY <1>1
<1>4. /\ \A p, q : BulkPull(p) = BulkPull(q) => p = q
      /\ \A b, c : BlockMessage(b) = BlockMessage(c) => b = c
  BY <1>1
<1>5. \A m \in Frontiers : m = Frontier(m.info) /\ m.info \in Info /\ m \notin Blocks
  BY <1>1 DEF Frontiers, Blocks
<1> QED
  BY <1>1, <1>2, <1>3, <1>4, <1>5

(* An entry of the accounts table.                                         *)
LEMMA InfoFacts ==
    ASSUME NEW L \in Ledgers, NEW lo \in Nat
    PROVE  From(L, lo) \in Info /\ HeadIn(From(L, lo), L)
<1>1. NoInfo \in Info
  BY DEF NoInfo, Info
<1> DEFINE f == From(L, lo)
<1>2. f # NoInfo => /\ f = [account |-> f.account, head |-> f.head] /\ f.account \in Nat
                    /\ f.head \in L /\ Chain[f.head].account = f.account
  BY FromFacts
<1> HIDE DEF f
<1>3. L \subseteq Hash
  BY LedgerFacts
<1>4. f # NoInfo => f \in Info
  BY <1>2, <1>3 DEF Info
<1> QED
  BY <1>1, <1>2, <1>4 DEF f, HeadIn

(* set_current_end: the chain is sent from the head of the account.        *)
LEMMA CurrentFacts ==
    ASSUME theirs \in Ledgers, NEW pull \in Pull
    PROVE  LET c == CurrentEnd(pull)
           IN /\ c.end = IF pull.end \in theirs THEN pull.end ELSE NoHash
              /\ c.current \in Hash \cup {NoHash} /\ c.end \in Hash \cup {NoHash}
              /\ c.current # c.end => c.current \in theirs
              /\ pull.start \in Accounts(theirs) /\ (c.end # NoHash => Chain[c.end].account = pull.start)
                    => c.current = Latest(theirs, pull.start)
<1> DEFINE end == IF pull.end \in theirs THEN pull.end ELSE NoHash
           known == pull.start \in Accounts(theirs)
           inChain == end = NoHash \/ Chain[end].account = pull.start
           c == CurrentEnd(pull)
<1>1. c = [end |-> end, current |-> IF known /\ inChain THEN Latest(theirs, pull.start) ELSE end]
  BY Zenon DEF CurrentEnd
<1>2. theirs \subseteq Hash /\ end \in theirs \cup {NoHash}
  BY LedgerFacts
<1>3. known => Latest(theirs, pull.start) \in theirs
  BY LatestFacts
<1> HIDE DEF end, known, inChain, c
<1>4. c.end = end /\ c.current = IF known /\ inChain THEN Latest(theirs, pull.start) ELSE end
  BY <1>1
<1>5. known /\ (end # NoHash => Chain[end].account = pull.start) => inChain
  BY DEF inChain
<1> QED
  BY <1>2, <1>3, <1>4, <1>5 DEF c, end, known

(* run_next: a request is served from the ledger as it is.                 *)
Begins(t, request) ==
    /\ request = FrontierReq => t.at = "frontiers" /\ t.info = From(theirs, 1)
    /\ request = BulkPush => t.at = "push"
    /\ \A pull \in Pull : request = BulkPull(pull) =>
          /\ t.at = "pull" /\ t.current = CurrentEnd(pull).current /\ t.end = CurrentEnd(pull).end

(* run_next makes the server begin with what the request asks for.         *)
LEMMA ServingFacts ==
    ASSUME theirs \in Ledgers, NEW s \in Server, NEW request \in Requests, HeadIn(s.info, theirs)
    PROVE  LET t == Serving(s, request)
           IN /\ t \in Server /\ t.requests = s.requests /\ t.reading = s.reading
              /\ HeadIn(t.info, theirs) /\ Begins(t, request)
<1> DEFINE t == Serving(s, request)
<1>1. /\ FrontierReq.type = "frontier_req" /\ BulkPush.type = "bulk_push"
      /\ \A p : BulkPull(p).type = "bulk_pull" /\ BulkPull(p).pull = p
  BY DEF FrontierReq, BulkPush, BulkPull
<1>m. /\ FrontierReq # BulkPush
      /\ \A pull : BulkPull(pull) # FrontierReq /\ BulkPull(pull) # BulkPush
      /\ \A p, q : BulkPull(p) = BulkPull(q) => p = q
  BY MessageFacts
<1>2. CASE request = FrontierReq
  <2>1. t = [s EXCEPT !.at = "frontiers", !.info = From(theirs, 1)]
    BY <1>1, <1>2 DEF Serving
  <2>2. From(theirs, 1) \in Info /\ HeadIn(From(theirs, 1), theirs)
    BY InfoFacts
  <2> HIDE DEF t
  <2>3. /\ t \in Server /\ t.requests = s.requests /\ t.reading = s.reading
        /\ t.at = "frontiers" /\ t.info = From(theirs, 1)
    <3>1. t \in Server
      BY <2>1, <2>2, Zenon DEF Server, ServerAt
    <3> QED
      BY <2>1, <3>1 DEF Server
  <2>4. Begins(t, request)
    BY <1>m, <1>2, <2>3, Zenon DEF Begins
  <2>5. HeadIn(t.info, theirs)
    BY <2>2, <2>3, Zenon
  <2> QED
    BY <2>3, <2>4, <2>5, Zenon DEF t
<1>3. CASE request = BulkPush
  <2>1. t = [s EXCEPT !.at = "push"]
    BY <1>1, <1>3 DEF Serving
  <2> HIDE DEF t
  <2>2. /\ t \in Server /\ t.requests = s.requests /\ t.reading = s.reading
        /\ t.at = "push" /\ t.info = s.info
    <3>1. t \in Server
      BY <2>1, Zenon DEF Server, ServerAt
    <3> QED
      BY <2>1, <3>1 DEF Server
  <2>3. Begins(t, request)
    BY <1>m, <1>3, <2>2, Zenon DEF Begins
  <2>4. HeadIn(t.info, theirs)
    BY <2>2, Zenon
  <2> QED
    BY <2>2, <2>3, <2>4, Zenon DEF t
<1>4. ASSUME NEW pull \in Pull, request = BulkPull(pull)
      PROVE  /\ t \in Server /\ t.requests = s.requests /\ t.reading = s.reading
             /\ HeadIn(t.info, theirs) /\ Begins(t, request)
  <2> DEFINE c == CurrentEnd(pull)
  <2>1. t = [s EXCEPT !.at = "pull", !.current = c.current, !.end = c.end]
    <3>1. request.type = "bulk_pull" /\ request.pull = pull
      BY <1>1, <1>4
    <3> QED
      BY <3>1 DEF Serving
  <2>2. c.current \in Hash \cup {NoHash} /\ c.end \in Hash \cup {NoHash}
    BY CurrentFacts
  <2> HIDE DEF t, c
  <2>3. /\ t \in Server /\ t.requests = s.requests /\ t.reading = s.reading
        /\ t.at = "pull" /\ t.info = s.info /\ t.current = c.current /\ t.end = c.end
    <3>1. t \in Server
      BY <2>1, <2>2, Zenon DEF Server, ServerAt
    <3> QED
      BY <2>1, <3>1 DEF Server
  <2>4. Begins(t, request)
    BY <1>m, <1>4, <2>3, Zenon DEF Begins, c
  <2>5. HeadIn(t.info, theirs)
    BY <2>3, Zenon
  <2> QED
    BY <2>3, <2>4, <2>5, Zenon DEF t
<1> QED
  BY <1>2, <1>3, <1>4 DEF Requests

(* receive_header_action: a request is served at once, or queued behind    *)
(* the answer that is being finished.                                      *)
LEMMA RequestTaken ==
    ASSUME Stored, Free, ReceiveRequest, toServer[1] \in Requests
    PROVE  /\ Stored' /\ toServer # <<>> /\ toServer' = Tail(toServer)
           /\ UNCHANGED <<ours, theirs, gaps, unchecked, unsynced, client, toClient, quiet>>
           /\ server'.reading = (toServer[1] # BulkPush)
           /\ \/ server'.requests = <<toServer[1]>> /\ Begins(server', toServer[1])
              \/ /\ server'.at = "finish" /\ Len(server'.requests) = 2
                 /\ server'.requests[2] = toServer[1]
<1> DEFINE request == toServer[1]
           s == [server EXCEPT !.requests = Append(@, request), !.reading = request # BulkPush]
<1>1. /\ toServer # <<>> /\ toServer' = Tail(toServer)
      /\ UNCHANGED <<ours, theirs, gaps, unchecked, unsynced, client, toClient, quiet>>
  BY DEF ReceiveRequest, tables, history
<1>2. /\ Head(toServer) = request /\ Tail(toServer) \in Seq(Requests \cup Blocks)
  BY <1>1, TailFacts DEF Stored
<1>3. server' = IF server.requests = <<>> THEN Serving(s, request) ELSE s
  BY <1>2, Zenon DEF ReceiveRequest
<1>4. theirs \in Ledgers /\ server \in Server /\ HeadIn(server.info, theirs)
  BY Zenon DEF Stored
<1>5. server.requests \in Seq(Requests) /\ (request # BulkPush) \in BOOLEAN
  BY <1>4, Zenon DEF Server
<1>6. Append(server.requests, request) \in Seq(Requests)
  BY <1>5
<1>7. s \in Server
  BY <1>4, <1>5, <1>6, Zenon DEF Server
<1>8. /\ s.requests = Append(server.requests, request) /\ s.reading = (request # BulkPush)
      /\ s.info = server.info /\ s.at = server.at
  BY <1>4 DEF Server
<1> HIDE DEF s, request
<1>9. /\ server' \in Server /\ HeadIn(server'.info, theirs) /\ server'.reading = (request # BulkPush)
      /\ \/ server'.requests = <<request>> /\ Begins(server', request)
         \/ /\ server'.at = "finish" /\ Len(server'.requests) = 2 /\ server'.requests[2] = request
  <2>1. CASE server.requests = <<>>
    <3>1. server' = Serving(s, request)
      BY <1>3, <2>1, Zenon
    <3>2. request \in Requests /\ HeadIn(s.info, theirs)
      BY <1>4, <1>8, Zenon DEF request
    <3>3. /\ server' \in Server /\ server'.requests = s.requests /\ server'.reading = s.reading
          /\ HeadIn(server'.info, theirs) /\ Begins(server', request)
      BY <1>4, <1>7, <3>1, <3>2, ServingFacts, Zenon
    <3>4. s.requests = <<request>>
      BY <1>8, <2>1
    <3> QED
      BY <1>8, <3>3, <3>4, Zenon
  <2>2. CASE server.requests # <<>>
    <3>1. server' = s
      BY <1>3, <2>2, Zenon
    <3>2. server.at = "finish" /\ Len(server.requests) = 1
      BY <2>2 DEF Free
    <3>3. Len(s.requests) = 2 /\ s.requests[2] = request
      BY <1>5, <1>8, <3>2
    <3> QED
      BY <1>4, <1>7, <1>8, <3>1, <3>2, <3>3, Zenon
  <2> QED
    BY <2>1, <2>2
<1>10. Stored'
  BY <1>1, <1>2, <1>9, Zenon DEF Stored
<1> QED
  BY <1>1, <1>9, <1>10, Zenon DEF request

(* finish_request: the next request is served, if there is one.            *)
LEMMA RequestFinished ==
    ASSUME Stored, FinishRequest, Len(server.requests) \in {1, 2}
    PROVE  /\ Stored' /\ server.at = "finish"
           /\ UNCHANGED <<ours, theirs, gaps, unchecked, unsynced, client, toServer, toClient, quiet>>
           /\ server'.reading = server.reading
           /\ Len(server.requests) = 1 => server'.at = "idle" /\ server'.requests = <<>>
           /\ Len(server.requests) = 2 => /\ server'.requests = <<server.requests[2]>>
                                          /\ Begins(server', server.requests[2])
<1> DEFINE s == [server EXCEPT !.requests = Tail(@), !.at = "idle"]
<1>1. /\ server.at = "finish"
      /\ UNCHANGED <<ours, theirs, gaps, unchecked, unsynced, client, toServer, toClient, quiet>>
  BY DEF FinishRequest, tables, history, channels
<1>2. server' = IF s.requests = <<>> THEN s ELSE Serving(s, Head(s.requests))
  BY Zenon DEF FinishRequest
<1>3. theirs \in Ledgers /\ server \in Server /\ HeadIn(server.info, theirs)
  BY Zenon DEF Stored
<1>4. server.requests \in Seq(Requests)
  BY <1>3, Zenon DEF Server
<1> DEFINE rest == Tail(server.requests)
<1>5. /\ rest \in Seq(Requests) /\ Len(rest) = Len(server.requests) - 1
      /\ \A i \in 1..Len(rest) : rest[i] = server.requests[i + 1]
  <2>1. Len(<<>>) \notin {1, 2}
    OBVIOUS
  <2>2. server.requests # <<>>
    BY <2>1, Zenon
  <2> QED
    BY <1>4, <2>2, TailFacts, Zenon
<1> HIDE DEF rest
<1>6. s \in Server
  BY <1>3, <1>5, Zenon DEF Server, ServerAt, rest
<1>7. /\ s.requests = rest /\ s.reading = server.reading
      /\ s.info = server.info /\ s.at = "idle"
  BY <1>3 DEF Server, rest
<1> HIDE DEF s
<1>8. CASE s.requests = <<>>
  <2>1. server' = s
    BY <1>2, <1>8, Zenon
  <2>2. Len(server.requests) # 2
    <3>1. Len(rest) = 0
      <4>1. rest = <<>>
        BY <1>7, <1>8, Zenon
      <4> QED
        BY <4>1
    <3>2. \A n \in {1, 2} : 0 = n - 1 => n # 2
      OBVIOUS
    <3> QED
      BY <1>5, <3>1, <3>2, Zenon
  <2>3. Stored'
    BY <1>1, <1>3, <1>6, <1>7, <2>1, Zenon DEF Stored
  <2> QED
    BY <1>1, <1>7, <1>8, <2>1, <2>2, <2>3, Zenon
<1>9. CASE s.requests # <<>>
  <2> DEFINE request == Head(s.requests)
  <2>1. server' = Serving(s, request)
    BY <1>2, <1>9, Zenon
  <2>2. /\ request \in Requests /\ Len(server.requests) # 1
        /\ Len(server.requests) = 2 => s.requests = <<server.requests[2]>> /\ request = server.requests[2]
    <3>1. Len(rest) = 1 /\ rest # <<>>
      BY <1>5, <1>7, <1>9
    <3>2. rest = <<rest[1]>> /\ rest[1] = server.requests[2] /\ Head(rest) = rest[1] /\ rest[1] \in Requests
      BY <1>5, <3>1
    <3>3. Len(server.requests) # 1
      BY <1>5, <3>1
    <3> QED
      BY <1>7, <3>2, <3>3, Zenon
  <2> HIDE DEF request
  <2>3. HeadIn(s.info, theirs)
    BY <1>3, <1>7, Zenon
  <2>4. /\ server' \in Server /\ server'.requests = s.requests /\ server'.reading = s.reading
        /\ HeadIn(server'.info, theirs) /\ Begins(server', request)
    BY <1>3, <1>6, <2>1, <2>2, <2>3, ServingFacts, Zenon
  <2>5. Stored'
    BY <1>1, <2>4, Zenon DEF Stored
  <2> QED
    BY <1>1, <1>7, <2>2, <2>4, <2>5, Zenon
<1> QED
  BY <1>8, <1>9

-----------------------------------------------------------------------------
(* The phases of a session, and the steps that begin and break it.         *)

(* Where the client is tells the phase, and so does what the server does.  *)
LEMMA PhaseFacts ==
    ASSUME Control
    PROVE  /\ Stored
           /\ client.at = "off" => OffPhase
           /\ client.at = "frontiers" \/ server.at = "frontiers" => FrontierPhase
           /\ client.at = "pulling" \/ server.at = "pull" => PullPhase
           /\ client.at = "processing" => ProcessPhase
           /\ client.at \in {"pushing", "done"} \/ server.at = "push" => PushPhase
<1>1. ClientOff.at = "off" /\ ServerOff.at = "off"
  BY DEF ClientOff, ServerOff
<1>2. OffPhase => client.at = "off" /\ server.at = "off"
  BY <1>1, Zenon DEF OffPhase
<1>3. FrontierPhase => client.at = "frontiers" /\ server.at \in {"idle", "finish", "frontiers"}
  BY DEF FrontierPhase, Asked, Serves, Answered, Free, Queued
<1>4. PullPhase => client.at = "pulling" /\ server.at \in {"idle", "finish", "pull"}
  BY Zenon DEF PullPhase, Asked, Serves, Answered, Free, Queued
<1>5. ProcessPhase => client.at = "processing" /\ server.at \in {"idle", "finish"}
  BY DEF ProcessPhase, Answered, Free
<1>6. PushPhase => client.at \in {"pushing", "done"} /\ server.at \in {"idle", "finish", "push"}
  BY DEF PushPhase, Free, Queued
<1>7. Stored /\ (OffPhase \/ FrontierPhase \/ PullPhase \/ ProcessPhase \/ PushPhase)
  BY Zenon DEF Control
<1> QED
  BY <1>2, <1>3, <1>4, <1>5, <1>6, <1>7, Zenon

(* What is stored by any of the two nodes decides what is disputed.        *)
LEMMA DisputedKept ==
    ASSUME ours' \cup theirs' = ours \cup theirs, NEW b
    PROVE  Disputed(b)' <=> Disputed(b)
BY DEF Disputed

(* The states of rest.                                                     *)
LEMMA OffFacts ==
    /\ ClientOff \in Client /\ ServerOff \in Server
    /\ ClientOff.at = "off" /\ ClientOff.info = NoInfo /\ ClientOff.stack = <<>> /\ ClientOff.pulls = {}
    /\ ServerOff.at = "off" /\ ServerOff.info = NoInfo
<1>1. NoInfo \in Info /\ <<>> \in Seq(Hash) /\ <<>> \in Seq(Requests)
  BY DEF NoInfo, Info
<1>2. ClientOff \in Client
  BY <1>1 DEF ClientOff, Client, ClientAt
<1>3. ServerOff \in Server
  BY <1>1 DEF ServerOff, Server, ServerAt
<1> QED
  BY <1>2, <1>3 DEF ClientOff, ServerOff

(* A step that ends the session.                                           *)
LEMMA OffStep ==
    ASSUME Stored, client' = ClientOff, server' = ServerOff, toServer' = <<>>, toClient' = <<>>,
           UNCHANGED <<ours, theirs, unchecked, unsynced>>, gaps' \subseteq gaps, quiet' \in BOOLEAN
    PROVE  IndInv'
<1>1. Stored'
  <2>1. HeadIn(NoInfo, ours) /\ HeadIn(NoInfo, theirs)
    BY Zenon DEF HeadIn
  <2>2. gaps' \subseteq ours
    BY DEF Stored
  <2>3. <<>> \in Seq(Requests \cup Blocks) /\ <<>> \in Seq(Frontiers \cup Blocks)
    OBVIOUS
  <2> QED
    BY <2>1, <2>2, <2>3, OffFacts, Zenon DEF Stored
<1>2. client'.at = "off"
  BY OffFacts, Zenon
<1> QED
  BY <1>1, <1>2 DEF IndInv, Control, OffPhase, Covered

(* bootstrap_initiator: a session begins, with a request for the           *)
(* frontiers.                                                              *)
LEMMA ConnectStep == ASSUME IndInv, Connect PROVE IndInv'
<1>1. Stored /\ OffPhase
  BY PhaseFacts, Zenon DEF IndInv, Connect
<1> DEFINE info == From(ours, 1)
<1>2. /\ client' = [ClientOff EXCEPT !.at = "frontiers", !.info = info]
      /\ server' = [ServerOff EXCEPT !.at = "idle", !.reading = TRUE]
      /\ toServer' = <<FrontierReq>> /\ toClient' = <<>> /\ quiet' = TRUE
      /\ UNCHANGED <<ours, theirs, gaps, unchecked, unsynced>>
  BY <1>1 DEF Connect, OffPhase, tables
<1>3. ours \in Ledgers /\ theirs \in Ledgers
  BY <1>1, Zenon DEF Stored
<1>4. info \in Info /\ HeadIn(info, ours)
  BY <1>3, InfoFacts
<1>5. /\ info = NoInfo => \A b \in ours : Chain[b].account < 1
      /\ info # NoInfo => /\ info.account >= 1 /\ info.head = Latest(ours, info.account)
                          /\ info.account \in Nat
                          /\ \A b \in ours : Chain[b].account >= 1 => info.account <= Chain[b].account
  BY <1>3, FromFacts
<1>6. \A b \in ours \cup theirs : Chain[b].account \in Nat /\ Chain[b].account # 0
  BY <1>3, LedgerFacts, AccountFacts
<1> HIDE DEF info
<1>7. client' = [at |-> "frontiers", info |-> info, pulls |-> {}, stack |-> <<>>]
  BY <1>2, Zenon DEF ClientOff
<1>8. server' = [at |-> "idle", reading |-> TRUE, requests |-> <<>>, info |-> NoInfo,
                 current |-> NoHash, end |-> NoHash]
  BY <1>2, Zenon DEF ServerOff
<1>9. Stored'
  <2>1. client' \in Client /\ client'.info = info
    <3>1. client' \in Client
      BY <1>2, <1>4, OffFacts, Zenon DEF Client, ClientAt
    <3> QED
      BY <1>7, <3>1
  <2>2. server' \in Server /\ server'.info = NoInfo
    <3>1. server' \in Server
      BY <1>2, OffFacts, Zenon DEF Server, ServerAt
    <3> QED
      BY <1>8, <3>1
  <2>3. toServer' \in Seq(Requests \cup Blocks) /\ toClient' \in Seq(Frontiers \cup Blocks)
    BY <1>2 DEF Requests
  <2>4. HeadIn(client'.info, ours) /\ HeadIn(server'.info, theirs)
    BY <1>4, <2>1, <2>2 DEF HeadIn
  <2> QED
    BY <1>1, <1>2, <2>1, <2>2, <2>3, <2>4, Zenon DEF Stored
<1>10. Asked(FrontierReq)'
  <2>1. server'.reading = TRUE /\ server'.at = "idle" /\ server'.requests = <<>>
    BY <1>8
  <2> QED
    BY <1>2, <2>1, Zenon DEF Asked, Free
<1>e. 1..Len(toClient') = {} /\ server'.at = "idle"
  <2>1. 1..Len(<<>>) = {}
    OBVIOUS
  <2>2. server'.at = "idle"
    BY <1>8
  <2> QED
    BY <1>2, <2>1, <2>2, Zenon
<1>11. FrontierPhase'
  <2>1. FrontierMessages'
    BY <1>e, Zenon DEF FrontierMessages
  <2>2. client'.at = "frontiers" /\ client'.stack = <<>>
    BY <1>7
  <2> QED
    BY <1>2, <1>10, <2>1, <2>2, Zenon DEF FrontierPhase
<1>12. Stream(1)'
  <2>1. "idle" # "frontiers"
    OBVIOUS
  <2> QED
    BY <1>e, <2>1, Zenon DEF Stream
<1>13. Compared(1)'
  <2>1. client'.info = info /\ client'.pulls = {}
    BY <1>7
  <2>2. ASSUME NEW b \in ours, info = NoInfo \/ Chain[b].account < info.account PROVE FALSE
    BY <1>5, <1>6, <2>2
  <2>3. ASSUME NEW b \in theirs, Chain[b].account < 1 PROVE FALSE
    BY <1>6, <2>3
  <2> QED
    BY <1>2, <1>5, <2>1, <2>2, <2>3 DEF Compared
<1>14. client'.at = "frontiers"
  BY <1>7
<1>15. Covered'
  BY <1>12, <1>13, <1>14 DEF Covered, QuietFrontiers
<1> QED
  BY <1>9, <1>11, <1>15 DEF IndInv, Control

(* The connection breaks: the session is over, and the tables stay.        *)
LEMMA DisconnectStep == ASSUME IndInv, Disconnect PROVE IndInv'
<1>1. Stored
  BY Zenon DEF IndInv, Control
<1>2. /\ client' = ClientOff /\ server' = ServerOff /\ toServer' = <<>> /\ toClient' = <<>>
      /\ UNCHANGED <<ours, theirs, unchecked, unsynced>> /\ gaps' \subseteq gaps
      /\ quiet' = quiet
  BY DEF Disconnect
<1>3. quiet' \in BOOLEAN
  BY <1>1, <1>2, Zenon DEF Stored
<1> QED
  BY <1>1, <1>2, <1>3, OffStep

(* Blocks that arrive from the network leave the session where it is.      *)
LEMMA GrowKeeps ==
    ASSUME Control, UNCHANGED <<client, server, toServer, toClient, unsynced, unchecked>>,
           ours \subseteq ours', theirs \subseteq theirs', Stored'
    PROVE  Control'
<1>1. CASE OffPhase
  BY <1>1, Zenon DEF OffPhase, Control
<1>2. CASE FrontierPhase
  <2>1. FrontierMessages'
    <3>1. \A info : HeadIn(info, theirs) => HeadIn(info, theirs')
      BY DEF HeadIn
    <3> QED
      BY <1>2, <3>1, Zenon DEF FrontierPhase, FrontierMessages
  <2>2. FrontierPhase'
    BY <1>2, <2>1, Zenon DEF FrontierPhase, Asked, Serves, Answered, Free, Queued
  <2> QED
    BY <2>2, Zenon DEF Control
<1>3. CASE PullPhase
  <2>1. /\ BlocksThenEnd(TRUE) => BlocksThenEnd(TRUE)'
        /\ BlocksThenEnd(FALSE) => BlocksThenEnd(FALSE)'
    BY Zenon DEF BlocksThenEnd
  <2>2. Sending => Sending'
    BY Zenon DEF Sending
  <2>3. PullPhase'
    BY <1>3, <2>1, <2>2, Zenon DEF PullPhase, Asked, Serves, Answered, Free, Queued
  <2> QED
    BY <2>3, Zenon DEF Control
<1>4. CASE ProcessPhase
  <2>1. ProcessPhase'
    BY <1>4, Zenon DEF ProcessPhase, Answered, Free, Linked
  <2> QED
    BY <2>1, Zenon DEF Control
<1>5. CASE PushPhase
  <2>1. PushMessages'
    BY <1>5, Zenon DEF PushPhase, PushMessages
  <2>2. PushPhase'
    BY <1>5, <2>1, Zenon DEF PushPhase, Free, Queued, Linked
  <2> QED
    BY <2>2, Zenon DEF Control
<1> QED
  BY <1>1, <1>2, <1>3, <1>4, <1>5, Zenon DEF Control

(* A block comes from the network: the session is not quiet any more.      *)
LEMMA ArriveStep == ASSUME IndInv, NEW b \in Hash, Arrive(b) PROVE IndInv'
<1>1. Control /\ Stored
  BY Zenon DEF IndInv, Control
<1>2. /\ UNCHANGED <<client, server, toServer, toClient, unsynced, unchecked>> /\ quiet' = FALSE
      /\ \/ Verdict(ours, b) = "progress" /\ ours' = ours \cup {b} /\ UNCHANGED <<theirs, gaps>>
         \/ /\ Verdict(theirs, b) = "progress" /\ UNCHANGED ours
            /\ theirs' = Republished(theirs, gaps \cup {b}).ledger
            /\ gaps' = Republished(theirs, gaps \cup {b}).waiting
  BY DEF Arrive, channels
<1>3. ours \in Ledgers /\ theirs \in Ledgers /\ gaps \subseteq ours
  BY <1>1, Zenon DEF Stored
<1>4. /\ ours' \in Ledgers /\ theirs' \in Ledgers /\ ours \subseteq ours' /\ theirs \subseteq theirs'
      /\ gaps' \subseteq ours'
  <2>1. CASE Verdict(ours, b) = "progress" /\ ours' = ours \cup {b} /\ UNCHANGED <<theirs, gaps>>
    <3>1. Processed(ours, b) \in Ledgers /\ Processed(ours, b) = ours \cup {b}
      BY <1>3, <2>1, ProcessedFacts, Zenon
    <3>2. ours' \in Ledgers
      BY <2>1, <3>1, Zenon
    <3> QED
      BY <1>3, <2>1, <3>2
  <2>2. CASE /\ Verdict(theirs, b) = "progress" /\ UNCHANGED ours
             /\ theirs' = Republished(theirs, gaps \cup {b}).ledger
             /\ gaps' = Republished(theirs, gaps \cup {b}).waiting
    <3> DEFINE W == gaps \cup {b}
    <3>1. W \in SUBSET Hash
      BY <1>3, LedgerFacts
    <3>2. b \in Ready(theirs, W)
      BY <2>2 DEF Ready
    <3> HIDE DEF W
    <3>3. Republishes(theirs, W, Republished(theirs, W))
      BY <1>3, <3>1, RepublishedFacts, Zenon
    <3>4. /\ theirs' \in Ledgers /\ theirs \subseteq theirs' /\ gaps' \subseteq W /\ b \notin gaps'
      BY <2>2, <3>2, <3>3, Zenon DEF Republishes, W
    <3> QED
      BY <1>3, <2>2, <3>4 DEF W
  <2> QED
    BY <1>2, <2>1, <2>2, Zenon
<1>5. Stored'
  <2>1. \A info, L, M : L \subseteq M /\ HeadIn(info, L) => HeadIn(info, M)
    BY DEF HeadIn
  <2>2. HeadIn(client.info, ours') /\ HeadIn(server.info, theirs')
    BY <1>1, <1>4, <2>1, Zenon DEF Stored
  <2>3. unsynced \subseteq ours' /\ unchecked \subseteq theirs'
    BY <1>1, <1>4 DEF Stored
  <2> QED
    BY <1>1, <1>2, <1>4, <2>2, <2>3, Zenon DEF Stored
<1>6. Control'
  BY <1>1, <1>2, <1>4, <1>5, GrowKeeps, Zenon
<1> QED
  BY <1>2, <1>6, Zenon DEF IndInv, Covered

-----------------------------------------------------------------------------
(* Requests.                                                               *)

(* When the server is free, nothing but its being so matters.              *)
LEMMA FreeFacts ==
    ASSUME Free
    PROVE  /\ server.at # "frontiers" /\ server.at # "pull" /\ server.at # "push"
           /\ \A request : ~Queued(request)
           /\ \A request : Asked(request) <=> toServer = <<request>>
           /\ \A at, request : Serves(at, request) => at \in {"idle", "finish"}
BY DEF Free, Queued, Asked, Serves

(* The callback of an answer that was sent: the server is free before and  *)
(* after.                                                                  *)
LEMMA IdleStep ==
    ASSUME IndInv, Free, Free', Stored',
           UNCHANGED <<ours, theirs, unchecked, unsynced, client, toServer, toClient, quiet>>
    PROVE  IndInv'
<1>1. /\ server.at # "frontiers" /\ server.at # "pull" /\ server.at # "push"
      /\ \A request : Asked(request) <=> toServer = <<request>>
      /\ \A request : ~Queued(request) /\ ~Serves("frontiers", request) /\ ~Serves("pull", request)
  BY FreeFacts
<1>2. /\ server'.at # "frontiers" /\ server'.at # "pull" /\ server'.at # "push"
      /\ \A request : Asked(request)' <=> toServer = <<request>>
  <2>1. /\ server'.at # "frontiers" /\ server'.at # "pull" /\ server'.at # "push"
        /\ ~(server'.at = "finish" /\ Len(server'.requests) = 2)
    BY DEF Free
  <2> QED
    BY <2>1, Zenon DEF Asked, Queued
<1>3. server.reading /\ server'.reading
  BY Zenon DEF Free
<1>4. Control'
  <2>1. CASE OffPhase
    <3>1. server.at = "off"
      BY <2>1, OffFacts, Zenon DEF OffPhase
    <3> QED
      BY <3>1 DEF Free
  <2>2. CASE FrontierPhase
    <3>1. FrontierPhase'
      BY <1>1, <1>2, <2>2, Zenon DEF FrontierPhase, FrontierMessages, Answered
    <3> QED
      BY <3>1, Zenon DEF Control
  <2>3. CASE PullPhase
    <3>1. PullPhase'
      BY <1>1, <1>2, <2>3, Zenon DEF PullPhase, BlocksThenEnd, Answered
    <3> QED
      BY <3>1, Zenon DEF Control
  <2>4. CASE ProcessPhase
    <3>1. ProcessPhase'
      BY <2>4, Zenon DEF ProcessPhase, Linked, Answered
    <3> QED
      BY <3>1, Zenon DEF Control
  <2>5. CASE PushPhase
    <3>1. PushMessages'
      BY <1>3, <2>5, Zenon DEF PushPhase, PushMessages
    <3>2. toServer # <<>>
      BY <1>1, <1>3, <2>5, Zenon DEF PushPhase
    <3>3. PushPhase'
      BY <2>5, <3>1, <3>2, Zenon DEF PushPhase, Linked
    <3> QED
      BY <3>3, Zenon DEF Control
  <2> QED
    BY <2>1, <2>2, <2>3, <2>4, <2>5, Zenon DEF IndInv, Control
<1>5. Covered'
  <2>1. \A b : Disputed(b)' <=> Disputed(b)
    BY DisputedKept
  <2>2. QuietFrontiers => QuietFrontiers'
    BY <1>1, <1>2, <2>1, Zenon DEF QuietFrontiers, Stream, Expected, Compared, PullOK
  <2>3. QuietPulls => QuietPulls'
    <3>1. (PushesCovered => PushesCovered') /\ Above' /\ \A pull : PullOK(pull) => PullOK(pull)'
      BY <1>2, <2>1, Zenon DEF PushesCovered, Above, PullOK
    <3>2. \A b : ~ToCome(b)
      BY <1>1, Zenon DEF ToCome
    <3>3. \A request : Asked(request) <=> Asked(request)'
      BY <1>1, <1>2, Zenon
    <3> QED
      BY <3>1, <3>2, <3>3, Zenon DEF QuietPulls
  <2>4. QuietProcess => QuietProcess'
    BY <2>1, Zenon DEF QuietProcess, PushesCovered
  <2>5. QuietPush => QuietPush'
    <3>1. \A i, b : InOrder(i, b) => InOrder(i, b)'
      BY <2>1, Zenon DEF InOrder
    <3> QED
      BY <2>1, <3>1, Zenon DEF QuietPush
  <2> QED
    BY <2>2, <2>3, <2>4, <2>5, Zenon DEF IndInv, Covered
<1> QED
  BY <1>4, <1>5, Zenon DEF IndInv

(* One request is asked for at a time.                                     *)
LEMMA AskedOnce ==
    ASSUME NEW q, NEW r, Asked(q), Asked(r)
    PROVE  q = r
<1>1. CASE Free
  <2>1. toServer = <<q>> /\ toServer = <<r>>
    BY <1>1, FreeFacts, Zenon
  <2> QED
    BY <2>1
<1>2. CASE ~Free
  BY <1>2, Zenon DEF Asked, Queued
<1> QED
  BY <1>1, <1>2

(* A request that was asked for is served or queued.                       *)
Takes(request) ==
    \/ server'.requests = <<request>> /\ Begins(server', request)
    \/ server'.at = "finish" /\ Len(server'.requests) = 2 /\ server'.requests[2] = request

(* The server begins to send the frontiers.                                *)
LEMMA FrontierTakes ==
    ASSUME IndInv, FrontierPhase, Stored', Asked(FrontierReq), Takes(FrontierReq), server'.reading,
           toServer' = <<>>, toClient = <<>>,
           UNCHANGED <<ours, theirs, unchecked, unsynced, client, toClient, quiet>>
    PROVE  IndInv'
<1>1. 1..Len(toClient) = {} /\ Len(toClient) + 1 = 1
  OBVIOUS
<1>2. FrontierMessages'
  BY <1>1, Zenon DEF FrontierMessages
<1>3. \/ Serves("frontiers", FrontierReq)' /\ server'.info = From(theirs, 1)
      \/ Asked(FrontierReq)' /\ server'.at = "finish"
  BY Zenon DEF Takes, Begins, Serves, Asked, Queued
<1>4. FrontierPhase'
  BY <1>1, <1>2, <1>3, Zenon DEF FrontierPhase
<1>5. ASSUME quiet PROVE QuietFrontiers'
  <2>1. client.at = "frontiers"
    BY Zenon DEF FrontierPhase
  <2>2. PICK lo \in Nat : Stream(lo) /\ Compared(lo)
    BY <1>5, <2>1, Zenon DEF IndInv, Covered, QuietFrontiers
  <2>3. lo = 1
    BY <2>2, Zenon DEF Stream
  <2>4. \A b : Disputed(b)' <=> Disputed(b)
    BY DisputedKept
  <2>5. Compared(lo)'
    BY <2>2, <2>4, Zenon DEF Compared, PullOK
  <2>6. Stream(lo)'
    <3>1. \A i \in 1..Len(toClient') : (toClient[i].info = From(theirs, Expected(lo, i)))'
      BY <1>1, Zenon
    <3>2. server'.at = "frontiers" => server'.info = From(theirs, 1)
      <4>1. "finish" # "frontiers"
        OBVIOUS
      <4> QED
        BY <1>3, <4>1, Zenon
    <3>3. Expected(lo, Len(toClient) + 1)' = 1
      BY <1>1, <2>3, Zenon DEF Expected
    <3> QED
      BY <2>3, <3>1, <3>2, <3>3, Zenon DEF Stream
  <2> QED
    BY <2>5, <2>6, Zenon DEF QuietFrontiers
<1>6. client'.at = "frontiers"
  BY Zenon DEF FrontierPhase
<1>7. Covered'
  <2>1. "frontiers" \notin {"pulling", "processing", "pushing", "done"}
    OBVIOUS
  <2> QED
    BY <1>5, <1>6, <2>1, Zenon DEF Covered
<1> QED
  BY <1>4, <1>7, Zenon DEF IndInv, Control

(* The server begins to send the blocks of a pull.                         *)
LEMMA PullTakes ==
    ASSUME IndInv, PullPhase, Stored', NEW pull \in Pull, Asked(BulkPull(pull)), Takes(BulkPull(pull)),
           server'.reading, toServer' = <<>>, toClient = <<>>,
           UNCHANGED <<ours, theirs, unchecked, unsynced, client, toClient, quiet>>
    PROVE  IndInv'
<1> DEFINE request == BulkPull(pull)
           c == CurrentEnd(pull)
<1>1. 1..Len(toClient) = {}
  OBVIOUS
<1>2. ours \in Ledgers /\ theirs \in Ledgers
  BY Zenon DEF IndInv, Control, Stored
<1>3. \/ Serves("pull", request)' /\ server'.current = c.current /\ server'.end = c.end
      \/ Asked(request)' /\ server'.at = "finish" /\ server'.requests[2] = request
  BY Zenon DEF Takes, Begins, Serves, Asked, Queued
<1>4. /\ c.end = IF pull.end \in theirs THEN pull.end ELSE NoHash
      /\ c.current # c.end => c.current \in theirs
      /\ pull.start \in Accounts(theirs) /\ (c.end # NoHash => Chain[c.end].account = pull.start)
            => c.current = Latest(theirs, pull.start)
  BY <1>2, CurrentFacts, Zenon
<1> HIDE DEF c
<1>5. PullPhase'
  <2>1. BlocksThenEnd(FALSE)'
    BY <1>1, Zenon DEF BlocksThenEnd
  <2>2. Serves("pull", request)' => Sending'
    BY <1>3, <1>4 DEF Sending, Serves
  <2> QED
    BY <1>3, <2>1, <2>2, Zenon DEF PullPhase
<1>6. client.at = "pulling" /\ client'.at = "pulling"
  BY Zenon DEF PullPhase
<1>7. ASSUME quiet PROVE QuietPulls'
  <2>1. QuietPulls
    BY <1>6, <1>7, Zenon DEF IndInv, Covered
  <2>2. \A b : Disputed(b)' <=> Disputed(b)
    BY DisputedKept
  <2>3. PushesCovered' /\ \A q : PullOK(q)' <=> PullOK(q)
    BY <2>1, <2>2, Zenon DEF QuietPulls, PushesCovered, PullOK
  <2>4. PullOK(pull)
    BY <2>1, Zenon DEF QuietPulls
  <2>5. \A q \in Pull : Asked(BulkPull(q)) => q = pull
    BY AskedOnce, MessageFacts, Zenon
  <2>6. \A r : Asked(r)' => server'.at = "finish" /\ server'.requests[2] = r
    <3>1. \A r : toServer' # <<r>>
      OBVIOUS
    <3> QED
      BY <3>1, Zenon DEF Asked, Queued
  <2>7. CASE Asked(request)' /\ server'.at = "finish" /\ server'.requests[2] = request
    <3>1. Above'
      <4>1. server'.at # "pull"
        BY <2>7
      <4> QED
        BY <4>1, Zenon DEF Above
    <3>2. \A q \in Pull : Asked(BulkPull(q))' => PullOK(q)'
      <4> SUFFICES ASSUME NEW q \in Pull, Asked(BulkPull(q))' PROVE PullOK(q)
        BY <2>3, Zenon
      <4>1. BulkPull(q) = BulkPull(pull)
        BY <2>6, <2>7, Zenon
      <4>2. q = pull
        BY <4>1, MessageFacts, Zenon
      <4> QED
        BY <2>4, <4>2, Zenon
    <3>3. \A b : ~ToCome(b)
      <4>1. server.at # "pull"
        BY DEF Asked, Free, Queued
      <4> QED
        BY <4>1, Zenon DEF ToCome
    <3>4. ~\E i \in 1..Len(toClient) : TRUE
      BY <1>1
    <3> QED
      BY <2>1, <2>3, <2>5, <2>7, <3>1, <3>2, <3>3, <3>4, Zenon DEF QuietPulls
  <2>8. CASE Serves("pull", request)' /\ server'.current = c.current /\ server'.end = c.end
    <3>1. server'.at = "pull" /\ \A r : ~Asked(r)'
      <4>1. server'.at = "pull"
        BY <2>8, Zenon DEF Serves
      <4>2. "pull" # "finish"
        OBVIOUS
      <4> QED
        BY <2>6, <4>1, <4>2, Zenon
    <3> DEFINE a == pull.start
               head == Latest(theirs, a)
               e == c.end
    <3>2. a \in Accounts(theirs) /\ (e # NoHash => e \in theirs /\ e \in ours /\ Chain[e].account = a)
      BY <1>4, <2>4 DEF PullOK
    <3>3. /\ head \in theirs /\ Chain[head].account = a
          /\ \A b \in theirs : Chain[b].account = a => Height[b] <= Height[head]
      BY <1>2, <3>2, LatestFacts
    <3>4. server'.current = head /\ server'.end = e
      BY <1>4, <2>8, <3>2, Zenon
    <3> HIDE DEF head, e, a
    <3>5. Above'
      BY <3>2, <3>3, <3>4 DEF Above
    <3>6. ASSUME NEW b \in theirs, b \notin ours, Chain[b].account = a PROVE ToCome(b)'
      <4>1. Height[b] <= Height[head] /\ b \in Hash /\ head \in Hash /\ head # NoHash
        BY <1>2, <3>3, <3>6, LedgerFacts, HeightFacts
      <4>2. Height[b] \in Nat /\ Height[head] \in Nat
        BY <4>1, HeightFacts
      <4>3. e # NoHash => Height[e] < Height[b]
        <5> SUFFICES ASSUME e # NoHash, ~(Height[e] < Height[b]) PROVE FALSE
          OBVIOUS
        <5>1. e \in theirs /\ e \in ours /\ Chain[e].account = a /\ e \in Hash
          BY <1>2, <3>2, LedgerFacts
        <5>2. Height[e] \in Nat
          BY <5>1, HeightFacts
        <5>3. Height[b] <= Height[e]
          BY <4>2, <5>2
        <5> QED
          BY <1>2, <3>6, <5>1, <5>3, SharedBelow
      <4>4. head # e
        BY <4>1, <4>2, <4>3
      <4> QED
        BY <3>1, <3>3, <3>4, <3>6, <4>1, <4>3, <4>4, Zenon DEF ToCome
    <3>7. ASSUME NEW b \in theirs \ ours
          PROVE  \/ b \in unchecked
                 \/ \E q \in client.pulls : q.start = Chain[b].account
                 \/ ToCome(b)'
      <4>1. \A d : ~ToCome(d)
        <5>1. server.at # "pull"
          BY DEF Asked, Free, Queued
        <5> QED
          BY <5>1, Zenon DEF ToCome
      <4>2. \/ b \in unchecked \/ (\E q \in client.pulls : q.start = Chain[b].account)
            \/ \E q \in Pull : Asked(BulkPull(q)) /\ q.start = Chain[b].account
        BY <1>1, <2>1, <4>1, Zenon DEF QuietPulls
      <4>3. ASSUME NEW q \in Pull, Asked(BulkPull(q)), q.start = Chain[b].account PROVE ToCome(b)'
        BY <2>5, <3>6, <4>3, Zenon DEF a
      <4> QED
        BY <4>2, <4>3, Zenon
    <3> QED
      BY <2>1, <2>3, <3>1, <3>5, <3>7, Zenon DEF QuietPulls
  <2> QED
    BY <1>3, <2>7, <2>8, Zenon
<1>8. Covered'
  <2>1. "pulling" \notin {"frontiers", "processing", "pushing", "done"}
    OBVIOUS
  <2> QED
    BY <1>6, <1>7, <2>1, Zenon DEF Covered
<1> QED
  BY <1>5, <1>8, Zenon DEF IndInv, Control

(* What is read from the connection moves the rest up.                     *)
LEMMA ServerReads ==
    ASSUME Stored, toServer # <<>>, toServer' = Tail(toServer)
    PROVE  /\ Len(toServer) \in Nat /\ Len(toServer) >= 1 /\ Len(toServer') \in Nat
           /\ Len(toServer) = Len(toServer') + 1 /\ Head(toServer) = toServer[1]
           /\ \A i \in 1..Len(toServer') : i + 1 \in 1..Len(toServer) /\ toServer'[i] = toServer[i + 1]
           /\ \A i \in 1..Len(toServer) : i # 1 => /\ i - 1 \in 1..Len(toServer')
                                                   /\ toServer'[i - 1] = toServer[i]
<1>1. toServer \in Seq(Requests \cup Blocks)
  BY Zenon DEF Stored
<1>2. /\ Len(toServer) \in Nat /\ Len(toServer) >= 1 /\ Head(toServer) = toServer[1]
      /\ Tail(toServer) \in Seq(Requests \cup Blocks) /\ Len(Tail(toServer)) = Len(toServer) - 1
      /\ \A i \in 1..Len(Tail(toServer)) :
            i + 1 \in 1..Len(toServer) /\ Tail(toServer)[i] = toServer[i + 1]
      /\ \A i \in 1..Len(toServer) : i # 1 =>
            i - 1 \in 1..Len(Tail(toServer)) /\ Tail(toServer)[i - 1] = toServer[i]
  BY <1>1, TailFacts, Zenon
<1>3. Len(toServer') = Len(toServer) - 1
  BY <1>2, Zenon
<1>4. Len(toServer') \in Nat /\ Len(toServer) = Len(toServer') + 1
  BY <1>2, <1>3
<1> QED
  BY <1>2, <1>4, Zenon

(* The messages that remain when the first one is read, which is not the   *)
(* last one.                                                               *)
LEMMA MessagesRead ==
    ASSUME Stored, PushPhase, toServer # <<>>, toServer' = Tail(toServer), toServer[1] # NotABlock,
           UNCHANGED <<ours, client>>, ~server'.reading
    PROVE  /\ PushMessages'
           /\ client.at = "done" => toServer' # <<>> /\ (toServer[Len(toServer)])' = NotABlock
<1> DEFINE n == Len(toServer)
           m == Len(toServer')
<1>1. /\ n \in Nat /\ n >= 1 /\ m \in Nat /\ n = m + 1
      /\ \A i \in 1..m : i + 1 \in 1..n /\ toServer'[i] = toServer[i + 1]
      /\ \A i \in 1..n : i # 1 => i - 1 \in 1..m /\ toServer'[i - 1] = toServer[i]
  BY ServerReads, Zenon
<1>2. PushMessages
  BY Zenon DEF PushPhase
<1>3. PushMessages'
  <2> SUFFICES ASSUME NEW i \in 1..m
               PROVE  \/ /\ \E b \in ours : toServer'[i] = BlockMessage(b)
                         /\ client.at = "done" => i < m
                      \/ toServer'[i] = NotABlock /\ i = m /\ client.at = "done"
    BY Zenon DEF PushMessages
  <2> HIDE DEF n, m
  <2>1. PICK k \in 1..n : k = i + 1 /\ toServer'[i] = toServer[k]
    BY <1>1, Zenon
  <2>2. k # 1 /\ (k < n <=> i < m) /\ (k = n <=> i = m)
    BY <1>1, <2>1
  <2>3. \/ (\E b \in ours : toServer[k] = BlockMessage(b)) /\ (client.at = "done" => k < n)
        \/ toServer[k] = NotABlock /\ k = n /\ client.at = "done"
    BY <1>2, <2>2, Zenon DEF PushMessages, n
  <2> QED
    BY <2>1, <2>2, <2>3, Zenon
<1>4. ASSUME client.at = "done" PROVE toServer' # <<>> /\ toServer'[m] = NotABlock
  <2>1. toServer[n] = NotABlock
    BY <1>4, Zenon DEF PushPhase
  <2>2. n # 1
    BY <2>1, Zenon
  <2>a. n \in Nat /\ m \in Nat /\ n = m + 1
    BY <1>1, Zenon
  <2> HIDE DEF n, m
  <2>3. m >= 1 /\ n \in 1..n /\ n - 1 = m
    BY <2>2, <2>a
  <2>4. toServer'[m] = NotABlock
    BY <1>1, <2>1, <2>2, <2>3, Zenon
  <2>5. m # 0
    BY <2>3
  <2>6. toServer' # <<>>
    BY <2>5, EmptyFacts, Zenon DEF m
  <2> QED
    BY <2>4, <2>6, Zenon
<1> QED
  BY <1>3, <1>4, Zenon

(* The server begins to receive what is pushed.                            *)
LEMMA PushTakes ==
    ASSUME IndInv, PushPhase, Free, toServer # <<>>, toServer[1] = BulkPush, toServer' = Tail(toServer),
           Stored', Takes(BulkPush), server'.reading = FALSE,
           UNCHANGED <<ours, theirs, unchecked, unsynced, client, toClient, quiet>>
    PROVE  IndInv'
<1>1. Stored /\ BulkPush # NotABlock
  BY MessageFacts, Zenon DEF IndInv, Control, Requests
<1>2. /\ PushMessages'
      /\ client.at = "done" => toServer' # <<>> /\ (toServer[Len(toServer)])' = NotABlock
  BY <1>1, MessagesRead, Zenon
<1>3. \/ Queued(BulkPush)' \/ (server'.at = "push" /\ server'.requests = <<BulkPush>>)
  BY Zenon DEF Takes, Begins, Queued
<1>4. PushPhase'
  BY <1>2, <1>3, Zenon DEF PushPhase, Linked
<1>5. client.at \in {"pushing", "done"}
  BY Zenon DEF PushPhase
<1>6. ASSUME quiet PROVE QuietPush'
  <2>1. QuietPush
    BY <1>5, <1>6, Zenon DEF IndInv, Covered
  <2>2. \A b : Disputed(b)' <=> Disputed(b)
    BY DisputedKept
  <2>3. /\ \A i \in 1..Len(toServer') : i + 1 \in 1..Len(toServer) /\ toServer'[i] = toServer[i + 1]
        /\ \A i \in 1..Len(toServer) : i # 1 => /\ i - 1 \in 1..Len(toServer')
                                                /\ toServer'[i - 1] = toServer[i]
    BY <1>1, ServerReads, Zenon
  <2>4. \A b : toServer[1] # BlockMessage(b)
    BY MessageFacts, Zenon DEF Requests
  <2>5. ASSUME NEW b \in ours, NEW i \in 1..Len(toServer'), toServer'[i] = BlockMessage(b)
        PROVE  InOrder(i, b)'
    <3>1. InOrder(i + 1, b)
      BY <2>1, <2>3, <2>5, Zenon DEF QuietPush
    <3>2. ASSUME NEW j \in 1..((i + 1) - 1), NEW d, toServer[j] = BlockMessage(d)
          PROVE  \E k \in 1..(i - 1) : toServer'[k] = BlockMessage(d)
      <4>1. j # 1 /\ j \in 1..Len(toServer)
        BY <1>1, <2>3, <2>4, <3>2
      <4>2. j - 1 \in 1..(i - 1)
        BY <4>1
      <4>3. toServer'[j - 1] = BlockMessage(d)
        BY <2>3, <3>2, <4>1, Zenon
      <4> QED
        BY <4>2, <4>3, Zenon
    <3> SUFFICES ASSUME ~Disputed(b), NEW d \in Dependencies(b), d \notin theirs
                 PROVE  \E k \in 1..(i - 1) : toServer'[k] = BlockMessage(d)
      BY <2>2, Zenon DEF InOrder
    <3>3. PICK j \in 1..((i + 1) - 1) : toServer[j] = BlockMessage(d)
      BY <3>1, Zenon DEF InOrder
    <3> QED
      BY <3>2, <3>3, Zenon
  <2>6. \A b \in ours \ theirs : (\E i \in 1..Len(toServer) : toServer[i] = BlockMessage(b))
            => \E i \in 1..Len(toServer') : toServer'[i] = BlockMessage(b)
    BY <2>3, <2>4, Zenon
  <2> QED
    BY <2>1, <2>2, <2>5, <2>6, Zenon DEF QuietPush
<1>7. Covered'
  <2>1. {"pushing", "done"} \cap {"frontiers", "pulling", "processing"} = {}
    OBVIOUS
  <2> QED
    BY <1>5, <1>6, <2>1, Zenon DEF Covered
<1> QED
  BY <1>4, <1>7, Zenon DEF IndInv, Control

(* A request is the only one on its way, but for a push.                   *)
LEMMA RequestWaits ==
    ASSUME Control, toServer # <<>>
    PROVE  \/ FrontierPhase /\ Free /\ toServer = <<FrontierReq>> /\ toClient = <<>>
           \/ /\ PullPhase /\ Free /\ toClient = <<>>
              /\ \E pull \in Pull : toServer = <<BulkPull(pull)>>
           \/ PushPhase
BY Zenon DEF Control, OffPhase, FrontierPhase, PullPhase, ProcessPhase, Asked, Serves, Answered

(* A connection with one message in it.                                    *)
LEMMA OneFacts ==
    /\ \A x : <<x>>[1] = x /\ Tail(<<x>>) = <<>> /\ <<x>> # <<>> /\ Len(<<x>>) = 1
    /\ \A n \in Nat : n # 0 => 1 \in 1..n
    /\ 1..0 = {} /\ 1 \in 1..1
OBVIOUS

(* A request is read from the connection.                                  *)
LEMMA ReceiveRequestStep == ASSUME IndInv, ReceiveRequest PROVE IndInv'
<1>1. Control /\ Stored /\ server.reading /\ toServer # <<>>
  BY Zenon DEF IndInv, Control, ReceiveRequest
<1>2. FrontierReq \in Requests /\ BulkPush \in Requests /\ \A pull \in Pull : BulkPull(pull) \in Requests
  BY DEF Requests
<1>3. FrontierReq # BulkPush /\ \A pull : BulkPull(pull) # BulkPush
  BY MessageFacts
<1>4. CASE FrontierPhase /\ Free /\ toServer = <<FrontierReq>> /\ toClient = <<>>
  <2>1. toServer[1] = FrontierReq /\ Tail(toServer) = <<>>
    BY <1>4, OneFacts, Zenon
  <2>2. /\ Stored' /\ toServer' = <<>> /\ server'.reading /\ Takes(FrontierReq)
        /\ UNCHANGED <<ours, theirs, unchecked, unsynced, client, toClient, quiet>>
    BY <1>1, <1>2, <1>3, <1>4, <2>1, RequestTaken, Zenon DEF Takes
  <2>3. Asked(FrontierReq)
    BY <1>4, Zenon DEF Asked
  <2> QED
    BY <1>4, <2>2, <2>3, FrontierTakes, Zenon
<1>5. CASE PullPhase /\ Free /\ toClient = <<>> /\ \E pull \in Pull : toServer = <<BulkPull(pull)>>
  <2>1. PICK pull \in Pull : toServer = <<BulkPull(pull)>>
    BY <1>5, Zenon
  <2>2. toServer[1] = BulkPull(pull) /\ Tail(toServer) = <<>>
    BY <2>1, OneFacts, Zenon
  <2>3. /\ Stored' /\ toServer' = <<>> /\ server'.reading /\ Takes(BulkPull(pull))
        /\ UNCHANGED <<ours, theirs, unchecked, unsynced, client, toClient, quiet>>
    BY <1>1, <1>2, <1>3, <1>5, <2>2, RequestTaken, Zenon DEF Takes
  <2>4. Asked(BulkPull(pull))
    BY <1>5, <2>1, Zenon DEF Asked
  <2> QED
    BY <1>5, <2>3, <2>4, PullTakes, Zenon
<1>6. CASE PushPhase
  <2>1. Free
    BY <1>1, <1>6, Zenon DEF PushPhase
  <2>2. 1 \in 1..Len(toServer) /\ ~(1 > 1)
    BY <1>1 DEF Stored
  <2>3. toServer[1] = BulkPush
    BY <1>1, <1>6, <2>2, Zenon DEF PushPhase, PushMessages
  <2>4. /\ Stored' /\ toServer' = Tail(toServer) /\ server'.reading = FALSE /\ Takes(BulkPush)
        /\ UNCHANGED <<ours, theirs, unchecked, unsynced, client, toClient, quiet>>
    <3>1. (toServer[1] # BulkPush) = FALSE
      BY <2>3
    <3> QED
      BY <1>1, <1>2, <2>1, <2>3, <3>1, RequestTaken, Zenon DEF Takes
  <2> QED
    BY <1>1, <1>6, <2>1, <2>3, <2>4, PushTakes, Zenon
<1> QED
  BY <1>1, <1>4, <1>5, <1>6, RequestWaits, Zenon

(* The callback of the last message of an answer.                          *)
LEMMA FinishRequestStep == ASSUME IndInv, FinishRequest PROVE IndInv'
<1>1. Control /\ Stored /\ server.at = "finish"
  BY Zenon DEF IndInv, Control, FinishRequest
<1>2. Len(server.requests) = 1 \/ Len(server.requests) = 2 => Len(server.requests) \in {1, 2}
  OBVIOUS
<1>n. 1 # 2 /\ "finish" # "off" /\ "finish" # "idle" /\ "finish" # "frontiers" /\ "finish" # "pull"
      /\ "finish" # "push"
  OBVIOUS
<1>3. CASE Free
  <2>1. Len(server.requests) = 1 /\ server.reading
    BY <1>1, <1>3, <1>n, Zenon DEF Free
  <2>2. /\ Stored' /\ server'.reading /\ server'.at = "idle" /\ server'.requests = <<>>
        /\ UNCHANGED <<ours, theirs, unchecked, unsynced, client, toServer, toClient, quiet>>
    BY <1>1, <1>2, <2>1, RequestFinished, Zenon
  <2>3. Free'
    BY <2>2, Zenon DEF Free
  <2> QED
    BY <1>3, <2>2, <2>3, IdleStep, Zenon
<1>4. ASSUME NEW request, Queued(request)
      PROVE  /\ Stored' /\ server'.reading = server.reading /\ Takes(request)
             /\ server'.requests = <<request>> /\ Begins(server', request)
             /\ UNCHANGED <<ours, theirs, unchecked, unsynced, client, toServer, toClient, quiet>>
  <2>1. Len(server.requests) = 2 /\ server.requests[2] = request
    BY <1>4, Zenon DEF Queued
  <2> QED
    BY <1>1, <1>2, <2>1, RequestFinished, Zenon DEF Takes
<1>5. CASE FrontierPhase /\ ~Free
  <2>1. Asked(FrontierReq) /\ Queued(FrontierReq) /\ server.reading /\ toServer = <<>> /\ toClient = <<>>
    BY <1>1, <1>5, <1>n, Zenon DEF FrontierPhase, Asked, Serves, Answered
  <2> QED
    BY <1>4, <1>5, <2>1, FrontierTakes, Zenon
<1>6. CASE PullPhase /\ ~Free
  <2>1. PICK pull \in Pull : /\ Asked(BulkPull(pull)) /\ Queued(BulkPull(pull)) /\ server.reading
                             /\ toServer = <<>> /\ toClient = <<>>
    BY <1>1, <1>6, <1>n, Zenon DEF PullPhase, Asked, Serves, Answered
  <2> QED
    BY <1>4, <1>6, <2>1, PullTakes, Zenon
<1>7. CASE PushPhase /\ ~Free
  <2>1. Queued(BulkPush) /\ ~server.reading
    BY <1>1, <1>7, <1>n, Zenon DEF PushPhase
  <2>2. /\ Stored' /\ server'.reading = server.reading /\ server'.requests = <<BulkPush>>
        /\ Begins(server', BulkPush)
        /\ UNCHANGED <<ours, theirs, unchecked, unsynced, client, toServer, toClient, quiet>>
    BY <1>4, <2>1, Zenon
  <2>3. PushPhase'
    BY <1>7, <2>1, <2>2, Zenon DEF PushPhase, PushMessages, Begins, Linked
  <2>4. client.at \in {"pushing", "done"}
    BY <1>7, Zenon DEF PushPhase
  <2>5. \A b : Disputed(b)' <=> Disputed(b)
    BY <2>2, DisputedKept
  <2>a. \A i, b : InOrder(i, b) => InOrder(i, b)'
    BY <2>2, <2>5, Zenon DEF InOrder
  <2>6. QuietPush => QuietPush'
    BY <2>2, <2>5, <2>a, Zenon DEF QuietPush
  <2>7. {"pushing", "done"} \cap {"frontiers", "pulling", "processing"} = {}
    OBVIOUS
  <2>8. Covered'
    BY <2>2, <2>4, <2>6, <2>7, Zenon DEF IndInv, Covered
  <2> QED
    BY <2>2, <2>3, <2>8, Zenon DEF IndInv, Control
<1>8. ~OffPhase /\ (ProcessPhase => Free)
  BY <1>1, <1>n, OffFacts, Zenon DEF OffPhase, ProcessPhase, Answered
<1> QED
  BY <1>1, <1>3, <1>5, <1>6, <1>7, <1>8, Zenon DEF Control

(* frontier_req_server::send_next.                                         *)
LEMMA SendFrontierStep == ASSUME IndInv, SendFrontier PROVE IndInv'
<1> DEFINE n == Len(toClient)
           info == server.info
           after == From(theirs, info.account + 1)
<1>1. /\ Control /\ Stored /\ server.at = "frontiers"
      /\ toClient' = Append(toClient, Frontier(info))
      /\ server' = IF info = NoInfo THEN [server EXCEPT !.at = "finish"] ELSE [server EXCEPT !.info = after]
      /\ UNCHANGED <<ours, theirs, gaps, unchecked, unsynced, client, toServer, quiet>>
  BY Zenon DEF IndInv, Control, SendFrontier, tables, history
<1>2. /\ server \in Server /\ theirs \in Ledgers /\ HeadIn(info, theirs)
      /\ toClient \in Seq(Frontiers \cup Blocks)
  BY <1>1, Zenon DEF Stored
<1>3. info \in Info /\ info.account + 1 \in Nat
  BY <1>2 DEF Server, Info
<1>4. after \in Info /\ HeadIn(after, theirs)
  BY <1>2, <1>3, InfoFacts, Zenon
<1>5. Frontier(info) \in Frontiers /\ Frontier(info).info = info /\ Frontier(info) \in Frontiers \cup Blocks
  BY <1>3, MessageFacts DEF Frontiers
<1>6. /\ n \in Nat /\ Len(toClient') = n + 1 /\ toClient' \in Seq(Frontiers \cup Blocks) /\ toClient' # <<>>
      /\ Len(toClient') \in 1..Len(toClient') /\ toClient'[Len(toClient')] = Frontier(info)
      /\ \A i \in 1..n : i \in 1..Len(toClient') /\ toClient'[i] = toClient[i]
      /\ \A i \in 1..Len(toClient') : \/ i \in 1..n /\ toClient'[i] = toClient[i] /\ i < Len(toClient')
                                      \/ i = Len(toClient') /\ toClient'[i] = Frontier(info)
  <2>1. toClient' = Append(toClient, Frontier(info))
    BY <1>1, Zenon
  <2>2. toClient \in Seq(Frontiers \cup Blocks) /\ Frontier(info) \in Frontiers \cup Blocks
    BY <1>2, <1>5, Zenon
  <2> QED
    BY <2>1, <2>2, SentFacts
<1> HIDE DEF n, info, after
<1>7. /\ server' \in Server /\ server'.requests = server.requests /\ server'.reading = server.reading
      /\ info = NoInfo => server'.at = "finish" /\ server'.info = info
      /\ info # NoInfo => server'.at = "frontiers" /\ server'.info = after
  <2>1. CASE info = NoInfo
    <3>1. server' = [server EXCEPT !.at = "finish"]
      BY <1>1, <2>1, Zenon
    <3>2. server' \in Server
      BY <1>2, <3>1, Zenon DEF Server, ServerAt
    <3> QED
      BY <1>2, <2>1, <3>1, <3>2 DEF Server, info
  <2>2. CASE info # NoInfo
    <3>1. server' = [server EXCEPT !.info = after]
      BY <1>1, <2>2, Zenon
    <3>2. server' \in Server
      BY <1>2, <1>4, <3>1, Zenon DEF Server, ServerAt
    <3>3. server'.requests = server.requests /\ server'.reading = server.reading /\ server'.at = server.at
      BY <1>2, <3>1, <3>2 DEF Server
    <3>4. server'.info = after
      BY <1>2, <3>1 DEF Server
    <3> QED
      BY <1>1, <2>2, <3>2, <3>3, <3>4, Zenon
  <2> QED
    BY <2>1, <2>2, Zenon
<1>8. Stored'
  <2>1. HeadIn(server'.info, theirs)
    BY <1>2, <1>4, <1>7, Zenon
  <2> QED
    BY <1>1, <1>6, <1>7, <2>1, Zenon DEF Stored
<1>9. /\ FrontierPhase /\ Serves("frontiers", FrontierReq)
      /\ \A i \in 1..n : toClient[i].info # NoInfo
  <2>1. FrontierPhase
    BY <1>1, PhaseFacts, Zenon
  <2>2. ~Free /\ ~Queued(FrontierReq)
    BY <1>1, FreeFacts DEF Queued
  <2> QED
    BY <2>1, <2>2, Zenon DEF FrontierPhase, Asked, Answered, n
<1>10. FrontierPhase'
  <2>1. FrontierMessages'
    <3> SUFFICES ASSUME NEW i \in 1..Len(toClient')
                 PROVE  /\ toClient'[i] \in Frontiers /\ HeadIn(toClient'[i].info, theirs)
                        /\ i < Len(toClient') => toClient'[i].info # NoInfo
      BY <1>1, Zenon DEF FrontierMessages, HeadIn
    <3>1. CASE i \in 1..n /\ toClient'[i] = toClient[i]
      BY <1>9, <3>1, Zenon DEF FrontierPhase, FrontierMessages, n
    <3>2. CASE i = Len(toClient') /\ toClient'[i] = Frontier(info)
      <4>1. ~(i < Len(toClient'))
        BY <1>6, <3>2
      <4> QED
        BY <1>2, <1>5, <3>2, <4>1, Zenon
    <3> QED
      BY <1>6, <3>1, <3>2, Zenon
  <2>2. client'.at = "frontiers" /\ client'.stack = <<>>
    BY <1>1, <1>9, Zenon DEF FrontierPhase
  <2>3. /\ server'.requests = <<FrontierReq>> /\ server'.reading /\ toServer' = <<>>
        /\ Len(<<FrontierReq>>) = 1
    BY <1>1, <1>7, <1>9, OneFacts, Zenon DEF Serves
  <2>4. CASE info = NoInfo
    <3>1. Answered' /\ toClient' # <<>> /\ (toClient[Len(toClient)])'.info = NoInfo
      BY <1>5, <1>6, <1>7, <2>3, <2>4, Zenon DEF Answered, Free
    <3> QED
      BY <2>1, <2>2, <3>1, Zenon DEF FrontierPhase
  <2>5. CASE info # NoInfo
    <3>1. Serves("frontiers", FrontierReq)'
      BY <1>7, <2>3, <2>5, Zenon DEF Serves
    <3>2. \A i \in 1..Len(toClient') : toClient'[i].info # NoInfo
      BY <1>5, <1>6, <1>9, <2>5, Zenon
    <3> QED
      BY <2>1, <2>2, <3>1, <3>2, Zenon DEF FrontierPhase
  <2> QED
    BY <2>4, <2>5, Zenon
<1>11. ASSUME quiet PROVE QuietFrontiers'
  <2>1. PICK lo \in Nat : Stream(lo) /\ Compared(lo)
    BY <1>9, <1>11, Zenon DEF IndInv, Covered, QuietFrontiers, FrontierPhase
  <2>2. Compared(lo)'
    <3>1. \A b : Disputed(b)' <=> Disputed(b)
      BY <1>1, DisputedKept
    <3> QED
      BY <1>1, <2>1, <3>1, Zenon DEF Compared, PullOK
  <2>3. \A i \in 1..(n + 1) : Expected(lo, i)' = Expected(lo, i)
    <3> SUFFICES ASSUME NEW i \in 1..(n + 1), i # 1 PROVE toClient'[i - 1] = toClient[i - 1]
      BY Zenon DEF Expected
    <3>1. i - 1 \in 1..n
      BY <1>6
    <3> QED
      BY <1>6, <3>1, Zenon
  <2>5. info = From(theirs, Expected(lo, n + 1))
    BY <1>1, <2>1, Zenon DEF Stream, n, info
  <2>6. \A i \in 1..Len(toClient') : toClient'[i].info = From(theirs, Expected(lo, i)')
    <3> SUFFICES ASSUME NEW i \in 1..Len(toClient')
                 PROVE  toClient'[i].info = From(theirs, Expected(lo, i))
      BY <1>6, <2>3, Zenon
    <3>1. CASE i \in 1..n /\ toClient'[i] = toClient[i]
      BY <2>1, <3>1, Zenon DEF Stream, n
    <3>2. CASE i = Len(toClient') /\ toClient'[i] = Frontier(info)
      BY <1>5, <1>6, <2>5, <3>2, Zenon
    <3> QED
      BY <1>6, <3>1, <3>2, Zenon
  <2>7. server'.at = "frontiers" => server'.info = From(theirs, Expected(lo, Len(toClient) + 1)')
    <3>1. Len(toClient') + 1 # 1 /\ (Len(toClient') + 1) - 1 = Len(toClient')
      BY <1>6
    <3>2. toClient'[(Len(toClient') + 1) - 1].info.account + 1 = info.account + 1
      BY <1>5, <1>6, <3>1, Zenon
    <3>3. Expected(lo, Len(toClient) + 1)' = info.account + 1
      BY <3>1, <3>2, Zenon DEF Expected
    <3>4. "finish" # "frontiers"
      OBVIOUS
    <3> QED
      BY <1>7, <3>3, <3>4, Zenon DEF after
  <2>8. ~Asked(FrontierReq)'
    <3>1. Len(server'.requests) # 2 /\ toServer' # <<FrontierReq>>
      BY <1>1, <1>7, <1>9 DEF Serves
    <3> QED
      BY <3>1, Zenon DEF Asked, Queued
  <2>9. Stream(lo)'
    BY <1>1, <2>6, <2>7, <2>8, Zenon DEF Stream
  <2> QED
    BY <2>2, <2>9, Zenon DEF QuietFrontiers
<1>12. Covered'
  <2>1. "frontiers" \notin {"pulling", "processing", "pushing", "done"}
    OBVIOUS
  <2>2. client'.at = "frontiers"
    BY <1>10, Zenon DEF FrontierPhase
  <2> QED
    BY <1>1, <1>11, <2>1, <2>2, Zenon DEF Covered
<1> QED
  BY <1>8, <1>10, <1>12, Zenon DEF IndInv, Control
=============================================================================
