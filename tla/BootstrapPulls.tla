--------------------------- MODULE BootstrapPulls ---------------------------
(***************************************************************************)
(* The first half of a bootstrap session keeps its invariant: the client   *)
(* compares the frontiers of the server with its own, and pulls the chains *)
(* that the comparison told it to.                                         *)
(***************************************************************************)
EXTENDS BootstrapFacts

-----------------------------------------------------------------------------
(* The frontiers.                                                          *)

(* Two nodes compare their heads of an account.                            *)
LEMMA HeadsCompared ==
    ASSUME NEW L \in Ledgers, NEW M \in Ledgers, NEW a \in Accounts(L), a \in Accounts(M)
    PROVE  /\ Latest(M, a) \in L => \A b \in M : Chain[b].account = a => b \in L
           /\ \A b \in L \ M : Chain[b].account = a =>
                 \/ DisputedIn(b, L \cup M)
                 \/ /\ Latest(M, a) \in L /\ Latest(M, a) # Latest(L, a)
                    /\ b \in Down(Latest(L, a), Latest(M, a))
<1> DEFINE h == Latest(L, a)
           g == Latest(M, a)
<1>1. /\ h \in L /\ Chain[h].account = a
      /\ \A b \in L : Chain[b].account = a => Height[b] <= Height[h]
  BY LatestFacts
<1>2. /\ g \in M /\ Chain[g].account = a
      /\ \A b \in M : Chain[b].account = a => Height[b] <= Height[g]
  BY LatestFacts
<1>h. L \subseteq Hash /\ M \subseteq Hash /\ \A b \in Hash : Height[b] \in Nat
  BY LedgerFacts, HeightFacts
<1> HIDE DEF h, g
<1>3. ASSUME g \in L, NEW b \in M, Chain[b].account = a PROVE b \in L
  BY <1>2, <1>3, SharedBelow, Zenon
<1>4. ASSUME NEW b \in L, b \notin M, Chain[b].account = a
      PROVE  DisputedIn(b, L \cup M) \/ (g \in L /\ g # h /\ b \in Down(h, g))
  <2>1. CASE g \notin L
    BY <1>4, <2>1, ForkDisputed, Zenon DEF g
  <2>2. CASE g \in L
    <3>1. ~(Height[b] <= Height[g])
      BY <1>2, <1>4, <2>2, SharedBelow, Zenon
    <3>2. Height[g] < Height[b]
      BY <1>h, <1>2, <3>1
    <3>3. Height[b] <= Height[h] /\ Chain[b].account = Chain[h].account
      BY <1>1, <1>4, Zenon
    <3>4. g # h
      BY <3>1, <3>3, Zenon
    <3>5. g \in Hash \cup {NoHash}
      BY <1>h, <1>2
    <3>6. b \in Down(h, g)
      BY <1>1, <3>2, <3>3, <3>5, DownCovers, Zenon
    <3> QED
      BY <2>2, <3>4, <3>6, Zenon
  <2> QED
    BY <2>1, <2>2
<1> QED
  BY <1>3, <1>4 DEF h, g

(* The blocks of our accounts that are put in unsynced.                    *)
LEMMA OnlyOursFacts ==
    ASSUME ours \in Ledgers, client.info \in Info, client.info # NoInfo, HeadIn(client.info, ours),
           NEW S \in SUBSET Accounts(ours)
    PROVE  /\ OnlyOurs(S) \subseteq ours
           /\ client.info.head = Latest(ours, client.info.account) =>
                 \A b \in ours : Chain[b].account \in S /\ client.info.account <= Chain[b].account
                                    => b \in OnlyOurs(S)
<1> DEFINE c == client.info
           head(x) == IF x = c.account THEN c.head ELSE Latest(ours, x)
<1>1. OnlyOurs(S) = UNION {Down(head(x), NoHash) : x \in {y \in S : c.account <= y}}
  BY Zenon DEF OnlyOurs
<1>2. \A x \in S : /\ Latest(ours, x) \in ours /\ Chain[Latest(ours, x)].account = x
                   /\ \A b \in ours : Chain[b].account = x => Height[b] <= Height[Latest(ours, x)]
  BY LatestFacts
<1>3. c.head \in ours
  BY Zenon DEF HeadIn
<1>4. \A x \in S : head(x) \in ours
  BY <1>2, <1>3, Zenon
<1>5. \A x \in S : Down(head(x), NoHash) \subseteq ours
  <2> HIDE DEF head
  <2>1. \A h \in ours : Down(h, NoHash) \subseteq ours
    BY DownInside
  <2> QED
    BY <1>4, <2>1, Zenon
<1>6. ASSUME c.head = Latest(ours, c.account), NEW b \in ours, Chain[b].account \in S,
             c.account <= Chain[b].account
      PROVE  b \in OnlyOurs(S)
  <2> DEFINE x == Chain[b].account
  <2>1. head(x) = Latest(ours, x)
    BY <1>6, Zenon
  <2> HIDE DEF head
  <2>2. /\ head(x) \in ours /\ Chain[head(x)].account = x /\ Height[b] <= Height[head(x)]
    BY <1>2, <1>6, <2>1, Zenon
  <2>3. NoHash \in Hash \cup {NoHash}
    OBVIOUS
  <2>4. b \in Down(head(x), NoHash)
    BY <2>2, <2>3, DownCovers, Zenon
  <2> QED
    BY <1>1, <1>6, <2>4
<1> HIDE DEF c, head
<1>7. OnlyOurs(S) \subseteq ours
  BY <1>1, <1>5
<1> QED
  BY <1>6, <1>7, Zenon DEF c

(* received_frontier: their entry, and ours at that account or after it.   *)
TheirInfo == Head(toClient).info
Behind == client.info # NoInfo /\ client.info.account < TheirInfo.account
OurInfo == IF Behind THEN From(ours, TheirInfo.account) ELSE client.info
ToPull ==
    IF OurInfo.account # TheirInfo.account THEN {[start |-> TheirInfo.account, end |-> NoHash]}
    ELSE IF TheirInfo.head \notin ours THEN {[start |-> TheirInfo.account, end |-> OurInfo.head]} ELSE {}
ToPush ==
    (IF Behind THEN OnlyOurs({x \in Accounts(ours) : x < TheirInfo.account}) ELSE {})
    \cup (IF /\ OurInfo.account = TheirInfo.account /\ OurInfo.head # TheirInfo.head
             /\ TheirInfo.head \in ours
            THEN Down(OurInfo.head, TheirInfo.head) ELSE {})

(* received_frontier: what changes when a frontier is read.                *)
LEMMA FrontierTaken ==
    ASSUME Stored, FrontierPhase, ReceiveFrontier
    PROVE  /\ Stored' /\ toClient # <<>> /\ TheirInfo = toClient[1].info /\ TheirInfo # NoInfo
           /\ TheirInfo \in Info /\ TheirInfo.head \in theirs
           /\ TheirInfo.account = Chain[TheirInfo.head].account /\ TheirInfo.account # 0
           /\ OurInfo \in Info /\ HeadIn(OurInfo, ours)
           /\ toClient' = Tail(toClient) /\ unsynced' = unsynced \cup ToPush
           /\ client'.at = client.at /\ client'.stack = client.stack
           /\ client'.pulls = client.pulls \cup ToPull
           /\ client'.info = IF OurInfo.account = TheirInfo.account
                             THEN From(ours, TheirInfo.account + 1) ELSE OurInfo
           /\ UNCHANGED <<ours, theirs, gaps, unchecked, server, toServer, quiet>>
<1> DEFINE F == TheirInfo
           a == TheirInfo.account
           I == OurInfo
           read == IF I.account = a THEN From(ours, a + 1) ELSE I
<1>1. /\ toClient # <<>> /\ F # NoInfo /\ toClient' = Tail(toClient) /\ unsynced' = unsynced \cup ToPush
      /\ UNCHANGED <<ours, theirs, gaps, unchecked, server, toServer, quiet>>
  <2>1. /\ toClient # <<>> /\ F # NoInfo /\ toClient' = Tail(toClient)
        /\ UNCHANGED <<ours, theirs, gaps, unchecked, server, toServer, quiet>>
    BY Zenon DEF ReceiveFrontier, TheirInfo, history
  <2>2. unsynced' = unsynced
                \cup (IF Behind THEN OnlyOurs({x \in Accounts(ours) : x < a}) ELSE {})
                \cup (IF I.account = a /\ I.head # F.head /\ F.head \in ours
                        THEN Down(I.head, F.head) ELSE {})
    BY Zenon DEF ReceiveFrontier, OurInfo, Behind, TheirInfo
  <2>3. unsynced' = unsynced \cup ToPush
    <3> DEFINE x == IF Behind THEN OnlyOurs({y \in Accounts(ours) : y < a}) ELSE {}
               z == IF I.account = a /\ I.head # F.head /\ F.head \in ours THEN Down(I.head, F.head) ELSE {}
    <3>1. unsynced' = (unsynced \cup x) \cup z
      BY <2>2, Zenon
    <3>2. ToPush = x \cup z
      BY Zenon DEF ToPush
    <3> HIDE DEF x, z
    <3> QED
      BY <3>1, <3>2
  <2> QED
    BY <2>1, <2>3, Zenon
<1>2. /\ ours \in Ledgers /\ theirs \in Ledgers /\ client \in Client
      /\ HeadIn(client.info, ours) /\ toClient \in Seq(Frontiers \cup Blocks)
  BY Zenon DEF Stored
<1>3. Head(toClient) = toClient[1] /\ Tail(toClient) \in Seq(Frontiers \cup Blocks) /\ 1 \in 1..Len(toClient)
  BY <1>1, <1>2, TailFacts
<1>4. toClient[1] \in Frontiers /\ HeadIn(toClient[1].info, theirs)
  BY <1>3, Zenon DEF FrontierPhase, FrontierMessages
<1>5. F = toClient[1].info /\ F \in Info /\ F.head \in theirs /\ a = Chain[F.head].account
  BY <1>1, <1>3, <1>4, MessageFacts, Zenon DEF TheirInfo, HeadIn
<1>6. a \in Nat /\ a # 0 /\ a + 1 \in Nat /\ F.head \in Hash
  <2>1. F.head \in Hash
    BY <1>2, <1>5, LedgerFacts
  <2>2. Chain[F.head].account \in Nat /\ Chain[F.head].account # 0
    BY <2>1, AccountFacts
  <2> HIDE DEF F
  <2>3. a \in Nat /\ a # 0
    BY <1>5, <2>2, Zenon
  <2> HIDE DEF a
  <2> QED
    BY <2>1, <2>3
<1>7. I \in Info /\ HeadIn(I, ours)
  <2>1. client.info \in Info
    BY <1>2 DEF Client
  <2>2. From(ours, a) \in Info /\ HeadIn(From(ours, a), ours)
    BY <1>2, <1>6, InfoFacts, Zenon
  <2> QED
    BY <1>2, <2>1, <2>2, Zenon DEF OurInfo
<1>8. read \in Info /\ HeadIn(read, ours)
  BY <1>2, <1>6, <1>7, InfoFacts, Zenon
<1>9. I.account = a => I.head \in ours /\ Chain[I.head].account = a
  <2>1. NoInfo.account = 0
    BY DEF NoInfo
  <2> QED
    BY <1>6, <1>7, <2>1, Zenon DEF HeadIn
<1>10. ToPull \subseteq Pull
  <2>1. I.head \in Hash \cup {NoHash}
    BY <1>7 DEF Info
  <2>2. [start |-> a, end |-> NoHash] \in Pull /\ [start |-> a, end |-> I.head] \in Pull
    BY <1>6, <2>1 DEF Pull
  <2> HIDE DEF F, a, I
  <2>3. \/ ToPull = {[start |-> a, end |-> NoHash]} \/ ToPull = {[start |-> a, end |-> I.head]}
        \/ ToPull = {}
    BY Zenon DEF ToPull, F, a, I
  <2> QED
    BY <2>2, <2>3
<1>11. client' = [client EXCEPT !.info = read, !.pulls = @ \cup ToPull]
  <2> DEFINE added == CASE I.account = a /\ ~(F.head \in ours) ->
                               client.pulls \cup {[start |-> a, end |-> I.head]}
                        [] ~(I.account = a) -> client.pulls \cup {[start |-> a, end |-> NoHash]}
                        [] OTHER -> client.pulls
  <2>1. client' = [client EXCEPT !.info = read, !.pulls = added]
    BY Zenon DEF ReceiveFrontier, OurInfo, Behind, TheirInfo
  <2>2. added = client.pulls \cup ToPull
    <3> HIDE DEF F, a, I
    <3>1. CASE I.account # a
      <4>1. ToPull = {[start |-> a, end |-> NoHash]}
        BY <3>1, Zenon DEF ToPull, F, a, I
      <4> QED
        BY <3>1, <4>1
    <3>2. CASE I.account = a /\ F.head \notin ours
      <4>1. ToPull = {[start |-> a, end |-> I.head]}
        BY <3>2, Zenon DEF ToPull, F, a, I
      <4> QED
        BY <3>2, <4>1
    <3>3. CASE I.account = a /\ F.head \in ours
      <4>1. ToPull = {}
        BY <3>3, Zenon DEF ToPull, F, a, I
      <4> QED
        BY <3>3, <4>1
    <3> QED
      BY <3>1, <3>2, <3>3, Zenon
  <2> HIDE DEF added, read
  <2> QED
    BY <2>1, <2>2, Zenon
<1> HIDE DEF F, a, I, read
<1>12. client.pulls \cup ToPull \in SUBSET Pull
  BY <1>2, <1>10 DEF Client
<1>13. /\ client' \in Client /\ client'.at = client.at /\ client'.stack = client.stack
       /\ client'.info = read /\ client'.pulls = client.pulls \cup ToPull
  <2>1. client' \in Client
    BY <1>2, <1>8, <1>11, <1>12, Zenon DEF Client, ClientAt
  <2> QED
    BY <1>2, <1>11, <2>1 DEF Client
<1>14. ToPush \subseteq ours
  <2>1. Behind => OnlyOurs({x \in Accounts(ours) : x < a}) \subseteq ours
    <3>1. client.info \in Info
      BY <1>2 DEF Client
    <3>2. {x \in Accounts(ours) : x < a} \in SUBSET Accounts(ours)
      OBVIOUS
    <3> QED
      BY <1>2, <3>1, <3>2, OnlyOursFacts, Zenon DEF Behind
  <2>2. I.account = a => Down(I.head, F.head) \subseteq ours
    <3>1. F.head \in Hash \cup {NoHash} /\ (I.account = a => I.head \in ours \cup {NoHash})
      BY <1>6, <1>9
    <3> QED
      BY <1>2, <3>1, DownInside, Zenon
  <2>3. \A x : x \in ToPush => \/ Behind /\ x \in OnlyOurs({y \in Accounts(ours) : y < a})
                               \/ I.account = a /\ x \in Down(I.head, F.head)
    <3> DEFINE A == OnlyOurs({y \in Accounts(ours) : y < a})
               B == Down(I.head, F.head)
               both == I.account = a /\ I.head # F.head /\ F.head \in ours
    <3>1. ToPush = (IF Behind THEN A ELSE {}) \cup (IF both THEN B ELSE {})
      BY Zenon DEF ToPush, F, a, I
    <3>2. both => I.account = a
      BY Zenon
    <3> HIDE DEF A, B, both
    <3>3. \A x : x \in ToPush => (Behind /\ x \in A) \/ (both /\ x \in B)
      BY <3>1
    <3> QED
      BY <3>2, <3>3, Zenon DEF A, B
  <2> QED
    BY <2>1, <2>2, <2>3, Zenon
<1>15. Stored'
  <2>1. unsynced' \subseteq ours
    BY <1>1, <1>14 DEF Stored
  <2>2. toClient' \in Seq(Frontiers \cup Blocks)
    BY <1>1, <1>3, Zenon
  <2>3. HeadIn(client'.info, ours)
    BY <1>8, <1>13, Zenon
  <2> QED
    BY <1>1, <1>13, <2>1, <2>2, <2>3, Zenon DEF Stored
<1> QED
  BY <1>1, <1>5, <1>6, <1>7, <1>13, <1>15, Zenon DEF F, a, I, read

(* What is read from the other direction.                                  *)
LEMMA ClientReads ==
    ASSUME Stored, toClient # <<>>, toClient' = Tail(toClient)
    PROVE  /\ Len(toClient) \in Nat /\ Len(toClient) >= 1 /\ Len(toClient') \in Nat
           /\ Len(toClient) = Len(toClient') + 1 /\ Head(toClient) = toClient[1] /\ 1 \in 1..Len(toClient)
           /\ \A i \in 1..Len(toClient') : i + 1 \in 1..Len(toClient) /\ toClient'[i] = toClient[i + 1]
           /\ \A i \in 1..Len(toClient) : i # 1 => /\ i - 1 \in 1..Len(toClient')
                                                   /\ toClient'[i - 1] = toClient[i]
<1>1. toClient \in Seq(Frontiers \cup Blocks)
  BY Zenon DEF Stored
<1>2. /\ Len(toClient) \in Nat /\ Len(toClient) >= 1 /\ Head(toClient) = toClient[1]
      /\ Tail(toClient) \in Seq(Frontiers \cup Blocks) /\ Len(Tail(toClient)) = Len(toClient) - 1
      /\ \A i \in 1..Len(Tail(toClient)) :
            i + 1 \in 1..Len(toClient) /\ Tail(toClient)[i] = toClient[i + 1]
      /\ \A i \in 1..Len(toClient) : i # 1 =>
            i - 1 \in 1..Len(Tail(toClient)) /\ Tail(toClient)[i - 1] = toClient[i]
  BY <1>1, TailFacts, Zenon
<1>3. Len(toClient') = Len(toClient) - 1
  BY <1>2, Zenon
<1>4. /\ Len(toClient') \in Nat /\ Len(toClient) = Len(toClient') + 1 /\ 1 \in 1..Len(toClient)
  BY <1>2, <1>3
<1> QED
  BY <1>2, <1>4, Zenon

(* The frontiers that remain.                                              *)
LEMMA FrontiersRemain ==
    ASSUME Stored, FrontierPhase, ReceiveFrontier
    PROVE  FrontierPhase'
<1> DEFINE n == Len(toClient)
           m == Len(toClient')
<1>1. /\ toClient # <<>> /\ toClient' = Tail(toClient) /\ toClient[1].info # NoInfo
      /\ client'.at = client.at /\ client'.stack = client.stack
      /\ UNCHANGED <<ours, theirs, gaps, unchecked, server, toServer, quiet>>
  BY FrontierTaken, Zenon
<1>2. /\ n \in Nat /\ n >= 1 /\ m \in Nat /\ n = m + 1
      /\ \A i \in 1..m : i + 1 \in 1..n /\ toClient'[i] = toClient[i + 1]
      /\ \A i \in 1..n : i # 1 => i - 1 \in 1..m /\ toClient'[i - 1] = toClient[i]
  BY <1>1, ClientReads, Zenon
<1>a. n \in Nat /\ n >= 1 /\ m \in Nat /\ n = m + 1
  BY <1>2, Zenon
<1> HIDE DEF n, m
<1>3. FrontierMessages'
  <2> SUFFICES ASSUME NEW i \in 1..m
               PROVE  /\ toClient'[i] \in Frontiers /\ HeadIn(toClient'[i].info, theirs)
                      /\ i < m => toClient'[i].info # NoInfo
    BY <1>1, Zenon DEF FrontierMessages, HeadIn, m
  <2>1. i < m => i + 1 < n
    BY <1>a
  <2>2. \A j \in 1..n : /\ toClient[j] \in Frontiers /\ HeadIn(toClient[j].info, theirs)
                        /\ j < n => toClient[j].info # NoInfo
    BY Zenon DEF FrontierPhase, FrontierMessages, n
  <2> QED
    BY <1>2, <2>1, <2>2, Zenon
<1>4. client'.at = "frontiers" /\ client'.stack = <<>>
  BY <1>1, Zenon DEF FrontierPhase
<1>5. CASE Serves("frontiers", FrontierReq) /\ \A i \in 1..Len(toClient) : toClient[i].info # NoInfo
  <2>1. Serves("frontiers", FrontierReq)'
    BY <1>1, <1>5, Zenon DEF Serves
  <2>2. \A i \in 1..Len(toClient') : toClient'[i].info # NoInfo
    BY <1>2, <1>5, Zenon DEF n, m
  <2> QED
    BY <1>3, <1>4, <2>1, <2>2, Zenon DEF FrontierPhase
<1>6. CASE Answered /\ toClient[Len(toClient)].info = NoInfo
  <2>1. Answered'
    BY <1>1, <1>6, Zenon DEF Answered, Free
  <2>2. n # 1
    BY <1>1, <1>6, Zenon DEF n
  <2>3. n \in 1..n /\ n - 1 = m /\ m # 0
    BY <1>a, <2>2
  <2>4. toClient'[m] = toClient[n]
    BY <1>2, <2>2, <2>3, Zenon
  <2>5. toClient' # <<>>
    BY <2>3, EmptyFacts, Zenon DEF m
  <2>6. (toClient[Len(toClient)])'.info = NoInfo
    BY <1>6, <2>4, Zenon DEF n, m
  <2> QED
    BY <1>3, <1>4, <2>1, <2>5, <2>6, Zenon DEF FrontierPhase
<1> QED
  BY <1>1, <1>5, <1>6, Zenon DEF FrontierPhase

(* The frontiers in the connection are those of the accounts that follow.  *)
LEMMA StreamRemains ==
    ASSUME Stored, FrontierPhase, ReceiveFrontier, NEW lo \in Nat, Stream(lo),
           NEW a \in Nat, a = TheirInfo.account
    PROVE  TheirInfo = From(theirs, lo) /\ Stream(a + 1)'
<1> DEFINE n == Len(toClient)
           m == Len(toClient')
<1>1. /\ toClient # <<>> /\ toClient' = Tail(toClient) /\ TheirInfo = toClient[1].info
      /\ UNCHANGED <<ours, theirs, gaps, unchecked, server, toServer, quiet>>
  BY FrontierTaken, Zenon
<1>2. /\ n \in Nat /\ n >= 1 /\ m \in Nat /\ n = m + 1 /\ 1 \in 1..n
      /\ \A i \in 1..m : i + 1 \in 1..n /\ toClient'[i] = toClient[i + 1]
      /\ \A i \in 1..n : i # 1 => i - 1 \in 1..m /\ toClient'[i - 1] = toClient[i]
  BY <1>1, ClientReads, Zenon
<1>a. n \in Nat /\ n >= 1 /\ m \in Nat /\ n = m + 1
  BY <1>2, Zenon
<1>3. TheirInfo = From(theirs, lo)
  <2>1. Expected(lo, 1) = lo
    BY Zenon DEF Expected
  <2> QED
    BY <1>1, <1>2, <2>1, Zenon DEF Stream
<1> HIDE DEF n, m
<1>4. ASSUME NEW i \in 1..(m + 1) PROVE Expected(a + 1, i)' = Expected(lo, i + 1)
  <2>1. i + 1 # 1 /\ (i + 1) - 1 = i
    BY <1>a
  <2>2. Expected(lo, i + 1) = toClient[i].info.account + 1
    BY <2>1, Zenon DEF Expected
  <2>3. CASE i = 1
    <3>1. Expected(a + 1, i)' = a + 1
      BY <2>3, Zenon DEF Expected
    <3> QED
      BY <1>1, <2>2, <2>3, <3>1, Zenon
  <2>4. CASE i # 1
    <3>1. i \in 1..n
      BY <1>a
    <3>2. toClient'[i - 1] = toClient[i]
      BY <1>2, <2>4, <3>1, Zenon
    <3> QED
      BY <2>2, <2>4, <3>2, Zenon DEF Expected
  <2> QED
    BY <2>3, <2>4
<1>5. ASSUME NEW i \in 1..m PROVE toClient'[i].info = From(theirs, Expected(a + 1, i)')
  <2>1. i \in 1..(m + 1)
    BY <1>a
  <2>2. toClient[i + 1].info = From(theirs, Expected(lo, i + 1))
    BY <1>2, Zenon DEF Stream, n
  <2> QED
    BY <1>2, <1>4, <2>1, <2>2, Zenon
<1>6. server.at = "frontiers" => server.info = From(theirs, Expected(a + 1, Len(toClient) + 1)')
  <2>1. PICK k \in 1..(m + 1) : k = m + 1
    BY <1>a
  <2>2. k + 1 = n + 1
    BY <1>a, <2>1
  <2>3. server.at = "frontiers" => server.info = From(theirs, Expected(lo, n + 1))
    BY Zenon DEF Stream, n
  <2>4. Expected(a + 1, k)' = Expected(lo, n + 1)
    BY <1>4, <2>2, Zenon
  <2>5. (IF k = 1 THEN a + 1 ELSE toClient'[k - 1].info.account + 1) = Expected(lo, n + 1)
    <3> DEFINE e == Expected(lo, n + 1)
    <3>1. Expected(a + 1, k)' = e
      BY <2>4
    <3> HIDE DEF e
    <3>2. (IF k = 1 THEN a + 1 ELSE toClient'[k - 1].info.account + 1) = e
      BY <3>1, Zenon DEF Expected
    <3> QED
      BY <3>2, Zenon DEF e
  <2>6. (IF m + 1 = 1 THEN a + 1 ELSE toClient'[(m + 1) - 1].info.account + 1) = Expected(lo, n + 1)
    BY <2>1, <2>5, Zenon
  <2>7. Expected(a + 1, Len(toClient) + 1)' = Expected(lo, n + 1)
    <3> DEFINE e == Expected(lo, n + 1)
    <3>1. (IF m + 1 = 1 THEN a + 1 ELSE toClient'[(m + 1) - 1].info.account + 1) = e
      BY <2>6
    <3> HIDE DEF e
    <3>2. Expected(a + 1, Len(toClient) + 1)' = e
      BY <3>1, Zenon DEF Expected, m
    <3> QED
      BY <3>2, Zenon DEF e
  <2> QED
    BY <2>3, <2>7, Zenon
<1>7. ~Asked(FrontierReq)'
  <2>1. Serves("frontiers", FrontierReq) \/ Answered
    BY <1>1, Zenon DEF FrontierPhase
  <2>2. toServer = <<>> /\ toServer # <<FrontierReq>> /\ ~Queued(FrontierReq)
    <3>1. toServer = <<>>
      BY <2>1, Zenon DEF Serves, Answered
    <3>2. Serves("frontiers", FrontierReq) => ~Queued(FrontierReq)
      BY DEF Serves, Queued
    <3>3. Answered => ~Queued(FrontierReq)
      BY FreeFacts, Zenon DEF Answered
    <3>4. <<>> # <<FrontierReq>>
      OBVIOUS
    <3> QED
      BY <2>1, <3>1, <3>2, <3>3, <3>4, Zenon
  <2> QED
    BY <1>1, <2>2, Zenon DEF Asked, Queued
<1> QED
  BY <1>1, <1>3, <1>5, <1>6, <1>7, Zenon DEF Stream, m

(* Our entry is the first of ours from their account on, and what is below *)
(* it and not theirs is to be pushed.                                      *)
LEMMA OurInfoFacts ==
    ASSUME Stored, FrontierPhase, ReceiveFrontier, NEW lo \in Nat, Compared(lo),
           NEW a \in Nat, a = TheirInfo.account
    PROVE  /\ OurInfo # NoInfo => /\ OurInfo.account >= a /\ OurInfo.account \in Accounts(ours)
                                  /\ OurInfo.head = Latest(ours, OurInfo.account)
           /\ \A b \in ours \ theirs :
                 OurInfo = NoInfo \/ Chain[b].account < OurInfo.account => b \in unsynced' \/ Disputed(b)
<1> DEFINE c == client.info
           I == OurInfo
           low == {x \in Accounts(ours) : x < a}
<1>1. /\ ours \in Ledgers /\ client \in Client /\ HeadIn(c, ours)
  BY Zenon DEF Stored
<1>2. c \in Info /\ ours \subseteq Hash
  BY <1>1, LedgerFacts DEF Client
<1>3. unsynced' = unsynced \cup ToPush /\ HeadIn(I, ours)
  BY FrontierTaken, Zenon
<1>4. /\ c # NoInfo => c.account >= lo /\ c.head = Latest(ours, c.account)
      /\ \A b \in ours \ theirs : c = NoInfo \/ Chain[b].account < c.account => b \in unsynced \/ Disputed(b)
  BY Zenon DEF Compared
<1>5. \A b \in ours : Chain[b].account \in Accounts(ours) /\ Chain[b].account \in Nat
  BY <1>2, AccountFacts DEF Accounts
<1>6. \A b \in unsynced : b \in unsynced'
  BY <1>3
<1>7. c # NoInfo => c.account \in Nat
  BY <1>2 DEF Info
<1>8. I # NoInfo => I.account \in Accounts(ours)
  BY <1>3, <1>5, Zenon DEF HeadIn
<1>9. CASE Behind
  <2>1. I = From(ours, a)
    BY <1>9, Zenon DEF OurInfo
  <2>2. c # NoInfo /\ c.account < a
    BY <1>9, Zenon DEF Behind
  <2>3. /\ I = NoInfo => \A b \in ours : Chain[b].account < a
        /\ I # NoInfo => /\ I.account >= a /\ I.head = Latest(ours, I.account) /\ I.account \in Nat
                         /\ \A b \in ours : Chain[b].account >= a => I.account <= Chain[b].account
    <3> HIDE DEF I
    <3> QED
      BY <1>1, <2>1, FromFacts
  <2>4. \A b \in ours : Chain[b].account < a /\ c.account <= Chain[b].account => b \in unsynced'
    <3>1. low \in SUBSET Accounts(ours)
      OBVIOUS
    <3>2. \A b \in ours : Chain[b].account \in low /\ c.account <= Chain[b].account => b \in OnlyOurs(low)
      BY <1>1, <1>2, <1>4, <2>2, <3>1, OnlyOursFacts, Zenon
    <3>3. OnlyOurs(low) \subseteq ToPush
      <4> DEFINE A == OnlyOurs(low)
                 B == IF /\ OurInfo.account = TheirInfo.account /\ OurInfo.head # TheirInfo.head
                         /\ TheirInfo.head \in ours
                      THEN Down(OurInfo.head, TheirInfo.head) ELSE {}
      <4>1. ToPush = A \cup B
        BY <1>9, Zenon DEF ToPush
      <4> HIDE DEF A, B
      <4>2. A \subseteq ToPush
        BY <4>1
      <4> QED
        BY <4>2 DEF A
    <3>4. \A b \in ours : Chain[b].account < a => Chain[b].account \in low
      BY <1>5, Zenon
    <3> HIDE DEF low
    <3>5. ToPush \subseteq unsynced'
      BY <1>3
    <3> QED
      BY <3>2, <3>3, <3>4, <3>5, Zenon
  <2> HIDE DEF c, I, low
  <2>5. ASSUME NEW b \in ours \ theirs, I = NoInfo \/ Chain[b].account < I.account
        PROVE  b \in unsynced' \/ Disputed(b)
    <3>1. Chain[b].account < a
      <4>1. Chain[b].account \in Nat
        BY <1>5
      <4>2. CASE I = NoInfo
        BY <2>3, <2>5, <4>2
      <4>3. CASE I # NoInfo
        <5>1. Chain[b].account >= a => I.account <= Chain[b].account
          BY <2>3, <4>3
        <5>2. I.account \in Nat /\ Chain[b].account < I.account
          BY <2>3, <2>5, <4>3, Zenon
        <5> QED
          BY <4>1, <5>1, <5>2
      <4> QED
        BY <4>2, <4>3
    <3>2. Chain[b].account < c.account \/ c.account <= Chain[b].account
      BY <1>5, <1>7, <2>2
    <3> QED
      BY <1>4, <1>6, <2>4, <3>1, <3>2
  <2> QED
    BY <1>8, <2>3, <2>5, Zenon DEF I
<1>10. CASE ~Behind
  <2>1. I = c
    BY <1>10, Zenon DEF OurInfo
  <2>2. c # NoInfo => ~(c.account < a)
    BY <1>10, Zenon DEF Behind
  <2> HIDE DEF c, I, low
  <2>3. c # NoInfo => c.account >= a
    BY <1>7, <2>2
  <2>4. I # NoInfo => I.account >= a /\ I.head = Latest(ours, I.account)
    BY <1>4, <2>1, <2>3, Zenon
  <2>5. \A b \in ours \ theirs : I = NoInfo \/ Chain[b].account < I.account => b \in unsynced' \/ Disputed(b)
    BY <1>4, <1>6, <2>1, Zenon
  <2> QED
    BY <1>8, <2>4, <2>5, Zenon DEF I
<1> QED
  BY <1>9, <1>10, Zenon

(* The accounts up to theirs have been compared.                           *)
LEMMA ComparedRemains ==
    ASSUME Stored, FrontierPhase, ReceiveFrontier, NEW lo \in Nat, Compared(lo),
           TheirInfo = From(theirs, lo), NEW a \in Nat, a = TheirInfo.account
    PROVE  Compared(a + 1)'
<1> DEFINE F == TheirInfo
           I == OurInfo
           R == client'.info
           next == From(ours, a + 1)
<1>1. ours \in Ledgers /\ theirs \in Ledgers /\ ours \subseteq Hash /\ theirs \subseteq Hash
  BY LedgerFacts DEF Stored
<1>2. /\ F # NoInfo /\ HeadIn(I, ours) /\ I \in Info
      /\ unsynced' = unsynced \cup ToPush
      /\ client'.pulls = client.pulls \cup ToPull
      /\ R = IF I.account = a THEN next ELSE I
      /\ UNCHANGED <<ours, theirs>>
  BY FrontierTaken, Zenon
<1>3. /\ I # NoInfo => I.account >= a /\ I.account \in Accounts(ours) /\ I.head = Latest(ours, I.account)
      /\ \A b \in ours \ theirs : I = NoInfo \/ Chain[b].account < I.account => b \in unsynced' \/ Disputed(b)
  BY OurInfoFacts
<1>4. /\ a \in Accounts(theirs) /\ a # 0 /\ F.head = Latest(theirs, a)
      /\ \A b \in theirs : Chain[b].account >= lo => a <= Chain[b].account
  <2>1. F = From(theirs, lo) /\ F.account = a
    BY Zenon
  <2> HIDE DEF F
  <2> QED
    BY <1>1, <1>2, <2>1, FromFacts
<1>5. /\ \A b \in ours : Chain[b].account \in Accounts(ours) /\ Chain[b].account \in Nat
      /\ \A b \in theirs : Chain[b].account \in Nat
  BY <1>1, AccountFacts DEF Accounts
<1>6. I.account = a => I # NoInfo /\ a \in Accounts(ours) /\ I.head = Latest(ours, a)
  <2>1. NoInfo.account = 0
    BY DEF NoInfo
  <2> QED
    BY <1>3, <1>4, <2>1, Zenon
<1>7. /\ next = NoInfo => \A b \in ours : Chain[b].account < a + 1
      /\ next # NoInfo => /\ next.account >= a + 1 /\ next.head = Latest(ours, next.account)
                          /\ next.account \in Nat
                          /\ \A b \in ours : Chain[b].account >= a + 1 => next.account <= Chain[b].account
  <2>1. a + 1 \in Nat /\ next = From(ours, a + 1)
    OBVIOUS
  <2> HIDE DEF next
  <2> QED
    BY <1>1, <2>1, FromFacts
<1>8. I.account \in Nat
  BY <1>2 DEF Info
<1>h. I.account = a =>
        /\ F.head \in ours => \A b \in theirs : Chain[b].account = a => b \in ours
        /\ \A b \in ours \ theirs : Chain[b].account = a =>
              \/ DisputedIn(b, ours \cup theirs)
              \/ F.head \in ours /\ F.head # I.head /\ b \in Down(I.head, F.head)
  <2> SUFFICES ASSUME I.account = a
               PROVE  /\ F.head \in ours => \A b \in theirs : Chain[b].account = a => b \in ours
                      /\ \A b \in ours \ theirs : Chain[b].account = a =>
                            \/ DisputedIn(b, ours \cup theirs)
                            \/ F.head \in ours /\ F.head # I.head /\ b \in Down(I.head, F.head)
    BY Zenon
  <2>1. a \in Accounts(ours) /\ a \in Accounts(theirs)
    BY <1>4, <1>6, Zenon
  <2>2. F.head = Latest(theirs, a) /\ I.head = Latest(ours, a)
    BY <1>4, <1>6, Zenon
  <2>3. /\ Latest(theirs, a) \in ours => \A b \in theirs : Chain[b].account = a => b \in ours
        /\ \A b \in ours \ theirs : Chain[b].account = a =>
              \/ DisputedIn(b, ours \cup theirs)
              \/ /\ Latest(theirs, a) \in ours /\ Latest(theirs, a) # Latest(ours, a)
                 /\ b \in Down(Latest(ours, a), Latest(theirs, a))
    BY <1>1, <2>1, HeadsCompared, Zenon
  <2> QED
    BY <2>2, <2>3, Zenon
<1>d. \A b : Disputed(b)' <=> Disputed(b)
  BY <1>2, DisputedKept
<1> HIDE DEF F, I, R, next
<1>9. R # NoInfo => R.account >= a + 1 /\ R.head = Latest(ours, R.account)
  <2>1. CASE I.account = a
    BY <1>2, <1>7, <2>1, Zenon
  <2>2. CASE I.account # a
    <3>1. I # NoInfo => I.account >= a + 1
      BY <1>3, <1>8, <2>2
    <3> QED
      BY <1>2, <1>3, <2>2, <3>1, Zenon
  <2> QED
    BY <2>1, <2>2
<1>10. ASSUME NEW b \in ours \ theirs, R = NoInfo \/ Chain[b].account < R.account
       PROVE  b \in unsynced' \/ Disputed(b)
  <2>1. CASE I.account # a
    BY <1>2, <1>3, <1>10, <2>1, Zenon
  <2>2. CASE I.account = a
    <3> DEFINE x == Chain[b].account
    <3>1. R = next /\ x \in Nat /\ b \in ours
      BY <1>2, <1>5, <2>2
    <3>2. next = NoInfo \/ x < next.account
      BY <1>10, <3>1, Zenon
    <3>3. next = NoInfo => x < a + 1
      BY <1>7, <3>1, Zenon
    <3>4. next # NoInfo => next.account \in Nat /\ (x >= a + 1 => next.account <= x)
      BY <1>7, <3>1, Zenon
    <3> HIDE DEF x
    <3>5. x < a \/ x = a
      BY <3>1, <3>2, <3>3, <3>4
    <3>6. CASE x < a
      BY <1>3, <2>2, <3>6, Zenon DEF x
    <3>7. CASE x = a
      <4>1. \/ DisputedIn(b, ours \cup theirs)
            \/ F.head \in ours /\ F.head # I.head /\ b \in Down(I.head, F.head)
        BY <1>h, <2>2, <3>7, Zenon DEF x
      <4>2. DisputedIn(b, ours \cup theirs) => Disputed(b)
        BY Zenon DEF DisputedIn, Disputed
      <4>3. F.head \in ours /\ F.head # I.head => Down(I.head, F.head) \subseteq ToPush
        <5> DEFINE A == IF Behind THEN OnlyOurs({y \in Accounts(ours) : y < TheirInfo.account}) ELSE {}
                   B == Down(I.head, F.head)
        <5>1. F.head \in ours /\ F.head # I.head => ToPush = A \cup B
          BY <2>2, Zenon DEF ToPush, F, I
        <5> HIDE DEF A, B
        <5>2. F.head \in ours /\ F.head # I.head => B \subseteq ToPush
          BY <5>1
        <5> QED
          BY <5>2 DEF B
      <4>4. ToPush \subseteq unsynced'
        BY <1>2
      <4> QED
        BY <4>1, <4>2, <4>3, <4>4, Zenon
    <3> QED
      BY <3>5, <3>6, <3>7
  <2> QED
    BY <2>1, <2>2
<1>p. /\ I.account # a => ToPull = {[start |-> a, end |-> NoHash]}
      /\ I.account = a /\ F.head \notin ours => ToPull = {[start |-> a, end |-> I.head]}
      /\ I.account = a /\ F.head \in ours => ToPull = {}
  BY Zenon DEF ToPull, F, I
<1>11. ASSUME NEW b \in theirs \ ours, Chain[b].account < a + 1
       PROVE  \E pull \in client'.pulls : pull.start = Chain[b].account
  <2>1. CASE Chain[b].account < lo
    <3>1. PICK pull \in client.pulls : pull.start = Chain[b].account
      BY <2>1, Zenon DEF Compared
    <3> QED
      BY <1>2, <3>1
  <2>2. CASE ~(Chain[b].account < lo)
    <3>1. Chain[b].account = a
      <4>1. Chain[b].account \in Nat
        BY <1>5
      <4>2. Chain[b].account >= lo
        BY <2>2, <4>1
      <4>3. a <= Chain[b].account
        BY <1>4, <4>2
      <4> QED
        BY <1>11, <4>1, <4>3
    <3>2. ~(I.account = a /\ F.head \in ours)
      BY <1>h, <3>1
    <3>3. \E pull \in ToPull : pull.start = a
      <4>1. \A e : [start |-> a, end |-> e].start = a
        OBVIOUS
      <4>2. \A y : y \in {y}
        OBVIOUS
      <4> QED
        BY <1>p, <3>2, <4>1, <4>2, Zenon
    <3> QED
      BY <1>2, <3>1, <3>3
  <2> QED
    BY <2>1, <2>2
<1>12. ASSUME NEW pull \in client'.pulls PROVE PullOK(pull)
  <2>1. CASE pull \in client.pulls
    BY <2>1, Zenon DEF Compared
  <2>2. CASE pull \in ToPull
    <3>1. /\ pull.start = a
          /\ pull.end # NoHash => I.account = a /\ pull.end = I.head
      BY <1>p, <2>2
    <3>2. I.account = a => I.head \in ours /\ Chain[I.head].account = a
      BY <1>2, <1>6, Zenon DEF HeadIn
    <3> QED
      BY <1>4, <3>1, <3>2, Zenon DEF PullOK
  <2> QED
    BY <1>2, <2>1, <2>2
<1>13. \A pull : PullOK(pull)' <=> PullOK(pull)
  BY <1>2, Zenon DEF PullOK
<1> QED
  BY <1>2, <1>9, <1>10, <1>11, <1>12, <1>13, <1>d, Zenon DEF Compared, R

(* received_frontier keeps the invariant, whichever of the two accounts    *)
(* comes first.                                                            *)
LEMMA ReceiveFrontierStep == ASSUME IndInv, ReceiveFrontier PROVE IndInv'
<1>1. Control /\ Stored /\ FrontierPhase /\ client.at = "frontiers"
  BY PhaseFacts, Zenon DEF IndInv, ReceiveFrontier
<1>2. Stored' /\ FrontierPhase'
  BY <1>1, FrontierTaken, FrontiersRemain, Zenon
<1>3. ASSUME quiet PROVE QuietFrontiers'
  <2>1. PICK lo \in Nat : Stream(lo) /\ Compared(lo)
    BY <1>1, <1>3, Zenon DEF IndInv, Covered, QuietFrontiers
  <2>2. PICK a \in Nat : a = TheirInfo.account
    <3>1. TheirInfo \in Info
      BY <1>1, FrontierTaken, Zenon
    <3> QED
      BY <3>1 DEF Info
  <2>3. TheirInfo = From(theirs, lo) /\ Stream(a + 1)'
    BY <1>1, <2>1, <2>2, StreamRemains, Zenon
  <2>4. Compared(a + 1)'
    BY <1>1, <2>1, <2>2, <2>3, ComparedRemains, Zenon
  <2>5. a + 1 \in Nat
    BY <2>2
  <2> QED
    BY <2>3, <2>4, <2>5, Zenon DEF QuietFrontiers
<1>4. quiet' = quiet
  BY <1>1, FrontierTaken, Zenon
<1>5. Covered'
  <2>1. "frontiers" \notin {"pulling", "processing", "pushing", "done"}
    OBVIOUS
  <2>2. client'.at = "frontiers"
    BY <1>2, Zenon DEF FrontierPhase
  <2> QED
    BY <1>3, <1>4, <2>1, <2>2, Zenon DEF Covered
<1> QED
  BY <1>2, <1>5, Zenon DEF IndInv, Control

(* bulk_pull_client::request: the next chain is asked for, or what was     *)
(* pulled is processed.                                                    *)
LEMMA RequestStep ==
    ASSUME Stored, NEW c \in Client, c.stack = <<>>, HeadIn(c.info, ours), Answered, Request(c),
           toClient' = <<>>, UNCHANGED <<ours, theirs, gaps, server, quiet>>,
           unchecked' \subseteq theirs, unsynced' \subseteq ours,
           quiet => /\ \A pull \in c.pulls : PullOK(pull)
                    /\ \A b \in ours \ theirs : b \in unsynced' \/ Disputed(b)
                    /\ \A b \in theirs \ ours :
                          b \in unchecked' \/ \E pull \in c.pulls : pull.start = Chain[b].account
    PROVE  IndInv'
<1>1. /\ Free /\ toServer = <<>>
  BY Zenon DEF Answered
<1>2. Free' /\ server'.at # "pull"
  BY <1>1, FreeFacts, Zenon DEF Free
<1>3. \A request : Asked(request)' <=> toServer' = <<request>>
  <2>1. server'.at = "finish" => Len(server'.requests) # 2
    BY <1>2 DEF Free
  <2> QED
    BY <1>2, <2>1, Zenon DEF Asked, Queued
<1>4. \A b : Disputed(b)' <=> Disputed(b)
  BY DisputedKept
<1>5. \A pull : PullOK(pull)' <=> PullOK(pull)
  BY Zenon DEF PullOK
<1>6. quiet => PushesCovered'
  BY <1>4, Zenon DEF PushesCovered
<1>7. <<>> \in Seq(Frontiers \cup Blocks) /\ <<>> \in Seq(Requests \cup Blocks) /\ 1..Len(<<>>) = {}
  OBVIOUS
<1>8. ASSUME client' \in Client, client'.info = c.info, toServer' \in Seq(Requests \cup Blocks) PROVE Stored'
  BY <1>7, <1>8, Zenon DEF Stored
<1>9. ASSUME NEW pull \in c.pulls, toServer' = Append(toServer, BulkPull(pull)),
             client' = [c EXCEPT !.at = "pulling", !.pulls = @ \ {pull}]
      PROVE  IndInv'
  <2>1. pull \in Pull /\ c.pulls \ {pull} \in SUBSET Pull
    BY DEF Client
  <2>2. client' \in Client
    BY <1>9, <2>1, Zenon DEF Client, ClientAt
  <2>3. /\ client'.at = "pulling" /\ client'.stack = <<>> /\ client'.info = c.info
        /\ client'.pulls = c.pulls \ {pull}
    BY <1>9, <2>2 DEF Client
  <2>4. BulkPull(pull) \in Requests \cup Blocks
    BY <2>1 DEF Requests
  <2>5. toServer' = <<BulkPull(pull)>> /\ toServer' \in Seq(Requests \cup Blocks)
    <3>1. Append(<<>>, BulkPull(pull)) = <<BulkPull(pull)>>
      OBVIOUS
    <3>2. <<BulkPull(pull)>> \in Seq(Requests \cup Blocks)
      BY <2>4
    <3> QED
      BY <1>1, <1>9, <3>1, <3>2, Zenon
  <2>6. Asked(BulkPull(pull))' /\ \A q : Asked(BulkPull(q))' => q = pull
    <3>1. \A q : <<BulkPull(pull)>> = <<BulkPull(q)>> => BulkPull(pull) = BulkPull(q)
      OBVIOUS
    <3> QED
      BY <1>3, <2>5, <3>1, MessageFacts, Zenon
  <2>7. PullPhase'
    BY <2>1, <2>3, <2>6, Zenon DEF PullPhase
  <2>8. quiet => QuietPulls'
    <3> SUFFICES ASSUME quiet PROVE QuietPulls'
      OBVIOUS
    <3>1. Above'
      BY <1>2, Zenon DEF Above
    <3>2. \A q \in client'.pulls : PullOK(q)'
      BY <1>5, <2>3
    <3>3. \A q \in Pull : Asked(BulkPull(q))' => PullOK(q)'
      BY <1>5, <2>6, Zenon
    <3>4. ASSUME NEW b \in theirs \ ours
          PROVE  \/ b \in unchecked'
                 \/ \E q \in client'.pulls : q.start = Chain[b].account
                 \/ \E q \in Pull : Asked(BulkPull(q))' /\ q.start = Chain[b].account
      <4>1. CASE b \in unchecked'
        BY <4>1
      <4>2. CASE \E q \in c.pulls : q.start = Chain[b].account
        <5>1. PICK q \in c.pulls : q.start = Chain[b].account
          BY <4>2
        <5>2. q = pull \/ q \in client'.pulls
          BY <2>3
        <5> QED
          BY <2>1, <2>6, <5>1, <5>2, Zenon
      <4> QED
        BY <4>1, <4>2, Zenon
    <3> QED
      BY <1>6, <3>1, <3>2, <3>3, <3>4, Zenon DEF QuietPulls
  <2>9. Covered'
    <3>1. "pulling" \notin {"frontiers", "processing", "pushing", "done"}
      OBVIOUS
    <3> QED
      BY <2>3, <2>8, <3>1, Zenon DEF Covered
  <2> QED
    BY <1>8, <2>2, <2>3, <2>5, <2>7, <2>9, Zenon DEF IndInv, Control
<1>10. ASSUME c.pulls = {}, client' = [c EXCEPT !.at = "processing"], toServer' = toServer
       PROVE  IndInv'
  <2>1. client' \in Client
    BY <1>10, Zenon DEF Client, ClientAt
  <2>2. client'.at = "processing" /\ client'.stack = <<>> /\ client'.info = c.info
    BY <1>10, <2>1 DEF Client
  <2>3. ToSet(<<>>) = {} /\ Linked(<<>>)
    BY DEF ToSet, Linked
  <2>4. Answered'
    BY <1>1, <1>2, <1>10, Zenon DEF Answered
  <2>5. ToSet(client'.stack) = {} /\ Linked(client'.stack)
    BY <2>2, <2>3, Zenon
  <2>6. ProcessPhase'
    <3>1. ToSet(client'.stack) \subseteq theirs'
      BY <2>5
    <3>2. Linked(client.stack)'
      BY <2>2, <2>3, <1>7, Zenon DEF Linked
    <3> QED
      BY <2>2, <2>4, <3>1, <3>2, Zenon DEF ProcessPhase
  <2>7. quiet => QuietProcess'
    <3>1. ToSet(client'.stack) \subseteq unchecked'
      BY <2>5
    <3> QED
      BY <1>4, <1>6, <1>10, <3>1, Zenon DEF QuietProcess
  <2>8. Covered'
    <3>1. "processing" \notin {"frontiers", "pulling", "pushing", "done"}
      OBVIOUS
    <3> QED
      BY <2>2, <2>7, <3>1, Zenon DEF Covered
  <2> QED
    BY <1>1, <1>7, <1>8, <1>10, <2>1, <2>2, <2>6, <2>8, Zenon DEF IndInv, Control
<1> QED
  BY <1>9, <1>10, Zenon DEF Request

(* received_frontier at the end of the frontiers.                          *)
LEMMA FrontiersEndStep == ASSUME IndInv, FrontiersEnd PROVE IndInv'
<1> DEFINE c == [client EXCEPT !.info = NoInfo]
           more == IF client.info = NoInfo THEN {} ELSE OnlyOurs(Accounts(ours))
<1>1. Control /\ Stored /\ FrontierPhase /\ client.at = "frontiers"
  BY PhaseFacts, Zenon DEF IndInv, FrontiersEnd
<1>2. /\ toClient # <<>> /\ Head(toClient).info = NoInfo /\ toClient' = Tail(toClient)
      /\ unsynced' = unsynced \cup more /\ Request(c)
      /\ UNCHANGED <<ours, theirs, gaps, unchecked, server, quiet>>
  BY Zenon DEF FrontiersEnd, history
<1>3. /\ ours \in Ledgers /\ theirs \in Ledgers /\ client \in Client /\ HeadIn(client.info, ours)
      /\ unchecked \subseteq theirs /\ unsynced \subseteq ours
  BY <1>1, Zenon DEF Stored
<1>4. /\ Len(toClient) \in Nat /\ Len(toClient) >= 1 /\ Head(toClient) = toClient[1] /\ 1 \in 1..Len(toClient)
      /\ Len(toClient) = Len(toClient') + 1 /\ Len(toClient') \in Nat
  BY <1>1, <1>2, ClientReads, Zenon
<1>5. toClient[1].info = NoInfo
  BY <1>2, <1>4, Zenon
<1>6. Answered /\ toClient' = <<>>
  <2>1. Answered
    BY <1>1, <1>2, <1>4, <1>5, Zenon DEF FrontierPhase
  <2>2. ~(1 < Len(toClient))
    BY <1>1, <1>4, <1>5, Zenon DEF FrontierPhase, FrontierMessages
  <2>3. Len(toClient') = 0
    BY <1>4, <2>2
  <2>4. toClient' \in Seq(Frontiers \cup Blocks)
    BY <1>1, <1>2, TailFacts, Zenon DEF Stored
  <2>5. toClient' = <<>>
    BY <2>3, <2>4, NothingLeft, Zenon
  <2> QED
    BY <2>1, <2>5
<1>7. NoInfo \in Info /\ HeadIn(NoInfo, ours) /\ client.info \in Info
  BY <1>3 DEF NoInfo, Info, HeadIn, Client
<1>8. c \in Client /\ c.stack = <<>> /\ c.info = NoInfo /\ c.pulls = client.pulls
  <2>1. client.stack = <<>>
    BY <1>1, Zenon DEF FrontierPhase
  <2>2. c \in Client
    BY <1>3, <1>7, Zenon DEF Client, ClientAt
  <2> QED
    BY <1>3, <2>1, <2>2 DEF Client
<1> HIDE DEF c
<1>9. client.info # NoInfo =>
        /\ more \subseteq ours
        /\ client.info.head = Latest(ours, client.info.account) =>
              \A b \in ours : client.info.account <= Chain[b].account => b \in more
  <2> SUFFICES ASSUME client.info # NoInfo
               PROVE  /\ OnlyOurs(Accounts(ours)) \subseteq ours
                      /\ client.info.head = Latest(ours, client.info.account) =>
                            \A b \in ours : client.info.account <= Chain[b].account
                                               => b \in OnlyOurs(Accounts(ours))
    BY Zenon
  <2>1. Accounts(ours) \in SUBSET Accounts(ours) /\ \A b \in ours : Chain[b].account \in Accounts(ours)
    BY DEF Accounts
  <2> QED
    BY <1>3, <1>7, <2>1, OnlyOursFacts, Zenon
<1>10. more \subseteq ours
  BY <1>9
<1>m. client.info = NoInfo \/ client.info # NoInfo
  OBVIOUS
<1> HIDE DEF more
<1>11. unsynced' \subseteq ours
  BY <1>2, <1>3, <1>10
<1>12. ASSUME quiet
       PROVE  /\ \A pull \in client.pulls : PullOK(pull)
              /\ \A b \in ours \ theirs : b \in unsynced' \/ Disputed(b)
              /\ \A b \in theirs \ ours : \E pull \in client.pulls : pull.start = Chain[b].account
  <2>1. PICK lo \in Nat : Stream(lo) /\ Compared(lo)
    BY <1>1, <1>12, Zenon DEF IndInv, Covered, QuietFrontiers
  <2>2. From(theirs, lo) = NoInfo
    <3>1. Expected(lo, 1) = lo
      BY Zenon DEF Expected
    <3> QED
      BY <1>4, <1>5, <2>1, <3>1, Zenon DEF Stream
  <2>3. \A b \in theirs : Chain[b].account < lo
    BY <1>3, <2>2, FromFacts
  <2>4. /\ \A pull \in client.pulls : PullOK(pull)
        /\ \A b \in theirs \ ours : \E pull \in client.pulls : pull.start = Chain[b].account
    <3>1. \A b \in theirs \ ours : Chain[b].account < lo
      BY <2>3
    <3> QED
      BY <2>1, <3>1, Zenon DEF Compared
  <2>5. ASSUME NEW b \in ours \ theirs PROVE b \in unsynced' \/ Disputed(b)
    <3>1. \A x \in unsynced \cup more : x \in unsynced'
      BY <1>2
    <3>2. CASE client.info = NoInfo \/ Chain[b].account < client.info.account
      <4>1. b \in unsynced \/ Disputed(b)
        BY <2>1, <3>2, Zenon DEF Compared
      <4> QED
        BY <3>1, <4>1
    <3>3. CASE ~(client.info = NoInfo \/ Chain[b].account < client.info.account)
      <4>1. client.info.head = Latest(ours, client.info.account)
        BY <2>1, <3>3, Zenon DEF Compared
      <4>2. client.info.account \in Nat
        BY <1>7 DEF Info
      <4>3. b \in ours /\ b \in Hash
        BY <1>3, LedgerFacts
      <4>4. Chain[b].account \in Nat
        BY <4>3, AccountFacts
      <4>5. client.info.account <= Chain[b].account
        BY <3>3, <4>2, <4>4
      <4>6. b \in more
        BY <1>9, <3>3, <4>1, <4>3, <4>5, Zenon
      <4> QED
        BY <3>1, <4>6
    <3> QED
      BY <3>2, <3>3
  <2> QED
    BY <2>4, <2>5, Zenon
<1>13. HeadIn(c.info, ours)
  BY <1>7, <1>8, Zenon
<1>14. quiet => /\ \A pull \in c.pulls : PullOK(pull)
                /\ \A b \in ours \ theirs : b \in unsynced' \/ Disputed(b)
                /\ \A b \in theirs \ ours :
                      b \in unchecked' \/ \E pull \in c.pulls : pull.start = Chain[b].account
  BY <1>8, <1>12, Zenon
<1>15. unchecked' \subseteq theirs
  BY <1>2, <1>3
<1> QED
  BY <1>1, <1>2, <1>6, <1>8, <1>11, <1>13, <1>14, <1>15, RequestStep, Zenon

-----------------------------------------------------------------------------
(* The pulls.                                                              *)

(* A chain is sent from its head down.                                     *)
LEMMA OneDown ==
    ASSUME NEW L \in Ledgers, NEW c \in L, NEW e \in Hash \cup {NoHash}, c # e, NEW p, p = Chain[c].previous
    PROVE  /\ p # NoHash => p \in L /\ Chain[p].account = Chain[c].account
           /\ e # NoHash /\ p # NoHash /\ e \in L /\ Chain[e].account = Chain[c].account
                 /\ Height[e] <= Height[c] => Height[e] <= Height[p]
           /\ \A b \in L : /\ b # c /\ Chain[b].account = Chain[c].account /\ Height[b] <= Height[c]
                           /\ e # NoHash => Height[e] < Height[b]
                 => p # NoHash /\ p # e /\ Height[b] <= Height[p]
<1>1. L \subseteq Hash /\ (p # NoHash => p \in L)
  BY LedgerFacts
<1>2. /\ \A b \in Hash : Height[b] \in Nat
      /\ p = NoHash => Height[c] = 0
      /\ p # NoHash => Height[c] = Height[p] + 1 /\ Height[p] \in Nat /\ Chain[p].account = Chain[c].account
  BY <1>1, HeightFacts
<1>3. \A b \in L : b # c /\ Chain[b].account = Chain[c].account /\ Height[b] <= Height[c]
                      => Height[b] < Height[c]
  <2> SUFFICES ASSUME NEW b \in L, b # c, Chain[b].account = Chain[c].account, Height[b] <= Height[c]
               PROVE  Height[b] < Height[c]
    BY Zenon
  <2>1. Height[b] # Height[c]
    BY OneAtHeight, Zenon
  <2>2. Height[b] \in Nat /\ Height[c] \in Nat
    BY <1>1, <1>2
  <2> QED
    BY <2>1, <2>2
<1>4. ASSUME e # NoHash, p # NoHash, e \in L, Chain[e].account = Chain[c].account, Height[e] <= Height[c]
      PROVE  Height[e] <= Height[p]
  <2>1. Height[e] < Height[c] /\ Height[e] \in Nat
    BY <1>1, <1>2, <1>3, <1>4
  <2> QED
    BY <1>2, <1>4, <2>1
<1>5. ASSUME NEW b \in L, b # c, Chain[b].account = Chain[c].account, Height[b] <= Height[c],
             e # NoHash => Height[e] < Height[b]
      PROVE  p # NoHash /\ p # e /\ Height[b] <= Height[p]
  <2>1. Height[b] < Height[c] /\ Height[b] \in Nat
    BY <1>1, <1>2, <1>3, <1>5
  <2>2. p # NoHash
    BY <1>2, <2>1
  <2>3. Height[b] <= Height[p]
    BY <1>2, <2>1, <2>2
  <2>4. p # e
    <3>1. Height[p] \in Nat
      BY <1>2, <2>2
    <3>2. p = e => Height[p] < Height[b]
      BY <1>5, <2>2
    <3> QED
      BY <2>1, <2>3, <3>1, <3>2
  <2> QED
    BY <2>2, <2>3, <2>4
<1> QED
  BY <1>1, <1>2, <1>4, <1>5, Zenon

(* bulk_pull_server::send_next at the end of a chain.                      *)
LEMMA SendEndStep ==
    ASSUME IndInv, SendBlock, server.current = server.end
    PROVE  IndInv'
<1> DEFINE n == Len(toClient)
           m == Len(toClient')
<1>1. /\ Control /\ Stored /\ server.at = "pull" /\ toClient' = Append(toClient, NotABlock)
      /\ server' = [server EXCEPT !.at = "finish", !.current = NoHash, !.end = NoHash]
      /\ UNCHANGED <<ours, theirs, gaps, unchecked, unsynced, client, toServer, quiet>>
  BY Zenon DEF IndInv, Control, SendBlock, tables, history
<1>2. server \in Server /\ toClient \in Seq(Frontiers \cup Blocks) /\ HeadIn(server.info, theirs)
  BY <1>1, Zenon DEF Stored
<1>3. NotABlock \in Frontiers \cup Blocks
  BY DEF Blocks
<1>4. /\ n \in Nat /\ m \in Nat /\ toClient' \in Seq(Frontiers \cup Blocks) /\ toClient' # <<>>
      /\ \A i \in 1..n : i \in 1..m /\ toClient'[i] = toClient[i]
      /\ \A i \in 1..m : \/ i \in 1..n /\ toClient'[i] = toClient[i] /\ i < m
                         \/ i = m /\ toClient'[i] = NotABlock
  <2>1. toClient' = Append(toClient, NotABlock)
    BY <1>1, Zenon
  <2> QED
    BY <1>2, <1>3, <2>1, SentFacts
<1>5. server' \in Server
  <2>1. NoHash \in Hash \cup {NoHash}
    OBVIOUS
  <2> QED
    BY <1>1, <1>2, <2>1, Zenon DEF Server, ServerAt
<1>6. /\ server'.at = "finish" /\ server'.requests = server.requests /\ server'.reading = server.reading
      /\ server'.info = server.info
  <2>1. server' = [server EXCEPT !.at = "finish", !.current = NoHash, !.end = NoHash]
    BY <1>1, Zenon
  <2> QED
    BY <1>2, <1>5, <2>1 DEF Server
<1>7. PullPhase /\ ~Free /\ \A request : ~Queued(request)
  <2>1. PullPhase
    BY <1>1, PhaseFacts, Zenon
  <2>2. "pull" # "finish"
    OBVIOUS
  <2> QED
    BY <1>1, <2>1, <2>2, FreeFacts, Zenon DEF Queued
<1>8. PICK pull \in Pull : Serves("pull", BulkPull(pull)) /\ BlocksThenEnd(FALSE)
  BY <1>7, Zenon DEF PullPhase, Asked, Answered
<1>9. server.requests = <<BulkPull(pull)>> /\ server.reading /\ toServer = <<>>
  BY <1>8, Zenon DEF Serves
<1>10. Len(server'.requests) = 1
  BY <1>6, <1>9, OneFacts, Zenon
<1>11. Answered'
  BY <1>1, <1>6, <1>9, <1>10, Zenon DEF Answered, Free
<1> HIDE DEF n, m
<1>12. BlocksThenEnd(TRUE)'
  <2> SUFFICES ASSUME NEW i \in 1..m
               PROVE  \/ (\E b \in theirs : toClient'[i] = BlockMessage(b)) /\ i < m
                      \/ toClient'[i] = NotABlock /\ i = m
    BY <1>1, Zenon DEF BlocksThenEnd, m
  <2> QED
    BY <1>4, <1>8, Zenon DEF BlocksThenEnd, n
<1>13. PullPhase'
  BY <1>1, <1>4, <1>7, <1>11, <1>12, Zenon DEF PullPhase
<1>14. ASSUME quiet PROVE QuietPulls'
  <2>1. QuietPulls
    BY <1>7, <1>14, Zenon DEF IndInv, Covered, PullPhase
  <2>2. \A b : Disputed(b)' <=> Disputed(b)
    BY <1>1, DisputedKept
  <2>3. PushesCovered'
    BY <1>1, <2>1, <2>2, Zenon DEF QuietPulls, PushesCovered
  <2>4. "finish" # "pull" /\ 1 # 2 /\ \A r : <<>> # <<r>>
    OBVIOUS
  <2>5. Above'
    BY <1>6, <2>4, Zenon DEF Above
  <2>6. \A pull1 \in client'.pulls : PullOK(pull1)'
    BY <1>1, <2>1, Zenon DEF QuietPulls, PullOK
  <2>7. \A r : ~Asked(r)' /\ ~Asked(r)
    BY <1>1, <1>7, <1>9, <1>10, <2>4, Zenon DEF Asked, Queued
  <2>8. \A b : ~ToCome(b)
    BY Zenon DEF ToCome
  <2>9. \A b \in theirs \ ours : \/ b \in unchecked
                                 \/ \E q \in client.pulls : q.start = Chain[b].account
                                 \/ \E i \in 1..m : toClient'[i] = BlockMessage(b)
    BY <1>4, <2>1, <2>7, <2>8, Zenon DEF QuietPulls, n
  <2> QED
    BY <1>1, <2>3, <2>5, <2>6, <2>7, <2>9, Zenon DEF QuietPulls, m
<1>15. Stored'
  BY <1>1, <1>2, <1>4, <1>5, <1>6, Zenon DEF Stored
<1>16. Covered'
  <2>1. "pulling" \notin {"frontiers", "processing", "pushing", "done"}
    OBVIOUS
  <2>2. client'.at = "pulling"
    BY <1>13, Zenon DEF PullPhase
  <2> QED
    BY <1>1, <1>14, <2>1, <2>2, Zenon DEF Covered
<1> QED
  BY <1>13, <1>15, <1>16, Zenon DEF IndInv, Control

(* send_next of a block, and get_next.                                     *)
LEMMA SendOneStep ==
    ASSUME IndInv, SendBlock, server.current # server.end
    PROVE  IndInv'
<1> DEFINE n == Len(toClient)
           m == Len(toClient')
           c == server.current
           e == server.end
           p == Chain[c].previous
<1>1. /\ Control /\ Stored /\ server.at = "pull" /\ toClient' = Append(toClient, BlockMessage(c))
      /\ server' = IF p # NoHash THEN [server EXCEPT !.current = p] ELSE [server EXCEPT !.end = c]
      /\ UNCHANGED <<ours, theirs, gaps, unchecked, unsynced, client, toServer, quiet>>
  BY Zenon DEF IndInv, Control, SendBlock, tables, history
<1>2. server \in Server /\ toClient \in Seq(Frontiers \cup Blocks) /\ HeadIn(server.info, theirs)
      /\ theirs \in Ledgers
  BY <1>1, Zenon DEF Stored
<1>3. PullPhase /\ ~Free /\ \A request : ~Queued(request)
  <2>1. PullPhase
    BY <1>1, PhaseFacts, Zenon
  <2>2. "pull" # "finish"
    OBVIOUS
  <2> QED
    BY <1>1, <2>1, <2>2, FreeFacts, Zenon DEF Queued
<1>4. PICK pull \in Pull : Serves("pull", BulkPull(pull)) /\ BlocksThenEnd(FALSE) /\ Sending
  BY <1>3, Zenon DEF PullPhase, Asked, Answered
<1>5. c \in theirs /\ c \in Hash /\ e \in Hash \cup {NoHash} /\ c # e
  <2>1. c \in theirs
    BY <1>4, Zenon DEF Sending
  <2>2. e \in Hash \cup {NoHash}
    BY <1>2 DEF Server
  <2> QED
    BY <1>2, <2>1, <2>2, LedgerFacts
<1>6. BlockMessage(c) \in Frontiers \cup Blocks
  BY <1>5 DEF Blocks
<1>7. /\ n \in Nat /\ m \in Nat /\ toClient' \in Seq(Frontiers \cup Blocks)
      /\ m \in 1..m /\ toClient'[m] = BlockMessage(c)
      /\ \A i \in 1..n : i \in 1..m /\ toClient'[i] = toClient[i]
      /\ \A i \in 1..m : \/ i \in 1..n /\ toClient'[i] = toClient[i] /\ i < m
                         \/ i = m /\ toClient'[i] = BlockMessage(c)
  <2>1. toClient' = Append(toClient, BlockMessage(c))
    BY <1>1, Zenon
  <2> QED
    BY <1>2, <1>6, <2>1, SentFacts
<1> HIDE DEF n, m, c, e, p
<1>8. /\ p # NoHash => p \in theirs /\ Chain[p].account = Chain[c].account
      /\ e # NoHash /\ p # NoHash /\ e \in theirs /\ Chain[e].account = Chain[c].account
            /\ Height[e] <= Height[c] => Height[e] <= Height[p]
      /\ \A b \in theirs : /\ b # c /\ Chain[b].account = Chain[c].account /\ Height[b] <= Height[c]
                           /\ e # NoHash => Height[e] < Height[b]
            => p # NoHash /\ p # e /\ Height[b] <= Height[p]
  <2>1. p = Chain[c].previous
    BY DEF p
  <2>2. theirs \in Ledgers
    BY <1>2
  <2> QED
    BY <1>5, <2>1, <2>2, OneDown
<1>9. /\ server' \in Server /\ server'.at = "pull" /\ server'.requests = server.requests
      /\ server'.reading = server.reading /\ server'.info = server.info
      /\ p # NoHash => server'.current = p /\ server'.end = e
      /\ p = NoHash => server'.current = c /\ server'.end = c
  <2>1. CASE p # NoHash
    <3>1. server' = [server EXCEPT !.current = p]
      BY <1>1, <2>1, Zenon
    <3>2. p \in Hash \cup {NoHash}
      BY <1>2, <1>8, <2>1, LedgerFacts
    <3>3. server' \in Server
      BY <1>2, <3>1, <3>2, Zenon DEF Server, ServerAt
    <3>4. /\ server'.at = server.at /\ server'.requests = server.requests /\ server'.reading = server.reading
          /\ server'.info = server.info /\ server'.current = p /\ server'.end = server.end
      BY <1>2, <3>1, <3>3 DEF Server
    <3> QED
      BY <1>1, <2>1, <3>3, <3>4, Zenon DEF e
  <2>2. CASE p = NoHash
    <3>1. server' = [server EXCEPT !.end = c]
      BY <1>1, <2>2, Zenon
    <3>2. c \in Hash \cup {NoHash}
      BY <1>5
    <3>3. server' \in Server
      BY <1>2, <3>1, <3>2, Zenon DEF Server, ServerAt
    <3>4. /\ server'.at = server.at /\ server'.requests = server.requests /\ server'.reading = server.reading
          /\ server'.info = server.info /\ server'.current = server.current /\ server'.end = c
      BY <1>2, <3>1, <3>3 DEF Server
    <3> QED
      BY <1>1, <2>2, <3>3, <3>4, Zenon DEF c
  <2> QED
    BY <2>1, <2>2
<1>10. Serves("pull", BulkPull(pull))'
  BY <1>1, <1>4, <1>9, Zenon DEF Serves
<1>t. theirs' = theirs
  BY <1>1, Zenon
<1>11. Sending'
  <2>1. server'.current = server'.end \/ server'.current \in theirs
    BY <1>8, <1>9
  <2> QED
    BY <1>t, <2>1, Zenon DEF Sending
<1>12. BlocksThenEnd(FALSE)'
  <2> SUFFICES ASSUME NEW i \in 1..m PROVE \E b \in theirs : toClient'[i] = BlockMessage(b)
    BY <1>1, Zenon DEF BlocksThenEnd, m
  <2> QED
    BY <1>4, <1>5, <1>7, Zenon DEF BlocksThenEnd, n
<1>13. PullPhase'
  BY <1>1, <1>3, <1>10, <1>11, <1>12, Zenon DEF PullPhase
<1>14. ASSUME quiet PROVE QuietPulls'
  <2>1. QuietPulls
    BY <1>3, <1>14, Zenon DEF IndInv, Covered, PullPhase
  <2>2. \A b : Disputed(b)' <=> Disputed(b)
    BY <1>1, DisputedKept
  <2>3. PushesCovered'
    BY <1>1, <2>1, <2>2, Zenon DEF QuietPulls, PushesCovered
  <2>4. Above'
    <3>1. e # NoHash => /\ e \in theirs /\ Chain[e].account = Chain[c].account /\ Height[e] <= Height[c]
      BY <1>1, <2>1, Zenon DEF QuietPulls, Above, e, c
    <3>2. Height[c] <= Height[c]
      BY <1>5, HeightFacts
    <3>3. CASE p # NoHash
      <4>1. server'.current = p /\ server'.end = e
        BY <1>9, <3>3, Zenon
      <4>2. e # NoHash => p \in theirs /\ Chain[e].account = Chain[p].account /\ Height[e] <= Height[p]
        BY <1>8, <3>1, <3>3, Zenon
      <4> QED
        BY <1>t, <3>1, <4>1, <4>2, Zenon DEF Above
    <3>4. CASE p = NoHash
      <4>1. server'.current = c /\ server'.end = c
        BY <1>9, <3>4, Zenon
      <4> QED
        BY <1>t, <1>5, <3>2, <4>1, Zenon DEF Above
    <3> QED
      BY <3>3, <3>4, Zenon
  <2>5. \A q \in client'.pulls : PullOK(q)'
    BY <1>1, <2>1, Zenon DEF QuietPulls, PullOK
  <2>6. \A r : ~Asked(r)' /\ ~Asked(r)
    <3>1. "finish" # "pull" /\ \A r : <<>> # <<r>>
      OBVIOUS
    <3>2. server'.at = "pull" /\ toServer' = <<>>
      BY <1>10, Zenon DEF Serves
    <3>3. toServer = <<>>
      BY <1>4, Zenon DEF Serves
    <3> QED
      BY <1>3, <3>1, <3>2, <3>3, Zenon DEF Asked, Queued
  <2>7. ASSUME NEW b \in theirs \ ours, ToCome(b)
        PROVE  ToCome(b)' \/ \E i \in 1..m : toClient'[i] = BlockMessage(b)
    <3>1. CASE b = c
      BY <1>7, <3>1, Zenon
    <3>2. CASE b # c
      <4>1. /\ Chain[b].account = Chain[c].account /\ Height[b] <= Height[c]
            /\ e # NoHash => Height[e] < Height[b]
        BY <2>7, Zenon DEF ToCome, e, c
      <4>2. p # NoHash /\ p # e /\ Height[b] <= Height[p]
        BY <1>8, <3>2, <4>1
      <4>3. Chain[b].account = Chain[p].account
        BY <1>8, <4>1, <4>2, Zenon
      <4>4. server'.at = "pull" /\ server'.current = p /\ server'.end = e
        BY <1>9, <4>2, Zenon
      <4>5. ToCome(b)'
        BY <4>1, <4>2, <4>3, <4>4, Zenon DEF ToCome
      <4> QED
        BY <4>5
    <3> QED
      BY <3>1, <3>2
  <2>8. \A b \in theirs \ ours : \/ b \in unchecked
                                 \/ \E q \in client.pulls : q.start = Chain[b].account
                                 \/ ToCome(b)'
                                 \/ \E i \in 1..m : toClient'[i] = BlockMessage(b)
    BY <1>7, <2>1, <2>6, <2>7, Zenon DEF QuietPulls, n
  <2> QED
    BY <1>1, <2>3, <2>4, <2>5, <2>6, <2>8, Zenon DEF QuietPulls, m
<1>15. Stored'
  BY <1>1, <1>2, <1>7, <1>9, Zenon DEF Stored
<1>16. Covered'
  <2>1. "pulling" \notin {"frontiers", "processing", "pushing", "done"}
    OBVIOUS
  <2>2. client'.at = "pulling"
    BY <1>13, Zenon DEF PullPhase
  <2> QED
    BY <1>1, <1>14, <2>1, <2>2, Zenon DEF Covered
<1> QED
  BY <1>13, <1>15, <1>16, Zenon DEF IndInv, Control

(* The chain that was asked for has come.                                  *)
LEMMA ChainEndsStep ==
    ASSUME IndInv, ReceivePull, Head(toClient) = NotABlock
    PROVE  IndInv'
<1>1. Control /\ Stored /\ PullPhase /\ client.at = "pulling"
  BY PhaseFacts, Zenon DEF IndInv, ReceivePull
<1>2. /\ toClient # <<>> /\ toClient' = Tail(toClient) /\ Request(client)
      /\ UNCHANGED <<ours, theirs, gaps, unchecked, unsynced, server, quiet>>
  BY Zenon DEF ReceivePull, history
<1>3. /\ client \in Client /\ HeadIn(client.info, ours) /\ unchecked \subseteq theirs /\ unsynced \subseteq ours
  BY <1>1, Zenon DEF Stored
<1>4. /\ Len(toClient) \in Nat /\ Len(toClient) >= 1 /\ Head(toClient) = toClient[1] /\ 1 \in 1..Len(toClient)
      /\ Len(toClient) = Len(toClient') + 1 /\ Len(toClient') \in Nat
  BY <1>1, <1>2, ClientReads, Zenon
<1>5. toClient[1] = NotABlock /\ \A b : toClient[1] # BlockMessage(b)
  BY <1>4, MessageFacts, Zenon
<1>6. Answered /\ 1 = Len(toClient) /\ client.stack = <<>>
  BY <1>1, <1>2, <1>4, <1>5, Zenon DEF PullPhase, BlocksThenEnd
<1>7. toClient' = <<>>
  <2>1. Len(toClient') = 0
    BY <1>4, <1>6
  <2>2. toClient' \in Seq(Frontiers \cup Blocks)
    BY <1>1, <1>2, TailFacts, Zenon DEF Stored
  <2> QED
    BY <2>1, <2>2, NothingLeft, Zenon
<1>8. ASSUME quiet
      PROVE  /\ \A pull \in client.pulls : PullOK(pull)
             /\ \A b \in ours \ theirs : b \in unsynced \/ Disputed(b)
             /\ \A b \in theirs \ ours :
                   b \in unchecked \/ \E pull \in client.pulls : pull.start = Chain[b].account
  <2>1. QuietPulls
    BY <1>1, <1>8, Zenon DEF IndInv, Covered
  <2>2. \A r : ~Asked(r)
    <3>1. Free /\ toServer = <<>> /\ \A r : <<>> # <<r>>
      BY <1>6 DEF Answered
    <3> QED
      BY <3>1, FreeFacts, Zenon
  <2>3. \A b : ~ToCome(b)
    BY <1>6, FreeFacts, Zenon DEF Answered, ToCome
  <2>4. \A i \in 1..Len(toClient) : i = 1
    <3>1. \A i \in 1..1 : i = 1
      OBVIOUS
    <3> QED
      BY <1>6, <3>1, Zenon
  <2>5. \A b : ~\E i \in 1..Len(toClient) : toClient[i] = BlockMessage(b)
    BY <1>5, <2>4, Zenon
  <2> QED
    BY <2>1, <2>2, <2>3, <2>5, Zenon DEF QuietPulls, PushesCovered
<1>9. unchecked' \subseteq theirs /\ unsynced' \subseteq ours
  BY <1>2, <1>3
<1>10. quiet => /\ \A pull \in client.pulls : PullOK(pull)
                /\ \A b \in ours \ theirs : b \in unsynced' \/ Disputed(b)
                /\ \A b \in theirs \ ours :
                      b \in unchecked' \/ \E pull \in client.pulls : pull.start = Chain[b].account
  BY <1>2, <1>8, Zenon
<1> QED
  BY <1>1, <1>2, <1>3, <1>6, <1>7, <1>9, <1>10, RequestStep, Zenon

(* bulk_pull_client::received_block.                                       *)
LEMMA BlockPulledStep ==
    ASSUME IndInv, ReceivePull, Head(toClient) # NotABlock
    PROVE  IndInv'
<1> DEFINE n == Len(toClient)
           m == Len(toClient')
<1>1. Control /\ Stored /\ PullPhase /\ client.at = "pulling"
  BY PhaseFacts, Zenon DEF IndInv, ReceivePull
<1>2. /\ toClient # <<>> /\ toClient' = Tail(toClient)
      /\ unchecked' = unchecked \cup {Head(toClient).block}
      /\ UNCHANGED <<ours, theirs, gaps, unsynced, client, server, toServer, quiet>>
  BY Zenon DEF ReceivePull, history
<1>3. /\ n \in Nat /\ n >= 1 /\ m \in Nat /\ n = m + 1 /\ Head(toClient) = toClient[1] /\ 1 \in 1..n
      /\ \A i \in 1..m : i + 1 \in 1..n /\ toClient'[i] = toClient[i + 1]
      /\ \A i \in 1..n : i # 1 => i - 1 \in 1..m /\ toClient'[i - 1] = toClient[i]
  BY <1>1, <1>2, ClientReads, Zenon
<1>a. n \in Nat /\ n >= 1 /\ m \in Nat /\ n = m + 1
  BY <1>3, Zenon
<1>4. \/ \E pull \in Pull : Serves("pull", BulkPull(pull)) /\ BlocksThenEnd(FALSE) /\ Sending
      \/ Answered /\ BlocksThenEnd(TRUE)
  BY <1>1, <1>2, Zenon DEF PullPhase
<1>5. PICK x \in theirs : toClient[1] = BlockMessage(x)
  BY <1>3, <1>4, Zenon DEF BlocksThenEnd
<1>6. unchecked' = unchecked \cup {x}
  BY <1>2, <1>3, <1>5, MessageFacts, Zenon
<1>7. Stored'
  <2>1. unchecked' \subseteq theirs
    BY <1>1, <1>6 DEF Stored
  <2>2. toClient' \in Seq(Frontiers \cup Blocks)
    BY <1>1, <1>2, TailFacts, Zenon DEF Stored
  <2> QED
    BY <1>1, <1>2, <2>1, <2>2, Zenon DEF Stored
<1> HIDE DEF n, m
<1>8. ASSUME NEW ended \in BOOLEAN, BlocksThenEnd(ended)
      PROVE  BlocksThenEnd(ended)' /\ (ended => toClient' # <<>>)
  <2>1. BlocksThenEnd(ended)'
    <3> SUFFICES ASSUME NEW i \in 1..m
                 PROVE  \/ (\E b \in theirs : toClient'[i] = BlockMessage(b)) /\ (ended => i < m)
                        \/ toClient'[i] = NotABlock /\ ended /\ i = m
      BY <1>2, Zenon DEF BlocksThenEnd, m
    <3>1. PICK k \in 1..n : k = i + 1 /\ toClient'[i] = toClient[k]
      BY <1>3, Zenon
    <3>2. (k < n <=> i < m) /\ (k = n <=> i = m)
      BY <1>a, <3>1
    <3>3. \/ (\E b \in theirs : toClient[k] = BlockMessage(b)) /\ (ended => k < n)
          \/ toClient[k] = NotABlock /\ ended /\ k = n
      BY <1>8, Zenon DEF BlocksThenEnd, n
    <3> QED
      BY <3>1, <3>2, <3>3, Zenon
  <2>2. ASSUME ended PROVE toClient' # <<>>
    <3>1. 1 < n
      BY <1>3, <1>5, <1>8, <2>2, MessageFacts, Zenon DEF BlocksThenEnd, n
    <3>2. m # 0
      BY <1>a, <3>1
    <3> QED
      BY <3>2, EmptyFacts, Zenon DEF m
  <2> QED
    BY <2>1, <2>2, Zenon
<1>9. PullPhase'
  <2>1. client'.at = "pulling" /\ client'.stack = <<>>
    BY <1>1, <1>2, Zenon DEF PullPhase
  <2>2. CASE \E pull \in Pull : Serves("pull", BulkPull(pull)) /\ BlocksThenEnd(FALSE) /\ Sending
    <3>1. BlocksThenEnd(FALSE)'
      BY <1>8, <2>2, Zenon
    <3>2. \E pull \in Pull : Serves("pull", BulkPull(pull))' /\ BlocksThenEnd(FALSE)' /\ Sending'
      BY <1>2, <2>2, <3>1, Zenon DEF Serves, Sending
    <3> QED
      BY <2>1, <3>2, Zenon DEF PullPhase
  <2>3. CASE Answered /\ BlocksThenEnd(TRUE)
    <3>1. BlocksThenEnd(TRUE)' /\ toClient' # <<>>
      BY <1>8, <2>3, Zenon
    <3>2. Answered'
      BY <1>2, <2>3, Zenon DEF Answered, Free
    <3> QED
      BY <2>1, <3>1, <3>2, Zenon DEF PullPhase
  <2> QED
    BY <1>4, <2>2, <2>3, Zenon
<1>10. ASSUME quiet PROVE QuietPulls'
  <2>1. QuietPulls
    BY <1>1, <1>10, Zenon DEF IndInv, Covered
  <2>2. \A b : Disputed(b)' <=> Disputed(b)
    BY <1>2, DisputedKept
  <2>3. PushesCovered'
    BY <1>2, <2>1, <2>2, Zenon DEF QuietPulls, PushesCovered
  <2>4. Above'
    BY <1>2, <2>1, Zenon DEF QuietPulls, Above
  <2>5. \A q : PullOK(q)' <=> PullOK(q)
    BY <1>2, Zenon DEF PullOK
  <2>6. \A r : Asked(r)' <=> Asked(r)
    BY <1>2, Zenon DEF Asked, Free, Queued
  <2>7. \A b : ToCome(b)' <=> ToCome(b)
    BY <1>2, Zenon DEF ToCome
  <2>8. x \in unchecked' /\ \A b \in unchecked : b \in unchecked'
    BY <1>6
  <2>9. ASSUME NEW b, NEW i \in 1..n, toClient[i] = BlockMessage(b)
        PROVE  b \in unchecked' \/ \E j \in 1..m : toClient'[j] = BlockMessage(b)
    <3>1. CASE i = 1
      BY <1>5, <2>8, <2>9, <3>1, MessageFacts, Zenon
    <3>2. CASE i # 1
      BY <1>3, <2>9, <3>2, Zenon
    <3> QED
      BY <3>1, <3>2
  <2>10. \A q \in client'.pulls : PullOK(q)'
    BY <1>2, <2>1, <2>5, Zenon DEF QuietPulls
  <2>11. \A q \in Pull : Asked(BulkPull(q))' => PullOK(q)'
    BY <2>1, <2>5, <2>6, Zenon DEF QuietPulls
  <2>12. ASSUME NEW b \in theirs \ ours
         PROVE  \/ b \in unchecked'
                \/ \E q \in client.pulls : q.start = Chain[b].account
                \/ \E q \in Pull : Asked(BulkPull(q))' /\ q.start = Chain[b].account
                \/ ToCome(b)'
                \/ \E i \in 1..m : toClient'[i] = BlockMessage(b)
    <3>1. \/ b \in unchecked
          \/ \E q \in client.pulls : q.start = Chain[b].account
          \/ \E q \in Pull : Asked(BulkPull(q)) /\ q.start = Chain[b].account
          \/ ToCome(b)
          \/ \E i \in 1..n : toClient[i] = BlockMessage(b)
      BY <2>1, Zenon DEF QuietPulls, n
    <3> QED
      BY <2>6, <2>7, <2>8, <2>9, <3>1, Zenon
  <2> QED
    BY <1>2, <2>3, <2>4, <2>10, <2>11, <2>12, Zenon DEF QuietPulls, m
<1>11. Covered'
  <2>1. "pulling" \notin {"frontiers", "processing", "pushing", "done"}
    OBVIOUS
  <2>2. client'.at = "pulling"
    BY <1>9, Zenon DEF PullPhase
  <2> QED
    BY <1>2, <1>10, <2>1, <2>2, Zenon DEF Covered
<1> QED
  BY <1>7, <1>9, <1>11, Zenon DEF IndInv, Control
=============================================================================
