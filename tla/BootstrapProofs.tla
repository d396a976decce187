--------------------------- MODULE BootstrapProofs ---------------------------
(***************************************************************************)
(* The second half of a bootstrap session, in which the client stores what *)
(* it pulled and pushes what the server lacks, and the theorems: a session *)
(* during which nothing arrives leaves two nodes with the same blocks, but *)
(* for those that descend from a fork.                                     *)
(***************************************************************************)
EXTENDS BootstrapPulls

-----------------------------------------------------------------------------
(* What was pulled is processed, and the rest is pushed.                   *)

(* What the two synchronizations retrieve and what they need not.          *)
LEMMA SyncFacts ==
    /\ \A P \in SUBSET Hash, L \in Ledgers :
          /\ PullSync(P, L) \in Syncs
          /\ PullSync(P, L).retrieves = P /\ PullSync(P, L).synchronized = L
    /\ \A T \in SUBSET Hash :
          /\ PushSync(T) \in Syncs
          /\ PushSync(T).retrieves = Hash /\ PushSync(T).synchronized = Hash \ T
<1>1. /\ \A P \in SUBSET Hash, L \in Ledgers : PullSync(P, L) \in Syncs
      /\ \A T \in SUBSET Hash : PushSync(T) \in Syncs
  BY DEF Syncs
<1>2. \A P, L : PullSync(P, L).retrieves = P /\ PullSync(P, L).synchronized = L
  BY DEF PullSync
<1>3. \A T : PushSync(T).retrieves = Hash /\ PushSync(T).synchronized = Hash \ T
  BY DEF PushSync
<1> QED
  BY <1>1, <1>2, <1>3, Zenon

(* The client with another stack.                                          *)
LEMMA StackFacts ==
    ASSUME NEW c \in Client, NEW s \in Seq(Hash)
    PROVE  /\ [c EXCEPT !.stack = s] \in Client
           /\ [c EXCEPT !.stack = s].stack = s /\ [c EXCEPT !.stack = s].at = c.at
           /\ [c EXCEPT !.stack = s].info = c.info /\ [c EXCEPT !.stack = s].pulls = c.pulls
<1>1. [c EXCEPT !.stack = s] \in Client
  BY Zenon DEF Client, ClientAt
<1> QED
  BY <1>1, Zenon DEF Client

(* process_end: one block is processed, or all that waits for one that is  *)
(* not there is thrown away.                                               *)
LEMMA ProcessOneStep ==
    ASSUME IndInv, client.at = "processing", NEW start \in Seq(Hash), start # <<>>, Linked(start),
           ToSet(start) \subseteq theirs, quiet => ToSet(start) \subseteq unchecked, ProcessOne(start),
           UNCHANGED <<theirs, gaps, unsynced, server, toServer, toClient, quiet>>
    PROVE  /\ IndInv'
           /\ quiet => \A b \in unchecked \ unchecked' : b \in ours' \/ Disputed(b)
<1> DEFINE sync == PullSync(unchecked, ours)
           r == Front(start) \o Fill(Last(start), sync)
           top == Last(r)
<1>1. Control /\ Stored /\ ProcessPhase
  BY PhaseFacts, Zenon DEF IndInv
<1>2. /\ ours \in Ledgers /\ theirs \in Ledgers /\ unchecked \subseteq theirs /\ unsynced \subseteq ours
      /\ gaps \subseteq ours /\ client \in Client /\ HeadIn(client.info, ours)
      /\ ours \subseteq Hash /\ theirs \subseteq Hash
  BY <1>1, LedgerFacts DEF Stored
<1>3. sync \in Syncs /\ sync.retrieves = unchecked /\ sync.synchronized = ours
  <2>1. unchecked \in SUBSET Hash /\ ours \in Ledgers
    BY <1>2
  <2> QED
    BY <2>1, SyncFacts, Zenon
<1>4. /\ r \in Seq(Hash) /\ r # <<>> /\ Linked(r) /\ ToSet(start) \subseteq ToSet(r)
      /\ ToSet(Front(r)) \subseteq ToSet(start) \cup unchecked
      /\ top \notin unchecked \/ Dependencies(top) \subseteq ours
      /\ top \in ToSet(start) \/ \E y \in unchecked : top \in Dependencies(y) \ ours
      /\ ToSet(r) \subseteq theirs
  <2> HIDE DEF sync
  <2>1. /\ r \in Seq(Hash) /\ r # <<>> /\ Linked(r) /\ ToSet(start) \subseteq ToSet(r)
        /\ ToSet(Front(r)) \subseteq ToSet(start) \cup sync.retrieves
        /\ Last(r) \notin sync.retrieves \/ Dependencies(Last(r)) \subseteq sync.synchronized
        /\ \/ Last(r) \in ToSet(start)
           \/ \E y \in sync.retrieves : Last(r) \in Dependencies(y) \ sync.synchronized
        /\ \A L \in Ledgers : ToSet(start) \subseteq L => ToSet(r) \subseteq L
    BY <1>3, FilledFacts, Zenon
  <2> QED
    BY <1>2, <1>3, <2>1, Zenon
<1>5. /\ top \in unchecked => /\ ours' = Processed(ours, top) /\ unchecked' = unchecked \ {top}
                              /\ client' = [client EXCEPT !.stack = Front(r)]
      /\ top \notin unchecked => /\ ours' = ours /\ unchecked' = unchecked \ ToSet(r)
                                 /\ client' = [client EXCEPT !.stack = <<>>]
  BY Zenon DEF ProcessOne, FillPull
<1> HIDE DEF sync, r
<1>6. /\ Front(r) \in Seq(Hash) /\ Linked(Front(r)) /\ top \in Hash
      /\ ToSet(r) = ToSet(Front(r)) \cup {top}
      /\ \A b \in ToSet(Front(r)) : Depth[top] < Depth[b]
      /\ \A b \in ToSet(r) : Ancestry[top] \subseteq Ancestry[b]
  BY <1>4, LinkedFacts, Zenon
<1>7. top \in theirs
  BY <1>4, <1>6
<1> HIDE DEF top
<1>8. <<>> \in Seq(Hash) /\ ToSet(<<>>) = {} /\ Linked(<<>>)
  BY DEF ToSet, Linked
<1>9. PICK s \in Seq(Hash) : /\ client' = [client EXCEPT !.stack = s] /\ Linked(s)
                             /\ top \in unchecked => s = Front(r)
                             /\ top \notin unchecked => s = <<>>
  BY <1>5, <1>6, <1>8, Zenon
<1>10. ToSet(s) \subseteq theirs
  <2>1. ToSet(Front(r)) \subseteq theirs
    BY <1>4, <1>6
  <2>2. CASE top \in unchecked
    BY <1>9, <2>1, <2>2, Zenon
  <2>3. CASE top \notin unchecked
    <3>1. s = <<>>
      BY <1>9, <2>3
    <3> QED
      BY <1>8, <3>1
  <2> QED
    BY <2>2, <2>3
<1>11. /\ client' \in Client /\ client'.stack = s /\ client'.at = "processing"
       /\ client'.info = client.info
  <2>1. client' = [client EXCEPT !.stack = s] /\ client \in Client
    BY <1>2, <1>9, Zenon
  <2>2. /\ [client EXCEPT !.stack = s] \in Client
        /\ [client EXCEPT !.stack = s].stack = s /\ [client EXCEPT !.stack = s].at = client.at
        /\ [client EXCEPT !.stack = s].info = client.info
    BY <2>1, StackFacts, Zenon
  <2> QED
    BY <2>1, <2>2, Zenon
<1>12. /\ ours' \in Ledgers /\ ours \subseteq ours' /\ ours' \subseteq ours \cup {top}
       /\ unchecked' \subseteq unchecked
  <2>1. /\ Processed(ours, top) \in Ledgers /\ ours \subseteq Processed(ours, top)
        /\ Processed(ours, top) \subseteq ours \cup {top}
    BY <1>2, <1>6, ProcessedFacts, Zenon
  <2>2. CASE top \in unchecked
    BY <1>5, <2>1, <2>2
  <2>3. CASE top \notin unchecked
    BY <1>2, <1>5, <2>3
  <2> QED
    BY <2>2, <2>3
<1>13. Stored'
  <2>1. gaps \subseteq ours' /\ unsynced \subseteq ours' /\ unchecked' \subseteq theirs
    BY <1>2, <1>12
  <2>2. HeadIn(client.info, ours')
    BY <1>2, <1>12 DEF HeadIn
  <2> QED
    BY <1>1, <1>11, <1>12, <2>1, <2>2, Zenon DEF Stored
<1>14. ProcessPhase'
  <2>1. Linked(client.stack)'
    BY <1>9, <1>11, Zenon DEF Linked
  <2>2. (ToSet(client.stack) \subseteq theirs)'
    BY <1>10, <1>11, Zenon
  <2>3. Answered' /\ toClient' = <<>>
    BY <1>1, Zenon DEF ProcessPhase, Answered, Free
  <2> QED
    BY <1>11, <2>1, <2>2, <2>3, Zenon DEF ProcessPhase
<1>15. \A b : Disputed(b)' <=> Disputed(b)
  <2>1. ours' \cup theirs' = ours \cup theirs
    BY <1>7, <1>12
  <2> QED
    BY <2>1, DisputedKept
<1>16. ASSUME quiet
       PROVE  /\ \A b \in unchecked \ unchecked' : b \in ours' \/ Disputed(b)
              /\ ToSet(s) \subseteq unchecked'
  <2>1. QuietProcess
    BY <1>16, Zenon DEF IndInv, Covered
  <2>2. CASE top \in unchecked
    <3>1. top \in ours' \/ Disputed(top)
      <4>1. Dependencies(top) \subseteq ours
        BY <1>4, <2>2 DEF top
      <4>2. top \in Processed(ours, top) \/ Rivals(top) \cap ours # {}
        BY <1>2, <1>6, <4>1, ProcessedFacts, Zenon
      <4>3. Rivals(top) \cap ours # {} => Rivals(top) \cap (ours \cup theirs) # {}
        OBVIOUS
      <4>4. Rivals(top) \cap (ours \cup theirs) # {} => Disputed(top)
        BY <1>6, DependencyFacts, Zenon DEF Disputed
      <4> QED
        BY <1>5, <2>2, <4>2, <4>3, <4>4, Zenon
    <3>2. \A b \in unchecked \ unchecked' : b = top
      BY <1>5, <2>2
    <3>3. ASSUME NEW b \in ToSet(Front(r)) PROVE b \in unchecked'
      <4>1. b \in unchecked
        BY <1>4, <1>16, <3>3
      <4>2. b # top
        <5>1. Depth[top] \in Nat
          BY <1>6, DependencyFacts
        <5>2. ~(Depth[top] < Depth[top])
          BY <5>1
        <5> QED
          BY <1>6, <3>3, <5>2, Zenon
      <4> QED
        BY <1>5, <2>2, <4>1, <4>2
    <3>4. s = Front(r)
      BY <1>9, <2>2, Zenon
    <3>5. ToSet(Front(r)) \subseteq unchecked'
      BY <3>3
    <3> QED
      BY <3>1, <3>2, <3>4, <3>5, Zenon
  <2>3. CASE top \notin unchecked
    <3>1. top \notin ours
      <4>1. top \notin ToSet(start)
        BY <1>16, <2>3
      <4> QED
        BY <1>4, <4>1 DEF top
    <3>2. Disputed(top)
      BY <1>7, <2>1, <2>3, <3>1 DEF QuietProcess
    <3>3. \A b \in ToSet(r) : Disputed(b)
      BY <1>6, <3>2 DEF Disputed
    <3>4. \A b \in unchecked \ unchecked' : b \in ToSet(r)
      BY <1>5, <2>3
    <3>5. ToSet(s) = {}
      BY <1>8, <1>9, <2>3, Zenon
    <3> QED
      BY <3>3, <3>4, <3>5
  <2> QED
    BY <2>2, <2>3
<1>17. quiet => QuietProcess'
  <2> SUFFICES ASSUME quiet PROVE QuietProcess'
    OBVIOUS
  <2>1. QuietProcess
    BY Zenon DEF IndInv, Covered
  <2>2. \A b \in ours' \ theirs : b \in ours \ theirs
    BY <1>7, <1>12
  <2>3. PushesCovered'
    BY <1>15, <2>1, <2>2, Zenon DEF QuietProcess, PushesCovered
  <2>4. (ToSet(client.stack) \subseteq unchecked)'
    BY <1>11, <1>16, Zenon
  <2>5. ASSUME NEW b \in theirs, b \notin ours' PROVE b \in unchecked' \/ Disputed(b)
    <3>1. b \notin ours
      BY <1>12, <2>5
    <3>2. b \in unchecked \/ Disputed(b)
      BY <2>1, <3>1 DEF QuietProcess
    <3> QED
      BY <1>16, <2>5, <3>2
  <2> QED
    BY <1>15, <2>3, <2>4, <2>5, Zenon DEF QuietProcess
<1>18. Covered'
  <2>1. "processing" \notin {"frontiers", "pulling", "pushing", "done"}
    OBVIOUS
  <2> QED
    BY <1>11, <1>17, <2>1, Zenon DEF Covered
<1> QED
  BY <1>13, <1>14, <1>16, <1>18, Zenon DEF IndInv, Control

(* A stack of one block.                                                   *)
LEMMA OneLinked ==
    ASSUME NEW b \in Hash
    PROVE  <<b>> \in Seq(Hash) /\ <<b>> # <<>> /\ Linked(<<b>>) /\ ToSet(<<b>>) = {b}
<1>1. Linked(<<b>>)
  BY DEF Linked
<1> QED
  BY <1>1 DEF ToSet

(* process_end: the block on top of the stack, or the next of the          *)
(* unchecked ones; what is thrown away in a quiet session is disputed.     *)
LEMMA ProcessEndStep ==
    ASSUME IndInv, ProcessEnd
    PROVE  /\ IndInv'
           /\ quiet => \A b \in unchecked \ unchecked' : b \in ours' \/ Disputed(b)
<1>1. /\ client.at = "processing"
      /\ UNCHANGED <<theirs, gaps, unsynced, server, toServer, toClient, quiet>>
      /\ client.stack # <<>> => ProcessOne(client.stack)
      /\ client.stack = <<>> => \E b \in unchecked : ProcessOne(<<b>>)
  BY Zenon DEF ProcessEnd, channels, history
<1>2. Control /\ Stored /\ ProcessPhase
  BY <1>1, PhaseFacts, Zenon DEF IndInv
<1>3. CASE client.stack # <<>>
  <2>1. client.stack \in Seq(Hash)
    BY <1>2 DEF Stored, Client
  <2>2. Linked(client.stack) /\ ToSet(client.stack) \subseteq theirs
    BY <1>2, Zenon DEF ProcessPhase
  <2>3. quiet => ToSet(client.stack) \subseteq unchecked
    BY <1>1, Zenon DEF IndInv, Covered, QuietProcess
  <2> QED
    BY <1>1, <1>3, <2>1, <2>2, <2>3, ProcessOneStep, Zenon
<1>4. CASE client.stack = <<>>
  <2>1. PICK b \in unchecked : ProcessOne(<<b>>)
    BY <1>1, <1>4
  <2>2. b \in theirs /\ b \in Hash
    BY <1>2, LedgerFacts DEF Stored
  <2>3. <<b>> \in Seq(Hash) /\ <<b>> # <<>> /\ Linked(<<b>>) /\ ToSet(<<b>>) = {b}
    BY <2>2, OneLinked, Zenon
  <2>4. ToSet(<<b>>) \subseteq theirs /\ ToSet(<<b>>) \subseteq unchecked
    BY <2>2, <2>3
  <2> QED
    BY <1>1, <2>1, <2>3, <2>4, ProcessOneStep, Zenon
<1> QED
  BY <1>3, <1>4

(* completed_pulls: what was pulled is processed, and the pushes begin.    *)
LEMMA CompletedPullsStep == ASSUME IndInv, CompletedPulls PROVE IndInv'
<1>1. /\ client.at = "processing" /\ client.stack = <<>> /\ unchecked = {}
      /\ client' = [client EXCEPT !.at = "pushing"] /\ toServer' = Append(toServer, BulkPush)
      /\ UNCHANGED <<ours, theirs, gaps, unchecked, unsynced, server, toClient, quiet>>
  BY Zenon DEF CompletedPulls, tables, history
<1>2. Control /\ Stored /\ ProcessPhase
  BY <1>1, PhaseFacts, Zenon DEF IndInv
<1>3. Free /\ toServer = <<>> /\ toClient = <<>>
  BY <1>2, Zenon DEF ProcessPhase, Answered
<1>4. client \in Client
  BY <1>2, Zenon DEF Stored
<1>5. client' \in Client /\ client'.at = "pushing" /\ client'.stack = <<>> /\ client'.info = client.info
  <2>1. client' \in Client
    BY <1>1, <1>4, Zenon DEF Client, ClientAt
  <2>2. client'.at = "pushing" /\ client'.stack = client.stack /\ client'.info = client.info
    BY <1>1, <1>4, <2>1, Zenon DEF Client
  <2> QED
    BY <1>1, <2>1, <2>2, Zenon
<1>6. toServer' = <<BulkPush>> /\ toServer' \in Seq(Requests \cup Blocks)
  <2>1. Append(<<>>, BulkPush) = <<BulkPush>>
    OBVIOUS
  <2>2. <<BulkPush>> \in Seq(Requests \cup Blocks)
    BY DEF Requests
  <2> QED
    BY <1>1, <1>3, <2>1, <2>2, Zenon
<1>7. Len(toServer') = 1 /\ toServer'[1] = BulkPush /\ toServer' # <<>>
  BY <1>6, OneFacts, Zenon
<1>8. (\A i \in 1..1 : i = 1) /\ "pushing" # "done"
  OBVIOUS
<1>9. \A i \in 1..Len(toServer') : i = 1
  BY <1>7, <1>8, Zenon
<1>10. Free' /\ server'.reading
  BY <1>1, <1>3, Zenon DEF Free
<1>11. PushMessages'
  BY <1>7, <1>9, <1>10, Zenon DEF PushMessages
<1>12. ToSet(<<>>) = {} /\ Linked(<<>>) /\ 1..Len(<<>>) = {}
  BY DEF ToSet, Linked
<1>13. Linked(client.stack)' /\ (ToSet(client.stack) \subseteq ours)'
  <2>1. Linked(client.stack)'
    BY <1>5, <1>12, Zenon DEF Linked
  <2>2. ToSet(client'.stack) = {}
    BY <1>5, <1>12, Zenon
  <2> QED
    BY <2>1, <2>2
<1>14. PushPhase'
  <2>1. client'.at \in {"pushing", "done"}
    BY <1>5
  <2> QED
    BY <1>1, <1>3, <1>5, <1>7, <1>8, <1>10, <1>11, <1>13, <2>1, Zenon DEF PushPhase
<1>15. ASSUME quiet PROVE QuietPush'
  <2>1. QuietProcess
    BY <1>1, <1>15, Zenon DEF IndInv, Covered
  <2>2. \A b : Disputed(b)' <=> Disputed(b)
    BY <1>1, DisputedKept
  <2>3. \A b : ~(b \in unchecked)
    BY <1>1
  <2>4. \A i \in 1..Len(toServer') : \A b : toServer'[i] # BlockMessage(b)
    <3>1. \A b : BulkPush # BlockMessage(b)
      BY MessageFacts, Zenon DEF Requests
    <3> QED
      BY <1>7, <1>9, <3>1, Zenon
  <2> QED
    BY <1>1, <2>1, <2>2, <2>3, <2>4, Zenon DEF QuietProcess, PushesCovered, QuietPush
<1>16. Stored'
  BY <1>1, <1>2, <1>5, <1>6, Zenon DEF Stored
<1>17. Covered'
  <2>1. "pushing" \notin {"frontiers", "pulling", "processing"}
    OBVIOUS
  <2> QED
    BY <1>1, <1>5, <1>15, <2>1, Zenon DEF Covered
<1> QED
  BY <1>14, <1>16, <1>17, Zenon DEF IndInv, Control

(* A message is sent after the request to push.                            *)
LEMMA MessagesSent ==
    ASSUME Stored, PushPhase, client.at = "pushing", NEW e \in Requests \cup Blocks,
           toServer' = Append(toServer, e), UNCHANGED <<ours, server>>,
           \/ (\E b \in ours : e = BlockMessage(b)) /\ client'.at = "pushing"
           \/ e = NotABlock /\ client'.at = "done"
    PROVE  /\ PushMessages' /\ toServer' # <<>> /\ toServer' \in Seq(Requests \cup Blocks)
           /\ (toServer[Len(toServer)])' = e
           /\ (\/ Free /\ toServer # <<>>
               \/ Queued(BulkPush) /\ ~server.reading
               \/ server.at = "push" /\ server.requests = <<BulkPush>> /\ ~server.reading)'
<1> DEFINE n == Len(toServer)
           m == Len(toServer')
<1>1. toServer \in Seq(Requests \cup Blocks)
  BY Zenon DEF Stored
<1>2. /\ n \in Nat /\ m \in Nat /\ m = n + 1 /\ toServer' \in Seq(Requests \cup Blocks) /\ toServer' # <<>>
      /\ toServer'[m] = e
      /\ \A i \in 1..m : \/ i \in 1..n /\ toServer'[i] = toServer[i] /\ i < m
                         \/ i = m /\ toServer'[i] = e
  BY <1>1, SentFacts
<1>a. n \in Nat /\ m \in Nat /\ m = n + 1
  BY <1>2, Zenon
<1>3. "pushing" # "done"
  OBVIOUS
<1>4. server.reading => m > 1
  <2>1. server.reading => toServer # <<>>
    BY Zenon DEF PushPhase
  <2>2. toServer # <<>> => n # 0
    BY <1>1
  <2> HIDE DEF n, m
  <2>3. n # 0 => m > 1
    BY <1>a
  <2> QED
    BY <2>1, <2>2, <2>3, Zenon
<1> HIDE DEF n, m
<1>5. ASSUME NEW i \in 1..m
      PROVE  \/ toServer'[i] = BulkPush /\ i = 1 /\ server.reading
             \/ /\ \E b \in ours : toServer'[i] = BlockMessage(b)
                /\ server.reading => i > 1
                /\ client'.at = "done" => i < m
             \/ toServer'[i] = NotABlock /\ i = m /\ client'.at = "done" /\ (server.reading => i > 1)
  <2>1. CASE i \in 1..n /\ toServer'[i] = toServer[i] /\ i < m
    <3>1. \/ toServer[i] = BulkPush /\ i = 1 /\ server.reading
          \/ (\E b \in ours : toServer[i] = BlockMessage(b)) /\ (server.reading => i > 1)
      BY <1>3, <2>1, Zenon DEF PushPhase, PushMessages, n
    <3> QED
      BY <2>1, <3>1, Zenon
  <2>2. CASE i = m /\ toServer'[i] = e
    BY <1>3, <1>4, <2>2, Zenon
  <2> QED
    BY <1>2, <2>1, <2>2, Zenon
<1>6. PushMessages'
  BY <1>5, Zenon DEF PushMessages, m
<1>7. (\/ Free /\ toServer # <<>>
       \/ Queued(BulkPush) /\ ~server.reading
       \/ server.at = "push" /\ server.requests = <<BulkPush>> /\ ~server.reading)'
  BY <1>2, Zenon DEF PushPhase, Free, Queued
<1> QED
  BY <1>2, <1>6, <1>7, Zenon DEF m

(* What was sent before stays in order.                                    *)
LEMMA OrderKept ==
    ASSUME Stored, NEW e \in Requests \cup Blocks, toServer' = Append(toServer, e),
           UNCHANGED <<ours, theirs>>, NEW i \in 1..Len(toServer), NEW b, InOrder(i, b)
    PROVE  InOrder(i, b)'
<1>1. toServer \in Seq(Requests \cup Blocks)
  BY Zenon DEF Stored
<1>2. Len(toServer) \in Nat /\ \A j \in 1..Len(toServer) : toServer'[j] = toServer[j]
  BY <1>1, SentFacts
<1>3. \A n \in Nat : \A k \in 1..n : \A j \in 1..(k - 1) : j \in 1..n
  OBVIOUS
<1>4. \A j \in 1..(i - 1) : toServer'[j] = toServer[j]
  BY <1>2, <1>3, Zenon
<1>5. Disputed(b)' <=> Disputed(b)
  BY DisputedKept
<1> QED
  BY <1>4, <1>5, Zenon DEF InOrder

(* push and push_block: the next block that waits for no other is sent.    *)
LEMMA PushOneStep ==
    ASSUME IndInv, client.at = "pushing", NEW start \in Seq(Hash), start # <<>>, Linked(start),
           ToSet(start) \subseteq ours, NEW todo, todo \subseteq unsynced, PushOne(start, todo),
           \A b : b \in unsynced \/ b \in ToSet(client.stack) => b \in todo \/ b \in ToSet(start),
           UNCHANGED <<ours, theirs, gaps, unchecked, server, toClient, quiet>>
    PROVE  IndInv'
<1> DEFINE sync == PushSync(todo)
           r == Front(start) \o Fill(Last(start), sync)
           top == Last(r)
           e == BlockMessage(top)
<1>1. Control /\ Stored /\ PushPhase
  <2>1. client.at \in {"pushing", "done"}
    OBVIOUS
  <2> QED
    BY <2>1, PhaseFacts, Zenon DEF IndInv
<1>2. /\ ours \in Ledgers /\ ours \subseteq Hash /\ unsynced \subseteq ours /\ client \in Client
      /\ todo \in SUBSET Hash /\ toServer \in Seq(Requests \cup Blocks)
  BY <1>1, LedgerFacts DEF Stored
<1>3. sync \in Syncs /\ sync.retrieves = Hash /\ sync.synchronized = Hash \ todo
  BY <1>2, SyncFacts, Zenon
<1>4. /\ r \in Seq(Hash) /\ r # <<>> /\ Linked(r) /\ ToSet(start) \subseteq ToSet(r)
      /\ top \notin Hash \/ Dependencies(top) \subseteq Hash \ todo
      /\ ToSet(r) \subseteq ours
  <2> HIDE DEF sync
  <2>1. /\ r \in Seq(Hash) /\ r # <<>> /\ Linked(r) /\ ToSet(start) \subseteq ToSet(r)
        /\ Last(r) \notin sync.retrieves \/ Dependencies(Last(r)) \subseteq sync.synchronized
        /\ \A L \in Ledgers : ToSet(start) \subseteq L => ToSet(r) \subseteq L
    BY <1>3, FilledFacts, Zenon
  <2> QED
    BY <1>2, <1>3, <2>1, Zenon
<1>5. /\ unsynced' = todo \ ToSet(r) /\ toServer' = Append(toServer, e)
      /\ client' = [client EXCEPT !.stack = Front(r)]
  BY Zenon DEF PushOne, FillPush
<1> HIDE DEF sync, r
<1>6. /\ Front(r) \in Seq(Hash) /\ Linked(Front(r)) /\ top \in Hash
      /\ ToSet(r) = ToSet(Front(r)) \cup {top}
      /\ \A b \in ToSet(r) : Depth[top] <= Depth[b]
  BY <1>4, LinkedFacts, Zenon
<1>7. top \in ours /\ Dependencies(top) \subseteq ours /\ ToSet(Front(r)) \subseteq ours
  <2>1. top \in ours /\ ToSet(Front(r)) \subseteq ours
    BY <1>4, <1>6
  <2> QED
    BY <1>2, <2>1, LedgerFacts, Zenon
<1> HIDE DEF top
<1>8. /\ client' \in Client /\ client'.stack = Front(r) /\ client'.at = "pushing"
      /\ client'.info = client.info
  BY <1>2, <1>5, <1>6, StackFacts, Zenon
<1>9. e \in Requests \cup Blocks
  BY <1>6 DEF Blocks
<1>10. e = BlockMessage(top)
  OBVIOUS
<1> HIDE DEF e
<1>11. /\ PushMessages' /\ toServer' # <<>> /\ toServer' \in Seq(Requests \cup Blocks)
       /\ (\/ Free /\ toServer # <<>>
           \/ Queued(BulkPush) /\ ~server.reading
           \/ server.at = "push" /\ server.requests = <<BulkPush>> /\ ~server.reading)'
  BY <1>1, <1>5, <1>7, <1>8, <1>9, <1>10, MessagesSent, Zenon
<1>12. Stored'
  <2>1. unsynced' \subseteq ours
    BY <1>2, <1>5
  <2> QED
    BY <1>1, <1>8, <1>11, <2>1, Zenon DEF Stored
<1>13. PushPhase'
  <2>1. Linked(client.stack)'
    BY <1>6, <1>8, Zenon DEF Linked
  <2>2. (ToSet(client.stack) \subseteq ours)'
    BY <1>7, <1>8, Zenon
  <2>3. client'.at \in {"pushing", "done"} /\ "pushing" # "done"
    BY <1>8
  <2>4. toClient' = <<>>
    BY <1>1, Zenon DEF PushPhase
  <2> QED
    BY <1>8, <1>11, <2>1, <2>2, <2>3, <2>4, Zenon DEF PushPhase
<1>14. ASSUME quiet PROVE QuietPush'
  <2> DEFINE n == Len(toServer)
             m == Len(toServer')
  <2>1. QuietPush
    <3>1. client.at \in {"pushing", "done"}
      OBVIOUS
    <3> QED
      BY <1>14, <3>1, Zenon DEF IndInv, Covered
  <2>2. \A b : Disputed(b)' <=> Disputed(b)
    BY DisputedKept
  <2>3. /\ m \in 1..m /\ toServer'[m] = e
        /\ \A i \in 1..n : i \in 1..m /\ toServer'[i] = toServer[i]
        /\ \A i \in 1..m : \/ i \in 1..n /\ toServer'[i] = toServer[i]
                           \/ i = m /\ toServer'[i] = e
    BY <1>2, <1>5, <1>9, SentFacts
  <2>4. n \in Nat /\ m = n + 1
    BY <1>2, <1>5, <1>9, SentFacts
  <2>5. ASSUME NEW b \in ours \ theirs
        PROVE  \/ b \in unsynced' \/ Disputed(b) \/ b \in ToSet(Front(r))
               \/ \E i \in 1..m : toServer'[i] = BlockMessage(b)
    <3>1. \/ b \in unsynced \/ Disputed(b) \/ b \in ToSet(client.stack)
          \/ \E i \in 1..n : toServer[i] = BlockMessage(b)
      BY <2>1, Zenon DEF QuietPush
    <3>2. CASE b \in unsynced \/ b \in ToSet(client.stack)
      <4>1. b \in todo \/ b \in ToSet(start)
        BY <3>2, Zenon
      <4>2. b \in unsynced' \/ b \in ToSet(Front(r)) \/ b = top
        BY <1>4, <1>5, <1>6, <4>1
      <4> QED
        BY <1>10, <2>3, <4>2, Zenon
    <3>3. CASE \E i \in 1..n : toServer[i] = BlockMessage(b)
      BY <2>3, <3>3, Zenon
    <3> QED
      BY <3>1, <3>2, <3>3, Zenon
  <2>6. ASSUME ~Disputed(top), NEW d \in Dependencies(top), d \notin theirs
        PROVE  \E j \in 1..(m - 1) : toServer'[j] = BlockMessage(d)
    <3>1. d \in ours \ theirs /\ d \in Hash
      BY <1>2, <1>7, <2>6
    <3>2. d \notin ToSet(r)
      <4>1. Depth[d] \in Nat /\ Depth[top] \in Nat /\ Depth[d] < Depth[top]
        BY <1>6, <2>6, <3>1, DependencyFacts, Zenon
      <4>2. ~(Depth[top] <= Depth[d])
        BY <4>1
      <4> QED
        BY <1>6, <4>2, Zenon
    <3>3. d \notin todo /\ d \notin ToSet(start)
      BY <1>4, <1>6, <2>6, <3>2
    <3>4. ~Disputed(d)
      BY <1>6, <2>6, DependencyFacts DEF Disputed
    <3>5. \E j \in 1..n : toServer[j] = BlockMessage(d)
      BY <2>1, <3>1, <3>3, <3>4, Zenon DEF QuietPush
    <3>6. m - 1 = n
      <4> HIDE DEF n, m
      <4> QED
        BY <2>4
    <3> QED
      BY <2>3, <3>5, <3>6, Zenon
  <2>7. ASSUME NEW k, k = m, NEW b, b = top PROVE InOrder(k, b)'
    <3>1. Disputed(b) \/ \A d \in Dependencies(b) :
                            d \in theirs \/ \E j \in 1..(k - 1) : toServer'[j] = BlockMessage(d)
      BY <2>6, <2>7, Zenon
    <3> QED
      BY <2>2, <3>1, Zenon DEF InOrder
  <2>8. ASSUME NEW i \in 1..m, NEW b \in ours, toServer'[i] = BlockMessage(b)
        PROVE  InOrder(i, b)'
    <3>1. CASE i \in 1..n /\ toServer'[i] = toServer[i]
      <4>1. InOrder(i, b)
        BY <2>1, <2>8, <3>1, Zenon DEF QuietPush
      <4> QED
        BY <1>1, <1>5, <1>9, <3>1, <4>1, OrderKept, Zenon
    <3>2. CASE i = m /\ toServer'[i] = e
      <4>1. b = top
        BY <1>10, <2>8, <3>2, MessageFacts, Zenon
      <4> QED
        BY <2>7, <3>2, <4>1, Zenon
    <3> QED
      BY <2>3, <3>1, <3>2, Zenon
  <2>9. \A b \in theirs \ ours : Disputed(b)'
    BY <2>1, <2>2, Zenon DEF QuietPush
  <2> QED
    BY <1>8, <2>2, <2>5, <2>8, <2>9, Zenon DEF QuietPush
<1>15. Covered'
  <2>1. "pushing" \notin {"frontiers", "pulling", "processing"}
    OBVIOUS
  <2> QED
    BY <1>8, <1>14, <2>1, Zenon DEF Covered
<1> QED
  BY <1>12, <1>13, <1>15, Zenon DEF IndInv, Control

(* push: the block on top of the stack, or the next of the unsynced ones.  *)
LEMMA PushStep == ASSUME IndInv, Push PROVE IndInv'
<1>1. /\ client.at = "pushing"
      /\ client.stack # <<>> => PushOne(client.stack, unsynced)
      /\ client.stack = <<>> => \E b \in unsynced : PushOne(<<b>>, unsynced \ {b})
      /\ UNCHANGED <<ours, theirs, gaps, unchecked, server, toClient, quiet>>
  BY Zenon DEF Push, history
<1>2. Control /\ Stored /\ PushPhase
  <2>1. client.at \in {"pushing", "done"}
    BY <1>1
  <2> QED
    BY <2>1, PhaseFacts, Zenon DEF IndInv
<1>3. CASE client.stack # <<>>
  <2>1. client.stack \in Seq(Hash)
    BY <1>2 DEF Stored, Client
  <2>2. Linked(client.stack) /\ ToSet(client.stack) \subseteq ours
    BY <1>2, Zenon DEF PushPhase
  <2>3. unsynced \subseteq unsynced
    OBVIOUS
  <2> QED
    BY <1>1, <1>3, <2>1, <2>2, <2>3, PushOneStep, Zenon
<1>4. CASE client.stack = <<>>
  <2>1. PICK b0 \in unsynced : PushOne(<<b0>>, unsynced \ {b0})
    BY <1>1, <1>4, Zenon
  <2>2. b0 \in ours /\ b0 \in Hash
    BY <1>2, LedgerFacts DEF Stored
  <2>3. <<b0>> \in Seq(Hash) /\ <<b0>> # <<>> /\ Linked(<<b0>>) /\ ToSet(<<b0>>) = {b0}
    BY <2>2, OneLinked, Zenon
  <2>4. ToSet(<<b0>>) \subseteq ours /\ unsynced \ {b0} \subseteq unsynced
    BY <2>2, <2>3
  <2>5. ToSet(<<>>) = {}
    BY DEF ToSet
  <2>6. \A b : b \in unsynced \/ b \in ToSet(client.stack) => b \in unsynced \ {b0} \/ b \in ToSet(<<b0>>)
    <3>1. ToSet(client.stack) = {}
      BY <1>4, <2>5, Zenon
    <3> QED
      BY <2>3, <3>1
  <2> QED
    BY <1>1, <2>1, <2>3, <2>4, <2>6, PushOneStep, Zenon
<1> QED
  BY <1>3, <1>4

(* send_finished: all that was to be pushed is sent.                       *)
LEMMA SendFinishedStep == ASSUME IndInv, SendFinished PROVE IndInv'
<1>1. /\ client.at = "pushing" /\ client.stack = <<>> /\ unsynced = {}
      /\ toServer' = Append(toServer, NotABlock) /\ client' = [client EXCEPT !.at = "done"]
      /\ UNCHANGED <<ours, theirs, gaps, unchecked, unsynced, server, toClient, quiet>>
  BY Zenon DEF SendFinished, tables, history
<1>2. Control /\ Stored /\ PushPhase
  <2>1. client.at \in {"pushing", "done"}
    BY <1>1
  <2> QED
    BY <2>1, PhaseFacts, Zenon DEF IndInv
<1>3. /\ client' \in Client /\ client'.at = "done" /\ client'.stack = client.stack
      /\ client'.info = client.info
  <2>1. client \in Client
    BY <1>2, Zenon DEF Stored
  <2>2. client' \in Client
    BY <1>1, <2>1, Zenon DEF Client, ClientAt
  <2> QED
    BY <1>1, <2>1, <2>2, Zenon DEF Client
<1>4. NotABlock \in Requests \cup Blocks
  BY DEF Blocks
<1>5. /\ PushMessages' /\ toServer' # <<>> /\ toServer' \in Seq(Requests \cup Blocks)
      /\ (toServer[Len(toServer)])' = NotABlock
      /\ (\/ Free /\ toServer # <<>>
          \/ Queued(BulkPush) /\ ~server.reading
          \/ server.at = "push" /\ server.requests = <<BulkPush>> /\ ~server.reading)'
  BY <1>1, <1>2, <1>3, <1>4, MessagesSent, Zenon
<1>6. Stored'
  BY <1>1, <1>2, <1>3, <1>5, Zenon DEF Stored
<1>7. PushPhase'
  <2>1. Linked(client.stack)'
    BY <1>2, <1>3, Zenon DEF PushPhase, Linked
  <2>2. (ToSet(client.stack) \subseteq ours)' /\ toClient' = <<>>
    BY <1>1, <1>2, <1>3, Zenon DEF PushPhase
  <2>3. client'.at \in {"pushing", "done"}
    BY <1>3
  <2> QED
    BY <1>1, <1>3, <1>5, <2>1, <2>2, <2>3, Zenon DEF PushPhase
<1>8. ASSUME quiet PROVE QuietPush'
  <2> DEFINE n == Len(toServer)
             m == Len(toServer')
  <2>1. QuietPush
    <3>1. client.at \in {"pushing", "done"}
      BY <1>1
    <3> QED
      BY <1>8, <3>1, Zenon DEF IndInv, Covered
  <2>2. \A b : Disputed(b)' <=> Disputed(b)
    BY <1>1, DisputedKept
  <2>3. /\ \A i \in 1..n : i \in 1..m /\ toServer'[i] = toServer[i]
        /\ \A i \in 1..m : \/ i \in 1..n /\ toServer'[i] = toServer[i]
                           \/ i = m /\ toServer'[i] = NotABlock
    <3>1. toServer \in Seq(Requests \cup Blocks)
      BY <1>2, Zenon DEF Stored
    <3> QED
      BY <1>1, <1>4, <3>1, SentFacts
  <2>4. ASSUME NEW i \in 1..m, NEW b \in ours, toServer'[i] = BlockMessage(b)
        PROVE  InOrder(i, b)'
    <3>1. i \in 1..n /\ toServer'[i] = toServer[i]
      BY <2>3, <2>4, MessageFacts, Zenon
    <3>2. InOrder(i, b)
      BY <2>1, <2>4, <3>1, Zenon DEF QuietPush
    <3> QED
      BY <1>1, <1>2, <1>4, <3>1, <3>2, OrderKept, Zenon
  <2>5. ASSUME NEW b \in ours \ theirs
        PROVE  \/ b \in unsynced' \/ Disputed(b) \/ b \in ToSet(client'.stack)
               \/ \E i \in 1..m : toServer'[i] = BlockMessage(b)
    BY <1>1, <1>3, <2>1, <2>3, Zenon DEF QuietPush
  <2> QED
    BY <1>1, <2>1, <2>2, <2>4, <2>5, Zenon DEF QuietPush
<1>9. Covered'
  <2>1. "done" \notin {"frontiers", "pulling", "processing"}
    OBVIOUS
  <2> QED
    BY <1>1, <1>3, <1>8, <2>1, Zenon DEF Covered
<1> QED
  BY <1>6, <1>7, <1>9, Zenon DEF IndInv, Control

(* received_block at the end of the pushes: the connection is closed.      *)
LEMMA PushEndsStep == ASSUME IndInv, PushEnds PROVE IndInv'
<1>1. /\ client' = ClientOff /\ server' = ServerOff /\ toServer' = <<>> /\ toClient' = <<>>
      /\ UNCHANGED <<ours, theirs, unchecked, unsynced>> /\ gaps' = gaps /\ quiet' = quiet
  BY Zenon DEF PushEnds, tables, history
<1>2. Stored
  BY Zenon DEF IndInv, Control
<1>3. gaps' \subseteq gaps /\ quiet' \in BOOLEAN
  BY <1>1, <1>2 DEF Stored
<1> QED
  BY <1>1, <1>2, <1>3, OffStep, Zenon

(* received_block: process_receive_republish takes a pushed block, and the *)
(* blocks of the gap cache that waited for it.                             *)
LEMMA ReceivePushStep == ASSUME IndInv, ReceivePush PROVE IndInv'
<1> DEFINE n == Len(toServer)
           m == Len(toServer')
<1>1. /\ server.at = "push" /\ toServer # <<>> /\ Head(toServer) # NotABlock
      /\ theirs' = Republished(theirs, gaps \cup {Head(toServer).block}).ledger
      /\ gaps' = Republished(theirs, gaps \cup {Head(toServer).block}).waiting
      /\ toServer' = Tail(toServer)
      /\ UNCHANGED <<ours, unchecked, unsynced, client, server, toClient, quiet>>
  BY Zenon DEF ReceivePush, history
<1>2. Control /\ Stored /\ PushPhase
  BY <1>1, PhaseFacts, Zenon DEF IndInv
<1>3. ~server.reading /\ server.requests = <<BulkPush>> /\ client.at \in {"pushing", "done"} /\ toClient = <<>>
  <2>1. "push" # "idle" /\ "push" # "finish"
    OBVIOUS
  <2> QED
    BY <1>1, <1>2, <2>1, Zenon DEF PushPhase, Free, Queued
<1>4. /\ n \in Nat /\ n >= 1 /\ m \in Nat /\ n = m + 1 /\ Head(toServer) = toServer[1]
      /\ \A i \in 1..m : i + 1 \in 1..n /\ toServer'[i] = toServer[i + 1]
      /\ \A i \in 1..n : i # 1 => i - 1 \in 1..m /\ toServer'[i - 1] = toServer[i]
  BY <1>1, <1>2, ServerReads, Zenon
<1>a. n \in Nat /\ n >= 1 /\ m \in Nat /\ n = m + 1
  BY <1>4, Zenon
<1>5. 1 \in 1..n
  <2> HIDE DEF n, m
  <2> QED
    BY <1>a
<1>6. PICK b \in ours : toServer[1] = BlockMessage(b)
  BY <1>1, <1>2, <1>3, <1>4, <1>5, Zenon DEF PushPhase, PushMessages
<1>7. Head(toServer).block = b
  BY <1>4, <1>6, MessageFacts, Zenon
<1>8. /\ ours \in Ledgers /\ theirs \in Ledgers /\ ours \subseteq Hash /\ gaps \subseteq ours
      /\ b \in Hash /\ gaps \cup {b} \in SUBSET Hash
  BY <1>2, LedgerFacts DEF Stored
<1>9. Republishes(theirs, gaps \cup {b}, Republished(theirs, gaps \cup {b}))
  BY <1>8, RepublishedFacts, Zenon
<1>10. /\ theirs' \in Ledgers /\ theirs \subseteq theirs' /\ theirs' \subseteq theirs \cup (gaps \cup {b})
       /\ gaps' \subseteq gaps \cup {b}
       /\ \A c \in Ready(theirs, gaps \cup {b}) : c \in theirs' \/ Rivals(c) \cap theirs' # {}
  BY <1>1, <1>7, <1>9, Zenon DEF Republishes
<1>11. gaps' \subseteq ours /\ unchecked' \subseteq theirs' /\ theirs' \ ours \subseteq theirs \ ours
  <2>1. unchecked \subseteq theirs
    BY <1>2, Zenon DEF Stored
  <2> QED
    BY <1>1, <1>8, <1>10, <2>1
<1>12. \A c : Disputed(c)' <=> Disputed(c)
  <2>1. ours' \cup theirs' = ours \cup theirs
    BY <1>1, <1>8, <1>10
  <2> QED
    BY <2>1, DisputedKept
<1>13. Stored'
  <2>1. HeadIn(server.info, theirs')
    <3>1. HeadIn(server.info, theirs)
      BY <1>2, Zenon DEF Stored
    <3> QED
      BY <1>10, <3>1 DEF HeadIn
  <2>2. toServer' \in Seq(Requests \cup Blocks)
    <3>1. toServer \in Seq(Requests \cup Blocks)
      BY <1>2, Zenon DEF Stored
    <3> QED
      BY <1>1, <3>1
  <2> QED
    BY <1>1, <1>2, <1>10, <1>11, <2>1, <2>2, Zenon DEF Stored
<1>14. PushPhase'
  <2>1. /\ PushMessages'
        /\ client.at = "done" => toServer' # <<>> /\ (toServer[Len(toServer)])' = NotABlock
    BY <1>1, <1>2, <1>3, <1>4, MessagesRead, Zenon
  <2>2. Linked(client.stack)' /\ (ToSet(client.stack) \subseteq ours)'
    BY <1>1, <1>2, Zenon DEF PushPhase, Linked
  <2>3. client.at = "done" => unsynced = {} /\ client.stack = <<>>
    BY <1>2, Zenon DEF PushPhase
  <2> QED
    BY <1>1, <1>3, <2>1, <2>2, <2>3, Zenon DEF PushPhase
<1>15. ASSUME quiet PROVE QuietPush'
  <2>1. QuietPush
    BY <1>3, <1>15, Zenon DEF IndInv, Covered
  <2>2. b \in theirs' \/ Disputed(b)
    <3>1. InOrder(1, b)
      BY <1>5, <1>6, <2>1, Zenon DEF QuietPush
    <3>2. 1..(1 - 1) = {}
      OBVIOUS
    <3>3. Disputed(b) \/ \A d \in Dependencies(b) : d \in theirs
      BY <3>1, <3>2 DEF InOrder
    <3>4. ASSUME \A d \in Dependencies(b) : d \in theirs PROVE b \in theirs' \/ Disputed(b)
      <4>1. Dependencies(b) \subseteq theirs
        BY <3>4
      <4>2. Verdict(theirs, b) # "gap"
        BY <1>8, <4>1, ProcessedFacts, Zenon
      <4>3. b \in Ready(theirs, gaps \cup {b})
        BY <4>2 DEF Ready
      <4>4. b \in theirs' \/ Rivals(b) \cap theirs' # {}
        BY <1>10, <4>3, Zenon
      <4>5. Rivals(b) \cap theirs' # {} => Rivals(b) \cap (ours \cup theirs) # {}
        BY <1>8, <1>10
      <4>6. Rivals(b) \cap (ours \cup theirs) # {} => Disputed(b)
        BY <1>8, DependencyFacts, Zenon DEF Disputed
      <4> QED
        BY <4>4, <4>5, <4>6, Zenon
    <3> QED
      BY <3>3, <3>4, Zenon
  <2>3. \A c : BlockMessage(b) = BlockMessage(c) => c = b
    BY MessageFacts, Zenon
  <2>4. ASSUME NEW c \in ours, c \notin theirs'
        PROVE  \/ c \in unsynced \/ Disputed(c) \/ c \in ToSet(client.stack)
               \/ \E i \in 1..m : toServer'[i] = BlockMessage(c)
    <3>1. c \in ours \ theirs
      BY <1>10, <2>4
    <3>2. \/ c \in unsynced \/ Disputed(c) \/ c \in ToSet(client.stack)
          \/ \E i \in 1..n : toServer[i] = BlockMessage(c)
      BY <2>1, <3>1, Zenon DEF QuietPush
    <3>3. ASSUME NEW i \in 1..n, toServer[i] = BlockMessage(c), ~Disputed(c)
          PROVE  \E j \in 1..m : toServer'[j] = BlockMessage(c)
      <4>1. i # 1
        BY <1>6, <2>2, <2>3, <2>4, <3>3, Zenon
      <4> QED
        BY <1>4, <3>3, <4>1, Zenon
    <3> QED
      BY <3>2, <3>3, Zenon
  <2>5. ASSUME NEW i \in 1..m, NEW c \in ours, toServer'[i] = BlockMessage(c)
        PROVE  InOrder(i, c)'
    <3>1. i + 1 \in 1..n /\ toServer[i + 1] = BlockMessage(c)
      BY <1>4, <2>5, Zenon
    <3>2. InOrder(i + 1, c)
      BY <2>1, <3>1, Zenon DEF QuietPush
    <3>3. \/ Disputed(c)
          \/ \A d \in Dependencies(c) : d \in theirs \/ \E j \in 1..((i + 1) - 1) : toServer[j] = BlockMessage(d)
      BY <3>2, Zenon DEF InOrder
    <3>4. ASSUME ~Disputed(c), NEW d \in Dependencies(c), NEW j \in 1..((i + 1) - 1),
                 toServer[j] = BlockMessage(d)
          PROVE  d \in theirs' \/ \E k \in 1..(i - 1) : toServer'[k] = BlockMessage(d)
      <4>1. j \in 1..n /\ (j # 1 => j - 1 \in 1..(i - 1))
        <5> HIDE DEF n, m
        <5>1. i \in 1..m
          OBVIOUS
        <5> QED
          BY <1>a, <5>1
      <4>2. j = 1 => d \in theirs'
        <5>1. c \in Hash /\ (Disputed(d) => Disputed(c))
          BY <1>8, DependencyFacts DEF Disputed
        <5> QED
          BY <1>6, <2>2, <2>3, <3>4, <5>1, Zenon
      <4> QED
        BY <1>4, <3>4, <4>1, <4>2, Zenon
    <3>5. \/ Disputed(c)
          \/ \A d \in Dependencies(c) : d \in theirs' \/ \E k \in 1..(i - 1) : toServer'[k] = BlockMessage(d)
      BY <1>10, <3>3, <3>4
    <3> QED
      BY <1>12, <3>5, Zenon DEF InOrder
  <2>6. \A c \in theirs' : c \notin ours => Disputed(c)
    BY <1>11, <2>1 DEF QuietPush
  <2> QED
    BY <1>1, <1>12, <2>4, <2>5, <2>6, Zenon DEF QuietPush
<1>16. Covered'
  <2>1. client.at \notin {"frontiers", "pulling", "processing"}
    BY <1>3
  <2> QED
    BY <1>1, <1>15, <2>1, Zenon DEF Covered
<1> QED
  BY <1>13, <1>14, <1>16, Zenon DEF IndInv, Control

(* A node that starts has no session, and nothing in the tables of one.    *)
LEMMA InitHolds == ASSUME Init PROVE IndInv
<1>1. /\ ours \in Ledgers /\ theirs \in Ledgers /\ gaps = {} /\ unchecked = {} /\ unsynced = {}
      /\ client = ClientOff /\ server = ServerOff /\ toServer = <<>> /\ toClient = <<>> /\ quiet = TRUE
  BY Zenon DEF Init
<1>2. Stored
  <2>1. HeadIn(NoInfo, ours) /\ HeadIn(NoInfo, theirs)
    BY Zenon DEF HeadIn
  <2>2. <<>> \in Seq(Requests \cup Blocks) /\ <<>> \in Seq(Frontiers \cup Blocks) /\ TRUE \in BOOLEAN
    OBVIOUS
  <2>3. gaps \subseteq ours /\ unsynced \subseteq ours /\ unchecked \subseteq theirs
    BY <1>1
  <2> QED
    BY <1>1, <2>1, <2>2, <2>3, OffFacts, Zenon DEF Stored
<1>3. Covered
  <2>1. "off" \notin {"frontiers", "pulling", "processing", "pushing", "done"}
    OBVIOUS
  <2> QED
    BY <1>1, <2>1, OffFacts, Zenon DEF Covered
<1> QED
  BY <1>1, <1>2, <1>3, Zenon DEF IndInv, Control, OffPhase

(* A step that changes nothing.                                            *)
LEMMA StutterStep == ASSUME IndInv, UNCHANGED vars PROVE IndInv'
<1>1. UNCHANGED <<ours, theirs, gaps, unchecked, unsynced, client, server, toServer, toClient, quiet>>
  BY Zenon DEF vars, tables, channels, history
<1>2. \A b : Disputed(b)' <=> Disputed(b)
  BY <1>1, DisputedKept
<1>3. Stored'
  BY <1>1, Zenon DEF IndInv, Control, Stored
<1>4. Control'
  <2>1. OffPhase => OffPhase'
    BY <1>1, Zenon DEF OffPhase
  <2>2. FrontierPhase => FrontierPhase'
    BY <1>1, Zenon DEF FrontierPhase, FrontierMessages, Asked, Serves, Answered, Free, Queued
  <2>3. PullPhase => PullPhase'
    BY <1>1, Zenon DEF PullPhase, BlocksThenEnd, Sending, Asked, Serves, Answered, Free, Queued
  <2>4. ProcessPhase => ProcessPhase'
    BY <1>1, Zenon DEF ProcessPhase, Answered, Free, Linked
  <2>5. PushPhase => PushPhase'
    BY <1>1, Zenon DEF PushPhase, PushMessages, Free, Queued, Linked
  <2> QED
    BY <1>3, <2>1, <2>2, <2>3, <2>4, <2>5, Zenon DEF IndInv, Control
<1>5. Covered'
  <2>1. QuietFrontiers => QuietFrontiers'
    <3>1. ASSUME NEW lo, Stream(lo) PROVE Stream(lo)'
      BY <1>1, <3>1, Zenon DEF Stream, Expected, Asked, Free, Queued
    <3>2. ASSUME NEW lo, Compared(lo) PROVE Compared(lo)'
      BY <1>1, <1>2, <3>2, Zenon DEF Compared, PullOK
    <3> QED
      BY <3>1, <3>2, Zenon DEF QuietFrontiers
  <2>2. QuietPulls => QuietPulls'
    BY <1>1, <1>2, Zenon DEF QuietPulls, PushesCovered, Above, PullOK, ToCome, Asked, Free, Queued
  <2>3. QuietProcess => QuietProcess'
    BY <1>1, <1>2, Zenon DEF QuietProcess, PushesCovered
  <2>4. QuietPush => QuietPush'
    <3>1. ASSUME NEW i, NEW b, InOrder(i, b) PROVE InOrder(i, b)'
      BY <1>1, <1>2, <3>1, Zenon DEF InOrder
    <3> QED
      BY <1>1, <1>2, <3>1, Zenon DEF QuietPush
  <2> QED
    BY <1>1, <2>1, <2>2, <2>3, <2>4, Zenon DEF IndInv, Covered
<1> QED
  BY <1>4, <1>5, Zenon DEF IndInv

(* Every step of a session, of a broken connection and of the network      *)
(* keeps the invariant.                                                    *)
LEMMA StepKeeps == ASSUME IndInv, [Next]_vars PROVE IndInv'
<1>1. ASSUME ServerStep PROVE IndInv'
  <2>1. ASSUME SendBlock PROVE IndInv'
    BY <2>1, SendEndStep, SendOneStep, Zenon
  <2> QED
    BY <1>1, <2>1, ReceiveRequestStep, FinishRequestStep, SendFrontierStep, ReceivePushStep, PushEndsStep,
       Zenon DEF ServerStep
<1>2. ASSUME ClientStep PROVE IndInv'
  <2>1. ASSUME ReceivePull PROVE IndInv'
    BY <2>1, ChainEndsStep, BlockPulledStep, Zenon
  <2> QED
    BY <1>2, <2>1, ReceiveFrontierStep, FrontiersEndStep, ProcessEndStep, CompletedPullsStep, PushStep,
       SendFinishedStep, Zenon DEF ClientStep
<1>3. CASE UNCHANGED vars
  BY <1>3, StutterStep, Zenon
<1> QED
  BY <1>1, <1>2, <1>3, ConnectStep, DisconnectStep, ArriveStep, Zenon DEF Next

-----------------------------------------------------------------------------
(* Every reachable state is a state of one phase of a session, and in a    *)
(* quiet one all that the nodes do not share is accounted for.             *)
THEOREM SessionInvariant == Spec => []IndInv
<1>1. Init => IndInv
  BY InitHolds
<1>2. IndInv /\ [Next]_vars => IndInv'
  BY StepKeeps
<1> QED
  BY <1>1, <1>2, PTL DEF Spec

(* The end of the pushes is read only when all pushes are, so that the     *)
(* nodes then differ only by what descends from a fork.                    *)
LEMMA EndMeansAll == IndInv => SessionConverges
<1> SUFFICES ASSUME IndInv, client.at = "done", quiet, server.at = "push", Head(toServer) = NotABlock,
                    NEW b \in (ours \ theirs) \cup (theirs \ ours)
             PROVE  Disputed(b)
  BY Zenon DEF SessionConverges
<1>1. Control /\ Stored /\ PushPhase
  BY PhaseFacts, Zenon DEF IndInv
<1>2. QuietPush
  <2>1. client.at \in {"pushing", "done"}
    OBVIOUS
  <2> QED
    BY <2>1, Zenon DEF IndInv, Covered
<1>3. toServer # <<>> /\ unsynced = {} /\ client.stack = <<>>
  BY <1>1, Zenon DEF PushPhase
<1>4. 1 \in 1..Len(toServer) /\ Head(toServer) = toServer[1]
  <2>1. toServer \in Seq(Requests \cup Blocks)
    BY <1>1, Zenon DEF Stored
  <2> QED
    BY <1>3, <2>1
<1>5. BulkPush # NotABlock /\ \A c : BlockMessage(c) # NotABlock
  BY MessageFacts, Zenon DEF Requests
<1>6. Len(toServer) = 1
  BY <1>1, <1>4, <1>5, Zenon DEF PushPhase, PushMessages
<1>7. \A i \in 1..1 : i = 1
  OBVIOUS
<1>8. \A i \in 1..Len(toServer) : toServer[i] # BlockMessage(b)
  BY <1>4, <1>5, <1>6, <1>7, Zenon
<1>9. ToSet(client.stack) = {}
  <2>1. ToSet(<<>>) = {}
    BY DEF ToSet
  <2> QED
    BY <1>3, <2>1, Zenon
<1>10. b \notin unsynced /\ b \notin ToSet(client.stack)
  BY <1>3, <1>9
<1>11. CASE b \in theirs \ ours
  BY <1>2, <1>11, Zenon DEF QuietPush
<1>12. CASE b \in ours \ theirs
  BY <1>2, <1>8, <1>10, <1>12, Zenon DEF QuietPush
<1> QED
  BY <1>11, <1>12

(* bulk_push_client, bulk_pull_client, frontier_req_client: a session in   *)
(* which nothing else arrived leaves both nodes with the same blocks, but  *)
(* for those that descend from a fork, for chains of any number and length *)
(* and whatever earlier sessions left behind.                              *)
THEOREM SessionsConverge == Spec => []SessionConverges
BY SessionInvariant, EndMeansAll, PTL

(* The block that bulk_push_server reads next waits for nothing.           *)
LEMMA NextInOrder == IndInv => PushedInOrder
<1> SUFFICES ASSUME IndInv, server.at = "push", quiet, toServer # <<>>, Head(toServer) # NotABlock
             PROVE  \/ Verdict(theirs, Head(toServer).block) # "gap"
                    \/ Disputed(Head(toServer).block)
  BY Zenon DEF PushedInOrder
<1>1. Control /\ Stored /\ PushPhase
  BY PhaseFacts, Zenon DEF IndInv
<1>2. QuietPush
  BY <1>1, Zenon DEF IndInv, Covered, PushPhase
<1>3. 1 \in 1..Len(toServer) /\ Head(toServer) = toServer[1]
  <2>1. toServer \in Seq(Requests \cup Blocks)
    BY <1>1, Zenon DEF Stored
  <2> QED
    BY <2>1
<1>4. ~server.reading
  <2>1. "push" # "idle" /\ "push" # "finish"
    OBVIOUS
  <2> QED
    BY <1>1, <2>1, Zenon DEF PushPhase, Free
<1>5. PICK b \in ours : toServer[1] = BlockMessage(b)
  BY <1>1, <1>3, <1>4, Zenon DEF PushPhase, PushMessages
<1>6. Head(toServer).block = b
  BY <1>3, <1>5, MessageFacts, Zenon
<1>7. Disputed(b) \/ \A d \in Dependencies(b) : d \in theirs
  <2>1. InOrder(1, b)
    BY <1>2, <1>3, <1>5, Zenon DEF QuietPush
  <2>2. 1..(1 - 1) = {}
    OBVIOUS
  <2> QED
    BY <2>1, <2>2 DEF InOrder
<1>8. ASSUME \A d \in Dependencies(b) : d \in theirs PROVE Verdict(theirs, b) # "gap"
  <2>1. Dependencies(b) \subseteq theirs
    BY <1>8
  <2>2. theirs \in Ledgers /\ b \in Hash
    BY <1>1, LedgerFacts DEF Stored
  <2> QED
    BY <2>1, <2>2, ProcessedFacts, Zenon
<1> QED
  BY <1>6, <1>7, <1>8, Zenon

(* block_synchronization: during such a session a block is pushed only     *)
(* after all that it depends on, for chains of any shape.                  *)
THEOREM PushesInOrder == Spec => []PushedInOrder
BY SessionInvariant, NextInOrder, PTL

(* process_end: nothing that was pulled during such a session is thrown    *)
(* away, unless it descends from a fork.                                   *)
THEOREM PullsAreKept == Spec => PulledIsKept
<1> DEFINE Kept == quiet /\ client.at = "processing" =>
                      \A b \in unchecked \ unchecked' : b \in ours' \/ Disputed(b)
<1>1. IndInv /\ [Next]_vars => [Kept]_vars
  <2> SUFFICES ASSUME IndInv, Next, quiet, client.at = "processing"
               PROVE  Kept
    BY Zenon
  <2>1. ASSUME unchecked' = unchecked PROVE Kept
    BY <2>1
  <2>2. ASSUME ProcessEnd PROVE Kept
    BY <2>2, ProcessEndStep, Zenon
  <2>3. client.at # "frontiers" /\ client.at # "pulling"
    OBVIOUS
  <2>4. ASSUME ServerStep PROVE Kept
    BY <2>1, <2>4, Zenon DEF ServerStep, ReceiveRequest, FinishRequest, SendFrontier, SendBlock, ReceivePush,
       PushEnds, tables
  <2>5. ASSUME ClientStep PROVE Kept
    <3>1. ~ReceiveFrontier /\ ~FrontiersEnd /\ ~ReceivePull
      BY <2>3, Zenon DEF ReceiveFrontier, FrontiersEnd, ReceivePull
    <3>2. CompletedPulls \/ Push \/ SendFinished => unchecked' = unchecked
      BY Zenon DEF CompletedPulls, Push, SendFinished, tables
    <3> QED
      BY <2>1, <2>2, <2>5, <3>1, <3>2, Zenon DEF ClientStep
  <2>6. Connect \/ Disconnect \/ (\E b \in Hash : Arrive(b)) => unchecked' = unchecked
    BY Zenon DEF Connect, Disconnect, Arrive, tables
  <2> QED
    BY <2>1, <2>4, <2>5, <2>6, Zenon DEF Next
<1> QED
  BY <1>1, SessionInvariant, PTL DEF Spec, PulledIsKept
=============================================================================
