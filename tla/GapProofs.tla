----------------------------- MODULE GapProofs ------------------------------
(***************************************************************************)
(* GapCache with any universe of blocks, any threads and any limit of the  *)
(* cache: the tables stay consistent, the cache stays within its limit and *)
(* its indices stay unique, and a gap of the cache is a gap of the ledger. *)
(***************************************************************************)
EXTENDS GapCache, TableProofs

(* The cache: at most MaxGaps entries, unique by both of its indices.      *)
Unique(queue) ==
    \A i, j \in 1..Len(queue) :
        queue[i].required = queue[j].required \/ queue[i].block = queue[j].block => i = j

CacheType == gaps \in Seq(Gap) /\ Len(gaps) <= MaxGaps /\ Unique(gaps)

(* Who is about to cache a block knows the hash that is missing.           *)
HandType ==
    /\ hand \in [Thread -> Hand \cup {AtRest}]
    /\ \A t \in Thread : hand[t].at = "cache" => hand[t].required \in Hash

(* As long as nothing was given up, whoever closed the gap of an entry of  *)
(* the cache has yet to look for it there.                                 *)
ClosedInHand ==
    lossless => \A i \in 1..Len(gaps) :
        \/ gaps[i].required \notin store.blocks
        \/ \E t \in Thread : hand[t].at = "next" /\ hand[t].block = gaps[i].required

IndInv ==
    /\ TablesInv(store) /\ CacheType /\ HandType /\ ClosedInHand
    /\ arrived \subseteq Hash /\ lossless \in BOOLEAN

-----------------------------------------------------------------------------
(* Sequences.                                                              *)

(* What is left of a sequence without one of its elements.                 *)
LEMMA RemovedFacts ==
    ASSUME NEW S, NEW queue \in Seq(S), NEW i \in 1..Len(queue)
    PROVE  LET rest == SubSeq(queue, 1, i - 1) \o SubSeq(queue, i + 1, Len(queue))
           IN /\ rest \in Seq(S) /\ Len(rest) = Len(queue) - 1
              /\ \A j \in 1..(Len(queue) - 1) : rest[j] = IF j < i THEN queue[j] ELSE queue[j + 1]
<1> DEFINE n == Len(queue)
           left == SubSeq(queue, 1, i - 1)
           right == SubSeq(queue, i + 1, n)
<1>1. n \in Nat /\ i \in 1..n /\ i \in Nat
  OBVIOUS
<1>2. /\ left \in Seq(S) /\ Len(left) = i - 1
      /\ \A j \in 1..(i - 1) : left[j] = queue[j]
  BY <1>1
<1>3. /\ right \in Seq(S) /\ Len(right) = n - i
      /\ \A j \in 1..(n - i) : right[j] = queue[i + j]
  BY <1>1
<1> HIDE DEF left, right, n
<1>4. left \o right \in Seq(S) /\ Len(left \o right) = n - 1
  BY <1>1, <1>2, <1>3
<1>5. ASSUME NEW j \in 1..(n - 1)
      PROVE  (left \o right)[j] = IF j < i THEN queue[j] ELSE queue[j + 1]
  <2>1. CASE j < i
    BY <1>1, <1>2, <1>3, <2>1
  <2>2. CASE ~(j < i)
    <3>1. /\ (left \o right)[j] = right[j - (i - 1)]
      BY <1>1, <1>2, <1>3, <2>2
    <3>2. j - (i - 1) \in 1..(n - i) /\ i + (j - (i - 1)) = j + 1
      BY <1>1, <2>2
    <3>3. right[j - (i - 1)] = queue[j + 1]
      BY <1>3, <3>2
    <3> QED
      BY <2>2, <3>1, <3>3
  <2> QED
    BY <2>1, <2>2, Zenon
<1> QED
  BY <1>4, <1>5, Zenon DEF left, right, n

(* gap_cache::get and the renewal of an arrival: the entry for a hash is   *)
(* the only one, and without it the cache is the rest.                     *)
LEMMA WithoutFacts ==
    ASSUME CacheType, NEW h, Waits(h)
    PROVE  /\ Entry(h) \in 1..Len(gaps) /\ gaps[Entry(h)].required = h /\ gaps[Entry(h)] \in Gap
           /\ Without(h) \in Seq(Gap) /\ Len(Without(h)) = Len(gaps) - 1
           /\ \A j \in 1..Len(Without(h)) :
                 \E k \in 1..Len(gaps) : k # Entry(h) /\ Without(h)[j] = gaps[k]
           /\ \A j \in 1..Len(Without(h)) : Without(h)[j].required # h
                                            /\ Without(h)[j].block # gaps[Entry(h)].block
           /\ Unique(Without(h))
           /\ \A k \in 1..Len(gaps) :
                 k # Entry(h) => \E j \in 1..Len(Without(h)) : Without(h)[j] = gaps[k]
<1> DEFINE e == Entry(h)
           rest == Without(h)
<1>1. /\ gaps \in Seq(Gap) /\ Unique(gaps) /\ DOMAIN gaps = 1..Len(gaps) /\ Len(gaps) \in Nat
  BY DEF CacheType
<1>2. e \in 1..Len(gaps) /\ gaps[e].required = h
  BY <1>1 DEF Waits, Entry
<1>3. gaps[e] \in Gap
  BY <1>1, <1>2
<1>4. /\ rest \in Seq(Gap) /\ Len(rest) = Len(gaps) - 1
      /\ \A j \in 1..(Len(gaps) - 1) : rest[j] = IF j < e THEN gaps[j] ELSE gaps[j + 1]
  <2> DEFINE copy == SubSeq(gaps, 1, e - 1) \o SubSeq(gaps, e + 1, Len(gaps))
  <2>1. rest = copy
    BY DEF Without
  <2> HIDE DEF e, rest
  <2>2. /\ copy \in Seq(Gap) /\ Len(copy) = Len(gaps) - 1
        /\ \A j \in 1..(Len(gaps) - 1) : copy[j] = IF j < e THEN gaps[j] ELSE gaps[j + 1]
    BY <1>1, <1>2, RemovedFacts, Zenon
  <2> QED
    BY <2>1, <2>2, Zenon
<1> HIDE DEF e, rest
<1>5. ASSUME NEW j \in 1..Len(rest)
      PROVE  \E k \in 1..Len(gaps) : k # e /\ rest[j] = gaps[k] /\ k = IF j < e THEN j ELSE j + 1
  <2>1. CASE j < e
    BY <1>1, <1>2, <1>4, <2>1
  <2>2. CASE ~(j < e)
    <3>1. j + 1 \in 1..Len(gaps) /\ j + 1 # e /\ rest[j] = gaps[j + 1]
      BY <1>1, <1>2, <1>4, <2>2
    <3> QED
      BY <2>2, <3>1
  <2> QED
    BY <2>1, <2>2
<1>6. \A j \in 1..Len(rest) : rest[j].required # h /\ rest[j].block # gaps[e].block
  BY <1>1, <1>2, <1>5 DEF Unique
<1>7. Unique(rest)
  <2> SUFFICES ASSUME NEW i \in 1..Len(rest), NEW j \in 1..Len(rest),
                      rest[i].required = rest[j].required \/ rest[i].block = rest[j].block
               PROVE  i = j
    BY DEF Unique
  <2>1. PICK k \in 1..Len(gaps) : rest[i] = gaps[k] /\ k = IF i < e THEN i ELSE i + 1
    BY <1>5
  <2>2. PICK l \in 1..Len(gaps) : rest[j] = gaps[l] /\ l = IF j < e THEN j ELSE j + 1
    BY <1>5
  <2>3. k = l
    BY <1>1, <2>1, <2>2 DEF Unique
  <2>4. i \in Nat /\ j \in Nat /\ e \in Nat
    BY <1>1, <1>2, <1>4
  <2> QED
    BY <2>1, <2>2, <2>3, <2>4
<1>8. ASSUME NEW k \in 1..Len(gaps), k # e
      PROVE  \E j \in 1..Len(rest) : rest[j] = gaps[k]
  <2>1. CASE k < e
    BY <1>1, <1>2, <1>4, <2>1
  <2>2. CASE ~(k < e)
    <3>1. k - 1 \in 1..Len(rest) /\ ~(k - 1 < e) /\ (k - 1) + 1 = k
      BY <1>1, <1>2, <1>4, <1>8, <2>2
    <3>2. rest[k - 1] = gaps[k]
      BY <1>4, <3>1
    <3> QED
      BY <3>1, <3>2
  <2> QED
    BY <2>1, <2>2
<1> QED
  BY <1>2, <1>3, <1>4, <1>5, <1>6, <1>7, <1>8 DEF e, rest

(* gap_cache::add: every entry of the cache was there before or is the new *)
(* one, and the limit and the uniqueness of the indices are kept.          *)
LEMMA AddedFacts ==
    ASSUME CacheType, NEW required \in Hash, NEW h \in Hash, NEW queue, queue = Added(required, h)
    PROVE  /\ queue \in Seq(Gap) /\ Len(queue) <= MaxGaps /\ Unique(queue)
           /\ \A j \in 1..Len(queue) : \/ queue[j].required = required
                                       \/ \E k \in 1..Len(gaps) : queue[j] = gaps[k]
<1> DEFINE new == [required |-> required, block |-> h]
<1>0. /\ gaps \in Seq(Gap) /\ Len(gaps) \in Nat /\ Len(gaps) <= MaxGaps /\ Unique(gaps)
      /\ DOMAIN gaps = 1..Len(gaps) /\ MaxGaps \in Nat \ {0}
  BY GapAssumption DEF CacheType
<1>1. CASE Waits(required)
  <2> DEFINE rest == Without(required)
             old == gaps[Entry(required)]
  <2>1. /\ old \in Gap /\ old.required = required
        /\ rest \in Seq(Gap) /\ Len(rest) = Len(gaps) - 1 /\ Unique(rest)
        /\ \A j \in 1..Len(rest) : \E k \in 1..Len(gaps) : rest[j] = gaps[k]
        /\ \A j \in 1..Len(rest) : rest[j].required # required /\ rest[j].block # old.block
    BY <1>1, WithoutFacts
  <2>2. queue = Append(rest, old)
    BY <1>1 DEF Added
  <2> HIDE DEF rest, old
  <2>3. /\ queue \in Seq(Gap) /\ Len(queue) = Len(rest) + 1 /\ queue[Len(queue)] = old
        /\ \A j \in 1..Len(rest) : queue[j] = rest[j]
    BY <2>1, <2>2
  <2>4. Len(queue) <= MaxGaps
    BY <1>0, <2>1, <2>3
  <2>5. \A j \in 1..Len(queue) : j \in 1..Len(rest) \/ j = Len(queue)
    BY <2>1, <2>3
  <2>6. Unique(queue)
    <3>1. \A i, j \in 1..Len(rest) :
             queue[i].required = queue[j].required \/ queue[i].block = queue[j].block => i = j
      <4> SUFFICES ASSUME NEW i \in 1..Len(rest), NEW j \in 1..Len(rest),
                          queue[i].required = queue[j].required \/ queue[i].block = queue[j].block
                   PROVE  i = j
        OBVIOUS
      <4>1. queue[i] = rest[i] /\ queue[j] = rest[j] /\ Unique(rest)
        BY <2>1, <2>3, Zenon
      <4> QED
        BY <4>1 DEF Unique
    <3>2. \A j \in 1..Len(rest) : /\ queue[j].required # queue[Len(queue)].required
                                   /\ queue[j].block # queue[Len(queue)].block
      BY <2>1, <2>3, Zenon
    <3> QED
      BY <2>5, <3>1, <3>2 DEF Unique
  <2> QED
    BY <2>1, <2>3, <2>4, <2>5, <2>6
<1>2. CASE ~Waits(required) /\ Cached(h)
  <2>1. queue = gaps
    BY <1>2 DEF Added
  <2> QED
    BY <1>0, <2>1
<1>3. CASE ~Waits(required) /\ ~Cached(h)
  <2> DEFINE more == Append(gaps, new)
  <2>1. queue = IF Len(more) > MaxGaps THEN Tail(more) ELSE more
    BY <1>3 DEF Added
  <2>2. /\ more \in Seq(Gap) /\ Len(more) = Len(gaps) + 1 /\ more[Len(gaps) + 1] = new
        /\ \A j \in 1..Len(gaps) : more[j] = gaps[j]
    BY <1>0 DEF Gap
  <2>3. new.required = required /\ new.block = h
    OBVIOUS
  <2>4. \A j \in 1..Len(gaps) : gaps[j].required # required /\ gaps[j].block # h
    BY <1>0, <1>3 DEF Waits, Cached
  <2> HIDE DEF more, new
  <2>5. \A j \in 1..Len(more) : j \in 1..Len(gaps) \/ j = Len(gaps) + 1
    BY <1>0, <2>2
  <2>6. Unique(more)
    <3>1. \A i, j \in 1..Len(gaps) :
             more[i].required = more[j].required \/ more[i].block = more[j].block => i = j
      BY <1>0, <2>2 DEF Unique
    <3>2. \A j \in 1..Len(gaps) : /\ more[j].required # more[Len(gaps) + 1].required
                                   /\ more[j].block # more[Len(gaps) + 1].block
      BY <2>2, <2>3, <2>4
    <3> QED
      BY <2>5, <3>1, <3>2 DEF Unique
  <2>7. \A j \in 1..Len(more) : \/ more[j].required = required
                                \/ \E k \in 1..Len(gaps) : more[j] = gaps[k]
    BY <2>2, <2>3, <2>5
  <2>8. CASE Len(more) > MaxGaps
    <3>1. queue = Tail(more)
      BY <2>1, <2>8
    <3>2. Len(more) \in Nat /\ Len(more) # 0
      BY <1>0, <2>2
    <3>3. /\ queue \in Seq(Gap) /\ Len(queue) = Len(more) - 1
          /\ \A j \in 1..Len(queue) : queue[j] = more[j + 1]
      BY <2>2, <3>1, <3>2
    <3>4. Len(queue) \in Nat /\ \A j \in 1..Len(queue) : j \in Nat /\ j + 1 \in 1..Len(more)
      BY <3>2, <3>3
    <3>5. Len(queue) <= MaxGaps
      BY <1>0, <2>2, <3>3
    <3>6. Unique(queue)
      <4> SUFFICES ASSUME NEW i \in 1..Len(queue), NEW j \in 1..Len(queue),
                          queue[i].required = queue[j].required \/ queue[i].block = queue[j].block
                   PROVE  i = j
        BY DEF Unique
      <4>1. /\ i + 1 \in 1..Len(more) /\ j + 1 \in 1..Len(more)
            /\ queue[i] = more[i + 1] /\ queue[j] = more[j + 1]
        BY <3>3, <3>4
      <4>2. \/ more[i + 1].required = more[j + 1].required
            \/ more[i + 1].block = more[j + 1].block
        BY <4>1, Zenon
      <4>3. i + 1 = j + 1
        BY <2>6, <4>1, <4>2, Zenon DEF Unique
      <4> QED
        BY <3>4, <4>3
    <3> QED
      BY <2>7, <3>3, <3>4, <3>5, <3>6
  <2>9. CASE ~(Len(more) > MaxGaps)
    <3>1. queue = more /\ Len(more) <= MaxGaps
      BY <1>0, <2>1, <2>2, <2>9
    <3> QED
      BY <2>2, <2>6, <2>7, <3>1
  <2> QED
    BY <2>8, <2>9
<1> QED
  BY <1>1, <1>2, <1>3

-----------------------------------------------------------------------------
(* The steps.                                                              *)

(* Only the owner of a chain makes progress, and progress stores the block *)
(* and nothing else.                                                       *)
LEMMA ProgressFacts ==
    ASSUME NEW s, TablesInv(s), NEW h \in Hash, ProcessResult(s, h, AccountOf[h]) = "progress"
    PROVE  AccountOf[h] \in Account /\ Processed(s, h).blocks = s.blocks \cup {h}
<1>1. s.frontiers \in [Hash -> Account \cup {NoAccount}]
  BY InvFacts
<1>2. CASE IsSend(h)
  <2>1. SendResult(s, h, AccountOf[h]) = "progress" /\ Processed(s, h) = SendBlockEffect(s, h)
    BY <1>2, BlockFacts DEF ProcessResult, Processed
  <2>2. AccountOf[h] \in Account
    BY <1>1, <1>2, <2>1, BlockFacts DEF SendResult
  <2>3. SendBlockEffect(s, h).blocks = s.blocks \cup {h}
    BY DEF SendBlockEffect
  <2> QED
    BY <2>1, <2>2, <2>3
<1>3. CASE IsChange(h)
  <2>1. ChangeResult(s, h, AccountOf[h]) = "progress" /\ Processed(s, h) = ChangeBlockEffect(s, h)
    BY <1>3, BlockFacts DEF ProcessResult, Processed
  <2>2. AccountOf[h] \in Account
    BY <1>1, <1>3, <2>1, BlockFacts DEF ChangeResult
  <2>3. ChangeBlockEffect(s, h).blocks = s.blocks \cup {h}
    BY DEF ChangeBlockEffect
  <2> QED
    BY <2>1, <2>2, <2>3
<1>4. CASE IsReceive(h)
  <2>1. ReceiveResult(s, h, AccountOf[h]) = "progress" /\ Processed(s, h) = ReceiveBlockEffect(s, h)
    BY <1>4, BlockFacts DEF ProcessResult, Processed
  <2>2. Block[h].source \in Hash /\ s.pending[Block[h].source] # NoReceivable
    BY <1>4, <2>1, BlockFacts, Zenon DEF ReceiveResult
  <2>3. s.pending[Block[h].source].destination \in Account
    BY <2>2, ReceivableFacts
  <2>4. AccountOf[h] = s.pending[Block[h].source].destination
    BY <2>1 DEF ReceiveResult
  <2>5. ReceiveBlockEffect(s, h).blocks = s.blocks \cup {h}
    BY DEF ReceiveBlockEffect
  <2> QED
    BY <2>1, <2>3, <2>4, <2>5
<1>5. CASE IsOpen(h)
  <2>1. OpenResult(s, h, AccountOf[h]) = "progress" /\ Processed(s, h) = OpenBlockEffect(s, h)
    BY <1>5, BlockFacts DEF ProcessResult, Processed
  <2>2. AccountOf[h] \in Account
    BY <1>5, BlockFacts, WalksUnfold
  <2>3. OpenBlockEffect(s, h).blocks = s.blocks \cup {h}
    BY DEF OpenBlockEffect
  <2> QED
    BY <2>1, <2>2, <2>3
<1> QED
  BY <1>2, <1>3, <1>4, <1>5, BlockFacts

(* The two gap verdicts name a hash that the block refers to.              *)
LEMMA GapFacts ==
    ASSUME NEW s, TablesInv(s), NEW h \in Hash, NEW signer
    PROVE  /\ ProcessResult(s, h, signer) = "gap_previous" => Block[h].previous \in Hash
           /\ ProcessResult(s, h, signer) = "gap_source" => Block[h].source \in Hash
<1>1. GenesisHash \in s.blocks
  BY InvFacts
<1>2. CASE IsSend(h)
  <2>1. ProcessResult(s, h, signer) = SendResult(s, h, signer) /\ Block[h].previous \in Hash
    BY <1>2, BlockFacts DEF ProcessResult
  <2> QED
    BY <2>1 DEF SendResult
<1>3. CASE IsChange(h)
  <2>1. ProcessResult(s, h, signer) = ChangeResult(s, h, signer) /\ Block[h].previous \in Hash
    BY <1>3, BlockFacts DEF ProcessResult
  <2> QED
    BY <2>1 DEF ChangeResult
<1>4. CASE IsReceive(h)
  BY <1>4, BlockFacts
<1>5. CASE IsOpen(h)
  <2>1. ProcessResult(s, h, signer) = OpenResult(s, h, signer)
    BY <1>5, BlockFacts DEF ProcessResult
  <2>2. h # GenesisHash => Block[h].source \in Hash
    BY <1>5, BlockFacts
  <2> QED
    BY <1>1, <2>1, <2>2 DEF OpenResult
<1> QED
  BY <1>2, <1>3, <1>4, <1>5, BlockFacts

(* What the hands of the threads hold.                                     *)
LEMMA HandFacts ==
    ASSUME HandType, NEW t \in Thread
    PROVE  /\ hand[t].at # "rest" => hand[t] \in Hand
           /\ hand[t].at # "rest" => hand[t].block \in Hash
           /\ hand[t].at = "cache" => hand[t].required \in Hash
           /\ AtRest.at = "rest"
<1>1. hand[t] \in Hand \cup {AtRest} /\ AtRest.at = "rest"
  BY DEF HandType, AtRest
<1>2. hand[t].at # "rest" => hand[t] \in Hand
  BY <1>1
<1>3. hand[t] \in Hand => hand[t].block \in Hash
  BY DEF Hand
<1> QED
  BY <1>1, <1>2, <1>3 DEF HandType

(* The hand of one thread changes to something of the right type.          *)
LEMMA HandChanges ==
    ASSUME HandType, NEW t \in Thread, NEW new \in Hand \cup {AtRest},
           new.at = "cache" => new.required \in Hash,
           hand' = [hand EXCEPT ![t] = new]
    PROVE  /\ HandType' /\ hand'[t] = new
           /\ \A u \in Thread : u # t => hand'[u] = hand[u]
<1>1. hand \in [Thread -> Hand \cup {AtRest}]
  BY DEF HandType
<1>2. hand'[t] = new /\ \A u \in Thread : u # t => hand'[u] = hand[u]
  BY <1>1
<1>3. hand' \in [Thread -> Hand \cup {AtRest}]
  BY <1>1
<1>4. \A u \in Thread : hand'[u].at = "cache" => hand'[u].required \in Hash
  BY <1>2 DEF HandType
<1> QED
  BY <1>2, <1>3, <1>4 DEF HandType

(* A block arrives.                                                        *)
LEMMA DeliverStep ==
    ASSUME IndInv, NEW t \in Thread, NEW h \in Hash, NEW caller \in {"republish", "pull"},
           Deliver(t, h, caller)
    PROVE  IndInv'
<1> DEFINE new == [at |-> "process", block |-> h, required |-> NoHash, by |-> caller]
<1>1. new \in Hand /\ new.at = "process"
  BY DEF Hand
<1>2. hand' = [hand EXCEPT ![t] = new] /\ hand[t].at = "rest"
  BY DEF Deliver, AtRest
<1> HIDE DEF new
<1>3. HandType' /\ \A u \in Thread : u # t => hand'[u] = hand[u]
  BY <1>1, <1>2, HandChanges, Zenon DEF IndInv
<1>4. ClosedInHand'
  BY <1>2, <1>3 DEF IndInv, ClosedInHand, Deliver
<1>5. TablesInv(store)' /\ CacheType' /\ arrived' \subseteq Hash /\ lossless' \in BOOLEAN
  <2>1. store' = store /\ gaps' = gaps /\ lossless' = lossless /\ arrived' = arrived \cup {h}
    BY DEF Deliver
  <2>2. CacheType'
    BY <2>1 DEF IndInv, CacheType, Unique
  <2>3. TablesInv(store')
    BY <2>1 DEF IndInv
  <2>4. lossless' \in BOOLEAN
    BY <2>1, Zenon DEF IndInv
  <2> QED
    BY <2>1, <2>2, <2>3, <2>4 DEF IndInv
<1> QED
  BY <1>3, <1>4, <1>5 DEF IndInv

(* One block is processed in one transaction.                              *)
LEMMA ProcessReceiveStep ==
    ASSUME IndInv, NEW t \in Thread, ProcessReceive(t)
    PROVE  IndInv'
<1> DEFINE task == hand[t]
           h == task.block
           verdict == ProcessResult(store, h, AccountOf[h])
           new == After(task, verdict)
<1>1. /\ task.at = "process" /\ gaps' = gaps /\ arrived' = arrived /\ lossless' = lossless
      /\ verdict = "progress" => ProcessFailure(store, h) = "none"
      /\ store' = IF verdict = "progress" THEN Processed(store, h) ELSE store
  BY DEF ProcessReceive
<1>2. TablesInv(store) /\ HandType /\ CacheType /\ ClosedInHand
  BY DEF IndInv
<1>3. task \in Hand /\ h \in Hash
  BY <1>1, <1>2, HandFacts
<1>4. hand' = [hand EXCEPT ![t] = new]
  <2>1. hand \in [Thread -> Hand \cup {AtRest}]
    BY <1>2 DEF HandType
  <2> QED
    BY <2>1 DEF ProcessReceive
<1>5. /\ new \in Hand
      /\ new.at = "cache" => new.required \in Hash
      /\ verdict = "progress" => new.at = "next" /\ new.block = h
  <2>1. /\ verdict = "gap_previous" => Block[h].previous \in Hash
        /\ verdict = "gap_source" => Block[h].source \in Hash
    BY <1>2, <1>3, GapFacts
  <2> HIDE DEF verdict
  <2>2. CASE verdict = "gap_previous"
    <3>1. new = [task EXCEPT !.at = "cache", !.required = Block[h].previous]
      BY <2>2 DEF After
    <3> QED
      BY <1>3, <2>1, <2>2, <3>1, Zenon DEF Hand
  <2>3. CASE verdict = "gap_source"
    <3>1. new = [task EXCEPT !.at = "cache", !.required = Block[h].source]
      BY <2>3 DEF After
    <3> QED
      BY <1>3, <2>1, <2>3, <3>1, Zenon DEF Hand
  <2>4. CASE verdict \notin {"gap_previous", "gap_source"}
    <3>1. new = [task EXCEPT !.at = "next"]
      BY <2>4 DEF After
    <3> QED
      BY <1>3, <3>1 DEF Hand
  <2> QED
    BY <2>2, <2>3, <2>4
<1>6. TablesInv(store') /\ store'.blocks \subseteq store.blocks \cup {h}
                        /\ (h \in store'.blocks => h \in store.blocks \/ verdict = "progress")
  <2>1. CASE verdict = "progress"
    <3>1. AccountOf[h] \in Account /\ Processed(store, h).blocks = store.blocks \cup {h}
      BY <1>2, <1>3, <2>1, ProgressFacts
    <3>2. TablesInv(Processed(store, h))
      BY <1>1, <1>2, <1>3, <2>1, <3>1, ProcessKeepsInv
    <3> QED
      BY <1>1, <2>1, <3>1, <3>2
  <2>2. CASE verdict # "progress"
    BY <1>1, <1>2, <2>2
  <2> QED
    BY <2>1, <2>2
<1> HIDE DEF new, verdict, h, task
<1>7. HandType' /\ hand'[t] = new /\ \A u \in Thread : u # t => hand'[u] = hand[u]
  BY <1>2, <1>4, <1>5, HandChanges, Zenon
<1>8. ClosedInHand'
  <2> SUFFICES ASSUME lossless', NEW i \in 1..Len(gaps'), gaps'[i].required \in store'.blocks
               PROVE  \E u \in Thread : hand'[u].at = "next" /\ hand'[u].block = gaps'[i].required
    BY DEF ClosedInHand
  <2>1. CASE gaps[i].required \in store.blocks
    <3>1. PICK u \in Thread : hand[u].at = "next" /\ hand[u].block = gaps[i].required
      BY <1>1, <1>2, <2>1 DEF ClosedInHand
    <3>2. u # t
      BY <1>1, <3>1 DEF task
    <3> QED
      BY <1>1, <1>7, <3>1, <3>2
  <2>2. CASE gaps[i].required \notin store.blocks
    <3>1. gaps[i].required = h /\ verdict = "progress"
      BY <1>1, <1>6, <2>2
    <3> QED
      BY <1>1, <1>5, <1>7, <3>1
  <2> QED
    BY <2>1, <2>2
<1>9. CacheType'
  BY <1>1, <1>2 DEF CacheType, Unique
<1>10. arrived' \subseteq Hash /\ lossless' \in BOOLEAN
  BY <1>1, Zenon DEF IndInv
<1> QED
  BY <1>6, <1>7, <1>8, <1>9, <1>10 DEF IndInv

(* A block with a gap is cached.                                           *)
LEMMA CacheGapStep ==
    ASSUME IndInv, NEW t \in Thread, CacheGap(t)
    PROVE  IndInv'
<1> DEFINE task == hand[t]
           new == [task EXCEPT !.at = "next"]
<1>1. /\ task.at = "cache" /\ store' = store /\ arrived' = arrived
      /\ gaps' = Added(task.required, task.block)
      /\ lossless' => lossless /\ task.required \notin store.blocks
  BY Zenon DEF CacheGap
<1>2. TablesInv(store) /\ HandType /\ CacheType /\ ClosedInHand /\ arrived \subseteq Hash
  BY DEF IndInv
<1>3. task \in Hand /\ task.block \in Hash /\ task.required \in Hash
  BY <1>1, <1>2, HandFacts
<1>4. hand' = [hand EXCEPT ![t] = new]
  <2>1. hand \in [Thread -> Hand \cup {AtRest}]
    BY <1>2 DEF HandType
  <2> QED
    BY <2>1 DEF CacheGap
<1>5. new \in Hand /\ new.at = "next"
  BY <1>3 DEF Hand
<1> HIDE DEF new, task
<1>6. HandType' /\ \A u \in Thread : u # t => hand'[u] = hand[u]
  BY <1>2, <1>4, <1>5, HandChanges, Zenon
<1>7. /\ gaps' \in Seq(Gap) /\ Len(gaps') <= MaxGaps /\ Unique(gaps')
      /\ \A j \in 1..Len(gaps') : \/ gaps'[j].required = task.required
                                  \/ \E k \in 1..Len(gaps) : gaps'[j] = gaps[k]
  BY <1>1, <1>2, <1>3, AddedFacts
<1>8. CacheType'
  BY <1>7 DEF CacheType, Unique
<1>9. ClosedInHand'
  <2> SUFFICES ASSUME lossless', NEW i \in 1..Len(gaps'), gaps'[i].required \in store'.blocks
               PROVE  \E u \in Thread : hand'[u].at = "next" /\ hand'[u].block = gaps'[i].required
    BY DEF ClosedInHand
  <2>1. PICK k \in 1..Len(gaps) : gaps'[i] = gaps[k]
    BY <1>1, <1>7
  <2>2. PICK u \in Thread : hand[u].at = "next" /\ hand[u].block = gaps[k].required
    BY <1>1, <1>2, <2>1 DEF ClosedInHand
  <2>3. u # t
    BY <1>1, <2>2 DEF task
  <2> QED
    BY <1>6, <2>1, <2>2, <2>3
<1>10. lossless' \in BOOLEAN
  BY Zenon DEF CacheGap
<1> QED
  BY <1>1, <1>2, <1>6, <1>8, <1>9, <1>10 DEF IndInv

(* The loop takes the block that waits for this one, or ends.              *)
LEMMA NextGapStep ==
    ASSUME IndInv, NEW t \in Thread, NextGap(t)
    PROVE  IndInv'
<1> DEFINE h == hand[t].block
           follow == hand[t].by = "republish" /\ Waits(h)
           taken == [at |-> "process", required |-> NoHash, by |-> "republish",
                     block |-> gaps[Entry(h)].block]
           new == IF follow THEN taken ELSE AtRest
<1>1. /\ hand[t].at = "next" /\ store' = store /\ arrived' = arrived
      /\ hand' = [hand EXCEPT ![t] = new]
      /\ gaps' = IF follow THEN Without(h) ELSE gaps
      /\ lossless' => lossless /\ ~(hand[t].by = "pull" /\ Waits(h))
  BY Zenon DEF NextGap
<1>2. TablesInv(store) /\ HandType /\ CacheType /\ ClosedInHand /\ arrived \subseteq Hash
  BY DEF IndInv
<1>3. hand[t] \in Hand /\ h \in Hash /\ hand[t].by \in {"republish", "pull"}
  <2>1. hand[t] \in Hand
    BY <1>1, <1>2, HandFacts
  <2> QED
    BY <2>1 DEF Hand
<1>4. follow => /\ gaps[Entry(h)] \in Gap
                /\ Without(h) \in Seq(Gap) /\ Len(Without(h)) = Len(gaps) - 1 /\ Unique(Without(h))
                /\ \A j \in 1..Len(Without(h)) : \E k \in 1..Len(gaps) : Without(h)[j] = gaps[k]
                /\ \A j \in 1..Len(Without(h)) : Without(h)[j].required # h
  BY <1>2, WithoutFacts
<1>5. new \in Hand \cup {AtRest} /\ new.at # "cache"
  <2>1. follow => taken \in Hand
    BY <1>4 DEF Hand, Gap
  <2> QED
    BY <2>1 DEF AtRest
<1>6. /\ gaps' \in Seq(Gap) /\ Len(gaps') <= MaxGaps /\ Unique(gaps')
      /\ \A j \in 1..Len(gaps') : \E k \in 1..Len(gaps) : gaps'[j] = gaps[k]
      /\ lossless' => \A j \in 1..Len(gaps') : gaps'[j].required # h
  <2>1. gaps \in Seq(Gap) /\ Len(gaps) \in Nat /\ Len(gaps) <= MaxGaps /\ MaxGaps \in Nat /\ Unique(gaps)
    BY <1>2, GapAssumption DEF CacheType
  <2>2. CASE follow
    <3>1. gaps' = Without(h)
      BY <1>1, <2>2
    <3>2. Len(Without(h)) <= MaxGaps
      <4>1. Len(Without(h)) = Len(gaps) - 1
        BY <1>4, <2>2, Zenon
      <4>2. Len(gaps) - 1 <= MaxGaps
        BY <2>1
      <4> QED
        BY <4>1, <4>2, Zenon
    <3> QED
      BY <1>4, <2>2, <3>1, <3>2, Zenon
  <2>3. CASE ~follow
    <3>1. gaps' = gaps
      BY <1>1, <2>3
    <3>2. lossless' => ~Waits(h)
      BY <1>1, <1>3, <2>3
    <3>3. lossless' => \A j \in 1..Len(gaps) : gaps[j].required # h
      BY <2>1, <3>2 DEF Waits
    <3> QED
      BY <2>1, <3>1, <3>3
  <2> QED
    BY <2>2, <2>3
<1> HIDE DEF new, follow, taken, h
<1>7. HandType' /\ \A u \in Thread : u # t => hand'[u] = hand[u]
  BY <1>1, <1>2, <1>5, HandChanges, Zenon
<1>8. CacheType'
  BY <1>6 DEF CacheType, Unique
<1>9. ClosedInHand'
  <2> SUFFICES ASSUME lossless', NEW i \in 1..Len(gaps'), gaps'[i].required \in store'.blocks
               PROVE  \E u \in Thread : hand'[u].at = "next" /\ hand'[u].block = gaps'[i].required
    BY DEF ClosedInHand
  <2>1. PICK k \in 1..Len(gaps) : gaps'[i] = gaps[k]
    BY <1>6
  <2>2. PICK u \in Thread : hand[u].at = "next" /\ hand[u].block = gaps[k].required
    BY <1>1, <1>2, <2>1 DEF ClosedInHand
  <2>3. gaps'[i].required # h
    BY <1>6
  <2>4. u # t
    BY <2>1, <2>2, <2>3 DEF h
  <2> QED
    BY <1>7, <2>1, <2>2, <2>4
<1>10. lossless' \in BOOLEAN
  BY Zenon DEF NextGap
<1> QED
  BY <1>1, <1>2, <1>7, <1>8, <1>9, <1>10 DEF IndInv

(* The node starts with the genesis block and an empty cache.              *)
LEMMA InitKeepsInv == Init => IndInv
<1> SUFFICES ASSUME Init PROVE IndInv
  OBVIOUS
<1>1. gaps = <<>> /\ store = GenesisTables /\ arrived = {} /\ lossless = TRUE
  BY DEF Init
<1>2. TablesInv(store)
  BY <1>1, GenesisInv
<1>3. CacheType
  BY <1>1, GapAssumption DEF CacheType, Unique
<1>4. HandType
  BY DEF Init, HandType, AtRest
<1>5. ClosedInHand
  BY <1>1 DEF ClosedInHand
<1> QED
  BY <1>1, <1>2, <1>3, <1>4, <1>5 DEF IndInv

(* Every step keeps the invariant.                                         *)
THEOREM Invariance == Spec => []IndInv
<1>1. ASSUME IndInv, [Next]_vars
      PROVE  IndInv'
  <2>1. ASSUME NEW t \in Thread, NEW h \in Hash \ {GenesisHash}, NEW caller \in Callers[t],
               Deliver(t, h, caller)
        PROVE  IndInv'
    <3>1. caller \in {"republish", "pull"}
      BY GapAssumption
    <3> QED
      BY <1>1, <2>1, <3>1, DeliverStep
  <2>2. CASE UNCHANGED vars
    <3>1. store' = store /\ gaps' = gaps /\ hand' = hand /\ arrived' = arrived /\ lossless' = lossless
      BY <2>2 DEF vars
    <3> QED
      BY <1>1, <3>1, Zenon DEF IndInv, CacheType, Unique, HandType, ClosedInHand
  <2> QED
    BY <1>1, <2>1, <2>2, ProcessReceiveStep, CacheGapStep, NextGapStep DEF Next
<1> QED
  BY <1>1, InitKeepsInv, PTL DEF Spec

(* With any threads and any arrivals the tables stay consistent, and the   *)
(* cache stays within gap_cache::max with one entry for each missing hash  *)
(* and for each block.                                                     *)
THEOREM CacheSound == Spec => []TypeOK
<1>1. IndInv => TypeOK
  <2> SUFFICES ASSUME IndInv PROVE TypeOK
    OBVIOUS
  <2>1. store \in Tables
    BY InvFacts DEF IndInv
  <2>2. gaps \in Seq(Gap) /\ DOMAIN gaps = 1..Len(gaps)
    BY DEF IndInv, CacheType
  <2> QED
    BY <2>1, <2>2 DEF IndInv, CacheType, Unique, HandType, TypeOK
<1> QED
  BY <1>1, Invariance, PTL

(* Unless the cache gave something up, no entry of it waits for a block    *)
(* that is stored, once the threads are at rest.                           *)
THEOREM GapsStayOpen == Spec => []GapsAreOpen
<1>1. IndInv => GapsAreOpen
  <2> SUFFICES ASSUME IndInv, Quiet, lossless, NEW i \in DOMAIN gaps,
                      gaps[i].required \in store.blocks
               PROVE  FALSE
    BY DEF GapsAreOpen
  <2>1. i \in 1..Len(gaps)
    BY DEF IndInv, CacheType
  <2>2. PICK t \in Thread : hand[t].at = "next"
    BY <2>1 DEF IndInv, ClosedInHand
  <2> QED
    BY <2>2 DEF Quiet, AtRest
<1> QED
  BY <1>1, Invariance, PTL

-----------------------------------------------------------------------------
(* The order of arrival.                                                   *)

(* A latest block is the head of its chain; any other stored block has a   *)
(* successor, which in a universe without rivals is the only one.          *)
LEMMA OnlySuccessor ==
    ASSUME WithoutRivals, NEW s, TablesInv(s), NEW h \in Hash, ~IsOpen(h), h \notin s.blocks,
           Block[h].previous \in s.blocks
    PROVE  LET p == Block[h].previous
           IN /\ s.frontiers[p] = AccountOf[p] /\ s.frontiers[p] \in Account
              /\ s.accounts[AccountOf[p]].head = p /\ s.accounts[AccountOf[p]].balance = BalanceOf[p]
<1> DEFINE p == Block[h].previous
<1>1. SuccessorsLinked(s) /\ p \in Hash /\ s.blocks \subseteq Hash
  BY InvFacts DEF ChainInv
<1>2. s.frontiers[p] # NoAccount
  <2> SUFFICES ASSUME s.frontiers[p] = NoAccount PROVE FALSE
    OBVIOUS
  <2>1. PICK i \in s.blocks : Follows(i, p)
    BY <1>1 DEF SuccessorsLinked
  <2>2. i \in Hash /\ Root(i) = Root(h)
    BY <1>1, <2>1 DEF Follows, Root
  <2>3. i = h
    BY <2>2 DEF WithoutRivals
  <2> QED
    BY <2>3
<1> HIDE DEF p
<1>3. s.frontiers[p] \in Account /\ s.accounts[s.frontiers[p]].head = p
  BY <1>1, <1>2, FrontierFacts, Zenon
<1>4. /\ s.frontiers[p] = AccountOf[p]
      /\ s.accounts[AccountOf[p]].head = p /\ s.accounts[AccountOf[p]].balance = BalanceOf[p]
  BY <1>1, <1>3, HeadOwner, Zenon
<1> QED
  BY <1>3, <1>4, Zenon DEF p

(* A send that nobody else receives is receivable until it is received.    *)
LEMMA StillPending ==
    ASSUME WithoutRivals, NEW s, TablesInv(s), NEW h \in Hash, Receives(h), h \notin s.blocks,
           Block[h].source \in s.blocks
    PROVE  /\ s.pending[Block[h].source] # NoReceivable
           /\ s.pending[Block[h].source].destination = AccountOf[h]
<1> DEFINE u == Block[h].source
<1>1. PendingComplete(s) /\ s.blocks \subseteq Hash /\ h # GenesisHash /\ u \in Hash
  BY InvFacts DEF PendingInv
<1>2. IsSend(u) /\ Block[u].destination = AccountOf[h]
  BY <1>1 DEF WithoutRivals
<1>3. PendingExists(s, u)
  <2> SUFFICES ASSUME ~PendingExists(s, u) PROVE FALSE
    OBVIOUS
  <2>1. PICK r \in s.blocks : IsReceiverOf(r, u)
    BY <1>1, <1>2 DEF PendingComplete
  <2>2. r = h
    BY <1>1, <2>1 DEF IsReceiverOf, WithoutRivals
  <2> QED
    BY <2>2
<1>4. s.pending[u] # NoReceivable
  BY <1>3 DEF PendingExists
<1>5. s.pending[u].destination = Block[u].destination
  BY <1>1, <1>4, ReceivableFacts
<1> QED
  BY <1>2, <1>4, <1>5

(* Without rivals a block is refused for a gap only, and the gap is one of *)
(* its references.                                                         *)
LEMMA OnlyGaps ==
    ASSUME WithoutRivals, NEW s, TablesInv(s), NEW h \in Hash
    PROVE  LET verdict == ProcessResult(s, h, AccountOf[h])
           IN \/ verdict = "progress"
              \/ verdict = "old" /\ h \in s.blocks
              \/ verdict = "gap_previous" /\ Block[h].previous \in References(h)
              \/ verdict = "gap_source" /\ Block[h].source \in References(h)
<1> DEFINE p == Block[h].previous
           u == Block[h].source
           verdict == ProcessResult(s, h, AccountOf[h])
<1>1. CASE IsSend(h)
  <2>1. verdict = SendResult(s, h, AccountOf[h]) /\ ~IsOpen(h) /\ p \in Hash /\ Block[h].balance \in Nat
    BY <1>1, BlockFacts DEF ProcessResult
  <2>2. p \in References(h)
    BY <2>1 DEF References
  <2>3. AccountOf[h] = AccountOf[p] /\ Block[h].balance <= BalanceOf[p] /\ BalanceOf[p] \in Int
    BY <1>1, <2>1, WalksUnfold, Zenon DEF WithoutRivals
  <2>4. CASE h \notin s.blocks /\ p \in s.blocks
    <3>1. /\ s.frontiers[p] = AccountOf[h] /\ s.frontiers[p] \in Account
          /\ s.accounts[s.frontiers[p]].balance = BalanceOf[p]
      BY <2>1, <2>3, <2>4, OnlySuccessor, Zenon
    <3>2. s.frontiers[p] # NoAccount
      BY <3>1, Numbers
    <3>3. ~(s.accounts[s.frontiers[p]].balance < Block[h].balance)
      BY <2>1, <2>3, <3>1, FitsNotLess, Zenon
    <3> QED
      BY <2>1, <2>4, <3>1, <3>2, <3>3 DEF SendResult
  <2>5. CASE h \in s.blocks \/ p \notin s.blocks
    BY <2>1, <2>2, <2>5, Zenon DEF SendResult
  <2> QED
    BY <2>4, <2>5
<1>2. CASE IsChange(h)
  <2>1. verdict = ChangeResult(s, h, AccountOf[h]) /\ ~IsOpen(h) /\ p \in Hash
    BY <1>2, BlockFacts DEF ProcessResult
  <2>2. p \in References(h)
    BY <2>1 DEF References
  <2>3. AccountOf[h] = AccountOf[p]
    BY <1>2, WalksUnfold
  <2>4. CASE h \notin s.blocks /\ p \in s.blocks
    <3>1. s.frontiers[p] = AccountOf[h] /\ s.frontiers[p] \in Account
      BY <2>1, <2>3, <2>4, OnlySuccessor
    <3>2. s.frontiers[p] # NoAccount
      BY <3>1, Numbers
    <3> QED
      BY <2>1, <2>4, <3>1, <3>2 DEF ChangeResult
  <2>5. CASE h \in s.blocks \/ p \notin s.blocks
    BY <2>1, <2>2, <2>5 DEF ChangeResult
  <2> QED
    BY <2>4, <2>5
<1>3. CASE IsReceive(h)
  <2>1. verdict = ReceiveResult(s, h, AccountOf[h]) /\ ~IsOpen(h) /\ p \in Hash /\ Receives(h)
    BY <1>3, BlockFacts DEF ProcessResult, Receives
  <2>2. p \in References(h) /\ u \in References(h)
    BY <2>1 DEF References
  <2>3. AccountOf[h] = AccountOf[p]
    BY <1>3 DEF WithoutRivals
  <2>4. CASE h \notin s.blocks /\ u \in s.blocks
    <3>1. s.pending[u] # NoReceivable /\ s.pending[u].destination = AccountOf[h]
      BY <2>1, <2>4, StillPending
    <3>2. p \in s.blocks => s.accounts[AccountOf[h]].head = p
      BY <2>1, <2>3, <2>4, OnlySuccessor, Zenon
    <3> QED
      BY <2>1, <2>2, <2>4, <3>1, <3>2, Zenon DEF ReceiveResult
  <2>5. CASE h \in s.blocks \/ u \notin s.blocks
    BY <2>1, <2>2, <2>5, Zenon DEF ReceiveResult
  <2> QED
    BY <2>4, <2>5
<1>4. CASE IsOpen(h)
  <2>1. verdict = OpenResult(s, h, AccountOf[h]) /\ Receives(h)
    BY <1>4, BlockFacts DEF ProcessResult, Receives
  <2>2. u \in References(h)
    BY <2>1 DEF References
  <2>3. AccountOf[h] = Block[h].account /\ Block[h].account \in Account
    BY <1>4, BlockFacts, WalksUnfold
  <2>4. CASE h \notin s.blocks /\ u \in s.blocks
    <3>1. s.pending[u] # NoReceivable /\ s.pending[u].destination = AccountOf[h]
      BY <2>1, <2>4, StillPending
    <3>2. ~AccountExists(s, AccountOf[h])
      <4> SUFFICES ASSUME AccountExists(s, AccountOf[h]) PROVE FALSE
        OBVIOUS
      <4>1. AccountsOpened(s) /\ s.blocks \subseteq Hash
        BY InvFacts DEF ChainInv
      <4>2. PICK i \in s.blocks : IsOpen(i) /\ Block[i].account = Block[h].account
        BY <2>3, <4>1 DEF AccountsOpened
      <4>3. Root(i) = Root(h) /\ i \in Hash
        BY <1>4, <4>1, <4>2 DEF Root
      <4>4. i = h
        BY <4>3 DEF WithoutRivals
      <4> QED
        BY <2>4, <4>4
    <3> QED
      BY <2>1, <2>3, <2>4, <3>1, <3>2 DEF OpenResult
  <2>5. CASE h \in s.blocks \/ u \notin s.blocks
    BY <2>1, <2>2, <2>5 DEF OpenResult
  <2> QED
    BY <2>4, <2>5
<1> QED
  BY <1>1, <1>2, <1>3, <1>4, BlockFacts

(* Where a block that arrived and is not stored may be: with a thread that *)
(* has yet to process or to cache it, or in the cache.                     *)
Held(h) ==
    \E t \in Thread :
        /\ hand[t].block = h
        /\ hand[t].at = "process" \/ (hand[t].at = "cache" /\ hand[t].required \in References(h))
Parked(h) == \E i \in 1..Len(gaps) : gaps[i].block = h /\ gaps[i].required \in References(h)
AccountedFor == lossless => \A h \in arrived : h \in store.blocks \/ Held(h) \/ Parked(h)

(* What another thread holds it goes on holding.                           *)
LEMMA HeldKept ==
    ASSUME NEW t \in Thread, \A u \in Thread : u # t => hand'[u] = hand[u], NEW h, Held(h)
    PROVE  Held(h)' \/ (/\ hand[t].block = h
                        /\ \/ hand[t].at = "process"
                           \/ hand[t].at = "cache" /\ hand[t].required \in References(h))
BY DEF Held

(* A delivered block is in the hand of its thread.                         *)
LEMMA DeliverAccounts ==
    ASSUME AccountedFor, HandType, NEW t \in Thread, NEW h, NEW caller, Deliver(t, h, caller)
    PROVE  AccountedFor'
<1> DEFINE new == [at |-> "process", block |-> h, required |-> NoHash, by |-> caller]
<1>1. /\ store' = store /\ gaps' = gaps /\ lossless' = lossless /\ arrived' = arrived \cup {h}
      /\ hand' = [hand EXCEPT ![t] = new] /\ hand[t].at = "rest"
  BY DEF Deliver, AtRest
<1>2. hand'[t] = new /\ \A u \in Thread : u # t => hand'[u] = hand[u]
  BY <1>1 DEF HandType
<1>3. Held(h)'
  BY <1>2 DEF Held
<1>4. ASSUME NEW i, Held(i) PROVE Held(i)'
  BY <1>1, <1>2, <1>4, HeldKept
<1>5. ASSUME NEW i, Parked(i) PROVE Parked(i)'
  BY <1>1, <1>5 DEF Parked
<1> QED
  BY <1>1, <1>3, <1>4, <1>5 DEF AccountedFor

(* A processed block is stored, or is to be cached under a reference.      *)
LEMMA ProcessAccounts ==
    ASSUME WithoutRivals, AccountedFor, IndInv, NEW t \in Thread, ProcessReceive(t)
    PROVE  AccountedFor'
<1> DEFINE task == hand[t]
<1>0. PICK h : h = task.block
  OBVIOUS
<1> DEFINE verdict == ProcessResult(store, h, AccountOf[h])
           new == After(task, verdict)
<1>1. /\ task.at = "process" /\ gaps' = gaps /\ arrived' = arrived /\ lossless' = lossless
      /\ store' = IF verdict = "progress" THEN Processed(store, h) ELSE store
      /\ hand' = [hand EXCEPT ![t] = After(@, verdict)]
  BY <1>0 DEF ProcessReceive
<1>2. TablesInv(store) /\ HandType /\ hand \in [Thread -> Hand \cup {AtRest}]
  BY DEF IndInv, HandType
<1>3. task \in Hand /\ h \in Hash
  BY <1>0, <1>1, <1>2, HandFacts
<1>4. hand'[t] = new /\ \A u \in Thread : u # t => hand'[u] = hand[u]
  BY <1>1, <1>2
<1>5. \/ verdict = "progress"
      \/ verdict = "old" /\ h \in store.blocks
      \/ verdict = "gap_previous" /\ Block[h].previous \in References(h)
      \/ verdict = "gap_source" /\ Block[h].source \in References(h)
  BY <1>2, <1>3, OnlyGaps
<1>6. verdict = "progress" => Processed(store, h).blocks = store.blocks \cup {h}
  BY <1>2, <1>3, ProgressFacts
<1>7. verdict = "gap_previous" => /\ new.at = "cache" /\ new.block = h
                                  /\ new.required = Block[h].previous
  <2> HIDE DEF verdict
  <2> SUFFICES ASSUME verdict = "gap_previous"
               PROVE  new.at = "cache" /\ new.block = h /\ new.required = Block[h].previous
    OBVIOUS
  <2>1. new = [task EXCEPT !.at = "cache", !.required = Block[h].previous]
    BY <1>0 DEF After
  <2>2. task = [at |-> task.at, block |-> h, required |-> task.required, by |-> task.by]
    BY <1>0, <1>3 DEF Hand
  <2> HIDE DEF new, task
  <2> QED
    BY <2>1, <2>2
<1>8. verdict = "gap_source" => /\ new.at = "cache" /\ new.block = h
                                /\ new.required = Block[h].source
  <2> HIDE DEF verdict
  <2> SUFFICES ASSUME verdict = "gap_source"
               PROVE  new.at = "cache" /\ new.block = h /\ new.required = Block[h].source
    OBVIOUS
  <2>1. new = [task EXCEPT !.at = "cache", !.required = Block[h].source]
    BY <1>0 DEF After
  <2>2. task = [at |-> task.at, block |-> h, required |-> task.required, by |-> task.by]
    BY <1>0, <1>3 DEF Hand
  <2> HIDE DEF new, task
  <2> QED
    BY <2>1, <2>2
<1> HIDE DEF verdict, new
<1>9. store.blocks \subseteq store'.blocks
  BY <1>1, <1>6
<1>10. h \in store'.blocks \/ Held(h)'
  <2>1. CASE verdict = "progress"
    BY <1>1, <1>6, <2>1
  <2>2. CASE verdict = "old" /\ h \in store.blocks
    BY <1>9, <2>2
  <2>3. CASE verdict = "gap_previous" /\ Block[h].previous \in References(h)
    BY <1>4, <1>7, <2>3 DEF Held
  <2>4. CASE verdict = "gap_source" /\ Block[h].source \in References(h)
    BY <1>4, <1>8, <2>4 DEF Held
  <2> QED
    BY <1>5, <2>1, <2>2, <2>3, <2>4
<1>11. ASSUME NEW i, Held(i) PROVE i \in store'.blocks \/ Held(i)'
  <2>1. CASE i = h
    BY <1>10, <2>1
  <2>2. CASE i # h
    BY <1>0, <1>4, <1>11, <2>2, HeldKept
  <2> QED
    BY <2>1, <2>2
<1>12. ASSUME NEW i, Parked(i) PROVE Parked(i)'
  BY <1>1, <1>12 DEF Parked
<1> QED
  BY <1>1, <1>9, <1>11, <1>12 DEF AccountedFor

(* A block that is cached without loss is in the cache, with the others.   *)
LEMMA CacheAccounts ==
    ASSUME AccountedFor, IndInv, NEW t \in Thread, CacheGap(t)
    PROVE  AccountedFor'
<1> SUFFICES ASSUME lossless' PROVE AccountedFor'
  BY DEF AccountedFor
<1>0. PICK h, required : h = hand[t].block /\ required = hand[t].required
  OBVIOUS
<1> DEFINE gap == [required |-> required, block |-> h]
<1>1. /\ hand[t].at = "cache" /\ store' = store /\ arrived' = arrived /\ lossless
      /\ hand' = [hand EXCEPT ![t].at = "next"]
      /\ \A old \in {gaps[i] : i \in DOMAIN gaps} \cup {gap} : \E i \in DOMAIN gaps' : gaps'[i] = old
  BY <1>0, Zenon DEF CacheGap
<1>2. HandType /\ CacheType /\ hand \in [Thread -> Hand \cup {AtRest}]
  BY DEF IndInv, HandType
<1>3. hand[t] \in Hand /\ h \in Hash /\ required \in Hash
  BY <1>0, <1>1, <1>2, HandFacts
<1>4. DOMAIN gaps = 1..Len(gaps) /\ DOMAIN gaps' = 1..Len(gaps')
  <2>1. gaps' = Added(required, h)
    BY <1>0 DEF CacheGap
  <2>2. gaps' \in Seq(Gap)
    BY <1>2, <1>3, <2>1, AddedFacts
  <2> QED
    BY <1>2, <2>2 DEF CacheType
<1>5. \A u \in Thread : u # t => hand'[u] = hand[u]
  BY <1>1, <1>2
<1>6. ASSUME NEW i, Parked(i) PROVE Parked(i)'
  <2>1. PICK k \in 1..Len(gaps) : gaps[k].block = i /\ gaps[k].required \in References(i)
    BY <1>6 DEF Parked
  <2>2. PICK j \in 1..Len(gaps') : gaps'[j] = gaps[k]
    BY <1>1, <1>4
  <2> QED
    BY <2>1, <2>2 DEF Parked
<1>7. required \in References(h) => Parked(h)'
  <2>1. PICK j \in 1..Len(gaps') : gaps'[j] = gap
    BY <1>1, <1>4
  <2>2. gaps'[j].block = h /\ gaps'[j].required = required
    BY <2>1
  <2> QED
    BY <2>2 DEF Parked
<1>8. ASSUME NEW i, Held(i) PROVE Held(i)' \/ Parked(i)'
  <2>1. CASE hand[t].block = i /\ hand[t].required \in References(i)
    BY <1>0, <1>7, <2>1
  <2>2. CASE ~(hand[t].block = i /\ hand[t].required \in References(i))
    BY <1>1, <1>5, <1>8, <2>2, HeldKept
  <2> QED
    BY <2>1, <2>2
<1> QED
  BY <1>1, <1>6, <1>8 DEF AccountedFor

(* get takes one entry out of the cache and leaves the others.             *)
LEMMA WithoutKeeps ==
    ASSUME CacheType, NEW h, Waits(h)
    PROVE  \A k \in 1..Len(gaps) :
              k # Entry(h) => \E j \in 1..Len(Without(h)) : Without(h)[j] = gaps[k]
BY WithoutFacts

(* A block that leaves the cache is in the hand of the thread that took it.*)
LEMMA NextAccounts ==
    ASSUME AccountedFor, IndInv, NEW t \in Thread, NextGap(t)
    PROVE  AccountedFor'
<1> DEFINE h == hand[t].block
           follow == hand[t].by = "republish" /\ Waits(h)
           taken == [at |-> "process", required |-> NoHash, by |-> "republish",
                     block |-> gaps[Entry(h)].block]
           new == IF follow THEN taken ELSE AtRest
<1>1. /\ hand[t].at = "next" /\ store' = store /\ arrived' = arrived
      /\ hand' = [hand EXCEPT ![t] = new]
      /\ gaps' = IF follow THEN Without(h) ELSE gaps
      /\ lossless' => lossless
  BY Zenon DEF NextGap
<1>2. CacheType /\ hand \in [Thread -> Hand \cup {AtRest}]
  BY DEF IndInv, HandType
<1>3. follow => \A k \in 1..Len(gaps) :
                   k # Entry(h) => \E j \in 1..Len(Without(h)) : Without(h)[j] = gaps[k]
  BY <1>2, WithoutKeeps, Zenon
<1>4. follow => new.at = "process" /\ new.block = gaps[Entry(h)].block
  OBVIOUS
<1> HIDE DEF new, taken, follow
<1>5. hand'[t] = new /\ \A u \in Thread : u # t => hand'[u] = hand[u]
  BY <1>1, <1>2
<1>6. ASSUME NEW i, Held(i) PROVE Held(i)'
  BY <1>1, <1>5, <1>6, HeldKept
<1>7. ASSUME NEW i, Parked(i) PROVE Held(i)' \/ Parked(i)'
  <2>1. PICK k \in 1..Len(gaps) : gaps[k].block = i /\ gaps[k].required \in References(i)
    BY <1>7 DEF Parked
  <2>2. CASE ~follow
    BY <1>1, <2>1, <2>2 DEF Parked
  <2>3. CASE follow /\ k = Entry(h)
    BY <1>4, <1>5, <2>1, <2>3 DEF Held
  <2>4. CASE follow /\ k # Entry(h)
    <3>1. PICK j \in 1..Len(Without(h)) : Without(h)[j] = gaps[k]
      BY <1>3, <2>4
    <3> QED
      BY <1>1, <2>1, <2>4, <3>1 DEF Parked
  <2> QED
    BY <2>2, <2>3, <2>4
<1> QED
  BY <1>1, <1>6, <1>7 DEF AccountedFor

(* However the blocks of a universe without rivals are ordered when they   *)
(* arrive, and whoever processes them: once the threads are at rest, a     *)
(* block whose references are stored is stored (process_receive_republish  *)
(* and gap_cache), unless the cache gave something up.                     *)
THEOREM OrderIsIrrelevant ==
    ASSUME WithoutRivals
    PROVE  Spec => []OrderDoesNotMatter
<1>1. Init => AccountedFor
  BY DEF Init, AccountedFor
<1>2. IndInv /\ AccountedFor /\ [Next]_vars => AccountedFor'
  <2> SUFFICES ASSUME IndInv, AccountedFor, [Next]_vars PROVE AccountedFor'
    OBVIOUS
  <2>1. CASE UNCHANGED vars
    <3>1. store' = store /\ gaps' = gaps /\ hand' = hand /\ arrived' = arrived /\ lossless' = lossless
      BY <2>1 DEF vars
    <3> QED
      BY <3>1, Zenon DEF AccountedFor, Held, Parked
  <2>2. ASSUME NEW t \in Thread, NEW h \in Hash \ {GenesisHash}, NEW caller \in Callers[t],
               Deliver(t, h, caller)
        PROVE  AccountedFor'
    BY <2>2, DeliverAccounts DEF IndInv
  <2> QED
    BY <2>1, <2>2, ProcessAccounts, CacheAccounts, NextAccounts DEF Next
<1>3. IndInv /\ AccountedFor => OrderDoesNotMatter
  <2> SUFFICES ASSUME IndInv, AccountedFor, Quiet, lossless, NEW h \in arrived,
                      References(h) \subseteq store.blocks, h \notin store.blocks
               PROVE  FALSE
    BY DEF OrderDoesNotMatter
  <2>1. \A t \in Thread : hand[t].at = "rest"
    BY DEF Quiet, AtRest
  <2>2. Parked(h)
    BY <2>1 DEF AccountedFor, Held
  <2>3. PICK i \in 1..Len(gaps) : gaps[i].required \in store.blocks
    BY <2>2 DEF Parked
  <2> QED
    BY <2>1, <2>3 DEF IndInv, ClosedInHand
<1>4. Spec => []IndInv
  BY Invariance
<1> QED
  BY <1>1, <1>2, <1>3, <1>4, PTL DEF Spec
=============================================================================
