------------------------------ MODULE GapCache ------------------------------
(***************************************************************************)
(* node::process_receive_republish and paper::gap_cache (paper/node.cpp):  *)
(* blocks that arrive before the block they refer to wait in a cache, and  *)
(* are processed when that block has been.                                 *)
(*                                                                         *)
(* Several threads run the loop: the network, wallet actions and bulk      *)
(* pushes.  A bulk pull calls process_receive alone.  Processing is one    *)
(* write transaction; the cache is used afterwards, under its own mutex.   *)
(* A block is signed by its owner.  What the verdict fork starts is in     *)
(* module Election.                                                        *)
(***************************************************************************)
EXTENDS LedgerTables, Sequences

CONSTANTS
    Thread,
    Callers,   \* of each thread: "republish" for the loop, "pull" for process_receive alone
    MaxGaps    \* gap_cache::max

ASSUME GapAssumption == MaxGaps \in Nat \ {0} /\ Callers \in [Thread -> SUBSET {"republish", "pull"}]

VARIABLES
    store,     \* the tables of the ledger
    gaps,      \* gap_cache.blocks, by arrival
    hand,      \* what each thread does with which block
    arrived,   \* history: the blocks that were delivered
    lossless   \* history: every gap was cached in time, and taken out when it closed

vars == <<store, gaps, hand, arrived, lossless>>

Gap == [required : Hash, block : Hash]

(* A thread is at rest, about to process a block, to cache it, or to look  *)
(* for one that waits for it.                                              *)
AtRest == [at |-> "rest", block |-> NoHash, required |-> NoHash, by |-> "republish"]
Hand == [at : {"process", "cache", "next"}, block : Hash, required : Hash \cup {NoHash},
         by : {"republish", "pull"}]

Init ==
    /\ store = GenesisTables
    /\ gaps = <<>>
    /\ hand = [t \in Thread |-> AtRest]
    /\ arrived = {}
    /\ lossless = TRUE

Deliver(t, h, caller) ==
    /\ hand[t] = AtRest
    /\ hand' = [hand EXCEPT ![t] = [at |-> "process", block |-> h, required |-> NoHash, by |-> caller]]
    /\ arrived' = arrived \cup {h}
    /\ UNCHANGED <<store, gaps, lossless>>

(* Mutant: a block with a gap is tried again instead of cached.            *)
AfterRetries(task, verdict) ==
    [task EXCEPT !.at = IF verdict \in {"gap_previous", "gap_source"} THEN "process" ELSE "next"]

(* What to do after a verdict: the two gap verdicts cache the block under  *)
(* the hash that is missing.                                               *)
After(task, verdict) ==
    LET h == task.block
    IN CASE verdict = "gap_previous" -> [task EXCEPT !.at = "cache", !.required = Block[h].previous]
         [] verdict = "gap_source" -> [task EXCEPT !.at = "cache", !.required = Block[h].source]
         [] OTHER -> [task EXCEPT !.at = "next"]

ProcessReceive(t) ==
    LET h == hand[t].block
        verdict == ProcessResult(store, h, AccountOf[h])
    IN /\ hand[t].at = "process"
       /\ verdict = "progress" => ProcessFailure(store, h) = "none"
       /\ store' = IF verdict = "progress" THEN Processed(store, h) ELSE store
       /\ hand' = [hand EXCEPT ![t] = After(@, verdict)]
       /\ UNCHANGED <<gaps, arrived, lossless>>

Waits(h) == \E i \in DOMAIN gaps : gaps[i].required = h
Cached(h) == \E i \in DOMAIN gaps : gaps[i].block = h
Entry(h) == CHOOSE i \in DOMAIN gaps : gaps[i].required = h
Without(h) == SubSeq(gaps, 1, Entry(h) - 1) \o SubSeq(gaps, Entry(h) + 1, Len(gaps))

(* Mutant: the cache has no limit.                                         *)
AddedUnlimited(required, h) ==
    IF Waits(required) THEN Append(Without(required), gaps[Entry(required)])
    ELSE IF Cached(h) THEN gaps
    ELSE Append(gaps, [required |-> required, block |-> h])

(* gap_cache::add.  A second block that needs the same hash only renews    *)
(* the arrival of the first; a block that is cached under another hash is  *)
(* not inserted again; the oldest gap makes room.                          *)
Added(required, h) ==
    IF Waits(required) THEN Append(Without(required), gaps[Entry(required)])
    ELSE IF Cached(h) THEN gaps
    ELSE LET more == Append(gaps, [required |-> required, block |-> h])
         IN IF Len(more) > MaxGaps THEN Tail(more) ELSE more

CacheGap(t) ==
    LET h == hand[t].block
        required == hand[t].required
    IN /\ hand[t].at = "cache"
       /\ gaps' = Added(required, h)
       /\ lossless' = (lossless /\ required \notin store.blocks
                        /\ \A gap \in {gaps[i] : i \in DOMAIN gaps} \cup {[required |-> required, block |-> h]} :
                              \E i \in DOMAIN gaps' : gaps'[i] = gap)
       /\ hand' = [hand EXCEPT ![t].at = "next"]
       /\ UNCHANGED <<store, arrived>>

(* Mutant: the loop ends after one block.                                  *)
NextGapEnds(t) ==
    /\ hand[t].at = "next"
    /\ hand' = [hand EXCEPT ![t] = AtRest]
    /\ UNCHANGED <<store, gaps, arrived, lossless>>

(* Mutant: get leaves the entry in the cache.                              *)
NextGapLeaves(t) ==
    LET h == hand[t].block
    IN /\ hand[t].at = "next"
       /\ hand' = [hand EXCEPT ![t] =
             IF hand[t].by = "republish" /\ Waits(h)
             THEN [at |-> "process", required |-> NoHash, by |-> "republish",
                   block |-> gaps[Entry(h)].block]
             ELSE AtRest]
       /\ lossless' = (lossless /\ ~(hand[t].by = "pull" /\ Waits(h)))
       /\ UNCHANGED <<store, gaps, arrived>>

(* gap_cache::get at the end of the loop: whatever the verdict was, the    *)
(* block that waits for this one is next.  A bulk pull does not look.      *)
NextGap(t) ==
    LET h == hand[t].block
        follow == hand[t].by = "republish" /\ Waits(h)
    IN /\ hand[t].at = "next"
       /\ hand' = [hand EXCEPT ![t] =
             IF follow
             THEN [at |-> "process", required |-> NoHash, by |-> "republish",
                   block |-> gaps[Entry(h)].block]
             ELSE AtRest]
       /\ gaps' = IF follow THEN Without(h) ELSE gaps
       /\ lossless' = (lossless /\ ~(hand[t].by = "pull" /\ Waits(h)))
       /\ UNCHANGED <<store, arrived>>

Next ==
    \E t \in Thread :
        \/ \E h \in Hash \ {GenesisHash}, caller \in Callers[t] : Deliver(t, h, caller)
        \/ ProcessReceive(t) \/ CacheGap(t) \/ NextGap(t)

Fairness == \A t \in Thread : WF_vars(ProcessReceive(t) \/ CacheGap(t) \/ NextGap(t))

Spec == Init /\ [][Next]_vars /\ Fairness

-----------------------------------------------------------------------------
(* Properties.                                                             *)

(* The tables and the cache are well formed: no two gaps of the cache      *)
(* need one hash or hold one block, and it never holds more than           *)
(* gap_cache::max gaps.                                                    *)
TypeOK ==
    /\ store \in Tables
    /\ gaps \in Seq(Gap) /\ Len(gaps) <= MaxGaps
    /\ \A i, j \in DOMAIN gaps :
          gaps[i].required = gaps[j].required \/ gaps[i].block = gaps[j].block => i = j
    /\ hand \in [Thread -> Hand \cup {AtRest}]
    /\ arrived \subseteq Hash /\ lossless \in BOOLEAN

Quiet == \A t \in Thread : hand[t] = AtRest

(* The blocks that a block refers to.                                      *)
References(h) ==
    (IF IsOpen(h) THEN {} ELSE {Block[h].previous}) \cup (IF Receives(h) THEN {Block[h].source} ELSE {})

(* The owners of the chains agree with themselves: no two blocks have one  *)
(* root or receive one send, nobody sends more than the balance, and what  *)
(* is received was sent to the receiver.                                   *)
WithoutRivals ==
    /\ \A h, i \in Hash :
          Root(h) = Root(i) \/ (Receives(h) /\ Receives(i) /\ Block[h].source = Block[i].source) => h = i
    /\ \A h \in Hash :
          /\ IsSend(h) => Block[h].balance <= BalanceOf[Block[h].previous]
          /\ IsReceive(h) => AccountOf[Block[h].previous] = AccountOf[h]
          /\ Receives(h) /\ h # GenesisHash =>
                IsSend(Block[h].source) /\ Block[Block[h].source].destination = AccountOf[h]

(* Order does not matter: once the threads are at rest, every block that   *)
(* arrived and whose references are stored is stored itself, however the   *)
(* arrivals were ordered, in a universe WithoutRivals.  The exceptions are what gap_cache::add gives up *)
(* (a second block that needs the same hash, the oldest gap of a full      *)
(* cache), a gap that another thread closed before it was cached, and one  *)
(* that a bulk pull closed.                                                *)
OrderDoesNotMatter ==
    Quiet /\ lossless =>
        \A h \in arrived : References(h) \subseteq store.blocks => h \in store.blocks

(* A gap in the cache is a gap in the ledger, under the same exceptions.   *)
GapsAreOpen ==
    Quiet /\ lossless => \A i \in DOMAIN gaps : gaps[i].required \notin store.blocks

(* The loop ends: it takes a block out of the cache for every turn after   *)
(* the first, and puts back at most the one it holds.                      *)
LoopEnds == \A t \in Thread : hand[t] # AtRest ~> hand[t] = AtRest
=============================================================================
