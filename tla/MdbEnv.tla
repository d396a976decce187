------------------------------- MODULE MdbEnv -------------------------------
(***************************************************************************)
(* paper::mdb_env and paper::transaction (paper/utility.cpp): transactions *)
(* are counted, and every database_check_interval-th of them looks whether *)
(* the memory map has to grow, which it may only while none is open.       *)
(*                                                                         *)
(* frontier_req_client::received_frontier opens a read transaction inside  *)
(* of a write transaction, which Nester stands for; all other threads open *)
(* one at a time.  LMDB (external) lets one write transaction in; a        *)
(* committed one adds at most MaxGrowth to the file.  Sizes are in an      *)
(* arbitrary unit.                                                         *)
(***************************************************************************)
EXTENDS Naturals, FiniteSets

CONSTANTS
    Thread,
    Nester,          \* the threads that may nest a transaction
    CheckInterval,   \* database_check_interval
    SizeIncrement,   \* database_size_increment
    MaxGrowth,
    MaxLoad          \* bound on the size of the file

ASSUME MdbAssumption ==
    /\ IsFiniteSet(Thread) /\ Nester \subseteq Thread
    /\ CheckInterval \in Nat \ {0} /\ SizeIncrement \in Nat \ {0}
    /\ MaxGrowth \in Nat /\ MaxLoad \in Nat

VARIABLES
    open_transactions,
    transaction_iteration,  \* modulo CheckInterval
    resizing,
    thread,                 \* the innermost transaction of each thread
    load,                   \* me_last_pgno * ms_psize
    mapsize,                \* me_mapsize
    lastsize                \* me_mapsize as the thread that resizes has read it

envVars == <<open_transactions, transaction_iteration, resizing, thread, load, mapsize, lastsize>>

Places == {"out", "adding", "sleeping", "draining", "counted", "inside", "committed"}
At(t) == thread[t].at
(* outer: "none", "open" around an inner one, or "had" one inside.         *)
Transaction(place, write, outer) == [at |-> place, write |-> write, outer |-> outer]
Moves(t, place) == thread' = [thread EXCEPT ![t].at = place]

EnvInit ==
    /\ open_transactions = 0 /\ transaction_iteration = 0
    /\ resizing = FALSE
    /\ thread = [t \in Thread |-> Transaction("out", FALSE, "none")]
    /\ load = 0 /\ mapsize = SizeIncrement /\ lastsize = 0

(* The constructor of a transaction.                                       *)
Construct(t, write) ==
    /\ At(t) = "out"
    /\ thread' = [thread EXCEPT ![t] = Transaction("adding", write, "none")]
    /\ UNCHANGED <<open_transactions, transaction_iteration, resizing, load, mapsize, lastsize>>

(* frontier_req_client::next, called with a write transaction open.        *)
Nest(t) ==
    /\ t \in Nester /\ thread[t] = Transaction("inside", TRUE, "none")
    /\ thread' = [thread EXCEPT ![t] = Transaction("adding", FALSE, "open")]
    /\ UNCHANGED <<open_transactions, transaction_iteration, resizing, load, mapsize, lastsize>>

-----------------------------------------------------------------------------
(* mdb_env::add_transaction, from one wait to the next.                    *)

Counts ==
    /\ transaction_iteration' = (transaction_iteration + 1) % CheckInterval
    /\ open_transactions' = open_transactions + 1

(* mdb_env_stat and mdb_env_info.                                          *)
Slack == mapsize - load
MustResize == transaction_iteration = 0 /\ Slack < SizeIncrement \div 4

WaitResize(t) ==
    /\ At(t) = "adding" /\ resizing
    /\ Moves(t, "sleeping")
    /\ UNCHANGED <<open_transactions, transaction_iteration, resizing, load, mapsize, lastsize>>

AddTransaction(t) ==
    /\ At(t) = "adding" /\ ~resizing
    /\ ~MustResize
    /\ Counts
    /\ Moves(t, "counted")
    /\ UNCHANGED <<resizing, load, mapsize, lastsize>>

(* Mutant: the size is looked at, and nothing done about it.               *)
StartResizeNever(t) ==
    /\ At(t) = "adding" /\ ~resizing
    /\ MustResize
    /\ Counts
    /\ Moves(t, "counted")
    /\ UNCHANGED <<resizing, load, mapsize, lastsize>>

StartResize(t) ==
    /\ At(t) = "adding" /\ ~resizing
    /\ MustResize
    /\ resizing' = TRUE
    /\ lastsize' = mapsize
    /\ Moves(t, "draining")
    /\ UNCHANGED <<open_transactions, transaction_iteration, load, mapsize>>

(* Mutant: who waits for the resizing is not told.                         *)
ResizeQuietly(t) ==
    /\ At(t) = "draining" /\ open_transactions = 0
    /\ mapsize' = ((lastsize \div SizeIncrement) + 1) * SizeIncrement
    /\ resizing' = FALSE
    /\ Counts
    /\ Moves(t, "counted")
    /\ UNCHANGED <<load, lastsize>>

(* Mutant: the thread does not wait for the open transactions.             *)
ResizeAtOnce(t) ==
    /\ At(t) = "draining"
    /\ mapsize' = ((lastsize \div SizeIncrement) + 1) * SizeIncrement
    /\ resizing' = FALSE
    /\ thread' = [u \in Thread |->
          IF u = t THEN [thread[u] EXCEPT !.at = "counted"]
          ELSE IF At(u) = "sleeping" THEN [thread[u] EXCEPT !.at = "adding"] ELSE thread[u]]
    /\ Counts
    /\ UNCHANGED <<load, lastsize>>

(* open_notify has woken it for the last time, or nothing was open.        *)
Resize(t) ==
    /\ At(t) = "draining" /\ open_transactions = 0
    /\ mapsize' = ((lastsize \div SizeIncrement) + 1) * SizeIncrement
    /\ resizing' = FALSE
    /\ thread' = [u \in Thread |->
          IF u = t THEN [thread[u] EXCEPT !.at = "counted"]
          ELSE IF At(u) = "sleeping" THEN [thread[u] EXCEPT !.at = "adding"] ELSE thread[u]]
    /\ Counts
    /\ UNCHANGED <<load, lastsize>>

-----------------------------------------------------------------------------
(* mdb_txn_begin, mdb_txn_commit and remove_transaction.                   *)

Writes(u) == (At(u) = "inside" /\ thread[u].write) \/ thread[u].outer = "open"

Begin(t) ==
    /\ At(t) = "counted"
    /\ thread[t].write => \A u \in Thread : ~Writes(u)
    /\ Moves(t, "inside")
    /\ UNCHANGED <<open_transactions, transaction_iteration, resizing, load, mapsize, lastsize>>

Commit(t, growth) ==
    /\ At(t) = "inside"
    /\ growth > 0 => thread[t].write
    /\ load + growth <= MaxLoad
    /\ load' = load + growth
    /\ Moves(t, "committed")
    /\ UNCHANGED <<open_transactions, transaction_iteration, resizing, mapsize, lastsize>>

RemoveTransaction(t) ==
    /\ At(t) = "committed"
    /\ open_transactions' = open_transactions - 1
    /\ thread' = [thread EXCEPT ![t] =
          IF @.outer = "open" THEN Transaction("inside", TRUE, "had") ELSE Transaction("out", FALSE, "none")]
    /\ UNCHANGED <<transaction_iteration, resizing, load, mapsize, lastsize>>

Step(t) ==
    \/ WaitResize(t) \/ AddTransaction(t) \/ StartResize(t) \/ Resize(t)
    \/ Begin(t) \/ (\E growth \in 0..MaxGrowth : Commit(t, growth)) \/ RemoveTransaction(t)

EnvNext == \E t \in Thread : Step(t) \/ Nest(t) \/ \E write \in BOOLEAN : Construct(t, write)

(* Threads that can go on do, transactions end, and nobody is kept from a  *)
(* mutex for ever.                                                         *)
EnvFairness == \A t \in Thread : SF_envVars(Step(t))

EnvSpec == EnvInit /\ [][EnvNext]_envVars /\ EnvFairness

-----------------------------------------------------------------------------
(* Properties.                                                             *)

Open == {t \in Thread : At(t) \in {"counted", "inside", "committed"}}
Outer == {t \in Thread : thread[t].outer = "open"}

(* The state is well formed: open_transactions counts the transactions     *)
(* that are open, and one thread resizes exactly while resizing is set.    *)
EnvTypeOK ==
    /\ open_transactions = Cardinality(Open) + Cardinality(Outer)
    /\ transaction_iteration \in 0..(CheckInterval - 1)
    /\ resizing \in BOOLEAN /\ resizing = (\E t \in Thread : At(t) = "draining")
    /\ \A t, u \in Thread : At(t) = "draining" /\ At(u) = "draining" => t = u
    /\ thread \in [Thread -> [at : Places, write : BOOLEAN, outer : {"none", "open", "had"}]]
    /\ load \in Nat /\ mapsize \in Nat /\ lastsize \in Nat

(* The map is only resized while no transaction is open in the process,    *)
(* which mdb_env_set_mapsize demands.                                      *)
ResizesAlone == [][mapsize' # mapsize => Open \cup Outer = {}]_envVars

(* The file never outgrows the map, if the transactions between two looks  *)
(* and those that are open then add at most a quarter of                   *)
(* database_size_increment, which is what add_transaction keeps in reserve.*)
MapSuffices ==
    (CheckInterval + Cardinality(Thread) - 1) * MaxGrowth <= SizeIncrement \div 4 => load <= mapsize

(* Who constructs a transaction gets it: the thread that resizes waits for *)
(* the others, and they for it, but never both, unless a thread waits with *)
(* a transaction open around the one it constructs.                        *)
TransactionOpens ==
    \A t \in Thread : At(t) = "adding" ~>
        At(t) = "inside" \/ \E u \in Outer : At(u) \in {"sleeping", "draining"}

-----------------------------------------------------------------------------
(* What a document says and the code does not do.                          *)

(* lmdb.h: a thread may only have a single transaction at a time.          *)
SingleTransaction == Outer = {}
=============================================================================
