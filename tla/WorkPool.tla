------------------------------ MODULE WorkPool ------------------------------
(***************************************************************************)
(* paper::work_pool (paper/node.cpp): callers of generate queue roots and  *)
(* wait; worker threads all search for the work of the current root, and   *)
(* the first that finds it publishes the result.                           *)
(*                                                                         *)
(* A step is what a thread does under the mutex, up to the place where it  *)
(* waits or unlocks; publishing and taking the next root happen without    *)
(* unlocking in between, which holder records.  A search is one step, as   *)
(* only its outcome matters.  Threads may wake up spuriously.  The names   *)
(* of the specification say of what, as its proofs share a module with     *)
(* those of MdbEnv.                                                        *)
(***************************************************************************)
EXTENDS Naturals, Sequences, FiniteSets

CONSTANTS
    Worker,    \* the threads of the pool
    Caller,    \* the threads that call generate
    Roots,     \* the roots that each caller may ask work for
    NoRoot,    \* a root of zero
    NoThread,
    MaxCalls   \* bound: calls of generate in a behaviour

Root == UNION {Roots[c] : c \in Caller}

ASSUME WorkPoolAssumption ==
    /\ Roots \in [Caller -> SUBSET Root] /\ NoRoot \notin Root
    /\ NoThread \notin Worker /\ MaxCalls \in Nat

VARIABLES
    current, ticket, done, pending, completed,   \* the members of work_pool
    holder,    \* the worker that keeps the mutex for its next step
    worker,    \* what each worker does, for which root, since which ticket
    caller,    \* what each caller does, for which root
    generated, \* the number of calls of generate
    assertFailed \* whether the assertion in loop failed

poolVars == <<current, ticket, done, pending, completed, holder, worker, caller, generated, assertFailed>>

Looping == [at |-> "loop", root |-> NoRoot, since |-> 0]
Sleeping == [at |-> "wait", root |-> NoRoot, since |-> 0]
Exited == [at |-> "exit", root |-> NoRoot, since |-> 0]
Outside == [at |-> "out", root |-> NoRoot]

PoolInit ==
    /\ current = NoRoot /\ ticket = 0 /\ done = FALSE
    /\ pending = <<>> /\ completed = {}
    /\ holder = NoThread
    /\ worker = [w \in Worker |-> Looping]
    /\ caller = [c \in Caller |-> Outside]
    /\ generated = 0 /\ assertFailed = FALSE

Unheld == holder = NoThread /\ ~assertFailed
Holds(w) == holder \in {w, NoThread} /\ ~assertFailed

(* producer_condition.notify_all and consumer_condition.notify_all.        *)
WokenWorkers == [w \in Worker |-> IF worker[w] = Sleeping THEN Looping ELSE worker[w]]
WokenCallers == [c \in Caller |-> IF caller[c].at = "wait" THEN [caller[c] EXCEPT !.at = "woken"] ELSE caller[c]]

-----------------------------------------------------------------------------
(* work_pool::loop.                                                        *)

Leaves(w) ==
    /\ Holds(w) /\ worker[w] = Looping
    /\ done /\ pending = <<>>
    /\ worker' = [worker EXCEPT ![w] = Exited]
    /\ holder' = NoThread
    /\ UNCHANGED <<current, ticket, done, pending, completed, caller, generated, assertFailed>>

StartSearch(w) ==
    /\ Holds(w) /\ worker[w] = Looping
    /\ ~done \/ pending # <<>>
    /\ current # NoRoot
    /\ worker' = [worker EXCEPT ![w] = [at |-> "search", root |-> current, since |-> ticket]]
    /\ holder' = NoThread
    /\ UNCHANGED <<current, ticket, done, pending, completed, caller, generated, assertFailed>>

(* Mutant: the other workers are not told of the new root, and neither is  *)
(* the one that took it.                                                   *)
TakeRootSleeps(w) ==
    /\ Holds(w) /\ worker[w] = Looping
    /\ current = NoRoot /\ pending # <<>>
    /\ current' = Head(pending) /\ pending' = Tail(pending)
    /\ worker' = [worker EXCEPT ![w] = Sleeping]
    /\ holder' = NoThread
    /\ UNCHANGED <<ticket, done, completed, caller, generated, assertFailed>>

TakeRoot(w) ==
    /\ Holds(w) /\ worker[w] = Looping
    /\ current = NoRoot /\ pending # <<>>
    /\ current' = Head(pending) /\ pending' = Tail(pending)
    /\ worker' = WokenWorkers
    /\ holder' = w
    /\ UNCHANGED <<ticket, done, completed, caller, generated, assertFailed>>

Sleep(w) ==
    /\ Holds(w) /\ worker[w] = Looping
    /\ ~done /\ current = NoRoot /\ pending = <<>>
    /\ worker' = [worker EXCEPT ![w] = Sleeping]
    /\ holder' = NoThread
    /\ UNCHANGED <<current, ticket, done, pending, completed, caller, generated, assertFailed>>

Find(w) ==
    /\ worker[w].at = "search" /\ ~assertFailed
    /\ worker' = [worker EXCEPT ![w].at = "found"]
    /\ UNCHANGED <<current, ticket, done, pending, completed, holder, caller, generated, assertFailed>>

GiveUp(w) ==
    /\ worker[w].at = "search" /\ ~assertFailed
    /\ ticket # worker[w].since
    /\ worker' = [worker EXCEPT ![w].at = "gave up"]
    /\ UNCHANGED <<current, ticket, done, pending, completed, holder, caller, generated, assertFailed>>

PublishWork(w) ==
    /\ Unheld /\ worker[w].at = "found"
    /\ current = worker[w].root
    /\ ticket' = ticket + 1
    /\ completed' = completed \cup {current}
    /\ caller' = WokenCallers
    /\ current' = NoRoot
    /\ worker' = [worker EXCEPT ![w] = Looping]
    /\ holder' = w
    /\ UNCHANGED <<done, pending, generated, assertFailed>>

(* assert (output >= paper::block::publish_threshold)                      *)
PublishAsserts(w) ==
    /\ Unheld /\ worker[w].at = "gave up"
    /\ current = worker[w].root
    /\ assertFailed' = TRUE
    /\ UNCHANGED <<current, ticket, done, pending, completed, holder, worker, caller, generated>>

(* Mutant: a result is published although another worker did.              *)
DiscardPublishes(w) ==
    /\ Unheld /\ worker[w].at \in {"found", "gave up"}
    /\ current # worker[w].root
    /\ completed' = IF worker[w].at = "found" THEN completed \cup {worker[w].root} ELSE completed
    /\ worker' = [worker EXCEPT ![w] = Looping]
    /\ holder' = w
    /\ UNCHANGED <<current, ticket, done, pending, caller, generated, assertFailed>>

Discard(w) ==
    /\ Unheld /\ worker[w].at \in {"found", "gave up"}
    /\ current # worker[w].root
    /\ worker' = [worker EXCEPT ![w] = Looping]
    /\ holder' = w
    /\ UNCHANGED <<current, ticket, done, pending, completed, caller, generated, assertFailed>>

-----------------------------------------------------------------------------
(* work_pool::generate and work_pool::stop.                                *)

(* notify_one wakes one of the workers that wait.                          *)
Generate(c, root) ==
    /\ Unheld /\ caller[c] = Outside
    /\ generated < MaxCalls
    /\ generated' = generated + 1
    /\ pending' = Append(pending, root)
    /\ caller' = [caller EXCEPT ![c] = [at |-> "wait", root |-> root]]
    /\ IF \E w \in Worker : worker[w] = Sleeping
       THEN \E w \in Worker : worker[w] = Sleeping /\ worker' = [worker EXCEPT ![w] = Looping]
       ELSE UNCHANGED worker
    /\ UNCHANGED <<current, ticket, done, completed, holder, assertFailed>>

Collect(c) ==
    /\ Unheld /\ caller[c].at = "woken"
    /\ IF caller[c].root \in completed
       THEN /\ completed' = completed \ {caller[c].root}
            /\ caller' = [caller EXCEPT ![c] = Outside]
       ELSE /\ caller' = [caller EXCEPT ![c].at = "wait"]
            /\ UNCHANGED completed
    /\ UNCHANGED <<current, ticket, done, pending, holder, worker, generated, assertFailed>>

(* Mutant: the workers that wait are not told.                             *)
StopQuietly ==
    /\ Unheld /\ ~done
    /\ done' = TRUE
    /\ UNCHANGED <<current, ticket, pending, completed, holder, worker, caller, generated, assertFailed>>

Stop ==
    /\ Unheld /\ ~done
    /\ done' = TRUE
    /\ worker' = WokenWorkers
    /\ UNCHANGED <<current, ticket, pending, completed, holder, caller, generated, assertFailed>>

WakeWorker(w) ==
    /\ ~assertFailed /\ worker[w] = Sleeping
    /\ worker' = [worker EXCEPT ![w] = Looping]
    /\ UNCHANGED <<current, ticket, done, pending, completed, holder, caller, generated, assertFailed>>

WakeCaller(c) ==
    /\ ~assertFailed /\ caller[c].at = "wait"
    /\ caller' = [caller EXCEPT ![c].at = "woken"]
    /\ UNCHANGED <<current, ticket, done, pending, completed, holder, worker, generated, assertFailed>>

WorkerStep(w) ==
    \/ Leaves(w) \/ StartSearch(w) \/ TakeRoot(w) \/ Sleep(w)
    \/ GiveUp(w) \/ PublishWork(w) \/ PublishAsserts(w) \/ Discard(w)

PoolNext ==
    \/ \E w \in Worker : WorkerStep(w) \/ Find(w) \/ WakeWorker(w)
    \/ \E c \in Caller : (\E root \in Roots[c] : Generate(c, root)) \/ Collect(c) \/ WakeCaller(c)
    \/ Stop

(* Every thread that can go on does, and gets the mutex some time although *)
(* others want it too; a random search finds work in the end.              *)
PoolFairness ==
    /\ \A w \in Worker : SF_poolVars(WorkerStep(w)) /\ WF_poolVars(Find(w))
    /\ \A c \in Caller : SF_poolVars(Collect(c))

PoolSpec == PoolInit /\ [][PoolNext]_poolVars /\ PoolFairness

-----------------------------------------------------------------------------
(* Properties.                                                             *)

Activity == [at : {"loop", "wait", "exit", "search", "found", "gave up"},
             root : Root \cup {NoRoot}, since : 0..MaxCalls]

(* The state is well formed, and every root is solved at most once: the    *)
(* ticket counts what was taken from the queue and published.              *)
PoolTypeOK ==
    /\ current \in Root \cup {NoRoot}
    /\ ticket + Len(pending) + (IF current = NoRoot THEN 0 ELSE 1) = generated /\ generated <= MaxCalls
    /\ pending \in Seq(Root) /\ completed \subseteq Root
    /\ done \in BOOLEAN /\ assertFailed \in BOOLEAN
    /\ holder \in Worker \cup {NoThread}
    /\ worker \in [Worker -> Activity]
    /\ caller \in [Caller -> [at : {"out", "wait", "woken"}, root : Root \cup {NoRoot}]]

Awaited(root) == \E c \in Caller : caller[c].at # "out" /\ caller[c].root = root

(* Callers that ask for different roots get exactly their results: a       *)
(* result is awaited, its root is not searched for again, and whoever      *)
(* waits has its root in exactly one place (loop clears current `so only   *)
(* one work thread publishes their result', generate erases the result).   *)
ResultsAwaited ==
    LET queued(root) == Cardinality({i \in DOMAIN pending : pending[i] = root})
        places(root) == queued(root) + (IF current = root THEN 1 ELSE 0) + (IF root \in completed THEN 1 ELSE 0)
    IN \A root \in Root : places(root) = IF Awaited(root) THEN 1 ELSE 0

(* Who asks for work gets it, unless the pool is stopped or the assertion  *)
(* in loop ends the process.                                               *)
GenerateReturns == \A c \in Caller : caller[c].at # "out" ~> caller[c].at = "out" \/ done \/ assertFailed

(* After stop every worker leaves its loop, as ~work_pool joins them all.  *)
WorkersExit == done ~> (\A w \in Worker : worker[w] = Exited) \/ assertFailed

-----------------------------------------------------------------------------
(* What an assertion says and the code does not do.                        *)

(* assert (output >= paper::block::publish_threshold): a worker whose root *)
(* is the current one has found work for it.                               *)
SearchSucceeded == ~assertFailed
=============================================================================
