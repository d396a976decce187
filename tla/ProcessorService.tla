-------------------------- MODULE ProcessorService --------------------------
(***************************************************************************)
(* paper::processor_service (paper/node.cpp): operations wait for their    *)
(* time in a priority queue, and the threads of the node run them.         *)
(*                                                                         *)
(* A step is what a thread does under the mutex up to the place where it   *)
(* waits, or unlocks to call an operation.  Operations may be added from   *)
(* anywhere, a running operation included.  The clock is monotonic here.   *)
(***************************************************************************)
EXTENDS Naturals, FiniteSets

CONSTANTS
    Runner,     \* threads in run
    Poller,     \* threads that call poll and poll_one
    Operation,  \* each is added once
    Nothing,
    MaxTime     \* bound of the clock; wakeup times are below it

ASSUME ServiceAssumption ==
    Runner # {} /\ Runner \cap Poller = {} /\ Nothing \notin Operation /\ MaxTime \in Nat \ {0}

ServiceThread == Runner \cup Poller
Wakeup == 0..(MaxTime - 1)

VARIABLES
    now,        \* system_clock::now
    done,
    operations, \* wakeup time of each operation in the queue
    thread,     \* what each thread does
    ran         \* history: when each operation was taken from the queue

serviceVars == <<now, done, operations, thread, ran>>

(* Threads look at the queue, wait for ever or until a time, run an        *)
(* operation, or are out of the service.                                   *)
Looks == [at |-> "look", until |-> 0, runs |-> Nothing]
Out == [at |-> "out", until |-> 0, runs |-> Nothing]
WaitsLong == [at |-> "wait", until |-> MaxTime + 1, runs |-> Nothing]
WaitsUntil(time) == [at |-> "wait", until |-> time, runs |-> Nothing]
Calling(operation, call) == [at |-> call, until |-> 0, runs |-> operation]

ServiceInit ==
    /\ now = 0 /\ done = FALSE
    /\ operations = << >>
    /\ thread = [t \in ServiceThread |-> IF t \in Runner THEN Looks ELSE Out]
    /\ ran = << >>

Queued == DOMAIN operations
Without(operation) == [o \in Queued \ {operation} |-> operations[o]]
With(f, key, value) == [k \in DOMAIN f \cup {key} |-> IF k = key THEN value ELSE f[k]]
IsTop(operation) == operation \in Queued /\ \A o \in Queued : operations[operation] <= operations[o]
Due == \E o \in Queued : operations[o] < now
Notified == [t \in ServiceThread |-> IF thread[t].at = "wait" THEN Looks ELSE thread[t]]

(* Pop the top, if its time has passed, and call it without the mutex.     *)
Takes(t, operation, call) ==
    /\ IsTop(operation) /\ operations[operation] < now
    /\ operations' = Without(operation)
    /\ ran' = With(ran, operation, now)
    /\ thread' = [thread EXCEPT ![t] = Calling(operation, call)]
    /\ UNCHANGED <<now, done>>

-----------------------------------------------------------------------------
(* processor_service::run.                                                 *)

RunTakes(t, operation) ==
    /\ thread[t] = Looks /\ ~done
    /\ Takes(t, operation, "run")

(* Mutant: a thread runs one operation.                                    *)
RunReturnsOut(t) ==
    /\ thread[t].at = "run"
    /\ thread' = [thread EXCEPT ![t] = Out]
    /\ UNCHANGED <<now, done, operations, ran>>

RunReturns(t) ==
    /\ thread[t].at = "run"
    /\ thread' = [thread EXCEPT ![t] = Looks]
    /\ UNCHANGED <<now, done, operations, ran>>

RunWaits(t) ==
    /\ thread[t] = Looks /\ ~done /\ ~Due
    /\ thread' = [thread EXCEPT ![t] =
          IF Queued = {} THEN WaitsLong ELSE WaitsUntil(operations[CHOOSE o \in Queued : IsTop(o)])]
    /\ UNCHANGED <<now, done, operations, ran>>

(* wait_until returns when its time has come; any wait may end early.      *)
TimesOut(t) ==
    /\ thread[t].at = "wait" /\ thread[t].until <= now
    /\ thread' = [thread EXCEPT ![t] = Looks]
    /\ UNCHANGED <<now, done, operations, ran>>

WakesEarly(t) ==
    /\ thread[t].at = "wait" /\ thread[t].until > now
    /\ thread' = [thread EXCEPT ![t] = Looks]
    /\ UNCHANGED <<now, done, operations, ran>>

RunExits(t) ==
    /\ thread[t] = Looks /\ done
    /\ thread' = [thread EXCEPT ![t] = Out]
    /\ UNCHANGED <<now, done, operations, ran>>

-----------------------------------------------------------------------------
(* poll and poll_one, which do not look at done.                           *)

PollTakes(t, operation, call) ==
    /\ thread[t] = Out /\ t \in Poller
    /\ Takes(t, operation, call)

PollOneReturns(t) ==
    /\ thread[t].at = "poll one"
    /\ thread' = [thread EXCEPT ![t] = Out]
    /\ UNCHANGED <<now, done, operations, ran>>

PollGoesOn(t, operation) ==
    /\ thread[t].at = "poll"
    /\ Takes(t, operation, "poll")

PollEnds(t) ==
    /\ thread[t].at = "poll" /\ ~Due
    /\ thread' = [thread EXCEPT ![t] = Out]
    /\ UNCHANGED <<now, done, operations, ran>>

-----------------------------------------------------------------------------
(* add, stop and the clock.                                                *)

(* Mutant: the threads that wait are not told.                             *)
AddQuietly(operation, wakeup) ==
    /\ operation \notin Queued \cup DOMAIN ran
    /\ ~done
    /\ operations' = With(operations, operation, wakeup)
    /\ UNCHANGED <<now, done, thread, ran>>

Add(operation, wakeup) ==
    /\ operation \notin Queued \cup DOMAIN ran
    /\ ~done
    /\ operations' = With(operations, operation, wakeup)
    /\ thread' = Notified
    /\ UNCHANGED <<now, done, ran>>

(* Mutant: the threads that wait are not told.                             *)
StopQuietly ==
    /\ ~done
    /\ done' = TRUE
    /\ operations' = << >>
    /\ UNCHANGED <<now, thread, ran>>

Stop ==
    /\ ~done
    /\ done' = TRUE
    /\ operations' = << >>
    /\ thread' = Notified
    /\ UNCHANGED <<now, ran>>

ServiceTick ==
    /\ now < MaxTime
    /\ now' = now + 1
    /\ UNCHANGED <<done, operations, thread, ran>>

RunStep(t) ==
    \/ \E operation \in Operation : RunTakes(t, operation)
    \/ RunReturns(t) \/ RunWaits(t) \/ TimesOut(t) \/ RunExits(t)

PollStep(t) ==
    \/ \E operation \in Operation, call \in {"poll", "poll one"} : PollTakes(t, operation, call)
    \/ \E operation \in Operation : PollGoesOn(t, operation)
    \/ PollOneReturns(t) \/ PollEnds(t)

ServiceNext ==
    \/ \E t \in Runner : RunStep(t) \/ WakesEarly(t)
    \/ \E t \in Poller : PollStep(t)
    \/ \E operation \in Operation, wakeup \in Wakeup : Add(operation, wakeup)
    \/ Stop \/ ServiceTick

(* Time passes, and threads in run go on; nobody has to poll.              *)
ServiceFairness == WF_serviceVars(ServiceTick) /\ \A t \in Runner : WF_serviceVars(RunStep(t))

ServiceSpec == ServiceInit /\ [][ServiceNext]_serviceVars /\ ServiceFairness

-----------------------------------------------------------------------------
(* Properties.                                                             *)

(* The state is well formed, and an operation is in the queue or was taken *)
(* from it, never both: it runs at most once.                              *)
ServiceTypeOK ==
    /\ now \in 0..MaxTime /\ done \in BOOLEAN
    /\ Queued \subseteq Operation /\ \A o \in Queued : operations[o] \in Wakeup
    /\ DOMAIN ran \subseteq Operation \ Queued
    /\ thread \in [ServiceThread -> [at : {"look", "wait", "run", "poll", "poll one", "out"},
                              until : 0..(MaxTime + 1), runs : Operation \cup {Nothing}]]

(* Nobody sleeps through an operation: a thread that waits does not wait   *)
(* longer than until the first operation of the queue is due, whatever was *)
(* added after it went to sleep (run, and notify_all in add).              *)
NobodyOversleeps ==
    \A t \in Runner, o \in Queued : thread[t].at = "wait" => thread[t].until <= operations[o]

(* The service keeps the promise of DelayedOperations: each operation is   *)
(* called once, in order of time and not early, a stopped service forgets  *)
(* what is queued and takes nothing more, and what was added is called in  *)
(* the end unless it is stopped.                                           *)
Promise == INSTANCE DelayedOperations WITH
    stopped <- done, promised <- operations, called <- DOMAIN ran
KeepsPromise == Promise!Spec

(* After stop every thread leaves run, as thread_runner::join expects.     *)
RunnersExit == done ~> \A t \in Runner : thread[t] = Out
=============================================================================
