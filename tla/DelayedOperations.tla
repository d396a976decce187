------------------------- MODULE DelayedOperations --------------------------
(***************************************************************************)
(* What the node expects of paper::processor_service, without threads,     *)
(* waits or a queue: an operation given to add is called once, after its   *)
(* time and not before one that was due earlier, unless the service is     *)
(* stopped first.  keepalive, bootstrap warmup, vote broadcasts and the    *)
(* election cutoff all rest on this promise.                               *)
(***************************************************************************)
EXTENDS Naturals

CONSTANTS
    Operation,
    MaxTime     \* bound of the clock

VARIABLES
    now,
    stopped,
    promised,   \* time of each operation still to be called
    called      \* operations that were called

vars == <<now, stopped, promised, called>>

Init == now = 0 /\ stopped = FALSE /\ promised = << >> /\ called = {}

Add(operation, time) ==
    /\ ~stopped /\ operation \notin DOMAIN promised \cup called
    /\ promised' = [o \in DOMAIN promised \cup {operation} |->
                      IF o = operation THEN time ELSE promised[o]]
    /\ UNCHANGED <<now, stopped, called>>

Call(operation) ==
    /\ operation \in DOMAIN promised /\ promised[operation] < now
    /\ \A o \in DOMAIN promised : promised[operation] <= promised[o]
    /\ promised' = [o \in DOMAIN promised \ {operation} |-> promised[o]]
    /\ called' = called \cup {operation}
    /\ UNCHANGED <<now, stopped>>

Stop ==
    /\ ~stopped
    /\ stopped' = TRUE
    /\ promised' = << >>
    /\ UNCHANGED <<now, called>>

Tick == now < MaxTime /\ now' = now + 1 /\ UNCHANGED <<stopped, promised, called>>

Next ==
    \/ \E operation \in Operation : Call(operation) \/ \E time \in 0..(MaxTime - 1) : Add(operation, time)
    \/ Stop \/ Tick

Spec ==
    /\ Init /\ [][Next]_vars
    /\ WF_vars(Tick) /\ \A operation \in Operation : WF_vars(Call(operation))
=============================================================================
