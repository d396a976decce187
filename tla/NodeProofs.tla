----------------------------- MODULE NodeProofs -----------------------------
(***************************************************************************)
(* What a node does by itself: the operations it delays, the packets it    *)
(* queues, and the actions of its wallets.                                 *)
(*                                                                         *)
(* ProcessorService with any number of threads and operations: nobody      *)
(* sleeps through an operation, and every step is a step of the abstract   *)
(* DelayedOperations or changes nothing of it.  SendQueue with any number  *)
(* of packets and rebroadcasts: the assertions hold, one packet is sent at *)
(* a time, and callbacks are called once, after the last rebroadcast.      *)
(* Wallet, with any number of accounts, sends and clients: the ledger      *)
(* takes what the wallet makes, its cached work is ready, and a search     *)
(* that ends has found everything.  And WalletStore, where a wallet keeps  *)
(* its keys.                                                               *)
(***************************************************************************)
EXTENDS ProcessorService, SendQueue, Wallet, FiniteSetTheorems, TLAPS

(* What the steps rely on: the clock and the wakeup times are numbers,     *)
(* every thread has a state, and operations that wait were not called.     *)
Sane ==
    /\ now \in Nat
    /\ \A o \in Queued : operations[o] \in Nat
    /\ thread = [t \in ServiceThread |-> thread[t]]
    /\ Queued \cap DOMAIN ran = {}

ServiceInv == Sane /\ NobodyOversleeps

(* A queue with an operation has a top (std::priority_queue::top).         *)
LEMMA TopExists == ASSUME Sane, Queued # {} PROVE \E o \in Queued : IsTop(o)
<1> DEFINE times == {operations[o] : o \in Queued}
           less == {p \in Nat \X Nat : p[1] < p[2]}
<1>1. times \subseteq Nat /\ times # {}
  BY DEF Sane
<1>2. IsWellFoundedOn(less, Nat)
  BY NatLessThanWellFounded, Zenon DEF OpToRel
<1> HIDE DEF times, less
<1>3. PICK x \in times : \A y \in times : ~(<<y, x>> \in less)
  BY <1>1, <1>2, WFMin, Zenon
<1>4. \A y \in times : x <= y
  <2>1. \A m, n \in Nat : m < n => <<m, n>> \in less
    BY DEF less
  <2> TAKE y \in times
  <2>2. x \in Nat /\ y \in Nat
    BY <1>1
  <2>3. ~(y < x)
    BY <1>3, <2>1, <2>2, Zenon
  <2> QED BY <2>2, <2>3
<1> QED
  BY <1>4 DEF IsTop, times

(* Taking an operation from the queue keeps it sane.                       *)
LEMMA TakesSane ==
  ASSUME Sane, NEW t \in ServiceThread, NEW operation \in Operation,
         NEW call \in {"run", "poll", "poll one"}, Takes(t, operation, call)
  PROVE  Sane'
<1>1. now' \in Nat /\ thread' = [u \in ServiceThread |-> thread'[u]]
  BY Zenon DEF Takes, Sane
<1>2. Queued' = Queued \ {operation} /\ \A o \in Queued' : operations'[o] = operations[o]
  BY Zenon DEF Takes, Queued, Without
<1>3. DOMAIN ran' = DOMAIN ran \cup {operation}
  BY Zenon DEF Takes, With
<1> QED
  BY <1>1, <1>2, <1>3, Zenon DEF Sane

(* Every step keeps the service sane.                                      *)
LEMMA SaneStep == ASSUME Sane, [ServiceNext]_serviceVars PROVE Sane'
<1>1. ASSUME NEW t \in Runner, RunStep(t) \/ WakesEarly(t) PROVE Sane'
  <2>1. ASSUME NEW operation \in Operation, RunTakes(t, operation) PROVE Sane'
    BY <2>1, TakesSane, Zenon DEF RunTakes, ServiceThread
  <2>2. CASE RunReturns(t) \/ RunWaits(t) \/ TimesOut(t) \/ WakesEarly(t) \/ RunExits(t)
    <3>1. now' = now /\ operations' = operations /\ ran' = ran
      BY <2>2 DEF RunReturns, RunWaits, TimesOut, WakesEarly, RunExits
    <3>2. \E x : thread' = [thread EXCEPT ![t] = x]
      BY <2>2 DEF RunReturns, RunWaits, TimesOut, WakesEarly, RunExits
    <3> QED BY <3>1, <3>2 DEF Sane, Queued
  <2> QED BY <1>1, <2>1, <2>2 DEF RunStep
<1>2. ASSUME NEW t \in Poller, PollStep(t) PROVE Sane'
  <2>1. ASSUME NEW operation \in Operation, NEW call \in {"poll", "poll one"},
               PollTakes(t, operation, call)
        PROVE  Sane'
    BY <2>1, TakesSane, Zenon DEF PollTakes, ServiceThread
  <2>2. ASSUME NEW operation \in Operation, PollGoesOn(t, operation) PROVE Sane'
    BY <2>2, TakesSane, Zenon DEF PollGoesOn, ServiceThread
  <2>3. CASE PollOneReturns(t) \/ PollEnds(t)
    BY <2>3, Zenon DEF PollOneReturns, PollEnds, Sane, Queued, ServiceThread
  <2> QED BY <1>2, <2>1, <2>2, <2>3, Zenon DEF PollStep
<1>3. ASSUME NEW operation \in Operation, NEW wakeup \in Wakeup, Add(operation, wakeup) PROVE Sane'
  <2>1. Queued' = Queued \cup {operation} /\ operations'[operation] = wakeup
    BY <1>3 DEF Add, Queued, With
  <2>2. \A o \in Queued : o # operation => operations'[o] = operations[o]
    BY <1>3 DEF Add, Queued, With
  <2>3. wakeup \in Nat
    BY ServiceAssumption DEF Wakeup
  <2>4. thread' = [u \in ServiceThread |-> thread'[u]]
    BY <1>3 DEF Add, Notified
  <2> QED BY <1>3, <2>1, <2>2, <2>3, <2>4 DEF Add, Sane
<1>4. CASE Stop
  <2>1. Queued' = {}
    BY <1>4 DEF Stop, Queued
  <2>2. thread' = [u \in ServiceThread |-> thread'[u]]
    BY <1>4 DEF Stop, Notified
  <2> QED BY <1>4, <2>1, <2>2 DEF Stop, Sane
<1>5. CASE ServiceTick
  BY <1>5 DEF ServiceTick, Sane, Queued
<1>6. CASE UNCHANGED serviceVars
  BY <1>6 DEF serviceVars, Sane, Queued
<1> QED
  BY <1>1, <1>2, <1>3, <1>4, <1>5, <1>6 DEF ServiceNext

(* No step lets a thread sleep through an operation: one that goes to      *)
(* sleep looks at the whole queue, and one that is added wakes everybody.  *)
LEMMA OversleepStep == ASSUME ServiceInv, [ServiceNext]_serviceVars PROVE NobodyOversleeps'
<1> USE DEF ServiceInv
<1>1. ASSUME NEW t \in ServiceThread, NEW operation \in Operation,
             NEW call \in {"run", "poll", "poll one"}, Takes(t, operation, call)
      PROVE  NobodyOversleeps'
  <2>1. Queued' \subseteq Queued /\ \A o \in Queued' : operations'[o] = operations[o]
    BY <1>1, Zenon DEF Takes, Queued, Without
  <2>2. \A u \in ServiceThread : thread'[u] = thread[u] \/ thread'[u].at # "wait"
    BY <1>1, Zenon DEF Takes, Calling, Sane
  <2> QED BY <2>1, <2>2, Zenon DEF NobodyOversleeps, ServiceThread
<1>2. ASSUME NEW t \in Runner, RunStep(t) \/ WakesEarly(t) PROVE NobodyOversleeps'
  <2>1. ASSUME NEW operation \in Operation, RunTakes(t, operation) PROVE NobodyOversleeps'
    BY <1>1, <2>1, Zenon DEF RunTakes, ServiceThread
  <2>2. CASE RunReturns(t) \/ TimesOut(t) \/ WakesEarly(t) \/ RunExits(t)
    <3>1. operations' = operations
      BY <2>2 DEF RunReturns, TimesOut, WakesEarly, RunExits
    <3>2. \A u \in ServiceThread : thread'[u] = thread[u] \/ thread'[u].at # "wait"
      BY <2>2 DEF RunReturns, TimesOut, WakesEarly, RunExits, Looks, Out, Sane
    <3> QED BY <3>1, <3>2 DEF NobodyOversleeps, Queued, ServiceThread
  <2>3. CASE RunWaits(t)
    <3>1. operations' = operations /\ \A u \in ServiceThread : u # t => thread'[u] = thread[u]
      BY <2>3 DEF RunWaits, Sane
    <3>2. \A o \in Queued : thread'[t].until <= operations[o]
      <4> SUFFICES ASSUME NEW o \in Queued PROVE thread'[t].until <= operations[o]
        OBVIOUS
      <4> DEFINE top == CHOOSE p \in Queued : IsTop(p)
      <4>1. IsTop(top)
        BY TopExists
      <4>2. thread'[t] = WaitsUntil(operations[top])
        BY <2>3 DEF RunWaits, Sane, ServiceThread
      <4> HIDE DEF top
      <4> QED BY <4>1, <4>2 DEF IsTop, WaitsUntil
    <3> QED BY <3>1, <3>2 DEF NobodyOversleeps, Queued, ServiceThread
  <2> QED BY <1>2, <2>1, <2>2, <2>3 DEF RunStep
<1>3. ASSUME NEW t \in Poller, PollStep(t) PROVE NobodyOversleeps'
  <2>1. ASSUME NEW operation \in Operation, NEW call \in {"poll", "poll one"},
               PollTakes(t, operation, call)
        PROVE  NobodyOversleeps'
    BY <1>1, <2>1, Zenon DEF PollTakes, ServiceThread
  <2>2. ASSUME NEW operation \in Operation, PollGoesOn(t, operation) PROVE NobodyOversleeps'
    BY <1>1, <2>2, Zenon DEF PollGoesOn, ServiceThread
  <2>3. CASE PollOneReturns(t) \/ PollEnds(t)
    <3>1. operations' = operations
      BY <2>3, Zenon DEF PollOneReturns, PollEnds
    <3>2. \A u \in ServiceThread : thread'[u] = thread[u] \/ thread'[u].at # "wait"
      <4>1. thread' = [thread EXCEPT ![t] = Out]
        BY <2>3, Zenon DEF PollOneReturns, PollEnds
      <4>2. Out.at # "wait"
        BY DEF Out
      <4> QED BY <4>1, <4>2 DEF Sane
    <3> QED BY <3>1, <3>2 DEF NobodyOversleeps, Queued, ServiceThread
  <2> QED BY <1>3, <2>1, <2>2, <2>3, Zenon DEF PollStep
<1>4. ASSUME NEW operation \in Operation, NEW wakeup \in Wakeup, Add(operation, wakeup)
      PROVE  NobodyOversleeps'
  BY <1>4 DEF Add, Notified, Looks, NobodyOversleeps, ServiceThread
<1>5. CASE Stop
  BY <1>5 DEF Stop, Queued, NobodyOversleeps
<1>6. CASE ServiceTick \/ UNCHANGED serviceVars
  BY <1>6 DEF ServiceTick, serviceVars, NobodyOversleeps, Queued
<1> QED
  BY <1>1, <1>2, <1>3, <1>4, <1>5, <1>6, Zenon DEF ServiceNext

(* At the start every queue is empty and the threads look at it.           *)
LEMMA InitInv == ServiceInit => ServiceInv
BY DEF ServiceInit, ServiceInv, Sane, Queued, NobodyOversleeps

(* With any number of threads and operations, no thread of run sleeps past *)
(* the time of an operation that is queued (run, and notify_all in add).   *)
THEOREM NobodyOversleepsEver == ServiceSpec => []NobodyOversleeps
<1>1. ServiceInv /\ [ServiceNext]_serviceVars => ServiceInv'
  BY SaneStep, OversleepStep DEF ServiceInv
<1>2. ServiceInv => NobodyOversleeps
  BY DEF ServiceInv
<1> QED
  BY InitInv, <1>1, <1>2, PTL DEF ServiceSpec

(* Each step of the service is one of the abstract service, or changes     *)
(* nothing it shows: taking an operation calls it, everything that only    *)
(* moves a thread is hidden.                                               *)
LEMMA StepImplements == ASSUME Sane, [ServiceNext]_serviceVars PROVE [Promise!Next]_(Promise!vars)
<1> USE DEF Promise!Next, Promise!vars
<1>1. ASSUME NEW t \in ServiceThread, NEW operation \in Operation,
             NEW call \in {"run", "poll", "poll one"}, Takes(t, operation, call)
      PROVE  Promise!Call(operation)
  <2>1. operations' = [o \in DOMAIN operations \ {operation} |-> operations[o]]
    BY <1>1, Zenon DEF Takes, Without, Queued
  <2>2. DOMAIN ran' = DOMAIN ran \cup {operation}
    BY <1>1, Zenon DEF Takes, With
  <2> QED BY <1>1, <2>1, <2>2, Zenon DEF Takes, IsTop, Queued, Promise!Call
<1>2. ASSUME UNCHANGED <<now, done, operations, ran>> PROVE UNCHANGED Promise!vars
  BY <1>2
<1>3. ASSUME NEW t \in Runner, RunStep(t) \/ WakesEarly(t) PROVE [Promise!Next]_(Promise!vars)
  <2>1. ASSUME NEW operation \in Operation, RunTakes(t, operation) PROVE Promise!Next
    BY <1>1, <2>1, Zenon DEF RunTakes, ServiceThread
  <2>2. CASE RunReturns(t) \/ RunWaits(t) \/ TimesOut(t) \/ WakesEarly(t) \/ RunExits(t)
    BY <1>2, <2>2 DEF RunReturns, RunWaits, TimesOut, WakesEarly, RunExits
  <2> QED BY <1>3, <2>1, <2>2 DEF RunStep
<1>4. ASSUME NEW t \in Poller, PollStep(t) PROVE [Promise!Next]_(Promise!vars)
  <2>1. ASSUME NEW operation \in Operation, NEW call \in {"poll", "poll one"},
               PollTakes(t, operation, call)
        PROVE  Promise!Next
    BY <1>1, <2>1, Zenon DEF PollTakes, ServiceThread
  <2>2. ASSUME NEW operation \in Operation, PollGoesOn(t, operation) PROVE Promise!Next
    BY <1>1, <2>2, Zenon DEF PollGoesOn, ServiceThread
  <2>3. CASE PollOneReturns(t) \/ PollEnds(t)
    BY <1>2, <2>3, Zenon DEF PollOneReturns, PollEnds
  <2> QED BY <1>4, <2>1, <2>2, <2>3, Zenon DEF PollStep
<1>5. ASSUME NEW operation \in Operation, NEW wakeup \in Wakeup, Add(operation, wakeup)
      PROVE  Promise!Add(operation, wakeup)
  BY <1>5 DEF Add, With, Queued, Promise!Add
<1>6. CASE Stop
  BY <1>6, Zenon DEF Stop, Promise!Stop
<1>7. CASE ServiceTick
  BY <1>7 DEF ServiceTick, Promise!Tick
<1>8. CASE UNCHANGED serviceVars
  BY <1>2, <1>8 DEF serviceVars
<1> QED
  BY <1>3, <1>4, <1>5, <1>6, <1>7, <1>8 DEF ServiceNext, Wakeup

(* What the service does is allowed by DelayedOperations, with any number  *)
(* of threads and operations: every operation is called at most once, not  *)
(* early, not before one that is due earlier, and none is taken once the  *)
(* service is stopped (processor_service::run, poll, poll_one, add, stop). *)
THEOREM ServiceImplements == ServiceSpec => Promise!Init /\ [][Promise!Next]_(Promise!vars)
<1>1. ServiceInit => Promise!Init
  BY DEF ServiceInit, Promise!Init
<1>2. ServiceInit => Sane
  BY InitInv DEF ServiceInv
<1>3. Sane /\ [ServiceNext]_serviceVars => Sane'
  BY SaneStep
<1>4. Sane /\ [ServiceNext]_serviceVars => [Promise!Next]_(Promise!vars)
  BY StepImplements
<1> QED
  BY <1>1, <1>2, <1>3, <1>4, PTL DEF ServiceSpec

-----------------------------------------------------------------------------
(* The queue of packets of module SendQueue.                               *)

(* The entries of the queue that still have to be sent or are being sent:  *)
(* all but a front whose handler has passed the packet on already.         *)
Live == {i \in DOMAIN sends : i > 1 \/ handler # "complete"}
Later == delayed \ {Initiate}

(* A packet is in one place at a time: what is left of its rebroadcasts is *)
(* an entry of the queue or an operation of the service, never both.       *)
InOnePlace ==
    /\ \A i, j \in Live : sends[i].packet = sends[j].packet => i = j
    /\ \A i \in Live, send \in Later : sends[i].packet # send.packet
    /\ \A send, other \in Later : send.packet = other.packet => send = other

(* The rebroadcasts left of a packet and the sends so far add up, and its  *)
(* callback was not called.                                                *)
AddsUp ==
    /\ \A i \in Live :
          /\ called[sends[i].packet] = 0 /\ sends[i].rebroadcast <= Rebroadcasts[sends[i].packet]
          /\ sent[sends[i].packet] + sends[i].rebroadcast =
                Rebroadcasts[sends[i].packet] + (IF i = 1 /\ handler = "sending" THEN 1 ELSE 0)
    /\ \A send \in Later :
          /\ called[send.packet] = 0 /\ sent[send.packet] > 0
          /\ sent[send.packet] + send.rebroadcast = Rebroadcasts[send.packet]

QueueInv == SendTypeOK /\ OneSender /\ InOnePlace /\ AddsUp /\ CallbackLast

(* What Append, Head and Tail do to a queue of packets.                    *)
LEMMA QueueFacts ==
    ASSUME NEW queue \in Seq(Sending)
    PROVE  /\ Len(queue) \in Nat /\ DOMAIN queue = 1..Len(queue)
           /\ queue = <<>> <=> Len(queue) = 0
           /\ \A i \in 1..Len(queue) : queue[i] \in Sending
           /\ queue # <<>> => /\ Head(queue) = queue[1] /\ Tail(queue) \in Seq(Sending)
                              /\ Len(Tail(queue)) = Len(queue) - 1
                              /\ \A i \in 1..(Len(queue) - 1) : Tail(queue)[i] = queue[i + 1]
OBVIOUS

(* A queue with one more send at its end.                                  *)
LEMMA AppendFacts ==
    ASSUME NEW queue \in Seq(Sending), NEW send \in Sending
    PROVE  /\ Append(queue, send) \in Seq(Sending)
           /\ Len(Append(queue, send)) = Len(queue) + 1
           /\ \A i \in 1..Len(queue) : Append(queue, send)[i] = queue[i]
           /\ Append(queue, send)[Len(queue) + 1] = send
OBVIOUS

(* A packet is no operation initiate_send.                                 *)
LEMMA SendFacts ==
    ASSUME NEW send \in Sending
    PROVE  send # Initiate /\ send.packet \in Packet /\ send.rebroadcast \in Nat
BY SendAssumption DEF Sending, Initiate, Nobody

(* network::send_buffer keeps the invariant when the packet is nowhere     *)
(* else and its counts add up.                                             *)
LEMMA SendBufferStep ==
    ASSUME QueueInv, NEW send \in Sending, SendBuffer(send),
           UNCHANGED <<called, stopped>>,
           delayed' \subseteq delayed, Initiate \in delayed => Initiate \in delayed',
           called[send.packet] = 0, sent[send.packet] + send.rebroadcast = Rebroadcasts[send.packet],
           \A i \in Live : sends[i].packet # send.packet,
           \A other \in Later' : other.packet # send.packet
    PROVE  QueueInv'
<1> DEFINE p == send.packet
           n == Len(sends)
<1>1. /\ n \in Nat /\ DOMAIN sends = 1..n /\ sends = <<>> <=> n = 0
      /\ \A i \in 1..n : sends[i] \in Sending /\ sends[i].packet \in Packet /\ sends[i].rebroadcast \in Nat
      /\ sends # <<>> => Head(sends) = sends[1]
  BY QueueFacts, SendFacts DEF QueueInv, SendTypeOK
<1>2. /\ sends' \in Seq(Sending) /\ Len(sends') = n + 1 /\ DOMAIN sends' = 1..(n + 1)
      /\ \A i \in 1..n : sends'[i] = sends[i]
      /\ sends'[n + 1] = send /\ sends' # <<>> /\ Head(sends') = sends'[1]
  <2>1. sends' = Append(sends, send) /\ sends \in Seq(Sending)
    BY DEF SendBuffer, QueueInv, SendTypeOK
  <2>2. sends' \in Seq(Sending) /\ Len(sends') = n + 1
    BY <2>1, AppendFacts
  <2>3. DOMAIN sends' = 1..(n + 1) /\ sends' # <<>> /\ Head(sends') = sends'[1]
    BY <1>1, <2>2, QueueFacts
  <2> QED
    BY <2>1, <2>2, <2>3, AppendFacts
<1>3. p \in Packet /\ send.rebroadcast \in Nat /\ send # Initiate
  BY SendFacts
<1>4. /\ sent \in [Packet -> Nat] /\ called \in [Packet -> Nat] /\ Rebroadcasts \in [Packet -> Nat]
      /\ called' = called /\ stopped' = stopped
  BY SendAssumption DEF QueueInv, SendTypeOK
<1>5. Later' \subseteq Later
  BY DEF Later
<1>6. \A other \in Later : other \in Sending /\ other.packet \in Packet /\ other.rebroadcast \in Nat
  BY SendFacts DEF QueueInv, SendTypeOK, Later
<1>7. CASE sends = <<>>
  <2>1. n = 0 /\ handler = "none" /\ Initiate \notin delayed
    BY <1>1, <1>7 DEF QueueInv, OneSender
  <2>2. /\ socket' = send /\ handler' = "sending" /\ sendFailed' = sendFailed
        /\ sent' = [sent EXCEPT ![p] = @ + 1]
    BY <1>2, <1>7, <2>1 DEF SendBuffer, InitiateSend
  <2>3. sent' \in [Packet -> Nat] /\ sent'[p] = sent[p] + 1 /\ \A q \in Packet : q # p => sent'[q] = sent[q]
    BY <1>3, <1>4, <2>2
  <2>4. Live' = {1} /\ sends'[1] = send
    BY <1>2, <2>1, <2>2 DEF Live
  <2>5. SendTypeOK'
    BY <1>2, <1>4, <2>2, <2>3 DEF QueueInv, SendTypeOK
  <2>6. OneSender'
    BY <1>2, <2>1, <2>2, <2>4 DEF OneSender
  <2>7. InOnePlace'
    BY <1>5, <2>4 DEF QueueInv, InOnePlace
  <2>8. AddsUp'
    <3>1. \A other \in Later' : sent'[other.packet] = sent[other.packet]
      BY <1>5, <1>6, <2>3
    <3>2. /\ called'[p] = 0 /\ sent'[p] + send.rebroadcast = Rebroadcasts[p] + 1
          /\ send.rebroadcast <= Rebroadcasts[p]
      BY <1>3, <1>4, <2>3
    <3> QED
      BY <1>4, <1>5, <2>2, <2>4, <3>1, <3>2 DEF QueueInv, AddsUp
  <2>9. CallbackLast'
    BY <1>3, <1>4, <2>3 DEF QueueInv, CallbackLast
  <2> QED
    BY <2>5, <2>6, <2>7, <2>8, <2>9 DEF QueueInv
<1>8. CASE sends # <<>>
  <2>1. /\ n > 0 /\ UNCHANGED <<socket, handler, sent, sendFailed>> /\ sends'[1] = sends[1]
    BY <1>1, <1>2, <1>8 DEF SendBuffer
  <2>2. Live' = Live \cup {n + 1} /\ Live \subseteq 1..n
    BY <1>1, <1>2, <2>1 DEF Live
  <2>3. SendTypeOK'
    BY <1>2, <1>4, <2>1 DEF QueueInv, SendTypeOK
  <2>4. OneSender'
    BY <1>1, <1>2, <1>4, <1>8, <2>1 DEF QueueInv, OneSender
  <2>5. \A i \in Live' : i = n + 1 \/ (i \in Live /\ sends'[i] = sends[i])
    BY <1>2, <2>2, Zenon
  <2>6. InOnePlace'
    <3>1. ASSUME NEW i \in Live', NEW j \in Live', sends'[i].packet = sends'[j].packet PROVE i = j
      BY <1>2, <2>5, <3>1 DEF QueueInv, InOnePlace
    <3>2. ASSUME NEW i \in Live', NEW other \in Later' PROVE sends'[i].packet # other.packet
      BY <1>2, <1>5, <2>5 DEF QueueInv, InOnePlace
    <3> QED
      BY <1>5, <3>1, <3>2 DEF QueueInv, InOnePlace
  <2>7. AddsUp'
    <3>1. \A i \in Live' : /\ called'[sends'[i].packet] = 0
                           /\ sends'[i].rebroadcast <= Rebroadcasts[sends'[i].packet]
                           /\ sent'[sends'[i].packet] + sends'[i].rebroadcast = Rebroadcasts[sends'[i].packet]
                                  + (IF i = 1 /\ handler' = "sending" THEN 1 ELSE 0)
      <4> TAKE i \in Live'
      <4>1. CASE i = n + 1
        BY <1>1, <1>2, <1>3, <1>4, <2>1, <4>1
      <4>2. CASE i \in Live /\ sends'[i] = sends[i]
        BY <1>4, <2>1, <4>2 DEF QueueInv, AddsUp
      <4> QED
        BY <2>5, <4>1, <4>2
    <3> QED
      BY <1>4, <1>5, <2>1, <3>1 DEF QueueInv, AddsUp
  <2>8. CallbackLast'
    BY <1>4, <2>1 DEF QueueInv, CallbackLast
  <2> QED
    BY <2>3, <2>4, <2>6, <2>7, <2>8 DEF QueueInv
<1> QED
  BY <1>7, <1>8

(* A packet that somebody sends for the first time is nowhere yet.         *)
LEMMA NewPacketStep ==
    ASSUME QueueInv, NEW p \in Packet, NewPacket(p)
    PROVE QueueInv'
<1> DEFINE send == [packet |-> p, rebroadcast |-> Rebroadcasts[p]]
<1>1. send \in Sending /\ send.packet = p /\ send.rebroadcast = Rebroadcasts[p]
  BY SendAssumption DEF Sending
<1>2. SendBuffer(send) /\ delayed' = delayed /\ UNCHANGED <<called, stopped>> /\ sent[p] = 0
  BY DEF NewPacket
<1>3. called[p] = 0 /\ sent[p] + Rebroadcasts[p] = Rebroadcasts[p]
  BY <1>2, SendAssumption DEF QueueInv, SendTypeOK, CallbackLast
<1>4. \A i \in Live : sends[i].packet # p
  BY DEF NewPacket, Live
<1>5. \A other \in Later' : other.packet # p
  BY <1>2 DEF Later, QueueInv, AddsUp
<1> HIDE DEF send
<1> QED
  BY <1>1, <1>2, <1>3, <1>4, <1>5, SendBufferStep

(* A rebroadcast that the service has delayed leaves it for the queue.     *)
LEMMA DelayedSendStep ==
    ASSUME QueueInv, NEW send \in delayed, DelayedSend(send)
    PROVE QueueInv'
<1>1. send \in Later /\ send \in Sending /\ delayed' = delayed \ {send}
  BY DEF DelayedSend, Later, QueueInv, SendTypeOK
<1>2. SendBuffer(send) /\ UNCHANGED <<called, stopped>> /\ send # Initiate
  BY DEF DelayedSend
<1>3. called[send.packet] = 0 /\ sent[send.packet] + send.rebroadcast = Rebroadcasts[send.packet]
  BY <1>1 DEF QueueInv, AddsUp
<1>4. \A i \in Live : sends[i].packet # send.packet
  BY <1>1 DEF QueueInv, InOnePlace
<1>5. \A other \in Later' : other.packet # send.packet
  BY <1>1 DEF Later, QueueInv, InOnePlace
<1> QED
  BY <1>1, <1>2, <1>3, <1>4, <1>5, SendBufferStep

(* initiate_send, run by the service: the front of the queue waited for it.*)
LEMMA DelayedInitiateStep == ASSUME QueueInv, DelayedInitiate PROVE QueueInv'
<1> DEFINE p == sends[1].packet
<1>1. /\ sends # <<>> /\ handler = "none" /\ delayed' = delayed \ {Initiate} /\ Later' = Later
      /\ UNCHANGED <<sends, called, stopped>>
  BY DEF QueueInv, OneSender, DelayedInitiate, Later
<1>2. /\ Len(sends) \in Nat \ {0} /\ DOMAIN sends = 1..Len(sends) /\ Head(sends) = sends[1]
      /\ \A i \in 1..Len(sends) : sends[i] \in Sending
  BY <1>1, QueueFacts DEF QueueInv, SendTypeOK
<1>3. \A i \in 1..Len(sends) : sends[i].packet \in Packet /\ sends[i].rebroadcast \in Nat
  BY <1>2, SendFacts
<1>4. /\ socket' = sends[1] /\ handler' = "sending" /\ sendFailed' = sendFailed
      /\ sent' = [sent EXCEPT ![p] = @ + 1]
  BY <1>1, <1>2 DEF DelayedInitiate, InitiateSend
<1>5. /\ sent \in [Packet -> Nat] /\ called \in [Packet -> Nat] /\ Rebroadcasts \in [Packet -> Nat]
      /\ p \in Packet
  BY <1>2, <1>3, SendAssumption DEF QueueInv, SendTypeOK
<1>6. sent' \in [Packet -> Nat] /\ sent'[p] = sent[p] + 1 /\ \A q \in Packet : q # p => sent'[q] = sent[q]
  BY <1>4, <1>5
<1>7. Live' = Live /\ Live = 1..Len(sends) /\ 1 \in Live
  BY <1>1, <1>2, <1>4 DEF Live
<1>8. SendTypeOK'
  BY <1>1, <1>2, <1>4, <1>6 DEF QueueInv, SendTypeOK
<1>9. OneSender'
  BY <1>1, <1>2, <1>4 DEF OneSender
<1>10. InOnePlace'
  BY <1>1, <1>7 DEF QueueInv, InOnePlace
<1>11. AddsUp'
  <2>1. \A i \in Live : i # 1 => sends[i].packet # p
    BY <1>7 DEF QueueInv, InOnePlace
  <2>2. \A i \in Live : sent'[sends[i].packet] + sends[i].rebroadcast =
                            Rebroadcasts[sends[i].packet] + (IF i = 1 THEN 1 ELSE 0)
    <3>1. ASSUME NEW i \in Live, i # 1 PROVE sent'[sends[i].packet] = sent[sends[i].packet]
      BY <1>3, <1>6, <1>7, <2>1, <3>1
    <3>2. \A i \in Live : sent[sends[i].packet] + sends[i].rebroadcast = Rebroadcasts[sends[i].packet]
      BY <1>1, <1>3, <1>5, <1>7 DEF QueueInv, AddsUp
    <3>3. sent[p] \in Nat /\ sends[1].rebroadcast \in Nat /\ Rebroadcasts[p] \in Nat
      BY <1>2, <1>3, <1>5
    <3>4. sent'[p] + sends[1].rebroadcast = Rebroadcasts[p] + 1
      <4>1. \A k, m, n \in Nat : k + m = n => (k + 1) + m = n + 1
        OBVIOUS
      <4>2. sent[p] + sends[1].rebroadcast = Rebroadcasts[p] /\ sent'[p] = sent[p] + 1
        BY <1>6, <1>7, <3>2
      <4> QED
        BY <3>3, <4>1, <4>2
    <3>5. \A i \in Live : Rebroadcasts[sends[i].packet] \in Nat
      BY <1>3, <1>5, <1>7
    <3> QED
      BY <3>1, <3>2, <3>4, <3>5
  <2>3. \A send \in Later : sent'[send.packet] = sent[send.packet]
    <3>1. \A send \in Later : send.packet \in Packet /\ send.packet # p
      BY <1>7, SendFacts DEF QueueInv, InOnePlace, SendTypeOK, Later
    <3> QED
      BY <1>6, <3>1
  <2> QED
    BY <1>1, <1>4, <1>7, <2>2, <2>3 DEF QueueInv, AddsUp
<1>12. CallbackLast'
  <2>1. called[p] = 0
    BY <1>7 DEF QueueInv, AddsUp
  <2> QED
    BY <1>1, <1>5, <1>6, <2>1 DEF QueueInv, CallbackLast
<1> QED
  BY <1>8, <1>9, <1>10, <1>11, <1>12 DEF QueueInv

(* What the handler finds: the packet on the socket is the front.          *)
LEMMA HandlerFacts ==
    ASSUME QueueInv, handler # "none"
    PROVE  /\ sends # <<>> /\ Len(sends) \in Nat \ {0} /\ DOMAIN sends = 1..Len(sends)
           /\ socket = sends[1] /\ socket = Head(sends) /\ socket \in Sending
           /\ socket.packet \in Packet /\ socket.rebroadcast \in Nat
           /\ Initiate \notin delayed
           /\ \A i \in 1..Len(sends) : sends[i] \in Sending /\ sends[i].packet \in Packet
<1>1. sends # <<>> /\ sends \in Seq(Sending) /\ socket = Head(sends) /\ Initiate \notin delayed
  BY DEF QueueInv, OneSender, SendTypeOK
<1> QED
  BY <1>1, QueueFacts, SendFacts

(* The handler hands a packet with rebroadcasts left to the service; the   *)
(* entry at the front is not live any more.                                *)
LEMMA SentAgainStep == ASSUME QueueInv, SentAgain PROVE QueueInv'
<1> DEFINE again == [socket EXCEPT !.rebroadcast = @ - 1]
           p == socket.packet
<1>1. /\ handler = "sending" /\ handler' = "complete" /\ socket.rebroadcast > 0
      /\ UNCHANGED <<sends, socket, sent, called, stopped, sendFailed>>
      /\ delayed' = IF stopped THEN delayed ELSE delayed \cup {again}
  BY DEF SentAgain, Delay
<1>2. /\ sends # <<>> /\ Len(sends) \in Nat \ {0} /\ DOMAIN sends = 1..Len(sends)
      /\ socket = sends[1] /\ socket \in Sending /\ p \in Packet /\ socket.rebroadcast \in Nat
      /\ Initiate \notin delayed
  BY <1>1, HandlerFacts
<1>3. again \in Sending /\ again.packet = p /\ again.rebroadcast = socket.rebroadcast - 1 /\ again # Initiate
  <2>1. again \in Sending /\ again.packet = p /\ again.rebroadcast = socket.rebroadcast - 1
    BY <1>1, <1>2 DEF Sending
  <2> QED
    BY <2>1, SendFacts
<1>4. Live' = Live \ {1} /\ 1 \in Live
  BY <1>1, <1>2 DEF Live
<1>5. Later' \subseteq Later \cup {again}
  BY <1>1 DEF Later
<1>6. /\ sent \in [Packet -> Nat] /\ Rebroadcasts \in [Packet -> Nat] /\ called[p] = 0
      /\ sent[p] + socket.rebroadcast = Rebroadcasts[p] + 1
      /\ socket.rebroadcast <= Rebroadcasts[p]
  BY <1>1, <1>2, <1>4, SendAssumption DEF QueueInv, SendTypeOK, AddsUp
<1>7. /\ \A i \in Live' : sends[i].packet # p
      /\ \A send \in Later : send.packet # p
  BY <1>2, <1>4 DEF QueueInv, InOnePlace
<1> HIDE DEF again
<1>8. SendTypeOK'
  BY <1>1, <1>3 DEF QueueInv, SendTypeOK
<1>9. OneSender'
  BY <1>1, <1>2, <1>3 DEF QueueInv, OneSender
<1>10. InOnePlace'
  BY <1>1, <1>3, <1>4, <1>5, <1>7 DEF QueueInv, InOnePlace
<1>11. AddsUp'
  <2>1. called[p] = 0 /\ sent[p] > 0 /\ sent[p] + again.rebroadcast = Rebroadcasts[p]
    <3>1. sent[p] \in Nat /\ Rebroadcasts[p] \in Nat
      BY <1>2, <1>6
    <3>2. \A k, m, n \in Nat : k + m = n + 1 /\ 0 < m /\ m <= n => k > 0 /\ k + (m - 1) = n
      OBVIOUS
    <3>3. socket.rebroadcast \in Nat /\ 0 < socket.rebroadcast
      BY <1>1, <1>2
    <3> QED
      BY <1>3, <1>6, <3>1, <3>2, <3>3
  <2>2. \A send \in Later' : /\ called'[send.packet] = 0 /\ sent'[send.packet] > 0
                             /\ sent'[send.packet] + send.rebroadcast = Rebroadcasts[send.packet]
    BY <1>1, <1>3, <1>5, <2>1 DEF QueueInv, AddsUp
  <2>3. \A i \in Live' : i # 1 /\ i \in Live
    BY <1>4
  <2> QED
    BY <1>1, <2>2, <2>3 DEF QueueInv, AddsUp
<1>12. CallbackLast'
  BY <1>1 DEF QueueInv, CallbackLast
<1> QED
  BY <1>8, <1>9, <1>10, <1>11, <1>12 DEF QueueInv

(* The handler calls the callback of a packet without rebroadcasts left,   *)
(* which was not called before and is nowhere else.                        *)
LEMMA SentLastStep == ASSUME QueueInv, SentLast PROVE QueueInv'
<1> DEFINE p == socket.packet
<1>1. handler = "sending" /\ socket.rebroadcast = 0 /\ UNCHANGED <<sends, socket, delayed, sent, stopped>>
  BY DEF SentLast
<1>2. /\ sends # <<>> /\ Len(sends) \in Nat \ {0} /\ DOMAIN sends = 1..Len(sends)
      /\ socket = sends[1] /\ socket = Head(sends) /\ p \in Packet
      /\ \A i \in 1..Len(sends) : sends[i].packet \in Packet
  BY <1>1, HandlerFacts
<1>3. handler' = "complete" /\ sendFailed' = sendFailed /\ called' = [called EXCEPT ![p] = @ + 1]
  BY <1>2 DEF SentLast
<1>4. Live' = Live \ {1} /\ 1 \in Live /\ Live \subseteq 1..Len(sends) /\ Later' = Later
  BY <1>1, <1>2, <1>3 DEF Live, Later
<1>5. /\ called \in [Packet -> Nat] /\ Rebroadcasts \in [Packet -> Nat] /\ sent \in [Packet -> Nat]
      /\ called[p] = 0 /\ sent[p] + 0 = Rebroadcasts[p] + 1
  BY <1>1, <1>2, <1>4, SendAssumption DEF QueueInv, SendTypeOK, AddsUp
<1>6. called' \in [Packet -> Nat] /\ called'[p] = 1 /\ \A q \in Packet : q # p => called'[q] = called[q]
  BY <1>2, <1>3, <1>5
<1>7. /\ \A i \in Live' : sends[i].packet \in Packet \ {p} /\ i # 1 /\ i \in Live
      /\ \A send \in Later : send.packet \in Packet \ {p}
  BY <1>2, <1>4, SendFacts DEF QueueInv, InOnePlace, SendTypeOK, Later
<1>8. SendTypeOK'
  BY <1>1, <1>3, <1>6 DEF QueueInv, SendTypeOK
<1>9. OneSender'
  BY <1>1, <1>3 DEF QueueInv, OneSender
<1>10. InOnePlace'
  <2>1. Live' \subseteq Live /\ Later' = Later /\ sends' = sends
    BY <1>1, <1>4
  <2>2. InOnePlace
    BY DEF QueueInv
  <2> QED
    BY <2>1, <2>2 DEF InOnePlace
<1>11. AddsUp'
  BY <1>1, <1>4, <1>6, <1>7 DEF QueueInv, AddsUp
<1>12. CallbackLast'
  <2>1. sent[p] = Rebroadcasts[p] + 1
    BY <1>2, <1>5
  <2> QED
    BY <1>1, <1>6, <2>1 DEF QueueInv, CallbackLast
<1> QED
  BY <1>8, <1>9, <1>10, <1>11, <1>12 DEF QueueInv

(* network::send_complete: every live entry moves one place to the front.  *)
LEMMA SendCompleteStep == ASSUME QueueInv, SendComplete PROVE QueueInv'
<1>1. handler = "complete" /\ handler' = "none" /\ socket' = Nobody /\ UNCHANGED <<sent, called, stopped>>
  BY DEF SendComplete
<1>2. sends # <<>> /\ Len(sends) \in Nat \ {0} /\ DOMAIN sends = 1..Len(sends) /\ Initiate \notin delayed
  BY <1>1, HandlerFacts
<1>3. /\ sends' = Tail(sends) /\ sendFailed' = sendFailed
      /\ delayed' = IF sends' # <<>> /\ ~stopped THEN delayed \cup {Initiate} ELSE delayed
  BY <1>2 DEF SendComplete, Delay
<1>4. /\ sends' \in Seq(Sending) /\ DOMAIN sends' = 1..(Len(sends) - 1)
      /\ \A i \in 1..(Len(sends) - 1) : sends'[i] = sends[i + 1]
  <2>1. /\ sends' \in Seq(Sending) /\ Len(sends') = Len(sends) - 1
        /\ \A i \in 1..(Len(sends) - 1) : sends'[i] = sends[i + 1]
    BY <1>2, <1>3, QueueFacts DEF QueueInv, SendTypeOK
  <2> QED
    BY <2>1, QueueFacts
<1>5. \A i \in Live' : i + 1 \in Live /\ sends'[i] = sends[i + 1] /\ i \in Nat /\ i + 1 # 1
  BY <1>1, <1>2, <1>4 DEF Live
<1>6. Later' = Later
  BY <1>2, <1>3 DEF Later
<1>7. SendTypeOK'
  BY <1>1, <1>3, <1>4 DEF QueueInv, SendTypeOK
<1>8. OneSender'
  BY <1>1, <1>2, <1>3 DEF QueueInv, OneSender
<1>9. InOnePlace'
  <2>1. ASSUME NEW i \in Live', NEW j \in Live', sends'[i].packet = sends'[j].packet PROVE i = j
    <3>1. i + 1 = j + 1
      BY <1>5, <2>1 DEF QueueInv, InOnePlace
    <3> QED
      BY <1>5, <3>1
  <2>2. \A i \in Live', send \in Later' : sends'[i].packet # send.packet
    BY <1>5, <1>6 DEF QueueInv, InOnePlace
  <2> QED
    BY <1>6, <2>1, <2>2 DEF QueueInv, InOnePlace
<1>10. AddsUp'
  BY <1>1, <1>5, <1>6 DEF QueueInv, AddsUp
<1>11. CallbackLast'
  BY <1>1 DEF QueueInv, CallbackLast
<1> QED
  BY <1>7, <1>8, <1>9, <1>10, <1>11 DEF QueueInv

(* processor_service::stop only drops operations.                          *)
LEMMA StopStep == ASSUME QueueInv, StopService PROVE QueueInv'
<1>1. /\ stopped' = TRUE /\ delayed' = {} /\ Later' = {} /\ Live' = Live
      /\ UNCHANGED <<sends, socket, handler, sent, called, sendFailed>>
  BY DEF StopService, Live, Later
<1>2. SendTypeOK' /\ OneSender'
  BY <1>1 DEF QueueInv, SendTypeOK, OneSender
<1>3. InOnePlace' /\ AddsUp'
  BY <1>1 DEF QueueInv, InOnePlace, AddsUp
<1> QED
  BY <1>1, <1>2, <1>3 DEF QueueInv, CallbackLast

(* The invariant holds whenever packets are sent, delayed, completed or    *)
(* dropped, in whatever order the socket and the service come.             *)
THEOREM QueueInvariance == SendSpec => []QueueInv
<1>1. SendInit => QueueInv
  <2>1. SendInit => SendTypeOK /\ OneSender
    <3>1. SendInit => OneSender
      BY DEF SendInit, OneSender
    <3>2. SendInit => sends \in Seq(Sending) /\ sent \in [Packet -> Nat] /\ called \in [Packet -> Nat]
      BY DEF SendInit
    <3>3. SendInit => SendTypeOK
      BY <3>2, Zenon DEF SendInit, SendTypeOK
    <3> QED
      BY <3>1, <3>3
  <2>2. SendInit => Live = {} /\ Later = {}
    BY DEF SendInit, Live, Later
  <2>3. SendInit => CallbackLast
    BY DEF SendInit, CallbackLast
  <2> QED
    BY <2>1, <2>2, <2>3 DEF QueueInv, InOnePlace, AddsUp
<1>2. QueueInv /\ [SendNext]_sendVars => QueueInv'
  <2> SUFFICES ASSUME QueueInv, [SendNext]_sendVars PROVE QueueInv'
    OBVIOUS
  <2>1. CASE UNCHANGED sendVars
    <3>1. Live' = Live /\ Later' = Later
      BY <2>1 DEF sendVars, Live, Later
    <3>2. SendTypeOK' /\ OneSender'
      BY <2>1, <3>1 DEF sendVars, QueueInv, SendTypeOK, OneSender
    <3>3. InOnePlace' /\ AddsUp' /\ CallbackLast'
      BY <2>1, <3>1 DEF sendVars, QueueInv, InOnePlace, AddsUp, CallbackLast
    <3> QED
      BY <3>2, <3>3 DEF QueueInv
  <2>2. CASE Handler
    BY <2>2, SentAgainStep, SentLastStep, SendCompleteStep DEF Handler
  <2> QED
    BY <2>1, <2>2, NewPacketStep, DelayedInitiateStep, DelayedSendStep, StopStep DEF SendNext
<1> QED
  BY <1>1, <1>2, PTL DEF SendSpec

(* No assertion of initiate_send, its handler or send_complete fails.      *)
THEOREM AssertionsHold == SendSpec => []SendTypeOK
<1>1. SendSpec => []QueueInv
  BY QueueInvariance
<1>2. QueueInv => SendTypeOK
  BY DEF QueueInv
<1> QED
  BY <1>1, <1>2, PTL

(* One packet is on the socket at a time, it is the front of the queue,    *)
(* and someone sends the queue until the service is stopped (send_buffer,  *)
(* send_complete).                                                         *)
THEOREM OneSenderEver == SendSpec => []OneSender
<1>1. SendSpec => []QueueInv
  BY QueueInvariance
<1>2. QueueInv => OneSender
  BY DEF QueueInv
<1> QED
  BY <1>1, <1>2, PTL

(* However the rebroadcasts of the packets interleave, the callback of a   *)
(* packet is called at most once, and after the last of them.              *)
THEOREM CallbackAfterLast == SendSpec => []CallbackLast
<1>1. SendSpec => []QueueInv
  BY QueueInvariance
<1>2. QueueInv => CallbackLast
  BY DEF QueueInv
<1> QED
  BY <1>1, <1>2, PTL

-----------------------------------------------------------------------------
(* Wallet and WalletStore.                                                 *)

CONSTANTS Wallet, Key, Text, Empty, Zero, NoEntry
VARIABLES made, lock, entry, password, initial, backup, entrusted

(* Where the wallets keep their keys.                                      *)
Store == INSTANCE WalletStore

(* What an account may be asked to do.                                     *)
Task(a, request) ==
    /\ request.account = a /\ request.kind \in {"receive", "send", "change"}
    /\ request.kind = "receive" => request.send.destination = a
    /\ request.kind = "send" => request.send \in Send /\ request = Sends(request.send)

(* The types of the ledger and of the work.                                *)
LedgerShape ==
    /\ height \in [Own -> Nat] /\ balance \in [Own -> Nat] /\ work \in [Own -> Int]
    /\ stored \subseteq Send /\ pendings \subseteq stored

(* The queues hold tasks of their accounts.                                *)
QueueShape ==
    /\ actions = [a \in Own |-> actions[a]] /\ waiting = [a \in Own |-> waiting[a]]
    /\ \A a \in Own :
          /\ actions[a] = [does |-> actions[a].does, at |-> actions[a].at,
                           root |-> actions[a].root, by |-> actions[a].by]
          /\ actions[a].at \in {"free", "make", "process", "work"}
          /\ actions[a].at # "free" => Task(a, actions[a].does)
          /\ \A request \in waiting[a] : Task(a, request)

(* A block that is made and not processed yet fits the ledger as it is.    *)
MadeFits ==
    \A a \in Own : actions[a].at = "process" => Progress(a)

(* Cached work is for the next block, or is about to be.                   *)
WorkKept ==
    \A a \in Own :
        /\ actions[a].at # "work" /\ inserting.key # a => work[a] = height[a]
        /\ actions[a].at = "work" => actions[a].root = height[a]
        /\ inserting.key = a => \/ inserting.root = height[a] \/ actions[a].at = "work"
                                \/ work[a] = height[a]

(* A send that a client asked for is made once.                            *)
Undone(a) == IF actions[a].at \in {"make", "process"} THEN {actions[a].does} ELSE {}
SendsOnce ==
    /\ \A s \in stored : s.source \in Own => Sends(s) \in asked
    /\ \A a \in Own : \A request \in waiting[a] \cup Undone(a) :
          request.kind = "send" => request \in asked /\ request.send \notin stored
    /\ \A a \in Own : \A request \in waiting[a] \cap Undone(a) : request.kind # "send"

(* What the search has yet to find comes after where it is, or is from the *)
(* account that it receives from.                                          *)
SearchPassed ==
    /\ search = [at |-> search.at, number |-> search.number, source |-> search.source, due |-> search.due]
    /\ search.number \in Nat /\ search.due \subseteq stored
    /\ \A s \in search.due : s.destination \in Own
    /\ \A s \in search.due \cap pendings :
          \/ s.number > search.number
          \/ search.at # "run" /\ s.number = search.number /\ s.source = search.source

IndInv == LedgerShape /\ QueueShape /\ MadeFits /\ WorkKept /\ SendsOnce /\ SearchPassed /\ OwnBlocksAccepted

-----------------------------------------------------------------------------
(* The queue of actions.                                                   *)

(* What is queued is a task of its account.                                *)
LEMMA TaskFacts ==
    /\ \A s : /\ Task(s.destination, Receives(s))
              /\ Receives(s).account = s.destination /\ Receives(s).kind = "receive"
    /\ \A request \in Request : /\ request.account \in Own /\ Task(request.account, request)
                                /\ request.kind = "receive" => FALSE
<1>1. \A s : /\ Task(s.destination, Receives(s))
             /\ Receives(s).account = s.destination /\ Receives(s).kind = "receive"
  BY DEF Task, Receives
<1>2. ASSUME NEW s \in Send, s.source \in Own
      PROVE  /\ Sends(s).account \in Own /\ Task(Sends(s).account, Sends(s)) /\ Sends(s).kind # "receive"
  BY <1>2 DEF Task, Sends
<1>3. ASSUME NEW c \in Change
      PROVE  /\ Changes(c).account \in Own /\ Task(Changes(c).account, Changes(c)) /\ Changes(c).kind # "receive"
  <2>1. c.account \in Own
    BY WalletAssumption
  <2> QED
    BY <2>1 DEF Task, Changes
<1> QED
  BY <1>1, <1>2, <1>3 DEF Request

(* One account's queue makes a step: another action begins, from those     *)
(* that waited or were new, or none does, or it goes on as before.         *)
QueueStep(a, new) ==
    /\ actions' = [b \in Own |-> actions'[b]] /\ waiting' = [b \in Own |-> waiting'[b]]
    /\ \A b \in Own \ {a} : actions'[b] = actions[b] /\ waiting'[b] = waiting[b]
    /\ \/ actions'[a] = actions[a] /\ waiting'[a] = waiting[a] \cup new
       \/ /\ actions'[a].at = "free" /\ actions'[a] = Free
          /\ waiting'[a] = waiting[a]
       \/ \E request \in waiting[a] \cup new, who \in {"search", "other", actions[a].by} :
             /\ actions'[a] = Begins(request, who)
             /\ waiting'[a] = waiting[a] \ {request} \/ (request \in new /\ waiting'[a] = waiting[a])

(* wallets::queue_wallet_action makes a step of the queue; an action that  *)
(* is performed already is not disturbed.                                  *)
LEMMA QueueActionStep ==
    ASSUME QueueShape, NEW a \in Own, NEW request, Task(a, request),
           NEW who \in {"search", "other"}, QueueAction(request, who)
    PROVE  QueueStep(a, {request}) /\ (actions[a].at # "free" => actions' = actions)
<1>1. request.account = a
  BY DEF Task
<1>2. actions = [b \in Own |-> actions[b]] /\ waiting = [b \in Own |-> waiting[b]]
  BY DEF QueueShape
<1>3. CASE actions[a] = Free
  <2>1. actions' = [actions EXCEPT ![a] = Begins(request, who)] /\ waiting' = waiting
    BY <1>1, <1>3 DEF QueueAction
  <2>2. /\ actions' = [b \in Own |-> actions'[b]] /\ actions'[a] = Begins(request, who)
        /\ \A b \in Own \ {a} : actions'[b] = actions[b]
    BY <1>2, <2>1
  <2>3. request \in {request} /\ waiting'[a] = waiting[a]
    BY <2>1
  <2>4. actions[a].at = "free"
    BY <1>3 DEF Free
  <2> QED
    BY <1>2, <2>1, <2>2, <2>3, <2>4 DEF QueueStep
<1>4. CASE actions[a] # Free
  <2>1. actions' = actions /\ waiting' = [waiting EXCEPT ![a] = @ \cup {request}]
    BY <1>1, <1>4 DEF QueueAction
  <2>2. /\ waiting' = [b \in Own |-> waiting'[b]] /\ waiting'[a] = waiting[a] \cup {request}
        /\ \A b \in Own \ {a} : waiting'[b] = waiting[b]
    BY <1>2, <2>1
  <2> QED
    BY <1>2, <2>1, <2>2 DEF QueueStep
<1> QED
  BY <1>3, <1>4

(* So does the end of an action.                                           *)
LEMMA NextActionStep ==
    ASSUME QueueShape, NEW a \in Own, NextAction(a)
    PROVE  /\ QueueStep(a, {}) /\ actions'[a].at \in {"free", "make"}
           /\ search' = search \/ search' = [search EXCEPT !.at = "scan"]
<1>1. actions = [b \in Own |-> actions[b]] /\ waiting = [b \in Own |-> waiting[b]]
  BY DEF QueueShape
<1>2. ASSUME NEW request \in waiting[a], actions' = [actions EXCEPT ![a] = Begins(request, @.by)],
             waiting' = [waiting EXCEPT ![a] = @ \ {request}], search' = search
      PROVE  QueueStep(a, {}) /\ actions'[a].at = "make"
  <2>1. /\ actions' = [b \in Own |-> actions'[b]] /\ actions'[a] = Begins(request, actions[a].by)
        /\ \A b \in Own \ {a} : actions'[b] = actions[b]
    BY <1>1, <1>2
  <2>2. /\ waiting' = [b \in Own |-> waiting'[b]] /\ waiting'[a] = waiting[a] \ {request}
        /\ \A b \in Own \ {a} : waiting'[b] = waiting[b]
    BY <1>1, <1>2
  <2>3. actions'[a].at = "make"
    BY <2>1 DEF Begins
  <2> QED
    BY <2>1, <2>2, <2>3 DEF QueueStep
<1>3. ASSUME actions' = [actions EXCEPT ![a] = Free], waiting' = waiting
      PROVE  QueueStep(a, {}) /\ actions'[a].at = "free"
  <2>1. /\ actions' = [b \in Own |-> actions'[b]] /\ actions'[a] = Free
        /\ \A b \in Own \ {a} : actions'[b] = actions[b]
    BY <1>1, <1>3
  <2>2. actions'[a].at = "free"
    BY <2>1 DEF Free
  <2> QED
    BY <1>1, <1>3, <2>1, <2>2 DEF QueueStep
<1> QED
  BY <1>2, <1>3 DEF NextAction

(* The queues keep their shape when one of them makes a step.              *)
LEMMA QueueKeepsShape ==
    ASSUME QueueShape, NEW a \in Own, NEW new, \A request \in new : Task(a, request), QueueStep(a, new)
    PROVE  QueueShape'
<1>1. ASSUME NEW b \in Own
      PROVE  /\ actions'[b] = [does |-> actions'[b].does, at |-> actions'[b].at,
                               root |-> actions'[b].root, by |-> actions'[b].by]
             /\ actions'[b].at \in {"free", "make", "process", "work"}
             /\ actions'[b].at # "free" => Task(b, actions'[b].does)
             /\ \A request \in waiting'[b] : Task(b, request)
  <2>1. CASE actions'[b] = actions[b] /\ waiting'[b] \subseteq waiting[b] \cup (IF b = a THEN new ELSE {})
    BY <2>1 DEF QueueShape
  <2>2. CASE b = a /\ actions'[a] = Free /\ waiting'[a] = waiting[a]
    BY <2>2 DEF QueueShape, Free
  <2>3. ASSUME b = a, NEW request \in waiting[a] \cup new, NEW who,
               actions'[a] = Begins(request, who), waiting'[a] \subseteq waiting[a]
        PROVE  /\ actions'[b] = [does |-> actions'[b].does, at |-> actions'[b].at,
                                 root |-> actions'[b].root, by |-> actions'[b].by]
               /\ actions'[b].at = "make" /\ Task(b, actions'[b].does)
               /\ \A other \in waiting'[b] : Task(b, other)
    BY <2>3 DEF QueueShape, Begins
  <2>4. CASE b # a
    BY <2>1, <2>4 DEF QueueStep
  <2> QED
    BY <2>1, <2>2, <2>3, <2>4, Zenon DEF QueueStep
<1>2. actions' = [b \in Own |-> actions'[b]] /\ waiting' = [b \in Own |-> waiting'[b]]
  BY DEF QueueStep
<1> QED
  BY <1>1, <1>2 DEF QueueShape

(* A step of a queue leaves blocks that are made alone.                    *)
LEMMA QueueKeepsMade ==
    ASSUME MadeFits, NEW a \in Own, NEW new, QueueStep(a, new), UNCHANGED <<height, balance, pendings>>
    PROVE  MadeFits'
<1> SUFFICES ASSUME NEW b \in Own, actions'[b].at = "process" PROVE Progress(b)'
  BY Zenon DEF MadeFits
<1>1. actions'[b] = actions[b]
  BY DEF QueueStep, Free, Begins
<1> QED
  BY <1>1, Zenon DEF MadeFits, Progress

(* And the work, unless an action ends that has generated it.              *)
LEMMA QueueKeepsWork ==
    ASSUME WorkKept, NEW a \in Own, NEW new, QueueStep(a, new), UNCHANGED <<height, work, inserting>>,
           actions'[a] = actions[a] \/ actions[a].at # "work"
    PROVE  WorkKept'
<1> SUFFICES ASSUME NEW b \in Own
             PROVE  /\ actions'[b].at # "work" /\ inserting.key # b => work[b] = height[b]
                    /\ actions'[b].at = "work" => actions'[b].root = height[b]
                    /\ inserting.key = b => \/ inserting.root = height[b] \/ actions'[b].at = "work"
                                            \/ work[b] = height[b]
  BY Zenon DEF WorkKept
<1>1. actions'[b] = actions[b] \/ (actions[b].at # "work" /\ actions'[b].at # "work")
  BY DEF QueueStep, Free, Begins
<1> QED
  BY <1>1 DEF WorkKept

(* And no send is queued twice.                                            *)
LEMMA QueueKeepsSends ==
    ASSUME SendsOnce, NEW a \in Own, NEW new, QueueStep(a, new), stored' = stored, asked \subseteq asked',
           \A request \in new : request.kind = "send" =>
              request \notin asked /\ request \in asked' /\ request.send \notin stored
    PROVE  SendsOnce'
<1>1. \A b \in Own \ {a} : waiting'[b] = waiting[b] /\ Undone(b)' = Undone(b)
  BY Zenon DEF QueueStep, Undone
<1>2. /\ waiting'[a] \cup Undone(a)' \subseteq waiting[a] \cup Undone(a) \cup new
      /\ \A request \in waiting'[a] \cap Undone(a)' :
            request \in (waiting[a] \cup new) \cap Undone(a) \/ request \in waiting[a] \cap new
  <2>1. CASE actions'[a] = actions[a] /\ waiting'[a] = waiting[a] \cup new
    BY <2>1 DEF Undone
  <2>2. CASE actions'[a] = Free /\ waiting'[a] = waiting[a]
    <3>1. Free.at \notin {"make", "process"}
      BY DEF Free
    <3>2. Undone(a)' = {}
      BY <2>2, <3>1, Zenon DEF Undone
    <3> QED
      BY <2>2, <3>2, Zenon
  <2>3. ASSUME NEW request \in waiting[a] \cup new, NEW who,
               actions'[a] = Begins(request, who)
        PROVE  Undone(a)' = {request}
    BY <2>3 DEF Undone, Begins
  <2> QED
    BY <2>1, <2>2, <2>3 DEF QueueStep
<1>3. \A request \in waiting[a] \cup Undone(a) :
         request.kind = "send" => request \in asked /\ request.send \notin stored
  BY DEF SendsOnce
<1>4. \A request \in waiting'[a] \cup Undone(a)' :
         request.kind = "send" => request \in asked' /\ request.send \notin stored'
  BY <1>2, <1>3
<1>5. \A request \in waiting'[a] \cap Undone(a)' : request.kind # "send"
  <2>1. \A request \in waiting[a] \cap Undone(a) : request.kind # "send"
    BY DEF SendsOnce
  <2>2. \A request \in new \cap (Undone(a) \cup waiting[a]) : request.kind # "send"
    BY <1>3
  <2> QED
    BY <1>2, <2>1, <2>2
<1>6. \A s \in stored' : s.source \in Own => Sends(s) \in asked'
  BY DEF SendsOnce
<1>7. ASSUME NEW b \in Own
      PROVE  /\ \A request \in waiting'[b] \cup Undone(b)' :
                   request.kind = "send" => request \in asked' /\ request.send \notin stored'
             /\ \A request \in waiting'[b] \cap Undone(b)' : request.kind # "send"
  <2>1. CASE b = a
    BY <1>4, <1>5, <2>1
  <2>2. CASE b # a
    BY <1>1, <2>2 DEF SendsOnce
  <2> QED
    BY <2>1, <2>2
<1> QED
  BY <1>6, <1>7, Zenon DEF SendsOnce

(* A search that is told to go on has passed what it had.                  *)
LEMMA SearchGoesOn ==
    ASSUME SearchPassed, stored \subseteq stored', \A s \in search.due : s \in pendings' => s \in pendings,
           search' = search \/ \E at \in {"scan", "perform"} : search' = [search EXCEPT !.at = at]
    PROVE  SearchPassed'
<1>1. /\ search' = [at |-> search'.at, number |-> search'.number, source |-> search'.source, due |-> search'.due]
      /\ search'.number = search.number /\ search'.source = search.source /\ search'.due = search.due
      /\ search'.at = "run" => search.at = "run"
  BY DEF SearchPassed
<1> QED
  BY <1>1 DEF SearchPassed

(* All of it together, for the steps that only touch a queue.              *)
LEMMA QueueKeepsInv ==
    ASSUME IndInv, NEW a \in Own, NEW new, \A request \in new : Task(a, request), QueueStep(a, new),
           UNCHANGED <<ledgerVars, work, inserting, refused>>, asked \subseteq asked',
           actions'[a] = actions[a] \/ actions[a].at # "work",
           \A request \in new : request.kind = "send" =>
              request \notin asked /\ request \in asked' /\ request.send \notin stored,
           search' = search \/ \E at \in {"scan", "perform"} : search' = [search EXCEPT !.at = at]
    PROVE  IndInv'
<1>1. UNCHANGED <<height, balance, stored, pendings, work, inserting, refused>>
  BY DEF ledgerVars
<1>2. QueueShape'
  BY QueueKeepsShape DEF IndInv
<1>3. MadeFits' /\ WorkKept'
  BY <1>1, QueueKeepsMade, QueueKeepsWork DEF IndInv
<1>4. SendsOnce'
  BY <1>1, QueueKeepsSends DEF IndInv
<1>5. SearchPassed'
  BY <1>1, SearchGoesOn DEF IndInv
<1>6. LedgerShape' /\ OwnBlocksAccepted'
  BY <1>1 DEF IndInv, LedgerShape, OwnBlocksAccepted
<1> QED
  BY <1>2, <1>3, <1>4, <1>5, <1>6 DEF IndInv

-----------------------------------------------------------------------------
(* The steps of an action.                                                 *)

(* The read transaction makes a block that fits, or no block.              *)
LEMMA MakeStep == ASSUME IndInv, NEW a \in Own, Make(a) PROVE IndInv'
<1>1. /\ actions[a].at = "make" /\ QueueShape
      /\ UNCHANGED <<ledgerVars, work, inserting, refused>> /\ asked' = asked
  BY DEF Make, walletVars, clientVars, IndInv
<1>2. CASE ~Possible(actions[a].does)
  <2>1. NextAction(a)
    BY <1>2 DEF Make
  <2>2. QueueStep(a, {}) /\ (search' = search \/ search' = [search EXCEPT !.at = "scan"])
    BY <1>1, <2>1, NextActionStep
  <2> QED
    BY <1>1, <2>2, QueueKeepsInv
<1>3. CASE Possible(actions[a].does)
  <2> DEFINE request == actions[a].does
  <2>1. /\ actions' = [actions EXCEPT ![a].at = "process", ![a].root = height[a]]
        /\ waiting' = waiting /\ search' = search
        /\ UNCHANGED <<height, balance, stored, pendings>>
    BY <1>1, <1>3 DEF Make, ledgerVars
  <2>2. /\ actions = [b \in Own |-> actions[b]]
        /\ actions[a] = [does |-> actions[a].does, at |-> actions[a].at,
                         root |-> actions[a].root, by |-> actions[a].by]
    BY <1>1 DEF QueueShape
  <2>3. /\ actions' = [b \in Own |-> actions'[b]]
        /\ actions'[a] = [does |-> request, at |-> "process", root |-> height[a], by |-> actions[a].by]
        /\ \A b \in Own \ {a} : actions'[b] = actions[b]
    BY <2>1, <2>2, Zenon
  <2>4. /\ actions'[a].does = request /\ actions'[a].at = "process" /\ actions'[a].root = height[a]
        /\ actions'[a].by = actions[a].by
    BY <2>3
  <2>5. QueueShape'
    BY <1>1, <2>1, <2>3, <2>4 DEF QueueShape
  <2>6. MadeFits'
    <3>1. Progress(a)'
      <4>1. Task(a, request) /\ request.account = a
        BY <1>1 DEF QueueShape, Task
      <4>2. request.kind = "receive" => request.send \in pendings
        BY <1>3 DEF Possible
      <4>3. request.kind = "send" => balance[a] >= request.send.amount
        BY <1>3, <4>1 DEF Possible
      <4> QED
        BY <2>1, <2>4, <4>2, <4>3 DEF Progress
    <3>2. ASSUME NEW b \in Own \ {a}, actions'[b].at = "process" PROVE Progress(b)'
      BY <2>1, <2>3, <3>2, Zenon DEF IndInv, MadeFits, Progress
    <3> QED
      BY <3>1, <3>2 DEF MadeFits
  <2>7. WorkKept'
    BY <1>1, <2>1, <2>3, <2>4, Zenon DEF IndInv, WorkKept
  <2>8. SendsOnce'
    <3>1. \A b \in Own : Undone(b)' = Undone(b)
      BY <1>1, <2>3, <2>4 DEF Undone
    <3> QED
      BY <1>1, <2>1, <3>1 DEF IndInv, SendsOnce
  <2>9. SearchPassed'
    BY <2>1, SearchGoesOn DEF IndInv
  <2>10. LedgerShape' /\ OwnBlocksAccepted'
    BY <1>1, <2>1 DEF IndInv, LedgerShape, OwnBlocksAccepted
  <2> QED
    BY <2>5, <2>6, <2>7, <2>8, <2>9, <2>10 DEF IndInv
<1> QED
  BY <1>2, <1>3

(* The work that is generated at the end of an action is for the root as   *)
(* it still is then.                                                       *)
LEMMA WorkGenerateStep == ASSUME IndInv, NEW a \in Own, WorkGenerate(a) PROVE IndInv'
<1>1. /\ actions[a].at = "work" /\ QueueShape /\ NextAction(a)
      /\ UNCHANGED <<height, balance, stored, pendings, inserting, asked, refused>>
  BY Zenon DEF WorkGenerate, ledgerVars, clientVars, IndInv
<1>2. /\ QueueStep(a, {}) /\ actions'[a].at \in {"free", "make"}
      /\ search' = search \/ search' = [search EXCEPT !.at = "scan"]
  BY <1>1, NextActionStep
<1>3. height[a] = actions[a].root /\ work \in [Own -> Int] /\ height \in [Own -> Nat]
  BY <1>1 DEF IndInv, WorkKept, LedgerShape
<1>4. work' = [work EXCEPT ![a] = height[a]]
  BY <1>3 DEF WorkGenerate, WorkUpdate
<1>5. work' \in [Own -> Int] /\ work'[a] = height[a] /\ \A b \in Own \ {a} : work'[b] = work[b]
  BY <1>3, <1>4
<1>6. QueueShape'
  BY <1>1, <1>2, QueueKeepsShape
<1>7. MadeFits'
  BY <1>1, <1>2, QueueKeepsMade DEF IndInv
<1>8. WorkKept'
  <2>1. \A b \in Own \ {a} : actions'[b] = actions[b]
    BY <1>2 DEF QueueStep
  <2> QED
    BY <1>1, <1>2, <1>5, <2>1 DEF IndInv, WorkKept
<1>9. SendsOnce'
  BY <1>1, <1>2, QueueKeepsSends DEF IndInv
<1>10. SearchPassed'
  BY <1>1, <1>2, SearchGoesOn DEF IndInv
<1>11. LedgerShape' /\ OwnBlocksAccepted'
  BY <1>1, <1>5 DEF IndInv, LedgerShape, OwnBlocksAccepted
<1> QED
  BY <1>6, <1>7, <1>8, <1>9, <1>10, <1>11 DEF IndInv

(* Sends have amounts and numbers.                                         *)
LEMMA SendNumbers == \A s \in Send : s.amount \in Nat /\ s.number \in Nat /\ s.number > 0
<1> SUFFICES ASSUME NEW s \in Send PROVE s.amount \in Nat /\ s.number \in Nat \ {0}
  OBVIOUS
<1> QED
  BY WalletAssumption DEF SendType

(* The block that is processed fits, so that it is not refused; it takes   *)
(* nothing away that another account has made a block from.                *)
LEMMA ProcessBlockStep == ASSUME IndInv, NEW a \in Own, ProcessBlock(a) PROVE IndInv'
<1> DEFINE request == actions[a].does
<1>1. /\ actions[a].at = "process" /\ LedgerShape /\ QueueShape /\ SendsOnce
      /\ waiting' = waiting /\ work' = work /\ inserting' = inserting /\ asked' = asked /\ search' = search
  BY DEF ProcessBlock, walletVars, clientVars, IndInv
<1>2. Progress(a)
  BY <1>1 DEF IndInv, MadeFits
<1>3. Task(a, request)
  BY <1>1 DEF QueueShape
<1>4. /\ height' = [height EXCEPT ![a] = @ + 1]
      /\ actions' = [actions EXCEPT ![a].at = "work", ![a].root = height[a] + 1]
      /\ refused' = refused
      /\ balance' = CASE request.kind = "receive" -> [balance EXCEPT ![a] = @ + request.send.amount]
                      [] request.kind = "send" -> [balance EXCEPT ![a] = @ - request.send.amount]
                      [] request.kind = "change" -> balance
      /\ stored' = IF request.kind = "send" THEN stored \cup {request.send} ELSE stored
      /\ pendings' = CASE request.kind = "receive" -> pendings \ {request.send}
                      [] request.kind = "send" -> pendings \cup {request.send}
                      [] request.kind = "change" -> pendings
  BY <1>2, Zenon DEF ProcessBlock
<1>5. /\ request.kind = "receive" => /\ balance' = [balance EXCEPT ![a] = @ + request.send.amount]
                                     /\ stored' = stored /\ pendings' = pendings \ {request.send}
      /\ request.kind = "send" => /\ balance' = [balance EXCEPT ![a] = @ - request.send.amount]
                                  /\ stored' = stored \cup {request.send} /\ pendings' = pendings \cup {request.send}
      /\ request.kind = "change" => balance' = balance /\ stored' = stored /\ pendings' = pendings
  BY <1>4
<1>6. /\ request.kind = "receive" => request.send \in pendings /\ request.send.destination = a
      /\ request.kind = "send" => /\ request.send \in Send /\ request = Sends(request.send)
                                  /\ balance[a] >= request.send.amount
      /\ request.kind \in {"receive", "send", "change"}
  BY <1>2, <1>3, Zenon DEF Task, Progress
<1>7. request.kind = "send" => request \in asked /\ request.send \notin stored
  <2>1. request \in Undone(a)
    BY <1>1 DEF Undone
  <2> QED
    BY <1>1, <2>1 DEF SendsOnce
<1>8. /\ actions' = [b \in Own |-> actions'[b]]
      /\ actions'[a] = [does |-> request, at |-> "work", root |-> height[a] + 1, by |-> actions[a].by]
      /\ \A b \in Own \ {a} : actions'[b] = actions[b]
  <2>1. /\ actions = [b \in Own |-> actions[b]]
        /\ actions[a] = [does |-> actions[a].does, at |-> actions[a].at,
                         root |-> actions[a].root, by |-> actions[a].by]
    BY <1>1 DEF QueueShape
  <2> QED
    BY <1>4, <2>1, Zenon
<1>9. /\ actions'[a].does = request /\ actions'[a].at = "work" /\ actions'[a].root = height[a] + 1
      /\ actions'[a] = [does |-> actions'[a].does, at |-> actions'[a].at,
                        root |-> actions'[a].root, by |-> actions'[a].by]
  BY <1>8
<1>10. QueueShape'
  BY <1>1, <1>3, <1>8, <1>9 DEF QueueShape
<1>11. /\ height \in [Own -> Nat] /\ balance \in [Own -> Nat] /\ work \in [Own -> Int]
       /\ stored \subseteq Send /\ pendings \subseteq stored
  BY <1>1 DEF LedgerShape
<1>12. height' \in [Own -> Nat] /\ height'[a] = height[a] + 1 /\ \A b \in Own \ {a} : height'[b] = height[b]
  BY <1>4, <1>11
<1>13. balance' \in [Own -> Nat] /\ \A b \in Own \ {a} : balance'[b] = balance[b]
  <2>1. CASE request.kind = "receive"
    <3>1. request.send.amount \in Nat
      BY <1>6, <1>11, <2>1, SendNumbers
    <3> QED
      BY <1>5, <1>11, <2>1, <3>1
  <2>2. CASE request.kind = "send"
    <3>1. request.send.amount \in Nat /\ balance[a] >= request.send.amount /\ balance[a] \in Nat
      BY <1>6, <1>11, <2>2, SendNumbers
    <3>2. balance[a] - request.send.amount \in Nat
      BY <3>1
    <3> QED
      BY <1>5, <1>11, <2>2, <3>2
  <2> QED
    BY <1>5, <1>6, <1>11, <2>1, <2>2, Zenon
<1>14. stored' \subseteq Send /\ pendings' \subseteq stored' /\ stored \subseteq stored'
  BY <1>5, <1>6, <1>11
<1>15. LedgerShape'
  BY <1>1, <1>11, <1>12, <1>13, <1>14 DEF LedgerShape
<1>16. MadeFits'
  <2> SUFFICES ASSUME NEW b \in Own, actions'[b].at = "process" PROVE Progress(b)'
    BY DEF MadeFits
  <2>1. b # a /\ actions'[b] = actions[b] /\ height'[b] = height[b] /\ balance'[b] = balance[b]
    BY <1>8, <1>9, <1>12, <1>13
  <2>2. Progress(b) /\ Task(b, actions[b].does)
    BY <1>1, <2>1 DEF IndInv, MadeFits, QueueShape
  <2>3. actions[b].does.kind = "receive" => actions[b].does.send \in pendings'
    BY <1>5, <1>6, <2>1, <2>2, Zenon DEF Progress, Task
  <2> QED
    BY <2>1, <2>2, <2>3, Zenon DEF Progress
<1>17. WorkKept'
  BY <1>1, <1>8, <1>9, <1>12 DEF IndInv, WorkKept
<1>18. SendsOnce'
  <2>1. Undone(a)' = {} /\ \A b \in Own \ {a} : Undone(b)' = Undone(b)
    BY <1>8, <1>9 DEF Undone
  <2>2. ASSUME NEW s \in stored', s.source \in Own PROVE Sends(s) \in asked'
    BY <1>1, <1>5, <1>6, <1>7, <2>2, Zenon DEF SendsOnce
  <2>3. ASSUME NEW b \in Own, NEW other \in waiting'[b] \cup Undone(b)', other.kind = "send"
        PROVE  other \in asked' /\ other.send \notin stored'
    <3>1. other \in waiting[b] \cup Undone(b) /\ (b = a => other \in waiting[a])
      BY <1>1, <2>1
    <3>2. other \in asked /\ other.send \notin stored
      BY <1>1, <2>3, <3>1 DEF SendsOnce
    <3>3. Task(b, other)
      BY <1>1, <3>1 DEF QueueShape, Undone
    <3>4. ASSUME request.kind = "send", other.send = request.send PROVE FALSE
      <4>1. other = request /\ b = a
        BY <1>3, <1>6, <2>3, <3>3, <3>4, Zenon DEF Task
      <4>2. request \in waiting[a] \cap Undone(a)
        BY <1>1, <3>1, <4>1 DEF Undone
      <4> QED
        BY <1>1, <3>4, <4>2, Zenon DEF SendsOnce
    <3> QED
      BY <1>1, <1>5, <1>6, <3>2, <3>4, Zenon
  <2>4. \A b \in Own : \A other \in waiting'[b] \cap Undone(b)' : other.kind # "send"
    BY <1>1, <2>1 DEF SendsOnce
  <2> QED
    BY <2>2, <2>3, <2>4, Zenon DEF SendsOnce
<1>19. SearchPassed'
  <2>1. search.due \subseteq stored /\ SearchPassed
    BY DEF IndInv, SearchPassed
  <2>2. \A s \in search.due : s \in pendings' => s \in pendings
    BY <1>5, <1>6, <1>7, <2>1, Zenon
  <2> QED
    BY <1>1, <1>14, <2>1, <2>2, SearchGoesOn
<1>20. OwnBlocksAccepted'
  BY <1>4 DEF IndInv, OwnBlocksAccepted
<1> QED
  BY <1>10, <1>15, <1>16, <1>17, <1>18, <1>19, <1>20 DEF IndInv

-----------------------------------------------------------------------------
(* The other threads.                                                      *)

(* Inserting a key again throws its work away, and generates it anew.      *)
LEMMA InsertStep == ASSUME IndInv, NEW a \in Own, Insert(a) PROVE IndInv'
<1>1. /\ inserting = NoInsert /\ work' = [work EXCEPT ![a] = -1]
      /\ inserting' = [key |-> a, root |-> height[a]]
      /\ UNCHANGED <<height, balance, stored, pendings, actions, waiting, asked, search, refused>>
  BY DEF Insert, ledgerVars, queueVars, clientVars
<1>2. /\ \A b \in Own : inserting.key # b
      /\ inserting'.key = a /\ inserting'.root = height[a]
  BY <1>1, WalletAssumption DEF NoInsert
<1>3. LedgerShape'
  BY <1>1 DEF IndInv, LedgerShape
<1>4. \A b \in Own \ {a} : work'[b] = work[b]
  BY <1>1 DEF IndInv, LedgerShape
<1>5. WorkKept'
  BY <1>1, <1>2, <1>4, Zenon DEF IndInv, WorkKept
<1>6. QueueShape' /\ OwnBlocksAccepted'
  BY <1>1 DEF IndInv, QueueShape, OwnBlocksAccepted
<1>7. MadeFits' /\ SendsOnce'
  BY <1>1, Zenon DEF IndInv, MadeFits, Progress, SendsOnce, Undone
<1>8. SearchPassed'
  BY <1>1 DEF IndInv, SearchPassed
<1> QED
  BY <1>3, <1>5, <1>6, <1>7, <1>8 DEF IndInv

(* The work that an insert generates is for the root that it read, and is  *)
(* thrown away when the account has gone on.                               *)
LEMMA InsertGeneratesStep == ASSUME IndInv, InsertGenerates PROVE IndInv'
<1> DEFINE a == inserting.key
<1>1. /\ inserting' = NoInsert
      /\ work' = IF height[a] = inserting.root THEN [work EXCEPT ![a] = inserting.root] ELSE work
      /\ UNCHANGED <<height, balance, stored, pendings, actions, waiting, asked, search, refused>>
  BY DEF InsertGenerates, WorkUpdate, ledgerVars, queueVars, clientVars
<1>2. \A b \in Own : inserting'.key # b
  BY <1>1, WalletAssumption DEF NoInsert
<1>3. work \in [Own -> Int] /\ height \in [Own -> Nat]
  BY DEF IndInv, LedgerShape
<1>4. /\ work' \in [Own -> Int] /\ \A b \in Own \ {a} : work'[b] = work[b]
      /\ a \in Own => work'[a] = IF height[a] = inserting.root THEN height[a] ELSE work[a]
  <2>1. CASE a \in Own
    <3>1. height[a] \in Int
      BY <1>3, <2>1
    <3>2. CASE height[a] = inserting.root
      <4>1. work' = [work EXCEPT ![a] = height[a]]
        BY <1>1, <3>2
      <4> QED
        BY <1>3, <2>1, <3>1, <3>2, <4>1
    <3>3. CASE height[a] # inserting.root
      BY <1>1, <1>3, <3>3
    <3> QED
      BY <3>2, <3>3
  <2>2. CASE a \notin Own
    <3>1. work' = work
      BY <1>1, <1>3, <2>2
    <3> QED
      BY <1>3, <2>2, <3>1
  <2> QED
    BY <2>1, <2>2
<1>5. LedgerShape'
  BY <1>1, <1>4 DEF IndInv, LedgerShape
<1>6. WorkKept'
  BY <1>1, <1>2, <1>4, Zenon DEF IndInv, WorkKept
<1>7. QueueShape' /\ OwnBlocksAccepted'
  BY <1>1 DEF IndInv, QueueShape, OwnBlocksAccepted
<1>8. MadeFits' /\ SendsOnce'
  BY <1>1, Zenon DEF IndInv, MadeFits, Progress, SendsOnce, Undone
<1>9. SearchPassed'
  BY <1>1 DEF IndInv, SearchPassed
<1> QED
  BY <1>5, <1>6, <1>7, <1>8, <1>9 DEF IndInv

(* A client asks for something once.                                       *)
LEMMA AskStep == ASSUME IndInv, NEW request \in Request, Ask(request) PROVE IndInv'
<1> DEFINE a == request.account
<1>1. /\ a \in Own /\ Task(a, request) /\ QueueShape
      /\ request \notin asked /\ asked' = asked \cup {request} /\ QueueAction(request, "other")
      /\ UNCHANGED <<ledgerVars, work, inserting, refused>> /\ search' = search
  BY TaskFacts, Zenon DEF Ask, walletVars, IndInv
<1>2. QueueStep(a, {request}) /\ (actions[a].at # "free" => actions' = actions)
  BY <1>1, QueueActionStep, Zenon
<1>3. ASSUME request.kind = "send" PROVE request.send \notin stored
  <2>1. request = Sends(request.send) /\ request.account = request.send.source
    BY <1>1, <1>3 DEF Task, Sends
  <2> QED
    BY <1>1, <2>1 DEF IndInv, SendsOnce
<1>4. actions'[a] = actions[a] \/ actions[a].at # "work"
  BY <1>2
<1> QED
  BY <1>1, <1>2, <1>3, <1>4, QueueKeepsInv

(* A send of somebody else was not asked for by a client.                  *)
LEMMA ArriveStep == ASSUME IndInv, NEW s \in Send, Arrive(s) PROVE IndInv'
<1>1. /\ s.source \notin Own /\ s \notin stored /\ stored' = stored \cup {s} /\ pendings' = pendings \cup {s}
      /\ UNCHANGED <<height, balance, work, inserting, actions, waiting, asked, search, refused>>
  BY DEF Arrive, walletVars, queueVars, clientVars
<1>2. LedgerShape' /\ QueueShape' /\ OwnBlocksAccepted'
  BY <1>1 DEF IndInv, LedgerShape, QueueShape, OwnBlocksAccepted
<1>3. MadeFits' /\ WorkKept'
  BY <1>1, Zenon DEF IndInv, MadeFits, Progress, WorkKept
<1>4. SendsOnce'
  <2>1. ASSUME NEW b \in Own, NEW request \in waiting[b] \cup Undone(b), request.kind = "send"
        PROVE  request.send # s
    <3>1. Task(b, request)
      BY DEF IndInv, QueueShape, Undone
    <3>2. request.send.source = b
      BY <2>1, <3>1 DEF Task, Sends
    <3> QED
      BY <1>1, <3>2
  <2>2. \A b \in Own : Undone(b)' = Undone(b)
    BY <1>1, Zenon DEF Undone
  <2> QED
    BY <1>1, <2>1, <2>2, Zenon DEF IndInv, SendsOnce
<1>5. SearchPassed'
  <2>1. search.due \subseteq stored
    BY DEF IndInv, SearchPassed
  <2> QED
    BY <1>1, <2>1, SearchGoesOn DEF IndInv
<1> QED
  BY <1>2, <1>3, <1>4, <1>5 DEF IndInv

(* Something is received that an election has confirmed.                   *)
LEMMA ProcessConfirmedStep == ASSUME IndInv, NEW s \in Send, ProcessConfirmed(s) PROVE IndInv'
<1> DEFINE a == s.destination
<1>1. /\ a \in Own /\ Task(a, Receives(s)) /\ Receives(s).kind = "receive" /\ QueueShape
      /\ QueueAction(Receives(s), "other")
      /\ UNCHANGED <<ledgerVars, work, inserting, refused>> /\ asked' = asked /\ search' = search
  BY TaskFacts, Zenon DEF ProcessConfirmed, walletVars, IndInv
<1>2. QueueStep(a, {Receives(s)}) /\ (actions[a].at # "free" => actions' = actions)
  BY <1>1, QueueActionStep, Zenon
<1>3. actions'[a] = actions[a] \/ actions[a].at # "work"
  BY <1>2
<1> QED
  BY <1>1, <1>2, <1>3, QueueKeepsInv

(* The password has nothing to do with any of this.                        *)
LEMMA EnterPasswordStep == ASSUME IndInv, EnterPassword PROVE IndInv'
<1>1. UNCHANGED <<height, balance, stored, pendings, work, inserting, actions, waiting, asked, search, refused>>
  BY DEF EnterPassword, ledgerVars, queueVars, clientVars
<1> QED
  BY <1>1, Zenon DEF IndInv, LedgerShape, QueueShape, MadeFits, Progress, WorkKept, SendsOnce, Undone, SearchPassed,
              OwnBlocksAccepted

-----------------------------------------------------------------------------
(* The search.                                                             *)

(* A step that changes nothing but where the search is.                    *)
LEMMA OnlySearch ==
    ASSUME IndInv, UNCHANGED <<ledgerVars, walletVars, queueVars, clientVars, refused>>, SearchPassed'
    PROVE  IndInv'
<1>1. /\ height' = height /\ balance' = balance /\ stored' = stored /\ pendings' = pendings
      /\ work' = work /\ inserting' = inserting /\ actions' = actions /\ waiting' = waiting
      /\ asked' = asked /\ refused' = refused
  BY DEF ledgerVars, walletVars, queueVars, clientVars
<1>2. LedgerShape' /\ QueueShape' /\ OwnBlocksAccepted'
  <2>1. LedgerShape' /\ OwnBlocksAccepted'
    BY <1>1 DEF IndInv, LedgerShape, OwnBlocksAccepted
  <2>2. QueueShape'
    BY <1>1 DEF IndInv, QueueShape
  <2> QED
    BY <2>1, <2>2, Zenon
<1>3. MadeFits' /\ WorkKept' /\ SendsOnce'
  BY <1>1, Zenon DEF IndInv, MadeFits, Progress, WorkKept, SendsOnce, Undone
<1> QED
  BY <1>2, <1>3 DEF IndInv

(* Where no search is, nothing is due.                                     *)
LEMMA OffPassed == ASSUME search' = Off PROVE SearchPassed'
<1>1. /\ search' = [at |-> search'.at, number |-> search'.number, source |-> search'.source, due |-> search'.due]
      /\ search'.number = 0 /\ search'.due = {}
  BY DEF Off
<1> QED
  BY <1>1 DEF SearchPassed

(* Among some sends there is one with the lowest number.                   *)
LEMMA FirstExists ==
    ASSUME NEW S \in SUBSET Send, S # {}
    PROVE  FirstOf(S) \in S /\ \A s \in S : FirstOf(S).number <= s.number
<1> DEFINE numbers == {s.number : s \in S}
           less == {p \in Nat \X Nat : p[1] < p[2]}
<1>1. numbers \subseteq Nat /\ numbers # {}
  BY SendNumbers
<1>2. IsWellFoundedOn(less, Nat)
  BY NatLessThanWellFounded, Zenon DEF OpToRel
<1> HIDE DEF numbers, less
<1>3. PICK x \in numbers : \A y \in numbers : ~(<<y, x>> \in less)
  BY <1>1, <1>2, WFMin, Zenon
<1>4. \A y \in numbers : x <= y
  <2>1. \A m, n \in Nat : m < n => <<m, n>> \in less
    BY DEF less
  <2> TAKE y \in numbers
  <2>2. x \in Nat /\ y \in Nat
    BY <1>1
  <2>3. ~(y < x)
    BY <1>3, <2>1, <2>2, Zenon
  <2> QED
    BY <2>2, <2>3
<1>5. \E s \in S : \A r \in S : s.number <= r.number
  BY <1>4 DEF numbers
<1> QED
  BY <1>5 DEF FirstOf

(* A search begins before everything that is pending for the wallet.       *)
LEMMA SearchPendingStep == ASSUME IndInv, SearchPending PROVE IndInv'
<1>1. /\ search = Off /\ search' = [search EXCEPT !.at = "run", !.due = ForWallet]
      /\ UNCHANGED <<ledgerVars, walletVars, queueVars, clientVars, refused>>
  BY DEF SearchPending
<1>2. /\ search' = [at |-> search'.at, number |-> search'.number, source |-> search'.source, due |-> search'.due]
      /\ search'.number = 0 /\ search'.due = ForWallet
  BY <1>1, Zenon DEF Off
<1>3. pendings \subseteq Send /\ pendings \subseteq stored /\ pendings' = pendings /\ stored' = stored
  BY <1>1 DEF IndInv, LedgerShape, ledgerVars
<1>4. SearchPassed'
  BY <1>2, <1>3, SendNumbers DEF SearchPassed, ForWallet
<1> QED
  BY <1>1, <1>4, OnlySearch

(* The next block that is found comes first among those that are left, and *)
(* when none is left nothing that was due is pending.                      *)
LEMMA SearchRunStep ==
    ASSUME IndInv, SearchRun PROVE IndInv' /\ (search' = Off => search.due \cap pendings = {})
<1> DEFINE found == {s \in ForWallet : s.number > search.number}
           first == FirstOf(found)
<1>1. /\ search.at = "run"
      /\ search' = IF found = {} THEN Off
                   ELSE [search EXCEPT !.at = "elect", !.number = first.number, !.source = first.source]
      /\ UNCHANGED <<ledgerVars, walletVars, queueVars, clientVars, refused>>
  BY DEF SearchRun
<1>2. pendings \subseteq Send /\ pendings \subseteq stored /\ pendings' = pendings /\ stored' = stored
  BY <1>1 DEF IndInv, LedgerShape, ledgerVars
<1>3. /\ search = [at |-> search.at, number |-> search.number, source |-> search.source, due |-> search.due]
      /\ search.number \in Nat /\ search.due \subseteq stored
      /\ \A s \in search.due : s.destination \in Own
      /\ search.due \cap pendings \subseteq found
  BY <1>1, SendNumbers DEF IndInv, SearchPassed, ForWallet
<1>4. CASE found = {}
  <2>1. search' = Off /\ search.due \cap pendings = {}
    BY <1>1, <1>3, <1>4
  <2> QED
    BY <1>1, <2>1, OffPassed, OnlySearch
<1>5. CASE found # {}
  <2>1. first \in found /\ \A s \in found : first.number <= s.number
    <3>1. found \in SUBSET Send
      BY <1>2 DEF ForWallet
    <3> HIDE DEF found
    <3> QED
      BY <1>5, <3>1, FirstExists
  <2>2. first \in Send /\ first.number \in Nat
    BY <1>2, <2>1, SendNumbers DEF ForWallet
  <2> HIDE DEF first
  <2>3. search' = [at |-> "elect", number |-> first.number, source |-> first.source, due |-> search.due]
    BY <1>1, <1>3, <1>5, Zenon
  <2>4. /\ search'.at = "elect" /\ search'.number = first.number
        /\ search'.source = first.source /\ search'.due = search.due
        /\ search' = [at |-> search'.at, number |-> search'.number, source |-> search'.source, due |-> search'.due]
    BY <2>3
  <2>5. ASSUME NEW s \in search.due \cap pendings
        PROVE  s.number > first.number \/ (s.number = first.number /\ s.source = first.source)
    <3>1. s \in Send /\ s.number \in Nat /\ first.number <= s.number
      BY <1>2, <1>3, <2>1, SendNumbers
    <3>2. s.number = first.number => s = first
      BY <2>2, <3>1, WalletAssumption
    <3> QED
      BY <2>2, <3>1, <3>2
  <2>6. SearchPassed'
    BY <1>2, <1>3, <2>2, <2>4, <2>5 DEF SearchPassed
  <2>7. search' # Off
    BY <2>4 DEF Off
  <2> QED
    BY <1>1, <2>6, <2>7, OnlySearch
<1> QED
  BY <1>4, <1>5

(* The loop of receive_all goes on until nothing is pending from the       *)
(* account.                                                                *)
LEMMA SearchScanStep == ASSUME IndInv, SearchScan PROVE IndInv'
<1>1. search.at = "scan" /\ UNCHANGED <<ledgerVars, walletVars, clientVars, refused>>
  BY DEF SearchScan
<1>2. CASE FromSource = {} /\ search' = [search EXCEPT !.at = "run"] /\ UNCHANGED queueVars
  <2>1. pendings \subseteq Send /\ pendings' = pendings /\ stored' = stored
    BY <1>1 DEF IndInv, LedgerShape, ledgerVars
  <2>2. /\ search' = [at |-> search'.at, number |-> search'.number, source |-> search'.source, due |-> search'.due]
        /\ search'.number = search.number /\ search'.due = search.due
    BY <1>2 DEF IndInv, SearchPassed
  <2>3. \A s \in pendings : s.source # search.source
    BY <1>2 DEF FromSource
  <2>4. SearchPassed'
    BY <2>1, <2>2, <2>3 DEF IndInv, SearchPassed
  <2> QED
    BY <1>1, <1>2, <2>4, OnlySearch
<1>3. ASSUME NEW s, s.destination \in Own, QueueAction(Receives(s), "search"),
             search' = IF actions' # actions THEN [search EXCEPT !.at = "perform"] ELSE search
      PROVE  IndInv'
  <2>1. /\ Task(s.destination, Receives(s)) /\ Receives(s).kind = "receive" /\ QueueShape
        /\ UNCHANGED <<ledgerVars, work, inserting, refused>> /\ asked' = asked
    BY <1>1, TaskFacts, Zenon DEF IndInv, walletVars, clientVars
  <2>2. /\ QueueStep(s.destination, {Receives(s)})
        /\ actions[s.destination].at # "free" => actions' = actions
    BY <1>3, <2>1, QueueActionStep
  <2>3. actions'[s.destination] = actions[s.destination] \/ actions[s.destination].at # "work"
    BY <2>2, Zenon
  <2>4. search' = search \/ \E at \in {"scan", "perform"} : search' = [search EXCEPT !.at = at]
    BY <1>3
  <2> QED
    BY <1>3, <2>1, <2>2, <2>3, <2>4, QueueKeepsInv
<1> QED
  BY <1>2, <1>3 DEF SearchScan, Fetchable

(* An election ends, one way or the other.                                 *)
LEMMA SearchElectStep == ASSUME IndInv, SearchElected \/ SearchForgotten PROVE IndInv'
<1>1. CASE SearchElected
  <2>1. stored' = stored /\ pendings' = pendings /\ search' = [search EXCEPT !.at = "scan"]
    BY <1>1 DEF SearchElected, ledgerVars
  <2>2. SearchPassed'
    BY <2>1, SearchGoesOn DEF IndInv
  <2> QED
    BY <1>1, <2>2, OnlySearch DEF SearchElected
<1>2. CASE SearchForgotten
  BY <1>2, OffPassed, OnlySearch DEF SearchForgotten
<1> QED
  BY <1>1, <1>2

-----------------------------------------------------------------------------
(* The theorems.                                                           *)

(* A search that comes to its end has passed everything that was due, and  *)
(* no other step ends a search that is under way.                          *)
LEMMA SearchEndStep ==
    ASSUME IndInv, [Next]_vars, search.at = "run", search' = Off PROVE search.due \cap pendings = {}
<1>1. search' # search /\ search # Off
  BY DEF Off
<1>2. search' # [search EXCEPT !.at = "scan"]
  <2>1. search = [at |-> search.at, number |-> search.number, source |-> search.source, due |-> search.due]
    BY DEF IndInv, SearchPassed
  <2> QED
    BY <2>1 DEF Off
<1>3. ASSUME NEW a \in Own, ActionStep(a) PROVE FALSE
  <2>1. search' = search \/ NextAction(a)
    BY <1>3 DEF ActionStep, Make, ProcessBlock, WorkGenerate
  <2> QED
    BY <1>1, <1>2, <2>1, NextActionStep DEF IndInv
<1>4. CASE \/ \E a \in Own : Insert(a)
           \/ \E request \in Request : Ask(request)
           \/ \E s \in Send : Arrive(s) \/ ProcessConfirmed(s)
           \/ InsertGenerates \/ EnterPassword \/ SearchPending
           \/ UNCHANGED vars
  BY <1>1, <1>4 DEF Insert, Ask, Arrive, ProcessConfirmed, InsertGenerates, EnterPassword, SearchPending, vars
<1>5. CASE SearchRun
  BY <1>5, SearchRunStep
<1>6. CASE SearchElected \/ SearchForgotten \/ SearchScan
  BY <1>6 DEF SearchElected, SearchForgotten, SearchScan
<1> QED
  BY <1>3, <1>4, <1>5, <1>6 DEF Next, SearchStep

(* What the wallet's blocks rest on holds at every step: one action at a   *)
(* time for an account, each of them made, stored and followed by its work.*)
THEOREM Invariance == Spec => []IndInv
<1>1. Init => IndInv
  <2> SUFFICES ASSUME Init PROVE IndInv
    OBVIOUS
  <2>1. LedgerShape /\ SendsOnce
    <3>1. \A a \in Own : actions[a].at = "free" /\ waiting[a] = {}
      BY DEF Init, Free
    <3>2. \A a \in Own : Undone(a) = {}
      BY <3>1 DEF Undone
    <3> QED
      BY <3>1, <3>2 DEF Init, LedgerShape, SendsOnce
  <2>2. QueueShape /\ MadeFits
    BY DEF Init, QueueShape, MadeFits, Free
  <2>3. WorkKept
    BY WalletAssumption, Zenon DEF Init, WorkKept, Free, NoInsert
  <2>4. SearchPassed
    <3>1. /\ search = [at |-> search.at, number |-> search.number, source |-> search.source, due |-> search.due]
          /\ search.number = 0 /\ search.due = {}
      BY DEF Init, Off
    <3> QED
      BY <3>1 DEF SearchPassed
  <2>5. OwnBlocksAccepted
    BY DEF Init, OwnBlocksAccepted
  <2> QED
    BY <2>1, <2>2, <2>3, <2>4, <2>5 DEF IndInv
<1>2. IndInv /\ [Next]_vars => IndInv'
  <2> SUFFICES ASSUME IndInv, [Next]_vars PROVE IndInv'
    OBVIOUS
  <2>1. ASSUME NEW a \in Own, ActionStep(a) \/ Insert(a) PROVE IndInv'
    BY <2>1, MakeStep, ProcessBlockStep, WorkGenerateStep, InsertStep DEF ActionStep
  <2>2. ASSUME NEW request \in Request, Ask(request) PROVE IndInv'
    BY <2>2, AskStep
  <2>3. ASSUME NEW s \in Send, Arrive(s) \/ ProcessConfirmed(s) PROVE IndInv'
    BY <2>3, ArriveStep, ProcessConfirmedStep
  <2>4. CASE InsertGenerates \/ EnterPassword \/ SearchPending \/ SearchStep
    BY <2>4, InsertGeneratesStep, EnterPasswordStep, SearchPendingStep, SearchRunStep, SearchScanStep,
       SearchElectStep DEF SearchStep
  <2>5. CASE UNCHANGED vars
    <3>1. UNCHANGED <<ledgerVars, walletVars, queueVars, clientVars, search, refused>>
      BY <2>5 DEF vars
    <3>2. SearchPassed'
      BY <3>1, SearchGoesOn DEF IndInv, ledgerVars
    <3> QED
      BY <3>1, <3>2, OnlySearch
  <2> QED
    BY <2>1, <2>2, <2>3, <2>4, <2>5 DEF Next
<1> QED
  BY <1>1, <1>2, PTL DEF Spec

(* The ledger takes every block that a wallet makes, however the steps of  *)
(* its accounts, its clients, the network and the search interleave        *)
(* (queue_wallet_action, process_receive_republish).                       *)
THEOREM NothingRefused == Spec => []OwnBlocksAccepted
<1>1. IndInv => OwnBlocksAccepted
  BY DEF IndInv
<1> QED
  BY <1>1, Invariance, PTL

(* Whenever nothing is done for an account its cached work is for its next *)
(* block, whatever insert and work_update did in between.                  *)
THEOREM WorkIsReady == Spec => []WorkReady
<1>1. IndInv => WorkReady
  <2>1. Free.at # "work"
    BY DEF Free
  <2> QED
    BY <2>1, Zenon DEF IndInv, WorkKept, WorkReady
<1> QED
  BY <1>1, Invariance, PTL

(* A search_action that comes to its end has received all that was pending *)
(* for the wallet when it began, although blocks arrive and are received   *)
(* by others while it goes from account to account.                        *)
THEOREM SearchIsComplete == Spec => SearchFindsAll
<1>1. IndInv /\ [Next]_vars => [search.at = "run" /\ search' = Off => search.due \cap pendings = {}]_vars
  BY SearchEndStep
<1> QED
  BY <1>1, Invariance, PTL DEF Spec, SearchFindsAll

-----------------------------------------------------------------------------
(* The store of the keys.                                                  *)

(* The types with KeysKept, which is inductive relative to them.           *)
KeysInv == Store!TypeOK /\ Store!KeysKept

(* What the constants stand for: the empty password is a text, the zero    *)
(* password is none, and no entry is told from one that is encrypted right.*)
StoreConstants == Empty \in Text /\ Zero \notin Text /\ NoEntry # {}

(* No step of a wallet store takes a variable out of its type.             *)
LEMMA StoreTypeStep == ASSUME StoreConstants, Store!TypeOK, [Store!Next]_(Store!vars) PROVE Store!TypeOK'
<1> USE DEF StoreConstants, Store!TypeOK, Store!Off, Store!WalletKey
<1>1. ASSUME NEW w \in Wallet, Store!Create(w) PROVE Store!TypeOK'
  BY <1>1 DEF Store!Create
<1>2. ASSUME NEW w \in Wallet, Store!EnterInitialPassword(w) PROVE Store!TypeOK'
  BY <1>2, Zenon DEF Store!EnterInitialPassword
<1>3. ASSUME NEW w \in Wallet, Store!Serialize(w) PROVE Store!TypeOK'
  BY <1>3 DEF Store!Serialize, Store!disk
<1>4. ASSUME NEW w \in Wallet, Store!Destroy(w) PROVE Store!TypeOK'
  BY <1>4 DEF Store!Destroy, Store!Without, Store!Entry
<1>5. ASSUME NEW w \in Wallet, NEW text \in Text, Store!EnterPassword(w, text) PROVE Store!TypeOK'
  BY <1>5 DEF Store!EnterPassword, Store!disk
<1>6. ASSUME NEW w \in Wallet, NEW text \in Text, Store!Rekey(w, text) PROVE Store!TypeOK'
  BY <1>6 DEF Store!Rekey
<1>7. ASSUME NEW w \in Wallet, NEW k \in Key, Store!Insert(w, k) PROVE Store!TypeOK'
  <2>1. Store!WalletKey(w) \in Store!Entry
    BY DEF Store!Entry
  <2>2. entry' \in [Wallet -> [Key -> Store!Entry]]
    BY <1>7, <2>1 DEF Store!Insert
  <2>3. entrusted' \subseteq Key
    BY <1>7 DEF Store!Insert
  <2> QED BY <1>7, <2>2, <2>3, Zenon DEF Store!Insert
<1>8. ASSUME NEW w \in Wallet, NEW from \in Wallet, NEW keys \in SUBSET Key, Store!Move(w, from, keys)
      PROVE Store!TypeOK'
  BY <1>8 DEF Store!Move, Store!Entry
<1>9. ASSUME NEW w \in Wallet, NEW text \in Text, NEW keys \in SUBSET Key, Store!Import(w, text, keys)
      PROVE Store!TypeOK'
  BY <1>9, Zenon DEF Store!Import, Store!Entry
<1>10. CASE Store!Restart
  BY <1>10 DEF Store!Restart, Store!disk
<1>11. CASE UNCHANGED Store!vars
  BY <1>11 DEF Store!vars, Store!disk
<1> QED
  BY <1>1, <1>2, <1>3, <1>4, <1>5, <1>6, <1>7, <1>8, <1>9, <1>10, <1>11, Zenon DEF Store!Next

(* No step loses a key that is counted on: the wallet that held it before  *)
(* the step does so after it, or the step has put it in another.           *)
LEMMA KeysStep == ASSUME StoreConstants, KeysInv, [Store!Next]_(Store!vars) PROVE Store!KeysKept'
<1> USE DEF StoreConstants, KeysInv, Store!TypeOK, Store!KeysKept, Store!Opens
<1>1. ASSUME NEW w \in Wallet, Store!Create(w) PROVE Store!KeysKept'
  <2> SUFFICES ASSUME NEW j \in entrusted'
               PROVE  \E v \in made' : entry'[v][j] = {} /\ Store!Opens(v)'
    BY Zenon
  <2>1. PICK v \in made : entry[v][j] = {} /\ Store!Opens(v)
    BY <1>1, Zenon DEF Store!Create
  <2>2. v # w /\ v \in made' /\ lock'[v] = lock[v] /\ entry' = entry
    BY <1>1 DEF Store!Create
  <2> QED BY <2>1, <2>2, Zenon
<1>2. ASSUME NEW w \in Wallet, Store!EnterInitialPassword(w) PROVE Store!KeysKept'
  <2>1. entry' = entry /\ made' = made /\ entrusted' = entrusted
    BY <1>2 DEF Store!EnterInitialPassword
  <2>2. \A v \in made : Store!Opens(v) => Store!Opens(v)'
    <3>1. lock' = lock \/ lock' = [lock EXCEPT ![w] = Empty]
      BY <1>2 DEF Store!EnterInitialPassword
    <3> QED BY <3>1
  <2> QED BY <2>1, <2>2, Zenon
<1>3. ASSUME NEW w \in Wallet, Store!Serialize(w) PROVE Store!KeysKept'
  BY <1>3, Zenon DEF Store!Serialize, Store!disk
<1>4. ASSUME NEW w \in Wallet, Store!Destroy(w) PROVE Store!KeysKept'
  BY <1>4, Zenon DEF Store!Destroy, Store!Without
<1>5. ASSUME NEW w \in Wallet, NEW text \in Text, Store!EnterPassword(w, text) PROVE Store!KeysKept'
  BY <1>5, Zenon DEF Store!EnterPassword, Store!disk
<1>6. ASSUME NEW w \in Wallet, NEW text \in Text, Store!Rekey(w, text) PROVE Store!KeysKept'
  BY <1>6, Zenon DEF Store!Rekey
<1>7. ASSUME NEW w \in Wallet, NEW k \in Key, Store!Insert(w, k) PROVE Store!KeysKept'
  <2> SUFFICES ASSUME NEW j \in entrusted'
               PROVE  \E v \in made' : entry'[v][j] = {} /\ Store!Opens(v)'
    BY Zenon
  <2>1. CASE j = k /\ Store!Valid(w) /\ Store!Opens(w)
    BY <1>7, <2>1 DEF Store!Insert, Store!Valid
  <2>2. CASE j = k /\ Store!Valid(w) /\ ~Store!Opens(w)
    BY <1>7, <2>2, Zenon DEF Store!Insert, Store!Valid
  <2>3. CASE j = k /\ ~Store!Valid(w)
    BY <1>7, <2>3 DEF Store!Insert
  <2>4. CASE j # k
    BY <1>7, <2>4, Zenon DEF Store!Insert
  <2> QED BY <2>1, <2>2, <2>3, <2>4, Zenon
<1>8. ASSUME NEW w \in Wallet, NEW from \in Wallet, NEW keys \in SUBSET Key, Store!Move(w, from, keys)
      PROVE Store!KeysKept'
  <2> SUFFICES ASSUME NEW j \in entrusted'
               PROVE  \E v \in made' : entry'[v][j] = {} /\ Store!Opens(v)'
    BY Zenon
  <2>1. CASE j \in keys
    BY <1>8, <2>1 DEF Store!Move
  <2>2. CASE j \notin keys
    BY <1>8, <2>2, Zenon DEF Store!Move
  <2> QED BY <2>1, <2>2, Zenon
<1>9. ASSUME NEW w \in Wallet, NEW text \in Text, NEW keys \in SUBSET Key, Store!Import(w, text, keys)
      PROVE Store!KeysKept'
  <2> SUFFICES ASSUME NEW j \in entrusted'
               PROVE  \E v \in made' : entry'[v][j] = {} /\ Store!Opens(v)'
    BY Zenon
  <2>1. CASE j \in entrusted
    BY <1>9, <2>1, Zenon DEF Store!Import
  <2>2. CASE j \notin entrusted
    BY <1>9, <2>2, Zenon DEF Store!Import
  <2> QED BY <2>1, <2>2, Zenon
<1>10. CASE Store!Restart
  BY <1>10, Zenon DEF Store!Restart, Store!disk
<1>11. CASE UNCHANGED Store!vars
  BY <1>11, Zenon DEF Store!vars, Store!disk
<1> QED
  BY <1>1, <1>2, <1>3, <1>4, <1>5, <1>6, <1>7, <1>8, <1>9, <1>10, <1>11, Zenon DEF Store!Next

(* A key that was put in an unlocked wallet with a password stays in a     *)
(* wallet from which its password fetches it (wallet_store::insert, rekey, *)
(* move, import and the restart of the node), however many wallets, keys   *)
(* and passwords there are.                                                *)
THEOREM KeysAreKept == ASSUME StoreConstants PROVE Store!Spec => []Store!KeysKept
<1>1. Store!Init => KeysInv
  BY DEF StoreConstants, Store!Init, KeysInv, Store!TypeOK, Store!KeysKept, Store!Without, Store!Entry
<1>2. KeysInv /\ [Store!Next]_(Store!vars) => KeysInv'
  BY StoreTypeStep, KeysStep DEF KeysInv
<1>3. KeysInv => Store!KeysKept
  BY DEF KeysInv
<1> QED
  BY <1>1, <1>2, <1>3, PTL DEF Store!Spec
=============================================================================
