----------------------------- MODULE SendQueue ------------------------------
(***************************************************************************)
(* The queue of UDP packets of paper::network (paper/node.cpp): sends      *)
(* holds the packet on the socket and the ones behind it; a packet with    *)
(* rebroadcasts left is queued again later by the service.                 *)
(*                                                                         *)
(* A step is a section under socket_mutex, or a call of the service or of  *)
(* a callback outside of it.  The socket completes every send, with an     *)
(* error or without.  Packets are distinct; a packet keeps its identity    *)
(* when it is sent again.  The names of the specification say of what, as  *)
(* its proofs share a module with those of ProcessorService.               *)
(***************************************************************************)
EXTENDS Integers, Sequences, FiniteSets

CONSTANTS
    Packet,
    Rebroadcasts,   \* config.creation_rebroadcast, rebroadcast or 0, by packet
    NoPacket

ASSUME SendAssumption == Rebroadcasts \in [Packet -> Nat] /\ NoPacket \notin Packet

VARIABLES
    sends,       \* network::sends: packets with the rebroadcasts left
    socket,      \* the packet that async_send_to has, or its handler works on
    handler,     \* where that handler is
    delayed,     \* the operations of the service: initiate_send, or packets
    sent,        \* history: how often each packet was given to the socket
    called,      \* history: how often the callback of each packet was called
    stopped,     \* the service is stopped and ignores operations
    sendFailed       \* whether an assertion sendFailed

sendVars == <<sends, socket, handler, delayed, sent, called, stopped, sendFailed>>

Sending == [packet : Packet, rebroadcast : Nat]
Nobody == [packet |-> NoPacket, rebroadcast |-> 0]
Initiate == Nobody

SendInit ==
    /\ sends = <<>> /\ socket = Nobody /\ handler = "none"
    /\ delayed = {}
    /\ sent = [p \in Packet |-> 0] /\ called = [p \in Packet |-> 0]
    /\ stopped = FALSE /\ sendFailed = FALSE

(* initiate_send, with the mutex: async_send_to for the front.             *)
InitiateSend(queue) ==
    IF queue = <<>>
    THEN sendFailed' = TRUE /\ UNCHANGED <<socket, handler, sent>>
    ELSE /\ socket' = Head(queue) /\ handler' = "sending"
         /\ sent' = [sent EXCEPT ![Head(queue).packet] = @ + 1]
         /\ UNCHANGED sendFailed

(* network::send_buffer.                                                   *)
SendBuffer(send) ==
    /\ sends' = Append(sends, send)
    /\ IF sends = <<>> THEN InitiateSend(sends') ELSE UNCHANGED <<socket, handler, sent, sendFailed>>

(* Someone sends a packet, the first time.                                 *)
NewPacket(p) ==
    /\ ~sendFailed /\ sent[p] = 0
    /\ \A i \in DOMAIN sends : sends[i].packet # p
    /\ SendBuffer([packet |-> p, rebroadcast |-> Rebroadcasts[p]])
    /\ UNCHANGED <<delayed, called, stopped>>

(* service.add, which a stopped service ignores.                           *)
Delay(operation) == delayed' = IF stopped THEN delayed ELSE delayed \cup {operation}

(* Mutant: a packet without rebroadcasts left is sent again.               *)
SentAgainAlways ==
    /\ ~sendFailed /\ handler = "sending"
    /\ Delay([socket EXCEPT !.rebroadcast = @ - 1])
    /\ handler' = "complete"
    /\ UNCHANGED <<sends, socket, sent, called, stopped, sendFailed>>

(* Mutant: nothing is sent again.                                          *)
SentAgainNever ==
    /\ ~sendFailed /\ handler = "sending" /\ socket.rebroadcast > 0
    /\ handler' = "complete"
    /\ UNCHANGED <<sends, socket, delayed, sent, called, stopped, sendFailed>>

(* Mutant: the callback is called after every send.                        *)
SentAgainCalls ==
    /\ ~sendFailed /\ handler = "sending" /\ socket.rebroadcast > 0
    /\ Delay([socket EXCEPT !.rebroadcast = @ - 1])
    /\ called' = [called EXCEPT ![Head(sends).packet] = @ + 1]
    /\ handler' = "complete"
    /\ UNCHANGED <<sends, socket, sent, stopped, sendFailed>>

(* The handler of async_send_to: a packet with rebroadcasts left goes to   *)
(* the service, for another one the callback of the front is called.       *)
SentAgain ==
    /\ ~sendFailed /\ handler = "sending" /\ socket.rebroadcast > 0
    /\ Delay([socket EXCEPT !.rebroadcast = @ - 1])
    /\ handler' = "complete"
    /\ UNCHANGED <<sends, socket, sent, called, stopped, sendFailed>>

SentLast ==
    /\ ~sendFailed /\ handler = "sending" /\ socket.rebroadcast = 0
    /\ IF sends = <<>>
       THEN sendFailed' = TRUE /\ UNCHANGED <<handler, called>>
       ELSE /\ called' = [called EXCEPT ![Head(sends).packet] = @ + 1]
            /\ handler' = "complete"
            /\ UNCHANGED sendFailed
    /\ UNCHANGED <<sends, socket, delayed, sent, stopped>>

(* Mutant: the next packet is not scheduled.                               *)
SendCompleteRests ==
    /\ ~sendFailed /\ handler = "complete"
    /\ handler' = "none" /\ socket' = Nobody
    /\ sends' = Tail(sends)
    /\ UNCHANGED <<delayed, sent, called, stopped, sendFailed>>

(* network::send_complete: pop the front, and delay the next packet.       *)
SendComplete ==
    /\ ~sendFailed /\ handler = "complete"
    /\ handler' = "none" /\ socket' = Nobody
    /\ IF sends = <<>>
       THEN sendFailed' = TRUE /\ UNCHANGED <<sends, delayed>>
       ELSE /\ sends' = Tail(sends)
            /\ IF sends' # <<>> THEN Delay(Initiate) ELSE UNCHANGED delayed
            /\ UNCHANGED sendFailed
    /\ UNCHANGED <<sent, called, stopped>>

(* What the service runs.                                                  *)
DelayedInitiate ==
    /\ ~sendFailed /\ Initiate \in delayed
    /\ delayed' = delayed \ {Initiate}
    /\ InitiateSend(sends)
    /\ UNCHANGED <<sends, called, stopped>>

DelayedSend(send) ==
    /\ ~sendFailed /\ send \in delayed \ {Initiate}
    /\ delayed' = delayed \ {send}
    /\ SendBuffer(send)
    /\ UNCHANGED <<called, stopped>>

(* processor_service::stop drops the operations.                           *)
StopService ==
    /\ ~sendFailed /\ ~stopped
    /\ stopped' = TRUE /\ delayed' = {}
    /\ UNCHANGED <<sends, socket, handler, sent, called, sendFailed>>

Handler == SentAgain \/ SentLast \/ SendComplete

SendNext ==
    \/ \E p \in Packet : NewPacket(p)
    \/ Handler
    \/ DelayedInitiate
    \/ \E send \in delayed : DelayedSend(send)
    \/ StopService

(* The socket completes sends, the service runs its operations.            *)
SendFairness ==
    /\ WF_sendVars(Handler) /\ WF_sendVars(DelayedInitiate)
    /\ WF_sendVars(\E send \in delayed : DelayedSend(send))

SendSpec == SendInit /\ [][SendNext]_sendVars /\ SendFairness

-----------------------------------------------------------------------------
(* Properties.                                                             *)

(* The state is well formed and no assertion of initiate_send, its handler *)
(* or send_complete fails.                                                 *)
SendTypeOK ==
    /\ sends \in Seq(Sending) /\ socket \in Sending \cup {Nobody}
    /\ handler \in {"none", "sending", "complete"}
    /\ delayed \subseteq Sending \cup {Initiate}
    /\ sent \in [Packet -> Nat] /\ called \in [Packet -> Nat]
    /\ stopped \in BOOLEAN /\ sendFailed = FALSE

(* One packet at a time: the socket or its handler works on a packet       *)
(* exactly when nothing is scheduled, the packet is the front of the queue *)
(* whatever was queued meanwhile, and a queue that is not empty has        *)
(* someone to send it, unless the service is stopped.                      *)
OneSender ==
    /\ handler # "none" => Initiate \notin delayed /\ sends # <<>> /\ socket = Head(sends)
    /\ Initiate \in delayed => sends # <<>>
    /\ sends # <<>> => handler # "none" \/ Initiate \in delayed \/ stopped

(* The callback of a packet is called once, after its last rebroadcast.    *)
CallbackLast ==
    \A p \in Packet : called[p] <= 1 /\ (called[p] = 1 => sent[p] = Rebroadcasts[p] + 1)

(* A packet is sent as often as it should be, and its callback called,     *)
(* unless the service is stopped.                                          *)
EverythingSent ==
    \A p \in Packet :
        sent[p] > 0 ~> (sent[p] = Rebroadcasts[p] + 1 /\ called[p] = 1) \/ stopped
=============================================================================
