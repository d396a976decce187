------------------------------ MODULE Bootstrap ------------------------------
(***************************************************************************)
(* Bootstrapping (paper/node.cpp): a node connects to another one over     *)
(* TCP, compares the heads of all accounts (frontier_req), pulls the       *)
(* chains that it lacks (bulk_pull), orders what it pulled by dependencies *)
(* (block_synchronization) and pushes what the other lacks (bulk_push).    *)
(*                                                                         *)
(* Blocks arrive at both nodes from the rest of the network at any time,   *)
(* and the connection may break at any time; what was pulled and not yet   *)
(* processed, and what is still to be pushed, stays in the tables          *)
(* unchecked and unsynced for the next session.                            *)
(*                                                                         *)
(* Blocks are valid, so a ledger is the set of the blocks that it stores:  *)
(* a block is stored if what it depends on is, unless a rival is.  One     *)
(* session runs at a time.                                                 *)
(***************************************************************************)
EXTENDS Naturals, FiniteSets, Sequences

CONSTANTS
    Chain,        \* the blocks: [hash -> [account, previous, source]]
    NoHash,
    Genesis,      \* the blocks that all ledgers start with
    Window,       \* what a connection holds in one direction
    Disconnects,  \* how often the connection breaks
    Arrivals      \* how many blocks arrive from the network

Hash == DOMAIN Chain

ASSUME BootstrapAssumption ==
    /\ IsFiniteSet(Hash) /\ NoHash \notin Hash /\ Genesis \subseteq Hash
    /\ \A b \in Hash :
          /\ Chain[b].account \in Nat \ {0}
          /\ Chain[b].source \in Hash \cup {NoHash}
          /\ Chain[b].previous # NoHash => /\ Chain[b].previous \in Hash
                                           /\ Chain[Chain[b].previous].account = Chain[b].account
    /\ Window \in Nat \ {0} /\ Disconnects \in Nat /\ Arrivals \in Nat

VARIABLES
    ours,       \* the ledger of the node that bootstraps
    theirs,     \* the ledger of the node that serves
    gaps,       \* the gap cache of that node
    unchecked,  \* blocks pulled and not processed
    unsynced,   \* blocks that are still to be pushed
    client,     \* bootstrap_client, frontier_req_client, bulk_pull_client, bulk_push_client
    server,     \* bootstrap_server and the server of the request in progress
    toServer,   \* the two directions of the connection
    toClient,
    quiet,      \* history: no block arrived since the session began
    broken,     \* number of disconnects
    arrived     \* number of blocks that arrived

tables == <<ours, theirs, gaps, unchecked, unsynced>>
channels == <<toServer, toClient>>
history == <<quiet, broken, arrived>>
vars == <<tables, client, server, channels, history>>

-----------------------------------------------------------------------------
(* Ledgers as sets of blocks.                                              *)

Dependencies(b) == {Chain[b].previous, Chain[b].source} \ {NoHash}
Rivals(b) ==
    {r \in Hash \ {b} : Chain[r].account = Chain[b].account /\ Chain[r].previous = Chain[b].previous}

(* What a node may have stored.                                            *)
Ledgers ==
    {ledger \in SUBSET Hash :
        /\ Genesis \subseteq ledger
        /\ \A b \in ledger : Dependencies(b) \subseteq ledger /\ Rivals(b) \cap ledger = {}}

(* ledger::process of a block.                                             *)
Verdict(ledger, b) ==
    CASE b \in ledger -> "old"
      [] b \notin ledger /\ ~(Dependencies(b) \subseteq ledger) -> "gap"
      [] b \notin ledger /\ Dependencies(b) \subseteq ledger ->
            IF Rivals(b) \cap ledger = {} THEN "progress" ELSE "fork"
Processed(ledger, b) == IF Verdict(ledger, b) = "progress" THEN ledger \cup {b} ELSE ledger

(* process_receive_republish: a block that is stored is followed by those  *)
(* that waited for it in the gap cache.                                    *)
Ready(ledger, waiting) == {b \in waiting : Verdict(ledger, b) # "gap"}
Republished(ledger, waiting) ==
    LET after[s \in [ledger : Ledgers, waiting : SUBSET Hash]] ==
            LET ready == Ready(s.ledger, s.waiting)
                b == CHOOSE b \in ready : TRUE
            IN IF ready = {} THEN s
               ELSE after[[ledger |-> Processed(s.ledger, b), waiting |-> s.waiting \ {b}]]
    IN after[[ledger |-> ledger, waiting |-> waiting]]

Accounts(ledger) == {Chain[b].account : b \in ledger}
Latest(ledger, a) ==
    CHOOSE b \in ledger : Chain[b].account = a /\ \A c \in ledger : Chain[c].previous # b

(* latest_begin: the first account from a on, and its head.                *)
NoInfo == [account |-> 0, head |-> NoHash]
From(ledger, a) ==
    LET found == {x \in Accounts(ledger) : x >= a}
        first == CHOOSE x \in found : \A y \in found : x <= y
    IN IF found = {} THEN NoInfo ELSE [account |-> first, head |-> Latest(ledger, first)]

(* The blocks of a chain from its head down to, and without, the block end. *)
Down(head, end) ==
    LET walk[b \in Hash \cup {NoHash}] ==
            IF b \in {NoHash, end} THEN {} ELSE {b} \cup walk[Chain[b].previous]
    IN walk[head]

-----------------------------------------------------------------------------
(* Messages, and states of the two ends.                                   *)

FrontierReq == [type |-> "frontier_req"]
BulkPush == [type |-> "bulk_push"]
NotABlock == [type |-> "not_a_block"]
BulkPull(pull) == [type |-> "bulk_pull", pull |-> pull]
BlockMessage(b) == [type |-> "block", block |-> b]
Frontier(info) == [type |-> "frontier", info |-> info]

ClientOff == [at |-> "off", info |-> NoInfo, pulls |-> {}, stack |-> <<>>]
ServerOff == [at |-> "off", reading |-> FALSE, requests |-> <<>>, info |-> NoInfo,
              current |-> NoHash, end |-> NoHash]

Init ==
    /\ ours \in Ledgers /\ theirs \in Ledgers /\ gaps = {}
    /\ unchecked = {} /\ unsynced = {}
    /\ client = ClientOff /\ server = ServerOff
    /\ toServer = <<>> /\ toClient = <<>>
    /\ quiet = TRUE /\ broken = 0 /\ arrived = 0

Fits(channel) == Len(channel) < Window

-----------------------------------------------------------------------------
(* bootstrap_server.                                                       *)

(* bulk_pull_server::set_current_end: the chain is sent from its head down *)
(* to the end asked for, or whole if that end is not known.                *)
CurrentEnd(pull) ==
    LET end == IF pull.end \in theirs THEN pull.end ELSE NoHash
        known == pull.start \in Accounts(theirs)
        inChain == end = NoHash \/ Chain[end].account = pull.start
    IN [end |-> end, current |-> IF known /\ inChain THEN Latest(theirs, pull.start) ELSE end]

(* run_next for a request.                                                 *)
Serving(s, request) ==
    CASE request.type = "frontier_req" -> [s EXCEPT !.at = "frontiers", !.info = From(theirs, 1)]
      [] request.type = "bulk_pull" ->
            [s EXCEPT !.at = "pull", !.current = CurrentEnd(request.pull).current,
                      !.end = CurrentEnd(request.pull).end]
      [] request.type = "bulk_push" -> [s EXCEPT !.at = "push"]

(* receive_header_action and add_request.  After a bulk_push the server    *)
(* reads no more requests: blocks follow.                                  *)
ReceiveRequest ==
    /\ server.reading /\ toServer # <<>>
    /\ LET request == Head(toServer)
           s == [server EXCEPT !.requests = Append(@, request), !.reading = request # BulkPush]
       IN server' = IF server.requests = <<>> THEN Serving(s, request) ELSE s
    /\ toServer' = Tail(toServer)
    /\ UNCHANGED <<tables, client, toClient, history>>

(* Mutant: a request that came meanwhile is forgotten.                     *)
FinishRequestDrops ==
    /\ server.at = "finish"
    /\ server' = [server EXCEPT !.requests = <<>>, !.at = "idle"]
    /\ UNCHANGED <<tables, client, channels, history>>

(* finish_request, when the last message of an answer is sent.             *)
FinishRequest ==
    /\ server.at = "finish"
    /\ LET s == [server EXCEPT !.requests = Tail(@), !.at = "idle"]
       IN server' = IF s.requests = <<>> THEN s ELSE Serving(s, Head(s.requests))
    /\ UNCHANGED <<tables, client, channels, history>>

(* frontier_req_server::send_next: the head read last is sent and the next *)
(* account is read, from the ledger as it is by now.                       *)
SendFrontier ==
    /\ server.at = "frontiers" /\ Fits(toClient)
    /\ toClient' = Append(toClient, Frontier(server.info))
    /\ server' = IF server.info = NoInfo THEN [server EXCEPT !.at = "finish"]
                 ELSE [server EXCEPT !.info = From(theirs, server.info.account + 1)]
    /\ UNCHANGED <<tables, client, toServer, history>>

(* bulk_pull_server::send_next with get_next.                              *)
SendBlock ==
    /\ server.at = "pull" /\ Fits(toClient)
    /\ IF server.current = server.end
       THEN /\ toClient' = Append(toClient, NotABlock)
            /\ server' = [server EXCEPT !.at = "finish", !.current = NoHash, !.end = NoHash]
       ELSE /\ toClient' = Append(toClient, BlockMessage(server.current))
            /\ server' = IF Chain[server.current].previous # NoHash
                         THEN [server EXCEPT !.current = Chain[@].previous]
                         ELSE [server EXCEPT !.end = server.current]
    /\ UNCHANGED <<tables, client, toServer, history>>

(* bulk_push_server::received_block.                                       *)
ReceivePush ==
    /\ server.at = "push" /\ toServer # <<>> /\ Head(toServer) # NotABlock
    /\ LET after == Republished(theirs, gaps \cup {Head(toServer).block})
       IN theirs' = after.ledger /\ gaps' = after.waiting
    /\ toServer' = Tail(toServer)
    /\ UNCHANGED <<ours, unchecked, unsynced, client, server, toClient, history>>

(* The end of the pushes: nobody holds the connection any more.            *)
PushEnds ==
    /\ server.at = "push" /\ toServer # <<>> /\ Head(toServer) = NotABlock
    /\ server' = ServerOff /\ client' = ClientOff
    /\ toServer' = <<>> /\ toClient' = <<>>
    /\ UNCHANGED <<tables, history>>

-----------------------------------------------------------------------------
(* bootstrap_client and frontier_req_client.                               *)

Connect ==
    /\ client.at = "off" /\ server.at = "off"
    /\ client' = [ClientOff EXCEPT !.at = "frontiers", !.info = From(ours, 1)]
    /\ server' = [ServerOff EXCEPT !.at = "idle", !.reading = TRUE]
    /\ toServer' = <<FrontierReq>>
    /\ quiet' = TRUE
    /\ UNCHANGED <<tables, toClient, broken, arrived>>

(* The blocks of some of our accounts from the current one on: they do not *)
(* know these.  The head of the current one was read before.               *)
OnlyOurs(accounts) ==
    UNION {Down(IF x = client.info.account THEN client.info.head ELSE Latest(ours, x), NoHash) :
            x \in {y \in accounts : client.info.account <= y}}

(* received_frontier: our accounts below theirs are to be pushed, and      *)
(* theirs is in sync, to be pushed or to be pulled.                        *)
ReceiveFrontier ==
    /\ client.at = "frontiers" /\ toClient # <<>> /\ Head(toClient).info # NoInfo
    /\ LET frontier == Head(toClient).info
           a == frontier.account
           behind == client.info # NoInfo /\ client.info.account < a
           info == IF behind THEN From(ours, a) ELSE client.info
           same == info.account = a
           known == frontier.head \in ours
       IN /\ unsynced' = unsynced
                \cup (IF behind THEN OnlyOurs({x \in Accounts(ours) : x < a}) ELSE {})
                \cup (IF same /\ info.head # frontier.head /\ known
                        THEN Down(info.head, frontier.head) ELSE {})
          /\ client' = [client EXCEPT
                !.info = IF same THEN From(ours, a + 1) ELSE info,
                !.pulls = CASE same /\ ~known -> @ \cup {[start |-> a, end |-> info.head]}
                            [] ~same -> @ \cup {[start |-> a, end |-> NoHash]}
                            [] OTHER -> @]
    /\ toClient' = Tail(toClient)
    /\ UNCHANGED <<ours, theirs, gaps, unchecked, server, toServer, history>>

(* bulk_pull_client::request: the next pull, in no order, or process_end.  *)
Request(c) ==
    \/ \E pull \in c.pulls :
          /\ toServer' = Append(toServer, BulkPull(pull))
          /\ client' = [c EXCEPT !.at = "pulling", !.pulls = @ \ {pull}]
    \/ /\ c.pulls = {}
       /\ client' = [c EXCEPT !.at = "processing"]
       /\ UNCHANGED toServer

(* received_frontier at the end of the frontiers.                          *)
FrontiersEnd ==
    /\ client.at = "frontiers" /\ toClient # <<>> /\ Head(toClient).info = NoInfo
    /\ unsynced' = unsynced \cup
            (IF client.info = NoInfo THEN {} ELSE OnlyOurs(Accounts(ours)))
    /\ Request([client EXCEPT !.info = NoInfo])
    /\ toClient' = Tail(toClient)
    /\ UNCHANGED <<ours, theirs, gaps, unchecked, server, history>>

(* bulk_pull_client::received_block and received_type.                     *)
ReceivePull ==
    /\ client.at = "pulling" /\ toClient # <<>>
    /\ IF Head(toClient) = NotABlock
       THEN Request(client) /\ UNCHANGED unchecked
       ELSE /\ unchecked' = unchecked \cup {Head(toClient).block}
            /\ UNCHANGED <<client, toServer>>
    /\ toClient' = Tail(toClient)
    /\ UNCHANGED <<ours, theirs, gaps, unsynced, server, history>>

-----------------------------------------------------------------------------
(* block_synchronization: a stack of blocks, each above those that depend  *)
(* on it.                                                                  *)

Last(stack) == stack[Len(stack)]
Front(stack) == SubSeq(stack, 1, Len(stack) - 1)
ToSet(stack) == {stack[i] : i \in DOMAIN stack}

(* add_dependency_visitor: the source is looked at when previous is there. *)
Missing(b, synchronized) ==
    IF Chain[b].previous \notin synchronized \cup {NoHash} THEN Chain[b].previous
    ELSE IF Chain[b].source \notin synchronized \cup {NoHash} THEN Chain[b].source
    ELSE NoHash

(* pull_synchronization retrieves blocks from unchecked, and those in the  *)
(* ledger are synchronized; push_synchronization retrieves them from the   *)
(* ledger, and those not in unsynced are synchronized.                     *)
PullSync(pulled, ledger) == [retrieves |-> pulled, synchronized |-> ledger]
PushSync(todo) == [retrieves |-> Hash, synchronized |-> Hash \ todo]
Syncs == {PullSync(p, l) : p \in SUBSET Hash, l \in Ledgers} \cup {PushSync(t) : t \in SUBSET Hash}

(* fill_dependencies: what is put on the stack from block b on, until a    *)
(* block is not there or all it depends on is synchronized.                *)
Fill(b, sync) ==
    LET fill[c \in Hash] ==
            LET missing == Missing(c, sync.synchronized)
            IN IF c \notin sync.retrieves \/ missing = NoHash THEN <<c>> ELSE <<c>> \o fill[missing]
    IN fill[b]

(* Mutant: the block is processed without asking for its dependencies.     *)
FillPullNothing(stack) == stack

FillPull(stack) == Front(stack) \o Fill(Last(stack), PullSync(unchecked, ours))

(* Mutant: the block is pushed without asking for its dependencies.        *)
FillPushNothing(stack, todo) == stack

FillPush(stack, todo) == Front(stack) \o Fill(Last(stack), PushSync(todo))

(* bulk_pull_client::process_end, one block at a time: synchronize_one     *)
(* with process_receive and unchecked_del, or all that waits for a block   *)
(* that is not there is deleted.                                           *)
ProcessOne(start) ==
    LET stack == FillPull(start)
        top == Last(stack)
    IN IF top \in unchecked
       THEN /\ ours' = Processed(ours, top)
            /\ unchecked' = unchecked \ {top}
            /\ client' = [client EXCEPT !.stack = Front(stack)]
       ELSE /\ unchecked' = unchecked \ ToSet(stack)
            /\ client' = [client EXCEPT !.stack = <<>>]
            /\ UNCHANGED ours

ProcessEnd ==
    /\ client.at = "processing"
    /\ IF client.stack # <<>>
       THEN ProcessOne(client.stack)
       ELSE \E b \in unchecked : ProcessOne(<<b>>)
    /\ UNCHANGED <<theirs, gaps, unsynced, server, channels, history>>

(* completed_pulls and bulk_push_client::start.                            *)
CompletedPulls ==
    /\ client.at = "processing" /\ client.stack = <<>> /\ unchecked = {}
    /\ client' = [client EXCEPT !.at = "pushing"]
    /\ toServer' = Append(toServer, BulkPush)
    /\ UNCHANGED <<tables, server, toClient, history>>

(* synchronize_one with push_block: unsynced loses what is on the stack.   *)
PushOne(start, todo) ==
    LET stack == FillPush(start, todo)
    IN /\ unsynced' = todo \ ToSet(stack)
       /\ toServer' = Append(toServer, BlockMessage(Last(stack)))
       /\ client' = [client EXCEPT !.stack = Front(stack)]

(* push, and the callback of push_block.                                   *)
Push ==
    /\ client.at = "pushing" /\ Fits(toServer)
    /\ \/ client.stack # <<>> /\ PushOne(client.stack, unsynced)
       \/ client.stack = <<>> /\ \E b \in unsynced : PushOne(<<b>>, unsynced \ {b})
    /\ UNCHANGED <<ours, theirs, gaps, unchecked, server, toClient, history>>

(* Mutant: the pushes end with the first block that waits for no other.    *)
SendFinishedEarly ==
    /\ client.at = "pushing" /\ Fits(toServer) /\ client.stack = <<>>
    /\ toServer' = Append(toServer, NotABlock)
    /\ client' = [client EXCEPT !.at = "done"]
    /\ UNCHANGED <<tables, server, toClient, history>>

(* bulk_push_client::send_finished.                                        *)
SendFinished ==
    /\ client.at = "pushing" /\ Fits(toServer) /\ client.stack = <<>> /\ unsynced = {}
    /\ toServer' = Append(toServer, NotABlock)
    /\ client' = [client EXCEPT !.at = "done"]
    /\ UNCHANGED <<tables, server, toClient, history>>

-----------------------------------------------------------------------------
(* The connection breaks, or a node is restarted; the gap cache is lost if *)
(* it is the node that serves.                                             *)
Disconnect ==
    /\ client.at # "off" /\ broken < Disconnects
    /\ client' = ClientOff /\ server' = ServerOff
    /\ toServer' = <<>> /\ toClient' = <<>>
    /\ broken' = broken + 1
    /\ gaps' \in {gaps, {}}
    /\ UNCHANGED <<ours, theirs, unchecked, unsynced, quiet, arrived>>

(* A block comes from the network to one of the nodes.                     *)
Arrive(b) ==
    /\ arrived < Arrivals
    /\ arrived' = arrived + 1
    /\ quiet' = FALSE
    /\ \/ /\ Verdict(ours, b) = "progress"
          /\ ours' = ours \cup {b}
          /\ UNCHANGED <<theirs, gaps>>
       \/ /\ Verdict(theirs, b) = "progress"
          /\ LET after == Republished(theirs, gaps \cup {b})
             IN theirs' = after.ledger /\ gaps' = after.waiting
          /\ UNCHANGED ours
    /\ UNCHANGED <<unchecked, unsynced, client, server, channels, broken>>

ServerStep ==
    ReceiveRequest \/ FinishRequest \/ SendFrontier \/ SendBlock \/ ReceivePush \/ PushEnds
ClientStep ==
    \/ ReceiveFrontier \/ FrontiersEnd \/ ReceivePull \/ ProcessEnd \/ CompletedPulls
    \/ Push \/ SendFinished

Next == Connect \/ ServerStep \/ ClientStep \/ Disconnect \/ \E b \in Hash : Arrive(b)

(* A session that has begun goes on.                                       *)
Fairness == WF_vars(ServerStep) /\ WF_vars(ClientStep)

Spec == Init /\ [][Next]_vars /\ Fairness

-----------------------------------------------------------------------------
(* Properties.                                                             *)

(* A block and all that it depends on.                                     *)
Ancestry[b \in Hash] == {b} \cup UNION {Ancestry[d] : d \in Dependencies(b)}

(* The place of a block in the chain of its account, and the number of     *)
(* blocks that it needs.                                                   *)
Height[b \in Hash] ==
    IF Chain[b].previous = NoHash THEN 0 ELSE Height[Chain[b].previous] + 1
Depth[b \in Hash] == Cardinality(Ancestry[b])

(* The recursive functions of this module unfold on the chains of Chain:   *)
(* a hash commits to the hashes of what a block refers to, so that no      *)
(* block is its own ancestor.                                              *)
ASSUME ChainUnfolds ==
    \A b \in Hash :
        /\ Ancestry[b] = {b} \cup UNION {Ancestry[d] : d \in Dependencies(b)}
        /\ Depth[b] \in Nat /\ \A d \in Dependencies(b) : Depth[d] < Depth[b]
        /\ Height[b] \in 0..Cardinality(Hash)
        /\ Height[b] = IF Chain[b].previous = NoHash THEN 0 ELSE Height[Chain[b].previous] + 1

ASSUME DownUnfolds ==
    \A head, end \in Hash \cup {NoHash} :
        Down(head, end) = IF head \in {NoHash, end} THEN {}
                          ELSE {head} \cup Down(Chain[head].previous, end)

ASSUME FillUnfolds ==
    \A b \in Hash, sync \in Syncs :
        LET missing == Missing(b, sync.synchronized)
        IN Fill(b, sync) = IF b \notin sync.retrieves \/ missing = NoHash THEN <<b>>
                           ELSE <<b>> \o Fill(missing, sync)

ASSUME RepublishedUnfolds ==
    \A ledger \in Ledgers, waiting \in SUBSET Hash :
        LET ready == Ready(ledger, waiting)
            b == CHOOSE b \in ready : TRUE
        IN Republished(ledger, waiting) =
              IF ready = {} THEN [ledger |-> ledger, waiting |-> waiting]
              ELSE Republished(Processed(ledger, b), waiting \ {b})

(* Blocks that the nodes cannot agree on by bootstrapping: they descend    *)
(* from a fork.                                                            *)
Disputed(b) == \E c \in Ancestry[b] : Rivals(c) \cap (ours \cup theirs) # {}

(* A session during which nothing arrived leaves both nodes with the same  *)
(* blocks, but for those that descend from a fork, whatever an earlier     *)
(* session left in unchecked and unsynced (frontier_req_client,            *)
(* bulk_pull_client, bulk_push_client).                                    *)
SessionConverges ==
    client.at = "done" /\ quiet /\ server.at = "push" /\ Head(toServer) = NotABlock
        => \A b \in (ours \ theirs) \cup (theirs \ ours) : Disputed(b)

(* A block that is pushed during such a session comes after all that it    *)
(* depends on (block_synchronization), unless it descends from a fork.     *)
PushedInOrder ==
    server.at = "push" /\ quiet /\ toServer # <<>> /\ Head(toServer) # NotABlock
        => \/ Verdict(theirs, Head(toServer).block) # "gap"
           \/ Disputed(Head(toServer).block)

(* Nothing that was pulled is thrown away during such a session, unless it *)
(* descends from a fork (process_end).                                     *)
PulledIsKept ==
    [][quiet /\ client.at = "processing" => \A b \in unchecked \ unchecked' : b \in ours' \/ Disputed(b)]_vars

(* A session ends (bootstrap_client::~bootstrap_client resets in_progress). *)
SessionEnds == client.at # "off" ~> client.at = "off"
=============================================================================
