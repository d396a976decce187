------------------------------- MODULE Wallet -------------------------------
(***************************************************************************)
(* paper::wallet and paper::wallets (paper/node.cpp): the actions that     *)
(* make blocks for the accounts of a wallet, the queue that runs them one  *)
(* at a time per account, the cached work, and the search for pending      *)
(* blocks.                                                                 *)
(*                                                                         *)
(* An action is three transactions with the mutex released between them:   *)
(* a read transaction makes the block, process_receive_republish stores    *)
(* it, and the work for the next block is generated and cached.  In        *)
(* between, other threads store blocks of other accounts, insert keys,     *)
(* enter passwords, confirm elections and search.                          *)
(*                                                                         *)
(* No block of the wallet is rolled back here and no other node has its    *)
(* keys, so the head block of an account is known by the height of its     *)
(* chain, and a root by the height of the block; height 0 is the account   *)
(* before its open block, whose root is the account itself.                *)
(***************************************************************************)
EXTENDS Integers, FiniteSets

CONSTANTS
    Own,            \* accounts whose keys are in the wallet
    Send,           \* the send blocks that there may be
    Change,         \* the changes of representative that clients ask for
    NoRequest,
    NoAccount,
    Confirmations   \* calls of process_confirmed, at most

(* A send block has a source, a destination, an amount, and its hash as a  *)
(* number.  The sends of the wallet's accounts are those that clients ask  *)
(* for.                                                                    *)
SendType == [source : STRING, destination : STRING, amount : Nat, number : Nat \ {0}]

ASSUME WalletAssumption ==
    /\ Send \subseteq SendType
    /\ \A s, r \in Send : s.number = r.number => s = r
    /\ \A s \in Send : s.source # s.destination
    /\ Change \subseteq [representative : STRING, account : Own]
    /\ Confirmations \in Nat
    /\ NoAccount \notin Own

VARIABLES
    height,    \* number of blocks of each account of the wallet
    balance,   \* and what it holds
    stored,    \* sends in the ledger
    pendings,  \* sends in the pending table
    valid,     \* valid_password: the password in memory is the right one
    work,      \* the root for which an account's cached work is good, -1 for none
    inserting, \* the key of an insert that generates work, and for which root
    actions,   \* what current_actions holds, and how far its action is
    waiting,   \* pending_actions of each account
    asked,     \* requests of clients so far
    confirmed, \* calls of process_confirmed so far
    search,    \* the search_action in progress
    refused    \* history: the ledger did not take a block of the wallet

ledgerVars == <<height, balance, stored, pendings>>
walletVars == <<valid, work, inserting>>
queueVars == <<actions, waiting>>
clientVars == <<asked, confirmed>>
vars == <<ledgerVars, walletVars, queueVars, clientVars, search, refused>>

(* What a queued action does.  Receives are queued by search_action and    *)
(* confirmed_visitor; of two that wait the second does nothing once the    *)
(* first has run, so a send waits to be received at most once here.        *)
Receives(s) == [kind |-> "receive", account |-> s.destination, send |-> s]
Sends(s) == [kind |-> "send", account |-> s.source, send |-> s]
Changes(c) == [kind |-> "change", account |-> c.account, change |-> c]

Request == {Sends(s) : s \in {r \in Send : r.source \in Own}} \cup {Changes(c) : c \in Change}

Free == [does |-> NoRequest, at |-> "free", root |-> -1, by |-> "nobody"]
Begins(request, who) == [does |-> request, at |-> "make", root |-> -1, by |-> who]
Off == [at |-> "off", number |-> 0, source |-> NoAccount, due |-> {}]
NoInsert == [key |-> NoAccount, root |-> -1]

Init ==
    /\ height = [a \in Own |-> 0] /\ balance = [a \in Own |-> 0]
    /\ stored = {} /\ pendings = {}
    /\ valid = TRUE
    /\ work = [a \in Own |-> 0]
    /\ inserting = NoInsert
    /\ actions = [a \in Own |-> Free]
    /\ waiting = [a \in Own |-> {}]
    /\ asked = {}
    /\ confirmed = 0
    /\ search = Off
    /\ refused = FALSE

-----------------------------------------------------------------------------
(* wallets::queue_wallet_action.                                           *)

(* The calling thread performs the action if nobody performs one for the   *)
(* account, else leaves it to the thread that does.                        *)
QueueAction(request, who) ==
    LET a == request.account
    IN IF actions[a] = Free
       THEN /\ actions' = [actions EXCEPT ![a] = Begins(request, who)]
            /\ UNCHANGED waiting
       ELSE /\ waiting' = [waiting EXCEPT ![a] = @ \cup {request}]
            /\ UNCHANGED actions

(* Mutant: the account is given up while actions still wait for it.        *)
NextActionLeaves(a) ==
    /\ actions' = [actions EXCEPT ![a] = Free]
    /\ search' = IF actions[a].by = "search" THEN [search EXCEPT !.at = "scan"] ELSE search
    /\ UNCHANGED waiting

(* The turn of the performing thread's loop, at the end of an action.  An  *)
(* unordered_multimap has no order among the actions of one account.  A    *)
(* search whose thread performed goes on when the loop ends.               *)
NextAction(a) ==
    \/ \E request \in waiting[a] :
          /\ actions' = [actions EXCEPT ![a] = Begins(request, @.by)]
          /\ waiting' = [waiting EXCEPT ![a] = @ \ {request}]
          /\ UNCHANGED search
    \/ /\ waiting[a] = {}
       /\ actions' = [actions EXCEPT ![a] = Free]
       /\ search' = IF actions[a].by = "search" THEN [search EXCEPT !.at = "scan"] ELSE search
       /\ UNCHANGED waiting

-----------------------------------------------------------------------------
(* receive_action, change_action and send_action.                          *)

(* Mutant: a send that is received already is received again.              *)
PossibleAgain(request) ==
    CASE request.kind = "receive" -> TRUE
      [] request.kind = "change" -> valid /\ height[request.account] # 0
      [] request.kind = "send" ->
            /\ valid /\ balance[request.account] # 0
            /\ balance[request.account] >= request.send.amount

(* The conditions under which the action makes a block.  The key of a      *)
(* receive was fetched before it was queued.                               *)
Possible(request) ==
    CASE request.kind = "receive" -> request.send \in pendings
      [] request.kind = "change" -> valid /\ height[request.account] # 0
      [] request.kind = "send" ->
            /\ valid /\ balance[request.account] # 0
            /\ balance[request.account] >= request.send.amount

(* The read transaction: the block made follows the head as it is now.     *)
Make(a) ==
    /\ actions[a].at = "make"
    /\ IF Possible(actions[a].does)
       THEN /\ actions' = [actions EXCEPT ![a].at = "process", ![a].root = height[a]]
            /\ UNCHANGED <<waiting, search>>
       ELSE NextAction(a)
    /\ UNCHANGED <<ledgerVars, walletVars, clientVars, refused>>

(* ledger::process of the block made: what it takes for progress.          *)
Progress(a) ==
    LET request == actions[a].does
    IN /\ actions[a].root = height[a]
       /\ request.kind = "receive" => request.send \in pendings
       /\ request.kind = "send" => balance[a] >= request.send.amount

(* process_receive_republish of the block made.  A block that is refused   *)
(* is no root of the account, and is told apart by -1.                     *)
ProcessBlock(a) ==
    LET request == actions[a].does
    IN /\ actions[a].at = "process"
       /\ IF Progress(a)
          THEN /\ height' = [height EXCEPT ![a] = @ + 1]
               /\ balance' = CASE request.kind = "receive" -> [balance EXCEPT ![a] = @ + request.send.amount]
                               [] request.kind = "send" -> [balance EXCEPT ![a] = @ - request.send.amount]
                               [] request.kind = "change" -> balance
               /\ stored' = IF request.kind = "send" THEN stored \cup {request.send} ELSE stored
               /\ pendings' = CASE request.kind = "receive" -> pendings \ {request.send}
                               [] request.kind = "send" -> pendings \cup {request.send}
                               [] request.kind = "change" -> pendings
               /\ actions' = [actions EXCEPT ![a].at = "work", ![a].root = height[a] + 1]
               /\ UNCHANGED refused
          ELSE /\ actions' = [actions EXCEPT ![a].at = "work", ![a].root = -1]
               /\ refused' = TRUE
               /\ UNCHANGED ledgerVars
       /\ UNCHANGED <<walletVars, waiting, clientVars, search>>

(* Mutant: work is cached whatever the latest root is by now.              *)
WorkUpdateAlways(a, root) == work' = [work EXCEPT ![a] = root]

(* work_update, when the work for root is found.                           *)
WorkUpdate(a, root) == work' = IF height[a] = root THEN [work EXCEPT ![a] = root] ELSE work

(* work_generate for the block that will follow.                           *)
WorkGenerate(a) ==
    /\ actions[a].at = "work"
    /\ WorkUpdate(a, actions[a].root)
    /\ NextAction(a)
    /\ UNCHANGED <<ledgerVars, valid, inserting, clientVars, refused>>

-----------------------------------------------------------------------------
(* Other threads.                                                          *)

(* send_sync and change_sync.                                              *)
Ask(request) ==
    /\ request \notin asked
    /\ asked' = asked \cup {request}
    /\ QueueAction(request, "other")
    /\ UNCHANGED <<ledgerVars, walletVars, confirmed, search, refused>>

(* wallet::insert of a key that the wallet has: the entry is written anew, *)
(* without work, and work is generated for the root as it is now.  insert  *)
(* does not look at the lock; what it writes in a locked wallet is in      *)
(* WalletStore.                                                            *)
Insert(a) ==
    /\ valid /\ inserting = NoInsert
    /\ work' = [work EXCEPT ![a] = -1]
    /\ inserting' = [key |-> a, root |-> height[a]]
    /\ UNCHANGED <<ledgerVars, valid, queueVars, clientVars, search, refused>>

InsertGenerates ==
    /\ inserting # NoInsert
    /\ WorkUpdate(inserting.key, inserting.root)
    /\ inserting' = NoInsert
    /\ UNCHANGED <<ledgerVars, valid, queueVars, clientVars, search, refused>>

(* wallet_store::enter_password, with the right or a wrong one.            *)
EnterPassword ==
    /\ valid' = ~valid
    /\ UNCHANGED <<ledgerVars, work, inserting, queueVars, clientVars, search, refused>>

(* A send of somebody else's account is processed.                         *)
Arrive(s) ==
    /\ s.source \notin Own /\ s \notin stored
    /\ stored' = stored \cup {s}
    /\ pendings' = pendings \cup {s}
    /\ UNCHANGED <<height, balance, walletVars, queueVars, clientVars, search, refused>>

(* process_confirmed of a send to the wallet, which an election and the    *)
(* timer of send_visitor may both call.                                    *)
ProcessConfirmed(s) ==
    /\ s \in stored /\ s.destination \in Own
    /\ valid /\ confirmed < Confirmations
    /\ confirmed' = confirmed + 1
    /\ QueueAction(Receives(s), "other")
    /\ UNCHANGED <<ledgerVars, walletVars, asked, search, refused>>

-----------------------------------------------------------------------------
(* search_action.                                                          *)

ForWallet == {s \in pendings : s.destination \in Own}
FromSource == {s \in pendings : s.source = search.source}
FirstOf(S) == CHOOSE s \in S : \A r \in S : s.number <= r.number
LastOf(S) == CHOOSE s \in S : \A r \in S : s.number >= r.number
Fetchable(s) == valid /\ s.destination \in Own

(* search_pending *)
SearchPending ==
    /\ search = Off /\ valid
    /\ search' = [search EXCEPT !.at = "run", !.due = ForWallet]
    /\ UNCHANGED <<ledgerVars, walletVars, queueVars, clientVars, refused>>

(* run: the next pending block for the wallet, and an election on the head *)
(* of the account that sent it.                                            *)
SearchRun ==
    LET found == {s \in ForWallet : s.number > search.number}
    IN /\ search.at = "run"
       /\ search' = IF found = {} THEN Off
                    ELSE [search EXCEPT !.at = "elect", !.number = FirstOf(found).number,
                                        !.source = FirstOf(found).source]
       /\ UNCHANGED <<ledgerVars, walletVars, queueVars, clientVars, refused>>

(* The election confirms, or it ends without, or there was one with that   *)
(* root already, which does not know of the search.                        *)
SearchElected ==
    /\ search.at = "elect"
    /\ search' = [search EXCEPT !.at = "scan"]
    /\ UNCHANGED <<ledgerVars, walletVars, queueVars, clientVars, refused>>

SearchForgotten ==
    /\ search.at = "elect"
    /\ search' = Off
    /\ UNCHANGED <<ledgerVars, walletVars, queueVars, clientVars, refused>>

(* Mutant: the search goes on without looking for more from the account.   *)
SearchScanOnce ==
    /\ search.at = "scan"
    /\ search' = [search EXCEPT !.at = "run"]
    /\ UNCHANGED <<ledgerVars, walletVars, queueVars, clientVars, refused>>

(* Mutant: the hash found last is not cleared, and the loop never ends.    *)
SearchScanKeepsHash ==
    /\ search.at = "scan" /\ FromSource # {} /\ Fetchable(LastOf(FromSource))
    /\ QueueAction(Receives(LastOf(FromSource)), "search")
    /\ search' = IF actions' # actions THEN [search EXCEPT !.at = "perform"] ELSE search
    /\ UNCHANGED <<ledgerVars, walletVars, clientVars, refused>>

(* A turn of the loop in receive_all: the last pending block from the      *)
(* account is received, if the key of its destination is at hand.          *)
SearchScan ==
    LET found == FromSource
    IN /\ search.at = "scan"
       /\ \/ /\ found = {}
             /\ search' = [search EXCEPT !.at = "run"]
             /\ UNCHANGED queueVars
          \/ /\ found # {}
             /\ Fetchable(LastOf(found))
             /\ QueueAction(Receives(LastOf(found)), "search")
             /\ search' = IF actions' # actions THEN [search EXCEPT !.at = "perform"] ELSE search
       /\ UNCHANGED <<ledgerVars, walletVars, clientVars, refused>>

SearchStep == SearchRun \/ SearchElected \/ SearchForgotten \/ SearchScan
ActionStep(a) == Make(a) \/ ProcessBlock(a) \/ WorkGenerate(a)

Next ==
    \/ \E a \in Own : ActionStep(a) \/ Insert(a)
    \/ \E request \in Request : Ask(request)
    \/ \E s \in Send : Arrive(s) \/ ProcessConfirmed(s)
    \/ InsertGenerates \/ EnterPassword \/ SearchPending \/ SearchStep

(* Threads that perform actions or search go on; clients, the network and  *)
(* the user need not do anything.                                          *)
Fairness ==
    /\ \A a \in Own : WF_vars(ActionStep(a))
    /\ WF_vars(SearchStep)

Spec == Init /\ [][Next]_vars /\ Fairness

-----------------------------------------------------------------------------
(* Properties.                                                             *)

(* The ledger takes every block that the wallet makes, although it is made *)
(* from what an earlier transaction has read: nothing else changes the     *)
(* account before the block is processed (queue_wallet_action).            *)
OwnBlocksAccepted == ~refused

(* Whenever nothing is being done for an account its cached work is for    *)
(* its next block, whatever inserts and actions came in between            *)
(* (work_update).                                                          *)
WorkReady == \A a \in Own : actions[a] = Free /\ inserting.key # a => work[a] = height[a]

(* A search that comes to its end has received every block that was        *)
(* pending for the wallet when it began (search_action).                   *)
SearchFindsAll ==
    [][search.at = "run" /\ search' = Off
        => search.due \cap pendings = {}]_vars

(* Nobody waits for ever: everything asked of the wallet is done in the    *)
(* end, so that send_sync and change_sync return.                          *)
EverythingDone ==
    \A request \in Request :
        request \in asked ~> (request \notin waiting[request.account]
                              /\ actions[request.account].does # request)

(* The search ends, unless the last pending block of the account that it   *)
(* receives from is for somebody else or the wallet is locked: then        *)
(* receive_all looks at the same block over and over, and although it logs *)
(* that it stops it does not.                                              *)
SearchTurnsInPlace ==
    LET found == FromSource
    IN search.at = "scan" /\ found # {} /\ ~Fetchable(LastOf(found))
SearchEnds == search # Off ~> search = Off \/ SearchTurnsInPlace
=============================================================================
