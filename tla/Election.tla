------------------------------ MODULE Election ------------------------------
(***************************************************************************)
(* paper::election and paper::conflicts (paper/node.cpp): the election of  *)
(* one root, from the fork that node::process_receive sees to the timeout  *)
(* that removes it, and its effect on the ledger.                          *)
(*                                                                         *)
(* Two threads vote.  The network thread comes through conflicts::update   *)
(* and holds the mutex of conflicts during the whole call; the thread of   *)
(* the processor service comes through election::start, which does not     *)
(* take it.  A call of election::vote is two steps: the ballots are        *)
(* changed, then a write transaction counts them.  Ledger operations on    *)
(* other roots are the environment: they store and undo blocks.            *)
(***************************************************************************)
EXTENDS Votes, Sequences

CONSTANTS
    Supply,     \* ledger::supply, what genesis has given out
    Anonymous,  \* the key made up by the constructor, without weight
    Local       \* the representatives in the node's own wallets, at most one

ASSUME ElectionAssumption ==
    /\ Supply \in Nat
    /\ Anonymous \in Voter /\ Weight[Anonymous] = 0
    /\ Local \subseteq Voter \ {Anonymous} /\ Cardinality(Local) <= 1

VARIABLES
    stored,       \* the block with this root in the ledger
    ready,        \* candidates whose references are stored
    rival,        \* what process_receive found to be stored, before it starts the election
    roots,        \* does conflicts.roots hold the election?
    ballots,      \* votes.rep_votes
    last_winner,
    confirmed,
    calls,        \* the calls of election::vote in progress, by thread
    queued,       \* what the processor service has queued for the election
    aged,         \* 15 seconds have passed since the election was made
    confirmations,\* the blocks passed to confirmation_action, in order
    stopping,     \* node::stop: "no", "cleared" its roots, "stopped" the service
    failed

ledgerVars == <<stored, ready>>
electionVars == <<ballots, last_winner, confirmed>>
scheduleVars == <<queued, aged, stopping>>
vars == <<ledgerVars, rival, roots, electionVars, calls, scheduleVars, confirmations, failed>>

VoteThread == {"network", "service"}
NoCall == [changed |-> FALSE, was_confirmed |-> TRUE, winner |-> NoBlock]
Call == [changed : BOOLEAN, was_confirmed : BOOLEAN, winner : Candidate \cup {NoBlock}]

Running == failed = "none"
Unlocked == calls["network"] = NoCall     \* the mutex of conflicts is free

Init ==
    /\ stored \in Candidate
    /\ ready = {stored}
    /\ rival = NoBlock
    /\ roots = FALSE
    /\ ballots = [v \in Voter |-> NoVote]
    /\ last_winner = NoBlock
    /\ confirmed = FALSE
    /\ calls = [t \in VoteThread |-> NoCall]
    /\ queued = {}
    /\ aged = FALSE
    /\ confirmations = <<>>
    /\ stopping = "no"
    /\ failed = "none"

-----------------------------------------------------------------------------
(* The ledger, as other roots change it.                                   *)

(* The references of a candidate arrive.                                   *)
Arrive(c) ==
    /\ Running /\ c \notin ready
    /\ ready' = ready \cup {c}
    /\ UNCHANGED <<stored, rival, roots, electionVars, calls, scheduleVars, confirmations, failed>>

(* A candidate is processed while no other is stored.                      *)
Publish(c) ==
    /\ Running /\ stored = NoBlock /\ c \in ready
    /\ stored' = c
    /\ UNCHANGED <<ready, rival, roots, electionVars, calls, scheduleVars, confirmations, failed>>

(* A rollback on another root reaches this one.                            *)
Undo(c) ==
    /\ Running /\ c \in ready
    /\ ready' = ready \ {c}
    /\ stored' = IF stored = c THEN NoBlock ELSE stored
    /\ UNCHANGED <<rival, roots, electionVars, calls, scheduleVars, confirmations, failed>>

-----------------------------------------------------------------------------
(* node::process_receive, verdict fork: a read transaction finds the block *)
(* that is stored, then conflicts::start makes the election.  While there  *)
(* is an election conflicts::start does nothing; the model follows the     *)
(* first.                                                                  *)

FindRival ==
    /\ Running /\ stored # NoBlock /\ rival = NoBlock /\ last_winner = NoBlock
    /\ rival' = stored
    /\ UNCHANGED <<ledgerVars, roots, electionVars, calls, scheduleVars, confirmations, failed>>

(* The vote of the constructor is the only one and has no weight, so it    *)
(* neither changes the winner nor confirms it.                             *)
StartNew ==
    /\ Running /\ Unlocked /\ rival # NoBlock /\ ~roots
    /\ stopping # "stopped" /\ last_winner = NoBlock
    /\ stored = rival
    /\ roots' = TRUE
    /\ ballots' = [ballots EXCEPT ![Anonymous] = [sequence |-> 0, block |-> rival]]
    /\ last_winner' = rival
    /\ queued' = {"start"}
    /\ rival' = NoBlock
    /\ UNCHANGED <<ledgerVars, confirmed, calls, aged, stopping, confirmations, failed>>

(* assert (block_exists (block_a.hash ())) in the constructor.             *)
StartAsserts ==
    /\ Running /\ Unlocked /\ rival # NoBlock /\ ~roots
    /\ stopping # "stopped" /\ last_winner = NoBlock
    /\ stored # rival
    /\ failed' = "block_exists"
    /\ UNCHANGED <<ledgerVars, rival, roots, electionVars, calls, scheduleVars, confirmations>>

-----------------------------------------------------------------------------
(* election::vote.                                                         *)

BeginVote(t, v, sequence, c) ==
    /\ ballots' = Counted(ballots, v, sequence, c)
    /\ calls' = [calls EXCEPT ![t] =
          [changed |-> Changed(ballots, v, sequence, c), was_confirmed |-> confirmed,
           winner |-> NoBlock]]

(* conflicts::update *)
Update(v, sequence, c) ==
    /\ Running /\ Unlocked /\ roots /\ v # Anonymous
    /\ BeginVote("network", v, sequence, c)
    /\ UNCHANGED <<ledgerVars, rival, roots, last_winner, confirmed, scheduleVars, confirmations, failed>>

(* election::start: representative_vote votes for last_winner, without the *)
(* mutex; announce_vote only sends.                                        *)
Start ==
    /\ Running /\ "start" \in queued
    /\ IF Local = {} THEN UNCHANGED <<ballots, calls>>
       ELSE \E v \in Local : BeginVote("service", v, 0, last_winner)
    /\ queued' = (queued \ {"start"}) \cup {"schedule"}
    /\ UNCHANGED <<ledgerVars, rival, roots, last_winner, confirmed, aged, stopping, confirmations, failed>>

(* The thresholds are in integer arithmetic.                               *)
UncontestedThreshold == Supply \div 2
ContestedThreshold == (Supply \div 16) * 15

Enough(votes, c) ==
    IF Cardinality(TallyTotals(votes)) = 1
    THEN TallyOf(votes, c) > UncontestedThreshold
    ELSE TallyOf(votes, c) > ContestedThreshold

(* Mutant: a confirmed election goes on counting.                          *)
CountingForever(t) == calls[t].changed /\ calls[t].winner = NoBlock

(* The call will count the ballots and has not done so.                    *)
Counting(t) == calls[t].changed /\ ~calls[t].was_confirmed /\ calls[t].winner = NoBlock

FoundWinner(t, winner) == calls' = [calls EXCEPT ![t].winner = winner]

(* Mutant: the new winner is not remembered.                               *)
CountVotesForgets(t, winner) ==
    /\ Running /\ Counting(t)
    /\ Leads(ballots, winner)
    /\ winner # last_winner => stored = last_winner
    /\ stored' = IF winner \in ready THEN winner ELSE NoBlock
    /\ confirmed' = (confirmed \/ Enough(ballots, winner))
    /\ FoundWinner(t, winner)
    /\ UNCHANGED <<ready, rival, roots, ballots, last_winner, scheduleVars, confirmations, failed>>

(* The transaction: the ballots are counted; a new winner replaces the old *)
(* one in the ledger, where process may refuse it.                         *)
CountVotes(t, winner) ==
    /\ Running /\ Counting(t)
    /\ Leads(ballots, winner)
    /\ winner # last_winner => stored = last_winner
    /\ stored' = IF winner = last_winner THEN stored
                 ELSE IF winner \in ready THEN winner ELSE NoBlock
    /\ last_winner' = winner
    /\ confirmed' = (confirmed \/ Enough(ballots, winner))
    /\ FoundWinner(t, winner)
    /\ UNCHANGED <<ready, rival, roots, ballots, scheduleVars, confirmations, failed>>

(* ledger::rollback on a winner that is not stored: assert (block != nullptr) *)
(* in account_visitor.                                                     *)
CountVotesAsserts(t, winner) ==
    /\ Running /\ Counting(t)
    /\ Leads(ballots, winner)
    /\ winner # last_winner /\ stored # last_winner
    /\ failed' = "rollback"
    /\ UNCHANGED <<ledgerVars, rival, roots, electionVars, calls, scheduleVars, confirmations>>

(* The end of the call, which queues confirmation_action on the winner it  *)
(* found if the election was not confirmed when it began and is now.  A    *)
(* call that did not count has no winner.                                  *)
EndVote(t) ==
    /\ Running /\ calls[t] # NoCall /\ ~Counting(t)
    /\ confirmations' = IF ~calls[t].was_confirmed /\ confirmed
                        THEN Append(confirmations, calls[t].winner) ELSE confirmations
    /\ calls' = [calls EXCEPT ![t] = NoCall]
    /\ UNCHANGED <<ledgerVars, rival, roots, electionVars, scheduleVars, failed>>

-----------------------------------------------------------------------------
(* The end of an election.                                                 *)

Tick ==
    /\ Running /\ last_winner # NoBlock /\ ~aged
    /\ aged' = TRUE
    /\ UNCHANGED <<ledgerVars, rival, roots, electionVars, calls, queued, stopping, confirmations, failed>>

(* timeout_action, called by start once representative_vote returned.  A   *)
(* stopped service ignores what is added to it.                            *)
Schedule ==
    /\ Running /\ "schedule" \in queued /\ calls["service"] = NoCall /\ ~aged
    /\ queued' = IF stopping = "stopped" THEN {} ELSE {"timeout"}
    /\ UNCHANGED <<ledgerVars, rival, roots, electionVars, calls, aged, stopping, confirmations, failed>>

(* timeout_action after 15 seconds calls conflicts::stop, which asserts    *)
(* that it finds the root.                                                 *)
Expired(operation) == operation \in queued /\ calls["service"] = NoCall /\ aged

(* Mutant: the root stays.                                                 *)
TimeoutKeepsRoot(operation) ==
    /\ Running /\ Unlocked /\ Expired(operation)
    /\ queued' = queued \ {operation}
    /\ failed' = IF roots THEN "none" ELSE "stop"
    /\ UNCHANGED <<ledgerVars, rival, roots, electionVars, calls, aged, stopping, confirmations>>

Timeout(operation) ==
    /\ Running /\ Unlocked /\ Expired(operation)
    /\ queued' = queued \ {operation}
    /\ roots' = FALSE
    /\ failed' = IF roots THEN "none" ELSE "stop"
    /\ UNCHANGED <<ledgerVars, rival, electionVars, calls, aged, stopping, confirmations>>

(* node::stop clears the roots without the mutex, and stops the service    *)
(* later.                                                                  *)
NodeStop ==
    /\ Running /\ stopping = "no"
    /\ stopping' = "cleared"
    /\ roots' = FALSE
    /\ UNCHANGED <<ledgerVars, rival, electionVars, calls, queued, aged, confirmations, failed>>

ServiceStop ==
    /\ Running /\ stopping = "cleared"
    /\ stopping' = "stopped"
    /\ queued' = queued \cap {"schedule"}     \* runs already
    /\ UNCHANGED <<ledgerVars, rival, roots, electionVars, calls, aged, confirmations, failed>>

Next ==
    \/ \E c \in Candidate : Arrive(c) \/ Publish(c) \/ Undo(c)
    \/ FindRival \/ StartNew \/ StartAsserts
    \/ \E v \in Voter, sequence \in Sequence, c \in Candidate : Update(v, sequence, c)
    \/ Start
    \/ \E t \in VoteThread : EndVote(t) \/ \E c \in Candidate : CountVotes(t, c) \/ CountVotesAsserts(t, c)
    \/ Tick \/ Schedule
    \/ \E operation \in {"schedule", "timeout"} : Timeout(operation)
    \/ NodeStop \/ ServiceStop

(* Time passes, the service runs what it queued, and a call that holds the *)
(* mutex ends.  The mutex goes to the timeout some time although votes     *)
(* keep coming, hence the strong fairness.                                 *)
Fairness ==
    /\ WF_vars(Tick) /\ WF_vars(Start) /\ WF_vars(Schedule)
    /\ SF_vars(\E operation \in {"schedule", "timeout"} : Timeout(operation))
    /\ \A t \in VoteThread : WF_vars(EndVote(t) \/ \E c \in Candidate : CountVotes(t, c) \/ CountVotesAsserts(t, c))

Spec == Init /\ [][Next]_vars /\ Fairness

-----------------------------------------------------------------------------
(* Properties.                                                             *)

(* The state is well formed: only a block whose references are stored is   *)
(* stored (ledger::process), and an election has at most one operation     *)
(* queued in the service (election::start, timeout_action).                *)
TypeOK ==
    /\ stored \in Candidate \cup {NoBlock} /\ rival \in Candidate \cup {NoBlock}
    /\ last_winner \in Candidate \cup {NoBlock}
    /\ ready \subseteq Candidate /\ (stored # NoBlock => stored \in ready)
    /\ roots \in BOOLEAN /\ confirmed \in BOOLEAN /\ aged \in BOOLEAN
    /\ ballots \in Ballots
    /\ calls \in [VoteThread -> Call]
    /\ queued \subseteq {"start", "schedule", "timeout"} /\ Cardinality(queued) <= 1
    /\ confirmations \in Seq(Candidate \cup {NoBlock}) /\ Len(confirmations) <= 2
    /\ stopping \in {"no", "cleared", "stopped"}
    /\ failed \in {"none", "block_exists", "rollback", "stop"}

(* Whenever no vote is being counted and the election is open, last_winner *)
(* is a block that no other has more weight than, whichever threads voted  *)
(* in which order (election::vote, ledger::tally).                         *)
WinnerLeads ==
    last_winner # NoBlock /\ ~confirmed /\ (\A t \in VoteThread : calls[t] = NoCall)
        => Leads(ballots, last_winner)

(* A confirmation is final: confirmation_action is queued once, for the    *)
(* winner, and election::vote does not replace that winner any more.       *)
(* Holds for a node without a representative of its own.                   *)
ConfirmedOnce ==
    /\ Len(confirmations) <= 1
    /\ confirmations # <<>> => confirmed /\ confirmations[1] = last_winner
    /\ confirmed /\ Unlocked => confirmations # <<>>

(* Every election ends: timeout_action takes it out of conflicts.roots,    *)
(* unless an assertion stops the process or the node is being stopped.     *)
ElectionEnds == roots ~> (~roots \/ ~Running \/ stopping # "no")

-----------------------------------------------------------------------------
(* What assertions say and the code does not do.                           *)

(* assert (block != nullptr): rollback is called on a stored block.        *)
WinnerStored == failed # "rollback"

(* assert (node_a->store.block_exists (transaction, block_a.hash ()))      *)
RivalStored == failed # "block_exists"

(* assert (roots.find (root_a) != roots.end ())                            *)
StopFindsRoot == failed # "stop"
=============================================================================
