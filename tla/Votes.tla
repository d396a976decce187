------------------------------- MODULE Votes --------------------------------
(***************************************************************************)
(* paper::votes and ledger::tally (paper/secure.cpp): the last vote of     *)
(* every representative on the blocks of one root, and which block leads.  *)
(* Elections and the gap cache both count votes this way.                  *)
(*                                                                         *)
(* A value of Ballots maps a voter to its vote.  Signatures are checked    *)
(* before a vote is looked at and are left out: a voter's votes are its    *)
(* own.                                                                    *)
(***************************************************************************)
EXTENDS Integers, FiniteSets, Totals

CONSTANTS
    Voter,        \* accounts that vote; any account may, with or without weight
    Candidate,    \* blocks that have the root in common
    NoBlock,      \* no candidate
    Weight,       \* ledger::weight, the amount a voter represents
    MaxSequence   \* bound on the sequence numbers of votes

ASSUME VotesAssumption ==
    /\ IsFiniteSet(Voter) /\ IsFiniteSet(Candidate) /\ NoBlock \notin Candidate
    /\ Weight \in [Voter -> Nat]
    /\ MaxSequence \in Nat

Sequence == 0..MaxSequence

NoVote == [sequence |-> 0, block |-> NoBlock]
Vote == [sequence : Sequence, block : Candidate] \cup {NoVote}
Ballots == [Voter -> Vote]

HasVoted(ballots, v) == ballots[v] # NoVote
VotesFor(ballots, v, c) == ballots[v].block = c

(* votes::vote: does the vote change what the voter votes for?  Only a     *)
(* sequence number above the stored one is considered.                     *)
Changed(ballots, v, sequence, c) ==
    \/ ~HasVoted(ballots, v)
    \/ ballots[v].sequence < sequence /\ ~VotesFor(ballots, v, c)

(* The entry afterwards: a changed vote replaces the block and leaves the  *)
(* sequence number of the first vote in place.                             *)
Counted(ballots, v, sequence, c) ==
    IF ~HasVoted(ballots, v) THEN [ballots EXCEPT ![v] = [sequence |-> sequence, block |-> c]]
    ELSE IF Changed(ballots, v, sequence, c) THEN [ballots EXCEPT ![v].block = c]
    ELSE ballots

VotedFor(ballots) == {c \in Candidate : \E v \in Voter : VotesFor(ballots, v, c)}

(* The weight behind one block.                                            *)
TallyOf(ballots, c) ==
    Total([v \in {v \in Voter : VotesFor(ballots, v, c)} |-> Weight[v]])

(* ledger::tally maps totals to blocks, so of the blocks with one total it *)
(* keeps one, and which one depends on the order of a hash table.          *)
TallyTotals(ballots) == {TallyOf(ballots, c) : c \in VotedFor(ballots)}

Leads(ballots, c) ==
    /\ c \in VotedFor(ballots)
    /\ \A t \in TallyTotals(ballots) : t <= TallyOf(ballots, c)
=============================================================================
