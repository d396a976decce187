----------------------------- MODULE VoteCount ------------------------------
(***************************************************************************)
(* One paper::votes object (paper/secure.cpp) that receives votes in any   *)
(* order, the same one several times included.                             *)
(***************************************************************************)
EXTENDS Votes

VARIABLES
    ballots,   \* rep_votes
    newest     \* history: the sequence number of each voter's last accepted vote

vars == <<ballots, newest>>

Init ==
    /\ ballots = [v \in Voter |-> NoVote]
    /\ newest = [v \in Voter |-> 0]

(* votes::vote *)
CastVote(v, sequence, c) ==
    /\ ballots' = Counted(ballots, v, sequence, c)
    /\ newest' = IF Changed(ballots, v, sequence, c) THEN [newest EXCEPT ![v] = sequence]
                 ELSE newest

Next == \E v \in Voter, sequence \in Sequence, c \in Candidate : CastVote(v, sequence, c)

Spec == Init /\ [][Next]_vars

(* "Only accept votes with an increasing sequence number" in votes::vote:  *)
(* a vote that is accepted is newer than those accepted before it.         *)
VotesIncrease == [][\A v \in Voter : newest'[v] >= newest[v]]_vars
=============================================================================
