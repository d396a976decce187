---------------------------- MODULE MCVoteCount -----------------------------
(* Two voters, two blocks and three rounds of votes.                        *)
EXTENDS VoteCount, TLC

CONSTANTS r1, r2

MCWeight == r1 :> 1 @@ r2 :> 1
=============================================================================
