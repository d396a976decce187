----------------------------- MODULE MCElection -----------------------------
(* Small elections: two candidates, a made-up voter and two representatives *)
(* whose weights reach the thresholds alone or together.                    *)
EXTENDS Election, TLC

CONSTANTS anonymous, r1, r2

MCVoter == {anonymous, r1, r2}
MCWeight == anonymous :> 0 @@ r1 :> 9 @@ r2 :> 7
=============================================================================
