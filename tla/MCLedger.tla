------------------------------ MODULE MCLedger ------------------------------
(* A small universe of blocks for module Ledger: a genesis account g and    *)
(* accounts a and b, with rival blocks for the roots a fork can have.       *)
EXTENDS Ledger, TLC

MCAccount == {"g", "a", "b"}

send(p, to, left) == [type |-> "send", previous |-> p, destination |-> to, balance |-> left]
receive(p, from) == [type |-> "receive", previous |-> p, source |-> from]
open(from, of, rep) == [type |-> "open", source |-> from, account |-> of, representative |-> rep]
change(p, rep) == [type |-> "change", previous |-> p, representative |-> rep]

(* g sends to a, with a rival send, changes its representative and sends   *)
(* to b; a passes money on to b, which opens with one of the two sends and *)
(* receives the other.                                                     *)
MCBlock ==
    [genesis |-> open("g", "g", "g"),
     send1 |-> send("genesis", "a", 2),
     send1x |-> send("genesis", "b", 3),
     change_g |-> change("send1", "b"),
     send2 |-> send("change_g", "b", 1),
     open_a |-> open("send1", "a", "a"),
     send_a |-> send("open_a", "b", 0),
     open_b |-> open("send_a", "b", "b"),
     open_bx |-> open("send2", "b", "a"),
     receive_b |-> receive("open_b", "send2"),
     overspend |-> send("send1", "b", 3)]

MCHash == DOMAIN MCBlock

(* Chains whose representative changes: g changes after a send that a has  *)
(* not received yet, and a has a change that rivals its receive.           *)
RepBlock ==
    [genesis |-> open("g", "g", "g"),
     send1 |-> send("genesis", "a", 1),
     change_g |-> change("send1", "b"),
     open_a |-> open("send1", "a", "a"),
     send2 |-> send("change_g", "a", 0),
     receive_a |-> receive("open_a", "send2"),
     change_a |-> change("open_a", "b"),
     send_a |-> send("receive_a", "b", 1),
     open_b |-> open("send_a", "b", "b")]

RepHash == DOMAIN RepBlock
=============================================================================
