----------------------------- MODULE MCGapCache -----------------------------
(* A transfer to a, its opening, a second transfer that a receives, and     *)
(* what a passes on, delivered in any order.                                *)
EXTENDS GapCache, TLC

MCBlock ==
    [genesis |-> [type |-> "open", source |-> "g", account |-> "g", representative |-> "g"],
     send1 |-> [type |-> "send", previous |-> "genesis", destination |-> "a", balance |-> 1],
     send2 |-> [type |-> "send", previous |-> "send1", destination |-> "a", balance |-> 0],
     open_a |-> [type |-> "open", source |-> "send1", account |-> "a", representative |-> "a"],
     receive_a |-> [type |-> "receive", previous |-> "open_a", source |-> "send2"],
     change_a |-> [type |-> "change", previous |-> "receive_a", representative |-> "g"]]

MCHash == DOMAIN MCBlock

(* None of the blocks is refused for another reason than a gap.            *)
ASSUME RivalsAssumption == WithoutRivals

(* A thread of the network, and one that also serves a bulk pull.           *)
MCCallers == "network" :> {"republish"} @@ "pull" :> {"republish", "pull"}
=============================================================================
