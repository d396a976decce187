---------------------------- MODULE MCBootstrap ----------------------------
(* Account 2 is the genesis account; it sends to 1 and to 3, and 1 sends   *)
(* to 3, which receives both.  The second block of account 1 has a rival.  *)
EXTENDS Bootstrap

block(a, p, s) == [account |-> a, previous |-> p, source |-> s]

MCChain ==
    [genesis |-> block(2, "none", "none"),
     send1 |-> block(2, "genesis", "none"), send3 |-> block(2, "send1", "none"),
     open1 |-> block(1, "none", "send1"),
     pay3 |-> block(1, "open1", "none"), change1 |-> block(1, "open1", "none"),
     open3 |-> block(3, "none", "pay3"), receive3 |-> block(3, "open3", "send3")]
MCGenesis == {"genesis"}
=============================================================================
