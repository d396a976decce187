----------------------------- MODULE MCWorkPool -----------------------------
EXTENDS WorkPool

(* Wallet actions ask for the work of different accounts' roots.           *)
DisjointRoots == [c \in Caller |-> IF c = "c1" THEN {"r1"} ELSE {"r2", "r3"}]
(* Two callers ask for the work of one root.                               *)
SharedRoots == [c \in Caller |-> {"r1"}]
=============================================================================
