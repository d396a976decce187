------------------------------ MODULE MCWallet ------------------------------
(* A wallet with the account a.  The accounts c and g send to it, and a    *)
(* client asks it to send to c and to change its representative.           *)
EXTENDS Wallet

send(from, to, n) == [source |-> from, destination |-> to, amount |-> 1, number |-> n]

MCSend == {send("c", "a", 1), send("g", "a", 2), send("a", "c", 4)}
MCChange == {[account |-> "a", representative |-> "c"]}
MCNoRequest == [kind |-> "none"]
=============================================================================
