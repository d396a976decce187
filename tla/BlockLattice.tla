---------------------------- MODULE BlockLattice ----------------------------
(***************************************************************************)
(* The blocks of paper/secure.hpp and the visitors of paper/secure.cpp     *)
(* that compute a property of a block by walking its ancestors.            *)
(*                                                                         *)
(* A block never changes once it is hashed, so the blocks that may ever    *)
(* arrive are a constant function from hashes to contents.  A node's store *)
(* is a set of those hashes.  The signature is not part of the hash; it is *)
(* a parameter of ledger::process in module Ledger.                        *)
(***************************************************************************)
EXTENDS Integers, FiniteSets

CONSTANTS
    Account,         \* account numbers (public keys), never zero
    Hash,            \* hashes of the blocks that may be published
    Block,           \* Block[h] is the content of the block whose hash is h
    NoHash,          \* the zero block_hash
    NoAccount,       \* the zero account
    GenesisAccount,  \* paper::genesis_account
    GenesisHash,     \* hash of the genesis open block
    GenesisAmount    \* paper::genesis_amount; all money there is

Amount == 0..GenesisAmount

SendBlock == [type : {"send"}, previous : Hash, destination : Account, balance : Amount]
ReceiveBlock == [type : {"receive"}, previous : Hash, source : Hash]
OpenBlock == [type : {"open"}, source : Hash \cup {GenesisAccount},
              account : Account, representative : Account]
ChangeBlock == [type : {"change"}, previous : Hash, representative : Account]

IsSend(h) == Block[h].type = "send"
IsReceive(h) == Block[h].type = "receive"
IsOpen(h) == Block[h].type = "open"
IsChange(h) == Block[h].type = "change"

(* Blocks that name a source send; blocks that name a representative.      *)
Receives(h) == IsReceive(h) \/ IsOpen(h)
Represents(h) == IsOpen(h) \/ IsChange(h)

(* block::root: what two blocks that exclude each other have in common.    *)
Root(h) == IF IsOpen(h) THEN Block[h].account ELSE Block[h].previous

(***************************************************************************)
(* The walks.  Each is the loop of one visitor, unrolled as a recursive    *)
(* function on hashes, and then the table of its values.  The code asserts *)
(* that every block it meets on the way is stored, which property Closed   *)
(* of module Ledger establishes.                                           *)
(***************************************************************************)

(* account_visitor *)
AccountOf ==
    LET account[h \in Hash] ==
            CASE IsSend(h) \/ IsChange(h) -> account[Block[h].previous]
              [] IsOpen(h) -> Block[h].account
              [] IsReceive(h) -> IF IsSend(Block[h].source)
                                 THEN Block[Block[h].source].destination
                                 ELSE NoAccount
    IN [h \in Hash |-> account[h]]

(* balance_visitor, with the amount_visitor it calls on a source.  The     *)
(* source of the genesis block is genesis_account, which is no block, and  *)
(* stands for the whole supply.                                            *)
BalanceOf ==
    LET balance[h \in Hash] ==
            LET amount(s) == IF s = GenesisAccount THEN GenesisAmount
                             ELSE IF IsSend(s)
                             THEN balance[Block[s].previous] - Block[s].balance
                             ELSE 0
            IN CASE IsSend(h) -> Block[h].balance
                 [] IsChange(h) -> balance[Block[h].previous]
                 [] IsReceive(h) -> balance[Block[h].previous] + amount(Block[h].source)
                 [] IsOpen(h) -> amount(Block[h].source)
    IN [h \in Hash |-> balance[h]]

(* amount_visitor on a send block *)
AmountOf(s) == BalanceOf[Block[s].previous] - Block[s].balance

(* representative_visitor: the open or change block that last named the    *)
(* representative of the chain up to h.                                    *)
RepBlockOf ==
    LET block[h \in Hash] == IF Represents(h) THEN h ELSE block[Block[h].previous]
    IN [h \in Hash |-> block[h]]

(* The number of blocks before h in its chain; no code computes it, the    *)
(* proofs order a chain by it.                                             *)
Height ==
    LET height[h \in Hash] == IF IsOpen(h) THEN 0 ELSE height[Block[h].previous] + 1
    IN [h \in Hash |-> height[h]]

(* A number above those of all the blocks that h refers to, which orders   *)
(* the chains of several accounts.                                         *)
Depth ==
    LET depth[h \in Hash] ==
            LET before == IF IsOpen(h) THEN 0 ELSE depth[Block[h].previous]
                sent == IF Receives(h) /\ h # GenesisHash THEN depth[Block[h].source] ELSE 0
            IN before + sent + 1
    IN [h \in Hash |-> depth[h]]

(***************************************************************************)
(* Assumptions on the constants.                                           *)
(***************************************************************************)

ASSUME FiniteUniverse == IsFiniteSet(Account) /\ IsFiniteSet(Hash)

(* Zero is neither a hash nor an account, and no number is both.           *)
ASSUME Numbers ==
    /\ NoHash \notin Hash /\ NoAccount \notin Account
    /\ Account \cap Hash = {}

ASSUME BlockType ==
    /\ DOMAIN Block = Hash
    /\ \A h \in Hash : Block[h] \in SendBlock \cup ReceiveBlock \cup OpenBlock \cup ChangeBlock

ASSUME GenesisBlock ==
    /\ GenesisAmount \in Nat
    /\ GenesisAccount \in Account
    /\ GenesisHash \in Hash
    /\ Block[GenesisHash] = [type |-> "open", source |-> GenesisAccount,
                             account |-> GenesisAccount, representative |-> GenesisAccount]
    /\ \A h \in Hash : IsOpen(h) /\ Block[h].source = GenesisAccount => h = GenesisHash

(* A hash commits to the content it names, so references never form a      *)
(* cycle and the walks above end: each satisfies its own equation.         *)
ASSUME WalksUnfold ==
    \A h \in Hash :
        /\ AccountOf[h] \in Account \cup {NoAccount}
        /\ IsSend(h) \/ IsChange(h) => AccountOf[h] = AccountOf[Block[h].previous]
        /\ IsOpen(h) => AccountOf[h] = Block[h].account
        /\ IsReceive(h) /\ IsSend(Block[h].source)
              => AccountOf[h] = Block[Block[h].source].destination
        /\ BalanceOf[h] \in Int
        /\ IsSend(h) => BalanceOf[h] = Block[h].balance
        /\ IsChange(h) => BalanceOf[h] = BalanceOf[Block[h].previous]
        /\ IsReceive(h) /\ IsSend(Block[h].source)
              => BalanceOf[h] = BalanceOf[Block[h].previous] + AmountOf(Block[h].source)
        /\ IsOpen(h) /\ h # GenesisHash /\ IsSend(Block[h].source)
              => BalanceOf[h] = AmountOf(Block[h].source)
        /\ BalanceOf[GenesisHash] = GenesisAmount
        /\ RepBlockOf[h] \in Hash /\ Represents(RepBlockOf[h])
        /\ Represents(h) => RepBlockOf[h] = h
        /\ ~Represents(h) => RepBlockOf[h] = RepBlockOf[Block[h].previous]
        /\ Height[h] \in Nat
        /\ IsOpen(h) => Height[h] = 0
        /\ ~IsOpen(h) => Height[h] = Height[Block[h].previous] + 1

ASSUME DepthUnfolds ==
    \A h \in Hash :
        /\ Depth[h] \in Nat
        /\ ~IsOpen(h) => Depth[Block[h].previous] < Depth[h]
        /\ Receives(h) /\ h # GenesisHash => Depth[Block[h].source] < Depth[h]
=============================================================================
