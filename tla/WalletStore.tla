----------------------------- MODULE WalletStore -----------------------------
(***************************************************************************)
(* paper::wallet_store (paper/node.cpp): private keys encrypted with the   *)
(* key of the wallet, which is itself encrypted with the password and      *)
(* never changes.  The password is only in memory.                         *)
(*                                                                         *)
(* Encryption is the xor with a stream that depends on the key (AES in     *)
(* counter mode).  So a wallet key that is encrypted with the password p   *)
(* and decrypted with q is off by the streams of p and q, which is written *)
(* {p, q}, and is right, written {}, when p = q.  Different texts derive   *)
(* different passwords, none of them zero.  What a transaction writes is   *)
(* there at once: a stop before the commit is Restart without the action,  *)
(* and so is a stop at an assertion of move.                               *)
(***************************************************************************)
CONSTANTS
    Wallet,     \* wallets::items
    Key,        \* private keys
    Text,       \* passwords that somebody may enter
    Empty,      \* the empty one
    Zero,       \* the password of a new wallet, which no text derives
    NoEntry

VARIABLES
    made,       \* wallets that exist
    lock,       \* the password with which the wallet key is encrypted
    entry,      \* by what the key that encrypted an entry was off, or NoEntry
    password,   \* wallet_store::password
    initial,    \* wallets whose enter_initial_password is left to the service
    backup,     \* the text that serialize_json gave last: a lock and entries
    entrusted   \* history: the keys that can be counted on

disk == <<made, lock, entry>>
vars == <<disk, password, initial, backup, entrusted>>

Off(p, q) == IF p = q THEN {} ELSE {p, q}

(* wallet_key, valid_password and fetch.                                   *)
WalletKey(w) == Off(lock[w], password[w])
Valid(w) == WalletKey(w) = {}
Fetches(w, k) == entry[w][k] = WalletKey(w)

(* Some text opens the wallet: it has been given its first password.       *)
Opens(w) == lock[w] # Zero

Without == [k \in Key |-> NoEntry]
NoBackup == [lock |-> Zero, entry |-> Without]

Init ==
    /\ made = {} /\ lock = [w \in Wallet |-> Zero]
    /\ entry = [w \in Wallet |-> Without]
    /\ password = [w \in Wallet |-> Zero]
    /\ initial = {}
    /\ backup = NoBackup
    /\ entrusted = {}

(* wallets::create *)
Create(w) ==
    /\ w \notin made
    /\ made' = made \cup {w}
    /\ lock' = [lock EXCEPT ![w] = Zero]
    /\ password' = [password EXCEPT ![w] = Zero]
    /\ initial' = initial \cup {w}
    /\ UNCHANGED <<entry, backup, entrusted>>

(* enter_initial_password, by the service.                                 *)
EnterInitialPassword(w) ==
    /\ w \in initial
    /\ initial' = initial \ {w}
    /\ \/ /\ password[w] = Zero
          /\ password' = [password EXCEPT ![w] = Empty]
          /\ lock' = IF Valid(w) THEN [lock EXCEPT ![w] = Empty] ELSE lock
       \/ password[w] # Zero /\ UNCHANGED <<password, lock>>
    /\ UNCHANGED <<made, entry, backup, entrusted>>

EnterPassword(w, text) ==
    /\ w \in made
    /\ password' = [password EXCEPT ![w] = text]
    /\ UNCHANGED <<disk, initial, backup, entrusted>>

(* rekey: the wallet key is encrypted anew, the entries are not.           *)
Rekey(w, text) ==
    /\ w \in made /\ Valid(w)
    /\ password' = [password EXCEPT ![w] = text]
    /\ lock' = [lock EXCEPT ![w] = text]
    /\ UNCHANGED <<made, entry, initial, backup, entrusted>>

(* insert, by account_create and wallet_add of the RPC and by the wallet   *)
(* program: none of them looks whether the wallet is locked.  A key that   *)
(* is put in a locked wallet is no longer counted on, and one that is put  *)
(* in a wallet without a password is not yet.                              *)
Insert(w, k) ==
    /\ w \in made
    /\ entry' = [entry EXCEPT ![w][k] = WalletKey(w)]
    /\ entrusted' = IF ~Valid(w) THEN entrusted \ {k}
                    ELSE IF Opens(w) THEN entrusted \cup {k} ELSE entrusted
    /\ UNCHANGED <<made, lock, password, initial, backup>>

(* move: keys are inserted here and then erased there, one after the       *)
(* other, up to the first that cannot be fetched.  Nothing keeps           *)
(* account_move from naming one wallet twice: then they are just erased.   *)
Move(w, from, keys) ==
    /\ w \in made /\ from \in made
    /\ Valid(w) /\ Valid(from)
    /\ \A k \in keys : Fetches(from, k)
    /\ entry' = [v \in Wallet |-> [k \in Key |->
                    IF k \in keys /\ v = from THEN NoEntry
                    ELSE IF k \in keys /\ v = w THEN {}
                    ELSE entry[v][k]]]
    /\ entrusted' = IF w # from /\ Opens(w) THEN entrusted \cup keys ELSE entrusted \ keys
    /\ UNCHANGED <<made, lock, password, initial, backup>>

(* serialize_json and write_backup.                                        *)
Serialize(w) ==
    /\ w \in made
    /\ backup' = [lock |-> lock[w], entry |-> entry[w]]
    /\ UNCHANGED <<disk, password, initial, entrusted>>

(* wallet::import: the backup is opened with the password it had then.     *)
(* All its keys are taken, or, when one cannot be fetched, those before it.*)
Import(w, text, keys) ==
    /\ w \in made /\ Valid(w)
    /\ text = backup.lock
    /\ \A k \in keys : backup.entry[k] = {}
    /\ \/ keys = {k \in Key : backup.entry[k] # NoEntry}
       \/ \E k \in Key : backup.entry[k] \notin {NoEntry, {}}
    /\ entry' = [v \in Wallet |-> [k \in Key |->
                    IF k \in keys /\ v = w THEN {} ELSE entry[v][k]]]
    /\ entrusted' = IF Opens(w) THEN entrusted \cup keys ELSE entrusted
    /\ UNCHANGED <<made, lock, password, initial, backup>>

(* wallets::destroy, after which the keys of the wallet are given up.      *)
Destroy(w) ==
    /\ w \in made
    /\ made' = made \ {w}
    /\ entry' = [entry EXCEPT ![w] = Without]
    /\ initial' = initial \ {w}
    /\ entrusted' = entrusted \ {k \in Key : entry[w][k] # NoEntry}
    /\ UNCHANGED <<lock, password, backup>>

(* The node is restarted: the wallets are opened with the empty password.  *)
Restart ==
    /\ password' = [w \in Wallet |-> Empty]
    /\ initial' = made
    /\ UNCHANGED <<disk, backup, entrusted>>

Next ==
    \/ \E w \in Wallet : Create(w) \/ EnterInitialPassword(w) \/ Serialize(w) \/ Destroy(w)
    \/ \E w \in Wallet, text \in Text : EnterPassword(w, text) \/ Rekey(w, text)
    \/ \E w \in Wallet, k \in Key : Insert(w, k)
    \/ \E w, from \in Wallet, keys \in SUBSET Key : Move(w, from, keys)
    \/ \E w \in Wallet, text \in Text, keys \in SUBSET Key : Import(w, text, keys)
    \/ Restart

Spec == Init /\ [][Next]_vars

(* What an entry may be.                                                   *)
Entry == {NoEntry} \cup (SUBSET (Text \cup {Zero}))

(* The types of the variables.                                             *)
TypeOK ==
    /\ made \subseteq Wallet /\ initial \subseteq Wallet /\ entrusted \subseteq Key
    /\ lock \in [Wallet -> Text \cup {Zero}]
    /\ password \in [Wallet -> Text \cup {Zero}]
    /\ entry \in [Wallet -> [Key -> Entry]]

(* A key that was put in an unlocked wallet with a password is in some     *)
(* wallet which a password opens, encrypted with the right wallet key,     *)
(* whatever passwords are changed or mistyped, keys moved, imported or     *)
(* overwritten, and whenever the node is restarted (wallet_store::insert,  *)
(* rekey, move, import).  Given up are the keys that were put in a locked  *)
(* wallet, moved to their own wallet or to one without a password, or      *)
(* destroyed with their wallet.                                            *)
KeysKept == \A k \in entrusted : \E w \in made : entry[w][k] = {} /\ Opens(w)
=============================================================================
