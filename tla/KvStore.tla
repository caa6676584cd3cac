------------------------------ MODULE KvStore ------------------------------
(***************************************************************************)
(* The key-value store of src/kv_store.c, a thin layer over RocksDB.  Each *)
(* operation is atomic and may fail: the store then stays as it is, and    *)
(* the caller of a lookup cannot tell a failure from a missing key.  An    *)
(* operation on a store that could not be opened ends the process.         *)
(***************************************************************************)
EXTENDS Naturals

CONSTANTS
    Key,
    Val    \* the values that clients set

VARIABLES
    kv,     \* what the store has for each key
    gone    \* what ended the process, or "no"

store == <<kv, gone>>

Missing == "missing"
Closed == "closed"

KvOpen == \A k \in Key : kv[k] # Closed

(* kv_store_init: an empty store, or none when RocksDB fails, which main   *)
(* does not look at.                                                       *)
KvInit ==
    /\ gone = "no"
    /\ \E c \in {Missing, Closed} : kv = [k \in Key |-> c]

(* What a lookup returns, ok being whether RocksDB succeeds.               *)
kv_store_get(k, ok) == IF ok THEN kv[k] ELSE Missing

kv_store_set(k, v, ok) == KvOpen /\ kv' = IF ok THEN [kv EXCEPT ![k] = v] ELSE kv

kv_store_delete(k, ok) == KvOpen /\ kv' = IF ok THEN [kv EXCEPT ![k] = Missing] ELSE kv

KvTypeOK ==
    /\ kv \in [Key -> Val \cup {Missing, Closed}]
    /\ gone \in {"no", "ring", "reply", "store"}
=============================================================================
