---------------------------- MODULE MCStoreUsers ----------------------------
(* An instance of StoreUsers for TLC.                                      *)
EXTENDS StoreUsers

CONSTANTS k1, k2, v1

(* Two GETs of the key that is written and one of a key that is not.       *)
GetKeys == <<k1, k2, k1>>

Set1 == [type |-> "CMD_SET", key |-> k1]
Delete1 == [type |-> "CMD_DELETE", key |-> k1]

(* A no-op, and a batch of two commands.                                   *)
Entries == {[type |-> "NOOP", cmds |-> << >>], [type |-> "COMMAND", cmds |-> <<Set1, Delete1>>]}

Writes == {[type |-> "CMD_SET", key |-> k1, val |-> v1]}
=============================================================================
