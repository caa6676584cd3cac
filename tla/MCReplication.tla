---------------------------- MODULE MCReplication ----------------------------
(* Instances of Replication for TLC.                                       *)
EXTENDS Replication, TLC

CONSTANTS n1, n2, n3

Tai(t, i) == [term |-> t, idx |-> i]

(* All nodes in term 1 ...                                                 *)
AllTerm1 == [i \in Node |-> 1]
(* ... with the same last entry, of that term ...                          *)
SameLast == [i \in Node |-> Tai(1, 1)]
(* ... or with a follower that is behind.                                  *)
OneBehind == n1 :> Tai(1, 2) @@ n2 :> Tai(1, 2) @@ n3 :> Tai(1, 1)
=============================================================================
