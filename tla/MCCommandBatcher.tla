-------------------------- MODULE MCCommandBatcher --------------------------
(* Instances of CommandBatcher for TLC.                                    *)
EXTENDS CommandBatcher, TLC

CONSTANTS c1, c2, c3

(* For a buffer of four: two commands that make a batch half full only     *)
(* together, and one that then no longer fits.                             *)
Sizes == c1 :> 1 @@ c2 :> 1 @@ c3 :> 3
SomeSizes == [c \in Command |-> Sizes[c]]
=============================================================================
