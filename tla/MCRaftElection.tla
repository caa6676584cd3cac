--------------------------- MODULE MCRaftElection ---------------------------
(* RaftElection for TLC, where the node ids are interchangeable.           *)
EXTENDS RaftElection, TLC

Symmetry == Permutations(Node)
=============================================================================
