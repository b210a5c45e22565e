-------------------------- MODULE MCRaftElection --------------------------
(* RaftElection on a small cluster. *)
EXTENDS RaftElection, TLC

Symmetry == Permutations(Node)

=============================================================================
