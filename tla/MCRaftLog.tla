------------------------------ MODULE MCRaftLog ------------------------------
(* RaftLog for TLC. *)
EXTENDS RaftLog

=============================================================================
