---------------------------- MODULE ReplicatedLog ----------------------------
(***************************************************************************)
(* What pkg/raft promises its users: one sequence of chosen entries that   *)
(* only grows, and on every node a state machine that has applied the      *)
(* beginning of it.  A node that starts again begins anew.                 *)
(*                                                                         *)
(* The promise is kept for as long as the cluster is intact; what ends     *)
(* that is listed in RaftReplication.                                      *)
(***************************************************************************)
EXTENDS Sequences, SequencesExt

CONSTANT Node

VARIABLES
  chosen,    \* the entries that are chosen
  learned,   \* learned[n]: the entries that n has applied
  intact     \* nothing has happened that ends the promise

vars == <<chosen, learned, intact>>

Init ==
  /\ chosen = <<>>
  /\ learned = [n \in Node |-> <<>>]
  /\ intact = TRUE

\* A leader finds further entries on a quorum.
Choose == IsStrictPrefix(chosen, chosen') /\ UNCHANGED <<learned, intact>>

\* A node applies further entries.
Learn(n) ==
  /\ IsStrictPrefix(learned[n], learned'[n])
  /\ IsPrefix(learned'[n], chosen)
  /\ learned' = [learned EXCEPT ![n] = learned'[n]]
  /\ UNCHANGED <<chosen, intact>>

\* A node starts again, from its last snapshot or from nothing.
Forget(n) ==
  /\ IsPrefix(learned'[n], learned[n])
  /\ learned' = [learned EXCEPT ![n] = learned'[n]]
  /\ UNCHANGED <<chosen, intact>>

\* The promise ends.
Lose == ~ intact'

Next == Choose \/ Lose \/ \E n \in Node : Learn(n) \/ Forget(n)

Spec == Init /\ [][Next]_vars

=============================================================================
