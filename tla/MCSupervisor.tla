---------------------------- MODULE MCSupervisor ----------------------------
(* Small instances of Supervisor for TLC. *)
EXTENDS Supervisor

CONSTANTS c1, c2

TwoCallers == {c1, c2}

AllPolicies == {"always", "on-failure", "never"}

=============================================================================
