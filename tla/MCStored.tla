------------------------------ MODULE MCStored ------------------------------
(* Stored, for TLC. *)
EXTENDS Stored

CONSTANTS n1, n2, n3

ReplicationBudget(elections, rpcs, proposals, losses, crashes, compactions, unwon) ==
  [elections |-> elections, rpcs |-> rpcs, proposals |-> proposals, losses |-> losses,
   crashes |-> crashes, compactions |-> compactions, unwon |-> unwon]

\* n campaigns, with any votes or with that of p.
Any(n) == {<<n, Q>> : Q \in {{n1, n2}, {n1, n3}, {n2, n3}}}
With(n, p) == {<<n, {n, p}>>}

MCReplicationBudgets ==
  {ReplicationBudget(<<Any(n1), Any(n2), Any(n1)>>, 1, 0, 0, 0, 0, 0),
   ReplicationBudget(<<Any(n1), Any(n2)>>, 1, 1, 1, 0, 0, 0),
   ReplicationBudget(<<Any(n1), Any(n2)>>, 1, 0, 0, 0, 0, 1),
   ReplicationBudget(<<With(n1, n2)>>, 2, 1, 0, 0, 0, 0),
   ReplicationBudget(<<Any(n1)>>, 1, 2, 0, 1, 1, 0)}

ClusterBudget(types, commands, elections, snapshots) ==
  [types |-> types, commands |-> commands, elections |-> elections,
   snapshots |-> snapshots, waiting |-> 1]

MCClusterBudgets ==
  {ClusterBudget({"create", "delete"}, 2, 1, 0),
   ClusterBudget({"create", "scale", "assign", "join", "leave"}, 2, 0, 1),
   ClusterBudget({"create", "delete", "activate"}, 3, 0, 0)}

TokenBudget(ops, limits, failures, creates, expiries) ==
  [ops |-> ops, limits |-> limits, failures |-> failures, creates |-> creates,
   expiries |-> expiries]

MCTokenBudgets ==
  {TokenBudget({"list", "get", "create"}, 0, 1, 1, 0),
   TokenBudget({"other", "public"}, 1, 1, 0, 1),
   TokenBudget({"revoke", "delete"}, 0, 1, 0, 1)}

MCRecordBudgets == {[failures |-> 1, tables |-> {"runtimes"}],
                    [failures |-> 0, tables |-> {"secrets"}]}

MCContextBudgets == {[cmds |-> {"add", "use", "delete", "rename"}, kills |-> 1]}

-----------------------------------------------------------------------------

\* A component that is not exercised rests in one of its initial states.
Rests(p, x, S) == part # p => x = CHOOSE y \in S : TRUE

MCInit ==
  /\ StoredInit
  /\ Rests("token", left, MCTokenBudgets)
  /\ Rests("token", Rows, {{t} : t \in Token})
  /\ Rests("token", {t \in Token : table[t].expires}, {{}})
  /\ Rests("token", apiKey, BOOLEAN)
  /\ Rests("replication", replicationLeft, MCReplicationBudgets)
  /\ Rests("cluster", clusterLeft, MCClusterBudgets)
  /\ Rests("record", recordLeft, MCRecordBudgets)

MCSpec == MCInit /\ [][StoredNext]_storedVars

=============================================================================
