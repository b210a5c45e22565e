------------------------------- MODULE Stored -------------------------------
(***************************************************************************)
(* What is replicated or stored: the tokens and the records of the API     *)
(* server, the contexts of the command line, the log of the cluster and    *)
(* the cluster state.  They share no state here: a behaviour exercises one *)
(* of them, and the others rest.                                           *)
(***************************************************************************)
EXTENDS ApiTokens, Sequences

CONSTANTS
  Node, ReplicationBudgets,                              \* RaftReplication
  Member, Name, Version, Replicas, Nil, ClusterBudgets,  \* ClusterState
  Namespace, Value, Client, RecordBudgets,               \* ApiRecords
  Context, Process, ContextBudgets                       \* Contexts

VARIABLES
  part,  \* the component that is exercised
  term, leads, log, commit, applied, fsm, next, match, rpc, chosen, harm,
  replicationLeft,
  clusterLog, clusterCommit, leader, deposed, orphans, state, config,
  clusterApplied, batch, snap, creating, rollback, sound, ahead, lost,
  clusterLeft,
  secrets, runtimes, recordReq, gone, recordLeft,
  file, proc, harmed, contextLeft

Replication == INSTANCE RaftReplication WITH
  Budgets <- ReplicationBudgets, left <- replicationLeft

Cluster == INSTANCE ClusterState WITH
  Node <- Member, None <- Nil, Budgets <- ClusterBudgets, log <- clusterLog,
  commit <- clusterCommit, applied <- clusterApplied, left <- clusterLeft

Records == INSTANCE ApiRecords WITH
  Request <- Client, Budgets <- RecordBudgets, req <- recordReq,
  left <- recordLeft

Ctx == INSTANCE Contexts WITH Budgets <- ContextBudgets, left <- contextLeft

\* The members of a cluster are counted.
ASSUME ReplicationAssumption == IsFiniteSet(Node)

\* There is a node, and what stands for no deployment is not one.
ASSUME ClusterAssumption ==
  /\ Member # {}
  /\ Nil \notin [versions : Seq([id : Version \cup {Nil}, active : BOOLEAN]),
                replicas : Replicas \cup {1}]

\* There is a record to ask for, no namespace is the word for the lack of one, and
\* the budgets are of the form that Init takes them in.
ASSUME RecordsAssumption ==
  /\ Namespace # {} /\ Name # {}
  /\ "nothing" \notin Namespace
  /\ RecordBudgets \subseteq [tables : SUBSET {"secrets", "runtimes"}, failures : Nat]

\* No context has the name of what does not parse or does not resolve, and the
\* budgets are of the form that Init takes them in.
ASSUME ContextsAssumption ==
  /\ Context \cap {"garbage", "error"} = {}
  /\ ContextBudgets \subseteq [cmds : SUBSET Ctx!Commands, kills : Nat]

-----------------------------------------------------------------------------

replicationVars == <<term, leads, log, commit, applied, fsm, next, match, rpc,
                     chosen, harm, replicationLeft>>

clusterVars == <<clusterLog, clusterCommit, leader, deposed, orphans, state,
                 config, clusterApplied, batch, snap, creating, rollback,
                 sound, ahead, lost, clusterLeft>>

recordVars == <<secrets, runtimes, recordReq, gone, recordLeft>>

contextVars == <<file, proc, harmed, contextLeft>>

storedVars ==
  <<part, vars, replicationVars, clusterVars, recordVars, contextVars>>

StoredInit ==
  /\ part \in {"token", "replication", "cluster", "record", "context"}
  /\ Init /\ Replication!Init /\ Cluster!Init /\ Records!Init /\ Ctx!Init

StoredNext ==
  \/ /\ part = "token" /\ Next
     /\ UNCHANGED <<part, replicationVars, clusterVars, recordVars, contextVars>>
  \/ /\ part = "replication" /\ Replication!Next
     /\ UNCHANGED <<part, vars, clusterVars, recordVars, contextVars>>
  \/ /\ part = "cluster" /\ Cluster!Next
     /\ UNCHANGED <<part, vars, replicationVars, recordVars, contextVars>>
  \/ /\ part = "record" /\ Records!Next
     /\ UNCHANGED <<part, vars, replicationVars, clusterVars, contextVars>>
  \/ /\ part = "context" /\ Ctx!Next
     /\ UNCHANGED <<part, vars, replicationVars, clusterVars, recordVars>>

StoredSpec == StoredInit /\ [][StoredNext]_storedVars

-----------------------------------------------------------------------------
(* Properties, besides those of ApiTokens *)

\* raft/node.go and raft/log.go keep the promise of ReplicatedLog: what is chosen
\* stays chosen, and no node applies anything else.
KeepsPromise == Replication!KeepsPromise

\* raft/fsm.go, Apply, Snapshot and Restore: nodes that have applied the same
\* entries agree, also where a snapshot taken in the middle of a batch made one
\* apply entries twice, and on each the version flagged active is the one in
\* ActiveVersions.
StatesAgree == Cluster!ReplayAgrees /\ Cluster!OneActive

\* api/runtimes.go:161 and :210: a runtime whose deletion was acknowledged is
\* gone, although an update that read it before writes it back afterwards.
DeletedStaysGone == Records!DeletedStaysGone

\* context/config.go:97: whatever commands overlapped, the current context of the
\* file is one of its contexts, unless a write was cut short.
CurrentResolves == Ctx!CurrentResolves

=============================================================================
