----------------------------- MODULE ClusterState -----------------------------
(***************************************************************************)
(* The replicated state machine of pkg/raft (fsm.go), the operations of    *)
(* Cluster (cluster.go) and the handlers of the cluster API                *)
(* (pkg/api/cluster.go) over the log that RaftReplication provides: the    *)
(* commands are appended by a leader, a prefix of the log is committed and *)
(* stays, the rest may be lost with the leader.  A node that was deposed   *)
(* believes for a while that it leads.                                     *)
(*                                                                         *)
(* A committed batch is applied entry by entry, and lastApplied moves when *)
(* the whole batch is done; a snapshot may be taken in the middle of one.  *)
(* Deployments are known by one name each (namespace and name), versions   *)
(* by their ID.                                                            *)
(***************************************************************************)
EXTENDS Integers, Sequences, FiniteSets, FiniteSetsExt

CONSTANTS
  Node,      \* the nodes of the cluster
  Name,      \* the deployments
  Version,   \* the versions of deployments
  Replicas,  \* the replica counts that are asked for
  None,      \* no node, no version, no deployment
  Budgets    \* bounds: the types of commands there are, and how many commands,
             \* elections, snapshots and creations that wait

VARIABLES
  log,       \* the log of the node that leads; an entry is a command and
             \* whether its client was told that it is done
  commit,    \* the commit index
  leader,    \* the node that leads
  deposed,   \* a node that believes it leads and does not, or None
  orphans,   \* the commands the deposed node has appended
  state,     \* the ClusterState of each node
  config,    \* clusterConfig of each node
  applied,   \* lastApplied
  batch,     \* what applyCommitted of each node is doing
  snap,      \* the snapshot that a leader sends
  creating,  \* the creations that wait for their deployment to appear
  rollback,  \* a rollback that has read the versions, or None
  sound,     \* history: the nodes whose snapshots left nothing out
  ahead,     \* history: the last entry that the state of each node had from a
             \* snapshot, maybe beyond the lastApplied that came with it
  lost,      \* history: a command the client was told of is gone
  left       \* what is left of the budget

clusterVars == <<log, commit, leader, deposed, orphans, state, config, applied,
                 batch, snap, creating, rollback, sound, ahead, lost, left>>

-----------------------------------------------------------------------------
(* The state machine *)

NewClusterState ==
  [deployments |-> [d \in Name |-> None], active |-> [d \in Name |-> None],
   assignments |-> [d \in Name |-> {}], nodes |-> {}]

Flagged(v) == [id |-> v, active |-> TRUE]

\* Apply: the new version is the only active one.
AddVersion(vs, v) ==
  Append([i \in DOMAIN vs |-> [vs[i] EXCEPT !.active = FALSE]], Flagged(v))

\* Apply of LogDeploymentCreate and LogDeploymentUpdate: the first makes the
\* deployment, the others change it; a version other than the active one is new.
ApplyDeployment(s, c) ==
  LET d   == s.deployments[c.name]
      new == c.version # None /\ c.version # s.active[c.name]
  IN
  IF d = None
    THEN [s EXCEPT !.deployments[c.name] =
                      [versions |-> <<Flagged(c.version)>>, replicas |-> c.replicas],
                   !.active[c.name] = c.version]
    ELSE [s EXCEPT !.deployments[c.name] =
                      [versions |-> IF new THEN AddVersion(d.versions, c.version) ELSE d.versions,
                       replicas |-> c.replicas],
                   !.active[c.name] = IF new THEN c.version ELSE @]

\* Apply of LogDeploymentDelete.
ApplyDelete(s, c) ==
  [s EXCEPT !.deployments[c.name] = None, !.assignments[c.name] = {},
            !.active[c.name] = None]

\* Apply of LogDeploymentActivate.
ApplyActivate(s, c) ==
  IF s.deployments[c.name] = None THEN s
  ELSE [s EXCEPT !.deployments[c.name].versions =
                    [i \in DOMAIN @ |-> [id |-> @[i].id, active |-> @[i].id = c.version]],
                 !.active[c.name] = c.version]

\* Apply of LogScaleChange.
ApplyScale(s, c) ==
  IF s.deployments[c.name] = None THEN s
  ELSE [s EXCEPT !.deployments[c.name].replicas = c.replicas]

\* Apply of LogSchedulerAssign, LogNodeJoin and LogNodeLeave.
ApplyAssign(s, c) == [s EXCEPT !.assignments[c.name] = c.nodes]
ApplyJoin(s, c) == [s EXCEPT !.nodes = @ \cup {c.node}]
ApplyLeave(s, c) == [s EXCEPT !.nodes = @ \ {c.node}]

Apply(s, c) ==
  CASE c.type = "create"   -> ApplyDeployment(s, c)
    [] c.type = "delete"   -> ApplyDelete(s, c)
    [] c.type = "activate" -> ApplyActivate(s, c)
    [] c.type = "scale"    -> ApplyScale(s, c)
    [] c.type = "assign"   -> ApplyAssign(s, c)
    [] c.type = "join"     -> ApplyJoin(s, c)
    [] c.type = "leave"    -> ApplyLeave(s, c)

\* applyMembershipChange with AddToClusterConfig and RemoveFromClusterConfig.
applyMembershipChange(g, c) ==
  CASE c.type = "join"  -> g \cup {c.node}
    [] c.type = "leave" -> g \ {c.node}
    [] OTHER            -> g

\* Mutant: the assignments are not taken over.
RestoreUnassigned(s, data) == [data EXCEPT !.assignments = s.assignments]

\* Restore of what Snapshot wrote.
Restore(s, data) == data

-----------------------------------------------------------------------------

Spend(what) == left[what] > 0 /\ left' = [left EXCEPT ![what] = @ - 1]

Idle == [to |-> 0, done |-> 0]

Init ==
  /\ log = <<>> /\ commit = 0
  /\ leader = CHOOSE n \in Node : TRUE
  /\ deposed = None /\ orphans = <<>>
  /\ state = [n \in Node |-> NewClusterState]
  /\ config = [n \in Node |-> Node]
  /\ applied = [n \in Node |-> 0]
  /\ batch = [n \in Node |-> Idle]
  /\ snap = None
  /\ creating = {} /\ rollback = None
  /\ sound = Node /\ ahead = [n \in Node |-> 0] /\ lost = FALSE
  /\ left \in Budgets

Unserved == <<creating, rollback>>
Unapplied == <<state, config, applied, batch, snap, sound, ahead>>

-----------------------------------------------------------------------------
(* Requests *)

\* Node.IsLeader
IsLeader(n) == n \in {leader, deposed}

\* Node.Propose: the entry is in the log of the node, and nothing more is known.
\* All operations of Cluster but CreateDeployment are done with that.
Propose(n, c, acked) ==
  LET e == [cmd |-> c, acked |-> acked] IN
  /\ IsLeader(n)
  /\ c.type \in left.types
  /\ Spend("commands")
  /\ log' = IF n = leader THEN Append(log, e) ELSE log
  /\ orphans' = IF n = leader THEN orphans ELSE Append(orphans, e)
  /\ UNCHANGED <<commit, leader, deposed, lost>>

(* The operations of Cluster *)

CreateDeployment(n, d, v, r) ==
  Propose(n, [type |-> "create", name |-> d, version |-> v, replicas |-> r], FALSE)

DeleteDeployment(n, d) == Propose(n, [type |-> "delete", name |-> d], TRUE)

ScaleDeployment(n, d, r) == Propose(n, [type |-> "scale", name |-> d, replicas |-> r], TRUE)

ActivateVersion(n, d, v) == Propose(n, [type |-> "activate", name |-> d, version |-> v], TRUE)

JoinCluster(n, m) == Propose(n, [type |-> "join", node |-> m], TRUE)

LeaveCluster(n, m) == Propose(n, [type |-> "leave", node |-> m], TRUE)

\* No handler calls this one.
AssignDeployment(n, d, ns) ==
  /\ Propose(n, [type |-> "assign", name |-> d, nodes |-> ns], TRUE)
  /\ UNCHANGED <<Unserved, Unapplied>>

(* The handlers.  A node that does not lead answers with an error. *)

\* Up to waitForApply.  No replicas means one.
handleCreateDeploymentCluster(n, d, v, r) ==
  /\ Cardinality(creating) < left.waiting
  /\ CreateDeployment(n, d, v, IF r = 0 THEN 1 ELSE r)
  /\ creating' = creating \cup
       {[node |-> n, name |-> d, orphan |-> n # leader,
         at |-> IF n = leader THEN Len(log') ELSE Len(orphans')]}
  /\ UNCHANGED <<rollback, Unapplied>>

handleDeleteDeploymentCluster(n, d) ==
  DeleteDeployment(n, d) /\ UNCHANGED <<Unserved, Unapplied>>

handleScaleDeploymentCluster(n, d, r) ==
  ScaleDeployment(n, d, r) /\ UNCHANGED <<Unserved, Unapplied>>

handleJoinCluster(n, m) == JoinCluster(n, m) /\ UNCHANGED <<Unserved, Unapplied>>

handleLeaveCluster(n, m) == LeaveCluster(n, m) /\ UNCHANGED <<Unserved, Unapplied>>

\* The entry of a creation; what is asked for is the name of the deployment only.
Created(w) ==
  IF w.orphan THEN w.node = deposed /\ w.at <= Len(orphans) ELSE w.at <= Len(log)

\* waitForApply sees a deployment of that name at the node: 201 Created.  The
\* entry may be anywhere, or nowhere any more.
waitForApply(w) ==
  /\ w \in creating
  /\ state[w.node].deployments[w.name] # None
  /\ creating' = creating \ {w}
  /\ log' = IF ~ w.orphan /\ Created(w) THEN [log EXCEPT ![w.at].acked = TRUE] ELSE log
  /\ orphans' = IF w.orphan /\ Created(w) THEN [orphans EXCEPT ![w.at].acked = TRUE] ELSE orphans
  /\ lost' = (lost \/ ~ Created(w))
  /\ UNCHANGED <<commit, leader, deposed, rollback, left, Unapplied>>

\* waitForApply after 5 s; an error in any case.
waitTimeout(w) ==
  /\ w \in creating
  /\ creating' = creating \ {w}
  /\ UNCHANGED <<log, commit, leader, deposed, orphans, rollback, lost, left, Unapplied>>

\* The version that handleRollbackDeployment goes back to: the first in the list
\* that is not active.
RollbackTarget(vs) ==
  LET other == {i \in DOMAIN vs : ~ vs[i].active} IN
  IF other = {} THEN None ELSE vs[Min(other)].id

\* handleRollbackDeployment reads the versions from the state of its node, which
\* need not lead.  A version that is asked for by name is not looked up.
handleRollbackDeployment(n, d, v) ==
  LET s == state[n].deployments[d] IN
  /\ rollback = None
  /\ left.commands > 0 /\ "activate" \in left.types
  /\ s # None
  /\ v = None => Len(s.versions) >= 2
  /\ rollback' = [node |-> n, name |-> d,
                  version |-> IF v = None THEN RollbackTarget(s.versions) ELSE v]
  /\ UNCHANGED <<log, commit, leader, deposed, orphans, creating, lost, left, Unapplied>>

\* The rest of handleRollbackDeployment.
EndRollback ==
  /\ rollback # None
  /\ \/ ActivateVersion(rollback.node, rollback.name, rollback.version)
     \/ /\ ~ IsLeader(rollback.node) \/ left.commands = 0
        /\ UNCHANGED <<log, commit, leader, deposed, orphans, lost, left>>
  /\ rollback' = None
  /\ UNCHANGED <<creating, Unapplied>>

-----------------------------------------------------------------------------
(* The log, as RaftReplication provides it *)

Commit ==
  /\ commit < Len(log)
  /\ commit' = commit + 1
  /\ UNCHANGED <<log, leader, deposed, orphans, lost, left, Unserved, Unapplied>>

Acked(es) == \E i \in DOMAIN es : es[i].acked

\* Another node leads, with what it has of the log; the old leader keeps the rest.
Elect(n, k) ==
  /\ n # leader /\ deposed = None
  /\ Spend("elections")
  /\ leader' = n
  /\ deposed' = leader
  /\ log' = SubSeq(log, 1, k)
  /\ orphans' = SubSeq(log, k + 1, Len(log))
  /\ creating' = {[w EXCEPT !.orphan = TRUE, !.at = @ - k] :
                      w \in {w \in creating : w.at > k}} \cup {w \in creating : w.at <= k}
  /\ UNCHANGED <<commit, rollback, lost, Unapplied>>

\* The deposed node hears of the new term, and its entries are cut off.
StepDown ==
  /\ deposed # None
  /\ deposed' = None
  /\ orphans' = <<>>
  /\ lost' = (lost \/ Acked(orphans))
  /\ UNCHANGED <<log, commit, leader, left, Unserved, Unapplied>>

-----------------------------------------------------------------------------
(* Applying *)

\* applyCommitted: the entries are taken.
applyCommitted(n) ==
  /\ batch[n] = Idle
  /\ applied[n] < commit
  /\ batch' = [batch EXCEPT ![n] = [to |-> commit, done |-> applied[n]]]
  /\ UNCHANGED <<log, commit, leader, deposed, orphans, state, config, applied, snap,
                 sound, ahead, lost, left, Unserved>>

\* The next entry of the batch is applied.
ApplyEntry(n) ==
  LET c == log[batch[n].done + 1].cmd IN
  /\ batch[n].done < batch[n].to
  /\ state' = [state EXCEPT ![n] = Apply(@, c)]
  /\ config' = [config EXCEPT ![n] = applyMembershipChange(@, c)]
  /\ batch' = [batch EXCEPT ![n].done = @ + 1]
  /\ UNCHANGED <<log, commit, leader, deposed, orphans, applied, snap, sound, ahead,
                 lost, left, Unserved>>

\* The batch is done.
EndBatch(n) ==
  /\ batch[n] # Idle
  /\ batch[n].done = batch[n].to
  /\ applied' = [applied EXCEPT ![n] = batch[n].to]
  /\ batch' = [batch EXCEPT ![n] = Idle]
  /\ UNCHANGED <<log, commit, leader, deposed, orphans, state, config, snap, sound,
                 ahead, lost, left, Unserved>>

\* sendSnapshot: the state machine is taken, maybe in the middle of a batch.
Snapshot ==
  /\ snap = None
  /\ Spend("snapshots")
  /\ snap' = [from |-> leader, data |-> state[leader],
              has |-> Max({batch[leader].done, applied[leader]}),
              ahead |-> ahead[leader]]
  /\ UNCHANGED <<log, commit, leader, deposed, orphans, state, config, applied, batch,
                 sound, ahead, lost, Unserved>>

\* sendSnapshot reads lastApplied and the configuration, and the follower puts
\* everything in their place.  The leader may have gone on since it took the
\* state, and the follower may be in the middle of a batch of its own.
InstallSnapshot(n) ==
  /\ snap # None
  /\ n # snap.from
  /\ state' = [state EXCEPT ![n] = Restore(@, snap.data)]
  /\ config' = [config EXCEPT ![n] = config[snap.from]]
  /\ applied' = [applied EXCEPT ![n] = applied[snap.from]]
  /\ sound' = IF /\ snap.has >= applied[snap.from]
                 /\ batch[n] = Idle /\ applied[n] <= applied[snap.from]
                 /\ snap.from \in sound
                THEN sound \cup {n} ELSE sound \ {n}
  /\ ahead' = [ahead EXCEPT ![n] = Max({snap.has, snap.ahead})]
  /\ snap' = None
  /\ UNCHANGED <<log, commit, leader, deposed, orphans, batch, lost, left, Unserved>>

-----------------------------------------------------------------------------

ClientRequest(n) ==
  \/ \E d \in Name, v \in Version \cup {None}, r \in Replicas :
       handleCreateDeploymentCluster(n, d, v, r)
  \/ \E d \in Name, v \in Version \cup {None} : handleRollbackDeployment(n, d, v)
  \/ \E d \in Name : handleDeleteDeploymentCluster(n, d)
  \/ \E d \in Name, r \in Replicas : handleScaleDeploymentCluster(n, d, r)
  \/ \E d \in Name, ns \in {{}, Node} : AssignDeployment(n, d, ns)
  \/ \E m \in Node : handleJoinCluster(n, m) \/ handleLeaveCluster(n, m)

Next ==
  \/ \E n \in Node : ClientRequest(n)
  \/ \E w \in creating : waitForApply(w) \/ waitTimeout(w)
  \/ EndRollback
  \/ Commit
  \/ \E n \in Node, k \in commit..Len(log) : Elect(n, k)
  \/ StepDown
  \/ \E n \in Node : applyCommitted(n) \/ ApplyEntry(n) \/ EndBatch(n) \/ InstallSnapshot(n)
  \/ Snapshot

Spec == Init /\ [][Next]_clusterVars

-----------------------------------------------------------------------------
(* Properties *)

\* A creation of the deployment that names no version is committed.
Unnamed(d) ==
  \E i \in 1..commit :
    LET c == log[i].cmd IN c.type = "create" /\ c.name = d /\ c.version = None

\* What a state says of a deployment, whatever way it came about.  Which version
\* is active says nothing where a creation left it open: Apply then keeps the one
\* that is there.
Meaning(s, d) ==
  [active |-> IF Unnamed(d) THEN None ELSE s.active[d],
   assignments |-> s.assignments[d],
   replicas |-> IF s.deployments[d] = None THEN 0 ELSE s.deployments[d].replicas]

\* The node has applied all that its state had before.
CaughtUp(n) == batch[n] = Idle /\ ahead[n] <= applied[n]

\* Nodes that have applied the same entries agree, even where a snapshot taken in
\* the middle of a batch made one of them apply entries twice: the commands of
\* Apply may be repeated with those that followed them.
ReplayAgrees ==
  \A n, m \in sound :
    CaughtUp(n) /\ CaughtUp(m) /\ applied[n] = applied[m]
      => /\ state[n].nodes = state[m].nodes
         /\ \A d \in Name : Meaning(state[n], d) = Meaning(state[m], d)

\* The two records of what is active do not contradict each other: a deployment
\* that is gone has no entry in ActiveVersions, and a version that is flagged in
\* the list of one that is there is its entry, through creations, updates,
\* deletions and rollbacks that come late.
OneActive ==
  \A n \in Node, d \in Name :
    LET dep == state[n].deployments[d] IN
    IF dep = None THEN state[n].active[d] = None
    ELSE \A i \in DOMAIN dep.versions :
           dep.versions[i].active => dep.versions[i].id = state[n].active[d]

\* fsm.go:38, "Active version for each deployment": the active version is one that
\* the deployment has.  A rollback that comes after the deployment was deleted and
\* made again activates one that it has not.
ActiveExists ==
  \A n \in sound, d \in Name :
    LET dep == state[n].deployments[d] IN
    dep # None => \E i \in DOMAIN dep.versions : dep.versions[i] = Flagged(state[n].active[d])

\* docs/CLUSTERING.md:430, "all writes must wait for quorum": what a client was
\* told is done is never lost.
AckedSurvive == ~ lost

===============================================================================
