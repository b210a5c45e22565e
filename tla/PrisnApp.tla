------------------------------ MODULE PrisnApp ------------------------------
(***************************************************************************)
(* The PrisnApp controller of the Kubernetes operator: one app, the        *)
(* objects its reconciler keeps for it, the users who change it, and the   *)
(* parts of Kubernetes the controller relies on (its work queue, the       *)
(* Deployment controller, the garbage collector).                          *)
(*                                                                         *)
(* A step of the reconciler is one request to the API server together with *)
(* the read it is based on; it may fail, by a conflict or otherwise.  The  *)
(* app is read once and may change, go, or come back under its name while  *)
(* the copy is used.  What a pod template says is abstracted to the fields *)
(* of the spec it is built from.                                           *)
(***************************************************************************)
EXTENDS Naturals, FiniteSets

CONSTANTS
  Spec0,     \* the specs an app is created with
  Specs,     \* the specs users change it to
  Budgets    \* bounds, one set of them for each initial state: how many
             \* edits, deletions, failures, outside changes of objects and
             \* restarts of the operator there may be

VARIABLES
  app,      \* the PrisnApp object
  obj,      \* obj[c]: an object the controller keeps: its owner and content
  queued,   \* is the app in the work queue?
  pc,       \* where the reconciler is
  mine,     \* its copy of the app
  left      \* what is left of the budget

vars == <<app, obj, queued, pc, mine, left>>

-----------------------------------------------------------------------------

Child == {"cm", "pvc", "deploy", "svc", "ingress"}

None == [owner |-> 0, content |-> 0, replicas |-> 0, made |-> 0, ready |-> 0]

Spend(what) == left[what] > 0 /\ left' = [left EXCEPT ![what] = @ - 1]

There(c) == obj[c].owner # 0

\* SourceSpec.IsInlineSource; the other source of the model is git.
IsInlineSource(spec) == spec.source # 0

\* sourceHash, which a change of the code changes.
sourceHash(spec) == spec.source

\* buildInitContainers: a git source is cloned before the app starts.
buildInitContainers(spec) == IF IsInlineSource(spec) THEN {} ELSE {"git-clone"}

\* buildVolumes: inline code is mounted from its ConfigMap, storage from its
\* claim.
buildVolumes(spec) ==
  {IF IsInlineSource(spec) THEN "cm" ELSE "emptydir"}
    \cup (IF spec.storage THEN {"pvc"} ELSE {})

\* The pod template of buildDeployment.
Template(spec) ==
  [hash |-> sourceHash(spec), port |-> spec.port,
   init |-> buildInitContainers(spec), volumes |-> buildVolumes(spec)]

\* Mutant: the zero of a suspended app is kept.
buildDeploymentZero(spec) ==
  [content |-> Template(spec),
   replicas |-> IF obj["deploy"].replicas = 0 /\ There("deploy") THEN 0 ELSE 1]

\* buildDeployment: no replicas mean one.
buildDeployment(spec) ==
  [content |-> Template(spec),
   replicas |-> IF spec.replicas = 0 THEN 1 ELSE spec.replicas]

\* buildService and buildIngress: what they say of the port.  Every ingress leads
\* to the Service, also when the spec has no port.
buildService(spec) == spec.port
buildIngress(spec) == [service |-> "svc", port |-> spec.port]

\* Kubernetes takes no ingress to the port 0.
Refused(ingress) == ingress.port = 0

\* updateStatusFromDeployment: the phase the status gets.
PhaseOf(deploy) == IF deploy.made > 0 THEN "Running" ELSE "Pending"

\* updateConditions: the condition Ready.
ReadyCondition(deploy) == deploy.made > 0 /\ deploy.ready = deploy.made

Init ==
  /\ \E s \in Spec0 :
       app = [state |-> "there", uid |-> 1, finalizer |-> FALSE, spec |-> s,
              phase |-> "", ready |-> FALSE]
  /\ obj = [c \in Child |-> None]
  /\ queued = TRUE
  /\ pc = "idle"
  /\ mine = app
  /\ left \in Budgets

-----------------------------------------------------------------------------
(* The reconciler *)

\* The end of a Reconcile: its result or an error puts the app back in the
\* queue, now or later.
Done(again) == pc' = "idle" /\ queued' = (queued \/ again)

\* Reconcile, to the choice of what to do.
Fetch ==
  /\ pc = "idle"
  /\ queued
  /\ queued' = FALSE
  /\ mine' = app
  /\ pc' = CASE app.state = "gone"     -> "idle"
             [] app.state = "deleting" -> "delete"
             [] ~ app.finalizer        -> "finalizer"
             [] app.spec.suspend       -> "suspend"
             [] OTHER                  -> "source"
  /\ UNCHANGED <<app, obj, left>>

\* handleDeletion: the app goes with its finalizer.
handleDeletion ==
  /\ pc = "delete"
  /\ IF mine = app THEN app' = [app EXCEPT !.state = "gone", !.finalizer = FALSE]
       ELSE UNCHANGED app
  /\ Done(mine # app)
  /\ UNCHANGED <<obj, mine, left>>

AddFinalizer ==
  /\ pc = "finalizer"
  /\ IF mine = app THEN app' = [app EXCEPT !.finalizer = TRUE] ELSE UNCHANGED app
  /\ Done(TRUE)
  /\ UNCHANGED <<obj, mine, left>>

\* An object is created in the name of the copy, or changed whoever owns it.
Apply(c, content, replicas) ==
  obj' = [obj EXCEPT ![c] =
            [owner |-> IF There(c) THEN obj[c].owner ELSE mine.uid,
             content |-> content, replicas |-> replicas,
             made |-> obj[c].made, ready |-> obj[c].ready]]

\* reconcileSuspended, to the change of the Deployment.
reconcileSuspended ==
  /\ pc = "suspend"
  /\ obj' = [obj EXCEPT !["deploy"].replicas = 0]
  /\ pc' = "suspended"
  /\ UNCHANGED <<app, queued, mine, left>>

\* reconcileSource: a ConfigMap for inline code.  0 stands for a git source.
reconcileSource ==
  /\ pc = "source"
  /\ IF IsInlineSource(mine.spec) THEN Apply("cm", mine.spec.source, 0) ELSE UNCHANGED obj
  /\ pc' = "storage"
  /\ UNCHANGED <<app, queued, mine, left>>

\* reconcileStorage with buildPVC: a claim that exists is left alone.
reconcileStorage ==
  /\ pc = "storage"
  /\ IF mine.spec.storage /\ ~ There("pvc") THEN Apply("pvc", 0, 0) ELSE UNCHANGED obj
  /\ pc' = "deploy"
  /\ UNCHANGED <<app, queued, mine, left>>

reconcileDeployment ==
  LET d == buildDeployment(mine.spec) IN
  /\ pc = "deploy"
  /\ Apply("deploy", d.content, d.replicas)
  /\ pc' = IF mine.spec.port > 0 THEN "service" ELSE "ingress"
  /\ UNCHANGED <<app, queued, mine, left>>

reconcileService ==
  /\ pc = "service"
  /\ Apply("svc", buildService(mine.spec), 0)
  /\ pc' = "ingress"
  /\ UNCHANGED <<app, queued, mine, left>>

\* reconcileIngress: one that is not wanted is deleted, and one that is refused
\* is the error Reconcile ends with.
reconcileIngress ==
  LET i == buildIngress(mine.spec) IN
  /\ pc = "ingress"
  /\ \/ /\ mine.spec.ingress /\ Refused(i)
        /\ Done(TRUE)
        /\ UNCHANGED obj
     \/ /\ ~ (mine.spec.ingress /\ Refused(i))
        /\ IF mine.spec.ingress THEN Apply("ingress", i, 0)
             ELSE obj' = [obj EXCEPT !["ingress"] = None]
        /\ pc' = "status"
        /\ UNCHANGED queued
  /\ UNCHANGED <<app, mine, left>>

\* The write of the status, refused when the app has changed.  A suspended app
\* is not put back in the queue.
UpdateStatus ==
  /\ pc \in {"status", "suspended"}
  /\ IF mine = app /\ (pc = "suspended" \/ There("deploy"))
       THEN app' = IF pc = "suspended" THEN [app EXCEPT !.phase = "Suspended"]
                     ELSE [app EXCEPT !.phase = PhaseOf(obj["deploy"]),
                                      !.ready = ReadyCondition(obj["deploy"])]
       ELSE UNCHANGED app
  /\ Done(pc = "status" \/ mine # app)
  /\ UNCHANGED <<obj, mine, left>>

\* A request fails.  The phase Failed is set in the copy, which is not written.
Fail ==
  /\ pc # "idle"
  /\ Spend("failures")
  /\ Done(TRUE)
  /\ UNCHANGED <<app, obj, mine>>

ReconcileStep ==
  \/ Fetch \/ handleDeletion \/ AddFinalizer \/ reconcileSuspended
  \/ reconcileSource \/ reconcileStorage \/ reconcileDeployment
  \/ reconcileService \/ reconcileIngress \/ UpdateStatus

-----------------------------------------------------------------------------
(* Users and Kubernetes *)

Edit(s) ==
  /\ app.state = "there"
  /\ app.spec # s
  /\ Spend("edits")
  /\ app' = [app EXCEPT !.spec = s]
  /\ queued' = TRUE
  /\ UNCHANGED <<obj, pc, mine>>

Delete ==
  /\ app.state = "there"
  /\ Spend("deletes")
  /\ app' = [app EXCEPT !.state = IF app.finalizer THEN "deleting" ELSE "gone"]
  /\ queued' = TRUE
  /\ UNCHANGED <<obj, pc, mine>>

\* A new app under the old name.
Recreate(s) ==
  /\ app.state = "gone"
  /\ Spend("edits")
  /\ app' = [state |-> "there", uid |-> app.uid + 1, finalizer |-> FALSE,
             spec |-> s, phase |-> "", ready |-> FALSE]
  /\ queued' = TRUE
  /\ UNCHANGED <<obj, pc, mine>>

\* Somebody else deletes an object, or scales the Deployment.
Drift(c) ==
  /\ There(c)
  /\ Spend("drifts")
  /\ \/ obj' = [obj EXCEPT ![c] = None]
     \/ c = "deploy" /\ obj' = [obj EXCEPT ![c].replicas = 3]
  /\ queued' = TRUE
  /\ UNCHANGED <<app, pc, mine>>

\* The Deployment controller makes the replicas, which get ready later; its
\* status is an event.
Rollout ==
  LET d == obj["deploy"] IN
  /\ There("deploy")
  /\ \/ /\ d.made # d.replicas
        /\ obj' = [obj EXCEPT !["deploy"].made = d.replicas,
                              !["deploy"].ready = IF @ > d.replicas THEN d.replicas ELSE @]
     \/ /\ d.made = d.replicas /\ d.ready < d.made
        /\ obj' = [obj EXCEPT !["deploy"].ready = d.made]
  /\ queued' = TRUE
  /\ UNCHANGED <<app, pc, mine, left>>

\* The garbage collector removes what an app that is gone owned.
Collect(c) ==
  /\ There(c)
  /\ app.state = "gone" \/ obj[c].owner # app.uid
  /\ obj' = [obj EXCEPT ![c] = None]
  /\ queued' = TRUE
  /\ UNCHANGED <<app, pc, mine, left>>

\* The operator starts again and lists every app.
Restart ==
  /\ Spend("restarts")
  /\ pc' = "idle"
  /\ queued' = TRUE
  /\ UNCHANGED <<app, obj, mine>>

-----------------------------------------------------------------------------

Next ==
  \/ ReconcileStep \/ Fail \/ Delete \/ Rollout \/ Restart
  \/ \E s \in Specs : Edit(s) \/ Recreate(s)
  \/ \E c \in Child : Drift(c) \/ Collect(c)

Spec == Init /\ [][Next]_vars

\* The queue is worked off, and so do the controllers of Kubernetes.
Fairness ==
  /\ WF_vars(ReconcileStep)
  /\ WF_vars(Rollout)
  /\ \A c \in Child : WF_vars(Collect(c))

FairSpec == Spec /\ Fairness

-----------------------------------------------------------------------------
(* Properties *)

\* The cluster holds what the spec asks for.  A Service whose port is no longer
\* in the spec is not removed, so none is asked to be gone.  A spec with an
\* ingress and no port never gets its ingress, nor a status: Reconcile fails
\* each time after the Deployment was made.
Settled ==
  LET d == obj["deploy"] IN
  CASE app.state = "gone" -> \A c \in Child : ~ There(c)
    [] app.state = "deleting" -> FALSE
    [] OTHER ->
         IF app.spec.suspend
           THEN app.phase = "Suspended" /\ d.replicas = 0
           ELSE /\ There("deploy")
                /\ d.content.hash = app.spec.source
                /\ d.replicas = (IF app.spec.replicas = 0 THEN 1 ELSE app.spec.replicas)
                /\ \A c \in d.content.volumes \cap Child : There(c)
                /\ "cm" \in d.content.volumes => obj["cm"].content = app.spec.source
                /\ app.spec.storage => "pvc" \in d.content.volumes
                /\ app.spec.port > 0 => obj["svc"].content = app.spec.port
                /\ \/ app.spec.ingress /\ app.spec.port = 0
                   \/ /\ app.phase = "Running" /\ app.ready
                      /\ There("ingress") <=> app.spec.ingress

\* Whatever users, other controllers and failing requests did to the app and
\* its objects, once they leave it alone the cluster comes to hold what the spec
\* asks for, and stays so; an ingress without a port holds up the ingress and
\* the status, and nothing else.
Converges == <>[]Settled

=============================================================================
