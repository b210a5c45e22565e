----------------------------- MODULE MCOperator -----------------------------
(*****************************************************************************)
(* The three controllers of the Kubernetes operator for TLC.  They share no  *)
(* state: a behaviour exercises one of them, and the others rest.            *)
(*****************************************************************************)
EXTENDS PrisnCronJob

VARIABLES
  part,  \* the component that is exercised
  app, obj, appQueued, pc, mine, appLeft, job, cm, k8s, made, won, jobQueued,
  jobPc, jobMine, seen, jobCache, jobLeft

\* A spec: the version of its inline source, 0 for one elsewhere, and what it
\* asks for.
AppSpec(suspended, source, replicas, port, ingress, storage) ==
  [suspend |-> suspended, source |-> source, replicas |-> replicas,
   port |-> port, ingress |-> ingress, storage |-> storage]

AppCreated == {AppSpec(FALSE, 1, 1, 1, TRUE, TRUE)}

AppChanges == {AppSpec(TRUE, 1, 1, 1, TRUE, TRUE),
               AppSpec(FALSE, 2, 0, 0, FALSE, FALSE),
               AppSpec(FALSE, 0, 2, 1, TRUE, FALSE),
               AppSpec(FALSE, 2, 1, 0, TRUE, TRUE)}

AppBudget(edits, deletes, failures, drifts, restarts) ==
  [edits |-> edits, deletes |-> deletes, failures |-> failures,
   drifts |-> drifts, restarts |-> restarts]

AppBudgets == {AppBudget(2, 0, 0, 0, 0), AppBudget(1, 0, 0, 1, 0),
               AppBudget(1, 1, 1, 0, 0), AppBudget(1, 0, 1, 0, 1),
               AppBudget(0, 1, 0, 1, 0)}

JobBudget(failures, stale, expiries, deadlines, deletes) ==
  [failures |-> failures, stale |-> stale, expiries |-> expiries,
   deadlines |-> deadlines, deletes |-> deletes]

JobBudgets == {JobBudget(0, 1, 1, 0, 0), JobBudget(1, 0, 1, 0, 0),
               JobBudget(0, 1, 0, 1, 0), JobBudget(0, 0, 1, 0, 1)}

CronBudget(failures, stale, suspends, deletes) ==
  [failures |-> failures, stale |-> stale, suspends |-> suspends,
   deletes |-> deletes]

\* Which budget goes with which cron job.
CronTried ==
  {<<"Forbid", 0, CronBudget(0, 1, 0, 0)>>, <<"Forbid", 0, CronBudget(1, 0, 0, 0)>>,
   <<"Forbid", 0, CronBudget(0, 0, 1, 0)>>, <<"Allow", 1, CronBudget(0, 0, 0, 0)>>,
   <<"Replace", 0, CronBudget(0, 0, 0, 1)>>}

CronBudgets == {c[3] : c \in CronTried}

-----------------------------------------------------------------------------

App == INSTANCE PrisnApp WITH
    Spec0 <- AppCreated, Specs <- AppChanges, Budgets <- AppBudgets,
    queued <- appQueued, left <- appLeft

Job == INSTANCE PrisnJob WITH
    BackoffLimit <- 1, Budgets <- JobBudgets, queued <- jobQueued,
    pc <- jobPc, mine <- jobMine, cache <- jobCache, left <- jobLeft

appVars == <<app, obj, appQueued, pc, mine, appLeft>>

jobVars == <<job, cm, k8s, made, won, jobQueued, jobPc, jobMine, seen,
             jobCache, jobLeft>>

allVars == <<part, vars, appVars, jobVars>>

\* A component that is not exercised rests in one of its initial states.
Rests(p, x, S) == part # p => x = CHOOSE y \in S : TRUE

SumInit ==
  /\ part \in {"cron", "app", "job"}
  /\ Init /\ App!Init /\ Job!Init
  /\ <<policy, cron.deadline, left>> \in CronTried
  /\ Rests("cron", <<policy, cron.deadline, left>>, CronTried)
  /\ Rests("app", appLeft, AppBudgets)
  /\ Rests("job", jobLeft, JobBudgets)
  /\ Rests("job", job.inline, BOOLEAN)

SumNext ==
  \/ /\ part = "cron" /\ Next
     /\ UNCHANGED <<part, appVars, jobVars>>
  \/ /\ part = "app" /\ App!Next
     /\ UNCHANGED <<part, vars, jobVars>>
  \/ /\ part = "job" /\ Job!Next
     /\ UNCHANGED <<part, vars, appVars>>

\* The fairness of each component, while it is the one exercised.
SumFairness ==
  /\ WF_vars(part = "cron" /\ ReconcileStep)
  /\ WF_vars(part = "cron" /\ Wake)
  /\ WF_vars(part = "cron" /\ Watch)
  /\ WF_vars(part = "cron" /\ Tick)
  /\ \A t \in Scheduled : WF_vars(part = "cron" /\ JobStep(t))
  /\ WF_appVars(part = "app" /\ App!ReconcileStep)
  /\ WF_appVars(part = "app" /\ App!Rollout)
  /\ \A c \in App!Child : WF_appVars(part = "app" /\ App!Collect(c))
  /\ WF_jobVars(part = "job" /\ Job!ReconcileStep)
  /\ WF_jobVars(part = "job" /\ Job!Watch)
  /\ WF_jobVars(part = "job" /\ Job!PodStarts)
  /\ WF_jobVars(part = "job" /\ Job!PodEnds)
  /\ WF_jobVars(part = "job" /\ Job!Collect)

SumSpec == SumInit /\ [][SumNext]_allVars /\ SumFairness

-----------------------------------------------------------------------------
(* Properties *)

\* prisnapp_controller.go, Reconcile: what users, other controllers and failing
\* requests did to an app and its objects is made good once they leave it alone,
\* but for the ingress and the status of an app with an ingress and no port.
Converges == part = "app" => App!Converges

\* prisnjob_controller.go, Reconcile: every job comes to read Succeeded or
\* Failed, and Succeeded only after a pod succeeded, whatever requests fail and
\* however far the cache is behind; it then keeps that phase, although its
\* Kubernetes Job goes on or is removed, and is not run again by a reconciler
\* that has read it.  One whose copy is from before the end does run it again.
JobSettles == (part = "job" => Job!JobEnds) /\ Job!FinalStays

=============================================================================
