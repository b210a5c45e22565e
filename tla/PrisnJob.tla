------------------------------ MODULE PrisnJob ------------------------------
(***************************************************************************)
(* The PrisnJob controller of the Kubernetes operator: one PrisnJob, the   *)
(* Kubernetes Job its reconciler makes for it, and what Kubernetes does    *)
(* with that Job: pods that start and end, the deadline, the removal of a  *)
(* finished Job after its time to live.                                    *)
(*                                                                         *)
(* A step of the reconciler is one request to the API server; Kubernetes   *)
(* goes on between any two.  What it reads comes from the cache of the     *)
(* manager, which watches each kind of object by itself and may be behind. *)
(***************************************************************************)
EXTENDS Naturals

CONSTANTS
  BackoffLimit,  \* Spec.BackoffLimit
  Budgets        \* bounds, one set of them for each initial state: how many
                 \* failing requests, reads from a cache that is behind,
                 \* removals of a finished Job, deadlines and deletions of the
                 \* PrisnJob there may be

VARIABLES
  job,      \* the PrisnJob object
  cm,       \* is its ConfigMap there?
  k8s,      \* the Kubernetes Job
  made,     \* how many Kubernetes Jobs were made
  won,      \* did a pod of one of them succeed?
  queued,   \* is the job in the work queue?
  pc,       \* where the reconciler is
  mine,     \* its copy of the job
  seen,     \* its copy of the Kubernetes Job
  cache,    \* the three objects as the cache has them
  left      \* what is left of the budget

vars == <<job, cm, k8s, made, won, queued, pc, mine, seen, cache, left>>

-----------------------------------------------------------------------------

NoJob == [there |-> FALSE, active |-> FALSE, failed |-> 0, succeeded |-> FALSE,
          deadline |-> FALSE, volumes |-> {}, init |-> {}]

NoCopy == [state |-> "none", finalizer |-> FALSE, phase |-> "", inline |-> FALSE]

Spend(what) == left[what] > 0 /\ left' = [left EXCEPT ![what] = @ - 1]

\* A read from the cache, which may be behind.
Reads(inCache, there) == IF inCache = there THEN UNCHANGED left ELSE Spend("stale")

Terminal(phase) == phase \in {"Succeeded", "Failed"}

\* buildVolumes: inline code is mounted from its ConfigMap.
buildVolumes(j) == IF j.inline THEN {"cm"} ELSE {"emptydir"}

\* buildInitContainers: a git source is cloned first.
buildInitContainers(j) == IF j.inline THEN {} ELSE {"git-clone"}

\* updateStatusFromJob: no limit means three, as in buildJob.
Limit == IF BackoffLimit = 0 THEN 3 ELSE BackoffLimit

\* updateStatusFromJob: the phase, from the counts and the condition.
PhaseOf(j) ==
  CASE j.deadline                    -> "Failed"
    [] j.succeeded                   -> "Succeeded"
    [] j.failed >= Limit             -> "Failed"
    [] j.failed > 0 \/ j.active      -> "Running"
    [] OTHER                         -> "Pending"

\* buildJob: the Job as it is made.
buildJob(j) ==
  [NoJob EXCEPT !.there = TRUE, !.volumes = buildVolumes(j),
                !.init = buildInitContainers(j)]

Init ==
  /\ \E i \in BOOLEAN :
       job = [state |-> "there", finalizer |-> FALSE, phase |-> "", inline |-> i]
  /\ cm = FALSE
  /\ k8s = NoJob
  /\ made = 0
  /\ won = FALSE
  /\ queued = TRUE
  /\ pc = "idle"
  /\ mine = NoCopy
  /\ seen = NoJob
  /\ cache = [job |-> job, cm |-> cm, k8s |-> k8s]
  /\ left \in Budgets

-----------------------------------------------------------------------------
(* The reconciler *)

\* The end of a Reconcile; its copies go.
Done(again) ==
  /\ pc' = "idle" /\ mine' = NoCopy /\ seen' = NoJob
  /\ queued' = (queued \/ again)

\* Mutant: a finished job is looked at again.
SkipNever(phase) == FALSE

\* Reconcile leaves a job alone that has ended.
Skip(phase) == Terminal(phase)

\* Reconcile, to the choice of what to do.
Fetch ==
  LET j == cache.job IN
  /\ pc = "idle"
  /\ queued
  /\ queued' = FALSE
  /\ pc' = CASE j.state = "gone"     -> "idle"
             [] j.state = "deleting" -> "delete"
             [] ~ j.finalizer        -> "finalizer"
             [] Skip(j.phase)        -> "idle"
             [] j.inline             -> "source"
             [] OTHER                -> "job"
  /\ mine' = IF pc' = "idle" THEN NoCopy ELSE j
  /\ Reads(j, job)
  /\ UNCHANGED <<job, cm, k8s, made, won, seen, cache>>

\* A write is refused when the PrisnJob is no longer the one that was read.
handleDeletion ==
  /\ pc = "delete"
  /\ IF mine = job THEN job' = [job EXCEPT !.state = "gone"] ELSE UNCHANGED job
  /\ Done(mine # job)
  /\ UNCHANGED <<cm, k8s, made, won, cache, left>>

AddFinalizer ==
  /\ pc = "finalizer"
  /\ IF mine = job THEN job' = [job EXCEPT !.finalizer = TRUE] ELSE UNCHANGED job
  /\ Done(TRUE)
  /\ UNCHANGED <<cm, k8s, made, won, cache, left>>

\* reconcileInlineSource: to create what the cache does not have yet but the
\* server does is an error.
reconcileInlineSource ==
  /\ pc = "source"
  /\ \/ ~ cache.cm /\ cm /\ Done(TRUE) /\ UNCHANGED cm
     \/ /\ cache.cm \/ ~ cm
        /\ cm' = (cm \/ ~ cache.cm)
        /\ pc' = "job"
        /\ UNCHANGED <<queued, mine, seen>>
  /\ Reads(cache.cm, cm)
  /\ UNCHANGED <<job, k8s, made, won, cache>>

\* reconcileJob: a Job that the cache does not have is made, also one that was
\* there; an error if the server has it.  The copy then reads Pending.
reconcileJob ==
  /\ pc = "job"
  /\ \/ cache.k8s.there /\ pc' = "read" /\ UNCHANGED <<k8s, made, queued, mine, seen>>
     \/ ~ cache.k8s.there /\ k8s.there /\ Done(TRUE) /\ UNCHANGED <<k8s, made>>
     \/ /\ ~ cache.k8s.there /\ ~ k8s.there
        /\ k8s' = buildJob(mine)
        /\ made' = made + 1
        /\ pc' = "made"
        /\ UNCHANGED <<queued, mine, seen>>
  /\ Reads(cache.k8s, k8s)
  /\ UNCHANGED <<job, cm, won, cache>>

\* updateStatusFromJob reads the Job; nothing is written when it is not found,
\* which a Job just made may be.
ReadJob ==
  /\ pc \in {"read", "made"}
  /\ IF cache.k8s.there
       THEN pc' = "status" /\ seen' = cache.k8s /\ UNCHANGED <<queued, mine>>
       ELSE Done(pc = "made" \/ mine.phase \in {"Running", "Pending"})
  /\ Reads(cache.k8s, k8s)
  /\ UNCHANGED <<job, cm, k8s, made, won, cache>>

\* The write of the status.
UpdateStatus ==
  /\ pc = "status"
  /\ IF mine = job
       THEN /\ job' = [job EXCEPT !.phase = PhaseOf(seen)]
            /\ Done(~ Terminal(PhaseOf(seen)))
       ELSE UNCHANGED job /\ Done(TRUE)
  /\ UNCHANGED <<cm, k8s, made, won, cache, left>>

\* A request fails: the error brings the job back; Failed is not written.
Fail ==
  /\ pc # "idle"
  /\ Spend("failures")
  /\ Done(TRUE)
  /\ UNCHANGED <<job, cm, k8s, made, won, cache>>

ReconcileStep ==
  \/ Fetch \/ handleDeletion \/ AddFinalizer \/ reconcileInlineSource
  \/ reconcileJob \/ ReadJob \/ UpdateStatus

-----------------------------------------------------------------------------
(* Kubernetes *)

\* A Job has ended when a pod succeeded, when more pods failed than the limit
\* allows retries, or at its deadline.
Finished == k8s.succeeded \/ k8s.deadline \/ k8s.failed > Limit

\* A pod waits for the volumes it mounts.  It is active also while its init
\* containers run.
PodStarts ==
  /\ k8s.there /\ ~ k8s.active /\ ~ Finished
  /\ "cm" \in k8s.volumes => cm
  /\ k8s' = [k8s EXCEPT !.active = TRUE]
  /\ UNCHANGED <<job, cm, made, won, queued, pc, mine, seen, cache, left>>

PodEnds ==
  /\ k8s.active
  /\ \/ k8s' = [k8s EXCEPT !.active = FALSE, !.succeeded = TRUE] /\ won' = TRUE
     \/ k8s' = [k8s EXCEPT !.active = FALSE, !.failed = @ + 1] /\ UNCHANGED won
  /\ UNCHANGED <<job, cm, made, queued, pc, mine, seen, cache, left>>

Deadline ==
  /\ k8s.there /\ ~ Finished
  /\ Spend("deadlines")
  /\ k8s' = [k8s EXCEPT !.active = FALSE, !.deadline = TRUE]
  /\ UNCHANGED <<job, cm, made, won, queued, pc, mine, seen, cache>>

\* TTLSecondsAfterFinished.
Expire ==
  /\ k8s.there /\ Finished
  /\ Spend("expiries")
  /\ k8s' = NoJob
  /\ UNCHANGED <<job, cm, made, won, queued, pc, mine, seen, cache>>

\* Somebody deletes the PrisnJob.
Delete ==
  /\ job.state = "there"
  /\ Spend("deletes")
  /\ job' = [job EXCEPT !.state = IF job.finalizer THEN "deleting" ELSE "gone"]
  /\ UNCHANGED <<cm, k8s, made, won, queued, pc, mine, seen, cache>>

\* The garbage collector.
Collect ==
  /\ job.state = "gone"
  /\ k8s.there \/ cm
  /\ k8s' = NoJob
  /\ cm' = FALSE
  /\ UNCHANGED <<job, made, won, queued, pc, mine, seen, cache, left>>

\* A watch brings the present state of one of the objects into the cache, and
\* the PrisnJob into the queue.
Watch ==
  /\ \/ cache.job # job /\ cache' = [cache EXCEPT !.job = job]
     \/ cache.cm # cm /\ cache' = [cache EXCEPT !.cm = cm]
     \/ cache.k8s # k8s /\ cache' = [cache EXCEPT !.k8s = k8s]
  /\ queued' = TRUE
  /\ UNCHANGED <<job, cm, k8s, made, won, pc, mine, seen, left>>

-----------------------------------------------------------------------------

Next ==
  \/ ReconcileStep \/ Fail
  \/ PodStarts \/ PodEnds \/ Deadline \/ Expire \/ Delete \/ Collect \/ Watch

Spec == Init /\ [][Next]_vars

\* The queue is worked off, the cache catches up, pods start and end.
Fairness ==
  /\ WF_vars(ReconcileStep) /\ WF_vars(Watch)
  /\ WF_vars(PodStarts) /\ WF_vars(PodEnds) /\ WF_vars(Collect)

FairSpec == Spec /\ Fairness

-----------------------------------------------------------------------------
(* Properties *)

\* A job that reads Succeeded or Failed is not run again: the code does not keep
\* it when its Kubernetes Job is removed and the cache shows that before it shows
\* the end.
NeverAgain == [][Terminal(job.phase) => made' = made]_vars

\* What it keeps: such a job keeps its phase, although the reconciler may work on
\* a copy from before its end, and one that knows the end does not run it again.
FinalStays ==
  [][Terminal(job.phase) => /\ job'.phase = job.phase
                            /\ Terminal(mine.phase) => made' = made]_vars

\* A job that reads Succeeded did succeed, and every job comes to read one or
\* the other, whatever requests fail, unless it is deleted.
JobEnds ==
  /\ <>(Terminal(job.phase) \/ job.state # "there")
  /\ [](job.phase = "Succeeded" => won)

\* operator/api/v1alpha1/types.go:302, "BackoffLimit is the number of retries
\* before marking failed": a job that reads Failed has no retry left.
FailedAfterRetries ==
  (job.phase = "Failed" /\ k8s.there) => Finished

=============================================================================
