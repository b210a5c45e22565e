---------------------------- MODULE PrisnCronJob ----------------------------
(***************************************************************************)
(* The PrisnCronJob controller of the Kubernetes operator: one cron job,   *)
(* the PrisnJobs it makes, one for a scheduled time, and the controller of *)
(* those, which gives each a phase and takes it to its end.                *)
(*                                                                         *)
(* A step of the reconciler is one request to the API server; time passes, *)
(* jobs go on and users come between any two.  What it reads comes from    *)
(* the cache of the manager, which watches the server and may be behind.   *)
(***************************************************************************)
EXTENDS Integers, FiniteSets, FiniteSetsExt

CONSTANTS
  Scheduled,     \* the times the schedule matches
  Deadlines,     \* values of Spec.StartingDeadlineSeconds, 0 for none
  SuccessLimit,  \* Spec.SuccessfulJobsHistoryLimit
  FailLimit,     \* Spec.FailedJobsHistoryLimit
  TooLong,       \* 100 days
  MaxTime,       \* bound: the last time
  Budgets        \* bounds, one set of them for each initial state: how many
                 \* failing requests, reads from a cache that is behind,
                 \* suspensions and deletions there may be

\* Times are counted from 1, in any unit, and a deadline is a number of them.
ASSUME CronJobAssumption == Scheduled \subseteq Nat \ {0} /\ Deadlines \subseteq Nat

VARIABLES
  policy,   \* Spec.ConcurrencyPolicy
  now,      \* the time
  cron,     \* the PrisnCronJob object
  child,    \* child[t]: the PrisnJob for the scheduled time t
  cache,    \* the cron job and the PrisnJobs as the cache has them
  queued,   \* is the cron job in the work queue?
  wake,     \* the time RequeueAfter puts it there, or 0
  rec,      \* the reconciler: where it is, its copy of the cron job, the jobs
            \* it saw under way, those it could not see (history) and the run
            \* it has to start
  overlooked,  \* history: the jobs that could not be seen when one was started
  left      \* what is left of the budget

vars == <<policy, now, cron, child, cache, queued, wake, rec, overlooked, left>>

-----------------------------------------------------------------------------

NoCron == [state |-> "there", finalizer |-> FALSE, suspend |-> FALSE,
           deadline |-> 0, last |-> 0]

Resting == [pc |-> "idle", mine |-> NoCron, active |-> {}, unseen |-> {},
            due |-> 0]

NoChild == [state |-> "none", phase |-> "", ended |-> 0]

Spend(what) == left[what] > 0 /\ left' = [left EXCEPT ![what] = @ - 1]

\* A read from the cache, which may be behind.
Reads(inCache, there) == IF inCache = there THEN UNCHANGED left ELSE Spend("stale")

With(jobs, phases) ==
  {t \in Scheduled : /\ jobs[t].state \in {"there", "deleting"}
                     /\ jobs[t].phase \in phases}

\* The jobs that are there: their names are taken.
Taken == {t \in Scheduled : child[t].state \in {"there", "deleting"}}

\* listChildJobs, from the cache.
Listed(phases) == With(cache.jobs, phases)

\* The next time after u, or one past the end of the model.
NextTime(u) == Min({t \in Scheduled : t > u} \cup {MaxTime + 1})

\* getMissedRun: where it begins to look.
Earliest(c) ==
  IF c.deadline = 0 THEN c.last ELSE Max({c.last, now - c.deadline})

Missed(c) == {t \in Scheduled : Earliest(c) < t /\ t <= now}

\* Mutant: only a run that is due this minute.
getMissedRunNow(c) == IF now \in Missed(c) THEN now ELSE 0

\* getMissedRun: the latest missed run, 0 if there is none.
getMissedRun(c) == IF Missed(c) = {} THEN 0 ELSE Max(Missed(c))

\* getMissedRun gives up when it has looked over more than 100 days.
GivesUp(c) == \E t \in Missed(c) : t - Earliest(c) > TooLong

\* The oldest jobs beyond a limit: those cleanupOldJobs may choose.
Excess(S, limit) ==
  {D \in SUBSET S :
     /\ Cardinality(D) = IF Cardinality(S) > limit THEN Cardinality(S) - limit ELSE 0
     /\ \A d \in D, k \in S \ D : cache.jobs[d].ended <= cache.jobs[k].ended}

Init ==
  /\ policy \in {"Allow", "Forbid", "Replace"}
  /\ now = 0
  /\ \E d \in Deadlines : cron = [NoCron EXCEPT !.deadline = d]
  /\ child = [t \in Scheduled |-> NoChild]
  /\ cache = [cron |-> cron, jobs |-> child]
  /\ queued = TRUE
  /\ wake = 0
  /\ rec = Resting
  /\ overlooked = {}
  /\ left \in Budgets

-----------------------------------------------------------------------------
(* The reconciler *)

Done(again) == rec' = Resting /\ queued' = (queued \/ again)

Fetch ==
  LET c == cache.cron IN
  /\ rec.pc = "idle"
  /\ queued
  /\ queued' = FALSE
  /\ rec' = IF c.state = "gone" \/ (c.state = "there" /\ c.finalizer /\ c.suspend)
               THEN Resting
               ELSE [Resting EXCEPT !.mine = c,
                                    !.pc = CASE c.state = "deleting" -> "delete"
                                             [] ~ c.finalizer -> "finalizer"
                                             [] OTHER -> "list"]
  /\ Reads(c, cron)
  /\ UNCHANGED <<policy, now, cron, child, cache, wake, overlooked>>

\* A write is refused when the cron job is no longer the one that was read.
handleDeletion ==
  /\ rec.pc = "delete"
  /\ IF rec.mine = cron THEN cron' = [cron EXCEPT !.state = "gone"] ELSE UNCHANGED cron
  /\ Done(rec.mine # cron)
  /\ UNCHANGED <<policy, now, child, cache, wake, overlooked, left>>

AddFinalizer ==
  /\ rec.pc = "finalizer"
  /\ IF rec.mine = cron THEN cron' = [cron EXCEPT !.finalizer = TRUE] ELSE UNCHANGED cron
  /\ Done(TRUE)
  /\ UNCHANGED <<policy, now, child, cache, wake, overlooked, left>>

\* Mutant: a job that waits for its pod does not count.
updateActiveJobsRunning == Listed({"Running"})

\* updateActiveJobs: a job the other controller has not seen has no phase, and
\* does not count.
updateActiveJobs == Listed({"Pending", "Running"})

\* The jobs no look at the list can see under way: they have no phase yet, or
\* the cache has not got their present state.
Hidden == {t \in Taken : child[t].phase = "" \/ cache.jobs[t] # child[t]}

\* Jobs are told to go; nobody waits until they have gone.
Remove(D) ==
  child' = [t \in Scheduled |->
              IF t \in D \cap Taken THEN [child[t] EXCEPT !.state = "deleting"]
                ELSE child[t]]

\* listChildJobs, updateActiveJobs and cleanupOldJobs.
List ==
  /\ rec.pc = "list"
  /\ rec' = [rec EXCEPT !.active = updateActiveJobs, !.unseen = Hidden,
                        !.pc = "decide"]
  /\ \E D \in Excess(Listed({"Succeeded"}), SuccessLimit),
        F \in Excess(Listed({"Failed"}), FailLimit) : Remove(D \cup F)
  /\ Reads(cache.jobs, child)
  /\ UNCHANGED <<policy, now, cron, cache, queued, wake, overlooked>>

\* The clock is read: is there a run to start?  A run whose deadline has
\* passed is none: getMissedRun begins after it.
Decide ==
  LET t == getMissedRun(rec.mine) IN
  /\ rec.pc = "decide"
  /\ IF GivesUp(rec.mine)
       THEN Done(FALSE) /\ UNCHANGED wake
       ELSE /\ wake' = NextTime(now)
            /\ rec' = [rec EXCEPT !.due = t, !.pc =
                         IF t = 0 \/ (policy = "Forbid" /\ rec.active # {}) THEN "status"
                         ELSE IF policy = "Replace" /\ rec.active # {} THEN "replace"
                         ELSE "create"]
            /\ UNCHANGED queued
  /\ UNCHANGED <<policy, now, cron, child, cache, overlooked, left>>

Replace ==
  /\ rec.pc = "replace"
  /\ Remove(rec.active)
  /\ rec' = [rec EXCEPT !.active = {}, !.pc = "create"]
  /\ UNCHANGED <<policy, now, cron, cache, queued, wake, overlooked, left>>

\* createJobFromTemplate: the name is that of the time, and a job that has it
\* already is an error.
createJobFromTemplate ==
  /\ rec.pc = "create"
  /\ IF rec.due \in Taken
       THEN Done(TRUE) /\ UNCHANGED <<child, overlooked>>
       ELSE /\ child' = [child EXCEPT ![rec.due] = [NoChild EXCEPT !.state = "there"]]
            /\ overlooked' = (overlooked \cup rec.unseen) \ {rec.due}
            /\ rec' = [rec EXCEPT !.pc = "started"]
            /\ UNCHANGED queued
  /\ UNCHANGED <<policy, now, cron, cache, wake, left>>

\* The write of the status, with the time of the run that was started.
UpdateStatus ==
  /\ rec.pc \in {"status", "started"}
  /\ IF rec.mine = cron /\ rec.pc = "started"
       THEN cron' = [cron EXCEPT !.last = rec.due] ELSE UNCHANGED cron
  /\ Done(rec.mine # cron)
  /\ UNCHANGED <<policy, now, child, cache, wake, overlooked, left>>

Fail ==
  /\ rec.pc # "idle"
  /\ Spend("failures")
  /\ Done(TRUE)
  /\ UNCHANGED <<policy, now, cron, child, cache, wake, overlooked>>

ReconcileStep ==
  \/ Fetch \/ handleDeletion \/ AddFinalizer \/ List \/ Decide \/ Replace
  \/ createJobFromTemplate \/ UpdateStatus

-----------------------------------------------------------------------------
(* Time, users and the PrisnJobs *)

\* Time passes, whatever is under way: a schedule in seconds (@every) and a
\* controller that is slow both let the next time come in between.
Tick ==
  /\ now < MaxTime
  /\ now' = now + 1
  /\ UNCHANGED <<policy, cron, child, cache, queued, wake, rec, overlooked, left>>

Wake ==
  /\ wake # 0 /\ wake <= now
  /\ wake' = 0
  /\ queued' = TRUE
  /\ UNCHANGED <<policy, now, cron, child, cache, rec, overlooked, left>>

\* One of the two watches brings the present state of the cron job or of the
\* PrisnJobs into the cache, and the cron job into the queue.
Watch ==
  /\ \/ cache.cron # cron /\ cache' = [cache EXCEPT !.cron = cron]
     \/ cache.jobs # child /\ cache' = [cache EXCEPT !.jobs = child]
  /\ queued' = TRUE
  /\ UNCHANGED <<policy, now, cron, child, wake, rec, overlooked, left>>

Suspend ==
  /\ cron.state = "there"
  /\ cron.suspend \/ Spend("suspends")
  /\ cron.suspend => UNCHANGED left
  /\ cron' = [cron EXCEPT !.suspend = ~ @]
  /\ UNCHANGED <<policy, now, child, cache, queued, wake, rec, overlooked>>

Delete ==
  /\ cron.state = "there"
  /\ Spend("deletes")
  /\ cron' = [cron EXCEPT !.state = IF cron.finalizer THEN "deleting" ELSE "gone"]
  /\ UNCHANGED <<policy, now, child, cache, queued, wake, rec, overlooked>>

\* The PrisnJob controller, in its own time: a new job has no phase until its
\* Kubernetes Job could be made and read.  A job that was deleted goes.
JobStep(t) ==
  LET c == child[t] IN
  /\ c.state \in {"there", "deleting"}
  /\ \/ /\ c.state = "deleting" \/ cron.state = "gone"
        /\ child' = [child EXCEPT ![t] = [NoChild EXCEPT !.state = "gone"]]
     \/ /\ c.state = "there" /\ c.phase \in {"", "Pending"}
        /\ child' = [child EXCEPT ![t].phase = IF @ = "" THEN "Pending" ELSE "Running"]
     \/ /\ c.state = "there" /\ c.phase = "Running"
        /\ \E p \in {"Succeeded", "Failed"} :
             child' = [child EXCEPT ![t].phase = p, ![t].ended = now]
  /\ UNCHANGED <<policy, now, cron, cache, queued, wake, rec, overlooked, left>>

-----------------------------------------------------------------------------

Next ==
  \/ ReconcileStep \/ Fail \/ Tick \/ Wake \/ Watch \/ Suspend \/ Delete
  \/ \E t \in Scheduled : JobStep(t)

Spec == Init /\ [][Next]_vars

\* The queue is worked off, time passes, the cache catches up, jobs come to their
\* end.
Fairness ==
  /\ WF_vars(ReconcileStep) /\ WF_vars(Wake) /\ WF_vars(Watch) /\ WF_vars(Tick)
  /\ \A t \in Scheduled : WF_vars(JobStep(t))

FairSpec == Spec /\ Fairness

-----------------------------------------------------------------------------
(* Properties *)

Unfinished == With(child, {"", "Pending", "Running"})

\* docs/KUBERNETES.md:247 lists Forbid: under that policy no two jobs are under
\* way at once.  The code does not keep it for a job that has no phase, or whose
\* phase has not reached the cache, when the reconciler looks at the jobs.
NeverTwo == policy = "Forbid" => Cardinality(Unfinished) <= 1

\* What Forbid does give: but for jobs that were hidden in this way when another
\* was started, no two are under way at once, although jobs start and end, time
\* passes and requests fail between the look, the decision and the start.
ForbidHolds == policy = "Forbid" => Cardinality(Unfinished \ overlooked) <= 1

\* A time that comes while the cron job is there and not suspended is run, or a
\* later one is, whatever failed, unless it took the controller more than 100
\* days or the deadline to get there.
DueRuns ==
  \A t \in Scheduled :
    now >= t ~> \/ \E u \in Scheduled : u >= t /\ child[u].state # "none"
                \/ cron.state # "there" \/ cron.suspend
                \/ cron.deadline # 0 /\ now >= t + cron.deadline
                \/ GivesUp(cron)

=============================================================================
