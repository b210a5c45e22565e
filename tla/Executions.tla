----------------------------- MODULE Executions -----------------------------
(***************************************************************************)
(* The record of a script's run, from the request that asks for it to the  *)
(* row that says how it ended: handleCreateExecution and runExecution of   *)
(* pkg/api/server.go, runScheduledJob of pkg/scheduler, and the executions *)
(* table of pkg/store/store.go with its two clean-ups.                     *)
(*                                                                         *)
(* A run is a goroutine with its own copy of the record; it writes the     *)
(* whole copy each time and ignores what the store answers.  A statement   *)
(* of SQLite is atomic, may fail, and runs on a connection of the pool     *)
(* that may or may not enforce foreign keys: Open sets the pragma on one.  *)
(***************************************************************************)
EXTENDS Naturals, FiniteSets

CONSTANTS Exec,        \* the executions' ids
          Deployment,  \* the deployments
          Budgets      \* bounds on what the environment does, see Init

VARIABLES deployed,    \* the deployments that have a row
          row,         \* the executions table
          job,         \* the goroutine that runs each execution
          reply,       \* what the client that asked for it was answered
          spoiled,     \* the executions a failure of the host has touched
          left         \* what the environment may still do

vars == <<deployed, row, job, reply, spoiled, left>>

Statuses == {"Pending", "Running", "Completed", "Failed"}

Finals == {"Completed", "Failed"}

\* A column without a value.
NULL == "NULL"

\* The deployment_id of a request: none, an id, or a name.
Sources == {[by |-> "source", of |-> NULL]}
             \cup [by : {"id", "name"}, of : Deployment]

NoRow == [status |-> NULL, exit |-> NULL, completed |-> NULL,
          ref |-> [by |-> "source", of |-> NULL], old |-> FALSE]

\* completed_at is the zero time ("zero") until the run is over: the record
\* in memory has no way to say NULL.
NewJob == [pc |-> "idle", kind |-> "none", ref |-> [by |-> "source", of |-> NULL],
           status |-> NULL, exit |-> "zero", completed |-> "zero"]

TypeOK ==
    /\ deployed \subseteq Deployment
    /\ row \in [Exec -> [status : Statuses \cup {NULL},
                         exit : {NULL, "zero", "one"},
                         completed : {NULL, "zero", "recent", "past"},
                         ref : Sources, old : BOOLEAN]]
    /\ job \in [Exec -> [pc : {"idle", "insert", "begin", "run", "save", "reload", "over"},
                         kind : {"none", "sync", "async", "cron"}, ref : Sources,
                         status : Statuses \cup {NULL},
                         exit : {"zero", "one"}, completed : {"zero", "recent"}]]
    /\ reply \in [Exec -> Statuses \cup {"none", "refused", "accepted", "null"}]
    /\ spoiled \subseteq Exec

Init ==
    /\ deployed = Deployment
    /\ row = [e \in Exec |-> NoRow]
    /\ job = [e \in Exec |-> NewJob]
    /\ reply = [e \in Exec |-> "none"]
    /\ spoiled = {}
    /\ left \in Budgets

Present(e) == row[e].status # NULL

Spend(what) ==
    /\ left[what] > 0
    /\ left' = [left EXCEPT ![what] = @ - 1]

\* A statement fails, or not.
MayFail(failed) ==
    IF failed THEN Spend("failures") ELSE UNCHANGED left

-----------------------------------------------------------------------------
(* The executions table.                                                   *)

\* Whether the inserted row breaks REFERENCES deployments(id): a name is not
\* the id of a row, and a deployment may be deleted since it was looked up.
Dangling(ref) ==
    /\ ref.by # "source"
    /\ ~ (ref.by = "id" /\ ref.of \in deployed)

CreateExecution(e, status) ==
    row' = [row EXCEPT ![e] = [NoRow EXCEPT !.status = status, !.ref = job[e].ref]]

\* Changes nothing when the row is gone: no error is raised.
UpdateExecution(e, mem) ==
    row' = IF Present(e)
             THEN [row EXCEPT ![e] = [@ EXCEPT !.status = mem.status, !.exit = mem.exit,
                                               !.completed = mem.completed]]
             ELSE row

\* What a request for one execution reads.
GetExecution(e) == IF Present(e) THEN row[e].status ELSE "null"

\* What a request for the history reads: the scan of a row stops at an exit
\* code without a value, and the whole request with it.
ListExecutions ==
    LET rows == {e \in Exec : Present(e)} IN
    [err |-> \E e \in rows : row[e].exit = NULL, items |-> rows]

\* What a client that polls an execution is answered.
handleGetExecution(e) == IF Present(e) THEN GetExecution(e) ELSE "not found"

\* What a client that asks for the history is answered: a page, or an error.
handleListExecutions == IF ListExecutions.err THEN "error" ELSE "page"

\* ON DELETE SET NULL, where the connection enforces it.
DeleteDeployment(d) ==
    /\ d \in deployed
    /\ Spend("deletes")
    /\ deployed' = deployed \ {d}
    /\ \E enforced \in BOOLEAN :
         row' = [e \in Exec |->
                   IF enforced /\ row[e].ref = [by |-> "id", of |-> d]
                     THEN [row[e] EXCEPT !.ref = NoRow.ref] ELSE row[e]]
    /\ UNCHANGED <<job, reply, spoiled>>

\* The rows CleanupRunningExecutionsOlderThan marks.
Abandoned(e) == row[e].status = "Running" /\ row[e].old

\* No caller outside the tests: it may happen, nothing makes it happen.
CleanupRunningExecutionsOlderThan ==
    /\ Spend("cleanups")
    /\ row' = [e \in Exec |->
                 IF Abandoned(e)
                   THEN [row[e] EXCEPT !.status = "Failed", !.completed = "recent"]
                   ELSE row[e]]
    /\ UNCHANGED <<deployed, job, reply, spoiled>>

\* The zero time of a run that is not over is before every cutoff.
CleanupOldExecutions ==
    /\ Spend("cleanups")
    /\ row' = [e \in Exec |->
                 IF row[e].completed \in {"zero", "past"} THEN NoRow ELSE row[e]]
    /\ spoiled' = spoiled \cup {e \in Exec : row[e].completed = "zero"}
    /\ UNCHANGED <<deployed, job, reply>>

\* Longer than the clean-ups' ages goes by.
Age ==
    /\ Spend("ages")
    /\ row' = [e \in Exec |->
                 [row[e] EXCEPT !.old = Present(e),
                                !.completed = IF @ = "recent" THEN "past" ELSE @]]
    /\ UNCHANGED <<deployed, job, reply, spoiled>>

-----------------------------------------------------------------------------
(* A run.                                                                  *)

\* The request is read: a deployment named by id or by name must have a row,
\* a request without one must bring a source.
handleCreateExecution(e, kind, ref) ==
    /\ job[e].pc = "idle"
    /\ kind \in left.kinds
    /\ IF ref.by = "source" \/ ref.of \in deployed
         THEN /\ job' = [job EXCEPT ![e] = [NewJob EXCEPT !.pc = "insert", !.kind = kind,
                                                          !.ref = ref]]
              /\ UNCHANGED reply
         ELSE /\ job' = [job EXCEPT ![e].pc = "over"]
              /\ reply' = [reply EXCEPT ![e] = "refused"]
    /\ UNCHANGED <<deployed, row, spoiled, left>>

\* A schedule is due and its deployment is found; a scheduled run has no
\* client and is recorded as running at once.
runScheduledJob(e, d) ==
    /\ job[e].pc = "idle"
    /\ "cron" \in left.kinds
    /\ d \in deployed
    /\ job' = [job EXCEPT ![e] = [NewJob EXCEPT !.pc = "insert", !.kind = "cron",
                                                !.ref = [by |-> "id", of |-> d]]]
    /\ UNCHANGED <<deployed, row, reply, spoiled, left>>

\* The row is inserted; an asynchronous request is answered with it.
Insert(e) ==
    /\ job[e].pc = "insert"
    /\ \E failed, enforced \in BOOLEAN :
         /\ MayFail(failed)
         /\ IF failed \/ (enforced /\ Dangling(job[e].ref))
              THEN /\ job' = [job EXCEPT ![e].pc = "over"]
                   /\ reply' = [reply EXCEPT ![e] = IF job[e].kind = "cron" THEN @ ELSE "refused"]
                   /\ UNCHANGED row
              ELSE /\ CreateExecution(e, IF job[e].kind = "cron" THEN "Running" ELSE "Pending")
                   /\ job' = [job EXCEPT ![e].pc = IF job[e].kind = "cron" THEN "run" ELSE "begin",
                                         ![e].status = IF job[e].kind = "cron" THEN "Running"
                                                       ELSE "Pending"]
                   /\ reply' = [reply EXCEPT ![e] = IF job[e].kind = "async" THEN "accepted" ELSE @]
         /\ spoiled' = IF failed THEN spoiled \cup {e} ELSE spoiled
    /\ UNCHANGED deployed

\* A run's copy of its record is written; what the store answers is ignored.
Write(e, mem) ==
    \E failed \in BOOLEAN :
      /\ MayFail(failed)
      /\ IF failed THEN UNCHANGED row ELSE UpdateExecution(e, mem)
      /\ spoiled' = IF failed THEN spoiled \cup {e} ELSE spoiled

\* runExecution marks the record as running.
Begin(e) ==
    /\ job[e].pc = "begin"
    /\ LET mem == [job[e] EXCEPT !.pc = "run", !.status = "Running"] IN
         /\ job' = [job EXCEPT ![e] = mem]
         /\ Write(e, mem)
    /\ UNCHANGED <<deployed, reply>>

\* Mutant of Outcome: the path of the error forgets the status.
OutcomeForgets(mem, how) ==
    [mem EXCEPT !.pc = "save", !.completed = "recent",
                !.exit = IF how = "one" THEN "one" ELSE "zero",
                !.status = IF how = "zero" THEN "Completed"
                           ELSE IF how = "one" THEN "Failed" ELSE @]

\* The record of a run that ended with an error (a timeout that does not
\* parse included), with a code, or by a panic.
Outcome(mem, how) ==
    [mem EXCEPT !.pc = "save", !.completed = "recent",
                !.exit = IF how = "one" THEN "one" ELSE "zero",
                !.status = IF how = "zero" THEN "Completed" ELSE "Failed"]

\* The runner returns.
Ran(e) ==
    /\ job[e].pc = "run"
    /\ \E how \in {"error", "zero", "one"} : job' = [job EXCEPT ![e] = Outcome(job[e], how)]
    /\ UNCHANGED <<deployed, row, reply, spoiled, left>>

\* The runner panics.  An asynchronous run recovers and records it; the
\* server recovers a request's goroutine but not its record; a scheduled run
\* takes the process with it, which is Crash.
Panic(e) ==
    /\ job[e].pc = "run"
    /\ Spend("failures")
    /\ \/ /\ job[e].kind = "async"
          /\ job' = [job EXCEPT ![e] = Outcome(job[e], "error")]
          /\ UNCHANGED spoiled
       \/ /\ job[e].kind = "sync"
          /\ job' = [job EXCEPT ![e].pc = "over"]
          /\ spoiled' = spoiled \cup {e}
    /\ UNCHANGED <<deployed, row, reply>>

\* Where a run goes once its result is written.
AfterSave(e) == IF job[e].kind = "sync" THEN "reload" ELSE "over"

\* The result is written.
Save(e) ==
    /\ job[e].pc = "save"
    /\ job' = [job EXCEPT ![e].pc = AfterSave(e)]
    /\ Write(e, job[e])
    /\ UNCHANGED <<deployed, reply>>

\* A synchronous request answers with what the table says.
Reload(e) ==
    /\ job[e].pc = "reload"
    /\ job' = [job EXCEPT ![e].pc = "over"]
    /\ reply' = [reply EXCEPT ![e] = GetExecution(e)]
    /\ UNCHANGED <<deployed, row, spoiled, left>>

\* The process ends and starts again: the goroutines are gone, the rows stay.
Crash ==
    /\ Spend("crashes")
    /\ spoiled' = spoiled \cup {e \in Exec : job[e].pc \notin {"idle", "over"}}
    /\ job' = [e \in Exec |-> IF job[e].pc = "idle" THEN job[e]
                              ELSE [job[e] EXCEPT !.pc = "over"]]
    /\ UNCHANGED <<deployed, row, reply>>

Next ==
    \/ \E e \in Exec : \/ \E kind \in {"sync", "async"}, ref \in Sources :
                            handleCreateExecution(e, kind, ref)
                       \/ \E d \in Deployment : runScheduledJob(e, d)
                       \/ Insert(e) \/ Begin(e) \/ Ran(e) \/ Panic(e) \/ Save(e) \/ Reload(e)
    \/ \E d \in Deployment : DeleteDeployment(d)
    \/ CleanupRunningExecutionsOlderThan
    \/ CleanupOldExecutions
    \/ Age
    \/ Crash

\* Goroutines run, and every run ends: it has a timeout.
Fairness ==
    \A e \in Exec : /\ WF_vars(Insert(e)) /\ WF_vars(Begin(e)) /\ WF_vars(Ran(e))
                    /\ WF_vars(Save(e)) /\ WF_vars(Reload(e))

Spec == Init /\ [][Next]_vars

FairSpec == Spec /\ Fairness

-----------------------------------------------------------------------------
(* Properties.                                                             *)

\* A run whose record says it ended never reads as running or pending again,
\* whatever a clean-up and the run's own late write do to it (runExecution,
\* server.go:1123, and the clean-up, store.go:625, write the same row without
\* looking at it).
FinalStays ==
    [][\A e \in Exec : row[e].status \in Finals
                         => row'[e].status \in Finals \cup {NULL}]_vars

\* A client that polls a run it was given reads in the end that it ended,
\* unless a statement or a goroutine failed, or its row was taken away (server.go:1123).
RunEnds ==
    \A e \in Exec : Present(e) ~> \/ handleGetExecution(e) \in Finals \cup {"not found"}
                                  \/ e \in spoiled

\* A request that names a deployment that exists is recorded and run
\* (docs/SERVICES-INTERACTION.md:41 triggers an execution by name).
TriggerByName ==
    \A e \in Exec : (job[e].ref.by = "name" /\ job[e].ref.of \in deployed)
                      => (reply[e] = "refused" => e \in spoiled)

\* The history can be read at any time
\* (docs/SERVICES-INTERACTION.md:54, "List execution history").
HistoryListed == handleListExecutions = "page"

=============================================================================
