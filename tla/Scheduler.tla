----------------------------- MODULE Scheduler -----------------------------
(***************************************************************************)
(* The cron scheduler of pkg/scheduler/scheduler.go over its table of      *)
(* schedules: the loop that looks for due schedules, one goroutine per     *)
(* run, the semaphore that bounds them, Stop, and the end of the process.  *)
(*                                                                         *)
(* The unit of time is the interval of the ticker.  A step of a run is one *)
(* statement on the store, so that other runs, the loop and the API come   *)
(* between any two of them.  Schedules and executions are rows and outlive *)
(* the process; everything else is lost with it.                           *)
(***************************************************************************)
EXTENDS Integers, Sequences, FiniteSets, FiniteSetsExt, SequencesExt

CONSTANTS
  Schedule,     \* cron schedules, one for each deployment
  Matching,     \* Matching[s]: the times the expression of s matches
  MaxWorkers,   \* Config.MaxWorkers
  Fallback,     \* 30 seconds, in ticks
  MaxTime,      \* bound: the last time
  MaxRuns,      \* bound: runs
  MaxFaults     \* bound: ends of the process and failures of the store

ASSUME SchedulerAssumption ==
  /\ IsFiniteSet(Schedule) /\ Schedule # {}
  /\ Matching \in [Schedule -> SUBSET Nat]
  /\ MaxWorkers \in Nat \ {0}
  /\ Fallback \in Nat \ {0}
  /\ MaxTime \in Nat \ {0}
  /\ MaxRuns \in Nat
  /\ MaxFaults \in Nat

VARIABLES
  now,      \* the time
  ticked,   \* a tick waits in the ticker's channel
  deployed, \* the deployments that exist
  row,      \* row[s]: a row of cron_schedules
  loop,     \* the goroutine of Start: its phase and the schedules to run
  running,  \* Scheduler.running
  stopCh,   \* is stopCh closed?
  slots,    \* values in the semaphore channel
  run,      \* run[r]: the goroutine of a run
  exec,     \* exec[r]: the status of its row of executions
  runs,     \* how many runs there have been
  up,       \* is the process alive?
  crashes,  \* how often it ended
  failures  \* how often the store failed

vars == <<now, ticked, deployed, row, loop, running, stopCh, slots, run, exec,
          runs, up, crashes, failures>>

-----------------------------------------------------------------------------

Run == 1..MaxRuns

NoRow == [state |-> "new", next |-> 0]

Idle == [phase |-> "off", due |-> << >>]

NoRun == [sched |-> CHOOSE s \in Schedule : TRUE, phase |-> "none",
          due |-> 0, next |-> 0]

\* The zero time comes before every other.
ZeroTime == 0

\* cron.go's NextAfter: nothing to find gives the zero time.
NextAfter(s, t) ==
  LET later == {u \in Matching[s] : u > t}
  IN IF later = {} THEN ZeroTime ELSE Min(later)

Due(s) == row[s].state = "there" /\ row[s].next <= now

\* The rows of GetDueCronSchedules: the due schedules by their next run, with
\* the time each was due.
DueLists ==
  LET due == {s \in Schedule : Due(s)} IN
  {q \in SetToSeqs({<<s, row[s].next>> : s \in due}) :
     \A i, j \in DOMAIN q : i < j => q[i][2] <= q[j][2]}

\* The store fails: for one statement, or for the next one too.
Fails ==
  /\ crashes + failures < MaxFaults
  /\ failures' = failures + 1

Works == UNCHANGED failures

Active == {r \in Run : run[r].phase \notin {"none", "done"}}

-----------------------------------------------------------------------------
(* Deployments come and go *)

\* A cronjob deployment is created and RegisterDeployment adds its schedule.
RegisterDeployment(s) ==
  /\ up
  /\ row[s].state = "new"
  /\ deployed' = deployed \cup {s}
  /\ row' = [row EXCEPT ![s] = [state |-> "there", next |-> NextAfter(s, now)]]
  /\ UNCHANGED <<now, ticked, loop, running, stopCh, slots, run, exec, runs,
                 up, crashes, failures>>

\* A deployment is deleted.  Foreign keys are switched on for one connection
\* of the pool: on another one the schedule stays.
DeleteDeployment(s) ==
  /\ up
  /\ s \in deployed
  /\ deployed' = deployed \ {s}
  /\ \/ row' = [row EXCEPT ![s].state = "gone"]
     \/ UNCHANGED row
  /\ UNCHANGED <<now, ticked, loop, running, stopCh, slots, run, exec, runs,
                 up, crashes, failures>>

-----------------------------------------------------------------------------
(* The loop *)

\* Time passes; the ticker's channel holds one tick.  At the bound the clock
\* stands and the ticks go on.
Tick ==
  /\ now' = IF now < MaxTime THEN now + 1 ELSE now
  /\ ticked' = (up /\ loop.phase # "off")
  /\ UNCHANGED <<deployed, row, loop, running, stopCh, slots, run, exec, runs,
                 up, crashes, failures>>

\* The first check, when Start is called, and the query of a later one.
Start ==
  /\ up
  /\ loop.phase = "off" /\ ~ running /\ ~ stopCh
  /\ running' = TRUE
  /\ \E q \in DueLists : loop' = [phase |-> "scan", due |-> q]
  /\ UNCHANGED <<now, ticked, deployed, row, stopCh, slots, run, exec, runs,
                 up, crashes, failures>>

Check ==
  /\ loop.phase = "select" /\ ticked
  /\ ticked' = FALSE
  /\ \/ Works /\ \E q \in DueLists : loop' = [phase |-> "scan", due |-> q]
     \/ Fails /\ UNCHANGED loop
  /\ UNCHANGED <<now, deployed, row, running, stopCh, slots, run, exec, runs,
                 up, crashes>>

\* Acquire the semaphore, waiting while it is full, and start the run.
Dispatch ==
  LET r == runs + 1 IN
  /\ loop.phase = "scan" /\ loop.due # << >>
  /\ slots < MaxWorkers
  /\ runs < MaxRuns
  /\ slots' = slots + 1
  /\ runs' = r
  /\ run' = [run EXCEPT ![r] = [sched |-> Head(loop.due)[1], phase |-> "begin",
                                due |-> Head(loop.due)[2], next |-> 0]]
  /\ loop' = [loop EXCEPT !.due = Tail(@)]
  /\ UNCHANGED <<now, ticked, deployed, row, running, stopCh, exec, up,
                 crashes, failures>>

EndScan ==
  /\ loop.phase = "scan" /\ loop.due = << >>
  /\ loop' = [loop EXCEPT !.phase = "select"]
  /\ UNCHANGED <<now, ticked, deployed, row, running, stopCh, slots, run, exec,
                 runs, up, crashes, failures>>

Stop ==
  /\ up /\ running
  /\ stopCh' = TRUE
  /\ running' = FALSE
  /\ UNCHANGED <<now, ticked, deployed, row, loop, slots, run, exec, runs, up,
                 crashes, failures>>

\* The loop sees stopCh, waits for the runs, and returns.
LoopStops ==
  /\ loop.phase = "select" /\ stopCh
  /\ loop' = [loop EXCEPT !.phase = "draining"]
  /\ UNCHANGED <<now, ticked, deployed, row, running, stopCh, slots, run, exec,
                 runs, up, crashes, failures>>

Drained ==
  /\ loop.phase = "draining"
  /\ slots = 0
  /\ loop' = Idle
  /\ UNCHANGED <<now, ticked, deployed, row, running, stopCh, slots, run, exec,
                 runs, up, crashes, failures>>

-----------------------------------------------------------------------------
(* A run *)

\* The deferred release of the semaphore.
Return(r) ==
  /\ run' = [run EXCEPT ![r].phase = "done", ![r].next = 0]
  /\ slots' = slots - 1

\* Mutant of Begin: an early return keeps the semaphore.
BeginKeeps(r) ==
  /\ run[r].phase = "begin"
  /\ IF run[r].sched \in deployed
       THEN /\ run' = [run EXCEPT ![r].phase = "run"]
            /\ exec' = [exec EXCEPT ![r] = "Running"]
       ELSE /\ run' = [run EXCEPT ![r].phase = "done"]
            /\ UNCHANGED exec
  /\ UNCHANGED <<now, ticked, deployed, row, loop, running, stopCh, slots, runs,
                 up, crashes, failures>>

\* Look for the deployment and record the execution: without either, return.
Begin(r) ==
  /\ run[r].phase = "begin"
  /\ \/ /\ run[r].sched \in deployed
        /\ run' = [run EXCEPT ![r].phase = "run"]
        /\ exec' = [exec EXCEPT ![r] = "Running"]
        /\ Works /\ UNCHANGED slots
     \/ /\ \/ run[r].sched \notin deployed /\ Works
           \/ Fails
        /\ Return(r)
        /\ UNCHANGED exec
  /\ UNCHANGED <<now, ticked, deployed, row, loop, running, stopCh, runs, up,
                 crashes>>

\* Mutant of Finish: only a run that succeeded is written down.
FinishLucky(r) ==
  /\ run[r].phase = "run"
  /\ run' = [run EXCEPT ![r].phase = "ended"]
  /\ \E status \in {"Completed", "Running"} :
       exec' = [exec EXCEPT ![r] = status]
  /\ UNCHANGED <<now, ticked, deployed, row, loop, running, stopCh, slots, runs,
                 up, crashes, failures>>

\* runner.Run returns, at the latest after its timeout; the result is saved.
Finish(r) ==
  /\ run[r].phase = "run"
  /\ run' = [run EXCEPT ![r].phase = "ended"]
  /\ \/ /\ Works
        /\ \E status \in {"Completed", "Failed"} :
             exec' = [exec EXCEPT ![r] = status]
     \/ Fails /\ UNCHANGED exec
  /\ UNCHANGED <<now, ticked, deployed, row, loop, running, stopCh, slots, runs,
                 up, crashes>>

\* The next run is computed from the time of day.
ComputeNext(r) ==
  /\ run[r].phase = "ended"
  /\ run' = [run EXCEPT ![r].phase = "update",
                        ![r].next = NextAfter(run[r].sched, now)]
  /\ UNCHANGED <<now, ticked, deployed, row, exec, loop, running, stopCh, slots, runs, up,
                 crashes, failures>>

\* ... and written, or after a failure a time soon, or neither.
UpdateCronSchedule(r) ==
  LET s == run[r].sched IN
  /\ run[r].phase = "update"
  /\ \/ Works /\ row' = [row EXCEPT ![s].next = run[r].next]
     \/ Fails /\ row' = [row EXCEPT ![s].next = now + Fallback]
     \/ Fails /\ UNCHANGED row
  /\ Return(r)
  /\ UNCHANGED <<now, ticked, deployed, loop, running, stopCh, exec, runs, up,
                 crashes>>

-----------------------------------------------------------------------------
(* The process ends, by a crash or at the end of the server's shutdown *)

Crash ==
  /\ up
  /\ crashes + failures < MaxFaults
  /\ crashes' = crashes + 1
  /\ up' = FALSE
  /\ loop' = Idle
  /\ run' = [r \in Run |-> IF r <= runs THEN [run[r] EXCEPT !.phase = "done",
                                                      !.next = 0]
                                        ELSE run[r]]
  /\ slots' = 0
  /\ ticked' = FALSE
  /\ running' = FALSE
  /\ stopCh' = FALSE
  /\ UNCHANGED <<now, deployed, row, exec, runs, failures>>

Restart ==
  /\ ~ up
  /\ up' = TRUE
  /\ UNCHANGED <<now, ticked, deployed, row, loop, running, stopCh, slots, run,
                 exec, runs, crashes, failures>>

-----------------------------------------------------------------------------

Init ==
  /\ now = 1
  /\ ticked = FALSE
  /\ deployed = {}
  /\ row = [s \in Schedule |-> NoRow]
  /\ loop = Idle
  /\ running = FALSE
  /\ stopCh = FALSE
  /\ slots = 0
  /\ run = [r \in Run |-> NoRun]
  /\ exec = [r \in Run |-> "none"]
  /\ runs = 0
  /\ up = TRUE
  /\ crashes = 0
  /\ failures = 0

Loop == Start \/ Check \/ Dispatch \/ EndScan \/ LoopStops \/ Drained

RunStep(r) == Begin(r) \/ Finish(r) \/ ComputeNext(r) \/ UpdateCronSchedule(r)

Next ==
  \/ \E s \in Schedule : RegisterDeployment(s) \/ DeleteDeployment(s)
  \/ Tick \/ Loop \/ Stop \/ Crash \/ Restart
  \/ \E r \in Run : RunStep(r)

Spec == Init /\ [][Next]_vars

\* The clock goes on, goroutines go on, a run ends at its timeout at the
\* latest, and a process that ended is started again.  A select takes a random
\* one of its ready cases, so a closed stopCh is not passed over for ever.
Fairness ==
  /\ WF_vars(Tick)
  /\ WF_vars(Loop)
  /\ SF_vars(LoopStops)
  /\ \A r \in Run : WF_vars(RunStep(r))
  /\ WF_vars(Restart)

FairSpec == Spec /\ Fairness

-----------------------------------------------------------------------------
(* Properties *)

RowRecord == [state : {"new", "there", "gone"}, next : Nat]

LoopRecord == [phase : {"off", "scan", "select", "draining"},
               due : Seq(Schedule \X Nat)]

RunRecord == [sched : Schedule, due : Nat, next : Nat,
              phase : {"none", "begin", "run", "ended", "update", "done"}]

\* Every variable keeps its type.
TypeOK ==
  /\ now \in 1..MaxTime
  /\ ticked \in BOOLEAN
  /\ deployed \subseteq Schedule
  /\ row \in [Schedule -> RowRecord]
  /\ loop \in LoopRecord
  /\ running \in BOOLEAN
  /\ stopCh \in BOOLEAN
  /\ slots \in 0..MaxWorkers
  /\ run \in [Run -> RunRecord]
  /\ exec \in [Run -> {"none", "Running", "Completed", "Failed"}]
  /\ runs \in 0..MaxRuns
  /\ up \in BOOLEAN
  /\ crashes \in 0..MaxFaults
  /\ failures \in 0..MaxFaults

\* The semaphore holds one value for each run under way, whatever way runs
\* end: none is lost to an early return, and none is given back twice.
SlotsHeld == slots = Cardinality(Active)

\* An execution that reads Running belongs to a run under way, as long as the
\* process lives and the store works: no path of runScheduledJob leaves one.
RunningIsRunning ==
  (crashes = 0 /\ failures = 0) =>
    \A r \in Run : exec[r] = "Running" => run[r].phase = "run"

\* The bound on runs holds the loop back.
AtBound == runs = MaxRuns /\ loop.due # << >>

\* A schedule that is due is run, however many others are due, however few
\* workers there are and whatever was deleted meanwhile.
DueIsRun ==
  \A s \in Schedule :
    (Due(s) /\ loop.phase \in {"scan", "select"})
      ~> (\E r \in Active : run[r].sched = s) \/ ~ Due(s) \/ stopCh \/ AtBound

\* After Stop the loop starts what it had found due, waits for every run and
\* returns.
StopDrains == stopCh ~> loop.phase = "off" \/ AtBound

\* docs/QUICKSTART.md:118, "Run every hour": while nothing fails, the
\* occurrence of a schedule is run once.
OncePerOccurrence ==
  (crashes = 0 /\ failures = 0) =>
    \A q, r \in 1..runs :
      (run[q].sched = run[r].sched /\ run[q].due = run[r].due
         /\ exec[q] # "none" /\ exec[r] # "none") => q = r

=============================================================================
