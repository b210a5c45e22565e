-------------------------- MODULE SchedulerProofs --------------------------
(***************************************************************************)
(* Proofs about Scheduler, for every finite set of schedules, all cron     *)
(* expressions and every value of the bounds.                              *)
(***************************************************************************)
EXTENDS Scheduler, FiniteSetTheorems, TLAPS

-----------------------------------------------------------------------------
(* The inductive invariant *)

\* Runs are numbered in the order they are dispatched, and a run that was
\* dispatched never becomes unused again.
RunsNumbered == \A r \in Run : run[r].phase = "none" <=> r > runs

\* What the properties rest on.
SchedulerInv == TypeOK /\ RunsNumbered /\ SlotsHeld /\ RunningIsRunning

-----------------------------------------------------------------------------
(* Facts about the operators *)

\* A set of times that is not empty has an earliest one.
LEMMA MinInSet ==
  ASSUME NEW S \in SUBSET Nat, S # {}
  PROVE  Min(S) \in S /\ \A t \in S : Min(S) <= t
<1>1. PICK x \in S : \A y \in S : ~ (<<y, x>> \in OpToRel(<, Nat))
  BY NatLessThanWellFounded, WFMin, Zenon
<1>2. \A y \in S : x <= y
  <2> SUFFICES ASSUME NEW y \in S PROVE x <= y
    OBVIOUS
  <2>1. x \in Nat /\ y \in Nat
    OBVIOUS
  <2>2. ~ (y < x)
    BY <1>1, <2>1 DEF OpToRel
  <2> QED BY <2>1, <2>2
<1> QED BY <1>2 DEF Min

\* The next time of a schedule is the zero time, or a later time that its
\* expression matches.
LEMMA NextAfterType ==
  ASSUME NEW s \in Schedule, NEW t \in Nat
  PROVE  NextAfter(s, t) \in Nat
<1> DEFINE later == {u \in Matching[s] : u > t}
<1>1. later \in SUBSET Nat
  BY SchedulerAssumption
<1>2. CASE later = {}
  BY <1>2 DEF NextAfter, ZeroTime
<1>3. CASE later # {}
  <2>1. Min(later) \in Nat
    BY <1>1, <1>3, MinInSet
  <2> QED BY <1>3, <2>1 DEF NextAfter
<1> QED BY <1>2, <1>3

\* The schedules found due are a sequence of schedules and times.
LEMMA DueListsType ==
  ASSUME row \in [Schedule -> RowRecord]
  PROVE  DueLists \subseteq Seq(Schedule \X Nat)
<1> DEFINE due == {s \in Schedule : Due(s)}
           S == {<<s, row[s].next>> : s \in due}
           n == Cardinality(S)
           f == [s \in due |-> <<s, row[s].next>>]
<1>1. IsFiniteSet(due)
  BY SchedulerAssumption, FS_Subset
<1>2. f \in Surjection(due, S)
  BY DEF Surjection
<1>3. IsFiniteSet(S)
  BY <1>1, <1>2, FS_Surjection
<1>4. n \in Nat
  BY <1>3, FS_CardinalityType
<1>5. S \subseteq Schedule \X Nat
  BY DEF RowRecord
<1>6. SetToSeqs(S) \subseteq [1..n -> S]
  BY DEF SetToSeqs
<1> HIDE DEF S, n
<1>7. [1..n -> S] \subseteq Seq(Schedule \X Nat)
  <2> SUFFICES ASSUME NEW q \in [1..n -> S]
               PROVE  q \in Seq(Schedule \X Nat)
    OBVIOUS
  <2>1. q \in [1..n -> Schedule \X Nat]
    BY <1>5
  <2> QED BY <1>4, <2>1
<1>8. DueLists \subseteq SetToSeqs(S)
  BY DEF DueLists, S
<1> QED BY <1>6, <1>7, <1>8

\* The runs under way are finitely many.
LEMMA ActiveFinite ==
  /\ IsFiniteSet(Active)
  /\ Cardinality(Active) \in Nat
<1>1. IsFiniteSet(Run)
  BY SchedulerAssumption, FS_Interval DEF Run
<1>2. Active \in SUBSET Run
  BY DEF Active
<1>3. IsFiniteSet(Active)
  BY <1>1, <1>2, FS_Subset
<1> QED BY <1>3, FS_CardinalityType

\* A run starts: there is one more under way.
LEMMA ActiveGrows ==
  ASSUME NEW r \in Run, r \notin Active, Active' = Active \cup {r}
  PROVE  Cardinality(Active') = Cardinality(Active) + 1
BY ActiveFinite, FS_AddElement

\* A run returns: there is one less under way.
LEMMA ActiveShrinks ==
  ASSUME NEW r \in Run, r \in Active, Active' = Active \ {r}
  PROVE  Cardinality(Active') = Cardinality(Active) - 1
BY ActiveFinite, FS_RemoveElement

-----------------------------------------------------------------------------
(* Type correctness *)

\* The first state has its types.
LEMMA TypeInit == Init => TypeOK
<1>1. NoRow \in RowRecord
  BY DEF NoRow, RowRecord
<1>2. Idle \in LoopRecord
  BY DEF Idle, LoopRecord
<1>3. NoRun \in RunRecord
  BY SchedulerAssumption DEF NoRun, RunRecord
<1>4. /\ 1 \in 1..MaxTime /\ 0 \in 0..MaxWorkers /\ 0 \in 0..MaxRuns
      /\ 0 \in 0..MaxFaults
  BY SchedulerAssumption
<1>5. Init => /\ row \in [Schedule -> RowRecord]
              /\ run \in [Run -> RunRecord]
              /\ exec \in [Run -> {"none", "Running", "Completed", "Failed"}]
  BY <1>1, <1>3 DEF Init
<1> QED BY <1>2, <1>4, <1>5, Zenon DEF Init, TypeOK

\* The bounded counters of faults.
LEMMA FaultTypes ==
  ASSUME crashes \in 0..MaxFaults, failures \in 0..MaxFaults,
         Works \/ Fails
  PROVE  failures' \in 0..MaxFaults /\ failures' >= failures
BY SchedulerAssumption DEF Works, Fails

\* A run that returns is a record of a run still.
LEMMA ReturnType ==
  ASSUME run \in [Run -> RunRecord], NEW r \in Run, Return(r)
  PROVE  run' \in [Run -> RunRecord]
BY DEF Return, RunRecord

\* No step of the deployments, the loop, a run or the process takes a variable
\* out of its type.  That a run gives back no slot it does not hold is where
\* SlotsHeld is needed.
LEMMA TypeStep ==
  ASSUME TypeOK, RunsNumbered, SlotsHeld, [Next]_vars
  PROVE  TypeOK'
<1>t. row \in [Schedule -> RowRecord] /\ loop \in LoopRecord
      /\ run \in [Run -> RunRecord]
  BY DEF TypeOK
<1>1. ASSUME NEW s \in Schedule, RegisterDeployment(s)
      PROVE  TypeOK'
  <2>1. NextAfter(s, now) \in Nat
    BY NextAfterType DEF TypeOK
  <2>2. row' \in [Schedule -> RowRecord]
    BY <1>1, <1>t, <2>1 DEF RegisterDeployment, RowRecord
  <2> QED BY <1>1, <2>2 DEF TypeOK, RegisterDeployment
<1>2. ASSUME NEW s \in Schedule, DeleteDeployment(s)
      PROVE  TypeOK'
  <2>1. row' \in [Schedule -> RowRecord]
    BY <1>2, <1>t DEF DeleteDeployment, RowRecord
  <2> QED BY <1>2, <2>1 DEF TypeOK, DeleteDeployment
<1>3. CASE Tick
  BY <1>3, SchedulerAssumption DEF TypeOK, Tick
<1>4. CASE Start
  <2>1. loop' \in LoopRecord
    BY <1>4, <1>t, DueListsType DEF Start, LoopRecord
  <2> QED BY <1>4, <2>1 DEF TypeOK, Start
<1>5. CASE Check
  <2>1. failures' \in 0..MaxFaults
    BY <1>5, FaultTypes DEF Check, TypeOK
  <2>2. loop' \in LoopRecord
    BY <1>5, <1>t, DueListsType DEF Check, LoopRecord
  <2> QED BY <1>5, <2>1, <2>2 DEF TypeOK, Check
<1>6. CASE Dispatch
  <2>1. /\ Head(loop.due) \in Schedule \X Nat
        /\ Tail(loop.due) \in Seq(Schedule \X Nat)
    BY <1>6, <1>t DEF Dispatch, LoopRecord
  <2>2. run' \in [Run -> RunRecord]
    BY <1>6, <1>t, <2>1 DEF Dispatch, RunRecord
  <2>3. slots' \in 0..MaxWorkers /\ runs' \in 0..MaxRuns
    BY <1>6, SchedulerAssumption DEF Dispatch, TypeOK
  <2>4. loop' \in LoopRecord
    BY <1>6, <1>t, <2>1 DEF Dispatch, LoopRecord
  <2> QED BY <1>6, <2>2, <2>3, <2>4 DEF TypeOK, Dispatch
<1>7. CASE EndScan
  <2>1. loop' \in LoopRecord
    BY <1>7, <1>t DEF EndScan, LoopRecord
  <2> QED BY <1>7, <2>1 DEF TypeOK, EndScan
<1>8. CASE LoopStops
  <2>1. loop' \in LoopRecord
    BY <1>8, <1>t DEF LoopStops, LoopRecord
  <2> QED BY <1>8, <2>1 DEF TypeOK, LoopStops
<1>i. Idle \in LoopRecord
  BY DEF Idle, LoopRecord
<1>9. CASE Drained
  BY <1>9, <1>i DEF TypeOK, Drained
<1>10. CASE Stop
  BY <1>10 DEF TypeOK, Stop
<1>11. CASE Crash
  <2>1. run' \in [Run -> RunRecord]
    BY <1>11, <1>t DEF Crash, RunRecord
  <2>2. crashes' \in 0..MaxFaults /\ slots' \in 0..MaxWorkers
    <3>1. /\ crashes + failures < MaxFaults
          /\ crashes' = crashes + 1
          /\ slots' = 0
      BY <1>11, Zenon DEF Crash
    <3> QED BY <3>1, SchedulerAssumption DEF TypeOK
  <2> QED BY <1>11, <1>i, <2>1, <2>2 DEF TypeOK, Crash
<1>12. CASE Restart
  BY <1>12 DEF TypeOK, Restart
<1>r. ASSUME NEW r \in Run, r \in Active
      PROVE  slots - 1 \in 0..MaxWorkers
  <2>1. slots # 0
    BY <1>r, ActiveFinite, FS_EmptySet DEF SlotsHeld
  <2> QED BY <2>1, SchedulerAssumption DEF TypeOK
<1>13. ASSUME NEW r \in Run, Begin(r)
       PROVE  TypeOK'
  <2>1. failures' \in 0..MaxFaults
    BY <1>13, FaultTypes DEF Begin, TypeOK
  <2>2. run' \in [Run -> RunRecord]
    <3>1. CASE Return(r)
      BY <3>1, <1>t, ReturnType
    <3>2. CASE run' = [run EXCEPT ![r].phase = "run"]
      BY <3>2, <1>t DEF RunRecord
    <3> QED BY <1>13, <3>1, <3>2 DEF Begin
  <2>3. slots' \in 0..MaxWorkers
    BY <1>13, <1>r DEF Begin, Return, Active, TypeOK
  <2>4. exec' \in [Run -> {"none", "Running", "Completed", "Failed"}]
    BY <1>13 DEF Begin, TypeOK
  <2> QED BY <1>13, <2>1, <2>2, <2>3, <2>4 DEF TypeOK, Begin
<1>14. ASSUME NEW r \in Run, Finish(r)
       PROVE  TypeOK'
  <2>1. failures' \in 0..MaxFaults
    BY <1>14, FaultTypes DEF Finish, TypeOK
  <2>2. run' \in [Run -> RunRecord]
    BY <1>14, <1>t DEF Finish, RunRecord
  <2>3. exec' \in [Run -> {"none", "Running", "Completed", "Failed"}]
    BY <1>14 DEF Finish, TypeOK
  <2> QED BY <1>14, <2>1, <2>2, <2>3 DEF TypeOK, Finish
<1>15. ASSUME NEW r \in Run, ComputeNext(r)
       PROVE  TypeOK'
  <2>1. run[r].sched \in Schedule /\ now \in Nat
    BY <1>t DEF TypeOK, RunRecord
  <2>2. NextAfter(run[r].sched, now) \in Nat
    BY <2>1, NextAfterType
  <2>3. run' \in [Run -> RunRecord]
    BY <1>15, <1>t, <2>2 DEF ComputeNext, RunRecord
  <2> QED BY <1>15, <2>3 DEF TypeOK, ComputeNext
<1>16. ASSUME NEW r \in Run, UpdateCronSchedule(r)
       PROVE  TypeOK'
  <2>1. failures' \in 0..MaxFaults
    BY <1>16, FaultTypes DEF UpdateCronSchedule, TypeOK
  <2>2. run' \in [Run -> RunRecord]
    BY <1>16, <1>t, ReturnType DEF UpdateCronSchedule
  <2>3. slots' \in 0..MaxWorkers
    BY <1>16, <1>r DEF UpdateCronSchedule, Return, Active
  <2>4. run[r].next \in Nat /\ now + Fallback \in Nat
    BY <1>t, SchedulerAssumption DEF RunRecord, TypeOK
  <2>5. row' \in [Schedule -> RowRecord]
    BY <1>16, <1>t, <2>4 DEF UpdateCronSchedule, RowRecord
  <2> QED BY <1>16, <2>1, <2>2, <2>3, <2>5 DEF TypeOK, UpdateCronSchedule
<1>17. CASE UNCHANGED vars
  BY <1>17 DEF TypeOK, vars
<1> QED BY <1>1, <1>2, <1>3, <1>4, <1>5, <1>6, <1>7, <1>8, <1>9, <1>10, <1>11,
           <1>12, <1>13, <1>14, <1>15, <1>16, <1>17
        DEF Next, Loop, RunStep

-----------------------------------------------------------------------------
(* The semaphore *)

\* No step leaves the semaphore with another count than the runs under way.
LEMMA SlotsStep ==
  ASSUME TypeOK, RunsNumbered, SlotsHeld, [Next]_vars
  PROVE  RunsNumbered' /\ SlotsHeld'
<1>t. run \in [Run -> RunRecord] /\ runs \in 0..MaxRuns /\ slots \in Nat
  BY SchedulerAssumption DEF TypeOK
<1>u. ASSUME UNCHANGED <<run, slots, runs>>
      PROVE  RunsNumbered' /\ SlotsHeld'
  BY <1>u DEF RunsNumbered, SlotsHeld, Active
<1>r. ASSUME NEW r \in Run, r \in Active, Return(r), UNCHANGED runs
      PROVE  RunsNumbered' /\ SlotsHeld'
  <2>1. \A q \in Run : run'[q].phase = IF q = r THEN "done" ELSE run[q].phase
    BY <1>r, <1>t DEF Return, RunRecord
  <2>2. Active' = Active \ {r}
    BY <2>1 DEF Active
  <2>3. slots' = slots - 1
    BY <1>r DEF Return
  <2>4. SlotsHeld'
    BY <1>r, <2>2, <2>3, ActiveShrinks DEF SlotsHeld
  <2>5. RunsNumbered'
    BY <1>r, <2>1 DEF RunsNumbered, Active
  <2> QED BY <2>4, <2>5
<1>p. ASSUME NEW r \in Run, r \in Active, NEW x, x \notin {"none", "done"},
             \A q \in Run : run'[q].phase = IF q = r THEN x ELSE run[q].phase,
             UNCHANGED <<slots, runs>>
      PROVE  RunsNumbered' /\ SlotsHeld'
  <2>1. Active' = Active
    BY <1>p DEF Active
  <2> QED BY <1>p, <2>1 DEF RunsNumbered, SlotsHeld, Active
<1>1. ASSUME NEW s \in Schedule, RegisterDeployment(s) \/ DeleteDeployment(s)
      PROVE  RunsNumbered' /\ SlotsHeld'
  BY <1>1, <1>u DEF RegisterDeployment, DeleteDeployment
<1>2. CASE Tick \/ Start \/ Check \/ EndScan \/ LoopStops \/ Drained \/ Stop
           \/ Restart
  BY <1>2, <1>u DEF Tick, Start, Check, EndScan, LoopStops, Drained, Stop,
                    Restart
<1>3. CASE Dispatch
  <2> DEFINE r == runs + 1
  <2>1. r \in Run /\ runs' = r /\ slots' = slots + 1
    BY <1>3, <1>t, SchedulerAssumption DEF Dispatch, Run
  <2>2. \A q \in Run : run'[q].phase = IF q = r THEN "begin" ELSE run[q].phase
    BY <1>3, <1>t DEF Dispatch
  <2>3. r \notin Active
    BY <2>1, <1>t DEF RunsNumbered, Active
  <2>4. Active' = Active \cup {r}
    BY <2>1, <2>2 DEF Active
  <2>5. SlotsHeld'
    BY <2>1, <2>3, <2>4, ActiveGrows DEF SlotsHeld
  <2>6. RunsNumbered'
    BY <1>t, <2>1, <2>2 DEF RunsNumbered, Run
  <2> QED BY <2>5, <2>6
<1>4. CASE Crash
  <2>1. \A q \in Run : run'[q].phase = IF q <= runs THEN "done" ELSE run[q].phase
    BY <1>4, <1>t DEF Crash, RunRecord
  <2>2. Active' = {}
    BY <1>t, <2>1 DEF Active, RunsNumbered, Run
  <2>3. SlotsHeld'
    BY <1>4, <2>2, FS_EmptySet DEF Crash, SlotsHeld
  <2>4. RunsNumbered'
    <3>1. runs' = runs
      BY <1>4, Zenon DEF Crash
    <3> QED BY <1>t, <2>1, <3>1 DEF RunsNumbered, Run
  <2> QED BY <2>3, <2>4
<1>5. ASSUME NEW r \in Run, Begin(r)
      PROVE  RunsNumbered' /\ SlotsHeld'
  <2>1. r \in Active
    BY <1>5 DEF Begin, Active
  <2>2. CASE Return(r)
    BY <1>5, <1>r, <2>1, <2>2 DEF Begin
  <2>3. CASE run' = [run EXCEPT ![r].phase = "run"] /\ UNCHANGED slots
    <3>1. \A q \in Run : run'[q].phase = IF q = r THEN "run" ELSE run[q].phase
      BY <1>t, <2>3 DEF RunRecord
    <3> QED BY <1>5, <1>p, <2>1, <2>3, <3>1 DEF Begin
  <2> QED BY <1>5, <2>2, <2>3 DEF Begin
<1>6. ASSUME NEW r \in Run, Finish(r)
      PROVE  RunsNumbered' /\ SlotsHeld'
  <2>1. \A q \in Run : run'[q].phase = IF q = r THEN "ended" ELSE run[q].phase
    BY <1>6, <1>t DEF Finish, RunRecord
  <2> QED BY <1>6, <1>p, <2>1 DEF Finish, Active
<1>7. ASSUME NEW r \in Run, ComputeNext(r)
      PROVE  RunsNumbered' /\ SlotsHeld'
  <2>1. \A q \in Run : run'[q].phase = IF q = r THEN "update" ELSE run[q].phase
    BY <1>7, <1>t DEF ComputeNext, RunRecord
  <2> QED BY <1>7, <1>p, <2>1 DEF ComputeNext, Active
<1>8. ASSUME NEW r \in Run, UpdateCronSchedule(r)
      PROVE  RunsNumbered' /\ SlotsHeld'
  BY <1>8, <1>r DEF UpdateCronSchedule, Active
<1>9. CASE UNCHANGED vars
  BY <1>9, <1>u DEF vars
<1> QED BY <1>1, <1>2, <1>3, <1>4, <1>5, <1>6, <1>7, <1>8, <1>9
        DEF Next, Loop, RunStep

-----------------------------------------------------------------------------
(* The record of a run *)

\* As long as nothing fails, no step leaves an execution Running whose run has
\* gone on or returned.
LEMMA RunningStep ==
  ASSUME TypeOK, RunsNumbered, RunningIsRunning, [Next]_vars
  PROVE  RunningIsRunning'
<1>t. /\ run \in [Run -> RunRecord]
      /\ exec \in [Run -> {"none", "Running", "Completed", "Failed"}]
      /\ runs \in 0..MaxRuns /\ crashes \in Nat /\ failures \in Nat
  BY SchedulerAssumption DEF TypeOK
<1>u. ASSUME UNCHANGED <<run, exec, crashes>>, Works \/ Fails
      PROVE  RunningIsRunning'
  BY <1>u, <1>t DEF RunningIsRunning, Works, Fails
\* A step of one run: when nothing has failed, its phase and its record agree.
<1>r. ASSUME NEW r \in Run, NEW x, UNCHANGED crashes,
             Works \/ Fails,
             \A q \in Run : run'[q].phase = IF q = r THEN x ELSE run[q].phase,
             \A q \in Run \ {r} : exec'[q] = exec[q],
             Works => (exec'[r] = "Running" => x = "run")
      PROVE  RunningIsRunning'
  BY <1>r, <1>t DEF RunningIsRunning, Works, Fails
<1>1. ASSUME NEW s \in Schedule, RegisterDeployment(s) \/ DeleteDeployment(s)
      PROVE  RunningIsRunning'
  BY <1>1, <1>u DEF RegisterDeployment, DeleteDeployment, Works
<1>2. CASE Tick \/ Start \/ Check \/ EndScan \/ LoopStops \/ Drained \/ Stop
           \/ Restart
  BY <1>2, <1>u DEF Tick, Start, Check, EndScan, LoopStops, Drained, Stop,
                    Restart, Works
<1>3. CASE Dispatch
  <2> DEFINE r == runs + 1
  <2>1. r \in Run /\ UNCHANGED <<exec, crashes, failures>>
    BY <1>3, <1>t, SchedulerAssumption DEF Dispatch, Run
  <2>2. \A q \in Run : run'[q].phase = IF q = r THEN "begin" ELSE run[q].phase
    BY <1>3, <1>t DEF Dispatch
  <2>3. run[r].phase = "none"
    BY <1>t, <2>1 DEF RunsNumbered
  <2> QED BY <2>1, <2>2, <2>3 DEF RunningIsRunning
<1>4. CASE Crash
  <2>1. crashes' = crashes + 1
    BY <1>4, Zenon DEF Crash
  <2> QED BY <1>t, <2>1 DEF RunningIsRunning
<1>5. ASSUME NEW r \in Run, Begin(r)
      PROVE  RunningIsRunning'
  <2>1. CASE Return(r) /\ UNCHANGED exec /\ (Works \/ Fails)
    <3>1. \A q \in Run : run'[q].phase = IF q = r THEN "done" ELSE run[q].phase
      BY <1>t, <2>1 DEF Return, RunRecord
    <3>2. CASE Works
      <4>1. UNCHANGED <<crashes, failures>>
        BY <1>5, <3>2 DEF Begin, Works
      <4>2. run[r].phase = "begin"
        BY <1>5 DEF Begin
      <4> QED BY <2>1, <3>1, <4>1, <4>2 DEF RunningIsRunning
    <3>3. CASE Fails
      BY <1>t, <3>3 DEF Fails, RunningIsRunning
    <3> QED BY <2>1, <3>2, <3>3
  <2>2. CASE /\ run' = [run EXCEPT ![r].phase = "run"]
             /\ exec' = [exec EXCEPT ![r] = "Running"]
             /\ Works
    <3>1. \A q \in Run : run'[q].phase = IF q = r THEN "run" ELSE run[q].phase
      BY <1>t, <2>2 DEF RunRecord
    <3>2. \A q \in Run \ {r} : exec'[q] = exec[q]
      BY <1>t, <2>2
    <3> QED BY <1>5, <1>r, <2>2, <3>1, <3>2 DEF Begin
  <2> QED BY <1>5, <2>1, <2>2 DEF Begin
<1>6. ASSUME NEW r \in Run, Finish(r)
      PROVE  RunningIsRunning'
  <2>1. \A q \in Run : run'[q].phase = IF q = r THEN "ended" ELSE run[q].phase
    BY <1>6, <1>t DEF Finish, RunRecord
  <2>2. CASE Fails
    BY <1>t, <2>2 DEF Fails, RunningIsRunning
  <2>3. CASE \E status \in {"Completed", "Failed"} :
                exec' = [exec EXCEPT ![r] = status]
    <3>1. exec'[r] # "Running" /\ \A q \in Run \ {r} : exec'[q] = exec[q]
      BY <1>t, <2>3
    <3> QED BY <1>6, <1>r, <2>1, <3>1 DEF Finish
  <2> QED BY <1>6, <2>2, <2>3 DEF Finish
<1>7. ASSUME NEW r \in Run, ComputeNext(r)
      PROVE  RunningIsRunning'
  <2>1. \A q \in Run : run'[q].phase = IF q = r THEN "update" ELSE run[q].phase
    BY <1>7, <1>t DEF ComputeNext, RunRecord
  <2> QED BY <1>7, <2>1 DEF ComputeNext, RunningIsRunning
<1>8. ASSUME NEW r \in Run, UpdateCronSchedule(r)
      PROVE  RunningIsRunning'
  <2>1. \A q \in Run : run'[q].phase = IF q = r THEN "done" ELSE run[q].phase
    BY <1>8, <1>t DEF UpdateCronSchedule, Return, RunRecord
  <2>2. /\ run[r].phase = "update" /\ UNCHANGED <<exec, crashes>>
        /\ Works \/ Fails
    BY <1>8 DEF UpdateCronSchedule
  <2>3. CASE Works
    BY <2>1, <2>2, <2>3 DEF Works, RunningIsRunning
  <2>4. CASE Fails
    BY <1>t, <2>4 DEF Fails, RunningIsRunning
  <2> QED BY <2>2, <2>3, <2>4
<1>9. CASE UNCHANGED vars
  BY <1>9, <1>u DEF vars, Works
<1> QED BY <1>1, <1>2, <1>3, <1>4, <1>5, <1>6, <1>7, <1>8, <1>9
        DEF Next, Loop, RunStep

-----------------------------------------------------------------------------
(* The theorems *)

\* The first state satisfies the inductive invariant.
LEMMA InvInit == Init => SchedulerInv
<1> SUFFICES ASSUME Init PROVE SchedulerInv
  OBVIOUS
<1>1. \A r \in Run : run[r].phase = "none" /\ exec[r] = "none"
  BY DEF Init, NoRun
<1>2. Active = {}
  BY <1>1 DEF Active
<1>3. SlotsHeld
  BY <1>2, FS_EmptySet, Zenon DEF SlotsHeld, Init
<1>4. RunsNumbered
  <2>1. runs = 0
    BY Zenon DEF Init
  <2> QED BY <1>1, <2>1 DEF RunsNumbered, Run
<1>5. RunningIsRunning
  BY <1>1 DEF RunningIsRunning
<1> QED BY TypeInit, <1>3, <1>4, <1>5 DEF SchedulerInv

\* The inductive invariant holds in every reachable state.
THEOREM SchedulerInvariant == Spec => []SchedulerInv
<1>1. SchedulerInv /\ [Next]_vars => SchedulerInv'
  BY TypeStep, SlotsStep, RunningStep DEF SchedulerInv
<1> QED BY <1>1, InvInit, PTL DEF Spec

\* Every variable of the scheduler keeps its type.
THEOREM TypeCorrect == Spec => []TypeOK
<1>1. SchedulerInv => TypeOK
  BY DEF SchedulerInv
<1> QED BY <1>1, SchedulerInvariant, PTL

\* For any number of schedules, workers and runs, the semaphore holds one value
\* for each run under way, so no more than MaxWorkers run at a time and no
\* early return of runScheduledJob loses a worker.
THEOREM SemaphoreSafety ==
  Spec => [](SlotsHeld /\ Cardinality(Active) <= MaxWorkers)
<1>1. SchedulerInv => SlotsHeld /\ Cardinality(Active) <= MaxWorkers
  BY SchedulerAssumption DEF SchedulerInv, TypeOK, SlotsHeld
<1> QED BY <1>1, SchedulerInvariant, PTL

\* While nothing fails, no path through runScheduledJob leaves an execution
\* Running behind.
THEOREM NoRunningLeft == Spec => []RunningIsRunning
<1>1. SchedulerInv => RunningIsRunning
  BY DEF SchedulerInv
<1> QED BY <1>1, SchedulerInvariant, PTL

=============================================================================
