----------------------------- MODULE Supervisor -----------------------------
(***************************************************************************)
(* The process supervisor of pkg/supervisor/supervisor.go for one service  *)
(* id: Add and Start, the supervise goroutine with its restart policy and  *)
(* backoff, Stop, StopAll, and the operating-system processes themselves.  *)
(*                                                                         *)
(* Add makes a new Service object for the id and forgets the one before,   *)
(* whose goroutine goes on; Start runs one more supervise goroutine on the *)
(* object the id names at that moment.  A step is what happens under one   *)
(* hold of svc.mu.  Cmd.Wait is called by the supervise goroutine and by   *)
(* every Stop on the same command: only the first to reap the process      *)
(* learns its exit code.                                                   *)
(*                                                                         *)
(* Exit code 1 stands for every code other than 0.  Time is counted in     *)
(* units of the restart delay, and only backoff takes time.                *)
(***************************************************************************)
EXTENDS Integers, FiniteSets

CONSTANTS
  RestartDelay,     \* Service.RestartDelay
  MaxRestartDelay,  \* Service.MaxRestartDelay
  Policies,         \* the restart policies a service may have
  Caller,           \* goroutines that call Stop
  MaxObjects,       \* bound: calls of Add
  MaxLoops,         \* bound: calls of Start
  MaxTries,         \* bound: calls of startProcess
  MayFail           \* TRUE: a command may fail to start

ASSUME SupervisorAssumption ==
  /\ RestartDelay \in Nat \ {0}
  /\ MaxRestartDelay \in Nat
  /\ Policies \subseteq {"always", "on-failure", "never"}
  /\ "all" \notin Caller
  /\ MaxObjects \in Nat
  /\ MaxLoops \in Nat
  /\ MaxTries \in Nat
  /\ MayFail \in BOOLEAN

VARIABLES
  current,   \* services[id], 0 before the first Add
  svc,       \* svc[o]: the fields of a Service object
  created,   \* how many objects exist
  loops,     \* loops[l]: a supervise goroutine
  started,   \* how many goroutines have been started
  procs,     \* procs[p]: an operating-system process
  tries,     \* how many times a process start was tried; also the next pid
  term,      \* term[o][k]: a terminateProcess of object o by caller k
  stopping,  \* is Supervisor.stopCh closed?
  stopAll    \* StopAllWithTimeout

vars == <<current, svc, created, loops, started, procs, tries, term, stopping,
          stopAll>>

-----------------------------------------------------------------------------
(* Data *)

Object == 1..MaxObjects
Loop == 1..MaxLoops
Pid == 1..MaxTries

\* Whoever terminates a process: a caller of Stop, or StopAll.
Stopper == Caller \cup {"all"}

ServiceState == {"stopped", "starting", "running", "failed", "backoff"}

\* Time since the last exit is not told apart beyond this.
LongAgo == 2 * MaxRestartDelay

LongestDelay ==
  IF RestartDelay > MaxRestartDelay THEN RestartDelay ELSE MaxRestartDelay

NoService == [policy |-> "always", state |-> "stopped", pid |-> 0,
              stop |-> FALSE, fails |-> 0, restarts |-> 0, exitCode |-> 0,
              age |-> LongAgo]

NoLoop == [obj |-> 0, phase |-> "off", pid |-> 0, delay |-> 0]

NoProc == [obj |-> 0, status |-> "none", code |-> 0]

NotCalled == [phase |-> "none", pid |-> 0]

ServiceRecord == [policy : {"always", "on-failure", "never"},
                  state : ServiceState, pid : 0..MaxTries, stop : BOOLEAN,
                  fails : Nat, restarts : Nat,
                  exitCode : {0, 1}, age : 0..LongAgo]

LoopRecord == [obj : 0..MaxObjects,
               phase : {"off", "top", "starting", "spawned", "started",
                        "waiting", "decide", "backoff", "done"},
               pid : 0..MaxTries, delay : 0..LongestDelay]

ProcRecord == [obj : 0..MaxObjects,
               status : {"none", "alive", "exited", "reaped"}, code : {0, 1}]

TermRecord == [phase : {"none", "read", "signal", "wait", "unseen", "gone"},
               pid : 0..MaxTries]

\* The live processes of object o.
Alive(o) == {p \in Pid : procs[p].obj = o /\ procs[p].status = "alive"}

\* Is the Supervisor or the object o asked to stop?
Asked(o) == stopping \/ svc[o].stop

\* A supervise goroutine that has not returned.
Running(l) == loops[l].phase \notin {"off", "done"}

-----------------------------------------------------------------------------
(* Restart policy and backoff *)

\* Mutant of shouldRestart: a clean exit ends a service under every policy.
shouldRestartFailed(s) ==
  /\ s.exitCode # 0
  /\ s.policy \in {"always", "on-failure"}

shouldRestart(s) ==
  \/ s.policy = "always"
  \/ s.policy = "on-failure" /\ s.exitCode # 0

\* The doubling loop of calculateBackoff after i turns.
Doubled[i \in Nat] ==
  IF i = 0 THEN RestartDelay
  ELSE IF Doubled[i - 1] < MaxRestartDelay THEN 2 * Doubled[i - 1]
                                           ELSE Doubled[i - 1]

Capped(d) == IF d > MaxRestartDelay THEN MaxRestartDelay ELSE d

\* Was the last exit a while ago?  Then calculateBackoff starts over.
Forgotten(s) == s.age >= LongAgo

calculateBackoff(s) ==
  IF Forgotten(s) THEN RestartDelay
                  ELSE Capped(Doubled[IF s.fails = 0 THEN 0 ELSE s.fails - 1])

-----------------------------------------------------------------------------
(* Registering and starting *)

\* Add: a new Service object under the id.
Add(policy) ==
  LET o == created + 1 IN
  /\ created < MaxObjects
  /\ created' = o
  /\ svc' = [svc EXCEPT ![o] = [NoService EXCEPT !.policy = policy]]
  /\ current' = o
  /\ UNCHANGED <<loops, started, procs, tries, term, stopping, stopAll>>

\* Start, and StartAll: one more supervise goroutine for the current object.
Start ==
  LET l == started + 1 IN
  /\ current # 0
  /\ started < MaxLoops
  /\ started' = l
  /\ loops' = [loops EXCEPT ![l] = [NoLoop EXCEPT !.obj = current,
                                                  !.phase = "top"]]
  /\ UNCHANGED <<current, svc, created, procs, tries, term, stopping, stopAll>>

-----------------------------------------------------------------------------
(* The supervise goroutine *)

\* The head of the loop: return when asked to stop, else begin startProcess.
Top(l) ==
  LET o == loops[l].obj IN
  /\ loops[l].phase = "top"
  /\ IF Asked(o)
       THEN /\ loops' = [loops EXCEPT ![l].phase = "done"]
            /\ UNCHANGED svc
       ELSE /\ tries < MaxTries
            /\ loops' = [loops EXCEPT ![l].phase = "starting"]
            /\ svc' = [svc EXCEPT ![o].state = "starting"]
  /\ UNCHANGED <<current, created, started, procs, tries, term, stopping,
                 stopAll>>

\* cmd.Start succeeds: there is a process, which svc does not know yet.
Spawn(l) ==
  LET p == tries + 1 IN
  /\ loops[l].phase = "starting"
  /\ tries < MaxTries
  /\ tries' = p
  /\ procs' = [procs EXCEPT ![p] = [obj |-> loops[l].obj, status |-> "alive",
                                    code |-> 0]]
  /\ loops' = [loops EXCEPT ![l].phase = "spawned", ![l].pid = p]
  /\ UNCHANGED <<current, svc, created, started, term, stopping, stopAll>>

\* cmd.Start fails.
SpawnFails(l) ==
  LET o == loops[l].obj IN
  /\ loops[l].phase = "starting"
  /\ MayFail
  /\ tries < MaxTries
  /\ tries' = tries + 1
  /\ svc' = [svc EXCEPT ![o].state = "failed", ![o].fails = @ + 1]
  /\ loops' = [loops EXCEPT ![l].phase = "decide"]
  /\ UNCHANGED <<current, created, started, procs, term, stopping, stopAll>>

\* The end of startProcess: the process is recorded in svc.
Record(l) ==
  LET o == loops[l].obj IN
  /\ loops[l].phase = "spawned"
  /\ svc' = [svc EXCEPT ![o].pid = loops[l].pid, ![o].state = "running",
                        ![o].restarts = @ + 1]
  /\ loops' = [loops EXCEPT ![l].phase = "started"]
  /\ UNCHANGED <<current, created, started, procs, tries, term, stopping,
                 stopAll>>

\* waitForExit reads the command to wait for from svc.
ReadCmd(l) ==
  LET p == svc[loops[l].obj].pid IN
  /\ loops[l].phase = "started"
  /\ loops' = [loops EXCEPT ![l].pid = p,
                            ![l].phase = IF p = 0 THEN "decide" ELSE "waiting"]
  /\ UNCHANGED <<current, svc, created, started, procs, tries, term, stopping,
                 stopAll>>

\* cmd.Wait returns and the exit is recorded.  Another Wait may have taken
\* the exit code, and then it counts as a failure.
WaitReturns(l) ==
  LET o    == loops[l].obj
      p    == loops[l].pid
      code == IF procs[p].status = "reaped" THEN 1 ELSE procs[p].code
  IN
  /\ loops[l].phase = "waiting"
  /\ procs[p].status # "alive"
  /\ procs' = [procs EXCEPT ![p].status = "reaped"]
  /\ svc' = [svc EXCEPT ![o].pid = 0, ![o].age = 0, ![o].exitCode = code,
                        ![o].state = IF code = 0 THEN "stopped" ELSE "failed",
                        ![o].fails = IF code = 0 THEN 0 ELSE @ + 1]
  /\ loops' = [loops EXCEPT ![l].phase = "decide", ![l].pid = 0]
  /\ UNCHANGED <<current, created, started, tries, term, stopping, stopAll>>

\* Restart or not, and after which delay.  The code lets go of svc.mu before
\* it sets the state Backoff, which is joined here.
Decide(l) ==
  LET o == loops[l].obj
      s == svc[o]
  IN
  /\ loops[l].phase = "decide"
  /\ svc' = [svc EXCEPT ![o].fails = IF Forgotten(s) THEN 0 ELSE @,
                        ![o].state = IF shouldRestart(s) THEN "backoff" ELSE @]
  /\ loops' = [loops EXCEPT ![l] =
       IF shouldRestart(s)
         THEN [@ EXCEPT !.phase = "backoff", !.delay = calculateBackoff(s)]
         ELSE [@ EXCEPT !.phase = "done"]]
  /\ UNCHANGED <<current, created, started, procs, tries, term, stopping,
                 stopAll>>

\* The delay has passed.
BackoffPasses(l) ==
  LET o   == loops[l].obj
      age == svc[o].age + loops[l].delay
  IN
  /\ loops[l].phase = "backoff"
  /\ svc' = [svc EXCEPT ![o].age = IF age > LongAgo THEN LongAgo ELSE age]
  /\ loops' = [loops EXCEPT ![l].phase = "top"]
  /\ UNCHANGED <<current, created, started, procs, tries, term, stopping,
                 stopAll>>

\* A stop request ends the backoff.
BackoffStops(l) ==
  /\ loops[l].phase = "backoff"
  /\ Asked(loops[l].obj)
  /\ loops' = [loops EXCEPT ![l].phase = "done"]
  /\ UNCHANGED <<current, svc, created, started, procs, tries, term, stopping,
                 stopAll>>

-----------------------------------------------------------------------------
(* Stopping *)

\* Stop of the current object: close its stopCh, then terminate.
Stop(k) ==
  /\ current # 0
  /\ term[current][k].phase = "none"
  /\ svc' = [svc EXCEPT ![current].stop = TRUE]
  /\ term' = [term EXCEPT ![current][k].phase = "read"]
  /\ UNCHANGED <<current, created, loops, started, procs, tries, stopping,
                 stopAll>>

\* Mutant of ReadProcess: the process is forgotten before it has ended.
ReadProcessForgets(o, k) ==
  /\ term[o][k].phase = "read"
  /\ term' = [term EXCEPT ![o][k] =
       [phase |-> IF svc[o].pid = 0 THEN "unseen" ELSE "signal",
        pid |-> svc[o].pid]]
  /\ svc' = [svc EXCEPT ![o].pid = 0]
  /\ UNCHANGED <<current, created, loops, started, procs, tries, stopping,
                 stopAll>>

\* terminateProcess reads the process; without one it returns.
ReadProcess(o, k) ==
  /\ term[o][k].phase = "read"
  /\ term' = [term EXCEPT ![o][k] =
       [phase |-> IF svc[o].pid = 0 THEN "unseen" ELSE "signal",
        pid |-> svc[o].pid]]
  /\ UNCHANGED <<current, svc, created, loops, started, procs, tries, stopping,
                 stopAll>>

\* SIGTERM: fails, and ends the call, when the process has been reaped.
Terminate(o, k) ==
  /\ term[o][k].phase = "signal"
  /\ term' = [term EXCEPT ![o][k].phase =
                IF procs[term[o][k].pid].status = "reaped" THEN "gone"
                                                           ELSE "wait"]
  /\ UNCHANGED <<current, svc, created, loops, started, procs, tries, stopping,
                 stopAll>>

\* Mutant of Kill: the timeout ends the wait and no more.
KillNot(o, k) ==
  /\ term[o][k].phase = "wait"
  /\ term' = [term EXCEPT ![o][k].phase = "gone"]
  /\ UNCHANGED <<current, svc, created, loops, started, procs, tries, stopping,
                 stopAll>>

\* Mutant of Kill: the second signal can be ignored as the first one was.
KillSoft(o, k) ==
  /\ term[o][k].phase = "wait"
  /\ procs[term[o][k].pid].status = "alive"
  /\ UNCHANGED <<current, svc, created, loops, started, procs, tries, term,
                 stopping, stopAll>>

\* The timeout passes: SIGKILL.  The call goes on waiting.
Kill(o, k) ==
  LET p == term[o][k].pid IN
  /\ term[o][k].phase = "wait"
  /\ procs[p].status = "alive"
  /\ procs' = [procs EXCEPT ![p].status = "exited", ![p].code = 1]
  /\ UNCHANGED <<current, svc, created, loops, started, tries, term, stopping,
                 stopAll>>

\* The Wait of terminateProcess returns, and so does the call.
Terminated(o, k) ==
  LET p == term[o][k].pid IN
  /\ term[o][k].phase = "wait"
  /\ procs[p].status # "alive"
  /\ procs' = [procs EXCEPT ![p].status = "reaped"]
  /\ term' = [term EXCEPT ![o][k].phase = "gone"]
  /\ UNCHANGED <<current, svc, created, loops, started, tries, stopping,
                 stopAll>>

\* StopAllWithTimeout closes stopCh and terminates every registered service;
\* without one it returns.
StopAll ==
  /\ stopAll = "none"
  /\ stopping' = TRUE
  /\ IF current = 0
       THEN stopAll' = "returned" /\ UNCHANGED <<svc, term>>
       ELSE /\ stopAll' = "terminating"
            /\ svc' = [svc EXCEPT ![current].stop = TRUE]
            /\ term' = [term EXCEPT ![current]["all"].phase = "read"]
  /\ UNCHANGED <<current, created, loops, started, procs, tries>>

\* Every termination has returned, or the timeout has passed.
StopAllWaits ==
  /\ stopAll = "terminating"
  /\ stopAll' = "waiting"
  /\ UNCHANGED <<current, svc, created, loops, started, procs, tries, term,
                 stopping>>

\* s.wg.Wait returns.
StopAllReturns ==
  /\ stopAll = "waiting"
  /\ \A l \in Loop : ~ Running(l)
  /\ stopAll' = "returned"
  /\ UNCHANGED <<current, svc, created, loops, started, procs, tries, term,
                 stopping>>

-----------------------------------------------------------------------------
(* Processes *)

\* A process ends by itself, or because of SIGTERM.
Exit(p, code) ==
  /\ procs[p].status = "alive"
  /\ procs' = [procs EXCEPT ![p].status = "exited", ![p].code = code]
  /\ UNCHANGED <<current, svc, created, loops, started, tries, term, stopping,
                 stopAll>>

-----------------------------------------------------------------------------

Init ==
  /\ current = 0
  /\ svc = [o \in Object |-> NoService]
  /\ created = 0
  /\ loops = [l \in Loop |-> NoLoop]
  /\ started = 0
  /\ procs = [p \in Pid |-> NoProc]
  /\ tries = 0
  /\ term = [o \in Object |-> [k \in Stopper |-> NotCalled]]
  /\ stopping = FALSE
  /\ stopAll = "none"

Supervise(l) ==
  \/ Top(l) \/ Spawn(l) \/ SpawnFails(l) \/ Record(l) \/ ReadCmd(l)
  \/ WaitReturns(l) \/ Decide(l) \/ BackoffPasses(l) \/ BackoffStops(l)

TerminateStep(o, k) ==
  \/ ReadProcess(o, k) \/ Terminate(o, k) \/ Kill(o, k) \/ Terminated(o, k)

Next ==
  \/ \E policy \in Policies : Add(policy)
  \/ Start
  \/ \E l \in Loop : Supervise(l)
  \/ \E k \in Caller : Stop(k)
  \/ \E o \in Object, k \in Stopper : TerminateStep(o, k)
  \/ StopAll \/ StopAllWaits \/ StopAllReturns
  \/ \E p \in Pid, code \in {0, 1} : Exit(p, code)

Spec == Init /\ [][Next]_vars

\* Goroutines go on and timeouts pass.  A process may run for ever.
Fairness ==
  /\ \A l \in Loop : WF_vars(Supervise(l))
  /\ \A o \in Object, k \in Stopper : WF_vars(TerminateStep(o, k))
  /\ WF_vars(StopAllWaits)
  /\ WF_vars(StopAllReturns)

FairSpec == Spec /\ Fairness

-----------------------------------------------------------------------------
(* Properties *)

\* Every variable keeps its type.
TypeOK ==
  /\ current \in 0..MaxObjects
  /\ svc \in [Object -> ServiceRecord]
  /\ created \in 0..MaxObjects
  /\ loops \in [Loop -> LoopRecord]
  /\ started \in 0..MaxLoops
  /\ procs \in [Pid -> ProcRecord]
  /\ tries \in 0..MaxTries
  /\ term \in [Object -> [Stopper -> TermRecord]]
  /\ stopping \in BOOLEAN
  /\ stopAll \in {"none", "terminating", "waiting", "returned"}

\* Object o has one supervise goroutine at most: its id was started once.
StartedOnce(o) ==
  \A l, m \in Loop : (loops[l].obj = o /\ loops[m].obj = o) => l = m

\* The process of an object started once can always be found again: it is the
\* one svc names, or its goroutine is about to write it there.
NoOrphan ==
  \A o \in Object :
    StartedOnce(o) =>
      \A p \in Alive(o) :
        \/ svc[o].pid = p
        \/ \E l \in Loop : /\ loops[l].obj = o /\ loops[l].pid = p
                           /\ loops[l].phase = "spawned"

\* A Stop that found a process has ended it, and none comes back: neither by
\* the restart policy nor out of a backoff whose delay passes just then.
StoppedStaysStopped ==
  \A o \in Object, k \in Stopper :
    (StartedOnce(o) /\ term[o][k].phase = "gone") => Alive(o) = {}

\* Every Stop returns: a process that ignores SIGTERM is killed.
StopReturns ==
  \A o \in Object, k \in Stopper :
    term[o][k].phase # "none" ~> term[o][k].phase \in {"unseen", "gone"}

\* docs/SYSTEM-CONTRACT.md:44, "Service crash: Supervisor restarts": a service
\* with policy always that has lost its process tries to start again.
CrashRestarts ==
  \A l \in Loop, o \in Object :
    (loops[l].phase = "decide" /\ loops[l].obj = o /\ svc[o].policy = "always")
      ~> loops[l].phase = "starting" \/ Asked(o) \/ tries = MaxTries

\* supervisor.go:283, "Stop stops a service gracefully."
StopStops ==
  \A o \in Object, k \in Caller :
    (StartedOnce(o) /\ term[o][k].phase \in {"unseen", "gone"})
      => Alive(o) = {}

=============================================================================
