----------------------------- MODULE ScriptRun -----------------------------
(***************************************************************************)
(* One call of Run: pkg/runtime/executor.go's ScriptRunner, or the legacy   *)
(* path of pkg/runner/runner.go, the process group it starts, the cgroup    *)
(* the group is moved to (pkg/sandbox, pkg/cgroup), and the monitor that    *)
(* pauses and kills by memory use.                                          *)
(*                                                                          *)
(* The group is the script's own process and the children it forks.  A      *)
(* child is in the cgroup if its parent was when it was forked; it may hold *)
(* the script's output open, which keeps cmd.Wait from returning.           *)
(***************************************************************************)
EXTENDS Naturals, FiniteSets

CONSTANTS Child,    \* the processes the script may fork
          Grace,    \* the grace period of the escalation policy, in checks
          Options   \* how the runner was built and called: see Init

VARIABLES opt,      \* the call's options: see Init
          pc,       \* where Run is
          main,     \* "none", "alive" or "dead": the script's process
          kids,     \* child -> [alive, boxed, holds]
          box,      \* "none", "made" or "gone": the sandbox context
          boxed,    \* the script's process is in the cgroup
          frozen,   \* the cgroup is frozen
          watched,  \* the monitor's entry: [on, paused]: checks since the pause, or 0
          seen,     \* the band of a check under way, or "none"
          band,     \* memory use: "low", "warn", "pause" or "kill"
          temp,     \* the file of inline code is there
          expired,  \* the deadline of the context has passed
          result    \* what Run returned

vars == <<opt, pc, main, kids, box, boxed, frozen, watched, seen, band, temp, expired, result>>

Band == {"low", "warn", "pause", "kill"}
NoChild == [alive |-> FALSE, boxed |-> FALSE, holds |-> FALSE]

\* Options: the path ("pluggable" or "legacy"), the sandbox the runner has
\* ("cgroup", "rlimit" or "none"), whether the code is inline, shell tools are
\* checked, layers are used, and the caller set limits, whether children may
\* close the output they inherit, how often the memory use may change, and
\* whether the deadline is near: one of an hour is out of sight of the monitor's
\* seconds.
Init == /\ opt \in Options
        /\ pc = IF opt.inline THEN "inline" ELSE "validate"
        /\ main = "none"
        /\ kids = [c \in Child |-> NoChild]
        /\ box = "none" /\ boxed = FALSE /\ frozen = FALSE
        /\ watched = [on |-> FALSE, paused |-> 0]
        /\ seen = "none" /\ band = "low"
        /\ temp = FALSE /\ expired = FALSE
        /\ result = "none"

\* Runner.Run takes the pluggable path when the runner could be built with it.
UsePluggableRuntime == opt.path = "pluggable"

Running(c) == kids[c].alive /\ ~(frozen /\ kids[c].boxed)
MainRunning == main = "alive" /\ ~(frozen /\ boxed)

group == <<main, kids, boxed, frozen>>
monitor == <<watched, seen>>

-----------------------------------------------------------------------------
(* Before the script starts                                                 *)

\* Run returns an error; the deferred calls start at the given place.
Fails(next) == pc' = next /\ result' = "error"

\* A step that fails, or goes on, and touches nothing else.
Step(at, may, next) ==
    /\ pc = at
    /\ \/ may /\ Fails("temp")
       \/ pc' = next /\ UNCHANGED result
    /\ UNCHANGED <<opt, group, box, monitor, band, temp, expired>>

RunInline ==
    /\ pc = "inline"
    /\ \/ Fails("temp") /\ UNCHANGED temp
       \/ temp' = TRUE /\ pc' = "validate" /\ UNCHANGED result
    /\ UNCHANGED <<opt, group, box, monitor, band, expired>>

validateScriptPath == Step("validate", TRUE, "detect")

\* No runtime for the file, or one the registry does not know.
Detect == Step("detect", TRUE, "shell")

\* Tools the script needs and the machine does not have.
Validate == Step("shell", UsePluggableRuntime /\ opt.shell, "layers")

\* The layers come first; when they fail the environment manager is asked.
prepareWithLayers ==
    /\ pc = "layers"
    /\ pc' \in IF UsePluggableRuntime /\ opt.layers THEN {"create", "prepare"} ELSE {"prepare"}
    /\ UNCHANGED <<opt, group, box, monitor, band, temp, expired, result>>

Prepare == Step("prepare", TRUE, "create")

\* The sandbox's context; without it the script runs unprotected.
CreateOutcomes == IF opt.sandbox = "cgroup" THEN {"none", "made"} ELSE {"made"}

Create ==
    /\ pc = "create"
    /\ IF UsePluggableRuntime /\ opt.sandbox # "none" /\ opt.limits
       THEN box' \in CreateOutcomes
       ELSE UNCHANGED box
    /\ pc' = "start"
    /\ UNCHANGED <<opt, group, monitor, band, temp, expired, result>>

Start ==
    /\ pc = "start"
    /\ \/ /\ Fails("cleanup")
          /\ UNCHANGED main
       \/ /\ ~expired
          /\ main' = "alive"
          /\ pc' = "attach"
          /\ UNCHANGED result
    /\ UNCHANGED <<opt, kids, boxed, frozen, box, monitor, band, temp, expired>>

\* Context.Process moves the running process to the cgroup; a dead one cannot
\* be moved.  The rlimit sandbox moves nothing.
Process == box = "made" /\ (opt.sandbox = "cgroup" => main = "alive")

\* The monitor gets the process, unless it could not be moved.
Attach ==
    /\ pc = "attach" /\ UsePluggableRuntime
    /\ \/ /\ Process
          /\ boxed' = (opt.sandbox = "cgroup")
          /\ watched' = [on |-> TRUE, paused |-> 0]
       \/ /\ ~(Process /\ opt.sandbox = "rlimit")
          /\ UNCHANGED <<boxed, watched>>
    /\ pc' = "wait"
    /\ UNCHANGED <<opt, main, kids, frozen, box, seen, band, temp, expired, result>>

\* cgroup.Manager makes a group for the running process; nobody watches it.
ManagerCreate == box' = "made" /\ boxed' = TRUE

applyResourceLimits ==
    /\ pc = "attach" /\ ~UsePluggableRuntime
    /\ \/ opt.limits /\ opt.sandbox = "cgroup" /\ main = "alive" /\ ManagerCreate
       \/ UNCHANGED <<box, boxed>>
    /\ pc' = "wait"
    /\ UNCHANGED <<opt, main, kids, frozen, monitor, band, temp, expired, result>>

-----------------------------------------------------------------------------
(* The script                                                               *)

Fork(c) ==
    /\ MainRunning /\ ~kids[c].alive
    /\ kids' = [kids EXCEPT ![c] = [alive |-> TRUE, boxed |-> boxed, holds |-> TRUE]]
    /\ UNCHANGED <<opt, pc, main, boxed, frozen, box, monitor, band, temp, expired, result>>

\* A daemon closes the output it inherited.
Detach(c) ==
    /\ opt.daemons /\ Running(c) /\ kids[c].holds
    /\ kids' = [kids EXCEPT ![c].holds = FALSE]
    /\ UNCHANGED <<opt, pc, main, boxed, frozen, box, monitor, band, temp, expired, result>>

ChildExit(c) ==
    /\ Running(c)
    /\ kids' = [kids EXCEPT ![c] = NoChild]
    /\ UNCHANGED <<opt, pc, main, boxed, frozen, box, monitor, band, temp, expired, result>>

Exit ==
    /\ MainRunning
    /\ main' = "dead"
    /\ UNCHANGED <<opt, pc, kids, boxed, frozen, box, monitor, band, temp, expired, result>>

\* The memory of the cgroup grows, or the kernel takes some back.
Memory ==
    /\ boxed /\ main = "alive" /\ opt.bands > 0
    /\ \E b \in Band \ {band} : band' = b
    /\ opt' = [opt EXCEPT !.bands = @ - 1]
    /\ UNCHANGED <<pc, group, box, monitor, temp, expired, result>>

-----------------------------------------------------------------------------
(* Waiting                                                                  *)

\* A kill of the script's process only.
Kill == main' = IF main = "alive" THEN "dead" ELSE main

\* The deadline: exec.CommandContext kills the script's process, not the group.
Deadline ==
    /\ opt.near /\ ~expired /\ pc # "done"
    /\ expired' = TRUE
    /\ Kill
    /\ UNCHANGED <<opt, pc, kids, boxed, frozen, box, monitor, band, temp, result>>

\* cmd.Wait returns once the process is dead and its output is closed.
WaitDone == main = "dead" /\ \A c \in Child : ~(kids[c].alive /\ kids[c].holds)

Completed ==
    /\ pc = "wait" /\ WaitDone
    /\ result' = "exit"
    /\ pc' = "unwatch"
    /\ UNCHANGED <<opt, group, box, monitor, band, temp, expired>>

\* Mutant of KillGroup: the signal goes to the process alone.
KillMain == main' = "dead" /\ UNCHANGED kids

\* SIGKILL to the process group.
KillGroup == main' = "dead" /\ kids' = [c \in Child |-> NoChild]

\* The context's end is enough to leave the wait.
TimerWins == expired

TimedOut ==
    /\ pc = "wait" /\ TimerWins
    /\ KillGroup
    /\ result' = "timeout"
    /\ pc' = "unwatch"
    /\ UNCHANGED <<opt, boxed, frozen, box, monitor, band, temp, expired>>

\* The deferred calls, last first: the monitor forgets the process, then the
\* cgroup is killed and removed, then the file of inline code.
Unwatch ==
    /\ pc = "unwatch"
    /\ watched' = [watched EXCEPT !.on = FALSE]
    /\ pc' = "cleanup"
    /\ UNCHANGED <<opt, group, box, seen, band, temp, expired, result>>

Cleanup ==
    /\ pc = "cleanup" /\ UsePluggableRuntime
    /\ IF box = "made" /\ opt.sandbox = "cgroup"
       THEN /\ kids' = [c \in Child |-> IF kids[c].boxed THEN NoChild ELSE kids[c]]
            /\ frozen' = FALSE
       ELSE UNCHANGED <<kids, frozen>>
    /\ box' = IF box = "made" THEN "gone" ELSE box
    /\ pc' = "temp"
    /\ UNCHANGED <<opt, main, boxed, monitor, band, temp, expired, result>>

\* The legacy path waits up to a second for its cgroup to empty; one that still
\* has a process stays.
ManagerRemove ==
    /\ pc = "cleanup" /\ ~UsePluggableRuntime
    /\ box' = IF box = "made" /\ \A c \in Child : ~kids[c].boxed THEN "gone" ELSE box
    /\ pc' = "temp"
    /\ UNCHANGED <<opt, group, monitor, band, temp, expired, result>>

RemoveTemp ==
    /\ pc = "temp"
    /\ temp' = FALSE
    /\ pc' = "done"
    /\ UNCHANGED <<opt, group, box, monitor, band, expired, result>>

-----------------------------------------------------------------------------
(* The monitor: a check reads the memory use, then acts on it.  The use of  *)
(* a cgroup that is gone, and of an rlimit process, reads as nothing.        *)

Stats == IF opt.sandbox = "cgroup" /\ box = "made" THEN band ELSE "low"

\* A second passes from check to check.
Older(n) == IF n \in 1..Grace THEN n + 1 ELSE n

Check ==
    /\ watched.on /\ seen = "none"
    /\ seen' = Stats
    /\ watched' = [watched EXCEPT !.paused = Older(@)]
    /\ UNCHANGED <<opt, pc, group, box, band, temp, expired, result>>

\* The time of the pause is kept, so that the grace period can end.
PausedSince == watched.paused

\* The cgroup is frozen and thawed.
Pause == frozen' = (opt.sandbox = "cgroup" /\ box = "made")
Resume == frozen' = FALSE

Act ==
    /\ \/ /\ seen = "kill"
          /\ Kill
          /\ UNCHANGED <<frozen, watched>>
       \/ /\ seen = "pause" /\ watched.paused = 0
          /\ Pause
          /\ watched' = [watched EXCEPT !.paused = 1]
          /\ UNCHANGED main
       \/ /\ seen = "pause" /\ watched.paused > 0
          /\ IF watched.paused > Grace THEN Kill ELSE UNCHANGED main
          /\ watched' = [watched EXCEPT !.paused = PausedSince]
          /\ UNCHANGED frozen
       \/ /\ seen = "warn"
          /\ UNCHANGED <<main, frozen, watched>>
       \/ /\ seen = "low"
          /\ IF watched.paused > 0 THEN Resume ELSE UNCHANGED frozen
          /\ watched' = [watched EXCEPT !.paused = 0]
          /\ UNCHANGED main
    /\ seen' = "none"
    /\ UNCHANGED <<opt, pc, kids, boxed, box, band, temp, expired, result>>

-----------------------------------------------------------------------------
RunStep == \/ RunInline \/ validateScriptPath \/ Detect \/ Validate
           \/ prepareWithLayers \/ Prepare \/ Create \/ Start
           \/ Attach \/ applyResourceLimits \/ Completed \/ TimedOut
           \/ Unwatch \/ Cleanup \/ ManagerRemove \/ RemoveTemp

Next == \/ RunStep
        \/ \E c \in Child : Fork(c) \/ Detach(c) \/ ChildExit(c)
        \/ Exit \/ Memory
        \/ Deadline
        \/ Check \/ Act

\* Run goes on, the clock does, and the monitor's loop checks every second.
\* Nothing is assumed of the script.
Fairness == /\ WF_vars(RunStep)
            /\ WF_vars(Deadline)
            /\ WF_vars(Check) /\ WF_vars(Act)

Spec == Init /\ [][Next]_vars

FairSpec == Spec /\ Fairness

-----------------------------------------------------------------------------
\* When Run reports a timeout nothing of the script's group is alive any more:
\* not the process, and not a child that was forked before the process was
\* moved to its cgroup, was frozen, or closed its output.
TimeoutKillsAll ==
    pc = "done" /\ result = "timeout" => main # "alive" /\ \A c \in Child : ~kids[c].alive

\* A script that stays above the pause threshold is not left paused: it is
\* killed when the grace period is over, however far its own deadline is.
GraceEnds ==
    (frozen /\ band = "pause" /\ main = "alive") ~> (main = "dead" \/ band # "pause")

\* A paused process is resumed or killed, wherever its memory use goes.
PausedEnds == (frozen /\ main = "alive") ~> (~frozen \/ main = "dead")

\* A run ends by its deadline and leaves no file of inline code, whatever the
\* script and its children do.
RunReturns == opt.near ~> (pc = "done" /\ ~temp)
=============================================================================
