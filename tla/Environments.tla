---------------------------- MODULE Environments ----------------------------
(***************************************************************************)
(* The directories of dependencies under ~/.prisn/envs and the two         *)
(* managers that share them: venv.Manager, which the runner uses, and      *)
(* runtime.EnvManager, which the executor of runtimes uses.  They compute  *)
(* the same name for the same dependencies, and each keeps a map of its    *)
(* own, in the memory of its process, of what it is creating.              *)
(*                                                                         *)
(* A step is a look at the directory, a hold of the lock, a command that   *)
(* runs, or a part of a removal: other goroutines, the cleanup command,    *)
(* which is a process of its own, and the end of a process come between    *)
(* any two.  A manifest without dependencies touches no directory and is   *)
(* left out.                                                               *)
(***************************************************************************)
EXTENDS Naturals, FiniteSets

CONSTANTS
  Env,          \* environment directories
  Runner,       \* goroutines that call venv.Manager.Prepare
  Executor,     \* goroutines that call EnvManager.Prepare
  Home,         \* Home[g]: the process that goroutine g runs in
  Nobody,       \* no goroutine, no directory
  Budgets       \* bounds, one set of them for each initial state: how many
                \* calls of Prepare, commands and removals that fail, cleanups
                \* and ends of a process there may be

VARIABLES
  EnvType,   \* EnvType[e]: the kind of e, which its runtime says
  dir,       \* dir[e]: what the directory of e holds
  old,       \* old[e]: it was last used longer than MaxAge ago
  creating,  \* creating[m][e]: who creates e for manager m of a process
  call,      \* call[g]: a call of Prepare
  cleaner,   \* the directory a cleanup is about to remove, or removes
  spoilt,    \* directories that met a situation QuietWhole leaves out
  left       \* what is left of the budget

vars == <<EnvType, dir, old, creating, call, cleaner, spoilt, left>>

-----------------------------------------------------------------------------

Goroutine == Runner \cup Executor

\* The word for the lack of a directory or of a goroutine is none of either.
ASSUME EnvsAssumption == Nobody \notin Env /\ Nobody \notin Goroutine

\* Every process has its own managers, with their own maps.
Manager == {<<Home[g], kind>> : g \in Goroutine, kind \in {"venv", "runtime"}}

ManagerOf(g) == <<Home[g], IF g \in Runner THEN "venv" ELSE "runtime">>

Creators(e) == {creating[m][e] : m \in Manager} \ {Nobody}

\* A directory that is there and not, or not any more, whole.
Half(e) == dir[e] \in {"begun", "tools"}

NotCleaning == [env |-> Nobody, removing |-> FALSE]

Idle == [pc |-> "idle", env |-> Nobody]

Spend(what) == left[what] > 0 /\ left' = [left EXCEPT ![what] = @ - 1]

Goto(g, pc) == call' = [call EXCEPT ![g].pc = pc]

\* venv.Manager.checkCache: a directory with an interpreter, whether or not its
\* dependencies are installed; for Node, any directory.
checkCacheVenv(e) ==
  IF EnvType[e] = "venv" THEN dir[e] \in {"tools", "whole"} ELSE dir[e] # "none"

\* EnvManager.checkCache, which knows more kinds of environment.
checkCacheRuntime(e) ==
  CASE EnvType[e] = "venv"     -> dir[e] \in {"tools", "whole"}
    [] EnvType[e] = "manifest" -> dir[e] # "none"
    [] EnvType[e] = "generic"  -> dir[e] # "none"

CacheHit(g) ==
  IF g \in Runner THEN checkCacheVenv(call[g].env) ELSE checkCacheRuntime(call[g].env)

Init ==
  /\ EnvType \in [Env -> {"venv", "manifest", "generic"}]
  /\ dir = [e \in Env |-> "none"]
  /\ old = [e \in Env |-> FALSE]
  /\ creating = [m \in Manager |-> [e \in Env |-> Nobody]]
  /\ call = [g \in Goroutine |-> Idle]
  /\ cleaner = NotCleaning
  /\ spoilt = {}
  /\ left \in Budgets

-----------------------------------------------------------------------------
(* Prepare *)

\* A call of Prepare with dependencies; venv.Manager creates no generic ones.
Prepare(g, e) ==
  /\ call[g].pc = "idle"
  /\ g \in Runner => EnvType[e] # "generic"
  /\ Spend("calls")
  /\ call' = [call EXCEPT ![g] = [pc |-> "check", env |-> e]]
  /\ UNCHANGED <<EnvType, dir, old, creating, cleaner, spoilt>>

\* checkCache, first or after waiting: a directory that exists is touched, and
\* returned if it passes.  After waiting, one that does not pass is an error.
CheckCache(g) ==
  /\ call[g].pc \in {"check", "recheck"}
  /\ old' = [old EXCEPT ![call[g].env] = @ /\ dir[call[g].env] = "none"]
  /\ call' = [call EXCEPT ![g] =
                IF call[g].pc = "check" /\ ~ CacheHit(g) THEN [@ EXCEPT !.pc = "claim"]
                  ELSE Idle]
  /\ UNCHANGED <<EnvType, dir, creating, cleaner, spoilt, left>>

\* Under the lock: wait for the goroutine that creates it, or become that one.
\* Nobody looks at the map of another manager or process, nor at what the
\* directory already holds.
Claim(g) ==
  LET m == ManagerOf(g)
      e == call[g].env
  IN
  /\ call[g].pc = "claim"
  /\ IF creating[m][e] # Nobody
       THEN Goto(g, "wait") /\ UNCHANGED <<creating, spoilt>>
       ELSE /\ creating' = [creating EXCEPT ![m][e] = g]
            /\ spoilt' = IF Creators(e) # {} \/ Half(e) THEN spoilt \cup {e} ELSE spoilt
            /\ Goto(g, "begin")
  /\ UNCHANGED <<EnvType, dir, old, cleaner, left>>

\* A waiter whose context ends returns; its creator is not disturbed.
GiveUp(g) ==
  /\ call[g].pc = "wait"
  /\ Spend("failures")
  /\ call' = [call EXCEPT ![g] = Idle]
  /\ UNCHANGED <<EnvType, dir, old, creating, cleaner, spoilt>>

\* Mutant: the waiters are not woken.
WokenForgotten(g, e) == {}

\* The waiters on the channel a creator closes.
Woken(g, e) ==
  {w \in Goroutine : /\ call[w].pc = "wait"
                     /\ call[w].env = e
                     /\ ManagerOf(w) = ManagerOf(g)}

\* The deferred function of a creator, whatever way creation ended.
Release(g) ==
  LET e == call[g].env IN
  /\ call[g].pc = "release"
  /\ creating' = [creating EXCEPT ![ManagerOf(g)][e] = Nobody]
  /\ call' = [w \in Goroutine |->
                IF w = g THEN Idle
                ELSE IF w \in Woken(g, e) THEN [call[w] EXCEPT !.pc = "recheck"]
                ELSE call[w]]
  /\ UNCHANGED <<EnvType, dir, old, cleaner, spoilt, left>>

-----------------------------------------------------------------------------
(* Creation *)

\* python -m venv makes the directory, the interpreter, and then pip.  When it
\* fails, what it made is left behind.
BeginVenv(g) ==
  LET e == call[g].env IN
  /\ call[g].pc = "begin"
  /\ EnvType[e] = "venv"
  /\ \/ /\ dir' = [dir EXCEPT ![e] = "tools"]
        /\ Goto(g, "install")
        /\ UNCHANGED <<spoilt, left>>
     \/ /\ Spend("failures")
        /\ \E d \in {"begun", "tools"} : dir' = [dir EXCEPT ![e] = d]
        /\ spoilt' = spoilt \cup {e}
        /\ Goto(g, "release")
  /\ old' = [old EXCEPT ![e] = FALSE]
  /\ UNCHANGED <<EnvType, creating, cleaner>>

\* The directory and the manifest of npm, composer or bundler; a failing write
\* leaves the directory behind.
BeginManifest(g) ==
  LET e == call[g].env IN
  /\ call[g].pc = "begin"
  /\ EnvType[e] = "manifest"
  /\ dir' = [dir EXCEPT ![e] = "begun"]
  /\ \/ Goto(g, "install") /\ UNCHANGED <<spoilt, left>>
     \/ /\ Spend("failures")
        /\ spoilt' = spoilt \cup {e}
        /\ Goto(g, "release")
  /\ old' = [old EXCEPT ![e] = FALSE]
  /\ UNCHANGED <<EnvType, creating, cleaner>>

\* createGenericEnv: the directory, and the install command of the runtime if it
\* has one.
BeginGeneric(g) ==
  LET e == call[g].env IN
  /\ call[g].pc = "begin"
  /\ EnvType[e] = "generic"
  /\ \/ dir' = [dir EXCEPT ![e] = "begun"] /\ Goto(g, "install")
     \/ dir' = [dir EXCEPT ![e] = "whole"] /\ Goto(g, "release")
  /\ old' = [old EXCEPT ![e] = FALSE]
  /\ UNCHANGED <<EnvType, creating, cleaner, spoilt, left>>

\* Mutant: what a failing command leaves is kept.
AfterFailureKept(e) == dir[e]

\* os.RemoveAll after a failing command.
AfterFailure(e) == "none"

\* The command that installs the dependencies.
Install(g) ==
  LET e == call[g].env IN
  /\ call[g].pc = "install"
  /\ \/ /\ dir[e] # "none"
        /\ dir' = [dir EXCEPT ![e] = "whole"]
        /\ Goto(g, "release")
        /\ UNCHANGED left
     \/ /\ (dir[e] = "none" /\ UNCHANGED left) \/ Spend("failures")
        /\ Goto(g, "undo")
        /\ UNCHANGED dir
  /\ UNCHANGED <<EnvType, old, creating, cleaner, spoilt>>

\* The removal of what a failed command has left.  Its error is dropped, with
\* what is then still there.
Undo(g) ==
  LET e == call[g].env IN
  /\ call[g].pc = "undo"
  /\ \/ /\ dir' = [dir EXCEPT ![e] = AfterFailure(e)]
        /\ UNCHANGED <<spoilt, left>>
     \/ /\ dir[e] # "none"
        /\ Spend("failures")
        /\ \E d \in {"begun", dir[e]} : dir' = [dir EXCEPT ![e] = d]
        /\ spoilt' = spoilt \cup {e}
  /\ Goto(g, "release")
  /\ UNCHANGED <<EnvType, old, creating, cleaner>>

\* What venv.Manager does: createPythonEnv or createNodeEnv.
CreateForRunner(g) ==
  g \in Runner /\ (BeginVenv(g) \/ BeginManifest(g) \/ Install(g) \/ Undo(g))

\* What EnvManager.createEnv does.
createEnv(g) ==
  /\ g \in Executor
  /\ \/ BeginVenv(g) \/ BeginManifest(g) \/ BeginGeneric(g)
     \/ Install(g) \/ Undo(g)

-----------------------------------------------------------------------------
(* Time, cleanup and the end of the process *)

\* Nothing used e for MaxAge; creating it takes less.
Age(e) ==
  /\ dir[e] # "none"
  /\ ~ old[e]
  /\ Creators(e) = {}
  /\ left.cleanups > 0
  /\ old' = [old EXCEPT ![e] = TRUE]
  /\ UNCHANGED <<EnvType, dir, creating, call, cleaner, spoilt, left>>

\* Cleanup reads the time of a directory and then removes it.
CleanupSees(e) ==
  /\ cleaner = NotCleaning
  /\ old[e]
  /\ Spend("cleanups")
  /\ cleaner' = [env |-> e, removing |-> FALSE]
  /\ UNCHANGED <<EnvType, dir, old, creating, call, spoilt>>

\* A cleanup that works beside a creator leaves nobody knows what.
Beside(e) == spoilt' = IF Creators(e) # {} THEN spoilt \cup {e} ELSE spoilt

\* os.RemoveAll removes file after file, which gives the directory a new time:
\* for a while it has an interpreter and some of its packages, or not even that.
CleanupRemoves ==
  LET e == cleaner.env IN
  /\ cleaner # NotCleaning
  /\ dir[e] # "none"
  /\ \E d \in {"begun", "tools"} :
       /\ d = "tools" => EnvType[e] = "venv" /\ dir[e] # "begun"
       /\ dir' = [dir EXCEPT ![e] = d]
  /\ old' = [old EXCEPT ![e] = FALSE]
  /\ cleaner' = [cleaner EXCEPT !.removing = TRUE]
  /\ Beside(e)
  /\ UNCHANGED <<EnvType, creating, call, left>>

CleanupEnds ==
  LET e == cleaner.env IN
  /\ cleaner # NotCleaning
  /\ dir' = [dir EXCEPT ![e] = "none"]
  /\ old' = [old EXCEPT ![e] = FALSE]
  /\ cleaner' = NotCleaning
  /\ Beside(e)
  /\ UNCHANGED <<EnvType, creating, call, left>>

\* The removal fails, as it may when somebody creates files meanwhile, or the
\* command is ended.  The error is dropped, and what is left is left.
CleanupStops ==
  LET e == cleaner.env IN
  /\ cleaner # NotCleaning
  /\ (Creators(e) # {} /\ UNCHANGED left) \/ Spend("failures")
  /\ spoilt' = IF cleaner.removing THEN spoilt \cup {e} ELSE spoilt
  /\ cleaner' = NotCleaning
  /\ UNCHANGED <<EnvType, dir, old, creating, call>>

\* A process ends; the directories stay, with what its commands make of them.
Crash(p) ==
  /\ Spend("crashes")
  /\ creating' = [m \in Manager |-> IF m[1] = p THEN [e \in Env |-> Nobody]
                                               ELSE creating[m]]
  /\ call' = [g \in Goroutine |-> IF Home[g] = p THEN Idle ELSE call[g]]
  /\ spoilt' = spoilt \cup {e \in Env : \E g \in Creators(e) : Home[g] = p}
  /\ UNCHANGED <<EnvType, dir, old, cleaner>>

-----------------------------------------------------------------------------

PrepareStep(g) ==
  CheckCache(g) \/ Claim(g) \/ CreateForRunner(g) \/ createEnv(g) \/ Release(g)

Next ==
  \/ \E g \in Goroutine, e \in Env : Prepare(g, e)
  \/ \E g \in Goroutine : PrepareStep(g) \/ GiveUp(g)
  \/ \E e \in Env : Age(e) \/ CleanupSees(e)
  \/ CleanupRemoves \/ CleanupEnds \/ CleanupStops
  \/ \E g \in Goroutine : Crash(Home[g])

Spec == Init /\ [][Next]_vars

\* Goroutines go on, and the commands they run come to an end.
Fairness == \A g \in Goroutine : WF_vars(PrepareStep(g))

FairSpec == Spec /\ Fairness

-----------------------------------------------------------------------------
(* Properties *)

\* What nobody is creating or removing is whole or not there: failing installs,
\* waiters that give up, other processes and cleanups between them leave no
\* half-made environment for a later Prepare to take for a good one.  Left out
\* are directories whose first step failed, whose creator was ended with its
\* process, which two managers created at once, which were created over a half
\* one, which a cleanup worked on beside a creator, or whose removal failed.
QuietWhole ==
  \A e \in Env \ spoilt :
    (Creators(e) = {} /\ ~ (cleaner.env = e /\ cleaner.removing))
      => dir[e] \in {"none", "whole"}

\* Every Prepare returns: whoever waits for a creator is told when it ends,
\* with or without success.
PrepareReturns == \A g \in Goroutine : call[g].pc # "idle" ~> call[g].pc = "idle"

\* venv/manager.go:85, "Returns the path to the prepared environment": a hit of
\* the cache that nothing spoilt is a whole environment.
HitsAreWhole ==
  \A g \in Goroutine :
    (call[g].pc = "check" /\ CacheHit(g) /\ call[g].env \notin spoilt)
      => dir[call[g].env] = "whole"

=============================================================================
