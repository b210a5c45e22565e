-------------------------------- MODULE Host --------------------------------
(***************************************************************************)
(* What a host keeps on disk and runs: the environments, the cache of      *)
(* sources, the layers, and the run of a script.  They share no state: a   *)
(* behaviour exercises one of them, and the others rest.                   *)
(***************************************************************************)
EXTENDS Environments

CONSTANTS
  Key, Worker, Reader, Caller, WarmSize, HotSize, MaxSize, QueueCap, MaxMade,
  CacheBudgets,                                               \* StorageCache
  Proc, Base, BaseDef, Project, Stdlib, None, LayerBudgets,   \* Layers
  Child, Grace, Options                                       \* ScriptRun

VARIABLES
  part,  \* the component that is exercised
  entries, obj, made, size, queue, sync, closed, proc, warm, hot, cacheSpoilt,
  cacheLeft,
  mem, op, import, stack, layerDir, tmp, index, layerSpoilt, budget,
  opt, pc, main, kids, box, boxed, frozen, watched, seen, band, temp, expired,
  result

Cache == INSTANCE StorageCache WITH
  Budgets <- CacheBudgets, spoilt <- cacheSpoilt, left <- cacheLeft

\* There is a key, and the model has an object for each archive of a restart.
ASSUME CacheAssumption ==
  /\ Key # {} /\ IsFiniteSet(Key)
  /\ MaxMade \in Nat /\ Cardinality(Key) <= MaxMade
  /\ WarmSize \in Nat /\ HotSize \in Nat

Layer == INSTANCE Layers WITH
  Budgets <- LayerBudgets, dir <- layerDir, spoilt <- layerSpoilt

\* A project is a Python or a Node project, and None is none of the things it
\* stands in for.
ASSUME LayerAssumption ==
  /\ \A d \in Project : d.lang \in {"python", "node"}
  /\ \A b \in Base : BaseDef[b].lang \in {"python", "node"}
  /\ None \notin Base /\ None \notin Layer!Memory /\ None \notin Layer!Stack

Script == INSTANCE ScriptRun

-----------------------------------------------------------------------------

cacheVars == <<entries, obj, made, size, queue, sync, closed, proc, warm, hot,
               cacheSpoilt, cacheLeft>>

layerVars == <<mem, op, import, stack, layerDir, tmp, index, layerSpoilt, budget>>

scriptVars == <<opt, pc, main, kids, box, boxed, frozen, watched, seen, band,
                temp, expired, result>>

hostVars == <<part, vars, cacheVars, layerVars, scriptVars>>

HostInit ==
  /\ part \in {"env", "cache", "layer", "script"}
  /\ Init /\ Cache!Init /\ Layer!Init /\ Script!Init

HostNext ==
  \/ /\ part = "env" /\ Next
     /\ UNCHANGED <<part, cacheVars, layerVars, scriptVars>>
  \/ /\ part = "cache" /\ Cache!Next
     /\ UNCHANGED <<part, vars, layerVars, scriptVars>>
  \/ /\ part = "layer" /\ Layer!Next
     /\ UNCHANGED <<part, vars, cacheVars, scriptVars>>
  \/ /\ part = "script" /\ Script!Next
     /\ UNCHANGED <<part, vars, cacheVars, layerVars>>

\* The fairness of each component, while it is the one exercised.
HostFairness ==
  /\ \A g \in Goroutine : WF_vars(part = "env" /\ PrepareStep(g))
  /\ \A w \in Worker : WF_cacheVars(part = "cache" /\ Cache!WorkerStep(w))
  /\ \A p \in Worker \cup Reader :
       WF_cacheVars(part = "cache" /\ Cache!ExtractStep(p))
  /\ WF_scriptVars(part = "script" /\ Script!RunStep)
  /\ WF_scriptVars(part = "script" /\ Script!Deadline)
  /\ WF_scriptVars(part = "script" /\ Script!Check)
  /\ WF_scriptVars(part = "script" /\ Script!Act)

HostSpec == HostInit /\ [][HostNext]_hostVars

-----------------------------------------------------------------------------
(* Properties, besides those of Environments *)

\* storage/cache.go: while nobody works on a key, a warm entry of the map has its
\* archive and a hot one its whole directory.
MapTrue == Cache!MapTrue

\* layer/store.go: while a script runs on a young stack, every package it asked
\* for is installed, whole, in one of its layers, but for the layers that Spoil names.
StacksWhole == Layer!StacksWhole

\* runtime/executor.go:348: when a run reports its timeout, nothing the script
\* started in its group is alive.
TimeoutKillsAll == Script!TimeoutKillsAll

\* Nobody waits for ever: a Prepare (venv/manager.go:100) and a PrimeSync
\* (storage/cache.go:339) are answered, a run returns by its deadline and its file
\* of inline code is removed (runner.go, executor.go), and a script that stays
\* above the pause threshold is killed after the grace period (sandbox.go:306).
NothingHangs ==
  /\ PrepareReturns
  /\ Cache!PrimeAnswered
  /\ part = "script" => Script!RunReturns
  /\ Script!GraceEnds

=============================================================================
