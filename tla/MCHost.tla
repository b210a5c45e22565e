------------------------------- MODULE MCHost -------------------------------
(* Host, for TLC. *)
EXTENDS Host

CacheBudget(primes, syncs, gets, assigns, closes, failures, restarts) ==
  [primes |-> primes, syncs |-> syncs, gets |-> gets, assigns |-> assigns,
   closes |-> closes, failures |-> failures, restarts |-> restarts]

MCCacheBudgets ==
  {CacheBudget(1, 1, 0, 1, 1, 0, 0), CacheBudget(2, 0, 1, 0, 0, 1, 0),
   CacheBudget(1, 1, 0, 0, 0, 0, 1)}

EnvBudget(calls, failures, cleanups, crashes) ==
  [calls |-> calls, failures |-> failures, cleanups |-> cleanups,
   crashes |-> crashes]

MCEnvBudgets == {EnvBudget(4, 1, 1, 0), EnvBudget(3, 2, 0, 1)}

\* The two goroutines of the runner are in one process, the executor's in
\* another.
Homes == [g \in Goroutine |-> IF g \in Runner THEN "cli" ELSE "server"]

\* Two bases, and project directories: pinned and open requirements with an
\* option among them, imports alone, and a package.json.
Bases == {"python-web", "node-web"}

BaseDefs ==
  [b \in Bases |->
     [lang |-> IF b = "node-web" THEN "node" ELSE "python", priority |-> 1,
      packages |-> {[name |-> n, version |-> ""] : n \in {"a", "b"}}]]

Line(kind, name, relation, version) ==
  [kind |-> kind, name |-> name, op |-> relation, version |-> version]

Directory(lang, requirements, imports) ==
  [lang |-> lang, requirements |-> requirements, pyproject |-> {}, setup |-> {},
   imports |-> imports]

Projects ==
  {Directory("python", {Line("spec", "a", "==", "1"), Line("spec", "c", ">=", "1"),
                        Line("option", "r", "", "")}, {}),
   Directory("python", {}, {"a", "b", "sys"}),
   Directory("node", {Line("spec", "a", "", "1"), Line("spec", "c", "", "1")}, {})}

LayerBudget(procs, langs, resolves, builds, imports, collections, ages, crashes) ==
  [procs |-> procs, langs |-> langs, bases |-> {b \in Bases : BaseDefs[b].lang \in langs},
   resolves |-> resolves, failures |-> 1, builds |-> builds, imports |-> imports,
   collections |-> collections, ages |-> ages, crashes |-> crashes]

\* Much of one language, a little of everything, and two processes.
MCLayerBudgets ==
  LET one == {CHOOSE p \in Proc : TRUE}
  IN  {LayerBudget(one, {"python"}, 3, 1, 0, 2, 1, 0),
       LayerBudget(one, {"python"}, 3, 0, 1, 1, 1, 0),
       LayerBudget(one, {"node"}, 3, 1, 0, 0, 0, 2),
       LayerBudget(one, {"python", "node"}, 2, 1, 1, 1, 1, 1),
       LayerBudget(Proc, {"python"}, 2, 0, 0, 1, 1, 0)}

ScriptOption(path, sandbox, limits, inline, bands, near) ==
  [path |-> path, sandbox |-> sandbox, limits |-> limits, bands |-> bands,
   near |-> near, daemons |-> TRUE,
   inline |-> inline, shell |-> inline, layers |-> inline]

ScriptOptions ==
  {ScriptOption("pluggable", "cgroup", TRUE, FALSE, 2, FALSE),
   ScriptOption("pluggable", "cgroup", TRUE, TRUE, 1, TRUE),
   ScriptOption("pluggable", "rlimit", TRUE, FALSE, 0, TRUE),
   ScriptOption("pluggable", "none", FALSE, FALSE, 0, TRUE),
   ScriptOption("legacy", "cgroup", TRUE, TRUE, 1, TRUE)}

-----------------------------------------------------------------------------

\* A component that is not exercised rests in one of its initial states.
Rests(p, x, S) == part # p => x = CHOOSE y \in S : TRUE

MCInit ==
  /\ HostInit
  /\ Rests("env", left, MCEnvBudgets)
  /\ Rests("env", {EnvType[e] : e \in Env}, {{"venv"}})
  /\ Rests("cache", cacheLeft, MCCacheBudgets)
  /\ Rests("layer", budget, MCLayerBudgets)
  /\ Rests("script", opt, ScriptOptions)

MCSpec == MCInit /\ [][HostNext]_hostVars /\ HostFairness

=============================================================================
