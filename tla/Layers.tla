------------------------------- MODULE Layers -------------------------------
(***************************************************************************)
(* The layer store (pkg/layer): directories of installed packages named by *)
(* the hash of their package list, bases that cover common packages, and   *)
(* stacks of a base and a delta layer that a script runs on.  A store is    *)
(* the memory of one process over a directory tree and an index file that   *)
(* every process of the machine shares; its mutex makes the operations of   *)
(* one process serial, except the extraction of an imported base, which     *)
(* runs without it.                                                         *)
(*                                                                          *)
(* A layer's identity is the list it was hashed from.  Package names are    *)
(* lower case, and a list pins a name at most once.  Time is kept as        *)
(* whether GarbageCollect's maximal age has passed since the last use.      *)
(***************************************************************************)
EXTENDS Naturals, FiniteSets

CONSTANTS Proc,      \* processes that open the store
          Base,      \* names of the pre-built bases
          BaseDef,   \* name -> [lang, packages, priority]
          Project,   \* the project directories that may be resolved
          Stdlib,    \* imports that belong to the interpreter
          None,
          Budgets    \* what may happen in a run: see Init

VARIABLES mem,     \* process -> [up, layers, recent, bases]
          op,      \* process -> the operation under the mutex, or Idle
          import,  \* process -> the base being extracted, or None
          stack,   \* process -> the stack its script runs on, or None
          dir,     \* layer -> "none", "part" or "whole": the directory
          tmp,     \* layers whose temporary directory is there
          index,   \* index.json: [layers, recent, bases], or None if torn
          spoilt,  \* layers that StacksWhole says nothing of: see Spoil
          budget

vars == <<mem, op, import, stack, dir, tmp, index, spoilt, budget>>

Pkg(n, v) == [name |-> n, version |-> v]
Names(ps) == {p.name : p \in ps}

-----------------------------------------------------------------------------
(* What a project needs: the first source that names a package.             *)

\* The lines of requirements.txt that are package specifications; only ==
\* keeps its version.
parseRequirementsTxt(lines) ==
    {Pkg(l.name, IF l.op = "==" THEN l.version ELSE "") :
        l \in {m \in lines : m.kind = "spec"}}

\* The quoted names of a dependency list; versions are dropped.
parsePyprojectToml(lines) == {Pkg(l.name, "") : l \in lines}
parseSetupPy(lines) == {Pkg(l.name, "") : l \in lines}

\* package.json's dependencies; the range operator is cut off, so a range
\* becomes a pin of its lower end.
parsePackageJSON(lines) == {Pkg(l.name, l.version) : l \in lines}

scanImports(names) == {Pkg(n, "") : n \in names \ Stdlib}
scanNodeImports(names) == {Pkg(n, "") : n \in names \ Stdlib}

FirstOf(a, b) == IF a # {} THEN a ELSE b

detectPackages(d) ==
    FirstOf(parseRequirementsTxt(d.requirements),
    FirstOf(parsePyprojectToml(d.pyproject),
    FirstOf(parseSetupPy(d.setup), scanImports(d.imports))))

detectNodePackages(d) ==
    FirstOf(parsePackageJSON(d.requirements), scanNodeImports(d.imports))

ResolveFromDir(d) ==
    IF d.lang = "node" THEN detectNodePackages(d) ELSE detectPackages(d)

\* One entry for each name, the pinned one if there is one.
normalizePackages(ps) ==
    {p \in ps : p.version # "" \/ \A q \in ps : q.name = p.name => q.version = ""}

-----------------------------------------------------------------------------
(* Choosing layers                                                          *)

computeLayerID(lang, ps) == [lang |-> lang, packages |-> normalizePackages(ps)]
BaseLayer(b) == computeLayerID(BaseDef[b].lang, BaseDef[b].packages)

Covered(b, ps) == {p \in BaseDef[b].packages : p.name \in Names(ps)}
Score(b, ps) == Cardinality(Covered(b, ps)) * (BaseDef[b].priority + 1)

\* The bases that may be found: map order settles a tie.  A base has to cover
\* half of the packages or three of them.
BestOf(bs, ps) ==
    LET best == {b \in bs : /\ Score(b, ps) > 0
                            /\ \A c \in bs : Score(c, ps) <= Score(b, ps)}
        fits(b) == \/ Cardinality(Covered(b, ps)) >= Cardinality(ps) \div 2
                   \/ Cardinality(Covered(b, ps)) >= 3
    IN  IF best = {} THEN {None}
        ELSE {IF fits(b) THEN b ELSE None : b \in best}

\* Resolve looks at every base, ResolveNode at the bases named node-.
findBestBase(p, ps) == BestOf(mem[p].bases, ps)
findBestNodeBase(p, ps) ==
    BestOf({b \in mem[p].bases : BaseDef[b].lang = "node"}, ps)

computeDelta(ps, b) ==
    IF b = None THEN ps
    ELSE {p \in ps : p.name \notin Names(Covered(b, ps))}

Layer == {BaseLayer(b) : b \in Base}
           \cup {[lang |-> d.lang, packages |-> ps] :
                    d \in Project, ps \in UNION {SUBSET normalizePackages(ResolveFromDir(e)) : e \in Project}}

-----------------------------------------------------------------------------
(* The state of a store                                                     *)

Idle == [kind |-> "idle"]

Memory == [layers : SUBSET Layer, recent : SUBSET Layer, bases : SUBSET Base]

\* The language of the script, the packages that were asked for, the layers chosen
\* for them and the paths that the stack came to have.
Stack == [lang : {"python", "node"},
          need : SUBSET UNION {Names(normalizePackages(ResolveFromDir(d))) : d \in Project},
          fresh : BOOLEAN, chosen : SUBSET Layer, layers : SUBSET Layer]

Empty == [layers |-> {}, recent |-> {}, bases |-> {}]

\* A budget: processes, languages and bases in play, and how often a resolution,
\* a base, an import, a collection, a failed installation, the passing of the
\* maximal age, and a crash may happen.
Init == /\ mem = [p \in Proc |-> None]
        /\ op = [p \in Proc |-> Idle]
        /\ import = [p \in Proc |-> None]
        /\ stack = [p \in Proc |-> None]
        /\ dir = [l \in Layer |-> "none"]
        /\ tmp = {}
        /\ index = None
        /\ spoilt = {}
        /\ budget \in Budgets

Spend(f) == budget[f] > 0 /\ budget' = [budget EXCEPT ![f] = @ - 1]

\* The layers into which one of the processes is extracting an archive, and those
\* that an operation under a mutex is making.
Extracted(procs) == {BaseLayer(import[q]) : q \in {r \in procs : import[r] # None}}
Made == {op[q].id : q \in {r \in Proc : op[r].kind \in {"resolve", "build"}}}

\* What is in the directory when one writer is done: it is not whole while tar
\* still writes over it.
Filled(l, procs) == IF l \in Extracted(procs) THEN "part" ELSE "whole"

\* StacksWhole says nothing of a layer that is written over or removed while
\* the store may know it:
\*  - two processes have the store open, and neither knows what the other uses;
\*  - BuildBase or ImportBase writes over a layer that is there;
\*  - an import extracts a layer while Resolve or BuildBase makes it;
\*  - GarbageCollect takes a Node layer, whose use nobody notes;
\*  - GarbageCollect fails to remove a layer, or the process dies after it began to
\*    remove one and before saveIndex.
Spoil(ls) == spoilt' = spoilt \cup ls

\* A process opens the store; an index that cannot be read is an empty one.
NewStore(p) ==
    /\ mem[p] = None /\ p \in budget.procs
    /\ mem' = [mem EXCEPT ![p] = IF index = None THEN Empty ELSE index]
    /\ Spoil(IF \E r \in Proc : mem[r] # None THEN Layer ELSE {})
    /\ UNCHANGED <<op, import, stack, dir, tmp, index, budget>>

Free(p) == mem[p] # None /\ op[p] = Idle

\* The paths of the layers the store knows; for Node, of those that have a
\* node_modules directory.
composeStack(m, need, ls) ==
    [lang |-> "python", need |-> need, fresh |-> TRUE, chosen |-> ls, layers |-> ls \cap m.layers]
composeNodeStack(m, need, ls) ==
    [lang |-> "node", need |-> need, fresh |-> TRUE, chosen |-> ls,
     layers |-> {l \in ls \cap m.layers : dir[l] # "none"}]

Compose(lang, m, need, ls) ==
    IF lang = "node" THEN composeNodeStack(m, need, ls) ELSE composeStack(m, need, ls)

BaseLayers(b) == IF b = None THEN {} ELSE {BaseLayer(b)}

\* A base covers all, or the delta's layer is known: the stack is there.  Using
\* a Python layer refreshes it; a Node layer never has a time of use.
Hit(p, lang, ps, b, own) ==
    /\ own \subseteq mem[p].layers
    /\ stack' = [stack EXCEPT ![p] =
           Compose(lang, mem[p], Names(ps), BaseLayers(b) \cup own)]
    /\ mem' = [mem EXCEPT ![p].recent = @ \cup {l \in own : l.lang # "node"}]
    /\ UNCHANGED <<op, spoilt>>

Miss(p, ps, b, own) ==
    /\ \E id \in own \ mem[p].layers :
         op' = [op EXCEPT ![p] = [kind |-> "resolve", stage |-> "install", id |-> id,
                                  base |-> b, need |-> Names(ps)]]
    /\ Spoil(own \cap Extracted(Proc))
    /\ UNCHANGED <<mem, stack>>

ResolveWith(p, lang, ps, b) ==
    LET delta == computeDelta(ps, b)
        own == IF delta = {} THEN {} ELSE {computeLayerID(lang, delta)}
    IN  /\ stack[p] = None /\ lang \in budget.langs
        /\ Spend("resolves")
        /\ Hit(p, lang, ps, b, own) \/ Miss(p, ps, b, own)
        /\ UNCHANGED <<import, dir, tmp, index>>

Resolve(p, ps) ==
    Free(p) /\ \E b \in findBestBase(p, ps) : ResolveWith(p, "python", ps, b)
ResolveNode(p, ps) ==
    Free(p) /\ \E b \in findBestNodeBase(p, ps) : ResolveWith(p, "node", ps, b)

\* A base is built unless it and its layer are known.  BuildAllBases and
\* EnsureBasesExist call BuildBase for one after the other.
Build(p, b) ==
    /\ Free(p) /\ b \in budget.bases
    /\ ~(b \in mem[p].bases /\ BaseLayer(b) \in mem[p].layers)
    /\ Spend("builds")
    /\ op' = [op EXCEPT ![p] = [kind |-> "build", stage |-> "install",
                                id |-> BaseLayer(b), base |-> b, need |-> {}]]
    /\ Spoil({BaseLayer(b)} \cap (mem[p].layers \cup Extracted(Proc)))
    /\ UNCHANGED <<mem, import, stack, dir, tmp, index>>

BuildBase(p, b) == BaseDef[b].lang = "python" /\ Build(p, b)
BuildNodeBase(p, b) == BaseDef[b].lang = "node" /\ Build(p, b)

-----------------------------------------------------------------------------
(* Creating a layer: pip fills a temporary directory, which is moved to its *)
(* place; npm fills the layer's own.                                        *)

Stage(p, s) == op' = [op EXCEPT ![p].stage = s]
Return(p) == op' = [op EXCEPT ![p] = Idle]
At(p, s) == op[p] # Idle /\ op[p].stage = s

createLayer(p) ==
    /\ At(p, "install") /\ op[p].id.lang = "python"
    /\ tmp' = tmp \cup {op[p].id}
    /\ Stage(p, "pip")
    /\ UNCHANGED <<mem, import, stack, dir, index, spoilt, budget>>

installPackages(p) ==
    /\ At(p, "pip")
    /\ \/ Stage(p, "rename") /\ UNCHANGED <<tmp, budget>>
       \/ Spend("failures") /\ tmp' = tmp \ {op[p].id} /\ Return(p)
    /\ UNCHANGED <<mem, import, stack, dir, index, spoilt>>

createNodeLayer(p) ==
    /\ At(p, "install") /\ op[p].id.lang = "node"
    /\ dir' = [dir EXCEPT ![op[p].id] = "part"]
    /\ Stage(p, "npm")
    /\ UNCHANGED <<mem, import, stack, tmp, index, spoilt, budget>>

installNodePackages(p) ==
    /\ At(p, "npm")
    /\ \/ /\ dir' = [dir EXCEPT ![op[p].id] = "whole"]
          /\ Stage(p, "save")
          /\ UNCHANGED budget
       \/ /\ Spend("failures")
          /\ dir' = [dir EXCEPT ![op[p].id] = "none"]
          /\ Return(p)
    /\ UNCHANGED <<mem, import, stack, tmp, index, spoilt>>

\* The rename fails when a directory of that name is there already; its files
\* are then overwritten one by one.
Rename(p) ==
    LET id == op[p].id
    IN  /\ At(p, "rename")
        /\ IF id \notin tmp  \* another process moved or removed it
           THEN Return(p) /\ UNCHANGED <<dir, tmp>>
           ELSE IF dir[id] = "none"
           THEN /\ dir' = [dir EXCEPT ![id] = Filled(id, Proc)]
                /\ tmp' = tmp \ {id}
                /\ Stage(p, "save")
           ELSE /\ dir' = [dir EXCEPT ![id] = "part"]
                /\ Stage(p, "copy")
                /\ UNCHANGED tmp
        /\ UNCHANGED <<mem, import, stack, index, spoilt, budget>>

copyDir(p) ==
    LET id == op[p].id
    IN  /\ At(p, "copy")
        /\ dir' = [dir EXCEPT ![id] = IF id \in tmp THEN Filled(id, Proc) ELSE @]
        /\ tmp' = tmp \ {id}
        /\ IF id \in tmp THEN Stage(p, "save") ELSE Return(p)
        /\ UNCHANGED <<mem, import, stack, index, spoilt, budget>>

\* The memory with the new layer, and with the new base if that is the call.
Known(p) ==
    LET id == op[p].id
    IN  [layers |-> mem[p].layers \cup {id},
         recent |-> mem[p].recent \cup {l \in {id} : l.lang # "node"},
         bases |-> mem[p].bases \cup (IF op[p].kind = "build" THEN {op[p].base} ELSE {})]

\* saveIndex, and the return of the operation that called it.
Save(p) ==
    /\ At(p, "save")
    /\ LET m == IF op[p].kind = "gc" THEN mem[p] ELSE Known(p)
       IN  /\ mem' = [mem EXCEPT ![p] = m]
           /\ index' = m
           /\ IF op[p].kind = "resolve"
              THEN stack' = [stack EXCEPT ![p] =
                       Compose(op[p].id.lang, m, op[p].need, BaseLayers(op[p].base) \cup {op[p].id})]
              ELSE UNCHANGED stack
    /\ Return(p)
    /\ UNCHANGED <<import, dir, tmp, spoilt, budget>>

-----------------------------------------------------------------------------
(* Importing, collecting, crashing                                          *)

\* ImportBase extracts the archive over the layer's directory, without the
\* mutex; a broken archive ends the call there.
ImportBase(p, b) ==
    /\ mem[p] # None /\ import[p] = None /\ b \in budget.bases
    /\ BaseDef[b].lang = "python"
    /\ Spend("imports")
    /\ import' = [import EXCEPT ![p] = b]
    /\ dir' = [dir EXCEPT ![BaseLayer(b)] = "part"]
    /\ Spoil({l \in {BaseLayer(b)} : dir[l] = "whole" \/ l \in Made})
    /\ UNCHANGED <<mem, op, stack, tmp, index>>

\* The archive is extracted, the mutex free: base and layer become known, the
\* layer without a time of use.
Imported(p) ==
    LET b == import[p]
        l == BaseLayer(b)
        m == [mem[p] EXCEPT !.layers = @ \cup {l}, !.recent = @ \ {l}, !.bases = @ \cup {b}]
    IN  /\ b # None /\ Free(p)
        /\ mem' = [mem EXCEPT ![p] = m]
        /\ index' = m
        /\ dir' = [dir EXCEPT ![l] = Filled(l, Proc \ {p})]
        /\ import' = [import EXCEPT ![p] = None]
        /\ UNCHANGED <<op, stack, tmp, spoilt, budget>>

ImportFails(p) ==
    /\ import[p] # None /\ Spend("failures")
    /\ dir' = [dir EXCEPT ![BaseLayer(import[p])] = "part"]
    /\ import' = [import EXCEPT ![p] = None]
    /\ UNCHANGED <<mem, op, stack, tmp, index, spoilt>>

\* Mutant of Victims: the bases are not looked at.
VictimsWithBases(p) == mem[p].layers \ mem[p].recent

\* GarbageCollect takes the layers that no base names and nobody used lately.
Victims(p) == {l \in mem[p].layers : /\ \A b \in mem[p].bases : l # BaseLayer(b)
                                     /\ l \notin mem[p].recent}

GarbageCollect(p) ==
    /\ Free(p) /\ Victims(p) # {} /\ Spend("collections")
    /\ op' = [op EXCEPT ![p] = [kind |-> "gc", stage |-> "gc", left |-> Victims(p),
                                removed |-> FALSE]]
    /\ Spoil({l \in Victims(p) : l.lang = "node" /\ stack[p] # None /\ l \in stack[p].chosen})
    /\ UNCHANGED <<mem, import, stack, dir, tmp, index>>

\* GarbageCollect goes on to the next layer, or to saveIndex if it removed any.
NextVictim(p, l, removed) ==
    op' = [op EXCEPT ![p] =
        IF op[p].left # {l} THEN [op[p] EXCEPT !.left = @ \ {l}, !.removed = removed]
        ELSE IF removed THEN [op[p] EXCEPT !.left = {}, !.removed = TRUE, !.stage = "save"]
        ELSE Idle]

Remove(p, l) ==
    /\ At(p, "gc") /\ l \in op[p].left
    /\ dir' = [dir EXCEPT ![l] = "none"]
    /\ mem' = [mem EXCEPT ![p].layers = @ \ {l}]
    /\ NextVictim(p, l, TRUE)
    /\ UNCHANGED <<import, stack, tmp, index, spoilt, budget>>

\* RemoveAll fails on the way: the store goes on knowing what is left.
RemoveFails(p, l) ==
    /\ At(p, "gc") /\ l \in op[p].left /\ Spend("failures")
    /\ dir' = [dir EXCEPT ![l] = "part"]
    /\ Spoil({l})
    /\ NextVictim(p, l, op[p].removed)
    /\ UNCHANGED <<mem, import, stack, tmp, index>>

\* The script ends and gives its stack back.
Finished(p) ==
    /\ stack[p] # None
    /\ stack' = [stack EXCEPT ![p] = None]
    /\ UNCHANGED <<mem, op, import, dir, tmp, index, spoilt, budget>>

\* The maximal age passes: nothing was used lately.
Pass ==
    /\ Spend("ages")
    /\ mem' = [p \in Proc |-> IF mem[p] = None THEN None ELSE [mem[p] EXCEPT !.recent = {}]]
    /\ index' = IF index = None THEN None ELSE [index EXCEPT !.recent = {}]
    /\ stack' = [p \in Proc |-> IF stack[p] = None THEN None ELSE [stack[p] EXCEPT !.fresh = FALSE]]
    /\ UNCHANGED <<op, import, dir, tmp, spoilt>>

\* The process dies; an index being written is left torn or as it was, a layer
\* being removed in part.
Crash(p) ==
    LET doomed == IF At(p, "gc") THEN op[p].left ELSE {}
    IN  /\ mem[p] # None /\ Spend("crashes")
        /\ \/ /\ UNCHANGED index
              /\ Spoil(IF index = None THEN {} ELSE index.layers \ (mem[p].layers \ doomed))
           \/ /\ At(p, "save") \/ (Free(p) /\ import[p] # None)
              /\ index' = None /\ UNCHANGED spoilt
        /\ \/ UNCHANGED dir
           \/ \E l \in doomed : dir' = [dir EXCEPT ![l] = "part"]
        /\ mem' = [mem EXCEPT ![p] = None]
        /\ op' = [op EXCEPT ![p] = Idle]
        /\ import' = [import EXCEPT ![p] = None]
        /\ stack' = [stack EXCEPT ![p] = None]
        /\ UNCHANGED tmp

Next == \/ \E p \in Proc : \/ NewStore(p)
                           \/ \E d \in Project :
                                LET ps == normalizePackages(ResolveFromDir(d))
                                IN  IF d.lang = "node" THEN ResolveNode(p, ps) ELSE Resolve(p, ps)
                           \/ createLayer(p) \/ installPackages(p) \/ Rename(p) \/ copyDir(p)
                           \/ createNodeLayer(p) \/ installNodePackages(p) \/ Save(p)
                           \/ \E b \in Base : BuildBase(p, b) \/ BuildNodeBase(p, b) \/ ImportBase(p, b)
                           \/ Imported(p) \/ ImportFails(p)
                           \/ GarbageCollect(p)
                           \/ \E l \in Layer : Remove(p, l) \/ RemoveFails(p, l)
                           \/ Finished(p) \/ Crash(p)
        \/ Pass

Spec == Init /\ [][Next]_vars

-----------------------------------------------------------------------------
\* The packages for which findBestBase gave a Python script a base of the other
\* language: it looks at every base, and nobody installs them for Python.
Misled(s) == IF s.lang = "node" THEN {}
             ELSE UNION {Names(l.packages) : l \in {k \in s.chosen : k.lang # s.lang}}

\* While a script runs on a stack that is younger than the maximal age, every
\* package it asked for is installed for its language, whole, in a layer of the
\* stack, whatever installations failed, were interrupted or were copied over what
\* an earlier process left, and whatever GarbageCollect took away.  Left out are
\* the packages for which a Python script was given a Node base, and the layers
\* that Spoil lists.
StacksWhole ==
    \A p \in Proc : stack[p] # None /\ stack[p].fresh =>
        \A n \in stack[p].need \ Misled(stack[p]) :
            \E l \in stack[p].chosen :
                /\ l.lang = stack[p].lang /\ n \in Names(l.packages)
                /\ l \in spoilt \/ (l \in stack[p].layers /\ dir[l] = "whole")
=============================================================================
