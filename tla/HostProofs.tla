----------------------------- MODULE HostProofs -----------------------------
(***************************************************************************)
(* Proofs about what a host keeps and runs: the environments that the      *)
(* dependencies are installed in, the group of processes of a run, the     *)
(* cache of sources, and the layers.  The components share nothing; each   *)
(* has its own variables.                                                  *)
(***************************************************************************)
EXTENDS Host, Sequences, FiniteSetTheorems, TLAPS

-----------------------------------------------------------------------------
(* Environments: the inductive invariant *)

CallType ==
  [pc : {"idle", "check", "claim", "wait", "recheck", "begin", "install", "undo",
         "release"},
   env : Env \cup {Nobody}]

EnvsTyped ==
  /\ EnvType \in [Env -> {"venv", "manifest", "generic"}]
  /\ dir \in [Env -> {"none", "begun", "tools", "whole"}]
  /\ creating \in [Manager -> [Env -> Goroutine \cup {Nobody}]]
  /\ call \in [Goroutine -> CallType]
  /\ cleaner \in [env : Env \cup {Nobody}, removing : BOOLEAN]
  /\ cleaner # NotCleaning => cleaner.env \in Env
  /\ spoilt \subseteq Env

\* A call that is under way is for an environment.
CallsFor == \A g \in Goroutine : call[g].pc # "idle" => call[g].env \in Env

\* Whoever creates an environment has claimed it from its manager.
Claimed ==
  \A g \in Goroutine :
    call[g].pc \in {"begin", "install", "undo", "release"}
      => creating[ManagerOf(g)][call[g].env] = g

\* Somebody installs into a directory, or removes it after that has failed.
Worked(e) ==
  \E g \in Goroutine : call[g].pc \in {"install", "undo"} /\ call[g].env = e

Removed(e) == cleaner.env = e /\ cleaner.removing

\* A half-made environment is worked on or removed, unless it met one of the
\* situations QuietWhole leaves out.
HalfMade == \A e \in Env \ spoilt : Half(e) => Worked(e) \/ Removed(e)

EnvsInv == EnvsTyped /\ CallsFor /\ Claimed /\ HalfMade

-----------------------------------------------------------------------------
(* Environments: the steps *)

\* Every goroutine has a manager.
LEMMA ManagerType ==
  \A g \in Goroutine : ManagerOf(g) \in Manager /\ ManagerOf(g)[1] = Home[g]
BY DEF ManagerOf, Manager

\* A call goes to another place of its code.
LEMMA Went ==
  ASSUME EnvsTyped, NEW g \in Goroutine, NEW q \in CallType,
         call' = [call EXCEPT ![g] = q]
  PROVE  /\ call' \in [Goroutine -> CallType] /\ call'[g] = q
         /\ \A h \in Goroutine : h # g => call'[h] = call[h]
BY DEF EnvsTyped

\* Goto moves one call on, for the environment it is for.
LEMMA GotoIs ==
  ASSUME EnvsTyped, NEW g \in Goroutine,
         NEW at \in {"claim", "wait", "recheck", "begin", "install", "undo", "release"},
         Goto(g, at)
  PROVE  /\ call' \in [Goroutine -> CallType]
         /\ call'[g].pc = at /\ call'[g].env = call[g].env
         /\ \A h \in Goroutine : h # g => call'[h] = call[h]
<1>1. call \in [Goroutine -> CallType] /\ call[g] \in CallType
  BY DEF EnvsTyped
<1>2. PICK q : q = [call[g] EXCEPT !.pc = at]
  OBVIOUS
<1>3. q \in CallType /\ q.pc = at /\ q.env = call[g].env
  BY <1>1, <1>2 DEF CallType
<1>4. call' = [call EXCEPT ![g] = q]
  BY <1>1, <1>2 DEF Goto
<1> QED BY <1>3, <1>4, Went

\* A goroutine without a call.
LEMMA IdleType == Idle \in CallType /\ Idle.pc = "idle"
BY DEF Idle, CallType

\* A call of Prepare, its look at the cache, and a waiter that gives up: no
\* creator moves and no directory changes.
LEMMA PrepareKeeps ==
  ASSUME EnvsInv, NEW g \in Goroutine,
         call[g].pc \in {"idle", "check", "recheck", "wait"},
         UNCHANGED <<EnvType, dir, creating, cleaner, spoilt>>,
         NEW q \in CallType, call' = [call EXCEPT ![g] = q],
         q.pc \in {"idle", "check", "claim"},
         q.pc # "idle" => q.env \in Env
  PROVE  EnvsInv'
<1>1. /\ call' \in [Goroutine -> CallType] /\ call'[g] = q
      /\ \A h \in Goroutine : h # g => call'[h] = call[h]
  BY Went DEF EnvsInv
<1>2. EnvsTyped' /\ CallsFor'
  BY <1>1 DEF EnvsInv, EnvsTyped, CallsFor
<1>3. Claimed'
  BY <1>1 DEF EnvsInv, Claimed
<1>4. \A e \in Env : Worked(e) => Worked(e)'
  BY <1>1 DEF Worked
<1>5. HalfMade'
  BY <1>4 DEF EnvsInv, HalfMade, Half, Removed
<1> QED BY <1>2, <1>3, <1>5 DEF EnvsInv

\* Who claims an environment is the only one to: the map said that nobody had.
LEMMA ClaimKeeps ==
  ASSUME EnvsInv, NEW g \in Goroutine, Claim(g)
  PROVE  EnvsInv'
<1>1. PICK m \in Manager : m = ManagerOf(g)
  BY ManagerType
<1>2. PICK e \in Env : e = call[g].env
  BY DEF EnvsInv, CallsFor, Claim
<1>3. /\ call[g].pc = "claim" /\ UNCHANGED <<EnvType, dir, cleaner>>
      /\ \/ Goto(g, "wait") /\ UNCHANGED <<creating, spoilt>>
         \/ /\ creating[m][e] = Nobody
            /\ creating' = [creating EXCEPT ![m][e] = g]
            /\ spoilt' = IF Creators(e) # {} \/ Half(e) THEN spoilt \cup {e} ELSE spoilt
            /\ Goto(g, "begin")
  BY <1>1, <1>2 DEF Claim
<1>4. CASE Goto(g, "wait") /\ UNCHANGED <<creating, spoilt>>
  <2>1. /\ call' \in [Goroutine -> CallType]
        /\ call'[g].pc = "wait" /\ call'[g].env = e
        /\ \A h \in Goroutine : h # g => call'[h] = call[h]
    BY <1>2, <1>4, GotoIs DEF EnvsInv
  <2>2. EnvsTyped' /\ CallsFor'
    BY <1>3, <1>4, <2>1 DEF EnvsInv, EnvsTyped, CallsFor
  <2>3. Claimed'
    BY <1>3, <1>4, <2>1 DEF EnvsInv, Claimed
  <2>w. \A f \in Env : Worked(f) => Worked(f)'
    BY <1>3, <2>1 DEF Worked
  <2>4. HalfMade'
    BY <1>3, <1>4, <2>w DEF EnvsInv, HalfMade, Half, Removed
  <2> QED BY <2>2, <2>3, <2>4 DEF EnvsInv
<1>5. CASE /\ creating[m][e] = Nobody
           /\ creating' = [creating EXCEPT ![m][e] = g]
           /\ spoilt' = IF Creators(e) # {} \/ Half(e) THEN spoilt \cup {e} ELSE spoilt
           /\ Goto(g, "begin")
  <2>1. /\ call' \in [Goroutine -> CallType]
        /\ call'[g].pc = "begin" /\ call'[g].env = e
        /\ \A h \in Goroutine : h # g => call'[h] = call[h]
    BY <1>2, <1>5, GotoIs DEF EnvsInv
  <2>2. spoilt \subseteq spoilt' /\ spoilt' \subseteq Env
    BY <1>5 DEF EnvsInv, EnvsTyped
  <2>3. creating \in [Manager -> [Env -> Goroutine \cup {Nobody}]]
    BY DEF EnvsInv, EnvsTyped
  <2>4. /\ creating' \in [Manager -> [Env -> Goroutine \cup {Nobody}]]
        /\ creating'[m][e] = g
        /\ \A n \in Manager, f \in Env :
             (n # m \/ f # e) => creating'[n][f] = creating[n][f]
    BY <1>5, <2>3
  <2>5. EnvsTyped' /\ CallsFor'
    BY <1>3, <2>1, <2>2, <2>4 DEF EnvsInv, EnvsTyped, CallsFor
  <2>6. ASSUME NEW h \in Goroutine, call'[h].pc \in {"begin", "install", "undo", "release"}
        PROVE  creating'[ManagerOf(h)][call'[h].env] = h
    <3>1. CASE h = g
      BY <1>1, <2>1, <2>4, <3>1
    <3>2. CASE h # g
      <4>1. /\ creating[ManagerOf(h)][call[h].env] = h /\ call'[h] = call[h]
            /\ call[h].env \in Env
        BY <2>1, <2>6, <3>2 DEF EnvsInv, Claimed, CallsFor
      <4>2. h # Nobody
        BY EnvsAssumption
      <4> QED BY <1>5, <2>4, <4>1, <4>2, ManagerType
    <3> QED BY <3>1, <3>2
  <2>7. Claimed'
    BY <2>6 DEF Claimed, ManagerOf
  <2>w. \A f \in Env : Worked(f) => Worked(f)'
    BY <1>3, <2>1 DEF Worked
  <2>8. HalfMade'
    BY <1>3, <2>2, <2>w DEF EnvsInv, HalfMade, Half, Removed
  <2> QED BY <2>5, <2>7, <2>8 DEF EnvsInv
<1> QED BY <1>3, <1>4, <1>5

\* The claim goes when the installation is over.
LEMMA ReleaseKeeps ==
  ASSUME EnvsInv, NEW g \in Goroutine, Release(g)
  PROVE  EnvsInv'
<1>1. PICK m \in Manager : m = ManagerOf(g)
  BY ManagerType
<1>2. PICK e \in Env : e = call[g].env
  BY DEF EnvsInv, CallsFor, Release
<1>3. /\ call[g].pc = "release" /\ UNCHANGED <<EnvType, dir, cleaner, spoilt>>
      /\ creating' = [creating EXCEPT ![m][e] = Nobody]
      /\ call' = [w \in Goroutine |->
                    IF w = g THEN Idle
                    ELSE IF w \in Woken(g, e) THEN [call[w] EXCEPT !.pc = "recheck"]
                    ELSE call[w]]
  BY <1>1, <1>2 DEF Release
<1>4. call \in [Goroutine -> CallType]
      /\ creating \in [Manager -> [Env -> Goroutine \cup {Nobody}]]
  BY DEF EnvsInv, EnvsTyped
<1>5. ASSUME NEW w \in Goroutine
      PROVE  /\ call'[w] \in CallType
             /\ call'[w].pc # "idle" => call'[w].env \in Env
             /\ \/ call'[w].pc \in {"idle", "recheck"}
                   /\ call[w].pc \in {"release", "wait"}
                \/ call'[w] = call[w] /\ w # g
  <2>1. CASE w = g
    <3>1. call'[w] = Idle
      BY <1>3, <2>1
    <3> QED BY <1>3, <2>1, <3>1, IdleType
  <2>2. CASE w # g /\ w \in Woken(g, e)
    <3>1. call'[w] = [call[w] EXCEPT !.pc = "recheck"] /\ call[w].pc = "wait"
      BY <1>3, <2>2 DEF Woken
    <3>2. call[w].env \in Env /\ call[w] \in CallType
      BY <1>4, <3>1 DEF EnvsInv, CallsFor
    <3>3. /\ call'[w] \in CallType /\ call'[w].pc = "recheck"
          /\ call'[w].env = call[w].env
      BY <3>1, <3>2 DEF CallType
    <3> QED BY <3>1, <3>2, <3>3
  <2>3. CASE w # g /\ w \notin Woken(g, e)
    BY <1>3, <1>4, <2>3 DEF EnvsInv, CallsFor
  <2> QED BY <2>1, <2>2, <2>3
<1>6. call' \in [Goroutine -> CallType]
  BY <1>3, <1>5
<1>7. /\ creating' \in [Manager -> [Env -> Goroutine \cup {Nobody}]]
      /\ \A n \in Manager, f \in Env :
           (n # m \/ f # e) => creating'[n][f] = creating[n][f]
  BY <1>3, <1>4
<1>8. EnvsTyped' /\ CallsFor'
  BY <1>3, <1>5, <1>6, <1>7 DEF EnvsInv, EnvsTyped, CallsFor
<1>9. ASSUME NEW h \in Goroutine, call'[h].pc \in {"begin", "install", "undo", "release"}
      PROVE  creating'[ManagerOf(h)][call'[h].env] = h
  <2>1. call'[h] = call[h] /\ h # g
    BY <1>5, <1>9
  <2>2. creating[ManagerOf(h)][call[h].env] = h /\ call[h].env \in Env
    BY <1>9, <2>1 DEF EnvsInv, Claimed, CallsFor
  <2>3. creating[m][e] = g
    BY <1>1, <1>2, <1>3 DEF EnvsInv, Claimed
  <2> QED BY <1>7, <2>1, <2>2, <2>3, ManagerType
<1>10. Claimed'
  BY <1>9 DEF Claimed, ManagerOf
<1>w. \A f \in Env : Worked(f) => Worked(f)'
  BY <1>5 DEF Worked
<1>11. HalfMade'
  BY <1>3, <1>w DEF EnvsInv, HalfMade, Half, Removed
<1> QED BY <1>8, <1>10, <1>11 DEF EnvsInv

\* A creator does its next step: the directory it leaves is whole or not there,
\* or it goes on to work on it, or the environment is spoilt.
LEMMA CreateKeeps ==
  ASSUME EnvsInv, NEW g \in Goroutine, call[g].pc \in {"begin", "install", "undo"},
         NEW at \in {"install", "undo", "release"}, Goto(g, at),
         NEW d \in {"none", "begun", "tools", "whole"},
         dir' = [dir EXCEPT ![call[g].env] = d],
         UNCHANGED <<EnvType, creating, cleaner>>,
         spoilt' = spoilt \/ spoilt' = spoilt \cup {call[g].env},
         \/ d \in {"none", "whole"} \/ at \in {"install", "undo"}
         \/ call[g].env \in spoilt'
  PROVE  EnvsInv'
<1>1. PICK e \in Env : e = call[g].env
  BY DEF EnvsInv, CallsFor
<1>2. /\ call' \in [Goroutine -> CallType]
      /\ call'[g].pc = at /\ call'[g].env = e
      /\ \A h \in Goroutine : h # g => call'[h] = call[h]
  BY <1>1, GotoIs DEF EnvsInv
<1>3. /\ dir' \in [Env -> {"none", "begun", "tools", "whole"}]
      /\ dir'[e] = d /\ \A f \in Env : f # e => dir'[f] = dir[f]
      /\ spoilt \subseteq spoilt' /\ spoilt' \subseteq Env
  BY <1>1 DEF EnvsInv, EnvsTyped
<1>4. EnvsTyped' /\ CallsFor'
  BY <1>2, <1>3 DEF EnvsInv, EnvsTyped, CallsFor
<1>5. Claimed'
  BY <1>1, <1>2 DEF EnvsInv, Claimed, ManagerOf
<1>6. HalfMade'
  <2>1. ASSUME NEW f \in Env \ spoilt', Half(f)'
        PROVE  (Worked(f) \/ Removed(f))'
    <3>1. CASE f = e
      BY <1>1, <1>2, <1>3, <2>1, <3>1 DEF Half, Worked
    <3>2. CASE f # e
      <4>1. Half(f) /\ f \notin spoilt
        BY <1>3, <2>1, <3>2 DEF Half
      <4>2. Worked(f) \/ Removed(f)
        BY <4>1 DEF EnvsInv, HalfMade
      <4>3. Worked(f) => Worked(f)'
        BY <1>1, <1>2, <3>2 DEF Worked
      <4> QED BY <4>2, <4>3 DEF Removed
    <3> QED BY <3>1, <3>2
  <2> QED BY <2>1 DEF HalfMade
<1> QED BY <1>4, <1>5, <1>6 DEF EnvsInv

\* The directory is begun by who holds the claim.
LEMMA BeginKeeps ==
  ASSUME EnvsInv, NEW g \in Goroutine, BeginVenv(g) \/ BeginManifest(g) \/ BeginGeneric(g)
  PROVE  EnvsInv'
<1>1. call[g].env \in Env /\ call[g].pc = "begin"
  BY DEF EnvsInv, CallsFor, BeginVenv, BeginManifest, BeginGeneric
<1>2. UNCHANGED <<EnvType, creating, cleaner>>
  BY DEF BeginVenv, BeginManifest, BeginGeneric
<1>3. CASE BeginVenv(g)
  <2>1. CASE /\ dir' = [dir EXCEPT ![call[g].env] = "tools"]
             /\ Goto(g, "install") /\ UNCHANGED spoilt
    BY <1>1, <1>2, <2>1, CreateKeeps
  <2>2. CASE /\ \E d \in {"begun", "tools"} : dir' = [dir EXCEPT ![call[g].env] = d]
             /\ Goto(g, "release") /\ spoilt' = spoilt \cup {call[g].env}
    <3>1. PICK d \in {"begun", "tools"} : dir' = [dir EXCEPT ![call[g].env] = d]
      BY <2>2
    <3> QED BY <1>1, <1>2, <2>2, <3>1, CreateKeeps
  <2> QED BY <1>3, <2>1, <2>2 DEF BeginVenv
<1>4. CASE BeginManifest(g)
  <2>1. dir' = [dir EXCEPT ![call[g].env] = "begun"]
    BY <1>4 DEF BeginManifest
  <2>2. CASE Goto(g, "install") /\ UNCHANGED spoilt
    BY <1>1, <1>2, <2>1, <2>2, CreateKeeps
  <2>3. CASE Goto(g, "release") /\ spoilt' = spoilt \cup {call[g].env}
    BY <1>1, <1>2, <2>1, <2>3, CreateKeeps
  <2> QED BY <1>4, <2>2, <2>3 DEF BeginManifest
<1>5. CASE BeginGeneric(g)
  <2>1. UNCHANGED spoilt
    BY <1>5 DEF BeginGeneric
  <2>2. CASE dir' = [dir EXCEPT ![call[g].env] = "begun"] /\ Goto(g, "install")
    BY <1>1, <1>2, <2>1, <2>2, CreateKeeps
  <2>3. CASE dir' = [dir EXCEPT ![call[g].env] = "whole"] /\ Goto(g, "release")
    BY <1>1, <1>2, <2>1, <2>3, CreateKeeps
  <2> QED BY <1>5, <2>2, <2>3 DEF BeginGeneric
<1> QED BY <1>3, <1>4, <1>5

\* An installation ends whole, or fails and its creator removes the directory.
LEMMA InstallKeeps ==
  ASSUME EnvsInv, NEW g \in Goroutine, Install(g)
  PROVE  EnvsInv'
<1>1. /\ call[g].pc = "install"
      /\ UNCHANGED <<EnvType, creating, cleaner, spoilt>>
      /\ \/ dir' = [dir EXCEPT ![call[g].env] = "whole"] /\ Goto(g, "release")
         \/ dir' = dir /\ Goto(g, "undo")
  BY DEF Install
<1>2. /\ dir \in [Env -> {"none", "begun", "tools", "whole"}]
      /\ call[g].env \in Env
  BY <1>1 DEF EnvsInv, EnvsTyped, CallsFor
<1>3. CASE dir' = dir /\ Goto(g, "undo")
  <2>1. dir' = [dir EXCEPT ![call[g].env] = dir[call[g].env]]
    BY <1>2, <1>3
  <2> QED BY <1>1, <1>2, <1>3, <2>1, CreateKeeps
<1> QED BY <1>1, <1>3, CreateKeeps

\* The removal leaves no directory, or spoils it.
LEMMA UndoKeeps ==
  ASSUME EnvsInv, NEW g \in Goroutine, Undo(g)
  PROVE  EnvsInv'
<1>1. /\ call[g].pc = "undo" /\ Goto(g, "release")
      /\ UNCHANGED <<EnvType, creating, cleaner>>
  BY DEF Undo
<1>2. /\ dir \in [Env -> {"none", "begun", "tools", "whole"}]
      /\ call[g].env \in Env
  BY <1>1 DEF EnvsInv, EnvsTyped, CallsFor
<1>3. CASE dir' = [dir EXCEPT ![call[g].env] = "none"] /\ spoilt' = spoilt
  BY <1>1, <1>3, CreateKeeps
<1>4. CASE /\ \E d \in {"begun", dir[call[g].env]} :
               dir' = [dir EXCEPT ![call[g].env] = d]
           /\ spoilt' = spoilt \cup {call[g].env}
  <2>1. PICK d \in {"none", "begun", "tools", "whole"} :
               dir' = [dir EXCEPT ![call[g].env] = d]
    BY <1>2, <1>4
  <2> QED BY <1>1, <1>2, <1>4, <2>1, CreateKeeps
<1> QED BY <1>3, <1>4 DEF Undo, AfterFailure

\* A step of a cleanup changes the directory it is at, and no other; half a
\* directory it is still removing, or leaves nothing of, or has spoilt.
LEMMA CleanupKeeps ==
  ASSUME EnvsInv, NEW e \in Env, UNCHANGED <<EnvType, creating, call>>,
         dir' \in [Env -> {"none", "begun", "tools", "whole"}],
         \A f \in Env : f # e => dir'[f] = dir[f],
         cleaner' \in [env : Env \cup {Nobody}, removing : BOOLEAN],
         cleaner' # NotCleaning => cleaner'.env = e,
         cleaner.env \in {e, Nobody},
         spoilt' = spoilt \/ spoilt' = spoilt \cup {e},
         \/ ~ Half(e)' \/ Removed(e)' \/ e \in spoilt'
         \/ dir' = dir /\ ~ Removed(e)
  PROVE  EnvsInv'
<1>1. EnvsTyped' /\ CallsFor' /\ Claimed'
  BY DEF EnvsInv, EnvsTyped, CallsFor, Claimed
<1>2. \A f \in Env : Worked(f) => Worked(f)'
  BY DEF Worked
<1>3. ASSUME NEW f \in Env \ spoilt', Half(f)'
      PROVE  (Worked(f) \/ Removed(f))'
  <2>1. CASE f # e
    <3>1. Half(f) /\ f \notin spoilt
      BY <1>3, <2>1 DEF Half
    <3>2. f # Nobody
      BY EnvsAssumption
    <3>3. ~ Removed(f)
      BY <2>1, <3>2 DEF Removed
    <3> QED BY <1>2, <3>1, <3>3 DEF EnvsInv, HalfMade
  <2>2. CASE f = e
    BY <1>2, <1>3, <2>2 DEF EnvsInv, HalfMade, Half
  <2> QED BY <2>1, <2>2
<1> QED BY <1>1, <1>3 DEF EnvsInv, HalfMade

\* The four steps of a cleanup.
LEMMA CleanupSteps ==
  ASSUME EnvsInv,
         \/ \E e \in Env : CleanupSees(e)
         \/ CleanupRemoves \/ CleanupEnds \/ CleanupStops
  PROVE  EnvsInv'
<1>t. /\ dir \in [Env -> {"none", "begun", "tools", "whole"}]
      /\ cleaner \in [env : Env \cup {Nobody}, removing : BOOLEAN]
      /\ cleaner # NotCleaning => cleaner.env \in Env
      /\ NotCleaning \in [env : Env \cup {Nobody}, removing : BOOLEAN]
      /\ NotCleaning.env = Nobody /\ NotCleaning.removing = FALSE
  BY DEF EnvsInv, EnvsTyped, NotCleaning
<1>1. ASSUME NEW e \in Env, CleanupSees(e) PROVE EnvsInv'
  <2>1. /\ cleaner = NotCleaning /\ cleaner' = [env |-> e, removing |-> FALSE]
        /\ UNCHANGED <<EnvType, creating, call, dir, spoilt>>
    BY <1>1 DEF CleanupSees
  <2>2. ~ Removed(e)
    BY <1>t, <2>1 DEF Removed
  <2> QED BY <1>t, <2>1, <2>2, CleanupKeeps
<1>2. CASE CleanupRemoves
  <2>1. PICK e \in Env : e = cleaner.env
    BY <1>2, <1>t DEF CleanupRemoves
  <2>2. PICK d \in {"begun", "tools"} : dir' = [dir EXCEPT ![e] = d]
    BY <1>2, <2>1 DEF CleanupRemoves
  <2>3. /\ cleaner' = [cleaner EXCEPT !.removing = TRUE]
        /\ UNCHANGED <<EnvType, creating, call>>
        /\ spoilt' = spoilt \/ spoilt' = spoilt \cup {e}
    BY <1>2, <2>1 DEF CleanupRemoves, Beside
  <2>4. /\ cleaner' \in [env : Env \cup {Nobody}, removing : BOOLEAN]
        /\ cleaner'.env = e /\ cleaner'.removing = TRUE
    BY <1>t, <2>1, <2>3
  <2>5. Removed(e)'
    BY <2>4 DEF Removed
  <2> QED BY <1>t, <2>1, <2>2, <2>3, <2>4, <2>5, CleanupKeeps
<1>3. CASE CleanupEnds
  <2>1. PICK e \in Env : e = cleaner.env
    BY <1>3, <1>t DEF CleanupEnds
  <2>2. /\ dir' = [dir EXCEPT ![e] = "none"] /\ cleaner' = NotCleaning
        /\ UNCHANGED <<EnvType, creating, call>>
        /\ spoilt' = spoilt \/ spoilt' = spoilt \cup {e}
    BY <1>3, <2>1 DEF CleanupEnds, Beside
  <2>3. ~ Half(e)'
    BY <1>t, <2>2 DEF Half
  <2> QED BY <1>t, <2>1, <2>2, <2>3, CleanupKeeps
<1>4. CASE CleanupStops
  <2>1. PICK e \in Env : e = cleaner.env
    BY <1>4, <1>t DEF CleanupStops
  <2>2. /\ UNCHANGED <<EnvType, dir, creating, call>> /\ cleaner' = NotCleaning
        /\ spoilt' = IF cleaner.removing THEN spoilt \cup {e} ELSE spoilt
    BY <1>4, <2>1 DEF CleanupStops
  <2>3. e \in spoilt' \/ ~ Removed(e)
    BY <1>t, <2>2 DEF Removed
  <2> QED BY <1>t, <2>1, <2>2, <2>3, CleanupKeeps
<1> QED BY <1>1, <1>2, <1>3, <1>4

\* The end of a process takes its claims, and spoils what it was creating.
LEMMA CrashKeeps ==
  ASSUME EnvsInv, NEW p, Crash(p)
  PROVE  EnvsInv'
<1>1. /\ creating' = [m \in Manager |-> IF m[1] = p THEN [e \in Env |-> Nobody]
                                                   ELSE creating[m]]
      /\ call' = [g \in Goroutine |-> IF Home[g] = p THEN Idle ELSE call[g]]
      /\ UNCHANGED <<EnvType, dir, cleaner>>
      /\ spoilt' = spoilt \cup {e \in Env : \E g \in Creators(e) : Home[g] = p}
  BY DEF Crash
<1>2. /\ call \in [Goroutine -> CallType]
      /\ creating \in [Manager -> [Env -> Goroutine \cup {Nobody}]]
  BY DEF EnvsInv, EnvsTyped
<1>3. \A g \in Goroutine : \/ call'[g] = Idle
                           \/ call'[g] = call[g] /\ Home[g] # p
  BY <1>1
<1>4. call' \in [Goroutine -> CallType] /\ CallsFor'
  BY <1>1, <1>2, <1>3, IdleType DEF EnvsInv, CallsFor
<1>5. creating' \in [Manager -> [Env -> Goroutine \cup {Nobody}]]
  BY <1>1, <1>2
<1>6. spoilt \subseteq spoilt' /\ spoilt' \subseteq Env
  BY <1>1 DEF EnvsInv, EnvsTyped
<1>7. EnvsTyped'
  BY <1>1, <1>4, <1>5, <1>6 DEF EnvsInv, EnvsTyped
<1>8. ASSUME NEW g \in Goroutine, call'[g].pc \in {"begin", "install", "undo", "release"}
      PROVE  creating'[ManagerOf(g)][call'[g].env] = g
  <2>1. call'[g] = call[g] /\ Home[g] # p
    BY <1>3, <1>8, IdleType
  <2>2. creating[ManagerOf(g)][call[g].env] = g
    BY <1>8, <2>1 DEF EnvsInv, Claimed
  <2>3. creating'[ManagerOf(g)] = creating[ManagerOf(g)]
    BY <1>1, <2>1, ManagerType
  <2> QED BY <2>1, <2>2, <2>3
<1>9. Claimed'
  BY <1>8 DEF Claimed, ManagerOf
<1>10. ASSUME NEW e \in Env \ spoilt', Half(e)'
       PROVE  (Worked(e) \/ Removed(e))'
  <2>1. Half(e) /\ e \in Env \ spoilt
    BY <1>1, <1>6, <1>10 DEF Half
  <2>2. CASE Removed(e)
    BY <1>1, <2>2 DEF Removed
  <2>3. CASE Worked(e)
    <3>1. PICK g \in Goroutine : call[g].pc \in {"install", "undo"} /\ call[g].env = e
      BY <2>3 DEF Worked
    <3>2. creating[ManagerOf(g)][e] = g /\ g # Nobody
      BY <3>1, EnvsAssumption DEF EnvsInv, Claimed
    <3>3. g \in Creators(e)
      BY <3>2, ManagerType DEF Creators
    <3>4. Home[g] # p
      BY <1>1, <1>10, <2>1, <3>3
    <3>5. call'[g] = call[g]
      BY <1>1, <3>4
    <3> QED BY <3>1, <3>5 DEF Worked
  <2> QED BY <2>1, <2>2, <2>3 DEF EnvsInv, HalfMade
<1>11. HalfMade'
  BY <1>10 DEF HalfMade
<1> QED BY <1>4, <1>7, <1>9, <1>11 DEF EnvsInv

\* The first state satisfies the inductive invariant of the environments.
LEMMA EnvsInit ==
  ASSUME Init
  PROVE  EnvsInv
<1>1. EnvsTyped
  BY IdleType DEF Init, EnvsTyped, NotCleaning
<1>2. CallsFor /\ Claimed
  BY IdleType DEF Init, CallsFor, Claimed
<1>3. HalfMade
  BY DEF Init, HalfMade, Half
<1> QED BY <1>1, <1>2, <1>3 DEF EnvsInv

\* Every step keeps it.
LEMMA EnvsStep ==
  ASSUME EnvsInv, [Next]_vars
  PROVE  EnvsInv'
<1>1. ASSUME NEW g \in Goroutine, NEW e \in Env, Prepare(g, e) PROVE EnvsInv'
  <2>1. PICK q : q = [pc |-> "check", env |-> e]
    OBVIOUS
  <2>2. q \in CallType /\ q.pc = "check" /\ q.env = e
    BY <2>1 DEF CallType
  <2> QED BY <1>1, <2>1, <2>2, PrepareKeeps DEF Prepare
<1>2. ASSUME NEW g \in Goroutine, CheckCache(g) PROVE EnvsInv'
  <2>1. /\ call[g] \in CallType /\ call[g].env \in Env
        /\ call[g].pc \in {"check", "recheck"}
    BY <1>2 DEF EnvsInv, EnvsTyped, CallsFor, CheckCache
  <2>2. PICK q : /\ q = Idle \/ q = [call[g] EXCEPT !.pc = "claim"]
                 /\ call' = [call EXCEPT ![g] = q]
    BY <1>2 DEF CheckCache
  <2>3. q \in CallType /\ (q.pc = "idle" \/ (q.pc = "claim" /\ q.env \in Env))
    BY <2>1, <2>2, IdleType DEF CallType
  <2> QED BY <1>2, <2>1, <2>2, <2>3, PrepareKeeps DEF CheckCache
<1>3. ASSUME NEW g \in Goroutine, GiveUp(g) PROVE EnvsInv'
  BY <1>3, IdleType, PrepareKeeps DEF GiveUp
<1>4. ASSUME NEW g \in Goroutine, Claim(g) \/ Release(g) PROVE EnvsInv'
  BY <1>4, ClaimKeeps, ReleaseKeeps
<1>5. ASSUME NEW g \in Goroutine, CreateForRunner(g) \/ createEnv(g) PROVE EnvsInv'
  BY <1>5, BeginKeeps, InstallKeeps, UndoKeeps DEF CreateForRunner, createEnv
<1>6. ASSUME NEW e \in Env, Age(e) PROVE EnvsInv'
  <2>1. UNCHANGED <<EnvType, dir, creating, call, spoilt, cleaner>>
    BY <1>6 DEF Age
  <2> QED BY <2>1 DEF EnvsInv, EnvsTyped, CallsFor, Claimed, HalfMade, Half, Worked,
                      Removed
<1>7. CASE \/ \E e \in Env : CleanupSees(e)
           \/ CleanupRemoves \/ CleanupEnds \/ CleanupStops
  BY <1>7, CleanupSteps
<1>8. ASSUME NEW g \in Goroutine, Crash(Home[g]) PROVE EnvsInv'
  BY <1>8, CrashKeeps
<1>9. CASE UNCHANGED vars
  BY <1>9 DEF vars, EnvsInv, EnvsTyped, CallsFor, Claimed, HalfMade, Half, Worked,
              Removed
<1> QED BY <1>1, <1>2, <1>3, <1>4, <1>5, <1>6, <1>7, <1>8, <1>9 DEF Next, PrepareStep

\* For every set of environments, processes and goroutines of their managers:
\* what nobody creates or removes is whole or not there, but for what QuietWhole
\* leaves out.
THEOREM NoHalfEnvironment == Spec => []QuietWhole
<1>1. EnvsInv => QuietWhole
  <2>1. SUFFICES ASSUME EnvsInv, NEW e \in Env \ spoilt, Creators(e) = {},
                        ~ Removed(e), dir[e] \notin {"none", "whole"}
                 PROVE  FALSE
    BY DEF QuietWhole, Removed
  <2>2. Half(e)
    BY <2>1 DEF EnvsInv, EnvsTyped, Half
  <2>3. PICK g \in Goroutine : call[g].pc \in {"install", "undo"} /\ call[g].env = e
    BY <2>1, <2>2 DEF EnvsInv, HalfMade, Worked
  <2>4. creating[ManagerOf(g)][e] = g /\ g # Nobody /\ ManagerOf(g) \in Manager
    BY <2>1, <2>3, ManagerType, EnvsAssumption DEF EnvsInv, Claimed
  <2>5. g \in Creators(e)
    BY <2>4 DEF Creators
  <2> QED BY <2>1, <2>5
<1>2. Init => EnvsInv
  BY EnvsInit
<1>3. EnvsInv /\ [Next]_vars => EnvsInv'
  BY EnvsStep
<1> QED BY <1>1, <1>2, <1>3, PTL DEF Spec

-----------------------------------------------------------------------------
(* The run of a script *)

\* From the moment Run has given up at the deadline, its group is dead, and
\* nothing forks any more: only the deferred calls are left to make.
GroupDead ==
  result = "timeout" =>
    /\ pc \in {"unwatch", "cleanup", "temp", "done"}
    /\ main = "dead"
    /\ \A c \in Child : ~ kids[c].alive

\* A step that leaves the group dead, and the place it goes to.
LEMMA DeadKept ==
  ASSUME GroupDead,
         result = "timeout" /\ pc \in {"unwatch", "cleanup", "temp", "done"} =>
           /\ pc' \in {"unwatch", "cleanup", "temp", "done"}
           /\ main' = main
           /\ \A c \in Child : ~ kids[c].alive => ~ kids'[c].alive,
         result' = result \/ result' \in {"error", "exit"}
  PROVE  GroupDead'
BY DEF GroupDead

\* Every step of a run, its children and the monitor keeps GroupDead.
LEMMA ScriptStep ==
  ASSUME GroupDead, [Script!Next]_(Script!vars)
  PROVE  GroupDead'
<1>1. CASE \/ Script!RunInline \/ Script!validateScriptPath \/ Script!Detect
           \/ Script!Validate \/ Script!prepareWithLayers \/ Script!Prepare
           \/ Script!Create \/ Script!Start \/ Script!Attach
           \/ Script!applyResourceLimits \/ Script!Completed
  <2>1. pc \notin {"unwatch", "cleanup", "temp", "done"} /\ result' \in {result, "error", "exit"}
    BY <1>1 DEF Script!RunInline, Script!validateScriptPath, Script!Detect, Script!Validate,
         Script!prepareWithLayers, Script!Prepare, Script!Create, Script!Start, Script!Attach,
         Script!applyResourceLimits, Script!Completed, Script!Step, Script!Fails
  <2> QED BY <2>1 DEF GroupDead
<1>2. CASE Script!TimedOut
  BY <1>2 DEF Script!TimedOut, Script!KillGroup, Script!NoChild, GroupDead
<1>3. CASE Script!Unwatch
  BY <1>3, DeadKept DEF Script!Unwatch, Script!group
<1>4. CASE Script!Cleanup
  <2>1. \A c \in Child : ~ kids[c].alive => ~ kids'[c].alive
    BY <1>4 DEF Script!Cleanup, Script!NoChild
  <2> QED BY <1>4, <2>1, DeadKept DEF Script!Cleanup
<1>5. CASE Script!ManagerRemove \/ Script!RemoveTemp
  BY <1>5, DeadKept DEF Script!ManagerRemove, Script!RemoveTemp, Script!group
<1>6. ASSUME NEW c \in Child, Script!Fork(c) \/ Script!Detach(c) \/ Script!ChildExit(c)
      PROVE  GroupDead'
  <2>1. CASE result # "timeout"
    BY <1>6, <2>1 DEF GroupDead, Script!Fork, Script!Detach, Script!ChildExit
  <2>2. CASE result = "timeout"
    BY <1>6, <2>2 DEF GroupDead, Script!Fork, Script!Detach, Script!ChildExit,
         Script!Running, Script!MainRunning
  <2> QED BY <2>1, <2>2
<1>7. CASE Script!Exit
  BY <1>7 DEF Script!Exit, Script!MainRunning, GroupDead
<1>8. CASE Script!Memory \/ Script!Check
  BY <1>8 DEF Script!Memory, Script!Check, Script!group, GroupDead
<1>9. CASE Script!Deadline
  BY <1>9 DEF Script!Deadline, Script!Kill, GroupDead
<1>10. CASE Script!Act
  <2>1. /\ main' \in {main, "dead"} /\ UNCHANGED <<pc, kids, result>>
    BY <1>10 DEF Script!Act, Script!Kill
  <2> QED BY <2>1 DEF GroupDead
<1>11. CASE UNCHANGED Script!vars
  BY <1>11 DEF Script!vars, GroupDead
<1> QED
  BY <1>1, <1>2, <1>3, <1>4, <1>5, <1>6, <1>7, <1>8, <1>9, <1>10, <1>11
  DEF Script!Next, Script!RunStep

\* For any number of children, in and out of the cgroup: when Run reports a
\* timeout nothing of the script's group is alive.
THEOREM TimeoutLeavesNone == Script!Spec => []TimeoutKillsAll
<1>1. Script!Init => GroupDead
  BY DEF Script!Init, GroupDead
<1>2. GroupDead /\ [Script!Next]_(Script!vars) => GroupDead'
  BY ScriptStep
<1>3. GroupDead => TimeoutKillsAll
  BY DEF GroupDead, TimeoutKillsAll, Script!TimeoutKillsAll
<1> QED BY <1>1, <1>2, <1>3, PTL DEF Script!Spec

-----------------------------------------------------------------------------
(* The cache of sources: the inductive invariant *)

Goer == Worker \cup Reader

ObjectType ==
  [key : Key, state : {"Cold", "Warm", "Hot"}, size : Int, assigned : BOOLEAN,
   queued : BOOLEAN]

PrimeType == [key : Key, target : {"Warm", "Hot"}, caller : Caller \cup {Nobody}]

GoerType ==
  [pc : {"idle", "ended", "answer", "space", "create", "write", "publish", "open",
         "extract", "mark", "resize"},
   key : Key, target : {"Warm", "Hot"}, caller : Caller \cup {Nobody},
   obj : 0..MaxMade, torn : BOOLEAN]

CacheTyped ==
  /\ made \in 0..MaxMade
  /\ entries \in [Key -> 0..made]
  /\ obj \in [Cache!Object -> ObjectType]
  /\ queue \in Seq(PrimeType)
  /\ proc \in [Goer -> GoerType]
  /\ warm \in [Key -> {"none", "partial", "whole"}]
  /\ hot \in [Key -> {"none", "partial", "whole"}]
  /\ cacheSpoilt \subseteq Key

\* The goroutines that have an entry in hand, and the entry is for their key.
HasEntry == {"open", "extract", "mark", "resize"}

InHand ==
  \A p \in Goer :
    /\ proc[p].obj <= made
    /\ proc[p].obj # 0 => obj[proc[p].obj].key = proc[p].key
    /\ proc[p].pc \in HasEntry => proc[p].obj # 0
    /\ proc[p].pc = "resize" => obj[proc[p].obj].state = "Hot"
    /\ proc[p].pc \notin {"idle", "ended", "open", "extract", "mark"} => p \in Worker

\* The map and the heap: the entry of a key is one of its objects, and of a key
\* that is not spoilt no other object is in the heap.
InHeap ==
  /\ \A k \in Key : entries[k] # 0 => obj[entries[k]].key = k
  /\ \A o \in 1..made : obj[o].queued /\ obj[o].key \notin cacheSpoilt =>
                          entries[obj[o].key] = o
  /\ \A o \in Cache!Object : o > made => ~ obj[o].queued

\* Who writes the archive of a key that is not spoilt writes it alone, and before
\* there is an entry; nothing takes the archive from under it.
AloneWriting ==
  \A w \in Goer :
    (proc[w].pc \in {"write", "publish"} /\ proc[w].key \notin cacheSpoilt) =>
      /\ entries[proc[w].key] = 0
      /\ warm[proc[w].key] = IF proc[w].pc = "write" THEN "partial" ELSE "whole"
      /\ \A v \in Goer \ {w} :
           proc[v].key = proc[w].key => proc[v].pc \notin {"write", "publish"}

\* An entry has its archive.
ArchiveThere == \A k \in Key \ cacheSpoilt : entries[k] # 0 => warm[k] = "whole"

\* Somebody is going to write the whole directory of k.
WillBeWhole(k) ==
  \E p \in Goer : proc[p].key = k /\ proc[p].pc = "extract" /\ proc[p].torn = FALSE

\* It is there, and is or will be whole.
Sure(k) == hot[k] = "whole" \/ (hot[k] = "partial" /\ WillBeWhole(k))

\* The directory of an entry that is hot, or about to be, is sure; that of one
\* under extraction is there, and its archive was whole.
DirectoryThere ==
  \A k \in Key \ cacheSpoilt :
    entries[k] # 0 =>
      /\ obj[entries[k]].state = "Hot" => Sure(k)
      /\ \A p \in Goer :
           proc[p].obj = entries[k] =>
             /\ proc[p].pc = "mark" => Sure(k)
             /\ proc[p].pc = "extract" => hot[k] # "none" /\ proc[p].torn = FALSE

CacheInv ==
  /\ CacheTyped /\ InHand /\ InHeap /\ AloneWriting /\ ArchiveThere
  /\ DirectoryThere

-----------------------------------------------------------------------------
(* The cache: what a step changes *)

\* p becomes q, and the others stay as they are.
Became(p, q) ==
  /\ proc' \in [Goer -> GoerType]
  /\ proc'[p] = q
  /\ \A r \in Goer : r # p => proc'[r] = proc[r]

\* A step that writes one goroutine.
LEMMA WentOn ==
  ASSUME CacheTyped, NEW p \in Goer, NEW q \in GoerType,
         proc' = [proc EXCEPT ![p] = q]
  PROVE  Became(p, q)
BY DEF CacheTyped, Became

\* A goroutine at rest has nothing in hand.
LEMMA IdleGoer ==
  Cache!Idle \in GoerType /\ Cache!Idle.pc = "idle" /\ Cache!Idle.obj = 0
<1>1. (CHOOSE k \in Key : TRUE) \in Key
  BY CacheAssumption
<1>2. MaxMade \in Nat
  BY CacheAssumption
<1> QED BY <1>1, <1>2 DEF Cache!Idle, GoerType

\* What an entry is made as: warm, for its key and in the heap.
LEMMA ObjectsMade ==
  /\ Cache!NoObject \in ObjectType /\ Cache!NoObject.queued = FALSE
         /\ \A k \in Key : /\ Cache!Entry(k, WarmSize) \in ObjectType
                           /\ Cache!Entry(k, WarmSize).key = k
                           /\ Cache!Entry(k, WarmSize).state = "Warm"
                           /\ Cache!Entry(k, WarmSize).queued = TRUE
<1>1. (CHOOSE k \in Key : TRUE) \in Key
  BY CacheAssumption
<1>2. Cache!NoObject \in ObjectType /\ Cache!NoObject.queued = FALSE
  BY <1>1 DEF Cache!NoObject, ObjectType
<1>3. ASSUME NEW k \in Key
      PROVE  /\ Cache!Entry(k, WarmSize) \in ObjectType
             /\ Cache!Entry(k, WarmSize).key = k
             /\ Cache!Entry(k, WarmSize).state = "Warm"
             /\ Cache!Entry(k, WarmSize).queued = TRUE
  <2>1. PICK n \in ObjectType : n = Cache!NoObject
    BY <1>2
  <2>2. Cache!Entry(k, WarmSize) =
          [n EXCEPT !.key = k, !.state = "Warm", !.size = WarmSize, !.queued = TRUE]
    BY <2>1, Zenon DEF Cache!Entry
  <2>3. WarmSize \in Int
    BY CacheAssumption
  <2> QED BY <2>1, <2>2, <2>3 DEF ObjectType
<1> QED BY <1>2, <1>3

\* Goto takes a goroutine on, with what it has in hand, or lets it rest.
LEMMA GoneTo ==
  ASSUME CacheTyped, NEW p \in Goer,
         NEW at \in {"idle", "ended", "answer", "create", "write", "publish", "open",
                     "mark", "resize"},
         Cache!Goto(p, at)
  PROVE  \E q \in GoerType :
           /\ Became(p, q) /\ q.pc = at
           /\ at = "idle" => q.obj = 0
           /\ at # "idle" => q.key = proc[p].key /\ q.obj = proc[p].obj
                               /\ q.torn = proc[p].torn
<1>1. CASE at = "idle"
  BY <1>1, IdleGoer, WentOn DEF Cache!Goto
<1>2. CASE at # "idle"
  <2>1. proc[p] \in GoerType /\ proc \in [Goer -> GoerType]
    BY DEF CacheTyped
  <2>2. PICK q : q = [proc[p] EXCEPT !.pc = at]
    OBVIOUS
  <2>3. /\ q \in GoerType /\ q.pc = at /\ q.key = proc[p].key
        /\ q.obj = proc[p].obj /\ q.torn = proc[p].torn
    BY <2>1, <2>2 DEF GoerType
  <2>4. proc' = [proc EXCEPT ![p] = q]
    BY <1>2, <2>1, <2>2 DEF Cache!Goto
  <2>5. Became(p, q)
    BY <2>3, <2>4, WentOn
  <2> QED BY <1>2, <2>3, <2>5
<1> QED BY <1>1, <1>2

\* What a goroutine has in hand is in order.
Handy(p, q) ==
  /\ q.obj <= made
  /\ q.obj # 0 => obj[q.obj].key = q.key
  /\ q.pc \in HasEntry => q.obj # 0
  /\ q.pc = "resize" => obj[q.obj].state = "Hot"
  /\ q.pc \notin {"idle", "ended", "open", "extract", "mark"} => p \in Worker

\* InHand, goroutine by goroutine.
LEMMA InHandIs == InHand <=> \A p \in Goer : Handy(p, proc[p])
BY DEF InHand, Handy

\* The objects keep what the invariant is about.
ObjectsKept ==
  /\ obj' \in [Cache!Object -> ObjectType]
  /\ \A o \in Cache!Object : obj'[o].key = obj[o].key /\ obj'[o].state = obj[o].state
                         /\ obj'[o].queued = obj[o].queued

\* Every entry in the map or in a hand is one that was made.
LEMMA ObjectNumbers ==
  ASSUME CacheTyped
  PROVE  /\ 1..made \subseteq Cache!Object
         /\ \A k \in Key : entries[k] # 0 => entries[k] \in 1..made /\ entries[k] \in Cache!Object
         /\ \A p \in Goer : proc[p].obj \in 0..MaxMade
         /\ \A p \in Goer : proc[p].obj # 0 /\ proc[p].obj <= made => proc[p].obj \in Cache!Object
         /\ made \in Nat
BY CacheAssumption DEF CacheTyped, Cache!Object, GoerType

\* A goroutine goes on and no entry or file changes: it was not extracting, and
\* neither writes an archive nor extracts now.
LEMMA GoesOn ==
  ASSUME CacheInv, NEW p \in Goer, NEW q \in GoerType, Became(p, q),
         Handy(p, q), ObjectsKept, UNCHANGED <<made, entries, warm, hot>>,
         queue' \in Seq(PrimeType), cacheSpoilt \subseteq cacheSpoilt', cacheSpoilt' \subseteq Key,
         proc[p].pc # "extract",
         q.pc \notin {"write", "publish", "extract", "mark"}
  PROVE  CacheInv'
<1>1. CacheTyped' /\ CacheTyped
  BY DEF CacheInv, CacheTyped, Became, ObjectsKept
<1>2. InHand'
  <2>1. ASSUME NEW r \in Goer PROVE Handy(r, proc[r])' 
    <3>1. CASE r = p
      <4>1. q.obj # 0 => q.obj \in Cache!Object
        BY <1>1, CacheAssumption DEF Handy, GoerType, Cache!Object, CacheTyped
      <4> QED BY <3>1, <4>1 DEF Handy, Became, ObjectsKept, HasEntry
    <3>2. CASE r # p
      <4>1. Handy(r, proc[r]) /\ proc'[r] = proc[r]
        BY <3>2, InHandIs DEF CacheInv, Became
      <4>2. proc[r].obj # 0 => proc[r].obj \in Cache!Object
        BY <1>1, <4>1, ObjectNumbers DEF Handy
      <4> QED BY <4>1, <4>2 DEF Handy, ObjectsKept, HasEntry
    <3> QED BY <3>1, <3>2
  <2> QED BY <2>1 DEF InHand, Handy
<1>3. InHeap'
  BY <1>1, ObjectNumbers DEF CacheInv, InHeap, ObjectsKept
<1>4. AloneWriting'
  BY DEF CacheInv, AloneWriting, Became
<1>5. ArchiveThere'
  BY DEF CacheInv, ArchiveThere
<1>6. DirectoryThere'
  <2>1. ASSUME NEW k \in Key \ cacheSpoilt', Sure(k) PROVE Sure(k)'
    BY <2>1 DEF Sure, WillBeWhole, Became
  <2>2. SUFFICES ASSUME NEW k \in Key \ cacheSpoilt', entries[k] # 0
                 PROVE  /\ obj'[entries[k]].state = "Hot" => Sure(k)'
                        /\ \A r \in Goer :
                             proc'[r].obj = entries[k] =>
                               /\ proc'[r].pc = "mark" => Sure(k)'
                               /\ proc'[r].pc = "extract" =>
                                    hot[k] # "none" /\ proc'[r].torn = FALSE
    BY DEF DirectoryThere
  <2>3. k \in Key \ cacheSpoilt
    OBVIOUS
  <2>4. obj'[entries[k]].state = "Hot" => Sure(k)'
    BY <1>1, <2>1, <2>2, <2>3, ObjectNumbers DEF CacheInv, DirectoryThere, ObjectsKept
  <2>5. ASSUME NEW r \in Goer, proc'[r].obj = entries[k]
        PROVE  /\ proc'[r].pc = "mark" => Sure(k)'
               /\ proc'[r].pc = "extract" => hot[k] # "none" /\ proc'[r].torn = FALSE
    BY <2>1, <2>2, <2>3, <2>5 DEF CacheInv, DirectoryThere, Became
  <2> QED BY <2>4, <2>5
<1> QED BY <1>1, <1>2, <1>3, <1>4, <1>5, <1>6 DEF CacheInv

\* A step that leaves the objects alone keeps what matters of them.
LEMMA ObjectsSame ==
  ASSUME CacheTyped, obj' = obj
  PROVE  ObjectsKept
BY DEF ObjectsKept, CacheTyped

\* Requests come and go, callers begin, and nothing else happens.
LEMMA Requested ==
  ASSUME CacheInv, UNCHANGED <<made, entries, proc, warm, hot, cacheSpoilt>>,
         ObjectsKept, queue' \in Seq(PrimeType)
  PROVE  CacheInv'
<1>1. CacheTyped /\ CacheTyped'
  BY DEF CacheInv, CacheTyped, ObjectsKept
<1>2. InHand'
  BY <1>1, ObjectNumbers DEF CacheInv, InHand, ObjectsKept, HasEntry
<1>3. InHeap'
  BY <1>1, ObjectNumbers DEF CacheInv, InHeap, ObjectsKept
<1>4. AloneWriting' /\ ArchiveThere'
  BY DEF CacheInv, AloneWriting, ArchiveThere
<1>5. ASSUME NEW k PROVE Sure(k)' <=> Sure(k)
  BY DEF Sure, WillBeWhole
<1>6. DirectoryThere'
  <2>1. ASSUME NEW k \in Key \ cacheSpoilt, entries[k] # 0
        PROVE  obj'[entries[k]].state = obj[entries[k]].state
    BY <1>1, <2>1, ObjectNumbers DEF ObjectsKept
  <2> QED BY <1>5, <2>1 DEF CacheInv, DirectoryThere
<1> QED BY <1>1, <1>2, <1>3, <1>4, <1>6 DEF CacheInv

\* Prime, PrimeSync, SetAssigned and Close write no entry and no file.
LEMMA RequestSteps ==
  ASSUME CacheInv,
         \/ \E k \in Key, t \in {"Warm", "Hot"} :
              Cache!Prime(k, t) \/ \E c \in Caller : Cache!PrimeSync(c, k, t)
         \/ \E k \in Key, b \in BOOLEAN : Cache!SetAssigned(k, b)
         \/ Cache!Close
         \/ UNCHANGED Cache!vars
  PROVE  CacheInv'
<1>1. CacheTyped /\ queue \in Seq(PrimeType)
  BY DEF CacheInv, CacheTyped
<1>2. ASSUME NEW k \in Key, NEW t \in {"Warm", "Hot"}, NEW c \in Caller \cup {Nobody}
      PROVE  Append(queue, [key |-> k, target |-> t, caller |-> c]) \in Seq(PrimeType)
  BY <1>1 DEF PrimeType
<1>3. ASSUME NEW k \in Key, NEW t \in {"Warm", "Hot"}, Cache!Prime(k, t) PROVE CacheInv'
  <2>1. queue' \in Seq(PrimeType)
    BY <1>1, <1>2, <1>3 DEF Cache!Prime
  <2> QED BY <1>1, <1>3, <2>1, ObjectsSame, Requested DEF Cache!Prime
<1>4. ASSUME NEW k \in Key, NEW t \in {"Warm", "Hot"}, NEW c \in Caller, Cache!PrimeSync(c, k, t)
      PROVE  CacheInv'
  <2>1. queue' \in Seq(PrimeType)
    BY <1>1, <1>2, <1>4 DEF Cache!PrimeSync
  <2> QED BY <1>1, <1>4, <2>1, ObjectsSame, Requested DEF Cache!PrimeSync
<1>5. ASSUME NEW k \in Key, NEW b \in BOOLEAN, Cache!SetAssigned(k, b) PROVE CacheInv'
  <2>1. /\ entries[k] \in Cache!Object /\ obj \in [Cache!Object -> ObjectType]
        /\ obj[entries[k]] \in ObjectType
    BY <1>1, <1>5, ObjectNumbers DEF Cache!SetAssigned, CacheTyped
  <2>2. PICK n : n = [obj[entries[k]] EXCEPT !.assigned = b]
    OBVIOUS
  <2>3. /\ n \in ObjectType /\ n.key = obj[entries[k]].key
        /\ n.state = obj[entries[k]].state /\ n.queued = obj[entries[k]].queued
    BY <2>1, <2>2 DEF ObjectType
  <2>4. obj' = [obj EXCEPT ![entries[k]] = n]
    BY <1>5, <2>1, <2>2 DEF Cache!SetAssigned
  <2>5. ObjectsKept
    BY <2>1, <2>3, <2>4 DEF ObjectsKept
  <2> QED BY <1>1, <1>5, <2>5, Requested DEF Cache!SetAssigned
<1>6. CASE Cache!Close
  BY <1>1, <1>6, ObjectsSame, Requested DEF Cache!Close
<1>7. CASE UNCHANGED Cache!vars
  BY <1>1, <1>7, ObjectsSame, Requested DEF Cache!vars
<1> QED BY <1>3, <1>4, <1>5, <1>6, <1>7

\* A goroutine takes a request, finds an entry, answers or ends.
LEMMA GetStep ==
  ASSUME CacheInv, NEW k \in Key, NEW r \in Reader, Cache!Get(r, k)
  PROVE  CacheInv'
<1>1. CacheTyped /\ r \in Goer /\ queue' \in Seq(PrimeType) /\ cacheSpoilt \subseteq Key
  BY DEF CacheInv, CacheTyped, Goer, Cache!Get
<1>2. entries[k] # 0 /\ entries[k] \in 1..made /\ entries[k] \in 0..MaxMade
  BY <1>1, ObjectNumbers, CacheAssumption DEF Cache!Get, CacheTyped
<1>3. PICK q : q = [Cache!Idle EXCEPT !.pc = "open", !.key = k, !.obj = entries[k]]
  OBVIOUS
<1>4. q \in GoerType /\ q.pc = "open" /\ q.key = k /\ q.obj = entries[k]
  BY <1>2, <1>3, IdleGoer DEF GoerType
<1>5. Became(r, q)
  BY <1>1, <1>3, <1>4, WentOn DEF Cache!Get
<1>6. Handy(r, q)
  BY <1>2, <1>4 DEF Handy, CacheInv, InHeap
<1> QED BY <1>1, <1>4, <1>5, <1>6, ObjectsSame, GoesOn DEF Cache!Get

\* primeWorker takes a request, and has the entry it read in hand.
LEMMA TakeStep ==
  ASSUME CacheInv, NEW w \in Worker, Cache!Take(w)
  PROVE  CacheInv'
<1>1. CacheTyped /\ w \in Goer /\ queue \in Seq(PrimeType) /\ cacheSpoilt \subseteq Key
  BY DEF CacheInv, CacheTyped, Goer
<1>2. PICK h : h = Head(queue)
  OBVIOUS
<1>3. h \in PrimeType /\ queue' \in Seq(PrimeType)
  BY <1>1, <1>2 DEF Cache!Take
<1>4. PICK at \in {"answer", "space"} :
        at = IF Cache!AtLeast(Cache!GetState(h.key), h.target) THEN "answer" ELSE "space"
  OBVIOUS
<1>5. PICK q : q = [pc |-> at, key |-> h.key, target |-> h.target, caller |-> h.caller,
                    obj |-> entries[h.key], torn |-> FALSE]
  OBVIOUS
<1>6. h.key \in Key /\ entries[h.key] \in 0..made /\ made \in 0..MaxMade
  BY <1>1, <1>3 DEF PrimeType, CacheTyped
<1>7. q \in GoerType /\ q.pc = at /\ q.key = h.key /\ q.obj = entries[h.key]
  BY <1>3, <1>5, <1>6, CacheAssumption DEF GoerType, PrimeType
<1>8. proc' = [proc EXCEPT ![w] = q]
  BY <1>2, <1>4, <1>5 DEF Cache!Take
<1>9. Became(w, q)
  BY <1>1, <1>7, <1>8, WentOn
<1>10. Handy(w, q)
  BY <1>6, <1>7 DEF Handy, CacheInv, InHeap, HasEntry
<1>11. proc[w].pc # "extract" /\ q.pc \notin {"write", "publish", "extract", "mark"}
  BY <1>7 DEF Cache!Take
<1> QED BY <1>1, <1>3, <1>7, <1>9, <1>10, <1>11, ObjectsSame, GoesOn DEF Cache!Take

\* A worker goes on to something that is not an entry's.
LEMMA Leaves ==
  ASSUME CacheInv, NEW p \in Goer, NEW at \in {"idle", "ended", "answer"},
         Cache!Goto(p, at), at = "answer" => p \in Worker,
         ObjectsKept, UNCHANGED <<made, entries, warm, hot, queue, cacheSpoilt>>,
         proc[p].pc # "extract"
  PROVE  CacheInv'
<1>1. CacheTyped /\ queue' \in Seq(PrimeType) /\ cacheSpoilt \subseteq Key /\ Handy(p, proc[p])
  BY InHandIs DEF CacheInv, CacheTyped
<1>2. PICK q \in GoerType :
        /\ Became(p, q) /\ q.pc = at
        /\ at = "idle" => q.obj = 0
        /\ at # "idle" => q.key = proc[p].key /\ q.obj = proc[p].obj
                            /\ q.torn = proc[p].torn
  BY <1>1, GoneTo
<1>3. 0 <= made
  BY <1>1, ObjectNumbers
<1>4. Handy(p, q)
  BY <1>1, <1>2, <1>3 DEF Handy, HasEntry
<1> QED BY <1>1, <1>2, <1>4, GoesOn

\* A worker ends, answers, or sets the size of an entry that is hot.
LEMMA LeavingSteps ==
  ASSUME CacheInv, NEW w \in Worker, Cache!End(w) \/ Cache!Answer(w) \/ Cache!Resize(w)
  PROVE  CacheInv'
<1>1. CacheTyped /\ w \in Goer
  BY DEF CacheInv, CacheTyped, Goer
<1>2. CASE Cache!End(w)
  BY <1>1, <1>2, ObjectsSame, Leaves DEF Cache!End
<1>3. CASE Cache!Answer(w)
  <2>1. Cache!Goto(w, "idle")
    BY <1>3 DEF Cache!Answer, Cache!Goto
  <2> QED BY <1>1, <1>3, <2>1, ObjectsSame, Leaves DEF Cache!Answer
<1>4. CASE Cache!Resize(w)
  <2>1. Handy(w, proc[w]) /\ proc[w].pc = "resize"
    BY <1>1, <1>4, InHandIs DEF CacheInv, Cache!Resize
  <2>2. PICK o \in Cache!Object : o = proc[w].obj
    BY <1>1, <2>1, ObjectNumbers DEF Handy, HasEntry
  <2>3. obj[o].state = "Hot" /\ obj[o] \in ObjectType /\ obj \in [Cache!Object -> ObjectType]
    BY <1>1, <2>1, <2>2 DEF Handy, CacheTyped
  <2>4. PICK d : d = Cache!dirSize(obj[o].key)
    OBVIOUS
  <2>5. d \in Int
    <3>1. obj[o].key \in Key
      BY <2>3 DEF ObjectType
    <3>2. hot[obj[o].key] \in {"none", "partial", "whole"}
      BY <1>1, <3>1 DEF CacheTyped
    <3>3. CASE hot[obj[o].key] = "none"
      BY <2>4, <3>3 DEF Cache!dirSize
    <3>4. CASE hot[obj[o].key] = "partial"
      BY <2>4, <3>4 DEF Cache!dirSize
    <3>5. CASE hot[obj[o].key] = "whole"
      BY <2>4, <3>5, CacheAssumption DEF Cache!dirSize
    <3> QED BY <3>2, <3>3, <3>4, <3>5
  <2>6. PICK n : n = [obj[o] EXCEPT !.state = "Hot", !.size = d]
    OBVIOUS
  <2>7. n \in ObjectType /\ n.key = obj[o].key /\ n.state = "Hot" /\ n.queued = obj[o].queued
    BY <2>3, <2>5, <2>6 DEF ObjectType
  <2>8. obj' = [obj EXCEPT ![o] = n]
    BY <1>4, <2>2, <2>3, <2>4, <2>6 DEF Cache!Resize
  <2>9. ObjectsKept
    BY <2>3, <2>7, <2>8 DEF ObjectsKept
  <2> QED BY <1>1, <1>4, <2>1, <2>9, Leaves DEF Cache!Resize
<1> QED BY <1>2, <1>3, <1>4

-----------------------------------------------------------------------------
(* The cache: eviction and the archive *)

\* Eviction, and the worker that made room goes on.  It takes nothing from a key
\* that is not spoilt but with its entry, so nothing from one being archived.
LEMMA SpaceStep ==
  ASSUME CacheInv, NEW w \in Worker, Cache!ensureSpace(w)
  PROVE  CacheInv'
<1>1. CacheTyped /\ w \in Goer /\ Handy(w, proc[w]) /\ proc[w].pc = "space"
  BY InHandIs DEF CacheInv, Goer, Cache!ensureSpace
<1>2. PICK E \in Cache!Evictions(HotSize) :
        /\ Cache!Evict(E)
        /\ Cache!Goto(w, IF size' + HotSize > MaxSize /\ Cache!Queued # E THEN "answer"
                     ELSE IF proc[w].obj = 0 THEN "create" ELSE "open")
  BY DEF Cache!ensureSpace
<1>3. E \subseteq {o \in 1..made : obj[o].queued}
  BY DEF Cache!Evictions, Cache!Loose, Cache!Queued
<1>4. PICK at \in {"answer", "create", "open"} :
        Cache!Goto(w, at) /\ (at = "open" => proc[w].obj # 0)
  <2>1. CASE size' + HotSize > MaxSize /\ Cache!Queued # E
    BY <1>2, <2>1
  <2>2. CASE ~ (size' + HotSize > MaxSize /\ Cache!Queued # E) /\ proc[w].obj = 0
    BY <1>2, <2>2
  <2>3. CASE ~ (size' + HotSize > MaxSize /\ Cache!Queued # E) /\ proc[w].obj # 0
    BY <1>2, <2>3
  <2> QED BY <2>1, <2>2, <2>3
<1>5. PICK q \in GoerType :
        /\ Became(w, q) /\ q.pc = at
        /\ q.key = proc[w].key /\ q.obj = proc[w].obj /\ q.torn = proc[w].torn
  BY <1>1, <1>4, GoneTo
<1>6. PICK of : of = {obj[o].key : o \in E}
  OBVIOUS
<1>7. PICK extracted : extracted = {obj[o].key : o \in {e \in E : obj[e].state = "Hot"}}
  OBVIOUS
<1>8. extracted \subseteq of
  BY <1>6, <1>7
<1>9. /\ obj' = [o \in Cache!Object |-> IF o \in E THEN [obj[o] EXCEPT !.queued = FALSE]
                                    ELSE obj[o]]
      /\ entries' = [k \in Key |-> IF k \in of THEN 0 ELSE entries[k]]
      /\ warm' = [k \in Key |-> IF k \in of THEN "none" ELSE warm[k]]
      /\ hot' = [k \in Key |-> IF k \in extracted THEN "none" ELSE hot[k]]
  BY <1>2, <1>6, <1>7 DEF Cache!Evict
<1>10. UNCHANGED <<made, queue, cacheSpoilt>>
  BY DEF Cache!ensureSpace
<1>11. ASSUME NEW o \in Cache!Object
       PROVE  /\ obj'[o] \in ObjectType
              /\ obj'[o].key = obj[o].key /\ obj'[o].state = obj[o].state
              /\ obj'[o].queued => obj[o].queued /\ o \notin E
  <2>1. obj[o] \in ObjectType
    BY <1>1 DEF CacheTyped
  <2>2. CASE o \in E
    <3>1. obj'[o] = [obj[o] EXCEPT !.queued = FALSE]
      BY <1>9, <2>2
    <3> QED BY <2>1, <3>1 DEF ObjectType
  <2>3. CASE o \notin E
    BY <1>9, <2>1, <2>3
  <2> QED BY <2>2, <2>3
<1>12. ASSUME NEW k \in Key
       PROVE  \/ k \in of /\ entries'[k] = 0
              \/ /\ k \notin of /\ entries'[k] = entries[k]
                 /\ warm'[k] = warm[k] /\ hot'[k] = hot[k]
  BY <1>8, <1>9
<1>13. CacheTyped'
  <2>1. obj' \in [Cache!Object -> ObjectType]
    BY <1>9, <1>11
  <2>2. entries' \in [Key -> 0..made]
    BY <1>1, <1>9, ObjectNumbers DEF CacheTyped
  <2>3. /\ warm' \in [Key -> {"none", "partial", "whole"}]
        /\ hot' \in [Key -> {"none", "partial", "whole"}]
    BY <1>1, <1>9 DEF CacheTyped
  <2> QED BY <1>1, <1>5, <1>10, <2>1, <2>2, <2>3 DEF CacheTyped, Became
<1>14. InHand'
  <2>1. ASSUME NEW r \in Goer PROVE Handy(r, proc[r])'
    <3>1. Handy(r, proc[r])
      BY InHandIs DEF CacheInv
    <3>2. proc[r].obj # 0 => proc[r].obj \in Cache!Object
      BY <1>1, <3>1, ObjectNumbers DEF Handy
    <3>3. CASE r = w
      <4>1. proc'[r] = q
        BY <1>5, <3>3 DEF Became
      <4> QED BY <1>4, <1>5, <1>10, <1>11, <3>1, <3>2, <3>3, <4>1 DEF Handy, HasEntry
    <3>4. CASE r # w
      <4>1. proc'[r] = proc[r]
        BY <1>5, <3>4 DEF Became
      <4> QED BY <1>10, <1>11, <3>1, <3>2, <4>1 DEF Handy, HasEntry
    <3> QED BY <3>3, <3>4
  <2> QED BY <2>1 DEF InHand, Handy
<1>15. ASSUME NEW o \in 1..made, obj[o].queued, obj[o].key \notin cacheSpoilt
       PROVE  obj[o].key \in Key /\ entries[obj[o].key] = o /\ o \in Cache!Object /\ o # 0
  <2>1. o \in Cache!Object
    BY <1>1, ObjectNumbers
  <2>2. obj[o].key \in Key
    BY <1>1, <2>1 DEF CacheTyped, ObjectType
  <2> QED BY <1>15, <2>1, <2>2 DEF CacheInv, InHeap
<1>16. InHeap'
  <2>1. ASSUME NEW k \in Key, entries'[k] # 0 PROVE obj'[entries'[k]].key = k
    <3>1. entries'[k] = entries[k] /\ entries[k] # 0
      BY <1>12, <2>1
    <3>2. entries[k] \in Cache!Object /\ obj[entries[k]].key = k
      BY <1>1, <3>1, ObjectNumbers DEF CacheInv, InHeap
    <3> QED BY <1>11, <3>1, <3>2
  <2>2. ASSUME NEW o \in 1..made, obj'[o].queued, obj'[o].key \notin cacheSpoilt
        PROVE  entries'[obj'[o].key] = o
    <3>1. o \in Cache!Object /\ obj[o].queued /\ o \notin E /\ obj'[o].key = obj[o].key
      BY <1>1, <1>11, <2>2, ObjectNumbers
    <3>2. obj[o].key \in Key /\ entries[obj[o].key] = o
      BY <1>15, <2>2, <3>1
    <3>3. obj[o].key \notin of
      <4>1. SUFFICES ASSUME NEW e \in E, obj[e].key = obj[o].key PROVE FALSE
        BY <1>6
      <4>2. entries[obj[e].key] = e
        BY <1>3, <1>15, <2>2, <3>1, <4>1
      <4> QED BY <3>1, <3>2, <4>1, <4>2
    <3> QED BY <1>12, <3>1, <3>2, <3>3
  <2>3. ASSUME NEW o \in Cache!Object, o > made PROVE ~ obj'[o].queued
    BY <1>11, <2>3 DEF CacheInv, InHeap
  <2> QED BY <1>10, <2>1, <2>2, <2>3 DEF InHeap
<1>17. AloneWriting'
  <2>1. SUFFICES ASSUME NEW v \in Goer, proc'[v].pc \in {"write", "publish"},
                        proc'[v].key \notin cacheSpoilt
                 PROVE  /\ entries'[proc'[v].key] = 0
                        /\ warm'[proc'[v].key] =
                             IF proc'[v].pc = "write" THEN "partial" ELSE "whole"
                        /\ \A u \in Goer \ {v} :
                             proc'[u].key = proc'[v].key =>
                               proc'[u].pc \notin {"write", "publish"}
    BY <1>10 DEF AloneWriting
  <2>2. v # w /\ proc'[v] = proc[v]
    BY <1>4, <1>5, <2>1 DEF Became
  <2>3. PICK k \in Key : k = proc[v].key
    BY <1>1 DEF CacheTyped, GoerType
  <2>4. /\ entries[k] = 0
        /\ warm[k] = IF proc[v].pc = "write" THEN "partial" ELSE "whole"
        /\ \A u \in Goer \ {v} :
             proc[u].key = k => proc[u].pc \notin {"write", "publish"}
    BY <2>1, <2>2, <2>3 DEF CacheInv, AloneWriting
  <2>5. k \notin of
    <3>1. SUFFICES ASSUME NEW e \in E, obj[e].key = k PROVE FALSE
      BY <1>6
    <3>2. entries[k] = e /\ e # 0
      BY <1>3, <1>15, <2>1, <2>2, <2>3, <3>1
    <3> QED BY <2>4, <3>2
  <2>6. entries'[k] = 0 /\ warm'[k] = warm[k]
    BY <1>12, <2>4, <2>5
  <2>7. ASSUME NEW u \in Goer \ {v}, proc'[u].key = k
        PROVE  proc'[u].pc \notin {"write", "publish"}
    <3>1. CASE u = w
      BY <1>4, <1>5, <3>1 DEF Became
    <3>2. CASE u # w
      BY <1>5, <2>4, <2>7, <3>2 DEF Became
    <3> QED BY <3>1, <3>2
  <2> QED BY <2>2, <2>3, <2>4, <2>6, <2>7
<1>18. ArchiveThere'
  BY <1>10, <1>12 DEF CacheInv, ArchiveThere
<1>19. DirectoryThere'
  <2>1. SUFFICES ASSUME NEW k \in Key \ cacheSpoilt, entries'[k] # 0
                 PROVE  /\ obj'[entries'[k]].state = "Hot" => Sure(k)'
                        /\ \A p \in Goer :
                             proc'[p].obj = entries'[k] =>
                               /\ proc'[p].pc = "mark" => Sure(k)'
                               /\ proc'[p].pc = "extract" =>
                                    hot'[k] # "none" /\ proc'[p].torn = FALSE
    BY <1>10 DEF DirectoryThere
  <2>2. entries'[k] = entries[k] /\ hot'[k] = hot[k] /\ entries[k] # 0
    BY <1>12, <2>1
  <2>3. Sure(k) => Sure(k)'
    BY <1>1, <1>5, <2>2 DEF Sure, WillBeWhole, Became
  <2>4. entries[k] \in Cache!Object
    BY <1>1, <2>2, ObjectNumbers
  <2>5. obj'[entries'[k]].state = "Hot" => Sure(k)'
    BY <1>11, <2>2, <2>3, <2>4 DEF CacheInv, DirectoryThere
  <2>6. ASSUME NEW p \in Goer, proc'[p].obj = entries'[k]
        PROVE  /\ proc'[p].pc = "mark" => Sure(k)'
               /\ proc'[p].pc = "extract" => hot'[k] # "none" /\ proc'[p].torn = FALSE
    <3>1. CASE p = w
      BY <1>4, <1>5, <3>1 DEF Became
    <3>2. CASE p # w
      BY <1>5, <2>2, <2>3, <2>6, <3>2 DEF CacheInv, DirectoryThere, Became
    <3> QED BY <3>1, <3>2
  <2> QED BY <2>5, <2>6
<1> QED BY <1>13, <1>14, <1>16, <1>17, <1>18, <1>19 DEF CacheInv

\* A step of createWarmArchive: the archive of a key that is not spoilt is
\* changed by one worker alone, while there is no entry for the key.
LEMMA ArchiveKept ==
  ASSUME CacheInv, NEW w \in Worker, NEW q \in GoerType, Became(w, q),
         q.key = proc[w].key, q.obj = proc[w].obj,
         proc[w].pc \in {"create", "write"}, q.pc \in {"write", "publish", "answer"},
         UNCHANGED <<made, entries, obj, queue, hot>>,
         cacheSpoilt \subseteq cacheSpoilt', cacheSpoilt' \subseteq Key,
         NEW x \in {"none", "partial", "whole"},
         warm' = [warm EXCEPT ![proc[w].key] = x],
         proc[w].key \notin cacheSpoilt' =>
           /\ entries[proc[w].key] = 0
           /\ q.pc = "write" => x = "partial"
           /\ q.pc = "publish" => x = "whole"
           /\ \A v \in Goer \ {w} :
                proc[v].key = proc[w].key => proc[v].pc \notin {"write", "publish"}
  PROVE  CacheInv'
<1>1. CacheTyped /\ w \in Goer
  BY DEF CacheInv, Goer
<1>2. PICK k \in Key : k = proc[w].key
  BY <1>1 DEF CacheTyped, GoerType
<1>3. /\ warm' \in [Key -> {"none", "partial", "whole"}]
      /\ warm'[k] = x
      /\ \A j \in Key : j # k => warm'[j] = warm[j]
  BY <1>1, <1>2 DEF CacheTyped
<1>4. CacheTyped'
  BY <1>1, <1>3 DEF CacheTyped, Became
<1>5. InHand'
  <2>1. ASSUME NEW r \in Goer PROVE Handy(r, proc[r])'
    <3>1. Handy(r, proc[r])
      BY InHandIs DEF CacheInv
    <3> QED BY <3>1 DEF Handy, Became, HasEntry
  <2> QED BY <2>1 DEF InHand, Handy
<1>6. InHeap'
  BY DEF CacheInv, InHeap
<1>7. AloneWriting'
  <2>1. SUFFICES ASSUME NEW v \in Goer, proc'[v].pc \in {"write", "publish"},
                        proc'[v].key \notin cacheSpoilt'
                 PROVE  /\ entries[proc'[v].key] = 0
                        /\ warm'[proc'[v].key] =
                             IF proc'[v].pc = "write" THEN "partial" ELSE "whole"
                        /\ \A u \in Goer \ {v} :
                             proc'[u].key = proc'[v].key =>
                               proc'[u].pc \notin {"write", "publish"}
    BY DEF AloneWriting
  <2>2. CASE v = w
    BY <1>2, <1>3, <2>1, <2>2 DEF Became
  <2>3. CASE v # w
    <3>1. proc'[v] = proc[v] /\ proc[v].key \in Key
      BY <1>1, <2>3 DEF Became, CacheTyped, GoerType
    <3>2. proc[v].key # k
      BY <1>2, <2>1, <2>3, <3>1
    <3>3. /\ entries[proc[v].key] = 0
          /\ warm[proc[v].key] = IF proc[v].pc = "write" THEN "partial" ELSE "whole"
          /\ \A u \in Goer \ {v} :
               proc[u].key = proc[v].key => proc[u].pc \notin {"write", "publish"}
      BY <2>1, <3>1 DEF CacheInv, AloneWriting
    <3> QED BY <1>2, <1>3, <3>1, <3>2, <3>3 DEF Became
  <2> QED BY <2>2, <2>3
<1>8. ArchiveThere'
  <2>1. ASSUME NEW j \in Key \ cacheSpoilt', entries[j] # 0 PROVE warm'[j] = "whole"
    BY <1>2, <1>3, <2>1 DEF CacheInv, ArchiveThere
  <2> QED BY <2>1 DEF ArchiveThere
<1>9. DirectoryThere'
  <2>1. ASSUME NEW j \in Key \ cacheSpoilt', Sure(j) PROVE Sure(j)'
    BY <2>1 DEF Sure, WillBeWhole, Became
  <2> QED BY <2>1 DEF CacheInv, DirectoryThere, Became
<1> QED BY <1>4, <1>5, <1>6, <1>7, <1>8, <1>9 DEF CacheInv

\* createWarmArchive: a second writer, one beside an entry, or an error nobody
\* looks at spoils the key.
LEMMA ArchiveSteps ==
  ASSUME CacheInv, NEW w \in Worker, Cache!Create(w) \/ Cache!Write(w)
  PROVE  CacheInv'
<1>1. CacheTyped /\ w \in Goer /\ Handy(w, proc[w]) /\ cacheSpoilt \subseteq Key
  BY InHandIs DEF CacheInv, CacheTyped, Goer
<1>2. PICK k \in Key : k = proc[w].key
  BY <1>1 DEF CacheTyped, GoerType
<1>3. CASE Cache!Create(w) /\ Cache!Goto(w, "write")
  <2>1. proc[w].pc = "create"
    BY <1>3 DEF Cache!Create
  <2>2. PICK q \in GoerType :
          /\ Became(w, q) /\ q.pc = "write"
          /\ q.key = proc[w].key /\ q.obj = proc[w].obj
    BY <1>1, <1>3, GoneTo
  <2>3. \/ /\ warm' = [warm EXCEPT ![k] = "partial"]
           /\ cacheSpoilt' = IF entries[k] # 0 \/ Cache!Archiving(w) # {} THEN cacheSpoilt \cup {k}
                          ELSE cacheSpoilt
        \/ Cache!Goto(w, "answer")
    BY <1>2, <1>3 DEF Cache!Create
  <2>4. ~ Cache!Goto(w, "answer")
    <3>1. ASSUME Cache!Goto(w, "answer") PROVE FALSE
      <4>1. PICK r \in GoerType : Became(w, r) /\ r.pc = "answer"
        BY <1>1, <3>1, GoneTo
      <4> QED BY <2>2, <4>1 DEF Became
    <3> QED BY <3>1
  <2>5. cacheSpoilt \subseteq cacheSpoilt' /\ cacheSpoilt' \subseteq Key
    BY <1>1, <2>3, <2>4
  <2>6. ASSUME k \notin cacheSpoilt'
        PROVE  /\ entries[k] = 0
               /\ \A v \in Goer \ {w} :
                    proc[v].key = k => proc[v].pc \notin {"write", "publish"}
    <3>1. entries[k] = 0 /\ Cache!Archiving(w) = {}
      BY <2>3, <2>4, <2>6
    <3>2. ASSUME NEW v \in Goer \ {w}, proc[v].key = k,
                 proc[v].pc \in {"write", "publish"}
          PROVE  FALSE
      <4>1. v \in Worker
        BY <3>2 DEF CacheInv, InHand
      <4>2. v \in Cache!Archiving(w)
        BY <1>2, <3>2, <4>1 DEF Cache!Archiving
      <4> QED BY <3>1, <4>2
    <3> QED BY <3>1, <3>2
  <2>7. UNCHANGED <<made, entries, obj, queue, hot>>
    BY <1>3 DEF Cache!Create
  <2> QED BY <1>2, <2>1, <2>2, <2>3, <2>4, <2>5, <2>6, <2>7, ArchiveKept
<1>4. CASE Cache!Create(w) /\ ~ Cache!Goto(w, "write")
  <2>1. proc[w].pc # "extract"
    BY <1>4 DEF Cache!Create
  <2>2. Cache!Goto(w, "answer") /\ UNCHANGED <<made, entries, obj, warm, hot, queue, cacheSpoilt>>
    BY <1>4 DEF Cache!Create
  <2> QED BY <1>1, <2>1, <2>2, ObjectsSame, Leaves
<1>5. CASE Cache!Write(w)
  <2>1. proc[w].pc = "write" /\ UNCHANGED <<made, entries, obj, queue, hot>>
    BY <1>5 DEF Cache!Write
  <2>2. ASSUME k \notin cacheSpoilt
        PROVE  /\ entries[k] = 0 /\ warm[k] = "partial"
               /\ \A v \in Goer \ {w} :
                    proc[v].key = k => proc[v].pc \notin {"write", "publish"}
    BY <1>1, <1>2, <2>1, <2>2 DEF CacheInv, AloneWriting
  <2>3. ASSUME NEW content \in {"partial", "whole"},
               warm' = [warm EXCEPT ![k] = IF @ = "none" THEN "none" ELSE content],
               Cache!Goto(w, "publish"),
               cacheSpoilt' = cacheSpoilt \/ cacheSpoilt' = cacheSpoilt \cup {k},
               k \notin cacheSpoilt' => content = "whole"
        PROVE  CacheInv'
    <3>1. PICK x \in {"none", "partial", "whole"} :
            x = IF warm[k] = "none" THEN "none" ELSE content
      OBVIOUS
    <3>2. warm' = [warm EXCEPT ![proc[w].key] = x]
      BY <1>1, <1>2, <2>3, <3>1 DEF CacheTyped
    <3>3. PICK q \in GoerType :
            /\ Became(w, q) /\ q.pc = "publish"
            /\ q.key = proc[w].key /\ q.obj = proc[w].obj
      BY <1>1, <2>3, GoneTo
    <3>4. cacheSpoilt \subseteq cacheSpoilt' /\ cacheSpoilt' \subseteq Key
      BY <1>1, <1>2, <2>3
    <3>5. k \notin cacheSpoilt' => x = "whole"
      BY <2>2, <2>3, <3>1, <3>4
    <3> QED BY <1>1, <1>2, <2>1, <2>2, <3>2, <3>3, <3>4, <3>5, ArchiveKept
  <2>4. CASE /\ warm' = [warm EXCEPT ![k] = "none"]
             /\ Cache!Goto(w, "answer")
             /\ cacheSpoilt' = cacheSpoilt
    <3>1. PICK q \in GoerType :
            /\ Became(w, q) /\ q.pc = "answer"
            /\ q.key = proc[w].key /\ q.obj = proc[w].obj
      BY <1>1, <2>4, GoneTo
    <3> QED BY <1>1, <1>2, <2>1, <2>2, <2>4, <3>1, ArchiveKept
  <2>5. \/ /\ warm' = [warm EXCEPT ![k] = IF @ = "none" THEN "none" ELSE "whole"]
           /\ Cache!Goto(w, "publish")
           /\ cacheSpoilt' = cacheSpoilt
        \/ /\ warm' = [warm EXCEPT ![k] = "none"]
           /\ Cache!Goto(w, "answer")
           /\ cacheSpoilt' = cacheSpoilt
        \/ /\ warm' = [warm EXCEPT ![k] = IF @ = "none" THEN "none" ELSE "partial"]
           /\ Cache!Goto(w, "publish")
           /\ cacheSpoilt' = cacheSpoilt \cup {k}
    BY <1>2, <1>5 DEF Cache!Write
  <2> QED BY <2>3, <2>4, <2>5
<1> QED BY <1>3, <1>4, <1>5

\* The archive is recorded: the new entry is warm, and nobody else has it in hand.
LEMMA PublishStep ==
  ASSUME CacheInv, NEW w \in Worker, Cache!Publish(w)
  PROVE  CacheInv'
<1>1. CacheTyped /\ w \in Goer /\ Handy(w, proc[w]) /\ cacheSpoilt \subseteq Key
  BY InHandIs DEF CacheInv, CacheTyped, Goer
<1>2. PICK k \in Key : k = proc[w].key
  BY <1>1 DEF CacheTyped, GoerType
<1>3. PICK n : n = made + 1
  OBVIOUS
<1>4. /\ n \in Cache!Object /\ n \in 0..MaxMade /\ n > made /\ made \in Nat /\ MaxMade \in Nat
      /\ made' = n /\ n \in Nat /\ n # 0
  BY <1>1, <1>3, CacheAssumption DEF Cache!Publish, Cache!Object, CacheTyped
<1>5. PICK e : e = Cache!Entry(k, WarmSize)
  OBVIOUS
<1>6. e \in ObjectType /\ e.key = k /\ e.state = "Warm" /\ e.queued
  BY <1>5, ObjectsMade
<1>7. obj' = [obj EXCEPT ![n] = e] /\ entries' = [entries EXCEPT ![k] = n]
  BY <1>2, <1>4, <1>5 DEF Cache!Publish
<1>8. /\ obj' \in [Cache!Object -> ObjectType] /\ obj'[n] = e
      /\ \A o \in Cache!Object : o # n => obj'[o] = obj[o]
  BY <1>1, <1>4, <1>6, <1>7 DEF CacheTyped
<1>9. /\ entries' \in [Key -> 0..n] /\ entries'[k] = n
      /\ \A j \in Key : j # k => entries'[j] = entries[j]
  BY <1>1, <1>4, <1>7 DEF CacheTyped
<1>10. PICK at \in {"open", "answer"} : at = IF proc[w].target = "Hot" THEN "open" ELSE "answer"
  OBVIOUS
<1>11. PICK q : q = [proc[w] EXCEPT !.obj = n, !.pc = at]
  OBVIOUS
<1>12. q \in GoerType /\ q.pc = at /\ q.obj = n /\ q.key = k
  BY <1>1, <1>2, <1>4, <1>11, ZenonT(30) DEF CacheTyped, GoerType
<1>13. proc' = [proc EXCEPT ![w] = q]
  BY <1>1, <1>4, <1>10, <1>11 DEF Cache!Publish, CacheTyped
<1>14. Became(w, q)
  BY <1>1, <1>12, <1>13, WentOn
<1>15. UNCHANGED <<queue, warm, hot, cacheSpoilt>> /\ proc[w].pc = "publish"
  BY DEF Cache!Publish
<1>16. CacheTyped'
  BY <1>1, <1>4, <1>8, <1>9, <1>14, <1>15 DEF CacheTyped, Became
<1>17. \A r \in Goer : r # w => proc'[r] = proc[r] /\ proc[r].obj <= made /\ proc[r].obj # n
  BY <1>1, <1>4, <1>14, ObjectNumbers DEF CacheInv, InHand, Became
<1>18. InHand'
  <2>1. ASSUME NEW r \in Goer PROVE Handy(r, proc[r])'
    <3>1. CASE r = w
      <4>1. proc'[r] = q
        BY <1>14, <3>1 DEF Became
      <4> QED BY <1>4, <1>6, <1>8, <1>12, <3>1, <4>1 DEF Handy, HasEntry
    <3>2. CASE r # w
      <4>1. Handy(r, proc[r]) /\ proc'[r] = proc[r]
        BY <1>17, <3>2, InHandIs DEF CacheInv
      <4>2. proc[r].obj \in 0..MaxMade /\ (proc[r].obj # 0 => proc[r].obj \in Cache!Object)
        BY <1>1, <4>1, ObjectNumbers DEF Handy
      <4> QED BY <1>4, <1>8, <1>17, <3>2, <4>1, <4>2 DEF Handy, HasEntry
    <3> QED BY <3>1, <3>2
  <2> QED BY <2>1 DEF InHand, Handy
<1>19. k \notin cacheSpoilt => /\ entries[k] = 0 /\ warm[k] = "whole"
                          /\ \A v \in Goer \ {w} : proc[v].key = k =>
                               proc[v].pc \notin {"write", "publish"}
  BY <1>1, <1>2, <1>15 DEF CacheInv, AloneWriting
<1>20. InHeap'
  <2>1. ASSUME NEW j \in Key, entries'[j] # 0 PROVE obj'[entries'[j]].key = j
    <3>1. CASE j = k
      BY <1>6, <1>8, <1>9, <3>1
    <3>2. CASE j # k
      <4>1. entries[j] \in 1..made /\ entries[j] \in Cache!Object /\ obj[entries[j]].key = j
        BY <1>1, <1>9, <2>1, <3>2, ObjectNumbers DEF CacheInv, InHeap
      <4> QED BY <1>4, <1>8, <1>9, <3>2, <4>1
    <3> QED BY <3>1, <3>2
  <2>2. ASSUME NEW o \in 1..n, obj'[o].queued, obj'[o].key \notin cacheSpoilt
        PROVE  entries'[obj'[o].key] = o
    <3>1. CASE o = n
      BY <1>6, <1>8, <1>9, <3>1
    <3>2. CASE o # n
      <4>1. o \in 1..made /\ o \in Cache!Object /\ obj'[o] = obj[o]
        BY <1>1, <1>3, <1>4, <1>8, <3>2, ObjectNumbers
      <4>2. obj[o].key \in Key /\ entries[obj[o].key] = o
        BY <1>1, <2>2, <4>1 DEF CacheInv, InHeap, CacheTyped, ObjectType
      <4>3. obj[o].key # k
        BY <1>19, <2>2, <4>1, <4>2
      <4> QED BY <1>9, <4>1, <4>2, <4>3
    <3> QED BY <3>1, <3>2
  <2>3. ASSUME NEW o \in Cache!Object, o > n PROVE ~ obj'[o].queued
    <3>1. o > made /\ o # n
      BY <1>4, <2>3 DEF Cache!Object
    <3> QED BY <1>8, <3>1 DEF CacheInv, InHeap
  <2> QED BY <1>4, <1>15, <2>1, <2>2, <2>3 DEF InHeap
<1>21. AloneWriting'
  <2>1. SUFFICES ASSUME NEW v \in Goer, proc'[v].pc \in {"write", "publish"},
                        proc'[v].key \notin cacheSpoilt
                 PROVE  /\ entries'[proc'[v].key] = 0
                        /\ warm[proc'[v].key] =
                             IF proc'[v].pc = "write" THEN "partial" ELSE "whole"
                        /\ \A u \in Goer \ {v} :
                             proc'[u].key = proc'[v].key =>
                               proc'[u].pc \notin {"write", "publish"}
    BY <1>15 DEF AloneWriting
  <2>2. v # w /\ proc'[v] = proc[v] /\ proc[v].key \in Key
    BY <1>1, <1>12, <1>14, <2>1 DEF Became, CacheTyped, GoerType
  <2>3. proc[v].key # k
    BY <1>19, <2>1, <2>2
  <2>4. /\ entries[proc[v].key] = 0
        /\ warm[proc[v].key] = IF proc[v].pc = "write" THEN "partial" ELSE "whole"
        /\ \A u \in Goer \ {v} :
             proc[u].key = proc[v].key => proc[u].pc \notin {"write", "publish"}
    BY <2>1, <2>2 DEF CacheInv, AloneWriting
  <2> QED BY <1>9, <1>12, <1>14, <2>2, <2>3, <2>4 DEF Became
<1>22. ArchiveThere'
  BY <1>9, <1>15, <1>19 DEF CacheInv, ArchiveThere
<1>23. DirectoryThere'
  <2>1. SUFFICES ASSUME NEW j \in Key \ cacheSpoilt, entries'[j] # 0
                 PROVE  /\ obj'[entries'[j]].state = "Hot" => Sure(j)'
                        /\ \A p \in Goer :
                             proc'[p].obj = entries'[j] =>
                               /\ proc'[p].pc = "mark" => Sure(j)'
                               /\ proc'[p].pc = "extract" =>
                                    hot[j] # "none" /\ proc'[p].torn = FALSE
    BY <1>15 DEF DirectoryThere
  <2>2. CASE j = k
    <3>1. entries'[j] = n /\ obj'[n].state = "Warm"
      BY <1>6, <1>8, <1>9, <2>2
    <3>2. ASSUME NEW p \in Goer, proc'[p].obj = n PROVE proc'[p].pc = at
      BY <1>12, <1>14, <1>17, <3>2 DEF Became
    <3> QED BY <3>1, <3>2
  <2>3. CASE j # k
    <3>1. /\ entries'[j] = entries[j] /\ entries[j] # 0
          /\ entries[j] \in Cache!Object /\ entries[j] # n
      BY <1>1, <1>4, <1>9, <2>1, <2>3, ObjectNumbers
    <3>2. Sure(j) => Sure(j)'
      BY <1>14, <1>15 DEF Sure, WillBeWhole, Became
    <3>3. obj'[entries[j]] = obj[entries[j]]
      BY <1>8, <3>1
    <3> QED BY <1>12, <1>14, <3>1, <3>2, <3>3 DEF CacheInv, DirectoryThere, Became
  <2> QED BY <2>2, <2>3
<1> QED BY <1>16, <1>18, <1>20, <1>21, <1>22, <1>23 DEF CacheInv

-----------------------------------------------------------------------------
(* The cache: extraction *)

\* A step of extractWarm on the directory of one key: the others keep theirs, and
\* what the step owes its own key is left to show.
LEMMA DirectoryKept ==
  ASSUME CacheInv, NEW p \in Goer, NEW q \in GoerType, Became(p, q),
         Handy(p, q), q.pc \notin {"write", "publish"},
         proc[p].pc \notin {"write", "publish"},
         NEW k \in Key, k = proc[p].key, q.obj # 0 => q.obj = proc[p].obj,
         UNCHANGED <<made, entries, obj, queue, warm>>,
         cacheSpoilt \subseteq cacheSpoilt', cacheSpoilt' \subseteq Key,
         NEW x \in {"none", "partial", "whole"}, hot' = [hot EXCEPT ![k] = x],
         k \notin cacheSpoilt' /\ entries[k] # 0 =>
           /\ obj[entries[k]].state = "Hot" => Sure(k)'
           /\ \A r \in Goer :
                proc'[r].obj = entries[k] =>
                  /\ proc'[r].pc = "mark" => Sure(k)'
                  /\ proc'[r].pc = "extract" => x # "none" /\ proc'[r].torn = FALSE
  PROVE  CacheInv'
<1>1. CacheTyped
  BY DEF CacheInv
<1>2. /\ hot' \in [Key -> {"none", "partial", "whole"}] /\ hot'[k] = x
      /\ \A j \in Key : j # k => hot'[j] = hot[j]
  BY <1>1 DEF CacheTyped
<1>3. CacheTyped'
  BY <1>1, <1>2 DEF CacheTyped, Became
<1>4. InHand'
  <2>1. ASSUME NEW r \in Goer PROVE Handy(r, proc[r])'
    <3>1. CASE r = p
      BY <3>1 DEF Handy, Became, HasEntry
    <3>2. CASE r # p
      <4>1. Handy(r, proc[r])
        BY InHandIs DEF CacheInv
      <4> QED BY <3>2, <4>1 DEF Handy, Became, HasEntry
    <3> QED BY <3>1, <3>2
  <2> QED BY <2>1 DEF InHand, Handy
<1>5. InHeap' /\ ArchiveThere'
  BY DEF CacheInv, InHeap, ArchiveThere
<1>6. AloneWriting'
  BY DEF CacheInv, AloneWriting, Became
<1>7. DirectoryThere'
  <2>1. SUFFICES ASSUME NEW j \in Key \ cacheSpoilt', entries[j] # 0
                 PROVE  /\ obj[entries[j]].state = "Hot" => Sure(j)'
                        /\ \A r \in Goer :
                             proc'[r].obj = entries[j] =>
                               /\ proc'[r].pc = "mark" => Sure(j)'
                               /\ proc'[r].pc = "extract" =>
                                    hot'[j] # "none" /\ proc'[r].torn = FALSE
    BY DEF DirectoryThere
  <2>2. CASE j = k
    BY <1>2, <2>1, <2>2
  <2>3. CASE j # k
    <3>1. Sure(j) => Sure(j)'
      BY <1>2, <2>3 DEF Sure, WillBeWhole, Became
    <3>2. j \in Key \ cacheSpoilt /\ hot'[j] = hot[j] /\ obj[entries[j]].key = j
      BY <1>2, <2>1, <2>3 DEF CacheInv, InHeap
    <3>3. obj[entries[j]].state = "Hot" => Sure(j)'
      BY <2>1, <3>1, <3>2 DEF CacheInv, DirectoryThere
    <3>4. ASSUME NEW r \in Goer, proc'[r].obj = entries[j]
          PROVE  /\ proc'[r].pc = "mark" => Sure(j)'
                 /\ proc'[r].pc = "extract" => hot'[j] # "none" /\ proc'[r].torn = FALSE
      <4>1. CASE r = p
        <5>1. proc[p].obj = entries[j]
          BY <2>1, <3>4, <4>1 DEF Became
        <5>2. obj[proc[p].obj].key = k
          BY <2>1, <5>1 DEF CacheInv, InHand
        <5> QED BY <2>3, <3>2, <5>1, <5>2
      <4>2. CASE r # p
        BY <2>1, <3>1, <3>2, <3>4, <4>2 DEF CacheInv, DirectoryThere, Became
      <4> QED BY <4>1, <4>2
    <3> QED BY <3>3, <3>4
  <2> QED BY <2>2, <2>3
<1> QED BY <1>3, <1>4, <1>5, <1>6, <1>7 DEF CacheInv

\* What follows an extraction or an error.
LEMMA After ==
  ASSUME NEW p \in Goer
  PROVE  /\ Cache!AfterExtract(p) \in {"resize", "idle"}
         /\ Cache!AfterExtract(p) = "resize" => p \in Worker
         /\ Cache!AfterError(p) \in {"answer", "idle"}
         /\ Cache!AfterError(p) = "answer" => p \in Worker
BY DEF Cache!AfterExtract, Cache!AfterError

\* extractWarm begins: the directory is there in part until it is whole.
LEMMA OpenStep ==
  ASSUME CacheInv, NEW p \in Goer, Cache!Open(p)
  PROVE  CacheInv'
<1>1. CacheTyped /\ Handy(p, proc[p]) /\ cacheSpoilt \subseteq Key /\ queue' \in Seq(PrimeType)
  BY InHandIs DEF CacheInv, CacheTyped, Cache!Open
<1>2. PICK k \in Key : k = proc[p].key
  BY <1>1 DEF CacheTyped, GoerType
<1>3. /\ proc[p].pc = "open" /\ proc[p].obj # 0 /\ 0 <= made
      /\ UNCHANGED <<entries, obj, made, queue, warm, cacheSpoilt>>
  BY <1>1, ObjectNumbers DEF Cache!Open, Handy, HasEntry
<1>4. CASE obj[proc[p].obj].state = "Hot"
  <2>1. Cache!Goto(p, Cache!AfterExtract(p)) /\ UNCHANGED hot
    BY <1>4 DEF Cache!Open
  <2>2. PICK q \in GoerType :
          /\ Became(p, q) /\ q.pc = Cache!AfterExtract(p)
          /\ q.pc = "idle" => q.obj = 0
          /\ q.pc # "idle" => q.key = proc[p].key /\ q.obj = proc[p].obj
    BY <1>1, <2>1, After, GoneTo
  <2>3. Handy(p, q)
    BY <1>1, <1>3, <1>4, <2>2, After DEF Handy, HasEntry
  <2>4. q.pc \notin {"write", "publish", "extract", "mark"}
    BY <2>2, After
  <2> QED BY <1>1, <1>3, <2>1, <2>2, <2>3, <2>4, ObjectsSame, GoesOn
<1>5. CASE obj[proc[p].obj].state # "Hot" /\ warm[k] = "none"
  <2>1. Cache!Goto(p, Cache!AfterError(p)) /\ hot' = [hot EXCEPT ![k] = "partial"]
    BY <1>2, <1>5 DEF Cache!Open
  <2>2. PICK q \in GoerType :
          /\ Became(p, q) /\ q.pc = Cache!AfterError(p)
          /\ q.pc = "idle" => q.obj = 0
          /\ q.pc # "idle" => q.key = proc[p].key /\ q.obj = proc[p].obj
    BY <1>1, <2>1, After, GoneTo
  <2>3. Handy(p, q) /\ q.pc \notin {"write", "publish"} /\ (q.obj # 0 => q.obj = proc[p].obj)
    BY <1>1, <1>3, <2>2, After DEF Handy, HasEntry
  <2>4. k \notin cacheSpoilt => entries[k] = 0
    BY <1>5 DEF CacheInv, ArchiveThere
  <2> QED BY <1>1, <1>2, <1>3, <2>1, <2>2, <2>3, <2>4, DirectoryKept
<1>6. CASE obj[proc[p].obj].state # "Hot" /\ warm[k] # "none"
  <2>1. /\ proc' = [proc EXCEPT ![p].pc = "extract", ![p].torn = (warm[k] = "partial")]
        /\ hot' = [hot EXCEPT ![k] = "partial"]
    BY <1>2, <1>6 DEF Cache!Open
  <2>2. PICK t \in BOOLEAN : t = (warm[k] = "partial")
    OBVIOUS
  <2>3. PICK q : q = [proc[p] EXCEPT !.pc = "extract", !.torn = t]
    OBVIOUS
  <2>4. /\ q \in GoerType /\ q.pc = "extract" /\ q.torn = t
        /\ q.key = k /\ q.obj = proc[p].obj
    BY <1>1, <1>2, <2>3 DEF CacheTyped, GoerType
  <2>5. proc' = [proc EXCEPT ![p] = q]
    BY <1>1, <2>1, <2>2, <2>3 DEF CacheTyped
  <2>6. Became(p, q)
    BY <1>1, <2>4, <2>5, WentOn
  <2>7. Handy(p, q)
    BY <1>1, <1>2, <1>3, <2>4 DEF Handy, HasEntry
  <2>8. ASSUME k \notin cacheSpoilt, entries[k] # 0
        PROVE  /\ Sure(k)'
               /\ \A r \in Goer : proc'[r].obj = entries[k] /\ proc'[r].pc = "extract" =>
                    proc'[r].torn = FALSE
    <3>1. warm[k] = "whole"
      BY <2>8 DEF CacheInv, ArchiveThere
    <3>2. q.torn = FALSE
      BY <2>2, <2>4, <3>1
    <3>3. WillBeWhole(k)'
      BY <2>4, <2>6, <3>2 DEF WillBeWhole, Became
    <3>4. hot'[k] = "partial"
      BY <1>1, <2>1 DEF CacheTyped
    <3>5. ASSUME NEW r \in Goer, proc'[r].obj = entries[k], proc'[r].pc = "extract"
          PROVE  proc'[r].torn = FALSE
      <4>1. CASE r = p
        BY <2>6, <3>2, <4>1 DEF Became
      <4>2. CASE r # p
        BY <2>6, <2>8, <3>5, <4>2 DEF CacheInv, DirectoryThere, Became
      <4> QED BY <4>1, <4>2
    <3> QED BY <3>3, <3>4, <3>5 DEF Sure
  <2> QED BY <1>1, <1>2, <1>3, <2>1, <2>4, <2>6, <2>7, <2>8, DirectoryKept
<1> QED BY <1>4, <1>5, <1>6

\* All files are written: from a whole archive that makes the directory whole, and
\* from another it leaves what a later extraction will make whole.
LEMMA ExtractStepKeeps ==
  ASSUME CacheInv, NEW p \in Goer, Cache!Extract(p)
  PROVE  CacheInv'
<1>1. CacheTyped /\ Handy(p, proc[p]) /\ cacheSpoilt \subseteq Key
  BY InHandIs DEF CacheInv, CacheTyped
<1>2. PICK k \in Key : k = proc[p].key
  BY <1>1 DEF CacheTyped, GoerType
<1>3. /\ proc[p].pc = "extract" /\ proc[p].obj # 0 /\ Cache!Goto(p, "mark")
      /\ UNCHANGED <<entries, obj, made, queue, warm, cacheSpoilt>>
  BY <1>1 DEF Cache!Extract, Handy, HasEntry
<1>4. PICK x \in {"none", "partial", "whole"} :
        /\ hot' = [hot EXCEPT ![k] = x]
        /\ x = IF hot[k] = "none" THEN "partial"
               ELSE IF proc[p].torn \/ warm[k] = "partial" THEN hot[k] ELSE "whole"
  <2>1. PICK x : x = IF hot[k] = "none" THEN "partial"
                     ELSE IF proc[p].torn \/ warm[k] = "partial" THEN hot[k] ELSE "whole"
    OBVIOUS
  <2>2. hot[k] \in {"none", "partial", "whole"}
    BY <1>1 DEF CacheTyped
  <2>3. x \in {"none", "partial", "whole"}
    BY <2>1, <2>2
  <2>4. hot' = [hot EXCEPT ![k] = x]
    BY <1>1, <1>2, <2>1 DEF Cache!Extract, CacheTyped
  <2> QED BY <2>1, <2>3, <2>4
<1>5. PICK q \in GoerType :
        /\ Became(p, q) /\ q.pc = "mark"
        /\ q.key = proc[p].key /\ q.obj = proc[p].obj /\ q.torn = proc[p].torn
  BY <1>1, <1>3, GoneTo
<1>6. Handy(p, q)
  BY <1>1, <1>3, <1>5 DEF Handy, HasEntry
<1>7. hot'[k] = x
  BY <1>1, <1>4 DEF CacheTyped
<1>8. ASSUME k \notin cacheSpoilt, entries[k] # 0
      PROVE  /\ obj[entries[k]].state = "Hot" => Sure(k)'
             /\ \A r \in Goer :
                  proc'[r].obj = entries[k] =>
                    /\ proc'[r].pc = "mark" => Sure(k)'
                    /\ proc'[r].pc = "extract" => x # "none" /\ proc'[r].torn = FALSE
  <2>1. warm[k] = "whole"
    BY <1>8 DEF CacheInv, ArchiveThere
  <2>2. hot[k] \in {"none", "partial", "whole"} /\ proc[p].torn \in BOOLEAN
    BY <1>1 DEF CacheTyped, GoerType
  <2>3. ASSUME hot[k] # "none", proc[p].torn = FALSE PROVE Sure(k)'
    BY <1>4, <1>7, <2>1, <2>3 DEF Sure
  <2>4. ASSUME Sure(k) PROVE Sure(k)'
    <3>1. CASE proc[p].torn = FALSE
      BY <2>3, <2>4, <3>1 DEF Sure
    <3>2. CASE proc[p].torn = TRUE
      <4>1. x = hot[k]
        BY <1>4, <2>4, <3>2 DEF Sure
      <4>2. WillBeWhole(k) => WillBeWhole(k)'
        BY <1>5, <3>2 DEF WillBeWhole, Became
      <4> QED BY <1>7, <2>4, <4>1, <4>2 DEF Sure
    <3> QED BY <2>2, <3>1, <3>2
  <2>5. x # "none"
    BY <1>4, <2>2
  <2>6. obj[entries[k]].state = "Hot" => Sure(k)'
    BY <1>8, <2>4 DEF CacheInv, DirectoryThere
  <2>7. ASSUME NEW r \in Goer, proc'[r].obj = entries[k]
        PROVE  /\ proc'[r].pc = "mark" => Sure(k)'
               /\ proc'[r].pc = "extract" => x # "none" /\ proc'[r].torn = FALSE
    <3>1. CASE r = p
      <4>1. proc[p].obj = entries[k]
        BY <1>5, <2>7, <3>1 DEF Became
      <4>2. hot[k] # "none" /\ proc[p].torn = FALSE
        BY <1>3, <1>8, <4>1 DEF CacheInv, DirectoryThere
      <4> QED BY <1>5, <2>3, <3>1, <4>2 DEF Became
    <3>2. CASE r # p
      <4>1. proc'[r] = proc[r]
        BY <1>5, <3>2 DEF Became
      <4> QED BY <1>8, <2>4, <2>5, <2>7, <4>1 DEF CacheInv, DirectoryThere
    <3> QED BY <3>1, <3>2
  <2> QED BY <2>6, <2>7
<1> QED BY <1>1, <1>2, <1>3, <1>4, <1>5, <1>6, <1>8, DirectoryKept

\* An extraction that fails leaves part of a directory; where somebody counts on
\* it the key is spoilt.
LEMMA FailStep ==
  ASSUME CacheInv, NEW p \in Goer, Cache!ExtractFails(p)
  PROVE  CacheInv'
<1>1. CacheTyped /\ Handy(p, proc[p]) /\ cacheSpoilt \subseteq Key
  BY InHandIs DEF CacheInv, CacheTyped
<1>2. PICK k \in Key : k = proc[p].key
  BY <1>1 DEF CacheTyped, GoerType
<1>3. /\ proc[p].pc = "extract" /\ proc[p].obj # 0 /\ 0 <= made
      /\ Cache!Goto(p, Cache!AfterError(p))
      /\ UNCHANGED <<entries, obj, made, queue, warm>>
      /\ hot' = [hot EXCEPT ![k] = "partial"]
      /\ cacheSpoilt' = IF Cache!GetState(k) = "Hot" \/ Cache!Extracting(k) # {p}
                     THEN cacheSpoilt \cup {k} ELSE cacheSpoilt
  BY <1>1, <1>2, ObjectNumbers DEF Cache!ExtractFails, Handy, HasEntry
<1>4. PICK q \in GoerType :
        /\ Became(p, q) /\ q.pc = Cache!AfterError(p)
        /\ q.pc = "idle" => q.obj = 0
        /\ q.pc # "idle" => q.key = proc[p].key /\ q.obj = proc[p].obj
  BY <1>1, <1>3, After, GoneTo
<1>5. /\ Handy(p, q) /\ q.pc \notin {"write", "publish", "extract", "mark"}
      /\ q.obj # 0 => q.obj = proc[p].obj
  BY <1>1, <1>3, <1>4, After DEF Handy, HasEntry
<1>6. cacheSpoilt \subseteq cacheSpoilt' /\ cacheSpoilt' \subseteq Key
  BY <1>1, <1>3
<1>7. ASSUME k \notin cacheSpoilt', entries[k] # 0
      PROVE  /\ obj[entries[k]].state # "Hot"
             /\ \A r \in Goer :
                  proc'[r].obj = entries[k] => proc'[r].pc \notin {"mark", "extract"}
  <2>1. Cache!GetState(k) # "Hot" /\ Cache!Extracting(k) = {p}
    BY <1>3, <1>7
  <2>2. obj[entries[k]].state # "Hot"
    BY <1>7, <2>1 DEF Cache!GetState
  <2>3. ASSUME NEW r \in Goer, proc'[r].obj = entries[k]
        PROVE  proc'[r].pc \notin {"mark", "extract"}
    <3>1. CASE r = p
      BY <1>4, <1>5, <3>1 DEF Became
    <3>2. CASE r # p
      <4>1. proc'[r] = proc[r]
        BY <1>4, <3>2 DEF Became
      <4>2. proc[r].key = k
        BY <1>7, <2>3, <4>1 DEF CacheInv, InHand, InHeap
      <4>3. r \notin Cache!Extracting(k)
        BY <2>1, <3>2
      <4> QED BY <4>1, <4>2, <4>3 DEF Cache!Extracting, Goer
    <3> QED BY <3>1, <3>2
  <2> QED BY <2>2, <2>3
<1> QED BY <1>1, <1>2, <1>3, <1>4, <1>5, <1>6, <1>7, DirectoryKept

\* An entry becomes hot, the one the map holds or an earlier one.
LEMMA MarkStep ==
  ASSUME CacheInv, NEW p \in Goer, Cache!Mark(p)
  PROVE  CacheInv'
<1>1. CacheTyped /\ Handy(p, proc[p]) /\ cacheSpoilt \subseteq Key
  BY InHandIs DEF CacheInv, CacheTyped
<1>2. /\ proc[p].pc = "mark" /\ Cache!Goto(p, Cache!AfterExtract(p)) /\ 0 <= made
      /\ UNCHANGED <<entries, made, queue, warm, hot, cacheSpoilt>>
  BY <1>1, ObjectNumbers DEF Cache!Mark
<1>3. PICK o \in Cache!Object : o = proc[p].obj
  BY <1>1, <1>2, ObjectNumbers DEF Handy, HasEntry
<1>4. o # 0
  BY <1>1, <1>2, <1>3 DEF Handy, HasEntry
<1>5. PICK n : n = [obj[o] EXCEPT !.state = "Hot"]
  OBVIOUS
<1>6. n \in ObjectType /\ n.key = obj[o].key /\ n.queued = obj[o].queued /\ n.state = "Hot"
  BY <1>1, <1>3, <1>5, ZenonT(30) DEF CacheTyped, ObjectType
<1>7. obj' = [obj EXCEPT ![o] = n]
  BY <1>1, <1>3, <1>5 DEF Cache!Mark, CacheTyped
<1>8. /\ obj' \in [Cache!Object -> ObjectType] /\ obj'[o] = n
      /\ \A u \in Cache!Object : u # o => obj'[u] = obj[u]
      /\ \A u \in Cache!Object : obj'[u].key = obj[u].key /\ obj'[u].queued = obj[u].queued
      /\ \A u \in Cache!Object : obj[u].state = "Hot" => obj'[u].state = "Hot"
  BY <1>1, <1>3, <1>6, <1>7 DEF CacheTyped
<1>9. PICK q \in GoerType :
        /\ Became(p, q) /\ q.pc = Cache!AfterExtract(p)
        /\ q.pc = "idle" => q.obj = 0
        /\ q.pc # "idle" => q.key = proc[p].key /\ q.obj = proc[p].obj
  BY <1>1, <1>2, After, GoneTo
<1>10. CacheTyped'
  BY <1>1, <1>2, <1>8, <1>9 DEF CacheTyped, Became
<1>11. InHand'
  <2>1. ASSUME NEW r \in Goer PROVE Handy(r, proc[r])'
    <3>1. CASE r = p
      <4>1. proc'[r] = q
        BY <1>9, <3>1 DEF Became
      <4> QED BY <1>1, <1>2, <1>3, <1>4, <1>6, <1>8, <1>9, <3>1, <4>1, After DEF Handy, HasEntry
    <3>2. CASE r # p
      <4>1. Handy(r, proc[r]) /\ proc'[r] = proc[r]
        BY <1>9, <3>2, InHandIs DEF CacheInv, Became
      <4>2. proc[r].obj # 0 => proc[r].obj \in Cache!Object
        BY <1>1, <4>1, ObjectNumbers DEF Handy
      <4> QED BY <1>2, <1>8, <4>1, <4>2 DEF Handy, HasEntry
    <3> QED BY <3>1, <3>2
  <2> QED BY <2>1 DEF InHand, Handy
<1>12. InHeap'
  BY <1>1, <1>2, <1>8, ObjectNumbers DEF CacheInv, InHeap
<1>13. AloneWriting' /\ ArchiveThere'
  <2>1. q.pc \notin {"write", "publish"}
    BY <1>9, After
  <2> QED BY <1>2, <1>9, <2>1 DEF CacheInv, AloneWriting, ArchiveThere, Became
<1>14. DirectoryThere'
  <2>1. SUFFICES ASSUME NEW k \in Key \ cacheSpoilt, entries[k] # 0
                 PROVE  /\ obj'[entries[k]].state = "Hot" => Sure(k)'
                        /\ \A r \in Goer :
                             proc'[r].obj = entries[k] =>
                               /\ proc'[r].pc = "mark" => Sure(k)'
                               /\ proc'[r].pc = "extract" =>
                                    hot[k] # "none" /\ proc'[r].torn = FALSE
    BY <1>2 DEF DirectoryThere
  <2>2. Sure(k) => Sure(k)'
    BY <1>2, <1>9 DEF Sure, WillBeWhole, Became
  <2>3. entries[k] \in Cache!Object
    BY <1>1, <2>1, ObjectNumbers
  <2>4. obj'[entries[k]].state = "Hot" => Sure(k)'
    <3>1. CASE entries[k] = o
      BY <1>2, <1>3, <2>1, <2>2, <3>1 DEF CacheInv, DirectoryThere
    <3>2. CASE entries[k] # o
      BY <1>8, <2>1, <2>2, <2>3, <3>2 DEF CacheInv, DirectoryThere
    <3> QED BY <3>1, <3>2
  <2>5. ASSUME NEW r \in Goer, proc'[r].obj = entries[k]
        PROVE  /\ proc'[r].pc = "mark" => Sure(k)'
               /\ proc'[r].pc = "extract" => hot[k] # "none" /\ proc'[r].torn = FALSE
    <3>1. CASE r = p
      BY <1>9, <3>1, After DEF Became
    <3>2. CASE r # p
      BY <1>9, <2>1, <2>2, <2>5, <3>2 DEF CacheInv, DirectoryThere, Became
    <3> QED BY <3>1, <3>2
  <2> QED BY <2>4, <2>5
<1> QED BY <1>10, <1>11, <1>12, <1>13, <1>14 DEF CacheInv

-----------------------------------------------------------------------------
(* The cache: restarts, and the theorem *)

\* All goroutines rest: nothing is written, extracted or in hand.
AllIdle == proc = [p \in Goer |-> Cache!Idle]

\* Goroutines at rest have nothing in hand.
LEMMA Resting ==
  ASSUME AllIdle
  PROVE  /\ proc \in [Goer -> GoerType]
         /\ \A p \in Goer : proc[p].pc = "idle" /\ proc[p].obj = 0
BY IdleGoer DEF AllIdle

\* The first state satisfies the inductive invariant of the cache.
LEMMA CacheBegins == ASSUME Cache!Init PROVE CacheInv
<1>1. AllIdle
  BY DEF Cache!Init, AllIdle, Goer
<1>2. /\ entries = [k \in Key |-> 0] /\ made = 0
      /\ obj = [o \in Cache!Object |-> Cache!NoObject] /\ cacheSpoilt = {}
  BY DEF Cache!Init
<1>3. /\ Cache!NoObject \in ObjectType /\ Cache!NoObject.queued = FALSE /\ MaxMade \in Nat
  BY ObjectsMade, CacheAssumption
<1>4. CacheTyped
  <2>1. queue \in Seq(PrimeType)
    BY DEF Cache!Init
  <2>2. /\ warm \in [Key -> {"none", "partial", "whole"}]
        /\ hot \in [Key -> {"none", "partial", "whole"}]
    BY DEF Cache!Init
  <2>3. made \in 0..MaxMade /\ entries \in [Key -> 0..made]
    BY <1>2, <1>3
  <2> QED BY <1>1, <1>2, <1>3, <2>1, <2>2, <2>3, Resting DEF CacheTyped
<1>5. InHand
  BY <1>1, <1>2, Resting DEF InHand, HasEntry
<1>6. InHeap
  <2>1. \A o \in Cache!Object : obj[o].queued = FALSE
    BY <1>2, <1>3
  <2> QED BY <1>2, <2>1 DEF InHeap
<1>7. AloneWriting
  BY <1>1, Resting DEF AloneWriting
<1>8. ArchiveThere /\ DirectoryThere
  BY <1>2 DEF ArchiveThere, DirectoryThere
<1> QED BY <1>4, <1>5, <1>6, <1>7, <1>8 DEF CacheInv

\* NewCache makes one entry for each archive, so the heap and the map agree; an
\* archive that is not whole spoils its key, and no entry is hot.
LEMMA RestartStep ==
  ASSUME CacheInv, Cache!Restart
  PROVE  CacheInv'
<1>0. PICK n : n = Cache!Cardinality(Cache!Archives)
  OBVIOUS
<1>n. n = Cardinality(Cache!Archives)
  BY <1>0 DEF Cache!Cardinality, Cardinality
<1>1. CacheTyped /\ MaxMade \in Nat /\ cacheSpoilt \subseteq Key
  BY CacheAssumption DEF CacheInv, CacheTyped
<1>2. /\ Cache!Archives \in SUBSET Key /\ IsFiniteSet(Cache!Archives) /\ n \in Nat
      /\ n <= MaxMade
  <2>1. Cache!Archives \in SUBSET Key
    BY DEF Cache!Archives
  <2>2. IsFiniteSet(Key) /\ Cardinality(Key) <= MaxMade
    BY CacheAssumption
  <2>3. IsFiniteSet(Cache!Archives) /\ n <= Cardinality(Key)
    BY <1>n, <2>1, <2>2, FS_Subset
  <2>4. n \in Nat /\ Cardinality(Key) \in Nat
    BY <1>n, <2>2, <2>3, FS_CardinalityType
  <2> QED BY <1>1, <2>1, <2>2, <2>3, <2>4
<1>3. PICK f \in [1..n -> Cache!Archives] :
        /\ \A k \in Cache!Archives : \E o \in DOMAIN f : f[o] = k
        /\ obj' = [o \in Cache!Object |->
                     IF o \in DOMAIN f THEN Cache!Entry(f[o], WarmSize) ELSE Cache!NoObject]
        /\ entries' = [k \in Key |->
                         IF k \in Cache!Archives
                           THEN CHOOSE o \in DOMAIN f : f[o] = k ELSE 0]
  BY <1>0, Zenon DEF Cache!Restart
<1>4. /\ made' = n /\ queue' = << >> /\ AllIdle'
      /\ cacheSpoilt' = cacheSpoilt \cup {k \in Key : warm[k] = "partial"}
      /\ UNCHANGED <<warm, hot>>
  BY <1>0 DEF Cache!Restart, AllIdle, Goer
<1>5. 1..n \subseteq Cache!Object /\ DOMAIN f = 1..n
  BY <1>1, <1>2, <1>3 DEF Cache!Object
<1>6. ASSUME NEW a \in 1..n, NEW b \in 1..n, f[a] = f[b] PROVE a = b
  <2>1. f \in Surjection(1..n, Cache!Archives)
    BY <1>3, <1>5 DEF Surjection
  <2>2. IsFiniteSet(1..n) /\ Cardinality(1..n) = n
    BY <1>2, FS_Interval
  <2>3. f \in Injection(1..n, Cache!Archives)
    BY <2>1, <2>2, <1>n, FS_SurjSameCardinalityImpliesInj
  <2> QED BY <1>6, <2>3 DEF Injection, IsInjective
<1>7. ASSUME NEW k \in Cache!Archives
      PROVE  entries'[k] \in 1..n /\ f[entries'[k]] = k
  <2>1. \E o \in DOMAIN f : f[o] = k
    BY <1>3
  <2>2. /\ (CHOOSE o \in DOMAIN f : f[o] = k) \in DOMAIN f
        /\ f[CHOOSE o \in DOMAIN f : f[o] = k] = k
    BY <2>1
  <2>3. entries'[k] = CHOOSE o \in DOMAIN f : f[o] = k
    BY <1>2, <1>3
  <2> QED BY <1>5, <2>2, <2>3
<1>8. \A k \in Key : entries'[k] # 0 => k \in Cache!Archives
  BY <1>3
<1>9. ASSUME NEW o \in 1..n
      PROVE  /\ obj'[o] \in ObjectType /\ obj'[o].key = f[o] /\ f[o] \in Cache!Archives
             /\ obj'[o].state = "Warm"
  <2>1. f[o] \in Cache!Archives /\ f[o] \in Key
    BY <1>2, <1>3
  <2>2. obj'[o] = Cache!Entry(f[o], WarmSize)
    BY <1>3, <1>5
  <2> QED BY <2>1, <2>2, ObjectsMade
<1>10. ASSUME NEW o \in Cache!Object, o \notin 1..n
       PROVE  obj'[o] \in ObjectType /\ obj'[o].queued = FALSE
  <2>1. obj'[o] = Cache!NoObject
    BY <1>3, <1>5, <1>10
  <2> QED BY <2>1, ObjectsMade
<1>11. /\ proc' \in [Goer -> GoerType]
       /\ \A p \in Goer : proc'[p].pc = "idle" /\ proc'[p].obj = 0
  BY <1>4, IdleGoer DEF AllIdle
<1>12. CacheTyped'
  <2>1. obj' \in [Cache!Object -> ObjectType]
    BY <1>3, <1>9, <1>10
  <2>2. entries' \in [Key -> 0..n]
    <3>1. entries' = [k \in Key |-> entries'[k]]
      BY <1>3
    <3>2. ASSUME NEW k \in Key PROVE entries'[k] \in 0..n
      <4>1. CASE k \in Cache!Archives
        BY <1>2, <1>7, <4>1
      <4>2. CASE k \notin Cache!Archives
        BY <1>2, <1>3, <4>2
      <4> QED BY <4>1, <4>2
    <3> QED BY <3>1, <3>2
  <2>3. n \in 0..MaxMade /\ << >> \in Seq(PrimeType)
    BY <1>1, <1>2
  <2>4. cacheSpoilt' \subseteq Key
    BY <1>1, <1>4
  <2>5. /\ warm' \in [Key -> {"none", "partial", "whole"}]
        /\ hot' \in [Key -> {"none", "partial", "whole"}]
    BY <1>1, <1>4 DEF CacheTyped
  <2> QED BY <1>4, <1>11, <2>1, <2>2, <2>3, <2>4, <2>5 DEF CacheTyped
<1>13. InHand'
  BY <1>2, <1>4, <1>11 DEF InHand, HasEntry
<1>14. InHeap'
  <2>1. ASSUME NEW k \in Key, entries'[k] # 0 PROVE obj'[entries'[k]].key = k
    BY <1>7, <1>8, <1>9, <2>1
  <2>2. ASSUME NEW o \in 1..n PROVE entries'[obj'[o].key] = o
    BY <1>6, <1>7, <1>9
  <2>3. ASSUME NEW o \in Cache!Object, o > n PROVE ~ obj'[o].queued
    <3>1. o \notin 1..n
      BY <1>2, <2>3 DEF Cache!Object
    <3> QED BY <1>10, <3>1
  <2> QED BY <1>4, <2>1, <2>2, <2>3 DEF InHeap
<1>15. AloneWriting'
  BY <1>11 DEF AloneWriting
<1>16. ASSUME NEW k \in Key \ cacheSpoilt', entries'[k] # 0
       PROVE  warm'[k] = "whole"
  <2>1. warm[k] # "none" /\ warm[k] # "partial"
    BY <1>4, <1>8, <1>16 DEF Cache!Archives
  <2> QED BY <1>1, <1>4, <2>1 DEF CacheTyped
<1>17. ArchiveThere'
  BY <1>16 DEF ArchiveThere
<1>18. DirectoryThere'
  <2>1. ASSUME NEW k \in Key, entries'[k] # 0 PROVE obj'[entries'[k]].state = "Warm"
    BY <1>7, <1>8, <1>9, <2>1
  <2> QED BY <1>11, <2>1 DEF DirectoryThere
<1> QED BY <1>12, <1>13, <1>14, <1>15, <1>17, <1>18 DEF CacheInv

\* Every step keeps the inductive invariant.
LEMMA CacheStep ==
  ASSUME CacheInv, [Cache!Next]_(Cache!vars)
  PROVE  CacheInv'
<1>1. ASSUME NEW w \in Worker, Cache!WorkerStep(w) PROVE CacheInv'
  BY <1>1, TakeStep, LeavingSteps, SpaceStep, ArchiveSteps, PublishStep DEF Cache!WorkerStep
<1>2. ASSUME NEW p \in Goer, Cache!ExtractStep(p) PROVE CacheInv'
  BY <1>2, OpenStep, ExtractStepKeeps, FailStep, MarkStep DEF Cache!ExtractStep
<1> QED BY <1>1, <1>2, RestartStep, RequestSteps, GetStep DEF Cache!Next, Goer

\* While nobody works on a key nobody extracts it, so what is sure is there.
LEMMA CacheTells == ASSUME CacheInv PROVE MapTrue
<1> SUFFICES ASSUME NEW k \in Key \ cacheSpoilt, entries[k] # 0,
                    \A p \in Worker \cup Reader :
                      proc[p].key = k => proc[p].pc \in {"idle", "ended"}
             PROVE  /\ warm[k] = "whole"
                    /\ obj[entries[k]].state = "Hot" => hot[k] = "whole"
  BY DEF MapTrue, Cache!MapTrue
<1>1. warm[k] = "whole"
  BY DEF CacheInv, ArchiveThere
<1>2. ~ WillBeWhole(k)
  BY DEF WillBeWhole, Goer
<1>3. obj[entries[k]].state = "Hot" => Sure(k)
  BY DEF CacheInv, DirectoryThere
<1> QED BY <1>1, <1>2, <1>3 DEF Sure

\* Whatever requests, evictions, extractions, failures of the disk and restarts
\* come in between, the inductive invariant of the cache holds.
THEOREM CacheInvariant == Cache!Spec => []CacheInv
<1>1. Cache!Init => CacheInv
  BY CacheBegins
<1>2. CacheInv /\ [Cache!Next]_(Cache!vars) => CacheInv'
  BY CacheStep
<1> QED BY <1>1, <1>2, PTL DEF Cache!Spec

\* For any number of keys, workers and readers: while nobody works on a key of
\* the cache, what the map says of it is what the disk holds, unless two
\* workers primed it at once, a restart found its archive half written, or an
\* extraction of it failed beside another.
THEOREM CacheTrue == Cache!Spec => []MapTrue
<1>1. CacheInv => MapTrue
  BY CacheTells
<1> QED BY <1>1, CacheInvariant, PTL

-----------------------------------------------------------------------------
(* Layers: the inductive invariant *)

\* What a project may ask for.
AskedName == UNION {Layer!Names(Layer!normalizePackages(Layer!ResolveFromDir(d))) : d \in Project}

\* An operation under the mutex that makes a layer, and one that collects.
MakeOp ==
  [kind : {"resolve", "build"},
   stage : {"install", "pip", "rename", "copy", "npm", "save"},
   id : Layer!Layer, base : Base \cup {None}, need : SUBSET AskedName]

CollectOp == [kind : {"gc"}, stage : {"gc", "save"}, left : SUBSET Layer!Layer,
              removed : BOOLEAN]

LayersTyped ==
  /\ mem \in [Proc -> Layer!Memory \cup {None}]
  /\ op \in [Proc -> {Layer!Idle} \cup MakeOp \cup CollectOp]
  /\ import \in [Proc -> Base \cup {None}]
  /\ stack \in [Proc -> Layer!Stack \cup {None}]
  /\ layerDir \in [Layer!Layer -> {"none", "part", "whole"}]
  /\ index \in Layer!Memory \cup {None}
  /\ layerSpoilt \subseteq Layer!Layer

\* The layer of a base is known as long as the base is.
HasBases(m) == \A b \in m.bases : Layer!BaseLayer(b) \in m.layers

\* Every name is that of a package of one of the layers.
Covers(need, ls) == \A n \in need : \E l \in ls : n \in Layer!Names(l.packages)

\* A layer that is being made is not known yet, and is whole when it is about to
\* be; together with the base it has what the script asked for, or it is the base's.
MakeOk(m, o, d, sp) ==
  /\ o.id \notin sp =>
       /\ o.id \notin m.layers
       /\ o.stage = "save" => d[o.id] = "whole"
  /\ o.kind = "resolve" =>
       /\ o.base # None => o.base \in m.bases
       /\ Covers(o.need, Layer!BaseLayers(o.base) \cup {o.id})
       /\ o.id.lang = "node" => \A l \in Layer!BaseLayers(o.base) : l.lang = "node"
  /\ o.kind = "build" => o.base \in Base /\ o.id = Layer!BaseLayer(o.base)

\* A collection takes neither the layer of a base nor one of the running stack.
CollectOk(m, o, s, sp) ==
  \A l \in o.left :
    /\ \A b \in m.bases : l # Layer!BaseLayer(b)
    /\ s # None /\ s.fresh => l \in sp \/ l \notin s.chosen

\* The running stack has the layers that were chosen for it; the store knows
\* them, and has a reason to keep them.
RunOk(m, s, sp) ==
  /\ Covers(s.need, s.chosen)
  /\ s.lang = "node" => \A l \in s.chosen : l.lang = "node"
  /\ s.fresh => \A l \in s.chosen :
       \/ l \in sp
       \/ /\ l \in s.layers /\ l \in m.layers
          /\ \/ l \in m.recent
             \/ l.lang = "node"
             \/ \E b \in m.bases : l = Layer!BaseLayer(b)

\* A layer that is being extracted is not known, nor made beside it.
ExtractOk(m, o, l, sp) ==
  l \notin sp => /\ l \notin m.layers
                 /\ o.kind \in {"resolve", "build"} => o.id # l

\* A process: its memory, operation, import and stack.
ProcOk(m, o, i, s, d, sp) ==
  /\ m = None => o = Layer!Idle /\ i = None /\ s = None
  /\ m # None => HasBases(m) /\ \A l \in m.layers : l \in sp \/ d[l] = "whole"
  /\ o.kind \in {"resolve", "build"} => MakeOk(m, o, d, sp)
  /\ o.kind = "gc" => CollectOk(m, o, s, sp)
  /\ s # None => RunOk(m, s, sp)
  /\ i # None => ExtractOk(m, o, Layer!BaseLayer(i), sp)

\* The index, beside the only process that has the store open, if one has: it
\* names what the process knows, but for what a collection has removed.
IndexOk(x, m, o, d, sp) ==
  x # None => \A l \in x.layers :
    \/ l \in sp
    \/ m = None /\ d[l] = "whole"
    \/ m # None /\ ((o.kind = "gc" /\ o.removed) \/ l \in m.layers)

\* No process but p has the store open.
Only(p) == \A r \in Proc : r # p => mem[r] = None

LayersInv ==
  /\ LayersTyped
  /\ layerSpoilt = Layer!Layer \/ \A p \in Proc : mem[p] # None => Only(p)
  /\ \A p \in Proc : ProcOk(mem[p], op[p], import[p], stack[p], layerDir, layerSpoilt)
  /\ index # None => HasBases(index)
  /\ \A p \in Proc : Only(p) => IndexOk(index, mem[p], op[p], layerDir, layerSpoilt)

-----------------------------------------------------------------------------
(* Layers: what is chosen for a project *)

\* normalizePackages drops no name.
LEMMA NormalNames ==
  ASSUME NEW ps
  PROVE  Layer!Names(Layer!normalizePackages(ps)) = Layer!Names(ps)
<1>1. ASSUME NEW p \in ps PROVE p.name \in Layer!Names(Layer!normalizePackages(ps))
  <2>1. CASE p.version # "" \/ \A q \in ps : q.name = p.name => q.version = ""
    BY <2>1 DEF Layer!Names, Layer!normalizePackages
  <2>2. CASE \E q \in ps : q.name = p.name /\ q.version # ""
    BY <2>2 DEF Layer!Names, Layer!normalizePackages
  <2> QED BY <2>1, <2>2
<1> QED BY <1>1 DEF Layer!Names, Layer!normalizePackages

\* findBestBase finds a base that the store has, or none.
LEMMA BestIsBase ==
  ASSUME NEW bs, NEW ps, NEW b \in Layer!BestOf(bs, ps)
  PROVE  b \in bs \cup {None}
BY DEF Layer!BestOf

\* What the base does not cover is in the layer of the delta.
LEMMA ChosenCovers ==
  ASSUME NEW ps, NEW lang, NEW b,
         NEW own, own = IF Layer!computeDelta(ps, b) = {} THEN {}
                        ELSE {Layer!computeLayerID(lang, Layer!computeDelta(ps, b))}
  PROVE  Covers(Layer!Names(ps), Layer!BaseLayers(b) \cup own)
<1> DEFINE delta == Layer!computeDelta(ps, b)
<1>1. SUFFICES ASSUME NEW p \in ps
               PROVE  \E l \in Layer!BaseLayers(b) \cup own :
                        p.name \in Layer!Names(l.packages)
  BY DEF Covers, Layer!Names
<1>2. CASE p \in delta
  <2>1. own = {Layer!computeLayerID(lang, delta)}
    BY <1>2
  <2>2. p.name \in Layer!Names(delta)
    BY <1>2 DEF Layer!Names
  <2>3. p.name \in Layer!Names(Layer!computeLayerID(lang, delta).packages)
    BY <2>2, NormalNames DEF Layer!computeLayerID
  <2> QED BY <2>1, <2>3
<1>3. CASE p \notin delta
  <2>1. b # None /\ p.name \in Layer!Names(Layer!Covered(b, ps))
    BY <1>3 DEF Layer!computeDelta
  <2>2. p.name \in Layer!Names(BaseDef[b].packages)
    BY <2>1 DEF Layer!Covered, Layer!Names
  <2>3. p.name \in Layer!Names(Layer!BaseLayer(b).packages)
    BY <2>2, NormalNames DEF Layer!BaseLayer, Layer!computeLayerID
  <2> QED BY <2>1, <2>3 DEF Layer!BaseLayers
<1> QED BY <1>2, <1>3

\* The layer of a base, and that of a delta of a project.
LEMMA LayerTypes ==
  /\ \A b \in Base : Layer!BaseLayer(b) \in Layer!Layer
  /\ \A b \in Base \cup {None} : Layer!BaseLayers(b) \subseteq Layer!Layer
  /\ \A d \in Project : \A b :
       Layer!computeLayerID(d.lang,
         Layer!computeDelta(Layer!normalizePackages(Layer!ResolveFromDir(d)), b)) \in Layer!Layer
  /\ \A l \in Layer!Layer : l.lang \in {"python", "node"}
<1>1. \A b \in Base : Layer!BaseLayer(b) \in Layer!Layer
  BY DEF Layer!Layer
<1>2. \A b \in Base \cup {None} : Layer!BaseLayers(b) \subseteq Layer!Layer
  BY <1>1 DEF Layer!BaseLayers
<1>3. ASSUME NEW d \in Project, NEW b
      PROVE  Layer!computeLayerID(d.lang,
               Layer!computeDelta(Layer!normalizePackages(Layer!ResolveFromDir(d)), b)) \in Layer!Layer
  <2> DEFINE ps == Layer!normalizePackages(Layer!ResolveFromDir(d))
             qs == Layer!normalizePackages(Layer!computeDelta(ps, b))
  <2>1. qs \subseteq ps
    BY DEF Layer!normalizePackages, Layer!computeDelta
  <2>2. qs \in UNION {SUBSET Layer!normalizePackages(Layer!ResolveFromDir(e)) : e \in Project}
    BY <2>1
  <2>3. [lang |-> d.lang, packages |-> qs] \in Layer!Layer
    <3> DEFINE S == UNION {SUBSET Layer!normalizePackages(Layer!ResolveFromDir(e)) : e \in Project}
    <3>1. PICK x \in S : x = qs
      BY <2>2
    <3> HIDE DEF S, qs
    <3>2. [lang |-> d.lang, packages |-> x]
            \in {[lang |-> f.lang, packages |-> y] : f \in Project, y \in S}
      OBVIOUS
    <3>3. {[lang |-> f.lang, packages |-> y] : f \in Project, y \in S} \subseteq Layer!Layer
      BY SMT DEF Layer!Layer, S
    <3> QED BY <3>1, <3>2, <3>3
  <2> QED BY <2>3 DEF Layer!computeLayerID
<1>4. \A l \in Layer!Layer : l.lang \in {"python", "node"}
  BY LayerAssumption DEF Layer!Layer, Layer!BaseLayer, Layer!computeLayerID
<1> QED BY <1>1, <1>2, <1>3, <1>4

-----------------------------------------------------------------------------
(* Layers: the steps *)

\* The other processes stand still.
OthersSame(p) ==
  \A r \in Proc : r # p =>
    /\ mem'[r] = mem[r] /\ op'[r] = op[r]
    /\ import'[r] = import[r] /\ stack'[r] = stack[r]

OpType == {Layer!Idle} \cup MakeOp \cup CollectOp

DirType == [Layer!Layer -> {"none", "part", "whole"}]

\* A process that is not up, or when every layer is spoilt, is as good whatever
\* happens to the directories.
LEMMA OtherOk ==
  ASSUME NEW m \in Layer!Memory \cup {None}, NEW o \in OpType,
         NEW i \in Base \cup {None}, NEW s \in Layer!Stack \cup {None},
         NEW d, NEW sp, NEW d2, NEW sp2,
         ProcOk(m, o, i, s, d, sp), sp2 = Layer!Layer \/ m = None
  PROVE  ProcOk(m, o, i, s, d2, sp2)
<1>1. CASE m = None
  BY <1>1 DEF ProcOk, Layer!Idle
<1>2. CASE m # None /\ sp2 = Layer!Layer
  <2>1. m \in Layer!Memory
    BY <1>2
  <2>2. m.layers \subseteq sp2 /\ HasBases(m)
    BY <1>2, <2>1 DEF ProcOk, Layer!Memory
  <2>3. ASSUME o.kind \in {"resolve", "build"} PROVE MakeOk(m, o, d2, sp2)
    <3>1. o \in MakeOp
      BY <2>3 DEF OpType, Layer!Idle, CollectOp
    <3>2. o.id \in sp2
      BY <3>1, <1>2 DEF MakeOp
    <3> QED BY <2>3, <3>2 DEF ProcOk, MakeOk
  <2>4. ASSUME o.kind = "gc" PROVE CollectOk(m, o, s, sp2)
    <3>1. o \in CollectOp
      BY <2>4 DEF OpType, Layer!Idle, MakeOp
    <3>2. o.left \subseteq sp2
      BY <3>1, <1>2 DEF CollectOp
    <3> QED BY <2>4, <3>2 DEF ProcOk, CollectOk
  <2>5. ASSUME s # None PROVE RunOk(m, s, sp2)
    <3>1. s.chosen \subseteq sp2
      BY <2>5, <1>2 DEF Layer!Stack
    <3> QED BY <2>5, <3>1 DEF ProcOk, RunOk
  <2>6. ASSUME i # None PROVE ExtractOk(m, o, Layer!BaseLayer(i), sp2)
    BY <1>2, <2>6, LayerTypes DEF ExtractOk
  <2> QED BY <1>2, <2>2, <2>3, <2>4, <2>5, <2>6 DEF ProcOk
<1> QED BY <1>1, <1>2

\* A step of one process: the others are not up, or every layer is spoilt.
LEMMA OneMoves ==
  ASSUME LayersInv, LayersTyped', NEW p \in Proc, OthersSame(p),
         layerSpoilt \subseteq layerSpoilt',
         mem[p] # None \/ Only(p) \/ layerSpoilt' = Layer!Layer,
         ProcOk(mem'[p], op'[p], import'[p], stack'[p], layerDir', layerSpoilt'),
         index' # None => HasBases(index'),
         Only(p) => IndexOk(index', mem'[p], op'[p], layerDir', layerSpoilt')
  PROVE  LayersInv'
<1>1. layerSpoilt' = Layer!Layer \/ Only(p)
  <2>1. layerSpoilt = Layer!Layer => layerSpoilt' = Layer!Layer
    BY DEF LayersTyped
  <2> QED BY <2>1 DEF LayersInv
<1>2. ASSUME NEW r \in Proc, r # p
      PROVE  ProcOk(mem'[r], op'[r], import'[r], stack'[r], layerDir', layerSpoilt')
  <2>1. /\ mem[r] \in Layer!Memory \cup {None} /\ op[r] \in OpType
        /\ import[r] \in Base \cup {None} /\ stack[r] \in Layer!Stack \cup {None}
    BY DEF LayersInv, LayersTyped, OpType
  <2>2. ProcOk(mem[r], op[r], import[r], stack[r], layerDir, layerSpoilt)
    BY DEF LayersInv
  <2>3. layerSpoilt' = Layer!Layer \/ mem[r] = None
    BY <1>1, <1>2 DEF Only
  <2>4. ProcOk(mem[r], op[r], import[r], stack[r], layerDir', layerSpoilt')
    BY <2>1, <2>2, <2>3, OtherOk
  <2> QED BY <1>2, <2>4 DEF OthersSame
<1>3. \A r \in Proc : ProcOk(mem'[r], op'[r], import'[r], stack'[r], layerDir', layerSpoilt')
  BY <1>2
<1>4. Only(p) => Only(p)'
  BY DEF Only, OthersSame
<1>5. CASE layerSpoilt' = Layer!Layer
  <2>1. ASSUME NEW r \in Proc
        PROVE  IndexOk(index', mem'[r], op'[r], layerDir', layerSpoilt')
    <3>1. index' # None => index'.layers \subseteq Layer!Layer
      BY DEF LayersTyped, Layer!Memory
    <3> QED BY <1>5, <3>1 DEF IndexOk
  <2> QED BY <1>3, <1>5, <2>1 DEF LayersInv
<1>6. CASE Only(p)
  <2>1. ASSUME NEW r \in Proc, Only(r)'
        PROVE  IndexOk(index', mem'[r], op'[r], layerDir', layerSpoilt')
    <3>1. CASE r = p
      BY <1>6, <3>1
    <3>2. CASE r # p
      <4>1. mem'[r] = None /\ mem'[p] = None
        BY <1>4, <1>6, <2>1, <3>2 DEF Only
      <4> QED BY <1>6, <4>1 DEF IndexOk
    <3> QED BY <3>1, <3>2
  <2>2. ASSUME NEW r \in Proc, mem'[r] # None PROVE Only(r)'
    <3>1. r = p
      BY <1>4, <1>6, <2>2 DEF Only
    <3> QED BY <1>4, <1>6, <3>1
  <2> QED BY <1>3, <2>1, <2>2 DEF LayersInv
<1> QED BY <1>1, <1>5, <1>6

\* What the invariant says of one process.
LEMMA OfProc ==
  ASSUME LayersInv, NEW p \in Proc
  PROVE  /\ mem[p] \in Layer!Memory \cup {None} /\ op[p] \in OpType
         /\ import[p] \in Base \cup {None} /\ stack[p] \in Layer!Stack \cup {None}
         /\ layerDir \in DirType
         /\ ProcOk(mem[p], op[p], import[p], stack[p], layerDir, layerSpoilt)
         /\ Only(p) => IndexOk(index, mem[p], op[p], layerDir, layerSpoilt)
BY DEF LayersInv, LayersTyped, OpType, DirType

\* An operation under the mutex, by its stage.
LEMMA OpKinds ==
  ASSUME LayersInv, NEW p \in Proc, op[p] # Layer!Idle
  PROVE  /\ mem[p] # None /\ mem[p] \in Layer!Memory
         /\ op[p].stage \in {"install", "pip", "rename", "copy", "npm"} => op[p] \in MakeOp
         /\ op[p].stage = "gc" => op[p] \in CollectOp
         /\ op[p].kind = "gc" => op[p] \in CollectOp
         /\ op[p].kind # "gc" => op[p] \in MakeOp
<1>1. op[p] \in MakeOp \/ op[p] \in CollectOp
  BY OfProc DEF OpType
<1>2. mem[p] # None /\ mem[p] \in Layer!Memory
  BY OfProc DEF ProcOk
<1> QED BY <1>1, <1>2 DEF MakeOp, CollectOp

\* While a layer is made only its own directory is touched: createLayer,
\* installPackages, the rename, copyDir, and their Node counterparts.
LEMMA MakingKeeps ==
  ASSUME LayersInv, NEW p \in Proc, op[p] \in MakeOp, mem[p] # None,
         UNCHANGED <<mem, import, stack, index, layerSpoilt>>,
         NEW o \in {Layer!Idle} \cup MakeOp, op' = [op EXCEPT ![p] = o],
         o # Layer!Idle =>
           /\ o.kind = op[p].kind /\ o.id = op[p].id /\ o.base = op[p].base
           /\ o.need = op[p].need
           /\ o.stage = "save" => o.id \in layerSpoilt \/ layerDir'[o.id] = "whole",
         layerDir' \in DirType,
         \A l \in Layer!Layer : l # op[p].id => layerDir'[l] = layerDir[l]
  PROVE  LayersInv'
<1> DEFINE m == mem[p]
<1>1. ProcOk(m, op[p], import[p], stack[p], layerDir, layerSpoilt)
  BY OfProc
<1>2. m \in Layer!Memory /\ m.layers \subseteq Layer!Layer
  BY OfProc DEF Layer!Memory
<1>3. op' \in [Proc -> OpType] /\ op'[p] = o
  BY DEF LayersInv, LayersTyped, OpType
<1>4. LayersTyped'
  BY <1>3 DEF LayersInv, LayersTyped, OpType, DirType
<1>5. OthersSame(p)
  BY DEF OthersSame, LayersInv, LayersTyped
<1>6. op[p].kind \in {"resolve", "build"} /\ op[p].id \in Layer!Layer
  BY DEF MakeOp
<1>7. MakeOk(m, op[p], layerDir, layerSpoilt)
  BY <1>1, <1>6 DEF ProcOk
<1>8. ProcOk(m, o, import[p], stack[p], layerDir', layerSpoilt)
  <2>1. ASSUME NEW l \in m.layers PROVE l \in layerSpoilt \/ layerDir'[l] = "whole"
    BY <1>1, <1>2, <1>7 DEF ProcOk, MakeOk
  <2>2. o.kind \in {"resolve", "build"} => MakeOk(m, o, layerDir', layerSpoilt)
    BY <1>7 DEF MakeOk, Layer!Idle
  <2>3. o.kind # "gc"
    BY DEF MakeOp, Layer!Idle
  <2>4. import[p] # None => ExtractOk(m, o, Layer!BaseLayer(import[p]), layerSpoilt)
    BY <1>1, <1>6 DEF ProcOk, ExtractOk, Layer!Idle
  <2> QED BY <1>1, <2>1, <2>2, <2>3, <2>4 DEF ProcOk
<1>9. Only(p) => IndexOk(index', mem'[p], op'[p], layerDir', layerSpoilt')
  <2>1. Only(p) => IndexOk(index, m, op[p], layerDir, layerSpoilt)
    BY OfProc
  <2> QED BY <1>6, <2>1 DEF IndexOk
<1>10. index' # None => HasBases(index')
  BY DEF LayersInv
<1> HIDE DEF m
<1>11. ProcOk(mem'[p], op'[p], import'[p], stack'[p], layerDir', layerSpoilt')
  BY <1>3, <1>8 DEF m
<1> QED BY <1>4, <1>5, <1>9, <1>10, <1>11, OneMoves

\* A process opens the store: it knows what the index names.
LEMMA NewStoreKeeps ==
  ASSUME LayersInv, NEW p \in Proc, Layer!NewStore(p)
  PROVE  LayersInv'
<1>1. mem[p] = None /\ op[p] = Layer!Idle /\ import[p] = None /\ stack[p] = None
  BY OfProc DEF Layer!NewStore, ProcOk
<1>2. PICK m : m = IF index = None THEN Layer!Empty ELSE index
  OBVIOUS
<1>3. m \in Layer!Memory /\ HasBases(m) /\ m # None
  <2>1. Layer!Empty \in Layer!Memory /\ HasBases(Layer!Empty)
    BY DEF Layer!Empty, Layer!Memory, HasBases
  <2> QED BY <1>2, <2>1, LayerAssumption DEF LayersInv, LayersTyped
<1>4. mem' = [mem EXCEPT ![p] = m] /\ UNCHANGED <<op, import, stack, layerDir, index>>
  BY <1>2 DEF Layer!NewStore
<1>5. /\ layerSpoilt' \subseteq Layer!Layer /\ layerSpoilt \subseteq layerSpoilt'
      /\ Only(p) \/ layerSpoilt' = Layer!Layer
  BY DEF Layer!NewStore, Layer!Spoil, Only, LayersInv, LayersTyped
<1>6. mem' \in [Proc -> Layer!Memory \cup {None}] /\ mem'[p] = m
  BY <1>3, <1>4 DEF LayersInv, LayersTyped
<1>7. LayersTyped'
  BY <1>4, <1>5, <1>6 DEF LayersInv, LayersTyped
<1>8. OthersSame(p)
  BY <1>4 DEF OthersSame, LayersInv, LayersTyped
<1>9. ASSUME NEW l \in m.layers PROVE l \in layerSpoilt' \/ layerDir[l] = "whole"
  <2>1. l \in Layer!Layer
    BY <1>3 DEF Layer!Memory
  <2>2. CASE layerSpoilt' = Layer!Layer
    BY <2>1, <2>2
  <2>3. CASE Only(p)
    <3>1. IndexOk(index, None, op[p], layerDir, layerSpoilt)
      BY <1>1, <2>3, OfProc
    <3>2. index # None /\ m = index
      BY <1>2, <1>9 DEF Layer!Empty
    <3> QED BY <1>5, <1>9, <3>1, <3>2 DEF IndexOk
  <2> QED BY <1>5, <2>2, <2>3
<1>10. ProcOk(m, Layer!Idle, None, None, layerDir, layerSpoilt')
  BY <1>3, <1>9 DEF ProcOk, Layer!Idle
<1>11. ProcOk(mem'[p], op'[p], import'[p], stack'[p], layerDir', layerSpoilt')
  BY <1>1, <1>4, <1>6, <1>10
<1>12. index' # None => HasBases(index')
  BY <1>4 DEF LayersInv
<1>13. IndexOk(index', mem'[p], op'[p], layerDir', layerSpoilt')
  BY <1>2, <1>3, <1>4, <1>6 DEF IndexOk
<1> QED BY <1>5, <1>7, <1>8, <1>11, <1>12, <1>13, OneMoves

\* The stack is composed of layers that the store knows and keeps.
LEMMA ComposeOk ==
  ASSUME NEW m \in Layer!Memory, NEW lang \in {"python", "node"}, NEW need \in SUBSET AskedName,
         NEW ls \in SUBSET Layer!Layer, Covers(need, ls), ls \subseteq m.layers,
         lang = "node" => \A l \in ls : l.lang = "node",
         \A l \in ls : l \in layerSpoilt \/ layerDir[l] = "whole",
         \A l \in ls : \/ l \in m.recent
                       \/ l.lang = "node"
                       \/ \E b \in m.bases : l = Layer!BaseLayer(b)
  PROVE  /\ Layer!Compose(lang, m, need, ls) \in Layer!Stack
         /\ RunOk(m, Layer!Compose(lang, m, need, ls), layerSpoilt)
<1> DEFINE s == Layer!Compose(lang, m, need, ls)
<1>1. s \in Layer!Stack
  BY DEF Layer!Compose, Layer!composeStack, Layer!composeNodeStack, Layer!Stack, AskedName
<1>2. s.need = need /\ s.chosen = ls /\ s.lang = lang
  BY DEF Layer!Compose, Layer!composeStack, Layer!composeNodeStack
<1>3. \A l \in ls : l \in layerSpoilt \/ l \in s.layers
  BY DEF Layer!Compose, Layer!composeStack, Layer!composeNodeStack
<1> HIDE DEF s
<1>4. RunOk(m, s, layerSpoilt)
  BY <1>2, <1>3 DEF RunOk
<1> QED BY <1>1, <1>4 DEF s

\* A resolution: the stack is there, or the delta's layer has to be made.
LEMMA ResolveKeeps ==
  ASSUME LayersInv, NEW p \in Proc, NEW d \in Project, NEW ps,
         ps = Layer!normalizePackages(Layer!ResolveFromDir(d)),
         Layer!Free(p), NEW b \in mem[p].bases \cup {None},
         d.lang = "node" => \A l \in Layer!BaseLayers(b) : l.lang = "node",
         Layer!ResolveWith(p, d.lang, ps, b)
  PROVE  LayersInv'
<1> DEFINE m == mem[p]
           delta == Layer!computeDelta(ps, b)
<1>1. PICK own : own = IF delta = {} THEN {} ELSE {Layer!computeLayerID(d.lang, delta)}
  OBVIOUS
<1>2. /\ stack[p] = None /\ UNCHANGED <<import, layerDir, index>>
      /\ Layer!Hit(p, d.lang, ps, b, own) \/ Layer!Miss(p, ps, b, own)
  BY <1>1 DEF Layer!ResolveWith
<1>3. m # None /\ m \in Layer!Memory /\ op[p] = Layer!Idle
  BY OfProc DEF Layer!Free
<1>4. /\ ProcOk(m, Layer!Idle, import[p], None, layerDir, layerSpoilt)
      /\ Only(p) => IndexOk(index, m, Layer!Idle, layerDir, layerSpoilt)
  BY <1>2, <1>3, OfProc
<1>5. b \in Base \cup {None} /\ Layer!BaseLayers(b) \subseteq m.layers
  <2>1. b \in Base \cup {None}
    BY <1>3 DEF Layer!Memory
  <2> QED BY <1>3, <1>4, <2>1 DEF ProcOk, HasBases, Layer!BaseLayers
<1>6. own \subseteq Layer!Layer
  BY <1>1, LayerTypes
<1>7. Covers(Layer!Names(ps), Layer!BaseLayers(b) \cup own)
  BY <1>1, ChosenCovers
<1>8. Layer!Names(ps) \in SUBSET AskedName
  BY DEF AskedName
<1>14. d.lang \in {"python", "node"} /\ \A l \in own : l.lang = d.lang
  BY <1>1, LayerAssumption DEF Layer!computeLayerID
<1>9. index' # None => HasBases(index')
  BY <1>2 DEF LayersInv
<1>10. CASE Layer!Hit(p, d.lang, ps, b, own)
  <2> DEFINE ls == Layer!BaseLayers(b) \cup own
  <2>1. PICK m2 : m2 = [m EXCEPT !.recent = @ \cup {l \in own : l.lang # "node"}]
    OBVIOUS
  <2>2. PICK s : s = Layer!Compose(d.lang, m, Layer!Names(ps), ls)
    OBVIOUS
  <2>3. /\ own \subseteq m.layers /\ mem' = [mem EXCEPT ![p] = m2]
        /\ stack' = [stack EXCEPT ![p] = s] /\ op' = op /\ layerSpoilt' = layerSpoilt
    <3>1. mem \in [Proc -> Layer!Memory \cup {None}]
      BY DEF LayersInv, LayersTyped
    <3> QED BY <1>10, <2>1, <2>2, <3>1 DEF Layer!Hit
  <2>4. /\ m2 \in Layer!Memory /\ m2.layers = m.layers /\ m2.bases = m.bases
        /\ m2.recent = m.recent \cup {l \in own : l.lang # "node"}
    BY <1>3, <1>6, <2>1 DEF Layer!Memory
  <2>5. s = Layer!Compose(d.lang, m2, Layer!Names(ps), ls)
    BY <2>2, <2>4 DEF Layer!Compose, Layer!composeStack, Layer!composeNodeStack
  <2>6. /\ ls \in SUBSET Layer!Layer /\ ls \subseteq m2.layers
        /\ \A l \in ls : l \in layerSpoilt \/ layerDir[l] = "whole"
    BY <1>3, <1>4, <1>5, <1>6, <2>3, <2>4, LayerTypes DEF ProcOk
  <2>7. \A l \in ls : \/ l \in m2.recent
                      \/ l.lang = "node"
                      \/ \E c \in m2.bases : l = Layer!BaseLayer(c)
    BY <2>4 DEF Layer!BaseLayers
  <2>8. s \in Layer!Stack /\ RunOk(m2, s, layerSpoilt)
    <3>1. d.lang = "node" => \A l \in ls : l.lang = "node"
      BY <1>14
    <3> HIDE DEF ls
    <3> QED BY <1>7, <1>8, <1>14, <2>4, <2>5, <2>6, <2>7, <3>1, ComposeOk DEF ls
  <2>9. m2 # None
    BY <2>4, LayerAssumption
  <2>10. /\ mem' \in [Proc -> Layer!Memory \cup {None}] /\ mem'[p] = m2
         /\ stack' \in [Proc -> Layer!Stack \cup {None}] /\ stack'[p] = s
    BY <2>3, <2>4, <2>8 DEF LayersInv, LayersTyped
  <2>11. LayersTyped' /\ OthersSame(p)
    BY <1>2, <2>3, <2>10 DEF LayersInv, LayersTyped, OthersSame
  <2>12. ProcOk(m2, Layer!Idle, import[p], s, layerDir, layerSpoilt)
    BY <1>3, <1>4, <2>4, <2>8, <2>9 DEF ProcOk, HasBases, ExtractOk, Layer!Idle
  <2>13. Only(p) => IndexOk(index, m2, Layer!Idle, layerDir, layerSpoilt)
    BY <1>3, <1>4, <2>4, <2>9 DEF IndexOk
  <2>14. /\ ProcOk(mem'[p], op'[p], import'[p], stack'[p], layerDir', layerSpoilt')
         /\ Only(p) => IndexOk(index', mem'[p], op'[p], layerDir', layerSpoilt')
    BY <1>2, <1>3, <2>3, <2>10, <2>12, <2>13
  <2> QED BY <1>2, <1>3, <1>9, <2>3, <2>11, <2>14, OneMoves
<1>11. CASE Layer!Miss(p, ps, b, own)
  <2>1. PICK id \in own \ m.layers :
          op' = [op EXCEPT ![p] = [kind |-> "resolve", stage |-> "install", id |-> id,
                                   base |-> b, need |-> Layer!Names(ps)]]
    BY <1>11 DEF Layer!Miss
  <2>2. /\ mem' = mem /\ stack' = stack
        /\ layerSpoilt' = layerSpoilt \cup (own \cap Layer!Extracted(Proc))
    BY <1>11 DEF Layer!Miss, Layer!Spoil
  <2>3. PICK o : o = [kind |-> "resolve", stage |-> "install", id |-> id,
                      base |-> b, need |-> Layer!Names(ps)]
    OBVIOUS
  <2>4. o \in MakeOp
    BY <1>5, <1>6, <1>8, <2>1, <2>3 DEF MakeOp
  <2>5. own = {id}
    BY <1>1, <2>1
  <2>12. layerSpoilt \subseteq layerSpoilt' /\ layerSpoilt' \subseteq Layer!Layer
    BY <1>6, <2>2 DEF LayersInv, LayersTyped
  <2>6. MakeOk(m, o, layerDir, layerSpoilt')
    BY <1>7, <1>14, <2>1, <2>3, <2>5 DEF MakeOk
  <2>7. op' \in [Proc -> OpType] /\ op'[p] = o
    BY <2>1, <2>3, <2>4 DEF LayersInv, LayersTyped, OpType
  <2>8. LayersTyped' /\ OthersSame(p)
    BY <1>2, <2>1, <2>2, <2>7, <2>12 DEF LayersInv, LayersTyped, OthersSame, OpType
  <2>13. import[p] # None => ExtractOk(m, o, Layer!BaseLayer(import[p]), layerSpoilt')
    <3>1. import[p] # None => Layer!BaseLayer(import[p]) \in Layer!Extracted(Proc)
      BY DEF Layer!Extracted
    <3>2. import[p] # None => ExtractOk(m, Layer!Idle, Layer!BaseLayer(import[p]), layerSpoilt)
      BY <1>4 DEF ProcOk
    <3> QED BY <2>2, <2>3, <2>5, <2>12, <3>1, <3>2 DEF ExtractOk
  <2>9. ProcOk(m, o, import[p], None, layerDir, layerSpoilt')
    BY <1>3, <1>4, <2>3, <2>6, <2>12, <2>13 DEF ProcOk
  <2>10. Only(p) => IndexOk(index, m, o, layerDir, layerSpoilt')
    BY <1>3, <1>4, <2>12 DEF IndexOk, Layer!Idle
  <2>11. /\ ProcOk(mem'[p], op'[p], import'[p], stack'[p], layerDir', layerSpoilt')
         /\ Only(p) => IndexOk(index', mem'[p], op'[p], layerDir', layerSpoilt')
    BY <1>2, <2>2, <2>7, <2>9, <2>10
  <2> QED BY <1>2, <1>3, <1>9, <2>8, <2>11, <2>12, OneMoves
<1> QED BY <1>2, <1>10, <1>11

\* The build of a base, whose layer is spoilt if the store knew it.
LEMMA BuildKeeps ==
  ASSUME LayersInv, NEW p \in Proc, NEW b \in Base, Layer!Build(p, b)
  PROVE  LayersInv'
<1> DEFINE m == mem[p]
<1>1. m # None /\ m \in Layer!Memory /\ op[p] = Layer!Idle
  BY OfProc DEF Layer!Build, Layer!Free
<1>2. /\ ProcOk(m, Layer!Idle, import[p], stack[p], layerDir, layerSpoilt)
      /\ Only(p) => IndexOk(index, m, Layer!Idle, layerDir, layerSpoilt)
  BY <1>1, OfProc
<1>3. PICK o : o = [kind |-> "build", stage |-> "install", id |-> Layer!BaseLayer(b),
                    base |-> b, need |-> {}]
  OBVIOUS
<1>4. /\ op' = [op EXCEPT ![p] = o] /\ UNCHANGED <<mem, import, stack, layerDir, index>>
      /\ layerSpoilt' = layerSpoilt \cup
           ({Layer!BaseLayer(b)} \cap (m.layers \cup Layer!Extracted(Proc)))
  BY <1>3 DEF Layer!Build, Layer!Spoil
<1>5. o \in MakeOp /\ Layer!BaseLayer(b) \in Layer!Layer
  BY <1>3, LayerTypes DEF MakeOp
<1>6. layerSpoilt' \subseteq Layer!Layer /\ layerSpoilt \subseteq layerSpoilt'
  BY <1>4, <1>5 DEF LayersInv, LayersTyped
<1>7. op' \in [Proc -> OpType] /\ op'[p] = o
  BY <1>4, <1>5 DEF LayersInv, LayersTyped, OpType
<1>8. LayersTyped' /\ OthersSame(p)
  BY <1>4, <1>6, <1>7 DEF LayersInv, LayersTyped, OthersSame, OpType
<1>9. MakeOk(m, o, layerDir, layerSpoilt')
  BY <1>3, <1>4 DEF MakeOk
<1>10. ProcOk(m, o, import[p], stack[p], layerDir, layerSpoilt')
  <2>1. stack[p] # None => RunOk(m, stack[p], layerSpoilt')
    BY <1>2, <1>6 DEF ProcOk, RunOk
  <2>2. import[p] # None => ExtractOk(m, o, Layer!BaseLayer(import[p]), layerSpoilt')
    <3>1. import[p] # None => Layer!BaseLayer(import[p]) \in Layer!Extracted(Proc)
      BY DEF Layer!Extracted
    <3>2. import[p] # None => ExtractOk(m, Layer!Idle, Layer!BaseLayer(import[p]), layerSpoilt)
      BY <1>2 DEF ProcOk
    <3> QED BY <1>3, <1>4, <1>6, <3>1, <3>2 DEF ExtractOk
  <2> QED BY <1>1, <1>2, <1>3, <1>6, <1>9, <2>1, <2>2 DEF ProcOk
<1>11. Only(p) => IndexOk(index, m, o, layerDir, layerSpoilt')
  BY <1>1, <1>2, <1>6 DEF IndexOk, Layer!Idle
<1>12. /\ ProcOk(mem'[p], op'[p], import'[p], stack'[p], layerDir', layerSpoilt')
       /\ Only(p) => IndexOk(index', mem'[p], op'[p], layerDir', layerSpoilt')
  BY <1>4, <1>7, <1>10, <1>11
<1>13. index' # None => HasBases(index')
  BY <1>4 DEF LayersInv
<1> QED BY <1>1, <1>6, <1>8, <1>12, <1>13, OneMoves

\* An import begins: the base's layer is spoilt if it was whole.
LEMMA ImportKeeps ==
  ASSUME LayersInv, NEW p \in Proc, NEW b \in Base, Layer!ImportBase(p, b)
  PROVE  LayersInv'
<1> DEFINE m == mem[p]
<1>1. m # None /\ m \in Layer!Memory
  BY OfProc DEF Layer!ImportBase
<1>2. /\ ProcOk(m, op[p], import[p], stack[p], layerDir, layerSpoilt)
      /\ Only(p) => IndexOk(index, m, op[p], layerDir, layerSpoilt)
      /\ layerDir \in DirType
  BY OfProc
<1>3. PICK B \in Layer!Layer : B = Layer!BaseLayer(b)
  BY LayerTypes
<1>4. /\ import' = [import EXCEPT ![p] = b] /\ UNCHANGED <<mem, op, stack, index>>
      /\ layerDir' = [layerDir EXCEPT ![B] = "part"]
      /\ layerSpoilt' = layerSpoilt \cup 
           {l \in {B} : layerDir[l] = "whole" \/ l \in Layer!Made}
  BY <1>3 DEF Layer!ImportBase, Layer!Spoil
<1>5. layerSpoilt' \subseteq Layer!Layer /\ layerSpoilt \subseteq layerSpoilt'
  BY <1>4 DEF LayersInv, LayersTyped
<1>6. /\ layerDir' \in DirType
      /\ \A l \in Layer!Layer : l \in layerSpoilt' \/ layerDir[l] # "whole" \/ layerDir'[l] = "whole"
  BY <1>2, <1>4 DEF DirType
<1>7. import' \in [Proc -> Base \cup {None}] /\ import'[p] = b
  BY <1>4 DEF LayersInv, LayersTyped
<1>8. LayersTyped' /\ OthersSame(p)
  BY <1>4, <1>5, <1>6, <1>7 DEF LayersInv, LayersTyped, OthersSame, DirType
<1>9. ProcOk(m, op[p], b, stack[p], layerDir', layerSpoilt')
  <2>1. \A l \in m.layers : l \in layerSpoilt' \/ layerDir'[l] = "whole"
    BY <1>1, <1>2, <1>5, <1>6 DEF ProcOk, Layer!Memory
  <2>2. ASSUME op[p].kind \in {"resolve", "build"} PROVE MakeOk(m, op[p], layerDir', layerSpoilt')
    <3>1. op[p].id \in Layer!Layer
      BY <2>2, OpKinds DEF Layer!Idle, MakeOp
    <3> QED BY <1>2, <1>5, <1>6, <2>2, <3>1 DEF ProcOk, MakeOk
  <2>3. op[p].kind = "gc" => CollectOk(m, op[p], stack[p], layerSpoilt')
    BY <1>2, <1>5 DEF ProcOk, CollectOk
  <2>4. stack[p] # None => RunOk(m, stack[p], layerSpoilt')
    BY <1>2, <1>5 DEF ProcOk, RunOk
  <2>5. ExtractOk(m, op[p], B, layerSpoilt')
    <3>1. op[p].kind \in {"resolve", "build"} => op[p].id \in Layer!Made
      BY DEF Layer!Made
    <3>2. B \in m.layers => B \in layerSpoilt'
      BY <1>1, <1>2, <1>4, <1>5 DEF ProcOk
    <3> QED BY <1>4, <3>1, <3>2 DEF ExtractOk
  <2> QED BY <1>1, <1>2, <1>3, <2>1, <2>2, <2>3, <2>4, <2>5 DEF ProcOk
<1>10. Only(p) => IndexOk(index, m, op[p], layerDir', layerSpoilt')
  BY <1>1, <1>2, <1>5 DEF IndexOk
<1>11. /\ ProcOk(mem'[p], op'[p], import'[p], stack'[p], layerDir', layerSpoilt')
       /\ Only(p) => IndexOk(index', mem'[p], op'[p], layerDir', layerSpoilt')
  BY <1>4, <1>7, <1>9, <1>10
<1>12. index' # None => HasBases(index')
  BY <1>4 DEF LayersInv
<1> QED BY <1>1, <1>5, <1>8, <1>11, <1>12, OneMoves

\* A stack stays good when the store comes to know more.
LEMMA RunGrows ==
  ASSUME NEW m, NEW m2, NEW s, NEW sp, RunOk(m, s, sp),
         m.layers \subseteq m2.layers, m.recent \subseteq m2.recent,
         m.bases \subseteq m2.bases
  PROVE  RunOk(m2, s, sp)
BY DEF RunOk

\* The base of an import becomes known, and its layer is whole.
LEMMA ImportedKeeps ==
  ASSUME LayersInv, NEW p \in Proc, Layer!Imported(p)
  PROVE  LayersInv'
<1>1. PICK b \in Base : b = import[p]
  BY OfProc DEF Layer!Imported
<1>2. mem[p] # None /\ mem[p] \in Layer!Memory /\ op[p] = Layer!Idle
  BY OfProc DEF Layer!Imported, Layer!Free
<1>3. PICK B \in Layer!Layer : B = Layer!BaseLayer(b)
  BY LayerTypes
<1>4. PICK m : m = [mem[p] EXCEPT !.layers = @ \cup {B}, !.recent = @ \ {B},
                                !.bases = @ \cup {b}]
  OBVIOUS
<1>5. /\ m \in Layer!Memory /\ m.layers = mem[p].layers \cup {B}
      /\ m.bases = mem[p].bases \cup {b} /\ m.recent = mem[p].recent \ {B}
  BY <1>2, <1>4 DEF Layer!Memory
<1>6. m # None
  BY <1>5, LayerAssumption
<1>16. PICK x : x = Layer!Filled(B, Proc \ {p})
  OBVIOUS
<1>17. x \in {"part", "whole"} /\ (B \in layerSpoilt \/ x = "whole")
  <2>1. x \in {"part", "whole"}
    BY <1>16 DEF Layer!Filled
  <2>2. CASE layerSpoilt = Layer!Layer
    BY <2>1, <2>2
  <2>3. CASE Only(p)
    <3>1. \A r \in Proc \ {p} : import[r] = None
      BY <2>3, OfProc DEF Only, ProcOk
    <3> QED BY <1>16, <3>1 DEF Layer!Filled, Layer!Extracted
  <2> QED BY <1>2, <2>2, <2>3 DEF LayersInv
<1>7. /\ mem' = [mem EXCEPT ![p] = m] /\ index' = m
      /\ layerDir' = [layerDir EXCEPT ![B] = x]
      /\ import' = [import EXCEPT ![p] = None] /\ UNCHANGED <<op, stack, layerSpoilt>>
  BY <1>1, <1>3, <1>4, <1>16 DEF Layer!Imported
<1>8. ProcOk(mem[p], Layer!Idle, import[p], stack[p], layerDir, layerSpoilt)
  BY <1>2, OfProc
<1>9. /\ layerDir' \in DirType
      /\ \A l \in Layer!Layer : l # B => layerDir'[l] = layerDir[l]
      /\ B \in layerSpoilt \/ layerDir'[B] = "whole"
  BY <1>7, <1>17, OfProc DEF DirType
<1>10. /\ mem' \in [Proc -> Layer!Memory \cup {None}] /\ mem'[p] = m
       /\ import' \in [Proc -> Base \cup {None}] /\ import'[p] = None
  BY <1>5, <1>7 DEF LayersInv, LayersTyped
<1>11. LayersTyped' /\ OthersSame(p)
  BY <1>5, <1>7, <1>9, <1>10 DEF LayersInv, LayersTyped, OthersSame, DirType
<1>12. HasBases(m)
  BY <1>2, <1>3, <1>5, <1>8 DEF ProcOk, HasBases
<1>13. ProcOk(m, Layer!Idle, None, stack[p], layerDir', layerSpoilt)
  <2>1. \A l \in m.layers : l \in layerSpoilt \/ layerDir'[l] = "whole"
    BY <1>2, <1>5, <1>8, <1>9 DEF ProcOk, Layer!Memory
  <2>2. stack[p] # None => RunOk(m, stack[p], layerSpoilt)
    BY <1>3, <1>5, <1>8 DEF ProcOk, RunOk
  <2> QED BY <1>6, <1>12, <2>1, <2>2 DEF ProcOk, Layer!Idle
<1>14. IndexOk(m, m, Layer!Idle, layerDir', layerSpoilt)
  BY <1>6 DEF IndexOk
<1>15. /\ ProcOk(mem'[p], op'[p], import'[p], stack'[p], layerDir', layerSpoilt')
       /\ IndexOk(index', mem'[p], op'[p], layerDir', layerSpoilt')
  BY <1>2, <1>7, <1>10, <1>13, <1>14
<1> QED BY <1>2, <1>7, <1>11, <1>12, <1>15, OneMoves

\* An import that fails leaves a directory that nobody knows, or that is spoilt.
LEMMA FailedKeeps ==
  ASSUME LayersInv, NEW p \in Proc, Layer!ImportFails(p)
  PROVE  LayersInv'
<1> DEFINE m == mem[p]
<1>1. PICK b \in Base : b = import[p] /\ b # None
  BY OfProc DEF Layer!ImportFails
<1>2. /\ ProcOk(m, op[p], b, stack[p], layerDir, layerSpoilt)
      /\ Only(p) => IndexOk(index, m, op[p], layerDir, layerSpoilt)
      /\ layerDir \in DirType
  BY <1>1, OfProc
<1>3. m # None /\ m \in Layer!Memory
  BY <1>1, <1>2, OfProc DEF ProcOk
<1>4. PICK B \in Layer!Layer : B = Layer!BaseLayer(b)
  BY LayerTypes
<1>5. ExtractOk(m, op[p], B, layerSpoilt)
  BY <1>1, <1>2, <1>4 DEF ProcOk
<1>6. /\ import' = [import EXCEPT ![p] = None]
      /\ UNCHANGED <<mem, op, stack, index, layerSpoilt>>
      /\ layerDir' = [layerDir EXCEPT ![B] = "part"]
  BY <1>1, <1>4 DEF Layer!ImportFails
<1>7. /\ layerDir' \in DirType
      /\ \A l \in Layer!Layer : l # B => layerDir'[l] = layerDir[l]
      /\ import' \in [Proc -> Base \cup {None}] /\ import'[p] = None
  BY <1>2, <1>6 DEF DirType, LayersInv, LayersTyped
<1>8. LayersTyped' /\ OthersSame(p)
  BY <1>6, <1>7 DEF LayersInv, LayersTyped, OthersSame, DirType
<1>9. ProcOk(m, op[p], None, stack[p], layerDir', layerSpoilt)
  <2>1. \A l \in m.layers : l \in layerSpoilt \/ layerDir'[l] = "whole"
    BY <1>2, <1>3, <1>5, <1>7 DEF ProcOk, ExtractOk, Layer!Memory
  <2>2. ASSUME op[p].kind \in {"resolve", "build"} PROVE MakeOk(m, op[p], layerDir', layerSpoilt)
    <3>1. op[p].id \in Layer!Layer
      BY <2>2, OpKinds DEF Layer!Idle, MakeOp
    <3> QED BY <1>2, <1>5, <1>7, <2>2, <3>1 DEF ProcOk, MakeOk, ExtractOk
  <2> QED BY <1>2, <1>3, <2>1, <2>2 DEF ProcOk
<1>10. Only(p) => IndexOk(index, m, op[p], layerDir', layerSpoilt)
  BY <1>2, <1>3 DEF IndexOk
<1>11. /\ ProcOk(mem'[p], op'[p], import'[p], stack'[p], layerDir', layerSpoilt')
       /\ Only(p) => IndexOk(index', mem'[p], op'[p], layerDir', layerSpoilt')
  BY <1>6, <1>7, <1>9, <1>10
<1>12. index' # None => HasBases(index')
  BY <1>6 DEF LayersInv
<1> QED BY <1>3, <1>6, <1>8, <1>11, <1>12, OneMoves

\* The end of a script gives its stack back.
LEMMA EndsKeep ==
  ASSUME LayersInv, NEW p \in Proc, Layer!Finished(p)
  PROVE  LayersInv'
<1>1. mem[p] # None
  BY OfProc DEF Layer!Finished, ProcOk
<1>2. /\ stack' = [stack EXCEPT ![p] = None]
      /\ UNCHANGED <<mem, op, import, layerDir, index, layerSpoilt>>
  BY DEF Layer!Finished
<1>3. stack' \in [Proc -> Layer!Stack \cup {None}] /\ stack'[p] = None
  BY <1>2 DEF LayersInv, LayersTyped
<1>4. LayersTyped' /\ OthersSame(p)
  BY <1>2, <1>3 DEF LayersInv, LayersTyped, OthersSame
<1>5. ProcOk(mem[p], op[p], import[p], None, layerDir, layerSpoilt)
  BY <1>1, OfProc DEF ProcOk, CollectOk
<1>6. ProcOk(mem'[p], op'[p], import'[p], stack'[p], layerDir', layerSpoilt')
  BY <1>2, <1>3, <1>5
<1>7. /\ Only(p) => IndexOk(index', mem'[p], op'[p], layerDir', layerSpoilt')
      /\ index' # None => HasBases(index')
  BY <1>2, OfProc DEF LayersInv
<1> QED BY <1>1, <1>2, <1>4, <1>6, <1>7, OneMoves

\* A collection begins: what it will take is neither a base's nor, but for the
\* Node layers that are spoilt, in use.
LEMMA CollectKeeps ==
  ASSUME LayersInv, NEW p \in Proc, Layer!GarbageCollect(p)
  PROVE  LayersInv'
<1> DEFINE m == mem[p]
<1>1. m # None /\ m \in Layer!Memory /\ op[p] = Layer!Idle
  BY OfProc DEF Layer!GarbageCollect, Layer!Free
<1>2. ProcOk(m, Layer!Idle, import[p], stack[p], layerDir, layerSpoilt)
  BY <1>1, OfProc
<1>3. PICK V : V = Layer!Victims(p)
  OBVIOUS
<1>4. /\ V \subseteq m.layers /\ V \subseteq Layer!Layer
      /\ \A l \in V : l \notin m.recent /\ \A b \in m.bases : l # Layer!BaseLayer(b)
  BY <1>1, <1>3 DEF Layer!Victims, Layer!Memory
<1>5. PICK o : o = [kind |-> "gc", stage |-> "gc", left |-> V,
                    removed |-> FALSE]
  OBVIOUS
<1>6. /\ op' = [op EXCEPT ![p] = o] /\ UNCHANGED <<mem, import, stack, layerDir, index>>
      /\ layerSpoilt' = layerSpoilt \cup
           {l \in V : l.lang = "node" /\ stack[p] # None /\ l \in stack[p].chosen}
  BY <1>3, <1>5 DEF Layer!GarbageCollect, Layer!Spoil
<1>7. layerSpoilt' \subseteq Layer!Layer /\ layerSpoilt \subseteq layerSpoilt'
  BY <1>4, <1>6 DEF LayersInv, LayersTyped
<1>8. o \in CollectOp
  BY <1>4, <1>5 DEF CollectOp
<1>9. op' \in [Proc -> OpType] /\ op'[p] = o
  BY <1>6, <1>8 DEF LayersInv, LayersTyped, OpType
<1>10. LayersTyped' /\ OthersSame(p)
  BY <1>6, <1>7, <1>9 DEF LayersInv, LayersTyped, OthersSame, OpType
<1>11. CollectOk(m, o, stack[p], layerSpoilt')
  <2>1. SUFFICES ASSUME NEW l \in V, stack[p] # None, stack[p].fresh, l \in stack[p].chosen
                 PROVE  l \in layerSpoilt'
    BY <1>4, <1>5 DEF CollectOk
  <2>2. RunOk(m, stack[p], layerSpoilt)
    BY <1>2, <2>1 DEF ProcOk
  <2>3. l \in layerSpoilt \/ l.lang = "node"
    BY <1>4, <2>1, <2>2 DEF RunOk
  <2> QED BY <1>6, <2>1, <2>3
<1>12. ProcOk(m, o, import[p], stack[p], layerDir, layerSpoilt')
  <2>1. stack[p] # None => RunOk(m, stack[p], layerSpoilt')
    BY <1>2, <1>7 DEF ProcOk, RunOk
  <2>2. import[p] # None => ExtractOk(m, o, Layer!BaseLayer(import[p]), layerSpoilt')
    BY <1>2, <1>5, <1>7 DEF ProcOk, ExtractOk
  <2> QED BY <1>1, <1>2, <1>5, <1>7, <1>11, <2>1, <2>2 DEF ProcOk
<1>13. Only(p) => IndexOk(index, m, o, layerDir, layerSpoilt')
  <2>1. Only(p) => IndexOk(index, m, Layer!Idle, layerDir, layerSpoilt)
    BY <1>1, OfProc
  <2> QED BY <1>1, <1>7, <2>1 DEF IndexOk, Layer!Idle
<1>14. /\ ProcOk(mem'[p], op'[p], import'[p], stack'[p], layerDir', layerSpoilt')
       /\ Only(p) => IndexOk(index', mem'[p], op'[p], layerDir', layerSpoilt')
  BY <1>6, <1>9, <1>12, <1>13
<1>15. index' # None => HasBases(index')
  BY <1>6 DEF LayersInv
<1> QED BY <1>1, <1>7, <1>10, <1>14, <1>15, OneMoves

NextVictimOk(p, l, removed, o) ==
  /\ op' = [op EXCEPT ![p] = o]
  /\ o = Layer!Idle => ~ removed
  /\ o # Layer!Idle => /\ o.kind = "gc" /\ o.left \subseteq op[p].left \ {l}
                       /\ removed => o.removed

\* What is left of a collection after one layer.
LEMMA NextVictimIs ==
  ASSUME LayersInv, NEW p \in Proc, op[p] \in CollectOp, op[p].stage = "gc",
         NEW l \in op[p].left, NEW removed \in BOOLEAN,
         Layer!NextVictim(p, l, removed)
  PROVE  \E o \in {Layer!Idle} \cup CollectOp : NextVictimOk(p, l, removed, o)
<1>1. PICK o : o = IF op[p].left # {l}
                     THEN [op[p] EXCEPT !.left = @ \ {l}, !.removed = removed]
                     ELSE IF removed
                     THEN [op[p] EXCEPT !.left = {}, !.removed = TRUE, !.stage = "save"]
                     ELSE Layer!Idle
  OBVIOUS
<1>2. op' = [op EXCEPT ![p] = o]
  BY <1>1, Zenon DEF Layer!NextVictim
<1>3. CASE op[p].left # {l}
  <2>1. /\ o \in CollectOp /\ o.kind = "gc" /\ o.left \subseteq op[p].left \ {l}
        /\ o.removed = removed
    BY <1>1, <1>3 DEF CollectOp
  <2>2. o # Layer!Idle
    BY <2>1 DEF Layer!Idle
  <2> QED BY <1>2, <2>1, <2>2 DEF NextVictimOk
<1>4. CASE op[p].left = {l} /\ removed
  <2>1. /\ o \in CollectOp /\ o.kind = "gc" /\ o.left \subseteq op[p].left \ {l}
        /\ o.removed = TRUE
    BY <1>1, <1>4 DEF CollectOp
  <2>2. o # Layer!Idle
    BY <2>1 DEF Layer!Idle
  <2> QED BY <1>2, <1>4, <2>1, <2>2 DEF NextVictimOk
<1>5. CASE op[p].left = {l} /\ ~ removed
  <2>1. o = Layer!Idle
    BY <1>1, <1>5
  <2> QED BY <1>2, <1>5, <2>1 DEF NextVictimOk
<1> QED BY <1>3, <1>4, <1>5

\* The collection removes a layer, or fails to: what it leaves is spoilt.
LEMMA RemovedKeeps ==
  ASSUME LayersInv, NEW p \in Proc, NEW l \in Layer!Layer,
         Layer!Remove(p, l) \/ Layer!RemoveFails(p, l)
  PROVE  LayersInv'
<1>1. /\ mem[p] # None /\ mem[p] \in Layer!Memory /\ op[p] \in CollectOp
      /\ l \in op[p].left /\ op[p].stage = "gc"
  BY OpKinds DEF Layer!Remove, Layer!RemoveFails, Layer!At
<1>2. /\ ProcOk(mem[p], op[p], import[p], stack[p], layerDir, layerSpoilt)
      /\ layerDir \in DirType
      /\ Only(p) => IndexOk(index, mem[p], op[p], layerDir, layerSpoilt)
  BY OfProc
<1>3. PICK m : m = IF Layer!Remove(p, l) THEN [mem[p] EXCEPT !.layers = @ \ {l}]
                   ELSE mem[p]
  OBVIOUS
<1>4. /\ m \in Layer!Memory /\ m.layers \subseteq mem[p].layers
      /\ Layer!Remove(p, l) => m.layers = mem[p].layers \ {l}
      /\ ~ Layer!Remove(p, l) => m.layers = mem[p].layers
      /\ m.bases = mem[p].bases /\ m.recent = mem[p].recent
  BY <1>1, <1>3 DEF Layer!Memory
<1>5. m # None
  BY <1>4, LayerAssumption
<1>6. PICK sp : sp = IF Layer!Remove(p, l) THEN layerSpoilt ELSE layerSpoilt \cup {l}
  OBVIOUS
<1>7. /\ layerSpoilt \subseteq sp /\ sp \subseteq Layer!Layer
      /\ ~ Layer!Remove(p, l) => l \in sp
  BY <1>6 DEF LayersInv, LayersTyped
<1>8. mem \in [Proc -> Layer!Memory \cup {None}] /\ op \in [Proc -> OpType]
  BY DEF LayersInv, LayersTyped, OpType
<1>9. PICK o \in {Layer!Idle} \cup CollectOp :
        /\ op' = [op EXCEPT ![p] = o]
        /\ o = Layer!Idle => ~ Layer!Remove(p, l) /\ ~ op[p].removed
        /\ o # Layer!Idle =>
             /\ o.kind = "gc" /\ o.left \subseteq op[p].left \ {l}
             /\ Layer!Remove(p, l) \/ op[p].removed => o.removed
  <2>1. CASE Layer!Remove(p, l)
    <3>1. Layer!NextVictim(p, l, TRUE)
      BY <2>1 DEF Layer!Remove
    <3> QED BY <1>1, <2>1, <3>1, NextVictimIs DEF NextVictimOk
  <2>2. CASE ~ Layer!Remove(p, l)
    <3>1. Layer!NextVictim(p, l, op[p].removed) /\ op[p].removed \in BOOLEAN
      BY <1>1, <2>2 DEF Layer!RemoveFails, CollectOp
    <3> QED BY <1>1, <2>2, <3>1, NextVictimIs DEF NextVictimOk
  <2> QED BY <2>1, <2>2
<1>10. PICK x \in {"none", "part"} : layerDir' = [layerDir EXCEPT ![l] = x]
  BY DEF Layer!Remove, Layer!RemoveFails
<1>11. /\ mem' = [mem EXCEPT ![p] = m] /\ layerSpoilt' = sp
       /\ UNCHANGED <<import, stack, index>>
  <2>1. CASE Layer!Remove(p, l)
    BY <1>3, <1>6, <1>8, <2>1 DEF Layer!Remove
  <2>2. CASE ~ Layer!Remove(p, l)
    BY <1>3, <1>6, <1>8, <2>2 DEF Layer!RemoveFails, Layer!Spoil
  <2> QED BY <2>1, <2>2
<1>12. /\ mem' \in [Proc -> Layer!Memory \cup {None}] /\ mem'[p] = m
       /\ op' \in [Proc -> OpType] /\ op'[p] = o
       /\ layerDir' \in DirType
       /\ \A k \in Layer!Layer : k # l => layerDir'[k] = layerDir[k]
  BY <1>2, <1>4, <1>8, <1>9, <1>10, <1>11 DEF OpType, DirType
<1>13. LayersTyped' /\ OthersSame(p)
  BY <1>7, <1>8, <1>9, <1>11, <1>12 DEF LayersInv, LayersTyped, OthersSame, DirType, OpType
<1>14. CollectOk(mem[p], op[p], stack[p], layerSpoilt)
  BY <1>1, <1>2 DEF ProcOk, CollectOp
<1>15. ProcOk(m, o, import[p], stack[p], layerDir', sp)
  <2>1. HasBases(m)
    BY <1>1, <1>2, <1>4, <1>14 DEF ProcOk, HasBases, CollectOk
  <2>2. \A k \in m.layers : k \in sp \/ layerDir'[k] = "whole"
    BY <1>1, <1>2, <1>4, <1>7, <1>12 DEF ProcOk, Layer!Memory
  <2>3. o.kind = "gc" => CollectOk(m, o, stack[p], sp)
    BY <1>4, <1>7, <1>9, <1>14 DEF CollectOk, Layer!Idle
  <2>4. stack[p] # None => RunOk(m, stack[p], sp)
    BY <1>1, <1>2, <1>4, <1>7, <1>14 DEF ProcOk, RunOk, CollectOk
  <2>5. o.kind \notin {"resolve", "build"}
    BY DEF Layer!Idle, CollectOp
  <2>6. import[p] # None => ExtractOk(m, o, Layer!BaseLayer(import[p]), sp)
    BY <1>2, <1>4, <1>7, <2>5 DEF ProcOk, ExtractOk
  <2> QED BY <1>5, <2>1, <2>2, <2>3, <2>4, <2>5, <2>6 DEF ProcOk
<1>16. ASSUME Only(p) PROVE IndexOk(index, m, o, layerDir', sp)
  <2>1. CASE Layer!Remove(p, l) \/ op[p].removed
    BY <1>5, <1>9, <2>1 DEF IndexOk
  <2>2. CASE ~ Layer!Remove(p, l) /\ ~ op[p].removed
    BY <1>1, <1>2, <1>4, <1>5, <1>7, <1>16, <2>2 DEF IndexOk
  <2> QED BY <2>1, <2>2
<1>17. /\ ProcOk(mem'[p], op'[p], import'[p], stack'[p], layerDir', layerSpoilt')
       /\ Only(p) => IndexOk(index', mem'[p], op'[p], layerDir', layerSpoilt')
  BY <1>11, <1>12, <1>15, <1>16
<1>18. index' # None => HasBases(index')
  BY <1>11 DEF LayersInv
<1> QED BY <1>1, <1>7, <1>11, <1>13, <1>17, <1>18, OneMoves

\* The layer that was made becomes known, and the script that asked for it gets its
\* stack.
LEMMA SaveMadeKeeps ==
  ASSUME LayersInv, NEW p \in Proc, Layer!Save(p), op[p] \in MakeOp
  PROVE  LayersInv'
<1> DEFINE o == op[p]
           id == op[p].id
<1>1. mem[p] # None /\ mem[p] \in Layer!Memory /\ o # Layer!Idle /\ o.stage = "save"
  BY OpKinds DEF Layer!Save, Layer!At
<1>2. /\ o.kind \in {"resolve", "build"} /\ id \in Layer!Layer
      /\ o.base \in Base \cup {None} /\ o.need \in SUBSET AskedName
  BY DEF MakeOp
<1>3. ProcOk(mem[p], o, import[p], stack[p], layerDir, layerSpoilt)
  BY OfProc
<1>4. MakeOk(mem[p], o, layerDir, layerSpoilt)
  BY <1>2, <1>3 DEF ProcOk
<1>5. PICK m : m = Layer!Known(p)
  OBVIOUS
<1>6. /\ m \in Layer!Memory /\ m.layers = mem[p].layers \cup {id}
      /\ m.recent = mem[p].recent \cup {l \in {id} : l.lang # "node"}
      /\ m.bases = mem[p].bases \cup (IF o.kind = "build" THEN {o.base} ELSE {})
  <2>1. o.kind = "build" => o.base \in Base
    BY <1>4 DEF MakeOk
  <2> QED BY <1>1, <1>2, <1>5, <2>1 DEF Layer!Known, Layer!Memory
<1>7. m # None
  BY <1>6, LayerAssumption
<1>8. HasBases(m)
  BY <1>1, <1>3, <1>4, <1>6 DEF ProcOk, MakeOk, HasBases
<1>9. \A l \in m.layers : l \in layerSpoilt \/ layerDir[l] = "whole"
  BY <1>1, <1>3, <1>4, <1>6 DEF ProcOk, MakeOk
<1>10. /\ mem' = [mem EXCEPT ![p] = m] /\ index' = m
       /\ op' = [op EXCEPT ![p] = Layer!Idle]
       /\ UNCHANGED <<import, layerDir, layerSpoilt>>
  BY <1>2, <1>5 DEF Layer!Save, Layer!Return
<1>11. PICK s \in Layer!Stack \cup {None} :
         stack' = [stack EXCEPT ![p] = s] /\ (s # None => RunOk(m, s, layerSpoilt))
  <2>1. CASE o.kind = "resolve"
    <3>1. PICK ls : ls = Layer!BaseLayers(o.base) \cup {id}
      OBVIOUS
    <3>2. Layer!BaseLayers(o.base) \subseteq Layer!Layer
      BY <1>2, LayerTypes
    <3>3. o.base # None => o.base \in mem[p].bases
      BY <1>4, <2>1 DEF MakeOk
    <3>4. ls \in SUBSET Layer!Layer /\ ls \subseteq m.layers
      BY <1>1, <1>2, <1>3, <1>6, <3>1, <3>2, <3>3 DEF ProcOk, HasBases, Layer!BaseLayers
    <3>5. \A l \in ls : l \in m.recent \/ l.lang = "node"
                          \/ \E b \in m.bases : l = Layer!BaseLayer(b)
      BY <1>6, <3>1, <3>3 DEF Layer!BaseLayers
    <3>6. Covers(o.need, ls)
      BY <1>4, <2>1, <3>1 DEF MakeOk
    <3>7. \A l \in ls : l \in layerSpoilt \/ layerDir[l] = "whole"
      BY <1>9, <3>4
    <3>8. PICK s : s = Layer!Compose(id.lang, m, o.need, ls)
      OBVIOUS
    <3>11. id.lang \in {"python", "node"}
      BY <1>2, LayerTypes
    <3>12. id.lang = "node" => \A l \in ls : l.lang = "node"
      BY <1>4, <2>1, <3>1 DEF MakeOk
    <3>9. s \in Layer!Stack /\ RunOk(m, s, layerSpoilt)
      BY <1>2, <1>6, <3>4, <3>5, <3>6, <3>7, <3>8, <3>11, <3>12, ComposeOk
    <3>10. stack' = [stack EXCEPT ![p] = s]
      BY <1>2, <1>5, <2>1, <3>1, <3>8 DEF Layer!Save
    <3> QED BY <3>9, <3>10
  <2>2. CASE o.kind = "build"
    <3>1. stack' = stack /\ stack \in [Proc -> Layer!Stack \cup {None}]
      BY <2>2 DEF Layer!Save, LayersInv, LayersTyped
    <3>2. stack' = [stack EXCEPT ![p] = stack[p]] /\ stack[p] \in Layer!Stack \cup {None}
      BY <3>1
    <3>3. stack[p] # None => RunOk(m, stack[p], layerSpoilt)
      BY <1>3, <1>6, RunGrows DEF ProcOk
    <3> QED BY <3>2, <3>3
  <2> QED BY <1>2, <2>1, <2>2
<1>12. /\ mem' \in [Proc -> Layer!Memory \cup {None}] /\ mem'[p] = m
       /\ op' \in [Proc -> OpType] /\ op'[p] = Layer!Idle
       /\ stack' \in [Proc -> Layer!Stack \cup {None}] /\ stack'[p] = s
  BY <1>6, <1>10, <1>11 DEF LayersInv, LayersTyped, OpType
<1>13. LayersTyped' /\ OthersSame(p)
  BY <1>6, <1>10, <1>11, <1>12 DEF LayersInv, LayersTyped, OthersSame, OpType
<1>14. ProcOk(m, Layer!Idle, import[p], s, layerDir, layerSpoilt)
  <2>1. import[p] # None => ExtractOk(m, Layer!Idle, Layer!BaseLayer(import[p]), layerSpoilt)
    BY <1>2, <1>3, <1>6 DEF ProcOk, ExtractOk, Layer!Idle
  <2> QED BY <1>7, <1>8, <1>9, <1>11, <2>1 DEF ProcOk, Layer!Idle
<1>15. IndexOk(m, m, Layer!Idle, layerDir, layerSpoilt)
  BY <1>7 DEF IndexOk
<1>16. /\ ProcOk(mem'[p], op'[p], import'[p], stack'[p], layerDir', layerSpoilt')
       /\ IndexOk(index', mem'[p], op'[p], layerDir', layerSpoilt')
  BY <1>10, <1>12, <1>14, <1>15
<1> QED BY <1>1, <1>8, <1>10, <1>13, <1>16, OneMoves

\* The collection is over: the index names what is left.
LEMMA SaveCollectedKeeps ==
  ASSUME LayersInv, NEW p \in Proc, Layer!Save(p), op[p] \in CollectOp
  PROVE  LayersInv'
<1> DEFINE m == mem[p]
<1>1. m # None /\ m \in Layer!Memory /\ op[p].kind = "gc"
  BY OpKinds DEF Layer!Save, Layer!At, CollectOp
<1>2. ProcOk(m, op[p], import[p], stack[p], layerDir, layerSpoilt)
  BY OfProc
<1>3. mem \in [Proc -> Layer!Memory \cup {None}] /\ op \in [Proc -> OpType]
  BY DEF LayersInv, LayersTyped, OpType
<1>4. /\ mem' = mem /\ index' = m /\ op' = [op EXCEPT ![p] = Layer!Idle]
      /\ UNCHANGED <<import, stack, layerDir, layerSpoilt>>
  BY <1>1, <1>3 DEF Layer!Save, Layer!Return
<1>5. op' \in [Proc -> OpType] /\ op'[p] = Layer!Idle
  BY <1>3, <1>4 DEF OpType
<1>6. LayersTyped' /\ OthersSame(p)
  BY <1>1, <1>3, <1>4, <1>5 DEF LayersInv, LayersTyped, OthersSame, OpType
<1>7. ProcOk(m, Layer!Idle, import[p], stack[p], layerDir, layerSpoilt)
  BY <1>1, <1>2 DEF ProcOk, ExtractOk, Layer!Idle
<1>8. IndexOk(m, m, Layer!Idle, layerDir, layerSpoilt) /\ HasBases(m)
  BY <1>1, <1>2 DEF IndexOk, ProcOk
<1>9. /\ ProcOk(mem'[p], op'[p], import'[p], stack'[p], layerDir', layerSpoilt')
      /\ IndexOk(index', mem'[p], op'[p], layerDir', layerSpoilt') /\ HasBases(index')
  BY <1>4, <1>5, <1>7, <1>8
<1> QED BY <1>1, <1>4, <1>6, <1>9, OneMoves

\* A process dies: what the index names and the process had removed is spoilt.
LEMMA CrashedKeeps ==
  ASSUME LayersInv, NEW p \in Proc, Layer!Crash(p)
  PROVE  LayersInv'
<1>1. mem[p] # None /\ mem[p] \in Layer!Memory
  BY OfProc DEF Layer!Crash
<1>2. ProcOk(mem[p], op[p], import[p], stack[p], layerDir, layerSpoilt)
  BY OfProc
<1>3. /\ mem' = [mem EXCEPT ![p] = None] /\ op' = [op EXCEPT ![p] = Layer!Idle]
      /\ import' = [import EXCEPT ![p] = None] /\ stack' = [stack EXCEPT ![p] = None]
  BY DEF Layer!Crash
<1>13. PICK doomed : doomed = IF Layer!At(p, "gc") THEN op[p].left ELSE {}
  OBVIOUS
<1>14. doomed \subseteq Layer!Layer
  BY <1>13, OpKinds DEF Layer!At, CollectOp
<1>15. /\ layerDir' \in DirType
       /\ \A l \in Layer!Layer \ doomed : layerDir'[l] = layerDir[l]
  <2>1. \/ layerDir' = layerDir
        \/ \E l \in doomed : layerDir' = [layerDir EXCEPT ![l] = "part"]
    BY <1>13 DEF Layer!Crash
  <2> QED BY <1>14, <2>1, OfProc DEF DirType
<1>4. \/ /\ index' = index
         /\ layerSpoilt' = layerSpoilt \cup
              (IF index = None THEN {} ELSE index.layers \ (mem[p].layers \ doomed))
      \/ index' = None /\ layerSpoilt' = layerSpoilt
  BY <1>13 DEF Layer!Crash, Layer!Spoil
<1>5. index \in Layer!Memory \cup {None} /\ layerSpoilt \subseteq Layer!Layer
  BY DEF LayersInv, LayersTyped
<1>6. /\ layerSpoilt \subseteq layerSpoilt' /\ layerSpoilt' \subseteq Layer!Layer
      /\ index' \in Layer!Memory \cup {None}
  BY <1>4, <1>5 DEF Layer!Memory
<1>7. /\ mem' \in [Proc -> Layer!Memory \cup {None}] /\ mem'[p] = None
      /\ op' \in [Proc -> OpType] /\ op'[p] = Layer!Idle
      /\ import' \in [Proc -> Base \cup {None}] /\ import'[p] = None
      /\ stack' \in [Proc -> Layer!Stack \cup {None}] /\ stack'[p] = None
  BY <1>3 DEF LayersInv, LayersTyped, OpType
<1>8. LayersTyped' /\ OthersSame(p)
  BY <1>3, <1>6, <1>7, <1>15 DEF LayersInv, LayersTyped, OthersSame, OpType, DirType
<1>9. ProcOk(None, Layer!Idle, None, None, layerDir', layerSpoilt')
  BY DEF ProcOk, Layer!Idle
<1>10. IndexOk(index', None, Layer!Idle, layerDir', layerSpoilt')
  <2>1. SUFFICES ASSUME index' # None, NEW l \in index'.layers
                 PROVE  l \in layerSpoilt' \/ layerDir'[l] = "whole"
    BY DEF IndexOk
  <2>2. index' = index /\ (l \in mem[p].layers \ doomed \/ l \in layerSpoilt')
    BY <1>4, <2>1
  <2> QED BY <1>1, <1>2, <1>6, <1>15, <2>2 DEF ProcOk, Layer!Memory
<1>11. /\ ProcOk(mem'[p], op'[p], import'[p], stack'[p], layerDir', layerSpoilt')
       /\ IndexOk(index', mem'[p], op'[p], layerDir', layerSpoilt')
  BY <1>3, <1>7, <1>9, <1>10
<1>12. index' # None => HasBases(index')
  BY <1>4 DEF LayersInv
<1> QED BY <1>1, <1>6, <1>8, <1>11, <1>12, OneMoves

\* The maximal age passes: no use is recent, and no stack is young.
LEMMA PassKeeps ==
  ASSUME LayersInv, Layer!Pass
  PROVE  LayersInv'
<1>1. /\ mem' = [p \in Proc |-> IF mem[p] = None THEN None ELSE [mem[p] EXCEPT !.recent = {}]]
      /\ stack' = [p \in Proc |-> IF stack[p] = None THEN None
                                  ELSE [stack[p] EXCEPT !.fresh = FALSE]]
      /\ index' = IF index = None THEN None ELSE [index EXCEPT !.recent = {}]
      /\ UNCHANGED <<op, import, layerDir, layerSpoilt>>
  BY DEF Layer!Pass
<1>2. ASSUME NEW x \in Layer!Memory
      PROVE  LET y == [x EXCEPT !.recent = {}]
             IN  /\ y \in Layer!Memory /\ y # None
                 /\ y.layers = x.layers /\ y.bases = x.bases
  BY LayerAssumption DEF Layer!Memory
<1>3. /\ index' \in Layer!Memory \cup {None}
      /\ index' # None => /\ index # None /\ index'.layers = index.layers
                          /\ index'.bases = index.bases
  BY <1>1, <1>2 DEF LayersInv, LayersTyped
<1>4. ASSUME NEW p \in Proc
      PROVE  /\ mem'[p] \in Layer!Memory \cup {None}
             /\ (mem'[p] = None) <=> (mem[p] = None)
             /\ mem[p] # None => /\ mem'[p].layers = mem[p].layers
                                 /\ mem'[p].bases = mem[p].bases
  <2>1. mem[p] \in Layer!Memory \cup {None} /\ (mem[p] = None => mem'[p] = None)
    BY <1>1, OfProc
  <2>2. mem[p] # None => mem'[p] = [mem[p] EXCEPT !.recent = {}]
    BY <1>1
  <2> QED BY <1>2, <2>1, <2>2
<1>5. ASSUME NEW p \in Proc
      PROVE  /\ stack'[p] \in Layer!Stack \cup {None}
             /\ stack'[p] # None => /\ stack[p] # None /\ ~stack'[p].fresh
                                    /\ stack'[p].need = stack[p].need /\ stack'[p].lang = stack[p].lang
                                    /\ stack'[p].chosen = stack[p].chosen
  <2>1. CASE stack[p] = None
    BY <1>1, <2>1
  <2>2. CASE stack[p] # None
    <3>1. stack[p] \in Layer!Stack /\ stack'[p] = [stack[p] EXCEPT !.fresh = FALSE]
      BY <1>1, <2>2, OfProc
    <3> QED BY <2>2, <3>1 DEF Layer!Stack
  <2> QED BY <2>1, <2>2
<1>6. LayersTyped'
  BY <1>1, <1>3, <1>4, <1>5 DEF LayersInv, LayersTyped
<1>7. \A p \in Proc : Only(p)' <=> Only(p)
  BY <1>4 DEF Only
<1>8. layerSpoilt' = Layer!Layer \/ \A p \in Proc : mem'[p] # None => Only(p)'
  BY <1>1, <1>4, <1>7 DEF LayersInv
<1>9. ASSUME NEW p \in Proc
      PROVE  ProcOk(mem'[p], op'[p], import'[p], stack'[p], layerDir', layerSpoilt')
  <2>1. ProcOk(mem[p], op[p], import[p], stack[p], layerDir, layerSpoilt)
    BY OfProc
  <2>2. mem'[p] = None => op[p] = Layer!Idle /\ import[p] = None /\ stack'[p] = None
    BY <1>4, <1>5, <2>1 DEF ProcOk
  <2>3. mem'[p] # None => /\ HasBases(mem'[p])
                          /\ \A l \in mem'[p].layers : l \in layerSpoilt \/ layerDir[l] = "whole"
    BY <1>4, <2>1 DEF ProcOk, HasBases
  <2>4. op[p].kind \in {"resolve", "build"} => MakeOk(mem'[p], op[p], layerDir, layerSpoilt)
    <3>1. op[p].kind \in {"resolve", "build"} => mem[p] # None
      BY <2>1 DEF ProcOk, Layer!Idle
    <3> QED BY <1>4, <2>1, <3>1 DEF ProcOk, MakeOk
  <2>5. op[p].kind = "gc" => CollectOk(mem'[p], op[p], stack'[p], layerSpoilt)
    <3>1. op[p].kind = "gc" => mem[p] # None
      BY <2>1 DEF ProcOk, Layer!Idle
    <3> QED BY <1>4, <1>5, <2>1, <3>1 DEF ProcOk, CollectOk
  <2>6. stack'[p] # None => RunOk(mem'[p], stack'[p], layerSpoilt)
    BY <1>5, <2>1 DEF ProcOk, RunOk
  <2>7. ProcOk(mem'[p], op[p], import[p], stack'[p], layerDir, layerSpoilt)
    <3>1. import[p] # None => ExtractOk(mem'[p], op[p], Layer!BaseLayer(import[p]), layerSpoilt)
      BY <1>4, <2>1 DEF ProcOk, ExtractOk
    <3> QED BY <2>2, <2>3, <2>4, <2>5, <2>6, <3>1 DEF ProcOk
  <2> QED BY <1>1, <2>7
<1>10. index' # None => HasBases(index')
  BY <1>3 DEF LayersInv, HasBases
<1>11. ASSUME NEW p \in Proc, Only(p)'
       PROVE  IndexOk(index', mem'[p], op'[p], layerDir', layerSpoilt')
  <2>1. IndexOk(index, mem[p], op[p], layerDir, layerSpoilt)
    BY <1>7, <1>11, OfProc
  <2> QED BY <1>1, <1>3, <1>4, <2>1 DEF IndexOk
<1> QED BY <1>6, <1>8, <1>9, <1>10, <1>11 DEF LayersInv

\* The next stage of making a layer, or the return of the operation.
Further(p, o) ==
  /\ o \in {Layer!Idle} \cup MakeOp
  /\ op' = [op EXCEPT ![p] = o]
  /\ o # Layer!Idle => /\ o.kind = op[p].kind /\ o.id = op[p].id
                       /\ o.base = op[p].base /\ o.need = op[p].need

\* ... while its directory becomes x.
Makes(p, o, x) ==
  /\ Further(p, o) /\ x \in {"none", "part", "whole"}
  /\ layerDir' = [layerDir EXCEPT ![op[p].id] = x]
  /\ o # Layer!Idle /\ o.stage = "save" => op[p].id \in layerSpoilt \/ x = "whole"

\* Stage and Return go further.
LEMMA StageIs ==
  ASSUME LayersInv, NEW p \in Proc, op[p] \in MakeOp
  PROVE  /\ \A st \in {"pip", "rename", "copy", "npm", "save"} :
              Layer!Stage(p, st) => \E o : Further(p, o) /\ o # Layer!Idle /\ o.stage = st
         /\ Layer!Return(p) => Further(p, Layer!Idle)
<1>1. ASSUME NEW st \in {"pip", "rename", "copy", "npm", "save"}, Layer!Stage(p, st)
      PROVE  \E o : Further(p, o) /\ o # Layer!Idle /\ o.stage = st
  <2>1. PICK o : o = [op[p] EXCEPT !.stage = st]
    OBVIOUS
  <2>2. /\ o \in MakeOp /\ o.kind = op[p].kind /\ o.id = op[p].id
        /\ o.base = op[p].base /\ o.need = op[p].need /\ o.stage = st
    BY <2>1 DEF MakeOp
  <2>3. op' = [op EXCEPT ![p] = o]
    BY <1>1, <2>1 DEF Layer!Stage, LayersInv, LayersTyped
  <2>4. o # Layer!Idle
    BY <2>2 DEF MakeOp, Layer!Idle
  <2> QED BY <2>2, <2>3, <2>4 DEF Further
<1>2. Layer!Return(p) => Further(p, Layer!Idle)
  BY DEF Layer!Return, Further
<1> QED BY <1>1, <1>2

\* A layer that is not spoilt is not extracted while it is made.
LEMMA FilledIs ==
  ASSUME LayersInv, NEW p \in Proc, op[p] \in MakeOp, mem[p] # None
  PROVE  /\ Layer!Filled(op[p].id, Proc) \in {"part", "whole"}
         /\ op[p].id \in layerSpoilt \/ Layer!Filled(op[p].id, Proc) = "whole"
<1>1. Layer!Filled(op[p].id, Proc) \in {"part", "whole"}
  BY DEF Layer!Filled
<1>2. op[p].id \in Layer!Layer /\ op[p].kind \in {"resolve", "build"}
  BY DEF MakeOp
<1>3. CASE layerSpoilt = Layer!Layer
  BY <1>1, <1>2, <1>3
<1>4. CASE Only(p) /\ op[p].id \notin layerSpoilt
  <2>1. \A r \in Proc \ {p} : import[r] = None
    BY <1>4, OfProc DEF Only, ProcOk
  <2>2. import[p] # None => Layer!BaseLayer(import[p]) # op[p].id
    BY <1>2, <1>4, OfProc DEF ProcOk, ExtractOk
  <2>3. op[p].id \notin Layer!Extracted(Proc)
    BY <2>1, <2>2 DEF Layer!Extracted
  <2> QED BY <2>3 DEF Layer!Filled
<1> QED BY <1>1, <1>3, <1>4 DEF LayersInv

\* createLayer, installPackages, the rename and copyDir: a Python layer is whole
\* from the rename, or from the end of the copy.
LEMMA PythonKeeps ==
  ASSUME LayersInv, NEW p \in Proc,
         Layer!createLayer(p) \/ Layer!installPackages(p) \/ Layer!Rename(p) \/ Layer!copyDir(p)
  PROVE  LayersInv'
<1> DEFINE id == op[p].id
<1>1. /\ op[p] \in MakeOp /\ mem[p] # None /\ id \in Layer!Layer
      /\ UNCHANGED <<mem, import, stack, index, layerSpoilt>>
  BY OpKinds DEF Layer!createLayer, Layer!installPackages, Layer!Rename, Layer!copyDir,
                 Layer!At, MakeOp
<1>2. layerDir \in DirType
  BY OfProc
<1>3. \E o, x : Makes(p, o, x)
  <2>1. /\ layerDir = [layerDir EXCEPT ![id] = layerDir[id]]
        /\ layerDir[id] \in {"none", "part", "whole"}
    BY <1>1, <1>2 DEF DirType
  <2>2. CASE Layer!createLayer(p)
    <3>1. PICK o : Further(p, o) /\ o.stage = "pip"
      BY <1>1, <2>2, StageIs DEF Layer!createLayer
    <3> QED BY <2>1, <2>2, <3>1 DEF Layer!createLayer, Makes
  <2>3. CASE Layer!installPackages(p)
    <3>1. PICK o : Further(p, o) /\ (o # Layer!Idle => o.stage = "rename")
      BY <1>1, <2>3, StageIs DEF Layer!installPackages
    <3> QED BY <2>1, <2>3, <3>1 DEF Layer!installPackages, Makes
  <2>4. CASE Layer!Rename(p)
    <3>1. CASE id \notin tmp
      BY <1>1, <2>1, <2>4, <3>1, StageIs DEF Layer!Rename, Makes
    <3>2. CASE id \in tmp /\ layerDir[id] = "none"
      <4>1. PICK o : Further(p, o)
        BY <1>1, <2>4, <3>2, StageIs DEF Layer!Rename
      <4> QED BY <1>1, <2>4, <3>2, <4>1, FilledIs DEF Layer!Rename, Makes
    <3>3. CASE id \in tmp /\ layerDir[id] # "none"
      <4>1. PICK o : Further(p, o) /\ o.stage = "copy"
        BY <1>1, <2>4, <3>3, StageIs DEF Layer!Rename
      <4> QED BY <2>4, <3>3, <4>1 DEF Layer!Rename, Makes
    <3> QED BY <3>1, <3>2, <3>3
  <2>5. CASE Layer!copyDir(p)
    <3>1. CASE id \notin tmp
      BY <1>1, <2>1, <2>5, <3>1, StageIs DEF Layer!copyDir, Makes
    <3>2. CASE id \in tmp
      <4>1. PICK o : Further(p, o)
        BY <1>1, <2>5, <3>2, StageIs DEF Layer!copyDir
      <4> QED BY <1>1, <2>5, <3>2, <4>1, FilledIs DEF Layer!copyDir, Makes
    <3> QED BY <3>1, <3>2
  <2> QED BY <2>2, <2>3, <2>4, <2>5
<1>4. PICK o, x : Makes(p, o, x)
  BY <1>3
<1>5. /\ layerDir' \in DirType /\ layerDir'[id] = x
      /\ \A l \in Layer!Layer : l # id => layerDir'[l] = layerDir[l]
  BY <1>1, <1>2, <1>4 DEF DirType, Makes
<1> QED BY <1>1, <1>4, <1>5, MakingKeeps DEF Further, Makes

\* createNodeLayer and installNodePackages: a Node layer is whole when npm is done.
LEMMA NodeKeeps ==
  ASSUME LayersInv, NEW p \in Proc, Layer!createNodeLayer(p) \/ Layer!installNodePackages(p)
  PROVE  LayersInv'
<1> DEFINE id == op[p].id
<1>1. /\ op[p] \in MakeOp /\ mem[p] # None /\ id \in Layer!Layer
      /\ UNCHANGED <<mem, import, stack, index, layerSpoilt>>
  BY OpKinds DEF Layer!createNodeLayer, Layer!installNodePackages, Layer!At, MakeOp
<1>2. layerDir \in DirType
  BY OfProc
<1>3. PICK o, x : Makes(p, o, x)
  <2>1. CASE Layer!createNodeLayer(p)
    <3>1. PICK o : Further(p, o) /\ o.stage = "npm"
      BY <1>1, <2>1, StageIs DEF Layer!createNodeLayer
    <3> QED BY <2>1, <3>1 DEF Layer!createNodeLayer, Makes
  <2>2. CASE Layer!installNodePackages(p)
    <3>1. CASE Layer!Return(p) /\ layerDir' = [layerDir EXCEPT ![id] = "none"]
      BY <1>1, <3>1, StageIs DEF Makes
    <3>2. CASE Layer!Stage(p, "save") /\ layerDir' = [layerDir EXCEPT ![id] = "whole"]
      BY <1>1, <3>2, StageIs DEF Makes
    <3> QED BY <2>2, <3>1, <3>2 DEF Layer!installNodePackages
  <2> QED BY <2>1, <2>2
<1>4. /\ layerDir' \in DirType /\ layerDir'[id] = x
      /\ \A l \in Layer!Layer : l # id => layerDir'[l] = layerDir[l]
  BY <1>1, <1>2, <1>3 DEF DirType, Makes
<1> QED BY <1>1, <1>3, <1>4, MakingKeeps DEF Further, Makes

-----------------------------------------------------------------------------
(* Layers: the invariant and the theorem *)

\* A store that nobody has opened.
LEMMA LayersInitially ==
  ASSUME Layer!Init
  PROVE  LayersInv
<1>1. /\ mem = [p \in Proc |-> None] /\ op = [p \in Proc |-> Layer!Idle]
      /\ import = [p \in Proc |-> None] /\ stack = [p \in Proc |-> None]
      /\ layerDir = [l \in Layer!Layer |-> "none"] /\ index = None /\ layerSpoilt = {}
  BY DEF Layer!Init
<1>2. LayersTyped
  BY <1>1 DEF LayersTyped
<1>3. ProcOk(None, Layer!Idle, None, None, layerDir, layerSpoilt)
  BY DEF ProcOk, Layer!Idle
<1>4. \A p \in Proc : ProcOk(mem[p], op[p], import[p], stack[p], layerDir, layerSpoilt)
  BY <1>1, <1>3
<1>5. \A p \in Proc : mem[p] = None
  BY <1>1
<1> QED BY <1>1, <1>2, <1>4, <1>5 DEF LayersInv, IndexOk

\* Every step of the layer store preserves the invariant.
LEMMA LayersKept ==
  ASSUME LayersInv, [Layer!Next]_(Layer!vars)
  PROVE  LayersInv'
<1>1. ASSUME NEW p \in Proc, NEW d \in Project,
             LET ps == Layer!normalizePackages(Layer!ResolveFromDir(d))
             IN  IF d.lang = "node" THEN Layer!ResolveNode(p, ps) ELSE Layer!Resolve(p, ps)
      PROVE  LayersInv'
  <2>1. PICK ps : ps = Layer!normalizePackages(Layer!ResolveFromDir(d))
    OBVIOUS
  <2>2. d.lang \in {"python", "node"}
    BY LayerAssumption
  <2>3. PICK b \in mem[p].bases \cup {None} :
          /\ Layer!Free(p) /\ Layer!ResolveWith(p, d.lang, ps, b)
          /\ d.lang = "node" => \A l \in Layer!BaseLayers(b) : l.lang = "node"
    <3>1. CASE d.lang = "node"
      <4>1. PICK b \in Layer!findBestNodeBase(p, ps) :
              Layer!Free(p) /\ Layer!ResolveWith(p, "node", ps, b)
        BY <1>1, <2>1, <3>1 DEF Layer!ResolveNode
      <4>2. b \in mem[p].bases \cup {None}
        BY <4>1, BestIsBase DEF Layer!findBestNodeBase
      <4>3. \A l \in Layer!BaseLayers(b) : l.lang = "node"
        BY <4>1, BestIsBase DEF Layer!findBestNodeBase, Layer!BaseLayers, Layer!BaseLayer,
                                Layer!computeLayerID
      <4> QED BY <3>1, <4>1, <4>2, <4>3
    <3>2. CASE d.lang = "python"
      <4>1. PICK b \in Layer!findBestBase(p, ps) :
              Layer!Free(p) /\ Layer!ResolveWith(p, "python", ps, b)
        BY <1>1, <2>1, <3>2 DEF Layer!Resolve
      <4>2. b \in mem[p].bases \cup {None}
        BY <4>1, BestIsBase DEF Layer!findBestBase
      <4> QED BY <3>2, <4>1, <4>2
    <3> QED BY <2>2, <3>1, <3>2
  <2> QED BY <2>1, <2>3, ResolveKeeps
<1>2. ASSUME NEW p \in Proc, NEW b \in Base,
             Layer!BuildBase(p, b) \/ Layer!BuildNodeBase(p, b) \/ Layer!ImportBase(p, b)
      PROVE  LayersInv'
  BY <1>2, BuildKeeps, ImportKeeps DEF Layer!BuildBase, Layer!BuildNodeBase
<1>3. ASSUME NEW p \in Proc,
             \/ Layer!createLayer(p) \/ Layer!installPackages(p) \/ Layer!Rename(p)
             \/ Layer!copyDir(p) \/ Layer!createNodeLayer(p) \/ Layer!installNodePackages(p)
      PROVE  LayersInv'
  BY <1>3, PythonKeeps, NodeKeeps
<1>4. ASSUME NEW p \in Proc, Layer!Save(p) PROVE LayersInv'
  <2>1. op[p] \in MakeOp \/ op[p] \in CollectOp
    BY <1>4, OfProc DEF Layer!Save, Layer!At, OpType
  <2> QED BY <1>4, <2>1, SaveMadeKeeps, SaveCollectedKeeps
<1>5. ASSUME NEW p \in Proc,
             \/ Layer!NewStore(p) \/ Layer!Imported(p) \/ Layer!ImportFails(p)
             \/ Layer!GarbageCollect(p) \/ Layer!Finished(p) \/ Layer!Crash(p)
      PROVE  LayersInv'
  BY <1>5, NewStoreKeeps, ImportedKeeps, FailedKeeps, EndsKeep, CollectKeeps, CrashedKeeps
<1>6. ASSUME NEW p \in Proc, NEW l \in Layer!Layer,
             Layer!Remove(p, l) \/ Layer!RemoveFails(p, l)
      PROVE  LayersInv'
  BY <1>6, RemovedKeeps
<1>7. CASE Layer!Pass
  BY <1>7, PassKeeps
<1>8. CASE UNCHANGED Layer!vars
  <2>1. UNCHANGED <<mem, op, import, stack, layerDir, index, layerSpoilt>>
    BY <1>8 DEF Layer!vars
  <2> QED BY <2>1 DEF LayersInv, LayersTyped, Only
<1> QED BY <1>1, <1>2, <1>3, <1>4, <1>5, <1>6, <1>7, <1>8, Zenon DEF Layer!Next

\* While a script runs on a young stack, what it asked for is installed for its
\* language, whole, in the layers that were chosen for it, but for the packages
\* that a Node base took from a Python script and the layers that Spoil lists: for
\* every set of processes, bases and projects, and however often they are resolved,
\* built, imported, collected and interrupted (layer/store.go:96, 210, 329).
THEOREM StacksStayWhole == Layer!Spec => []StacksWhole
<1>1. LayersInv => StacksWhole
  <2>1. SUFFICES ASSUME LayersInv, NEW p \in Proc, stack[p] # None, stack[p].fresh,
                        NEW n \in stack[p].need \ Layer!Misled(stack[p])
                 PROVE  \E l \in stack[p].chosen :
                          /\ l.lang = stack[p].lang /\ n \in Layer!Names(l.packages)
                          /\ l \in layerSpoilt \/ (l \in stack[p].layers /\ layerDir[l] = "whole")
    BY DEF StacksWhole, Layer!StacksWhole
  <2>2. ProcOk(mem[p], op[p], import[p], stack[p], layerDir, layerSpoilt)
    BY <2>1, OfProc
  <2>3. RunOk(mem[p], stack[p], layerSpoilt) /\ mem[p] # None
    BY <2>1, <2>2 DEF ProcOk
  <2>4. PICK l \in stack[p].chosen : n \in Layer!Names(l.packages)
    BY <2>1, <2>3 DEF RunOk, Covers
  <2>5. l \in layerSpoilt \/ (l \in stack[p].layers /\ layerDir[l] = "whole")
    BY <2>1, <2>2, <2>3, <2>4 DEF RunOk, ProcOk
  <2>6. l.lang = stack[p].lang
    BY <2>1, <2>3, <2>4 DEF RunOk, Layer!Misled
  <2> QED BY <2>4, <2>5, <2>6
<1> QED BY <1>1, LayersInitially, LayersKept, PTL DEF Layer!Spec

=============================================================================
