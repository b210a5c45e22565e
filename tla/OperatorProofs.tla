--------------------------- MODULE OperatorProofs ---------------------------
(***************************************************************************)
(* Proofs about PrisnCronJob, for every schedule, all deadlines and limits *)
(* and any number of failing requests, suspensions and deletions.          *)
(***************************************************************************)
EXTENDS PrisnCronJob, FiniteSetTheorems, TLAPS

-----------------------------------------------------------------------------
(* The inductive invariant *)

CronRecord ==
  [state : {"there", "deleting", "gone"}, finalizer : BOOLEAN, suspend : BOOLEAN,
   deadline : Nat, last : Nat]

RecRecord ==
  [pc : {"idle", "delete", "finalizer", "list", "decide", "replace", "create",
         "started", "status"},
   mine : CronRecord, active : SUBSET Scheduled, unseen : SUBSET Scheduled,
   due : Nat]

ChildRecord ==
  [state : {"none", "there", "deleting", "gone"},
   phase : {"", "Pending", "Running", "Succeeded", "Failed"}, ended : Nat]

JobTypeOK ==
  /\ policy \in {"Allow", "Forbid", "Replace"}
  /\ now \in Nat
  /\ cron \in CronRecord
  /\ rec \in RecRecord
  /\ child \in [Scheduled -> ChildRecord]
  /\ cache \in [cron : CronRecord, jobs : [Scheduled -> ChildRecord]]
  /\ overlooked \in SUBSET Scheduled

\* What the reconciler knows under Forbid.  Having seen no job under way, it knows
\* that one that is was hidden from it when it looked, whatever happened since.
NoneSeen ==
  policy = "Forbid" =>
    /\ rec.pc # "replace"
    /\ (rec.pc = "decide" /\ rec.active = {}) \/ rec.pc = "create"
         => Unfinished \subseteq rec.unseen

OneUnfinished == policy = "Forbid" => \A t, u \in Unfinished \ overlooked : t = u

JobInv == JobTypeOK /\ NoneSeen /\ OneUnfinished

-----------------------------------------------------------------------------
(* Facts about the operators *)

\* A set of times that is not empty has an earliest one.
LEMMA MinInSet ==
  ASSUME NEW S \in SUBSET Nat, S # {}
  PROVE  Min(S) \in S /\ \A t \in S : Min(S) <= t
<1>1. PICK x \in S : \A y \in S : ~ (<<y, x>> \in OpToRel(<, Nat))
  BY NatLessThanWellFounded, WFMin, Zenon
<1>2. \A y \in S : x <= y
  <2> SUFFICES ASSUME NEW y \in S PROVE x <= y
    OBVIOUS
  <2>1. x \in Nat /\ y \in Nat
    OBVIOUS
  <2>2. ~ (y < x)
    BY <1>1, <2>1 DEF OpToRel
  <2> QED BY <2>1, <2>2
<1> QED BY <1>2 DEF Min

\* A bounded set of times that is not empty has a last one.
LEMMA MaxInSet ==
  ASSUME NEW S \in SUBSET Nat, S # {}, NEW n \in Nat, \A t \in S : t <= n
  PROVE  Max(S) \in S /\ \A t \in S : Max(S) >= t
<1> DEFINE B == {b \in Nat : \A t \in S : t <= b}
<1>1. B \in SUBSET Nat /\ B # {}
  OBVIOUS
<1>2. PICK m : m = Min(B)
  OBVIOUS
<1>3. m \in B /\ \A b \in B : m <= b
  BY <1>1, <1>2, MinInSet
<1>4. m \in S
  <2> SUFFICES ASSUME m \notin S PROVE FALSE
    OBVIOUS
  <2>1. PICK t \in S : TRUE
    OBVIOUS
  <2>2. t \in Nat /\ t < m /\ m \in Nat
    BY <1>3, <2>1
  <2>3. m - 1 \in B
    BY <1>3, <2>2
  <2> QED BY <1>3, <2>2, <2>3
<1>5. m \in S /\ \A t \in S : m >= t
  BY <1>3, <1>4
<1> QED BY <1>5 DEF Max

\* Jobs that are all the same are at most one.
LEMMA OneIsEnough ==
  ASSUME OneUnfinished
  PROVE  ForbidHolds
<1> DEFINE U == Unfinished \ overlooked
<1>1. CASE policy # "Forbid"
  BY <1>1 DEF ForbidHolds
<1>2. CASE policy = "Forbid" /\ U = {}
  <2>1. Cardinality(U) = 0
    BY <1>2, FS_EmptySet
  <2> QED BY <2>1 DEF ForbidHolds
<1>3. CASE policy = "Forbid" /\ U # {}
  <2>1. PICK t \in U : TRUE
    BY <1>3
  <2>2. U = {t}
    BY <1>3, <2>1 DEF OneUnfinished
  <2>3. Cardinality(U) = 1
    BY <2>2, FS_Singleton
  <2> QED BY <2>3 DEF ForbidHolds
<1> QED BY <1>1, <1>2, <1>3

\* The run that is found is a time of the schedule or 0, so a number.
LEMMA MissedIsTime ==
  ASSUME now \in Nat, NEW c \in CronRecord
  PROVE  getMissedRun(c) \in Nat
<1>1. PICK M : M = Missed(c)
  OBVIOUS
<1>2. M \in SUBSET Nat /\ \A t \in M : t <= now
  BY <1>1, CronJobAssumption DEF Missed
<1>3. CASE M = {}
  BY <1>1, <1>3 DEF getMissedRun
<1>4. CASE M # {}
  <2>1. Max(M) \in M
    BY <1>2, <1>4, MaxInSet
  <2> QED BY <1>1, <1>2, <1>4, <2>1 DEF getMissedRun
<1> QED BY <1>3, <1>4

-----------------------------------------------------------------------------
(* Steps *)

\* A step that makes no job, after which the reconciler is where it was or is not
\* about to start a run.
LEMMA Harmless ==
  ASSUME JobInv, JobTypeOK', policy' = policy, overlooked' = overlooked,
         Unfinished' \subseteq Unfinished,
         rec' = rec \/ rec'.pc \notin {"decide", "replace", "create"}
  PROVE  JobInv'
<1>1. NoneSeen'
  BY DEF JobInv, NoneSeen
<1>2. OneUnfinished'
  BY DEF JobInv, OneUnfinished
<1> QED BY <1>1, <1>2 DEF JobInv

\* The jobs stay as they are.
LEMMA SameJobs ==
  ASSUME child' = child
  PROVE  Unfinished' = Unfinished
BY DEF Unfinished, With

\* The reconciler comes to rest.
LEMMA AtRest ==
  /\ NoCron \in CronRecord
  /\ Resting \in RecRecord /\ Resting.pc = "idle"
BY DEF NoCron, Resting, CronRecord, RecRecord

\* Steps that leave the jobs, and after which no run is about to start.
LEMMA Quiet ==
  ASSUME JobInv, UNCHANGED <<policy, child, overlooked>>, now' \in Nat,
         cron' \in CronRecord, rec' \in RecRecord,
         cache' \in [cron : CronRecord, jobs : [Scheduled -> ChildRecord]],
         rec' = rec \/ rec'.pc \notin {"decide", "replace", "create"}
  PROVE  JobInv'
<1>1. JobTypeOK'
  BY DEF JobInv, JobTypeOK
<1>2. Unfinished' \subseteq Unfinished
  BY SameJobs
<1> QED BY <1>1, <1>2, Harmless

\* Steps that neither start a job nor see one end.
LEMMA QuietSteps ==
  ASSUME JobInv,
         \/ Fetch \/ handleDeletion \/ AddFinalizer \/ UpdateStatus \/ Fail
         \/ Wake \/ Watch \/ Tick \/ Suspend \/ Delete \/ UNCHANGED vars
  PROVE  JobInv'
<1>1. /\ cron \in CronRecord /\ rec \in RecRecord /\ rec.mine \in CronRecord
      /\ cache \in [cron : CronRecord, jobs : [Scheduled -> ChildRecord]]
      /\ cache.cron \in CronRecord /\ child \in [Scheduled -> ChildRecord]
      /\ now \in Nat /\ rec.due \in Nat
  BY DEF JobInv, JobTypeOK, RecRecord
<1>2. CASE Fetch
  <2>1. ASSUME NEW p \in {"delete", "finalizer", "list"},
               rec' = [Resting EXCEPT !.mine = cache.cron, !.pc = p]
        PROVE  rec' \in RecRecord /\ rec'.pc \notin {"decide", "replace", "create"}
    BY <1>1, <2>1, AtRest DEF RecRecord
  <2>2. \/ rec' = Resting
        \/ \E p \in {"delete", "finalizer", "list"} :
             rec' = [Resting EXCEPT !.mine = cache.cron, !.pc = p]
    <3>1. PICK p : p = CASE cache.cron.state = "deleting" -> "delete"
                         [] ~ cache.cron.finalizer -> "finalizer"
                         [] OTHER -> "list"
      OBVIOUS
    <3>2. p \in {"delete", "finalizer", "list"}
      <4>1. CASE cache.cron.state = "deleting" /\ cache.cron.finalizer
        BY <3>1, <4>1
      <4>2. CASE cache.cron.state = "deleting" /\ ~ cache.cron.finalizer
        BY <3>1, <4>2
      <4>3. CASE cache.cron.state # "deleting" /\ ~ cache.cron.finalizer
        BY <3>1, <4>3
      <4>4. CASE cache.cron.state # "deleting" /\ cache.cron.finalizer
        BY <3>1, <4>4
      <4> QED BY <4>1, <4>2, <4>3, <4>4
    <3>3. rec' = Resting \/ rec' = [Resting EXCEPT !.mine = cache.cron, !.pc = p]
      BY <1>2, <3>1 DEF Fetch
    <3> QED BY <3>2, <3>3
  <2>3. rec' \in RecRecord /\ rec'.pc \notin {"decide", "replace", "create"}
    BY <2>1, <2>2, AtRest
  <2> QED BY <1>1, <1>2, <2>3, Quiet DEF Fetch
<1>3. CASE handleDeletion
  <2>1. cron' \in CronRecord
    BY <1>1, <1>3 DEF handleDeletion, CronRecord
  <2> QED BY <1>1, <1>3, <2>1, AtRest, Quiet DEF handleDeletion, Done
<1>4. CASE AddFinalizer
  <2>1. cron' \in CronRecord
    BY <1>1, <1>4 DEF AddFinalizer, CronRecord
  <2> QED BY <1>1, <1>4, <2>1, AtRest, Quiet DEF AddFinalizer, Done
<1>5. CASE UpdateStatus
  <2>1. [cron EXCEPT !.last = rec.due] \in CronRecord
    BY <1>1 DEF CronRecord
  <2>2. cron' \in CronRecord /\ rec' = Resting
    BY <1>1, <1>5, <2>1 DEF UpdateStatus, Done
  <2> QED BY <1>1, <1>5, <2>2, AtRest, Quiet DEF UpdateStatus
<1>6. CASE Fail
  BY <1>1, <1>6, AtRest, Quiet DEF Fail, Done
<1>7. CASE Wake
  BY <1>1, <1>7, Quiet DEF Wake
<1>8. CASE Suspend
  <2>1. cron' \in CronRecord
    BY <1>1, <1>8 DEF Suspend, CronRecord
  <2> QED BY <1>1, <1>8, <2>1, Quiet DEF Suspend
<1>9. CASE Delete
  <2>1. cron' \in CronRecord
    BY <1>1, <1>9 DEF Delete, CronRecord
  <2> QED BY <1>1, <1>9, <2>1, Quiet DEF Delete
<1>10. CASE UNCHANGED vars
  BY <1>1, <1>10, Quiet DEF vars
<1>11. CASE Watch
  <2>1. cache' \in [cron : CronRecord, jobs : [Scheduled -> ChildRecord]]
    BY <1>1, <1>11 DEF Watch
  <2> QED BY <1>1, <1>11, <2>1, Quiet DEF Watch
<1>12. CASE Tick
  <2>1. now' \in Nat
    BY <1>1, <1>12 DEF Tick
  <2> QED BY <1>1, <1>12, <2>1, Quiet DEF Tick
<1> QED BY <1>2, <1>3, <1>4, <1>5, <1>6, <1>7, <1>8, <1>9, <1>10, <1>11, <1>12

\* A job goes on: if it is not finished, it was not before.
LEMMA JobKept ==
  ASSUME JobInv, NEW t \in Scheduled, JobStep(t)
  PROVE  JobInv'
<1>1. child \in [Scheduled -> ChildRecord] /\ child[t] \in ChildRecord /\ now \in Nat
  BY DEF JobInv, JobTypeOK
<1>2. PICK c : child' = [child EXCEPT ![t] = c] /\ c \in ChildRecord
                 /\ (c.state = "gone" \/ (c.state = child[t].state /\ c.phase # ""
                                            /\ child[t].phase \in {"", "Pending", "Running"}))
  <2>1. CASE child' = [child EXCEPT ![t] = [NoChild EXCEPT !.state = "gone"]]
    <3>1. [NoChild EXCEPT !.state = "gone"] \in ChildRecord
          /\ [NoChild EXCEPT !.state = "gone"].state = "gone"
      BY DEF NoChild, ChildRecord
    <3> QED BY <2>1, <3>1
  <2>2. CASE /\ child[t].phase \in {"", "Pending"}
             /\ child' = [child EXCEPT ![t].phase = IF @ = "" THEN "Pending" ELSE "Running"]
    <3>1. PICK c : c = [child[t] EXCEPT !.phase = IF @ = "" THEN "Pending" ELSE "Running"]
      OBVIOUS
    <3>2. c \in ChildRecord /\ c.state = child[t].state /\ c.phase \in {"Pending", "Running"}
      BY <1>1, <3>1 DEF ChildRecord
    <3>3. child' = [child EXCEPT ![t] = c]
      BY <1>1, <2>2, <3>1
    <3> QED BY <2>2, <3>2, <3>3
  <2>3. ASSUME NEW p \in {"Succeeded", "Failed"}, child[t].phase = "Running",
               child' = [child EXCEPT ![t].phase = p, ![t].ended = now]
        PROVE  \E c : /\ child' = [child EXCEPT ![t] = c]
                      /\ c \in ChildRecord /\ c.state = child[t].state /\ c.phase = p
    <3>1. PICK c : c = [child[t] EXCEPT !.phase = p, !.ended = now]
      OBVIOUS
    <3>2. c \in ChildRecord /\ c.state = child[t].state /\ c.phase = p
      BY <1>1, <3>1 DEF ChildRecord
    <3>3. child' = [child EXCEPT ![t] = c]
      BY <1>1, <2>3, <3>1
    <3> QED BY <3>2, <3>3
  <2> QED BY <2>1, <2>2, <2>3 DEF JobStep
<1>3. child' \in [Scheduled -> ChildRecord] /\ child'[t] = c
      /\ \A u \in Scheduled : u # t => child'[u] = child[u]
  BY <1>1, <1>2
<1>4. JobTypeOK' /\ UNCHANGED <<policy, overlooked, rec>>
  BY <1>3 DEF JobInv, JobTypeOK, JobStep
<1>5. Unfinished' \subseteq Unfinished
  BY <1>2, <1>3 DEF Unfinished, With
<1> QED BY <1>4, <1>5, Harmless

\* Jobs are told to go, at most: that finishes none and makes none.
LEMMA Marked ==
  ASSUME JobTypeOK, NEW D, Remove(D)
  PROVE  child' \in [Scheduled -> ChildRecord] /\ Unfinished' = Unfinished
<1>1. ASSUME NEW t \in Scheduled
      PROVE  /\ child'[t] \in ChildRecord
             /\ child'[t].phase = child[t].phase
             /\ child'[t].state \in {"there", "deleting"}
                  <=> child[t].state \in {"there", "deleting"}
  <2>1. child[t] \in ChildRecord
    BY DEF JobTypeOK
  <2>2. CASE t \in D \cap Taken
    <3>1. child'[t] = [child[t] EXCEPT !.state = "deleting"]
      BY <2>2 DEF Remove
    <3>2. child[t].state \in {"there", "deleting"}
      BY <2>2 DEF Taken
    <3> QED BY <2>1, <3>1, <3>2 DEF ChildRecord
  <2>3. CASE t \notin D \cap Taken
    <3>1. child'[t] = child[t]
      BY <2>3 DEF Remove
    <3> QED BY <2>1, <3>1
  <2> QED BY <2>2, <2>3
<1>2. child' = [t \in Scheduled |-> child'[t]]
  BY DEF Remove
<1> QED BY <1>1, <1>2 DEF Unfinished, With

\* The reconciler looks.  If it sees no job under way, one that is has no phase,
\* or the cache is behind.
LEMMA ListStep ==
  ASSUME JobInv, List
  PROVE  JobInv'
<1>1. PICK D : Remove(D)
  BY DEF List
<1>2. JobTypeOK
  BY DEF JobInv
<1>3. child' \in [Scheduled -> ChildRecord] /\ Unfinished' = Unfinished
  BY <1>1, <1>2, Marked
<1>4. /\ UNCHANGED <<policy, now, cron, cache, overlooked>>
      /\ rec' = [rec EXCEPT !.active = updateActiveJobs, !.unseen = Hidden,
                            !.pc = "decide"]
  BY DEF List
<1>5. updateActiveJobs \in SUBSET Scheduled /\ Hidden \in SUBSET Scheduled
  BY DEF updateActiveJobs, Listed, With, Hidden, Taken
<1>6. /\ rec' \in RecRecord /\ rec'.active = updateActiveJobs
      /\ rec'.unseen = Hidden /\ rec'.pc = "decide"
  BY <1>2, <1>4, <1>5 DEF JobTypeOK, RecRecord
<1>7. JobTypeOK'
  BY <1>2, <1>3, <1>4, <1>6 DEF JobTypeOK
<1>8. ASSUME updateActiveJobs = {}, NEW t \in Unfinished PROVE t \in Hidden
  <2>1. /\ t \in Taken /\ t \in Scheduled
        /\ child[t].state \in {"there", "deleting"}
        /\ child[t].phase \in {"", "Pending", "Running"}
    BY <1>8 DEF Unfinished, With, Taken
  <2>2. CASE child[t].phase = ""
    BY <2>1, <2>2 DEF Hidden
  <2>3. CASE child[t].phase # ""
    <3>1. ~ (/\ cache.jobs[t].state \in {"there", "deleting"}
             /\ cache.jobs[t].phase \in {"Pending", "Running"})
      BY <1>8, <2>1 DEF updateActiveJobs, Listed, With
    <3>2. cache.jobs[t] # child[t]
      BY <2>1, <2>3, <3>1
    <3> QED BY <2>1, <3>2 DEF Hidden
  <2> QED BY <2>2, <2>3
<1>9. NoneSeen'
  BY <1>3, <1>6, <1>8 DEF NoneSeen
<1>10. OneUnfinished'
  BY <1>3, <1>4 DEF JobInv, OneUnfinished
<1> QED BY <1>7, <1>9, <1>10 DEF JobInv

\* The reconciler decides: under Forbid a run is to start only if it saw none.
LEMMA DecideStep ==
  ASSUME JobInv, Decide
  PROVE  JobInv'
<1>1. JobTypeOK /\ rec \in RecRecord /\ rec.mine \in CronRecord /\ now \in Nat
  BY DEF JobInv, JobTypeOK, RecRecord
<1>2. UNCHANGED <<policy, now, cron, child, cache, overlooked>> /\ rec.pc = "decide"
  BY DEF Decide
<1>3. CASE GivesUp(rec.mine)
  <2>1. rec' = Resting
    BY <1>3 DEF Decide, Done
  <2> QED BY <1>1, <1>2, <2>1, AtRest, Quiet DEF JobTypeOK
<1>4. CASE ~ GivesUp(rec.mine)
  <2>1. PICK t : t = getMissedRun(rec.mine)
    OBVIOUS
  <2>2. PICK p : p = IF t = 0 \/ (policy = "Forbid" /\ rec.active # {}) THEN "status"
                     ELSE IF policy = "Replace" /\ rec.active # {} THEN "replace"
                     ELSE "create"
    OBVIOUS
  <2>3. rec' = [rec EXCEPT !.due = t, !.pc = p]
    BY <1>4, <2>1, <2>2 DEF Decide
  <2>4. t \in Nat
    BY <1>1, <2>1, MissedIsTime
  <2>5. p \in {"status", "replace", "create"}
    BY <2>2
  <2>6. rec' \in RecRecord /\ rec'.pc = p /\ rec'.unseen = rec.unseen
    BY <1>1, <2>3, <2>4, <2>5 DEF RecRecord
  <2>7. JobTypeOK'
    BY <1>1, <1>2, <2>6 DEF JobTypeOK
  <2>8. Unfinished' = Unfinished
    BY <1>2, SameJobs
  <2>9. NoneSeen'
    <3>1. ASSUME policy = "Forbid" PROVE p # "replace"
      BY <2>2, <3>1
    <3>2. ASSUME policy = "Forbid", p = "create" PROVE Unfinished \subseteq rec.unseen
      <4>1. rec.active = {}
        BY <2>2, <3>2
      <4> QED BY <1>2, <3>2, <4>1 DEF JobInv, NoneSeen
    <3> QED BY <1>2, <2>5, <2>6, <2>8, <3>1, <3>2 DEF NoneSeen
  <2>10. OneUnfinished'
    BY <1>2, <2>8 DEF JobInv, OneUnfinished
  <2> QED BY <2>7, <2>9, <2>10 DEF JobInv
<1> QED BY <1>3, <1>4

\* Jobs are replaced under another policy only.
LEMMA ReplaceStep ==
  ASSUME JobInv, Replace
  PROVE  JobInv'
<1>1. JobTypeOK /\ rec \in RecRecord /\ rec.pc = "replace"
  BY DEF JobInv, JobTypeOK, Replace
<1>2. child' \in [Scheduled -> ChildRecord]
  BY <1>1, Marked DEF Replace
<1>3. /\ UNCHANGED <<policy, now, cron, cache, overlooked>>
      /\ rec' = [rec EXCEPT !.active = {}, !.pc = "create"]
  BY DEF Replace
<1>4. rec' \in RecRecord
  BY <1>1, <1>3 DEF RecRecord
<1>5. JobTypeOK'
  BY <1>1, <1>2, <1>3, <1>4 DEF JobTypeOK
<1>6. NoneSeen' /\ OneUnfinished'
  BY <1>1, <1>3 DEF JobInv, NoneSeen, OneUnfinished
<1> QED BY <1>5, <1>6 DEF JobInv

\* A run starts: under Forbid any other job under way was hidden, and is now among
\* those that were overlooked.
LEMMA CreateStep ==
  ASSUME JobInv, createJobFromTemplate
  PROVE  JobInv'
<1>1. JobTypeOK /\ rec \in RecRecord /\ rec.pc = "create"
  BY DEF JobInv, JobTypeOK, createJobFromTemplate
<1>2. UNCHANGED <<policy, now, cron, cache>>
  BY DEF createJobFromTemplate
<1>3. CASE rec.due \in Taken
  <2>1. rec' = Resting /\ child' = child /\ overlooked' = overlooked
    BY <1>3 DEF createJobFromTemplate, Done
  <2> QED BY <1>1, <1>2, <2>1, AtRest, Quiet DEF JobTypeOK
<1>4. CASE rec.due \notin Taken
  <2>1. PICK n : n = [NoChild EXCEPT !.state = "there"]
    OBVIOUS
  <2>2. n \in ChildRecord
    BY <2>1 DEF NoChild, ChildRecord
  <2>3. /\ child' = [child EXCEPT ![rec.due] = n]
        /\ overlooked' = (overlooked \cup rec.unseen) \ {rec.due}
        /\ rec' = [rec EXCEPT !.pc = "started"]
    BY <1>4, <2>1 DEF createJobFromTemplate
  <2>4. /\ child' \in [Scheduled -> ChildRecord]
        /\ \A t \in Scheduled : t # rec.due => child'[t] = child[t]
    BY <1>1, <2>2, <2>3 DEF JobTypeOK
  <2>5. rec' \in RecRecord /\ rec'.pc = "started" /\ rec.unseen \in SUBSET Scheduled
    BY <1>1, <2>3 DEF RecRecord
  <2>6. JobTypeOK'
    BY <1>1, <1>2, <2>3, <2>4, <2>5 DEF JobTypeOK
  <2>7. NoneSeen'
    BY <2>5 DEF NoneSeen
  <2>8. ASSUME policy = "Forbid", NEW t \in Unfinished', t \notin overlooked'
        PROVE  t = rec.due
    <3>1. ASSUME t # rec.due PROVE FALSE
      <4>1. t \in Unfinished
        BY <2>4, <2>8, <3>1 DEF Unfinished, With
      <4>2. t \in rec.unseen
        BY <1>1, <2>8, <4>1 DEF JobInv, NoneSeen
      <4> QED BY <2>3, <2>8, <3>1, <4>2
    <3> QED BY <3>1
  <2>9. OneUnfinished'
    BY <1>2, <2>8 DEF OneUnfinished
  <2> QED BY <2>6, <2>7, <2>9 DEF JobInv
<1> QED BY <1>3, <1>4

-----------------------------------------------------------------------------
(* The theorems *)

\* The first state satisfies the inductive invariant.
LEMMA JobInit ==
  ASSUME Init
  PROVE  JobInv
<1>1. cron \in CronRecord
  <2>1. PICK d \in Deadlines : cron = [NoCron EXCEPT !.deadline = d]
    BY DEF Init
  <2>2. d \in Nat
    BY CronJobAssumption
  <2> QED BY <2>1, <2>2, AtRest DEF CronRecord
<1>2. NoChild \in ChildRecord /\ NoChild.state = "none"
  BY DEF NoChild, ChildRecord
<1>3. child \in [Scheduled -> ChildRecord] /\ \A t \in Scheduled : child[t].state = "none"
  BY <1>2 DEF Init
<1>4. rec \in RecRecord /\ rec.pc = "idle" /\ overlooked = {}
  BY AtRest DEF Init
<1>5. cache \in [cron : CronRecord, jobs : [Scheduled -> ChildRecord]]
  BY <1>1, <1>3 DEF Init
<1>6. JobTypeOK
  BY <1>1, <1>3, <1>4, <1>5 DEF Init, JobTypeOK
<1>7. Unfinished = {}
  BY <1>3 DEF Unfinished, With
<1>8. NoneSeen /\ OneUnfinished
  BY <1>4, <1>7 DEF NoneSeen, OneUnfinished
<1> QED BY <1>6, <1>8 DEF JobInv

\* Every step keeps it.
LEMMA JobStepKeeps ==
  ASSUME JobInv, [Next]_vars
  PROVE  JobInv'
<1>1. CASE \E t \in Scheduled : JobStep(t)
  BY <1>1, JobKept
<1>2. CASE List \/ Decide \/ Replace \/ createJobFromTemplate
  BY <1>2, ListStep, DecideStep, ReplaceStep, CreateStep
<1>3. CASE \/ Fetch \/ handleDeletion \/ AddFinalizer \/ UpdateStatus \/ Fail
           \/ Wake \/ Watch \/ Tick \/ Suspend \/ Delete \/ UNCHANGED vars
  BY <1>3, QuietSteps
<1> QED BY <1>1, <1>2, <1>3 DEF Next, ReconcileStep

\* The inductive invariant of the controller of cron jobs: types, and what the
\* reconciler knows of the jobs under way from its look at the cache to the start
\* of a run: under Forbid, any there is was hidden from that look.
THEOREM CronJobInvariant == Spec => []JobInv
<1>1. Init => JobInv
  BY JobInit
<1>2. JobInv /\ [Next]_vars => JobInv'
  BY JobStepKeeps
<1> QED BY <1>1, <1>2, PTL DEF Spec

\* For every schedule, however time passes, requests fail, the cache lags and jobs
\* end between the look at the jobs and the start of the next: under Forbid no two
\* jobs of a cron job are under way at once, but for those that had no phase, or
\* not yet in the cache, at the look before a start
\* (prisncronjob_controller.go, updateActiveJobs).
THEOREM ForbidNeverTwo == Spec => []ForbidHolds
<1>1. JobInv => ForbidHolds
  BY OneIsEnough DEF JobInv
<1> QED BY <1>1, CronJobInvariant, PTL

=============================================================================
