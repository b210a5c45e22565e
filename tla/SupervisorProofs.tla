-------------------------- MODULE SupervisorProofs --------------------------
(***************************************************************************)
(* Proofs about Supervisor, for every set of callers, every restart delay  *)
(* and every number of objects, goroutines and processes.                  *)
(***************************************************************************)
EXTENDS Supervisor, WellFoundedInduction, TLAPS

-----------------------------------------------------------------------------
(* The doubling of the backoff *)

\* A set of numbers that is not empty has a least one.
LEMMA LeastNumber ==
  ASSUME NEW S \in SUBSET Nat, S # {}
  PROVE  \E m \in S : \A k \in S : m <= k
<1>1. PICK x \in S : \A y \in S : ~ (<<y, x>> \in OpToRel(<, Nat))
  BY NatLessThanWellFounded, WFMin, Zenon
<1>2. \A y \in S : x <= y
  <2> SUFFICES ASSUME NEW y \in S PROVE x <= y
    OBVIOUS
  <2>1. x \in Nat /\ y \in Nat
    OBVIOUS
  <2>2. ~ (y < x)
    BY <1>1, <2>1 DEF OpToRel
  <2> QED BY <2>1, <2>2
<1> QED BY <1>2

\* One turn of the loop of calculateBackoff.
Turn(d) == IF d < MaxRestartDelay THEN 2 * d ELSE d

\* The delays after 0, 1, ... n turns.
Turns(n) ==
  {g \in [0..n -> Nat] : /\ g[0] = RestartDelay
                         /\ \A i \in 1..n : g[i] = Turn(g[i - 1])}

\* The loop can take any number of turns.
LEMMA TurnsExist == \A n \in Nat : Turns(n) # {}
<1> DEFINE Bad == {n \in Nat : Turns(n) = {}}
<1> SUFFICES ASSUME Bad # {} PROVE FALSE
  OBVIOUS
<1>1. PICK m \in Bad : \A k \in Bad : m <= k
  BY LeastNumber
<1>2. m # 0
  <2>1. [i \in 0..0 |-> RestartDelay] \in Turns(0)
    BY SupervisorAssumption DEF Turns
  <2> QED BY <2>1
<1>3. m - 1 \in Nat /\ m - 1 \notin Bad
  BY <1>1, <1>2
<1>4. PICK g \in Turns(m - 1) : TRUE
  BY <1>3
<1>5. g[m - 1] \in Nat
  BY <1>3, <1>4 DEF Turns
<1>6. Turn(g[m - 1]) \in Nat
  BY <1>5, SupervisorAssumption DEF Turn
<1> DEFINE h == [i \in 0..m |-> IF i = m THEN Turn(g[m - 1]) ELSE g[i]]
<1>7. h \in [0..m -> Nat]
  <2> SUFFICES ASSUME NEW i \in 0..m PROVE h[i] \in Nat
    OBVIOUS
  <2>1. CASE i = m
    BY <1>6, <2>1
  <2>2. CASE i # m
    <3>1. i \in 0..(m - 1)
      BY <1>1, <2>2
    <3> QED BY <3>1, <2>2, <1>4 DEF Turns
  <2> QED BY <2>1, <2>2
<1>8. h[0] = RestartDelay
  BY <1>1, <1>2, <1>3, <1>4 DEF Turns
<1>9. ASSUME NEW i \in 1..m PROVE h[i] = Turn(h[i - 1])
  <2>1. i - 1 \in 0..m /\ i - 1 # m
    BY <1>1
  <2>2. h[i - 1] = g[i - 1]
    BY <2>1
  <2>3. CASE i = m
    BY <2>2, <2>3
  <2>4. CASE i # m
    <3>1. i \in 1..(m - 1) /\ i \in 0..m
      BY <1>1, <2>4
    <3>2. g[i] = Turn(g[i - 1])
      BY <3>1, <1>4 DEF Turns
    <3> QED BY <2>2, <2>4, <3>1, <3>2
  <2> QED BY <2>3, <2>4
<1> HIDE DEF h
<1>10. h \in Turns(m)
  BY <1>7, <1>8, <1>9 DEF Turns
<1> QED BY <1>10

\* More turns change nothing about the first ones.
LEMMA TurnsAgree ==
  ASSUME NEW n \in Nat, NEW g \in Turns(n), NEW h \in Turns(n + 1)
  PROVE  g[n] = h[n]
<1> DEFINE Bad == {i \in 0..n : g[i] # h[i]}
<1> SUFFICES ASSUME Bad # {} PROVE FALSE
  BY n \in 0..n
<1>0. Bad \in SUBSET Nat
  OBVIOUS
<1> HIDE DEF Bad
<1>1. PICK m \in Bad : \A k \in Bad : m <= k
  BY <1>0, LeastNumber
<1> USE DEF Bad
<1>2. m # 0
  BY DEF Turns
<1>3. m - 1 \in 0..n /\ m - 1 \notin Bad
  BY <1>1, <1>2
<1>4. g[m] = Turn(g[m - 1]) /\ h[m] = Turn(h[m - 1])
  BY <1>1, <1>2 DEF Turns
<1> QED BY <1>3, <1>4

\* The recursion that defines Doubled has a solution, and it is a number.
LEMMA DoubledType == Doubled \in [Nat -> Nat]
<1> DEFINE T(n) == CHOOSE g \in Turns(n) : TRUE
           f == [n \in Nat |-> T(n)[n]]
           Body(u) == [i \in Nat |->
                        IF i = 0 THEN RestartDelay
                        ELSE IF u[i - 1] < MaxRestartDelay THEN 2 * u[i - 1]
                                                           ELSE u[i - 1]]
<1>1. \A n \in Nat : T(n) \in Turns(n)
  BY TurnsExist
<1> HIDE DEF T
<1>2. \A n \in Nat : T(n)[n] \in Nat
  BY <1>1 DEF Turns
<1>3. f \in [Nat -> Nat]
  BY <1>2
<1>4. ASSUME NEW i \in Nat
      PROVE  f[i] = Body(f)[i]
  <2>1. CASE i = 0
    BY <1>1, <2>1 DEF Turns
  <2>2. CASE i # 0
    <3> DEFINE j == i - 1
    <3>1. j \in Nat /\ i = j + 1
      BY <2>2
    <3>2. T(j)[j] = T(i)[j]
      BY <1>1, <3>1, TurnsAgree
    <3>3. T(i)[i] = Turn(T(i)[j])
      BY <1>1, <3>1 DEF Turns
    <3>4. f[i] = Turn(f[j])
      BY <3>1, <3>2, <3>3
    <3> QED BY <2>2, <3>4 DEF Turn
  <2> QED BY <2>1, <2>2
<1>5. f = Body(f)
  BY <1>3, <1>4
<1> HIDE DEF f
<1>6. Doubled = Body(Doubled)
  BY <1>5 DEF Doubled
<1>7. Doubled \in [Nat -> Nat]
  <2> DEFINE Bad == {n \in Nat : Doubled[n] \notin Nat}
  <2>1. DOMAIN Doubled = Nat /\ Doubled = [n \in Nat |-> Doubled[n]]
    BY <1>6
  <2>2. ASSUME Bad # {} PROVE FALSE
    <3>1. PICK m \in Bad : \A k \in Bad : m <= k
      BY <2>2, LeastNumber
    <3>2. m # 0
      BY <1>6, <3>1, SupervisorAssumption
    <3>3. m - 1 \in Nat /\ Doubled[m - 1] \in Nat
      BY <3>1, <3>2
    <3>4. Doubled[m] = IF Doubled[m - 1] < MaxRestartDelay
                         THEN 2 * Doubled[m - 1] ELSE Doubled[m - 1]
      BY <1>6, <3>1, <3>2
    <3> QED BY <3>1, <3>3, <3>4
  <2> QED BY <2>1, <2>2
<1> QED BY <1>7

\* Whatever the number of failures, the delay before a restart is a number and
\* never longer than the larger of RestartDelay and MaxRestartDelay.
LEMMA BackoffType ==
  ASSUME NEW s, s.fails \in Nat
  PROVE  calculateBackoff(s) \in 0..LongestDelay
<1> DEFINE n == IF s.fails = 0 THEN 0 ELSE s.fails - 1
<1>1. Doubled[n] \in Nat
  BY DoubledType
<1>2. Capped(Doubled[n]) \in 0..LongestDelay
  BY <1>1, SupervisorAssumption DEF Capped, LongestDelay
<1>3. RestartDelay \in 0..LongestDelay
  BY SupervisorAssumption DEF LongestDelay
<1> HIDE DEF n
<1>4. calculateBackoff(s) = IF Forgotten(s) THEN RestartDelay
                                            ELSE Capped(Doubled[n])
  BY DEF calculateBackoff, n
<1> QED BY <1>2, <1>3, <1>4

-----------------------------------------------------------------------------
(* The inductive invariant *)

\* Objects, goroutines and processes are numbered as they come; what has not
\* come yet is untouched.  What is under way names an object and a process
\* that exist.
Numbered ==
  /\ current <= created
  /\ \A l \in Loop : IF l > started THEN loops[l].obj = 0 /\ loops[l].phase = "off"
                                    ELSE loops[l].obj \in 1..created
  /\ \A l \in Loop : loops[l].phase \in {"spawned", "waiting"}
                       => loops[l].pid # 0
  /\ \A o \in Object, k \in Stopper :
       /\ term[o][k].phase # "none" => o <= created /\ svc[o].stop
       /\ term[o][k].phase \in {"signal", "wait", "gone"} => term[o][k].pid # 0

\* The process that is known of goroutine l of object o.
Known(o, l) ==
  CASE loops[l].phase = "spawned" -> {loops[l].pid}
    [] loops[l].phase \in {"started", "waiting"} -> {svc[o].pid}
    [] OTHER -> {}

\* The goroutine l of object o accounts for its process.
Tracked(o, l) ==
  /\ Alive(o) \subseteq Known(o, l)
  /\ svc[o].pid # 0 => loops[l].phase \in {"started", "waiting"}
  /\ loops[l].phase = "waiting" => loops[l].pid = svc[o].pid

\* A stop of o that has found a process: it is the last one there is, and the
\* goroutine l has passed the point where it would make another.
Halted(o, k) ==
  term[o][k].phase \in {"signal", "wait", "gone"} =>
    /\ Alive(o) \subseteq {term[o][k].pid}
    /\ term[o][k].phase = "gone" => Alive(o) = {}
    /\ \A l \in Loop : loops[l].obj = o =>
                         loops[l].phase \notin {"starting", "spawned"}

\* What holds of an object that is started once.
Accounted(o) ==
  StartedOnce(o) =>
    /\ \A l \in Loop : loops[l].obj = o => Tracked(o, l)
    /\ (\A l \in Loop : loops[l].obj # o) => Alive(o) = {} /\ svc[o].pid = 0
    /\ \A k \in Stopper : Halted(o, k)

SupervisorInv == TypeOK /\ Numbered /\ \A o \in Object : Accounted(o)

-----------------------------------------------------------------------------
(* Type correctness and numbering *)

\* A goroutine that has begun works for an object that exists.
LEMMA LoopObject ==
  ASSUME TypeOK, Numbered, NEW l \in Loop, loops[l].phase # "off"
  PROVE  loops[l].obj \in Object /\ loops[l].obj <= created
BY SupervisorAssumption DEF TypeOK, Numbered, Object, Loop

\* The first state has its types and numbers.
LEMMA TypeInit == Init => TypeOK /\ Numbered
<1> SUFFICES ASSUME Init PROVE TypeOK /\ Numbered
  OBVIOUS
<1>1. NoService \in ServiceRecord
  BY SupervisorAssumption DEF NoService, ServiceRecord, ServiceState, LongAgo
<1>2. NoLoop \in LoopRecord
  BY SupervisorAssumption DEF NoLoop, LoopRecord, LongestDelay
<1>3. NoProc \in ProcRecord
  BY SupervisorAssumption DEF NoProc, ProcRecord
<1>4. NotCalled \in TermRecord
  BY SupervisorAssumption DEF NotCalled, TermRecord
<1>5. /\ svc \in [Object -> ServiceRecord]
      /\ loops \in [Loop -> LoopRecord]
      /\ procs \in [Pid -> ProcRecord]
      /\ term \in [Object -> [Stopper -> TermRecord]]
  BY <1>1, <1>2, <1>3, <1>4 DEF Init
<1>6. 0 \in 0..MaxObjects /\ 0 \in 0..MaxLoops /\ 0 \in 0..MaxTries
  BY SupervisorAssumption
<1>7. TypeOK
  BY <1>5, <1>6, Zenon DEF Init, TypeOK
<1>8. Numbered
  <2>1. current = 0 /\ created = 0 /\ started = 0
    BY DEF Init
  <2>2. \A l \in Loop : loops[l] = NoLoop
    BY DEF Init
  <2>3. \A o \in Object, k \in Stopper : term[o][k] = NotCalled
    BY DEF Init
  <2>4. \A l \in Loop : l > started /\ loops[l].obj = 0 /\ loops[l].phase = "off"
    BY <2>1, <2>2 DEF NoLoop, Loop
  <2> QED BY <2>1, <2>3, <2>4 DEF Numbered, NotCalled
<1> QED BY <1>7, <1>8

\* A step of a supervise goroutine changes the phase, the process and the
\* delay of its record.
LEMMA LoopUpdate ==
  ASSUME NEW r \in LoopRecord,
         NEW x \in {"off", "top", "starting", "spawned", "started", "waiting",
                    "decide", "backoff", "done"},
         NEW p \in 0..MaxTries, NEW d \in 0..LongestDelay
  PROVE  /\ [r EXCEPT !.phase = x] \in LoopRecord
         /\ [r EXCEPT !.phase = x, !.pid = p] \in LoopRecord
         /\ [r EXCEPT !.phase = x, !.delay = d] \in LoopRecord
BY DEF LoopRecord

\* The changes that steps make to a Service object.
LEMMA ServiceUpdate ==
  ASSUME NEW r \in ServiceRecord, NEW x \in ServiceState, NEW n \in Nat,
         NEW p \in 0..MaxTries, NEW c \in {0, 1}
  PROVE  /\ [r EXCEPT !.state = x, !.fails = n] \in ServiceRecord
         /\ [r EXCEPT !.pid = p, !.state = x, !.restarts = n] \in ServiceRecord
         /\ [r EXCEPT !.fails = n, !.state = x] \in ServiceRecord
         /\ [r EXCEPT !.pid = 0, !.age = 0, !.exitCode = c, !.state = x,
                      !.fails = n] \in ServiceRecord
<1>1. 0 \in 0..MaxTries /\ 0 \in 0..LongAgo
  BY SupervisorAssumption DEF LongAgo
<1>2. \A q \in ServiceRecord : [q EXCEPT !.state = x] \in ServiceRecord
  BY DEF ServiceRecord
<1>3. \A q \in ServiceRecord : [q EXCEPT !.fails = n] \in ServiceRecord
  BY DEF ServiceRecord
<1>4. \A q \in ServiceRecord : [q EXCEPT !.restarts = n] \in ServiceRecord
  BY DEF ServiceRecord
<1>5. \A q \in ServiceRecord, i \in 0..MaxTries :
        [q EXCEPT !.pid = i] \in ServiceRecord
  BY DEF ServiceRecord
<1>6. \A q \in ServiceRecord :
        [[q EXCEPT !.age = 0] EXCEPT !.exitCode = c] \in ServiceRecord
  BY <1>1 DEF ServiceRecord
<1> QED BY <1>1, <1>2, <1>3, <1>4, <1>5, <1>6, Zenon

\* No step of a supervise goroutine takes a variable out of its type.
LEMMA SuperviseType ==
  ASSUME TypeOK, Numbered, NEW l \in Loop, Supervise(l)
  PROVE  TypeOK'
<1> DEFINE o == loops[l].obj
<1>t. /\ svc \in [Object -> ServiceRecord]
      /\ loops \in [Loop -> LoopRecord]
      /\ procs \in [Pid -> ProcRecord]
      /\ tries \in 0..MaxTries
  BY DEF TypeOK
<1>l. loops[l] \in LoopRecord /\ loops[l].pid \in 0..MaxTries
  BY <1>t DEF LoopRecord
<1>o. o \in Object
  BY LoopObject DEF Supervise, Top, Spawn, SpawnFails, Record, ReadCmd,
                    WaitReturns, Decide, BackoffPasses, BackoffStops
<1>s. svc[o] \in ServiceRecord /\ svc[o].pid \in 0..MaxTries
  BY <1>t, <1>o DEF ServiceRecord
<1>n. /\ svc[o].fails + 1 \in Nat /\ svc[o].restarts + 1 \in Nat
      /\ svc[o].fails \in Nat /\ svc[o].state \in ServiceState
  BY <1>s DEF ServiceRecord
<1>r. ASSUME NEW s \in ServiceRecord PROVE [svc EXCEPT ![o] = s] \in [Object -> ServiceRecord]
  BY <1>t
<1> HIDE DEF o
<1>1. CASE Top(l)
  <2>1. svc' \in [Object -> ServiceRecord]
    BY <1>1, <1>t DEF Top, ServiceRecord, ServiceState
  <2>2. loops' \in [Loop -> LoopRecord]
    BY <1>1, <1>t DEF Top, LoopRecord
  <2> QED BY <1>1, <2>1, <2>2 DEF Top, TypeOK
<1>2. CASE Spawn(l)
  <2>1. tries' \in 0..MaxTries /\ tries + 1 \in 0..MaxTries
    BY <1>2, <1>t, SupervisorAssumption DEF Spawn
  <2>2. loops' \in [Loop -> LoopRecord]
    BY <1>2, <1>t, <2>1 DEF Spawn, LoopRecord
  <2>3. procs' \in [Pid -> ProcRecord]
    BY <1>2, <1>t, <1>l DEF Spawn, ProcRecord, LoopRecord
  <2> QED BY <1>2, <2>1, <2>2, <2>3 DEF Spawn, TypeOK
<1>3. CASE SpawnFails(l)
  <2>1. tries' \in 0..MaxTries
    BY <1>3, <1>t, SupervisorAssumption DEF SpawnFails
  <2>2. loops' \in [Loop -> LoopRecord]
    BY <1>3, <1>t DEF SpawnFails, LoopRecord
  <2>3. svc' \in [Object -> ServiceRecord]
    <3>1. [svc[o] EXCEPT !.state = "failed", !.fails = svc[o].fails + 1]
            \in ServiceRecord
      BY <1>s, <1>n, ServiceUpdate DEF ServiceState
    <3>2. svc' = [svc EXCEPT ![o] = [svc[o] EXCEPT !.state = "failed",
                                                   !.fails = svc[o].fails + 1]]
      BY <1>3, <1>t, <1>o DEF SpawnFails, o
    <3> QED BY <1>r, <3>1, <3>2
  <2> QED BY <1>3, <2>1, <2>2, <2>3 DEF SpawnFails, TypeOK
<1>4. CASE Record(l)
  <2>1. loops' \in [Loop -> LoopRecord]
    BY <1>4, <1>t DEF Record, LoopRecord
  <2>2. svc' \in [Object -> ServiceRecord]
    <3> DEFINE s == [svc[o] EXCEPT !.pid = loops[l].pid, !.state = "running",
                                   !.restarts = svc[o].restarts + 1]
    <3>1. s \in ServiceRecord
      BY <1>l, <1>s, <1>n, ServiceUpdate DEF ServiceState
    <3>2. svc' = [svc EXCEPT ![o] = s]
      BY <1>4, <1>t, <1>o DEF Record, o
    <3> HIDE DEF s
    <3> QED BY <1>r, <3>1, <3>2
  <2> QED BY <1>4, <2>1, <2>2 DEF Record, TypeOK
<1>5. CASE ReadCmd(l)
  <2>1. loops' \in [Loop -> LoopRecord]
    BY <1>5, <1>t, <1>s DEF ReadCmd, LoopRecord, o
  <2> QED BY <1>5, <2>1 DEF ReadCmd, TypeOK
<1>6. CASE WaitReturns(l)
  <2>1. loops' \in [Loop -> LoopRecord]
    <3>1. [loops[l] EXCEPT !.phase = "decide", !.pid = 0] \in LoopRecord
      <4>1. 0 \in 0..MaxTries /\ 0 \in 0..LongestDelay
        BY SupervisorAssumption DEF LongestDelay
      <4> QED BY <1>l, <4>1, LoopUpdate
    <3>2. loops' = [loops EXCEPT ![l] = [loops[l] EXCEPT !.phase = "decide",
                                                         !.pid = 0]]
      BY <1>6, <1>t DEF WaitReturns
    <3> QED BY <1>t, <3>1, <3>2
  <2>2. procs' \in [Pid -> ProcRecord]
    BY <1>6, <1>t DEF WaitReturns, ProcRecord
  <2>3. loops[l].pid \in Pid
    <3>1. loops[l].pid # 0
      BY <1>6 DEF WaitReturns, Numbered
    <3>2. loops[l].pid \in 0..MaxTries /\ MaxTries \in Nat
      BY <1>l, SupervisorAssumption
    <3> QED BY ONLY <3>1, <3>2 DEF Pid
  <2> DEFINE code == IF procs[loops[l].pid].status = "reaped" THEN 1
                     ELSE procs[loops[l].pid].code
             s == [svc[o] EXCEPT !.pid = 0, !.age = 0, !.exitCode = code,
                     !.state = IF code = 0 THEN "stopped" ELSE "failed",
                     !.fails = IF code = 0 THEN 0 ELSE svc[o].fails + 1]
  <2>4. code \in {0, 1}
    BY <1>t, <2>3 DEF ProcRecord
  <2>5. svc' = [svc EXCEPT ![o] = s]
    BY <1>6, <1>t, <1>o DEF WaitReturns, o
  <2> HIDE DEF code
  <2>6. s \in ServiceRecord
    <3>1. /\ (IF code = 0 THEN "stopped" ELSE "failed") \in ServiceState
          /\ (IF code = 0 THEN 0 ELSE svc[o].fails + 1) \in Nat
      BY <1>n DEF ServiceState
    <3>2. 0 \in 0..MaxTries
      BY SupervisorAssumption
    <3> QED BY <1>s, <2>4, <3>1, <3>2, ServiceUpdate
  <2> HIDE DEF s
  <2>7. svc' \in [Object -> ServiceRecord]
    BY <1>r, <2>5, <2>6
  <2> QED BY <1>6, <2>1, <2>2, <2>7 DEF WaitReturns, TypeOK
<1>7. CASE Decide(l)
  <2>1. calculateBackoff(svc[o]) \in 0..LongestDelay
    BY <1>s, BackoffType DEF ServiceRecord
  <2>2. loops' \in [Loop -> LoopRecord]
    BY <1>7, <1>t, <1>l, <2>1, LoopUpdate, SupervisorAssumption DEF Decide, o
  <2>3. svc' \in [Object -> ServiceRecord]
    <3> DEFINE n == IF Forgotten(svc[o]) THEN 0 ELSE svc[o].fails
               x == IF shouldRestart(svc[o]) THEN "backoff" ELSE svc[o].state
    <3>1. n \in Nat /\ x \in ServiceState /\ 0 \in 0..MaxTries
      BY <1>n, SupervisorAssumption DEF ServiceState
    <3>2. svc' = [svc EXCEPT ![o] = [svc[o] EXCEPT !.fails = n, !.state = x]]
      BY <1>7, <1>t, <1>o DEF Decide, o
    <3> HIDE DEF n, x
    <3> QED BY <1>s, <1>r, <3>1, <3>2, ServiceUpdate
  <2> QED BY <1>7, <2>2, <2>3 DEF Decide, TypeOK
<1>8. CASE BackoffPasses(l)
  <2>1. loops' \in [Loop -> LoopRecord]
    BY <1>8, <1>t DEF BackoffPasses, LoopRecord
  <2>2. loops[l].delay \in Nat /\ svc[o].age \in 0..LongAgo /\ LongAgo \in Nat
    BY <1>l, <1>s, SupervisorAssumption
       DEF LoopRecord, ServiceRecord, LongestDelay, LongAgo
  <2> DEFINE age == svc[o].age + loops[l].delay
  <2>3. (IF age > LongAgo THEN LongAgo ELSE age) \in 0..LongAgo
    BY <2>2
  <2>4. svc' \in [Object -> ServiceRecord]
    BY <1>8, <1>t, <1>o, <2>3 DEF BackoffPasses, ServiceRecord, o
  <2> QED BY <1>8, <2>1, <2>4 DEF BackoffPasses, TypeOK
<1>9. CASE BackoffStops(l)
  <2>1. loops' \in [Loop -> LoopRecord]
    BY <1>9, <1>t DEF BackoffStops, LoopRecord
  <2> QED BY <1>9, <2>1 DEF BackoffStops, TypeOK
<1> QED BY <1>1, <1>2, <1>3, <1>4, <1>5, <1>6, <1>7, <1>8, <1>9 DEF Supervise

\* A call of terminateProcess goes on.
LEMMA TermUpdate ==
  ASSUME term \in [Object -> [Stopper -> TermRecord]],
         NEW o \in Object, NEW k \in Stopper,
         NEW x \in {"none", "read", "signal", "wait", "unseen", "gone"}
  PROVE  [term EXCEPT ![o][k].phase = x] \in [Object -> [Stopper -> TermRecord]]
<1>1. [term[o][k] EXCEPT !.phase = x] \in TermRecord
  BY DEF TermRecord
<1>2. [term[o] EXCEPT ![k] = [term[o][k] EXCEPT !.phase = x]]
        \in [Stopper -> TermRecord]
  BY <1>1
<1> QED BY <1>2

\* No step takes a variable out of its type.
LEMMA TypeStep ==
  ASSUME TypeOK, Numbered, [Next]_vars
  PROVE  TypeOK'
<1>t. /\ svc \in [Object -> ServiceRecord]
      /\ loops \in [Loop -> LoopRecord]
      /\ procs \in [Pid -> ProcRecord]
      /\ term \in [Object -> [Stopper -> TermRecord]]
      /\ created \in 0..MaxObjects /\ current \in 0..MaxObjects
  BY DEF TypeOK
<1>1. ASSUME NEW policy \in Policies, Add(policy)
      PROVE  TypeOK'
  <2>1. created + 1 \in 0..MaxObjects
    BY <1>1, <1>t, SupervisorAssumption DEF Add
  <2>2. [NoService EXCEPT !.policy = policy] \in ServiceRecord
    <3>1. NoService \in ServiceRecord
      BY SupervisorAssumption DEF NoService, ServiceRecord, ServiceState, LongAgo
    <3>2. policy \in {"always", "on-failure", "never"}
      BY SupervisorAssumption
    <3> QED BY <3>1, <3>2 DEF ServiceRecord
  <2>3. svc' \in [Object -> ServiceRecord]
    BY <1>1, <1>t, <2>2 DEF Add
  <2> QED BY <1>1, <2>1, <2>3 DEF Add, TypeOK
<1>2. CASE Start
  <2>1. [NoLoop EXCEPT !.obj = current, !.phase = "top"] \in LoopRecord
    <3>1. NoLoop \in LoopRecord
      BY SupervisorAssumption DEF NoLoop, LoopRecord, LongestDelay
    <3> QED BY <1>t, <3>1 DEF LoopRecord
  <2>2. loops' \in [Loop -> LoopRecord]
    BY <1>2, <1>t, <2>1 DEF Start
  <2>3. started' \in 0..MaxLoops
    BY <1>2, SupervisorAssumption DEF Start, TypeOK
  <2> QED BY <1>2, <2>2, <2>3 DEF Start, TypeOK
<1>3. ASSUME NEW l \in Loop, Supervise(l)
      PROVE  TypeOK'
  BY <1>3, SuperviseType
<1>c. ASSUME current # 0
      PROVE  /\ current \in Object
             /\ [svc EXCEPT ![current].stop = TRUE] \in [Object -> ServiceRecord]
  <2>1. current \in Object
    BY <1>c, <1>t, SupervisorAssumption DEF Object
  <2>2. [svc[current] EXCEPT !.stop = TRUE] \in ServiceRecord
    BY <1>t, <2>1 DEF ServiceRecord
  <2> QED BY <1>t, <2>1, <2>2
<1>4. ASSUME NEW k \in Caller, Stop(k)
      PROVE  TypeOK'
  <2>1. term' \in [Object -> [Stopper -> TermRecord]]
    BY <1>4, <1>t, <1>c, TermUpdate DEF Stop, Stopper
  <2> QED BY <1>4, <1>c, <2>1 DEF Stop, TypeOK
<1>5. ASSUME NEW o \in Object, NEW k \in Stopper, TerminateStep(o, k)
      PROVE  TypeOK'
  <2>1. term' \in [Object -> [Stopper -> TermRecord]]
    <3>1. CASE ReadProcess(o, k)
      <4>1. svc[o].pid \in 0..MaxTries
        BY <1>t DEF ServiceRecord
      <4> QED BY <1>t, <3>1, <4>1 DEF ReadProcess, TermRecord
    <3>2. CASE Terminate(o, k)
      BY <1>t, <3>2, TermUpdate DEF Terminate
    <3>3. CASE Kill(o, k)
      BY <1>t, <3>3 DEF Kill
    <3>4. CASE Terminated(o, k)
      BY <1>t, <3>4, TermUpdate DEF Terminated
    <3> QED BY <1>5, <3>1, <3>2, <3>3, <3>4 DEF TerminateStep
  <2>2. procs' \in [Pid -> ProcRecord]
    <3>1. CASE ReadProcess(o, k) \/ Terminate(o, k)
      BY <1>t, <3>1 DEF ReadProcess, Terminate
    <3>2. CASE Kill(o, k)
      BY <1>t, <3>2 DEF Kill, ProcRecord
    <3>3. CASE Terminated(o, k)
      BY <1>t, <3>3 DEF Terminated, ProcRecord
    <3> QED BY <1>5, <3>1, <3>2, <3>3 DEF TerminateStep
  <2>3. UNCHANGED <<current, svc, created, loops, started, tries, stopping,
                    stopAll>>
    BY <1>5 DEF TerminateStep, ReadProcess, Terminate, Kill, Terminated
  <2> QED BY <2>1, <2>2, <2>3 DEF TypeOK
<1>6. CASE StopAll
  <2>1. CASE current = 0
    BY <1>6, <2>1 DEF StopAll, TypeOK
  <2>2. CASE current # 0
    <3>1. /\ term' = [term EXCEPT ![current]["all"].phase = "read"]
          /\ svc' = [svc EXCEPT ![current].stop = TRUE]
      BY <1>6, <2>2 DEF StopAll
    <3>2. term' \in [Object -> [Stopper -> TermRecord]]
      BY <1>t, <1>c, <2>2, <3>1, TermUpdate DEF Stopper
    <3> QED BY <1>6, <1>c, <2>2, <3>1, <3>2 DEF StopAll, TypeOK
  <2> QED BY <2>1, <2>2
<1>7. CASE StopAllWaits \/ StopAllReturns
  BY <1>7 DEF StopAllWaits, StopAllReturns, TypeOK
<1>8. ASSUME NEW p \in Pid, NEW code \in {0, 1}, Exit(p, code)
      PROVE  TypeOK'
  <2>1. procs' \in [Pid -> ProcRecord]
    BY <1>8, <1>t DEF Exit, ProcRecord
  <2> QED BY <1>8, <2>1 DEF Exit, TypeOK
<1>9. CASE UNCHANGED vars
  BY <1>9 DEF vars, TypeOK
<1> QED BY <1>1, <1>2, <1>3, <1>4, <1>5, <1>6, <1>7, <1>8, <1>9 DEF Next

\* What a step of a supervise goroutine leaves alone.
LEMMA SuperviseEffect ==
  ASSUME TypeOK, Numbered, NEW l \in Loop, Supervise(l)
  PROVE  /\ UNCHANGED <<current, created, started, term, stopping, stopAll>>
         /\ \A o \in Object : svc'[o].stop = svc[o].stop
         /\ \A o \in Object : o # loops[l].obj => svc'[o] = svc[o]
         /\ \A m \in Loop : m # l => loops'[m] = loops[m]
         /\ loops[l].phase # "off" /\ loops'[l].phase # "off"
         /\ loops'[l].obj = loops[l].obj
         /\ loops'[l].phase \in {"spawned", "waiting"} => loops'[l].pid # 0
<1>t. svc \in [Object -> ServiceRecord] /\ loops \in [Loop -> LoopRecord]
      /\ tries \in Nat
  BY SupervisorAssumption DEF TypeOK
<1>1. CASE Top(l)
  BY <1>1, <1>t DEF Top, ServiceRecord, LoopRecord
<1>2. CASE Spawn(l)
  BY <1>2, <1>t DEF Spawn, ServiceRecord, LoopRecord
<1>3. CASE SpawnFails(l)
  BY <1>3, <1>t DEF SpawnFails, ServiceRecord, LoopRecord
<1>4. CASE Record(l)
  BY <1>4, <1>t DEF Record, ServiceRecord, LoopRecord
<1>5. CASE ReadCmd(l)
  BY <1>5, <1>t DEF ReadCmd, ServiceRecord, LoopRecord
<1>6. CASE WaitReturns(l)
  BY <1>6, <1>t DEF WaitReturns, ServiceRecord, LoopRecord
<1>7. CASE Decide(l)
  BY <1>7, <1>t DEF Decide, ServiceRecord, LoopRecord
<1>8. CASE BackoffPasses(l)
  BY <1>8, <1>t DEF BackoffPasses, ServiceRecord, LoopRecord
<1>9. CASE BackoffStops(l)
  BY <1>9, <1>t DEF BackoffStops, ServiceRecord, LoopRecord
<1> QED BY <1>1, <1>2, <1>3, <1>4, <1>5, <1>6, <1>7, <1>8, <1>9 DEF Supervise

\* Every step keeps the numbering.
LEMMA NumberedStep ==
  ASSUME TypeOK, Numbered, [Next]_vars
  PROVE  Numbered'
<1>t. /\ svc \in [Object -> ServiceRecord]
      /\ loops \in [Loop -> LoopRecord]
      /\ term \in [Object -> [Stopper -> TermRecord]]
      /\ created \in 0..MaxObjects /\ current \in 0..MaxObjects
      /\ started \in 0..MaxLoops /\ tries \in 0..MaxTries
      /\ MaxObjects \in Nat /\ MaxLoops \in Nat /\ MaxTries \in Nat
  BY SupervisorAssumption DEF TypeOK
<1> DEFINE LoopNumbered(l) ==
      /\ IF l > started THEN loops[l].obj = 0 /\ loops[l].phase = "off"
                        ELSE loops[l].obj \in 1..created
      /\ loops[l].phase \in {"spawned", "waiting"} => loops[l].pid # 0
    TermNumbered(o, k) ==
      /\ term[o][k].phase # "none" => o <= created /\ svc[o].stop
      /\ term[o][k].phase \in {"signal", "wait", "gone"} => term[o][k].pid # 0
<1>n. Numbered <=> /\ current <= created
                   /\ \A l \in Loop : LoopNumbered(l)
                   /\ \A o \in Object, k \in Stopper : TermNumbered(o, k)
  BY DEF Numbered
<1>p. Numbered' <=> /\ current' <= created'
                    /\ \A l \in Loop : LoopNumbered(l)'
                    /\ \A o \in Object, k \in Stopper : TermNumbered(o, k)'
  BY DEF Numbered
<1>1. ASSUME NEW policy \in Policies, Add(policy)
      PROVE  Numbered'
  <2>1. /\ created' = created + 1 /\ current' = created + 1
        /\ UNCHANGED <<loops, started, term>>
        /\ \A o \in Object : o # created + 1 => svc'[o] = svc[o]
    BY <1>1, <1>t DEF Add
  <2>2. \A l \in Loop : LoopNumbered(l)'
    BY <1>t, <1>n, <2>1
  <2>3. \A o \in Object, k \in Stopper : TermNumbered(o, k)'
    BY <1>t, <1>n, <2>1 DEF Object
  <2> QED BY <1>t, <1>p, <2>1, <2>2, <2>3
<1>2. CASE Start
  <2>1. /\ started' = started + 1 /\ current # 0
        /\ UNCHANGED <<current, created, term, svc>>
        /\ \A m \in Loop : m # started + 1 => loops'[m] = loops[m]
        /\ started + 1 \in Loop
    BY <1>2, <1>t DEF Start, Loop
  <2>2. /\ loops'[started + 1].obj = current
        /\ loops'[started + 1].phase = "top"
    BY <1>2, <1>t, <2>1 DEF Start, NoLoop
  <2>3. ASSUME NEW m \in Loop PROVE LoopNumbered(m)'
    <3>1. CASE m = started + 1
      BY <1>n, <1>t, <2>1, <2>2, <3>1
    <3>2. CASE m # started + 1
      BY <1>n, <1>t, <2>1, <3>2 DEF Loop
    <3> QED BY <3>1, <3>2
  <2>4. \A o \in Object, k \in Stopper : TermNumbered(o, k)'
    BY <1>n, <2>1
  <2> QED BY <1>n, <1>p, <2>1, <2>3, <2>4
<1>s. ASSUME UNCHANGED <<current, created, loops, started>>,
             \A o \in Object, k \in Stopper : TermNumbered(o, k)'
      PROVE  Numbered'
  BY <1>s, <1>n, <1>p
<1>3. ASSUME NEW l \in Loop, Supervise(l)
      PROVE  Numbered'
  <2>1. /\ UNCHANGED <<current, created, started, term>>
        /\ \A o \in Object : svc'[o].stop = svc[o].stop
        /\ \A m \in Loop : m # l => loops'[m] = loops[m]
        /\ loops[l].phase # "off" /\ loops'[l].phase # "off"
        /\ loops'[l].obj = loops[l].obj
        /\ loops'[l].phase \in {"spawned", "waiting"} => loops'[l].pid # 0
    BY <1>3, SuperviseEffect
  <2>5. \A m \in Loop : LoopNumbered(m)'
    BY <1>n, <2>1
  <2>6. \A o \in Object, k \in Stopper : TermNumbered(o, k)'
    BY <1>n, <2>1
  <2> QED BY <1>n, <1>p, <2>1, <2>5, <2>6
<1>4. ASSUME NEW k \in Stopper, current # 0,
             svc' = [svc EXCEPT ![current].stop = TRUE],
             term' = [term EXCEPT ![current][k].phase = "read"],
             UNCHANGED <<current, created, loops, started>>
      PROVE  Numbered'
  <2>1. current \in Object /\ current <= created
    BY <1>4, <1>t, <1>n DEF Object
  <2>2. \A o \in Object : svc[o].stop => svc'[o].stop
    BY <1>4, <1>t DEF ServiceRecord
  <2>3. svc'[current].stop
    BY <1>4, <1>t, <2>1 DEF ServiceRecord
  <2>4. \A o \in Object, j \in Stopper :
          (o # current \/ j # k) => term'[o][j] = term[o][j]
    BY <1>4, <1>t
  <2>5. term'[current][k].phase = "read"
    BY <1>4, <1>t, <2>1 DEF TermRecord
  <2>6. ASSUME NEW o \in Object, NEW j \in Stopper
        PROVE  TermNumbered(o, j)'
    <3>1. CASE o = current /\ j = k
      BY <1>4, <2>1, <2>3, <2>5, <3>1
    <3>2. CASE o # current \/ j # k
      BY <1>4, <1>n, <2>2, <2>4, <3>2
    <3> QED BY <3>1, <3>2
  <2> QED BY <1>4, <1>s, <2>6
<1>5. ASSUME NEW k \in Caller, Stop(k)
      PROVE  Numbered'
  BY <1>5, <1>4 DEF Stop, Stopper
<1>6. CASE StopAll
  <2>1. CASE current = 0
    BY <1>6, <1>n, <1>s, <2>1 DEF StopAll
  <2>2. CASE current # 0
    BY <1>6, <1>4, <2>2 DEF StopAll, Stopper
  <2> QED BY <2>1, <2>2
<1>7. ASSUME NEW o \in Object, NEW k \in Stopper, TerminateStep(o, k)
      PROVE  Numbered'
  <2>1. UNCHANGED <<current, created, loops, started, svc>>
    BY <1>7 DEF TerminateStep, ReadProcess, Terminate, Kill, Terminated
  <2>2. \A b \in Object, j \in Stopper :
          (b # o \/ j # k) => term'[b][j] = term[b][j]
    BY <1>7, <1>t DEF TerminateStep, ReadProcess, Terminate, Kill, Terminated
  <2>3. /\ term[o][k].phase \in {"read", "signal", "wait"}
        /\ term'[o][k].phase \in {"signal", "wait", "gone"}
             => term'[o][k].pid # 0
    BY <1>7, <1>t, <1>n
       DEF TerminateStep, ReadProcess, Terminate, Kill, Terminated, TermRecord
  <2>4. \A b \in Object, j \in Stopper : TermNumbered(b, j)'
    BY <1>n, <2>1, <2>2, <2>3
  <2> QED BY <1>s, <2>1, <2>4
<1>8. CASE StopAllWaits \/ StopAllReturns
  BY <1>8, <1>n, <1>s DEF StopAllWaits, StopAllReturns
<1>9. ASSUME NEW p \in Pid, NEW code \in {0, 1}, Exit(p, code)
      PROVE  Numbered'
  BY <1>9, <1>n, <1>s DEF Exit
<1>10. CASE UNCHANGED vars
  BY <1>10, <1>n, <1>s DEF vars
<1> QED BY <1>1, <1>2, <1>3, <1>5, <1>6, <1>7, <1>8, <1>9, <1>10 DEF Next

-----------------------------------------------------------------------------
(* Processes are accounted for *)

\* A step that leaves the goroutines and the record of object o alone, and
\* makes no process for it, keeps it accounted for.
LEMMA Frame ==
  ASSUME NEW o \in Object, Accounted(o),
         \A m \in Loop : loops'[m].obj = loops[m].obj,
         \A m \in Loop : loops[m].obj = o => loops'[m] = loops[m],
         svc'[o].pid = svc[o].pid,
         term'[o] = term[o],
         Alive(o)' \subseteq Alive(o)
  PROVE  Accounted(o)'
<1> SUFFICES ASSUME StartedOnce(o)'
             PROVE  Accounted(o)'
  BY DEF Accounted
<1>1. StartedOnce(o)
  BY DEF StartedOnce
<1>2. \A m \in Loop : loops'[m].obj = o => Tracked(o, m)'
  <2> SUFFICES ASSUME NEW m \in Loop, loops[m].obj = o
               PROVE  Tracked(o, m)'
    OBVIOUS
  <2>1. loops'[m] = loops[m] /\ Tracked(o, m)
    BY <1>1 DEF Accounted
  <2>2. Known(o, m)' = Known(o, m)
    BY <2>1 DEF Known
  <2> QED BY <2>1, <2>2 DEF Tracked
<1>3. (\A m \in Loop : loops'[m].obj # o) => Alive(o)' = {} /\ svc'[o].pid = 0
  BY <1>1 DEF Accounted
<1>4. \A k \in Stopper : Halted(o, k)'
  BY <1>1 DEF Accounted, Halted
<1> QED BY <1>2, <1>3, <1>4 DEF Accounted

\* A step of the one goroutine of object o: what has to be shown of it.
LEMMA OneLoop ==
  ASSUME NEW l \in Loop, NEW o \in Object, loops[l].obj = o, Accounted(o),
         \A m \in Loop : loops'[m].obj = loops[m].obj,
         \A m \in Loop : m # l => loops'[m] = loops[m],
         term'[o] = term[o],
         (StartedOnce(o) /\ Tracked(o, l)) => Tracked(o, l)',
         Alive(o)' \subseteq Alive(o),
         (\E k \in Stopper : term[o][k].phase \in {"signal", "wait", "gone"})
           => loops'[l].phase \notin {"starting", "spawned"}
  PROVE  Accounted(o)'
<1> SUFFICES ASSUME StartedOnce(o)'
             PROVE  Accounted(o)'
  BY DEF Accounted
<1>1. StartedOnce(o)
  BY DEF StartedOnce
<1>2. \A m \in Loop : loops'[m].obj = o => m = l
  BY <1>1 DEF StartedOnce
<1>3. Tracked(o, l)'
  BY <1>1 DEF Accounted
<1>4. \A k \in Stopper : Halted(o, k)'
  BY <1>1, <1>2 DEF Accounted, Halted
<1> QED BY <1>2, <1>3, <1>4 DEF Accounted

\* A step of a supervise goroutine keeps every object accounted for.
LEMMA SuperviseAccounted ==
  ASSUME TypeOK, Numbered, \A o \in Object : Accounted(o),
         NEW l \in Loop, Supervise(l), NEW b \in Object
  PROVE  Accounted(b)'
<1>t. /\ svc \in [Object -> ServiceRecord]
      /\ loops \in [Loop -> LoopRecord]
      /\ procs \in [Pid -> ProcRecord]
      /\ tries \in 0..MaxTries
      /\ MaxTries \in Nat
  BY SupervisorAssumption DEF TypeOK
<1>o. PICK o \in Object : o = loops[l].obj
  BY SuperviseEffect, LoopObject
<1>e. /\ UNCHANGED <<current, created, started, term, stopping, stopAll>>
      /\ \A c \in Object : c # o => svc'[c] = svc[c]
      /\ \A m \in Loop : m # l => loops'[m] = loops[m]
      /\ \A m \in Loop : loops'[m].obj = loops[m].obj
      /\ loops[l].phase # "off"
  BY <1>o, SuperviseEffect
\* The processes of other objects are left alone.
<1>a. \A c \in Object : c # o => Alive(c)' \subseteq Alive(c)
  <2>1. CASE Spawn(l)
    BY <1>t, <1>o, <2>1 DEF Spawn, Alive, ProcRecord
  <2>2. CASE WaitReturns(l)
    BY <1>t, <2>2 DEF WaitReturns, Alive, ProcRecord
  <2>3. CASE UNCHANGED procs
    BY <2>3 DEF Alive
  <2> QED BY <2>1, <2>2, <2>3
          DEF Supervise, Top, SpawnFails, Record, ReadCmd, Decide,
              BackoffPasses, BackoffStops
<1>f. CASE b # o
  BY <1>e, <1>a, <1>f, <1>o, Frame
<1>h. ASSUME NEW k \in Stopper, term[o][k].phase # "none"
      PROVE  Asked(o)
  BY <1>h, <1>o DEF Numbered, Asked
\* The goroutine's own object, unless it makes a process.
<1>g. ASSUME Alive(o)' \subseteq Alive(o),
             (StartedOnce(o) /\ Tracked(o, l)) => Tracked(o, l)',
             (\E k \in Stopper : term[o][k].phase \in {"signal", "wait", "gone"})
               => loops'[l].phase \notin {"starting", "spawned"}
      PROVE  Accounted(o)'
  BY <1>e, <1>o, <1>g, OneLoop
<1>q. CASE b = o
  <2>1. CASE Top(l)
    <3>1. /\ loops[l].phase = "top"
          /\ loops'[l].phase \in {"done", "starting"}
          /\ Asked(o) => loops'[l].phase = "done"
          /\ svc'[o].pid = svc[o].pid
          /\ Alive(o)' = Alive(o)
      BY <1>t, <1>o, <2>1 DEF Top, LoopRecord, ServiceRecord, Alive
    <3>2. Tracked(o, l) => Tracked(o, l)'
      BY <3>1 DEF Tracked, Known
    <3> QED BY <1>g, <1>h, <1>q, <3>1, <3>2
  <2>2. CASE Spawn(l)
    <3> DEFINE p == tries + 1
    <3>1. /\ loops[l].phase = "starting"
          /\ loops'[l].phase = "spawned" /\ loops'[l].pid = p
          /\ svc' = svc
          /\ Alive(o)' \subseteq Alive(o) \cup {p}
      BY <1>t, <1>o, <2>2 DEF Spawn, LoopRecord, ProcRecord, Alive
    <3> SUFFICES ASSUME StartedOnce(o)'
                 PROVE  Accounted(o)'
      BY <1>q DEF Accounted
    <3>2. StartedOnce(o)
      BY <1>e DEF StartedOnce
    <3>3. Tracked(o, l) /\ \A k \in Stopper : Halted(o, k)
      BY <1>o, <3>2 DEF Accounted
    <3>4. Alive(o) = {} /\ svc[o].pid = 0
      BY <3>1, <3>3 DEF Tracked, Known
    <3>5. Tracked(o, l)'
      BY <1>e, <3>1, <3>4 DEF Tracked, Known
    <3>6. \A m \in Loop : loops'[m].obj = o => m = l
      BY <1>e, <1>o, <3>2 DEF StartedOnce
    <3>7. \A k \in Stopper : term[o][k].phase \notin {"signal", "wait", "gone"}
      BY <1>o, <3>1, <3>3 DEF Halted
    <3>8. \A k \in Stopper : Halted(o, k)'
      BY <1>e, <3>7 DEF Halted
    <3> QED BY <1>e, <1>o, <1>q, <3>5, <3>6, <3>8 DEF Accounted
  <2>3. CASE SpawnFails(l)
    <3>1. /\ loops[l].phase = "starting" /\ loops'[l].phase = "decide"
          /\ svc'[o].pid = svc[o].pid
          /\ Alive(o)' = Alive(o)
      BY <1>t, <1>o, <2>3 DEF SpawnFails, LoopRecord, ServiceRecord, Alive
    <3>2. Tracked(o, l) => Tracked(o, l)'
      BY <3>1 DEF Tracked, Known
    <3> QED BY <1>g, <1>q, <3>1, <3>2
  <2>4. CASE Record(l)
    <3>1. /\ loops[l].phase = "spawned" /\ loops'[l].phase = "started"
          /\ svc'[o].pid = loops[l].pid
          /\ Alive(o)' = Alive(o)
      BY <1>t, <1>o, <2>4 DEF Record, LoopRecord, ServiceRecord, Alive
    <3>2. Tracked(o, l) => Tracked(o, l)'
      BY <3>1 DEF Tracked, Known
    <3> QED BY <1>g, <1>q, <3>1, <3>2
  <2>5. CASE ReadCmd(l)
    <3>1. /\ loops[l].phase = "started"
          /\ IF svc[o].pid = 0 THEN loops'[l].phase = "decide"
                               ELSE loops'[l].phase = "waiting"
          /\ loops'[l].pid = svc[o].pid
          /\ svc' = svc
          /\ Alive(o)' = Alive(o)
      BY <1>t, <1>o, <2>5 DEF ReadCmd, LoopRecord, Alive
    <3>2. 0 \notin Alive(o)
      BY DEF Alive, Pid
    <3>3. Tracked(o, l) => Tracked(o, l)'
      BY <1>e, <3>1, <3>2 DEF Tracked, Known
    <3> QED BY <1>g, <1>q, <3>1, <3>3
  <2>6. CASE WaitReturns(l)
    <3>1. /\ loops[l].phase = "waiting" /\ loops'[l].phase = "decide"
          /\ svc'[o].pid = 0
          /\ Alive(o)' \subseteq Alive(o)
          /\ loops[l].pid \notin Alive(o)
      BY <1>t, <1>o, <2>6
         DEF WaitReturns, LoopRecord, ServiceRecord, ProcRecord, Alive
    <3>2. Tracked(o, l) => Tracked(o, l)'
      BY <3>1 DEF Tracked, Known
    <3> QED BY <1>g, <1>q, <3>1, <3>2
  <2>7. CASE Decide(l)
    <3>1. /\ loops[l].phase = "decide"
          /\ loops'[l].phase \in {"backoff", "done"}
          /\ svc'[o].pid = svc[o].pid
          /\ Alive(o)' = Alive(o)
      BY <1>t, <1>o, <2>7 DEF Decide, LoopRecord, ServiceRecord, Alive
    <3>2. Tracked(o, l) => Tracked(o, l)'
      BY <3>1 DEF Tracked, Known
    <3> QED BY <1>g, <1>q, <3>1, <3>2
  <2>8. CASE BackoffPasses(l) \/ BackoffStops(l)
    <3>1. /\ loops[l].phase = "backoff"
          /\ loops'[l].phase \in {"top", "done"}
          /\ svc'[o].pid = svc[o].pid
          /\ Alive(o)' = Alive(o)
      BY <1>t, <1>o, <2>8
         DEF BackoffPasses, BackoffStops, LoopRecord, ServiceRecord, Alive
    <3>2. Tracked(o, l) => Tracked(o, l)'
      BY <3>1 DEF Tracked, Known
    <3> QED BY <1>g, <1>q, <3>1, <3>2
  <2> QED BY <2>1, <2>2, <2>3, <2>4, <2>5, <2>6, <2>7, <2>8 DEF Supervise
<1> QED BY <1>f, <1>q

\* Add, Start, Stop and StopAll keep every object accounted for.
LEMMA CallsAccounted ==
  ASSUME TypeOK, Numbered, NEW b \in Object, Accounted(b),
         \/ \E policy \in Policies : Add(policy)
         \/ Start
         \/ \E k \in Caller : Stop(k)
         \/ StopAll
  PROVE  Accounted(b)'
<1>t. /\ svc \in [Object -> ServiceRecord]
      /\ loops \in [Loop -> LoopRecord]
      /\ term \in [Object -> [Stopper -> TermRecord]]
      /\ created \in Nat /\ started \in Nat /\ current \in 0..MaxObjects
  BY SupervisorAssumption DEF TypeOK
<1>1. ASSUME NEW policy \in Policies, Add(policy)
      PROVE  Accounted(b)'
  <2>1. UNCHANGED <<loops, term>> /\ Alive(b)' = Alive(b)
    BY <1>1 DEF Add, Alive
  <2>2. CASE b = created + 1
    <3>1. \A m \in Loop : loops[m].obj # b
      BY <1>t, <2>2 DEF Numbered
    <3>2. \A k \in Stopper : term[b][k].phase = "none"
      BY <1>t, <2>2 DEF Numbered
    <3>3. StartedOnce(b) /\ Alive(b) = {}
      BY <3>1 DEF Accounted, StartedOnce
    <3>4. svc'[b].pid = 0
      BY <1>1, <1>t, <2>2 DEF Add, NoService
    <3> QED BY <2>1, <3>1, <3>2, <3>3, <3>4 DEF Accounted, Halted
  <2>3. CASE b # created + 1
    <3>1. svc'[b] = svc[b]
      BY <1>1, <1>t, <2>3 DEF Add
    <3> QED BY <2>1, <3>1, Frame
  <2> QED BY <2>2, <2>3
<1>2. CASE Start
  <2>0. PICK l \in Loop : l = started + 1
    BY <1>2, <1>t, SupervisorAssumption DEF Start, Loop, TypeOK
  <2>1. /\ UNCHANGED <<svc, term>> /\ Alive(b)' = Alive(b)
        /\ \A m \in Loop : m # l => loops'[m] = loops[m]
    BY <1>2, <1>t, <2>0 DEF Start, Alive
  <2>2. /\ loops[l].obj = 0
        /\ loops'[l].obj = current /\ loops'[l].phase = "top"
    BY <1>2, <1>t, <2>0 DEF Start, NoLoop, Numbered
  <2> SUFFICES ASSUME StartedOnce(b)'
               PROVE  Accounted(b)'
    BY DEF Accounted
  <2>3. StartedOnce(b)
    BY <2>1, <2>2 DEF StartedOnce, Object
  <2>4. CASE current = b
    <3>1. \A m \in Loop : m # l => loops'[m].obj # b
      BY <2>1, <2>2, <2>4 DEF StartedOnce
    <3>2. \A m \in Loop : loops[m].obj # b
      BY <2>1, <2>2, <3>1 DEF Object
    <3>3. Alive(b) = {} /\ svc[b].pid = 0
      BY <2>3, <3>2 DEF Accounted
    <3>4. Tracked(b, l)'
      BY <2>1, <2>2, <3>3 DEF Tracked
    <3>5. \A m \in Loop : loops'[m].obj = b => Tracked(b, m)'
      BY <3>1, <3>4
    <3>6. \A k \in Stopper : Halted(b, k)'
      BY <2>1, <2>2, <3>1, <3>3 DEF Halted
    <3> QED BY <2>1, <2>2, <2>4, <3>5, <3>6 DEF Accounted
  <2>5. CASE current # b
    <3>1. \A m \in Loop : loops'[m].obj = b <=> loops[m].obj = b
      BY <2>1, <2>2, <2>5 DEF Object
    <3>2. ASSUME NEW m \in Loop, loops'[m].obj = b
          PROVE  Tracked(b, m)'
      <4>1. loops'[m] = loops[m] /\ loops[m].obj = b
        BY <2>1, <2>2, <2>5, <3>2
      <4>2. Tracked(b, m)
        BY <2>3, <4>1 DEF Accounted
      <4>3. Known(b, m)' = Known(b, m)
        BY <2>1, <4>1 DEF Known
      <4> QED BY <2>1, <4>1, <4>2, <4>3 DEF Tracked
    <3>3. ASSUME NEW k \in Stopper
          PROVE  Halted(b, k)'
      <4>1. Halted(b, k)
        BY <2>3 DEF Accounted
      <4>2. \A m \in Loop : loops'[m].obj = b => loops'[m] = loops[m]
        BY <2>1, <2>2, <2>5
      <4> QED BY <2>1, <3>1, <4>1, <4>2 DEF Halted
    <3> QED BY <2>1, <2>3, <3>1, <3>2, <3>3 DEF Accounted
  <2> QED BY <2>4, <2>5
<1>3. ASSUME NEW k \in Stopper, current \in Object,
             svc' = [svc EXCEPT ![current].stop = TRUE],
             term' = [term EXCEPT ![current][k].phase = "read"],
             UNCHANGED <<loops, procs>>
      PROVE  Accounted(b)'
  <2>1. svc'[b].pid = svc[b].pid /\ Alive(b)' = Alive(b)
    BY <1>3, <1>t DEF ServiceRecord, Alive
  <2>2. ASSUME NEW j \in Stopper
        PROVE  term'[b][j] = term[b][j] \/ term'[b][j].phase = "read"
    BY <1>3, <1>t DEF TermRecord
  <2> SUFFICES ASSUME StartedOnce(b)'
               PROVE  Accounted(b)'
    BY DEF Accounted
  <2>3. StartedOnce(b)
    BY <1>3 DEF StartedOnce
  <2>4. ASSUME NEW m \in Loop, loops'[m].obj = b
        PROVE  Tracked(b, m)'
    <3>1. Known(b, m)' = Known(b, m)
      BY <1>3, <2>1 DEF Known
    <3>2. Tracked(b, m)
      BY <1>3, <2>3, <2>4 DEF Accounted
    <3> QED BY <1>3, <2>1, <3>1, <3>2 DEF Tracked
  <2>5. ASSUME NEW j \in Stopper
        PROVE  Halted(b, j)'
    <3>1. Halted(b, j)
      BY <2>3 DEF Accounted
    <3> QED BY <1>3, <2>1, <2>2, <3>1 DEF Halted
  <2> QED BY <1>3, <2>1, <2>3, <2>4, <2>5 DEF Accounted
<1>c. ASSUME current # 0 PROVE current \in Object
  BY <1>c, <1>t, SupervisorAssumption DEF Object
<1>4. ASSUME NEW k \in Caller, Stop(k)
      PROVE  Accounted(b)'
  BY <1>3, <1>4, <1>c DEF Stop, Stopper
<1>5. CASE StopAll
  <2>1. CASE current = 0
    <3>1. UNCHANGED <<loops, svc, term, procs>>
      BY <1>5, <2>1 DEF StopAll
    <3> QED BY <3>1, Frame DEF Alive
  <2>2. CASE current # 0
    BY <1>3, <1>5, <1>c, <2>2 DEF StopAll, Stopper
  <2> QED BY <2>1, <2>2
<1> QED BY <1>1, <1>2, <1>4, <1>5

\* The steps of terminateProcess and the ends of processes keep every object
\* accounted for.  A stop that finds a process finds the only one there is: it
\* was asked for before, so no other is made.
LEMMA TerminateAccounted ==
  ASSUME TypeOK, Numbered, NEW b \in Object, Accounted(b),
         \/ \E o \in Object, k \in Stopper : TerminateStep(o, k)
         \/ \E p \in Pid, code \in {0, 1} : Exit(p, code)
  PROVE  Accounted(b)'
<1>t. /\ svc \in [Object -> ServiceRecord]
      /\ procs \in [Pid -> ProcRecord]
      /\ term \in [Object -> [Stopper -> TermRecord]]
      /\ MaxTries \in Nat
  BY SupervisorAssumption DEF TypeOK
<1>1. ASSUME NEW p \in Pid, NEW code \in {0, 1}, Exit(p, code)
      PROVE  Accounted(b)'
  <2>1. UNCHANGED <<loops, svc, term>>
    BY <1>1 DEF Exit
  <2>2. Alive(b)' \subseteq Alive(b)
    BY <1>1, <1>t DEF Exit, Alive, ProcRecord
  <2> QED BY <2>1, <2>2, Frame
<1>2. ASSUME NEW o \in Object, NEW k \in Stopper, TerminateStep(o, k)
      PROVE  Accounted(b)'
  <2>1. UNCHANGED <<loops, svc>>
    BY <1>2 DEF TerminateStep, ReadProcess, Terminate, Kill, Terminated
  <2>2. Alive(b)' \subseteq Alive(b)
    <3>1. CASE ReadProcess(o, k) \/ Terminate(o, k)
      BY <3>1 DEF ReadProcess, Terminate, Alive
    <3>2. CASE Kill(o, k)
      BY <1>t, <3>2 DEF Kill, Alive, ProcRecord
    <3>3. CASE Terminated(o, k)
      BY <1>t, <3>3 DEF Terminated, Alive, ProcRecord
    <3> QED BY <1>2, <3>1, <3>2, <3>3 DEF TerminateStep
  <2>3. CASE b # o
    <3>1. term'[b] = term[b]
      BY <1>2, <1>t, <2>3
         DEF TerminateStep, ReadProcess, Terminate, Kill, Terminated
    <3> QED BY <2>1, <2>2, <3>1, Frame
  <2>4. CASE b = o
    <3> SUFFICES ASSUME StartedOnce(b)
                 PROVE  /\ \A m \in Loop : loops[m].obj = b => Tracked(b, m)'
                        /\ (\A m \in Loop : loops[m].obj # b)
                             => Alive(b)' = {} /\ svc[b].pid = 0
                        /\ \A j \in Stopper : Halted(b, j)'
      BY <2>1 DEF Accounted, StartedOnce
    <3>1. ASSUME NEW m \in Loop, loops[m].obj = b
          PROVE  Tracked(b, m)'
      <4>1. Known(b, m)' = Known(b, m)
        BY <2>1 DEF Known
      <4>2. Tracked(b, m)
        BY <3>1 DEF Accounted
      <4> QED BY <2>1, <2>2, <4>1, <4>2 DEF Tracked
    <3>2. (\A m \in Loop : loops[m].obj # b) => Alive(b)' = {} /\ svc[b].pid = 0
      BY <2>2 DEF Accounted
    <3>3. ASSUME NEW j \in Stopper
          PROVE  Halted(b, j)'
      <4>1. Halted(b, j)
        BY DEF Accounted
      <4>2. CASE term'[b][j] = term[b][j]
        BY <2>1, <2>2, <4>1, <4>2 DEF Halted
      <4>3. CASE ReadProcess(o, k) /\ j = k
        <5>1. /\ term'[b][j].pid = svc[b].pid
              /\ svc[b].pid = 0 => term'[b][j].phase = "unseen"
              /\ svc[b].pid # 0 => term'[b][j].phase = "signal"
          BY <1>t, <2>4, <4>3 DEF ReadProcess
        <5>2. CASE svc[b].pid # 0
          <6>1. PICK l \in Loop : loops[l].obj = b
            BY <5>2 DEF Accounted
          <6>2. Tracked(b, l)
            BY <6>1 DEF Accounted
          <6>3. loops[l].phase \in {"started", "waiting"}
            BY <5>2, <6>2 DEF Tracked
          <6>4. Alive(b) \subseteq {svc[b].pid}
            BY <6>2, <6>3 DEF Tracked, Known
          <6>5. \A m \in Loop : loops[m].obj = b => m = l
            BY <6>1 DEF StartedOnce
          <6> QED BY <2>1, <2>2, <5>1, <5>2, <6>3, <6>4, <6>5 DEF Halted
        <5>3. CASE svc[b].pid = 0
          BY <5>1, <5>3 DEF Halted
        <5> QED BY <5>2, <5>3
      <4>4. CASE Terminate(o, k) /\ j = k
        <5> DEFINE p == term[b][j].pid
        <5>1. /\ term[b][j].phase = "signal"
              /\ term'[b][j].pid = p
              /\ IF procs[p].status = "reaped" THEN term'[b][j].phase = "gone"
                                               ELSE term'[b][j].phase = "wait"
          BY <1>t, <2>4, <4>4 DEF Terminate, TermRecord
        <5>2. procs[p].status = "reaped" => p \notin Alive(b)
          BY DEF Alive
        <5> QED BY <2>1, <2>2, <4>1, <5>1, <5>2 DEF Halted
      <4>5. CASE Terminated(o, k) /\ j = k
        <5> DEFINE p == term[b][j].pid
        <5>1. /\ term[b][j].phase = "wait"
              /\ term'[b][j].pid = p /\ term'[b][j].phase = "gone"
              /\ procs[p].status # "alive"
          BY <1>t, <2>4, <4>5 DEF Terminated, TermRecord
        <5>2. p \notin Alive(b)
          BY <5>1 DEF Alive
        <5> QED BY <2>1, <2>2, <4>1, <5>1, <5>2 DEF Halted
      <4>6. CASE Kill(o, k) \/ j # k
        <5>1. term'[b][j] = term[b][j]
          <6>1. CASE Kill(o, k)
            BY <6>1 DEF Kill
          <6>2. CASE j # k /\ ReadProcess(o, k)
            BY <1>t, <6>2 DEF ReadProcess
          <6>3. CASE j # k /\ Terminate(o, k)
            BY <1>t, <6>3 DEF Terminate
          <6>4. CASE j # k /\ Terminated(o, k)
            BY <1>t, <6>4 DEF Terminated
          <6> QED BY <1>2, <4>6, <6>1, <6>2, <6>3, <6>4 DEF TerminateStep
        <5> QED BY <4>2, <5>1
      <4> QED BY <1>2, <4>3, <4>4, <4>5, <4>6 DEF TerminateStep
    <3> QED BY <3>1, <3>2, <3>3
  <2> QED BY <2>3, <2>4
<1> QED BY <1>1, <1>2

-----------------------------------------------------------------------------
(* The theorems *)

\* The first state satisfies the inductive invariant.
LEMMA InvInit == Init => SupervisorInv
<1> SUFFICES ASSUME Init, NEW o \in Object PROVE Accounted(o)
  BY TypeInit DEF SupervisorInv
<1>1. Alive(o) = {}
  BY DEF Init, Alive, NoProc
<1>2. svc[o].pid = 0
  BY DEF Init, NoService
<1>3. \A l \in Loop : loops[l].obj # o
  BY DEF Init, NoLoop, Object
<1>4. \A k \in Stopper : term[o][k].phase = "none"
  BY DEF Init, NotCalled
<1> QED BY <1>1, <1>2, <1>3, <1>4 DEF Accounted, Halted

\* Every step keeps the inductive invariant.
LEMMA InvStep == SupervisorInv /\ [Next]_vars => SupervisorInv'
<1> SUFFICES ASSUME SupervisorInv, [Next]_vars, NEW b \in Object
             PROVE  Accounted(b)'
  BY TypeStep, NumberedStep DEF SupervisorInv
<1>i. TypeOK /\ Numbered /\ \A o \in Object : Accounted(o)
  BY DEF SupervisorInv
<1>1. ASSUME NEW l \in Loop, Supervise(l) PROVE Accounted(b)'
  BY <1>i, <1>1, SuperviseAccounted
<1>2. CASE \/ \E policy \in Policies : Add(policy)
           \/ Start
           \/ \E k \in Caller : Stop(k)
           \/ StopAll
  BY <1>i, <1>2, CallsAccounted
<1>3. CASE \/ \E o \in Object, k \in Stopper : TerminateStep(o, k)
           \/ \E p \in Pid, code \in {0, 1} : Exit(p, code)
  BY <1>i, <1>3, TerminateAccounted
<1>4. CASE StopAllWaits \/ StopAllReturns \/ UNCHANGED vars
  <2>1. UNCHANGED <<loops, svc, term, procs>>
    BY <1>4 DEF StopAllWaits, StopAllReturns, vars
  <2> QED BY <1>i, <2>1, Frame DEF Alive
<1> QED BY <1>1, <1>2, <1>3, <1>4 DEF Next

\* The inductive invariant implies both safety properties.
LEMMA InvImplies == SupervisorInv => NoOrphan /\ StoppedStaysStopped
<1> SUFFICES ASSUME SupervisorInv PROVE NoOrphan /\ StoppedStaysStopped
  OBVIOUS
<1>1. ASSUME NEW o \in Object, StartedOnce(o), NEW p \in Alive(o)
      PROVE  \/ svc[o].pid = p
             \/ \E l \in Loop : /\ loops[l].obj = o /\ loops[l].pid = p
                                /\ loops[l].phase = "spawned"
  <2>1. PICK l \in Loop : loops[l].obj = o
    BY <1>1 DEF SupervisorInv, Accounted
  <2>2. p \in Known(o, l)
    BY <1>1, <2>1 DEF SupervisorInv, Accounted, Tracked
  <2> QED BY <2>1, <2>2 DEF Known
<1>2. StoppedStaysStopped
  BY DEF SupervisorInv, Accounted, Halted, StoppedStaysStopped
<1> QED BY <1>1, <1>2 DEF NoOrphan

\* The inductive invariant holds in every reachable state.
THEOREM SupervisorInvariant == Spec => []SupervisorInv
BY InvInit, InvStep, PTL DEF Spec

\* Every variable of the supervisor keeps its type; in particular the delay of
\* a backoff stays within its limit after any number of failures.
THEOREM TypeCorrect == Spec => []TypeOK
<1>1. SupervisorInv => TypeOK
  BY DEF SupervisorInv
<1> QED BY <1>1, SupervisorInvariant, PTL

\* The process of a service started once can always be found again, through
\* any number of crashes, restarts and calls of Stop.
THEOREM ProcessesFound == Spec => []NoOrphan
BY InvImplies, SupervisorInvariant, PTL

\* A Stop that found a process has ended it for good: neither the restart
\* policy nor a backoff that runs out starts another.
THEOREM StopIsFinal == Spec => []StoppedStaysStopped
BY InvImplies, SupervisorInvariant, PTL

=============================================================================
