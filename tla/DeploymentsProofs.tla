------------------------- MODULE DeploymentsProofs -------------------------
(***************************************************************************)
(* Proofs about Deployments.  Whatever requests and events do, the         *)
(* supervisor inside behaves as module Supervisor says, so that what is    *)
(* proved there holds here too; and the rows of the store follow it.       *)
(***************************************************************************)
EXTENDS Deployments, TLAPS

P == INSTANCE SupervisorProofs

-----------------------------------------------------------------------------
(* The two instances of Supervisor are the same specification *)

\* Data.
LEMMA SameData ==
  /\ S!Object = P!Object /\ S!Loop = P!Loop /\ S!Pid = P!Pid
  /\ S!Stopper = P!Stopper /\ S!LongAgo = P!LongAgo
  /\ S!NoService = P!NoService /\ S!NoLoop = P!NoLoop
  /\ S!NoProc = P!NoProc /\ S!NotCalled = P!NotCalled
  /\ S!ServiceState = P!ServiceState
  /\ S!vars = P!vars
BY DEF S!Object, P!Object, S!Loop, P!Loop, S!Pid, P!Pid, S!Stopper, P!Stopper,
       S!LongAgo, P!LongAgo, S!NoService, P!NoService, S!NoLoop, P!NoLoop,
       S!NoProc, P!NoProc, S!NotCalled, P!NotCalled, S!ServiceState,
       P!ServiceState, S!vars, P!vars

\* Operators.
LEMMA SameOperators ==
  /\ \A o : S!Alive(o) = P!Alive(o) /\ (S!Asked(o) <=> P!Asked(o))
            /\ (S!StartedOnce(o) <=> P!StartedOnce(o))
  /\ \A l : S!Running(l) <=> P!Running(l)
  /\ \A s : /\ S!Forgotten(s) <=> P!Forgotten(s)
            /\ S!shouldRestart(s) <=> P!shouldRestart(s)
            /\ S!calculateBackoff(s) = P!calculateBackoff(s)
BY DEF S!Alive, P!Alive, S!Asked, P!Asked, S!StartedOnce, P!StartedOnce,
       S!Running, P!Running, S!Forgotten, P!Forgotten, S!shouldRestart,
       P!shouldRestart, S!calculateBackoff, P!calculateBackoff, S!Capped,
       P!Capped, S!Doubled, P!Doubled, S!LongAgo, P!LongAgo, S!Loop, P!Loop,
       S!Pid, P!Pid

\* Steps of a supervise goroutine.
LEMMA SameSupervise ==
  ASSUME NEW l
  PROVE  S!Supervise(l) <=> P!Supervise(l)
<1>1. S!Top(l) <=> P!Top(l)
  BY SameOperators DEF S!Top, P!Top
<1>2. S!Spawn(l) <=> P!Spawn(l)
  BY SameOperators DEF S!Spawn, P!Spawn
<1>3. S!SpawnFails(l) <=> P!SpawnFails(l)
  BY SameOperators DEF S!SpawnFails, P!SpawnFails
<1>4. S!Record(l) <=> P!Record(l)
  BY SameOperators DEF S!Record, P!Record
<1>5. S!ReadCmd(l) <=> P!ReadCmd(l)
  BY SameOperators DEF S!ReadCmd, P!ReadCmd
<1>6. S!WaitReturns(l) <=> P!WaitReturns(l)
  BY SameOperators DEF S!WaitReturns, P!WaitReturns
<1>7. S!Decide(l) <=> P!Decide(l)
  BY SameOperators DEF S!Decide, P!Decide
<1>8. S!BackoffPasses(l) <=> P!BackoffPasses(l)
  BY SameData DEF S!BackoffPasses, P!BackoffPasses
<1>9. S!BackoffStops(l) <=> P!BackoffStops(l)
  BY SameOperators DEF S!BackoffStops, P!BackoffStops
<1> QED BY <1>1, <1>2, <1>3, <1>4, <1>5, <1>6, <1>7, <1>8, <1>9
        DEF S!Supervise, P!Supervise

\* Steps of terminateProcess.
LEMMA SameTerminate ==
  ASSUME NEW o, NEW k
  PROVE  S!TerminateStep(o, k) <=> P!TerminateStep(o, k)
BY DEF S!TerminateStep, P!TerminateStep, S!ReadProcess, P!ReadProcess,
       S!Terminate, P!Terminate, S!Kill, P!Kill, S!Terminated, P!Terminated

\* The specifications.
LEMMA SameSpec ==
  /\ S!Init <=> P!Init
  /\ S!Next <=> P!Next
  /\ S!vars = P!vars
<1>1. S!Init <=> P!Init
  BY SameData DEF S!Init, P!Init
<1>2. \A policy : S!Add(policy) <=> P!Add(policy)
  BY SameData DEF S!Add, P!Add
<1>3. S!Start <=> P!Start
  BY SameData DEF S!Start, P!Start
<1>4. \A k : S!Stop(k) <=> P!Stop(k)
  BY DEF S!Stop, P!Stop
<1>5. /\ S!StopAll <=> P!StopAll
      /\ S!StopAllWaits <=> P!StopAllWaits
      /\ S!StopAllReturns <=> P!StopAllReturns
  BY SameData, SameOperators
     DEF S!StopAll, P!StopAll, S!StopAllWaits, P!StopAllWaits,
         S!StopAllReturns, P!StopAllReturns
<1>6. \A p, code : S!Exit(p, code) <=> P!Exit(p, code)
  BY DEF S!Exit, P!Exit
<1>7. S!Next <=> P!Next
  BY <1>2, <1>3, <1>4, <1>5, <1>6, SameData, SameSupervise, SameTerminate
     DEF S!Next, P!Next
<1> QED BY <1>1, <1>7, SameData

-----------------------------------------------------------------------------
(* The supervisor inside *)

\* Every step of Deployments is a step of Supervisor, or leaves it alone.
LEMMA SupervisorStep == [Next]_vars => [S!Next]_S!vars
<1> SUFFICES ASSUME [Next]_vars PROVE S!Next \/ UNCHANGED supervisor
  BY DEF S!vars, supervisor
<1>a. S!Add("always") => S!Next
  BY ServiceAssumption DEF S!Next
<1>1. CASE BootAdd
  BY <1>1, <1>a DEF BootAdd
<1>2. CASE BootStart
  BY <1>2 DEF BootStart, S!Next
<1>3. CASE Subscribe
  BY <1>3 DEF Subscribe
<1>4. ASSUME NEW h \in Caller,
             \/ Create(h)
             \/ \E kind \in {"update", "scale"}, n \in {0, 1} : Read(h, kind, n)
             \/ Read(h, "delete", 0)
      PROVE  UNCHANGED supervisor
  BY <1>4 DEF Create, Read
<1>5. ASSUME NEW h \in Caller, Handle(h)
      PROVE  S!Next \/ UNCHANGED supervisor
  <2>1. CASE AddService(h)
    BY <1>a, <2>1 DEF AddService
  <2>2. CASE StartService(h)
    BY <2>2 DEF StartService, S!Next
  <2>3. CASE StopService(h)
    BY <2>3 DEF StopService, S!Next
  <2>4. CASE \/ WriteUpdate(h) \/ WriteScale(h) \/ ServiceStopped(h)
             \/ FinishScale(h) \/ FinishDelete(h)
    BY <2>4 DEF WriteUpdate, WriteScale, ServiceStopped, FinishScale,
                FinishDelete
  <2> QED BY <1>5, <2>1, <2>2, <2>3, <2>4 DEF Handle
<1>6. ASSUME NEW l \in S!Loop, Supervise(l)
      PROVE  S!Next
  BY <1>6 DEF Supervise, S!Next
<1>7. ASSUME NEW l \in S!Loop, Deliver(l)
      PROVE  UNCHANGED supervisor
  BY <1>7 DEF Deliver, ReadRow, WriteRow, Drop
<1>8. ASSUME NEW o \in S!Object, NEW h \in Caller, TerminateStep(o, h)
      PROVE  S!Next
  BY <1>8 DEF TerminateStep, S!Next, S!Stopper
<1>9. ASSUME NEW p \in S!Pid, NEW code \in {0, 1}, Exit(p, code)
      PROVE  S!Next
  BY <1>9 DEF Exit, S!Next
<1>10. CASE UNCHANGED vars
  BY <1>10 DEF vars
<1> QED BY <1>1, <1>2, <1>3, <1>4, <1>5, <1>6, <1>7, <1>8, <1>9, <1>10 DEF Next

\* The server drives the supervisor only as its interface allows: under any
\* requests, events and goroutines, the part of the state that belongs to the
\* supervisor goes through a behaviour of module Supervisor.
THEOREM ImplementsSupervisor == Spec => S!Spec
<1>1. Init => S!Init
  BY DEF Init
<1> QED BY <1>1, SupervisorStep, PTL DEF Spec, S!Spec

\* The instance satisfies the assumptions of Supervisor.
LEMMA Assumed == P!SupervisorAssumption
BY ServiceAssumption DEF P!SupervisorAssumption, S!SupervisorAssumption

\* The inductive invariant of Supervisor holds here.
LEMMA SupervisorInside == Spec => []P!SupervisorInv
<1>1. S!Init => P!SupervisorInv
  BY SameSpec, Assumed, P!InvInit
<1>2. P!SupervisorInv /\ [S!Next]_S!vars => P!SupervisorInv'
  <2>1. [S!Next]_S!vars => [P!Next]_P!vars
    BY SameSpec DEF S!vars, P!vars
  <2> QED BY <2>1, Assumed, P!InvStep
<1>3. S!Spec => []P!SupervisorInv
  BY <1>1, <1>2, PTL DEF S!Spec
<1> QED BY <1>3, ImplementsSupervisor, PTL

-----------------------------------------------------------------------------
(* A deleted row *)

\* A deleted deployment does not come back, whoever still writes the copy it
\* has read.
THEOREM DeletedIsFinal == Spec => DeletedStays
<1>1. ASSUME [Next]_vars, row.state = "deleted"
      PROVE  row'.state = "deleted"
  <2>u. ASSUME NEW r, UpdateDeployment(r) PROVE row'.state = "deleted"
    BY <1>1, <2>u DEF UpdateDeployment
  <2>1. CASE BootAdd \/ BootStart \/ Subscribe
    BY <1>1, <2>1 DEF BootAdd, BootStart, Subscribe
  <2>2. ASSUME NEW h \in Caller,
               \/ Create(h)
               \/ \E kind \in {"update", "scale"}, n \in {0, 1} : Read(h, kind, n)
               \/ Read(h, "delete", 0)
        PROVE  row'.state = "deleted"
    BY <1>1, <2>2 DEF Create, Read
  <2>3. ASSUME NEW h \in Caller, Handle(h)
        PROVE  row'.state = "deleted"
    BY <1>1, <2>3, <2>u
       DEF Handle, WriteUpdate, WriteScale, AddService, StartService,
           StopService, ServiceStopped, FinishScale, FinishDelete, NoRowYet
  <2>4. ASSUME NEW l \in S!Loop, Supervise(l) \/ Deliver(l)
        PROVE  row'.state = "deleted"
    BY <1>1, <2>4, <2>u DEF Supervise, Deliver, ReadRow, WriteRow, Drop
  <2>5. ASSUME NEW o \in S!Object, NEW h \in Caller, TerminateStep(o, h)
        PROVE  row'.state = "deleted"
    BY <1>1, <2>5 DEF TerminateStep
  <2>6. ASSUME NEW p \in S!Pid, NEW code \in {0, 1}, Exit(p, code)
        PROVE  row'.state = "deleted"
    BY <1>1, <2>6 DEF Exit
  <2>7. CASE UNCHANGED vars
    BY <1>1, <2>7 DEF vars
  <2> QED BY <1>1, <2>1, <2>2, <2>3, <2>4, <2>5, <2>6, <2>7 DEF Next
<1>2. [Next]_vars => [row.state = "deleted" => row'.state = "deleted"]_row
  BY <1>1
<1> QED BY <1>2, PTL DEF Spec, DeletedStays

-----------------------------------------------------------------------------
(* The row follows the supervisor *)

\* The types of what the server adds to the supervisor.
RowsTyped ==
  /\ row \in Row
  /\ req \in [Caller -> Request]
  /\ event \in [S!Loop -> Event]
  /\ boot \in {"add", "start", "subscribe", "serving"}
  /\ kinds \in [Caller -> SUBSET {"create", "update", "scale", "delete"}]
  /\ missed \in BOOLEAN

\* Only a goroutine that has begun delivers events, a copy was made of a row
\* that was there, and a request that was made has a kind.
Begun ==
  /\ \A l \in S!Loop : event[l].pc # "none" => loops[l].phase # "off"
  /\ \A l \in S!Loop : event[l].pc = "write" => event[l].copy.state = "there"
  /\ \A h \in Caller : req[h].kind = "none" <=> req[h].pc = "new"

\* A deployment may have been created, and nothing else has been asked for.
NoneButCreated == \A h \in Caller : req[h].kind \in {"none", "create"}

\* A request for a new deployment, and how far it has brought the supervisor.
Creating(h) ==
  \/ req[h].pc = "add" /\ created = 0 /\ started = 0
  \/ req[h].pc = "start" /\ created = 1 /\ started = 0
     /\ svc[1].state = "stopped"
  \/ req[h].pc = "done" /\ created = 1 /\ started = 1

\* The row has the phase that goroutine l has last told, unless that event was
\* dropped, or l is about to tell the state its service is in.
Following(l) ==
  LET state == svc[loops[l].obj].state IN
  loops[l].phase # "off" =>
    /\ loops[l].phase \in {"started", "waiting"} => state = "running"
    /\ loops[l].phase = "top" => state \in {"stopped", "backoff"}
    /\ loops[l].phase = "backoff" => state = "backoff"
    /\ event[l].pc # "none" => event[l].state = state
    /\ event[l].pc = "write" => event[l].copy = row
    /\ (event[l].pc = "none" /\ loops[l].phase \notin {"top", "done"} /\ ~ missed)
         => row.phase = PhaseOf(state)

\* While a deployment is created and left to itself there is one request, one
\* object and one goroutine, and the row follows it.  Before that nothing has
\* happened; a row that is found at the start leaves nothing to create.
Followed ==
  NoneButCreated =>
    IF \E h \in Caller : req[h].kind = "create"
      THEN /\ row.state = "there" /\ boot = "serving"
           /\ \A h \in Caller : req[h].kind = "create" => Creating(h)
           /\ \A h, g \in Caller :
                (req[h].kind = "create" /\ req[g].kind = "create") => h = g
           /\ \A l \in S!Loop : Following(l)
      ELSE row.state = "none" =>
             /\ boot = "serving" /\ created = 0 /\ started = 0

DeploymentsInv == RowsTyped /\ Begun /\ Followed

\* The values of the server have their types.
LEMMA IdleTypes ==
  NoRowYet \in Row /\ NoRequest \in Request /\ NoEvent \in Event
<1>1. NoRowYet \in Row
  BY DEF NoRowYet, Row, Phase
<1>2. 0 \in 0..MaxObjects
  BY ServiceAssumption DEF S!SupervisorAssumption
<1>3. NoRequest \in Request
  BY <1>1, <1>2 DEF NoRequest, Request
<1>4. NoEvent \in Event
  BY <1>1 DEF NoEvent, Event, S!ServiceState
<1> QED BY <1>1, <1>3, <1>4

\* A handler goes on.
LEMMA RequestUpdate ==
  ASSUME NEW q \in Request,
         NEW x \in {"new", "write", "add", "start", "stop", "stopping",
                    "finish", "done"},
         NEW r \in Row, NEW o \in 0..MaxObjects
  PROVE  /\ [q EXCEPT !.pc = x] \in Request
         /\ [q EXCEPT !.kind = "create", !.pc = x] \in Request
         /\ [q EXCEPT !.copy = r, !.pc = x] \in Request
         /\ [q EXCEPT !.pc = x, !.obj = o] \in Request
BY DEF Request

\* The copy an event writes is a row.
LEMMA ToldType ==
  ASSUME P!SupervisorInv, RowsTyped, Begun, NEW l \in S!Loop,
         event[l].pc # "none"
  PROVE  /\ Told(l) \in Row
         /\ Told(l).phase = PhaseOf(event[l].state)
         /\ Told(l).state = event[l].copy.state
<1>1. loops[l].obj \in S!Object
  BY Assumed, SameData, P!LoopObject DEF P!SupervisorInv, Begun
<1>2. svc[loops[l].obj].restarts \in Nat
  BY <1>1, SameData DEF P!SupervisorInv, P!TypeOK, P!ServiceRecord
<1>3. event[l].copy \in Row /\ event[l].state \in S!ServiceState
  BY DEF RowsTyped, Event
<1>4. PhaseOf(event[l].state) \in Phase
  BY <1>3 DEF S!ServiceState, PhaseOf, Phase
<1> QED BY <1>2, <1>3, <1>4 DEF Told, Row

\* No step of a handler takes the row or a request out of its type.
LEMMA HandleTyped ==
  ASSUME P!SupervisorInv, RowsTyped, NEW h \in Caller, Handle(h)
  PROVE  RowsTyped'
<1>t. /\ row \in Row /\ req \in [Caller -> Request] /\ req[h] \in Request
      /\ req[h].copy \in Row /\ req[h].replicas \in {0, 1}
      /\ current \in 0..MaxObjects /\ 0 \in 0..MaxObjects
  BY ServiceAssumption
     DEF RowsTyped, Request, P!SupervisorInv, P!TypeOK, S!SupervisorAssumption
<1>u. ASSUME NEW r \in Row, UpdateDeployment(r) PROVE row' \in Row
  BY <1>t, <1>u DEF UpdateDeployment
<1>d. ASSUME NEW x \in {"new", "write", "add", "start", "stop", "stopping",
                        "finish", "done"},
             req' = [req EXCEPT ![h].pc = x]
      PROVE  req' \in [Caller -> Request]
  <2>1. [req[h] EXCEPT !.pc = x] \in Request
    BY <1>t, RequestUpdate
  <2> QED BY <1>t, <1>d, <2>1
<1>1. CASE WriteUpdate(h)
  <2> DEFINE d == [req[h].copy EXCEPT !.env = 1,
                     !.replicas = IF req[h].replicas > 0 THEN req[h].replicas
                                                         ELSE req[h].copy.replicas]
  <2>1. d \in Row
    BY <1>t DEF Row
  <2>2. UpdateDeployment(d)
    BY <1>1, <1>t DEF WriteUpdate, Row
  <2> HIDE DEF d
  <2>3. row' \in Row
    BY <1>u, <2>1, <2>2
  <2> QED BY <1>1, <1>d, <2>3 DEF WriteUpdate, RowsTyped
<1>2. CASE WriteScale(h)
  <2> DEFINE d == [req[h].copy EXCEPT !.replicas = req[h].replicas]
  <2>1. d \in Row
    BY <1>t DEF Row
  <2> DEFINE old == req[h].copy.replicas
             x == CASE row.state # "there" -> "done"
                    [] row.state = "there" /\ old < d.replicas -> "add"
                    [] row.state = "there" /\ old > d.replicas -> "stop"
                    [] OTHER -> "done"
  <2>x. x \in {"add", "stop", "done"}
    OBVIOUS
  <2>2. req' = [req EXCEPT ![h].copy = d, ![h].pc = x]
    BY <1>2, Zenon DEF WriteScale
  <2>3. UpdateDeployment(d)
    BY <1>2 DEF WriteScale
  <2> HIDE DEF d, x
  <2>4. [req[h] EXCEPT !.copy = d, !.pc = x] \in Request
    BY <1>t, <2>1, <2>x, RequestUpdate
  <2>5. req' \in [Caller -> Request]
    BY <1>t, <2>2, <2>4
  <2> QED BY <1>2, <1>u, <2>1, <2>3, <2>5 DEF WriteScale, RowsTyped
<1>3. CASE AddService(h) \/ StartService(h) \/ ServiceStopped(h)
  BY <1>3, <1>d DEF AddService, StartService, ServiceStopped, RowsTyped
<1>4. CASE StopService(h)
  <2>1. CASE current = 0
    BY <1>4, <1>d, <2>1 DEF StopService, RowsTyped
  <2>2. CASE current # 0
    <3>1. [req[h] EXCEPT !.pc = "stopping", !.obj = current] \in Request
      BY <1>t, RequestUpdate
    <3>2. req' \in [Caller -> Request]
      BY <1>4, <1>t, <2>2, <3>1 DEF StopService
    <3> QED BY <1>4, <3>2 DEF StopService, RowsTyped
  <2> QED BY <2>1, <2>2
<1>5. CASE FinishScale(h)
  <2>1. [req[h].copy EXCEPT !.phase = "Stopped"] \in Row
    BY <1>t DEF Row, Phase
  <2> QED BY <1>5, <1>d, <1>u, <2>1 DEF FinishScale, RowsTyped
<1>6. CASE FinishDelete(h)
  <2>1. row' \in Row
    BY <1>6, IdleTypes DEF FinishDelete, Row
  <2> QED BY <1>6, <1>d, <2>1 DEF FinishDelete, RowsTyped
<1> QED BY <1>1, <1>2, <1>3, <1>4, <1>5, <1>6 DEF Handle

\* No step takes the row, a request or an event out of its type.
LEMMA RowsTypedStep ==
  ASSUME P!SupervisorInv, P!SupervisorInv', RowsTyped, Begun, [Next]_vars
  PROVE  RowsTyped'
<1>t. /\ row \in Row /\ req \in [Caller -> Request]
      /\ event \in [S!Loop -> Event]
      /\ 0 \in 0..MaxObjects
  BY ServiceAssumption DEF RowsTyped, S!SupervisorAssumption
<1>1. CASE BootAdd \/ BootStart \/ Subscribe
  BY <1>1 DEF BootAdd, BootStart, Subscribe, RowsTyped
<1>2. ASSUME NEW h \in Caller, Create(h)
      PROVE  RowsTyped'
  <2>1. row' \in Row
    BY <1>2, IdleTypes DEF Create, Row
  <2>2. [req[h] EXCEPT !.kind = "create", !.pc = "add"] \in Request
    BY <1>t, RequestUpdate, IdleTypes
  <2>3. req' \in [Caller -> Request]
    BY <1>2, <1>t, <2>2 DEF Create
  <2> QED BY <1>2, <2>1, <2>3 DEF Create, RowsTyped
<1>3. ASSUME NEW h \in Caller, NEW kind \in {"update", "scale", "delete"},
             NEW n \in {0, 1}, Read(h, kind, n)
      PROVE  RowsTyped'
  <2>1. [kind |-> kind, copy |-> row, replicas |-> n, obj |-> 0,
         pc |-> IF kind = "delete" THEN "stop" ELSE "write"] \in Request
    BY <1>t DEF Request
  <2>2. req' \in [Caller -> Request]
    BY <1>3, <1>t, <2>1 DEF Read
  <2> QED BY <1>3, <2>2 DEF Read, RowsTyped
<1>4. ASSUME NEW h \in Caller, Handle(h)
      PROVE  RowsTyped'
  BY <1>4, HandleTyped
<1>5. ASSUME NEW l \in S!Loop, Supervise(l)
      PROVE  RowsTyped'
  <2>1. PICK o \in S!Object : o = loops[l].obj
    <3>1. P!Supervise(l)
      BY <1>5, SameSupervise DEF Supervise
    <3>2. loops[l].phase # "off"
      BY <3>1, Assumed, SameData, P!SuperviseEffect DEF P!SupervisorInv
    <3> QED BY <3>2, Assumed, SameData, P!LoopObject DEF P!SupervisorInv
  <2>2. svc'[o].state \in S!ServiceState
    BY SameData DEF P!SupervisorInv, P!TypeOK, P!ServiceRecord
  <2>3. [NoEvent EXCEPT !.pc = "read", !.state = svc'[o].state] \in Event
    BY <2>2, IdleTypes DEF Event
  <2>4. event' \in [S!Loop -> Event]
    BY <1>5, <1>t, <2>1, <2>3, IdleTypes DEF Supervise
  <2> QED BY <1>5, <2>4 DEF Supervise, RowsTyped
<1>6. ASSUME NEW l \in S!Loop, ReadRow(l)
      PROVE  RowsTyped'
  <2>1. [event[l] EXCEPT !.pc = "write", !.copy = row] \in Event
    BY <1>t DEF Event
  <2>2. event' \in [S!Loop -> Event]
    BY <1>6, <1>t, <2>1, IdleTypes DEF ReadRow, Drop
  <2> QED BY <1>6, <2>2 DEF ReadRow, Drop, RowsTyped
<1>7. ASSUME NEW l \in S!Loop, WriteRow(l)
      PROVE  RowsTyped'
  <2>1. Told(l) \in Row
    BY <1>7, ToldType DEF WriteRow
  <2>2. row' \in Row
    BY <1>7, <1>t, <2>1 DEF WriteRow, Drop, UpdateDeployment
  <2>3. event' \in [S!Loop -> Event]
    BY <1>7, <1>t, IdleTypes DEF WriteRow, Drop
  <2> QED BY <1>7, <2>2, <2>3 DEF WriteRow, Drop, RowsTyped
<1>8. ASSUME NEW o \in S!Object, NEW h \in Caller, TerminateStep(o, h)
      PROVE  RowsTyped'
  BY <1>8 DEF TerminateStep, RowsTyped
<1>9. ASSUME NEW p \in S!Pid, NEW code \in {0, 1}, Exit(p, code)
      PROVE  RowsTyped'
  BY <1>9 DEF Exit, RowsTyped
<1>10. CASE UNCHANGED vars
  BY <1>10 DEF vars, RowsTyped
<1> QED BY <1>1, <1>2, <1>3, <1>4, <1>5, <1>6, <1>7, <1>8, <1>9, <1>10
        DEF Next, Deliver

\* What a step of a supervise goroutine leaves alone, for the instance inside.
LEMMA SuperviseInside ==
  ASSUME P!SupervisorInv, NEW l \in S!Loop, Supervise(l)
  PROVE  /\ UNCHANGED <<created, started, term>>
         /\ \A m \in S!Loop : m # l => loops'[m] = loops[m]
         /\ loops[l].phase # "off" /\ loops'[l].phase # "off"
         /\ loops'[l].obj = loops[l].obj /\ loops[l].obj \in S!Object
<1>1. P!Supervise(l)
  BY SameSupervise DEF Supervise
<1>2. P!TypeOK /\ P!Numbered
  BY DEF P!SupervisorInv
<1>3. l \in P!Loop
  BY SameData
<1>4. /\ UNCHANGED <<created, started, term>>
      /\ \A m \in P!Loop : m # l => loops'[m] = loops[m]
      /\ loops[l].phase # "off" /\ loops'[l].phase # "off"
      /\ loops'[l].obj = loops[l].obj
  BY <1>1, <1>2, <1>3, Assumed, P!SuperviseEffect
<1> QED BY <1>2, <1>3, <1>4, Assumed, SameData, P!LoopObject

\* Events come from goroutines that have begun.
LEMMA BegunStep ==
  ASSUME P!SupervisorInv, RowsTyped, Begun, [Next]_vars
  PROVE  Begun'
<1>t. /\ req \in [Caller -> Request] /\ event \in [S!Loop -> Event]
      /\ loops \in [S!Loop -> P!LoopRecord]
  BY SameData DEF RowsTyped, P!SupervisorInv, P!TypeOK
<1>n. \A h \in Caller : req[h].kind = "none" <=> req[h].pc = "new"
  BY DEF Begun
<1>e. ASSUME UNCHANGED event,
             \A l \in S!Loop : loops[l].phase # "off" => loops'[l].phase # "off",
             \A h \in Caller : req'[h].kind = "none" <=> req'[h].pc = "new"
      PROVE  Begun'
  BY <1>e DEF Begun
<1>s. ASSUME S!Start, NEW l \in S!Loop, loops[l].phase # "off"
      PROVE  loops'[l].phase # "off"
  BY <1>s, <1>t DEF S!Start, S!NoLoop
<1>1. CASE BootAdd \/ BootStart \/ Subscribe
  <2>1. UNCHANGED <<event, req>> /\ (UNCHANGED loops \/ S!Start)
    BY <1>1 DEF BootAdd, S!Add, BootStart, Subscribe, supervisor
  <2> QED BY <2>1, <1>e, <1>s, <1>n
\* A step of a handler.
<1>h. ASSUME NEW h \in Caller, UNCHANGED event, UNCHANGED loops \/ S!Start,
             NEW q, req' = [req EXCEPT ![h] = q],
             q.kind # "none", q.pc # "new"
      PROVE  Begun'
  <2>1. \A g \in Caller : req'[g].kind = "none" <=> req'[g].pc = "new"
    BY <1>h, <1>t, <1>n
  <2> QED BY <1>h, <1>e, <1>s, <2>1
<1>2. ASSUME NEW h \in Caller, Create(h)
      PROVE  Begun'
  <2> DEFINE q == [req[h] EXCEPT !.kind = "create", !.pc = "add"]
  <2>1. req' = [req EXCEPT ![h] = q]
    BY <1>2, <1>t DEF Create
  <2>2. q.kind = "create" /\ q.pc = "add"
    BY <1>t DEF Request
  <2> HIDE DEF q
  <2> QED BY <1>2, <1>h, <2>1, <2>2 DEF Create, supervisor
<1>3. ASSUME NEW h \in Caller, NEW kind \in {"update", "scale", "delete"},
             NEW n \in {0, 1}, Read(h, kind, n)
      PROVE  Begun'
  <2> DEFINE q == [kind |-> kind, copy |-> row, replicas |-> n, obj |-> 0,
                   pc |-> IF kind = "delete" THEN "stop" ELSE "write"]
  <2>1. req' = [req EXCEPT ![h] = q]
    BY <1>3 DEF Read
  <2>2. q.kind # "none" /\ q.pc # "new"
    OBVIOUS
  <2> HIDE DEF q
  <2> QED BY <1>3, <1>h, <2>1, <2>2 DEF Read, supervisor
<1>4. ASSUME NEW h \in Caller, Handle(h)
      PROVE  Begun'
  <2>1. req[h].pc # "new"
    BY <1>4 DEF Handle, WriteUpdate, WriteScale, AddService, StartService,
                StopService, ServiceStopped, FinishScale, FinishDelete
  <2>2. req[h].kind # "none"
    BY <1>n, <2>1
  <2>3. PICK q : /\ req' = [req EXCEPT ![h] = q]
                 /\ q.kind = req[h].kind /\ q.pc # "new"
    <3> DEFINE Goal == \E q : /\ req' = [req EXCEPT ![h] = q]
                              /\ q.kind = req[h].kind /\ q.pc # "new"
    <3>d. ASSUME NEW x, x # "new", req' = [req EXCEPT ![h].pc = x]
          PROVE  Goal
      <4> DEFINE q == [req[h] EXCEPT !.pc = x]
      <4>1. req' = [req EXCEPT ![h] = q]
        BY <3>d, <1>t
      <4>2. q.kind = req[h].kind /\ q.pc = x
        BY <1>t DEF Request
      <4> HIDE DEF q
      <4> QED BY <3>d, <4>1, <4>2
    <3>1. CASE \/ WriteUpdate(h) \/ AddService(h) \/ StartService(h)
               \/ ServiceStopped(h) \/ FinishScale(h) \/ FinishDelete(h)
      <4>1. CASE WriteUpdate(h) \/ StartService(h) \/ FinishScale(h)
                 \/ FinishDelete(h)
        BY <3>d, <4>1 DEF WriteUpdate, StartService, FinishScale, FinishDelete
      <4>2. CASE AddService(h)
        BY <3>d, <4>2 DEF AddService
      <4>3. CASE ServiceStopped(h)
        BY <3>d, <4>3 DEF ServiceStopped
      <4> QED BY <3>1, <4>1, <4>2, <4>3
    <3>2. CASE WriteScale(h)
      <4> DEFINE old == req[h].copy.replicas
                 d == [req[h].copy EXCEPT !.replicas = req[h].replicas]
                 x == CASE row.state # "there" -> "done"
                        [] row.state = "there" /\ old < d.replicas -> "add"
                        [] row.state = "there" /\ old > d.replicas -> "stop"
                        [] OTHER -> "done"
                 q == [req[h] EXCEPT !.copy = d, !.pc = x]
      <4>1. x # "new"
        OBVIOUS
      <4>2. req' = [req EXCEPT ![h].copy = d, ![h].pc = x]
        BY <3>2, Zenon DEF WriteScale
      <4> HIDE DEF x, d
      <4>3. req' = [req EXCEPT ![h] = q]
        BY <1>t, <4>2
      <4>4. q.kind = req[h].kind /\ q.pc = x
        BY <1>t DEF Request
      <4> HIDE DEF q
      <4> QED BY <4>1, <4>3, <4>4
    <3>3. CASE StopService(h)
      <4>1. CASE current = 0
        BY <3>3, <3>d, <4>1 DEF StopService
      <4>2. CASE current # 0
        <5> DEFINE q == [req[h] EXCEPT !.pc = "stopping", !.obj = current]
        <5>1. req' = [req EXCEPT ![h] = q]
          BY <1>t, <3>3, <4>2 DEF StopService
        <5>2. q.kind = req[h].kind /\ q.pc # "new"
          BY <1>t DEF Request
        <5> HIDE DEF q
        <5> QED BY <5>1, <5>2
      <4> QED BY <4>1, <4>2
    <3> QED BY <1>4, <3>1, <3>2, <3>3 DEF Handle
  <2>4. UNCHANGED event /\ (UNCHANGED loops \/ S!Start)
    BY <1>4
       DEF Handle, WriteUpdate, WriteScale, AddService, S!Add, StartService,
           StopService, S!Stop, ServiceStopped, FinishScale, FinishDelete,
           supervisor
  <2> QED BY <1>h, <2>2, <2>3, <2>4
<1>5. ASSUME NEW l \in S!Loop, Supervise(l)
      PROVE  Begun'
  <2>1. /\ \A m \in S!Loop : m # l => loops'[m] = loops[m]
        /\ loops'[l].phase # "off"
    BY <1>5, SuperviseInside
  <2>2. /\ \A m \in S!Loop : m # l => event'[m] = event[m]
        /\ event'[l].pc # "write"
    BY <1>5, <1>t DEF Supervise, NoEvent
  <2>3. UNCHANGED req
    BY <1>5 DEF Supervise
  <2> QED BY <2>1, <2>2, <2>3 DEF Begun
<1>6. ASSUME NEW l \in S!Loop, Deliver(l)
      PROVE  Begun'
  <2>1. /\ \A m \in S!Loop : m # l => event'[m] = event[m]
        /\ event[l].pc # "none"
        /\ event'[l].pc = "write" => event'[l].copy.state = "there"
    <3>1. CASE WriteRow(l)
      BY <1>t, <3>1 DEF WriteRow, Drop, NoEvent
    <3>2. CASE ReadRow(l) /\ row.state = "there" /\ ~ Drop(l)
      <4>1. /\ event[l].pc = "read"
            /\ event' = [event EXCEPT ![l] = [event[l] EXCEPT !.pc = "write",
                                                              !.copy = row]]
        BY <3>2 DEF ReadRow
      <4> QED BY <1>t, <3>2, <4>1 DEF Event
    <3>3. CASE ReadRow(l) /\ (row.state # "there" \/ Drop(l))
      BY <1>t, <3>3 DEF ReadRow, Drop, NoEvent
    <3> QED BY <1>6, <3>1, <3>2, <3>3 DEF Deliver
  <2>2. UNCHANGED <<loops, req>>
    BY <1>6 DEF Deliver, ReadRow, WriteRow, Drop, supervisor
  <2> QED BY <2>1, <2>2 DEF Begun
<1>7. ASSUME NEW o \in S!Object, NEW h \in Caller, TerminateStep(o, h)
      PROVE  Begun'
  <2>1. UNCHANGED <<loops, event, req>>
    BY <1>7 DEF TerminateStep, S!TerminateStep, S!ReadProcess, S!Terminate,
                S!Kill, S!Terminated
  <2> QED BY <2>1 DEF Begun
<1>8. ASSUME NEW p \in S!Pid, NEW code \in {0, 1}, Exit(p, code)
      PROVE  Begun'
  <2>1. UNCHANGED <<loops, event, req>>
    BY <1>8 DEF Exit, S!Exit
  <2> QED BY <2>1 DEF Begun
<1>9. CASE UNCHANGED vars
  BY <1>9 DEF vars, supervisor, Begun
<1> QED BY <1>1, <1>2, <1>3, <1>4, <1>5, <1>6, <1>7, <1>8, <1>9 DEF Next

\* A step of the one goroutine keeps the row behind it.
LEMMA FollowingSupervise ==
  ASSUME P!SupervisorInv, RowsTyped, Begun, boot = "serving",
         NEW l \in S!Loop, Supervise(l), Following(l)
  PROVE  Following(l)'
<1>t. /\ svc \in [S!Object -> P!ServiceRecord]
      /\ loops \in [S!Loop -> P!LoopRecord]
      /\ event \in [S!Loop -> Event]
  BY SameData DEF RowsTyped, P!SupervisorInv, P!TypeOK
<1>o. PICK o \in S!Object : o = loops[l].obj
  BY SuperviseInside
<1>e. /\ loops[l].phase # "off" /\ loops'[l].phase # "off"
      /\ loops'[l].obj = o
      /\ event[l].pc = "none"
      /\ row' = row /\ missed' = missed
  BY <1>o, SuperviseInside DEF Supervise
<1>f. /\ loops[l].phase \in {"started", "waiting"} => svc[o].state = "running"
      /\ loops[l].phase = "top" => svc[o].state \in {"stopped", "backoff"}
      /\ loops[l].phase = "backoff" => svc[o].state = "backoff"
      /\ (loops[l].phase \notin {"top", "done"} /\ ~ missed)
           => row.phase = PhaseOf(svc[o].state)
  BY <1>e, <1>o DEF Following
\* How the phase of the goroutine and the state of its service change together.
<1>p. /\ loops'[l].phase \in {"started", "waiting"} => svc'[o].state = "running"
      /\ loops'[l].phase = "top" => svc'[o].state \in {"stopped", "backoff"}
      /\ loops'[l].phase = "backoff" => svc'[o].state = "backoff"
      /\ loops[l].phase # "done"
      /\ loops[l].phase = "top" => \/ loops'[l].phase = "done"
                                   \/ svc'[o].state # svc[o].state
  <2>1. CASE S!Top(l)
    <3>1. /\ loops[l].phase = "top"
          /\ \/ loops'[l].phase = "done"
             \/ loops'[l].phase = "starting" /\ svc'[o].state = "starting"
      BY <1>t, <1>o, <2>1 DEF S!Top, P!LoopRecord, P!ServiceRecord
    <3> QED BY <1>f, <3>1
  <2>2. CASE S!Spawn(l)
    <3>1. loops[l].phase = "starting" /\ loops'[l].phase = "spawned"
      BY <1>t, <2>2 DEF S!Spawn, P!LoopRecord
    <3> QED BY <3>1
  <2>3. CASE S!SpawnFails(l)
    <3>1. loops[l].phase = "starting" /\ loops'[l].phase = "decide"
      BY <1>t, <2>3 DEF S!SpawnFails, P!LoopRecord
    <3> QED BY <3>1
  <2>4. CASE S!Record(l)
    <3>1. /\ loops[l].phase = "spawned" /\ loops'[l].phase = "started"
          /\ svc'[o].state = "running"
      BY <1>t, <1>o, <2>4 DEF S!Record, P!LoopRecord, P!ServiceRecord
    <3> QED BY <3>1
  <2>5. CASE S!ReadCmd(l)
    <3>1. /\ loops[l].phase = "started" /\ svc' = svc
          /\ loops'[l].phase \in {"decide", "waiting"}
      BY <1>t, <2>5 DEF S!ReadCmd, P!LoopRecord
    <3> QED BY <1>f, <3>1
  <2>6. CASE S!WaitReturns(l)
    <3>1. loops[l].phase = "waiting" /\ loops'[l].phase = "decide"
      BY <1>t, <2>6 DEF S!WaitReturns, P!LoopRecord
    <3> QED BY <3>1
  <2>7. CASE S!Decide(l)
    <3>1. /\ loops[l].phase = "decide"
          /\ \/ loops'[l].phase = "done"
             \/ loops'[l].phase = "backoff" /\ svc'[o].state = "backoff"
      <4>1. CASE S!shouldRestart(svc[o])
        BY <1>t, <1>o, <2>7, <4>1 DEF S!Decide, P!LoopRecord, P!ServiceRecord
      <4>2. CASE ~ S!shouldRestart(svc[o])
        BY <1>t, <1>o, <2>7, <4>2 DEF S!Decide, P!LoopRecord
      <4> QED BY <4>1, <4>2
    <3> QED BY <3>1
  <2>8. CASE S!BackoffPasses(l)
    <3>1. /\ loops[l].phase = "backoff" /\ loops'[l].phase = "top"
          /\ svc'[o].state = svc[o].state
      BY <1>t, <1>o, <2>8 DEF S!BackoffPasses, P!LoopRecord, P!ServiceRecord
    <3> QED BY <1>f, <3>1
  <2>9. CASE S!BackoffStops(l)
    <3>1. loops[l].phase = "backoff" /\ loops'[l].phase = "done"
      BY <1>t, <2>9 DEF S!BackoffStops, P!LoopRecord
    <3> QED BY <3>1
  <2> QED BY <2>1, <2>2, <2>3, <2>4, <2>5, <2>6, <2>7, <2>8, <2>9
          DEF Supervise, S!Supervise
\* The event, if the state has changed.
<1>1. CASE svc'[o].state # svc[o].state
  <2>1. event'[l].pc = "read" /\ event'[l].state = svc'[o].state
    BY <1>1, <1>o, <1>t DEF Supervise, NoEvent
  <2> QED BY <1>e, <1>p, <2>1 DEF Following
<1>2. CASE svc'[o].state = svc[o].state
  <2>1. event'[l].pc = "none"
    BY <1>2, <1>o, <1>t DEF Supervise, NoEvent
  <2> QED BY <1>2, <1>e, <1>f, <1>p, <2>1 DEF Following
<1> QED BY <1>1, <1>2

\* So do the reading and the writing of the row for its event.
LEMMA FollowingDeliver ==
  ASSUME P!SupervisorInv, RowsTyped, Begun, row.state = "there",
         NEW l \in S!Loop, Deliver(l), Following(l)
  PROVE  Following(l)' /\ row'.state = "there"
<1>t. row \in Row /\ event \in [S!Loop -> Event]
  BY DEF RowsTyped
<1>u. UNCHANGED <<loops, svc>>
  BY DEF Deliver, ReadRow, WriteRow, Drop, supervisor
\* An event that was dropped leaves the row as it was, and is remembered.
<1>d. CASE Drop(l)
  <2>1. /\ event'[l].pc = "none" /\ missed' /\ row' = row
    BY <1>d, <1>t DEF Drop, NoEvent
  <2> QED BY <1>u, <2>1 DEF Following
<1>1. CASE ReadRow(l) /\ ~ Drop(l)
  <2>1. /\ event[l].pc = "read"
        /\ event' = [event EXCEPT ![l] = [event[l] EXCEPT !.pc = "write",
                                                          !.copy = row]]
        /\ row' = row
    BY <1>1 DEF ReadRow
  <2>2. /\ event'[l].pc = "write" /\ event'[l].copy = row
        /\ event'[l].state = event[l].state
    BY <1>t, <2>1 DEF Event
  <2> QED BY <1>u, <2>1, <2>2 DEF Following
<1>2. CASE WriteRow(l) /\ ~ Drop(l)
  <2>1. event[l].pc = "write" /\ event'[l].pc = "none"
    BY <1>2, <1>t DEF WriteRow, NoEvent
  <2>2. /\ Told(l).phase = PhaseOf(event[l].state)
        /\ Told(l).state = event[l].copy.state
    BY <2>1, ToldType
  <2>3. row' = Told(l) \/ (row' = row /\ Told(l) = event[l].copy)
    BY <1>2 DEF WriteRow, UpdateDeployment
  <2>4. loops[l].phase # "off"
    BY <2>1 DEF Begun
  <2>5. event[l].copy = row /\ event[l].state = svc[loops[l].obj].state
    BY <2>1, <2>4 DEF Following
  <2>6. row'.phase = PhaseOf(svc[loops[l].obj].state) /\ row'.state = "there"
    BY <2>2, <2>3, <2>5
  <2> QED BY <1>u, <2>1, <2>6 DEF Following
<1> QED BY <1>d, <1>1, <1>2 DEF Deliver

\* While a deployment is only created and run, every step keeps its row behind
\* the supervisor.
LEMMA FollowedStep ==
  ASSUME P!SupervisorInv, DeploymentsInv, [Next]_vars
  PROVE  Followed'
<1> DEFINE Made1 == \E h \in Caller : req[h].kind = "create"
<1>i. RowsTyped /\ Begun /\ Followed /\ P!Numbered
  BY DEF DeploymentsInv, P!SupervisorInv
<1>t. /\ req \in [Caller -> Request] /\ event \in [S!Loop -> Event]
      /\ svc \in [S!Object -> P!ServiceRecord]
      /\ loops \in [S!Loop -> P!LoopRecord]
      /\ created \in Nat /\ started \in Nat /\ current \in Nat
      /\ \A l \in S!Loop : l \in Nat /\ l > 0
  BY SameData, ServiceAssumption
     DEF DeploymentsInv, RowsTyped, P!SupervisorInv, P!TypeOK, S!Loop,
         S!SupervisorAssumption
<1>k. \A h \in Caller : req[h].kind = "none" <=> req[h].pc = "new"
  BY <1>i DEF Begun
\* Goroutines that have not been started are off.
<1>l. \A l \in S!Loop : l > started => loops[l].phase = "off"
  BY <1>i, SameData DEF P!Numbered
\* A request whose kind is not create rules the case out.
<1>c. ASSUME NEW h \in Caller, req'[h].kind \notin {"none", "create"}
      PROVE  Followed'
  BY <1>c DEF Followed, NoneButCreated
\* A step that leaves what Followed speaks of alone.
<1>u. ASSUME UNCHANGED <<row, req, event, boot, loops, svc, created, started,
                         missed>>
      PROVE  Followed'
  <2>1. \A l \in S!Loop : Following(l)' <=> Following(l)
    BY <1>u DEF Following
  <2>2. \A h \in Caller : Creating(h)' <=> Creating(h)
    BY <1>u DEF Creating
  <2>3. NoneButCreated' <=> NoneButCreated
    BY <1>u DEF NoneButCreated
  <2> QED BY <1>i, <1>u, <2>1, <2>2, <2>3 DEF Followed
<1>1. CASE BootAdd \/ BootStart \/ Subscribe
  <2>1. UNCHANGED <<row, req, event>> /\ boot # "serving"
    BY <1>1 DEF BootAdd, BootStart, Subscribe
  <2>2. NoneButCreated' <=> NoneButCreated
    BY <2>1 DEF NoneButCreated
  <2> QED BY <1>i, <2>1, <2>2 DEF Followed
<1>2. ASSUME NEW h \in Caller, Create(h)
      PROVE  Followed'
  <2>1. /\ row.state = "none" /\ row'.state = "there"
        /\ req[h].pc = "new"
        /\ UNCHANGED <<boot, loops, svc, event, created, started>>
    BY <1>2 DEF Create, Made, NoRowYet, supervisor
  <2>2. /\ \A g \in Caller : g # h => req'[g] = req[g]
        /\ req'[h].kind = "create" /\ req'[h].pc = "add"
    BY <1>2, <1>t DEF Create, Request
  <2> SUFFICES ASSUME NoneButCreated'
               PROVE  Followed'
    BY DEF Followed
  <2>3. NoneButCreated
    BY <1>k, <2>1, <2>2 DEF NoneButCreated
  <2>4. ~ Made1 /\ boot = "serving" /\ created = 0 /\ started = 0
    BY <1>i, <2>1, <2>3 DEF Followed
  <2>5. \A g \in Caller : req'[g].kind = "create" => g = h
    BY <2>2, <2>4
  <2>6. \A l \in S!Loop : loops[l].phase = "off"
    BY <1>l, <1>t, <2>4
  <2>7. \A l \in S!Loop : Following(l)'
    BY <2>1, <2>6 DEF Following
  <2>8. Creating(h)'
    BY <2>1, <2>2, <2>4 DEF Creating
  <2> QED BY <2>1, <2>2, <2>4, <2>5, <2>7, <2>8 DEF Followed
<1>3. ASSUME NEW h \in Caller, NEW kind \in {"update", "scale", "delete"},
             NEW n \in {0, 1}, Read(h, kind, n)
      PROVE  Followed'
  <2>1. req'[h].kind = kind
    BY <1>3, <1>t DEF Read
  <2> QED BY <1>c, <2>1
<1>4. ASSUME NEW h \in Caller, Handle(h)
      PROVE  Followed'
  <2> SUFFICES ASSUME NoneButCreated'
               PROVE  Followed'
    BY DEF Followed
  <2>1. /\ \A g \in Caller : g # h => req'[g] = req[g]
        /\ req'[h].kind = req[h].kind
    BY <1>4, <1>t
       DEF Handle, WriteUpdate, WriteScale, AddService, StartService,
           StopService, ServiceStopped, FinishScale, FinishDelete, Request
  <2>2. NoneButCreated
    BY <2>1 DEF NoneButCreated
  <2>3. req[h].kind = "create"
    <3>1. req[h].pc # "new"
      BY <1>4 DEF Handle, WriteUpdate, WriteScale, AddService, StartService,
                  StopService, ServiceStopped, FinishScale, FinishDelete
    <3> QED BY <1>k, <2>2, <3>1 DEF NoneButCreated
  <2>4. /\ row.state = "there" /\ boot = "serving"
        /\ Creating(h)
        /\ \A g \in Caller : req[g].kind = "create" => g = h
        /\ \A l \in S!Loop : Following(l)
    BY <1>i, <2>2, <2>3 DEF Followed
  <2>5. AddService(h) \/ StartService(h)
    BY <1>4, <2>3, <2>4
       DEF Handle, Creating, WriteUpdate, WriteScale, StopService,
           ServiceStopped, FinishScale, FinishDelete
  <2>6. UNCHANGED <<row, boot, event>>
    BY <2>5 DEF AddService, StartService
  <2>7. \A g \in Caller : req'[g].kind = "create" => g = h
    BY <2>1, <2>4
  <2>g. ASSUME Creating(h)', \A l \in S!Loop : Following(l)'
        PROVE  Followed'
    BY <2>g, <2>1, <2>3, <2>4, <2>6, <2>7 DEF Followed
  <2>8. CASE AddService(h)
    <3>1. /\ req[h].pc = "add" /\ req'[h].pc = "start"
          /\ created' = created + 1 /\ UNCHANGED <<loops, started>>
          /\ svc' = [svc EXCEPT ![created + 1] =
                       [S!NoService EXCEPT !.policy = "always"]]
          /\ created < MaxObjects
      BY <2>8, <1>t DEF AddService, S!Add, Request
    <3>2. created = 0 /\ started = 0
      BY <2>4, <3>1 DEF Creating
    <3>3. 1 \in S!Object
      BY <3>1, <3>2, ServiceAssumption
         DEF S!Object, S!SupervisorAssumption
    <3>4. svc'[1].state = "stopped"
      BY <1>t, <3>1, <3>2, <3>3 DEF S!NoService
    <3>5. Creating(h)'
      BY <3>1, <3>2, <3>4 DEF Creating
    <3>6. \A l \in S!Loop : Following(l)'
      BY <1>l, <1>t, <3>1, <3>2 DEF Following
    <3> QED BY <2>g, <3>5, <3>6
  <2>9. CASE StartService(h)
    <3>1. /\ req[h].pc = "start" /\ req'[h].pc = "done"
          /\ UNCHANGED <<svc, created>> /\ current # 0
          /\ started' = started + 1
          /\ loops' = [loops EXCEPT ![started + 1] =
                         [S!NoLoop EXCEPT !.obj = current, !.phase = "top"]]
      BY <2>9, <1>t DEF StartService, S!Start, Request
    <3>2. created = 1 /\ started = 0 /\ svc[1].state = "stopped"
      BY <2>4, <3>1 DEF Creating
    <3>3. current = 1
      BY <1>i, <1>t, <3>1, <3>2 DEF P!Numbered
    <3>4. Creating(h)'
      BY <3>1, <3>2 DEF Creating
    <3>5. ASSUME NEW l \in S!Loop PROVE Following(l)'
      <4>1. loops[l].phase = "off" /\ event[l].pc = "none"
        BY <1>i, <1>l, <1>t, <3>2 DEF Begun
      <4>2. CASE l = 1
        <5>1. loops'[l].phase = "top" /\ loops'[l].obj = 1
          BY <1>t, <3>1, <3>2, <3>3, <4>2 DEF S!NoLoop
        <5> QED BY <2>6, <3>1, <3>2, <4>1, <5>1 DEF Following
      <4>3. CASE l # 1
        <5>1. loops'[l].phase = "off"
          BY <1>t, <3>1, <3>2, <4>1, <4>3
        <5> QED BY <5>1 DEF Following
      <4> QED BY <4>2, <4>3
    <3> QED BY <2>g, <3>4, <3>5
  <2> QED BY <2>5, <2>8, <2>9
\* A step of a goroutine or of its event.
<1>5. ASSUME NEW l \in S!Loop, Supervise(l) \/ Deliver(l)
      PROVE  Followed'
  <2>1. UNCHANGED <<req, boot, created, started>>
    BY <1>5, SuperviseInside
       DEF Supervise, Deliver, ReadRow, WriteRow, Drop, supervisor
  <2>2. loops[l].phase # "off"
    BY <1>5, <1>i, SuperviseInside DEF Deliver, ReadRow, WriteRow, Drop, Begun
  <2>3. NoneButCreated' <=> NoneButCreated
    BY <2>1 DEF NoneButCreated
  <2> SUFFICES ASSUME NoneButCreated
               PROVE  Followed'
    BY <2>3 DEF Followed
  <2>4. CASE Made1
    <3>1. /\ row.state = "there" /\ boot = "serving"
          /\ \A h \in Caller : req[h].kind = "create" => Creating(h)
          /\ \A h, g \in Caller :
               (req[h].kind = "create" /\ req[g].kind = "create") => h = g
          /\ \A m \in S!Loop : Following(m)
      BY <1>i, <2>4 DEF Followed
    <3>2. started = 1
      BY <1>l, <1>t, <2>2, <2>4, <3>1 DEF Creating
    <3>3. \A m \in S!Loop : m # l => loops[m].phase = "off"
      BY <1>l, <1>t, <2>2, <3>2
    <3>4. \A m \in S!Loop : m # l => loops'[m] = loops[m]
      BY <1>5, SuperviseInside DEF Deliver, ReadRow, WriteRow, Drop, supervisor
    <3>5. Following(l)' /\ row'.state = "there"
      <4>1. CASE Supervise(l)
        BY <1>i, <3>1, <4>1, FollowingSupervise DEF Supervise
      <4>2. CASE Deliver(l)
        BY <1>i, <3>1, <4>2, FollowingDeliver
      <4> QED BY <1>5, <4>1, <4>2
    <3>6. \A m \in S!Loop : Following(m)'
      BY <3>3, <3>4, <3>5 DEF Following
    <3>7. ASSUME NEW h \in Caller, req'[h].kind = "create"
          PROVE  Creating(h)'
      <4>1. Creating(h)
        BY <2>1, <3>1, <3>7
      <4> QED BY <2>1, <3>2, <4>1 DEF Creating
    <3> QED BY <2>1, <2>4, <3>1, <3>5, <3>6, <3>7 DEF Followed
  <2>5. CASE ~ Made1
    <3>1. row.state = "none" => started = 0
      BY <1>i, <2>5 DEF Followed
    <3>2. row.state # "none"
      BY <1>l, <1>t, <2>2, <3>1
    <3>3. row'.state # "none"
      <4>1. CASE WriteRow(l)
        <5>1. Told(l).state = "there"
          BY <1>i, <4>1, ToldType DEF WriteRow, Begun
        <5> QED BY <3>2, <4>1, <5>1 DEF WriteRow, Drop, UpdateDeployment
      <4>2. CASE Supervise(l) \/ ReadRow(l)
        BY <3>2, <4>2 DEF Supervise, ReadRow, Drop
      <4> QED BY <1>5, <4>1, <4>2 DEF Deliver
    <3> QED BY <2>1, <2>5, <3>3 DEF Followed
  <2> QED BY <2>4, <2>5
<1>6. ASSUME NEW o \in S!Object, NEW h \in Caller, TerminateStep(o, h)
      PROVE  Followed'
  <2>1. UNCHANGED <<row, req, event, boot, loops, svc, created, started,
                    missed>>
    BY <1>6 DEF TerminateStep, S!TerminateStep, S!ReadProcess, S!Terminate,
                S!Kill, S!Terminated
  <2> QED BY <1>u, <2>1
<1>7. ASSUME NEW p \in S!Pid, NEW code \in {0, 1}, Exit(p, code)
      PROVE  Followed'
  <2>1. UNCHANGED <<row, req, event, boot, loops, svc, created, started,
                    missed>>
    BY <1>7 DEF Exit, S!Exit
  <2> QED BY <1>u, <2>1
<1>8. CASE UNCHANGED vars
  BY <1>8, <1>u DEF vars, supervisor
<1> QED BY <1>1, <1>2, <1>3, <1>4, <1>5, <1>6, <1>7, <1>8 DEF Next

-----------------------------------------------------------------------------
(* The theorems on the row *)

\* The first state satisfies the invariant of the server.
LEMMA ServerInit == Init => DeploymentsInv
<1> SUFFICES ASSUME Init PROVE DeploymentsInv
  OBVIOUS
<1>1. PICK p \in Plans :
        /\ kinds = p.kinds
        /\ IF p.found = "none"
             THEN row = NoRowYet /\ boot = "serving"
             ELSE /\ row = [NoRowYet EXCEPT !.state = "there", !.replicas = 1,
                                           !.phase = p.found]
                  /\ boot = "add"
  BY DEF Init
<1>2. /\ p.found \in {"none", "Pending", "Starting", "Running", "Failed",
                      "CrashLoopBackOff", "Stopped"}
      /\ p.kinds \in [Caller -> SUBSET {"create", "update", "scale", "delete"}]
  BY DeploymentsAssumption
<1>3. row \in Row /\ (row.state = "none" => boot = "serving")
  BY <1>1, <1>2, IdleTypes DEF Row, Phase, NoRowYet
<1>4. /\ req = [h \in Caller |-> NoRequest]
      /\ event = [l \in S!Loop |-> NoEvent]
      /\ missed = FALSE
      /\ created = 0 /\ started = 0
  BY DEF Init, S!Init
<1>5. RowsTyped
  BY <1>1, <1>2, <1>3, <1>4, IdleTypes DEF RowsTyped
<1>6. \A h \in Caller : req[h].kind = "none" /\ req[h].pc = "new"
  BY <1>4 DEF NoRequest
<1>7. \A l \in S!Loop : event[l].pc = "none"
  BY <1>4 DEF NoEvent
<1>8. Begun
  BY <1>6, <1>7 DEF Begun
<1>9. Followed
  BY <1>3, <1>4, <1>6 DEF Followed
<1> QED BY <1>5, <1>8, <1>9 DEF DeploymentsInv

\* The inductive invariant of the server, on top of the supervisor's.
THEOREM DeploymentsInvariant == Spec => [](P!SupervisorInv /\ DeploymentsInv)
<1>1. P!SupervisorInv /\ P!SupervisorInv' /\ DeploymentsInv /\ [Next]_vars
        => DeploymentsInv'
  BY RowsTypedStep, BegunStep, FollowedStep DEF DeploymentsInv
<1> QED BY <1>1, ServerInit, SupervisorInside, PTL DEF Spec

\* Every variable of the server and its supervisor keeps its type.
THEOREM TypeCorrect == Spec => []TypeOK
<1>1. P!SupervisorInv => S!TypeOK
  BY SameData DEF P!SupervisorInv, P!TypeOK, S!TypeOK, P!ServiceRecord,
     S!ServiceRecord, P!LoopRecord, S!LoopRecord, P!LongestDelay,
     S!LongestDelay, P!ProcRecord, S!ProcRecord, P!TermRecord, S!TermRecord
<1>2. P!SupervisorInv /\ DeploymentsInv => TypeOK
  BY <1>1 DEF DeploymentsInv, RowsTyped, TypeOK
<1> QED BY <1>2, DeploymentsInvariant, PTL

\* However often a service crashes or fails to start, and however its events
\* interleave with the handlers, the row of a deployment that was created and
\* left alone reads Running when the service runs, all is quiet and the store
\* did not fail at the last event.
THEOREM RowInSync == Spec => []InSync
<1>1. P!SupervisorInv /\ DeploymentsInv => InSync
  <2> SUFFICES ASSUME DeploymentsInv, NEW l \in S!Loop, Quiet, OnlyCreated,
                      ~ missed, loops[l].phase = "waiting"
               PROVE  row.phase = "Running"
    BY DEF InSync
  <2>1. Following(l)
    BY DEF DeploymentsInv, Followed, NoneButCreated, OnlyCreated
  <2>2. event[l].pc = "none"
    BY DEF Quiet
  <2>3. row.phase = PhaseOf("running")
    BY <2>1, <2>2 DEF Following
  <2> QED BY <2>3 DEF PhaseOf
<1> QED BY <1>1, DeploymentsInvariant, PTL

=============================================================================
