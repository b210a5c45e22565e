---------------------------- MODULE Deployments ----------------------------
(***************************************************************************)
(* One service deployment of the API server (pkg/api/server.go): its row   *)
(* in the store, the HTTP handlers that change it, the supervisor they     *)
(* call (module Supervisor, step by step), and the state-change events by  *)
(* which the supervisor's goroutines write the row in turn.                *)
(*                                                                         *)
(* Every writer reads the whole row, changes its copy and writes the whole *)
(* row back; each statement is a step.  A request is a goroutine of its    *)
(* own and is made once.  A goroutine of the supervisor waits for the      *)
(* handler of its event before it goes on.                                 *)
(***************************************************************************)
EXTENDS Integers, FiniteSets

CONSTANTS
  RestartDelay, MaxRestartDelay, Policies, Caller, MaxObjects, MaxLoops,
  MaxTries, MayFail,             \* as in Supervisor; Caller: the requests
  Plans  \* bounds, one for each initial state: the phase of the row the
         \* server finds at start, "none" without a row, and what kinds of
         \* request each request may be

ASSUME DeploymentsAssumption ==
  Plans \subseteq
    [found : {"none", "Pending", "Starting", "Running", "Failed",
              "CrashLoopBackOff", "Stopped"},
     kinds : [Caller -> SUBSET {"create", "update", "scale", "delete"}]]

VARIABLES
  current, svc, created, loops, started, procs, tries, term, stopping, stopAll,
  row,      \* the row of the deployment
  req,      \* req[h]: a request and its handler
  event,    \* event[l]: the event that goroutine l is delivering
  boot,     \* Server.Start: "add", "start", "subscribe" or "serving"
  kinds,    \* kinds[h]: what kinds of request h may be
  missed    \* history: the last event delivered was dropped for a store error

S == INSTANCE Supervisor

\* The server restarts its services whatever way they end.
ASSUME ServiceAssumption ==
  /\ S!SupervisorAssumption
  /\ "always" \in Policies

supervisor == <<current, svc, created, loops, started, procs, tries, term,
                stopping, stopAll>>

vars == <<supervisor, row, req, event, boot, kinds, missed>>

-----------------------------------------------------------------------------

Phase == {"Pending", "Starting", "Running", "Failed", "CrashLoopBackOff",
          "Stopped"}

Row == [state : {"none", "there", "deleted"}, replicas : {0, 1}, env : {0, 1},
        phase : Phase, restarts : Nat]

Request == [kind : {"none", "create", "update", "scale", "delete"},
            pc : {"new", "write", "add", "start", "stop", "stopping", "finish",
                  "done"},
            copy : Row, replicas : {0, 1}, obj : 0..MaxObjects]

Event == [pc : {"none", "read", "write"}, state : S!ServiceState, copy : Row]

NoRowYet == [state |-> "none", replicas |-> 0, env |-> 0, phase |-> "Pending",
             restarts |-> 0]

NoRequest == [kind |-> "none", pc |-> "new", copy |-> NoRowYet, replicas |-> 0,
              obj |-> 0]

NoEvent == [pc |-> "none", state |-> "stopped", copy |-> NoRowYet]

\* A request has been made and is not answered.
Busy(h) == req[h].pc \notin {"new", "done"}

\* Nothing is under way: no request, no event.
Quiet ==
  /\ boot = "serving"
  /\ \A h \in Caller : ~ Busy(h)
  /\ \A l \in S!Loop : event[l].pc = "none"

\* Store.UpdateDeployment: the whole row, if there is one.
UpdateDeployment(r) ==
  row' = IF row.state = "there" THEN r ELSE row

\* The phase an event writes.
PhaseOf(state) ==
  CASE state = "running"  -> "Running"
    [] state = "starting" -> "Starting"
    [] state = "failed"   -> "Failed"
    [] state = "backoff"  -> "CrashLoopBackOff"
    [] state = "stopped"  -> "Stopped"

-----------------------------------------------------------------------------
(* Server.Start *)

\* loadExistingDeployments starts the service; it is not yet subscribed to.
BootAdd ==
  /\ boot = "add"
  /\ S!Add("always")
  /\ boot' = "start"
  /\ UNCHANGED <<row, req, event, kinds, missed>>

BootStart ==
  /\ boot = "start"
  /\ S!Start
  /\ boot' = "subscribe"
  /\ UNCHANGED <<row, req, event, kinds, missed>>

\* OnStateChange, then requests are served.
Subscribe ==
  /\ boot = "subscribe"
  /\ boot' = "serving"
  /\ UNCHANGED <<supervisor, row, req, event, kinds, missed>>

-----------------------------------------------------------------------------
(* Handlers *)

Made(h, kind) ==
  /\ boot = "serving"
  /\ kind \in kinds[h]
  /\ req[h].pc = "new"

\* handleCreateDeployment up to the insertion of the row.
Create(h) ==
  /\ Made(h, "create")
  /\ row.state = "none"
  /\ row' = [NoRowYet EXCEPT !.state = "there", !.replicas = 1]
  /\ req' = [req EXCEPT ![h].kind = "create", ![h].pc = "add"]
  /\ UNCHANGED <<supervisor, event, boot, kinds, missed>>

\* getDeploymentByIDOrName in the other three.
Read(h, kind, n) ==
  /\ Made(h, kind)
  /\ kind # "create"
  /\ row.state = "there"
  /\ req' = [req EXCEPT ![h] = [kind |-> kind, copy |-> row, replicas |-> n,
                                obj |-> 0,
                                pc |-> IF kind = "delete" THEN "stop"
                                                          ELSE "write"]]
  /\ UNCHANGED <<supervisor, row, event, boot, kinds, missed>>

\* handleUpdateDeployment: the environment, and the replicas when given.
WriteUpdate(h) ==
  LET d == [req[h].copy EXCEPT !.env = 1,
              !.replicas = IF req[h].replicas > 0 THEN req[h].replicas ELSE @]
  IN
  /\ req[h].kind = "update" /\ req[h].pc = "write"
  /\ UpdateDeployment(d)
  /\ req' = [req EXCEPT ![h].pc = "done"]
  /\ UNCHANGED <<supervisor, event, boot, kinds, missed>>

\* handleScaleDeployment: the row first, then the service.
WriteScale(h) ==
  LET old == req[h].copy.replicas
      d   == [req[h].copy EXCEPT !.replicas = req[h].replicas]
  IN
  /\ req[h].kind = "scale" /\ req[h].pc = "write"
  /\ UpdateDeployment(d)
  /\ req' = [req EXCEPT ![h].copy = d,
               ![h].pc = CASE row.state # "there" -> "done"
                           [] row.state = "there" /\ old < d.replicas -> "add"
                           [] row.state = "there" /\ old > d.replicas -> "stop"
                           [] OTHER -> "done"]
  /\ UNCHANGED <<supervisor, event, boot, kinds, missed>>

\* startService: Supervisor.Add, then Supervisor.Start.
AddService(h) ==
  /\ req[h].pc = "add"
  /\ S!Add("always")
  /\ req' = [req EXCEPT ![h].pc = "start"]
  /\ UNCHANGED <<row, event, boot, kinds, missed>>

StartService(h) ==
  /\ req[h].pc = "start"
  /\ S!Start
  /\ req' = [req EXCEPT ![h].pc = "done"]
  /\ UNCHANGED <<row, event, boot, kinds, missed>>

\* stopService: Supervisor.Stop, which returns at once for an unknown id.
StopService(h) ==
  /\ req[h].pc = "stop"
  /\ IF current = 0
       THEN /\ req' = [req EXCEPT ![h].pc = "finish"]
            /\ UNCHANGED supervisor
       ELSE /\ S!Stop(h)
            /\ req' = [req EXCEPT ![h].pc = "stopping", ![h].obj = current]
  /\ UNCHANGED <<row, event, boot, kinds, missed>>

ServiceStopped(h) ==
  /\ req[h].pc = "stopping"
  /\ term[req[h].obj][h].phase \in {"unseen", "gone"}
  /\ req' = [req EXCEPT ![h].pc = "finish"]
  /\ UNCHANGED <<supervisor, row, event, boot, kinds, missed>>

\* What follows: the phase Stopped, or the deletion of the row.
FinishScale(h) ==
  /\ req[h].kind = "scale" /\ req[h].pc = "finish"
  /\ UpdateDeployment([req[h].copy EXCEPT !.phase = "Stopped"])
  /\ req' = [req EXCEPT ![h].pc = "done"]
  /\ UNCHANGED <<supervisor, event, boot, kinds, missed>>

FinishDelete(h) ==
  /\ req[h].kind = "delete" /\ req[h].pc = "finish"
  /\ row' = [NoRowYet EXCEPT !.state = "deleted"]
  /\ req' = [req EXCEPT ![h].pc = "done"]
  /\ UNCHANGED <<supervisor, event, boot, kinds, missed>>

-----------------------------------------------------------------------------
(* The supervisor's goroutines and their events *)

\* Mutant of Supervise: the event carries the state that was left.
SuperviseSwapped(l) ==
  /\ event[l].pc = "none"
  /\ S!Supervise(l)
  /\ LET o == loops[l].obj IN
     event' = [event EXCEPT ![l] =
                 IF svc'[o].state # svc[o].state /\ boot = "serving"
                   THEN [NoEvent EXCEPT !.pc = "read", !.state = svc[o].state]
                   ELSE NoEvent]
  /\ UNCHANGED <<row, req, boot, kinds, missed>>

\* A step of the supervise goroutine; emitStateChange follows a change of the
\* state when there is a subscriber.
Supervise(l) ==
  /\ event[l].pc = "none"
  /\ S!Supervise(l)
  /\ LET o == loops[l].obj IN
     event' = [event EXCEPT ![l] =
                 IF svc'[o].state # svc[o].state /\ boot = "serving"
                   THEN [NoEvent EXCEPT !.pc = "read", !.state = svc'[o].state]
                   ELSE NoEvent]
  /\ UNCHANGED <<row, req, boot, kinds, missed>>

\* The event is dropped when the store answers with an error: the row keeps
\* what it has until the next event.
Drop(l) ==
  /\ event' = [event EXCEPT ![l] = NoEvent]
  /\ missed' = TRUE
  /\ UNCHANGED row

\* handleSupervisorStateChange: read the row, ...
ReadRow(l) ==
  /\ event[l].pc = "read"
  /\ \/ /\ event' = [event EXCEPT ![l] =
                      IF row.state = "there" THEN [@ EXCEPT !.pc = "write",
                                                            !.copy = row]
                                             ELSE NoEvent]
        /\ UNCHANGED <<row, missed>>
     \/ Drop(l)
  /\ UNCHANGED <<supervisor, req, boot, kinds>>

\* The copy of the row with the event's phase and restarts.
Told(l) ==
  [event[l].copy EXCEPT !.phase = PhaseOf(event[l].state),
                        !.restarts = svc[loops[l].obj].restarts]

\* Mutant of WriteRow: the row is put back if it has gone.
WriteRowAnyway(l) ==
  /\ event[l].pc = "write"
  /\ row' = Told(l)
  /\ event' = [event EXCEPT ![l] = NoEvent]
  /\ UNCHANGED <<supervisor, req, boot, kinds, missed>>

\* ... and write it if anything changed.  The error of the write is ignored.
WriteRow(l) ==
  /\ event[l].pc = "write"
  /\ \/ /\ IF Told(l) # event[l].copy THEN UpdateDeployment(Told(l))
                                      ELSE UNCHANGED row
        /\ event' = [event EXCEPT ![l] = NoEvent]
        /\ missed' = FALSE
     \/ Told(l) # event[l].copy /\ Drop(l)
  /\ UNCHANGED <<supervisor, req, boot, kinds>>

\* The rest of the supervisor, and the processes.
TerminateStep(o, h) ==
  /\ S!TerminateStep(o, h)
  /\ UNCHANGED <<row, req, event, boot, kinds, missed>>

Exit(p, code) ==
  /\ S!Exit(p, code)
  /\ UNCHANGED <<row, req, event, boot, kinds, missed>>

-----------------------------------------------------------------------------

Init ==
  /\ S!Init
  /\ req = [h \in Caller |-> NoRequest]
  /\ event = [l \in S!Loop |-> NoEvent]
  /\ missed = FALSE
  /\ \E p \in Plans :
       /\ kinds = p.kinds
       /\ IF p.found = "none"
            THEN row = NoRowYet /\ boot = "serving"
            ELSE /\ row = [NoRowYet EXCEPT !.state = "there", !.replicas = 1,
                                          !.phase = p.found]
                 /\ boot = "add"

Handle(h) ==
  \/ WriteUpdate(h) \/ WriteScale(h) \/ AddService(h) \/ StartService(h)
  \/ StopService(h) \/ ServiceStopped(h) \/ FinishScale(h) \/ FinishDelete(h)

Deliver(l) == ReadRow(l) \/ WriteRow(l)

Next ==
  \/ BootAdd \/ BootStart \/ Subscribe
  \/ \E h \in Caller :
       \/ Create(h)
       \/ \E kind \in {"update", "scale"}, n \in {0, 1} : Read(h, kind, n)
       \/ Read(h, "delete", 0)
       \/ Handle(h)
  \/ \E l \in S!Loop : Supervise(l) \/ Deliver(l)
  \/ \E o \in S!Object, h \in Caller : TerminateStep(o, h)
  \/ \E p \in S!Pid, code \in {0, 1} : Exit(p, code)

Spec == Init /\ [][Next]_vars

\* Handlers and goroutines go on.  A process may run for ever.
Fairness ==
  /\ WF_vars(BootAdd \/ BootStart \/ Subscribe)
  /\ \A h \in Caller : WF_vars(Handle(h))
  /\ \A l \in S!Loop : WF_vars(Supervise(l)) /\ WF_vars(Deliver(l))
  /\ \A o \in S!Object, h \in Caller : WF_vars(TerminateStep(o, h))

FairSpec == Spec /\ Fairness

-----------------------------------------------------------------------------
(* Properties *)

\* Every variable keeps its type.
TypeOK ==
  /\ S!TypeOK
  /\ row \in Row
  /\ req \in [Caller -> Request]
  /\ event \in [S!Loop -> Event]
  /\ boot \in {"add", "start", "subscribe", "serving"}
  /\ kinds \in [Caller -> SUBSET {"create", "update", "scale", "delete"}]
  /\ missed \in BOOLEAN

\* A deleted deployment does not come back, although goroutines and handlers
\* that read it before still write it.
DeletedStays == [][row.state = "deleted" => row'.state = "deleted"]_row

\* A bound of the model holds the request back.
AtBound(h) ==
  \/ req[h].pc = "add" /\ created = MaxObjects
  \/ req[h].pc = "start" /\ started = MaxLoops

\* Every request is answered, also one that stops a process which does not
\* want to end while events are delivered.
RequestsAnswered ==
  \A h \in Caller : Busy(h) ~> ~ Busy(h) \/ AtBound(h)

\* The row was created by a request, and no other writes it: only events do.
OnlyCreated ==
  /\ \A h \in Caller : req[h].kind \in {"none", "create"}
  /\ \E h \in Caller : req[h].kind = "create"

\* server.go:1432, "This replaces polling with event-driven state sync": a
\* service that runs after crashes and failed starts, with no request and no
\* event under way, reads Running while nothing but events writes its row and
\* the store has not failed at the last of them.
InSync ==
  \A l \in S!Loop :
    (Quiet /\ OnlyCreated /\ ~ missed /\ loops[l].phase = "waiting")
      => row.phase = "Running"

=============================================================================
