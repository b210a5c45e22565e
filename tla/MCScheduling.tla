---------------------------- MODULE MCScheduling ----------------------------
(*****************************************************************************)
(* Scheduled and requested runs, for TLC: the scheduler, the meaning of cron *)
(* expressions, and the record of executions.  A behaviour exercises one of  *)
(* them, and the others rest.                                                *)
(*                                                                           *)
(* The calendar of Cron is small: two minutes an hour, two hours a day, months *)
(* of three days and of two, and a week of three days.                       *)
(*****************************************************************************)
EXTENDS Scheduler

CONSTANTS s1, s2, e1, d1

VARIABLES
  part,  \* the component that is exercised
  expr, after, parsed, next, phase, executionsDeployed, executionsRow, job,
  reply, spoiled, left

\* s1 is asked for often, s2 once.
Times == (s1 :> {2, 3, 5} @@ s2 :> {3, 5})

Two == {s1, s2}

RunBudgets == {[kinds |-> {"sync", "async", "cron"}, failures |-> 1, crashes |-> 1,
                ages |-> 2, cleanups |-> 2, deletes |-> 1]}

Day(d, m, w) == [day |-> d, month |-> m, weekday |-> w]

\* Two years and two days.
Days == << Day(1, 1, 0), Day(2, 1, 1), Day(3, 1, 2), Day(1, 2, 0),
           Day(2, 2, 1), Day(1, 1, 2), Day(2, 1, 0), Day(3, 1, 1),
           Day(1, 2, 2), Day(2, 2, 0), Day(1, 1, 1), Day(2, 1, 2) >>

\* The first two days and their hours, in half minutes.
Instants == 0..16

\* The fields of an expression.
Star == [kind |-> "star"]

Step(n) == [kind |-> "step", by |-> n]

List(ranges) == [kind |-> "list", parts |-> ranges]

V(v) == List(<< <<v, v>> >>)

R(lo, hi) == List(<< <<lo, hi>> >>)

\* Minutes and hours, with values out of range and a step that does not end.
Clocks == {Star, Step(0), Step(1), Step(2), Step(3), V(0), V(1), V(2),
           List(<< <<1, 1>>, <<0, 0>> >>), R(1, 0)}

\* Among the days are lists that name a value twice: too few, all, and as many
\* as there are although one is left out.
Dates == {Star, Step(2), V(0), V(2), V(3), R(1, 2), R(1, 3),
          List(<< <<3, 3>>, <<1, 2>> >>), List(<< <<2, 2>>, <<2, 2>> >>),
          List(<< <<1, 2>>, <<2, 3>> >>), List(<< <<1, 2>>, <<1, 1>> >>)}

Months == {Star, V(2), R(1, 2), V(3)}

Weekdays == {Star, Step(0), V(0), R(1, 2), R(0, 2), V(3),
             List(<< <<0, 1>>, <<1, 1>> >>)}

\* The time of day with any date, and the date with one time of day.
Tried ==
  {<<m, h, Star, mon, Star>> : m \in Clocks, h \in Clocks, mon \in Months}
    \cup {<<V(1), V(0), d, mon, w>> : d \in Dates, mon \in Months,
                                      w \in Weekdays}

-----------------------------------------------------------------------------

Cron == INSTANCE Cron WITH
    LastMinute <- 1, LastHour <- 1, LastDay <- 3, LastMonth <- 2,
    LastWeekday <- 2, Calendar <- Days, Horizon <- 35, Expressions <- Tried

Runs == INSTANCE Executions WITH
    Exec <- {e1}, Deployment <- {d1}, Budgets <- RunBudgets,
    deployed <- executionsDeployed, row <- executionsRow

cronVars == <<expr, after, parsed, next, phase>>

executionsVars == <<executionsDeployed, executionsRow, job, reply, spoiled,
                    left>>

allVars == <<part, vars, cronVars, executionsVars>>

\* A component that is not exercised rests in one of its initial states.
Rests(p, x, S) == part # p => x = CHOOSE y \in S : TRUE

SumInit ==
  /\ part \in {"scheduler", "cron", "executions"}
  /\ Init /\ Cron!Init /\ Runs!Init
  /\ Rests("cron", expr, Tried)
  /\ Rests("cron", after, Instants)

SumNext ==
  \/ /\ part = "scheduler" /\ Next
     /\ UNCHANGED <<part, cronVars, executionsVars>>
  \/ /\ part = "cron" /\ Cron!Next
     /\ UNCHANGED <<part, vars, executionsVars>>
  \/ /\ part = "executions" /\ Runs!Next
     /\ UNCHANGED <<part, vars, cronVars>>

\* The fairness of each component, while it is the one exercised.
SumFairness ==
  /\ WF_vars(part = "scheduler" /\ Tick)
  /\ WF_vars(part = "scheduler" /\ Loop)
  /\ SF_vars(part = "scheduler" /\ LoopStops)
  /\ WF_vars(part = "scheduler" /\ Restart)
  /\ \A r \in Run : WF_vars(part = "scheduler" /\ RunStep(r))
  /\ WF_executionsVars(part = "executions" /\ Runs!Insert(e1))
  /\ WF_executionsVars(part = "executions" /\ Runs!Begin(e1))
  /\ WF_executionsVars(part = "executions" /\ Runs!Ran(e1))
  /\ WF_executionsVars(part = "executions" /\ Runs!Save(e1))
  /\ WF_executionsVars(part = "executions" /\ Runs!Reload(e1))

SumSpec == SumInit /\ [][SumNext]_allVars /\ SumFairness

-----------------------------------------------------------------------------
(* Properties *)

\* scheduler/cron.go, ParseCron: an expression is refused or means what its
\* text says, or holds a step of zero or less, with which the call never returns.
ParseExact == Cron!ParseExact


\* api/server.go:1123 and store/store.go:625, which write one row without looking
\* at it: a client that polls a run reads in the end that it ended, unless a
\* statement or a goroutine failed, or its row was taken away; and a run whose
\* record says it ended never reads as running or pending again.
RunRecorded == Runs!RunEnds /\ Runs!FinalStays

=============================================================================
