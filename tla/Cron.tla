-------------------------------- MODULE Cron --------------------------------
(***************************************************************************)
(* The cron expressions of pkg/scheduler/cron.go: parseField, ParseCron,   *)
(* matches and NextAfter, as functions, and a specification that applies   *)
(* them to one expression and one time of a bounded set.                   *)
(*                                                                         *)
(* A field is what its text says: a star, a star with a step, or a list of *)
(* values and ranges, a value v being the range v-v.  The calendar is a    *)
(* sequence of days; a time is a number of minutes from its first day.     *)
(***************************************************************************)
EXTENDS Integers, Sequences, FiniteSets, FiniteSetsExt, SequencesExt

CONSTANTS
  LastMinute,   \* 59
  LastHour,     \* 23
  LastDay,      \* 31
  LastMonth,    \* 12
  LastWeekday,  \* 6
  Calendar,     \* the days: day of the month, month, day of the week
  Horizon,      \* four years, in minutes
  Expressions,  \* the expressions that are tried
  Instants      \* the times that are tried, in half minutes

VARIABLES
  expr,    \* the expression
  after,   \* the time, in half minutes: truncation to the minute is visible
  parsed,  \* ParseCron's result
  next,    \* NextAfter's result
  phase    \* "new", "parsed" or "searched"

vars == <<expr, after, parsed, next, phase>>

-----------------------------------------------------------------------------
(* Parsing *)

Star == [kind |-> "star"]

Step(n) == [kind |-> "step", by |-> n]

List(parts) == [kind |-> "list", parts |-> parts]

Failed == [outcome |-> "error"]

\* The loop of a step that is not positive does not end.
Hangs == [outcome |-> "hangs"]

Values(s) == [outcome |-> "ok", values |-> s]

\* lo, lo + by, ... up to hi.
Upto(lo, hi, by) ==
  [i \in 1..(IF lo > hi THEN 0 ELSE (hi - lo) \div by + 1)
     |-> lo + by * (i - 1)]

\* Mutant of parseField: the end of a range is not part of it.
parseFieldOpen(field, min, max) ==
  CASE field.kind = "star" -> Values(Upto(min, max, 1))
    [] field.kind = "step" ->
         IF field.by <= 0 THEN Hangs ELSE Values(Upto(min, max, field.by))
    [] field.kind = "list" ->
         IF \E i \in DOMAIN field.parts :
              LET p == field.parts[i]
              IN p[1] < min \/ p[2] > max \/ p[1] > p[2]
           THEN Failed
           ELSE Values(FoldLeft(LAMBDA acc, p : acc \o Upto(p[1], p[2] - 1, 1),
                                << >>, field.parts))

parseField(field, min, max) ==
  CASE field.kind = "star" -> Values(Upto(min, max, 1))
    [] field.kind = "step" ->
         IF field.by <= 0 THEN Hangs ELSE Values(Upto(min, max, field.by))
    [] field.kind = "list" ->
         IF \E i \in DOMAIN field.parts :
              LET p == field.parts[i]
              IN p[1] < min \/ p[2] > max \/ p[1] > p[2]
           THEN Failed
           ELSE Values(FoldLeft(LAMBDA acc, p : acc \o Upto(p[1], p[2], 1),
                                << >>, field.parts))

\* The range of each field, in the order of the expression.
Ranges == << <<0, LastMinute>>, <<0, LastHour>>, <<1, LastDay>>,
             <<1, LastMonth>>, <<0, LastWeekday>> >>

\* The first field that is not parsed decides.
ParseCron(e) ==
  LET f   == [i \in 1..5 |-> parseField(e[i], Ranges[i][1], Ranges[i][2])]
      bad == {i \in 1..5 : f[i].outcome # "ok"}
  IN IF bad # {} THEN f[Min(bad)]
     ELSE Values([i \in 1..5 |-> f[i].values])

-----------------------------------------------------------------------------
(* Matching *)

MinutesPerHour == LastMinute + 1

MinutesPerDay == MinutesPerHour * (LastHour + 1)

\* The calendar fields of a time (Go's time package).
Clock(t) ==
  LET date == Calendar[t \div MinutesPerDay + 1] IN
  << t % MinutesPerHour, (t % MinutesPerDay) \div MinutesPerHour,
     date.day, date.month, date.weekday >>

\* The last minute of the calendar, beyond every search.
LastTime == Len(Calendar) * MinutesPerDay - 1


\* The days of the month and of the week count as restricted when their list
\* is shorter than the whole range.
matches(c, t) ==
  LET dayOfMonthMatch == Contains(c[3], Clock(t)[3])
      dayOfWeekMatch  == Contains(c[5], Clock(t)[5])
      domRestricted   == Len(c[3]) < LastDay
      dowRestricted   == Len(c[5]) < LastWeekday + 1
  IN
  /\ \A i \in {1, 2, 4} : Contains(c[i], Clock(t)[i])
  /\ CASE domRestricted /\ dowRestricted -> dayOfMonthMatch \/ dayOfWeekMatch
       [] domRestricted /\ ~ dowRestricted -> dayOfMonthMatch
       [] ~ domRestricted /\ dowRestricted -> dayOfWeekMatch
       [] OTHER -> TRUE

\* time.Time{}, which is before every time.
ZeroTime == -1

\* Minute by minute from the one after the given time, before the horizon.
NextAfter(c, half) ==
  LET search[t \in 0..LastTime + 1] ==
        IF t > LastTime \/ 2 * t >= half + 2 * Horizon THEN ZeroTime
        ELSE IF matches(c, t) THEN t
        ELSE search[t + 1]
  IN search[half \div 2 + 1]

-----------------------------------------------------------------------------

Init ==
  /\ expr \in Expressions
  /\ after \in Instants
  /\ parsed = Failed
  /\ next = ZeroTime
  /\ phase = "new"

\* RegisterDeployment, and the end of a run: parse, then look for the next run.
Parse ==
  /\ phase = "new"
  /\ parsed' = ParseCron(expr)
  /\ phase' = "parsed"
  /\ UNCHANGED <<expr, after, next>>

Search ==
  /\ phase = "parsed"
  /\ parsed.outcome = "ok"
  /\ next' = NextAfter(parsed.values, after)
  /\ phase' = "searched"
  /\ UNCHANGED <<expr, after, parsed>>

Next == Parse \/ Search

Spec == Init /\ [][Next]_vars

-----------------------------------------------------------------------------
(* What an expression means, read from its text *)

\* Does value v satisfy the field whose range starts at min?
Says(field, min, v) ==
  CASE field.kind = "star" -> TRUE
    [] field.kind = "step" -> (v - min) % field.by = 0
    [] field.kind = "list" ->
         \E i \in DOMAIN field.parts :
           v \in field.parts[i][1]..field.parts[i][2]

\* How many values does the text of a list name, repeats counted?
Named(field) ==
  FoldLeft(LAMBDA n, p : n + p[2] - p[1] + 1, 0, field.parts)

\* A field restricts the days when it leaves out a value of its range, unless
\* it is a list that names as many values as there are: 0-4,1-5 leaves Saturday
\* out and counts like a star.
Restricts(i) ==
  LET range == Ranges[i][1]..Ranges[i][2] IN
  /\ \E v \in range : ~ Says(expr[i], Ranges[i][1], v)
  /\ expr[i].kind = "list" => Named(expr[i]) < Cardinality(range)

\* Does the expression ask for a run at minute t, the days that count as
\* restricted being given?
Fires(dom, dow, t) ==
  LET said(i) == Says(expr[i], Ranges[i][1], Clock(t)[i]) IN
  /\ said(1) /\ said(2) /\ said(4)
  /\ IF dom /\ dow THEN said(3) \/ said(5)
     ELSE (dom => said(3)) /\ (dow => said(5))

\* The minutes of the search at which a run is asked for.
Occurrences(dom, dow) ==
  {t \in 0..LastTime : /\ 2 * t > after /\ 2 * t < after + 2 * Horizon
                       /\ Fires(dom, dow, t)}

Earliest(S) == IF S = {} THEN ZeroTime ELSE Min(S)

-----------------------------------------------------------------------------
(* Properties *)

\* A list with a value out of range or a range that goes backwards, and a step
\* for which parseField does not end.
OutOfRange(i) ==
  /\ expr[i].kind = "list"
  /\ \E j \in DOMAIN expr[i].parts :
       LET p == expr[i].parts[j] IN
       p[1] > p[2] \/ ~ ({p[1], p[2]} \subseteq Ranges[i][1]..Ranges[i][2])

Endless(i) == expr[i].kind = "step" /\ expr[i].by <= 0

\* ParseCron refuses an expression with a number out of range, and otherwise
\* the five lists hold the values its text stands for.  It does neither for a
\* step of zero or less before the first such number: parseField then never
\* returns (cron.go:80).
ParseExact ==
  phase # "new" =>
    IF \E i \in 1..5 : Endless(i) /\ \A j \in 1..i-1 : ~ OutOfRange(j)
      THEN parsed = Hangs
    ELSE IF \E i \in 1..5 : OutOfRange(i) THEN parsed = Failed
    ELSE /\ parsed.outcome = "ok"
         /\ \A i \in 1..5 :
              ToSet(parsed.values[i]) =
                {v \in Ranges[i][1]..Ranges[i][2] : Says(expr[i], Ranges[i][1], v)}


=============================================================================
