------------------------------ MODULE Schedules ------------------------------
(***************************************************************************)
(* The schedule of a room: rows with a rule of recurrence and a time zone  *)
(* (server/rooms.js, routes of server/index.js), the broadcaster's form    *)
(* that adds them (js/broadcast.js), and the list of the next occurrences  *)
(* with which a listener's page starts its countdown (js/listen.js).       *)
(*                                                                         *)
(* Time is counted in ticks of UTC.  A zone is the offset of its clock     *)
(* before and after one switch.  That is a bound: a list of eight weekly   *)
(* shows looks two months ahead, one of a monthly rule some eight months,  *)
(* in which a clock may be switched twice.                                 *)
(***************************************************************************)
EXTENDS Integers, Sequences, FiniteSets

CONSTANTS
  NRows,       \* bound: rows that the table holds at once
  Day,         \* ticks of a day
  Week,        \* days of a week
  MonthStart,  \* sequence of the first days of the months; the last ends the calendar
  Zones,       \* time zones: [before, after, switch]
  Starts,      \* starts_at of the rows that may be added
  Untils,      \* recurrence_until in a request, or Null
  Rules,       \* recurrence_rule in a request: well-formed or not
  Forms,       \* what the form's repeat fields may say
  FirstNow, LastNow,  \* bound: the time that passes
  Horizon,     \* "safety": steps of the walk at most
  Count,       \* length of the list (8)
  Cap,         \* how far ahead a recurrence may end (5 years)
  Null

Rows == 1..NRows
Months == 1 .. Len(MonthStart) - 1
Days == MonthStart[1] .. MonthStart[Len(MonthStart)] - 1

Once == [kind |-> "once"]
WellFormed(rule) == rule.kind \in {"daily", "weekly", "monthly"}

\* The list is long enough to be filled from the days (or months) that are walked,
\* and every day of the calendar is in one month.
ASSUME SchedulesAssumption ==
  /\ NRows \in Nat /\ Day \in Nat \ {0} /\ Week \in Nat \ {0} /\ Cap \in Nat
  /\ Count \in Nat \ {0} /\ Horizon \in Nat /\ Horizon >= Count * Week + 2
  /\ MonthStart \in Seq(Int) /\ Len(MonthStart) > 1
  /\ \A m, n \in 1..Len(MonthStart) : m < n => MonthStart[m] < MonthStart[n]
  /\ \A d \in Days : \E m \in Months : MonthStart[m] <= d /\ d < MonthStart[m + 1]
  /\ FirstNow \in Int /\ LastNow \in Int /\ FirstNow <= LastNow
  /\ Starts \subseteq Int /\ Null \notin Int /\ Untils \subseteq Int \cup {Null}
  /\ \A z \in Zones : z.before \in Int /\ z.after \in Int /\ z.switch \in Int
  /\ \A rule \in Rules : rule.kind = "monthly" => rule.dom \in Int

VARIABLES
  now,    \* the clock of the server
  rows,   \* id -> Null or [start, rule, until, zone]
  next,   \* a listener's page: the start of the show it counts down to, or Null
  fresh   \* history: the table is as it was when that page was loaded

schedules == <<now, rows, next, fresh>>

SchedulesInit ==
  /\ now = FirstNow
  /\ rows = [i \in Rows |-> Null]
  /\ next = Null
  /\ fresh = FALSE

-----------------------------------------------------------------------------
(* Local time *)

Offset(z, t) == IF t < z.switch THEN z.before ELSE z.after

\* What the zone's clock shows at t, and its two parts.
Wall(z, t) == t + Offset(z, t)
LocalDay(z, t) == Wall(z, t) \div Day

\* (defect: the time of day in UTC)
TimeOfDayUTC(z, t) == t % Day

TimeOfDay(z, t) == Wall(z, t) % Day

\* The local time that is read on that day at that time of day.
Local(d, tod) == d * Day + tod

\* (defect: the offset is taken once, from the local time read as UTC)
LocalToUTCOnce(z, local) == local - Offset(z, local)

\* _localToUTC: two corrections of a guess.
LocalToUTC(z, local) ==
  LET guess == local - Offset(z, local)
  IN IF Wall(z, guess) = local THEN guess ELSE local - Offset(z, guess)

\* The zone's clock shows this local time at some moment: it is not in the hour
\* that is skipped when the clock is put forward.
Shown(z, local) == \E o \in {z.before, z.after} : Wall(z, local - o) = local

\* A switch moves the clock by less than a day; it does not put it back over a
\* midnight; and a local time that it skips is made up for on the same day.  The
\* times that matter are in the calendar.
ASSUME ZonesAssumption ==
  \A z \in Zones :
    /\ z.after - z.before \in 1 - Day .. Day - 1
    /\ LocalDay(z, z.switch - 1) <= LocalDay(z, z.switch)
    /\ \A local \in z.switch + z.before .. z.switch + z.after - 1 :
         local >= z.switch => (local + z.after - z.before) \div Day = local \div Day
    /\ \A t \in Starts \cup {FirstNow, LastNow} : LocalDay(z, t) \in Days

-----------------------------------------------------------------------------
(* Recurrence *)

MonthOf(d) == CHOOSE m \in Months : MonthStart[m] <= d /\ d < MonthStart[m + 1]
LastDay(m) == MonthStart[m + 1] - MonthStart[m]
DayOfMonth(d) == d - MonthStart[MonthOf(d)] + 1

Earlier(a, b) == IF a < b THEN a ELSE b
Later(a, b) == IF a < b THEN b ELSE a

\* The day that "MONTHLY:dom" names in month m; a negative dom counts from the end.
MonthlyDay(dom, m) ==
  MonthStart[m] - 1 + (IF dom < 0 THEN Later(1, LastDay(m) + dom + 1) ELSE Earlier(dom, LastDay(m)))

Matches(rule, d) ==
  \/ rule.kind = "daily"
  \/ rule.kind = "weekly" /\ d % Week \in rule.days
  \/ rule.kind = "monthly" /\ d = MonthlyDay(rule.dom, MonthOf(d))

\* (defect: the walk starts on the day it is in UTC)
FirstDayUTC(row) == Later(row.start, now) \div Day

\* The walk starts on the local day of the first start, or today's.
FirstDay(row) == LocalDay(row.zone, Later(row.start, now))

\* The last day it may get to: a step is a day, or a month of a monthly rule.
LastWalked(row) ==
  IF row.rule.kind = "monthly"
  THEN MonthStart[Earlier(MonthOf(FirstDay(row)) + Horizon, Len(MonthStart))] - 1
  ELSE FirstDay(row) + Horizon - 1

Walk(row) == {d \in (FirstDay(row) .. LastWalked(row)) \cap Days : Matches(row.rule, d)}

\* The time of day of a row, kept in the row's zone.
RowTime(row) == TimeOfDay(row.zone, row.start)

OccurrenceOn(row, d) == LocalToUTC(row.zone, Local(d, RowTime(row)))

\* (defect: a show that starts now is dropped)
InRangeLater(row, t) == t > now /\ (row.until # Null => t <= row.until)

\* pushIfMatches: neither past nor after the end of the recurrence.
InRange(row, t) == t >= now /\ (row.until # Null => t <= row.until)

\* The n first of a set of times.
FirstOf(n, S) == {t \in S : Cardinality({u \in S : u < t}) < n}

\* _expandRow
Expand(row) ==
  IF row.rule = Once
  THEN {t \in {row.start} : t >= now}
  ELSE FirstOf(Count, {t \in {OccurrenceOn(row, d) : d \in Walk(row)} : InRange(row, t)})

Present == {i \in Rows : rows[i] # Null}

\* The order of the list: by time, then as the rows were read.
Precedes(e, f) ==
  \/ e.at < f.at
  \/ e.at = f.at /\ rows[e.row].start < rows[f.row].start
  \/ e.at = f.at /\ rows[e.row].start = rows[f.row].start /\ e.row < f.row

FirstEntries(n, S) == {e \in S : Cardinality({f \in S : Precedes(f, e)}) < n}

Expanded == UNION {{[row |-> i, at |-> t] : t \in Expand(rows[i])} : i \in Present}

\* getSchedules
Upcoming == FirstEntries(Count, Expanded)

-----------------------------------------------------------------------------
(* Requests *)

\* addSchedule: a malformed rule is dropped, an end that is far ahead is brought nearer.
StoredRule(rule) == IF WellFormed(rule) THEN rule ELSE Once
StoredUntil(until) == IF until = Null THEN Null ELSE Earlier(until, now + Cap)

AddSchedule(i, start, rule, until, zone) ==
  /\ rows[i] = Null
  /\ rows' = [rows EXCEPT ![i] = [start |-> start, rule |-> StoredRule(rule),
                                  until |-> StoredUntil(until), zone |-> zone]]
  /\ fresh' = FALSE
  /\ UNCHANGED <<now, next>>

\* POST /api/orgs/:orgSlug/rooms/:slug/schedule, with any rule
PostSchedule(i) ==
  \E start \in Starts, rule \in Rules, until \in Untils, zone \in Zones :
    AddSchedule(i, start, rule, until, zone)

\* The rule that the form asks for: a monthly one is for the day of the month
\* that was picked, which the browser reads in its own zone.
FormRule(form, start, zone) ==
  IF form.kind = "monthly"
  THEN [kind |-> "monthly", dom |-> DayOfMonth(LocalDay(zone, start))]
  ELSE form

\* The page's form: its zone is the browser's.
AddEvent(i) ==
  \E start \in Starts, form \in Forms, until \in Untils, zone \in Zones :
    AddSchedule(i, start, FormRule(form, start, zone), until, zone)

\* DELETE /api/orgs/:orgSlug/schedule/:id
DeleteSchedule(i) ==
  /\ rows[i] # Null
  /\ rows' = [rows EXCEPT ![i] = Null]
  /\ fresh' = FALSE
  /\ UNCHANGED <<now, next>>

\* A listener's page is loaded: it lists what is next and counts down to the
\* first, which it does not ask for again.
LoadPage ==
  /\ \/ Upcoming = {} /\ next' = Null
     \/ \E e \in FirstEntries(1, Upcoming) : next' = e.at
  /\ fresh' = TRUE
  /\ UNCHANGED <<now, rows>>

Tick ==
  /\ now < LastNow
  /\ now' = now + 1
  /\ UNCHANGED <<rows, next, fresh>>

SchedulesNext ==
  \/ \E i \in Rows : PostSchedule(i) \/ AddEvent(i) \/ DeleteSchedule(i)
  \/ LoadPage
  \/ Tick

SchedulesSpec == SchedulesInit /\ [][SchedulesNext]_schedules

-----------------------------------------------------------------------------
(* Properties *)

\* A rule that a row may keep.
Recurrence(rule) == WellFormed(rule) /\ (rule.kind = "monthly" => rule.dom \in Int)

\* Every variable has its type.
SchedulesTypeOK ==
  /\ now \in FirstNow..LastNow
  /\ rows = [i \in Rows |-> rows[i]]
  /\ \A i \in Rows : rows[i] # Null =>
       /\ rows[i].start \in Starts /\ rows[i].until \in Int \cup {Null} /\ rows[i].zone \in Zones
       /\ rows[i].rule = Once \/ Recurrence(rows[i].rule)
  /\ next \in Int \cup {Null}
  /\ fresh \in BOOLEAN

\* A recurring show keeps its local time over a switch to or from summer time: on
\* each of its days it is when the zone's clock shows that time, if it does at all
\* (rooms.js:395, "iterate twice to handle DST").
KeepsLocalTime ==
  \A i \in Present : \A d \in Walk(rows[i]) :
    LET local == Local(d, RowTime(rows[i]))
    IN Shown(rows[i].zone, local) => Wall(rows[i].zone, OccurrenceOn(rows[i], d)) = local

\* The inductive invariant.
SchedulesInv == SchedulesTypeOK /\ KeepsLocalTime

\* The days of a rule by definition: a day of the month that a month does not have
\* is its last, or counted from the end its first.
Named(rule, d) ==
  LET m == MonthOf(d)
      fromEnd == LastDay(m) - DayOfMonth(d) + 1
  IN \/ rule.kind = "daily"
     \/ rule.kind = "weekly" /\ d % Week \in rule.days
     \/ /\ rule.kind = "monthly"
        /\ \/ DayOfMonth(d) = rule.dom
           \/ fromEnd = 1 /\ rule.dom > LastDay(m)
           \/ fromEnd = -rule.dom
           \/ DayOfMonth(d) = 1 /\ -rule.dom > LastDay(m)

\* All its days from a row's first on, whatever the time is.
DaysOf(row) ==
  {d \in Days : d >= LocalDay(row.zone, row.start) /\ Named(row.rule, d)}

\* What is still to come of a row, and of all.
ToCome(row) ==
  IF row.rule = Once THEN {t \in {row.start} : t >= now}
  ELSE {t \in {OccurrenceOn(row, d) : d \in DaysOf(row)} : InRange(row, t)}

AllToCome == UNION {{[row |-> i, at |-> t] : t \in ToCome(rows[i])} : i \in Present}

\* The list is what comes first of all that is to come, however far the start of a
\* row lies behind, whatever day it is in its zone, and although each row is
\* expanded only so far (rooms.js:487, 503).
ListsTheNext == Upcoming = FirstEntries(Count, AllToCome)

\* The clock shows this local time twice.
ShownTwice(z, local) ==
  z.before # z.after /\ \A o \in {z.before, z.after} : Wall(z, local - o) = local

\* The moment that was picked for a show is its first occurrence, if the rule names
\* its day: through the zone's clock and back (except in the hour that comes twice).
FirstIsStart ==
  \A i \in Present :
    LET row == rows[i]
    IN (/\ row.rule # Once /\ InRange(row, row.start)
        /\ Named(row.rule, LocalDay(row.zone, row.start))
        /\ ~ShownTwice(row.zone, Wall(row.zone, row.start)))
       => row.start \in Expand(row) /\ \A t \in Expand(row) : row.start <= t

\* The countdown of a page that stays open is right until the show starts, as long as
\* the schedule is what it was (listen.js:120: it is computed from the list once).
CountdownHolds ==
  fresh =>
    IF next = Null THEN Upcoming = {}
    ELSE now <= next => \E e \in FirstEntries(1, Upcoming) : e.at = next
=============================================================================
