---------------------------- MODULE MCSchedules ----------------------------
(* Schedules with a four-tick day, a three-day week and short months, for TLC. *)
EXTENDS Schedules

\* Months of 5, 4, 5, 4, ... days.
MCMonthStart == [m \in 1..9 |-> 4 * (m - 1) + (m \div 2)]

\* The clock is put forward on day 5 in the east, and back on day 5 in the west.
MCEastForward == [before |-> 1, after |-> 2, switch |-> 20]
MCWestBack == [before |-> -1, after |-> -2, switch |-> 22]
MCZones == {MCEastForward, MCWestBack}

MCStarts == {8, 15}
MCUntils == {Null, 24}

MCDaily == [kind |-> "daily"]
MCWeekly == [kind |-> "weekly", days |-> {1, 2}]
MCMonthly(d) == [kind |-> "monthly", dom |-> d]
MCForms == {Once, MCDaily, MCWeekly, [kind |-> "monthly"]}
MCRules == {[kind |-> "yearly"], MCMonthly(-5)}
=============================================================================
