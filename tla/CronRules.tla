------------------------------ MODULE CronRules ------------------------------
(* internal/cron/cron.go: when a schedule fires, and what its worker is        *)
(* called.  Instants are numbered in units of which Tick make a minute; a      *)
(* calendar gives the fields of a minute.  A field is Any ("*") or a set of    *)
(* parts:                                                                      *)
(*   [k |-> "step", base, by], [k |-> "range", lo, hi], [k |-> "value", v]     *)
(* or [k |-> "bad"], a part in which a number does not parse: "9-17/2" is one, *)
(* as the slash is looked for first.                                           *)
EXTENDS Integers, FiniteSets

CONSTANTS
    Tick,            \* units to a minute, at least 2
    MinutesPerHour, HoursPerDay, DaysPerWeek

Any == {[k |-> "any"]}
Never == -1
Minute(t) == t \div Tick
Day == Tick * MinutesPerHour * HoursPerDay

(* The fields of an instant, month and day of month left out: fieldMatches     *)
(* treats them like the weekday, and all five must match.                      *)
MinuteOf(t) == Minute(t) % MinutesPerHour
HourOf(t) == (Minute(t) \div MinutesPerHour) % HoursPerDay
DateOf(t) == Minute(t) \div (MinutesPerHour * HoursPerDay)
WeekdayOf(t) == DateOf(t) % DaysPerWeek

PartMatches(part, value) ==
    CASE part.k = "step" -> part.by # 0 /\ value >= part.base
                              /\ (value - part.base) % part.by = 0
      [] part.k = "range" -> part.lo <= value /\ value <= part.hi
      [] part.k = "value" -> value = part.v
      [] OTHER -> FALSE

FieldMatches(field, value) ==
    field = Any \/ \E part \in field : PartMatches(part, value)

(* An expression that has not five fields is never due.                        *)
Matches(expr, t) ==
    /\ expr.fields = 5
    /\ FieldMatches(expr.minute, MinuteOf(t))
    /\ FieldMatches(expr.hour, HourOf(t))
    /\ FieldMatches(expr.weekday, WeekdayOf(t))

(* The instants t, t + 1 minute, ... before now.                               *)
Walk(t, now) == {u \in t..(now - 1) : (u - t) % Tick = 0}

(* Mutant of ShouldFire: the walk begins at the last run itself.               *)
ShouldFireAgain(expr, last, now) ==
    IF Matches(expr, now) THEN last = Never \/ now - last > Tick
    ELSE \E u \in Walk(IF last = Never \/ now - last > Day THEN now - Day ELSE last, now) :
            Matches(expr, u)

ShouldFire(expr, last, now) ==
    IF Matches(expr, now) THEN last = Never \/ now - last > Tick
    ELSE \E u \in Walk(IF last = Never \/ now - last > Day THEN now - Day ELSE last + Tick, now) :
            Matches(expr, u)

IsFixed(field) == \E v \in 0..60 : field = {[k |-> "value", v |-> v]}

(* PeriodSuffix: the minute, hour or day a worker is named after.              *)
PeriodSuffix(expr, t) ==
    IF expr.fields # 5 \/ ~IsFixed(expr.minute)
    THEN <<DateOf(t), HourOf(t), MinuteOf(t)>>
    ELSE IF ~IsFixed(expr.hour) THEN <<DateOf(t), HourOf(t)>> ELSE <<DateOf(t)>>
-----------------------------------------------------------------------------
DueMinutes(expr, from, to) == {m \in from..to : Matches(expr, m * Tick)}

(* A schedule that fires has a due minute it was not yet run for, within the   *)
(* last day.  The one exception is the code's own: more than a day after a run *)
(* the walk begins a day back, and that can be inside the minute of the run,   *)
(* which then counts a second time.                                            *)
ForADue(expr, last, now) ==
    \/ DueMinutes(expr, IF last = Never \/ Minute(last) < Minute(now - Day)
                        THEN Minute(now - Day) ELSE Minute(last) + 1, Minute(now)) # {}
    \/ /\ last # Never /\ now - last > Day
       /\ Minute(now - Day) = Minute(last)

(* A due minute that lies wholly between the last run and now, at most a day   *)
(* old.                                                                        *)
Overdue(expr, last, now) ==
    DueMinutes(expr, IF last = Never \/ now - last > Day
                     THEN Minute(now - Day) + 1 ELSE Minute(last) + 1, Minute(now) - 1) # {}
=============================================================================
