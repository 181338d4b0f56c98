------------------------------- MODULE Cadence -------------------------------
(***************************************************************************)
(* When a schedule is due: the pure functions of scheduler_services.py on  *)
(* cadences.  A moment is a number of minutes since some midnight UTC.     *)
(***************************************************************************)
EXTENDS Integers

CONSTANT Day    \* minutes in a day

ASSUME DayAssumption == Day \in Nat \ {0}

NoTime == -1    \* None

FixedInterval(minutes) == [type |-> "fixed_interval", minutes |-> minutes]
DailyUtc(minute) == [type |-> "daily_utc", minutes |-> minute]

(* interval_minutes of a fixed interval, daily_time_utc of a daily cadence *)
Cadences ==
    [type : {"fixed_interval"}, minutes : Nat \ {0}]
      \cup [type : {"daily_utc"}, minutes : 0..(Day - 1)]

(* datetime.combine(current.date(), daily_time_utc) *)
Today(cadence, current) == (current - (current % Day)) + cadence.minutes

(* The candidate of today, or of tomorrow when it has passed. *)
NextDaily(cadence, current) ==
    IF Today(cadence, current) > current
    THEN Today(cadence, current)
    ELSE Today(cadence, current) + Day

CalculateInitialNextRunAt(cadence, current) ==
    IF cadence.type = "fixed_interval"
    THEN current + cadence.minutes
    ELSE NextDaily(cadence, current)

CalculateNextFutureOccurrence(cadence, anchor, current) ==
    IF anchor > current THEN anchor
    ELSE IF cadence.type = "fixed_interval"
    THEN anchor + ((current - anchor) \div cadence.minutes + 1) * cadence.minutes
    ELSE NextDaily(cadence, current)

(* Mutant: the first missed occurrence instead of the latest. *)
FirstDueOccurrence(cadence, first, current) == IF first > current THEN NoTime ELSE first

(* For a daily cadence the code looks at today's occurrence only, and      *)
(* falls back on the first one that is due.                                *)
CalculateLatestDueOccurrence(cadence, first, current) ==
    IF first > current THEN NoTime
    ELSE IF cadence.type = "fixed_interval"
    THEN first + ((current - first) \div cadence.minutes) * cadence.minutes
    ELSE IF Today(cadence, current) \in first..current
    THEN Today(cadence, current)
    ELSE first

(* coalesce_due_occurrences: what to run now and when to look again. *)
CoalesceDueOccurrences(cadence, first, current) ==
    LET due == CalculateLatestDueOccurrence(cadence, first, current)
    IN  IF due = NoTime
        THEN [due |-> NoTime, following |-> first]
        ELSE [due |-> due,
              following |-> CalculateNextFutureOccurrence(cadence, due, current)]

-----------------------------------------------------------------------------
(* The reference: the occurrences of a cadence from a first one on. *)
IsOccurrence(cadence, first, t) ==
    /\ t >= first
    /\ IF cadence.type = "fixed_interval"
       THEN (t - first) % cadence.minutes = 0
       ELSE t % Day = cadence.minutes

IsLatestUpTo(cadence, first, current, t) ==
    /\ t <= current /\ IsOccurrence(cadence, first, t)
    /\ \A u \in (t + 1)..current : ~IsOccurrence(cadence, first, u)

IsFirstAfter(cadence, first, current, t) ==
    /\ t > current /\ IsOccurrence(cadence, first, t)
    /\ \A u \in (current + 1)..(t - 1) : ~IsOccurrence(cadence, first, u)
=============================================================================
