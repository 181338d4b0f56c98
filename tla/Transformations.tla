---------------------------- MODULE Transformations ----------------------------
(***************************************************************************)
(* What one run calculates: the points that it resolves at its cutoff, the *)
(* window of each output, the transformation and the lineage, while the    *)
(* sources are observed and revised.                                       *)
(*                                                                         *)
(* Source: analytics_transformations.py, analytics_services.py.            *)
(*                                                                         *)
(* A timestamp is a calendar day <<year, month, day>> at midnight UTC.     *)
(* Values are integers and OUTPUT_QUANTUM is 1.  The transaction of a run  *)
(* is in Analytics: here a run is one step.  Checks of units and aliases,  *)
(* which a definition has passed, and the limits on sizes are left out; a  *)
(* run asks for every date.                                                *)
(***************************************************************************)
EXTENDS Integers, Sequences, FiniteSetsExt  \* Max, MapThenSumSet

CONSTANTS
    Definitions,   \* definition versions: type, frequency, window, base, dates
    Value,         \* values of the sources
    BaseValue,     \* base_value of a rebase
    MaxOutput,     \* MAX_OUTPUT, and MIN_OUTPUT is its opposite
    MaxTime,       \* bound on the clock
    MaxRevisions   \* bound on the commits to the sources

Frequency == {"daily", "weekly", "monthly", "quarterly", "annual"}

Binary == {"ratio", "spread"}
Rolling == {"moving_average", "rolling_standard_deviation", "rolling_z_score"}
Unary == {"difference", "percent_change", "year_over_year_percent_change", "rebase_index"}

Date == {<<y, m, d>> : y \in 2022 .. 2024, m \in 1 .. 12, d \in 1 .. 31}

(* window and base are those of the parameters, where the type has them;   *)
(* dates bound what is observed.                                           *)
Definition == [type : Binary \cup Rolling \cup Unary, frequency : Frequency,
               window : Nat, base : Date, dates : SUBSET Date]

(* MCServices assumes it of its instance. *)
TransformationAssumption ==
    /\ \A d \in Definitions : d \in Definition /\ (d.type \in Rolling => d.window >= 2)
    /\ Value \subseteq Int /\ BaseValue \in Nat \ {0}
    /\ MaxOutput \in Nat /\ MaxTime \in Nat /\ MaxRevisions \in Nat

VARIABLES
    clock,
    version,  \* the definition version that is calculated
    store,    \* [input, date -> its states, the observation before its revisions]
    open,     \* states with a stamp that are not committed
    commits,  \* of states since the start
    run       \* the last run, with what it wrote

vars == <<clock, version, store, open, commits, run>>

-----------------------------------------------------------------------------
Missing == MaxOutput + 1   \* a source state without a value
Absent == MaxOutput + 2    \* no observation
NoDate == <<>>
NoRun == [status |-> "none"]

Inputs(def) == IF def.type \in Binary THEN 1 .. 2 ELSE {1}

Slots == Inputs(version) \X version.dates
State == [stamp : 0 .. MaxTime, value : Value \cup {Missing}]

TypeOK ==
    /\ clock \in 0 .. MaxTime
    /\ version \in Definitions
    /\ DOMAIN store = Slots /\ \A s \in Slots : store[s] \in Seq(State)
    /\ open \in {<<>>} \cup [slot : Slots, state : State]
    /\ commits \in 0 .. MaxRevisions
    /\ run.status \in {"none", "succeeded", "failed"}

Init ==
    /\ clock = 0 /\ open = <<>> /\ commits = 0 /\ run = NoRun
    /\ version \in Definitions
    /\ store \in [Slots -> {<<>>} \cup {<<[stamp |-> 0, value |-> v]>> : v \in Value \cup {Missing}}]

Tick ==
    /\ clock < MaxTime
    /\ clock' = clock + 1
    /\ UNCHANGED <<version, store, open, commits, run>>

(* A request stamps an observation or a revision... *)
Stamp ==
    /\ open = <<>> /\ commits < MaxRevisions
    /\ \E slot \in Slots, v \in Value \cup {Missing} :
         open' = [slot |-> slot, state |-> [stamp |-> clock, value |-> v]]
    /\ UNCHANGED <<clock, version, store, commits, run>>

(* ... and commits it later. *)
Commit ==
    /\ open # <<>>
    /\ store' = [store EXCEPT ![open.slot] = Append(@, open.state)]
    /\ open' = <<>> /\ commits' = commits + 1
    /\ UNCHANGED <<clock, version, run>>

-----------------------------------------------------------------------------
(* The calendar. *)
IsLeap(y) == y % 4 = 0 /\ (y % 100 # 0 \/ y % 400 = 0)

MonthLength(y, m) ==
    CASE m \in {4, 6, 9, 11} -> 30
      [] m = 2 -> IF IsLeap(y) THEN 29 ELSE 28
      [] OTHER -> 31

(* replace() refuses a day that the month does not have. *)
ShiftMonths(date, months) ==
    LET total == 12 * date[1] + date[2] - 1 + months
        y == total \div 12
        m == (total % 12) + 1
    IN  IF date[3] > MonthLength(y, m) THEN NoDate ELSE <<y, m, date[3]>>

PreviousMonth(y, m) == IF m = 1 THEN <<y - 1, 12>> ELSE <<y, m - 1>>

(* The day zero of a month is the last of the one before. *)
Borrowed(date) ==
    LET before == PreviousMonth(date[1], date[2])
    IN  IF date[3] >= 1 THEN date
        ELSE <<before[1], before[2], date[3] + MonthLength(before[1], before[2])>>

(* Month by month, of which each has 28 days at least. *)
DaysBack(date, days) ==
    LET months == days \div 28 + 1
        back[n \in 0 .. months] ==
            IF n = 0 THEN <<date[1], date[2], date[3] - days>> ELSE Borrowed(back[n - 1])
    IN  back[months]

PreviousPeriodAnchor(date, frequency) ==
    CASE frequency = "daily" -> DaysBack(date, 1)
      [] frequency = "weekly" -> DaysBack(date, 7)
      [] frequency = "monthly" -> ShiftMonths(date, -1)
      [] frequency = "quarterly" -> ShiftMonths(date, -3)
      [] frequency = "annual" -> ShiftMonths(date, -12)

YearOverYearAnchor(date, frequency) ==
    IF frequency = "weekly" THEN DaysBack(date, 364) ELSE ShiftMonths(date, -12)

-----------------------------------------------------------------------------
(* required_timestamps: the dates of a window, oldest first, or none. *)
Anchored(anchor, date) == IF anchor = NoDate THEN <<>> ELSE <<anchor, date>>

RollingDates(date) ==
    LET back[n \in 1 .. version.window] ==
            IF n = 1 THEN <<date>>
            ELSE IF back[n - 1] = <<>> THEN <<>>
            ELSE LET anchor == PreviousPeriodAnchor(back[n - 1][1], version.frequency)
                 IN  IF anchor = NoDate THEN <<>> ELSE <<anchor>> \o back[n - 1]
    IN  back[version.window]

RequiredTimestamps(date) ==
    CASE version.type \in Binary -> <<date>>
      [] version.type \in {"difference", "percent_change"} ->
            Anchored(PreviousPeriodAnchor(date, version.frequency), date)
      [] version.type = "year_over_year_percent_change" ->
            Anchored(YearOverYearAnchor(date, version.frequency), date)
      [] version.type \in Rolling -> RollingDates(date)
      [] version.type = "rebase_index" -> <<version.base, date>>

(* Mutant: the newest revision of an eligible observation. *)
Newest(states, cutoff) ==
    IF states = <<>> \/ states[1].stamp > cutoff THEN 0 ELSE Len(states)

(* The state in force at the cutoff: 0 without an eligible observation.    *)
(* The highest sequence wins, whatever the order of the stamps.            *)
InForce(states, cutoff) ==
    IF states = <<>> \/ states[1].stamp > cutoff THEN 0
    ELSE Max({n \in DOMAIN states : states[n].stamp <= cutoff})

EligibleVersion(input, date, cutoff) ==
    IF <<input, date>> \in Slots THEN InForce(store[<<input, date>>], cutoff) ELSE 0

(* _candidate_timestamps: the first input alone owns the timeline. *)
Candidates(cutoff) == {date \in version.dates : EligibleVersion(1, date, cutoff) # 0}

(* _resolve_snapshot: what a window has of an input, with the identities   *)
(* that its lineage keeps.                                                 *)
PointAt(input, date, cutoff) ==
    LET n == EligibleVersion(input, date, cutoff) IN
    [date |-> date, n |-> n,
     value |-> IF n = 0 THEN Absent ELSE store[<<input, date>>][n].value]

Resolved(input, date, cutoff) ==
    LET required == RequiredTimestamps(date)
    IN  [i \in DOMAIN required |-> PointAt(input, required[i], cutoff)]

-----------------------------------------------------------------------------
(* The evaluators. *)
Abs(n) == IF n < 0 THEN -n ELSE n

(* ROUND_HALF_EVEN of n / d, for d # 0. *)
Rounded(n, d) ==
    LET q == Abs(n) \div Abs(d)
        r == Abs(n) % Abs(d)
        up == 2 * r > Abs(d) \/ (2 * r = Abs(d) /\ q % 2 = 1)
    IN  (IF (n < 0) = (d < 0) THEN 1 ELSE -1) * (IF up THEN q + 1 ELSE q)

(* ROUND_HALF_EVEN of the square root of n / d, for naturals, d # 0. *)
RoundedRoot(n, d) ==
    CHOOSE r \in 0 .. n :
        /\ r = 0 \/ (2 * r - 1) * (2 * r - 1) * d <= 4 * n
        /\ 4 * n <= (2 * r + 1) * (2 * r + 1) * d
        /\ 4 * n \in {(2 * r - 1) * (2 * r - 1) * d, (2 * r + 1) * (2 * r + 1) * d} => r % 2 = 0

Because(reason) == [value |-> Missing, reason |-> reason]

(* _present *)
Present(n) ==
    IF Abs(n) > MaxOutput THEN Because("numeric_overflow") ELSE [value |-> n, reason |-> "none"]

(* _effective_window: why a window has no value. *)
Reason(window, expected) ==
    LET values == {window[i].value : i \in DOMAIN window}
    IN  CASE Len(window) < expected -> "insufficient_history"
          [] Len(window) >= expected /\ Absent \in values -> "timestamp_absent"
          [] Len(window) >= expected /\ Absent \notin values /\ Missing \in values -> "source_missing"
          [] OTHER -> "none"

Total(window) == LET value(i) == window[i].value IN MapThenSumSet(value, DOMAIN window)

(* The square of the window's size times the population variance. *)
Spread(window) ==
    LET square(i) == window[i].value * window[i].value
    IN  Len(window) * MapThenSumSet(square, DOMAIN window) - Total(window) * Total(window)

Change(window) ==
    IF window[1].value = 0 THEN Because("division_by_zero")
    ELSE Present(Rounded(100 * (window[2].value - window[1].value), window[1].value))

ZScore(window) ==
    LET size == Len(window)
        distance == size * window[size].value - Total(window)
        root == RoundedRoot(distance * distance, Spread(window))
    IN  IF Spread(window) = 0 THEN Because("division_by_zero")
        ELSE Present(IF distance < 0 THEN -root ELSE root)

OfUnary(window) ==
    LET size == Len(window)
        expected == IF version.type \in Rolling THEN version.window ELSE 2
    IN  IF Reason(window, expected) # "none" THEN Because(Reason(window, expected))
        ELSE CASE version.type = "difference" -> Present(window[2].value - window[1].value)
               [] version.type \in {"percent_change", "year_over_year_percent_change"} -> Change(window)
               [] version.type = "moving_average" -> Present(Rounded(Total(window), size))
               [] version.type = "rolling_standard_deviation" ->
                     Present(RoundedRoot(Spread(window), size * size))
               [] version.type = "rolling_z_score" -> ZScore(window)

(* The first input without a value gives the reason. *)
OfBinary(first, second) ==
    CASE Reason(first, 1) # "none" -> Because(Reason(first, 1))
      [] Reason(first, 1) = "none" /\ Reason(second, 1) # "none" -> Because(Reason(second, 1))
      [] OTHER ->
            IF version.type = "spread" THEN Present(first[1].value - second[1].value)
            ELSE IF second[1].value = 0 THEN Because("division_by_zero")
            ELSE Present(Rounded(first[1].value, second[1].value))

(* A base without a value, or zero, is an error that fails the run. *)
HasNoBase(window) == window[1].value \in {Absent, Missing, 0}

OfRebase(window) ==
    LET reason == Reason(<<window[2]>>, 1) IN
    IF reason # "none" THEN Because(reason)
    ELSE Present(Rounded(window[2].value * BaseValue, window[1].value))

Evaluate(windows) ==
    CASE version.type \in Binary -> OfBinary(windows[1], windows[2])
      [] version.type = "rebase_index" -> OfRebase(windows[1])
      [] OTHER -> OfUnary(windows[1])

-----------------------------------------------------------------------------
(* _persist_outputs: each output with the versions that it was made of. *)
Lineage(windows) ==
    UNION {{[input |-> i, role |-> r, date |-> windows[i][r].date, n |-> windows[i][r].n] :
               r \in {q \in DOMAIN windows[i] : windows[i][q].n # 0}} : i \in DOMAIN windows}

OutputAt(date, cutoff) ==
    LET windows == [i \in Inputs(version) |-> Resolved(i, date, cutoff)]
    IN  [result |-> Evaluate(windows), lineage |-> Lineage(windows)]

Fails(cutoff) ==
    /\ version.type = "rebase_index"
    /\ \E date \in Candidates(cutoff) : HasNoBase(Resolved(1, date, cutoff))

Outputs(cutoff) == [date \in Candidates(cutoff) |-> OutputAt(date, cutoff)]

(* Nothing can still be stamped or committed that the cutoff covers. *)
IsSettled(cutoff) == cutoff < clock /\ (open = <<>> \/ open.state.stamp > cutoff)

Execute ==
    /\ \E cutoff \in 0 .. clock :
         run' = IF Fails(cutoff)
                THEN [status |-> "failed", cutoff |-> cutoff, settled |-> IsSettled(cutoff)]
                ELSE [status |-> "succeeded", cutoff |-> cutoff, settled |-> IsSettled(cutoff),
                      outputs |-> Outputs(cutoff)]
    /\ UNCHANGED <<clock, version, store, open, commits>>

Next == Tick \/ Stamp \/ Commit \/ Execute

Spec == Init /\ [][Next]_vars

-----------------------------------------------------------------------------
(* docs/v0.7-macro-analytics-architecture.md:49.  What is stamped after    *)
(* the cutoff of a run has no part in it: once the cutoff is settled, the  *)
(* run says what a run at the same cutoff says at any later time.          *)
NoLookAhead ==
    run.status # "none" /\ run.settled =>
        /\ (run.status = "failed") = Fails(run.cutoff)
        /\ run.status = "succeeded" => run.outputs = Outputs(run.cutoff)

(* What the lineage says a role of an input was. *)
Source(output, input, role) ==
    LET link == CHOOSE l \in output.lineage : l.input = input /\ l.role = role
    IN  store[<<link.input, link.date>>][link.n].value

(* :192, the lineage is what a run is replayed from.  A window has a state *)
(* for each of its roles, of as many different dates, the last of them the *)
(* date of the output, and no date stands in for a missing one (:230)...   *)
WindowSize ==
    CASE version.type \in Binary -> 1
      [] version.type \in Rolling -> version.window
      [] OTHER -> 2

IsComplete(date, lineage) ==
    /\ Cardinality(lineage) = WindowSize * Cardinality(Inputs(version))
    /\ \A link \in lineage : link.role = WindowSize => link.date = date
    /\ version.type # "rebase_index" =>
          \A i \in Inputs(version) :
            Cardinality({l.date : l \in {k \in lineage : k.input = i}}) = WindowSize
    /\ version.type # "rebase_index" /\ version.frequency \in {"monthly", "quarterly", "annual"} =>
          \A link \in lineage : link.date[3] = date[3]

(* ... and a value is what the documented formula gives, up to rounding,   *)
(* for the states that its lineage names, whatever has been revised since. *)
IsReplayed(output) ==
    LET size == WindowSize
        x(role) == Source(output, 1, role)
        y == Source(output, 2, 1)
        v == output.result.value
        sum == MapThenSumSet(x, 1 .. size)
        deviation(role) == (size * x(role) - sum) * (size * x(role) - sum)
        squares == MapThenSumSet(deviation, 1 .. size)
        IsQuotient(n, d) == 2 * Abs(v * d - n) <= Abs(d)
    IN  CASE version.type = "difference" -> v = x(2) - x(1)
          [] version.type = "spread" -> v = x(1) - y
          [] version.type = "ratio" -> IsQuotient(x(1), y)
          [] version.type = "rebase_index" -> IsQuotient(x(2) * BaseValue, x(1))
          [] version.type = "moving_average" -> IsQuotient(sum, size)
          [] version.type \in {"percent_change", "year_over_year_percent_change"} ->
                IsQuotient(100 * x(2) - 100 * x(1), x(1))
          [] version.type = "rolling_standard_deviation" ->
                /\ v = 0 \/ (2 * v - 1) * (2 * v - 1) * size * size * size <= 4 * squares
                /\ 4 * squares <= (2 * v + 1) * (2 * v + 1) * size * size * size
          [] version.type = "rolling_z_score" -> (v < 0 => size * x(size) < sum)

OutputsAreReplayable ==
    run.status = "succeeded" =>
        \A date \in DOMAIN run.outputs :
            run.outputs[date].result.reason = "none" =>
                IsComplete(date, run.outputs[date].lineage) /\ IsReplayed(run.outputs[date])

(* Both together: a run is what was known at its cutoff, and can be shown  *)
(* to be from its lineage.                                                 *)
RunsAreReproducible == NoLookAhead /\ OutputsAreReplayable
===============================================================================
