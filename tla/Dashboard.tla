------------------------------- MODULE Dashboard -------------------------------
(***************************************************************************)
(* A dashboard that shows one raw series, compared with its previous       *)
(* observation and with one derived series, while imports and runs commit. *)
(*                                                                         *)
(* Source: dashboard_services.py, indicator_services.py.                   *)
(*                                                                         *)
(* The summary is put together from SELECTs that each see what is          *)
(* committed by then: the two latest observations, their revisions, the    *)
(* highest version, its latest run, the latest output of that run.  Each   *)
(* is a step.  Values are integers, one unit being the quantum of          *)
(* _quantized.  Labels and identities are left out.                        *)
(***************************************************************************)
EXTENDS Integers, Sequences, FiniteSetsExt  \* Max

CONSTANTS
    Value,       \* values of observations
    Derived,     \* values of derived observations
    MaxValue,    \* MAX_DATA_VALUE, and MIN_DATA_VALUE is its opposite
    StaleAfter,  \* stale_after_days of the series
    MaxDay,      \* bound on the clock, and on observed_at
    MaxRevisions, MaxVersions, MaxRuns  \* bounds on what is committed

(* MCServices assumes it of its instance. *)
DashboardAssumption ==
    /\ Value \subseteq Int /\ Derived \subseteq Int /\ MaxValue \in Nat /\ StaleAfter \in Nat
    /\ MaxDay \in Nat \ {0}
    /\ MaxRevisions \in Nat /\ MaxVersions \in Nat \ {0} /\ MaxRuns \in Nat

VARIABLES
    day,       \* date of the server clock
    points,    \* [observed_at -> value in force], for the observations with a row
    revised,   \* number of revisions
    versions,  \* frequencies of the versions of the derived series
    runs,      \* its succeeded runs with their latest output, by completed_at
    view       \* the summary being put together

vars == <<day, points, revised, versions, runs, view>>

-----------------------------------------------------------------------------
Missing == MaxValue + 1   \* an observation whose status is missing
Absent == MaxValue + 2    \* no row

Day == 1 .. MaxDay
Point == Value \cup {Missing}

Frequency == {"same", "other"}   \* compared with that of the raw series

(* A run may have no output at all. *)
Run == [version : 1 .. MaxVersions, observed_at : Day \cup {0},
        value : Derived \cup {Missing}]

TypeOK ==
    /\ day \in Day
    /\ DOMAIN points \subseteq Day /\ \A d \in DOMAIN points : points[d] \in Point
    /\ revised \in 0 .. MaxRevisions
    /\ versions \in Seq(Frequency) /\ Len(versions) \in 1 .. MaxVersions
    /\ runs \in Seq(Run) /\ Len(runs) <= MaxRuns
    /\ view.step \in {"idle", "revisions", "version", "run", "output", "shown"}

NoView == [step |-> "idle"]

Init ==
    /\ day = 1 /\ points = <<>> /\ revised = 0
    /\ versions \in {<<f>> : f \in Frequency} /\ runs = <<>>
    /\ view = NoView

-----------------------------------------------------------------------------
Tick ==
    /\ day < MaxDay
    /\ day' = day + 1
    /\ UNCHANGED <<points, revised, versions, runs, view>>

(* What other requests commit: see MacroStore and Analytics. *)
Observe ==
    /\ \E d \in (1 .. day) \ DOMAIN points, v \in Point :
         points' = [e \in DOMAIN points \cup {d} |-> IF e = d THEN v ELSE points[e]]
    /\ UNCHANGED <<day, revised, versions, runs, view>>

Revise ==
    /\ revised < MaxRevisions
    /\ revised' = revised + 1
    /\ \E d \in DOMAIN points, v \in Point :
         v # points[d] /\ points' = [points EXCEPT ![d] = v]
    /\ UNCHANGED <<day, versions, runs, view>>

CreateVersion ==
    /\ Len(versions) < MaxVersions
    /\ \E f \in Frequency : versions' = Append(versions, f)
    /\ UNCHANGED <<day, points, revised, runs, view>>

(* The output is for the latest observation there is; its value is any. *)
CommitRun ==
    /\ Len(runs) < MaxRuns
    /\ \E v \in 1 .. Len(versions), p \in Derived \cup {Missing} :
         runs' = Append(runs, [version |-> v, value |-> p,
                               observed_at |-> Max({0} \cup DOMAIN points)])
    /\ UNCHANGED <<day, points, revised, versions, view>>

-----------------------------------------------------------------------------
(* _load_raw: the ranked observations, then their revisions. *)
Newest(days) == Max({0} \cup days)

ReadObservations ==
    /\ view.step \in {"idle", "shown"}
    /\ LET current == Newest(DOMAIN points)
       IN  view' = [step |-> "revisions", generated_at |-> day, current |-> current,
                    previous |-> Newest(DOMAIN points \ {current})]
    /\ UNCHANGED <<day, points, revised, versions, runs>>

ValueAt(d) == IF d = 0 THEN Absent ELSE points[d]

ReadRevisions ==
    /\ view.step = "revisions"
    /\ view' = [step |-> "version", generated_at |-> view.generated_at,
                current |-> view.current, previous |-> view.previous,
                value |-> ValueAt(view.current), reference |-> ValueAt(view.previous)]
    /\ UNCHANGED <<day, points, revised, versions, runs>>

(* load_latest_persisted_derived_results *)
With(fields) == [f \in DOMAIN view \cup DOMAIN fields |->
                    IF f \in DOMAIN fields THEN fields[f] ELSE view[f]]

ReadVersion ==
    /\ view.step = "version"
    /\ view' = With([step |-> "run", version |-> Len(versions)])
    /\ UNCHANGED <<day, points, revised, versions, runs>>

RunsOf(v) == {i \in DOMAIN runs : runs[i].version = v}

ReadRun ==
    /\ view.step = "run"
    /\ view' = With([step |-> "output", run |-> Newest(RunsOf(view.version))])
    /\ UNCHANGED <<day, points, revised, versions, runs>>

(* Mutant: the newest output of the version, whatever run it is of. *)
OutputOfVersion(run) ==
    LET newest == Newest(RunsOf(view.version))
    IN  IF newest = 0 THEN [observed_at |-> 0, value |-> Missing]
        ELSE [observed_at |-> runs[newest].observed_at, value |-> runs[newest].value]

OutputOf(run) ==
    IF run = 0 THEN [observed_at |-> 0, value |-> Missing]
    ELSE [observed_at |-> runs[run].observed_at, value |-> runs[run].value]

ReadOutput ==
    /\ view.step = "output"
    /\ view' = With([step |-> "shown", output |-> OutputOf(view.run)])
    /\ UNCHANGED <<day, points, revised, versions, runs>>

Next ==
    \/ Tick \/ Observe \/ Revise \/ CreateVersion \/ CommitRun
    \/ ReadObservations \/ ReadRevisions \/ ReadVersion \/ ReadRun \/ ReadOutput

Spec == Init /\ [][Next]_vars

-----------------------------------------------------------------------------
(* The summary of what was read. *)
Abs(n) == IF n < 0 THEN -n ELSE n

(* ROUND_HALF_EVEN of n / d, for d # 0. *)
HalfEven(n, d) ==
    LET q == Abs(n) \div Abs(d)
        r == Abs(n) % Abs(d)
        rounded == IF 2 * r > Abs(d) \/ (2 * r = Abs(d) /\ q % 2 = 1) THEN q + 1 ELSE q
    IN  IF (n < 0) = (d < 0) THEN rounded ELSE -rounded

IsRepresentable(n) == Abs(n) <= MaxValue

(* _freshness, with the policy raw_series_stale_after_days. *)
Age(at) == IF view.generated_at > at THEN view.generated_at - at ELSE 0

Freshness(at) ==
    IF at = 0 THEN "unavailable" ELSE IF Age(at) > StaleAfter THEN "stale" ELSE "current"

IsAvailable == view.current # 0 /\ view.value # Missing

(* _raw_summary, indicator_snapshot *)
MetricState ==
    CASE ~IsAvailable -> "missing"
      [] IsAvailable /\ Freshness(view.current) = "stale" -> "stale"
      [] OTHER -> "available"

(* previous_observation_comparison: Absent for a change that is not given. *)
Comparison(state, absolute, percentage) ==
    [state |-> state, absolute |-> absolute, percentage |-> percentage]

PreviousComparison ==
    LET absolute == view.value - view.reference
        percentage == HalfEven(100 * absolute, view.reference)
    IN  CASE ~IsAvailable -> Comparison("missing", Absent, Absent)
          [] IsAvailable /\ (view.previous = 0 \/ view.reference = Missing) ->
                Comparison("incomparable", Absent, Absent)
          [] OTHER ->
                IF ~IsRepresentable(absolute) THEN Comparison("incomparable", Absent, Absent)
                ELSE IF view.reference = 0 THEN Comparison("incomparable", absolute, Absent)
                ELSE IF ~IsRepresentable(percentage)
                     THEN Comparison("incomparable", absolute, Absent)
                ELSE Comparison("available", absolute, percentage)

IsAnchored == view.output.observed_at = view.current

(* _existing_derived_comparison *)
DerivedComparison ==
    CASE ~IsAvailable \/ view.run = 0 \/ view.output.observed_at = 0 -> "missing"
      [] IsAvailable /\ view.run # 0 /\ view.output.observed_at # 0 ->
            IF versions[view.version] # "same" THEN "frequency_mismatch"
            ELSE IF ~IsAnchored THEN "incomparable"
            ELSE IF view.output.value = Missing THEN "missing"
            ELSE "available"

-----------------------------------------------------------------------------
(* README.md:34: incomparable states are displayed, and what is compared   *)
(* belongs together although it was read in pieces.  The derived value is  *)
(* that of the very run and version shown with it, of the same frequency   *)
(* and for the same day as the raw value; the reference is an earlier      *)
(* observation, and the changes are the ones between the two values shown. *)
ComparisonsBelongTogether ==
    view.step = "shown" =>
        /\ DerivedComparison = "available" =>
             /\ runs[view.run] = [version |-> view.version, observed_at |-> view.current,
                                  value |-> view.output.value]
             /\ versions[view.version] = "same"
        /\ LET c == PreviousComparison IN
             /\ c.absolute # Absent => view.reference + c.absolute = view.value
             /\ c.state = "available" =>
                  /\ 0 < view.previous /\ view.previous < view.current
                  /\ MetricState # "missing"
                  /\ 2 * Abs(c.percentage * view.reference - 100 * c.absolute)
                        <= Abs(view.reference)
        /\ MetricState = "stale" => view.current + StaleAfter < day
=============================================================================
