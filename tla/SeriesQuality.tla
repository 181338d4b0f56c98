----------------------------- MODULE SeriesQuality -----------------------------
(***************************************************************************)
(* The monitored series, the scan for stale ones and the issues it opens,  *)
(* which users acknowledge and resolve.                                    *)
(*                                                                         *)
(* Source: macro_data_services.py (patch_series, scan_stale_series,        *)
(* update_quality_issue), macro_data_models.py.                            *)
(*                                                                         *)
(* A scan reads the series once, then, series by series, its latest        *)
(* observation and its open issue in two SELECTs, and inserts what it      *)
(* found in one commit (the session does not flush before).  Other         *)
(* requests commit in between.  Only issues of type stale_series are kept. *)
(***************************************************************************)
EXTENDS Naturals, Sequences, FiniteSets

CONSTANTS
    Client,     \* requests that may be in flight together
    Series,
    Value,      \* values of minimum_value and maximum_value
    StaleAfter, \* stale_after_days of every series
    MaxDay,     \* bound on the clock
    MaxIssues,  \* bound on the issues of a series
    MaxVersion  \* bound on the lock_version of a series

(* MCServices assumes it of its instances. *)
QualityAssumption ==
    /\ Value \subseteq Nat /\ Value # {} /\ IsFiniteSet(Value)
    /\ StaleAfter \in Nat /\ MaxDay \in Nat /\ MaxIssues \in Nat
    /\ MaxVersion \in Nat \ {0}

VARIABLES
    day,      \* date of the server clock
    series,   \* rows of data_series
    latest,   \* [Series -> day of its latest observation], Never without any
    issues,   \* [Series -> its rows of data_quality_issues, each with its events]
    request,  \* [Client -> request in progress]
    settled   \* history variable: [Client -> series with an issue resolved during its scan]

vars == <<day, series, latest, issues, request, settled>>

-----------------------------------------------------------------------------
Never == MaxDay + 1

Bounds == [minimum : Value, maximum : Value]
Row == [is_active : BOOLEAN, bounds : Bounds, lock_version : 1 .. MaxVersion]

IssueStatus == {"open", "acknowledged", "resolved"}
Event == [previous : IssueStatus, new : IssueStatus, source_lock_version : Nat \ {0}]
Issue == [status : IssueStatus, lock_version : Nat \ {0}, events : Seq(Event)]

(* 1 stands for true. *)
Patch == [field : {"is_active"}, value : {0, 1}]
         \cup [field : {"minimum", "maximum"}, value : Value]

Idle == [step |-> "idle"]

Least == CHOOSE v \in Value : \A w \in Value : v <= w
Greatest == CHOOSE v \in Value : \A w \in Value : v >= w

NewRow == [is_active |-> TRUE, bounds |-> [minimum |-> Least, maximum |-> Greatest],
           lock_version |-> 1]

TypeOK ==
    /\ day \in 0 .. MaxDay
    /\ series \in [Series -> Row]
    /\ latest \in [Series -> 0 .. Never]
    /\ \A s \in Series : issues[s] \in Seq(Issue) /\ Len(issues[s]) <= MaxIssues
    /\ \A c \in Client :
         request[c].step \in {"idle", "scan", "issue", "commit", "update", "patch"}
    /\ settled \in [Client -> SUBSET Series]

(* create_series has committed for each. *)
Init ==
    /\ day = 0
    /\ series = [s \in Series |-> NewRow]
    /\ latest = [s \in Series |-> Never]
    /\ issues = [s \in Series |-> <<>>]
    /\ request = [c \in Client |-> Idle]
    /\ settled = [c \in Client |-> {}]

-----------------------------------------------------------------------------
Reply(c) ==
    /\ request' = [request EXCEPT ![c] = Idle]
    /\ settled' = [settled EXCEPT ![c] = {}]

Unresolved(s) == {i \in DOMAIN issues[s] : issues[s][i].status # "resolved"}

(* Mutant: an issue of whatever status stops the next one. *)
AnyIssue(s) == issues[s] # <<>>

HasIssue(s) == Unresolved(s) # {}

Tick ==
    /\ day < MaxDay
    /\ day' = day + 1
    /\ UNCHANGED <<series, latest, issues, request, settled>>

(* An import commits an observation of the day. *)
Observe(s) ==
    /\ latest[s] # day
    /\ latest' = [latest EXCEPT ![s] = day]
    /\ UNCHANGED <<day, series, issues, request, settled>>

(* scan_stale_series: the clock, then the active series. *)
StartScan(c) ==
    /\ request[c] = Idle
    /\ request' = [request EXCEPT ![c] =
         [step |-> "scan", now |-> day, left |-> {s \in Series : series[s].is_active},
          found |-> {}, stale |-> {}]]
    /\ UNCHANGED <<day, series, latest, issues, settled>>

IsStale(observed, now) == observed = Never \/ now > observed + StaleAfter

(* The rows are visited by id; which is first makes no difference. *)
ReadLatest(c) ==
    /\ request[c].step = "scan" /\ request[c].left # {}
    /\ LET s == CHOOSE x \in request[c].left : TRUE
           stale == IsStale(latest[s], request[c].now)
       IN  request' = [request EXCEPT
             ![c].step = IF stale THEN "issue" ELSE "scan",
             ![c].left = IF stale THEN @ ELSE @ \ {s},
             ![c].stale = IF stale THEN @ \cup {s} ELSE @]
    /\ UNCHANGED <<day, series, latest, issues, settled>>

ReadIssue(c) ==
    /\ request[c].step = "issue"
    /\ LET s == CHOOSE x \in request[c].left : TRUE
       IN  request' = [request EXCEPT
             ![c].step = "scan",
             ![c].left = @ \ {s},
             ![c].found = IF HasIssue(s) THEN @ ELSE @ \cup {s}]
    /\ UNCHANGED <<day, series, latest, issues, settled>>

NewIssue == [status |-> "open", lock_version |-> 1, events |-> <<>>]

(* The partial unique index uq_open_stale_issue_per_series: one conflict   *)
(* rolls the whole scan back (409).                                        *)
Conflicts(found) == \E s \in found : Unresolved(s) # {}

FinishScan(c) ==
    /\ request[c].step = "scan" /\ request[c].left = {}
    /\ LET found == request[c].found IN
         \/ Conflicts(found) /\ UNCHANGED issues
         \/ /\ ~Conflicts(found)
            /\ \A s \in found : Len(issues[s]) < MaxIssues
            /\ issues' = [s \in Series |->
                  IF s \in found THEN Append(issues[s], NewIssue) ELSE issues[s]]
    /\ Reply(c)
    /\ UNCHANGED <<day, series, latest>>

(* update_quality_issue.  An expected_lock_version other than that of the  *)
(* row is refused at once: only requests with the right one are kept.      *)
LoadIssue(c) ==
    /\ request[c] = Idle
    /\ \E s \in Series, target \in {"acknowledged", "resolved"} : \E i \in DOMAIN issues[s] :
         request' = [request EXCEPT ![c] =
           [step |-> "update", series |-> s, id |-> i, target |-> target, row |-> issues[s][i]]]
    /\ UNCHANGED <<day, series, latest, issues, settled>>

(* Mutant: the UPDATE without the version of its row. *)
AnyVersion(row, read) == TRUE

(* The UPDATE matches a row only if the version is still the one read. *)
IsCurrent(row, read) == row.lock_version = read.lock_version

RefusesTarget(r) ==
    \/ r.target = "acknowledged" /\ r.row.status # "open"
    \/ r.target = "resolved" /\ r.row.status = "resolved"

Transition(r) ==
    [status |-> r.target,
     lock_version |-> r.row.lock_version + 1,
     events |-> Append(issues[r.series][r.id].events,
        [previous |-> r.row.status, new |-> r.target,
         source_lock_version |-> r.row.lock_version])]

UpdateIssue(c) ==
    /\ request[c].step = "update"
    /\ LET r == request[c]
           refused == RefusesTarget(r) \/ ~IsCurrent(issues[r.series][r.id], r.row)
       IN  \/ refused /\ UNCHANGED issues /\ Reply(c)
           \/ /\ ~refused
              /\ issues' = [issues EXCEPT ![r.series][r.id] = Transition(r)]
              /\ request' = [request EXCEPT ![c] = Idle]
              /\ settled' = [d \in Client |->
                    IF d # c /\ r.target = "resolved" /\ "found" \in DOMAIN request[d]
                    THEN settled[d] \cup {r.series} ELSE settled[d]]
    /\ UNCHANGED <<day, series, latest>>

(* patch_series: get_series, with the version that the client expects. *)
LoadSeries(c) ==
    /\ request[c] = Idle
    /\ \E s \in Series, patch \in Patch :
         /\ series[s].lock_version < MaxVersion
         /\ request' = [request EXCEPT ![c] =
              [step |-> "patch", series |-> s, patch |-> patch, row |-> series[s]]]
    /\ UNCHANGED <<day, series, latest, issues, settled>>

Patched(row, patch) ==
    [is_active |-> IF patch.field = "is_active" THEN patch.value = 1 ELSE row.is_active,
     bounds |-> IF patch.field = "is_active" THEN row.bounds
                ELSE [row.bounds EXCEPT ![patch.field] = patch.value],
     lock_version |-> row.lock_version + 1]

IsOrdered(row) == row.bounds.minimum <= row.bounds.maximum

PatchSeries(c) ==
    /\ request[c].step = "patch"
    /\ LET r == request[c]
           row == Patched(r.row, r.patch)
           refused == ~IsOrdered(row) \/ ~IsCurrent(series[r.series], r.row)
       IN  \/ refused /\ UNCHANGED series
           \/ ~refused /\ series' = [series EXCEPT ![r.series] = row]
    /\ Reply(c)
    /\ UNCHANGED <<day, latest, issues>>

Handle(c) ==
    \/ StartScan(c) \/ ReadLatest(c) \/ ReadIssue(c) \/ FinishScan(c)
    \/ LoadIssue(c) \/ UpdateIssue(c) \/ LoadSeries(c) \/ PatchSeries(c)

Next == Tick \/ (\E s \in Series : Observe(s)) \/ (\E c \in Client : Handle(c))

Spec == Init /\ [][Next]_vars

-----------------------------------------------------------------------------
(* README.md:551: a scan skips the series that have an issue.  It does not *)
(* skip too much: when a scan has succeeded, each series it took for stale *)
(* has an unresolved issue, unless a user resolved one meanwhile.          *)
StaleIsReported ==
    [][\A c \in Client :
         /\ request[c].step = "scan" /\ request'[c] = Idle
         /\ ~Conflicts(request[c].found)
         => \A s \in request[c].stale \ settled[c] : Unresolved(s)' # {}]_vars

(* README.md:552: scans do not create duplicates, however they overlap.  A *)
(* series never has two unresolved issues, and the events of an issue      *)
(* are its whole life: they start from open, each from where the one       *)
(* before ended, on consecutive versions, and end in the status of the     *)
(* row.  Two users who act on the same version do not both succeed.        *)
IssueHistoryIsComplete ==
    \A s \in Series :
      /\ Cardinality(Unresolved(s)) <= 1
      /\ \A i \in DOMAIN issues[s] :
           LET issue == issues[s][i]
               After(n) == IF n = 0 THEN "open" ELSE issue.events[n].new
           IN  /\ issue.lock_version = Len(issue.events) + 1
               /\ After(Len(issue.events)) = issue.status
               /\ \A n \in DOMAIN issue.events :
                    /\ issue.events[n].previous = After(n - 1)
                    /\ issue.events[n].source_lock_version = n

Content(row) == [is_active |-> row.is_active, bounds |-> row.bounds]

(* What one request may make of a series that it alone works on. *)
Changes(old, new) ==
    \E patch \in Patch :
      LET row == Patched([is_active |-> old.is_active, bounds |-> old.bounds,
                          lock_version |-> 1], patch)
      IN  IsOrdered(row) /\ new = Content(row)

Atomic(s) == INSTANCE AtomicRecord WITH
    Initial <- Content(NewRow), Changes <- Changes,
    content <- Content(series[s]), version <- series[s].lock_version

(* Overlapping patches change a series as if one after the other. *)
ImplementsAtomicRecord ==
    /\ \A s \in Series : Atomic(s)!Init
    /\ [][\A s \in Series : [Atomic(s)!Change]_(Atomic(s)!vars)]_series
=============================================================================
