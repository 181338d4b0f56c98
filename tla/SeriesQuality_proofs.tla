------------------------- MODULE SeriesQuality_proofs -------------------------
(***************************************************************************)
(* For any number of clients, series, bounds and days: a series has one    *)
(* unresolved issue and issues have complete histories, a scan that        *)
(* succeeds reports what it found, and patches are atomic.                 *)
(*                                                                         *)
(* A request writes what it computed from a row that it read before.  The  *)
(* proofs rest on Known: a version names one row, so that a row whose      *)
(* version is still the one that was read is the row that was read.  What  *)
(* a scan found stale is accounted for by Reports.                         *)
(***************************************************************************)
EXTENDS SeriesQuality, FiniteSetTheorems, TLAPS

-----------------------------------------------------------------------------
(* A finite set has a greatest element in a total order; the bounds of a   *)
(* new series are those of Value in both directions.                       *)
LEMMA Extreme ==
    ASSUME NEW V, NEW R, V # {}, IsFiniteSet(V),
           \A x, y \in V : <<x, y>> \in R \/ <<y, x>> \in R,
           \A x, y, z \in V : <<x, y>> \in R /\ <<y, z>> \in R => <<x, z>> \in R
    PROVE  \E m \in V : \A y \in V : <<m, y>> \in R
<1> DEFINE HasFirst(U) == \E m \in U : \A y \in U : <<m, y>> \in R
           Without == {U \in FiniteSubsetsOf(V) : U # {} /\ ~HasFirst(U)}
<1>1. SUFFICES ASSUME Without # {} PROVE FALSE
  <2>1. V \in FiniteSubsetsOf(V)
    BY DEF FiniteSubsetsOf
  <2> QED
    BY <2>1
<1>2. PICK U \in Without : \A W \in Without : ~(<<W, U>> \in StrictSubsetOrdering(V))
  <2>1. IsWellFoundedOn(StrictSubsetOrdering(V), FiniteSubsetsOf(V))
    BY FS_StrictSubsetOrderingWellFounded
  <2>2. Without \subseteq FiniteSubsetsOf(V)
    OBVIOUS
  <2> HIDE DEF Without
  <2> QED
    BY <1>1, <2>1, <2>2, WFMin
<1>3. U \subseteq V /\ IsFiniteSet(U) /\ U # {} /\ ~HasFirst(U)
  BY DEF FiniteSubsetsOf
<1>4. PICK x \in U : TRUE
  BY <1>3
<1> DEFINE W == U \ {x}
<1>5. W \in FiniteSubsetsOf(V) /\ <<W, U>> \in StrictSubsetOrdering(V)
  <2>1. IsFiniteSet(W) /\ W \subseteq V /\ W # U
    BY <1>3, <1>4, FS_Subset
  <2> QED
    BY <2>1, <1>3 DEF FiniteSubsetsOf, StrictSubsetOrdering
<1>6. W = {} \/ HasFirst(W)
  BY <1>2, <1>5
<1>7. CASE W = {}
  <2>1. \A y \in U : <<x, y>> \in R
    BY <1>3, <1>4, <1>7
  <2> QED
    BY <1>3, <1>4, <2>1
<1>8. CASE HasFirst(W)
  <2>1. PICK m \in W : \A y \in W : <<m, y>> \in R
    BY <1>8
  <2>2. m \in U /\ m \in V /\ x \in V /\ \A y \in U : y \in W \/ y = x
    BY <1>3, <1>4, <2>1
  <2>3. CASE <<m, x>> \in R
    BY <1>3, <2>1, <2>2, <2>3
  <2>4. CASE <<x, m>> \in R
    <3>1. \A y \in W : <<x, y>> \in R
      BY <1>3, <2>1, <2>2, <2>4
    <3>2. <<x, x>> \in R
      BY <2>2
    <3>3. \A y \in U : <<x, y>> \in R
      BY <2>2, <3>1, <3>2
    <3> QED
      BY <1>3, <1>4, <3>3
  <2> QED
    BY <2>2, <2>3, <2>4
<1> QED
  BY <1>6, <1>7, <1>8

LEMMA NewRowIsRow ==
    ASSUME QualityAssumption
    PROVE  NewRow \in Row /\ IsOrdered(NewRow)
<1> DEFINE Up == {p \in Value \X Value : p[1] <= p[2]}
           Down == {p \in Value \X Value : p[1] >= p[2]}
<1>1. Value \subseteq Nat /\ Value # {} /\ IsFiniteSet(Value) /\ MaxVersion \in Nat \ {0}
  BY DEF QualityAssumption
<1>2. \E v \in Value : \A w \in Value : <<v, w>> \in Up
  <2>1. \A x, y \in Value : <<x, y>> \in Up \/ <<y, x>> \in Up
    BY <1>1
  <2>2. \A x, y, z \in Value : <<x, y>> \in Up /\ <<y, z>> \in Up => <<x, z>> \in Up
    BY <1>1
  <2> HIDE DEF Up
  <2> QED
    BY <1>1, <2>1, <2>2, Extreme
<1>3. \E v \in Value : \A w \in Value : <<v, w>> \in Down
  <2>1. \A x, y \in Value : <<x, y>> \in Down \/ <<y, x>> \in Down
    BY <1>1
  <2>2. \A x, y, z \in Value : <<x, y>> \in Down /\ <<y, z>> \in Down => <<x, z>> \in Down
    BY <1>1
  <2> HIDE DEF Down
  <2> QED
    BY <1>1, <2>1, <2>2, Extreme
<1>4. Least \in Value /\ Greatest \in Value /\ \A w \in Value : Least <= w
  BY <1>2, <1>3 DEF Least, Greatest
<1> QED
  BY <1>1, <1>4 DEF NewRow, Row, Bounds, IsOrdered

-----------------------------------------------------------------------------
(* The requests, by what they do. *)
ScanRecord == [step : {"scan", "issue"}, now : 0 .. MaxDay, left : SUBSET Series,
               found : SUBSET Series, stale : SUBSET Series]
ScanRequest == {r \in ScanRecord : r.step = "issue" => r.left # {}}
UpdateRequest == [step : {"update"}, series : Series, id : Nat,
                  target : {"acknowledged", "resolved"}, row : Issue]
PatchRequest == [step : {"patch"}, series : Series, patch : Patch, row : Row]
Request == {Idle} \cup ScanRequest \cup UpdateRequest \cup PatchRequest

WellTyped ==
    /\ day \in 0 .. MaxDay
    /\ series \in [Series -> Row]
    /\ latest \in [Series -> 0 .. Never]
    /\ issues \in [Series -> Seq(Issue)]
    /\ \A s \in Series : Len(issues[s]) <= MaxIssues
    /\ request \in [Client -> Request]
    /\ settled \in [Client -> SUBSET Series]

LEMMA RequestKinds ==
    ASSUME NEW r \in Request
    PROVE  /\ r.step \in {"idle", "scan", "issue", "update", "patch"}
           /\ r.step \in {"scan", "issue"} <=> r \in ScanRequest
           /\ r.step = "update" <=> r \in UpdateRequest
           /\ r.step = "patch" <=> r \in PatchRequest
           /\ r.step = "idle" <=> r = Idle
           /\ r \in ScanRequest => "found" \in DOMAIN r
BY DEF Request, Idle, ScanRequest, ScanRecord, UpdateRequest, PatchRequest

(* A row that was read: of an earlier version, or the present one. *)
Older(read, row) ==
    /\ read.lock_version <= row.lock_version
    /\ read.lock_version = row.lock_version => read = row

Known(c) ==
    LET r == request[c] IN
    /\ r.step = "update" =>
         /\ r.id \in DOMAIN issues[r.series]
         /\ Older(r.row, issues[r.series][r.id])
    /\ r.step = "patch" =>
         Older(r.row, series[r.series]) /\ r.row.lock_version < MaxVersion

(* The events of an issue are its life. *)
After(issue, n) == IF n = 0 THEN "open" ELSE issue.events[n].new

Lived(issue) ==
    /\ issue.lock_version = Len(issue.events) + 1
    /\ After(issue, Len(issue.events)) = issue.status
    /\ \A n \in DOMAIN issue.events :
         /\ issue.events[n].previous = After(issue, n - 1)
         /\ issue.events[n].source_lock_version = n

OneUnresolved(s) == \A i, j \in Unresolved(s) : i = j

Visited(r) == CHOOSE x \in r.left : TRUE

(* A series that a scan found stale has an issue, will get one, or is the  *)
(* one whose issue is looked for now, unless a user resolved its issue.    *)
Reports(c) ==
    LET r == request[c] IN
    r.step \in {"scan", "issue"} =>
      \A s \in r.stale \ (r.found \cup settled[c]) :
        Unresolved(s) # {} \/ (r.step = "issue" /\ s = Visited(r))

Histories ==
    \A s \in Series : OneUnresolved(s) /\ \A i \in DOMAIN issues[s] : Lived(issues[s][i])

IInv ==
    /\ WellTyped
    /\ \A c \in Client : Known(c)
    /\ Histories

-----------------------------------------------------------------------------
(* What a step can do to the issues of a series: nothing, open one where   *)
(* all are resolved, or let a user move one that is not.                   *)
Opens(s) ==
    /\ Unresolved(s) = {} /\ Len(issues[s]) < MaxIssues
    /\ issues'[s] = Append(issues[s], NewIssue)

Moved(issue, target) ==
    [status |-> target, lock_version |-> issue.lock_version + 1,
     events |-> Append(issue.events, [previous |-> issue.status, new |-> target,
                                      source_lock_version |-> issue.lock_version])]

Moves(s, i, target) ==
    /\ i \in DOMAIN issues[s]
    /\ issues[s][i].status \in {"open", "acknowledged"}
    /\ issues'[s] = [issues[s] EXCEPT ![i] = Moved(issues[s][i], target)]

IssueStep(s) ==
    \/ issues'[s] = issues[s]
    \/ Opens(s)
    \/ \E i \in DOMAIN issues[s], target \in {"acknowledged", "resolved"} : Moves(s, i, target)

LEMMA FinishOpens ==
    ASSUME WellTyped, NEW c \in Client, FinishScan(c), NEW s \in Series
    PROVE  issues'[s] = issues[s] \/ Opens(s)
<1> DEFINE found == request[c].found
<1>1. CASE UNCHANGED issues
  BY <1>1
<1>2. CASE /\ ~Conflicts(found) /\ \A x \in found : Len(issues[x]) < MaxIssues
           /\ issues' = [x \in Series |->
                 IF x \in found THEN Append(issues[x], NewIssue) ELSE issues[x]]
  BY <1>2 DEF Conflicts, Opens
<1> QED
  BY <1>1, <1>2 DEF FinishScan

(* A user's change that is not refused was computed from the issue as it is. *)
LEMMA UpdateMoves ==
    ASSUME IInv, NEW c \in Client, UpdateIssue(c), issues' # issues
    PROVE  LET r == request[c] IN
           /\ r \in UpdateRequest
           /\ Moves(r.series, r.id, r.target)
           /\ \A s \in Series \ {r.series} : issues'[s] = issues[s]
           /\ settled' = [d \in Client |->
                IF d # c /\ r.target = "resolved" /\ "found" \in DOMAIN request[d]
                THEN settled[d] \cup {r.series} ELSE settled[d]]
<1> DEFINE r == request[c]
           issue == issues[r.series][r.id]
<1>1. r \in UpdateRequest /\ r.series \in Series /\ r.row \in Issue
      /\ r.target \in {"acknowledged", "resolved"}
  BY RequestKinds DEF IInv, WellTyped, UpdateIssue, UpdateRequest
<1>2. /\ ~RefusesTarget(r) /\ IsCurrent(issue, r.row)
      /\ issues' = [issues EXCEPT ![r.series][r.id] = Transition(r)]
      /\ settled' = [d \in Client |->
           IF d # c /\ r.target = "resolved" /\ "found" \in DOMAIN request[d]
           THEN settled[d] \cup {r.series} ELSE settled[d]]
  BY DEF UpdateIssue
<1>3. r.id \in DOMAIN issues[r.series] /\ r.row = issue
  <2>1. r.step = "update" /\ Known(c)
    BY DEF IInv, UpdateIssue
  <2> QED
    BY <1>2, <2>1 DEF Known, Older, IsCurrent
<1>4. issue.status \in {"open", "acknowledged"}
  <2>1. issue.status \in IssueStatus
    BY <1>1, <1>3 DEF Issue
  <2>2. issue.status # "resolved"
    BY <1>1, <1>2, <1>3 DEF RefusesTarget
  <2> QED
    BY <2>1, <2>2 DEF IssueStatus
<1>5. Transition(r) = Moved(issue, r.target)
  BY <1>3 DEF Transition, Moved
<1>6. issues \in [Series -> Seq(Issue)]
  BY DEF IInv, WellTyped
<1>7. issues'[r.series] = [issues[r.series] EXCEPT ![r.id] = Moved(issue, r.target)]
      /\ \A s \in Series \ {r.series} : issues'[s] = issues[s]
  <2> HIDE DEF r, issue
  <2>1. issues' = [issues EXCEPT ![r.series] = [issues[r.series] EXCEPT ![r.id] = Moved(issue, r.target)]]
    BY <1>2, <1>5
  <2> QED
    BY <1>1, <1>6, <2>1
<1>8. Moves(r.series, r.id, r.target)
  BY <1>3, <1>4, <1>7 DEF Moves
<1> QED
  BY <1>1, <1>2, <1>7, <1>8

LEMMA IssuesStep ==
    ASSUME IInv, [Next]_vars, NEW s \in Series
    PROVE  IssueStep(s)
<1>1. ASSUME NEW c \in Client, UpdateIssue(c) PROVE IssueStep(s)
  <2>1. CASE issues' = issues
    BY <2>1 DEF IssueStep
  <2>2. CASE issues' # issues
    <3> DEFINE r == request[c]
    <3>1. r \in UpdateRequest /\ Moves(r.series, r.id, r.target)
          /\ \A x \in Series \ {r.series} : issues'[x] = issues[x]
      BY <1>1, <2>2, UpdateMoves
    <3>2. r.target \in {"acknowledged", "resolved"}
      BY <3>1 DEF UpdateRequest
    <3> QED
      BY <3>1, <3>2 DEF IssueStep, Moves
  <2> QED
    BY <2>1, <2>2
<1>2. ASSUME NEW c \in Client, FinishScan(c) PROVE IssueStep(s)
  BY <1>2, FinishOpens DEF IssueStep, IInv
<1>3. ASSUME NEW c \in Client,
             StartScan(c) \/ ReadLatest(c) \/ ReadIssue(c) \/ LoadIssue(c)
               \/ LoadSeries(c) \/ PatchSeries(c)
      PROVE  issues' = issues
  BY <1>3 DEF StartScan, ReadLatest, ReadIssue, LoadIssue, LoadSeries, PatchSeries
<1>4. Tick \/ (\E x \in Series : Observe(x)) \/ UNCHANGED vars => issues' = issues
  BY DEF Tick, Observe, vars
<1> QED
  BY <1>1, <1>2, <1>3, <1>4 DEF Next, Handle, IssueStep

(* What a step can do to the row of a series: nothing, or the patch of a   *)
(* request that read the row as it is.                                     *)
PatchStep(s) ==
    \/ series'[s] = series[s]
    \/ \E patch \in Patch :
         /\ series[s].lock_version < MaxVersion
         /\ series'[s] = Patched(series[s], patch)
         /\ IsOrdered(series'[s])

LEMMA SeriesStep ==
    ASSUME IInv, [Next]_vars, NEW s \in Series
    PROVE  PatchStep(s)
<1>1. ASSUME NEW c \in Client, PatchSeries(c) PROVE PatchStep(s)
  <2> DEFINE r == request[c]
             row == Patched(r.row, r.patch)
  <2>1. r \in PatchRequest /\ r.series \in Series /\ r.patch \in Patch
        /\ series \in [Series -> Row]
    BY <1>1, RequestKinds DEF IInv, WellTyped, PatchSeries, PatchRequest
  <2>2. CASE UNCHANGED series
    BY <2>2 DEF PatchStep
  <2>3. CASE /\ IsOrdered(row) /\ IsCurrent(series[r.series], r.row)
             /\ series' = [series EXCEPT ![r.series] = row]
    <3>1. r.row = series[r.series] /\ r.row.lock_version < MaxVersion
      BY <1>1, <2>3 DEF IInv, Known, Older, IsCurrent, PatchSeries
    <3>2. series'[r.series] = row /\ \A x \in Series \ {r.series} : series'[x] = series[x]
      BY <2>1, <2>3
    <3> QED
      BY <2>1, <2>3, <3>1, <3>2 DEF PatchStep
  <2> QED
    BY <1>1, <2>2, <2>3 DEF PatchSeries
<1>2. ASSUME NEW c \in Client,
             StartScan(c) \/ ReadLatest(c) \/ ReadIssue(c) \/ LoadIssue(c)
               \/ LoadSeries(c) \/ FinishScan(c) \/ UpdateIssue(c)
      PROVE  series' = series
  BY <1>2 DEF StartScan, ReadLatest, ReadIssue, LoadIssue, LoadSeries, FinishScan, UpdateIssue
<1>3. Tick \/ (\E x \in Series : Observe(x)) \/ UNCHANGED vars => series' = series
  BY DEF Tick, Observe, vars
<1> QED
  BY <1>1, <1>2, <1>3 DEF Next, Handle, PatchStep

LEMMA PatchedIsRow ==
    ASSUME QualityAssumption, NEW row \in Row, NEW patch \in Patch,
           row.lock_version < MaxVersion
    PROVE  /\ Patched(row, patch) \in Row
           /\ Patched(row, patch).lock_version = row.lock_version + 1
<1>1. row.bounds \in Bounds /\ row.lock_version \in 1 .. MaxVersion /\ row.is_active \in BOOLEAN
  BY DEF Row
<1>2. MaxVersion \in Nat /\ row.lock_version + 1 \in 1 .. MaxVersion
  BY <1>1 DEF QualityAssumption
<1>3. CASE patch.field = "is_active"
  BY <1>1, <1>2, <1>3 DEF Patched, Row
<1>4. CASE patch.field # "is_active"
  <2>1. patch.field \in {"minimum", "maximum"} /\ patch.value \in Value
    BY <1>4 DEF Patch
  <2>2. [row.bounds EXCEPT ![patch.field] = patch.value] \in Bounds
    BY <1>1, <2>1 DEF Bounds
  <2> QED
    BY <1>1, <1>2, <1>4, <2>2 DEF Patched, Row
<1> QED
  BY <1>3, <1>4

-----------------------------------------------------------------------------
(* What a step can do to a request. *)
Loads(r) ==
    /\ issues' = issues /\ series' = series
    /\ \/ /\ r \in UpdateRequest
          /\ r.id \in DOMAIN issues[r.series] /\ r.row = issues[r.series][r.id]
       \/ /\ r \in PatchRequest
          /\ r.row = series[r.series] /\ r.row.lock_version < MaxVersion

RequestStep(d) ==
    \/ request'[d] = request[d]
    \/ request'[d] = Idle
    \/ request'[d] \in ScanRequest
    \/ Loads(request'[d])

(* A scan in progress, and where it stands next. *)
LEMMA ScanUpdated ==
    ASSUME NEW r \in ScanRecord, NEW step \in {"scan", "issue"},
           NEW left \in SUBSET Series, NEW found \in SUBSET Series, NEW stale \in SUBSET Series
    PROVE  /\ LET q == [r EXCEPT !.step = step, !.left = left, !.stale = stale]
              IN  /\ q \in ScanRecord /\ q.step = step /\ q.left = left
                  /\ q.found = r.found /\ q.stale = stale
           /\ LET q == [r EXCEPT !.step = step, !.left = left, !.found = found]
              IN  /\ q \in ScanRecord /\ q.step = step /\ q.left = left
                  /\ q.found = found /\ q.stale = r.stale
BY DEF ScanRecord

LEMMA ReadLatestScan ==
    ASSUME WellTyped, NEW c \in Client, ReadLatest(c)
    PROVE  \E new \in ScanRequest :
             /\ request' = [request EXCEPT ![c] = new]
             /\ request[c] \in ScanRequest /\ request[c].step = "scan"
             /\ new.found = request[c].found
             /\ \/ new.stale = request[c].stale
                \/ /\ new.step = "issue" /\ new.left = request[c].left
                   /\ new.stale = request[c].stale \cup {Visited(request[c])}
<1> DEFINE r == request[c]
           s == Visited(r)
           stale == IsStale(latest[s], r.now)
           step == IF stale THEN "issue" ELSE "scan"
           left == IF stale THEN r.left ELSE r.left \ {s}
           found == IF stale THEN r.stale \cup {s} ELSE r.stale
           new == [r EXCEPT !.step = step, !.left = left, !.stale = found]
<1>1. r \in ScanRequest /\ r \in ScanRecord /\ r.step = "scan" /\ r.left # {}
  BY RequestKinds DEF WellTyped, ReadLatest, ScanRequest
<1>2. s \in r.left
  BY <1>1 DEF Visited
<1>3. request' = [request EXCEPT ![c] = new]
  BY DEF ReadLatest, Visited
<1> HIDE DEF stale, s, r
<1>4. step \in {"scan", "issue"} /\ left \in SUBSET Series /\ found \in SUBSET Series
  BY <1>1, <1>2 DEF ScanRecord
<1> HIDE DEF step, left, found
<1>5. new \in ScanRecord /\ new.step = step /\ new.left = left
      /\ new.found = r.found /\ new.stale = found
  BY <1>1, <1>4, ScanUpdated DEF ScanRecord
<1> HIDE DEF new
<1>6. new \in ScanRequest
  BY <1>1, <1>5 DEF step, left, ScanRequest
<1>7. new.stale = r.stale
      \/ (new.step = "issue" /\ new.left = r.left /\ new.stale = r.stale \cup {s})
  BY <1>5 DEF step, left, found
<1> QED
  BY <1>1, <1>3, <1>5, <1>6, <1>7 DEF r, s

LEMMA ReadIssueScan ==
    ASSUME WellTyped, NEW c \in Client, ReadIssue(c)
    PROVE  \E new \in ScanRequest :
             /\ request' = [request EXCEPT ![c] = new]
             /\ request[c] \in ScanRequest /\ request[c].step = "issue"
             /\ new.step = "scan" /\ new.stale = request[c].stale
             /\ \/ new.found = request[c].found \cup {Visited(request[c])}
                \/ /\ new.found = request[c].found
                   /\ HasIssue(Visited(request[c]))
<1> DEFINE r == request[c]
           s == Visited(r)
           left == r.left \ {s}
           found == IF HasIssue(s) THEN r.found ELSE r.found \cup {s}
           new == [r EXCEPT !.step = "scan", !.left = left, !.found = found]
<1>1. r \in ScanRequest /\ r \in ScanRecord /\ r.step = "issue" /\ r.left # {}
  BY RequestKinds DEF WellTyped, ReadIssue, ScanRequest
<1>2. s \in r.left
  BY <1>1 DEF Visited
<1>3. request' = [request EXCEPT ![c] = new]
  BY DEF ReadIssue, Visited
<1> HIDE DEF s, r
<1>4. left \in SUBSET Series /\ found \in SUBSET Series
  BY <1>1, <1>2 DEF ScanRecord
<1>5. found = r.found \cup {s} \/ (found = r.found /\ HasIssue(s))
  OBVIOUS
<1> HIDE DEF left, found
<1>6. new \in ScanRecord /\ new.step = "scan" /\ new.found = found /\ new.stale = r.stale
  BY <1>1, <1>4, ScanUpdated DEF ScanRecord
<1> HIDE DEF new
<1>7. new \in ScanRequest
  BY <1>6 DEF ScanRequest
<1> QED
  BY <1>1, <1>3, <1>5, <1>6, <1>7 DEF r, s

LEMMA Replaced ==
    ASSUME WellTyped, NEW c \in Client, NEW r \in Request,
           request' = [request EXCEPT ![c] = r],
           r = Idle \/ r \in ScanRequest \/ Loads(r)
    PROVE  request' \in [Client -> Request] /\ \A d \in Client : RequestStep(d)
<1>1. request \in [Client -> Request]
  BY DEF WellTyped
<1>2. \A d \in Client : request'[d] = IF d = c THEN r ELSE request[d]
  BY <1>1
<1> QED
  BY <1>1, <1>2 DEF RequestStep

LEMMA RequestsStep ==
    ASSUME IInv, [Next]_vars
    PROVE  request' \in [Client -> Request] /\ \A d \in Client : RequestStep(d)
<1> DEFINE Goal == request' \in [Client -> Request] /\ \A d \in Client : RequestStep(d)
<1>0. WellTyped /\ Idle \in Request
  BY DEF IInv, Request
<1>1. ASSUME NEW c \in Client, FinishScan(c) \/ UpdateIssue(c) \/ PatchSeries(c) PROVE Goal
  <2>1. request' = [request EXCEPT ![c] = Idle]
    BY <1>1 DEF FinishScan, UpdateIssue, PatchSeries, Reply
  <2> QED
    BY <1>0, <2>1, Replaced
<1>2. ASSUME NEW c \in Client, StartScan(c) PROVE Goal
  <2> DEFINE r == [step |-> "scan", now |-> day, left |-> {s \in Series : series[s].is_active},
                   found |-> {}, stale |-> {}]
  <2>1. r \in ScanRequest
    BY <1>0 DEF ScanRequest, ScanRecord, WellTyped
  <2>2. request' = [request EXCEPT ![c] = r]
    BY <1>2 DEF StartScan
  <2> HIDE DEF r
  <2> QED
    BY <1>0, <2>1, <2>2, Replaced DEF Request
<1>3. ASSUME NEW c \in Client, ReadLatest(c) \/ ReadIssue(c) PROVE Goal
  <2>1. PICK new \in ScanRequest : request' = [request EXCEPT ![c] = new]
    BY <1>0, <1>3, ReadLatestScan, ReadIssueScan
  <2> QED
    BY <1>0, <2>1, Replaced DEF Request
<1>5. ASSUME NEW c \in Client, LoadIssue(c) PROVE Goal
  <2>1. PICK s \in Series, target \in {"acknowledged", "resolved"} : \E i \in DOMAIN issues[s] :
          request' = [request EXCEPT ![c] =
            [step |-> "update", series |-> s, id |-> i, target |-> target, row |-> issues[s][i]]]
    BY <1>5 DEF LoadIssue
  <2>2. PICK i \in DOMAIN issues[s] :
          request' = [request EXCEPT ![c] =
            [step |-> "update", series |-> s, id |-> i, target |-> target, row |-> issues[s][i]]]
    BY <2>1
  <2> DEFINE r == [step |-> "update", series |-> s, id |-> i, target |-> target, row |-> issues[s][i]]
  <2>3. r \in UpdateRequest
    BY <1>0 DEF UpdateRequest, WellTyped
  <2>4. issues' = issues /\ series' = series
    BY <1>5 DEF LoadIssue
  <2>5. Loads(r)
    BY <2>3, <2>4 DEF Loads
  <2>6. request' = [request EXCEPT ![c] = r] /\ r \in Request
    BY <2>2, <2>3 DEF Request
  <2> HIDE DEF r
  <2> QED
    BY <1>0, <2>5, <2>6, Replaced
<1>6. ASSUME NEW c \in Client, LoadSeries(c) PROVE Goal
  <2>1. PICK s \in Series, patch \in Patch :
          /\ series[s].lock_version < MaxVersion
          /\ request' = [request EXCEPT ![c] =
               [step |-> "patch", series |-> s, patch |-> patch, row |-> series[s]]]
    BY <1>6 DEF LoadSeries
  <2> DEFINE r == [step |-> "patch", series |-> s, patch |-> patch, row |-> series[s]]
  <2>2. r \in PatchRequest
    BY <1>0 DEF PatchRequest, WellTyped
  <2>3. issues' = issues /\ series' = series
    BY <1>6 DEF LoadSeries
  <2>4. Loads(r)
    BY <2>1, <2>2, <2>3 DEF Loads
  <2>5. request' = [request EXCEPT ![c] = r] /\ r \in Request
    BY <2>1, <2>2 DEF Request
  <2> HIDE DEF r
  <2> QED
    BY <1>0, <2>4, <2>5, Replaced
<1>7. CASE Tick \/ (\E x \in Series : Observe(x)) \/ UNCHANGED vars
  BY <1>0, <1>7 DEF Tick, Observe, vars, RequestStep, WellTyped
<1> QED
  BY <1>1, <1>2, <1>3, <1>5, <1>6, <1>7 DEF Next, Handle

-----------------------------------------------------------------------------
(* The invariant: first the types, then what is known, then the histories. *)

LEMMA InitIInv == QualityAssumption /\ Init => IInv /\ \A c \in Client : Reports(c)
<1> SUFFICES ASSUME QualityAssumption, Init PROVE IInv /\ \A c \in Client : Reports(c)
  OBVIOUS
<1>1. WellTyped
  <2>1. MaxDay \in Nat /\ MaxIssues \in Nat
    BY DEF QualityAssumption
  <2>2. series \in [Series -> Row] /\ latest \in [Series -> 0 .. Never]
    BY <2>1, NewRowIsRow DEF Init, Never
  <2> QED
    BY <2>1, <2>2 DEF Init, WellTyped, Request
<1>2. \A c \in Client : request[c] = Idle
  BY DEF Init
<1>3. \A c \in Client : Known(c) /\ Reports(c)
  BY <1>2 DEF Known, Reports, Idle
<1>4. Histories
  BY DEF Init, Histories, OneUnresolved, Unresolved
<1> QED
  BY <1>1, <1>3, <1>4 DEF IInv

(* An issue keeps its place, and its version grows. *)
LEMMA IssuesAge ==
    ASSUME QualityAssumption, IInv, NEW s \in Series, IssueStep(s)
    PROVE  /\ issues'[s] \in Seq(Issue) /\ Len(issues'[s]) <= MaxIssues
           /\ \A i \in DOMAIN issues[s] :
                /\ i \in DOMAIN issues'[s]
                /\ \/ issues'[s][i] = issues[s][i]
                   \/ issues'[s][i].lock_version = issues[s][i].lock_version + 1
<1>0. issues[s] \in Seq(Issue) /\ Len(issues[s]) <= MaxIssues /\ MaxIssues \in Nat
  BY DEF QualityAssumption, IInv, WellTyped
<1>1. CASE issues'[s] = issues[s]
  BY <1>0, <1>1
<1>2. CASE Opens(s)
  <2>1. NewIssue \in Issue
    BY DEF NewIssue, Issue, IssueStatus
  <2> HIDE DEF NewIssue
  <2> QED
    BY <1>0, <1>2, <2>1 DEF Opens
<1>3. ASSUME NEW i \in DOMAIN issues[s], NEW target \in {"acknowledged", "resolved"},
             Moves(s, i, target)
      PROVE  /\ issues'[s] \in Seq(Issue) /\ Len(issues'[s]) <= MaxIssues
             /\ \A j \in DOMAIN issues[s] :
                  /\ j \in DOMAIN issues'[s]
                  /\ \/ issues'[s][j] = issues[s][j]
                     \/ issues'[s][j].lock_version = issues[s][j].lock_version + 1
  <2> DEFINE issue == issues[s][i]
             event == [previous |-> issue.status, new |-> target,
                       source_lock_version |-> issue.lock_version]
  <2>0. issue \in Issue
    BY <1>0, <1>3
  <2>1. /\ issue.lock_version \in Nat \ {0} /\ issue.status \in IssueStatus
        /\ issue.events \in Seq(Event)
    <3> HIDE DEF issue
    <3> QED
      BY <2>0 DEF Issue
  <2>2. event \in Event
    BY <2>1 DEF Event, IssueStatus
  <2> HIDE DEF event
  <2>3. Append(issue.events, event) \in Seq(Event)
    BY <2>1, <2>2
  <2>4. Moved(issue, target) \in Issue
        /\ Moved(issue, target).lock_version = issue.lock_version + 1
    BY <2>1, <2>3 DEF Moved, Issue, IssueStatus, event
  <2>5. issues'[s] = [issues[s] EXCEPT ![i] = Moved(issue, target)]
    BY <1>3 DEF Moves
  <2> HIDE DEF issue
  <2> QED
    BY <1>0, <2>4, <2>5 DEF issue
<1> QED
  BY <1>1, <1>2, <1>3 DEF IssueStep

(* The rest of the types. *)
LEMMA OthersTyped ==
    ASSUME QualityAssumption, WellTyped, [Next]_vars
    PROVE  /\ issues' = [s \in Series |-> issues'[s]]
           /\ settled' \in [Client -> SUBSET Series]
           /\ series' = [s \in Series |-> series'[s]]
           /\ latest' \in [Series -> 0 .. Never]
           /\ day' \in 0 .. MaxDay
<1> DEFINE Goal == /\ issues' = [s \in Series |-> issues'[s]]
                   /\ settled' \in [Client -> SUBSET Series]
                   /\ series' = [s \in Series |-> series'[s]]
<1> USE DEF WellTyped
<1>1. ASSUME NEW c \in Client, FinishScan(c) PROVE Goal
  BY <1>1 DEF FinishScan, Reply
<1>2. ASSUME NEW c \in Client, UpdateIssue(c) PROVE Goal
  <2>1. request[c] \in UpdateRequest /\ request[c].series \in Series
    BY <1>2, RequestKinds DEF UpdateIssue, UpdateRequest
  <2>2. issues' = [s \in Series |-> issues'[s]] /\ series' = series
    BY <1>2 DEF UpdateIssue, Reply
  <2>3. settled' \in [Client -> SUBSET Series]
    BY <1>2, <2>1 DEF UpdateIssue, Reply
  <2> QED
    BY <2>2, <2>3
<1>3. ASSUME NEW c \in Client, PatchSeries(c) PROVE Goal
  BY <1>3 DEF PatchSeries, Reply
<1>4. ASSUME NEW c \in Client,
             StartScan(c) \/ ReadLatest(c) \/ ReadIssue(c) \/ LoadIssue(c) \/ LoadSeries(c)
      PROVE  Goal
  BY <1>4 DEF StartScan, ReadLatest, ReadIssue, LoadIssue, LoadSeries
<1>5. ASSUME Tick \/ (\E x \in Series : Observe(x)) \/ UNCHANGED vars PROVE Goal
  BY <1>5 DEF Tick, Observe, vars
<1>6. Goal
  BY <1>1, <1>2, <1>3, <1>4, <1>5 DEF Next, Handle
<1>7. latest' \in [Series -> 0 .. Never] /\ day' \in 0 .. MaxDay
  <2>1. MaxDay \in Nat
    BY DEF QualityAssumption
  <2>2. ASSUME NEW c \in Client, Handle(c) PROVE UNCHANGED <<latest, day>>
    BY <2>2 DEF Handle, StartScan, ReadLatest, ReadIssue, FinishScan, LoadIssue, UpdateIssue,
                LoadSeries, PatchSeries
  <2>3. CASE Tick
    BY <2>1, <2>3 DEF Tick
  <2>4. ASSUME NEW s \in Series, Observe(s)
        PROVE  latest' \in [Series -> 0 .. Never] /\ day' \in 0 .. MaxDay
    BY <2>1, <2>4 DEF Observe, Never
  <2>5. CASE UNCHANGED vars
    BY <2>5 DEF vars
  <2> QED
    BY <2>2, <2>3, <2>4, <2>5 DEF Next
<1> QED
  BY <1>6, <1>7

LEMMA StepTyped ==
    ASSUME QualityAssumption, IInv, [Next]_vars
    PROVE  WellTyped'
<1>1. issues' \in [Series -> Seq(Issue)] /\ \A s \in Series : Len(issues'[s]) <= MaxIssues
  <2>1. \A s \in Series : issues'[s] \in Seq(Issue) /\ Len(issues'[s]) <= MaxIssues
    BY IssuesStep, IssuesAge
  <2>2. issues' = [s \in Series |-> issues'[s]]
    BY OthersTyped DEF IInv
  <2> QED
    BY <2>1, <2>2
<1>2. series' \in [Series -> Row]
  <2>1. series \in [Series -> Row]
    BY DEF IInv, WellTyped
  <2>2. ASSUME NEW s \in Series PROVE series'[s] \in Row
    <3>1. PatchStep(s) /\ series[s] \in Row
      BY <2>1, SeriesStep
    <3> QED
      BY <3>1, PatchedIsRow DEF PatchStep
  <2>3. series' = [s \in Series |-> series'[s]]
    BY OthersTyped DEF IInv
  <2> QED
    BY <2>2, <2>3
<1>3. request' \in [Client -> Request]
  BY RequestsStep
<1>4. /\ settled' \in [Client -> SUBSET Series]
      /\ latest' \in [Series -> 0 .. Never] /\ day' \in 0 .. MaxDay
  BY OthersTyped DEF IInv
<1> QED
  BY <1>1, <1>2, <1>3, <1>4 DEF WellTyped

(* Rows only get newer, so that what was known of them stays known. *)
LEMMA StepKnown ==
    ASSUME QualityAssumption, IInv, [Next]_vars, NEW d \in Client
    PROVE  Known(d)'
<1>0. WellTyped /\ WellTyped' /\ Known(d)
  BY StepTyped DEF IInv
<1>1. CASE request'[d] = request[d]
  <2> DEFINE r == request[d]
  <2>0. r \in Request
    BY <1>0 DEF WellTyped
  <2>1. ASSUME r.step = "update"
        PROVE  r.id \in DOMAIN issues'[r.series] /\ Older(r.row, issues'[r.series][r.id])
    <3>1. r.series \in Series /\ r.row \in Issue
      BY <2>0, <2>1, RequestKinds DEF UpdateRequest
    <3>2. r.id \in DOMAIN issues[r.series] /\ Older(r.row, issues[r.series][r.id])
      BY <1>0, <2>1 DEF Known
    <3>3. issues[r.series][r.id] \in Issue
      BY <1>0, <3>1, <3>2 DEF WellTyped
    <3>4. /\ r.id \in DOMAIN issues'[r.series]
          /\ \/ issues'[r.series][r.id] = issues[r.series][r.id]
             \/ issues'[r.series][r.id].lock_version = issues[r.series][r.id].lock_version + 1
      BY <3>1, <3>2, IssuesStep, IssuesAge
    <3>5. r.row.lock_version \in Nat /\ issues[r.series][r.id].lock_version \in Nat
      BY <3>1, <3>3 DEF Issue
    <3> HIDE DEF r
    <3> QED
      BY <3>2, <3>4, <3>5 DEF Older
  <2>2. ASSUME r.step = "patch"
        PROVE  Older(r.row, series'[r.series]) /\ r.row.lock_version < MaxVersion
    <3>1. r.series \in Series /\ r.row \in Row
      BY <2>0, <2>2, RequestKinds DEF PatchRequest
    <3>2. Older(r.row, series[r.series]) /\ r.row.lock_version < MaxVersion
      BY <1>0, <2>2 DEF Known
    <3>3. series[r.series] \in Row
      BY <1>0, <3>1 DEF WellTyped
    <3>4. \/ series'[r.series] = series[r.series]
          \/ series'[r.series].lock_version = series[r.series].lock_version + 1
      BY <3>1, <3>3, SeriesStep, PatchedIsRow DEF PatchStep
    <3>5. r.row.lock_version \in Nat /\ series[r.series].lock_version \in Nat
      BY <3>1, <3>3, QualityAssumption DEF QualityAssumption, Row
    <3> HIDE DEF r
    <3> QED
      BY <3>2, <3>4, <3>5 DEF Older
  <2> HIDE DEF r
  <2>3. request'[d] = r
    BY <1>1 DEF r
  <2> QED
    BY <2>1, <2>2, <2>3 DEF Known
<1>2. CASE request'[d] = Idle \/ request'[d] \in ScanRequest
  BY <1>2 DEF Known, Idle, ScanRequest, ScanRecord
<1>3. CASE Loads(request'[d])
  <2> DEFINE r == request'[d]
  <2>1. CASE r \in UpdateRequest
    <3>1. r.step = "update" /\ r.id \in DOMAIN issues'[r.series] /\ r.row = issues'[r.series][r.id]
      BY <1>3, <2>1 DEF Loads, UpdateRequest, PatchRequest
    <3>2. issues'[r.series][r.id].lock_version \in Nat
      BY <1>0, <2>1, <3>1 DEF UpdateRequest, WellTyped, Issue
    <3> HIDE DEF r
    <3> QED
      BY <3>1, <3>2 DEF Known, Older, r
  <2>2. CASE r \in PatchRequest
    <3>1. r.step = "patch" /\ r.row = series'[r.series] /\ r.row.lock_version < MaxVersion
      BY <1>3, <2>2 DEF Loads, UpdateRequest, PatchRequest
    <3>2. series'[r.series].lock_version \in Nat
      BY <1>0, <2>2, QualityAssumption DEF QualityAssumption, PatchRequest, WellTyped, Row
    <3> HIDE DEF r
    <3> QED
      BY <3>1, <3>2 DEF Known, Older, r
  <2> QED
    BY <1>3, <2>1, <2>2 DEF Loads
<1> QED
  BY <1>1, <1>2, <1>3, RequestsStep DEF RequestStep

(* An issue that is moved has one more event. *)
LEMMA MovedLives ==
    ASSUME NEW issue \in Issue, Lived(issue), NEW target \in {"acknowledged", "resolved"}
    PROVE  Lived(Moved(issue, target))
<1> DEFINE event == [previous |-> issue.status, new |-> target,
                     source_lock_version |-> issue.lock_version]
           moved == Moved(issue, target)
           n == Len(issue.events)
<1>1. issue.events \in Seq(Event) /\ n \in Nat /\ issue.lock_version \in Nat
  BY DEF Issue
<1>2. event.previous = issue.status /\ event.new = target
      /\ event.source_lock_version = issue.lock_version
  OBVIOUS
<1>3. moved.events = Append(issue.events, event) /\ moved.status = target
      /\ moved.lock_version = issue.lock_version + 1
  BY DEF Moved
<1> HIDE DEF event, moved
<1>4. Len(moved.events) = n + 1 /\ moved.events[n + 1] = event
      /\ \A k \in 1 .. n : moved.events[k] = issue.events[k]
  BY <1>1, <1>3
<1>5. moved.lock_version = Len(moved.events) + 1
  BY <1>1, <1>3, <1>4 DEF Lived
<1>6. After(moved, n + 1) = moved.status
  BY <1>1, <1>2, <1>3, <1>4 DEF After
<1>7. \A k \in 0 .. n : After(moved, k) = After(issue, k)
  BY <1>1, <1>4 DEF After
<1>8. ASSUME NEW k \in 1 .. n + 1
      PROVE  /\ moved.events[k].previous = After(moved, k - 1)
             /\ moved.events[k].source_lock_version = k
  <2>1. CASE k = n + 1
    BY <1>1, <1>2, <1>4, <1>7, <2>1 DEF Lived
  <2>2. CASE k # n + 1
    <3>1. k \in 1 .. n /\ k \in DOMAIN issue.events /\ k - 1 \in 0 .. n
      BY <1>1, <2>2
    <3> QED
      BY <1>4, <1>7, <3>1 DEF Lived
  <2> QED
    BY <2>1, <2>2
<1>9. DOMAIN moved.events = 1 .. n + 1
  BY <1>1, <1>3
<1> QED
  BY <1>4, <1>5, <1>6, <1>8, <1>9 DEF Lived, moved

LEMMA StepHistories ==
    ASSUME QualityAssumption, IInv, [Next]_vars
    PROVE  Histories'
<1> SUFFICES ASSUME NEW s \in Series
             PROVE  OneUnresolved(s)' /\ \A i \in DOMAIN issues'[s] : Lived(issues'[s][i])
  BY DEF Histories
<1>0. issues[s] \in Seq(Issue) /\ OneUnresolved(s) /\ \A i \in DOMAIN issues[s] : Lived(issues[s][i])
  BY DEF IInv, WellTyped, Histories
<1>1. CASE issues'[s] = issues[s]
  BY <1>0, <1>1 DEF OneUnresolved, Unresolved
<1>2. CASE Opens(s)
  <2>1. issues'[s] = Append(issues[s], NewIssue) /\ Unresolved(s) = {}
    BY <1>2 DEF Opens
  <2>2. Lived(NewIssue)
    BY DEF Lived, NewIssue, After
  <2> HIDE DEF NewIssue
  <2>3. /\ DOMAIN issues'[s] = 1 .. Len(issues[s]) + 1
        /\ issues'[s][Len(issues[s]) + 1] = NewIssue
        /\ \A i \in DOMAIN issues[s] : issues'[s][i] = issues[s][i]
        /\ DOMAIN issues[s] = 1 .. Len(issues[s]) /\ Len(issues[s]) \in Nat
    BY <1>0, <2>1
  <2>4. \A i \in DOMAIN issues'[s] : i = Len(issues[s]) + 1 \/ i \in DOMAIN issues[s]
    BY <2>3
  <2>5. \A i \in DOMAIN issues'[s] : Lived(issues'[s][i])
    BY <1>0, <2>2, <2>3, <2>4
  <2>6. \A i \in Unresolved(s)' : i = Len(issues[s]) + 1
    BY <2>1, <2>3, <2>4 DEF Unresolved
  <2> QED
    BY <2>5, <2>6 DEF OneUnresolved
<1>3. ASSUME NEW i \in DOMAIN issues[s], NEW target \in {"acknowledged", "resolved"},
             Moves(s, i, target)
      PROVE  OneUnresolved(s)' /\ \A j \in DOMAIN issues'[s] : Lived(issues'[s][j])
  <2>1. /\ DOMAIN issues'[s] = DOMAIN issues[s]
        /\ issues'[s][i] = Moved(issues[s][i], target)
        /\ \A j \in DOMAIN issues[s] \ {i} : issues'[s][j] = issues[s][j]
    BY <1>0, <1>3 DEF Moves
  <2>2. Lived(Moved(issues[s][i], target))
    BY <1>0, MovedLives
  <2>3. \A j \in DOMAIN issues'[s] : Lived(issues'[s][j])
    BY <1>0, <2>1, <2>2
  <2>4. i \in Unresolved(s)
    BY <1>3 DEF Moves, Unresolved
  <2>5. Unresolved(s)' \subseteq Unresolved(s)
    BY <2>1, <2>4 DEF Unresolved
  <2> QED
    BY <1>0, <2>3, <2>5 DEF OneUnresolved
<1> QED
  BY <1>1, <1>2, <1>3, IssuesStep DEF IssueStep

LEMMA Invariance ==
    ASSUME QualityAssumption
    PROVE  Spec => []IInv
<1>1. Init => IInv
  BY InitIInv
<1>2. IInv /\ [Next]_vars => IInv'
  BY StepTyped, StepKnown, StepHistories DEF IInv
<1> QED
  BY <1>1, <1>2, PTL DEF Spec

(* TypeOK: every component of the state is what its comment says. *)
THEOREM TypeCorrect ==
    ASSUME QualityAssumption
    PROVE  Spec => []TypeOK
<1>1. IInv => TypeOK
  <2> SUFFICES ASSUME IInv PROVE TypeOK
    OBVIOUS
  <2>1. \A c \in Client : request[c].step \in {"idle", "scan", "issue", "commit", "update", "patch"}
    BY RequestKinds DEF IInv, WellTyped
  <2> QED
    BY <2>1 DEF IInv, WellTyped, TypeOK
<1> QED
  BY <1>1, Invariance, PTL

(* README.md:552: however scans and users overlap, a series has at most    *)
(* one unresolved issue, and the events of an issue are its whole life.    *)
THEOREM HistoryAlways ==
    ASSUME QualityAssumption
    PROVE  Spec => []IssueHistoryIsComplete
<1>1. IInv => IssueHistoryIsComplete
  <2> SUFFICES ASSUME IInv, NEW s \in Series
               PROVE  /\ Cardinality(Unresolved(s)) <= 1
                      /\ \A i \in DOMAIN issues[s] : Lived(issues[s][i])
    BY DEF IssueHistoryIsComplete, Lived, After
  <2>1. OneUnresolved(s) /\ \A i \in DOMAIN issues[s] : Lived(issues[s][i])
    BY DEF IInv, Histories
  <2>2. CASE Unresolved(s) = {}
    BY <2>1, <2>2, FS_EmptySet
  <2>3. CASE Unresolved(s) # {}
    <3>1. PICK i \in Unresolved(s) : TRUE
      BY <2>3
    <3>2. Unresolved(s) = {i}
      BY <2>1, <3>1 DEF OneUnresolved
    <3>3. Cardinality(Unresolved(s)) = 1
      BY <3>2, FS_Singleton
    <3> QED
      BY <2>1, <3>3
  <2> QED
    BY <2>2, <2>3
<1> QED
  BY <1>1, Invariance, PTL

-----------------------------------------------------------------------------
(* What a scan has found stale stays accounted for. *)

LEMMA IssuesAreKept ==
    ASSUME IInv, [Next]_vars, NEW d \in Client, request'[d] = request[d],
           request[d].step \in {"scan", "issue"}
    PROVE  /\ settled[d] \subseteq settled'[d]
           /\ \A s \in Series \ settled'[d] : Unresolved(s) # {} => Unresolved(s)' # {}
<1> DEFINE Goal == /\ settled[d] \subseteq settled'[d]
                   /\ \A s \in Series \ settled'[d] : Unresolved(s) # {} => Unresolved(s)' # {}
<1>0. WellTyped /\ request[d] \in ScanRequest /\ "found" \in DOMAIN request[d]
  BY RequestKinds DEF IInv, WellTyped
<1>1. ASSUME NEW c \in Client, FinishScan(c) PROVE Goal
  <2>1. c # d
    BY <1>0, <1>1 DEF FinishScan, Reply, Idle, WellTyped
  <2>2. settled'[d] = settled[d]
    BY <1>0, <1>1, <2>1 DEF FinishScan, Reply, WellTyped
  <2>3. ASSUME NEW s \in Series, Unresolved(s) # {} PROVE Unresolved(s)' # {}
    <3>1. issues'[s] = issues[s]
      BY <1>0, <1>1, <2>3, FinishOpens DEF Opens
    <3> QED
      BY <2>3, <3>1 DEF Unresolved
  <2> QED
    BY <2>2, <2>3
<1>2. ASSUME NEW c \in Client, UpdateIssue(c) PROVE Goal
  <2> DEFINE r == request[c]
  <2>1. c # d
    BY <1>2 DEF UpdateIssue
  <2>2. settled[d] \subseteq settled'[d]
    BY <1>0, <1>2, <2>1 DEF UpdateIssue, Reply, WellTyped
  <2>3. CASE issues' = issues
    BY <2>2, <2>3 DEF Unresolved
  <2>4. CASE issues' # issues
    <3>1. /\ r \in UpdateRequest /\ Moves(r.series, r.id, r.target)
          /\ \A s \in Series \ {r.series} : issues'[s] = issues[s]
          /\ settled' = [e \in Client |->
               IF e # c /\ r.target = "resolved" /\ "found" \in DOMAIN request[e]
               THEN settled[e] \cup {r.series} ELSE settled[e]]
      BY <1>2, <2>4, UpdateMoves
    <3>2. ASSUME NEW s \in Series \ settled'[d], Unresolved(s) # {} PROVE Unresolved(s)' # {}
      <4>1. CASE s # r.series
        BY <3>1, <3>2, <4>1 DEF Unresolved
      <4>2. CASE s = r.series
        <5>1. r.target # "resolved"
          BY <1>0, <2>1, <3>1, <3>2, <4>2
        <5>2. r.id \in DOMAIN issues'[s] /\ issues'[s][r.id] = Moved(issues[s][r.id], r.target)
          <6>1. issues[s] \in Seq(Issue)
            BY <1>0 DEF WellTyped
          <6> QED
            BY <3>1, <4>2, <6>1 DEF Moves
        <5>3. r.id \in Unresolved(s)'
          BY <5>1, <5>2 DEF Unresolved, Moved
        <5> QED
          BY <5>3
      <4> QED
        BY <4>1, <4>2
    <3> QED
      BY <2>2, <3>2
  <2> QED
    BY <2>3, <2>4
<1>3. ASSUME NEW c \in Client, PatchSeries(c) PROVE Goal
  <2>1. c # d /\ issues' = issues
    BY <1>3 DEF PatchSeries
  <2>2. settled'[d] = settled[d]
    BY <1>0, <1>3, <2>1 DEF PatchSeries, Reply, WellTyped
  <2> QED
    BY <2>1, <2>2 DEF Unresolved
<1>4. ASSUME \/ \E c \in Client :
                  \/ StartScan(c) \/ ReadLatest(c) \/ ReadIssue(c)
                  \/ LoadIssue(c) \/ LoadSeries(c)
             \/ Tick \/ (\E x \in Series : Observe(x)) \/ UNCHANGED vars
      PROVE  Goal
  <2>1. issues' = issues /\ settled' = settled
    BY <1>4 DEF StartScan, ReadLatest, ReadIssue, LoadIssue, LoadSeries, Tick, Observe, vars
  <2> QED
    BY <2>1 DEF Unresolved
<1> QED
  BY <1>1, <1>2, <1>3, <1>4 DEF Next, Handle

LEMMA StepReports ==
    ASSUME IInv, [Next]_vars, NEW d \in Client, Reports(d)
    PROVE  Reports(d)'
<1>0. WellTyped /\ request \in [Client -> Request]
  BY DEF IInv, WellTyped
<1>1. CASE request'[d] = request[d]
  <2>1. CASE request[d].step \in {"scan", "issue"}
    <3>1. request[d].stale \subseteq Series
      BY <1>0, <2>1, RequestKinds DEF ScanRequest, ScanRecord
    <3>2. /\ settled[d] \subseteq settled'[d]
          /\ \A s \in Series \ settled'[d] : Unresolved(s) # {} => Unresolved(s)' # {}
      BY <1>1, <2>1, IssuesAreKept
    <3> QED
      BY <1>1, <2>1, <3>1, <3>2 DEF Reports, Visited
  <2>2. CASE request[d].step \notin {"scan", "issue"}
    BY <1>1, <2>2 DEF Reports
  <2> QED
    BY <2>1, <2>2
<1>2. CASE request'[d] = Idle \/ Loads(request'[d])
  <2>1. request'[d].step \notin {"scan", "issue"}
    BY <1>2 DEF Idle, Loads, UpdateRequest, PatchRequest
  <2> QED
    BY <2>1 DEF Reports
<1>3. CASE request'[d] # request[d] /\ request'[d] \in ScanRequest
  <2>1. ASSUME NEW c \in Client, StartScan(c) PROVE Reports(d)'
    <3>1. c = d
      BY <1>0, <1>3, <2>1 DEF StartScan
    <3>2. request'[d].stale = {}
      BY <1>0, <2>1, <3>1 DEF StartScan
    <3> QED
      BY <3>2 DEF Reports
  <2>2. ASSUME NEW c \in Client, ReadLatest(c) PROVE Reports(d)'
    <3>1. PICK new \in ScanRequest :
             /\ request' = [request EXCEPT ![c] = new]
             /\ request[c] \in ScanRequest /\ request[c].step = "scan"
             /\ new.found = request[c].found
             /\ \/ new.stale = request[c].stale
                \/ /\ new.step = "issue" /\ new.left = request[c].left
                   /\ new.stale = request[c].stale \cup {Visited(request[c])}
      BY <1>0, <2>2, ReadLatestScan
    <3>2. c = d /\ request'[d] = new
      BY <1>0, <1>3, <3>1
    <3>3. issues' = issues /\ settled' = settled
      BY <2>2 DEF ReadLatest
    <3>4. \A s \in request[d].stale \ (request[d].found \cup settled[d]) : Unresolved(s) # {}
      BY <3>1, <3>2 DEF Reports
    <3>5. new.left = request[c].left => Visited(new) = Visited(request[c])
      BY DEF Visited
    <3>6. ASSUME NEW s \in new.stale \ (new.found \cup settled[d])
          PROVE  Unresolved(s) # {} \/ (new.step = "issue" /\ s = Visited(new))
      BY <3>1, <3>2, <3>4, <3>5, <3>6
    <3> QED
      BY <3>2, <3>3, <3>6 DEF Reports, Unresolved
  <2>3. ASSUME NEW c \in Client, ReadIssue(c) PROVE Reports(d)'
    <3>1. PICK new \in ScanRequest :
             /\ request' = [request EXCEPT ![c] = new]
             /\ request[c] \in ScanRequest /\ request[c].step = "issue"
             /\ new.step = "scan" /\ new.stale = request[c].stale
             /\ \/ new.found = request[c].found \cup {Visited(request[c])}
                \/ /\ new.found = request[c].found
                   /\ HasIssue(Visited(request[c]))
      BY <1>0, <2>3, ReadIssueScan
    <3>2. c = d /\ request'[d] = new
      BY <1>0, <1>3, <3>1
    <3>3. issues' = issues /\ settled' = settled
      BY <2>3 DEF ReadIssue
    <3>4. ASSUME NEW s \in new.stale \ (new.found \cup settled[d])
          PROVE  Unresolved(s) # {}
      <4>1. Unresolved(s) # {} \/ s = Visited(request[d])
        BY <3>1, <3>2, <3>4 DEF Reports
      <4> QED
        BY <3>1, <3>2, <3>4, <4>1 DEF HasIssue
    <3> QED
      BY <3>2, <3>3, <3>4 DEF Reports, Unresolved
  <2>4. ASSUME NEW c \in Client,
               FinishScan(c) \/ UpdateIssue(c) \/ PatchSeries(c) \/ LoadIssue(c) \/ LoadSeries(c)
        PROVE  FALSE
    <3>1. request'[d].step \in {"idle", "update", "patch"} \/ request'[d] = request[d]
      BY <1>0, <2>4 DEF FinishScan, UpdateIssue, PatchSeries, LoadIssue, LoadSeries, Reply, Idle
    <3> QED
      BY <1>3, <3>1 DEF ScanRequest, ScanRecord
  <2>5. ~(Tick \/ (\E x \in Series : Observe(x)) \/ UNCHANGED vars)
    BY <1>3 DEF Tick, Observe, vars
  <2> QED
    BY <2>1, <2>2, <2>3, <2>4, <2>5 DEF Next, Handle
<1> QED
  BY <1>1, <1>2, <1>3, RequestsStep DEF RequestStep

LEMMA ReportsAlways ==
    ASSUME QualityAssumption
    PROVE  Spec => [](IInv /\ \A c \in Client : Reports(c))
<1> DEFINE Inv == IInv /\ \A c \in Client : Reports(c)
<1>1. Init => Inv
  BY InitIInv
<1>2. Inv /\ [Next]_vars => Inv'
  BY StepTyped, StepKnown, StepHistories, StepReports DEF IInv
<1> QED
  BY <1>1, <1>2, PTL DEF Spec

LEMMA ScanEnds ==
    ASSUME IInv, [Next]_vars, NEW c \in Client, request[c].step = "scan", request'[c] = Idle
    PROVE  FinishScan(c)
<1>0. WellTyped /\ request \in [Client -> Request] /\ request'[c] # request[c]
  BY DEF IInv, WellTyped, Idle
<1>1. ASSUME NEW d \in Client, d # c PROVE ~Handle(d)
  BY <1>0, <1>1 DEF Handle, StartScan, ReadLatest, ReadIssue, FinishScan, LoadIssue, UpdateIssue,
                LoadSeries, PatchSeries, Reply
<1>2. ~(Tick \/ (\E x \in Series : Observe(x)) \/ UNCHANGED vars)
  BY <1>0 DEF Tick, Observe, vars
<1>3. ~ReadLatest(c)
  <2> SUFFICES ASSUME ReadLatest(c) PROVE FALSE
    OBVIOUS
  <2>1. PICK new \in ScanRequest : request' = [request EXCEPT ![c] = new]
    BY <1>0, ReadLatestScan
  <2>2. new.step # "idle"
    BY DEF ScanRequest, ScanRecord
  <2> QED
    BY <1>0, <2>1, <2>2 DEF Idle
<1>4. ~(StartScan(c) \/ ReadIssue(c) \/ LoadIssue(c) \/ UpdateIssue(c)
          \/ LoadSeries(c) \/ PatchSeries(c))
  BY DEF StartScan, ReadIssue, LoadIssue, UpdateIssue, LoadSeries, PatchSeries, Idle
<1> QED
  BY <1>1, <1>2, <1>3, <1>4 DEF Next, Handle

(* README.md:551: a scan that succeeds has left an unresolved issue at     *)
(* each series that it took for stale, unless a user resolved one while it *)
(* ran: that it skips what has an issue, and that it reads the issues one  *)
(* by one, loses none.                                                     *)
THEOREM StaleAlways ==
    ASSUME QualityAssumption
    PROVE  Spec => StaleIsReported
<1> DEFINE Reported == \A c \in Client :
             /\ request[c].step = "scan" /\ request'[c] = Idle
             /\ ~Conflicts(request[c].found)
             => \A s \in request[c].stale \ settled[c] : Unresolved(s)' # {}
<1>1. ASSUME IInv, \A c \in Client : Reports(c), [Next]_vars PROVE Reported
  <2> SUFFICES ASSUME NEW c \in Client, request[c].step = "scan", request'[c] = Idle,
                      ~Conflicts(request[c].found),
                      NEW s \in request[c].stale \ settled[c]
               PROVE  Unresolved(s)' # {}
    OBVIOUS
  <2>0. WellTyped /\ request[c] \in ScanRequest /\ s \in Series /\ issues[s] \in Seq(Issue)
    BY <1>1, RequestKinds DEF IInv, WellTyped, ScanRequest, ScanRecord
  <2>1. issues' = [x \in Series |->
            IF x \in request[c].found THEN Append(issues[x], NewIssue) ELSE issues[x]]
    BY <1>1, ScanEnds DEF FinishScan
  <2>2. CASE s \in request[c].found
    <3>1. issues'[s] = Append(issues[s], NewIssue) /\ NewIssue.status = "open"
      BY <2>0, <2>1, <2>2 DEF NewIssue
    <3> HIDE DEF NewIssue
    <3>2. /\ Len(issues[s]) + 1 \in DOMAIN issues'[s]
          /\ issues'[s][Len(issues[s]) + 1] = NewIssue
      BY <2>0, <3>1
    <3>3. Len(issues[s]) + 1 \in Unresolved(s)'
      BY <3>1, <3>2 DEF Unresolved
    <3> QED
      BY <3>3
  <2>3. CASE s \notin request[c].found
    <3>1. Unresolved(s) # {}
      BY <1>1, <2>3 DEF Reports
    <3>2. issues'[s] = issues[s]
      BY <2>0, <2>1, <2>3
    <3> QED
      BY <3>1, <3>2 DEF Unresolved
  <2> QED
    BY <2>2, <2>3
<1>2. IInv /\ (\A c \in Client : Reports(c)) /\ [Next]_vars => [Reported]_vars
  BY <1>1
<1> QED
  BY <1>2, ReportsAlways, PTL DEF Spec, StaleIsReported

-----------------------------------------------------------------------------
(* Overlapping patches change a series as if one after the other.          *)
THEOREM AtomicImplemented ==
    ASSUME QualityAssumption
    PROVE  Spec => ImplementsAtomicRecord
<1>1. Init => \A s \in Series : Atomic(s)!Init
  <2> SUFFICES ASSUME Init, NEW s \in Series PROVE Atomic(s)!Init
    OBVIOUS
  <2>1. series[s] = NewRow /\ NewRow.lock_version = 1
    BY DEF Init, NewRow
  <2> QED
    BY <2>1 DEF Atomic!Init
<1>2. ASSUME IInv, [Next]_vars
      PROVE  [\A s \in Series : [Atomic(s)!Change]_(Atomic(s)!vars)]_series
  <2> SUFFICES ASSUME NEW s \in Series PROVE [Atomic(s)!Change]_(Atomic(s)!vars)
    OBVIOUS
  <2>1. CASE series'[s] = series[s]
    BY <2>1 DEF Atomic!vars
  <2>2. ASSUME NEW patch \in Patch, series'[s] = Patched(series[s], patch),
               IsOrdered(series'[s]), series[s].lock_version < MaxVersion
        PROVE  Atomic(s)!Change
    <3> DEFINE row == [is_active |-> Content(series[s]).is_active,
                       bounds |-> Content(series[s]).bounds, lock_version |-> 1]
    <3>1. series[s] \in Row
      BY <1>2 DEF IInv, WellTyped
    <3>2. series'[s].lock_version = series[s].lock_version + 1
      BY <2>2, <3>1, PatchedIsRow
    <3>3. row.is_active = series[s].is_active /\ row.bounds = series[s].bounds
      BY DEF Content
    <3> HIDE DEF row
    <3>4. /\ Patched(row, patch).is_active = series'[s].is_active
          /\ Patched(row, patch).bounds = series'[s].bounds
      BY <2>2, <3>3 DEF Patched
    <3>5. IsOrdered(Patched(row, patch))
      BY <2>2, <3>4 DEF IsOrdered
    <3>6. Content(series'[s]) = Content(Patched(row, patch))
      BY <3>4 DEF Content
    <3>7. Changes(Content(series[s]), Content(series'[s]))
      BY <3>5, <3>6 DEF Changes, row
    <3> QED
      BY <3>2, <3>7 DEF Atomic!Change
  <2> QED
    BY <1>2, <2>1, <2>2, SeriesStep DEF PatchStep
<1>3. IInv /\ [Next]_vars => [\A s \in Series : [Atomic(s)!Change]_(Atomic(s)!vars)]_series
  BY <1>2
<1> QED
  BY <1>1, <1>3, Invariance, PTL DEF Spec, ImplementsAtomicRecord
=============================================================================
