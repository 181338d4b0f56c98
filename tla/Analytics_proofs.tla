--------------------------- MODULE Analytics_proofs ---------------------------
(***************************************************************************)
(* For any number of clients and any bounds, on either dialect: a request  *)
(* is answered with what its snapshot held, no snapshot has two runs, and  *)
(* versions become current in the order of their numbers.                  *)
(*                                                                         *)
(* Revisions, runs and versions are only appended, so that a position in   *)
(* one of them names the same row for ever: what a run has seen of them    *)
(* stays what it saw (Held).  For the order of the versions, a client      *)
(* whose lock_version is still current began after the last of them.       *)
(*                                                                         *)
(* Two sections are about instances of other components.  Transformations: *)
(* for any definitions, values and bounds, what a run calculates has no    *)
(* part of what was stamped after its cutoff, and is what the formulas     *)
(* give for the states of its lineage.  Dashboard: what a summary compares *)
(* belongs together, although it is read in pieces.                        *)
(***************************************************************************)
EXTENDS Analytics, FiniteSetTheorems, FunctionTheorems, SequenceTheorems,
        WellFoundedInduction, TLAPS

(* The requests, by what they do. *)
EditRequest == [step : {"edit"}, seen : Definition]
VersionRequest == [step : {"version"}, seen : Definition, began : Time]
ClockRequest == [step : {"clock"}, version : Nat, as_of : Time \cup {None},
                 retry_of : 0 .. MaxRuns, clock : Time]
RunRequest == [step : {"insert", "running", "failing"}, version : Nat \ {0}, cutoff : Time,
               retry_of : 0 .. MaxRuns, visible : 0 .. MaxRevisions, past : 0 .. MaxRuns,
               wanted : SUBSET (1 .. MaxRevisions)]
AnsweredRequest == [step : {"answered"}, disposition : {"created", "completed_existing"},
                    run : Nat, version : Nat \ {0}, wanted : SUBSET (1 .. MaxRevisions)]
Request == {Idle} \cup EditRequest \cup VersionRequest \cup ClockRequest
           \cup RunRequest \cup AnsweredRequest

(* The runs that may still insert a row. *)
InFlight == {d \in Client : request[d].step \in {"clock", "insert", "running", "failing"}}

WellTyped ==
    /\ dialect \in {"postgresql", "sqlite"}
    /\ now \in Time /\ draft \in Time \cup {None}
    /\ revisions \in Seq(Time) /\ Len(revisions) <= MaxRevisions
    /\ draft # None => Len(revisions) < MaxRevisions
    /\ definition \in Definition
    /\ runs \in Seq(Run) /\ Len(runs) + Cardinality(InFlight) <= MaxRuns
    /\ request \in [Client -> Request]

(* What a request in progress may rely on. *)
Loaded(c) ==
    LET r == request[c] IN
    r.step \in {"edit", "version"} =>
      /\ r.seen.lock_version < MaxLock
      /\ r.seen.lock_version <= definition.lock_version
      /\ r.step = "version" =>
           /\ r.began <= now
           /\ r.seen.lock_version = definition.lock_version =>
                \A v \in DOMAIN definition.versions : definition.versions[v] <= r.began

Held(c) ==
    LET r == request[c] IN
    r.step \in {"insert", "running", "failing"} =>
      /\ r.visible <= Len(revisions) /\ r.past <= Len(runs)
      /\ r.wanted = Resolved(c)

IsExact(c) ==
    LET r == request[c] IN
    r.step = "answered" =>
      /\ r.run \in DOMAIN runs
      /\ runs[r.run].status = "succeeded"
      /\ runs[r.run].version = r.version /\ runs[r.run].content = r.wanted

(* The versions, by the time of their activation. *)
InOrder ==
    /\ definition.versions # <<>> /\ definition.versions[1] = 0
    /\ \A v, w \in DOMAIN definition.versions :
         v <= w => definition.versions[v] <= definition.versions[w]
    /\ \A v \in DOMAIN definition.versions : definition.versions[v] <= now

(* No snapshot has two runs. *)
RunsDiffer ==
    \A i, j \in DOMAIN runs :
      /\ runs[i].status = "succeeded" /\ runs[j].status = "succeeded"
      /\ runs[i].version = runs[j].version /\ runs[i].content = runs[j].content
      => i = j

IInv ==
    /\ WellTyped /\ InOrder /\ RunsDiffer
    /\ \A c \in Client : Loaded(c) /\ Held(c) /\ IsExact(c)

-----------------------------------------------------------------------------
LEMMA RequestKinds ==
    ASSUME NEW r \in Request
    PROVE  /\ r.step = "idle" => r = Idle
           /\ r.step = "edit" => r \in EditRequest
           /\ r.step = "version" => r \in VersionRequest
           /\ r.step = "clock" => r \in ClockRequest
           /\ r.step \in {"insert", "running", "failing"} => r \in RunRequest
           /\ r.step = "answered" => r \in AnsweredRequest
           /\ r.step \in {"idle", "edit", "version", "clock", "insert", "running", "failing",
                          "answered"}
BY DEF Request, Idle, EditRequest, VersionRequest, ClockRequest, RunRequest, AnsweredRequest

LEMMA TypedIsTypeOK == ASSUME WellTyped, AnalyticsAssumption PROVE TypeOK
<1>1. Len(runs) <= MaxRuns
  <2>1. IsFiniteSet(InFlight) /\ Cardinality(InFlight) \in Nat
    BY FS_Subset, FS_CardinalityType DEF InFlight, AnalyticsAssumption
  <2> QED
    BY <2>1 DEF WellTyped, AnalyticsAssumption
<1>2. \A c \in Client : request[c].step \in
         {"idle", "edit", "version", "clock", "insert", "running", "failing", "answered"}
  <2> TAKE c \in Client
  <2>1. request[c] \in Request
    BY DEF WellTyped
  <2> QED
    BY <2>1, RequestKinds
<1> QED
  BY <1>1, <1>2 DEF WellTyped, TypeOK

LEMMA InitIInv == ASSUME AnalyticsAssumption, Init PROVE IInv
<1>1. InFlight = {}
  BY DEF Init, InFlight, Idle
<1>2. definition \in Definition
  BY DEF Init, Definition, Time, AnalyticsAssumption
<1>3. WellTyped
  BY <1>1, <1>2, FS_EmptySet DEF Init, WellTyped, AnalyticsAssumption, Time, None, Request
<1>4. InOrder /\ RunsDiffer
  BY DEF Init, InOrder, RunsDiffer
<1>5. \A c \in Client : Loaded(c) /\ Held(c) /\ IsExact(c)
  BY DEF Init, Loaded, Held, IsExact, Idle
<1> QED
  BY <1>3, <1>4, <1>5 DEF IInv

-----------------------------------------------------------------------------
(* What any step does to the data: rows are appended, a version of the     *)
(* definition is counted, the clock does not go back.                      *)
Grown(s, t) == t = s \/ \E x : t = Append(s, x)

DefinitionStep ==
    \/ definition' = definition
    \/ definition'.lock_version = definition.lock_version + 1

DataStep ==
    /\ now' \in Time /\ now <= now'
    /\ Grown(revisions, revisions')
    /\ Grown(runs, runs')
    /\ DefinitionStep

LEMMA GrownKeeps ==
    ASSUME NEW S, NEW s \in Seq(S), NEW t, Grown(s, t)
    PROVE  /\ Len(t) \in Nat /\ Len(s) <= Len(t) /\ DOMAIN s \subseteq DOMAIN t
           /\ \A i \in DOMAIN s : t[i] = s[i]
<1>1. CASE t = s
  BY <1>1
<1>2. ASSUME NEW x, t = Append(s, x)
      PROVE  /\ Len(t) \in Nat /\ Len(s) <= Len(t) /\ DOMAIN s \subseteq DOMAIN t
             /\ \A i \in DOMAIN s : t[i] = s[i]
  <2>1. s \in Seq(S \cup {x}) /\ x \in S \cup {x}
    OBVIOUS
  <2> QED
    BY <1>2, <2>1
<1> QED
  BY <1>1, <1>2 DEF Grown

LEMMA ReplySets ==
    ASSUME WellTyped, NEW c \in Client, NEW r, request' = [request EXCEPT ![c] = r]
    PROVE  /\ request'[c] = r
           /\ \A d \in Client \ {c} : request'[d] = request[d]
BY DEF WellTyped

(* Edits of the definition, whose typing needs the bound of lock_version. *)
LEMMA DefinitionEdited ==
    ASSUME AnalyticsAssumption, IInv, NEW c \in Client,
           SetEnabled(c) \/ CreateVersion(c)
    PROVE  definition' \in Definition /\ DefinitionStep
<1> DEFINE r == request[c]
<1>1. /\ definition \in Definition /\ r \in Request /\ Loaded(c)
      /\ dialect \in {"postgresql", "sqlite"} /\ now \in Time
  BY DEF IInv, WellTyped
<1>2. r \in EditRequest \cup VersionRequest
  BY <1>1, RequestKinds DEF SetEnabled, CreateVersion
<1>3. r.seen.lock_version < MaxLock /\ r.seen.lock_version \in 1 .. MaxLock
  <2>1. r.seen.lock_version < MaxLock
    BY <1>1, <1>2 DEF Loaded, EditRequest, VersionRequest
  <2>2. r.seen \in Definition
    BY <1>2 DEF EditRequest, VersionRequest
  <2> QED
    BY <2>1, <2>2 DEF Definition
<1>4. definition.lock_version \in 1 .. MaxLock /\ definition.versions \in Seq(Time)
  BY <1>1 DEF Definition
<1>5. CASE definition' = definition
  BY <1>1, <1>5 DEF DefinitionStep
<1>6. ASSUME IsCurrent(c), NEW enabled \in BOOLEAN,
             definition' = [definition EXCEPT !.enabled = enabled, !.lock_version = Bumped]
      PROVE  definition' \in Definition /\ DefinitionStep
  <2>1. Bumped \in 1 .. MaxLock /\ Bumped = definition.lock_version + 1
    BY <1>3, <1>4, <1>6 DEF IsCurrent, Bumped, AnalyticsAssumption
  <2>2. definition'.lock_version = Bumped
    BY <1>1, <1>6 DEF Definition
  <2>3. definition' \in Definition
    BY <1>1, <1>6, <2>1 DEF Definition
  <2> QED
    BY <2>1, <2>2, <2>3 DEF DefinitionStep
<1>7. ASSUME IsCurrent(c), CreateVersion(c),
             definition' = [definition EXCEPT
               !.versions = Append(@, CreatedAt(c)), !.lock_version = Bumped]
      PROVE  definition' \in Definition /\ DefinitionStep
  <2>1. Bumped \in 1 .. MaxLock /\ Bumped = definition.lock_version + 1
    BY <1>3, <1>4, <1>7 DEF IsCurrent, Bumped, AnalyticsAssumption
  <2>2. definition'.lock_version = Bumped
    BY <1>1, <1>7 DEF Definition
  <2>3. CreatedAt(c) \in Time
    <3>1. r.step = "version"
      BY <1>7 DEF CreateVersion
    <3>2. r.began \in Time
      BY <1>2, <3>1 DEF EditRequest, VersionRequest
    <3> QED
      BY <1>1, <3>2 DEF CreatedAt
  <2>4. Append(definition.versions, CreatedAt(c)) \in Seq(Time)
    BY <1>4, <2>3
  <2>5. definition' \in Definition
    BY <1>1, <1>7, <2>1, <2>4 DEF Definition
  <2> QED
    BY <2>1, <2>2, <2>5 DEF DefinitionStep
<1> QED
  BY <1>5, <1>6, <1>7 DEF SetEnabled, CreateVersion

-----------------------------------------------------------------------------
(* The requests after a step of one of them. *)
Others(c) ==
    /\ request' \in [Client -> Request]
    /\ \A d \in Client \ {c} : request'[d] = request[d]

LEMMA Placed ==
    ASSUME WellTyped, NEW c \in Client, NEW r \in Request, request' = [request EXCEPT ![c] = r]
    PROVE  Others(c) /\ request'[c] = r
BY DEF WellTyped, Others

LEMMA Sizes ==
    ASSUME AnalyticsAssumption, IInv
    PROVE  /\ Len(runs) \in 0 .. MaxRuns /\ Len(revisions) \in 0 .. MaxRevisions
           /\ Len(definition.versions) \in Nat \ {0}
           /\ definition.versions \in Seq(Time)
           /\ now \in Time /\ request \in [Client -> Request]
<1>1. IsFiniteSet(InFlight) /\ Cardinality(InFlight) \in Nat
  BY FS_Subset, FS_CardinalityType DEF InFlight, AnalyticsAssumption
<1>2. definition.versions \in Seq(Time)
  BY DEF IInv, WellTyped, Definition
<1> QED
  BY <1>1, <1>2 DEF IInv, WellTyped, InOrder, AnalyticsAssumption

LEMMA EditPlaced ==
    ASSUME AnalyticsAssumption, IInv, NEW c \in Client, LoadDefinition(c) \/ PrepareVersion(c)
    PROVE  Others(c) /\ request'[c] \in EditRequest \cup VersionRequest /\ Loaded(c)'
<1>1. WellTyped /\ definition \in Definition /\ request[c] \in Request /\ Loaded(c) /\ InOrder
      /\ now \in Time
  BY DEF IInv, WellTyped
<1>2. CASE LoadDefinition(c)
  <2> DEFINE r == [step |-> "edit", seen |-> definition]
  <2>1. r \in EditRequest /\ r \in Request
    BY <1>1 DEF EditRequest, Request
  <2>2. Others(c) /\ request'[c] = r
    BY <1>1, <1>2, <2>1, Placed DEF LoadDefinition
  <2>3. Loaded(c)'
    BY <1>1, <1>2, <2>2 DEF LoadDefinition, Loaded, Definition
  <2> QED
    BY <2>1, <2>2, <2>3
<1>3. CASE PrepareVersion(c)
  <2> DEFINE r == [step |-> "version", seen |-> request[c].seen, began |-> now]
  <2>1. request[c] \in EditRequest /\ request[c].step = "edit"
    BY <1>1, <1>3, RequestKinds DEF PrepareVersion
  <2>2. r \in VersionRequest /\ r \in Request
    BY <1>1, <2>1 DEF EditRequest, VersionRequest, Request
  <2>3. Others(c) /\ request'[c] = r
    BY <1>1, <1>3, <2>2, Placed DEF PrepareVersion
  <2>4. Loaded(c)'
    BY <1>1, <1>3, <2>1, <2>3 DEF PrepareVersion, Loaded, InOrder, Time
  <2> QED
    BY <2>2, <2>3, <2>4
<1> QED
  BY <1>2, <1>3

LEMMA StartPlaced ==
    ASSUME AnalyticsAssumption, IInv, NEW c \in Client, Start(c)
    PROVE  Others(c) /\ request'[c] \in ClockRequest
<1>1. PICK version \in 0 .. Len(definition.versions), as_of \in Time \cup {None},
           retry_of \in 0 .. Len(runs) :
         request' = [request EXCEPT ![c] =
           [step |-> "clock", version |-> version, as_of |-> as_of, retry_of |-> retry_of,
            clock |-> now]]
  BY DEF Start
<1> DEFINE r == [step |-> "clock", version |-> version, as_of |-> as_of, retry_of |-> retry_of,
                 clock |-> now]
<1>2. r \in ClockRequest
  BY Sizes DEF ClockRequest, AnalyticsAssumption
<1>3. r \in Request /\ WellTyped
  BY <1>2 DEF Request, IInv
<1> QED
  BY <1>1, <1>2, <1>3, Placed

LEMMA SnapshotPlaced ==
    ASSUME AnalyticsAssumption, IInv, NEW c \in Client, Snapshot(c)
    PROVE  Others(c) /\ request'[c] \in {Idle} \cup RunRequest /\ Held(c)'
<1> DEFINE r == request[c]
           visible == Len(revisions)
           new == [step |-> "insert", version |-> Version(r), cutoff |-> Cutoff(r),
                   retry_of |-> r.retry_of, visible |-> visible, past |-> Len(runs),
                   wanted |-> Eligible(visible, Cutoff(r))]
<1>1. WellTyped /\ r \in ClockRequest
  <2>1. WellTyped /\ r \in Request /\ r.step = "clock"
    BY DEF IInv, WellTyped, Snapshot
  <2> QED
    BY <2>1, RequestKinds
<1>2. CASE Refuses(r)
  <2>1. request' = [request EXCEPT ![c] = Idle] /\ Idle \in Request
    BY <1>2 DEF Snapshot, Request
  <2>2. Others(c) /\ request'[c] = Idle
    BY <1>1, <2>1, Placed
  <2>3. Held(c)'
    BY <2>2 DEF Held, Idle
  <2> QED
    BY <2>2, <2>3
<1>3. CASE ~Refuses(r)
  <2>1. Cutoff(r) \in Time
    <3>1. Cutoff(r) <= r.clock
      <4>1. Cutoff(r) \in Nat /\ r.clock \in Nat
        BY <1>1 DEF Cutoff, ClockRequest, Time, None, AnalyticsAssumption
      <4> QED
        BY <1>3, <4>1 DEF Refuses
    <3> QED
      BY <1>1, <3>1 DEF Cutoff, ClockRequest, Time, None, AnalyticsAssumption
  <2>2. Version(r) \in Nat \ {0}
    BY <1>1, Sizes DEF Version, ClockRequest
  <2>3. visible \in 0 .. MaxRevisions /\ Len(runs) \in 0 .. MaxRuns
        /\ r.retry_of \in 0 .. MaxRuns
    BY <1>1, Sizes DEF ClockRequest
  <2>4. Eligible(visible, Cutoff(r)) \in SUBSET (1 .. MaxRevisions)
    BY <2>3 DEF Eligible, AnalyticsAssumption
  <2>5. new \in RunRequest
    BY <2>1, <2>2, <2>3, <2>4 DEF RunRequest
  <2>6. new \in Request
    BY <2>5 DEF Request
  <2>7. request' = [request EXCEPT ![c] = new]
    BY <1>3 DEF Snapshot
  <2>8. Others(c) /\ request'[c] = new
    BY <1>1, <2>6, <2>7, Placed
  <2>9. Held(c)'
    <3>1. revisions' = revisions /\ runs' = runs
      BY DEF Snapshot
    <3>2. new.visible = visible /\ new.past = Len(runs) /\ new.cutoff = Cutoff(r)
          /\ new.wanted = Eligible(visible, Cutoff(r))
      OBVIOUS
    <3> HIDE DEF new
    <3> QED
      BY <2>3, <2>8, <3>1, <3>2 DEF Held, Resolved, Eligible
  <2> QED
    BY <2>5, <2>8, <2>9
<1> QED
  BY <1>2, <1>3

(* The steps of a run that only move it on. *)
LEMMA MovedPlaced ==
    ASSUME AnalyticsAssumption, IInv, NEW c \in Client, InsertRun(c) \/ FailRun(c)
    PROVE  Others(c) /\ request'[c] \in RunRequest /\ Held(c)'
<1> DEFINE r == request[c]
<1>1. WellTyped /\ r \in RunRequest /\ Held(c)
  <2>1. WellTyped /\ r \in Request /\ r.step \in {"insert", "running"} /\ Held(c)
    BY DEF IInv, WellTyped, InsertRun, FailRun
  <2> QED
    BY <2>1, RequestKinds
<1>2. PICK step \in {"running", "failing"} :
        request' = [request EXCEPT ![c] = [r EXCEPT !.step = step]]
  BY DEF InsertRun, FailRun
<1>3. [r EXCEPT !.step = step] \in RunRequest
  BY <1>1 DEF RunRequest
<1>4. Others(c) /\ request'[c] = [r EXCEPT !.step = step]
  <2>1. [r EXCEPT !.step = step] \in Request
    BY <1>3 DEF Request
  <2> QED
    BY <1>1, <1>2, <2>1, Placed
<1>5. Held(c)'
  <2>1. revisions' = revisions /\ runs' = runs
    BY DEF InsertRun, FailRun
  <2>2. /\ request'[c].visible = r.visible /\ request'[c].past = r.past
        /\ request'[c].cutoff = r.cutoff /\ request'[c].wanted = r.wanted
    BY <1>1, <1>4 DEF RunRequest
  <2>3. r.step \in {"insert", "running", "failing"}
    BY <1>1 DEF RunRequest
  <2> QED
    BY <1>1, <2>1, <2>2, <2>3 DEF Held, Resolved, Eligible
<1> QED
  BY <1>3, <1>4, <1>5

LEMMA Running ==
    ASSUME IInv, NEW c \in Client, request[c].step \in {"running", "failing"}
    PROVE  /\ request[c] \in RunRequest
           /\ request[c].wanted = Resolved(c)
           /\ request[c].past <= Len(runs)
<1>1. request[c] \in Request /\ Held(c)
  BY DEF IInv, WellTyped
<1> QED
  BY <1>1, RequestKinds DEF Held

LEMMA Answered ==
    ASSUME AnalyticsAssumption, IInv, NEW c \in Client, request[c].step = "running",
           NEW disposition \in {"created", "completed_existing"}, NEW id \in Nat,
           Answer(c, disposition, id)
    PROVE  /\ Others(c) /\ request'[c] \in AnsweredRequest
           /\ request'[c].run = id /\ request'[c].version = request[c].version
           /\ request'[c].wanted = Resolved(c)
<1> DEFINE r == request[c]
           new == [step |-> "answered", disposition |-> disposition, run |-> id,
                   version |-> r.version, wanted |-> r.wanted]
<1>1. WellTyped /\ r \in RunRequest /\ r.wanted = Resolved(c)
  BY Running DEF IInv
<1>2. new \in AnsweredRequest
  BY <1>1 DEF AnsweredRequest, RunRequest
<1>3. new \in Request
  BY <1>2 DEF Request
<1>4. request' = [request EXCEPT ![c] = new]
  BY <1>1 DEF Answer, WellTyped
<1>5. Others(c) /\ request'[c] = new
  BY <1>1, <1>3, <1>4, Placed
<1> QED
  BY <1>1, <1>2, <1>5

(* The answer of a run that is found: one of the snapshot, or a winner. *)
LEMMA FoundPlaced ==
    ASSUME AnalyticsAssumption, IInv, NEW c \in Client, ReuseRun(c) \/ LoseRace(c)
    PROVE  Others(c) /\ request'[c] \in AnsweredRequest /\ IsExact(c)'
<1>1. /\ request[c].step = "running" /\ runs' = runs
      /\ \E i \in DOMAIN runs : IsReusable(runs[i], c) /\ Answer(c, "completed_existing", i)
  <2>1. CASE ReuseRun(c)
    <3>1. request[c].step = "running"
      BY <2>1 DEF ReuseRun
    <3>2. request[c].past <= Len(runs) /\ request[c].past \in Nat /\ Len(runs) \in Nat
      BY <3>1, Running, Sizes DEF RunRequest, AnalyticsAssumption
    <3>3. runs \in Seq(Run)
      BY DEF IInv, WellTyped
    <3>4. 1 .. request[c].past \subseteq DOMAIN runs
      BY <3>2, <3>3
    <3> QED
      BY <2>1, <3>1, <3>4 DEF ReuseRun
  <2>2. CASE LoseRace(c)
    <3>1. PICK i \in DOMAIN runs : IsReusable(runs[i], c)
      BY <2>2 DEF LoseRace
    <3>2. i \in Winners(c)
      BY <3>1 DEF Winners
    <3> QED
      BY <2>2, <3>2 DEF LoseRace, Winners
  <2> QED
    BY <2>1, <2>2
<1>2. PICK i \in DOMAIN runs : IsReusable(runs[i], c) /\ Answer(c, "completed_existing", i)
  BY <1>1
<1>3. i \in Nat
  BY DEF IInv, WellTyped
<1>4. /\ Others(c) /\ request'[c] \in AnsweredRequest
      /\ request'[c].run = i /\ request'[c].version = request[c].version
      /\ request'[c].wanted = Resolved(c)
  BY <1>1, <1>2, <1>3, Answered
<1> QED
  BY <1>1, <1>2, <1>4 DEF IsExact, IsReusable

LEMMA RowIsRun ==
    ASSUME AnalyticsAssumption, IInv, NEW c \in Client,
           request[c].step \in {"running", "failing"},
           NEW status \in {"succeeded", "failed"}, NEW content \in {Resolved(c), {}}
    PROVE  RowOf(c, status, content) \in Run
<1>1. request[c] \in RunRequest /\ request[c].wanted = Resolved(c) /\ now \in Time
  BY Running, Sizes
<1>2. /\ request[c].version \in Nat \ {0} /\ request[c].cutoff \in Time
      /\ request[c].retry_of \in 0 .. MaxRuns
      /\ content \in SUBSET (1 .. MaxRevisions)
  BY <1>1 DEF RunRequest
<1> QED
  BY <1>1, <1>2 DEF RowOf, Run

LEMMA CommitPlaced ==
    ASSUME AnalyticsAssumption, IInv, NEW c \in Client, CommitRun(c)
    PROVE  /\ Others(c) /\ request'[c] \in AnsweredRequest /\ IsExact(c)'
           /\ RowOf(c, "succeeded", Resolved(c)) \in Run
           /\ runs' = Append(runs, RowOf(c, "succeeded", Resolved(c)))
<1> DEFINE row == RowOf(c, "succeeded", Resolved(c))
<1>1. row \in Run /\ runs \in Seq(Run) /\ request[c].step = "running"
  BY RowIsRun DEF CommitRun, IInv, WellTyped
<1>2. runs' = Append(runs, row)
  BY DEF CommitRun
<1>3. row.status = "succeeded" /\ row.version = request[c].version /\ row.content = Resolved(c)
  BY DEF RowOf
<1> HIDE DEF row
<1>4. Len(runs') = Len(runs) + 1 /\ Len(runs) \in Nat /\ runs'[Len(runs')] = row
      /\ Len(runs') \in DOMAIN runs'
  BY <1>1, <1>2
<1>5. Answer(c, "created", Len(runs'))
  BY DEF CommitRun
<1>6. /\ Others(c) /\ request'[c] \in AnsweredRequest
      /\ request'[c].run = Len(runs') /\ request'[c].version = request[c].version
      /\ request'[c].wanted = Resolved(c)
  BY <1>1, <1>4, <1>5, Answered
<1>7. IsExact(c)'
  BY <1>3, <1>4, <1>6 DEF IsExact
<1> QED
  BY <1>1, <1>2, <1>6, <1>7 DEF row

LEMMA ReplyPlaced ==
    ASSUME IInv, NEW c \in Client, Reply(c)
    PROVE  Others(c) /\ request'[c] = Idle
<1>1. Idle \in Request /\ WellTyped
  BY DEF Request, IInv
<1> QED
  BY <1>1, Placed DEF Reply

(* The actions that end with a reply and leave nothing behind. *)
Replies(c) == SetEnabled(c) \/ CreateVersion(c) \/ PersistFailedRun(c) \/ Crash(c)

LEMMA PersistAppends ==
    ASSUME AnalyticsAssumption, IInv, NEW c \in Client, PersistFailedRun(c)
    PROVE  RowOf(c, "failed", {}) \in Run /\ runs' = Append(runs, RowOf(c, "failed", {}))
BY RowIsRun DEF PersistFailedRun

(* Every step but those of the data alone is of one client, whose request  *)
(* is of a kind and keeps what a request of that kind relies on.           *)
LEMMA HandlePlaced ==
    ASSUME AnalyticsAssumption, IInv, NEW c \in Client, Handle(c)
    PROVE  Others(c) /\ Loaded(c)' /\ Held(c)' /\ IsExact(c)'
<1>1. CASE LoadDefinition(c) \/ PrepareVersion(c)
  <2>1. Others(c) /\ Loaded(c)' /\ request'[c].step \in {"edit", "version"}
    BY <1>1, EditPlaced DEF EditRequest, VersionRequest
  <2> QED
    BY <2>1 DEF Held, IsExact
<1>2. CASE Replies(c)
  <2>1. Reply(c)
    BY <1>2 DEF Replies, SetEnabled, CreateVersion, PersistFailedRun, Crash
  <2>2. Others(c) /\ request'[c].step = "idle"
    BY <2>1, ReplyPlaced DEF Idle
  <2> QED
    BY <2>2 DEF Loaded, Held, IsExact
<1>3. CASE Start(c)
  <2>1. Others(c) /\ request'[c].step = "clock"
    BY <1>3, StartPlaced DEF ClockRequest
  <2> QED
    BY <2>1 DEF Loaded, Held, IsExact
<1>4. CASE Snapshot(c) \/ InsertRun(c) \/ FailRun(c)
  <2>1. Others(c) /\ Held(c)' /\ request'[c] \in {Idle} \cup RunRequest
    BY <1>4, SnapshotPlaced, MovedPlaced
  <2>2. request'[c].step \in {"idle", "insert", "running", "failing"}
    BY <2>1 DEF Idle, RunRequest
  <2> QED
    BY <2>1, <2>2 DEF Loaded, IsExact
<1>5. CASE ReuseRun(c) \/ LoseRace(c) \/ CommitRun(c)
  <2>1. Others(c) /\ IsExact(c)' /\ request'[c].step = "answered"
    BY <1>5, FoundPlaced, CommitPlaced DEF AnsweredRequest
  <2> QED
    BY <2>1 DEF Loaded, Held
<1> QED
  BY <1>1, <1>2, <1>3, <1>4, <1>5 DEF Handle, Replies

-----------------------------------------------------------------------------
LEMMA StepData == ASSUME AnalyticsAssumption, IInv, [Next]_vars PROVE DataStep
<1>1. now \in Time
  BY DEF IInv, WellTyped
<1>2. now' \in Time /\ now <= now'
  <2>1. now' = now \/ Tick
    BY DEF Next, vars, StampRevision, CommitRevision, Handle, LoadDefinition, SetEnabled,
           PrepareVersion, CreateVersion, Start, Snapshot, InsertRun, ReuseRun, LoseRace,
           CommitRun, FailRun, PersistFailedRun, Crash
  <2> QED
    BY <1>1, <2>1 DEF Tick, Time, AnalyticsAssumption
<1>3. Grown(revisions, revisions')
  BY DEF Next, vars, Tick, StampRevision, CommitRevision, Handle, LoadDefinition, SetEnabled,
         PrepareVersion, CreateVersion, Start, Snapshot, InsertRun, ReuseRun, LoseRace,
         CommitRun, FailRun, PersistFailedRun, Crash, Grown
<1>4. Grown(runs, runs')
  BY DEF Next, vars, Tick, StampRevision, CommitRevision, Handle, LoadDefinition, SetEnabled,
         PrepareVersion, CreateVersion, Start, Snapshot, InsertRun, ReuseRun, LoseRace,
         CommitRun, FailRun, PersistFailedRun, Crash, Grown
<1>5. DefinitionStep
  <2>1. definition' = definition \/ \E c \in Client : SetEnabled(c) \/ CreateVersion(c)
    BY DEF Next, vars, Tick, StampRevision, CommitRevision, Handle, LoadDefinition,
           PrepareVersion, Start, Snapshot, InsertRun, ReuseRun, LoseRace,
           CommitRun, FailRun, PersistFailedRun, Crash
  <2> QED
    BY <2>1, DefinitionEdited DEF DefinitionStep
<1> QED
  BY <1>2, <1>3, <1>4, <1>5 DEF DataStep

(* A request that a step leaves alone keeps what it relies on. *)
LEMMA Kept ==
    ASSUME AnalyticsAssumption, IInv, DataStep, NEW d \in Client, request'[d] = request[d]
    PROVE  Loaded(d)' /\ Held(d)' /\ IsExact(d)'
<1> DEFINE r == request[d]
<1>1. /\ r \in Request /\ Loaded(d) /\ Held(d) /\ IsExact(d)
      /\ revisions \in Seq(Time) /\ runs \in Seq(Run) /\ now \in Time
      /\ definition \in Definition
  BY DEF IInv, WellTyped
<1>2. /\ Len(runs') \in Nat /\ Len(runs) <= Len(runs') /\ DOMAIN runs \subseteq DOMAIN runs'
      /\ \A i \in DOMAIN runs : runs'[i] = runs[i]
  BY <1>1, GrownKeeps DEF DataStep
<1>3. /\ Len(revisions') \in Nat /\ Len(revisions) <= Len(revisions')
      /\ \A i \in DOMAIN revisions : revisions'[i] = revisions[i]
  BY <1>1, GrownKeeps DEF DataStep
<1>4. Loaded(d)'
  <2>1. CASE r.step \in {"edit", "version"}
    <3>1. r.seen \in Definition
      BY <1>1, <2>1, RequestKinds DEF EditRequest, VersionRequest
    <3>2. r.seen.lock_version \in Nat /\ definition.lock_version \in Nat
      BY <1>1, <3>1 DEF Definition, AnalyticsAssumption
    <3>3. /\ r.seen.lock_version <= definition'.lock_version
          /\ r.seen.lock_version = definition'.lock_version => definition' = definition
      BY <1>1, <2>1, <3>2 DEF DataStep, DefinitionStep, Loaded
    <3>4. ASSUME r.step = "version" PROVE r.began <= now'
      <4>1. r.began \in Nat /\ now \in Nat /\ now' \in Nat
        BY <1>1, <3>4, RequestKinds DEF VersionRequest, Time, DataStep, AnalyticsAssumption
      <4> QED
        BY <1>1, <3>4, <4>1 DEF Loaded, DataStep
    <3>5. Loaded(d)
      BY <1>1
    <3> QED
      BY <2>1, <3>3, <3>4, <3>5 DEF Loaded
  <2>2. CASE r.step \notin {"edit", "version"}
    BY <2>2 DEF Loaded
  <2> QED
    BY <2>1, <2>2
<1>5. Held(d)'
  <2>1. CASE r.step \in {"insert", "running", "failing"}
    <3>1. r.visible \in Nat /\ r.past \in Nat
      BY <1>1, <2>1, RequestKinds DEF RunRequest, AnalyticsAssumption
    <3>2. /\ r.visible <= Len(revisions) /\ r.past <= Len(runs)
          /\ r.wanted = {i \in 1 .. r.visible : revisions[i] <= r.cutoff}
      BY <1>1, <2>1 DEF Held, Resolved, Eligible
    <3>3. Len(revisions) \in Nat /\ Len(runs) \in Nat /\ DOMAIN revisions = 1 .. Len(revisions)
      BY <1>1
    <3>4. \A i \in 1 .. r.visible : revisions'[i] = revisions[i]
      BY <1>3, <3>1, <3>2, <3>3
    <3>5. r.visible <= Len(revisions') /\ r.past <= Len(runs')
      BY <1>2, <1>3, <3>1, <3>2, <3>3
    <3>6. r.wanted = {i \in 1 .. r.visible : revisions'[i] <= r.cutoff}
      BY <3>2, <3>4
    <3> QED
      BY <3>5, <3>6 DEF Held, Resolved, Eligible
  <2>2. CASE r.step \notin {"insert", "running", "failing"}
    BY <2>2 DEF Held
  <2> QED
    BY <2>1, <2>2
<1>6. IsExact(d)'
  BY <1>1, <1>2 DEF IsExact
<1> QED
  BY <1>4, <1>5, <1>6

LEMMA StepRequests ==
    ASSUME AnalyticsAssumption, IInv, [Next]_vars
    PROVE  /\ request' \in [Client -> Request]
           /\ \A c \in Client : Loaded(c)' /\ Held(c)' /\ IsExact(c)'
<1>1. DataStep
  BY StepData
<1>2. CASE \E c \in Client : Handle(c)
  <2>1. PICK c \in Client : Handle(c)
    BY <1>2
  <2>2. Others(c) /\ Loaded(c)' /\ Held(c)' /\ IsExact(c)'
    BY <2>1, HandlePlaced
  <2>3. \A d \in Client \ {c} : Loaded(d)' /\ Held(d)' /\ IsExact(d)'
    BY <1>1, <2>2, Kept DEF Others
  <2> QED
    BY <2>2, <2>3 DEF Others
<1>3. CASE request' = request
  BY <1>1, <1>3, Kept DEF IInv, WellTyped
<1> QED
  BY <1>2, <1>3 DEF Next, vars, Tick, StampRevision, CommitRevision

(* A row that a run appends has a place: its request held one. *)
LEMMA StepPlaces ==
    ASSUME AnalyticsAssumption, IInv, [Next]_vars
    PROVE  runs' \in Seq(Run) /\ Len(runs') + Cardinality(InFlight') <= MaxRuns
<1>1. /\ runs \in Seq(Run) /\ Len(runs) + Cardinality(InFlight) <= MaxRuns
      /\ request \in [Client -> Request] /\ Len(runs) \in Nat
      /\ IsFiniteSet(Client) /\ MaxRuns \in Nat
  BY DEF IInv, WellTyped, AnalyticsAssumption
<1>2. IsFiniteSet(InFlight) /\ Cardinality(InFlight) \in Nat
  BY <1>1, FS_Subset, FS_CardinalityType DEF InFlight
<1>3. ASSUME runs' = runs, InFlight' \subseteq InFlight
      PROVE  runs' \in Seq(Run) /\ Len(runs') + Cardinality(InFlight') <= MaxRuns
  <2>1. Cardinality(InFlight') <= Cardinality(InFlight) /\ Cardinality(InFlight') \in Nat
    BY <1>2, <1>3, FS_Subset, FS_CardinalityType
  <2> QED
    BY <1>1, <1>2, <1>3, <2>1
<1>4. ASSUME NEW row \in Run, runs' = Append(runs, row), NEW c \in InFlight,
             InFlight' = InFlight \ {c}
      PROVE  runs' \in Seq(Run) /\ Len(runs') + Cardinality(InFlight') <= MaxRuns
  <2>1. Cardinality(InFlight') = Cardinality(InFlight) - 1
    BY <1>2, <1>4, FS_RemoveElement
  <2>2. runs' \in Seq(Run) /\ Len(runs') = Len(runs) + 1
    BY <1>1, <1>4
  <2> QED
    BY <1>1, <1>2, <2>1, <2>2
<1>5. CASE \E c \in Client : Start(c)
  <2>1. PICK c \in Client : Start(c)
    BY <1>5
  <2>2. Others(c) /\ request'[c].step = "clock" /\ runs' = runs
    BY <2>1, StartPlaced DEF ClockRequest, Start
  <2>3. InFlight' = InFlight \cup {c}
    BY <2>2 DEF InFlight, Others
  <2>4. Len(runs) + Cardinality(InFlight) < MaxRuns
    BY <2>1 DEF Start, InFlight
  <2>5. Cardinality(InFlight') <= Cardinality(InFlight) + 1 /\ Cardinality(InFlight') \in Nat
    <3>1. IsFiniteSet(InFlight \cup {c})
      BY <1>2, FS_AddElement
    <3>2. Cardinality(InFlight \cup {c}) =
            IF c \in InFlight THEN Cardinality(InFlight) ELSE Cardinality(InFlight) + 1
      BY <1>2, FS_AddElement
    <3>3. Cardinality(InFlight \cup {c}) \in Nat
      BY <3>1, FS_CardinalityType
    <3> QED
      BY <1>2, <2>3, <3>2, <3>3
  <2> QED
    BY <1>1, <1>2, <2>2, <2>4, <2>5
<1>6. CASE \E c \in Client : CommitRun(c)
  <2>1. PICK c \in Client : CommitRun(c)
    BY <1>6
  <2>2. /\ Others(c) /\ request'[c].step = "answered" /\ request[c].step = "running"
        /\ RowOf(c, "succeeded", Resolved(c)) \in Run
        /\ runs' = Append(runs, RowOf(c, "succeeded", Resolved(c)))
    BY <2>1, CommitPlaced DEF AnsweredRequest, CommitRun
  <2>3. c \in InFlight /\ InFlight' = InFlight \ {c}
    BY <2>2 DEF InFlight, Others
  <2> QED
    BY <1>4, <2>2, <2>3
<1>7. CASE \E c \in Client : PersistFailedRun(c)
  <2>1. PICK c \in Client : PersistFailedRun(c)
    BY <1>7
  <2>2. Others(c) /\ request'[c].step = "idle" /\ request[c].step = "failing"
    BY <2>1, ReplyPlaced DEF PersistFailedRun, Idle
  <2>3. c \in InFlight /\ InFlight' = InFlight \ {c}
    BY <2>2 DEF InFlight, Others
  <2> QED
    BY <1>4, <2>1, <2>3, PersistAppends
<1>8. ASSUME NEW c \in Client,
             \/ LoadDefinition(c) \/ PrepareVersion(c) \/ SetEnabled(c) \/ CreateVersion(c)
             \/ Snapshot(c) \/ InsertRun(c) \/ FailRun(c) \/ ReuseRun(c) \/ LoseRace(c)
             \/ Crash(c)
      PROVE  runs' = runs /\ InFlight' \subseteq InFlight
  <2>1. runs' = runs
    BY <1>8 DEF LoadDefinition, PrepareVersion, SetEnabled, CreateVersion, Snapshot, InsertRun,
                FailRun, ReuseRun, LoseRace, Crash
  <2>2. CASE Snapshot(c) \/ InsertRun(c) \/ FailRun(c)
    <3>1. Others(c) /\ request[c].step \in {"clock", "insert", "running"}
      BY <2>2, SnapshotPlaced, MovedPlaced DEF Snapshot, InsertRun, FailRun
    <3> QED
      BY <2>1, <3>1 DEF Others, InFlight
  <2>3. CASE LoadDefinition(c) \/ PrepareVersion(c)
    <3>1. Others(c) /\ request'[c].step \in {"edit", "version"}
      BY <2>3, EditPlaced DEF EditRequest, VersionRequest
    <3> QED
      BY <2>1, <3>1 DEF Others, InFlight
  <2>4. CASE ReuseRun(c) \/ LoseRace(c)
    <3>1. Others(c) /\ request'[c].step = "answered"
      BY <2>4, FoundPlaced DEF AnsweredRequest
    <3> QED
      BY <2>1, <3>1 DEF Others, InFlight
  <2>5. CASE SetEnabled(c) \/ CreateVersion(c) \/ Crash(c)
    <3>1. Reply(c)
      BY <2>5 DEF SetEnabled, CreateVersion, Crash
    <3>2. Others(c) /\ request'[c].step = "idle"
      BY <3>1, ReplyPlaced DEF Idle
    <3> QED
      BY <2>1, <3>2 DEF Others, InFlight
  <2> QED
    BY <1>8, <2>2, <2>3, <2>4, <2>5
<1>9. CASE UNCHANGED <<runs, request>>
  <2>1. runs' = runs /\ InFlight' \subseteq InFlight
    BY <1>9 DEF InFlight
  <2> QED
    BY <1>3, <2>1
<1>10. ASSUME NEW c \in Client, Handle(c)
       PROVE  runs' \in Seq(Run) /\ Len(runs') + Cardinality(InFlight') <= MaxRuns
  <2> HIDE DEF InFlight
  <2> QED
    BY <1>3, <1>5, <1>6, <1>7, <1>8, <1>10 DEF Handle
<1> QED
  BY <1>9, <1>10 DEF Next, vars, Tick, StampRevision, CommitRevision

LEMMA StepTyped == ASSUME AnalyticsAssumption, IInv, [Next]_vars PROVE WellTyped'
<1>1. /\ dialect \in {"postgresql", "sqlite"}
      /\ now \in Time /\ draft \in Time \cup {None}
      /\ revisions \in Seq(Time) /\ Len(revisions) <= MaxRevisions
      /\ draft # None => Len(revisions) < MaxRevisions
      /\ definition \in Definition
      /\ MaxRevisions \in Nat
  BY DEF IInv, WellTyped, AnalyticsAssumption
<1>2. dialect' = dialect /\ now' \in Time
  <2>1. now' \in Time
    BY StepData DEF DataStep
  <2>2. dialect' = dialect
    BY DEF Next, vars, Tick, StampRevision, CommitRevision, Handle, LoadDefinition, SetEnabled,
           PrepareVersion, CreateVersion, Start, Snapshot, InsertRun, ReuseRun, LoseRace,
           CommitRun, FailRun, PersistFailedRun, Crash
  <2> QED
    BY <2>1, <2>2
<1>3. /\ draft' \in Time \cup {None}
      /\ revisions' \in Seq(Time) /\ Len(revisions') <= MaxRevisions
      /\ draft' # None => Len(revisions') < MaxRevisions
  <2>1. CASE StampRevision
    BY <1>1, <2>1 DEF StampRevision
  <2>2. CASE CommitRevision
    <3>1. draft \in Time /\ revisions' = Append(revisions, draft) /\ draft' = None
      BY <1>1, <2>2 DEF CommitRevision
    <3> QED
      BY <1>1, <2>2, <3>1 DEF CommitRevision
  <2>3. CASE draft' = draft /\ revisions' = revisions
    BY <1>1, <2>3
  <2> QED
    BY <2>1, <2>2, <2>3
    DEF Next, vars, Tick, Handle, LoadDefinition, SetEnabled,
        PrepareVersion, CreateVersion, Start, Snapshot, InsertRun, ReuseRun, LoseRace,
        CommitRun, FailRun, PersistFailedRun, Crash
<1>4. definition' \in Definition
  <2>1. definition' = definition \/ \E c \in Client : SetEnabled(c) \/ CreateVersion(c)
    BY DEF Next, vars, Tick, StampRevision, CommitRevision, Handle, LoadDefinition,
           PrepareVersion, Start, Snapshot, InsertRun, ReuseRun, LoseRace,
           CommitRun, FailRun, PersistFailedRun, Crash
  <2> QED
    BY <1>1, <2>1, DefinitionEdited
<1> QED
  BY <1>1, <1>2, <1>3, <1>4, StepPlaces, StepRequests DEF WellTyped

(* A new version is the latest: what a client that is still current has    *)
(* seen includes every version, and it began after it had seen them.       *)
LEMMA StepInOrder == ASSUME AnalyticsAssumption, IInv, [Next]_vars PROVE InOrder'
<1>1. /\ now \in Nat /\ now' \in Nat /\ now <= now'
      /\ definition \in Definition /\ definition.versions \in Seq(Nat)
      /\ Len(definition.versions) \in Nat
      /\ dialect \in {"postgresql", "sqlite"} /\ InOrder
  BY StepData DEF DataStep, IInv, WellTyped, Definition, Time, AnalyticsAssumption
<1>2. CASE definition'.versions = definition.versions
  <2>1. \A v \in DOMAIN definition.versions : definition.versions[v] \in Nat
    BY <1>1
  <2> QED
    BY <1>1, <1>2, <2>1 DEF InOrder
<1>3. ASSUME NEW c \in Client, CreateVersion(c), IsCurrent(c),
             definition' = [definition EXCEPT
               !.versions = Append(@, CreatedAt(c)), !.lock_version = Bumped]
      PROVE  InOrder'
  <2> DEFINE r == request[c]
             stamp == CreatedAt(c)
             before == definition.versions
  <2>1. r \in VersionRequest /\ Loaded(c)
    BY <1>3, RequestKinds DEF CreateVersion, IInv, WellTyped
  <2>2. r.step = "version" /\ r.began \in Nat /\ r.began <= now
    BY <2>1 DEF VersionRequest, Time, Loaded, AnalyticsAssumption
  <2>3. stamp \in Nat /\ stamp <= now
    BY <1>1, <2>2 DEF CreatedAt
  <2>4. \A v \in DOMAIN before : before[v] <= stamp
    BY <1>1, <1>3, <2>1, <2>2 DEF CreatedAt, Loaded, IsCurrent, InOrder
  <2>5. definition'.versions = Append(before, stamp)
    BY <1>1, <1>3 DEF Definition
  <2>6. before # <<>> /\ before[1] = 0
        /\ \A v, w \in DOMAIN before : v <= w => before[v] <= before[w]
    BY <1>1 DEF InOrder
  <2> HIDE DEF stamp, before
  <2>7. before \in Seq(Nat)
    BY <1>1 DEF before
  <2>8. /\ DOMAIN definition'.versions = 1 .. (Len(before) + 1)
        /\ \A v \in 1 .. Len(before) : definition'.versions[v] = before[v]
        /\ definition'.versions[Len(before) + 1] = stamp
        /\ DOMAIN before = 1 .. Len(before) /\ Len(before) \in Nat \ {0}
    BY <2>3, <2>5, <2>6, <2>7
  <2>9. definition'.versions # <<>> /\ definition'.versions[1] = 0
    BY <2>6, <2>8
  <2>10. \A v \in DOMAIN definition'.versions : definition'.versions[v] <= stamp
    BY <2>3, <2>4, <2>8
  <2>11. \A v, w \in DOMAIN definition'.versions :
           v <= w => definition'.versions[v] <= definition'.versions[w]
    <3> TAKE v, w \in DOMAIN definition'.versions
    <3> HAVE v <= w
    <3>1. CASE w = Len(before) + 1
      BY <2>8, <2>10, <3>1
    <3>2. CASE w \in 1 .. Len(before)
      <4>1. v \in 1 .. Len(before)
        BY <2>8, <3>2
      <4> QED
        BY <2>6, <2>8, <3>2, <4>1
    <3> QED
      BY <2>8, <3>1, <3>2
  <2>12. \A v \in DOMAIN definition'.versions : definition'.versions[v] <= now'
    <3>1. \A v \in DOMAIN definition'.versions : definition'.versions[v] \in Nat
      BY <2>3, <2>7, <2>8
    <3> QED
      BY <1>1, <2>3, <2>10, <3>1
  <2> QED
    BY <2>9, <2>11, <2>12 DEF InOrder
<1>4. \/ definition'.versions = definition.versions
      \/ \E c \in Client :
           /\ CreateVersion(c) /\ IsCurrent(c)
           /\ definition' = [definition EXCEPT
                !.versions = Append(@, CreatedAt(c)), !.lock_version = Bumped]
  <2>1. ASSUME NEW c \in Client, SetEnabled(c)
        PROVE  definition'.versions = definition.versions
    BY <1>1, <2>1 DEF SetEnabled, Definition
  <2>2. ASSUME NEW c \in Client, CreateVersion(c)
        PROVE  \/ definition' = definition
               \/ /\ IsCurrent(c)
                  /\ definition' = [definition EXCEPT
                       !.versions = Append(@, CreatedAt(c)), !.lock_version = Bumped]
    BY <2>2 DEF CreateVersion
  <2>3. definition' = definition \/ \E c \in Client : SetEnabled(c) \/ CreateVersion(c)
    BY DEF Next, vars, Tick, StampRevision, CommitRevision, Handle, LoadDefinition,
           PrepareVersion, Start, Snapshot, InsertRun, ReuseRun, LoseRace,
           CommitRun, FailRun, PersistFailedRun, Crash
  <2> QED
    BY <2>1, <2>2, <2>3
<1> QED
  BY <1>2, <1>3, <1>4

(* A run commits a success only if there is none of the same fingerprint,  *)
(* in its snapshot or committed since.                                     *)
LEMMA StepRunsDiffer == ASSUME AnalyticsAssumption, IInv, [Next]_vars PROVE RunsDiffer'
<1>1. runs \in Seq(Run) /\ RunsDiffer
  BY DEF IInv, WellTyped
<1>2. CASE runs' = runs
  BY <1>1, <1>2 DEF RunsDiffer
<1>3. ASSUME NEW row \in Run, runs' = Append(runs, row),
             row.status = "succeeded" => \A i \in DOMAIN runs :
               ~(/\ runs[i].status = "succeeded"
                 /\ runs[i].version = row.version /\ runs[i].content = row.content)
      PROVE  RunsDiffer'
  <2>1. /\ DOMAIN runs = 1 .. Len(runs) /\ DOMAIN runs' = 1 .. (Len(runs) + 1)
        /\ \A i \in 1 .. Len(runs) : runs'[i] = runs[i]
        /\ runs'[Len(runs) + 1] = row /\ Len(runs) \in Nat
    BY <1>1, <1>3
  <2> SUFFICES ASSUME NEW i \in DOMAIN runs', NEW j \in DOMAIN runs',
                      runs'[i].status = "succeeded", runs'[j].status = "succeeded",
                      runs'[i].version = runs'[j].version,
                      runs'[i].content = runs'[j].content
               PROVE  i = j
    BY DEF RunsDiffer
  <2>2. CASE i \in 1 .. Len(runs) /\ j \in 1 .. Len(runs)
    BY <1>1, <2>1, <2>2 DEF RunsDiffer
  <2>3. CASE i = Len(runs) + 1 /\ j \in 1 .. Len(runs)
    BY <1>3, <2>1, <2>3
  <2>4. CASE i \in 1 .. Len(runs) /\ j = Len(runs) + 1
    BY <1>3, <2>1, <2>4
  <2> QED
    BY <2>1, <2>2, <2>3, <2>4
<1>4. ASSUME NEW c \in Client, CommitRun(c)
      PROVE  RunsDiffer'
  <2> DEFINE row == RowOf(c, "succeeded", Resolved(c))
  <2>1. row \in Run /\ runs' = Append(runs, row)
    BY <1>4, CommitPlaced
  <2>2. \A i \in DOMAIN runs :
          ~(/\ runs[i].status = "succeeded"
            /\ runs[i].version = row.version /\ runs[i].content = row.content)
    BY <1>4 DEF CommitRun, IsReusable, RowOf
  <2> HIDE DEF row
  <2> QED
    BY <1>3, <2>1, <2>2
<1>5. ASSUME NEW c \in Client, PersistFailedRun(c)
      PROVE  RunsDiffer'
  <2> DEFINE row == RowOf(c, "failed", {})
  <2>1. row \in Run /\ runs' = Append(runs, row)
    BY <1>5, PersistAppends
  <2>2. row.status = "failed"
    BY DEF RowOf
  <2> HIDE DEF row
  <2> QED
    BY <1>3, <2>1, <2>2
<1>6. runs' = runs \/ \E c \in Client : CommitRun(c) \/ PersistFailedRun(c)
  BY DEF Next, vars, Tick, StampRevision, CommitRevision, Handle, LoadDefinition, SetEnabled,
         PrepareVersion, CreateVersion, Start, Snapshot, InsertRun, ReuseRun, LoseRace,
         FailRun, Crash
<1> QED
  BY <1>2, <1>4, <1>5, <1>6

LEMMA Inductive == ASSUME AnalyticsAssumption, IInv, [Next]_vars PROVE IInv'
BY StepTyped, StepInOrder, StepRunsDiffer, StepRequests DEF IInv

-----------------------------------------------------------------------------
LEMMA ExactAnswers == ASSUME IInv PROVE AnswersAreExact
<1>1. \A c \in Client : request[c].step = "answered" =>
        /\ request[c].disposition # "conflict"
        /\ LET run == runs[request[c].run] IN
             /\ run.status = "succeeded"
             /\ run.version = request[c].version
             /\ run.content = request[c].wanted
  <2> SUFFICES ASSUME NEW c \in Client, request[c].step = "answered"
               PROVE  /\ request[c].disposition # "conflict"
                      /\ LET run == runs[request[c].run] IN
                           /\ run.status = "succeeded"
                           /\ run.version = request[c].version
                           /\ run.content = request[c].wanted
    OBVIOUS
  <2>1. request[c] \in AnsweredRequest /\ IsExact(c)
    BY RequestKinds DEF IInv, WellTyped
  <2> QED
    BY <2>1 DEF AnsweredRequest, IsExact
<1> QED
  BY <1>1 DEF IInv, RunsDiffer, AnswersAreExact

(* A finite set of numbers that has one has a greatest. *)
LEMMA Greatest ==
    ASSUME NEW n \in Nat, NEW V, V # {}, V \subseteq 0 .. n
    PROVE  Max(V) \in V /\ \A v \in V : v <= Max(V)
<1> DEFINE Above == {n - v : v \in V}
<1>1. Above # {} /\ Above \subseteq Nat
  <2>1. PICK v \in V : TRUE
    OBVIOUS
  <2>2. n - v \in Above
    OBVIOUS
  <2>3. \A a \in Above : a \in Nat
    OBVIOUS
  <2> QED
    BY <2>2, <2>3
<1>2. PICK a \in Above : \A b \in Above : ~(<<b, a>> \in OpToRel(<, Nat))
  <2>1. IsWellFoundedOn(OpToRel(<, Nat), Nat)
    BY NatLessThanWellFounded
  <2> HIDE DEF Above
  <2> QED
    BY <1>1, <2>1, WFMin
<1>3. PICK m \in V : a = n - m
  OBVIOUS
<1>4. \A v \in V : m >= v
  <2> TAKE v \in V
  <2>1. ~(n - v < a) /\ n - v \in Nat /\ a \in Nat
    BY <1>1, <1>2 DEF OpToRel
  <2> QED
    BY <1>3, <2>1
<1>5. \E x \in V : \A y \in V : x >= y
  BY <1>4
<1>6. Max(V) \in V /\ \A y \in V : Max(V) >= y
  BY <1>5 DEF Max
<1> QED
  BY <1>6

LEMMA OrderedVersions ==
    ASSUME AnalyticsAssumption, IInv
    PROVE  VersionsActivateInOrder
<1> SUFFICES ASSUME NEW time \in Time, NEW v \in 1 .. VersionAsOf(time)
             PROVE  definition.versions[v] <= time
  BY DEF VersionsActivateInOrder
<1> DEFINE versions == definition.versions
           V == {w \in DOMAIN versions : versions[w] <= time}
<1>1. /\ versions \in Seq(Nat) /\ Len(versions) \in Nat \ {0}
      /\ DOMAIN versions = 1 .. Len(versions) /\ time \in Nat
  BY Sizes DEF Time, AnalyticsAssumption
<1>2. InOrder
  BY DEF IInv
<1>3. 1 \in V
  BY <1>1, <1>2 DEF InOrder
<1>4. VersionAsOf(time) \in V
  <2>1. VersionAsOf(time) = Max(V)
    BY DEF VersionAsOf
  <2>2. V # {} /\ V \subseteq 0 .. Len(versions)
    BY <1>1, <1>3
  <2> HIDE DEF V, versions
  <2> QED
    BY <1>1, <2>1, <2>2, Greatest
<1>5. v \in DOMAIN versions /\ VersionAsOf(time) \in DOMAIN versions /\ v <= VersionAsOf(time)
  BY <1>1, <1>4
<1>6. versions[v] <= versions[VersionAsOf(time)] /\ versions[VersionAsOf(time)] <= time
  BY <1>2, <1>4, <1>5 DEF InOrder
<1>7. versions[v] \in Nat /\ versions[VersionAsOf(time)] \in Nat
  BY <1>1, <1>5
<1> QED
  BY <1>1, <1>6, <1>7

-----------------------------------------------------------------------------
(* The definition, its versions, the runs and the requests have their      *)
(* types, and the bounds of the model hold.                                *)
THEOREM TypeCorrect ==
    ASSUME AnalyticsAssumption
    PROVE  Spec => []TypeOK
<1>1. Init => IInv
  BY InitIInv
<1>2. IInv /\ [Next]_vars => IInv'
  BY Inductive
<1>3. IInv => TypeOK
  BY TypedIsTypeOK DEF IInv
<1> QED
  BY <1>1, <1>2, <1>3, PTL DEF Spec

(* Whatever revisions, edits and other runs commit while a run is          *)
(* calculated, its request is answered with a run of the version that was  *)
(* asked for, calculated from the revisions of its snapshot; no snapshot   *)
(* has two runs and a lost race is no error.                               *)
THEOREM AnswersAlways ==
    ASSUME AnalyticsAssumption
    PROVE  Spec => []AnswersAreExact
<1>1. Init => IInv
  BY InitIInv
<1>2. IInv /\ [Next]_vars => IInv'
  BY Inductive
<1>3. IInv => AnswersAreExact
  BY ExactAnswers
<1> QED
  BY <1>1, <1>2, <1>3, PTL DEF Spec

(* The version of a past moment has every earlier version before it, on    *)
(* PostgreSQL too, where a version bears the time its transaction began.   *)
THEOREM VersionsAlways ==
    ASSUME AnalyticsAssumption
    PROVE  Spec => []VersionsActivateInOrder
<1>1. Init => IInv
  BY InitIInv
<1>2. IInv /\ [Next]_vars => IInv'
  BY Inductive
<1>3. IInv => VersionsActivateInOrder
  BY OrderedVersions
<1> QED
  BY <1>1, <1>2, <1>3, PTL DEF Spec

-----------------------------------------------------------------------------
(* What one run calculates, for definitions and sources of its own.        *)
CONSTANTS Definitions, Value, BaseValue, MaxOutput
VARIABLES clock, asked, store, open, commits, last

T == INSTANCE Transformations WITH version <- asked, run <- last

(* The dates of a window are a matter of the definition, and so is what    *)
(* the evaluators make of a window.                                        *)
DatesOf(def, date) ==
    LET back[n \in 1 .. def.window] ==
            IF n = 1 THEN <<date>>
            ELSE IF back[n - 1] = <<>> THEN <<>>
            ELSE LET anchor == T!PreviousPeriodAnchor(back[n - 1][1], def.frequency)
                 IN  IF anchor = T!NoDate THEN <<>> ELSE <<anchor>> \o back[n - 1]
    IN  back[def.window]

LEMMA SameDates ==
    ASSUME UNCHANGED asked, NEW date
    PROVE  T!RequiredTimestamps(date)' = T!RequiredTimestamps(date)
<1>1. T!RollingDates(date) = DatesOf(asked, date)
  BY DEF T!RollingDates, DatesOf
<1>2. T!RollingDates(date)' = DatesOf(asked', date)
  BY DEF T!RollingDates, DatesOf
<1>3. T!RollingDates(date)' = T!RollingDates(date)
  BY <1>1, <1>2
<1> QED
  BY <1>3 DEF T!RequiredTimestamps

LEMMA SameEvaluation ==
    ASSUME UNCHANGED asked, NEW windows
    PROVE  T!Evaluate(windows)' = T!Evaluate(windows)
BY DEF T!Evaluate, T!OfBinary, T!OfUnary, T!OfRebase

(* Max of the component is that of Greatest. *)
LEMMA GreatestState ==
    ASSUME NEW n \in Nat, NEW S, S # {}, S \subseteq 1 .. n
    PROVE  T!Max(S) \in 1 .. n
<1>1. T!Max(S) = Max(S)
  BY DEF T!Max, Max
<1>2. S \subseteq 0 .. n
  OBVIOUS
<1> QED
  BY <1>1, <1>2, Greatest

-----------------------------------------------------------------------------
(* TypeOK, and that what is open still has its place among the commits. *)
CalculationTyped ==
    /\ clock \in 0 .. MaxTime /\ asked \in Definitions
    /\ store \in [T!Slots -> Seq(T!State)]
    /\ open \in {<<>>} \cup [slot : T!Slots, state : T!State]
    /\ commits \in 0 .. MaxRevisions /\ (open # <<>> => commits < MaxRevisions)
    /\ last.status \in {"none", "succeeded", "failed"}

(* What is not committed yet is later than a settled cutoff. *)
Settled ==
    last.status # "none" /\ last.settled =>
      /\ last.cutoff \in Nat /\ last.cutoff < clock
      /\ open = <<>> \/ open.state.stamp > last.cutoff

(* A state that is later than the cutoff is not eligible, and moves none. *)
LEMMA LaterState ==
    ASSUME NEW old \in Seq(T!State), NEW state \in T!State, NEW cutoff \in Nat,
           state.stamp > cutoff
    PROVE  LET n == T!InForce(old, cutoff) IN
           /\ T!InForce(Append(old, state), cutoff) = n
           /\ n # 0 => Append(old, state)[n] = old[n]
<1> DEFINE new == Append(old, state)
           S == {n \in DOMAIN old : old[n].stamp <= cutoff}
<1>1. /\ Len(old) \in Nat /\ DOMAIN old = 1 .. Len(old) /\ DOMAIN new = 1 .. (Len(old) + 1)
      /\ \A n \in 1 .. Len(old) : new[n] = old[n] /\ old[n] \in T!State
      /\ new[Len(old) + 1] = state /\ new # <<>>
  OBVIOUS
<1> HIDE DEF new
<1>2. state.stamp \in Nat /\ ~(state.stamp <= cutoff) /\ \A x \in T!State : x.stamp \in Nat
  BY DEF T!State
<1>3. {n \in DOMAIN new : new[n].stamp <= cutoff} = S
  BY <1>1, <1>2
<1>4. CASE old = <<>>
  <2>1. Len(old) = 0
    BY <1>4
  <2>2. new[1].stamp > cutoff
    BY <1>1, <2>1
  <2> QED
    BY <1>1, <1>4, <2>2 DEF T!InForce, new
<1>5. CASE old # <<>>
  <2>1. 1 \in 1 .. Len(old) /\ new[1] = old[1]
    BY <1>1, <1>5, EmptySeq
  <2>2. S \in SUBSET (1 .. Len(old))
    BY <1>1
  <2>3. CASE old[1].stamp > cutoff
    BY <1>1, <1>5, <2>1, <2>3 DEF T!InForce, new
  <2>4. CASE ~(old[1].stamp > cutoff)
    <3>1. 1 \in S
      BY <1>1, <1>2, <2>1, <2>4
    <3> HIDE DEF S
    <3>2. T!Max(S) \in 1 .. Len(old)
      BY <1>1, <2>2, <3>1, GreatestState
    <3>3. T!InForce(old, cutoff) = T!Max(S) /\ T!InForce(new, cutoff) = T!Max(S)
      BY <1>1, <1>3, <1>5, <2>1, <2>4 DEF T!InForce, S
    <3> QED
      BY <1>1, <3>2, <3>3 DEF new
  <2> QED
    BY <2>3, <2>4
<1> QED
  BY <1>4, <1>5

LEMMA EligibleStays ==
    ASSUME CalculationTyped, UNCHANGED asked,
           NEW slot \in T!Slots, NEW state \in T!State,
           store' = [store EXCEPT ![slot] = Append(@, state)],
           NEW cutoff \in Nat, state.stamp > cutoff,
           NEW input, NEW date
    PROVE  LET n == T!EligibleVersion(input, date, cutoff) IN
           /\ T!EligibleVersion(input, date, cutoff)' = n
           /\ n # 0 => store'[<<input, date>>][n] = store[<<input, date>>][n]
<1> DEFINE here == <<input, date>>
<1>1. T!Slots' = T!Slots
  BY DEF T!Slots
<1>2. /\ T!EligibleVersion(input, date, cutoff)'
           = IF here \in T!Slots THEN T!InForce(store'[here], cutoff) ELSE 0
      /\ T!EligibleVersion(input, date, cutoff)
           = IF here \in T!Slots THEN T!InForce(store[here], cutoff) ELSE 0
  BY <1>1 DEF T!EligibleVersion
<1>4. CASE here \notin T!Slots
  BY <1>2, <1>4 DEF here
<1>5. CASE here \in T!Slots
  <2>1. /\ store[here] \in Seq(T!State)
        /\ store'[here] = store[here] \/ store'[here] = Append(store[here], state)
    BY <1>5 DEF CalculationTyped
  <2>2. /\ T!InForce(store'[here], cutoff) = T!InForce(store[here], cutoff)
        /\ T!InForce(store[here], cutoff) # 0 =>
             store'[here][T!InForce(store[here], cutoff)]
               = store[here][T!InForce(store[here], cutoff)]
    BY <2>1, LaterState
  <2> QED
    BY <1>2, <1>5, <2>2 DEF here
<1> QED
  BY <1>4, <1>5

(* A step that leaves what is in force at a cutoff, for every date of      *)
(* every input, leaves every window, every output and the run.             *)
Unchanged(cutoff) ==
    /\ asked' = asked
    /\ \A input, date :
         LET n == T!EligibleVersion(input, date, cutoff) IN
         /\ T!EligibleVersion(input, date, cutoff)' = n
         /\ n # 0 => store'[<<input, date>>][n] = store[<<input, date>>][n]

LEMMA SameWindows ==
    ASSUME NEW cutoff, Unchanged(cutoff), NEW input, NEW date
    PROVE  T!Resolved(input, date, cutoff)' = T!Resolved(input, date, cutoff)
<1>1. PICK required : /\ required = T!RequiredTimestamps(date)
                      /\ required = T!RequiredTimestamps(date)'
  BY SameDates DEF Unchanged
<1>2. ASSUME NEW d PROVE T!PointAt(input, d, cutoff)' = T!PointAt(input, d, cutoff)
  <2>1. PICK n : /\ n = T!EligibleVersion(input, d, cutoff)
                 /\ n = T!EligibleVersion(input, d, cutoff)'
                 /\ n # 0 => store'[<<input, d>>][n] = store[<<input, d>>][n]
    BY DEF Unchanged
  <2>2. T!PointAt(input, d, cutoff)
          = [date |-> d, n |-> n,
             value |-> IF n = 0 THEN T!Absent ELSE store[<<input, d>>][n].value]
    BY <2>1 DEF T!PointAt
  <2>3. T!PointAt(input, d, cutoff)'
          = [date |-> d, n |-> n,
             value |-> IF n = 0 THEN T!Absent ELSE store'[<<input, d>>][n].value]
    BY <2>1 DEF T!PointAt, T!Absent
  <2> QED
    BY <2>1, <2>2, <2>3
<1> QED
  BY <1>1, <1>2 DEF T!Resolved

LEMMA SameOutput ==
    ASSUME NEW cutoff, Unchanged(cutoff), NEW date
    PROVE  T!OutputAt(date, cutoff)' = T!OutputAt(date, cutoff)
<1>1. asked' = asked /\ T!Inputs(asked') = T!Inputs(asked)
  BY DEF Unchanged
<1>2. PICK windows : /\ windows = [i \in T!Inputs(asked) |-> T!Resolved(i, date, cutoff)]
                     /\ windows = [i \in T!Inputs(asked') |-> T!Resolved(i, date, cutoff)']
  BY <1>1, SameWindows
<1>3. /\ T!OutputAt(date, cutoff) = [result |-> T!Evaluate(windows), lineage |-> T!Lineage(windows)]
      /\ T!OutputAt(date, cutoff)'
           = [result |-> T!Evaluate(windows)', lineage |-> T!Lineage(windows)]
  BY <1>2 DEF T!OutputAt
<1> QED
  BY <1>1, <1>3, SameEvaluation

LEMMA SameRun ==
    ASSUME NEW cutoff, Unchanged(cutoff)
    PROVE  T!Fails(cutoff)' = T!Fails(cutoff) /\ T!Outputs(cutoff)' = T!Outputs(cutoff)
<1>1. asked' = asked
  BY DEF Unchanged
<1>2. \A date : T!EligibleVersion(1, date, cutoff)' = T!EligibleVersion(1, date, cutoff)
  BY DEF Unchanged
<1>3. T!Candidates(cutoff)' = T!Candidates(cutoff)
  BY <1>1, <1>2 DEF T!Candidates
<1>4. T!Fails(cutoff)' = T!Fails(cutoff)
  BY <1>1, <1>3, SameWindows DEF T!Fails
<1>5. T!Outputs(cutoff)' = T!Outputs(cutoff)
  BY <1>3, SameOutput DEF T!Outputs
<1> QED
  BY <1>4, <1>5

CalculationInv == CalculationTyped /\ Settled /\ T!NoLookAhead

(* A run stays what it was under every step that it is settled against. *)
LEMMA RunStays ==
    ASSUME CalculationInv, last' = last,
           last.status # "none" /\ last.settled => Unchanged(last.cutoff)
    PROVE  T!NoLookAhead'
<1>1. PICK k : k = last.cutoff /\ k = last'.cutoff
  OBVIOUS
<1>2. CASE last.status # "none" /\ last.settled
  <2>1. T!Fails(k)' = T!Fails(k) /\ T!Outputs(k)' = T!Outputs(k)
    BY <1>1, <1>2, SameRun
  <2>2. /\ (last.status = "failed") = T!Fails(k)
        /\ last.status = "succeeded" => last.outputs = T!Outputs(k)
    BY <1>1, <1>2 DEF CalculationInv, T!NoLookAhead
  <2> QED
    BY <1>1, <2>1, <2>2 DEF T!NoLookAhead
<1>3. CASE ~(last.status # "none" /\ last.settled)
  BY <1>3 DEF T!NoLookAhead
<1> QED
  BY <1>2, <1>3

LEMMA StoreUnchanged ==
    ASSUME UNCHANGED <<asked, store>>, NEW cutoff
    PROVE  Unchanged(cutoff)
<1>1. T!Slots' = T!Slots
  BY DEF T!Slots
<1> QED
  BY <1>1 DEF Unchanged, T!EligibleVersion

LEMMA TickStep ==
    ASSUME T!TransformationAssumption, CalculationInv, T!Tick
    PROVE  CalculationInv'
<1>1. CalculationTyped /\ Settled /\ MaxTime \in Nat
  BY DEF CalculationInv, T!TransformationAssumption
<1>2. /\ clock' = clock + 1 /\ clock < MaxTime
      /\ UNCHANGED <<asked, store, open, commits, last>>
  BY DEF T!Tick
<1>3. CalculationTyped'
  BY <1>1, <1>2 DEF CalculationTyped, T!Slots
<1>4. Settled'
  BY <1>1, <1>2 DEF CalculationTyped, Settled
<1>5. T!NoLookAhead'
  BY <1>2, StoreUnchanged, RunStays
<1> QED
  BY <1>3, <1>4, <1>5 DEF CalculationInv

LEMMA StampStep ==
    ASSUME T!TransformationAssumption, CalculationInv, T!Stamp
    PROVE  CalculationInv'
<1>1. CalculationTyped /\ Settled /\ MaxTime \in Nat /\ MaxRevisions \in Nat
  BY DEF CalculationInv, T!TransformationAssumption
<1>2. PICK slot \in T!Slots, v \in Value \cup {T!Missing} :
        open' = [slot |-> slot, state |-> [stamp |-> clock, value |-> v]]
  BY DEF T!Stamp
<1>3. /\ open = <<>> /\ commits < MaxRevisions
      /\ UNCHANGED <<clock, asked, store, commits, last>>
  BY DEF T!Stamp
<1>4. T!Slots' = T!Slots /\ open' \in [slot : T!Slots, state : T!State] /\ open'.state.stamp = clock
  BY <1>1, <1>2, <1>3 DEF T!Slots, CalculationTyped, T!State
<1>5. CalculationTyped'
  BY <1>1, <1>3, <1>4 DEF CalculationTyped
<1>6. Settled'
  BY <1>1, <1>3, <1>4 DEF CalculationTyped, Settled
<1>7. T!NoLookAhead'
  BY <1>3, StoreUnchanged, RunStays
<1> QED
  BY <1>5, <1>6, <1>7 DEF CalculationInv

LEMMA CommitStep ==
    ASSUME T!TransformationAssumption, CalculationInv, T!Commit
    PROVE  CalculationInv'
<1>1. CalculationTyped /\ Settled /\ MaxTime \in Nat /\ MaxRevisions \in Nat
  BY DEF CalculationInv, T!TransformationAssumption
<1>2. /\ open # <<>> /\ open' = <<>> /\ commits' = commits + 1
      /\ store' = [store EXCEPT ![open.slot] = Append(@, open.state)]
      /\ UNCHANGED <<clock, asked, last>>
  BY DEF T!Commit
<1>3. open.slot \in T!Slots /\ open.state \in T!State /\ T!Slots' = T!Slots
  BY <1>1, <1>2 DEF CalculationTyped, T!Slots
<1>4. store' \in [T!Slots -> Seq(T!State)]
  BY <1>1, <1>2, <1>3 DEF CalculationTyped
<1>5. CalculationTyped'
  BY <1>1, <1>2, <1>3, <1>4 DEF CalculationTyped
<1>6. Settled'
  BY <1>1, <1>2 DEF Settled
<1>7. ASSUME last.status # "none", last.settled PROVE Unchanged(last.cutoff)
  <2>1. last.cutoff \in Nat /\ open.state.stamp > last.cutoff
    BY <1>1, <1>2, <1>7 DEF Settled
  <2>2. PICK k, slot, state : k = last.cutoff /\ slot = open.slot /\ state = open.state
    OBVIOUS
  <2>3. Unchanged(k)
    BY <1>1, <1>2, <1>3, <2>1, <2>2, EligibleStays DEF Unchanged
  <2> QED
    BY <2>2, <2>3
<1>8. T!NoLookAhead'
  BY <1>2, <1>7, RunStays
<1> QED
  BY <1>5, <1>6, <1>8 DEF CalculationInv

LEMMA ExecuteStep ==
    ASSUME T!TransformationAssumption, CalculationInv, T!Execute
    PROVE  CalculationInv'
<1>1. CalculationTyped /\ MaxTime \in Nat
  BY DEF CalculationInv, T!TransformationAssumption
<1>2. UNCHANGED <<clock, asked, store, open, commits>>
  BY DEF T!Execute
<1>3. PICK k \in 0 .. clock :
        last' = IF T!Fails(k)
               THEN [status |-> "failed", cutoff |-> k, settled |-> T!IsSettled(k)]
               ELSE [status |-> "succeeded", cutoff |-> k, settled |-> T!IsSettled(k),
                     outputs |-> T!Outputs(k)]
  BY DEF T!Execute
<1>4. /\ last'.status \in {"succeeded", "failed"} /\ last'.cutoff = k
      /\ last'.settled = T!IsSettled(k)
      /\ (last'.status = "failed") = T!Fails(k)
      /\ last'.status = "succeeded" => last'.outputs = T!Outputs(k)
  <2>1. T!Fails(k) \in BOOLEAN
    BY DEF T!Fails
  <2>2. CASE T!Fails(k)
    BY <1>3, <2>1, <2>2
  <2>3. CASE ~T!Fails(k)
    BY <1>3, <2>1, <2>3
  <2> QED
    BY <2>2, <2>3
<1>5. CalculationTyped'
  BY <1>1, <1>2, <1>4 DEF CalculationTyped, T!Slots
<1>6. Settled'
  <2>1. k \in Nat
    BY <1>1, <1>3 DEF CalculationTyped
  <2> QED
    BY <1>2, <1>4, <2>1 DEF Settled, T!IsSettled
<1>7. T!NoLookAhead'
  <2>1. T!Fails(k)' = T!Fails(k) /\ T!Outputs(k)' = T!Outputs(k)
    BY <1>2, StoreUnchanged, SameRun
  <2> QED
    BY <1>4, <2>1 DEF T!NoLookAhead
<1> QED
  BY <1>5, <1>6, <1>7 DEF CalculationInv

LEMMA CalculationInit == ASSUME T!TransformationAssumption, T!Init PROVE CalculationInv
<1>1. MaxTime \in Nat /\ MaxRevisions \in Nat
  BY DEF T!TransformationAssumption
<1> DEFINE Started == {<<>>} \cup {<<[stamp |-> 0, value |-> v]>> : v \in Value \cup {T!Missing}}
<1>2. Started \subseteq Seq(T!State)
  <2>1. ASSUME NEW v \in Value \cup {T!Missing}
        PROVE  <<[stamp |-> 0, value |-> v]>> \in Seq(T!State)
    <3>1. [stamp |-> 0, value |-> v] \in T!State
      BY <1>1 DEF T!State
    <3> QED
      BY <3>1
  <2>2. <<>> \in Seq(T!State)
    BY EmptySeq
  <2> QED
    BY <2>1, <2>2
<1>3. store \in [T!Slots -> Seq(T!State)]
  <2>1. store \in [T!Slots -> Started]
    BY DEF T!Init
  <2> HIDE DEF Started
  <2> QED
    BY <1>2, <2>1
<1> QED
  BY <1>1, <1>3 DEF T!Init, CalculationInv, CalculationTyped, Settled, T!NoLookAhead, T!NoRun

LEMMA CalculationInvariant ==
    ASSUME T!TransformationAssumption
    PROVE  T!Spec => []CalculationInv
<1>1. CalculationInv /\ [T!Next]_(T!vars) => CalculationInv'
  <2> SUFFICES ASSUME CalculationInv, [T!Next]_(T!vars) PROVE CalculationInv'
    OBVIOUS
  <2>1. CASE T!Next
    BY <2>1, TickStep, StampStep, CommitStep, ExecuteStep DEF T!Next
  <2>2. CASE UNCHANGED T!vars
    <3>1. UNCHANGED <<clock, asked, store, open, commits, last>>
      BY <2>2 DEF T!vars
    <3>2. CalculationTyped' /\ Settled'
      BY <3>1 DEF CalculationInv, CalculationTyped, Settled, T!Slots
    <3> QED
      BY <3>1, <3>2, StoreUnchanged, RunStays DEF CalculationInv
  <2> QED
    BY <2>1, <2>2
<1> QED
  BY <1>1, CalculationInit, PTL DEF T!Spec

(* The source states, what is stamped and not committed and the last run   *)
(* have their types, and the bounds of the model hold.                     *)
THEOREM CalculationsTyped ==
    ASSUME T!TransformationAssumption
    PROVE  T!Spec => []T!TypeOK
<1>1. CalculationInv => T!TypeOK
  BY DEF CalculationInv, CalculationTyped, T!TypeOK
<1> QED
  BY <1>1, CalculationInvariant, PTL

(* Whatever is observed, revised and committed afterwards, a run whose     *)
(* cutoff is settled says what a run at that cutoff says at any later      *)
(* time: the same failure, or the same outputs with the same lineage.      *)
THEOREM NeverLooksAhead ==
    ASSUME T!TransformationAssumption
    PROVE  T!Spec => []T!NoLookAhead
<1>1. CalculationInv => T!NoLookAhead
  BY DEF CalculationInv
<1> QED
  BY <1>1, CalculationInvariant, PTL

-----------------------------------------------------------------------------
(* What a dashboard reads of a raw and of a derived series (Dashboard),    *)
(* for values, days and versions of its own.                               *)
CONSTANTS Observed, Derived, MaxValue, StaleAfter, MaxDay, MaxVersions
VARIABLES day, points, revised, frequencies, shownRuns, view

D == INSTANCE Dashboard WITH
    Value <- Observed, runs <- shownRuns, versions <- frequencies

(* Division with remainder.                                                *)
LEMMA DashboardDivision ==
    ASSUME NEW n \in Nat, NEW d \in Nat \ {0}
    PROVE  n \div d \in Nat /\ n % d \in 0..(d - 1) /\ n = d * (n \div d) + (n % d)
OBVIOUS

(* Of either sign, a quotient is off by half a unit at most. *)
LEMMA RoundingFacts ==
    ASSUME NEW n \in Int, NEW d \in Int, d # 0
    PROVE  D!HalfEven(n, d) \in Int /\ 2 * D!Abs(D!HalfEven(n, d) * d - n) <= D!Abs(d)
<1> DEFINE a == D!Abs(n)
           b == D!Abs(d)
           q == a \div b
           r == a % b
           h == IF 2 * r > b \/ (2 * r = b /\ q % 2 = 1) THEN q + 1 ELSE q
<1>1. a \in Nat /\ b \in Nat \ {0}
  BY DEF D!Abs
<1>2. q \in Nat /\ r \in 0..(b - 1) /\ a = b * q + r
  BY <1>1, DashboardDivision
<1>3. D!HalfEven(n, d) = IF (n < 0) = (d < 0) THEN h ELSE -h
  BY DEF D!HalfEven
<1> HIDE DEF a, b, q, r
<1>4. h \in Nat /\ ((h = q /\ 2 * r <= b) \/ (h = q + 1 /\ 2 * r >= b))
  BY <1>1, <1>2
<1> DEFINE x == b * q
           y == b * h
<1> HIDE DEF h
<1>5. x \in Nat /\ a = x + r /\ y \in Nat
  BY <1>1, <1>2, <1>4
<1>6. -b <= 2 * (y - a) /\ 2 * (y - a) <= b
  <2>1. CASE h = q
    <3>1. y = x /\ 2 * r <= b
      BY <1>1, <1>2, <1>4, <2>1
    <3> HIDE DEF x, y
    <3> QED
      BY <1>1, <1>2, <1>5, <3>1
  <2>2. CASE h = q + 1
    <3>1. y = x + b /\ 2 * r >= b
      BY <1>1, <1>2, <1>4, <2>2
    <3> HIDE DEF x, y
    <3> QED
      BY <1>1, <1>2, <1>5, <3>1
  <2> QED
    BY <1>4, <2>1, <2>2
<1>7. D!HalfEven(n, d) * d - n = y - a \/ D!HalfEven(n, d) * d - n = a - y
  <2>1. CASE n < 0 /\ d < 0
    <3>1. a = -n /\ b = -d
      BY <2>1 DEF D!Abs, a, b
    <3>2. D!HalfEven(n, d) * d = -y
      BY <1>3, <1>4, <2>1, <3>1
    <3> HIDE DEF y
    <3> QED
      BY <1>1, <1>5, <3>1, <3>2
  <2>2. CASE n >= 0 /\ d >= 0
    <3>1. a = n /\ b = d
      BY <2>2 DEF D!Abs, a, b
    <3>2. D!HalfEven(n, d) * d = y
      BY <1>3, <1>4, <2>2, <3>1
    <3> HIDE DEF y
    <3> QED
      BY <1>1, <1>5, <3>1, <3>2
  <2>3. CASE n < 0 /\ d >= 0
    <3>1. a = -n /\ b = d
      BY <2>3 DEF D!Abs, a, b
    <3>2. D!HalfEven(n, d) * d = -y
      BY <1>3, <1>4, <2>3, <3>1
    <3> HIDE DEF y
    <3> QED
      BY <1>1, <1>5, <3>1, <3>2
  <2>4. CASE n >= 0 /\ d < 0
    <3>1. a = n /\ b = -d
      BY <2>4 DEF D!Abs, a, b
    <3>2. D!HalfEven(n, d) * d = y
      BY <1>3, <1>4, <2>4, <3>1
    <3> HIDE DEF y
    <3> QED
      BY <1>1, <1>5, <3>1, <3>2
  <2> QED
    BY <2>1, <2>2, <2>3, <2>4
<1>8. D!HalfEven(n, d) \in Int
  BY <1>3, <1>4
<1>9. 2 * D!Abs(D!HalfEven(n, d) * d - n) <= b
  <2> HIDE DEF y
  <2> QED
    BY <1>1, <1>5, <1>6, <1>7 DEF D!Abs
<1> QED
  BY <1>8, <1>9 DEF b

LEMMA NewestFacts ==
    ASSUME NEW n \in Nat, NEW days, days \subseteq 1 .. n
    PROVE  D!Newest(days) \in {0} \cup days /\ \A d \in days : d <= D!Newest(days)
<1>1. D!Newest(days) = Max({0} \cup days)
  BY DEF D!Newest, D!Max, Max
<1>2. {0} \cup days # {} /\ {0} \cup days \subseteq 0 .. n
  OBVIOUS
<1> QED
  BY <1>1, <1>2, Greatest

-----------------------------------------------------------------------------
(* What is committed has its types, and no observation is of a later day. *)
DashboardDataTyped ==
    /\ day \in D!Day
    /\ DOMAIN points \subseteq 1 .. day /\ \A d \in DOMAIN points : points[d] \in D!Point
    /\ revised \in 0 .. MaxRevisions
    /\ frequencies \in Seq(D!Frequency) /\ Len(frequencies) \in 1 .. MaxVersions
    /\ shownRuns \in Seq(D!Run) /\ Len(shownRuns) <= MaxRuns

(* What has been read so far. *)
ObservationsRead(v) ==
    /\ {"step", "generated_at", "current", "previous"} \subseteq DOMAIN v
    /\ v.generated_at \in 1 .. day
    /\ v.current \in {0} \cup DOMAIN points /\ v.current <= v.generated_at
    /\ v.previous \in {0} \cup DOMAIN points /\ (v.previous # 0 => v.previous < v.current)

RevisionsRead(v) ==
    /\ ObservationsRead(v)
    /\ {"value", "reference"} \subseteq DOMAIN v
    /\ v.current # 0 => v.value \in D!Point
    /\ v.previous # 0 => v.reference \in D!Point

VersionRead(v) ==
    /\ RevisionsRead(v)
    /\ "version" \in DOMAIN v /\ v.version \in 1 .. Len(frequencies)

RunRead(v) ==
    /\ VersionRead(v)
    /\ "run" \in DOMAIN v
    /\ v.run # 0 => v.run \in DOMAIN shownRuns /\ shownRuns[v.run].version = v.version

OutputRead(v) ==
    /\ RunRead(v)
    /\ v.output = D!OutputOf(v.run)

Reads(v) ==
    /\ v.step \in {"idle", "revisions", "version", "run", "output", "shown"}
    /\ v.step = "revisions" => ObservationsRead(v)
    /\ v.step = "version" => RevisionsRead(v)
    /\ v.step = "run" => VersionRead(v)
    /\ v.step = "output" => RunRead(v)
    /\ v.step = "shown" => OutputRead(v)

DashboardInv == DashboardDataTyped /\ Reads(view)

(* What is committed meanwhile leaves what has been read. *)
DataGrows ==
    /\ day \in Nat /\ day' \in Nat /\ day <= day'
    /\ DOMAIN points \subseteq DOMAIN points'
    /\ Len(frequencies) \in Nat /\ Len(frequencies') \in Nat /\ Len(frequencies) <= Len(frequencies')
    /\ \A i \in DOMAIN shownRuns : i \in DOMAIN shownRuns' /\ shownRuns'[i] = shownRuns[i]

LEMMA ReadsKept ==
    ASSUME DataGrows, NEW v
    PROVE  /\ ObservationsRead(v) => ObservationsRead(v)'
           /\ RevisionsRead(v) => RevisionsRead(v)'
           /\ VersionRead(v) => VersionRead(v)'
           /\ RunRead(v) => RunRead(v)'
           /\ OutputRead(v) => OutputRead(v)'
           /\ Reads(v) => Reads(v)'
<1>1. ObservationsRead(v) => ObservationsRead(v)'
  BY DEF DataGrows, ObservationsRead
<1>2. RevisionsRead(v) => RevisionsRead(v)'
  BY <1>1 DEF RevisionsRead, D!Point
<1>3. VersionRead(v) => VersionRead(v)'
  BY <1>2 DEF DataGrows, VersionRead
<1>4. RunRead(v) => RunRead(v)'
  BY <1>3 DEF DataGrows, RunRead
<1>5. OutputRead(v) => OutputRead(v)'
  BY <1>4 DEF DataGrows, OutputRead, RunRead, D!OutputOf, D!Missing
<1> QED
  BY <1>1, <1>2, <1>3, <1>4, <1>5 DEF Reads
LEMMA Grows ==
    ASSUME DashboardDataTyped, DashboardDataTyped',
           DOMAIN points \subseteq DOMAIN points', day <= day',
           Len(frequencies) <= Len(frequencies'),
           shownRuns' = shownRuns \/ \E r : shownRuns' = Append(shownRuns, r)
    PROVE  DataGrows
<1>1. day \in Nat /\ day' \in Nat /\ Len(frequencies) \in Nat /\ Len(frequencies') \in Nat
  BY DEF DashboardDataTyped, D!Day
<1>2. \A i \in DOMAIN shownRuns : i \in DOMAIN shownRuns' /\ shownRuns'[i] = shownRuns[i]
  <2>1. CASE shownRuns' = shownRuns
    BY <2>1
  <2>2. ASSUME NEW r, shownRuns' = Append(shownRuns, r)
        PROVE  \A i \in DOMAIN shownRuns : i \in DOMAIN shownRuns' /\ shownRuns'[i] = shownRuns[i]
    <3>1. shownRuns \in Seq(D!Run) /\ Append(shownRuns, r) \in Seq(D!Run)
      BY <2>2 DEF DashboardDataTyped, D!Run
    <3>2. /\ Len(shownRuns) \in Nat /\ DOMAIN shownRuns = 1 .. Len(shownRuns)
          /\ DOMAIN shownRuns' = 1 .. (Len(shownRuns) + 1)
          /\ \A i \in 1 .. Len(shownRuns) : shownRuns'[i] = shownRuns[i]
      BY <2>2, <3>1
    <3> QED
      BY <3>2
  <2> QED
    BY <2>1, <2>2
<1> QED
  BY <1>1, <1>2 DEF DataGrows

DashboardData == <<day, points, revised, frequencies, shownRuns>>

(* Nothing that a reader does changes the data. *)
LEMMA DataStays ==
    ASSUME DashboardInv, UNCHANGED DashboardData
    PROVE  DashboardDataTyped' /\ DataGrows
<1>1. DashboardDataTyped'
  BY DEF DashboardData, DashboardInv, DashboardDataTyped,
         D!Day, D!Point, D!Frequency, D!Run, D!Missing
<1>2. DataGrows
  BY <1>1, Grows DEF DashboardData, DashboardInv, DashboardDataTyped, D!Day
<1> QED
  BY <1>1, <1>2

(* What others commit. *)
Committed == D!Tick \/ D!Observe \/ D!Revise \/ D!CreateVersion \/ D!CommitRun

LEMMA CommittedTyped ==
    ASSUME D!DashboardAssumption, DashboardInv, Committed
    PROVE  DashboardDataTyped' /\ DataGrows /\ view' = view
<1> USE DEF D!Missing
<1>1. /\ DashboardDataTyped /\ day \in Nat /\ day \in 1 .. MaxDay /\ MaxDay \in Nat
      /\ Observed \subseteq Int /\ MaxValue \in Nat /\ D!Day = 1 .. MaxDay
  BY DEF DashboardInv, DashboardDataTyped, D!Day, D!DashboardAssumption
<1>2. CASE D!Tick
  <2>1. DashboardDataTyped' /\ UNCHANGED <<points, frequencies, shownRuns, view>> /\ day <= day'
    BY <1>1, <1>2 DEF D!Tick, DashboardDataTyped, D!Day, D!Point, D!Run, D!Frequency
  <2> QED
    BY <1>1, <2>1, Grows
<1>3. CASE D!Observe
  <2>1. PICK d \in (1 .. day) \ DOMAIN points, v \in D!Point :
          points' = [e \in DOMAIN points \cup {d} |-> IF e = d THEN v ELSE points[e]]
    BY <1>3 DEF D!Observe
  <2>2. /\ DOMAIN points \subseteq DOMAIN points'
        /\ UNCHANGED <<day, revised, frequencies, shownRuns, view>>
    BY <1>3, <2>1 DEF D!Observe
  <2>3. DashboardDataTyped'
    BY <1>1, <2>1, <2>2 DEF DashboardDataTyped, D!Day, D!Point, D!Run, D!Frequency
  <2> QED
    BY <1>1, <2>2, <2>3, Grows
<1>4. CASE D!Revise
  <2>1. PICK d \in DOMAIN points, v \in D!Point : points' = [points EXCEPT ![d] = v]
    BY <1>4 DEF D!Revise
  <2>2. /\ DOMAIN points' = DOMAIN points /\ UNCHANGED <<day, frequencies, shownRuns, view>>
        /\ revised' \in 0 .. MaxRevisions
    BY <1>1, <1>4, <2>1 DEF D!Revise, DashboardDataTyped, D!DashboardAssumption
  <2>3. DashboardDataTyped'
    BY <1>1, <2>1, <2>2 DEF DashboardDataTyped, D!Day, D!Point, D!Run, D!Frequency
  <2> QED
    BY <1>1, <2>2, <2>3, Grows
<1>5. CASE D!CreateVersion
  <2>1. PICK f \in D!Frequency : frequencies' = Append(frequencies, f)
    BY <1>5 DEF D!CreateVersion
  <2>2. /\ frequencies' \in Seq(D!Frequency) /\ Len(frequencies') = Len(frequencies) + 1
        /\ Len(frequencies) \in Nat /\ Len(frequencies') \in 1 .. MaxVersions
    BY <1>1, <1>5, <2>1 DEF D!CreateVersion, DashboardDataTyped, D!DashboardAssumption
  <2>3. UNCHANGED <<day, points, revised, shownRuns, view>>
    BY <1>5 DEF D!CreateVersion
  <2>4. DashboardDataTyped'
    BY <1>1, <2>2, <2>3 DEF DashboardDataTyped, D!Day, D!Point, D!Run, D!Frequency
  <2> QED
    BY <1>1, <2>2, <2>3, <2>4, Grows
<1>6. CASE D!CommitRun
  <2>1. PICK v \in 1 .. Len(frequencies), p \in Derived \cup {D!Missing} :
          shownRuns' = Append(shownRuns, [version |-> v, value |-> p,
                                observed_at |-> D!Newest(DOMAIN points)])
    BY <1>6 DEF D!CommitRun, D!Newest
  <2> DEFINE row == [version |-> v, value |-> p, observed_at |-> D!Newest(DOMAIN points)]
  <2>2. D!Newest(DOMAIN points) \in D!Day \cup {0}
    BY <1>1, NewestFacts DEF DashboardDataTyped
  <2>3. v \in 1 .. MaxVersions
    BY <1>1 DEF DashboardDataTyped, D!DashboardAssumption
  <2>4. row \in D!Run
    BY <2>2, <2>3 DEF D!Run
  <2> HIDE DEF row
  <2>5. UNCHANGED <<day, points, revised, frequencies, view>>
    BY <1>6 DEF D!CommitRun
  <2>6. shownRuns' \in Seq(D!Run) /\ Len(shownRuns') <= MaxRuns
    BY <1>1, <1>6, <2>1, <2>4 DEF D!CommitRun, DashboardDataTyped, D!DashboardAssumption, row
  <2>7. DashboardDataTyped'
    BY <1>1, <2>5, <2>6 DEF DashboardDataTyped, D!Day, D!Point, D!Run, D!Frequency
  <2> QED
    BY <1>1, <2>1, <2>5, <2>7, Grows
<1> QED
  BY <1>2, <1>3, <1>4, <1>5, <1>6 DEF Committed

-----------------------------------------------------------------------------
(* What the reader reads, step by step. *)
LEMMA ObservationsStep ==
    ASSUME D!DashboardAssumption, DashboardInv, D!ReadObservations
    PROVE  ObservationsRead(view') /\ view'.step = "revisions"
<1> DEFINE current == D!Newest(DOMAIN points)
           previous == D!Newest(DOMAIN points \ {current})
<1>1. /\ DashboardDataTyped /\ day \in Nat \ {0} /\ DOMAIN points \subseteq 1 .. day
  BY DEF DashboardInv, DashboardDataTyped, D!Day, D!DashboardAssumption
<1>2. current \in {0} \cup DOMAIN points /\ \A d \in DOMAIN points : d <= current
  BY <1>1, NewestFacts
<1>3. previous \in {0} \cup (DOMAIN points \ {current})
  <2>1. DOMAIN points \ {current} \subseteq 1 .. day
    BY <1>1
  <2> QED
    BY <1>1, <2>1, NewestFacts
<1>4. view' = [step |-> "revisions", generated_at |-> day, current |-> current,
               previous |-> previous]
  BY DEF D!ReadObservations
<1> HIDE DEF current, previous
<1>5. previous # 0 => previous < current
  BY <1>1, <1>2, <1>3
<1>6. current <= day
  BY <1>1, <1>2
<1> QED
  BY <1>1, <1>2, <1>3, <1>4, <1>5, <1>6 DEF ObservationsRead

LEMMA RevisionsStep ==
    ASSUME DashboardInv, D!ReadRevisions
    PROVE  RevisionsRead(view') /\ view'.step = "version"
<1>1. DashboardDataTyped /\ ObservationsRead(view)
  BY DEF DashboardInv, Reads, D!ReadRevisions
<1>2. view' = [step |-> "version", generated_at |-> view.generated_at,
               current |-> view.current, previous |-> view.previous,
               value |-> D!ValueAt(view.current), reference |-> D!ValueAt(view.previous)]
  BY DEF D!ReadRevisions
<1>3. \A d \in {0} \cup DOMAIN points : d # 0 => D!ValueAt(d) \in D!Point
  BY <1>1 DEF DashboardDataTyped, D!ValueAt
<1>4. ObservationsRead(view')
  BY <1>1, <1>2 DEF ObservationsRead
<1> QED
  BY <1>1, <1>2, <1>3, <1>4 DEF RevisionsRead, ObservationsRead

(* What a later step adds to a view leaves the rest of it. *)
LEMMA WithFacts ==
    ASSUME NEW name, name # "step", NEW step, NEW x, NEW w,
           w = [f \in DOMAIN view \cup {"step", name} |->
                  IF f \in {"step", name} THEN IF f = "step" THEN step ELSE x ELSE view[f]]
    PROVE  /\ w.step = step /\ w[name] = x
           /\ DOMAIN view \subseteq DOMAIN w /\ name \in DOMAIN w
           /\ \A f \in DOMAIN view \ {"step", name} : w[f] = view[f]
OBVIOUS

LEMMA VersionStep ==
    ASSUME DashboardInv, D!ReadVersion
    PROVE  VersionRead(view') /\ view'.step = "run"
<1>1. DashboardDataTyped /\ RevisionsRead(view)
  BY DEF DashboardInv, Reads, D!ReadVersion
<1>2. PICK w : w = view' /\ w = D!With([step |-> "run", version |-> Len(frequencies)])
  BY DEF D!ReadVersion
<1>3. /\ w.step = "run" /\ w.version = Len(frequencies)
      /\ DOMAIN view \subseteq DOMAIN w /\ "version" \in DOMAIN w
      /\ \A f \in DOMAIN view \ {"step", "version"} : w[f] = view[f]
  BY <1>2, WithFacts DEF D!With
<1>4. RevisionsRead(w)
  BY <1>1, <1>3 DEF RevisionsRead, ObservationsRead
<1>5. Len(frequencies) \in 1 .. Len(frequencies)
  BY <1>1 DEF DashboardDataTyped
<1> QED
  BY <1>2, <1>3, <1>4, <1>5 DEF VersionRead

LEMMA RunStep ==
    ASSUME DashboardInv, D!ReadRun
    PROVE  RunRead(view') /\ view'.step = "output"
<1>1. DashboardDataTyped /\ VersionRead(view)
  BY DEF DashboardInv, Reads, D!ReadRun
<1> DEFINE newest == D!Newest(D!RunsOf(view.version))
<1>2. PICK w : w = view' /\ w = D!With([step |-> "output", run |-> newest])
  BY DEF D!ReadRun
<1>3. newest \in {0} \cup D!RunsOf(view.version)
  <2>1. D!RunsOf(view.version) \subseteq 1 .. Len(shownRuns) /\ Len(shownRuns) \in Nat
    BY <1>1 DEF D!RunsOf, DashboardDataTyped
  <2> QED
    BY <2>1, NewestFacts
<1> HIDE DEF newest
<1>4. /\ w.step = "output" /\ w.run = newest
      /\ DOMAIN view \subseteq DOMAIN w /\ "run" \in DOMAIN w
      /\ \A f \in DOMAIN view \ {"step", "run"} : w[f] = view[f]
  BY <1>2, WithFacts DEF D!With
<1>5. VersionRead(w) /\ w.version = view.version
  BY <1>1, <1>4 DEF VersionRead, RevisionsRead, ObservationsRead
<1> QED
  BY <1>2, <1>3, <1>4, <1>5 DEF RunRead, D!RunsOf

LEMMA OutputStep ==
    ASSUME DashboardInv, D!ReadOutput
    PROVE  OutputRead(view') /\ view'.step = "shown"
<1>1. DashboardDataTyped /\ RunRead(view)
  BY DEF DashboardInv, Reads, D!ReadOutput
<1> DEFINE output == D!OutputOf(view.run)
<1>2. PICK w : w = view' /\ w = D!With([step |-> "shown", output |-> output])
  BY DEF D!ReadOutput
<1> HIDE DEF output
<1>3. /\ w.step = "shown" /\ w.output = output
      /\ DOMAIN view \subseteq DOMAIN w
      /\ \A f \in DOMAIN view \ {"step", "output"} : w[f] = view[f]
  BY <1>2, WithFacts DEF D!With
<1>4. RunRead(w) /\ w.run = view.run
  BY <1>1, <1>3 DEF RunRead, VersionRead, RevisionsRead, ObservationsRead
<1> QED
  BY <1>2, <1>3, <1>4 DEF OutputRead, output

LEMMA ReadsAfter ==
    ASSUME DashboardDataTyped', DataGrows, NEW w, w = view',
           \/ ObservationsRead(w) /\ w.step = "revisions"
           \/ RevisionsRead(w) /\ w.step = "version"
           \/ VersionRead(w) /\ w.step = "run"
           \/ RunRead(w) /\ w.step = "output"
           \/ OutputRead(w) /\ w.step = "shown"
    PROVE  DashboardInv'
<1>1. Reads(w)
  BY DEF Reads
<1>2. Reads(w)'
  BY <1>1, ReadsKept
<1> QED
  BY <1>2 DEF DashboardInv

LEMMA DashboardStep ==
    ASSUME D!DashboardAssumption, DashboardInv, [D!Next]_(D!vars)
    PROVE  DashboardInv'
<1>1. CASE Committed \/ UNCHANGED D!vars
  <2>1. DashboardDataTyped' /\ DataGrows /\ view' = view
    BY <1>1, CommittedTyped, DataStays DEF D!vars, DashboardData
  <2>2. PICK w : w = view /\ w = view'
    BY <2>1
  <2>3. Reads(w)'
    BY <2>1, <2>2, ReadsKept DEF DashboardInv
  <2> QED
    BY <2>1, <2>2, <2>3 DEF DashboardInv
<1>2. CASE D!ReadObservations \/ D!ReadRevisions \/ D!ReadVersion \/ D!ReadRun \/ D!ReadOutput
  <2>1. UNCHANGED DashboardData
    BY <1>2 DEF DashboardData, D!ReadObservations, D!ReadRevisions, D!ReadVersion,
                D!ReadRun, D!ReadOutput
  <2>2. PICK w : w = view'
    OBVIOUS
  <2> QED
    BY <1>2, <2>1, <2>2, DataStays, ReadsAfter,
       ObservationsStep, RevisionsStep, VersionStep, RunStep, OutputStep
<1> QED
  BY <1>1, <1>2 DEF D!Next, Committed

LEMMA DashboardInit == ASSUME D!DashboardAssumption, D!Init PROVE DashboardInv
<1>1. /\ day = 1 /\ points = <<>> /\ revised = 0 /\ shownRuns = <<>> /\ view = D!NoView
      /\ MaxDay \in Nat \ {0} /\ MaxRevisions \in Nat /\ MaxVersions \in Nat \ {0} /\ MaxRuns \in Nat
  BY DEF D!Init, D!DashboardAssumption
<1>2. PICK f \in D!Frequency : frequencies = <<f>>
  BY DEF D!Init
<1>3. frequencies \in Seq(D!Frequency) /\ Len(frequencies) = 1
  BY <1>2
<1>4. shownRuns \in Seq(D!Run) /\ Len(shownRuns) = 0 /\ DOMAIN points = {}
  BY <1>1, EmptySeq
<1>5. DashboardDataTyped
  BY <1>1, <1>3, <1>4 DEF DashboardDataTyped, D!Day
<1>6. Reads(view)
  BY <1>1 DEF Reads, D!NoView
<1> QED
  BY <1>5, <1>6 DEF DashboardInv

-----------------------------------------------------------------------------
LEMMA ComparisonsBelong ==
    ASSUME D!DashboardAssumption, DashboardInv
    PROVE  D!ComparisonsBelongTogether
<1>1. SUFFICES ASSUME view.step = "shown" PROVE D!ComparisonsBelongTogether
  BY DEF D!ComparisonsBelongTogether
<1>2. /\ DashboardDataTyped /\ OutputRead(view) /\ RunRead(view) /\ VersionRead(view)
      /\ RevisionsRead(view) /\ ObservationsRead(view)
  BY <1>1 DEF DashboardInv, Reads, OutputRead, RunRead, VersionRead, RevisionsRead
<1>3. /\ day \in Nat /\ Observed \subseteq Int /\ MaxValue \in Nat
      /\ \A v \in D!Point : v # D!Missing => v \in Int
  BY <1>2 DEF DashboardDataTyped, D!Day, D!DashboardAssumption, D!Point
<1>4. view.current \in Nat /\ view.previous \in Nat /\ view.generated_at \in Nat
  BY <1>2, <1>3 DEF ObservationsRead, DashboardDataTyped
<1>5. ASSUME D!DerivedComparison = "available"
      PROVE  /\ shownRuns[view.run] = [version |-> view.version, observed_at |-> view.current,
                                  value |-> view.output.value]
             /\ frequencies[view.version] = "same"
  <2>1. /\ D!IsAvailable /\ view.run # 0 /\ view.output.observed_at # 0
        /\ frequencies[view.version] = "same" /\ D!IsAnchored
    BY <1>5 DEF D!DerivedComparison
  <2>2. /\ view.run \in DOMAIN shownRuns /\ shownRuns[view.run].version = view.version
        /\ view.output = [observed_at |-> shownRuns[view.run].observed_at,
                          value |-> shownRuns[view.run].value]
    BY <1>2, <2>1 DEF RunRead, OutputRead, D!OutputOf
  <2>3. shownRuns[view.run] \in D!Run
    BY <1>2, <2>2 DEF DashboardDataTyped
  <2>4. shownRuns[view.run].observed_at = view.current
    BY <2>1, <2>2 DEF D!IsAnchored
  <2> QED
    BY <2>1, <2>2, <2>3, <2>4 DEF D!Run
<1> DEFINE absolute == view.value - view.reference
           percentage == D!HalfEven(100 * absolute, view.reference)
           IsRight(c) ==
             /\ c.absolute # D!Absent => view.reference + c.absolute = view.value
             /\ c.state = "available" =>
                  /\ 0 < view.previous /\ view.previous < view.current
                  /\ D!MetricState # "missing"
                  /\ 2 * D!Abs(c.percentage * view.reference - 100 * c.absolute)
                        <= D!Abs(view.reference)
<1>6. ASSUME D!IsAvailable, view.previous # 0, view.reference # D!Missing
      PROVE  IsRight(D!PreviousComparison)
  <2>1. view.value \in Int /\ view.reference \in Int /\ absolute \in Int
    BY <1>2, <1>3, <1>6 DEF RevisionsRead, D!IsAvailable
  <2>2. view.reference + absolute = view.value
    BY <2>1
  <2>3. view.reference # 0 =>
          2 * D!Abs(percentage * view.reference - 100 * absolute) <= D!Abs(view.reference)
    <3>1. 100 * absolute \in Int
      BY <2>1
    <3> HIDE DEF absolute
    <3> QED
      BY <2>1, <3>1, RoundingFacts
  <2>4. D!PreviousComparison =
          IF ~D!IsRepresentable(absolute) THEN D!Comparison("incomparable", D!Absent, D!Absent)
          ELSE IF view.reference = 0 THEN D!Comparison("incomparable", absolute, D!Absent)
          ELSE IF ~D!IsRepresentable(percentage)
               THEN D!Comparison("incomparable", absolute, D!Absent)
          ELSE D!Comparison("available", absolute, percentage)
    BY <1>6 DEF D!PreviousComparison
  <2>5. 0 < view.previous /\ view.previous < view.current /\ D!MetricState # "missing"
    BY <1>2, <1>4, <1>6 DEF ObservationsRead, D!MetricState
  <2> HIDE DEF absolute, percentage
  <2>6. PICK c : c = D!PreviousComparison
    OBVIOUS
  <2>7. /\ c.absolute # D!Absent => c.absolute = absolute
        /\ c.state = "available" =>
             view.reference # 0 /\ c.absolute = absolute /\ c.percentage = percentage
    BY <2>4, <2>6 DEF D!Comparison
  <2> QED
    BY <2>2, <2>3, <2>5, <2>6, <2>7
<1>7. ASSUME ~(D!IsAvailable /\ view.previous # 0 /\ view.reference # D!Missing)
      PROVE  IsRight(D!PreviousComparison)
  <2>1. \/ D!PreviousComparison = D!Comparison("missing", D!Absent, D!Absent)
        \/ D!PreviousComparison = D!Comparison("incomparable", D!Absent, D!Absent)
    <3>1. CASE ~D!IsAvailable
      BY <3>1 DEF D!PreviousComparison
    <3>2. CASE D!IsAvailable /\ (view.previous = 0 \/ view.reference = D!Missing)
      BY <3>2 DEF D!PreviousComparison
    <3> QED
      BY <1>7, <3>1, <3>2
  <2>2. PICK c : c = D!PreviousComparison
    OBVIOUS
  <2>3. c.absolute = D!Absent /\ c.state # "available"
    BY <2>1, <2>2 DEF D!Comparison
  <2> QED
    BY <2>2, <2>3
<1>8. ASSUME D!MetricState = "stale" PROVE view.current + StaleAfter < day
  <2>1. D!IsAvailable /\ D!Freshness(view.current) = "stale"
    BY <1>8 DEF D!MetricState
  <2>2. D!Age(view.current) > StaleAfter /\ StaleAfter \in Nat
    BY <2>1 DEF D!Freshness, D!DashboardAssumption
  <2>3. view.generated_at <= day
    BY <1>2, <1>3 DEF ObservationsRead
  <2> QED
    BY <1>3, <1>4, <2>2, <2>3 DEF D!Age
<1>9. IsRight(D!PreviousComparison)
  BY <1>6, <1>7
<1> QED
  BY <1>5, <1>8, <1>9 DEF D!ComparisonsBelongTogether

(* The data and the view have their types, and the bounds of the model     *)
(* hold.                                                                   *)
THEOREM DashboardsTyped ==
    ASSUME D!DashboardAssumption
    PROVE  D!Spec => []D!TypeOK
<1>1. DashboardInv => D!TypeOK
  <2> SUFFICES ASSUME DashboardInv PROVE D!TypeOK
    OBVIOUS
  <2>1. DashboardDataTyped /\ 1 .. day \subseteq D!Day
    BY DEF DashboardInv, DashboardDataTyped, D!Day, D!DashboardAssumption
  <2> QED
    BY <2>1 DEF DashboardInv, DashboardDataTyped, Reads, D!TypeOK
<1>2. DashboardInv /\ [D!Next]_(D!vars) => DashboardInv'
  BY DashboardStep
<1> QED
  BY <1>1, <1>2, DashboardInit, PTL DEF D!Spec

(* Whatever is observed, revised and calculated between the reads of a     *)
(* summary, what it compares belongs together, and the changes it shows    *)
(* are the ones between the values it shows, rounded half to even.         *)
THEOREM ComparisonsAlways ==
    ASSUME D!DashboardAssumption
    PROVE  D!Spec => []D!ComparisonsBelongTogether
<1>1. DashboardInv => D!ComparisonsBelongTogether
  BY ComparisonsBelong
<1>2. DashboardInv /\ [D!Next]_(D!vars) => DashboardInv'
  BY DashboardStep
<1> QED
  BY <1>1, <1>2, DashboardInit, PTL DEF D!Spec

-----------------------------------------------------------------------------
(* What a run calculates can be shown to be from its lineage.  First, the  *)
(* recursive functions of the component.                                   *)

(* What holds of 0, and of a number after it holds of the one before.      *)
LEMMA CountUp ==
    ASSUME NEW n \in Nat, NEW S, 0 \in S, \A i \in 0..(n - 1) : i \in S => i + 1 \in S
    PROVE  \A i \in 0..n : i \in S
<1> DEFINE Outside == {i \in 0..n : i \notin S}
<1>1. SUFFICES ASSUME Outside # {} PROVE FALSE
  OBVIOUS
<1>2. PICK i \in Outside : \A j \in Outside : ~(<<j, i>> \in OpToRel(<, Nat))
  <2>1. IsWellFoundedOn(OpToRel(<, Nat), Nat)
    BY NatLessThanWellFounded
  <2>2. Outside \subseteq Nat
    OBVIOUS
  <2> HIDE DEF Outside
  <2> QED
    BY <1>1, <2>1, <2>2, WFMin
<1>3. i \in 0..n /\ i \notin S /\ i # 0
  OBVIOUS
<1>4. i - 1 \in S
  <2>1. i - 1 \in Nat /\ i \in Nat /\ i - 1 < i /\ i - 1 \in 0..n
    BY <1>3
  <2>2. <<i - 1, i>> \in OpToRel(<, Nat)
    BY <2>1 DEF OpToRel
  <2> QED
    BY <1>2, <2>1, <2>2
<1> QED
  BY <1>3, <1>4

(* A function can be applied again and again, from any value. *)
Iterates(f, X, x, F, a, w) ==
    f \in [a..w -> X] /\ \A n \in a..w : f[n] = IF n = a THEN x ELSE F[f[n - 1]]

LEMMA Iteration ==
    ASSUME NEW X, NEW x \in X, NEW F \in [X -> X], NEW a \in {0, 1}, NEW w \in Nat
    PROVE  \E f : Iterates(f, X, x, F, a, w)
<1> DEFINE Good(f, k) == \A n \in a..k : f[n] = IF n = a THEN x ELSE F[f[n - 1]]
           S == {k \in Nat : \E f \in [a..k -> X] : Good(f, k)}
<1>1. 0 \in S
  <2> DEFINE f == [n \in a..0 |-> x]
  <2>1. f \in [a..0 -> X] /\ Good(f, 0)
    OBVIOUS
  <2> QED
    BY <2>1
<1>2. ASSUME NEW k \in Nat, k \in S PROVE k + 1 \in S
  <2>1. PICK f \in [a..k -> X] : Good(f, k)
    BY <1>2
  <2> DEFINE g == [n \in a..(k + 1) |-> IF n = a THEN x ELSE IF n = k + 1 THEN F[f[k]] ELSE f[n]]
  <2>2. ASSUME NEW n \in a..(k + 1) PROVE g[n] \in X /\ g[n] = IF n = a THEN x ELSE F[g[n - 1]]
    <3>1. CASE n = a
      BY <3>1
    <3>2. CASE n # a /\ n = k + 1
      <4>1. k \in a..k /\ g[n] = F[f[k]] /\ g[k] = f[k] /\ n - 1 = k
        BY <2>1, <3>2
      <4> QED
        BY <3>2, <4>1
    <3>3. CASE n # a /\ n # k + 1
      <4>1. n \in a..k /\ n - 1 \in a..k /\ g[n] = f[n] /\ g[n - 1] = f[n - 1]
        BY <2>1, <3>3
      <4> QED
        BY <2>1, <3>3, <4>1
    <3> QED
      BY <3>1, <3>2, <3>3
  <2>3. g \in [a..(k + 1) -> X] /\ Good(g, k + 1)
    BY <2>2
  <2> HIDE DEF g, Good
  <2> QED
    BY <2>3
<1>3. w \in S
  <2> HIDE DEF S
  <2>1. \A i \in 0..w : i \in S
    BY <1>1, <1>2, CountUp
  <2> QED
    BY <2>1
<1> QED
  BY <1>3 DEF Iterates

-----------------------------------------------------------------------------
(* The calendar, in the order of its months and of their days.             *)
CalendarDay == Int \X (1 .. 12) \X Int

MonthNumber(date) == 12 * date[1] + date[2]

Earlier(date, other) ==
    \/ MonthNumber(date) < MonthNumber(other)
    \/ MonthNumber(date) = MonthNumber(other) /\ date[3] < other[3]

LEMMA MonthLengths ==
    ASSUME NEW y \in Int, NEW m \in 1 .. 12
    PROVE  T!MonthLength(y, m) \in Int
BY DEF T!MonthLength

(* Twelve months are a year. *)
LEMMA Months ==
    ASSUME NEW n \in Int
    PROVE  n \div 12 \in Int /\ n % 12 \in 0..11 /\ n = 12 * (n \div 12) + (n % 12)
OBVIOUS

LEMMA EarlierMonth ==
    ASSUME NEW date \in CalendarDay, NEW months \in Int, months < 0,
           T!ShiftMonths(date, months) # T!NoDate
    PROVE  LET anchor == T!ShiftMonths(date, months) IN
           anchor \in CalendarDay /\ Earlier(anchor, date) /\ anchor[3] = date[3]
<1> DEFINE total == 12 * date[1] + date[2] - 1 + months
           y == total \div 12
           m == (total % 12) + 1
<1>1. date[1] \in Int /\ date[2] \in 1 .. 12 /\ date[3] \in Int
  BY DEF CalendarDay
<1>2. T!ShiftMonths(date, months) = <<y, m, date[3]>>
  BY DEF T!ShiftMonths
<1>3. total \in Int /\ total < 12 * date[1] + date[2] - 1
  BY <1>1
<1>4. y \in Int /\ m \in 1 .. 12 /\ total = 12 * y + m - 1
  <2> HIDE DEF total
  <2> QED
    BY <1>3, Months
<1> HIDE DEF total, y, m
<1>5. <<y, m, date[3]>> \in CalendarDay
  BY <1>1, <1>4 DEF CalendarDay
<1>6. Earlier(<<y, m, date[3]>>, date)
  BY <1>1, <1>3, <1>4 DEF Earlier, MonthNumber
<1> QED
  BY <1>2, <1>5, <1>6

LEMMA EarlierDay ==
    ASSUME NEW date \in CalendarDay, NEW days \in Nat \ {0}
    PROVE  T!DaysBack(date, days) \in CalendarDay /\ Earlier(T!DaysBack(date, days), date)
<1> DEFINE w == days \div 28 + 1
           x == <<date[1], date[2], date[3] - days>>
           F == [d \in CalendarDay |-> T!Borrowed(d)]
           Back(f) == f = [n \in 0 .. w |-> IF n = 0 THEN x ELSE T!Borrowed(f[n - 1])]
           back == CHOOSE f : Back(f)
<1>1. w \in Nat /\ x \in CalendarDay /\ Earlier(x, date)
  <2>1. date[1] \in Int /\ date[2] \in 1 .. 12 /\ date[3] \in Int
    BY DEF CalendarDay
  <2>2. days \div 28 \in Nat
    OBVIOUS
  <2> QED
    BY <2>1, <2>2 DEF CalendarDay, Earlier, MonthNumber
<1>2. ASSUME NEW d \in CalendarDay, Earlier(d, date)
      PROVE  T!Borrowed(d) \in CalendarDay /\ Earlier(T!Borrowed(d), date)
  <2>1. /\ date[1] \in Int /\ date[2] \in 1 .. 12 /\ date[3] \in Int
        /\ d[1] \in Int /\ d[2] \in 1 .. 12 /\ d[3] \in Int
    BY DEF CalendarDay
  <2>2. CASE d[3] >= 1
    BY <1>2, <2>2 DEF T!Borrowed
  <2>3. CASE ~(d[3] >= 1)
    <3>1. PICK before : before = T!PreviousMonth(d[1], d[2])
      OBVIOUS
    <3>2. before[1] \in Int /\ before[2] \in 1 .. 12
          /\ 12 * before[1] + before[2] = 12 * d[1] + d[2] - 1
      BY <2>1, <3>1 DEF T!PreviousMonth
    <3>3. PICK l \in Int : l = T!MonthLength(before[1], before[2])
      BY <3>2, MonthLengths
    <3>4. T!Borrowed(d) = <<before[1], before[2], d[3] + l>>
      BY <2>3, <3>1, <3>3 DEF T!Borrowed
    <3>5. <<before[1], before[2], d[3] + l>> \in CalendarDay
      BY <2>1, <3>2 DEF CalendarDay
    <3>6. Earlier(<<before[1], before[2], d[3] + l>>, date)
      BY <1>2, <2>1, <3>2 DEF Earlier, MonthNumber
    <3> QED
      BY <3>4, <3>5, <3>6
  <2> QED
    BY <2>2, <2>3
<1>3. T!DaysBack(date, days) = back[w]
  BY DEF T!DaysBack
<1> DEFINE X == {d \in CalendarDay : Earlier(d, date)}
           G == [d \in X |-> T!Borrowed(d)]
<1> HIDE DEF w, x
<1>4. Back(back)
  <2>1. x \in X /\ G \in [X -> X]
    BY <1>1, <1>2
  <2>2. PICK f : Iterates(f, X, x, G, 0, w)
    <3> HIDE DEF X, G
    <3>1. 0 \in {0, 1} /\ w \in Nat
      BY <1>1
    <3> QED
      BY <2>1, <3>1, Iteration
  <2>3. ASSUME NEW n \in 0..w
        PROVE  f[n] = IF n = 0 THEN x ELSE T!Borrowed(f[n - 1])
    <3>1. n # 0 => n - 1 \in 0..w
      BY <1>1
    <3> QED
      BY <2>2, <3>1 DEF Iterates
  <2>4. Back(f)
    <3> HIDE DEF G, X
    <3> QED
      BY <2>2, <2>3 DEF Iterates
  <2> HIDE DEF Back
  <2> QED
    BY <2>4
<1> HIDE DEF back
<1>5. \A n \in 0..w : back[n] \in X
  <2> DEFINE S == {n \in Nat : n \in 0..w => back[n] \in X}
  <2>1. 0 \in S
    BY <1>1, <1>4
  <2>2. ASSUME NEW n \in 0..(w - 1), n \in S PROVE n + 1 \in S
    <3>1. n \in 0..w /\ n + 1 \in 0..w /\ n + 1 # 0 /\ (n + 1) - 1 = n /\ n + 1 \in Nat
      BY <1>1
    <3>2. back[n + 1] = T!Borrowed(back[n])
      BY <1>4, <3>1
    <3>3. back[n] \in CalendarDay /\ Earlier(back[n], date)
      BY <2>2, <3>1
    <3> QED
      BY <1>2, <3>1, <3>2, <3>3
  <2> HIDE DEF S
  <2>3. \A n \in 0..w : n \in S
    BY <1>1, <2>1, <2>2, CountUp
  <2> QED
    BY <1>1, <2>3 DEF S
<1> QED
  BY <1>1, <1>3, <1>5

(* A step back in time leads to an earlier date, and months keep the day.  *)
Periods == {"monthly", "quarterly", "annual"}

IsAnchor(anchor, date, frequency) ==
    /\ anchor \in CalendarDay /\ Earlier(anchor, date)
    /\ frequency \in Periods => anchor[3] = date[3]

LEMMA PreviousAnchor ==
    ASSUME NEW date \in CalendarDay, NEW frequency \in T!Frequency,
           T!PreviousPeriodAnchor(date, frequency) # T!NoDate
    PROVE  IsAnchor(T!PreviousPeriodAnchor(date, frequency), date, frequency)
<1>1. CASE frequency = "daily"
  BY <1>1, EarlierDay DEF T!PreviousPeriodAnchor, IsAnchor, Periods
<1>2. CASE frequency = "weekly"
  BY <1>2, EarlierDay DEF T!PreviousPeriodAnchor, IsAnchor, Periods
<1>3. CASE frequency = "monthly"
  BY <1>3, EarlierMonth DEF T!PreviousPeriodAnchor, IsAnchor, Periods
<1>4. CASE frequency = "quarterly"
  BY <1>4, EarlierMonth DEF T!PreviousPeriodAnchor, IsAnchor, Periods
<1>5. CASE frequency = "annual"
  BY <1>5, EarlierMonth DEF T!PreviousPeriodAnchor, IsAnchor, Periods
<1> QED
  BY <1>1, <1>2, <1>3, <1>4, <1>5 DEF T!Frequency

LEMMA YearAnchor ==
    ASSUME NEW date \in CalendarDay, NEW frequency \in T!Frequency,
           T!YearOverYearAnchor(date, frequency) # T!NoDate
    PROVE  IsAnchor(T!YearOverYearAnchor(date, frequency), date, frequency)
<1>1. CASE frequency = "weekly"
  BY <1>1, EarlierDay DEF T!YearOverYearAnchor, IsAnchor, Periods
<1>2. CASE frequency # "weekly"
  BY <1>2, EarlierMonth DEF T!YearOverYearAnchor, IsAnchor, Periods
<1> QED
  BY <1>1, <1>2

-----------------------------------------------------------------------------
(* The dates of a window: as many as its roles, the last the date of the   *)
(* output, and except for a base, one after the other.                     *)
LEMMA EarlierTransitive ==
    ASSUME NEW a \in CalendarDay, NEW b \in CalendarDay, NEW c \in CalendarDay,
           Earlier(a, b), Earlier(b, c)
    PROVE  Earlier(a, c)
BY DEF Earlier, CalendarDay, MonthNumber

IsSuccession(dates, date, n) ==
    /\ dates \in Seq(CalendarDay) /\ Len(dates) = n /\ dates[n] = date
    /\ \A i, j \in 1 .. n : i < j => Earlier(dates[i], dates[j])
    /\ asked.frequency \in Periods => \A i \in 1 .. n : dates[i][3] = date[3]

LEMMA SuccessionExtended ==
    ASSUME NEW date, NEW n \in Nat \ {0}, NEW dates, IsSuccession(dates, date, n),
           NEW anchor, IsAnchor(anchor, dates[1], asked.frequency)
    PROVE  IsSuccession(<<anchor>> \o dates, date, n + 1)
<1> DEFINE all == <<anchor>> \o dates
<1>1. /\ dates \in Seq(CalendarDay) /\ Len(dates) = n /\ dates[1] \in CalendarDay
      /\ anchor \in CalendarDay /\ Earlier(anchor, dates[1])
  BY DEF IsSuccession, IsAnchor
<1>2. /\ all \in Seq(CalendarDay) /\ Len(all) = n + 1 /\ all[1] = anchor
      /\ \A i \in 2 .. n + 1 : i - 1 \in 1 .. n /\ all[i] = dates[i - 1]
  BY <1>1
<1> HIDE DEF all
<1>3. all[n + 1] = date
  BY <1>2 DEF IsSuccession
<1>4. ASSUME NEW i \in 1 .. n + 1, NEW j \in 1 .. n + 1, i < j
      PROVE  Earlier(all[i], all[j])
  <2>1. j \in 2 .. n + 1 /\ all[j] = dates[j - 1] /\ j - 1 \in 1 .. n
    BY <1>2, <1>4
  <2>2. CASE i = 1 /\ j = 2
    BY <1>1, <1>2, <2>1, <2>2
  <2>3. CASE i = 1 /\ j # 2
    <3>1. 1 \in 1 .. n /\ 1 < j - 1 /\ dates[j - 1] \in CalendarDay
      BY <1>1, <2>1, <2>3
    <3>2. Earlier(dates[1], dates[j - 1])
      BY <2>1, <3>1 DEF IsSuccession
    <3> QED
      BY <1>1, <1>2, <2>1, <2>3, <3>1, <3>2, EarlierTransitive
  <2>4. CASE i # 1
    <3>1. i \in 2 .. n + 1 /\ i - 1 \in 1 .. n /\ i - 1 < j - 1
      BY <1>4, <2>4
    <3> QED
      BY <1>2, <2>1, <3>1 DEF IsSuccession
  <2> QED
    BY <2>2, <2>3, <2>4
<1>5. ASSUME asked.frequency \in Periods, NEW i \in 1 .. n + 1
      PROVE  all[i][3] = date[3]
  <2>1. dates[1][3] = date[3] /\ anchor[3] = date[3]
    BY <1>1, <1>5 DEF IsSuccession, IsAnchor
  <2>2. CASE i = 1
    BY <1>2, <2>1, <2>2
  <2>3. CASE i # 1
    <3>1. i \in 2 .. n + 1
      BY <2>3
    <3> QED
      BY <1>2, <1>5, <3>1 DEF IsSuccession
  <2> QED
    BY <2>2, <2>3
<1> QED
  BY <1>2, <1>3, <1>4, <1>5 DEF all, IsSuccession

LEMMA RollingWindow ==
    ASSUME NEW date \in CalendarDay, asked.frequency \in T!Frequency,
           asked.window \in Nat \ {0}, T!RollingDates(date) # <<>>
    PROVE  IsSuccession(T!RollingDates(date), date, asked.window)
<1> DEFINE X == Seq(CalendarDay)
           w == asked.window
           Extended(s) ==
               LET anchor == T!PreviousPeriodAnchor(s[1], asked.frequency)
               IN  IF anchor = T!NoDate THEN <<>> ELSE <<anchor>> \o s
           Following(s) == IF s = <<>> THEN <<>> ELSE Extended(s)
           F == [s \in X |-> Following(s)]
           Back(f) == f = [n \in 1 .. w |-> IF n = 1 THEN <<date>> ELSE Following(f[n - 1])]
           back == CHOOSE f : Back(f)
<1>1. T!RollingDates(date) = back[w]
  BY DEF T!RollingDates
<1>2. ASSUME NEW s \in X, s # <<>>, Extended(s) # <<>>
      PROVE  /\ IsAnchor(T!PreviousPeriodAnchor(s[1], asked.frequency), s[1], asked.frequency)
             /\ Extended(s) = <<T!PreviousPeriodAnchor(s[1], asked.frequency)>> \o s
  <2>1. s[1] \in CalendarDay
    BY <1>2
  <2> QED
    BY <1>2, <2>1, PreviousAnchor
<1> HIDE DEF Extended
<1>3. F \in [X -> X]
  <2>1. ASSUME NEW s \in X PROVE Following(s) \in X
    <3>1. CASE s = <<>> \/ Extended(s) = <<>>
      <4>1. Following(s) = <<>> /\ <<>> \in Seq(CalendarDay)
        BY <3>1
      <4> QED
        BY <4>1
    <3>2. CASE s # <<>> /\ Extended(s) # <<>>
      <4>1. PICK anchor : anchor \in CalendarDay /\ Extended(s) = <<anchor>> \o s
        BY <1>2, <3>2 DEF IsAnchor
      <4>2. <<anchor>> \o s \in Seq(CalendarDay)
        BY <4>1
      <4> QED
        BY <3>2, <4>1, <4>2
    <3> QED
      BY <3>1, <3>2
  <2> QED
    BY <2>1
<1>4. Back(back)
  <2>1. PICK f : Iterates(f, X, <<date>>, F, 1, w)
    <3>1. 1 \in {0, 1} /\ w \in Nat /\ <<date>> \in X
      OBVIOUS
    <3> HIDE DEF X, F, w
    <3> QED
      BY <1>3, <3>1, Iteration
  <2>2. ASSUME NEW n \in 1 .. w
        PROVE  f[n] = IF n = 1 THEN <<date>> ELSE Following(f[n - 1])
    <3>1. n # 1 => n - 1 \in 1 .. w
      OBVIOUS
    <3>2. n # 1 => F[f[n - 1]] = Following(f[n - 1])
      <4> HIDE DEF X, Following
      <4> QED
        BY <2>1, <3>1 DEF Iterates
    <3> HIDE DEF F
    <3> QED
      BY <2>1, <3>2 DEF Iterates
  <2>3. Back(f)
    <3> HIDE DEF F, X, Following
    <3> QED
      BY <2>1, <2>2 DEF Iterates
  <2> HIDE DEF Back
  <2> QED
    BY <2>3
<1> HIDE DEF back
<1> DEFINE S == {k \in Nat : k + 1 \in 1 .. w =>
                     back[k + 1] = <<>> \/ IsSuccession(back[k + 1], date, k + 1)}
<1>5. 0 \in S
  <2>1. w \in Nat /\ 1 \in 1 .. w
    OBVIOUS
  <2>2. back[1] = <<date>>
    BY <1>4, <2>1
  <2>3. IsSuccession(<<date>>, date, 1)
    BY DEF IsSuccession
  <2> QED
    BY <2>2, <2>3
<1>6. ASSUME NEW i \in 0 .. (w - 1), i \in S PROVE i + 1 \in S
  <2>1. SUFFICES ASSUME i + 2 \in 1 .. w, back[i + 2] # <<>>
                 PROVE  IsSuccession(back[i + 2], date, i + 2)
    BY <1>6
  <2>2. /\ i + 1 \in Nat \ {0} /\ i + 1 \in 1 .. w /\ (i + 2) - 1 = i + 1 /\ i + 2 # 1
        /\ (i + 1) + 1 = i + 2
    BY <2>1
  <2>3. back[i + 2] = Following(back[i + 1])
    BY <1>4, <2>1, <2>2
  <2>4. back[i + 1] # <<>> /\ back[i + 2] = Extended(back[i + 1])
    BY <2>1, <2>3
  <2>5. IsSuccession(back[i + 1], date, i + 1) /\ back[i + 1] \in X
    BY <1>6, <2>2, <2>4 DEF IsSuccession
  <2>6. /\ IsAnchor(T!PreviousPeriodAnchor(back[i + 1][1], asked.frequency), back[i + 1][1], asked.frequency)
        /\ back[i + 2] = <<T!PreviousPeriodAnchor(back[i + 1][1], asked.frequency)>> \o back[i + 1]
    BY <1>2, <2>1, <2>4, <2>5
  <2> QED
    BY <2>2, <2>5, <2>6, SuccessionExtended
<1>7. w - 1 \in S
  <2> HIDE DEF S
  <2>1. w \in Nat \ {0} /\ w - 1 \in Nat /\ w - 1 \in 0 .. (w - 1)
    OBVIOUS
  <2>2. \A i \in 0 .. (w - 1) - 1 : i \in S => i + 1 \in S
    BY <1>6, <2>1
  <2> QED
    BY <1>5, <2>1, <2>2, CountUp
<1> QED
  BY <1>1, <1>7

LEMMA SizeTyped ==
    ASSUME T!TransformationAssumption, asked \in Definitions
    PROVE  /\ T!WindowSize \in Nat \ {0} /\ asked.type \in T!Binary \cup T!Rolling \cup T!Unary
           /\ asked.frequency \in T!Frequency /\ asked.dates \subseteq CalendarDay
           /\ asked.dates \subseteq T!Date
           /\ asked.type \in T!Rolling => asked.window \in Nat /\ asked.window >= 2
           /\ asked.base \in CalendarDay
<1>1. asked \in T!Definition /\ (asked.type \in T!Rolling => asked.window >= 2)
  BY DEF T!TransformationAssumption
<1>2. T!Date \subseteq CalendarDay
  BY DEF T!Date, CalendarDay
<1> QED
  BY <1>1, <1>2 DEF T!Definition, T!WindowSize, T!Binary, T!Rolling

(* A window is not there, or it has a date for each role. *)
LEMMA WindowDates ==
    ASSUME T!TransformationAssumption, asked \in Definitions, NEW date \in asked.dates,
           T!RequiredTimestamps(date) # <<>>
    PROVE  LET dates == T!RequiredTimestamps(date) IN
           /\ asked.type # "rebase_index" => IsSuccession(dates, date, T!WindowSize)
           /\ asked.type = "rebase_index" => dates = <<asked.base, date>>
<1>1. date \in CalendarDay /\ asked.frequency \in T!Frequency
  BY SizeTyped
<1>2. ASSUME NEW anchor, T!Anchored(anchor, date) # <<>>,
             anchor # T!NoDate => IsAnchor(anchor, date, asked.frequency)
      PROVE  IsSuccession(T!Anchored(anchor, date), date, 2)
  <2>1. T!Anchored(anchor, date) = <<anchor, date>> /\ IsAnchor(anchor, date, asked.frequency)
    BY <1>2 DEF T!Anchored
  <2>2. anchor \in CalendarDay /\ Earlier(anchor, date)
    BY <2>1 DEF IsAnchor
  <2>3. \A i, j \in 1 .. 2 : i < j => i = 1 /\ j = 2
    OBVIOUS
  <2> QED
    BY <1>1, <2>1, <2>2, <2>3 DEF IsSuccession, IsAnchor
<1>3. CASE asked.type \in T!Binary
  <2>1. T!RequiredTimestamps(date) = <<date>> /\ T!WindowSize = 1 /\ asked.type # "rebase_index"
    BY <1>3 DEF T!RequiredTimestamps, T!WindowSize, T!Binary, T!Rolling
  <2>2. \A i, j \in 1 .. 1 : ~(i < j)
    OBVIOUS
  <2>3. IsSuccession(<<date>>, date, 1)
    BY <1>1, <2>2 DEF IsSuccession
  <2> QED
    BY <2>1, <2>3
<1>4. CASE asked.type \in T!Rolling
  <2>1. T!RequiredTimestamps(date) = T!RollingDates(date) /\ T!WindowSize = asked.window
        /\ asked.type # "rebase_index"
    BY <1>4 DEF T!RequiredTimestamps, T!WindowSize, T!Binary, T!Rolling
  <2> QED
    BY <1>1, <1>4, <2>1, SizeTyped, RollingWindow
<1>5. CASE asked.type \in {"difference", "percent_change"}
  <2>1. /\ T!RequiredTimestamps(date) = T!Anchored(T!PreviousPeriodAnchor(date, asked.frequency), date)
        /\ T!WindowSize = 2 /\ asked.type # "rebase_index"
    BY <1>5 DEF T!RequiredTimestamps, T!WindowSize, T!Binary, T!Rolling
  <2> QED
    BY <1>1, <1>2, <2>1, PreviousAnchor
<1>6. CASE asked.type = "year_over_year_percent_change"
  <2>1. /\ T!RequiredTimestamps(date) = T!Anchored(T!YearOverYearAnchor(date, asked.frequency), date)
        /\ T!WindowSize = 2 /\ asked.type # "rebase_index"
    BY <1>6 DEF T!RequiredTimestamps, T!WindowSize, T!Binary, T!Rolling
  <2> QED
    BY <1>1, <1>2, <2>1, YearAnchor
<1>7. CASE asked.type = "rebase_index"
  BY <1>7 DEF T!RequiredTimestamps, T!Binary, T!Rolling
<1> QED
  BY <1>3, <1>4, <1>5, <1>6, <1>7, SizeTyped DEF T!Unary

-----------------------------------------------------------------------------
(* An output was made of windows whose points are states of the store.     *)
IsState(point, input) ==
    /\ <<input, point.date>> \in T!Slots
    /\ point.n \in Nat \ {0} /\ point.n \in DOMAIN store[<<input, point.date>>]
    /\ point.value = store[<<input, point.date>>][point.n].value
    /\ point.value \in Int

IsWindow(window, input, date) ==
    LET size == T!WindowSize IN
    /\ DOMAIN window = 1 .. size /\ Len(window) = size
    /\ \A r \in 1 .. size : IsState(window[r], input)
    /\ window[size].date = date
    /\ asked.type # "rebase_index" =>
         /\ \A r, q \in 1 .. size : r # q => window[r].date # window[q].date
         /\ asked.frequency \in Periods => \A r \in 1 .. size : window[r].date[3] = date[3]
    /\ asked.type = "rebase_index" => window[1].value # 0

IsMadeOf(output, windows, date) ==
    /\ \A i \in T!Inputs(asked) : IsWindow(windows[i], i, date)
    /\ DOMAIN windows = T!Inputs(asked)
    /\ output.result = T!Evaluate(windows) /\ output.result.reason = "none"
    /\ output.lineage = T!Lineage(windows)

IsTraced(date, output) == \E windows : IsMadeOf(output, windows, date)

LEMMA InputsTyped ==
    /\ T!Inputs(asked) \subseteq 1 .. 2 /\ 1 \in T!Inputs(asked)
    /\ asked.type \in T!Binary => 2 \in T!Inputs(asked)
    /\ IsFiniteSet(T!Inputs(asked))
<1>1. /\ T!Inputs(asked) \subseteq 1 .. 2 /\ 1 \in T!Inputs(asked)
      /\ asked.type \in T!Binary => 2 \in T!Inputs(asked)
  BY DEF T!Inputs
<1>2. IsFiniteSet(1 .. 2)
  <2>1. 1 \in Int /\ 2 \in Int
    OBVIOUS
  <2> QED
    BY <2>1, FS_Interval
<1> QED
  BY <1>1, <1>2, FS_Subset

LEMMA SameCardinality == ASSUME NEW S PROVE T!Cardinality(S) = Cardinality(S)
BY DEF T!Cardinality, Cardinality

Link(windows, i, r) ==
    [input |-> i, role |-> r, date |-> windows[i][r].date, n |-> windows[i][r].n]

(* The lineage has one link for each role of each input. *)
LEMMA LinksOfRoles ==
    ASSUME T!TransformationAssumption, asked \in Definitions,
           NEW output, NEW windows, NEW date, IsMadeOf(output, windows, date)
    PROVE  output.lineage =
             {Link(windows, p[1], p[2]) : p \in T!Inputs(asked) \X (1 .. T!WindowSize)}
<1> DEFINE I == T!Inputs(asked)
           R == 1 .. T!WindowSize
<1>1. /\ DOMAIN windows = I
      /\ \A i \in I : DOMAIN windows[i] = R /\ \A r \in R : windows[i][r].n # 0
  BY DEF IsMadeOf, IsWindow, IsState
<1>2. output.lineage = T!Lineage(windows)
  BY DEF IsMadeOf
<1> HIDE DEF I, R
<1>3. T!Lineage(windows) =
        UNION {{Link(windows, i, r) : r \in {q \in DOMAIN windows[i] : windows[i][q].n # 0}} :
                 i \in DOMAIN windows}
  BY DEF T!Lineage, Link
<1>4. T!Lineage(windows) = UNION {{Link(windows, i, r) : r \in R} : i \in I}
  <2>1. \A i \in I : {q \in DOMAIN windows[i] : windows[i][q].n # 0} = R
    BY <1>1
  <2> QED
    BY <1>1, <1>3, <2>1
<1>5. UNION {{Link(windows, i, r) : r \in R} : i \in I} = {Link(windows, p[1], p[2]) : p \in I \X R}
  <2>1. ASSUME NEW i \in I, NEW r \in R
        PROVE  \E p \in I \X R : Link(windows, i, r) = Link(windows, p[1], p[2])
    <3>1. <<i, r>> \in I \X R /\ <<i, r>>[1] = i /\ <<i, r>>[2] = r
      OBVIOUS
    <3> QED
      BY <3>1
  <2>2. \A p \in I \X R : p[1] \in I /\ p[2] \in R
    OBVIOUS
  <2> QED
    BY <2>1, <2>2
<1> QED
  BY <1>2, <1>4, <1>5 DEF I, R

LEMMA SourceOfRole ==
    ASSUME T!TransformationAssumption, asked \in Definitions,
           NEW output, NEW windows, NEW date, IsMadeOf(output, windows, date),
           NEW i \in T!Inputs(asked), NEW r \in 1 .. T!WindowSize
    PROVE  T!Source(output, i, r) = windows[i][r].value
<1> DEFINE link == CHOOSE l \in output.lineage : l.input = i /\ l.role = r
           this == Link(windows, i, r)
           Pairs == T!Inputs(asked) \X (1 .. T!WindowSize)
<1>1. output.lineage = {Link(windows, p[1], p[2]) : p \in Pairs}
  BY LinksOfRoles
<1>2. this \in output.lineage /\ this.input = i /\ this.role = r
  <2>1. <<i, r>> \in Pairs /\ <<i, r>>[1] = i /\ <<i, r>>[2] = r
    OBVIOUS
  <2>2. this.input = i /\ this.role = r
    BY DEF Link
  <2> QED
    BY <1>1, <2>1, <2>2
<1>3. ASSUME NEW l \in output.lineage, l.input = i, l.role = r PROVE l = this
  <2>1. PICK p \in Pairs : l = Link(windows, p[1], p[2])
    BY <1>1, <1>3
  <2>2. l.input = p[1] /\ l.role = p[2]
    BY <2>1 DEF Link
  <2> QED
    BY <1>3, <2>1, <2>2
<1>4. link = this
  BY <1>2, <1>3
<1>5. IsState(windows[i][r], i)
  BY DEF IsMadeOf, IsWindow
<1>6. T!Source(output, i, r) = store[<<link.input, link.date>>][link.n].value
  BY DEF T!Source
<1> HIDE DEF link
<1> QED
  BY <1>4, <1>5, <1>6 DEF Link, IsState

(* A window has as many links as roles, and except for a base as many      *)
(* dates; a date does not stand in for another.                            *)
LEMMA LineageIsComplete ==
    ASSUME T!TransformationAssumption, asked \in Definitions,
           NEW output, NEW windows, NEW date, IsMadeOf(output, windows, date)
    PROVE  T!IsComplete(date, output.lineage)
<1> DEFINE I == T!Inputs(asked)
           size == T!WindowSize
           R == 1 .. size
           links == output.lineage
           dates(i) == {l.date : l \in {k \in links : k.input = i}}
<1>1. size \in Nat \ {0} /\ IsFiniteSet(R) /\ Cardinality(R) = size
  <2>1. size \in Nat \ {0}
    BY SizeTyped
  <2>2. 1 \in Int /\ size \in Int /\ ~(1 > size) /\ size - 1 + 1 = size
    BY <2>1
  <2> HIDE DEF size
  <2>3. IsFiniteSet(1 .. size) /\ Cardinality(1 .. size) = size
    BY <2>2, FS_Interval
  <2> QED
    BY <2>1, <2>3
<1>2. links = {Link(windows, p[1], p[2]) : p \in I \X R}
  BY LinksOfRoles
<1>3. \A i \in I : IsWindow(windows[i], i, date)
  BY DEF IsMadeOf
<1> HIDE DEF I, size
<1>4. \A l \in links : /\ l.input \in I /\ l.role \in R
                       /\ l.date = windows[l.input][l.role].date
  <2>1. ASSUME NEW p \in I \X R
        PROVE  LET l == Link(windows, p[1], p[2]) IN
               l.input \in I /\ l.role \in R /\ l.date = windows[l.input][l.role].date
    BY DEF Link
  <2> QED
    BY <1>2, <2>1
<1>5. Cardinality(links) = size * Cardinality(I)
  <2> DEFINE f == [p \in I \X R |-> Link(windows, p[1], p[2])]
  <2>1. f \in Bijection(I \X R, links)
    <3>1. ASSUME NEW p \in I \X R, NEW q \in I \X R, f[p] = f[q] PROVE p = q
      <4>1. p[1] = q[1] /\ p[2] = q[2]
        BY <3>1 DEF Link
      <4> QED
        BY <4>1
    <3>2. f \in [I \X R -> links] /\ \A l \in links : \E p \in I \X R : f[p] = l
      BY <1>2
    <3> HIDE DEF f
    <3> QED
      BY <3>1, <3>2 DEF Bijection, Injection, Surjection, IsInjective
  <2>2. IsFiniteSet(I) /\ IsFiniteSet(I \X R) /\ Cardinality(I \X R) = Cardinality(I) * Cardinality(R)
    <3>1. IsFiniteSet(I)
      BY InputsTyped DEF I
    <3> QED
      BY <1>1, <3>1, FS_Product
  <2>3. Cardinality(links) = Cardinality(I \X R)
    <3> HIDE DEF f
    <3>1. ExistsBijection(I \X R, links)
      BY <2>1 DEF ExistsBijection
    <3> QED
      BY <2>2, <3>1, FS_Bijection
  <2>4. Cardinality(I) \in Nat
    BY <2>2, FS_CardinalityType
  <2> QED
    BY <1>1, <2>2, <2>3, <2>4
<1>6. \A l \in links : l.role = size => l.date = date
  BY <1>3, <1>4 DEF IsWindow, size
<1>7. ASSUME asked.type # "rebase_index", NEW i \in I
      PROVE  Cardinality(dates(i)) = size
  <2> DEFINE f == [r \in R |-> windows[i][r].date]
  <2>1. \A r, q \in R : r # q => windows[i][r].date # windows[i][q].date
    BY <1>3, <1>7 DEF IsWindow, size
  <2>2. dates(i) = {windows[i][r].date : r \in R}
    <3>1. ASSUME NEW r \in R
          PROVE  \E l \in links : l.input = i /\ l.date = windows[i][r].date
      <4>1. <<i, r>> \in I \X R /\ <<i, r>>[1] = i /\ <<i, r>>[2] = r
        OBVIOUS
      <4>2. Link(windows, i, r) \in links
        BY <1>2, <4>1
      <4> QED
        BY <4>2 DEF Link
    <3> HIDE DEF links
    <3> QED
      BY <1>4, <3>1
  <2>3. f \in Bijection(R, dates(i))
    <3> HIDE DEF dates
    <3> QED
      BY <2>1, <2>2 DEF Bijection, Injection, Surjection, IsInjective
  <2> HIDE DEF f, dates
  <2>4. ExistsBijection(R, dates(i))
    BY <2>3 DEF ExistsBijection
  <2> QED
    BY <1>1, <2>4, FS_Bijection
<1>8. ASSUME asked.type # "rebase_index", asked.frequency \in Periods
      PROVE  \A l \in links : l.date[3] = date[3]
  BY <1>3, <1>4, <1>8 DEF IsWindow, size
<1>9. \A i \in I : T!Cardinality(dates(i)) = Cardinality(dates(i))
  BY SameCardinality
<1>10. T!Cardinality(links) = Cardinality(links) /\ T!Cardinality(I) = Cardinality(I)
  BY SameCardinality
<1> HIDE DEF links
<1> QED
  BY <1>5, <1>6, <1>7, <1>8, <1>9, <1>10 DEF T!IsComplete, I, size, Periods, links

-----------------------------------------------------------------------------
(* Sums.  What holds of no elements, and of some after it holds of all of  *)
(* them but the one that comes next, holds of every part of a finite set.  *)
Chosen(s) == CHOOSE x \in s : TRUE

Rest(s) == s \ {Chosen(s)}

LEMMA RestFacts ==
    ASSUME NEW R, NEW s \in SUBSET R, s # {}
    PROVE  Chosen(s) \in s /\ Chosen(s) \in R /\ Rest(s) \in SUBSET R /\ Rest(s) # s
<1>1. PICK x : x \in s
  OBVIOUS
<1>2. Chosen(s) \in s
  BY <1>1 DEF Chosen
<1> QED
  BY <1>2 DEF Rest

LEMMA PartByPart ==
    ASSUME NEW R, IsFiniteSet(R), NEW S, {} \in S,
           \A s \in SUBSET R : s # {} /\ Rest(s) \in S => s \in S
    PROVE  SUBSET R \subseteq S
<1> DEFINE Outside == {s \in SUBSET R : s \notin S}
<1>1. SUFFICES ASSUME Outside # {} PROVE FALSE
  OBVIOUS
<1>2. IsWellFoundedOn(StrictSubsetOrdering(R), FiniteSubsetsOf(R))
  BY FS_StrictSubsetOrderingWellFounded
<1>3. Outside \subseteq FiniteSubsetsOf(R)
  BY FS_Subset DEF FiniteSubsetsOf
<1>4. PICK s \in Outside : \A t \in Outside : ~(<<t, s>> \in StrictSubsetOrdering(R))
  <2> HIDE DEF Outside
  <2> QED
    BY <1>1, <1>2, <1>3, WFMin
<1>5. s \in SUBSET R /\ s \notin S /\ s # {}
  OBVIOUS
<1>6. Rest(s) \in SUBSET R /\ Rest(s) \subseteq s /\ Rest(s) # s
  BY <1>5, RestFacts DEF Rest
<1>7. <<Rest(s), s>> \in StrictSubsetOrdering(R)
  BY <1>5, <1>6 DEF StrictSubsetOrdering
<1>8. Rest(s) \in S
  BY <1>4, <1>6, <1>7
<1> QED
  BY <1>5, <1>8

IsSum(sum, f) ==
    sum = [s \in SUBSET DOMAIN f |-> IF s = {} THEN 0 ELSE f[Chosen(s)] + sum[Rest(s)]]

Sum(f) == CHOOSE sum : IsSum(sum, f)

LEMMA SumExists ==
    ASSUME NEW n \in Nat, NEW f \in [1 .. n -> Int]
    PROVE  \E sum : IsSum(sum, f)
<1> DEFINE R == 1 .. n
           X == [SUBSET R -> Int]
           x == [s \in SUBSET R |-> 0]
           Over(g) == [s \in SUBSET R |-> IF s = {} THEN 0 ELSE f[Chosen(s)] + g[Rest(s)]]
           F == [g \in X |-> Over(g)]
<1>1. IsFiniteSet(R) /\ Cardinality(R) = n
  <2>1. 1 \in Int /\ n \in Int /\ (1 > n => n = 0) /\ n - 1 + 1 = n
    OBVIOUS
  <2> QED
    BY <2>1, FS_Interval
<1>2. \A s \in SUBSET R : s # {} => Chosen(s) \in R /\ Rest(s) \in SUBSET R
  BY RestFacts
<1>3. x \in X /\ F \in [X -> X]
  <2>1. ASSUME NEW g \in X PROVE Over(g) \in X
    <3>1. \A s \in SUBSET R : s # {} => f[Chosen(s)] \in Int /\ g[Rest(s)] \in Int
      BY <1>2
    <3> QED
      BY <3>1
  <2>2. x \in X
    OBVIOUS
  <2> HIDE DEF Over, X, x
  <2> QED
    BY <2>1, <2>2
<1>4. PICK it : Iterates(it, X, x, F, 0, n + 1)
  <2>1. 0 \in {0, 1} /\ n + 1 \in Nat
    OBVIOUS
  <2> HIDE DEF X, x, F
  <2> QED
    BY <1>3, <2>1, Iteration
<1>5. /\ it[0] = x
      /\ \A k \in 0 .. n : it[k] \in X /\ it[k + 1] = Over(it[k])
  <2>1. ASSUME NEW k \in 0 .. n PROVE it[k] \in X /\ it[k + 1] = F[it[k]]
    <3>1. k \in 0 .. n + 1 /\ k + 1 \in 0 .. n + 1 /\ k + 1 # 0 /\ (k + 1) - 1 = k
      OBVIOUS
    <3> HIDE DEF X, x, F
    <3> QED
      BY <1>4, <3>1 DEF Iterates
  <2>2. 0 \in 0 .. n + 1
    OBVIOUS
  <2>3. it[0] = x
    BY <1>4, <2>2 DEF Iterates
  <2> HIDE DEF X, x, Over
  <2> QED
    BY <2>1, <2>3
<1> DEFINE S == {k \in Nat : k \in 0 .. n =>
                   \A s \in SUBSET R : Cardinality(s) <= k => it[k + 1][s] = it[k][s]}
<1>6. \A s \in SUBSET R : /\ Cardinality(s) \in Nat
                          /\ Cardinality(s) = 0 <=> s = {}
                          /\ s # {} => Cardinality(Rest(s)) = Cardinality(s) - 1
  <2> SUFFICES ASSUME NEW s \in SUBSET R
               PROVE  /\ Cardinality(s) \in Nat
                      /\ Cardinality(s) = 0 <=> s = {}
                      /\ s # {} => Cardinality(Rest(s)) = Cardinality(s) - 1
    OBVIOUS
  <2>1. IsFiniteSet(s)
    BY <1>1, FS_Subset
  <2>2. s # {} => Chosen(s) \in s
    BY RestFacts
  <2> HIDE DEF R
  <2> QED
    BY <2>1, <2>2, FS_CardinalityType, FS_EmptySet, FS_RemoveElement DEF Rest
<1> HIDE DEF R
<1>7. 0 \in S
  <2>1. ASSUME NEW s \in SUBSET R, Cardinality(s) <= 0 PROVE it[1][s] = it[0][s]
    <3>1. s = {} /\ 0 \in 0 .. n /\ 0 + 1 = 1
      BY <1>6, <2>1
    <3>2. it[1] = Over(it[0])
      BY <1>5, <3>1
    <3>3. x[s] = 0 /\ Over(it[0])[s] = 0
      BY <3>1
    <3> HIDE DEF x, Over
    <3> QED
      BY <1>5, <3>2, <3>3
  <2> QED
    BY <2>1
<1>8. ASSUME NEW k \in 0 .. (n - 1), k \in S PROVE k + 1 \in S
  <2>1. k + 1 \in Nat /\ k \in 0 .. n /\ k + 1 \in 0 .. n
    OBVIOUS
  <2>2. ASSUME NEW s \in SUBSET R, Cardinality(s) <= k + 1
        PROVE  it[(k + 1) + 1][s] = it[k + 1][s]
    <3>1. it[k + 1] = Over(it[k]) /\ it[(k + 1) + 1] = Over(it[k + 1])
      BY <1>5, <2>1
    <3>2. CASE s = {}
      BY <3>1, <3>2
    <3>3. CASE s # {}
      <4>1. Rest(s) \in SUBSET R /\ Cardinality(Rest(s)) <= k
        BY <1>2, <1>6, <2>2, <3>3
      <4>2. it[k + 1][Rest(s)] = it[k][Rest(s)]
        BY <1>8, <2>1, <4>1
      <4> QED
        BY <3>1, <3>3, <4>2
    <3> QED
      BY <3>2, <3>3
  <2> QED
    BY <2>1, <2>2
<1>9. n \in S
  <2> HIDE DEF S
  <2>1. \A i \in 0 .. n : i \in S
    BY <1>7, <1>8, CountUp
  <2> QED
    BY <2>1
<1>10. it[n + 1] = it[n]
  <2>1. \A s \in SUBSET R : Cardinality(s) <= n
    BY <1>1, FS_Subset
  <2>2. n \in 0 .. n
    OBVIOUS
  <2>3. \A s \in SUBSET R : it[n + 1][s] = it[n][s]
    BY <1>9, <2>1, <2>2
  <2>4. it[n + 1] = Over(it[n]) /\ it[n] \in X
    BY <1>5, <2>2
  <2> QED
    BY <2>3, <2>4
<1>11. it[n] = Over(it[n])
  <2>1. n \in 0 .. n
    OBVIOUS
  <2> HIDE DEF Over
  <2> QED
    BY <1>5, <1>10, <2>1
<1>12. DOMAIN f = R
  BY DEF R
<1>13. IsSum(it[n], f)
  BY <1>11, <1>12 DEF IsSum
<1> QED
  BY <1>13

LEMMA SumFacts ==
    ASSUME NEW n \in Nat, NEW f \in [1 .. n -> Int]
    PROVE  /\ Sum(f) \in [SUBSET (1 .. n) -> Int]
           /\ Sum(f)[{}] = 0
           /\ \A s \in SUBSET (1 .. n) : s # {} => Sum(f)[s] = f[Chosen(s)] + Sum(f)[Rest(s)]
<1> DEFINE R == 1 .. n
           sum == Sum(f)
           S == {s \in SUBSET R : sum[s] \in Int}
<1>1. IsSum(sum, f)
  BY SumExists DEF Sum
<1>2. IsFiniteSet(R)
  <2>1. 1 \in Int /\ n \in Int
    OBVIOUS
  <2> QED
    BY <2>1, FS_Interval
<1>3. DOMAIN f = R
  OBVIOUS
<1> HIDE DEF R, sum
<1>4. DOMAIN sum = SUBSET R
  BY <1>1, <1>3 DEF IsSum
<1>5. \A s \in SUBSET R : sum[s] = IF s = {} THEN 0 ELSE f[Chosen(s)] + sum[Rest(s)]
  BY <1>1, <1>3 DEF IsSum
<1>6. {} \in S
  <2>1. {} \in SUBSET R /\ sum[{}] = 0
    BY <1>5
  <2> QED
    BY <2>1
<1>7. ASSUME NEW s \in SUBSET R, s # {}, Rest(s) \in S PROVE s \in S
  <2>1. f[Chosen(s)] \in Int
    BY <1>3, <1>7, RestFacts DEF R
  <2> QED
    BY <1>5, <1>7, <2>1
<1>8. SUBSET R \subseteq S
  <2> HIDE DEF S
  <2> QED
    BY <1>2, <1>6, <1>7, PartByPart
<1>9. sum \in [SUBSET R -> Int]
  <2>1. sum = [s \in SUBSET R |-> sum[s]]
    BY <1>1, <1>3 DEF IsSum
  <2> QED
    BY <1>8, <2>1
<1> QED
  BY <1>5, <1>9 DEF R, sum

(* The sum of the squared distances from the mean, multiplied by the size, *)
(* is found from the sum of the squares and the sum.                       *)
Square(x) == x * x

Distance(n, x, t) == (n * x - t) * (n * x - t)

FromSums(n, t, squares, sum, count) == (n * n) * squares - (2 * n * t) * sum + (t * t) * count

LEMMA FromSumsFacts ==
    ASSUME NEW n \in Int, NEW t \in Int
    PROVE  /\ FromSums(n, t, 0, 0, 0) = 0
           /\ \A q \in Int : FromSums(n, t, q, t, n) = n * (n * q - t * t)
<1>1. FromSums(n, t, 0, 0, 0) = 0
  BY DEF FromSums
<1>2. \A q \in Int : FromSums(n, t, q, t, n) = n * (n * q - t * t)
  BY DEF FromSums
<1> QED
  BY <1>1, <1>2

AddsUp(n, t, x, q, s, c) ==
    Distance(n, x, t) + FromSums(n, t, q, s, c) = FromSums(n, t, Square(x) + q, x + s, c + 1)

LEMMA NextDistance ==
    ASSUME NEW n \in Int, NEW t \in Int, NEW x \in Int, NEW q \in Int, NEW s \in Int, NEW c \in Int
    PROVE  Distance(n, x, t) \in Nat /\ AddsUp(n, t, x, q, s, c)
<1>1. Distance(n, x, t) \in Nat
  <2>1. PICK d \in Int : d = n * x - t
    OBVIOUS
  <2>2. d * d \in Nat
    OBVIOUS
  <2> QED
    BY <2>1, <2>2 DEF Distance
<1>2. AddsUp(n, t, x, q, s, c)
  BY DEF AddsUp, FromSums, Distance, Square
<1> QED
  BY <1>1, <1>2

SquaresOf(f, n) == [r \in 1 .. n |-> Square(f[r])]

DistancesOf(f, n, t) == [r \in 1 .. n |-> Distance(n, f[r], t)]

LEMMA SumOfDistances ==
    ASSUME NEW n \in Nat, NEW f \in [1 .. n -> Int], NEW t, t = Sum(f)[1 .. n]
    PROVE  LET squares == Sum(SquaresOf(f, n))[1 .. n]
               distances == Sum(DistancesOf(f, n, t))[1 .. n]
           IN  /\ t \in Int /\ squares \in Int /\ distances \in Nat
               /\ distances = n * (n * squares - t * t)
<1> DEFINE R == 1 .. n
           q == SquaresOf(f, n)
           g == DistancesOf(f, n, t)
           S == {s \in SUBSET R :
                   /\ Sum(g)[s] \in Nat
                   /\ Sum(g)[s] = FromSums(n, t, Sum(q)[s], Sum(f)[s], Cardinality(s))}
<1>1. IsFiniteSet(R) /\ Cardinality(R) = n /\ n \in Int
  <2>1. 1 \in Int /\ n \in Int /\ (1 > n => n = 0) /\ n - 1 + 1 = n
    OBVIOUS
  <2> QED
    BY <2>1, FS_Interval
<1>2. t \in Int
  <2>1. 1 .. n \in SUBSET (1 .. n)
    OBVIOUS
  <2>2. Sum(f) \in [SUBSET (1 .. n) -> Int]
    BY SumFacts
  <2> QED
    BY <2>1, <2>2
<1>3. /\ g \in [R -> Int] /\ q \in [R -> Int]
      /\ \A r \in R : /\ f[r] \in Int /\ q[r] = Square(f[r])
                      /\ g[r] = Distance(n, f[r], t)
  <2>1. \A r \in R : f[r] \in Int
    OBVIOUS
  <2>2. \A r \in R : Square(f[r]) \in Int /\ Distance(n, f[r], t) \in Int
    <3>1. \A r \in R : Square(f[r]) \in Int
      BY <2>1 DEF Square
    <3>2. \A x \in Int : Distance(n, x, t) \in Nat
      BY <1>1, <1>2, NextDistance
    <3>3. ASSUME NEW r \in R PROVE Square(f[r]) \in Int /\ Distance(n, f[r], t) \in Int
      <4>1. f[r] \in Int
        BY <2>1
      <4>2. Distance(n, f[r], t) \in Nat
        BY <3>2, <4>1, Zenon
      <4>3. Distance(n, f[r], t) \in Int
        BY <4>2
      <4> QED
        BY <3>1, <4>3, Zenon
    <3> HIDE DEF R, S, q, g
    <3> QED
      BY <3>3
  <2> QED
    BY <2>1, <2>2 DEF SquaresOf, DistancesOf
<1> HIDE DEF q, g
<1>4. /\ Sum(f) \in [SUBSET R -> Int] /\ Sum(g) \in [SUBSET R -> Int] /\ Sum(q) \in [SUBSET R -> Int]
      /\ Sum(f)[{}] = 0 /\ Sum(g)[{}] = 0 /\ Sum(q)[{}] = 0
      /\ \A s \in SUBSET R : s # {} =>
            /\ Sum(f)[s] = f[Chosen(s)] + Sum(f)[Rest(s)]
            /\ Sum(g)[s] = g[Chosen(s)] + Sum(g)[Rest(s)]
            /\ Sum(q)[s] = q[Chosen(s)] + Sum(q)[Rest(s)]
  BY <1>3, SumFacts
<1>5. FromSums(n, t, 0, 0, 0) = 0 /\ \A u \in Int : FromSums(n, t, u, t, n) = n * (n * u - t * t)
  BY <1>1, <1>2, FromSumsFacts
<1> HIDE DEF R
<1>6. {} \in S
  <2>1. Cardinality({}) = 0 /\ {} \in SUBSET R
    BY FS_EmptySet
  <2>2. Sum(g)[{}] = 0 /\ Sum(q)[{}] = 0 /\ Sum(f)[{}] = 0
    BY <1>4
  <2>3. FromSums(n, t, 0, 0, 0) = 0
    BY <1>5
  <2>4. Sum(g)[{}] = FromSums(n, t, Sum(q)[{}], Sum(f)[{}], Cardinality({}))
    BY <2>1, <2>2, <2>3
  <2> QED
    BY <2>1, <2>2, <2>4
<1>7. ASSUME NEW s \in SUBSET R, s # {}, Rest(s) \in S PROVE s \in S
  <2>1. Chosen(s) \in s /\ Chosen(s) \in R /\ Rest(s) \in SUBSET R
    BY <1>7, RestFacts
  <2>2. Cardinality(s) \in Nat /\ Cardinality(Rest(s)) = Cardinality(s) - 1
    <3>1. IsFiniteSet(s)
      BY <1>1, FS_Subset
    <3> QED
      BY <2>1, <3>1, FS_CardinalityType, FS_RemoveElement DEF Rest
  <2>3. PICK x \in Int, w \in Int, v \in Nat, u \in Int, c \in Int :
          /\ x = f[Chosen(s)] /\ w = Sum(f)[Rest(s)] /\ v = Sum(g)[Rest(s)]
          /\ u = Sum(q)[Rest(s)] /\ c = Cardinality(Rest(s))
    <3>1. f[Chosen(s)] \in Int
      BY <1>3, <2>1
    <3>2. Sum(f)[Rest(s)] \in Int /\ Sum(q)[Rest(s)] \in Int
      BY <1>4, <2>1
    <3>3. Sum(g)[Rest(s)] \in Nat
      BY <1>7
    <3>4. Cardinality(Rest(s)) \in Int
      BY <2>2
    <3> QED
      BY <3>1, <3>2, <3>3, <3>4
  <2>4. Cardinality(s) = c + 1
    BY <2>2, <2>3
  <2>5. v = FromSums(n, t, u, w, c)
    BY <1>7, <2>3
  <2>6. /\ Sum(f)[s] = x + w /\ Sum(q)[s] = Square(x) + u
        /\ Sum(g)[s] = Distance(n, x, t) + v
    <3>1. /\ Sum(f)[s] = f[Chosen(s)] + Sum(f)[Rest(s)]
          /\ Sum(g)[s] = g[Chosen(s)] + Sum(g)[Rest(s)]
          /\ Sum(q)[s] = q[Chosen(s)] + Sum(q)[Rest(s)]
      BY <1>4, <1>7
    <3>2. q[Chosen(s)] = Square(f[Chosen(s)]) /\ g[Chosen(s)] = Distance(n, f[Chosen(s)], t)
      BY <1>3, <2>1
    <3> QED
      BY <2>3, <3>1, <3>2
  <2>7. /\ Distance(n, x, t) \in Nat
        /\ Distance(n, x, t) + FromSums(n, t, u, w, c) = FromSums(n, t, Square(x) + u, x + w, c + 1)
    <3>1. Distance(n, x, t) \in Nat /\ AddsUp(n, t, x, u, w, c)
      BY <1>1, <1>2, <2>3, NextDistance
    <3> QED
      BY <3>1 DEF AddsUp
  <2> QED
    BY <2>4, <2>5, <2>6, <2>7
<1>8. R \in S
  <2>1. SUBSET R \subseteq S
    <3> HIDE DEF S
    <3> QED
      BY <1>1, <1>6, <1>7, PartByPart
  <2>2. R \in SUBSET R
    OBVIOUS
  <2> QED
    BY <2>1, <2>2
<1>9. Sum(q)[R] \in Int /\ Sum(f)[R] = t
  BY <1>4 DEF R
<1>10. FromSums(n, t, Sum(q)[R], t, n) = n * (n * Sum(q)[R] - t * t)
  BY <1>5, <1>9
<1>11. Sum(g)[R] \in Nat /\ Sum(g)[R] = FromSums(n, t, Sum(q)[R], t, n)
  BY <1>1, <1>8, <1>9
<1> QED
  BY <1>2, <1>9, <1>10, <1>11 DEF R, q, g

-----------------------------------------------------------------------------
LEMMA QuotientFacts ==
    ASSUME NEW n \in Int, NEW d \in Int, d # 0
    PROVE  T!Rounded(n, d) \in Int /\ 2 * T!Abs(T!Rounded(n, d) * d - n) <= T!Abs(d)
<1>1. T!Rounded(n, d) = D!HalfEven(n, d)
  BY DEF T!Rounded, T!Abs, D!HalfEven, D!Abs
<1>2. \A x \in Int : T!Abs(x) = D!Abs(x)
  BY DEF T!Abs, D!Abs
<1>3. D!HalfEven(n, d) \in Int /\ 2 * D!Abs(D!HalfEven(n, d) * d - n) <= D!Abs(d)
  BY RoundingFacts
<1>4. D!HalfEven(n, d) * d - n \in Int
  BY <1>3
<1> QED
  BY <1>1, <1>2, <1>3, <1>4

(* The odd numbers, whose squares are four times those of the halves.      *)
Half(r, d) == (2 * r + 1) * (2 * r + 1) * d

IsBetween(r, d) ==
    /\ Half(r, d) \in Nat /\ Half(r, d) < Half(r + 1, d) /\ 4 * r < Half(r, d)
    /\ r >= 1 => 4 * r + 4 < Half(r, d)

LEMMA HalfFacts ==
    ASSUME NEW r \in Nat, NEW d \in Nat \ {0}
    PROVE  IsBetween(r, d)
<1> DEFINE s == (2 * r + 1) * (2 * r + 1)
           u == (2 * (r + 1) + 1) * (2 * (r + 1) + 1)
<1>1. s \in Nat /\ u \in Nat /\ s < u /\ 4 * r < s /\ (r >= 1 => 4 * r + 4 < s)
  <2>1. PICK q \in Nat : q = r * r
    OBVIOUS
  <2>2. s = 4 * q + 4 * r + 1 /\ u = 4 * q + 12 * r + 9
    BY <2>1
  <2>3. r >= 1 => q >= r
    BY <2>1
  <2> QED
    BY <2>2, <2>3
<1>2. Half(r, d) = s * d /\ Half(r + 1, d) = u * d
  BY DEF Half
<1> HIDE DEF s, u
<1>3. s * d \in Nat /\ s * d >= s /\ s * d < u * d
  BY <1>1
<1> QED
  BY <1>1, <1>2, <1>3 DEF IsBetween

(* The nearest root, and of two that are as near the even one. *)
IsRoot(r, n, d) ==
    /\ r = 0 \/ (2 * r - 1) * (2 * r - 1) * d <= 4 * n
    /\ 4 * n <= (2 * r + 1) * (2 * r + 1) * d

LEMMA RootFacts ==
    ASSUME NEW n \in Nat, NEW d \in Nat \ {0}
    PROVE  T!RoundedRoot(n, d) \in Nat /\ IsRoot(T!RoundedRoot(n, d), n, d)
<1> DEFINE Below(r) == r = 0 \/ (2 * r - 1) * (2 * r - 1) * d <= 4 * n
           Above(r) == 4 * n <= (2 * r + 1) * (2 * r + 1) * d
           Tie(r) == 4 * n \in {(2 * r - 1) * (2 * r - 1) * d, (2 * r + 1) * (2 * r + 1) * d} => r % 2 = 0
           S == {r \in Nat : 4 * n <= Half(r, d)}
<1>1. n \in S
  <2>1. IsBetween(n, d)
    BY HalfFacts
  <2> QED
    BY <2>1 DEF IsBetween
<1>2. PICK least \in S : \A r \in S : ~(r < least)
  <2>1. IsWellFoundedOn(OpToRel(<, Nat), Nat)
    BY NatLessThanWellFounded
  <2>2. S \subseteq Nat /\ S # {}
    BY <1>1
  <2>3. PICK r0 \in S : \A r \in S : ~(<<r, r0>> \in OpToRel(<, Nat))
    <3> HIDE DEF S
    <3> QED
      BY <2>1, <2>2, WFMin
  <2>4. \A r \in S : ~(r < r0)
    BY <2>2, <2>3 DEF OpToRel
  <2> QED
    BY <2>4
<1>3. least \in Nat /\ 4 * n <= Half(least, d) /\ ~(n < least)
  BY <1>1, <1>2
<1>4. \A r \in Nat : /\ (2 * (r + 1) - 1) * (2 * (r + 1) - 1) * d = Half(r, d)
                     /\ (2 * r + 1) * (2 * r + 1) * d = Half(r, d)
  BY DEF Half
<1>5. \E r \in 0 .. n : Below(r) /\ Above(r) /\ Tie(r)
  <2>1. CASE least = 0
    <3>1. Below(0) /\ Above(0) /\ Tie(0) /\ 0 \in 0 .. n
      BY <1>3, <1>4, <2>1
    <3> QED
      BY <3>1
  <2>2. CASE least # 0
    <3> DEFINE before == least - 1
    <3>1. before \in Nat /\ least = before + 1 /\ before < least
      BY <1>3, <2>2
    <3> HIDE DEF before
    <3>2. Half(before, d) < 4 * n /\ Half(before, d) \in Nat /\ Half(least, d) \in Nat
      <4>1. IsBetween(before, d) /\ IsBetween(least, d)
        BY <1>3, <3>1, HalfFacts
      <4>2. Half(before, d) \in Nat /\ Half(least, d) \in Nat
        BY <4>1 DEF IsBetween
      <4>3. before \notin S
        BY <1>2, <3>1
      <4> QED
        BY <3>1, <4>2, <4>3
    <3>3. /\ (2 * least - 1) * (2 * least - 1) * d = Half(before, d)
          /\ (2 * least + 1) * (2 * least + 1) * d = Half(least, d)
      BY <1>3, <1>4, <3>1
    <3>4. Below(least) /\ Above(least)
      BY <1>3, <3>2, <3>3
    <3>5. CASE 4 * n # Half(least, d) \/ least % 2 = 0
      <4>1. Tie(least) /\ least \in 0 .. n
        BY <1>3, <3>2, <3>3, <3>5
      <4> QED
        BY <3>4, <4>1
    <3>6. CASE 4 * n = Half(least, d) /\ least % 2 # 0
      <4>1. least + 1 \in Nat /\ (least + 1) % 2 = 0
        BY <1>3, <3>6
      <4>2. /\ (2 * (least + 1) - 1) * (2 * (least + 1) - 1) * d = Half(least, d)
            /\ (2 * (least + 1) + 1) * (2 * (least + 1) + 1) * d = Half(least + 1, d)
        BY <1>3, <1>4, <4>1
      <4>3. Half(least, d) < Half(least + 1, d) /\ Half(least + 1, d) \in Nat
            /\ 4 * least + 4 < Half(least, d)
        <5>1. IsBetween(least, d) /\ IsBetween(least + 1, d) /\ least >= 1
          BY <1>3, <2>2, <4>1, HalfFacts
        <5> QED
          BY <5>1 DEF IsBetween
      <4>4. Below(least + 1) /\ Above(least + 1) /\ Tie(least + 1)
        BY <3>2, <3>6, <4>1, <4>2, <4>3
      <4>5. least + 1 \in 0 .. n
        BY <1>3, <3>6, <4>3
      <4> QED
        BY <4>4, <4>5
    <3> QED
      BY <3>5, <3>6
  <2> QED
    BY <2>1, <2>2
<1>6. T!RoundedRoot(n, d) = CHOOSE r \in 0 .. n : Below(r) /\ Above(r) /\ Tie(r)
  BY DEF T!RoundedRoot
<1>7. T!RoundedRoot(n, d) \in 0 .. n /\ Below(T!RoundedRoot(n, d)) /\ Above(T!RoundedRoot(n, d))
  <2> HIDE DEF Below, Above, Tie
  <2> QED
    BY <1>5, <1>6
<1> QED
  BY <1>7 DEF IsRoot

-----------------------------------------------------------------------------
(* The sums of the component are those of functions.                       *)
ValuesOf(window, n) == [r \in 1 .. n |-> window[r].value]

LEMMA TotalIsSum ==
    ASSUME NEW n \in Nat, NEW window, DOMAIN window = 1 .. n
    PROVE  LET total == Sum(ValuesOf(window, n))[1 .. n]
               squares == Sum(SquaresOf(ValuesOf(window, n), n))[1 .. n]
           IN  T!Total(window) = total /\ T!Spread(window) = Len(window) * squares - total * total
<1> DEFINE f == ValuesOf(window, n)
           q == SquaresOf(f, n)
           Value1(s, iter) == IF s = {} THEN 0 ELSE window[Chosen(s)].value + iter[Rest(s)]
           Square1(s, iter) ==
               IF s = {} THEN 0
               ELSE window[Chosen(s)].value * window[Chosen(s)].value + iter[Rest(s)]
           Values(iter) == iter = [s \in SUBSET DOMAIN window |-> Value1(s, iter)]
           Squares(iter) == iter = [s \in SUBSET DOMAIN window |-> Square1(s, iter)]
<1>1. T!Total(window) = (CHOOSE iter : Values(iter))[DOMAIN window]
  BY DEF T!Total, T!MapThenSumSet, T!MapThenFoldSet, Chosen, Rest
<1>2. T!Spread(window) = Len(window) * (CHOOSE iter : Squares(iter))[DOMAIN window]
                           - T!Total(window) * T!Total(window)
  BY DEF T!Spread, T!MapThenSumSet, T!MapThenFoldSet, Chosen, Rest
<1>3. \A s \in SUBSET (1 .. n) : s # {} =>
        /\ f[Chosen(s)] = window[Chosen(s)].value
        /\ q[Chosen(s)] = window[Chosen(s)].value * window[Chosen(s)].value
  BY RestFacts DEF Square, ValuesOf, SquaresOf
<1>4. DOMAIN f = 1 .. n /\ DOMAIN q = 1 .. n
  BY DEF ValuesOf, SquaresOf
<1> HIDE DEF f, q
<1>5. ASSUME NEW iter PROVE (Values(iter) <=> IsSum(iter, f)) /\ (Squares(iter) <=> IsSum(iter, q))
  <2> DEFINE OfF(s) == IF s = {} THEN 0 ELSE f[Chosen(s)] + iter[Rest(s)]
             OfQ(s) == IF s = {} THEN 0 ELSE q[Chosen(s)] + iter[Rest(s)]
  <2>1. \A s \in SUBSET (1 .. n) : Value1(s, iter) = OfF(s) /\ Square1(s, iter) = OfQ(s)
    BY <1>3
  <2>2. /\ IsSum(iter, f) <=> iter = [s \in SUBSET (1 .. n) |-> OfF(s)]
        /\ IsSum(iter, q) <=> iter = [s \in SUBSET (1 .. n) |-> OfQ(s)]
    BY <1>4 DEF IsSum
  <2> HIDE DEF Value1, Square1, OfF, OfQ
  <2>3. /\ [s \in SUBSET (1 .. n) |-> Value1(s, iter)] = [s \in SUBSET (1 .. n) |-> OfF(s)]
        /\ [s \in SUBSET (1 .. n) |-> Square1(s, iter)] = [s \in SUBSET (1 .. n) |-> OfQ(s)]
    BY <2>1
  <2> QED
    BY <2>2, <2>3
<1> HIDE DEF Values, Squares
<1>6. (CHOOSE iter : Values(iter)) = Sum(f)
  BY <1>5 DEF Sum
<1>7. (CHOOSE iter : Squares(iter)) = Sum(q)
  BY <1>5 DEF Sum
<1> QED
  BY <1>1, <1>2, <1>6, <1>7 DEF f, q

SourceSum(output, n) ==
    CHOOSE iter : iter = [s \in SUBSET (1 .. n) |->
                            IF s = {} THEN 0 ELSE T!Source(output, 1, Chosen(s)) + iter[Rest(s)]]

DistanceSum(output, n, t) ==
    CHOOSE iter : iter = [s \in SUBSET (1 .. n) |->
                            IF s = {} THEN 0
                            ELSE (n * T!Source(output, 1, Chosen(s)) - t) * (n * T!Source(output, 1, Chosen(s)) - t)
                                   + iter[Rest(s)]]

AreSources(f, output, n) == \A r \in 1 .. n : T!Source(output, 1, r) = f[r]

LEMMA SourcesAreSummed ==
    ASSUME NEW n \in Nat, NEW output, NEW f, DOMAIN f = 1 .. n,
           AreSources(f, output, n),
           NEW t
    PROVE  /\ SourceSum(output, n) = Sum(f)
           /\ DistanceSum(output, n, t) = Sum(DistancesOf(f, n, t))
<1> DEFINE g == DistancesOf(f, n, t)
           x(r) == T!Source(output, 1, r)
           Value1(s, iter) == IF s = {} THEN 0 ELSE x(Chosen(s)) + iter[Rest(s)]
           Distance1(s, iter) ==
               IF s = {} THEN 0
               ELSE (n * x(Chosen(s)) - t) * (n * x(Chosen(s)) - t) + iter[Rest(s)]
           Values(iter) == iter = [s \in SUBSET (1 .. n) |-> Value1(s, iter)]
           Distances(iter) == iter = [s \in SUBSET (1 .. n) |-> Distance1(s, iter)]
<1>1. /\ SourceSum(output, n) = CHOOSE iter : Values(iter)
      /\ DistanceSum(output, n, t) = CHOOSE iter : Distances(iter)
  BY DEF SourceSum, DistanceSum
<1>2. \A s \in SUBSET (1 .. n) : s # {} =>
        /\ f[Chosen(s)] = x(Chosen(s))
        /\ g[Chosen(s)] = (n * x(Chosen(s)) - t) * (n * x(Chosen(s)) - t)
  BY RestFacts DEF AreSources, Distance, DistancesOf
<1>3. DOMAIN g = 1 .. n
  BY DEF DistancesOf
<1> HIDE DEF g
<1>4. ASSUME NEW iter PROVE (Values(iter) <=> IsSum(iter, f)) /\ (Distances(iter) <=> IsSum(iter, g))
  <2> DEFINE OfF(s) == IF s = {} THEN 0 ELSE f[Chosen(s)] + iter[Rest(s)]
             OfG(s) == IF s = {} THEN 0 ELSE g[Chosen(s)] + iter[Rest(s)]
  <2>1. \A s \in SUBSET (1 .. n) : Value1(s, iter) = OfF(s) /\ Distance1(s, iter) = OfG(s)
    BY <1>2
  <2>2. /\ IsSum(iter, f) <=> iter = [s \in SUBSET (1 .. n) |-> OfF(s)]
        /\ IsSum(iter, g) <=> iter = [s \in SUBSET (1 .. n) |-> OfG(s)]
    BY <1>3 DEF IsSum
  <2> HIDE DEF Value1, Distance1, OfF, OfG
  <2>3. /\ [s \in SUBSET (1 .. n) |-> Value1(s, iter)] = [s \in SUBSET (1 .. n) |-> OfF(s)]
        /\ [s \in SUBSET (1 .. n) |-> Distance1(s, iter)] = [s \in SUBSET (1 .. n) |-> OfG(s)]
    BY <2>1
  <2> QED
    BY <2>2, <2>3
<1> HIDE DEF Values, Distances
<1>5. (CHOOSE iter : Values(iter)) = Sum(f)
  BY <1>4 DEF Sum
<1>6. (CHOOSE iter : Distances(iter)) = Sum(g)
  BY <1>4 DEF Sum
<1> QED
  BY <1>1, <1>5, <1>6 DEF g

(* A result without a reason is the value that was presented. *)
LEMMA PresentFacts ==
    ASSUME NEW n \in Int
    PROVE  T!Present(n).reason = "none" => T!Present(n).value = n
BY DEF T!Present, T!Because

LEMMA BecauseFacts == ASSUME NEW reason PROVE T!Because(reason).reason = reason
BY DEF T!Because

LEMMA ScaledBound ==
    ASSUME NEW a \in Int, NEW s \in Nat, NEW x \in Int
    PROVE  /\ a * (s * s) <= 4 * x => a * s * s * s <= 4 * (s * x)
           /\ 4 * x <= a * (s * s) => 4 * (s * x) <= a * s * s * s
<1>1. PICK p \in Int : p = a * (s * s)
  OBVIOUS
<1>2. a * s * s * s = p * s
  BY <1>1
<1>3. 4 * (s * x) = (4 * x) * s
  OBVIOUS
<1>4. PICK y \in Int : y = 4 * x
  OBVIOUS
<1>5. (p <= y => p * s <= y * s) /\ (y <= p => y * s <= p * s)
  BY <1>1, <1>4
<1> QED
  BY <1>1, <1>2, <1>3, <1>4, <1>5

(* The value of an output is what the formula of its definition gives for  *)
(* the states of its lineage.                                              *)
IsQuotient(v, n, d) == 2 * T!Abs(v * d - n) <= T!Abs(d)

LEMMA QuotientPresented ==
    ASSUME NEW n \in Int, NEW d \in Int, d # 0,
           T!Present(T!Rounded(n, d)).reason = "none"
    PROVE  IsQuotient(T!Present(T!Rounded(n, d)).value, n, d)
<1>1. T!Rounded(n, d) \in Int /\ 2 * T!Abs(T!Rounded(n, d) * d - n) <= T!Abs(d)
  BY QuotientFacts
<1>2. T!Present(T!Rounded(n, d)).value = T!Rounded(n, d)
  BY <1>1, PresentFacts
<1> QED
  BY <1>1, <1>2 DEF IsQuotient

LEMMA ValueOfRole ==
    ASSUME NEW output, NEW windows, NEW date, IsMadeOf(output, windows, date),
           NEW i \in T!Inputs(asked), NEW r \in 1 .. T!WindowSize
    PROVE  /\ windows[i][r].value \in Int
           /\ asked.type = "rebase_index" => windows[i][1].value # 0
<1>1. IsWindow(windows[i], i, date)
  BY DEF IsMadeOf
<1> QED
  BY <1>1 DEF IsWindow, IsState

LEMMA BinaryReplayed ==
    ASSUME T!TransformationAssumption, asked \in Definitions,
           NEW output, NEW windows, NEW date, IsMadeOf(output, windows, date),
           asked.type \in T!Binary
    PROVE  T!IsReplayed(output)
<1> DEFINE x == windows[1][1].value
           y == windows[2][1].value
           v == output.result.value
<1>1. T!WindowSize = 1 /\ 1 \in 1 .. 1
  BY DEF T!WindowSize, T!Binary, T!Rolling
<1>2. 1 \in T!Inputs(asked) /\ 2 \in T!Inputs(asked)
  BY InputsTyped
<1>3. x \in Int /\ y \in Int
  BY <1>1, <1>2, ValueOfRole
<1>4. T!Source(output, 1, 1) = x /\ T!Source(output, 2, 1) = y
  BY <1>1, <1>2, SourceOfRole
<1>5. output.result = T!OfBinary(windows[1], windows[2]) /\ output.result.reason = "none"
  BY DEF IsMadeOf, T!Evaluate, T!Binary
<1>6. /\ asked.type = "spread" => output.result = T!Present(x - y)
      /\ asked.type # "spread" => y # 0 /\ output.result = T!Present(T!Rounded(x, y))
  <2>1. T!Because("division_by_zero").reason # "none"
    BY BecauseFacts
  <2>2. T!Reason(windows[1], 1) = "none" /\ T!Reason(windows[2], 1) = "none"
    BY <1>5, BecauseFacts DEF T!OfBinary
  <2> QED
    BY <1>5, <2>1, <2>2 DEF T!OfBinary
<1> HIDE DEF x, y
<1>7. CASE asked.type = "spread"
  <2>1. v = x - y
    <3>1. x - y \in Int
      BY <1>3
    <3> QED
      BY <1>5, <1>6, <1>7, <3>1, PresentFacts
  <2>2. T!IsReplayed(output) <=> v = T!Source(output, 1, 1) - T!Source(output, 2, 1)
    BY <1>7 DEF T!IsReplayed
  <2> QED
    BY <1>4, <2>1, <2>2
<1>8. CASE asked.type = "ratio"
  <2>1. IsQuotient(v, x, y)
    BY <1>3, <1>5, <1>6, <1>8, QuotientPresented
  <2>2. T!IsReplayed(output) <=> IsQuotient(v, T!Source(output, 1, 1), T!Source(output, 2, 1))
    BY <1>8 DEF T!IsReplayed, IsQuotient
  <2> QED
    BY <1>4, <2>1, <2>2
<1> QED
  BY <1>7, <1>8 DEF T!Binary

LEMMA PairReplayed ==
    ASSUME T!TransformationAssumption, asked \in Definitions,
           NEW output, NEW windows, NEW date, IsMadeOf(output, windows, date),
           asked.type \in T!Unary
    PROVE  T!IsReplayed(output)
<1> DEFINE x == windows[1][1].value
           y == windows[1][2].value
           v == output.result.value
<1>1. T!WindowSize = 2 /\ asked.type \notin T!Binary \cup T!Rolling
  BY DEF T!WindowSize, T!Unary, T!Binary, T!Rolling
<1>2. 1 \in T!Inputs(asked) /\ 1 \in 1 .. 2 /\ 2 \in 1 .. 2
  BY InputsTyped
<1>3. x \in Int /\ y \in Int /\ (asked.type = "rebase_index" => x # 0)
  BY <1>1, <1>2, ValueOfRole
<1>4. T!Source(output, 1, 1) = x /\ T!Source(output, 1, 2) = y
  BY <1>1, <1>2, SourceOfRole
<1>5. /\ asked.type = "rebase_index" => output.result = T!OfRebase(windows[1])
      /\ asked.type # "rebase_index" => output.result = T!OfUnary(windows[1])
      /\ output.result.reason = "none"
  BY <1>1 DEF IsMadeOf, T!Evaluate
<1>6. CASE asked.type = "rebase_index"
  <2>1. output.result = T!Present(T!Rounded(y * BaseValue, x))
    BY <1>5, <1>6, BecauseFacts DEF T!OfRebase
  <2>2. BaseValue \in Int /\ y * BaseValue \in Int
    BY <1>3 DEF T!TransformationAssumption
  <2>3. IsQuotient(v, y * BaseValue, x)
    BY <1>3, <1>5, <1>6, <2>1, <2>2, QuotientPresented
  <2>4. T!IsReplayed(output) <=> IsQuotient(v, T!Source(output, 1, 2) * BaseValue, T!Source(output, 1, 1))
    BY <1>6 DEF T!IsReplayed, IsQuotient
  <2> QED
    BY <1>4, <2>3, <2>4
<1>7. CASE asked.type = "difference"
  <2>1. output.result = T!Present(y - x)
    BY <1>1, <1>5, <1>7, BecauseFacts DEF T!OfUnary
  <2>2. y - x \in Int
    BY <1>3
  <2>3. v = y - x
    BY <1>5, <2>1, <2>2, PresentFacts
  <2>4. T!IsReplayed(output) <=> v = T!Source(output, 1, 2) - T!Source(output, 1, 1)
    BY <1>7 DEF T!IsReplayed
  <2> QED
    BY <1>4, <2>3, <2>4
<1>8. CASE asked.type \in {"percent_change", "year_over_year_percent_change"}
  <2>1. output.result = T!Change(windows[1])
    BY <1>1, <1>5, <1>8, BecauseFacts DEF T!OfUnary
  <2>2. x # 0 /\ output.result = T!Present(T!Rounded(100 * (y - x), x))
    <3>1. T!Because("division_by_zero").reason # "none"
      BY BecauseFacts
    <3> QED
      BY <1>5, <2>1, <3>1 DEF T!Change
  <2>3. 100 * (y - x) \in Int /\ 100 * (y - x) = 100 * y - 100 * x
    BY <1>3
  <2>4. IsQuotient(v, 100 * (y - x), x)
    BY <1>3, <1>5, <2>2, <2>3, QuotientPresented
  <2>5. T!IsReplayed(output) <=>
          IsQuotient(v, 100 * T!Source(output, 1, 2) - 100 * T!Source(output, 1, 1), T!Source(output, 1, 1))
    BY <1>8 DEF T!IsReplayed, IsQuotient
  <2> QED
    BY <1>4, <2>3, <2>4, <2>5
<1> QED
  BY <1>6, <1>7, <1>8 DEF T!Unary

LEMMA RollingReplayed ==
    ASSUME T!TransformationAssumption, asked \in Definitions,
           NEW output, NEW windows, NEW date, IsMadeOf(output, windows, date),
           asked.type \in T!Rolling
    PROVE  T!IsReplayed(output)
<1> DEFINE window == windows[1]
           n == T!WindowSize
           v == output.result.value
           f == ValuesOf(window, n)
           t == Sum(f)[1 .. n]
           g == DistancesOf(f, n, t)
           q == SquaresOf(f, n)
           squares == Sum(g)[1 .. n]
           spread == T!Spread(window)
<1>1. n \in Nat \ {0} /\ n = asked.window /\ asked.type \notin T!Binary \cup {"rebase_index"}
  BY SizeTyped DEF T!WindowSize, T!Rolling, T!Binary
<1>2. 1 \in T!Inputs(asked)
  BY InputsTyped
<1>3. /\ DOMAIN window = 1 .. n /\ Len(window) = n
      /\ \A r \in 1 .. n : window[r].value \in Int /\ T!Source(output, 1, r) = window[r].value
  <2>1. IsWindow(window, 1, date)
    BY <1>2 DEF IsMadeOf
  <2>2. DOMAIN window = 1 .. n /\ Len(window) = n
    BY <2>1 DEF IsWindow
  <2> QED
    BY <1>2, <2>2, SourceOfRole, ValueOfRole
<1>4. output.result = T!OfUnary(window) /\ output.result.reason = "none"
  BY <1>1 DEF IsMadeOf, T!Evaluate
<1> HIDE DEF window, n, v
<1>5. f \in [1 .. n -> Int] /\ DOMAIN f = 1 .. n /\ AreSources(f, output, n)
  BY <1>3 DEF ValuesOf, AreSources
<1>6. T!Total(window) = t /\ spread = n * Sum(q)[1 .. n] - t * t
  BY <1>1, <1>3, TotalIsSum
<1>7. SourceSum(output, n) = Sum(f) /\ DistanceSum(output, n, t) = Sum(g)
  <2> HIDE DEF f, t
  <2> QED
    BY <1>1, <1>5, SourcesAreSummed
<1>8. t \in Int /\ Sum(q)[1 .. n] \in Int /\ squares \in Nat /\ squares = n * (n * Sum(q)[1 .. n] - t * t)
  <2> HIDE DEF f
  <2> QED
    BY <1>1, <1>5, SumOfDistances
<1> HIDE DEF f
<1> HIDE DEF g, q, t, squares, spread
<1>9. spread \in Nat /\ squares = n * spread
  <2>1. spread \in Int /\ squares = n * spread
    BY <1>1, <1>6, <1>8
  <2>2. spread < 0 => n * spread < 0
    BY <1>1, <2>1
  <2> QED
    BY <1>8, <2>1, <2>2
<1>10. T!Reason(window, asked.window) = "none"
  BY <1>4, BecauseFacts DEF T!OfUnary
<1>11. CASE asked.type = "moving_average"
  <2>1. output.result = T!Present(T!Rounded(t, n))
    BY <1>3, <1>4, <1>6, <1>10, <1>11 DEF T!OfUnary, T!Rolling
  <2>2. IsQuotient(v, t, n)
    BY <1>1, <1>4, <1>8, <2>1, QuotientPresented DEF v
  <2>3. T!IsReplayed(output) <=> IsQuotient(v, SourceSum(output, n)[1 .. n], n)
    BY <1>11 DEF T!IsReplayed, IsQuotient, T!MapThenSumSet, T!MapThenFoldSet, SourceSum, Chosen, Rest, n, v
  <2> QED
    BY <1>7, <2>2, <2>3 DEF t
<1>12. CASE asked.type = "rolling_standard_deviation"
  <2>1. output.result = T!Present(T!RoundedRoot(spread, n * n))
    BY <1>3, <1>4, <1>10, <1>12 DEF T!OfUnary, T!Rolling, spread
  <2>2. n * n \in Nat \ {0}
    BY <1>1
  <2>3. v \in Nat /\ IsRoot(v, spread, n * n)
    <3>1. T!RoundedRoot(spread, n * n) \in Nat /\ IsRoot(T!RoundedRoot(spread, n * n), spread, n * n)
      BY <1>9, <2>2, RootFacts
    <3>2. v = T!RoundedRoot(spread, n * n)
      BY <1>4, <2>1, <3>1, PresentFacts DEF v
    <3> QED
      BY <3>1, <3>2
  <2>4. /\ v = 0 \/ (2 * v - 1) * (2 * v - 1) * n * n * n <= 4 * squares
        /\ 4 * squares <= (2 * v + 1) * (2 * v + 1) * n * n * n
    <3>1. (2 * v - 1) * (2 * v - 1) \in Int /\ (2 * v + 1) * (2 * v + 1) \in Int
      BY <2>3
    <3> QED
      BY <1>1, <1>9, <2>3, <3>1, ScaledBound DEF IsRoot
  <2>5. T!IsReplayed(output) <=>
          LET sum == SourceSum(output, n)[1 .. n]
              all == DistanceSum(output, n, sum)[1 .. n]
          IN  /\ v = 0 \/ (2 * v - 1) * (2 * v - 1) * n * n * n <= 4 * all
              /\ 4 * all <= (2 * v + 1) * (2 * v + 1) * n * n * n
    BY <1>12 DEF T!IsReplayed, T!MapThenSumSet, T!MapThenFoldSet, SourceSum, DistanceSum, Chosen, Rest, n, v
  <2> QED
    BY <1>7, <2>4, <2>5 DEF t, squares
<1>13. CASE asked.type = "rolling_z_score"
  <2> DEFINE distance == n * window[n].value - t
             root == T!RoundedRoot(distance * distance, spread)
  <2>1. output.result = T!ZScore(window)
    BY <1>4, <1>10, <1>13 DEF T!OfUnary, T!Rolling
  <2>2. spread # 0 /\ output.result = T!Present(IF distance < 0 THEN -root ELSE root)
    <3>1. T!Because("division_by_zero").reason # "none"
      BY BecauseFacts
    <3> QED
      BY <1>3, <1>4, <1>6, <2>1, <3>1 DEF T!ZScore, spread
  <2>3. distance \in Int /\ distance * distance \in Nat
    <3>1. distance \in Int
      BY <1>1, <1>3, <1>8
    <3> HIDE DEF distance
    <3> QED
      BY <3>1
  <2>4. root \in Nat
    <3> HIDE DEF distance
    <3> QED
      BY <1>9, <2>2, <2>3, RootFacts
  <2>5. v = IF distance < 0 THEN -root ELSE root
    <3>1. (IF distance < 0 THEN -root ELSE root) \in Int
      BY <2>4
    <3> HIDE DEF distance, root
    <3> QED
      BY <1>4, <2>2, <3>1, PresentFacts DEF v
  <2>6. v < 0 => n * window[n].value < t
    <3>1. v < 0 => distance < 0
      <4> HIDE DEF distance, root
      <4> QED
        BY <2>3, <2>4, <2>5
    <3> QED
      BY <1>1, <1>3, <1>8, <2>3, <3>1
  <2>7. T!IsReplayed(output) <=> (v < 0 => n * T!Source(output, 1, n) < SourceSum(output, n)[1 .. n])
    BY <1>13 DEF T!IsReplayed, T!MapThenSumSet, T!MapThenFoldSet, SourceSum, Chosen, Rest, n, v
  <2>8. T!Source(output, 1, n) = window[n].value
    BY <1>1, <1>3
  <2> QED
    BY <1>7, <2>6, <2>7, <2>8 DEF t
<1> QED
  BY <1>11, <1>12, <1>13 DEF T!Rolling

-----------------------------------------------------------------------------
(* What a run calculates is made of windows of states.                     *)
LEMMA PointIsState ==
    ASSUME T!TransformationAssumption, CalculationTyped, NEW cutoff \in Nat,
           NEW input, NEW date
    PROVE  LET point == T!PointAt(input, date, cutoff) IN
           point.date = date /\ (point.value # T!Absent => IsState(point, input))
<1> DEFINE slot == <<input, date>>
           states == store[slot]
           n == T!EligibleVersion(input, date, cutoff)
           point == T!PointAt(input, date, cutoff)
           S == {i \in DOMAIN states : states[i].stamp <= cutoff}
<1>1. /\ point.date = date /\ point.n = n
      /\ point.value = IF n = 0 THEN T!Absent ELSE states[n].value
  BY DEF T!PointAt
<1>2. ASSUME n # 0 PROVE slot \in T!Slots /\ n \in Nat \ {0} /\ n \in DOMAIN states /\ states[n].value \in Int
  <2>1. slot \in T!Slots /\ n = T!InForce(states, cutoff)
    BY <1>2 DEF T!EligibleVersion
  <2>2. states \in Seq(T!State)
    BY <2>1 DEF CalculationTyped
  <2>3. states # <<>> /\ ~(states[1].stamp > cutoff) /\ n = T!Max(S)
    BY <1>2, <2>1 DEF T!InForce
  <2>4. 1 \in S
    <3>1. 1 \in DOMAIN states /\ states[1] \in T!State
      BY <2>2, <2>3
    <3>2. states[1].stamp \in Nat
      BY <3>1 DEF T!State
    <3> QED
      BY <2>3, <3>1, <3>2
  <2>5. Len(states) \in Nat /\ DOMAIN states = 1 .. Len(states)
    BY <2>2
  <2>6. n \in 1 .. Len(states)
    <3>1. S \subseteq 1 .. Len(states) /\ S # {}
      BY <2>4, <2>5
    <3> HIDE DEF S, states
    <3> QED
      BY <2>3, <2>5, <3>1, GreatestState
  <2>7. states[n] \in T!State
    BY <2>2, <2>5, <2>6
  <2>8. states[n].value \in Int
    <3>1. states[n].value \in Value \cup {T!Missing}
      BY <2>7 DEF T!State
    <3>2. T!Missing \in Int /\ Value \subseteq Int
      BY DEF T!Missing, T!TransformationAssumption
    <3> QED
      BY <3>1, <3>2
  <2> QED
    BY <2>1, <2>5, <2>6, <2>8
<1> QED
  BY <1>1, <1>2 DEF IsState

(* The windows of a date are as long as their dates. *)
LEMMA WindowShape ==
    ASSUME T!TransformationAssumption, asked \in Definitions, NEW date \in asked.dates,
           NEW input, NEW cutoff
    PROVE  LET required == T!RequiredTimestamps(date)
               window == T!Resolved(input, date, cutoff)
           IN  /\ Len(window) \in Nat /\ DOMAIN window = 1 .. Len(window)
               /\ \A r \in 1 .. Len(window) : window[r] = T!PointAt(input, required[r], cutoff)
               /\ required = <<>> => Len(window) = 0
               /\ required # <<>> => Len(window) = T!WindowSize
<1> DEFINE required == T!RequiredTimestamps(date)
           window == T!Resolved(input, date, cutoff)
<1>1. PICK m \in Nat : /\ DOMAIN required = 1 .. m
                       /\ required = <<>> => m = 0
                       /\ required # <<>> => m = T!WindowSize
  <2>1. CASE required = <<>>
    <3>1. DOMAIN required = 1 .. 0 /\ 0 \in Nat
      BY <2>1
    <3> QED
      BY <2>1, <3>1
  <2>2. CASE required # <<>> /\ asked.type # "rebase_index"
    <3>1. IsSuccession(required, date, T!WindowSize)
      BY <2>2, WindowDates
    <3>2. Len(required) = T!WindowSize /\ DOMAIN required = 1 .. Len(required) /\ Len(required) \in Nat
      BY <3>1 DEF IsSuccession
    <3> QED
      BY <2>2, <3>2
  <2>3. CASE required # <<>> /\ asked.type = "rebase_index"
    <3>1. required = <<asked.base, date>> /\ T!WindowSize = 2
      BY <2>3, WindowDates DEF T!WindowSize, T!Binary, T!Rolling
    <3>2. DOMAIN required = 1 .. 2 /\ 2 \in Nat
      BY <3>1
    <3> QED
      BY <2>3, <3>1, <3>2
  <2> QED
    BY <2>1, <2>2, <2>3
<1>2. window = [r \in 1 .. m |-> T!PointAt(input, required[r], cutoff)]
  BY <1>1 DEF T!Resolved
<1> HIDE DEF required, window
<1>3. Len(window) = m /\ DOMAIN window = 1 .. m
  BY <1>2
<1> QED
  BY <1>1, <1>2, <1>3 DEF required, window

(* A window without a reason has every value. *)
LEMMA NoReason ==
    ASSUME NEW window, Len(window) \in Nat, DOMAIN window = 1 .. Len(window),
           NEW expected \in Nat, T!Reason(window, expected) = "none"
    PROVE  /\ Len(window) >= expected
           /\ \A r \in 1 .. Len(window) : window[r].value \notin {T!Absent, T!Missing}
<1> DEFINE values == {window[r].value : r \in DOMAIN window}
<1>1. Len(window) >= expected /\ T!Absent \notin values /\ T!Missing \notin values
  BY DEF T!Reason
<1> QED
  BY <1>1

LEMMA WindowOfStates ==
    ASSUME T!TransformationAssumption, CalculationTyped, NEW cutoff \in Nat,
           NEW date \in asked.dates, NEW input,
           NEW window, window = T!Resolved(input, date, cutoff), Len(window) # 0,
           \A r \in 1 .. Len(window) : window[r].value # T!Absent,
           asked.type = "rebase_index" => window[1].value # 0
    PROVE  IsWindow(window, input, date)
<1> DEFINE required == T!RequiredTimestamps(date)
           n == T!WindowSize
<1>1. asked \in Definitions
  BY DEF CalculationTyped
<1>2. /\ n \in Nat \ {0} /\ required # <<>> /\ Len(window) = n /\ DOMAIN window = 1 .. n
      /\ \A r \in 1 .. n : window[r] = T!PointAt(input, required[r], cutoff)
  BY <1>1, WindowShape, SizeTyped
<1>3. ASSUME NEW r \in 1 .. n
      PROVE  window[r].date = required[r] /\ IsState(window[r], input)
  <2>1. window[r] = T!PointAt(input, required[r], cutoff) /\ window[r].value # T!Absent
    BY <1>2
  <2>2. PICK d : d = required[r]
    OBVIOUS
  <2>3. /\ T!PointAt(input, d, cutoff).date = d
        /\ T!PointAt(input, d, cutoff).value # T!Absent => IsState(T!PointAt(input, d, cutoff), input)
    BY PointIsState
  <2> HIDE DEF required
  <2> QED
    BY <2>1, <2>2, <2>3
<1>4. /\ asked.type # "rebase_index" => IsSuccession(required, date, n)
      /\ asked.type = "rebase_index" => required = <<asked.base, date>>
  BY <1>1, <1>2, WindowDates
<1> HIDE DEF required
<1>5. required[n] = date
  <2>1. CASE asked.type = "rebase_index"
    <3>1. n = 2
      BY <2>1 DEF T!WindowSize, T!Binary, T!Rolling
    <3> QED
      BY <1>4, <2>1, <3>1
  <2>2. CASE asked.type # "rebase_index"
    BY <1>4, <2>2 DEF IsSuccession
  <2> QED
    BY <2>1, <2>2
<1>6. ASSUME asked.type # "rebase_index"
      PROVE  /\ \A r, q \in 1 .. n : r # q => required[r] # required[q]
             /\ asked.frequency \in Periods => \A r \in 1 .. n : required[r][3] = date[3]
  <2>1. /\ \A r, q \in 1 .. n : r < q => Earlier(required[r], required[q])
        /\ \A r \in 1 .. n : required[r] \in CalendarDay
        /\ asked.frequency \in Periods => \A r \in 1 .. n : required[r][3] = date[3]
    BY <1>2, <1>4, <1>6 DEF IsSuccession
  <2>2. \A d \in CalendarDay : ~Earlier(d, d)
    BY DEF Earlier, CalendarDay, MonthNumber
  <2>3. \A r, q \in 1 .. n : r # q => r < q \/ q < r
    BY <1>2
  <2> QED
    BY <2>1, <2>2, <2>3
<1>7. n \in 1 .. n
  BY <1>2
<1> QED
  BY <1>2, <1>3, <1>5, <1>6, <1>7 DEF IsWindow

LEMMA OutputIsTraced ==
    ASSUME T!TransformationAssumption, CalculationTyped, NEW cutoff \in Nat, ~T!Fails(cutoff),
           NEW date \in T!Candidates(cutoff), T!OutputAt(date, cutoff).result.reason = "none"
    PROVE  IsTraced(date, T!OutputAt(date, cutoff))
<1> DEFINE windows == [i \in T!Inputs(asked) |-> T!Resolved(i, date, cutoff)]
           output == T!OutputAt(date, cutoff)
           n == T!WindowSize
           IsThere(i) == /\ Len(windows[i]) # 0
                         /\ \A r \in 1 .. Len(windows[i]) : windows[i][r].value # T!Absent
<1>1. asked \in Definitions /\ date \in asked.dates
  BY DEF CalculationTyped, T!Candidates
<1>2. output.result = T!Evaluate(windows) /\ output.lineage = T!Lineage(windows)
  BY DEF T!OutputAt
<1>3. T!Evaluate(windows).reason = "none"
  BY <1>2
<1>4. \A i \in T!Inputs(asked) : windows[i] = T!Resolved(i, date, cutoff)
  OBVIOUS
<1>5. \A i \in T!Inputs(asked) : /\ Len(windows[i]) \in Nat
                                 /\ DOMAIN windows[i] = 1 .. Len(windows[i])
  BY <1>1, <1>4, WindowShape
<1>6. 1 \in T!Inputs(asked) /\ (asked.type \in T!Binary => 2 \in T!Inputs(asked))
      /\ T!Inputs(asked) \subseteq {1, 2} /\ (asked.type \notin T!Binary => T!Inputs(asked) = {1})
  BY InputsTyped DEF T!Inputs
<1>7. n \in Nat \ {0} /\ asked.type \in T!Binary \cup T!Rolling \cup T!Unary
  BY <1>1, SizeTyped
<1> HIDE DEF windows, output, n
<1>8. \A i \in T!Inputs(asked) : IsThere(i) /\ (asked.type = "rebase_index" => windows[i][1].value # 0)
  <2>1. ASSUME NEW i \in T!Inputs(asked), NEW expected \in Nat \ {0},
               T!Reason(windows[i], expected) = "none"
        PROVE  IsThere(i)
    <3>1. PICK window : window = windows[i]
      OBVIOUS
    <3>2. /\ Len(window) >= expected
          /\ \A r \in 1 .. Len(window) : window[r].value \notin {T!Absent, T!Missing}
      BY <1>5, <2>1, <3>1, NoReason
    <3> QED
      BY <1>5, <3>1, <3>2
  <2>2. CASE asked.type \in T!Binary
    <3>1. T!OfBinary(windows[1], windows[2]).reason = "none"
      BY <1>3, <2>2 DEF T!Evaluate, T!Binary
    <3>2. T!Reason(windows[1], 1) = "none" /\ T!Reason(windows[2], 1) = "none"
      BY <3>1, BecauseFacts DEF T!OfBinary
    <3>3. 1 \in Nat \ {0} /\ asked.type # "rebase_index"
      BY <2>2 DEF T!Binary
    <3> QED
      BY <1>6, <2>1, <3>2, <3>3
  <2>3. CASE asked.type = "rebase_index"
    <3>1. ~T!HasNoBase(windows[1]) /\ T!OfRebase(windows[1]).reason = "none"
      <4>1. ~T!HasNoBase(T!Resolved(1, date, cutoff))
        BY <2>3 DEF T!Fails
      <4> QED
        BY <1>3, <1>4, <1>6, <2>3, <4>1 DEF T!Evaluate, T!Binary
    <3>2. Len(windows[1]) = 2 /\ T!Inputs(asked) = {1}
      <4>1. T!RequiredTimestamps(date) = <<asked.base, date>> /\ T!WindowSize = 2
        BY <2>3 DEF T!RequiredTimestamps, T!WindowSize, T!Binary, T!Rolling
      <4>2. T!RequiredTimestamps(date) # <<>>
        BY <4>1
      <4>3. Len(T!Resolved(1, date, cutoff)) = T!WindowSize
        BY <1>1, <4>2, WindowShape
      <4> QED
        BY <1>4, <1>6, <2>3, <4>1, <4>3 DEF T!Binary
    <3>3. T!Reason(<<windows[1][2]>>, 1) = "none"
      BY <3>1, BecauseFacts DEF T!OfRebase
    <3>4. windows[1][2].value # T!Absent
      <4>1. PICK window : window = <<windows[1][2]>>
        OBVIOUS
      <4>2. Len(window) = 1 /\ Len(window) \in Nat /\ DOMAIN window = 1 .. Len(window) /\ 1 \in Nat
            /\ window[1] = windows[1][2] /\ 1 \in 1 .. Len(window)
        BY <4>1
      <4>3. window[1].value \notin {T!Absent, T!Missing}
        BY <3>3, <4>1, <4>2, NoReason
      <4> QED
        BY <4>2, <4>3
    <3>5. windows[1][1].value \notin {T!Absent, 0}
      BY <3>1 DEF T!HasNoBase
    <3>6. \A r \in 1 .. 2 : r = 1 \/ r = 2
      OBVIOUS
    <3> QED
      BY <3>2, <3>4, <3>5, <3>6
  <2>4. CASE asked.type \notin T!Binary \cup {"rebase_index"}
    <3>1. T!OfUnary(windows[1]).reason = "none"
      BY <1>3, <2>4 DEF T!Evaluate
    <3>2. PICK expected : expected = IF asked.type \in T!Rolling THEN asked.window ELSE 2
      OBVIOUS
    <3>3. expected \in Nat \ {0}
      BY <1>1, <3>2, SizeTyped
    <3>4. T!Reason(windows[1], expected) = "none"
      BY <3>1, <3>2, BecauseFacts DEF T!OfUnary
    <3>5. T!Inputs(asked) = {1}
      BY <1>6, <2>4
    <3> QED
      BY <1>6, <2>1, <2>4, <3>3, <3>4, <3>5
  <2> QED
    BY <2>2, <2>3, <2>4
<1>9. ASSUME NEW i \in T!Inputs(asked) PROVE IsWindow(windows[i], i, date)
  <2>1. PICK window : window = windows[i]
    OBVIOUS
  <2>2. /\ window = T!Resolved(i, date, cutoff) /\ Len(window) # 0
        /\ \A r \in 1 .. Len(window) : window[r].value # T!Absent
        /\ asked.type = "rebase_index" => window[1].value # 0
    BY <1>4, <1>8, <2>1
  <2> QED
    BY <1>1, <2>1, <2>2, WindowOfStates
<1>10. DOMAIN windows = T!Inputs(asked)
  BY DEF windows
<1>11. IsMadeOf(output, windows, date)
  BY <1>2, <1>3, <1>9, <1>10 DEF IsMadeOf
<1>12. IsTraced(date, output)
  BY <1>11 DEF IsTraced
<1> QED
  BY <1>12 DEF output

(* What has been committed stays. *)
StoreGrows ==
    /\ asked' = asked
    /\ \A slot \in T!Slots : \A n \in DOMAIN store[slot] :
         n \in DOMAIN store'[slot] /\ store'[slot][n] = store[slot][n]

LEMMA TracedStays ==
    ASSUME StoreGrows, NEW date, NEW output, IsTraced(date, output)
    PROVE  IsTraced(date, output)'
<1>1. PICK windows : IsMadeOf(output, windows, date)
  BY DEF IsTraced
<1>2. /\ asked' = asked /\ T!Slots' = T!Slots /\ T!Inputs(asked') = T!Inputs(asked)
      /\ T!WindowSize' = T!WindowSize
  BY DEF StoreGrows, T!Slots, T!WindowSize
<1>3. ASSUME NEW point, NEW i, IsState(point, i) PROVE IsState(point, i)'
  BY <1>2, <1>3 DEF IsState, StoreGrows
<1>4. ASSUME NEW i \in T!Inputs(asked) PROVE IsWindow(windows[i], i, date)'
  <2>1. IsWindow(windows[i], i, date)
    BY <1>1 DEF IsMadeOf
  <2> QED
    BY <1>2, <1>3, <2>1 DEF IsWindow
<1>5. T!Evaluate(windows)' = T!Evaluate(windows)
  BY <1>2, SameEvaluation
<1>6. T!Lineage(windows)' = T!Lineage(windows)
  BY DEF T!Lineage
<1>7. IsMadeOf(output, windows, date)'
  BY <1>1, <1>2, <1>4, <1>5, <1>6 DEF IsMadeOf
<1> QED
  BY <1>7 DEF IsTraced

LEMMA StoreOnlyGrows ==
    ASSUME CalculationTyped, T!Tick \/ T!Stamp \/ T!Commit \/ T!Execute \/ UNCHANGED T!vars
    PROVE  StoreGrows
<1>1. CASE UNCHANGED <<asked, store>>
  BY <1>1 DEF StoreGrows
<1>2. CASE T!Commit
  <2>1. /\ open.slot \in T!Slots /\ open.state \in T!State
        /\ store' = [store EXCEPT ![open.slot] = Append(@, open.state)] /\ asked' = asked
    BY <1>2 DEF T!Commit, CalculationTyped
  <2>2. PICK slot \in T!Slots, state \in T!State :
          store' = [store EXCEPT ![slot] = Append(@, state)]
    BY <2>1
  <2>3. ASSUME NEW s \in T!Slots, NEW n \in DOMAIN store[s]
        PROVE  n \in DOMAIN store'[s] /\ store'[s][n] = store[s][n]
    <3>1. /\ store[s] \in Seq(T!State)
          /\ store'[s] = store[s] \/ store'[s] = Append(store[s], state)
      BY <2>2 DEF CalculationTyped
    <3> QED
      BY <3>1
  <2> QED
    BY <2>1, <2>3 DEF StoreGrows
<1> QED
  BY <1>1, <1>2 DEF T!Tick, T!Stamp, T!Execute, T!vars

(* Every value that the last run gave is traced to states of the store.    *)
Traced ==
    last.status = "succeeded" =>
        \A date \in DOMAIN last.outputs :
            last.outputs[date].result.reason = "none" => IsTraced(date, last.outputs[date])

LEMMA TracedStep ==
    ASSUME T!TransformationAssumption, CalculationInv, Traced, [T!Next]_(T!vars)
    PROVE  Traced'
<1>1. CalculationTyped /\ MaxTime \in Nat
  BY DEF CalculationInv, T!TransformationAssumption
<1>2. StoreGrows
  BY <1>1, StoreOnlyGrows DEF T!Next
<1>3. CASE last' = last
  <2>1. ASSUME last.status = "succeeded", NEW date \in DOMAIN last.outputs,
               last.outputs[date].result.reason = "none"
        PROVE  IsTraced(date, last.outputs[date])'
    <3>1. PICK output : output = last.outputs[date]
      OBVIOUS
    <3>2. IsTraced(date, output)'
      BY <1>2, <2>1, <3>1, TracedStays DEF Traced
    <3> QED
      BY <1>3, <3>1, <3>2
  <2> QED
    BY <1>3, <2>1 DEF Traced
<1>4. CASE T!Execute
  <2>1. PICK k \in 0 .. clock :
          last' = IF T!Fails(k)
                  THEN [status |-> "failed", cutoff |-> k, settled |-> T!IsSettled(k)]
                  ELSE [status |-> "succeeded", cutoff |-> k, settled |-> T!IsSettled(k),
                        outputs |-> T!Outputs(k)]
    BY <1>4 DEF T!Execute
  <2>2. k \in Nat
    BY <1>1 DEF CalculationTyped
  <2>3. CASE T!Fails(k)
    BY <2>1, <2>3 DEF Traced
  <2>4. CASE ~T!Fails(k)
    <3>1. last'.outputs = T!Outputs(k)
      BY <2>1, <2>4
    <3>2. DOMAIN T!Outputs(k) = T!Candidates(k)
          /\ \A date \in T!Candidates(k) : T!Outputs(k)[date] = T!OutputAt(date, k)
      BY DEF T!Outputs
    <3>3. ASSUME NEW date \in DOMAIN last'.outputs, last'.outputs[date].result.reason = "none"
          PROVE  IsTraced(date, last.outputs[date])'
      <4>1. PICK output : output = T!OutputAt(date, k)
        OBVIOUS
      <4>2. date \in T!Candidates(k) /\ last'.outputs[date] = output /\ output.result.reason = "none"
        BY <3>1, <3>2, <3>3, <4>1
      <4>3. IsTraced(date, output)
        BY <1>1, <2>2, <2>4, <4>1, <4>2, OutputIsTraced
      <4>4. IsTraced(date, output)'
        BY <1>2, <4>3, TracedStays
      <4> QED
        BY <4>2, <4>4
    <3> QED
      BY <3>3 DEF Traced
  <2> QED
    BY <2>3, <2>4
<1> QED
  BY <1>3, <1>4 DEF T!Next, T!Tick, T!Stamp, T!Commit, T!vars

LEMMA TracedIsReplayable ==
    ASSUME T!TransformationAssumption, CalculationTyped, Traced
    PROVE  T!OutputsAreReplayable
<1>1. asked \in Definitions
  BY DEF CalculationTyped
<1>2. ASSUME NEW date, NEW output, IsTraced(date, output)
      PROVE  T!IsComplete(date, output.lineage) /\ T!IsReplayed(output)
  <2>1. PICK windows : IsMadeOf(output, windows, date)
    BY <1>2 DEF IsTraced
  <2>2. asked.type \in T!Binary \cup T!Rolling \cup T!Unary
    BY <1>1, SizeTyped
  <2> QED
    BY <1>1, <2>1, <2>2, LineageIsComplete, BinaryReplayed, PairReplayed, RollingReplayed
<1>3. ASSUME last.status = "succeeded", NEW date \in DOMAIN last.outputs,
             last.outputs[date].result.reason = "none"
      PROVE  T!IsComplete(date, last.outputs[date].lineage) /\ T!IsReplayed(last.outputs[date])
  BY <1>2, <1>3 DEF Traced
<1> QED
  BY <1>3 DEF T!OutputsAreReplayable

(* A run is what was known at its cutoff, as soon as that is settled, and  *)
(* can be shown to be from its lineage at any time: a window has a state   *)
(* for each of its roles, and a value is what the formula of the           *)
(* definition gives for these states, whatever has been revised since.     *)
THEOREM RunsReproducible ==
    ASSUME T!TransformationAssumption
    PROVE  T!Spec => []T!RunsAreReproducible
<1>1. T!Init => Traced
  BY DEF T!Init, T!NoRun, Traced
<1>2. CalculationInv /\ Traced /\ [T!Next]_(T!vars) => Traced'
  BY TracedStep
<1>3. CalculationInv /\ Traced => T!RunsAreReproducible
  BY TracedIsReplayable DEF CalculationInv, T!RunsAreReproducible
<1> QED
  BY <1>1, <1>2, <1>3, CalculationInvariant, PTL DEF T!Spec
=============================================================================
