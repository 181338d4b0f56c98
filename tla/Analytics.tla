------------------------------- MODULE Analytics -------------------------------
(***************************************************************************)
(* One derived series: its definition and versions, which clients edit,    *)
(* and the runs that calculate it from the revisions of its sources.       *)
(*                                                                         *)
(* Source: analytics_services.py, analytics_management_services.py,        *)
(* analytics_models.py.                                                    *)
(*                                                                         *)
(* A run is one transaction: REPEATABLE READ on PostgreSQL, where all it   *)
(* reads is the snapshot of its first SELECT, or one that holds the write  *)
(* lock on SQLite.  Rows with the statuses pending and running exist only  *)
(* inside it: no other session ever reads one.                             *)
(*                                                                         *)
(* Content: the outputs of a run are what the engine calculates from the   *)
(* revisions it resolved, so a run holds the set of those.  All requests   *)
(* ask for one range.  Revisions are numbered in the order of commits.     *)
(***************************************************************************)
EXTENDS Naturals, Sequences, FiniteSets, FiniteSetsExt

CONSTANTS
    Client,        \* requests that may be in flight together
    MaxTime,       \* bound on the clock
    MaxRevisions,  \* bound on the source revisions
    MaxLock,       \* bound on the lock_version of the definition
    MaxRuns        \* bound on the rows of analytics_runs

(* MCServices assumes it of its instance. *)
AnalyticsAssumption ==
    /\ IsFiniteSet(Client)
    /\ MaxTime \in Nat /\ MaxRevisions \in Nat /\ MaxRuns \in Nat
    /\ MaxLock \in Nat \ {0}

VARIABLES
    dialect,     \* of the database
    now,         \* the clock
    draft,       \* stamp of a source revision that is not committed, or None
    revisions,   \* stamps of the committed source revisions
    definition,  \* the definition, with its versions
    runs,        \* rows of analytics_runs with a final status, by id
    request      \* [Client -> request in progress, or the one last answered]

vars == <<dialect, now, draft, revisions, definition, runs, request>>

-----------------------------------------------------------------------------
None == MaxTime + 1

Time == 0 .. MaxTime

(* A version is its created_at. *)
Definition == [enabled : BOOLEAN, lock_version : 1 .. MaxLock, versions : Seq(Time)]

Run == [status : {"succeeded", "failed"}, version : Nat \ {0}, cutoff : Time,
        completed_at : Time, content : SUBSET (1 .. MaxRevisions), retry_of : 0 .. MaxRuns]

Idle == [step |-> "idle"]

TypeOK ==
    /\ dialect \in {"postgresql", "sqlite"}
    /\ now \in Time /\ draft \in Time \cup {None}
    /\ revisions \in Seq(Time) /\ Len(revisions) <= MaxRevisions
    /\ definition \in Definition
    /\ runs \in Seq(Run) /\ Len(runs) <= MaxRuns
    /\ \A c \in Client : request[c].step \in
         {"idle", "edit", "version", "clock", "insert", "running", "failing", "answered"}

(* create_definition has committed, with version 1. *)
Init ==
    /\ dialect \in {"postgresql", "sqlite"}
    /\ now = 0 /\ draft = None /\ revisions = <<>>
    /\ definition = [enabled |-> TRUE, lock_version |-> 1, versions |-> <<0>>]
    /\ runs = <<>>
    /\ request = [c \in Client |-> Idle]

-----------------------------------------------------------------------------
Executing == {c \in Client : request[c].step \in {"clock", "insert", "running"}}

(* BEGIN IMMEDIATE keeps every other writer out until the end of the run. *)
MayWrite(c) == dialect = "sqlite" => Executing \subseteq {c}

Reply(c) == request' = [request EXCEPT ![c] = Idle]

Tick ==
    /\ now < MaxTime
    /\ now' = now + 1
    /\ UNCHANGED <<dialect, draft, revisions, definition, runs, request>>

(* An import takes the stamp of a revision before its transaction commits. *)
StampRevision ==
    /\ draft = None /\ Len(revisions) < MaxRevisions
    /\ draft' = now
    /\ UNCHANGED <<dialect, now, revisions, definition, runs, request>>

CommitRevision ==
    /\ draft # None
    /\ dialect = "sqlite" => Executing = {}
    /\ revisions' = Append(revisions, draft)
    /\ draft' = None
    /\ UNCHANGED <<dialect, now, definition, runs, request>>

-----------------------------------------------------------------------------
(* Editing the definition: patch_definition, set_definition_enabled and    *)
(* create_version, with the lock_version that the client has been shown.   *)
LoadDefinition(c) ==
    /\ request[c].step = "idle"
    /\ definition.lock_version < MaxLock
    /\ request' = [request EXCEPT ![c] = [step |-> "edit", seen |-> definition]]
    /\ UNCHANGED <<dialect, now, draft, revisions, definition, runs>>

(* Mutant: the UPDATE without the version that the client expects. *)
AnyVersion(c) == TRUE

IsCurrent(c) == definition.lock_version = request[c].seen.lock_version

Bumped == definition.lock_version + 1

SetEnabled(c) ==
    /\ request[c].step = "edit"
    /\ MayWrite(c)
    /\ \E enabled \in BOOLEAN :
         \/ ~IsCurrent(c) /\ UNCHANGED definition
         \/ /\ IsCurrent(c)
            /\ definition' = [definition EXCEPT !.enabled = enabled, !.lock_version = Bumped]
    /\ Reply(c)
    /\ UNCHANGED <<dialect, now, draft, revisions, runs>>

(* _prepare_version reads the sources: the transaction begins, and on      *)
(* PostgreSQL its now() is this moment.                                    *)
PrepareVersion(c) ==
    /\ request[c].step = "edit"
    /\ request' = [request EXCEPT ![c] = [step |-> "version", seen |-> @.seen, began |-> now]]
    /\ UNCHANGED <<dialect, now, draft, revisions, definition, runs>>

CreatedAt(c) == IF dialect = "postgresql" THEN request[c].began ELSE now

CreateVersion(c) ==
    /\ request[c].step = "version"
    /\ MayWrite(c)
    /\ \/ ~IsCurrent(c) /\ UNCHANGED definition
       \/ /\ IsCurrent(c)
          /\ definition' = [definition EXCEPT
               !.versions = Append(@, CreatedAt(c)), !.lock_version = Bumped]
    /\ Reply(c)
    /\ UNCHANGED <<dialect, now, draft, revisions, runs>>

-----------------------------------------------------------------------------
(* execute_analytics_run_outcome *)

(* What a run that sees the first n revisions resolves at a cutoff. *)
Eligible(n, cutoff) == {i \in 1 .. n : revisions[i] <= cutoff}

(* The SELECT of the definition starts: its clock is read, on SQLite under *)
(* the write lock.  as_of may be given, version 0 stands for the highest.  *)
Start(c) ==
    /\ request[c].step \in {"idle", "answered"}
    /\ Len(runs) + Cardinality({d \in Client : request[d].step \in
            {"clock", "insert", "running", "failing"}}) < MaxRuns
    /\ dialect = "sqlite" => Executing = {}
    /\ \E version \in 0 .. Len(definition.versions), as_of \in Time \cup {None},
          retry_of \in 0 .. Len(runs) :
         request' = [request EXCEPT ![c] =
           [step |-> "clock", version |-> version, as_of |-> as_of, retry_of |-> retry_of,
            clock |-> now]]
    /\ UNCHANGED <<dialect, now, draft, revisions, definition, runs>>

Cutoff(r) == IF r.as_of = None THEN r.clock ELSE r.as_of

Version(r) == IF r.version = 0 THEN Len(definition.versions) ELSE r.version

(* _validate_retry: a failed run of the same version and range. *)
IsRetryable(r) ==
    r.retry_of # 0 => runs[r.retry_of].status = "failed" /\ runs[r.retry_of].version = Version(r)

Refuses(r) == ~definition.enabled \/ Cutoff(r) > r.clock \/ ~IsRetryable(r)

(* The snapshot of the transaction: what it will read until it ends. *)
Snapshot(c) ==
    /\ request[c].step = "clock"
    /\ LET r == request[c] IN
       request' = [request EXCEPT ![c] =
         IF Refuses(r) THEN Idle
         ELSE [step |-> "insert", version |-> Version(r), cutoff |-> Cutoff(r),
               retry_of |-> r.retry_of, visible |-> Len(revisions), past |-> Len(runs),
               wanted |-> Eligible(Len(revisions), Cutoff(r))]]
    /\ UNCHANGED <<dialect, now, draft, revisions, definition, runs>>

SameRequest(c, d) ==
    request[c].version = request[d].version /\ request[c].cutoff = request[d].cutoff

(* The pending row: an insert waits while another transaction holds the    *)
(* entry of its request_fingerprint in uq_analytics_run_active_request.    *)
InsertRun(c) ==
    /\ request[c].step = "insert"
    /\ \A d \in Client \ {c} : request[d].step = "running" => ~SameRequest(c, d)
    /\ request' = [request EXCEPT ![c].step = "running"]
    /\ UNCHANGED <<dialect, now, draft, revisions, definition, runs>>

Resolved(c) == Eligible(request[c].visible, request[c].cutoff)

(* The runs with the reusable_fingerprint of a request: the cutoff is not  *)
(* part of it.                                                             *)
IsReusable(run, c) ==
    /\ run.status = "succeeded" /\ run.version = request[c].version
    /\ run.content = Resolved(c)

Answer(c, disposition, id) ==
    request' = [request EXCEPT ![c] =
        [step |-> "answered", disposition |-> disposition, run |-> id,
         version |-> @.version, wanted |-> @.wanted]]

(* Mutant: the loser looks for its own request, cutoff and all. *)
WinnersOfRequest(c) ==
    {i \in DOMAIN runs : IsReusable(runs[i], c) /\ runs[i].cutoff = request[c].cutoff}

Winners(c) == {i \in DOMAIN runs : IsReusable(runs[i], c)}

(* A run of the snapshot that has the same fingerprint is given out. *)
ReuseRun(c) ==
    /\ request[c].step = "running"
    /\ \E i \in 1 .. request[c].past :
         IsReusable(runs[i], c) /\ Answer(c, "completed_existing", i)
    /\ UNCHANGED <<dialect, now, draft, revisions, definition, runs>>

SeesReusable(c) == \E i \in 1 .. request[c].past : IsReusable(runs[i], c)

(* uq_analytics_run_reusable: the commit fails if a run that the snapshot  *)
(* lacks has the fingerprint; the loser then looks for the winner.         *)
LoseRace(c) ==
    /\ request[c].step = "running" /\ ~SeesReusable(c)
    /\ \E i \in DOMAIN runs : IsReusable(runs[i], c)
    /\ \/ \E i \in Winners(c) : Answer(c, "completed_existing", i)
       \/ Winners(c) = {} /\ Answer(c, "conflict", 0)
    /\ UNCHANGED <<dialect, now, draft, revisions, definition, runs>>

RowOf(c, status, content) ==
    [status |-> status, version |-> request[c].version, cutoff |-> request[c].cutoff,
     completed_at |-> now, content |-> content, retry_of |-> request[c].retry_of]

(* The outputs and the success are one commit. *)
CommitRun(c) ==
    /\ request[c].step = "running" /\ ~SeesReusable(c)
    /\ ~\E i \in DOMAIN runs : IsReusable(runs[i], c)
    /\ runs' = Append(runs, RowOf(c, "succeeded", Resolved(c)))
    /\ Answer(c, "created", Len(runs'))
    /\ UNCHANGED <<dialect, now, draft, revisions, definition>>

(* An error while resolving, evaluating or writing rolls the run back... *)
FailRun(c) ==
    /\ request[c].step = "running"
    /\ request' = [request EXCEPT ![c].step = "failing"]
    /\ UNCHANGED <<dialect, now, draft, revisions, definition, runs>>

(* ... and a failed run is committed in a transaction of its own. *)
PersistFailedRun(c) ==
    /\ request[c].step = "failing"
    /\ MayWrite(c)
    /\ runs' = Append(runs, RowOf(c, "failed", {}))
    /\ Reply(c)
    /\ UNCHANGED <<dialect, now, draft, revisions, definition>>

(* The process ends, or is interrupted: nothing is kept. *)
Crash(c) ==
    /\ request[c].step \notin {"idle", "answered"}
    /\ Reply(c)
    /\ UNCHANGED <<dialect, now, draft, revisions, definition, runs>>

Handle(c) ==
    \/ LoadDefinition(c) \/ SetEnabled(c) \/ PrepareVersion(c) \/ CreateVersion(c)
    \/ Start(c) \/ Snapshot(c) \/ InsertRun(c)
    \/ ReuseRun(c) \/ LoseRace(c) \/ CommitRun(c)
    \/ FailRun(c) \/ PersistFailedRun(c) \/ Crash(c)

Next == Tick \/ StampRevision \/ CommitRevision \/ \E c \in Client : Handle(c)

Spec == Init /\ [][Next]_vars

-----------------------------------------------------------------------------
(* The reads: _version_for_definition and _latest_succeeded_run. *)
Succeeded(version) ==
    {i \in DOMAIN runs : runs[i].status = "succeeded" /\ runs[i].version = version}

VersionAsOf(time) == Max({v \in DOMAIN definition.versions : definition.versions[v] <= time})

(* Newest by completed_at, then id. *)
LatestRun(version) ==
    CHOOSE i \in Succeeded(version) : \A j \in Succeeded(version) :
        \/ runs[i].completed_at > runs[j].completed_at
        \/ runs[i].completed_at = runs[j].completed_at /\ i >= j

-----------------------------------------------------------------------------
(* docs/v0.7-macro-analytics-architecture.md:175 and :704.  Whatever run a *)
(* request is answered with, its own, one that it found or that of the     *)
(* winner of a race, has the version that was asked for and was calculated *)
(* from exactly the revisions of the request's snapshot: none that was     *)
(* committed midway.  A lost race is no error, and no snapshot has two     *)
(* runs.                                                                   *)
AnswersAreExact ==
    /\ \A c \in Client : request[c].step = "answered" =>
         /\ request[c].disposition # "conflict"
         /\ LET run == runs[request[c].run] IN
              /\ run.status = "succeeded"
              /\ run.version = request[c].version
              /\ run.content = request[c].wanted
    /\ \A i, j \in DOMAIN runs :
         /\ runs[i].status = "succeeded" /\ runs[j].status = "succeeded"
         /\ runs[i].version = runs[j].version /\ runs[i].content = runs[j].content
         => i = j

(* docs/v0.7-macro-analytics-architecture.md:568: a version becomes        *)
(* current when it is created and never moves back, so that created_at is  *)
(* the time of its activation: the version of a past moment has all the    *)
(* earlier ones before it, none that was created after that moment.        *)
VersionsActivateInOrder ==
    \A time \in Time : \A v \in 1 .. VersionAsOf(time) : definition.versions[v] <= time

(* docs/v0.7-macro-analytics-architecture.md:496: a latest read gives the  *)
(* run with the latest calculation cutoff.                                 *)
LatestHasNewestCutoff ==
    \A v \in DOMAIN definition.versions : Succeeded(v) # {} =>
        \A i \in Succeeded(v) : runs[LatestRun(v)].cutoff >= runs[i].cutoff
=============================================================================
