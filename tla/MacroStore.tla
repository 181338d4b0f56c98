------------------------------ MODULE MacroStore ------------------------------
(***************************************************************************)
(* The observations and revisions of one series, and the import batches,   *)
(* under requests that run at once: provider synchronizations, corrections *)
(* by hand and file imports.                                               *)
(*                                                                         *)
(* Source: macro_data_services.py (_effective_state, _write_observation,   *)
(* add_observation, create_import), provider_services.py                   *)
(* (synchronize_provider_series), macro_data_models.py (constraints).      *)
(*                                                                         *)
(* An observation is the entry of its date with sequence 0, a revision an  *)
(* entry with the sequence of its row; what the rows record beside value,  *)
(* predecessor and timestamp is part of the value.  The series exists, is  *)
(* active, has no quality thresholds and an irregular frequency, so that   *)
(* _quality_checks finds nothing, and its metadata does not change.        *)
(*                                                                         *)
(* A SELECT is a step.  The statements of a file import are steps too,     *)
(* since it holds what it wrote until it commits; the writes of the other  *)
(* requests are one step with their commit.                                *)
(***************************************************************************)
EXTENDS Naturals, Sequences, FiniteSets

CONSTANTS
    Date,         \* observed_at
    Value,        \* effective states; a missing value is one of them
    Payload,      \* what requests may carry
    Key,          \* explicit idempotency keys
    Session,      \* requests that may be in flight together
    Nothing,      \* NULL
    Dialect,      \* "sqlite" or "postgresql"
    MaxRequests,  \* bound on the requests sent
    MaxTime       \* bound on the clock

(* valid is FALSE of a row whose publication_timestamp is in the future.   *)
(* reason says whether there is a revision_reason.                         *)
Row == [date : Date, value : Value, reason : BOOLEAN, valid : BOOLEAN]

(* A provider's answer has one row for a date, in the order of the dates.  *)
StoreAssumption ==
    /\ Date \subseteq Nat
    /\ Nothing \notin Value /\ Nothing \notin Key /\ Nothing \notin Payload
    /\ Key \cap Payload = {}
    /\ \A p \in Payload :
         /\ p.kind \in {"sync", "manual", "file"}
         /\ p.rows \in Seq(Row) /\ p.rows # <<>>
         /\ p.partial \in BOOLEAN
         /\ p.kind = "manual" => Len(p.rows) = 1
         /\ p.kind = "sync" => \A i, j \in DOMAIN p.rows :
                                 i < j => p.rows[i].date < p.rows[j].date
    /\ Dialect \in {"sqlite", "postgresql"}
    /\ MaxRequests \in Nat /\ MaxTime \in Nat

ASSUME StoreAssumption

VARIABLES
    now,       \* the clock
    entries,   \* the committed rows of data_observations and data_revisions
    batch,     \* [ImportKey -> row of data_import_batches]
    issues,    \* what quality issues were committed for
    session,   \* [Session -> request in progress, or the last one's answer]
    pending,   \* [Session -> entries it wrote in a transaction not committed]
    sent       \* number of requests so far

vars == <<now, entries, batch, issues, session, pending, sent>>

-----------------------------------------------------------------------------
(* A generated key is the fingerprint of the provider's answer.  The code's *)
(* fingerprint covers the request, the metadata of the provider and the    *)
(* vintages of the observations too: it repeats only when they all do, and *)
(* here they never change.                                                 *)
GeneratedKey(p) == p

ImportKey == Key \cup {GeneratedKey(p) : p \in {q \in Payload : q.kind = "sync"}}

Entry == [date : Date, sequence : Nat, previous : Value \cup {Nothing},
          value : Value, stamp : Nat, batch : ImportKey \cup {Nothing}]

BatchStatus == {"processing", "completed", "completed_with_errors", "failed"}

(* rejected is rejected_rows; errors are the rows data_import_errors name. *)
Batch == [status : BatchStatus \cup {"none"}, payload : Payload \cup {Nothing},
          rows : Nat, accepted : Nat, rejected : Nat, errors : SUBSET Nat]

NoBatch == [status |-> "none", payload |-> Nothing,
            rows |-> 0, accepted |-> 0, rejected |-> 0, errors |-> {}]

(* A quality issue names the series only; of which row of which import, or *)
(* of which observation by hand, it speaks is remembered here.             *)
Issue == [batch : ImportKey \cup {Nothing}, row : Nat, date : Date]

(* planned: rows a synchronization found new or changed; rejected: rows a  *)
(* file import has rejected; seen: what was read of each date.             *)
Request == [state : {"idle", "lookup", "read", "stamp", "check", "write",
                     "open", "rows", "insert", "failing"},
            answer : {"none", "imported", "replay", "refused", "conflict", "error"},
            payload : Payload \cup {Nothing}, key : ImportKey \cup {Nothing},
            stamp : Nat, next : Nat \ {0}, seen : [Date -> SUBSET Entry],
            planned : SUBSET Nat, rejected : SUBSET Nat]

Idle(answer) ==
    [state |-> "idle", answer |-> answer, payload |-> Nothing, key |-> Nothing,
     stamp |-> 0, next |-> 1, seen |-> [d \in Date |-> {}],
     planned |-> {}, rejected |-> {}]

Rows(s) == session[s].payload.rows
NextRow(s) == Rows(s)[session[s].next]
AllRead(s) == session[s].next > Len(Rows(s))

-----------------------------------------------------------------------------
(* _effective_state on the entries of one date, and its as-of variant. *)
Of(E, d) == {e \in E : e.date = d}

Last(D) == CHOOSE e \in D : \A f \in D : f.sequence <= e.sequence

Effective(E, d) == Last(Of(E, d)).value

AsOf(E, d, cutoff) ==
    LET visible == {e \in Of(E, d) : e.stamp <= cutoff} IN
    IF \E e \in visible : e.sequence = 0 THEN Last(visible).value ELSE Nothing

(* Mutant: the sequence of the revision that is replaced. *)
SequenceOfLast(D, row, stamp, key) ==
    [date |-> row.date, sequence |-> Cardinality(D) - 1,
     previous |-> IF D = {} THEN Nothing ELSE Last(D).value,
     value |-> row.value, stamp |-> stamp, batch |-> key]

(* Mutant: stamped with the day of publication instead of the ingestion. *)
StampedAtPublication(D, row, stamp, key) ==
    [date |-> row.date, sequence |-> Cardinality(D),
     previous |-> IF D = {} THEN Nothing ELSE Last(D).value,
     value |-> row.value, batch |-> key,
     stamp |-> IF row.date < stamp THEN row.date ELSE stamp]

(* The row that _write_observation adds when it read the entries D. *)
NewEntry(D, row, stamp, key) ==
    [date |-> row.date, sequence |-> Cardinality(D),
     previous |-> IF D = {} THEN Nothing ELSE Last(D).value,
     value |-> row.value, stamp |-> stamp, batch |-> key]

(* Mutant: no unique constraint. *)
NoViolation(E, new) == FALSE

(* uq_observation_series_timestamp, uq_revision_observation_sequence *)
UniqueViolation(E, new) ==
    \E e \in E, f \in new : e.date = f.date /\ e.sequence = f.sequence

(* Mutant: no unique index. *)
NeverTaken(k) == FALSE

(* The unique index on idempotency_key. *)
KeyTaken(k) == k # Nothing /\ batch[k].status # "none"

(* A write waits for a transaction that holds the same rows, on SQLite for *)
(* any that has written (an import error or issue counts as a row).        *)
Waits(s, t, dates) ==
    /\ t # s
    /\ IF Dialect = "sqlite"
       THEN pending[t] # {} \/ session[t].rejected # {}
       ELSE \E e \in pending[t] : e.date \in dates

Blocked(s, dates) == \E t \in Session : Waits(s, t, dates)

Answer(s, answer) == session' = [session EXCEPT ![s] = Idle(answer)]

ClockReading == now

-----------------------------------------------------------------------------
(* A request arrives; a synchronization has its provider's answer already. *)
KeysFor(p) ==
    CASE p.kind = "sync" -> Key \cup {GeneratedKey(p)}
      [] p.kind = "file" -> Key
      [] p.kind = "manual" -> {Nothing}

Send(s) ==
    /\ session[s].state = "idle"
    /\ sent < MaxRequests
    /\ sent' = sent + 1
    /\ \E p \in Payload : \E k \in KeysFor(p) :
         session' = [session EXCEPT ![s] =
           [Idle("none") EXCEPT !.payload = p, !.key = k,
              !.state = IF p.kind = "manual" THEN "stamp" ELSE "lookup"]]
    /\ UNCHANGED <<now, entries, batch, issues, pending>>

(* The batch under the key, if there is one, is the answer: provided that  *)
(* it is of the same request, and a file import has not failed.            *)
Replay(s) ==
    LET q == session[s]
        b == batch[q.key] IN
    /\ q.state = "lookup"
    /\ b.status # "none"
    /\ Answer(s, IF b.payload = q.payload /\ b.status # "failed"
                 THEN "replay" ELSE "conflict")
    /\ UNCHANGED <<now, entries, batch, issues, pending, sent>>

(* Otherwise a synchronization reads; a file import reads the clock. *)
StartImport(s) ==
    LET q == session[s] IN
    /\ q.state = "lookup"
    /\ batch[q.key].status = "none"
    /\ session' = [session EXCEPT ![s] =
         IF q.payload.kind = "sync" THEN [q EXCEPT !.state = "read"]
         ELSE [q EXCEPT !.state = "open", !.stamp = ClockReading]]
    /\ UNCHANGED <<now, entries, batch, issues, pending, sent>>

-----------------------------------------------------------------------------
(* Mutant: the comparison forgets the revisions. *)
DiffersFromOriginal(D, row) ==
    \A e \in D : e.sequence = 0 => e.value # row.value

(* synchronize_provider_series: one row of the answer is compared with the *)
(* effective state of its date, and planned if that differs.               *)
Differs(D, row) == D = {} \/ Last(D).value # row.value

ReadRow(s) ==
    LET q == session[s]
        row == NextRow(s)
        found == Of(entries, row.date) IN
    /\ q.state = "read"
    /\ ~AllRead(s)
    /\ session' = [session EXCEPT ![s] =
         [q EXCEPT !.seen[row.date] = found, !.next = @ + 1,
            !.planned = IF Differs(found, row) THEN @ \cup {q.next} ELSE @]]
    /\ UNCHANGED <<now, entries, batch, issues, pending, sent>>

(* imported_at is read after the loop; add_observation reads ingested_at   *)
(* before it looks for the observation.                                    *)
Stamp(s) ==
    LET q == session[s] IN
    /\ \/ q.state = "read" /\ AllRead(s)
       \/ q.state = "stamp"
    /\ session' = [session EXCEPT ![s] =
         [q EXCEPT !.stamp = ClockReading,
            !.state = IF q.state = "read" THEN "write" ELSE "check"]]
    /\ UNCHANGED <<now, entries, batch, issues, pending, sent>>

(* add_observation refuses a future publication_timestamp, and a second    *)
(* observation without a reason, and records a quality issue.              *)
Refusal(row) ==
    ~row.valid \/ (Of(entries, row.date) # {} /\ ~row.reason)

Refuse(s) ==
    LET row == NextRow(s) IN
    /\ session[s].state = "check"
    /\ Refusal(row)
    /\ ~Blocked(s, {})
    /\ issues' = issues \cup {[batch |-> Nothing, row |-> session[s].next, date |-> row.date]}
    /\ Answer(s, "refused")
    /\ UNCHANGED <<now, entries, batch, pending, sent>>

ReadObservation(s) ==
    LET q == session[s]
        row == NextRow(s) IN
    /\ q.state = "check"
    /\ ~Refusal(row)
    /\ session' = [session EXCEPT ![s] =
         [q EXCEPT !.state = "write", !.planned = {q.next},
            !.seen[row.date] = Of(entries, row.date)]]
    /\ UNCHANGED <<now, entries, batch, issues, pending, sent>>

-----------------------------------------------------------------------------
(* The writes.  A synchronization reads a planned revision's date again,   *)
(* but the session may still hold, and then uses, what it read first; an   *)
(* observation that was absent is inserted as it was planned.              *)
MayReread(s) ==
    LET q == session[s] IN
    IF q.payload.kind = "sync"
    THEN {i \in q.planned : q.seen[Rows(s)[i].date] # {}} ELSE {}

Written(s, again) ==
    LET q == session[s] IN
    {NewEntry(IF i \in again THEN Of(entries, Rows(s)[i].date)
              ELSE q.seen[Rows(s)[i].date], Rows(s)[i], q.stamp, q.key)
       : i \in q.planned}

SyncBatch(q) ==
    [NoBatch EXCEPT !.status = "completed", !.payload = q.payload,
       !.rows = Cardinality(q.planned), !.accepted = Cardinality(q.planned)]

CanWrite(s) ==
    /\ session[s].state = "write"
    /\ ~Blocked(s, {Rows(s)[i].date : i \in session[s].planned})

Commit(s) ==
    LET q == session[s] IN
    /\ CanWrite(s)
    /\ ~KeyTaken(q.key)
    /\ \A i \in q.planned : Rows(s)[i].valid
    /\ \E again \in SUBSET MayReread(s) :
         /\ ~UniqueViolation(entries, Written(s, again))
         /\ entries' = entries \cup Written(s, again)
    /\ batch' = IF q.key = Nothing THEN batch
                ELSE [batch EXCEPT ![q.key] = SyncBatch(q)]
    /\ Answer(s, "imported")
    /\ UNCHANGED <<now, issues, pending, sent>>

(* Any row in conflict rolls everything back. *)
Conflict(s) ==
    LET q == session[s] IN
    /\ CanWrite(s)
    /\ \/ KeyTaken(q.key)
       \/ \E i \in q.planned : ~Rows(s)[i].valid
       \/ \E again \in SUBSET MayReread(s) :
            UniqueViolation(entries, Written(s, again))
    /\ Answer(s, "conflict")
    /\ UNCHANGED <<now, entries, batch, issues, pending, sent>>

-----------------------------------------------------------------------------
(* create_import commits a batch in processing before it writes a row. *)
OpenBatch(s) ==
    LET q == session[s] IN
    /\ q.state = "open"
    /\ ~Blocked(s, {})
    /\ IF KeyTaken(q.key)
       THEN Answer(s, "conflict") /\ UNCHANGED batch
       ELSE /\ batch' = [batch EXCEPT ![q.key] =
                 [NoBatch EXCEPT !.status = "processing", !.payload = q.payload,
                    !.rows = Len(Rows(s)), !.rejected = Len(Rows(s))]]
            /\ session' = [session EXCEPT ![s].state = "rows"]
    /\ UNCHANGED <<now, entries, issues, pending, sent>>

(* Mutant: the failure is recorded without a rollback. *)
FailWithoutRollback(s) ==
    /\ session' = [session EXCEPT ![s].state = "failing"]
    /\ UNCHANGED pending

(* A rejected row is counted in partial mode, and ends an atomic import. *)
RejectRow(s) ==
    LET q == session[s] IN
    IF q.payload.partial
    THEN /\ ~Blocked(s, {})
         /\ session' = [session EXCEPT ![s] =
              [q EXCEPT !.rejected = @ \cup {q.next}, !.next = @ + 1, !.state = "rows"]]
         /\ UNCHANGED pending
    ELSE /\ session' = [session EXCEPT ![s].state = "failing"]
         /\ pending' = [pending EXCEPT ![s] = {}]

(* _write_observation looks for the observation, among its own rows too. *)
ReadFileRow(s) ==
    LET q == session[s]
        row == NextRow(s)
        found == Of(entries \cup pending[s], row.date) IN
    /\ q.state = "rows"
    /\ ~AllRead(s)
    /\ IF ~row.valid \/ (found # {} /\ ~row.reason)
       THEN RejectRow(s)
       ELSE /\ session' = [session EXCEPT ![s] =
                 [q EXCEPT !.state = "insert", !.seen[row.date] = found]]
            /\ UNCHANGED pending
    /\ UNCHANGED <<now, entries, batch, issues, sent>>

(* On SQLite no transaction is begun before the first statement outside a  *)
(* savepoint, so that until a row is rejected each savepoint commits.      *)
SavepointCommits(q) ==
    Dialect = "sqlite" /\ q.payload.partial /\ q.rejected = {}

InsertRow(s) ==
    LET q == session[s]
        row == NextRow(s)
        new == NewEntry(q.seen[row.date], row, q.stamp, q.key) IN
    /\ q.state = "insert"
    /\ ~Blocked(s, {row.date})
    /\ IF UniqueViolation(entries \cup pending[s], {new})
       THEN RejectRow(s) /\ UNCHANGED entries
       ELSE /\ session' = [session EXCEPT ![s] =
                 [q EXCEPT !.next = @ + 1, !.state = "rows"]]
            /\ IF SavepointCommits(q)
               THEN entries' = entries \cup {new} /\ UNCHANGED pending
               ELSE /\ pending' = [pending EXCEPT ![s] = @ \cup {new}]
                    /\ UNCHANGED entries
    /\ UNCHANGED <<now, batch, issues, sent>>

(* Mutant: one issue for the import, about the last row it rejected. *)
LastIssue(s) ==
    {[batch |-> session[s].key, row |-> i, date |-> Rows(s)[i].date] :
       i \in {j \in session[s].rejected : \A k \in session[s].rejected : k <= j}}

(* Each rejected row is an issue. *)
RowIssues(s) ==
    {[batch |-> session[s].key, row |-> i, date |-> Rows(s)[i].date] :
       i \in session[s].rejected}

(* The second commit: the rows, the counts, the errors and the issues. *)
FinishImport(s) ==
    LET q == session[s]
        rejected == Cardinality(q.rejected) IN
    /\ q.state = "rows"
    /\ AllRead(s)
    /\ ~Blocked(s, {})
    /\ entries' = entries \cup pending[s]
    /\ pending' = [pending EXCEPT ![s] = {}]
    /\ issues' = issues \cup RowIssues(s)
    /\ batch' = [batch EXCEPT ![q.key] =
         [@ EXCEPT !.accepted = Len(Rows(s)) - rejected, !.rejected = rejected,
            !.errors = q.rejected,
            !.status = IF rejected = 0 THEN "completed" ELSE "completed_with_errors"]]
    /\ Answer(s, "imported")
    /\ UNCHANGED <<now, sent>>

(* After the rollback of an atomic import, its failure is committed. *)
RecordFailure(s) ==
    LET q == session[s] IN
    /\ q.state = "failing"
    /\ ~Blocked(s, {})
    /\ batch' = [batch EXCEPT ![q.key] =
         [@ EXCEPT !.status = "failed", !.accepted = 0, !.rejected = batch[q.key].rows,
            !.errors = {q.next}]]
    /\ Answer(s, "conflict")
    /\ UNCHANGED <<now, entries, issues, pending, sent>>

-----------------------------------------------------------------------------
(* An error that no handler expects ends the request and rolls back its    *)
(* transaction: a process that dies, a lock that is not granted in time.   *)
Interrupt(s) ==
    /\ session[s].state # "idle"
    /\ pending' = [pending EXCEPT ![s] = {}]
    /\ Answer(s, "error")
    /\ UNCHANGED <<now, entries, batch, issues, sent>>

(* PostgreSQL ends one of two transactions that wait for each other. *)
WaitsToInsert(s, t) ==
    session[s].state = "insert" /\ Waits(s, t, {NextRow(s).date})

BreakDeadlock(s) ==
    /\ \E t \in Session : WaitsToInsert(s, t) /\ WaitsToInsert(t, s)
    /\ Interrupt(s)

Tick ==
    /\ now < MaxTime
    /\ now' = now + 1
    /\ UNCHANGED <<entries, batch, issues, session, pending, sent>>

Init ==
    /\ now = 0
    /\ entries = {}
    /\ batch = [k \in ImportKey |-> NoBatch]
    /\ issues = {}
    /\ session = [s \in Session |-> Idle("none")]
    /\ pending = [s \in Session |-> {}]
    /\ sent = 0

Handle(s) ==
    \/ Replay(s) \/ StartImport(s)
    \/ ReadRow(s) \/ Stamp(s) \/ Refuse(s) \/ ReadObservation(s)
    \/ Commit(s) \/ Conflict(s)
    \/ OpenBatch(s) \/ ReadFileRow(s) \/ InsertRow(s)
    \/ FinishImport(s) \/ RecordFailure(s)

Next ==
    \/ \E s \in Session : Send(s) \/ Handle(s) \/ Interrupt(s) \/ BreakDeadlock(s)
    \/ Tick

Spec == Init /\ [][Next]_vars

(* A request is worked on until it is answered, and a deadlock is found. *)
FairSpec == Spec /\ \A s \in Session : WF_vars(Handle(s)) /\ WF_vars(BreakDeadlock(s))

-----------------------------------------------------------------------------
TypeOK ==
    /\ now \in Nat /\ sent \in Nat
    /\ entries \in SUBSET Entry
    /\ batch \in [ImportKey -> Batch]
    /\ issues \in SUBSET Issue
    /\ session \in [Session -> Request]
    /\ pending \in [Session -> SUBSET Entry]

(* The sequences of a date count from 0 without a gap or a duplicate, and  *)
(* every revision names the value it replaced: whatever two requests read  *)
(* before either wrote, the unique constraints let one chain through.      *)
Linked(E) ==
    \A d \in Date :
      /\ {e.sequence : e \in Of(E, d)} = 0..(Cardinality(Of(E, d)) - 1)
      /\ \A e, f \in Of(E, d) : e.sequence = f.sequence + 1 => e.previous = f.value
      /\ \A e \in Of(E, d) : e.sequence = 0 => e.previous = Nothing

ChainIsLinked ==
    Linked(entries) /\ \A s \in Session : Linked(entries \cup pending[s])

(* The counts of a batch with an outcome are those of the rows that carry  *)
(* its id, and every row of a finished file import is stored under the     *)
(* batch or has an error and an issue of its own.  An atomic import that   *)
(* failed or was cut short left no row and no issue, and one error if it   *)
(* failed.                                                                 *)
Stores(E, row) == \E e \in E : e.date = row.date /\ e.value = row.value

BatchCountsRows ==
    \A k \in ImportKey :
      LET b == batch[k]
          own == {e \in entries : e.batch = k}
          reported == {issue \in issues : issue.batch = k} IN
      /\ b.accepted + b.rejected = b.rows
      /\ b.status \in {"completed", "completed_with_errors"} =>
           /\ b.accepted = Cardinality(own) /\ b.rejected = Cardinality(b.errors)
           /\ b.payload.kind = "file" =>
                \A i \in DOMAIN b.payload.rows \ b.errors : Stores(own, b.payload.rows[i])
           /\ reported = {[batch |-> k, row |-> i, date |-> b.payload.rows[i].date] : i \in b.errors}
      /\ b.status = "failed" => own = {} /\ reported = {} /\ Cardinality(b.errors) = 1
      /\ b.status = "processing" =>
           /\ own # {} => Dialect = "sqlite" /\ b.payload.partial
           /\ reported = {} /\ b.errors = {}

(* What a reader was told as of a cutoff in the past stays so, unless a    *)
(* request that had read its timestamp by the cutoff was still in flight.  *)
Stamped(s, cutoff) ==
    /\ session[s].state \in {"check", "write", "open", "rows", "insert"}
    /\ session[s].stamp <= cutoff

SettledReadsAreStable ==
    [][\A d \in Date, cutoff \in 0..(now - 1) :
         (\A s \in Session : ~Stamped(s, cutoff)) =>
           AsOf(entries', d, cutoff) = AsOf(entries, d, cutoff)]_vars

(* When a synchronization is answered with a new batch, every date of the  *)
(* provider's answer has the value of the answer, or was changed by        *)
(* another request after it was read.                                      *)
Answered(s, answers) ==
    /\ session[s].state # "idle"
    /\ session[s].payload.kind = "sync"
    /\ session'[s].answer \in answers

SyncTakesEffect ==
    [][\A s \in Session : Answered(s, {"imported"}) =>
         \A i \in DOMAIN Rows(s) :
           LET row == Rows(s)[i] IN
           \/ Effective(entries', row.date) = row.value
           \/ Of(entries, row.date) # session[s].seen[row.date]]_vars

(* Answered with a batch, old or new, while no other request is in flight, *)
(* the store has the values that the provider gave.                        *)
ChangedValuesAreAppended ==
    [][\A s \in Session :
         /\ Answered(s, {"imported", "replay"})
         /\ \A t \in Session \ {s} : session[t].state = "idle"
         => \A i \in DOMAIN Rows(s) :
              Effective(entries', Rows(s)[i].date) = Rows(s)[i].value]_vars

(* A request does not wait for ever, whatever the others hold. *)
EveryRequestEnds ==
    \A s \in Session : session[s].state # "idle" ~> session[s].state = "idle"

(* The store keeps the histories that ObservationHistory promises. *)
Rank(D, e) == Cardinality({f \in D : f.sequence < e.sequence})

HistoryOf(D) ==
    [i \in 1..Cardinality(D) |->
       LET e == CHOOSE e \in D : Rank(D, e) <= i - 1 /\
                  \A f \in D : Rank(D, f) <= i - 1 => Rank(D, f) <= Rank(D, e) IN
       [previous |-> e.previous, value |-> e.value, batch |-> e.batch]]

History == INSTANCE ObservationHistory WITH
    history <- [d \in Date |-> HistoryOf(Of(entries, d))],
    finished <- {k \in ImportKey : batch[k].status \notin {"none", "processing"}}

ImplementsHistory == History!Spec
=============================================================================
