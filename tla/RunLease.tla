------------------------------ MODULE RunLease ------------------------------
(***************************************************************************)
(* The lease protocol of the synchronization scheduler: how worker         *)
(* processes recover, claim, execute, renew and complete the rows of       *)
(* provider_sync_runs.                                                     *)
(*                                                                         *)
(* Source: scheduler_services.py (recover_expired_runs .. execute_claimed_ *)
(* run) and scheduler_worker.py (LeaseHeartbeat, run_cycle, main).         *)
(*                                                                         *)
(* A database transaction is one step; what happens between a SELECT and   *)
(* the UPDATE that relies on it is another, because SQLite takes no lock   *)
(* for a SELECT.  On PostgreSQL the SELECT locks its rows (FOR UPDATE SKIP *)
(* LOCKED) until the transaction ends.  Nothing fences the import against  *)
(* the lease: a process that lost its lease goes on executing.             *)
(***************************************************************************)
EXTENDS Integers, FiniteSets

CONSTANTS
    Process,          \* worker processes
    WorkerId,         \* [Process -> worker id]; ids may repeat (host name and pid)
    Run,              \* primary keys of provider_sync_runs
    ConcurrencyKey,   \* [Run -> concurrency key]
    Payload,          \* fingerprints of what the provider may answer
    NoPayload,        \* NULL for a Payload
    NoOwner,          \* NULL for a worker id
    NoToken,          \* a process that executes nothing
    MaximumAttempts,  \* settings.scheduler_maximum_attempts
    LeaseSeconds,     \* settings.scheduler_lease_seconds
    RetryDelay,       \* [Run -> [1..MaximumAttempts -> seconds]], see RetryBackoff
    ClaimLimit,       \* settings.scheduler_claim_limit
    Dialect,          \* "sqlite" or "postgresql"
    DueLag,           \* bound: how late a due occurrence is materialized
    ClockLag,         \* bound: seconds between reading the clock and the UPDATE
    Horizon,          \* bound: until then the heartbeat renews and idle time passes
    MaxTime,          \* bound on the clock
    MaxCrashes        \* bound on crashes

NoTime == -1

Owner == {WorkerId[w] : w \in Process}
Error == {"none", "retryable", "terminal", "lease_expired"}
Executing == {"fetch", "lookup", "write", "complete", "failing"}
Transaction == {"recovering", "claiming"}
Control == {"down", "idle", "recover", "materialize", "claim", "dispatch"}
             \cup Executing \cup Transaction

ASSUME ProcessAssumption == WorkerId \in [Process -> Owner]
ASSUME RunAssumption == Run \subseteq Nat /\ ConcurrencyKey \in [Run -> {ConcurrencyKey[r] : r \in Run}]
ASSUME NullAssumption ==
    NoPayload \notin Payload /\ NoOwner \notin Owner
ASSUME SettingsAssumption ==
    /\ MaximumAttempts \in Nat \ {0}
    /\ LeaseSeconds \in Nat \ {0}
    /\ RetryDelay \in [Run -> [1..MaximumAttempts -> Nat]]
    /\ ClaimLimit \in Nat \ {0}
    /\ Dialect \in {"sqlite", "postgresql"}
ASSUME BoundsAssumption ==
    /\ DueLag \in Nat /\ ClockLag \in Nat
    /\ Horizon \in Nat /\ MaxTime \in Nat /\ MaxCrashes \in Nat

VARIABLES
    now,       \* the clock
    run,       \* the table provider_sync_runs
    imported,  \* [Run -> payload of the import batch under the run's sync key]
    pc,        \* where each process stands in run_cycle
    cur,       \* `current`, read once when the cycle begins
    picked,    \* rows the process selected in its open transaction
    queue,     \* claimed runs the process has yet to finish
    active,    \* the claimed run the process is executing
    answer,    \* what the provider answered the process
    failure,   \* how the exception in hand was classified
    beating,   \* is the heartbeat thread of the active run alive
    calls,     \* ghost: executions begun for each run
    crashes    \* bound: crashes so far

table == <<now, run, imported>>
local == <<pc, cur, picked, queue, active, answer, failure, beating>>
bounds == <<calls, crashes>>
vars == <<now, run, imported, pc, cur, picked, queue, active, answer, failure,
          beating, calls, crashes>>

-----------------------------------------------------------------------------
Time == Nat \cup {NoTime}

Row == [status : {"absent", "pending", "running", "succeeded", "failed"},
        scheduled : Time, created : Time, started : Time, completed : Time,
        attempt : Nat, next : Time,
        owner : Owner \cup {NoOwner}, acquired : Time, expires : Time,
        gen : Nat, batch : Payload \cup {NoPayload}, error : Error]

Snapshot == [id : Run, gen : Nat, attempt : Nat, next : Time]
Token == [id : Run, gen : Nat, due : Time]

Absent ==
    [status |-> "absent", scheduled |-> NoTime, created |-> NoTime,
     started |-> NoTime, completed |-> NoTime, attempt |-> 0, next |-> NoTime,
     owner |-> NoOwner, acquired |-> NoTime, expires |-> NoTime, gen |-> 0,
     batch |-> NoPayload, error |-> "none"]

NewRow(due, created) ==
    [Absent EXCEPT !.status = "pending", !.scheduled = due,
                   !.created = created, !.next = due]

ClaimedRow(row, s, owner, c) ==
    [row EXCEPT !.status = "running", !.attempt = s.attempt + 1,
                !.gen = s.gen + 1, !.next = NoTime,
                !.started = IF row.started = NoTime THEN c ELSE row.started,
                !.owner = owner, !.acquired = c, !.expires = c + LeaseSeconds]

RenewedRow(row, c) ==
    [row EXCEPT !.acquired = c, !.expires = c + LeaseSeconds]

RetriedRow(row, c, delay) ==
    [row EXCEPT !.status = "pending", !.next = c + delay, !.owner = NoOwner,
                !.acquired = NoTime, !.expires = NoTime, !.error = "none"]

FailedRow(row, c, error) ==
    [row EXCEPT !.status = "failed", !.completed = c, !.next = NoTime,
                !.owner = NoOwner, !.acquired = NoTime, !.expires = NoTime,
                !.error = error]

(* Mutant: a status the CHECK constraint does not list. *)
MisnamedSuccess(row, c, batch) ==
    [row EXCEPT !.status = "completed", !.completed = c, !.owner = NoOwner,
                !.acquired = NoTime, !.expires = NoTime, !.batch = batch]

SucceededRow(row, c, batch) ==
    [row EXCEPT !.status = "succeeded", !.completed = c, !.owner = NoOwner,
                !.acquired = NoTime, !.expires = NoTime, !.batch = batch,
                !.error = "none"]

-----------------------------------------------------------------------------
(* The first n members of S in the order Before: ORDER BY ... LIMIT n. *)
FirstOf(S, Before(_, _), n) == {r \in S : Cardinality({s \in S : Before(s, r)}) < n}

(* ORDER BY lease_expires_at, id *)
ExpiresBefore(r, s) ==
    \/ run[r].expires < run[s].expires
    \/ run[r].expires = run[s].expires /\ r < s

(* ORDER BY next_attempt_at, scheduled_for, id, for values of next_attempt_at *)
Precedes(r, dueR, s, dueS) ==
    \/ dueR < dueS
    \/ dueR = dueS /\ run[r].scheduled < run[s].scheduled
    \/ dueR = dueS /\ run[r].scheduled = run[s].scheduled /\ r < s

DueBefore(r, s) == Precedes(r, run[r].next, s, run[s].next)

(* The rows another transaction holds FOR UPDATE. *)
Locked(r, w) ==
    /\ Dialect = "postgresql"
    /\ \E v \in Process \ {w} :
         pc[v] \in Transaction /\ \E s \in picked[v] : s.id = r

EffectiveLimit == IF Dialect = "sqlite" THEN 1 ELSE ClaimLimit

(* The clock readings a process may hold when its UPDATE runs. *)
ClockReading(w) == {c \in cur[w]..now : now - c <= ClockLag}

Snapshots(S) ==
    {[id |-> r, gen |-> run[r].gen, attempt |-> run[r].attempt,
      next |-> run[r].next] : r \in S}

(* Mutant: the fence trusts the worker id alone. *)
FencedByOwner(w, r, gen, c) == run[r].status = "running" /\ run[r].owner = WorkerId[w]

(* Mutant: the fence trusts the generation alone. *)
FencedByGeneration(w, r, gen, c) == run[r].gen = gen

(* The WHERE clause of every UPDATE a lease holder makes. *)
FencedRunning(w, r, gen, c) ==
    /\ run[r].status = "running"
    /\ run[r].owner = WorkerId[w]
    /\ run[r].gen = gen
    /\ run[r].expires > c

-----------------------------------------------------------------------------
(* The INSERT of enqueue_run_now: an API client asks for a run. *)
RunNow(r) ==
    /\ run[r].status = "absent"
    /\ \E t \in {c \in 0..now : now - c <= ClockLag} :
         run' = [run EXCEPT ![r] = NewRow(t, t)]
    /\ UNCHANGED <<now, imported, local, bounds>>

BeginCycle(w) ==
    /\ pc[w] = "idle"
    /\ cur' = [cur EXCEPT ![w] = now]
    /\ pc' = [pc EXCEPT ![w] = "recover"]
    /\ UNCHANGED <<table, picked, queue, active, answer, failure, beating, bounds>>

Expired(c) == {r \in Run : run[r].status = "running" /\ run[r].expires <= c}

RecoverSelect(w) ==
    /\ pc[w] = "recover"
    /\ LET free == {r \in Expired(cur[w]) : ~Locked(r, w)}
       IN  picked' = [picked EXCEPT ![w] =
                        Snapshots(FirstOf(free, ExpiresBefore, ClaimLimit))]
    /\ pc' = [pc EXCEPT ![w] = "recovering"]
    /\ UNCHANGED <<table, cur, queue, active, answer, failure, beating, bounds>>

(* The compare-and-set that recovery makes for one selected row. *)
RecoverMatches(s, r, c) ==
    /\ s.id = r
    /\ run[r].status = "running"
    /\ run[r].gen = s.gen
    /\ run[r].expires <= c

(* Mutant: the last attempt is given back as well. *)
RecoverLastAttempt(row, s, c) == RetriedRow(row, c, RetryDelay[s.id][s.attempt])

(* Mutant: an off-by-one fails a run that has an attempt left. *)
RecoverTooStrict(row, s, c) ==
    IF s.attempt + 1 < MaximumAttempts
    THEN RetriedRow(row, c, RetryDelay[s.id][s.attempt])
    ELSE FailedRow(row, c, "lease_expired")

RecoveredRow(row, s, c) ==
    IF s.attempt < MaximumAttempts
    THEN RetriedRow(row, c, RetryDelay[s.id][s.attempt])
    ELSE FailedRow(row, c, "lease_expired")

RecoverCommit(w) ==
    /\ pc[w] = "recovering"
    /\ run' = [r \in Run |->
                 IF \E s \in picked[w] : RecoverMatches(s, r, cur[w])
                 THEN RecoveredRow(run[r],
                        CHOOSE s \in picked[w] : RecoverMatches(s, r, cur[w]),
                        cur[w])
                 ELSE run[r]]
    /\ picked' = [picked EXCEPT ![w] = {}]
    /\ pc' = [pc EXCEPT ![w] = "materialize"]
    /\ UNCHANGED <<now, imported, cur, queue, active, answer, failure, beating, bounds>>

(* materialize_due_schedules: the worker inserts the runs of at most       *)
(* ClaimLimit schedules that became due, one for each schedule and hence   *)
(* for each provider series, created and scheduled no later than the clock *)
(* reading of its cycle.                                                   *)
Materialize(w) ==
    /\ pc[w] = "materialize"
    /\ \E S \in SUBSET {r \in Run : run[r].status = "absent"},
          due \in [Run -> {d \in 0..cur[w] : cur[w] - d <= DueLag}] :
         /\ Cardinality(S) <= ClaimLimit
         /\ \A r, q \in S : ConcurrencyKey[r] = ConcurrencyKey[q] => r = q
         /\ run' = [r \in Run |-> IF r \in S THEN NewRow(due[r], cur[w]) ELSE run[r]]
    /\ pc' = [pc EXCEPT ![w] = "claim"]
    /\ UNCHANGED <<now, imported, cur, picked, queue, active, answer, failure,
                   beating, bounds>>

Eligible(c) ==
    {r \in Run :
       /\ run[r].status = "pending"
       /\ run[r].next = NoTime \/ run[r].next <= c
       /\ run[r].attempt < MaximumAttempts
       /\ \A q \in Run : ConcurrencyKey[q] = ConcurrencyKey[r]
                           => run[q].status # "running"}

ClaimSelect(w) ==
    /\ pc[w] = "claim"
    /\ LET free == {r \in Eligible(cur[w]) : ~Locked(r, w)}
       IN  picked' = [picked EXCEPT ![w] =
                        Snapshots(FirstOf(free, DueBefore, EffectiveLimit))]
    /\ pc' = [pc EXCEPT ![w] = "claiming"]
    /\ UNCHANGED <<table, cur, queue, active, answer, failure, beating, bounds>>

(* distinct_candidates: the first selected row of each concurrency key. *)
Distinct(S) ==
    {s \in S : \A q \in S :
       ConcurrencyKey[q.id] = ConcurrencyKey[s.id]
         => ~Precedes(q.id, q.next, s.id, s.next)}

(* Mutant: the claim updates what it selected without comparing. *)
WinningBlindly(w) == Distinct(picked[w])

(* The selected rows whose compare-and-set still matches. *)
Winning(w) ==
    {s \in Distinct(picked[w]) :
       run[s.id].status = "pending" /\ run[s.id].gen = s.gen}

(* Mutant: the partial unique index is missing. *)
RejectedByCheckOnly(w) ==
    \E s \in Winning(w) : run[s.id].started = NoTime /\ cur[w] < run[s.id].created

(* Mutant: ck_provider_sync_run_started_order is missing. *)
RejectedByIndexOnly(w) ==
    \E s \in Winning(w), q \in Run :
      q # s.id /\ ConcurrencyKey[q] = ConcurrencyKey[s.id] /\ run[q].status = "running"

(* uq_provider_sync_run_running_concurrency or                             *)
(* ck_provider_sync_run_started_order rejects one of the UPDATEs.          *)
ClaimRejected(w) ==
    \E s \in Winning(w) :
      \/ \E q \in Run : /\ q # s.id
                        /\ ConcurrencyKey[q] = ConcurrencyKey[s.id]
                        /\ run[q].status = "running"
      \/ run[s.id].started = NoTime /\ cur[w] < run[s.id].created

ClaimCommit(w) ==
    /\ pc[w] = "claiming"
    /\ ~ClaimRejected(w)
    /\ run' = [r \in Run |->
                 IF \E s \in Winning(w) : s.id = r
                 THEN ClaimedRow(run[r], CHOOSE s \in Winning(w) : s.id = r,
                                 WorkerId[w], cur[w])
                 ELSE run[r]]
    /\ queue' = [queue EXCEPT ![w] =
                   {[id |-> s.id, gen |-> s.gen + 1, due |-> s.next] : s \in Winning(w)}]
    /\ picked' = [picked EXCEPT ![w] = {}]
    /\ pc' = [pc EXCEPT ![w] = "dispatch"]
    /\ UNCHANGED <<now, imported, cur, active, answer, failure, beating, bounds>>

(* except IntegrityError: session.rollback(); return [] *)
ClaimRollback(w) ==
    /\ pc[w] = "claiming"
    /\ ClaimRejected(w)
    /\ picked' = [picked EXCEPT ![w] = {}]
    /\ pc' = [pc EXCEPT ![w] = "dispatch"]
    /\ UNCHANGED <<table, cur, queue, active, answer, failure, beating, bounds>>

-----------------------------------------------------------------------------
(* for run in claimed: execute(...), in the order they were claimed. *)
NextInQueue(w, t) ==
    /\ t \in queue[w]
    /\ \A u \in queue[w] : ~Precedes(u.id, u.due, t.id, t.due)

(* execute_claimed_run reads the row and finds its lease live. *)
StartRun(w) ==
    /\ pc[w] = "dispatch"
    /\ \E t \in queue[w], c \in ClockReading(w) :
         /\ NextInQueue(w, t)
         /\ FencedRunning(w, t.id, t.gen, c)
         /\ active' = [active EXCEPT ![w] = t]
         /\ calls' = [calls EXCEPT ![t.id] = @ + 1]
    /\ beating' = [beating EXCEPT ![w] = TRUE]
    /\ pc' = [pc EXCEPT ![w] = "fetch"]
    /\ UNCHANGED <<table, cur, picked, queue, answer, failure, crashes>>

(* ... or finds it expired or taken over, and returns False. *)
SkipRun(w) ==
    /\ pc[w] = "dispatch"
    /\ \E t \in queue[w], c \in ClockReading(w) :
         /\ NextInQueue(w, t)
         /\ ~FencedRunning(w, t.id, t.gen, c)
         /\ queue' = [queue EXCEPT ![w] = @ \ {t}]
    /\ UNCHANGED <<table, pc, cur, picked, active, answer, failure, beating, bounds>>

EndCycle(w) ==
    /\ pc[w] = "dispatch"
    /\ queue[w] = {}
    /\ pc' = [pc EXCEPT ![w] = "idle"]
    /\ cur' = [cur EXCEPT ![w] = 0]
    /\ UNCHANGED <<table, picked, queue, active, answer, failure, beating, bounds>>

(* The provider answers get_series_metadata and get_observations. *)
Fetch(w) ==
    /\ pc[w] = "fetch"
    /\ \E p \in Payload : answer' = [answer EXCEPT ![w] = p]
    /\ pc' = [pc EXCEPT ![w] = "lookup"]
    /\ UNCHANGED <<table, cur, picked, queue, active, failure, beating, bounds>>

Raise(w, error) ==
    /\ failure' = [failure EXCEPT ![w] = error]
    /\ pc' = [pc EXCEPT ![w] = "failing"]
    /\ UNCHANGED <<table, cur, picked, queue, active, answer, beating, bounds>>

(* registry.create or a provider call raises. *)
FetchFails(w) ==
    /\ pc[w] = "fetch"
    /\ \E error \in {"retryable", "terminal"} : Raise(w, error)

(* synchronize_provider_series looks for a batch under the sync key. *)
Lookup(w) ==
    /\ pc[w] = "lookup"
    /\ imported[active[w].id] \in {NoPayload, answer[w]}
    /\ pc' = [pc EXCEPT ![w] = IF imported[active[w].id] = NoPayload
                               THEN "write" ELSE "complete"]
    /\ UNCHANGED <<table, cur, picked, queue, active, answer, failure, beating, bounds>>

(* "Idempotency key was already used with different provider data" *)
LookupConflicts(w) ==
    /\ pc[w] = "lookup"
    /\ imported[active[w].id] \notin {NoPayload, answer[w]}
    /\ Raise(w, "terminal")

(* Mutant: the session is closed without a commit. *)
WriteUncommitted(w) ==
    /\ pc[w] = "write"
    /\ pc' = [pc EXCEPT ![w] = "complete"]
    /\ UNCHANGED <<table, cur, picked, queue, active, answer, failure, beating, bounds>>

(* Mutant: idempotency_key is not unique. *)
WriteTwice(w) ==
    /\ pc[w] = "write"
    /\ imported' = [imported EXCEPT ![active[w].id] = answer[w]]
    /\ pc' = [pc EXCEPT ![w] = "complete"]
    /\ UNCHANGED <<now, run, cur, picked, queue, active, answer, failure, beating, bounds>>

(* The batch and its observations commit together. *)
Write(w) ==
    /\ pc[w] = "write"
    /\ imported[active[w].id] = NoPayload
    /\ imported' = [imported EXCEPT ![active[w].id] = answer[w]]
    /\ pc' = [pc EXCEPT ![w] = "complete"]
    /\ UNCHANGED <<now, run, cur, picked, queue, active, answer, failure, beating, bounds>>

(* The unique idempotency_key rejects the batch at flush: a DBAPIError. *)
WriteLosesRace(w) ==
    /\ pc[w] = "write"
    /\ imported[active[w].id] # NoPayload
    /\ Raise(w, "retryable")

(* The write is rolled back: a conflict or a database error. *)
WriteFails(w) ==
    /\ pc[w] \in {"lookup", "write"}
    /\ \E error \in {"retryable", "terminal"} : Raise(w, error)

(* The heartbeat ends with the execution.  The code waits for its thread   *)
(* for a bounded time only; a renewal that comes later finds a row that is *)
(* not running under its generation, and does nothing.                     *)
FinishRun(w) ==
    /\ queue' = [queue EXCEPT ![w] = @ \ {active[w]}]
    /\ active' = [active EXCEPT ![w] = NoToken]
    /\ answer' = [answer EXCEPT ![w] = NoPayload]
    /\ failure' = [failure EXCEPT ![w] = "none"]
    /\ beating' = [beating EXCEPT ![w] = FALSE]
    /\ pc' = [pc EXCEPT ![w] = "dispatch"]
    /\ UNCHANGED <<now, imported, cur, picked, bounds>>

(* complete_run_success; a lost lease leaves the row alone. *)
Complete(w) ==
    /\ pc[w] = "complete"
    /\ ~Locked(active[w].id, w)
    /\ LET t == active[w] IN
       \E c \in ClockReading(w) :
         run' = IF FencedRunning(w, t.id, t.gen, c)
                THEN [run EXCEPT ![t.id] = SucceededRow(@, c, answer[w])]
                ELSE run
    /\ FinishRun(w)

(* The completion raises a DBAPIError before it commits. *)
CompleteFails(w) ==
    /\ pc[w] = "complete"
    /\ Raise(w, "retryable")

(* except Exception: schedule_run_retry or complete_run_failure.  The      *)
(* attempt number is read in a SELECT of its own; while the generation     *)
(* matches it cannot have changed, so one step stands for both.            *)
HandleFailure(w) ==
    /\ pc[w] = "failing"
    /\ ~Locked(active[w].id, w)
    /\ LET t == active[w]
           row == run[t.id]
       IN
       \E c \in ClockReading(w) :
         run' = IF ~FencedRunning(w, t.id, t.gen, c) THEN run
                ELSE [run EXCEPT ![t.id] =
                        IF failure[w] = "retryable" /\ row.attempt < MaximumAttempts
                        THEN RetriedRow(row, c, RetryDelay[t.id][row.attempt])
                        ELSE FailedRow(row, c, failure[w])]
    /\ FinishRun(w)

-----------------------------------------------------------------------------
(* LeaseHeartbeat._run: one renewal. *)
Renew(w) ==
    /\ beating[w]
    /\ now <= Horizon
    /\ ~Locked(active[w].id, w)
    /\ LET t == active[w] IN
       \E c \in ClockReading(w) :
         \/ /\ FencedRunning(w, t.id, t.gen, c)
            /\ run' = [run EXCEPT ![t.id] = RenewedRow(@, c)]
            /\ UNCHANGED beating
         \/ /\ ~FencedRunning(w, t.id, t.gen, c)
            /\ beating' = [beating EXCEPT ![w] = FALSE]
            /\ UNCHANGED run
    /\ UNCHANGED <<now, imported, pc, cur, picked, queue, active, answer, failure, bounds>>

(* except SQLAlchemyError: the heartbeat stops; the execution does not. *)
HeartbeatDies(w) ==
    /\ beating[w]
    /\ beating' = [beating EXCEPT ![w] = FALSE]
    /\ UNCHANGED <<table, pc, cur, picked, queue, active, answer, failure, bounds>>

(* The process dies, or run_cycle raises and main returns.  An open        *)
(* transaction rolls back and its locks go with it.                        *)
Crash(w) ==
    /\ pc[w] # "down"
    /\ crashes < MaxCrashes
    /\ crashes' = crashes + 1
    /\ pc' = [pc EXCEPT ![w] = "down"]
    /\ cur' = [cur EXCEPT ![w] = 0]
    /\ picked' = [picked EXCEPT ![w] = {}]
    /\ queue' = [queue EXCEPT ![w] = {}]
    /\ active' = [active EXCEPT ![w] = NoToken]
    /\ answer' = [answer EXCEPT ![w] = NoPayload]
    /\ failure' = [failure EXCEPT ![w] = "none"]
    /\ beating' = [beating EXCEPT ![w] = FALSE]
    /\ UNCHANGED <<table, calls>>

Restart(w) ==
    /\ pc[w] = "down"
    /\ pc' = [pc EXCEPT ![w] = "idle"]
    /\ UNCHANGED <<table, cur, picked, queue, active, answer, failure, beating, bounds>>

(* Time passes while a lease or a retry still waits for it, and until the  *)
(* horizon while a request may still come.                                 *)
Tick ==
    /\ now < MaxTime
    /\ \E r \in Run :
         \/ run[r].expires > now \/ run[r].next > now
         \/ run[r].status = "absent" /\ now < Horizon
    /\ now' = now + 1
    /\ UNCHANGED <<run, imported, local, bounds>>

-----------------------------------------------------------------------------
Init ==
    /\ now = 0
    /\ run = [r \in Run |-> Absent]
    /\ imported = [r \in Run |-> NoPayload]
    /\ pc = [w \in Process |-> "idle"]
    /\ cur = [w \in Process |-> 0]
    /\ picked = [w \in Process |-> {}]
    /\ queue = [w \in Process |-> {}]
    /\ active = [w \in Process |-> NoToken]
    /\ answer = [w \in Process |-> NoPayload]
    /\ failure = [w \in Process |-> "none"]
    /\ beating = [w \in Process |-> FALSE]
    /\ calls = [r \in Run |-> 0]
    /\ crashes = 0

(* What a process does by itself, in the order of run_cycle. *)
Cycle(w) ==
    \/ BeginCycle(w) \/ RecoverSelect(w) \/ RecoverCommit(w)
    \/ Materialize(w)
    \/ ClaimSelect(w) \/ ClaimCommit(w) \/ ClaimRollback(w)
    \/ StartRun(w) \/ SkipRun(w) \/ EndCycle(w)

Execute(w) ==
    \/ Fetch(w) \/ FetchFails(w)
    \/ Lookup(w) \/ LookupConflicts(w)
    \/ Write(w) \/ WriteLosesRace(w) \/ WriteFails(w)
    \/ Complete(w) \/ CompleteFails(w) \/ HandleFailure(w)

Step(w) == Cycle(w) \/ Execute(w) \/ Restart(w)

Environment(w) == Renew(w) \/ HeartbeatDies(w) \/ Crash(w)

Next ==
    \/ \E w \in Process : Step(w) \/ Environment(w)
    \/ \E r \in Run : RunNow(r)
    \/ Tick

Spec == Init /\ [][Next]_vars

(* A live process keeps running its cycle (the provider client has its own *)
(* timeouts), a supervisor restarts a dead one, and time passes.           *)
Fairness == WF_vars(Tick) /\ \A w \in Process : WF_vars(Step(w))

FairSpec == Spec /\ Fairness

-----------------------------------------------------------------------------
(* Correctness.                                                            *)

Terminal(r) == run[r].status \in {"succeeded", "failed"}

Executes(w, r) == pc[w] \in Executing /\ active[w].id = r

(* The leases a process believes it holds: <<run, generation>>. *)
Held(w) == {<<t.id, t.gen>> : t \in queue[w]}

(* The row says that the lease a process works under is still live. *)
Live(t) ==
    /\ run[t.id].status = "running"
    /\ run[t.id].gen = t.gen
    /\ run[t.id].expires > now

(* Every variable holds a value of its type, and a process executes one of *)
(* the runs it claimed, the current element of the queue of run_cycle; the *)
(* heartbeat lives no longer than the execution it serves.                 *)
TypeOK ==
    /\ now \in Nat
    /\ run \in [Run -> Row]
    /\ imported \in [Run -> Payload \cup {NoPayload}]
    /\ pc \in [Process -> Control]
    /\ cur \in [Process -> Nat]
    /\ picked \in [Process -> SUBSET Snapshot]
    /\ queue \in [Process -> SUBSET Token]
    /\ active \in [Process -> Token \cup {NoToken}]
    /\ answer \in [Process -> Payload \cup {NoPayload}]
    /\ failure \in [Process -> Error]
    /\ beating \in [Process -> BOOLEAN]
    /\ calls \in [Run -> Nat]
    /\ crashes \in Nat
    /\ \A w \in Process :
         /\ pc[w] \in Executing => active[w] \in queue[w]
         /\ beating[w] => pc[w] \in Executing

(* No UPDATE of recovery, completion, retry or renewal ever trips a CHECK  *)
(* constraint of provider_sync_runs, although each runs on a clock reading *)
(* that may be old: only the claim can be rejected (ClaimRejected).        *)
RowChecks ==
    \A r \in Run : LET row == run[r] IN
      /\ row.attempt <= MaximumAttempts
      /\ row.started # NoTime => row.started >= row.created
      /\ row.completed # NoTime => row.started # NoTime /\ row.completed >= row.started
      /\ \/ /\ row.status \in {"absent", "pending"}
            /\ row.completed = NoTime /\ row.owner = NoOwner
            /\ row.acquired = NoTime /\ row.expires = NoTime
         \/ /\ row.status = "running"
            /\ row.started # NoTime /\ row.completed = NoTime
            /\ row.owner # NoOwner /\ row.acquired # NoTime
            /\ row.expires > row.acquired
         \/ /\ row.status \in {"succeeded", "failed"}
            /\ row.completed # NoTime /\ row.owner = NoOwner
            /\ row.acquired = NoTime /\ row.expires = NoTime
      /\ row.status = "succeeded" => row.batch # NoPayload /\ row.error = "none"
      /\ row.status = "failed" => row.error # "none"
      /\ row.status \in {"absent", "pending", "running"}
            => row.batch = NoPayload /\ row.error = "none"

(* A row's generation counts its claims. *)
Counted(r) ==
    /\ run[r].gen = run[r].attempt /\ run[r].attempt <= MaximumAttempts
    /\ run[r].status = "absent" => run[r].gen = 0
    /\ run[r].status = "running" => run[r].attempt >= 1

(* What a process remembers of the rows it read or claimed. *)
Remembers(w) ==
    /\ cur[w] <= now
    /\ \A s \in picked[w] :
         /\ s.gen = s.attempt /\ s.gen <= run[s.id].gen
         /\ pc[w] = "recovering" => s.attempt \in 1..MaximumAttempts
         /\ pc[w] = "claiming" => s.attempt < MaximumAttempts
    /\ \A t \in queue[w] : t.gen <= run[t.id].gen
    /\ pc[w] \in {"lookup", "write", "complete"} => answer[w] \in Payload
    /\ pc[w] = "complete" => imported[active[w].id] = answer[w]

(* What the other invariants rest on: the generation of a run counts its   *)
(* claims, what a process remembers of a row is at most as old as the row, *)
(* and a process that completes a run holds the data that was imported.    *)
Bookkeeping ==
    /\ \A r \in Run : Counted(r)
    /\ \A w \in Process : Remembers(w)

(* At most one run of a provider series is running, whatever two claims    *)
(* selected at the same time (NOT EXISTS, the dedupe of candidates and the *)
(* partial unique index together).                                         *)
OneRunningPerKey ==
    \A r, q \in Run :
      /\ r # q
      /\ ConcurrencyKey[r] = ConcurrencyKey[q]
      => ~(run[r].status = "running" /\ run[q].status = "running")

(* A generation of a run is given to one process only, so the fence tells  *)
(* a current holder from a former one even when two processes, or a        *)
(* process and its successor, use the same worker id.                      *)
GenerationHeldOnce ==
    \A v, w \in Process : v # w => Held(v) \cap Held(w) = {}

(* A pending run still has an attempt left: recovery and retry never leave *)
(* behind a row that claim_pending_runs would skip for ever.               *)
PendingIsClaimable ==
    \A r \in Run : run[r].status = "pending" => run[r].attempt < MaximumAttempts

(* When two processes execute runs of one provider series at the same      *)
(* time, at most one of them still has its lease.                          *)
OverlapOnlyAfterExpiry ==
    \A v, w \in Process :
      /\ v # w
      /\ pc[v] \in Executing /\ pc[w] \in Executing
      /\ ConcurrencyKey[active[v].id] = ConcurrencyKey[active[w].id]
      => ~(Live(active[v]) /\ Live(active[w]))

(* The provider is contacted at most once per claim, hence at most         *)
(* maximum_attempts times for a run, over all crashes and lost leases.     *)
CallsWithinAttempts ==
    \A r \in Run : calls[r] <= run[r].attempt /\ calls[r] <= MaximumAttempts

(* A succeeded run refers to the import batch committed under its sync     *)
(* idempotency key, with the data that the batch really holds, whichever   *)
(* process wrote it.                                                       *)
SuccessHasBatch ==
    \A r \in Run : run[r].status = "succeeded"
      => run[r].batch # NoPayload /\ run[r].batch = imported[r]

(* A run fails only for a terminal error or when its attempts are used up. *)
FailureIsJustified ==
    \A r \in Run : run[r].status = "failed"
      => run[r].error = "terminal" \/ run[r].attempt = MaximumAttempts

(* A completed run never changes again, whatever a late process attempts.  *)
CompletedIsImmutable ==
    [][\A r \in Run : Terminal(r) => run'[r] = run[r]]_vars

(* A run whose lease has not expired leaves "running" only by the hand of  *)
(* the process that claimed this generation: recovery never takes it away. *)
LiveLeaseIsRespected ==
    [][\A r \in Run :
         /\ run[r].status = "running" /\ run[r].expires > now
         /\ run'[r].status # "running"
         => \E w \in Process : /\ <<r, run[r].gen>> \in Held(w)
                               /\ pc[w] \in {"complete", "failing"}
                               /\ active[w].id = r]_vars

(* What was imported under a sync idempotency key is never replaced, even  *)
(* by two processes that both found no batch and both write.               *)
ImportedOnce ==
    [][\A r \in Run : imported[r] # NoPayload => imported'[r] = imported[r]]_vars

(* Every run that was asked for succeeds or fails in the end.              *)
EveryRunEnds == \A r \in Run : run[r].status = "pending" ~> Terminal(r)

Lifecycle == INSTANCE RunLifecycle WITH
    status <- [r \in Run |-> run[r].status],
    attempts <- [r \in Run |-> run[r].attempt],
    imported <- [r \in Run |-> imported[r] # NoPayload]

(* The lease protocol implements the life cycle of a run: no interleaving  *)
(* of recoveries, claims, late completions, late imports and crashes shows *)
(* anything but begin, give up, import, succeed.                           *)
ImplementsLifecycle == Lifecycle!Spec

(* README.md:502 "A database uniqueness constraint prevents concurrent     *)
(* execution for the same provider series."                                *)
NoConcurrentExecution ==
    \A v, w \in Process :
      v # w /\ pc[v] \in Executing /\ pc[w] \in Executing
        => ConcurrencyKey[active[v].id] # ConcurrencyKey[active[w].id]
=============================================================================
