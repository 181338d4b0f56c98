---------------------------- MODULE ScheduleTable ----------------------------
(***************************************************************************)
(* The table provider_sync_schedules and the runs inserted for it, under   *)
(* API clients that create, change, enable, disable and run schedules, and *)
(* workers that materialize due occurrences.                               *)
(*                                                                         *)
(* Source: scheduler_services.py (create_schedule .. materialize_due_      *)
(* schedules), scheduler_models.py (version_id_col and constraints),       *)
(* scheduler_api.py.  Every operation reads the row in one step and writes *)
(* it in a later one; lock_version decides whether the write goes through. *)
(***************************************************************************)
EXTENDS Cadence, FiniteSets

CONSTANTS
    Schedule,          \* ids, one for each provider series (a unique constraint)
    Client,            \* API requests that may be in flight together
    Worker,            \* worker processes
    Config,            \* fingerprints of request configurations
    CadenceChoice,     \* cadences a client asks for
    Key,               \* idempotency keys of run-now requests
    Nothing,           \* NULL, and "field not in the PATCH"
    ClaimLimit,        \* schedules a worker materializes per cycle
    Dialect,           \* "sqlite" or "postgresql"
    MaxVersion,        \* bound: clients send no change from this version on
    MaxTime            \* bound on the clock

ASSUME TableAssumption ==
    /\ Schedule \subseteq Nat
    /\ CadenceChoice \subseteq Cadences
    /\ Nothing \notin Config /\ Nothing \notin Key /\ Nothing \notin CadenceChoice
    /\ ClaimLimit \in Nat \ {0}
    /\ Dialect \in {"sqlite", "postgresql"}
    /\ MaxVersion \in Nat /\ MaxTime \in Nat

VARIABLES
    now,        \* the clock
    schedule,   \* the table provider_sync_schedules; version 0: no such row
    runs,       \* the table provider_sync_runs, as far as it is inserted here
    client,     \* [Client -> request in progress]
    held,       \* [Client -> the schedule row the request loaded]
    worker,     \* [Worker -> control state]
    cur,        \* [Worker -> `current`, read when the cycle began]
    loaded      \* [Worker -> the due schedule rows it selected]

clientVars == <<client, held>>
workerVars == <<worker, cur, loaded>>
vars == <<now, schedule, runs, client, held, worker, cur, loaded>>

-----------------------------------------------------------------------------
Time == Nat \cup {NoTime}

Row == [version : Nat, enabled : BOOLEAN, cadence : CadenceChoice \cup {Nothing},
        config : Config \cup {Nothing}, next : Time, last : Time]

NoRow == [version |-> 0, enabled |-> FALSE, cadence |-> Nothing,
          config |-> Nothing, next |-> NoTime, last |-> NoTime]

(* hash is the request_idempotency_hash of a manual run. *)
RunRecord == [schedule : Schedule, trigger : {"scheduled", "manual"}, due : Nat,
              config : Config, hash : Key \cup {Nothing}]

Operation == {"create", "update", "enable", "disable", "run_now"}

Request == [state : {"idle", "load", "create", "commit", "lookup", "insert"},
            op : Operation \cup {Nothing}, id : Schedule \cup {Nothing},
            expected : Nat, at : Nat, key : Key \cup {Nothing},
            config : Config \cup {Nothing}, cadence : CadenceChoice \cup {Nothing}]

NoRequest == [state |-> "idle", op |-> Nothing, id |-> Nothing, expected |-> 0,
              at |-> 0, key |-> Nothing, config |-> Nothing, cadence |-> Nothing]

(* A worker's FOR UPDATE lock on a schedule row. *)
Locked(s, except) ==
    /\ Dialect = "postgresql"
    /\ \E v \in Worker \ {except} :
         worker[v] = "commit" /\ \E h \in loaded[v] : h.id = s

ManualRun(s, key) == {r \in runs : r.schedule = s /\ r.hash = key}

NextIfEnabled(row, cadence, current) ==
    IF row.enabled THEN CalculateInitialNextRunAt(cadence, current) ELSE NoTime

-----------------------------------------------------------------------------
(* A client sends a request; it has seen the version that the table holds  *)
(* now.  The handler reads the clock before it touches the database.       *)
Send(c, request) ==
    /\ client[c].state = "idle"
    /\ client' = [client EXCEPT ![c] = request]
    /\ UNCHANGED <<now, schedule, runs, held, workerVars>>

SendChange(c) ==
    \E s \in Schedule, op \in {"update", "enable", "disable"},
       config \in Config \cup {Nothing}, cadence \in CadenceChoice \cup {Nothing} :
      /\ schedule[s].version \in 1..(MaxVersion - 1)
      /\ op # "update" => config = Nothing /\ cadence = Nothing
      /\ Send(c, [NoRequest EXCEPT !.state = "load", !.op = op, !.id = s,
                    !.expected = schedule[s].version, !.at = now,
                    !.config = config, !.cadence = cadence])

SendRunNow(c) ==
    \E s \in Schedule, key \in Key :
      Send(c, [NoRequest EXCEPT !.state = "load", !.op = "run_now", !.id = s,
                 !.at = now, !.key = key])

SendCreate(c) ==
    \E s \in Schedule, config \in Config, cadence \in CadenceChoice :
      Send(c, [NoRequest EXCEPT !.state = "create", !.op = "create", !.id = s,
                 !.at = now, !.config = config, !.cadence = cadence])

(* The request is answered, with a result or an error. *)
Answer(c) ==
    /\ client' = [client EXCEPT ![c] = NoRequest]
    /\ held' = [held EXCEPT ![c] = NoRow]

(* create_schedule: a second schedule for the series hits the unique       *)
(* constraint.  A new schedule may be created disabled.                    *)
CreateSchedule(c) ==
    LET q == client[c] IN
    /\ q.state = "create"
    /\ \/ /\ schedule[q.id].version = 0
          /\ \E enabled \in BOOLEAN :
               schedule' = [schedule EXCEPT ![q.id] =
                 [version |-> 1, enabled |-> enabled, cadence |-> q.cadence,
                  config |-> q.config, last |-> NoTime,
                  next |-> NextIfEnabled([enabled |-> enabled], q.cadence, q.at)]]
       \/ schedule[q.id].version # 0 /\ UNCHANGED schedule
    /\ Answer(c)
    /\ UNCHANGED <<now, runs, workerVars>>

(* get_schedule and the checks that follow it. *)
Refused(q) ==
    \/ schedule[q.id].version = 0
    \/ q.op # "run_now" /\ schedule[q.id].version # q.expected
    \/ q.op = "enable" /\ schedule[q.id].enabled
    \/ q.op = "disable" /\ ~schedule[q.id].enabled

Load(c) ==
    LET q == client[c] IN
    /\ q.state = "load"
    /\ ~Refused(q)
    /\ held' = [held EXCEPT ![c] = schedule[q.id]]
    /\ client' = [client EXCEPT ![c].state = IF q.op = "run_now" THEN "lookup" ELSE "commit"]
    /\ UNCHANGED <<now, schedule, runs, workerVars>>

(* Not found, a version conflict, or nothing to change. *)
Refuse(c) ==
    /\ client[c].state = "load"
    /\ Refused(client[c])
    /\ Answer(c)
    /\ UNCHANGED <<now, schedule, runs, workerVars>>

(* What update_schedule or set_schedule_enabled makes of the row it read.  *)
Changed(row, q) ==
    LET cadence == IF q.cadence = Nothing THEN row.cadence ELSE q.cadence
        config == IF q.config = Nothing THEN row.config ELSE q.config
        enabled == CASE q.op = "enable" -> TRUE
                     [] q.op = "disable" -> FALSE
                     [] OTHER -> row.enabled
    IN  [row EXCEPT !.version = @ + 1, !.cadence = cadence, !.config = config,
                    !.enabled = enabled,
                    !.next = NextIfEnabled([enabled |-> enabled], cadence, q.at)]

(* Mutant: the mapper has no version_id_col. *)
AlwaysCurrent(s, row) == TRUE

(* UPDATE ... WHERE id = :id AND lock_version = :loaded *)
StillCurrent(s, row) == schedule[s].version = row.version

CommitChange(c) ==
    LET q == client[c] IN
    /\ q.state = "commit"
    /\ ~Locked(q.id, Nothing)
    /\ schedule' = IF StillCurrent(q.id, held[c])
                   THEN [schedule EXCEPT ![q.id] = Changed(held[c], q)]
                   ELSE schedule
    /\ Answer(c)
    /\ UNCHANGED <<now, runs, workerVars>>

(* enqueue_run_now: an earlier run under the key is returned, or refused   *)
(* when the configuration is another one; either way nothing changes.      *)
LookupRun(c) ==
    LET q == client[c] IN
    /\ q.state = "lookup"
    /\ IF ManualRun(q.id, q.key) = {}
       THEN client' = [client EXCEPT ![c].state = "insert"] /\ UNCHANGED held
       ELSE Answer(c)
    /\ UNCHANGED <<now, schedule, runs, workerVars>>

(* Mutant: no unique constraint on (schedule_id, request_idempotency_hash). *)
InsertAnyway(c) ==
    LET q == client[c] IN
    /\ q.state = "insert"
    /\ runs' = runs \cup {[schedule |-> q.id, trigger |-> "manual", due |-> q.at,
                           config |-> held[c].config, hash |-> q.key]}
    /\ Answer(c)
    /\ UNCHANGED <<now, schedule, workerVars>>

(* The INSERT, or the unique constraint (schedule_id, hash) and an answer  *)
(* from the run that won.                                                  *)
InsertRun(c) ==
    LET q == client[c] IN
    /\ q.state = "insert"
    /\ runs' = IF ManualRun(q.id, q.key) = {}
               THEN runs \cup {[schedule |-> q.id, trigger |-> "manual", due |-> q.at,
                                config |-> held[c].config, hash |-> q.key]}
               ELSE runs
    /\ Answer(c)
    /\ UNCHANGED <<now, schedule, workerVars>>

-----------------------------------------------------------------------------
(* run_cycle reads the clock once, before recovery. *)
BeginCycle(w) ==
    /\ worker[w] = "idle"
    /\ cur' = [cur EXCEPT ![w] = now]
    /\ worker' = [worker EXCEPT ![w] = "select"]
    /\ UNCHANGED <<now, schedule, runs, clientVars, loaded>>

(* Mutant: a disabled schedule is not left out. *)
DueEvenDisabled(c) == {s \in Schedule : schedule[s].version > 0 /\ schedule[s].next <= c}

(* Mutant: due only after its time. *)
DueAfterwards(c) == {s \in Schedule : schedule[s].enabled /\ schedule[s].next < c}

Due(c) == {s \in Schedule : /\ schedule[s].enabled
                            /\ schedule[s].next # NoTime
                            /\ schedule[s].next <= c}

(* ORDER BY next_run_at, id *)
Before(s, t) ==
    \/ schedule[s].next < schedule[t].next
    \/ schedule[s].next = schedule[t].next /\ s < t

SelectDue(w) ==
    /\ worker[w] = "select"
    /\ LET free == {s \in Due(cur[w]) : ~Locked(s, w)}
           first == {s \in free : Cardinality({t \in free : Before(t, s)}) < ClaimLimit}
       IN  loaded' = [loaded EXCEPT ![w] = {[id |-> s, row |-> schedule[s]] : s \in first}]
    /\ worker' = [worker EXCEPT ![w] = "commit"]
    /\ UNCHANGED <<now, schedule, runs, clientVars, cur>>

Coalesced(h, c) == CoalesceDueOccurrences(h.row.cadence, h.row.next, c)

Materialized(h, c) ==
    [schedule |-> h.id, trigger |-> "scheduled", due |-> Coalesced(h, c).due,
     config |-> h.row.config, hash |-> Nothing]

Finish(w) ==
    /\ worker' = [worker EXCEPT ![w] = "idle"]
    /\ loaded' = [loaded EXCEPT ![w] = {}]
    /\ cur' = [cur EXCEPT ![w] = 0]

(* One transaction inserts a run for each selected schedule, unless there  *)
(* is one under its run_key, and advances the schedule.                    *)
MaterializeCommit(w) ==
    /\ worker[w] = "commit"
    /\ \A h \in loaded[w] : StillCurrent(h.id, h.row)
    /\ runs' = runs \cup {Materialized(h, cur[w]) : h \in loaded[w]}
    /\ schedule' =
         [s \in Schedule |->
            IF \E h \in loaded[w] : h.id = s
            THEN LET h == CHOOSE h \in loaded[w] : h.id = s
                 IN  [h.row EXCEPT !.last = Coalesced(h, cur[w]).due,
                                   !.next = Coalesced(h, cur[w]).following,
                                   !.version = @ + 1]
            ELSE schedule[s]]
    /\ Finish(w)
    /\ UNCHANGED <<now, clientVars>>

(* One stale row rolls back the whole batch. *)
MaterializeConflict(w) ==
    /\ worker[w] = "commit"
    /\ \E h \in loaded[w] : ~StillCurrent(h.id, h.row)
    /\ Finish(w)
    /\ UNCHANGED <<now, schedule, runs, clientVars>>

Tick ==
    /\ now < MaxTime
    /\ now' = now + 1
    /\ UNCHANGED <<schedule, runs, clientVars, workerVars>>

-----------------------------------------------------------------------------
Init ==
    /\ now = 0
    /\ schedule = [s \in Schedule |-> NoRow]
    /\ runs = {}
    /\ client = [c \in Client |-> NoRequest]
    /\ held = [c \in Client |-> NoRow]
    /\ worker = [w \in Worker |-> "idle"]
    /\ cur = [w \in Worker |-> 0]
    /\ loaded = [w \in Worker |-> {}]

Ask(c) == SendCreate(c) \/ SendChange(c) \/ SendRunNow(c)

Handle(c) ==
    CreateSchedule(c) \/ Load(c) \/ Refuse(c) \/ CommitChange(c)
      \/ LookupRun(c) \/ InsertRun(c)

Cycle(w) ==
    BeginCycle(w) \/ SelectDue(w) \/ MaterializeCommit(w) \/ MaterializeConflict(w)

Next ==
    \/ \E c \in Client : Ask(c) \/ Handle(c)
    \/ \E w \in Worker : Cycle(w)
    \/ Tick

Spec == Init /\ [][Next]_vars

(* Every worker keeps polling; a request in progress is finished. *)
FairSpec ==
    /\ Spec
    /\ \A w \in Worker : WF_vars(Cycle(w))
    /\ \A c \in Client : WF_vars(Handle(c))

-----------------------------------------------------------------------------
(* Correctness.                                                            *)

TypeOK ==
    /\ now \in Nat
    /\ schedule \in [Schedule -> Row]
    /\ runs \subseteq RunRecord
    /\ client \in [Client -> Request]
    /\ held \in [Client -> Row]
    /\ worker \in [Worker -> {"idle", "select", "commit"}]
    /\ cur \in [Worker -> Nat]
    /\ loaded \in [Worker -> SUBSET [id : Schedule, row : Row]]

(* One idempotency key makes at most one manual run of a schedule, even    *)
(* when two requests both find none.                                       *)
RunNowOnce ==
    \A r, q \in runs :
      r.trigger = "manual" /\ q.trigger = "manual"
        /\ r.schedule = q.schedule /\ r.hash = q.hash => r = q

NewScheduled == {r \in runs' \ runs : r.trigger = "scheduled"}

(* Every materialized occurrence is later than all earlier ones of its     *)
(* schedule: two workers, a configuration change in between, or disabling  *)
(* and enabling never run an occurrence twice or go back.                  *)
OccurrencesAdvance ==
    [][\A r \in NewScheduled : \A q \in runs' :
         q # r /\ q.trigger = "scheduled" /\ q.schedule = r.schedule
           => q.due < r.due]_vars

(* A scheduled run is inserted only for a schedule that is enabled and due *)
(* at that moment, with the configuration it has at that moment: a change  *)
(* that commits first is never ignored.  README.md:512 "Disabling a        *)
(* schedule prevents future materialization".                              *)
ScheduledRunIsCurrent ==
    [][\A r \in NewScheduled : LET row == schedule[r.schedule] IN
         /\ row.enabled
         /\ row.next <= r.due /\ r.due <= now
         /\ row.config = r.config]_vars

(* The worker whose transaction this step commits. *)
Committing(w) == worker[w] = "commit" /\ worker' # worker /\ worker'[w] = "idle"

(* A fixed interval schedule that missed occurrences runs the latest one,  *)
(* and no other, and every schedule then waits for the first one to come.  *)
CoalescesMissedOccurrences ==
    [][\A r \in NewScheduled, w \in Worker : Committing(w) =>
         LET row == schedule[r.schedule]
             next == schedule'[r.schedule].next
         IN  /\ row.cadence.type = "fixed_interval"
                  => IsLatestUpTo(row.cadence, row.next, cur[w], r.due)
             /\ IsFirstAfter(row.cadence, row.next, cur[w], next)]_vars

(* tests/test_scheduler.py:270 and README.md:498 "It materializes at most  *)
(* one current run for an overdue schedule": the run stands for the latest *)
(* missed occurrence, whatever the cadence.                                *)
MaterializesLatestOccurrence ==
    [][\A r \in NewScheduled, w \in Worker : Committing(w) =>
         LET row == schedule[r.schedule]
         IN  IsLatestUpTo(row.cadence, row.next, cur[w], r.due)]_vars

(* A due occurrence does not wait for ever: it is materialized, or the     *)
(* schedule was changed or disabled.                                       *)
DueIsHandled ==
    \A s \in Schedule, t \in 0..MaxTime :
      schedule[s].enabled /\ schedule[s].next = t /\ t <= now
        ~> ~(schedule[s].enabled /\ schedule[s].next = t)
=============================================================================
