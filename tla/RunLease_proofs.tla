--------------------------- MODULE RunLease_proofs ---------------------------
(***************************************************************************)
(* Proofs about RunLease, for any processes, runs, keys and settings: its  *)
(* types, who may change a row, what the rows hold, and that the detailed  *)
(* protocol implements RunLifecycle.                                       *)
(***************************************************************************)
EXTENDS RunLease, TLAPS

-----------------------------------------------------------------------------
(* The rows that the statements of the scheduler write are rows, and which *)
(* of the fields that the invariants speak of they change.                 *)

LEMMA NewRowFacts ==
    ASSUME NEW due \in Nat, NEW created \in Nat
    PROVE  /\ NewRow(due, created) \in Row
           /\ NewRow(due, created).status = "pending"
           /\ NewRow(due, created).gen = 0
           /\ NewRow(due, created).attempt = 0
BY DEF NewRow, Absent, Row, Time, NoTime, Error

LEMMA TimeFacts ==
    /\ NoTime \in Time
    /\ \A c \in Nat : c \in Time /\ c + LeaseSeconds \in Time
    /\ \A c, delay \in Nat : c + delay \in Time
BY SettingsAssumption DEF SettingsAssumption, Time

LEMMA ClaimedRowFacts ==
    ASSUME NEW row \in Row, NEW s \in Snapshot, NEW owner \in Owner, NEW c \in Nat
    PROVE  /\ ClaimedRow(row, s, owner, c) \in Row
           /\ ClaimedRow(row, s, owner, c).status = "running"
           /\ ClaimedRow(row, s, owner, c).gen = s.gen + 1
           /\ ClaimedRow(row, s, owner, c).attempt = s.attempt + 1
<1>1. s.gen + 1 \in Nat /\ s.attempt + 1 \in Nat
  BY DEF Snapshot
<1>2. (IF row.started = NoTime THEN c ELSE row.started) \in Time
  BY TimeFacts DEF Row
<1> QED
  BY <1>1, <1>2, TimeFacts DEF ClaimedRow, Row

LEMMA RenewedRowFacts ==
    ASSUME NEW row \in Row, NEW c \in Nat
    PROVE  /\ RenewedRow(row, c) \in Row
           /\ RenewedRow(row, c).status = row.status
           /\ RenewedRow(row, c).gen = row.gen
           /\ RenewedRow(row, c).attempt = row.attempt
           /\ RenewedRow(row, c).batch = row.batch
BY TimeFacts DEF RenewedRow, Row

LEMMA RetriedRowFacts ==
    ASSUME NEW row \in Row, NEW c \in Nat, NEW delay \in Nat
    PROVE  /\ RetriedRow(row, c, delay) \in Row
           /\ RetriedRow(row, c, delay).status = "pending"
           /\ RetriedRow(row, c, delay).gen = row.gen
           /\ RetriedRow(row, c, delay).attempt = row.attempt
BY TimeFacts DEF RetriedRow, Row, Error

LEMMA FailedRowFacts ==
    ASSUME NEW row \in Row, NEW c \in Nat, NEW error \in Error
    PROVE  /\ FailedRow(row, c, error) \in Row
           /\ FailedRow(row, c, error).status = "failed"
           /\ FailedRow(row, c, error).gen = row.gen
           /\ FailedRow(row, c, error).attempt = row.attempt
BY DEF FailedRow, Row, Time, NoTime

LEMMA SucceededRowFacts ==
    ASSUME NEW row \in Row, NEW c \in Nat, NEW batch \in Payload
    PROVE  /\ SucceededRow(row, c, batch) \in Row
           /\ SucceededRow(row, c, batch).status = "succeeded"
           /\ SucceededRow(row, c, batch).gen = row.gen
           /\ SucceededRow(row, c, batch).attempt = row.attempt
           /\ SucceededRow(row, c, batch).batch = batch
<1>1. NoTime \in Time /\ c \in Time /\ "none" \in Error
  BY DEF Time, Error
<1> QED
  BY <1>1 DEF SucceededRow, Row

-----------------------------------------------------------------------------
(* What the operators of the actions return. *)

LEMMA ReadingFacts ==
    ASSUME TypeOK, NEW w \in Process, NEW c \in ClockReading(w)
    PROVE  c \in Nat /\ cur[w] <= c /\ c <= now
BY DEF TypeOK, ClockReading

LEMMA ExpiredFacts ==
    ASSUME NEW S \in SUBSET Run, NEW n
    PROVE  FirstOf(S, ExpiresBefore, n) \subseteq S
BY DEF FirstOf

LEMMA FirstDueFacts ==
    ASSUME NEW S \in SUBSET Run, NEW n
    PROVE  FirstOf(S, DueBefore, n) \subseteq S
BY DEF FirstOf

LEMMA SnapshotFacts ==
    ASSUME TypeOK, NEW S \in SUBSET Run
    PROVE  /\ Snapshots(S) \subseteq Snapshot
           /\ \A s \in Snapshots(S) :
                /\ s.id \in S /\ s.gen = run[s.id].gen
                /\ s.attempt = run[s.id].attempt /\ s.next = run[s.id].next
BY DEF TypeOK, Snapshots, Snapshot, Row

(* A set of snapshots wins in a claim only with rows that are pending and  *)
(* have not changed hands, and with one row for each concurrency key.      *)
LEMMA WinningFacts ==
    ASSUME TypeOK, NEW w \in Process
    PROVE  /\ Winning(w) \subseteq picked[w]
           /\ Winning(w) \subseteq Snapshot
           /\ \A s \in Winning(w) : run[s.id].status = "pending" /\ run[s.id].gen = s.gen
BY DEF TypeOK, Winning, Distinct

LEMMA RecoveredRowFacts ==
    ASSUME NEW row \in Row, NEW s \in Snapshot, NEW c \in Nat,
           s.attempt \in 1..MaximumAttempts
    PROVE  /\ RecoveredRow(row, s, c) \in Row
           /\ RecoveredRow(row, s, c).status \in {"pending", "failed"}
           /\ RecoveredRow(row, s, c).gen = row.gen
           /\ RecoveredRow(row, s, c).attempt = row.attempt
           /\ RecoveredRow(row, s, c).status = "pending" => s.attempt < MaximumAttempts
<1>1. RetryDelay[s.id][s.attempt] \in Nat
  BY SettingsAssumption DEF SettingsAssumption, Snapshot
<1>2. "lease_expired" \in Error
  BY DEF Error
<1>3. CASE s.attempt < MaximumAttempts
  BY <1>1, <1>3, RetriedRowFacts DEF RecoveredRow
<1>4. CASE ~(s.attempt < MaximumAttempts)
  BY <1>2, <1>4, FailedRowFacts DEF RecoveredRow
<1> QED
  BY <1>3, <1>4

-----------------------------------------------------------------------------
(* Type correctness: one step for each action. *)

LEMMA TypeStep == TypeOK /\ Bookkeeping /\ [Next]_vars => TypeOK'
<1> SUFFICES ASSUME TypeOK, Bookkeeping, [Next]_vars
             PROVE  TypeOK'
  OBVIOUS
<1> USE DEF table, local, bounds, Control, Executing, Transaction
<1>1. ASSUME NEW r \in Run, RunNow(r) PROVE TypeOK'
  <2>1. PICK t \in {c \in 0..now : now - c <= ClockLag} :
               run' = [run EXCEPT ![r] = NewRow(t, t)]
    BY <1>1 DEF RunNow
  <2>2. run' \in [Run -> Row]
    BY <2>1, NewRowFacts DEF TypeOK
  <2> QED
    BY <1>1, <2>2 DEF RunNow, TypeOK
<1>2. CASE Tick
  BY <1>2 DEF Tick, TypeOK
<1>3. ASSUME NEW w \in Process, BeginCycle(w) PROVE TypeOK'
  BY <1>3 DEF BeginCycle, TypeOK
<1>4. ASSUME NEW w \in Process, RecoverSelect(w) PROVE TypeOK'
  <2>1. picked' \in [Process -> SUBSET Snapshot]
    BY <1>4, ExpiredFacts, SnapshotFacts DEF RecoverSelect, Expired, TypeOK
  <2> QED
    BY <1>4, <2>1 DEF RecoverSelect, TypeOK
<1>5. ASSUME NEW w \in Process, RecoverCommit(w) PROVE TypeOK'
  <2>1. ASSUME NEW r \in Run PROVE run'[r] \in Row
    <3>1. CASE \E s \in picked[w] : RecoverMatches(s, r, cur[w])
      <4> DEFINE s == CHOOSE s \in picked[w] : RecoverMatches(s, r, cur[w])
      <4>1. s \in picked[w]
        BY <3>1
      <4>2. s \in Snapshot /\ s.attempt \in 1..MaximumAttempts /\ cur[w] \in Nat
        BY <4>1, <1>5 DEF RecoverCommit, TypeOK, Bookkeeping, Counted, Remembers
      <4>3. run'[r] = RecoveredRow(run[r], s, cur[w])
        BY <3>1, <1>5 DEF RecoverCommit
      <4> QED
        BY <4>2, <4>3, RecoveredRowFacts DEF TypeOK
    <3>2. CASE ~(\E s \in picked[w] : RecoverMatches(s, r, cur[w]))
      BY <3>2, <1>5 DEF RecoverCommit, TypeOK
    <3> QED
      BY <3>1, <3>2
  <2>2. run' \in [Run -> Row]
    BY <2>1, <1>5 DEF RecoverCommit
  <2> QED
    BY <1>5, <2>2 DEF RecoverCommit, TypeOK
<1>6. ASSUME NEW w \in Process, Materialize(w) PROVE TypeOK'
  <2>1. run' \in [Run -> Row]
    <3>1. PICK S \in SUBSET {r \in Run : run[r].status = "absent"},
               due \in [Run -> {d \in 0..cur[w] : cur[w] - d <= DueLag}] :
            run' = [r \in Run |-> IF r \in S THEN NewRow(due[r], cur[w]) ELSE run[r]]
      BY <1>6 DEF Materialize
    <3>2. \A r \in Run : due[r] \in Nat /\ cur[w] \in Nat
      BY DEF TypeOK
    <3>3. \A r \in Run : NewRow(due[r], cur[w]) \in Row
      BY <3>2, NewRowFacts
    <3> QED
      BY <3>1, <3>3 DEF TypeOK
  <2> QED
    BY <1>6, <2>1 DEF Materialize, TypeOK
<1>7. ASSUME NEW w \in Process, ClaimSelect(w) PROVE TypeOK'
  <2>1. picked' \in [Process -> SUBSET Snapshot]
    BY <1>7, FirstDueFacts, SnapshotFacts DEF ClaimSelect, Eligible, TypeOK
  <2> QED
    BY <1>7, <2>1 DEF ClaimSelect, TypeOK
<1>8. ASSUME NEW w \in Process, ClaimCommit(w) PROVE TypeOK'
  <2>1. ASSUME NEW r \in Run PROVE run'[r] \in Row
    <3>1. CASE \E s \in Winning(w) : s.id = r
      <4> DEFINE s == CHOOSE s \in Winning(w) : s.id = r
      <4>1. s \in Winning(w)
        BY <3>1
      <4>2. s \in Snapshot /\ cur[w] \in Nat /\ WorkerId[w] \in Owner
        BY <4>1, WinningFacts DEF TypeOK, Owner
      <4>3. run'[r] = ClaimedRow(run[r], s, WorkerId[w], cur[w])
        BY <3>1, <1>8 DEF ClaimCommit
      <4> QED
        BY <4>2, <4>3, ClaimedRowFacts DEF TypeOK
    <3>2. CASE ~(\E s \in Winning(w) : s.id = r)
      BY <3>2, <1>8 DEF ClaimCommit, TypeOK
    <3> QED
      BY <3>1, <3>2
  <2>2. run' \in [Run -> Row]
    BY <2>1, <1>8 DEF ClaimCommit
  <2>3. queue' \in [Process -> SUBSET Token]
    BY <1>8, WinningFacts DEF ClaimCommit, TypeOK, Snapshot, Token
  <2> QED
    BY <1>8, <2>2, <2>3 DEF ClaimCommit, TypeOK
<1>9. ASSUME NEW w \in Process, ClaimRollback(w) PROVE TypeOK'
  BY <1>9 DEF ClaimRollback, TypeOK
<1>10. ASSUME NEW w \in Process, StartRun(w) PROVE TypeOK'
  BY <1>10 DEF StartRun, TypeOK, Token
<1>11. ASSUME NEW w \in Process, SkipRun(w) PROVE TypeOK'
  BY <1>11 DEF SkipRun, TypeOK
<1>12. ASSUME NEW w \in Process, EndCycle(w) PROVE TypeOK'
  BY <1>12 DEF EndCycle, TypeOK
<1>13. ASSUME NEW w \in Process, Fetch(w) PROVE TypeOK'
  BY <1>13 DEF Fetch, TypeOK
<1>14. ASSUME NEW w \in Process, NEW error \in Error, Raise(w, error),
             pc[w] \in Executing
       PROVE  TypeOK'
  BY <1>14 DEF Raise, TypeOK
<1>15. ASSUME NEW w \in Process, Lookup(w) PROVE TypeOK'
  BY <1>15 DEF Lookup, TypeOK
<1>16. ASSUME NEW w \in Process, Write(w) PROVE TypeOK'
  BY <1>16 DEF Write, TypeOK, Token
<1>17. ASSUME NEW w \in Process, FinishRun(w), run' \in [Run -> Row] PROVE TypeOK'
  BY <1>17 DEF FinishRun, TypeOK, Error
<1>18. ASSUME NEW w \in Process, Complete(w) PROVE run' \in [Run -> Row]
  <2>1. active[w] \in Token /\ answer[w] \in Payload
    BY <1>18 DEF Complete, TypeOK, Bookkeeping, Counted, Remembers
  <2>2. PICK c \in ClockReading(w) :
          run' = IF FencedRunning(w, active[w].id, active[w].gen, c)
                 THEN [run EXCEPT ![active[w].id] = SucceededRow(@, c, answer[w])]
                 ELSE run
    BY <1>18 DEF Complete
  <2> QED
    BY <2>1, <2>2, ReadingFacts, SucceededRowFacts DEF TypeOK, Token
<1>19. ASSUME NEW w \in Process, HandleFailure(w) PROVE run' \in [Run -> Row]
  <2> DEFINE t == active[w]
             row == run[t.id]
  <2>1. t \in Token /\ failure[w] \in Error /\ row \in Row
    BY <1>19 DEF HandleFailure, TypeOK, Token
  <2>2. PICK c \in ClockReading(w) :
          run' = IF ~FencedRunning(w, t.id, t.gen, c) THEN run
                 ELSE [run EXCEPT ![t.id] =
                        IF failure[w] = "retryable" /\ row.attempt < MaximumAttempts
                        THEN RetriedRow(row, c, RetryDelay[t.id][row.attempt])
                        ELSE FailedRow(row, c, failure[w])]
    BY <1>19 DEF HandleFailure
  <2>3. c \in Nat
    BY <2>2, ReadingFacts
  <2>4. FailedRow(row, c, failure[w]) \in Row
    BY <2>1, <2>3, FailedRowFacts
  <2>5. FencedRunning(w, t.id, t.gen, c) /\ row.attempt < MaximumAttempts
          => RetriedRow(row, c, RetryDelay[t.id][row.attempt]) \in Row
    <3>1. FencedRunning(w, t.id, t.gen, c) /\ row.attempt < MaximumAttempts
            => RetryDelay[t.id][row.attempt] \in Nat
      BY <2>1, SettingsAssumption
      DEF SettingsAssumption, FencedRunning, Bookkeeping, Counted, Remembers, Token, Row
    <3> QED
      BY <2>1, <2>3, <3>1, RetriedRowFacts
  <2> QED
    BY <2>1, <2>2, <2>4, <2>5 DEF TypeOK, Token
<1>20. ASSUME NEW w \in Process, Renew(w) PROVE TypeOK'
  <2>0. active[w] \in Token
    BY <1>20 DEF Renew, TypeOK
  <2>1. PICK c \in ClockReading(w) :
          run' = IF FencedRunning(w, active[w].id, active[w].gen, c)
                 THEN [run EXCEPT ![active[w].id] = RenewedRow(@, c)]
                 ELSE run
    BY <1>20 DEF Renew
  <2>2. run' \in [Run -> Row]
    BY <2>0, <2>1, ReadingFacts, RenewedRowFacts DEF TypeOK, Token
  <2>3. beating' \in [Process -> BOOLEAN]
    BY <1>20 DEF Renew, TypeOK
  <2> QED
    BY <1>20, <2>2, <2>3 DEF Renew, TypeOK
<1>21. ASSUME NEW w \in Process, HeartbeatDies(w) PROVE TypeOK'
  BY <1>21 DEF HeartbeatDies, TypeOK
<1>22. ASSUME NEW w \in Process, Crash(w) PROVE TypeOK'
  BY <1>22 DEF Crash, TypeOK, Error
<1>23. ASSUME NEW w \in Process, Restart(w) PROVE TypeOK'
  BY <1>23 DEF Restart, TypeOK
<1>24. ASSUME NEW w \in Process, FetchFails(w) \/ LookupConflicts(w)
             \/ WriteLosesRace(w) \/ WriteFails(w) \/ CompleteFails(w)
       PROVE  TypeOK'
  BY <1>24, <1>14
  DEF FetchFails, LookupConflicts, WriteLosesRace, WriteFails, CompleteFails, Error
<1>25. ASSUME NEW w \in Process, Complete(w) \/ HandleFailure(w) PROVE TypeOK'
  BY <1>25, <1>17, <1>18, <1>19 DEF Complete, HandleFailure
<1>26. CASE UNCHANGED vars
  BY <1>26 DEF vars, TypeOK
<1> QED
  BY <1>1, <1>2, <1>3, <1>4, <1>5, <1>6, <1>7, <1>8, <1>9, <1>10, <1>11, <1>12,
     <1>13, <1>15, <1>16, <1>20, <1>21, <1>22, <1>23, <1>24, <1>25, <1>26
  DEF Next, Step, Cycle, Execute, Environment

-----------------------------------------------------------------------------
(* What a step may do to one row.  The invariants and the action           *)
(* properties about rows all follow from this classification.              *)

Inserted(r) ==
    /\ run[r].status = "absent"
    /\ run'[r].status = "pending" /\ run'[r].gen = 0 /\ run'[r].attempt = 0

Claimed(r, w) ==
    /\ ClaimCommit(w)
    /\ \E s \in Winning(w) :
         /\ s.id = r
         /\ run'[r].status = "running"
         /\ run'[r].gen = s.gen + 1 /\ run'[r].attempt = s.attempt + 1

Renewed(r) ==
    /\ run[r].status = "running" /\ run'[r].status = "running"
    /\ run'[r].gen = run[r].gen /\ run'[r].attempt = run[r].attempt

Recovered(r, w) ==
    /\ pc[w] = "recovering"
    /\ run[r].status = "running" /\ run[r].expires <= cur[w]
    /\ run'[r].status \in {"pending", "failed"}
    /\ run'[r].gen = run[r].gen /\ run'[r].attempt = run[r].attempt
    /\ run'[r].status = "pending" => run[r].attempt < MaximumAttempts

Finished(r, w) ==
    /\ pc[w] \in {"complete", "failing"} /\ active[w].id = r
    /\ run[r].status = "running" /\ run[r].gen = active[w].gen
    /\ run'[r].status \in {"pending", "succeeded", "failed"}
    /\ run'[r].gen = run[r].gen /\ run'[r].attempt = run[r].attempt
    /\ run'[r].status = "pending" => run[r].attempt < MaximumAttempts
    /\ run'[r].status = "succeeded"
         => pc[w] = "complete" /\ run'[r].batch = answer[w]

RowStep(r) ==
    \/ run'[r] = run[r]
    \/ Inserted(r)
    \/ Renewed(r)
    \/ \E w \in Process : Claimed(r, w) \/ Recovered(r, w) \/ Finished(r, w)

LEMMA RowSteps ==
    ASSUME TypeOK, Bookkeeping, [Next]_vars, NEW r \in Run
    PROVE  RowStep(r)
<1> USE DEF table, local, bounds
<1>1. ASSUME NEW q \in Run, RunNow(q) PROVE RowStep(r)
  <2>1. PICK t \in {c \in 0..now : now - c <= ClockLag} :
               run' = [run EXCEPT ![q] = NewRow(t, t)]
    BY <1>1 DEF RunNow
  <2>2. CASE q = r
    BY <1>1, <2>1, <2>2, NewRowFacts DEF RunNow, TypeOK, RowStep, Inserted
  <2>3. CASE q # r
    BY <2>1, <2>3 DEF TypeOK, RowStep
  <2> QED
    BY <2>2, <2>3
<1>2. CASE Tick
  BY <1>2 DEF Tick, RowStep
<1>3. ASSUME NEW w \in Process, RecoverCommit(w) PROVE RowStep(r)
  <2>1. CASE \E s \in picked[w] : RecoverMatches(s, r, cur[w])
    <3> DEFINE s == CHOOSE s \in picked[w] : RecoverMatches(s, r, cur[w])
    <3>1. s \in picked[w] /\ RecoverMatches(s, r, cur[w])
      BY <2>1
    <3>2. /\ s \in Snapshot /\ s.attempt \in 1..MaximumAttempts
          /\ cur[w] \in Nat /\ s.gen = s.attempt
      BY <3>1, <1>3 DEF RecoverCommit, TypeOK, Bookkeeping, Counted, Remembers
    <3>3. run'[r] = RecoveredRow(run[r], s, cur[w])
      BY <2>1, <1>3 DEF RecoverCommit
    <3>4. s.attempt = run[r].attempt
      BY <3>1, <3>2 DEF RecoverMatches, Bookkeeping, Counted, Remembers
    <3>5. run[r] \in Row
      BY DEF TypeOK
    <3>6. /\ run'[r].status \in {"pending", "failed"}
          /\ run'[r].gen = run[r].gen /\ run'[r].attempt = run[r].attempt
          /\ run'[r].status = "pending" => s.attempt < MaximumAttempts
      BY <3>2, <3>3, <3>5, RecoveredRowFacts
    <3>7. pc[w] = "recovering" /\ run[r].status = "running" /\ run[r].expires <= cur[w]
      BY <1>3, <3>1 DEF RecoverCommit, RecoverMatches
    <3>8. Recovered(r, w)
      BY <3>4, <3>6, <3>7 DEF Recovered
    <3> QED
      BY <3>8 DEF RowStep
  <2>2. CASE ~(\E s \in picked[w] : RecoverMatches(s, r, cur[w]))
    BY <2>2, <1>3 DEF RecoverCommit, RowStep
  <2> QED
    BY <2>1, <2>2
<1>4. ASSUME NEW w \in Process, Materialize(w) PROVE RowStep(r)
  <2>1. PICK S \in SUBSET {q \in Run : run[q].status = "absent"},
             due \in [Run -> {d \in 0..cur[w] : cur[w] - d <= DueLag}] :
          run' = [q \in Run |-> IF q \in S THEN NewRow(due[q], cur[w]) ELSE run[q]]
    BY <1>4 DEF Materialize
  <2>2. CASE r \in S
    <3>1. due[r] \in Nat /\ cur[w] \in Nat
      BY DEF TypeOK
    <3>2. run'[r] = NewRow(due[r], cur[w]) /\ run[r].status = "absent"
      BY <2>1, <2>2
    <3>3. Inserted(r)
      BY <3>1, <3>2, NewRowFacts DEF Inserted
    <3> QED
      BY <3>3 DEF RowStep
  <2>3. CASE r \notin S
    BY <2>1, <2>3 DEF RowStep
  <2> QED
    BY <2>2, <2>3
<1>5. ASSUME NEW w \in Process, ClaimCommit(w) PROVE RowStep(r)
  <2>1. CASE \E s \in Winning(w) : s.id = r
    <3> DEFINE s == CHOOSE s \in Winning(w) : s.id = r
    <3>1. s \in Winning(w) /\ s.id = r
      BY <2>1
    <3>2. s \in Snapshot /\ cur[w] \in Nat /\ WorkerId[w] \in Owner
      BY <3>1, WinningFacts DEF TypeOK, Owner
    <3>3. run'[r] = ClaimedRow(run[r], s, WorkerId[w], cur[w])
      BY <2>1, <1>5 DEF ClaimCommit
    <3>4. /\ run'[r].status = "running"
          /\ run'[r].gen = s.gen + 1 /\ run'[r].attempt = s.attempt + 1
      BY <3>2, <3>3, ClaimedRowFacts DEF TypeOK
    <3>5. Claimed(r, w)
      BY <1>5, <3>1, <3>4 DEF Claimed
    <3> QED
      BY <3>5 DEF RowStep
  <2>2. CASE ~(\E s \in Winning(w) : s.id = r)
    BY <2>2, <1>5 DEF ClaimCommit, RowStep
  <2> QED
    BY <2>1, <2>2
<1>6. ASSUME NEW w \in Process, Complete(w) PROVE RowStep(r)
  <2>1. active[w] \in Token /\ answer[w] \in Payload
    BY <1>6 DEF Complete, TypeOK, Bookkeeping, Counted, Remembers, Executing
  <2>2. PICK c \in ClockReading(w) :
          run' = IF FencedRunning(w, active[w].id, active[w].gen, c)
                 THEN [run EXCEPT ![active[w].id] = SucceededRow(@, c, answer[w])]
                 ELSE run
    BY <1>6 DEF Complete
  <2>3. CASE FencedRunning(w, active[w].id, active[w].gen, c) /\ active[w].id = r
    <3>1. c \in Nat /\ run[r] \in Row /\ run'[r] = SucceededRow(run[r], c, answer[w])
      BY <2>1, <2>2, <2>3, ReadingFacts DEF TypeOK
    <3>2. Finished(r, w)
      BY <1>6, <2>1, <2>3, <3>1, SucceededRowFacts DEF Complete, Finished, FencedRunning
    <3> QED
      BY <3>2 DEF RowStep
  <2>4. CASE ~(FencedRunning(w, active[w].id, active[w].gen, c) /\ active[w].id = r)
    BY <2>1, <2>2, <2>4 DEF TypeOK, RowStep
  <2> QED
    BY <2>3, <2>4
<1>7. ASSUME NEW w \in Process, HandleFailure(w) PROVE RowStep(r)
  <2> DEFINE t == active[w]
             row == run[t.id]
             new(c) == IF failure[w] = "retryable" /\ row.attempt < MaximumAttempts
                       THEN RetriedRow(row, c, RetryDelay[t.id][row.attempt])
                       ELSE FailedRow(row, c, failure[w])
  <2>1. t \in Token /\ failure[w] \in Error /\ row \in Row
    BY <1>7 DEF HandleFailure, TypeOK, Token, Executing
  <2>2. PICK c \in ClockReading(w) :
          run' = IF ~FencedRunning(w, t.id, t.gen, c) THEN run
                 ELSE [run EXCEPT ![t.id] = new(c)]
    BY <1>7 DEF HandleFailure
  <2>3. CASE FencedRunning(w, t.id, t.gen, c) /\ t.id = r
    <3>1. c \in Nat /\ run'[r] = new(c)
      BY <2>1, <2>2, <2>3, ReadingFacts DEF TypeOK
    <3>2. row.attempt < MaximumAttempts => RetryDelay[t.id][row.attempt] \in Nat
      BY <2>1, <2>3, SettingsAssumption
      DEF SettingsAssumption, FencedRunning, Bookkeeping, Counted, Remembers, Token, Row
    <3>3. /\ new(c).status \in {"pending", "failed"}
          /\ new(c).gen = row.gen /\ new(c).attempt = row.attempt
          /\ new(c).status = "pending" => row.attempt < MaximumAttempts
      <4>1. CASE failure[w] = "retryable" /\ row.attempt < MaximumAttempts
        <5>1. new(c) = RetriedRow(row, c, RetryDelay[t.id][row.attempt])
          BY <4>1
        <5> DEFINE delay == RetryDelay[t.id][row.attempt]
        <5>2. row \in Row /\ c \in Nat /\ delay \in Nat
          BY <2>1, <3>1, <3>2, <4>1
        <5> HIDE DEF new, row, delay
        <5>3. /\ RetriedRow(row, c, delay).status = "pending"
              /\ RetriedRow(row, c, delay).gen = row.gen
              /\ RetriedRow(row, c, delay).attempt = row.attempt
          BY <5>2, RetriedRowFacts
        <5>4. new(c) = RetriedRow(row, c, delay)
          BY <5>1 DEF delay
        <5> QED
          BY <4>1, <5>3, <5>4
      <4>2. CASE ~(failure[w] = "retryable" /\ row.attempt < MaximumAttempts)
        <5>1. new(c) = FailedRow(row, c, failure[w])
          BY <4>2
        <5> HIDE DEF new
        <5> QED
          BY <2>1, <3>1, <5>1, FailedRowFacts
      <4> QED
        BY <4>1, <4>2
    <3>4. Finished(r, w)
      BY <1>7, <2>3, <3>1, <3>3 DEF HandleFailure, Finished, FencedRunning
    <3> QED
      BY <3>4 DEF RowStep
  <2>4. CASE ~(FencedRunning(w, t.id, t.gen, c) /\ t.id = r)
    BY <2>1, <2>2, <2>4 DEF TypeOK, RowStep
  <2> QED
    BY <2>3, <2>4
<1>8. ASSUME NEW w \in Process, Renew(w) PROVE RowStep(r)
  <2>0. active[w] \in Token
    BY <1>8 DEF Renew, TypeOK, Executing
  <2>1. PICK c \in ClockReading(w) :
          run' = IF FencedRunning(w, active[w].id, active[w].gen, c)
                 THEN [run EXCEPT ![active[w].id] = RenewedRow(@, c)]
                 ELSE run
    BY <1>8 DEF Renew
  <2>2. CASE FencedRunning(w, active[w].id, active[w].gen, c) /\ active[w].id = r
    <3>1. c \in Nat /\ run[r] \in Row /\ run'[r] = RenewedRow(run[r], c)
      BY <2>0, <2>1, <2>2, ReadingFacts DEF TypeOK
    <3>2. Renewed(r)
      BY <2>2, <3>1, RenewedRowFacts DEF Renewed, FencedRunning
    <3> QED
      BY <3>2 DEF RowStep
  <2>3. CASE ~(FencedRunning(w, active[w].id, active[w].gen, c) /\ active[w].id = r)
    BY <2>0, <2>1, <2>3 DEF TypeOK, RowStep
  <2> QED
    BY <2>2, <2>3
<1>9. ASSUME UNCHANGED run PROVE RowStep(r)
  BY <1>9 DEF RowStep
<1>10. ASSUME NEW w \in Process,
              \/ BeginCycle(w) \/ RecoverSelect(w) \/ ClaimSelect(w) \/ ClaimRollback(w)
              \/ StartRun(w) \/ SkipRun(w) \/ EndCycle(w)
              \/ Fetch(w) \/ Lookup(w) \/ Write(w)
              \/ HeartbeatDies(w) \/ Crash(w) \/ Restart(w)
       PROVE  UNCHANGED run
  BY <1>10
  DEF BeginCycle, RecoverSelect, ClaimSelect, ClaimRollback, StartRun, SkipRun,
      EndCycle, Fetch, Lookup, Write, HeartbeatDies, Crash, Restart
<1>11. ASSUME NEW w \in Process,
              \/ FetchFails(w) \/ LookupConflicts(w) \/ WriteLosesRace(w)
              \/ WriteFails(w) \/ CompleteFails(w)
       PROVE  UNCHANGED run
  BY <1>11
  DEF FetchFails, LookupConflicts, WriteLosesRace, WriteFails, CompleteFails, Raise
<1>12. CASE UNCHANGED vars
  BY <1>12, <1>9 DEF vars
<1> QED
  BY <1>1, <1>2, <1>3, <1>4, <1>5, <1>6, <1>7, <1>8, <1>9, <1>10, <1>11, <1>12
  DEF Next, Step, Cycle, Execute, Environment

LEMMA CountedStep ==
    ASSUME TypeOK, Bookkeeping, [Next]_vars, NEW r \in Run
    PROVE  Counted(r)' /\ run[r].gen <= run'[r].gen
<1>1. RowStep(r)
  BY RowSteps
<1>2. Counted(r) /\ run[r] \in Row
  BY DEF Bookkeeping, TypeOK
<1>3. CASE run'[r] = run[r]
  BY <1>2, <1>3 DEF Counted, Row
<1>4. CASE Inserted(r)
  BY <1>2, <1>4, SettingsAssumption DEF SettingsAssumption, Inserted, Counted
<1>5. CASE Renewed(r)
  BY <1>2, <1>5 DEF Renewed, Counted, Row
<1>6. ASSUME NEW w \in Process, Claimed(r, w)
      PROVE  Counted(r)' /\ run[r].gen <= run'[r].gen
  <2>1. PICK s \in Winning(w) : /\ s.id = r
                                /\ run'[r].status = "running"
                                /\ run'[r].gen = s.gen + 1
                                /\ run'[r].attempt = s.attempt + 1
    BY <1>6 DEF Claimed
  <2>2. s \in picked[w] /\ s \in Snapshot /\ run[r].gen = s.gen
    BY <2>1, WinningFacts
  <2>3. s.gen = s.attempt /\ s.attempt < MaximumAttempts
    BY <1>6, <2>2 DEF Claimed, ClaimCommit, Bookkeeping, Remembers
  <2> QED
    BY <2>1, <2>2, <2>3, SettingsAssumption DEF SettingsAssumption, Counted, Snapshot
<1>7. ASSUME NEW w \in Process, Recovered(r, w)
      PROVE  Counted(r)' /\ run[r].gen <= run'[r].gen
  <2>1. /\ run'[r].status \in {"pending", "failed"}
        /\ run'[r].gen = run[r].gen /\ run'[r].attempt = run[r].attempt
    BY <1>7 DEF Recovered
  <2> QED
    BY <1>2, <2>1 DEF Counted, Row
<1>8. ASSUME NEW w \in Process, Finished(r, w)
      PROVE  Counted(r)' /\ run[r].gen <= run'[r].gen
  <2>1. /\ run'[r].status \in {"pending", "succeeded", "failed"}
        /\ run'[r].gen = run[r].gen /\ run'[r].attempt = run[r].attempt
    BY <1>8 DEF Finished
  <2> QED
    BY <1>2, <2>1 DEF Counted, Row
<1> QED
  BY <1>1, <1>3, <1>4, <1>5, <1>6, <1>7, <1>8 DEF RowStep

-----------------------------------------------------------------------------
(* A step changes what one process remembers, its own. *)

Stays(w) ==
    /\ pc'[w] = pc[w] /\ cur'[w] = cur[w] /\ picked'[w] = picked[w]
    /\ queue'[w] = queue[w] /\ active'[w] = active[w] /\ answer'[w] = answer[w]

LEMMA OthersStay ==
    ASSUME TypeOK, NEW v \in Process, NEW w \in Process, v # w,
           Step(v) \/ Environment(v)
    PROVE  Stays(w)
<1> USE DEF table, local, bounds
<1>1. CASE Cycle(v)
  BY <1>1
  DEF Cycle, BeginCycle, RecoverSelect, RecoverCommit, Materialize, ClaimSelect,
      ClaimCommit, ClaimRollback, StartRun, SkipRun, EndCycle, Stays, TypeOK
<1>2. CASE Execute(v)
  BY <1>2
  DEF Execute, Fetch, FetchFails, Lookup, LookupConflicts, Write, WriteLosesRace,
      WriteFails, Complete, CompleteFails, HandleFailure, Raise, FinishRun, Stays, TypeOK
<1>3. CASE Restart(v)
  BY <1>3 DEF Restart, Stays, TypeOK
<1>4. CASE Environment(v)
  BY <1>4 DEF Environment, Renew, HeartbeatDies, Crash, Stays, TypeOK
<1> QED
  BY <1>1, <1>2, <1>3, <1>4 DEF Step

LEMMA StepOrStays ==
    ASSUME TypeOK, [Next]_vars, NEW w \in Process
    PROVE  Step(w) \/ Crash(w) \/ Stays(w)
<1>1. CASE UNCHANGED vars
  BY <1>1 DEF vars, Stays
<1>2. ASSUME NEW v \in Process, v # w, Step(v) \/ Environment(v)
      PROVE  Stays(w)
  BY <1>2, OthersStay
<1>3. CASE Renew(w) \/ HeartbeatDies(w)
  BY <1>3 DEF Renew, HeartbeatDies, Stays, bounds, table
<1>4. CASE Tick \/ \E r \in Run : RunNow(r)
  BY <1>4 DEF Tick, RunNow, Stays, local
<1> QED
  BY <1>1, <1>2, <1>3, <1>4 DEF Next, Environment

LEMMA NowGrows ==
    ASSUME TypeOK, [Next]_vars
    PROVE  now <= now'
<1> USE DEF table, local, bounds
<1>1. CASE UNCHANGED vars
  BY <1>1 DEF vars, TypeOK
<1>2. CASE Tick
  BY <1>2 DEF Tick, TypeOK
<1>3. ASSUME NEW r \in Run, RunNow(r) PROVE now' = now
  BY <1>3 DEF RunNow
<1>4. ASSUME NEW w \in Process, Cycle(w) \/ Restart(w) \/ Environment(w) PROVE now' = now
  BY <1>4
  DEF Cycle, BeginCycle, RecoverSelect, RecoverCommit, Materialize, ClaimSelect,
      ClaimCommit, ClaimRollback, StartRun, SkipRun, EndCycle, Restart,
      Environment, Renew, HeartbeatDies, Crash
<1>5. ASSUME NEW w \in Process, Execute(w) PROVE now' = now
  BY <1>5
  DEF Execute, Fetch, FetchFails, Lookup, LookupConflicts, Write, WriteLosesRace,
      WriteFails, Complete, CompleteFails, HandleFailure, Raise, FinishRun
<1> QED
  BY <1>1, <1>2, <1>3, <1>4, <1>5 DEF Next, Step, TypeOK

(* Only Write touches the import batches, and only where there is none. *)
LEMMA ImportedStep ==
    ASSUME TypeOK, [Next]_vars, NEW r \in Run, imported[r] # NoPayload
    PROVE  imported'[r] = imported[r]
<1> USE DEF table, local, bounds
<1>1. CASE UNCHANGED vars
  BY <1>1 DEF vars
<1>2. CASE Tick \/ \E q \in Run : RunNow(q)
  BY <1>2 DEF Tick, RunNow
<1>3. ASSUME NEW w \in Process, Cycle(w) \/ Restart(w) \/ Environment(w)
      PROVE  imported' = imported
  BY <1>3
  DEF Cycle, BeginCycle, RecoverSelect, RecoverCommit, Materialize, ClaimSelect,
      ClaimCommit, ClaimRollback, StartRun, SkipRun, EndCycle, Restart,
      Environment, Renew, HeartbeatDies, Crash
<1>4. ASSUME NEW w \in Process,
             \/ Fetch(w) \/ FetchFails(w) \/ Lookup(w) \/ LookupConflicts(w)
             \/ WriteLosesRace(w) \/ WriteFails(w)
             \/ Complete(w) \/ CompleteFails(w) \/ HandleFailure(w)
      PROVE  imported' = imported
  BY <1>4
  DEF Fetch, FetchFails, Lookup, LookupConflicts, WriteLosesRace, WriteFails,
      Complete, CompleteFails, HandleFailure, Raise, FinishRun
<1>5. ASSUME NEW w \in Process, Write(w) PROVE imported'[r] = imported[r]
  BY <1>5 DEF Write, TypeOK
<1> QED
  BY <1>1, <1>2, <1>3, <1>4, <1>5 DEF Next, Step, Execute

-----------------------------------------------------------------------------
(* The bookkeeping of a process survives its own steps and those of others. *)

LEMMA RemembersStep ==
    ASSUME TypeOK, Bookkeeping, [Next]_vars, NEW w \in Process
    PROVE  Remembers(w)'
<1> USE DEF table, local, bounds
<1>1. Remembers(w) /\ TypeOK'
  BY TypeStep DEF Bookkeeping
<1>2. now <= now' /\ now \in Nat /\ now' \in Nat /\ cur[w] \in Nat /\ cur[w] <= now
  BY <1>1, NowGrows DEF TypeOK, Remembers
<1>3. \A t \in queue[w] : t.gen <= run'[t.id].gen
  <2> SUFFICES ASSUME NEW t \in queue[w] PROVE t.gen <= run'[t.id].gen
    OBVIOUS
  <2>1. t \in Token /\ t.gen <= run[t.id].gen
    BY <1>1 DEF TypeOK, Remembers
  <2>2. /\ t.gen \in Nat /\ run[t.id].gen \in Nat /\ run'[t.id].gen \in Nat
        /\ run[t.id].gen <= run'[t.id].gen
    BY <1>1, <2>1, CountedStep DEF TypeOK, Token, Row
  <2> QED
    BY <2>1, <2>2
<1>4. \A s \in picked[w] : s.gen = s.attempt /\ s.gen <= run'[s.id].gen
  <2> SUFFICES ASSUME NEW s \in picked[w]
               PROVE  s.gen = s.attempt /\ s.gen <= run'[s.id].gen
    OBVIOUS
  <2>1. s \in Snapshot /\ s.gen = s.attempt /\ s.gen <= run[s.id].gen
    BY <1>1 DEF TypeOK, Remembers
  <2>2. /\ s.gen \in Nat /\ run[s.id].gen \in Nat /\ run'[s.id].gen \in Nat
        /\ run[s.id].gen <= run'[s.id].gen
    BY <1>1, <2>1, CountedStep DEF TypeOK, Snapshot, Row
  <2> QED
    BY <2>1, <2>2
<1>5. CASE Stays(w)
  <2>1. pc[w] = "complete" => imported'[active[w].id] = imported[active[w].id]
    <3>1. CASE pc[w] = "complete"
      <4>1. /\ active[w] \in Token /\ answer[w] \in Payload
            /\ imported[active[w].id] = answer[w]
        BY <1>1, <3>1 DEF TypeOK, Remembers, Executing
      <4> QED
        BY <4>1, ImportedStep, NullAssumption DEF NullAssumption, Token
    <3> QED
      BY <3>1
  <2> QED
    BY <1>1, <1>2, <1>3, <1>4, <1>5, <2>1 DEF Stays, Remembers
<1>6. CASE Crash(w)
  BY <1>2, <1>6 DEF Crash, Remembers, TypeOK
<1>7. CASE BeginCycle(w)
  BY <1>1, <1>2, <1>3, <1>4, <1>7 DEF BeginCycle, Remembers, TypeOK
<1>8. CASE RecoverSelect(w)
  <2> DEFINE free == {r \in Expired(cur[w]) : ~Locked(r, w)}
             chosen == FirstOf(free, ExpiresBefore, ClaimLimit)
  <2>1. chosen \in SUBSET Run /\ \A r \in chosen : run[r].status = "running"
    BY ExpiredFacts DEF Expired
  <2>2. picked'[w] = Snapshots(chosen) /\ run' = run /\ pc'[w] = "recovering"
        /\ queue'[w] = queue[w] /\ cur'[w] = cur[w]
    BY <1>8 DEF RecoverSelect, TypeOK
  <2>3. \A s \in Snapshots(chosen) :
          /\ s.gen = s.attempt /\ s.gen <= run[s.id].gen
          /\ s.attempt \in 1..MaximumAttempts
    <3> HIDE DEF chosen
    <3> SUFFICES ASSUME NEW s \in Snapshots(chosen)
                 PROVE  /\ s.gen = s.attempt /\ s.gen <= run[s.id].gen
                        /\ s.attempt \in 1..MaximumAttempts
      OBVIOUS
    <3>1. /\ s.id \in chosen /\ s.id \in Run /\ s.gen = run[s.id].gen
          /\ s.attempt = run[s.id].attempt /\ run[s.id].status = "running"
      BY <2>1, SnapshotFacts
    <3>2. Counted(s.id) /\ run[s.id] \in Row
      BY <3>1 DEF Bookkeeping, TypeOK
    <3> QED
      BY <3>1, <3>2 DEF Counted, Row
  <2> QED
    BY <1>2, <1>3, <2>2, <2>3 DEF Remembers
<1>9. CASE RecoverCommit(w)
  BY <1>1, <1>2, <1>3, <1>9 DEF RecoverCommit, Remembers, TypeOK
<1>10. CASE Materialize(w)
  BY <1>1, <1>2, <1>3, <1>4, <1>10 DEF Materialize, Remembers, TypeOK
<1>11. CASE ClaimSelect(w)
  <2> DEFINE free == {r \in Eligible(cur[w]) : ~Locked(r, w)}
             chosen == FirstOf(free, DueBefore, EffectiveLimit)
  <2>1. chosen \in SUBSET Run /\ \A r \in chosen : run[r].attempt < MaximumAttempts
    BY FirstDueFacts DEF Eligible
  <2>2. picked'[w] = Snapshots(chosen) /\ run' = run /\ pc'[w] = "claiming"
        /\ queue'[w] = queue[w] /\ cur'[w] = cur[w]
    BY <1>11 DEF ClaimSelect, TypeOK
  <2>3. \A s \in Snapshots(chosen) :
          /\ s.gen = s.attempt /\ s.gen <= run[s.id].gen
          /\ s.attempt < MaximumAttempts
    <3> HIDE DEF chosen
    <3> SUFFICES ASSUME NEW s \in Snapshots(chosen)
                 PROVE  /\ s.gen = s.attempt /\ s.gen <= run[s.id].gen
                        /\ s.attempt < MaximumAttempts
      OBVIOUS
    <3>1. /\ s.id \in chosen /\ s.id \in Run /\ s.gen = run[s.id].gen
          /\ s.attempt = run[s.id].attempt /\ run[s.id].attempt < MaximumAttempts
      BY <2>1, SnapshotFacts
    <3>2. Counted(s.id) /\ run[s.id] \in Row
      BY <3>1 DEF Bookkeeping, TypeOK
    <3> QED
      BY <3>1, <3>2 DEF Counted, Row
  <2> QED
    BY <1>2, <1>3, <2>2, <2>3 DEF Remembers
<1>12. CASE ClaimCommit(w)
  <2>1. ASSUME NEW s \in Winning(w) PROVE run'[s.id].gen = s.gen + 1
    <3>1. s \in Snapshot /\ s.id \in Run
      BY <2>1, WinningFacts DEF Snapshot
    <3> DEFINE x == CHOOSE x \in Winning(w) : x.id = s.id
    <3>2. x \in Winning(w) /\ x.id = s.id
      BY <2>1
    <3>3. x \in Snapshot /\ x.gen = s.gen
      BY <2>1, <3>2, WinningFacts
    <3>4. run'[s.id] = ClaimedRow(run[s.id], x, WorkerId[w], cur[w])
      BY <1>12, <2>1, <3>1 DEF ClaimCommit
    <3>5. run[s.id] \in Row /\ WorkerId[w] \in Owner /\ cur[w] \in Nat
      BY <3>1 DEF TypeOK, Owner
    <3> HIDE DEF x
    <3> QED
      BY <3>3, <3>4, <3>5, ClaimedRowFacts
  <2>2. \A t \in queue'[w] : t.gen <= run'[t.id].gen
    <3>1. queue'[w] = {[id |-> s.id, gen |-> s.gen + 1, due |-> s.next] : s \in Winning(w)}
      BY <1>12 DEF ClaimCommit, TypeOK
    <3>2. \A s \in Winning(w) : s.gen \in Nat
      BY WinningFacts DEF Snapshot
    <3> QED
      BY <2>1, <3>1, <3>2
  <2>3. picked'[w] = {} /\ pc'[w] = "dispatch" /\ cur'[w] = cur[w]
    BY <1>12 DEF ClaimCommit, TypeOK
  <2> QED
    BY <1>2, <2>2, <2>3 DEF Remembers
<1>13. CASE ClaimRollback(w)
  BY <1>1, <1>2, <1>3, <1>13 DEF ClaimRollback, Remembers, TypeOK
<1>14. CASE StartRun(w) \/ SkipRun(w) \/ EndCycle(w) \/ Restart(w) \/ Fetch(w)
  BY <1>1, <1>2, <1>3, <1>4, <1>14
  DEF StartRun, SkipRun, EndCycle, Restart, Fetch, Remembers, TypeOK
<1>15. CASE \/ FetchFails(w) \/ LookupConflicts(w)
            \/ WriteLosesRace(w) \/ WriteFails(w) \/ CompleteFails(w)
  <2>1. PICK error \in Error : Raise(w, error)
    BY <1>15
    DEF FetchFails, LookupConflicts, WriteLosesRace, WriteFails, CompleteFails, Error
  <2> QED
    BY <1>1, <1>2, <1>3, <1>4, <1>15, <2>1
    DEF Raise, Remembers, TypeOK
<1>16. CASE Lookup(w)
  BY <1>1, <1>2, <1>3, <1>4, <1>16, NullAssumption
  DEF NullAssumption, Lookup, Remembers, TypeOK
<1>17. CASE Write(w)
  BY <1>1, <1>2, <1>3, <1>4, <1>17 DEF Write, Remembers, TypeOK, Token, Executing
<1>18. CASE Complete(w) \/ HandleFailure(w)
  <2>1. FinishRun(w)
    BY <1>18 DEF Complete, HandleFailure
  <2> QED
    BY <1>1, <1>2, <1>3, <1>4, <2>1 DEF FinishRun, Remembers, TypeOK
<1> QED
  BY <1>5, <1>6, <1>7, <1>8, <1>9, <1>10, <1>11, <1>12, <1>13, <1>14, <1>15,
     <1>16, <1>17, <1>18, StepOrStays
  DEF Step, Cycle, Execute

-----------------------------------------------------------------------------
(* The inductive invariant. *)

IInv == TypeOK /\ Bookkeeping

LEMMA IInvInit == Init => IInv
<1> SUFFICES ASSUME Init PROVE IInv
  OBVIOUS
<1>1. Absent \in Row
  BY DEF Absent, Row, Time, NoTime, Error
<1>2. TypeOK
  BY <1>1 DEF Init, TypeOK, Control, Executing, Transaction, Error
<1>3. ASSUME NEW r \in Run PROVE Counted(r)
  BY <1>3, SettingsAssumption DEF SettingsAssumption, Init, Counted, Absent
<1>4. ASSUME NEW w \in Process PROVE Remembers(w)
  BY <1>4 DEF Init, Remembers
<1> QED
  BY <1>2, <1>3, <1>4 DEF IInv, Bookkeeping

LEMMA IInvStep == IInv /\ [Next]_vars => IInv'
<1> SUFFICES ASSUME IInv, [Next]_vars PROVE IInv'
  OBVIOUS
<1>1. TypeOK /\ Bookkeeping
  BY DEF IInv
<1>2. TypeOK'
  BY <1>1, TypeStep
<1>3. Bookkeeping'
  BY <1>1, CountedStep, RemembersStep DEF Bookkeeping
<1> QED
  BY <1>2, <1>3 DEF IInv

LEMMA IInvAlways == Spec => []IInv
BY IInvInit, IInvStep, PTL DEF Spec

(* Every variable keeps its type; the run a process executes is in its     *)
(* queue, and a heartbeat never outlives the execution it serves.          *)
THEOREM TypeCorrect == Spec => []TypeOK
<1>1. IInv => TypeOK
  BY DEF IInv
<1> QED
  BY <1>1, IInvAlways, PTL

(* The generation of a run counts its claims and never exceeds             *)
(* MaximumAttempts; no process remembers a row newer than the table's.     *)
THEOREM BookkeepingCorrect == Spec => []Bookkeeping
<1>1. IInv => Bookkeeping
  BY DEF IInv
<1> QED
  BY <1>1, IInvAlways, PTL

-----------------------------------------------------------------------------
(***************************************************************************)
(* The safety properties of RunLease, from its inductive invariant and the *)
(* classification of row steps.                                            *)
(***************************************************************************)

(* Two concurrency keys, one running row each. *)

LEMMA PrecedesTotal ==
    ASSUME TypeOK, NEW s \in Snapshot, NEW t \in Snapshot, s.id # t.id
    PROVE  Precedes(s.id, s.next, t.id, t.next) \/ Precedes(t.id, t.next, s.id, s.next)
<1>1. /\ s.next \in Int /\ t.next \in Int /\ s.id \in Nat /\ t.id \in Nat
      /\ s.id \in Run /\ t.id \in Run
  BY RunAssumption DEF RunAssumption, Snapshot, Time, NoTime
<1>2. run[s.id].scheduled \in Int /\ run[t.id].scheduled \in Int
  BY <1>1 DEF TypeOK, Row, Time, NoTime
<1> QED
  BY <1>1, <1>2 DEF Precedes

LEMMA WinnersDiffer ==
    ASSUME TypeOK, NEW w \in Process, NEW s \in Winning(w), NEW t \in Winning(w),
           s.id # t.id
    PROVE  ConcurrencyKey[s.id] # ConcurrencyKey[t.id]
<1>1. s \in Snapshot /\ t \in Snapshot /\ s \in Distinct(picked[w]) /\ t \in Distinct(picked[w])
  BY WinningFacts DEF Winning
<1> QED
  BY <1>1, PrecedesTotal DEF Distinct

LEMMA OneClaimant ==
    ASSUME TypeOK, NEW v \in Process, NEW w \in Process, v # w, ClaimCommit(v)
    PROVE  ~ClaimCommit(w) /\ queue'[w] = queue[w]
BY DEF ClaimCommit, TypeOK

(* A row that is claimed was pending, and no run of its key was running. *)
LEMMA ClaimedFacts ==
    ASSUME TypeOK, NEW r \in Run, NEW w \in Process, Claimed(r, w)
    PROVE  /\ run[r].status = "pending"
           /\ \A q \in Run : q # r /\ ConcurrencyKey[q] = ConcurrencyKey[r]
                               => run[q].status # "running"
<1>1. PICK s \in Winning(w) : s.id = r
  BY DEF Claimed
<1>2. ~ClaimRejected(w)
  BY DEF Claimed, ClaimCommit
<1> QED
  BY <1>1, <1>2, WinningFacts DEF ClaimRejected

(* A running row was running already or has just been claimed. *)
LEMMA RunningRows ==
    ASSUME IInv, [Next]_vars, NEW r \in Run, run'[r].status = "running"
    PROVE  run[r].status = "running" \/ \E w \in Process : Claimed(r, w)
<1>1. RowStep(r)
  BY RowSteps DEF IInv
<1> QED
  BY <1>1 DEF RowStep, Inserted, Renewed, Recovered, Finished

LEMMA OneRunningStep == IInv /\ OneRunningPerKey /\ [Next]_vars => OneRunningPerKey'
<1> SUFFICES ASSUME IInv, OneRunningPerKey, [Next]_vars,
                    NEW r \in Run, NEW q \in Run, r # q,
                    ConcurrencyKey[r] = ConcurrencyKey[q],
                    run'[r].status = "running", run'[q].status = "running"
             PROVE  FALSE
  BY DEF OneRunningPerKey
<1> USE DEF IInv
<1>1. CASE run[r].status = "running" /\ run[q].status = "running"
  BY <1>1 DEF OneRunningPerKey
<1>2. ASSUME NEW w \in Process, Claimed(r, w), run[q].status = "running" PROVE FALSE
  BY <1>2, ClaimedFacts
<1>3. ASSUME NEW w \in Process, Claimed(q, w), run[r].status = "running" PROVE FALSE
  BY <1>3, ClaimedFacts
<1>4. ASSUME NEW v \in Process, NEW w \in Process, Claimed(r, v), Claimed(q, w)
      PROVE  FALSE
  <2>1. v = w
    BY <1>4, OneClaimant DEF Claimed
  <2>2. PICK s \in Winning(w) : s.id = r
    BY <1>4, <2>1 DEF Claimed
  <2>3. PICK t \in Winning(w) : t.id = q
    BY <1>4 DEF Claimed
  <2> QED
    BY <2>2, <2>3, WinnersDiffer
<1> QED
  BY <1>1, <1>2, <1>3, <1>4, RunningRows

(* The NOT EXISTS of the claim's SELECT, the dedupe of its candidates and  *)
(* the partial unique index keep one running row per concurrency key, for  *)
(* any number of workers and runs.                                         *)
THEOREM OneRunningAlways == Spec => []OneRunningPerKey
<1>1. Init => OneRunningPerKey
  BY DEF Init, OneRunningPerKey, Absent
<1> QED
  BY <1>1, OneRunningStep, IInvAlways, PTL DEF Spec

-----------------------------------------------------------------------------
(* The fencing token. *)

(* A token enters a queue in a claim, with a generation no row had before. *)
LEMMA NewTokens ==
    ASSUME IInv, [Next]_vars, NEW w \in Process, NEW t \in queue'[w], t \notin queue[w]
    PROVE  ClaimCommit(w) /\ t.id \in Run /\ run[t.id].gen < t.gen
<1> USE DEF IInv, table, local, bounds
<1>1. CASE Stays(w)
  BY <1>1 DEF Stays
<1>2. CASE Crash(w)
  BY <1>2 DEF Crash, TypeOK
<1>3. CASE ClaimCommit(w)
  <2>1. PICK s \in Winning(w) : t = [id |-> s.id, gen |-> s.gen + 1, due |-> s.next]
    BY <1>3 DEF ClaimCommit, TypeOK
  <2>2. s \in Snapshot /\ run[s.id].gen = s.gen
    BY WinningFacts
  <2> QED
    BY <1>3, <2>1, <2>2 DEF Snapshot
<1>4. CASE \/ BeginCycle(w) \/ RecoverSelect(w) \/ RecoverCommit(w) \/ Materialize(w)
           \/ ClaimSelect(w) \/ ClaimRollback(w) \/ StartRun(w) \/ SkipRun(w)
           \/ EndCycle(w) \/ Restart(w)
  BY <1>4
  DEF BeginCycle, RecoverSelect, RecoverCommit, Materialize, ClaimSelect,
      ClaimRollback, StartRun, SkipRun, EndCycle, Restart, TypeOK
<1>5. CASE Execute(w)
  BY <1>5
  DEF Execute, Fetch, FetchFails, Lookup, LookupConflicts, Write, WriteLosesRace,
      WriteFails, Complete, CompleteFails, HandleFailure, Raise, FinishRun, TypeOK
<1> QED
  BY <1>1, <1>2, <1>3, <1>4, <1>5, StepOrStays DEF Step, Cycle

LEMMA GenerationStep == IInv /\ GenerationHeldOnce /\ [Next]_vars => GenerationHeldOnce'
<1> SUFFICES ASSUME IInv, GenerationHeldOnce, [Next]_vars,
                    NEW v \in Process, NEW w \in Process, v # w,
                    NEW t \in queue'[v], NEW u \in queue'[w],
                    t.id = u.id, t.gen = u.gen
             PROVE  FALSE
  BY DEF GenerationHeldOnce, Held
<1> USE DEF IInv
<1>1. t.gen \in Nat /\ u.gen \in Nat /\ run[t.id].gen \in Nat
  <2>1. TypeOK'
    BY TypeStep
  <2>2. t \in Token /\ u \in Token
    BY <2>1 DEF TypeOK
  <2> QED
    BY <2>2 DEF Token, TypeOK, Row
<1>2. CASE t \in queue[v] /\ u \in queue[w]
  <2>1. <<t.id, t.gen>> \in Held(v) /\ <<u.id, u.gen>> \in Held(w)
    BY <1>2 DEF Held
  <2>2. <<t.id, t.gen>> = <<u.id, u.gen>>
    OBVIOUS
  <2>3. Held(v) \cap Held(w) = {}
    BY DEF GenerationHeldOnce
  <2> HIDE DEF Held
  <2> QED
    BY <2>1, <2>2, <2>3
<1>3. CASE t \notin queue[v]
  <2>1. ClaimCommit(v) /\ run[t.id].gen < t.gen
    BY <1>3, NewTokens
  <2>2. u \in queue[w]
    BY <2>1, OneClaimant
  <2>3. u.gen <= run[u.id].gen
    BY <2>2 DEF Bookkeeping, Remembers
  <2> QED
    BY <1>1, <2>1, <2>3
<1>4. CASE u \notin queue[w]
  <2>1. ClaimCommit(w) /\ run[u.id].gen < u.gen
    BY <1>4, NewTokens
  <2>2. t \in queue[v]
    BY <2>1, OneClaimant
  <2>3. t.gen <= run[t.id].gen
    BY <2>2 DEF Bookkeeping, Remembers
  <2> QED
    BY <1>1, <2>1, <2>3
<1> QED
  BY <1>2, <1>3, <1>4

(* No two processes ever hold the same generation of a run, even when they *)
(* carry the same worker id.                                               *)
THEOREM GenerationAlways == Spec => []GenerationHeldOnce
<1>1. Init => GenerationHeldOnce
  BY DEF Init, GenerationHeldOnce, Held
<1> QED
  BY <1>1, GenerationStep, IInvAlways, PTL DEF Spec

-----------------------------------------------------------------------------
(* Recovery and retry leave an attempt. *)

LEMMA ClaimableStep == IInv /\ PendingIsClaimable /\ [Next]_vars => PendingIsClaimable'
<1> SUFFICES ASSUME IInv, PendingIsClaimable, [Next]_vars, NEW r \in Run,
                    run'[r].status = "pending"
             PROVE  run'[r].attempt < MaximumAttempts
  BY DEF PendingIsClaimable
<1>1. RowStep(r)
  BY RowSteps DEF IInv
<1>2. CASE run'[r] = run[r]
  BY <1>2 DEF PendingIsClaimable
<1>3. CASE Inserted(r)
  BY <1>3, SettingsAssumption DEF Inserted, SettingsAssumption
<1>4. CASE Renewed(r) \/ \E w \in Process : Claimed(r, w)
  BY <1>4 DEF Renewed, Claimed
<1>5. ASSUME NEW w \in Process, Recovered(r, w) \/ Finished(r, w)
      PROVE  run'[r].attempt < MaximumAttempts
  <2>1. run'[r].attempt = run[r].attempt /\ run[r].attempt < MaximumAttempts
    BY <1>5 DEF Recovered, Finished
  <2> QED
    BY <2>1
<1> QED
  BY <1>1, <1>2, <1>3, <1>4, <1>5 DEF RowStep

(* A pending run always has an attempt left, so no run is ever left in a   *)
(* state that the claim query skips for good.                              *)
THEOREM ClaimableAlways == Spec => []PendingIsClaimable
<1>1. Init => PendingIsClaimable
  BY DEF Init, PendingIsClaimable, Absent
<1> QED
  BY <1>1, ClaimableStep, IInvAlways, PTL DEF Spec

-----------------------------------------------------------------------------
(* What a late process cannot do. *)

LEMMA CompletedStep ==
    ASSUME IInv, [Next]_vars, NEW r \in Run, Terminal(r)
    PROVE  run'[r] = run[r]
<1>1. RowStep(r)
  BY RowSteps DEF IInv
<1>2. ASSUME NEW w \in Process, Claimed(r, w) PROVE FALSE
  BY <1>2, ClaimedFacts DEF IInv, Terminal
<1> QED
  BY <1>1, <1>2 DEF RowStep, Inserted, Renewed, Recovered, Finished, Terminal

(* A run that succeeded or failed is never written again, however late a   *)
(* former lease holder, a recovery or a claim arrives.                     *)
THEOREM CompletedForGood == Spec => CompletedIsImmutable
<1>1. IInv /\ [Next]_vars => [\A r \in Run : Terminal(r) => run'[r] = run[r]]_vars
  BY CompletedStep
<1> QED
  BY <1>1, IInvAlways, PTL DEF Spec, CompletedIsImmutable

LEMMA LeaseStep ==
    ASSUME IInv, [Next]_vars, NEW r \in Run,
           run[r].status = "running", run[r].expires > now, run'[r].status # "running"
    PROVE  \E w \in Process : /\ <<r, run[r].gen>> \in Held(w)
                              /\ pc[w] \in {"complete", "failing"}
                              /\ active[w].id = r
<1> USE DEF IInv
<1>1. RowStep(r)
  BY RowSteps
<1>2. ASSUME NEW w \in Process, Recovered(r, w) PROVE FALSE
  <2>1. cur[w] <= now /\ cur[w] \in Nat /\ now \in Nat /\ run[r].expires \in Int
    BY DEF TypeOK, Row, Time, NoTime, Bookkeeping, Remembers
  <2>2. run[r].expires <= cur[w]
    BY <1>2 DEF Recovered
  <2> QED
    BY <2>1, <2>2
<1>3. ASSUME NEW w \in Process, Finished(r, w)
      PROVE  /\ <<r, run[r].gen>> \in Held(w)
             /\ pc[w] \in {"complete", "failing"} /\ active[w].id = r
  <2>1. pc[w] \in {"complete", "failing"} /\ active[w].id = r /\ run[r].gen = active[w].gen
    BY <1>3 DEF Finished
  <2>2. active[w] \in queue[w]
    BY <2>1 DEF TypeOK, Executing
  <2> QED
    BY <2>1, <2>2 DEF Held
<1> QED
  BY <1>1, <1>2, <1>3 DEF RowStep, Inserted, Renewed, Claimed

(* Nothing but the completion of its own holder takes a run whose lease    *)
(* has not expired out of "running".                                       *)
THEOREM LeaseRespected == Spec => LiveLeaseIsRespected
<1>1. IInv /\ [Next]_vars
        => [\A r \in Run :
              /\ run[r].status = "running" /\ run[r].expires > now
              /\ run'[r].status # "running"
              => \E w \in Process : /\ <<r, run[r].gen>> \in Held(w)
                                    /\ pc[w] \in {"complete", "failing"}
                                    /\ active[w].id = r]_vars
  BY LeaseStep
<1> QED
  BY <1>1, IInvAlways, PTL DEF Spec, LiveLeaseIsRespected

-----------------------------------------------------------------------------
(* Imported data. *)

LEMMA SuccessStep == IInv /\ SuccessHasBatch /\ [Next]_vars => SuccessHasBatch'
<1> SUFFICES ASSUME IInv, SuccessHasBatch, [Next]_vars, NEW r \in Run,
                    run'[r].status = "succeeded"
             PROVE  run'[r].batch # NoPayload /\ run'[r].batch = imported'[r]
  BY DEF SuccessHasBatch
<1> USE DEF IInv
<1>1. RowStep(r)
  BY RowSteps
<1>2. CASE run'[r] = run[r]
  <2>1. run[r].batch # NoPayload /\ run[r].batch = imported[r]
    BY <1>2 DEF SuccessHasBatch
  <2> QED
    BY <1>2, <2>1, ImportedStep
<1>3. CASE Inserted(r) \/ Renewed(r) \/ \E w \in Process : Claimed(r, w) \/ Recovered(r, w)
  BY <1>3 DEF Inserted, Renewed, Claimed, Recovered
<1>4. ASSUME NEW w \in Process, Finished(r, w)
      PROVE  run'[r].batch # NoPayload /\ run'[r].batch = imported'[r]
  <2>1. pc[w] = "complete" /\ run'[r].batch = answer[w] /\ active[w].id = r
    BY <1>4 DEF Finished
  <2>2. answer[w] # NoPayload /\ imported[r] = answer[w]
    BY <2>1, NullAssumption DEF NullAssumption, Bookkeeping, Remembers
  <2> QED
    BY <2>1, <2>2, ImportedStep
<1> QED
  BY <1>1, <1>2, <1>3, <1>4 DEF RowStep

(* A succeeded run names the batch committed under its idempotency key,    *)
(* with the data that batch holds, whichever process imported it.          *)
THEOREM SuccessAlways == Spec => []SuccessHasBatch
<1>1. Init => SuccessHasBatch
  BY DEF Init, SuccessHasBatch, Absent
<1> QED
  BY <1>1, SuccessStep, IInvAlways, PTL DEF Spec

(* What was imported under a key is never replaced. *)
THEOREM ImportedForGood == Spec => ImportedOnce
<1>1. IInv /\ [Next]_vars
        => [\A r \in Run : imported[r] # NoPayload => imported'[r] = imported[r]]_vars
  BY ImportedStep DEF IInv
<1> QED
  BY <1>1, IInvAlways, PTL DEF Spec, ImportedOnce

-----------------------------------------------------------------------------
(***************************************************************************)
(* The contents of the rows: no step but a claim can trip a CHECK          *)
(* constraint, a run fails only with a reason, the provider is called once *)
(* for a claim, and executions overlap only after a lease has expired.     *)
(*                                                                         *)
(* The order of the moments in a row rests on what processes remember: a   *)
(* claim that still wins was selected when the row was due, and a process  *)
(* began its cycle no earlier than the row it holds was started.           *)
(***************************************************************************)
(* RowChecks, of one row. *)
Checked(row) ==
    /\ row.attempt <= MaximumAttempts
    /\ row.started # NoTime => row.started >= row.created
    /\ row.completed # NoTime => row.started # NoTime /\ row.completed >= row.started
    /\ \/ /\ row.status \in {"absent", "pending"}
          /\ row.completed = NoTime /\ row.owner = NoOwner
          /\ row.acquired = NoTime /\ row.expires = NoTime
       \/ /\ row.status = "running"
          /\ row.started # NoTime /\ row.completed = NoTime
          /\ row.owner # NoOwner /\ row.acquired # NoTime
          /\ row.expires > row.acquired
       \/ /\ row.status \in {"succeeded", "failed"}
          /\ row.completed # NoTime /\ row.owner = NoOwner
          /\ row.acquired = NoTime /\ row.expires = NoTime
    /\ row.status = "succeeded" => row.batch # NoPayload /\ row.error = "none"
    /\ row.status = "failed" => row.error # "none"
    /\ row.status \in {"absent", "pending", "running"}
          => row.batch = NoPayload /\ row.error = "none"

(* A run that was started before is due again, or its lease was acquired,  *)
(* no earlier than it was started.                                         *)
Ordered(row) ==
    /\ row.status = "pending" => row.started <= row.next
    /\ row.status = "running" => row.started <= row.acquired

Justified(row) ==
    row.status = "failed" => row.error = "terminal" \/ row.attempt = MaximumAttempts

Sound(row) == Checked(row) /\ Ordered(row) /\ Justified(row)

-----------------------------------------------------------------------------
(* Each way of writing a row leaves a sound one. *)

LEMMA TimeIsInt == \A t \in Time : t \in Int /\ t >= NoTime
BY DEF Time, NoTime

LEMMA AbsentIsSound == Sound(Absent)
BY SettingsAssumption
DEF SettingsAssumption, Sound, Checked, Ordered, Justified, Absent, NoTime

LEMMA NewRowIsSound ==
    ASSUME NEW due \in Nat, NEW created \in Nat
    PROVE  Sound(NewRow(due, created))
BY SettingsAssumption
DEF SettingsAssumption, Sound, Checked, Ordered, Justified, NewRow, Absent, NoTime

LEMMA ClaimedIsSound ==
    ASSUME NEW row \in Row, Sound(row), row.status = "pending",
           NEW s \in Snapshot, s.attempt < MaximumAttempts,
           NEW owner \in Owner, NEW c \in Nat,
           row.started = NoTime => row.created <= c,
           row.started <= c
    PROVE  /\ Sound(ClaimedRow(row, s, owner, c))
           /\ ClaimedRow(row, s, owner, c).started <= c
<1> DEFINE new == ClaimedRow(row, s, owner, c)
<1>1. /\ new.status = "running" /\ new.attempt = s.attempt + 1 /\ new.owner = owner
      /\ new.acquired = c /\ new.expires = c + LeaseSeconds
      /\ new.started = IF row.started = NoTime THEN c ELSE row.started
      /\ new.created = row.created /\ new.completed = row.completed
      /\ new.batch = row.batch /\ new.error = row.error
  BY DEF ClaimedRow, Row
<1>2. /\ owner # NoOwner /\ LeaseSeconds \in Nat \ {0} /\ MaximumAttempts \in Nat
      /\ s.attempt \in Nat
  BY NullAssumption, SettingsAssumption DEF NullAssumption, SettingsAssumption, Snapshot
<1>3. row.started \in Int /\ row.created \in Int
  BY TimeIsInt DEF Row
<1> HIDE DEF new
<1>4. new.started <= c /\ new.started # NoTime /\ new.started >= new.created
  BY <1>1, <1>3 DEF Sound, Checked, NoTime
<1>5. new.completed = NoTime /\ new.batch = NoPayload /\ new.error = "none"
  BY <1>1 DEF Sound, Checked
<1>6. Checked(new)
  BY <1>1, <1>2, <1>4, <1>5 DEF Checked, NoTime
<1> QED
  BY <1>1, <1>4, <1>6 DEF Sound, Ordered, Justified, new

LEMMA RenewedIsSound ==
    ASSUME NEW row \in Row, Sound(row), row.status = "running",
           NEW c \in Nat, row.started <= c
    PROVE  Sound(RenewedRow(row, c)) /\ RenewedRow(row, c).started = row.started
<1> DEFINE new == RenewedRow(row, c)
<1>1. /\ new.status = "running" /\ new.attempt = row.attempt /\ new.owner = row.owner
      /\ new.acquired = c /\ new.expires = c + LeaseSeconds
      /\ new.started = row.started /\ new.created = row.created
      /\ new.completed = row.completed /\ new.batch = row.batch /\ new.error = row.error
  BY DEF RenewedRow, Row
<1>2. LeaseSeconds \in Nat \ {0}
  BY SettingsAssumption DEF SettingsAssumption
<1> HIDE DEF new
<1>3. Checked(new)
  BY <1>1, <1>2 DEF Sound, Checked, NoTime
<1> QED
  BY <1>1, <1>3 DEF Sound, Ordered, Justified, new

LEMMA RetriedIsSound ==
    ASSUME NEW row \in Row, Sound(row), row.status = "running",
           NEW c \in Nat, NEW delay \in Nat, row.started <= c
    PROVE  Sound(RetriedRow(row, c, delay))
<1> DEFINE new == RetriedRow(row, c, delay)
<1>1. /\ new.status = "pending" /\ new.attempt = row.attempt /\ new.owner = NoOwner
      /\ new.acquired = NoTime /\ new.expires = NoTime /\ new.next = c + delay
      /\ new.started = row.started /\ new.created = row.created
      /\ new.completed = row.completed /\ new.batch = row.batch /\ new.error = "none"
  BY DEF RetriedRow, Row
<1>2. row.started \in Int
  BY TimeIsInt DEF Row
<1> HIDE DEF new
<1>3. Checked(new)
  BY <1>1 DEF Sound, Checked
<1> QED
  BY <1>1, <1>2, <1>3 DEF Sound, Ordered, Justified, new

LEMMA FailedIsSound ==
    ASSUME NEW row \in Row, Sound(row), row.status = "running",
           NEW c \in Nat, row.started <= c, NEW error \in Error \ {"none"},
           error = "terminal" \/ row.attempt = MaximumAttempts
    PROVE  Sound(FailedRow(row, c, error))
<1> DEFINE new == FailedRow(row, c, error)
<1>1. /\ new.status = "failed" /\ new.attempt = row.attempt /\ new.owner = NoOwner
      /\ new.acquired = NoTime /\ new.expires = NoTime /\ new.completed = c
      /\ new.started = row.started /\ new.created = row.created /\ new.error = error
  BY DEF FailedRow, Row
<1> HIDE DEF new
<1>2. Checked(new)
  BY <1>1 DEF Sound, Checked, NoTime
<1> QED
  BY <1>1, <1>2 DEF Sound, Ordered, Justified, new

LEMMA SucceededIsSound ==
    ASSUME NEW row \in Row, Sound(row), row.status = "running",
           NEW c \in Nat, row.started <= c, NEW batch \in Payload
    PROVE  Sound(SucceededRow(row, c, batch))
<1> DEFINE new == SucceededRow(row, c, batch)
<1>1. /\ new.status = "succeeded" /\ new.attempt = row.attempt /\ new.owner = NoOwner
      /\ new.acquired = NoTime /\ new.expires = NoTime /\ new.completed = c
      /\ new.started = row.started /\ new.created = row.created
      /\ new.batch = batch /\ new.error = "none"
  BY DEF SucceededRow, Row
<1>2. batch # NoPayload
  BY NullAssumption DEF NullAssumption
<1> HIDE DEF new
<1>3. Checked(new)
  BY <1>1, <1>2 DEF Sound, Checked, NoTime
<1> QED
  BY <1>1, <1>3 DEF Sound, Ordered, Justified, new

-----------------------------------------------------------------------------
(* What a process remembers of the rows it selected or holds. *)

QueueWhen(w) == pc[w] \notin Executing \cup {"dispatch"} => queue[w] = {}

(* Ids occur once, among the selected rows and among the claimed ones. *)
Unique(w) ==
    /\ \A s, u \in picked[w] : s.id = u.id => s = u
    /\ \A t, u \in queue[w] : t.id = u.id => t = u

(* A selected row that was not claimed since is as it was, pending and due. *)
StillDue(w) ==
    pc[w] = "claiming" =>
      \A s \in picked[w] : run[s.id].gen = s.gen
                             => run[s.id].status = "pending" /\ run[s.id].next <= cur[w]

(* A process began its cycle no earlier than a run it holds was started. *)
HoldsSince(w) ==
    \A t \in queue[w] : run[t.id].status = "running" /\ run[t.id].gen = t.gen
                          => run[t.id].started <= cur[w]

FailsFor(w) == pc[w] = "failing" => failure[w] \in {"retryable", "terminal"}

Place(w) == QueueWhen(w) /\ Unique(w) /\ StillDue(w) /\ HoldsSince(w) /\ FailsFor(w)

RowInv ==
    /\ IInv
    /\ \A r \in Run : Sound(run[r])
    /\ \A w \in Process : Place(w)

-----------------------------------------------------------------------------
(* How a step writes a row, and when. *)

MayEnd(r, c) == run[r].status = "running" /\ c \in Nat /\ run[r].started <= c

WritesNew(r) ==
    run[r].status = "absent" /\ \E due, created \in Nat : run'[r] = NewRow(due, created)

WritesClaim(r, w) ==
    /\ ClaimCommit(w)
    /\ \E s \in Winning(w) :
         s.id = r /\ run'[r] = ClaimedRow(run[r], s, WorkerId[w], cur[w])

WritesRenewal(r) == \E c : MayEnd(r, c) /\ run'[r] = RenewedRow(run[r], c)

WritesRetry(r) ==
    \E c, delay : MayEnd(r, c) /\ delay \in Nat /\ run'[r] = RetriedRow(run[r], c, delay)

WritesFailure(r) ==
    \E c, error : /\ MayEnd(r, c)
                  /\ error \in Error \ {"none"}
                  /\ error = "terminal" \/ run[r].attempt = MaximumAttempts
                  /\ run'[r] = FailedRow(run[r], c, error)

WritesSuccess(r) ==
    \E c, batch : MayEnd(r, c) /\ batch \in Payload /\ run'[r] = SucceededRow(run[r], c, batch)

Writes(r) ==
    \/ run'[r] = run[r]
    \/ WritesNew(r) \/ WritesRenewal(r) \/ WritesRetry(r) \/ WritesFailure(r) \/ WritesSuccess(r)
    \/ \E w \in Process : WritesClaim(r, w)

(* A process that finds its lease live reads a clock that is past the      *)
(* moment its run was started.                                             *)
LEMMA HolderFacts ==
    ASSUME RowInv, NEW w \in Process, active[w] \in queue[w], NEW c \in ClockReading(w),
           FencedRunning(w, active[w].id, active[w].gen, c)
    PROVE  /\ active[w] \in Token /\ active[w].id \in Run
           /\ MayEnd(active[w].id, c)
<1>1. TypeOK /\ HoldsSince(w)
  BY DEF RowInv, IInv, Place
<1>2. active[w] \in Token /\ active[w].id \in Run
  BY <1>1 DEF TypeOK, Token
<1>3. c \in Nat /\ cur[w] <= c /\ cur[w] \in Nat
  BY <1>1, ReadingFacts DEF TypeOK
<1>4. run[active[w].id].started \in Int
  BY <1>1, <1>2, TimeIsInt DEF TypeOK, Row
<1> QED
  BY <1>1, <1>2, <1>3, <1>4 DEF FencedRunning, HoldsSince, MayEnd

LEMMA RecoverWrites ==
    ASSUME RowInv, NEW w \in Process, RecoverCommit(w), NEW r \in Run
    PROVE  Writes(r)
<1>1. TypeOK /\ Bookkeeping /\ Sound(run[r])
  BY DEF RowInv, IInv
<1>2. CASE ~\E s \in picked[w] : RecoverMatches(s, r, cur[w])
  BY <1>2 DEF RecoverCommit, Writes
<1>3. CASE \E s \in picked[w] : RecoverMatches(s, r, cur[w])
  <2> DEFINE s == CHOOSE s \in picked[w] : RecoverMatches(s, r, cur[w])
  <2>1. s \in picked[w] /\ RecoverMatches(s, r, cur[w])
    BY <1>3
  <2>2. run'[r] = RecoveredRow(run[r], s, cur[w])
    BY <1>3 DEF RecoverCommit
  <2> HIDE DEF s
  <2>3. /\ s \in Snapshot /\ s.attempt \in 1..MaximumAttempts /\ cur[w] \in Nat
        /\ s.attempt = run[r].attempt
    BY <1>1, <2>1 DEF RecoverCommit, TypeOK, Bookkeeping, Counted, Remembers, RecoverMatches
  <2>4. /\ run[r].status = "running" /\ run[r].expires <= cur[w]
        /\ run[r].started \in Int /\ run[r].acquired \in Int /\ run[r].expires \in Int
    BY <1>1, <2>1, TimeIsInt DEF RecoverMatches, TypeOK, Row
  <2>5. MayEnd(r, cur[w])
    BY <1>1, <2>3, <2>4 DEF MayEnd, Sound, Checked, Ordered
  <2>6. CASE s.attempt < MaximumAttempts
    <3>1. RetryDelay[s.id][s.attempt] \in Nat
      BY <2>3, SettingsAssumption DEF SettingsAssumption, Snapshot
    <3> QED
      BY <2>2, <2>5, <2>6, <3>1 DEF RecoveredRow, WritesRetry, Writes
  <2>7. CASE ~(s.attempt < MaximumAttempts)
    <3>1. run[r].attempt = MaximumAttempts /\ "lease_expired" \in Error \ {"none"}
      BY <2>3, <2>7, SettingsAssumption DEF SettingsAssumption, Error
    <3> QED
      BY <2>2, <2>5, <2>7, <3>1 DEF RecoveredRow, WritesFailure, Writes
  <2> QED
    BY <2>6, <2>7
<1> QED
  BY <1>2, <1>3

LEMMA CompleteWrites ==
    ASSUME RowInv, NEW w \in Process, Complete(w), NEW r \in Run
    PROVE  Writes(r)
<1>1. TypeOK /\ Bookkeeping
  BY DEF RowInv, IInv
<1>2. active[w] \in queue[w] /\ active[w] \in Token /\ answer[w] \in Payload
  BY <1>1 DEF Complete, TypeOK, Bookkeeping, Remembers, Executing
<1>3. PICK c \in ClockReading(w) :
        run' = IF FencedRunning(w, active[w].id, active[w].gen, c)
               THEN [run EXCEPT ![active[w].id] = SucceededRow(@, c, answer[w])]
               ELSE run
  BY DEF Complete
<1>4. CASE FencedRunning(w, active[w].id, active[w].gen, c) /\ active[w].id = r
  <2>1. MayEnd(r, c)
    BY <1>2, <1>4, HolderFacts
  <2>2. run'[r] = SucceededRow(run[r], c, answer[w])
    BY <1>1, <1>3, <1>4 DEF TypeOK
  <2> QED
    BY <1>2, <2>1, <2>2 DEF WritesSuccess, Writes
<1>5. CASE ~(FencedRunning(w, active[w].id, active[w].gen, c) /\ active[w].id = r)
  BY <1>1, <1>2, <1>3, <1>5 DEF TypeOK, Writes
<1> QED
  BY <1>4, <1>5

LEMMA FailureWrites ==
    ASSUME RowInv, NEW w \in Process, HandleFailure(w), NEW r \in Run
    PROVE  Writes(r)
<1> DEFINE t == active[w]
           row == run[t.id]
           retries == failure[w] = "retryable" /\ row.attempt < MaximumAttempts
<1>1. TypeOK /\ Bookkeeping
  BY DEF RowInv, IInv
<1>2. /\ t \in queue[w] /\ t \in Token /\ t.id \in Run
      /\ failure[w] \in {"retryable", "terminal"}
  BY <1>1 DEF HandleFailure, TypeOK, Executing, Token, RowInv, Place, FailsFor
<1>3. PICK c \in ClockReading(w) :
        run' = IF ~FencedRunning(w, t.id, t.gen, c) THEN run
               ELSE [run EXCEPT ![t.id] =
                       IF retries THEN RetriedRow(row, c, RetryDelay[t.id][row.attempt])
                       ELSE FailedRow(row, c, failure[w])]
  BY DEF HandleFailure
<1>4. CASE FencedRunning(w, t.id, t.gen, c) /\ t.id = r
  <2>1. MayEnd(r, c)
    BY <1>2, <1>4, HolderFacts
  <2>2. run[r].attempt \in 1..MaximumAttempts
    BY <1>1, <1>4, SettingsAssumption
    DEF SettingsAssumption, FencedRunning, Bookkeeping, Counted, TypeOK, Row
  <2>3. CASE retries
    <3>1. RetryDelay[r][run[r].attempt] \in Nat
      BY <2>2, SettingsAssumption DEF SettingsAssumption
    <3>2. run'[r] = RetriedRow(run[r], c, RetryDelay[r][run[r].attempt])
      BY <1>1, <1>3, <1>4, <2>3 DEF TypeOK
    <3> QED
      BY <2>1, <3>1, <3>2 DEF WritesRetry, Writes
  <2>4. CASE ~retries
    <3>1. run'[r] = FailedRow(run[r], c, failure[w])
      BY <1>1, <1>3, <1>4, <2>4 DEF TypeOK
    <3>2. /\ failure[w] \in Error \ {"none"}
          /\ failure[w] = "terminal" \/ run[r].attempt = MaximumAttempts
      BY <1>2, <1>4, <2>2, <2>4, SettingsAssumption DEF SettingsAssumption, Error
    <3> QED
      BY <2>1, <3>1, <3>2 DEF WritesFailure, Writes
  <2> QED
    BY <2>3, <2>4
<1>5. CASE ~(FencedRunning(w, t.id, t.gen, c) /\ t.id = r)
  BY <1>1, <1>2, <1>3, <1>5 DEF TypeOK, Writes
<1> QED
  BY <1>4, <1>5

LEMMA RenewWrites ==
    ASSUME RowInv, NEW w \in Process, Renew(w), NEW r \in Run
    PROVE  Writes(r)
<1>1. TypeOK /\ active[w] \in queue[w] /\ active[w] \in Token
  BY DEF RowInv, IInv, Renew, TypeOK, Executing
<1>2. PICK c \in ClockReading(w) :
        run' = IF FencedRunning(w, active[w].id, active[w].gen, c)
               THEN [run EXCEPT ![active[w].id] = RenewedRow(@, c)]
               ELSE run
  BY DEF Renew
<1>3. CASE FencedRunning(w, active[w].id, active[w].gen, c) /\ active[w].id = r
  <2>1. MayEnd(r, c)
    BY <1>1, <1>3, HolderFacts
  <2>2. run'[r] = RenewedRow(run[r], c)
    BY <1>1, <1>2, <1>3 DEF TypeOK
  <2> QED
    BY <2>1, <2>2 DEF WritesRenewal, Writes
<1>4. CASE ~(FencedRunning(w, active[w].id, active[w].gen, c) /\ active[w].id = r)
  BY <1>1, <1>2, <1>4 DEF TypeOK, Writes
<1> QED
  BY <1>3, <1>4

LEMMA ClaimWrites ==
    ASSUME RowInv, NEW w \in Process, ClaimCommit(w), NEW r \in Run
    PROVE  Writes(r)
<1>1. CASE \E s \in Winning(w) : s.id = r
  <2> DEFINE s == CHOOSE s \in Winning(w) : s.id = r
  <2>1. s \in Winning(w) /\ s.id = r
    BY <1>1
  <2>2. run'[r] = ClaimedRow(run[r], s, WorkerId[w], cur[w])
    BY <1>1 DEF ClaimCommit
  <2> HIDE DEF s
  <2> QED
    BY <2>1, <2>2 DEF WritesClaim, Writes
<1>2. CASE ~\E s \in Winning(w) : s.id = r
  BY <1>2 DEF ClaimCommit, Writes
<1> QED
  BY <1>1, <1>2

LEMMA InsertWrites ==
    ASSUME RowInv, (\E q \in Run : RunNow(q)) \/ (\E w \in Process : Materialize(w)),
           NEW r \in Run
    PROVE  Writes(r)
<1>1. TypeOK
  BY DEF RowInv, IInv
<1>2. ASSUME NEW q \in Run, RunNow(q) PROVE Writes(r)
  <2>1. PICK t \in {c \in 0..now : now - c <= ClockLag} :
               run' = [run EXCEPT ![q] = NewRow(t, t)]
    BY <1>2 DEF RunNow
  <2>2. t \in Nat
    BY <1>1 DEF TypeOK
  <2> QED
    BY <1>1, <1>2, <2>1, <2>2 DEF RunNow, TypeOK, WritesNew, Writes
<1>3. ASSUME NEW w \in Process, Materialize(w) PROVE Writes(r)
  <2>1. PICK S \in SUBSET {q \in Run : run[q].status = "absent"},
             due \in [Run -> {d \in 0..cur[w] : cur[w] - d <= DueLag}] :
          run' = [q \in Run |-> IF q \in S THEN NewRow(due[q], cur[w]) ELSE run[q]]
    BY <1>3 DEF Materialize
  <2>2. due[r] \in Nat /\ cur[w] \in Nat
    BY <1>1 DEF TypeOK
  <2> QED
    BY <2>1, <2>2 DEF WritesNew, Writes
<1> QED
  BY <1>2, <1>3

LEMMA EveryStepWrites ==
    ASSUME RowInv, [Next]_vars, NEW r \in Run
    PROVE  Writes(r)
<1> USE DEF table, local, bounds
<1>1. ASSUME UNCHANGED run PROVE Writes(r)
  BY <1>1 DEF Writes
<1>2. ASSUME NEW w \in Process,
              \/ BeginCycle(w) \/ RecoverSelect(w) \/ ClaimSelect(w) \/ ClaimRollback(w)
              \/ StartRun(w) \/ SkipRun(w) \/ EndCycle(w)
              \/ Fetch(w) \/ Lookup(w) \/ Write(w)
              \/ HeartbeatDies(w) \/ Crash(w) \/ Restart(w)
       PROVE  UNCHANGED run
  BY <1>2
  DEF BeginCycle, RecoverSelect, ClaimSelect, ClaimRollback, StartRun, SkipRun,
      EndCycle, Fetch, Lookup, Write, HeartbeatDies, Crash, Restart
<1>3. ASSUME NEW w \in Process,
              \/ FetchFails(w) \/ LookupConflicts(w) \/ WriteLosesRace(w)
              \/ WriteFails(w) \/ CompleteFails(w)
       PROVE  UNCHANGED run
  BY <1>3
  DEF FetchFails, LookupConflicts, WriteLosesRace, WriteFails, CompleteFails, Raise
<1>4. ASSUME Tick \/ UNCHANGED vars PROVE UNCHANGED run
  BY <1>4 DEF Tick, vars
<1> QED
  BY <1>1, <1>2, <1>3, <1>4, RecoverWrites, CompleteWrites, FailureWrites, RenewWrites,
     ClaimWrites, InsertWrites
  DEF Next, Step, Cycle, Execute, Environment

-----------------------------------------------------------------------------
(* A claim that wins is made at a clock reading past the row's start.      *)
LEMMA WinnerFacts ==
    ASSUME RowInv, NEW w \in Process, ClaimCommit(w), NEW s \in Winning(w)
    PROVE  /\ s \in Snapshot /\ s.id \in Run /\ cur[w] \in Nat
           /\ s.attempt < MaximumAttempts
           /\ run[s.id].status = "pending" /\ run[s.id].gen = s.gen
           /\ run[s.id].started <= cur[w]
           /\ run[s.id].started = NoTime => run[s.id].created <= cur[w]
<1>1. TypeOK /\ Bookkeeping
  BY DEF RowInv, IInv
<1>2. /\ s \in picked[w] /\ s \in Snapshot /\ s.id \in Run /\ cur[w] \in Nat
      /\ run[s.id].status = "pending" /\ run[s.id].gen = s.gen
  BY <1>1, WinningFacts DEF TypeOK, Snapshot
<1>3. s.attempt < MaximumAttempts
  BY <1>1, <1>2 DEF ClaimCommit, Bookkeeping, Remembers
<1>4. run[s.id].started \in Int /\ run[s.id].next \in Int /\ run[s.id].created \in Int
  BY <1>1, <1>2, TimeIsInt DEF TypeOK, Row
<1>5. run[s.id].started <= run[s.id].next /\ run[s.id].next <= cur[w]
  BY <1>2 DEF RowInv, Sound, Ordered, Place, StillDue, ClaimCommit
<1>6. run[s.id].started = NoTime => run[s.id].created <= cur[w]
  BY <1>2, <1>4 DEF ClaimCommit, ClaimRejected
<1> QED
  BY <1>2, <1>3, <1>4, <1>5, <1>6

LEMMA SoundStep ==
    ASSUME RowInv, [Next]_vars, NEW r \in Run
    PROVE  Sound(run'[r])
<1>1. run[r] \in Row /\ Sound(run[r])
  BY DEF RowInv, IInv, TypeOK
<1>2. CASE WritesNew(r)
  BY <1>2, NewRowIsSound DEF WritesNew
<1>3. CASE WritesRenewal(r)
  BY <1>1, <1>3, RenewedIsSound DEF WritesRenewal, MayEnd
<1>4. CASE WritesRetry(r)
  BY <1>1, <1>4, RetriedIsSound DEF WritesRetry, MayEnd
<1>5. CASE WritesFailure(r)
  BY <1>1, <1>5, FailedIsSound DEF WritesFailure, MayEnd
<1>6. CASE WritesSuccess(r)
  BY <1>1, <1>6, SucceededIsSound DEF WritesSuccess, MayEnd
<1>7. ASSUME NEW w \in Process, WritesClaim(r, w) PROVE Sound(run'[r])
  <2>1. PICK s \in Winning(w) : s.id = r /\ run'[r] = ClaimedRow(run[r], s, WorkerId[w], cur[w])
    BY <1>7 DEF WritesClaim
  <2>2. WorkerId[w] \in Owner
    BY DEF Owner
  <2> QED
    BY <1>1, <1>7, <2>1, <2>2, WinnerFacts, ClaimedIsSound DEF WritesClaim
<1> QED
  BY <1>1, <1>2, <1>3, <1>4, <1>5, <1>6, <1>7, EveryStepWrites DEF Writes

(* A row that is given a generation was pending, and an old generation of  *)
(* a row never comes back.                                                 *)
LEMMA GenerationFacts ==
    ASSUME RowInv, [Next]_vars, NEW r \in Run
    PROVE  /\ run[r].gen \in Nat /\ run'[r].gen \in Nat
           /\ run[r].gen <= run'[r].gen
           /\ run'[r].gen = run[r].gen =>
                /\ run[r].status = "pending" => run'[r] = run[r]
                /\ run'[r].status = "running"
                     => run[r].status = "running" /\ run'[r].started = run[r].started
<1>1. TypeOK /\ Bookkeeping /\ TypeOK'
  BY TypeStep DEF RowInv, IInv
<1>2. run[r] \in Row /\ run[r].gen \in Nat /\ run'[r].gen \in Nat
  BY <1>1 DEF TypeOK, Row
<1>3. run[r].gen <= run'[r].gen
  BY <1>1, CountedStep
<1>4. CASE WritesNew(r)
  BY <1>2, <1>3, <1>4, NewRowFacts DEF WritesNew
<1>5. CASE WritesRenewal(r)
  <2>1. PICK c : MayEnd(r, c) /\ run'[r] = RenewedRow(run[r], c)
    BY <1>5 DEF WritesRenewal
  <2>2. RenewedRow(run[r], c).started = run[r].started
    BY <1>2, <2>1, RenewedIsSound DEF RowInv, MayEnd
  <2> QED
    BY <1>2, <1>3, <2>1, <2>2 DEF MayEnd
<1>6. CASE WritesRetry(r)
  <2>1. PICK c, delay : /\ MayEnd(r, c) /\ delay \in Nat
                        /\ run'[r] = RetriedRow(run[r], c, delay)
    BY <1>6 DEF WritesRetry
  <2>2. RetriedRow(run[r], c, delay).status = "pending"
    BY <1>2, <2>1, RetriedRowFacts DEF MayEnd
  <2> QED
    BY <1>2, <1>3, <2>1, <2>2 DEF MayEnd
<1>7. CASE WritesFailure(r)
  BY <1>2, <1>7, FailedRowFacts DEF WritesFailure, MayEnd
<1>8. CASE WritesSuccess(r)
  BY <1>2, <1>8, SucceededRowFacts DEF WritesSuccess, MayEnd
<1>9. ASSUME NEW w \in Process, WritesClaim(r, w) PROVE run'[r].gen # run[r].gen
  <2>1. PICK s \in Winning(w) : s.id = r /\ run'[r] = ClaimedRow(run[r], s, WorkerId[w], cur[w])
    BY <1>9 DEF WritesClaim
  <2>2. WorkerId[w] \in Owner
    BY DEF Owner
  <2>3. s \in Snapshot /\ cur[w] \in Nat /\ run[r].gen = s.gen
    BY <1>9, <2>1, WinnerFacts DEF WritesClaim
  <2>4. run'[r].gen = s.gen + 1
    BY <1>2, <2>1, <2>2, <2>3, ClaimedRowFacts
  <2> QED
    BY <1>2, <2>3, <2>4
<1> QED
  BY <1>2, <1>3, <1>4, <1>5, <1>6, <1>7, <1>8, <1>9, EveryStepWrites DEF Writes

-----------------------------------------------------------------------------
(* What a process remembers stays true, one part after the other. *)

LEMMA QueueWhenStep ==
    ASSUME RowInv, [Next]_vars, NEW w \in Process
    PROVE  QueueWhen(w)'
<1> USE DEF table, local, bounds
<1>1. TypeOK /\ QueueWhen(w)
  BY DEF RowInv, IInv, Place
<1>2. CASE Stays(w)
  BY <1>1, <1>2 DEF Stays, QueueWhen
<1>3. CASE Cycle(w)
  BY <1>1, <1>3
  DEF Cycle, BeginCycle, RecoverSelect, RecoverCommit, Materialize, ClaimSelect,
      ClaimCommit, ClaimRollback, StartRun, SkipRun, EndCycle, TypeOK, QueueWhen, Executing
<1>4. CASE Execute(w)
  BY <1>1, <1>4
  DEF Execute, Fetch, FetchFails, Lookup, LookupConflicts, Write, WriteLosesRace,
      WriteFails, Complete, CompleteFails, HandleFailure, Raise, FinishRun, TypeOK,
      QueueWhen, Executing
<1>5. CASE Restart(w) \/ Crash(w)
  BY <1>1, <1>5 DEF Restart, Crash, TypeOK, QueueWhen, Executing
<1> QED
  BY <1>1, <1>2, <1>3, <1>4, <1>5, StepOrStays DEF Step

LEMMA FailsForStep ==
    ASSUME RowInv, [Next]_vars, NEW w \in Process
    PROVE  FailsFor(w)'
<1> USE DEF table, local, bounds
<1>1. TypeOK /\ FailsFor(w)
  BY DEF RowInv, IInv, Place
<1>2. ASSUME NEW v \in Process, Cycle(v) \/ Restart(v) \/ Environment(v) PROVE FailsFor(w)'
  BY <1>1, <1>2
  DEF Cycle, BeginCycle, RecoverSelect, RecoverCommit, Materialize, ClaimSelect,
      ClaimCommit, ClaimRollback, StartRun, SkipRun, EndCycle, Restart,
      Environment, Renew, HeartbeatDies, Crash, TypeOK, FailsFor
<1>3. ASSUME NEW v \in Process, Execute(v) PROVE FailsFor(w)'
  BY <1>1, <1>3
  DEF Execute, Fetch, FetchFails, Lookup, LookupConflicts, Write, WriteLosesRace,
      WriteFails, Complete, CompleteFails, HandleFailure, Raise, FinishRun, TypeOK, FailsFor
<1>4. CASE Tick \/ (\E r \in Run : RunNow(r)) \/ UNCHANGED vars
  BY <1>1, <1>4 DEF Tick, RunNow, vars, FailsFor
<1> QED
  BY <1>2, <1>3, <1>4 DEF Next, Step

(* What a selection or a claim puts in place of what was there. *)
LEMMA SelectFacts ==
    ASSUME TypeOK, NEW w \in Process, RecoverSelect(w) \/ ClaimSelect(w)
    PROVE  \E S \in SUBSET Run :
             /\ picked'[w] = Snapshots(S)
             /\ ClaimSelect(w) => S \subseteq Eligible(cur[w])
<1>1. CASE RecoverSelect(w)
  <2> DEFINE free == {r \in Expired(cur[w]) : ~Locked(r, w)}
             S == FirstOf(free, ExpiresBefore, ClaimLimit)
  <2>1. free \subseteq Run
    BY DEF Expired
  <2>2. S \subseteq Run
    BY <2>1, ExpiredFacts
  <2>3. picked'[w] = Snapshots(S) /\ ~ClaimSelect(w)
    BY <1>1 DEF RecoverSelect, ClaimSelect, TypeOK
  <2> HIDE DEF S
  <2> QED
    BY <2>2, <2>3
<1>2. CASE ClaimSelect(w)
  <2> DEFINE free == {r \in Eligible(cur[w]) : ~Locked(r, w)}
             S == FirstOf(free, DueBefore, EffectiveLimit)
  <2>1. free \subseteq Run /\ free \subseteq Eligible(cur[w])
    BY DEF Eligible
  <2>2. S \subseteq free
    BY <2>1, FirstDueFacts
  <2>3. picked'[w] = Snapshots(S)
    BY <1>2 DEF ClaimSelect, TypeOK
  <2> HIDE DEF S, free
  <2> QED
    BY <2>1, <2>2, <2>3
<1> QED
  BY <1>1, <1>2

LEMMA PickedStep ==
    ASSUME TypeOK, [Next]_vars, NEW w \in Process
    PROVE  \/ picked'[w] = picked[w]
           \/ picked'[w] = {}
           \/ RecoverSelect(w) \/ ClaimSelect(w)
<1> USE DEF table, local, bounds
<1>1. CASE Stays(w)
  BY <1>1 DEF Stays
<1>2. CASE Cycle(w)
  BY <1>2
  DEF Cycle, BeginCycle, RecoverSelect, RecoverCommit, Materialize, ClaimSelect,
      ClaimCommit, ClaimRollback, StartRun, SkipRun, EndCycle, TypeOK
<1>3. CASE Execute(w)
  BY <1>3
  DEF Execute, Fetch, FetchFails, Lookup, LookupConflicts, Write, WriteLosesRace,
      WriteFails, Complete, CompleteFails, HandleFailure, Raise, FinishRun, TypeOK
<1>4. CASE Restart(w) \/ Crash(w)
  BY <1>4 DEF Restart, Crash, TypeOK
<1> QED
  BY <1>1, <1>2, <1>3, <1>4, StepOrStays DEF Step

LEMMA UniqueStep ==
    ASSUME RowInv, [Next]_vars, NEW w \in Process
    PROVE  Unique(w)'
<1>1. TypeOK /\ Unique(w)
  BY DEF RowInv, IInv, Place
<1>2. \A s, u \in picked'[w] : s.id = u.id => s = u
  <2>1. CASE RecoverSelect(w) \/ ClaimSelect(w)
    BY <1>1, <2>1, SelectFacts DEF Snapshots
  <2> QED
    BY <1>1, <2>1, PickedStep DEF Unique
<1>3. \A t, u \in queue'[w] : t.id = u.id => t = u
  <2>1. CASE ClaimCommit(w)
    <3>1. queue'[w] = {[id |-> s.id, gen |-> s.gen + 1, due |-> s.next] : s \in Winning(w)}
      BY <1>1, <2>1 DEF ClaimCommit, TypeOK
    <3>2. Winning(w) \subseteq picked[w]
      BY <1>1, WinningFacts
    <3> QED
      BY <1>1, <3>1, <3>2 DEF Unique
  <2>2. CASE ~ClaimCommit(w)
    <3>1. queue'[w] \subseteq queue[w]
      BY <2>2, NewTokens DEF RowInv
    <3> QED
      BY <1>1, <3>1 DEF Unique
  <2> QED
    BY <2>1, <2>2
<1> QED
  BY <1>2, <1>3 DEF Unique

(* A process is about to claim what it has just selected, or still is.     *)
LEMMA ClaimingStep ==
    ASSUME TypeOK, [Next]_vars, NEW w \in Process, pc'[w] = "claiming"
    PROVE  ClaimSelect(w) \/ Stays(w)
<1> USE DEF table, local, bounds
<1>1. CASE Cycle(w)
  BY <1>1
  DEF Cycle, BeginCycle, RecoverSelect, RecoverCommit, Materialize, ClaimSelect,
      ClaimCommit, ClaimRollback, StartRun, SkipRun, EndCycle, TypeOK, Stays
<1>2. CASE Execute(w)
  BY <1>2
  DEF Execute, Fetch, FetchFails, Lookup, LookupConflicts, Write, WriteLosesRace,
      WriteFails, Complete, CompleteFails, HandleFailure, Raise, FinishRun, TypeOK
<1>3. CASE Restart(w) \/ Crash(w)
  BY <1>3 DEF Restart, Crash, TypeOK
<1> QED
  BY <1>1, <1>2, <1>3, StepOrStays DEF Step

LEMMA StillDueStep ==
    ASSUME RowInv, [Next]_vars, NEW w \in Process
    PROVE  StillDue(w)'
<1>1. TypeOK /\ Bookkeeping /\ StillDue(w)
  BY DEF RowInv, IInv, Place
<1> SUFFICES ASSUME pc'[w] = "claiming", NEW s \in picked'[w], run'[s.id].gen = s.gen
             PROVE  run'[s.id].status = "pending" /\ run'[s.id].next <= cur'[w]
  BY DEF StillDue
<1>2. CASE ClaimSelect(w)
  <2>1. PICK S \in SUBSET Run : picked'[w] = Snapshots(S) /\ S \subseteq Eligible(cur[w])
    BY <1>1, <1>2, SelectFacts
  <2>2. s.id \in Eligible(cur[w]) /\ s.id \in Run
    BY <1>1, <2>1, SnapshotFacts
  <2>3. run' = run /\ cur' = cur /\ cur[w] \in Nat
    BY <1>1, <1>2 DEF ClaimSelect, table, TypeOK
  <2> QED
    BY <2>2, <2>3 DEF Eligible, NoTime
<1>3. CASE Stays(w)
  <2>1. pc[w] = "claiming" /\ s \in picked[w] /\ cur'[w] = cur[w]
    BY <1>3 DEF Stays
  <2>2. s.id \in Run /\ s.gen \in Nat /\ s.gen <= run[s.id].gen
    BY <1>1, <2>1 DEF TypeOK, Snapshot, Bookkeeping, Remembers
  <2>3. run[s.id].gen = s.gen
    BY <2>2, GenerationFacts
  <2>4. run[s.id].status = "pending" /\ run[s.id].next <= cur[w]
    BY <1>1, <2>1, <2>3 DEF StillDue
  <2>5. run'[s.id] = run[s.id]
    BY <2>2, <2>3, <2>4, GenerationFacts
  <2> QED
    BY <2>1, <2>4, <2>5
<1> QED
  BY <1>1, <1>2, <1>3, ClaimingStep

(* A process reads the clock anew only when it holds nothing. *)
LEMMA CurStep ==
    ASSUME RowInv, [Next]_vars, NEW w \in Process
    PROVE  cur'[w] = cur[w] \/ queue'[w] = {}
<1> USE DEF table, local, bounds
<1>1. TypeOK /\ QueueWhen(w)
  BY DEF RowInv, IInv, Place
<1>2. CASE Stays(w)
  BY <1>2 DEF Stays
<1>3. CASE BeginCycle(w) \/ EndCycle(w) \/ Crash(w)
  BY <1>1, <1>3 DEF BeginCycle, EndCycle, Crash, QueueWhen, TypeOK, Executing
<1>4. CASE \/ RecoverSelect(w) \/ RecoverCommit(w) \/ Materialize(w) \/ ClaimSelect(w)
           \/ ClaimCommit(w) \/ ClaimRollback(w) \/ StartRun(w) \/ SkipRun(w) \/ Restart(w)
  BY <1>4
  DEF RecoverSelect, RecoverCommit, Materialize, ClaimSelect, ClaimCommit, ClaimRollback,
      StartRun, SkipRun, Restart
<1>5. CASE Execute(w)
  BY <1>5
  DEF Execute, Fetch, FetchFails, Lookup, LookupConflicts, Write, WriteLosesRace,
      WriteFails, Complete, CompleteFails, HandleFailure, Raise, FinishRun
<1> QED
  BY <1>1, <1>2, <1>3, <1>4, <1>5, StepOrStays DEF Step, Cycle

LEMMA HoldsSinceStep ==
    ASSUME RowInv, [Next]_vars, NEW w \in Process
    PROVE  HoldsSince(w)'
<1>1. TypeOK /\ Bookkeeping /\ HoldsSince(w)
  BY DEF RowInv, IInv, Place
<1> SUFFICES ASSUME NEW t \in queue'[w],
                    run'[t.id].status = "running", run'[t.id].gen = t.gen
             PROVE  run'[t.id].started <= cur'[w]
  BY DEF HoldsSince
<1>2. cur'[w] = cur[w]
  BY CurStep
<1>3. CASE t \in queue[w]
  <2>1. t.id \in Run /\ t.gen \in Nat /\ t.gen <= run[t.id].gen
    BY <1>1, <1>3 DEF TypeOK, Token, Bookkeeping, Remembers
  <2>2. run[t.id].gen = t.gen
    BY <2>1, GenerationFacts
  <2>3. run[t.id].status = "running" /\ run'[t.id].started = run[t.id].started
    BY <2>1, <2>2, GenerationFacts
  <2> QED
    BY <1>1, <1>2, <1>3, <2>2, <2>3 DEF HoldsSince
<1>4. CASE t \notin queue[w]
  <2>1. ClaimCommit(w)
    BY <1>4, NewTokens DEF RowInv
  <2>2. PICK s \in Winning(w) : t = [id |-> s.id, gen |-> s.gen + 1, due |-> s.next]
    BY <1>1, <2>1 DEF ClaimCommit, TypeOK
  <2>3. /\ s \in Snapshot /\ s.id \in Run /\ cur[w] \in Nat
        /\ run[s.id].status = "pending"
        /\ run[s.id].started <= cur[w]
        /\ run[s.id].started = NoTime => run[s.id].created <= cur[w]
        /\ s.attempt < MaximumAttempts
    BY <2>1, WinnerFacts
  <2>4. PICK u \in Winning(w) :
          u.id = s.id /\ run'[s.id] = ClaimedRow(run[s.id], u, WorkerId[w], cur[w])
    <3> DEFINE u == CHOOSE u \in Winning(w) : u.id = s.id
    <3>1. u \in Winning(w) /\ u.id = s.id
      OBVIOUS
    <3>2. run'[s.id] = ClaimedRow(run[s.id], u, WorkerId[w], cur[w])
      BY <2>1, <2>3 DEF ClaimCommit
    <3> HIDE DEF u
    <3> QED
      BY <3>1, <3>2
  <2>5. /\ u \in Snapshot /\ u.attempt < MaximumAttempts /\ WorkerId[w] \in Owner
        /\ run[s.id] \in Row /\ Sound(run[s.id])
    BY <1>1, <2>1, <2>3, WinnerFacts DEF Owner, TypeOK, RowInv
  <2>6. ClaimedRow(run[s.id], u, WorkerId[w], cur[w]).started <= cur[w]
    BY <2>3, <2>5, ClaimedIsSound
  <2> QED
    BY <1>2, <2>2, <2>4, <2>6
<1> QED
  BY <1>3, <1>4

-----------------------------------------------------------------------------
LEMMA RowInvInit == Init => RowInv
<1> SUFFICES ASSUME Init PROVE RowInv
  OBVIOUS
<1>1. \A r \in Run : Sound(run[r])
  BY AbsentIsSound DEF Init
<1>2. \A w \in Process : Place(w)
  BY DEF Init, Place, QueueWhen, Unique, StillDue, HoldsSince, FailsFor
<1> QED
  BY <1>1, <1>2, IInvInit DEF RowInv

LEMMA RowInvStep == RowInv /\ [Next]_vars => RowInv'
<1> SUFFICES ASSUME RowInv, [Next]_vars PROVE RowInv'
  OBVIOUS
<1>1. IInv'
  BY IInvStep DEF RowInv
<1>2. \A r \in Run : Sound(run[r])'
  BY SoundStep
<1>3. \A w \in Process : Place(w)'
  BY QueueWhenStep, UniqueStep, StillDueStep, HoldsSinceStep, FailsForStep DEF Place
<1> QED
  BY <1>1, <1>2, <1>3 DEF RowInv

LEMMA RowInvAlways == Spec => []RowInv
BY RowInvInit, RowInvStep, PTL DEF Spec

(* Recovery, completion, retry and renewal never trip a CHECK constraint   *)
(* of provider_sync_runs, whatever clock reading they run on.              *)
THEOREM RowChecksAlways == Spec => []RowChecks
<1>1. RowInv => RowChecks
  BY DEF RowInv, Sound, Checked, RowChecks
<1> QED
  BY <1>1, RowInvAlways, PTL

(* A run fails for a terminal error, or when its attempts are used up. *)
THEOREM FailureAlways == Spec => []FailureIsJustified
<1>1. RowInv => FailureIsJustified
  BY DEF RowInv, Sound, Justified, FailureIsJustified
<1> QED
  BY <1>1, RowInvAlways, PTL

(* Of two processes that execute runs of one provider series, one at most  *)
(* still has its lease.                                                    *)
THEOREM OverlapAlways == Spec => []OverlapOnlyAfterExpiry
<1>1. IInv /\ OneRunningPerKey /\ GenerationHeldOnce => OverlapOnlyAfterExpiry
  <2> SUFFICES ASSUME IInv, OneRunningPerKey, GenerationHeldOnce,
                      NEW v \in Process, NEW w \in Process, v # w,
                      pc[v] \in Executing, pc[w] \in Executing,
                      ConcurrencyKey[active[v].id] = ConcurrencyKey[active[w].id],
                      Live(active[v]), Live(active[w])
               PROVE  FALSE
    BY DEF OverlapOnlyAfterExpiry
  <2>1. /\ active[v] \in queue[v] /\ active[w] \in queue[w]
        /\ active[v].id \in Run /\ active[w].id \in Run
    BY DEF IInv, TypeOK, Token
  <2>2. active[v].id = active[w].id
    BY <2>1 DEF OneRunningPerKey, Live
  <2>3. active[v].gen = active[w].gen
    BY <2>2 DEF Live
  <2>4. /\ <<active[v].id, active[v].gen>> \in Held(v)
        /\ <<active[w].id, active[w].gen>> \in Held(w)
    BY <2>1 DEF Held
  <2>5. Held(v) \cap Held(w) = {}
    BY DEF GenerationHeldOnce
  <2>6. <<active[v].id, active[v].gen>> = <<active[w].id, active[w].gen>>
    BY <2>2, <2>3
  <2> HIDE DEF Held
  <2> QED
    BY <2>4, <2>5, <2>6
<1> QED
  BY <1>1, IInvAlways, OneRunningAlways, GenerationAlways, PTL
-----------------------------------------------------------------------------
(* The calls of the provider. *)

Begun(w, t) == pc[w] \in Executing /\ active[w] = t

(* A claim that is waiting to be executed, or was given up, has made no    *)
(* call yet.                                                               *)
CallInv ==
    /\ \A r \in Run : calls[r] <= run[r].gen
    /\ \A w \in Process : \A t \in queue[w] :
         ~Begun(w, t) /\ run[t.id].gen = t.gen => calls[t.id] < t.gen

LEMMA CallsStep ==
    ASSUME TypeOK, [Next]_vars
    PROVE  calls' = calls \/ \E w \in Process : StartRun(w)
<1> USE DEF table, local, bounds
<1>1. ASSUME NEW w \in Process, Cycle(w) \/ Restart(w) \/ Environment(w)
      PROVE  calls' = calls \/ StartRun(w)
  BY <1>1
  DEF Cycle, BeginCycle, RecoverSelect, RecoverCommit, Materialize, ClaimSelect,
      ClaimCommit, ClaimRollback, SkipRun, EndCycle, Restart,
      Environment, Renew, HeartbeatDies, Crash
<1>2. ASSUME NEW w \in Process, Execute(w) PROVE calls' = calls
  BY <1>2
  DEF Execute, Fetch, FetchFails, Lookup, LookupConflicts, Write, WriteLosesRace,
      WriteFails, Complete, CompleteFails, HandleFailure, Raise, FinishRun
<1>3. CASE Tick \/ (\E r \in Run : RunNow(r)) \/ UNCHANGED vars
  BY <1>3 DEF Tick, RunNow, vars
<1> QED
  BY <1>1, <1>2, <1>3 DEF Next, Step

(* An execution goes on until its claim leaves the queue. *)
LEMMA BegunStep ==
    ASSUME TypeOK, [Next]_vars, NEW w \in Process, NEW t \in queue'[w], Begun(w, t)
    PROVE  Begun(w, t)'
<1> USE DEF table, local, bounds
<1>1. CASE Stays(w)
  BY <1>1 DEF Stays, Begun
<1>2. CASE Cycle(w) \/ Restart(w)
  BY <1>2
  DEF Cycle, BeginCycle, RecoverSelect, RecoverCommit, Materialize, ClaimSelect,
      ClaimCommit, ClaimRollback, StartRun, SkipRun, EndCycle, Restart, Begun, Executing
<1>3. CASE Execute(w)
  BY <1>3
  DEF Execute, Fetch, FetchFails, Lookup, LookupConflicts, Write, WriteLosesRace,
      WriteFails, Complete, CompleteFails, HandleFailure, Raise, FinishRun, TypeOK,
      Begun, Executing
<1>4. CASE Crash(w)
  BY <1>4 DEF Crash, TypeOK
<1> QED
  BY <1>1, <1>2, <1>3, <1>4, StepOrStays DEF Step

LEMMA StartFacts ==
    ASSUME TypeOK, NEW w \in Process, StartRun(w)
    PROVE  /\ run' = run /\ queue' = queue /\ pc[w] \notin Executing
           /\ \A v \in Process \ {w} : \A t : Begun(v, t) => Begun(v, t)'
           /\ \E t \in queue[w] :
                /\ t.id \in Run /\ run[t.id].gen = t.gen /\ Begun(w, t)'
                /\ calls' = [calls EXCEPT ![t.id] = @ + 1]
<1>1. run' = run /\ queue' = queue /\ pc[w] \notin Executing
  BY DEF StartRun, table, Executing
<1>2. ASSUME NEW v \in Process \ {w} PROVE pc'[v] = pc[v] /\ active'[v] = active[v]
  BY DEF StartRun, TypeOK
<1>3. PICK t \in queue[w], c \in ClockReading(w) :
        /\ FencedRunning(w, t.id, t.gen, c)
        /\ active' = [active EXCEPT ![w] = t]
        /\ calls' = [calls EXCEPT ![t.id] = @ + 1]
  BY DEF StartRun
<1>4. t.id \in Run /\ active'[w] = t /\ pc'[w] = "fetch"
  BY <1>3 DEF StartRun, TypeOK, Token
<1> QED
  BY <1>1, <1>2, <1>3, <1>4 DEF FencedRunning, Begun, Executing

LEMMA CallInvStart ==
    ASSUME RowInv, GenerationHeldOnce, CallInv, NEW v \in Process, StartRun(v)
    PROVE  CallInv'
<1>1. TypeOK /\ Unique(v)
  BY DEF RowInv, IInv, Place
<1>2. PICK u \in queue[v] : /\ u.id \in Run /\ run[u.id].gen = u.gen /\ Begun(v, u)'
                            /\ calls' = [calls EXCEPT ![u.id] = @ + 1]
  BY <1>1, StartFacts
<1>3. run' = run /\ queue' = queue /\ pc[v] \notin Executing
  BY <1>1, StartFacts
<1>4. /\ \A r \in Run : calls[r] \in Nat /\ run[r].gen \in Nat
      /\ \A r \in Run : calls'[r] = IF r = u.id THEN calls[r] + 1 ELSE calls[r]
      /\ calls[u.id] < u.gen
  BY <1>1, <1>2, <1>3 DEF TypeOK, Row, CallInv, Begun
<1>5. \A r \in Run : calls'[r] <= run'[r].gen
  BY <1>2, <1>3, <1>4 DEF CallInv
<1>6. ASSUME NEW w \in Process, NEW t \in queue[w], ~Begun(w, t)', run[t.id].gen = t.gen
      PROVE  calls'[t.id] < t.gen
  <2>1. t.id \in Run
    BY <1>1 DEF TypeOK, Token
  <2>2. ~Begun(w, t)
    <3>1. CASE w = v
      BY <1>3, <3>1 DEF Begun
    <3>2. CASE w # v
      BY <1>1, <1>6, <3>2, StartFacts
    <3> QED
      BY <3>1, <3>2
  <2>3. t.id # u.id
    <3> SUFFICES ASSUME t.id = u.id PROVE FALSE
      OBVIOUS
    <3>1. <<t.id, t.gen>> \in Held(w) /\ <<u.id, u.gen>> \in Held(v)
      BY DEF Held
    <3>2. <<t.id, t.gen>> = <<u.id, u.gen>>
      BY <1>2, <1>6
    <3>3. w = v
      BY <3>1, <3>2 DEF GenerationHeldOnce
    <3>4. t = u
      BY <1>1, <3>3 DEF Unique
    <3> QED
      BY <1>2, <1>6, <3>3, <3>4
  <2> QED
    BY <1>4, <1>6, <2>1, <2>2, <2>3 DEF CallInv
<1> QED
  BY <1>3, <1>5, <1>6 DEF CallInv

LEMMA CallInvStep == RowInv /\ GenerationHeldOnce /\ CallInv /\ [Next]_vars => CallInv'
<1> SUFFICES ASSUME RowInv, GenerationHeldOnce, CallInv, [Next]_vars, calls' = calls
             PROVE  CallInv'
  BY CallInvStart, CallsStep DEF RowInv, IInv
<1>1. TypeOK /\ Bookkeeping /\ TypeOK'
  BY TypeStep DEF RowInv, IInv
<1>2. \A r \in Run : /\ calls[r] \in Nat /\ run[r].gen \in Nat /\ run'[r].gen \in Nat
                     /\ run[r].gen <= run'[r].gen
  BY <1>1, GenerationFacts DEF TypeOK
<1>3. \A r \in Run : calls'[r] <= run'[r].gen
  BY <1>2 DEF CallInv
<1>4. ASSUME NEW w \in Process, NEW t \in queue'[w], ~Begun(w, t)', run'[t.id].gen = t.gen
      PROVE  calls[t.id] < t.gen
  <2>1. t.id \in Run
    BY <1>1 DEF TypeOK, Token
  <2>2. CASE t \notin queue[w]
    <3>1. run[t.id].gen < t.gen
      BY <2>2, NewTokens DEF RowInv
    <3> QED
      BY <1>2, <1>4, <2>1, <3>1 DEF CallInv
  <2>3. CASE t \in queue[w]
    <3>1. t.gen <= run[t.id].gen
      BY <1>1, <2>3 DEF Bookkeeping, Remembers
    <3>2. run[t.id].gen = t.gen
      BY <1>2, <1>4, <2>1, <3>1
    <3>3. ~Begun(w, t)
      BY <1>1, <1>4, BegunStep
    <3> QED
      BY <2>3, <3>2, <3>3 DEF CallInv
  <2> QED
    BY <2>2, <2>3
<1> QED
  BY <1>3, <1>4 DEF CallInv

(* The provider is called at most once for a claim, hence no more often    *)
(* than a run may be attempted, over all crashes and lost leases.          *)
THEOREM CallsAlways == Spec => []CallsWithinAttempts
<1>1. Init => CallInv
  BY DEF Init, CallInv, Absent
<1>2. RowInv /\ CallInv => CallsWithinAttempts
  <2> SUFFICES ASSUME RowInv, CallInv, NEW r \in Run
               PROVE  calls[r] <= run[r].attempt /\ calls[r] <= MaximumAttempts
    BY DEF CallsWithinAttempts
  <2>1. calls[r] \in Nat /\ run[r].attempt \in Nat /\ MaximumAttempts \in Nat
    BY SettingsAssumption DEF SettingsAssumption, RowInv, IInv, TypeOK, Row
  <2> QED
    BY <2>1 DEF RowInv, IInv, Bookkeeping, Counted, CallInv
<1> QED
  BY <1>1, <1>2, CallInvStep, RowInvAlways, GenerationAlways, PTL DEF Spec

-----------------------------------------------------------------------------
(***************************************************************************)
(* RunLease implements RunLifecycle: every step of a worker, a heartbeat,  *)
(* a client or the clock is a step of the life cycle of some runs, or      *)
(* changes nothing that the life cycle shows.                              *)
(*                                                                         *)
(* Besides the inductive invariant it takes that one run of a provider     *)
(* series is running, and that what a process holds was claimed.           *)
(***************************************************************************)

(* The generation of a claim is at least one. *)
Numbered == \A w \in Process : \A t \in queue[w] : t.gen > 0

LEMMA NumberedStep == IInv /\ Numbered /\ [Next]_vars => Numbered'
<1> SUFFICES ASSUME IInv, Numbered, [Next]_vars, NEW w \in Process, NEW t \in queue'[w]
             PROVE  t.gen > 0
  BY DEF Numbered
<1>1. CASE t \in queue[w]
  BY <1>1 DEF Numbered
<1>2. CASE t \notin queue[w]
  <2>1. TypeOK /\ TypeOK'
    BY TypeStep DEF IInv
  <2>2. t.id \in Run /\ t.gen \in Nat /\ run[t.id].gen < t.gen
    BY <1>2, <2>1, NewTokens DEF TypeOK, Token
  <2>3. run[t.id].gen \in Nat
    BY <2>1, <2>2 DEF TypeOK, Row
  <2> QED
    BY <2>2, <2>3
<1> QED
  BY <1>1, <1>2

LEMMA NumberedAlways == Spec => []Numbered
<1>1. Init => Numbered
  BY DEF Init, Numbered
<1> QED
  BY <1>1, NumberedStep, IInvAlways, PTL DEF Spec

-----------------------------------------------------------------------------
(* The steps of the life cycle, in terms of the rows. *)

Keeps(r) == run'[r].status = run[r].status /\ run'[r].attempt = run[r].attempt

Hidden == (\A r \in Run : Keeps(r)) /\ imported' = imported

LEMMA HiddenStutters == ASSUME Hidden PROVE UNCHANGED Lifecycle!vars
BY DEF Hidden, Keeps, Lifecycle!vars

LEMMA SubmitMaps ==
    ASSUME NEW S \in SUBSET Run, imported' = imported,
           \A r \in Run \ S : Keeps(r),
           \A r \in S : /\ run[r].status = "absent" /\ run'[r].status = "pending"
                        /\ run'[r].attempt = run[r].attempt
    PROVE  Lifecycle!Next
BY DEF Lifecycle!Next, Lifecycle!Submit, Keeps

LEMMA BeginMaps ==
    ASSUME NEW S \in SUBSET Run, imported' = imported,
           \A r \in Run \ S : Keeps(r),
           \A r \in S : /\ run[r].status = "pending" /\ run'[r].status = "running"
                        /\ run[r].attempt < MaximumAttempts
                        /\ run'[r].attempt = run[r].attempt + 1,
           \A r \in S, q \in Run :
             r # q /\ ConcurrencyKey[r] = ConcurrencyKey[q]
               => q \notin S /\ run[q].status # "running"
    PROVE  Lifecycle!Next
BY DEF Lifecycle!Next, Lifecycle!Begin, Lifecycle!SameKey, Keeps

LEMMA GiveUpMaps ==
    ASSUME NEW S \in SUBSET Run, imported' = imported,
           \A r \in Run \ S : Keeps(r),
           \A r \in S : /\ run[r].status = "running"
                        /\ run'[r].attempt = run[r].attempt
                        /\ run'[r].status \in {"pending", "failed"}
                        /\ run'[r].status = "pending" => run[r].attempt < MaximumAttempts
    PROVE  Lifecycle!Next
<1> DEFINE F == {r \in S : run'[r].status = "failed"}
<1>1. F \in SUBSET S
  OBVIOUS
<1>2. /\ \A r \in S \ F : run[r].attempt < MaximumAttempts
      /\ \A r \in Run : run'[r].status = IF r \in F THEN "failed"
                                         ELSE IF r \in S THEN "pending" ELSE run[r].status
      /\ \A r \in Run : run'[r].attempt = run[r].attempt
  BY DEF Keeps
<1> HIDE DEF F
<1> QED
  BY <1>1, <1>2 DEF Lifecycle!Next, Lifecycle!GiveUp

LEMMA SucceedMaps ==
    ASSUME NEW r \in Run, imported' = imported, \A q \in Run \ {r} : Keeps(q),
           run[r].status = "running", imported[r] # NoPayload,
           run'[r].status = "succeeded", run'[r].attempt = run[r].attempt
    PROVE  Lifecycle!Next
BY DEF Lifecycle!Next, Lifecycle!Succeed, Keeps

-----------------------------------------------------------------------------
(* One lemma for each action that the life cycle shows. *)

LEMMA InsertRefines ==
    ASSUME IInv, [Next]_vars,
           (\E q \in Run : RunNow(q)) \/ (\E w \in Process : Materialize(w))
    PROVE  Lifecycle!Next
<1> DEFINE S == {r \in Run : Inserted(r)}
<1>1. imported' = imported /\ \A w \in Process : pc'[w] = "claim" \/ pc'[w] = pc[w]
  BY DEF RunNow, Materialize, local, IInv, TypeOK
<1>2. ASSUME NEW r \in Run PROVE Inserted(r) \/ run'[r] = run[r]
  <2>1. ASSUME NEW q \in Run, RunNow(q) PROVE run[r].status = "absent" \/ run'[r] = run[r]
    BY <2>1 DEF RunNow, IInv, TypeOK
  <2>2. ASSUME NEW w \in Process, Materialize(w)
        PROVE  run[r].status = "absent" \/ run'[r] = run[r]
    BY <2>2 DEF Materialize
  <2>3. RowStep(r)
    BY RowSteps DEF IInv
  <2> QED
    BY <2>1, <2>2, <2>3, ClaimedFacts
    DEF RowStep, Renewed, Recovered, Finished, IInv
<1>3. \A r \in S : run[r].attempt = 0
  BY DEF IInv, Bookkeeping, Counted, Inserted
<1> QED
  BY <1>1, <1>2, <1>3, SubmitMaps DEF Inserted, Keeps

LEMMA ClaimRefines ==
    ASSUME IInv, [Next]_vars, NEW w \in Process, ClaimCommit(w)
    PROVE  Lifecycle!Next
<1> DEFINE S == {r \in Run : \E s \in Winning(w) : s.id = r}
<1> USE DEF IInv
<1>1. imported' = imported
  BY DEF ClaimCommit
<1>2. \A r \in Run \ S : Keeps(r)
  BY DEF ClaimCommit, Keeps
<1>3. ASSUME NEW r \in S
      PROVE  /\ run[r].status = "pending" /\ run'[r].status = "running"
             /\ run[r].attempt < MaximumAttempts
             /\ run'[r].attempt = run[r].attempt + 1
  <2> DEFINE s == CHOOSE s \in Winning(w) : s.id = r
  <2>1. s \in Winning(w) /\ s.id = r
    OBVIOUS
  <2>2. run'[r] = ClaimedRow(run[r], s, WorkerId[w], cur[w])
    BY DEF ClaimCommit
  <2> HIDE DEF s
  <2>3. /\ s \in Snapshot /\ s \in picked[w] /\ run[r].status = "pending"
        /\ run[r].gen = s.gen /\ WorkerId[w] \in Owner /\ cur[w] \in Nat
        /\ run[r] \in Row
    BY <2>1, WinningFacts DEF TypeOK, Owner
  <2>4. s.gen = s.attempt /\ s.attempt < MaximumAttempts /\ run[r].gen = run[r].attempt
    BY <2>3 DEF ClaimCommit, Bookkeeping, Remembers, Counted
  <2>5. run'[r].status = "running" /\ run'[r].attempt = s.attempt + 1
    BY <2>2, <2>3, ClaimedRowFacts
  <2> QED
    BY <2>3, <2>4, <2>5
<1>4. ASSUME NEW r \in S, NEW q \in Run, r # q, ConcurrencyKey[r] = ConcurrencyKey[q]
      PROVE  q \notin S /\ run[q].status # "running"
  <2>1. run[q].status # "running"
    BY <1>4 DEF ClaimCommit, ClaimRejected
  <2>2. q \notin S
    BY <1>4, WinnersDiffer
  <2> QED
    BY <2>1, <2>2
<1> QED
  BY <1>1, <1>2, <1>3, <1>4, BeginMaps

LEMMA RecoverRefines ==
    ASSUME IInv, NEW w \in Process, RecoverCommit(w)
    PROVE  Lifecycle!Next
<1> DEFINE S == {r \in Run : \E s \in picked[w] : RecoverMatches(s, r, cur[w])}
<1> USE DEF IInv
<1>1. imported' = imported /\ pc[w] = "recovering" /\ cur[w] \in Nat
  BY DEF RecoverCommit, TypeOK
<1>2. \A r \in Run \ S : Keeps(r)
  BY DEF RecoverCommit, Keeps
<1>3. ASSUME NEW r \in S
      PROVE  /\ run[r].status = "running"
             /\ run'[r].attempt = run[r].attempt
             /\ run'[r].status \in {"pending", "failed"}
             /\ run'[r].status = "pending" => run[r].attempt < MaximumAttempts
  <2> DEFINE s == CHOOSE s \in picked[w] : RecoverMatches(s, r, cur[w])
  <2>1. s \in picked[w] /\ RecoverMatches(s, r, cur[w])
    OBVIOUS
  <2>2. run'[r] = RecoveredRow(run[r], s, cur[w])
    BY DEF RecoverCommit
  <2> HIDE DEF s
  <2>3. /\ run[r] \in Row /\ s \in Snapshot /\ s.attempt \in 1..MaximumAttempts
        /\ run[r].status = "running" /\ s.attempt = run[r].attempt
    BY <1>1, <2>1 DEF TypeOK, RecoverMatches, Bookkeeping, Counted, Remembers
  <2> DEFINE new == RecoveredRow(run[r], s, cur[w])
  <2>4. /\ new.status \in {"pending", "failed"}
        /\ new.attempt = run[r].attempt
        /\ new.status = "pending" => s.attempt < MaximumAttempts
    BY <1>1, <2>3, RecoveredRowFacts
  <2>5. run'[r] = new
    BY <2>2
  <2> HIDE DEF new
  <2> QED
    BY <2>3, <2>4, <2>5
<1> QED
  BY <1>1, <1>2, <1>3, GiveUpMaps

LEMMA CompleteRefines ==
    ASSUME IInv, NEW w \in Process, Complete(w)
    PROVE  Lifecycle!Next \/ Hidden
<1> DEFINE t == active[w]
<1> USE DEF IInv
<1>1. /\ imported' = imported /\ t \in queue[w] /\ t.id \in Run
      /\ answer[w] \in Payload /\ imported[t.id] = answer[w]
  BY DEF Complete, FinishRun, TypeOK, Token, Executing, Bookkeeping, Remembers
<1>2. PICK c \in ClockReading(w) :
        run' = IF FencedRunning(w, t.id, t.gen, c)
               THEN [run EXCEPT ![t.id] = SucceededRow(@, c, answer[w])]
               ELSE run
  BY DEF Complete
<1>3. CASE FencedRunning(w, t.id, t.gen, c)
  <2>1. run[t.id] \in Row /\ run[t.id].status = "running" /\ c \in Nat
    BY <1>1, <1>3, ReadingFacts DEF FencedRunning, TypeOK
  <2>2. run'[t.id] = SucceededRow(run[t.id], c, answer[w]) /\ \A q \in Run \ {t.id} : Keeps(q)
    BY <1>1, <1>2, <1>3 DEF TypeOK, Keeps
  <2>3. run'[t.id].status = "succeeded" /\ run'[t.id].attempt = run[t.id].attempt
    BY <1>1, <2>1, <2>2, SucceededRowFacts
  <2>4. imported[t.id] # NoPayload
    BY <1>1, NullAssumption DEF NullAssumption
  <2> QED
    BY <1>1, <2>1, <2>2, <2>3, <2>4, SucceedMaps
<1>4. CASE ~FencedRunning(w, t.id, t.gen, c)
  BY <1>1, <1>2, <1>4 DEF Hidden, Keeps
<1> QED
  BY <1>3, <1>4

LEMMA FailureRefines ==
    ASSUME IInv, NEW w \in Process, HandleFailure(w)
    PROVE  Lifecycle!Next \/ Hidden
<1> DEFINE t == active[w]
           row == run[t.id]
           retries == failure[w] = "retryable" /\ row.attempt < MaximumAttempts
<1> USE DEF IInv
<1>1. imported' = imported /\ t \in queue[w] /\ t.id \in Run /\ failure[w] \in Error
  BY DEF HandleFailure, FinishRun, TypeOK, Token, Executing
<1>2. PICK c \in ClockReading(w) :
        run' = IF ~FencedRunning(w, t.id, t.gen, c) THEN run
               ELSE [run EXCEPT ![t.id] =
                       IF retries THEN RetriedRow(row, c, RetryDelay[t.id][row.attempt])
                       ELSE FailedRow(row, c, failure[w])]
  BY DEF HandleFailure
<1>3. CASE FencedRunning(w, t.id, t.gen, c)
  <2>1. row \in Row /\ row.status = "running" /\ c \in Nat
    BY <1>1, <1>3, ReadingFacts DEF FencedRunning, TypeOK
  <2>2. /\ run'[t.id] = IF retries THEN RetriedRow(row, c, RetryDelay[t.id][row.attempt])
                        ELSE FailedRow(row, c, failure[w])
        /\ \A q \in Run \ {t.id} : Keeps(q)
    BY <1>1, <1>2, <1>3 DEF TypeOK, Keeps
  <2>3. row.attempt \in 1..MaximumAttempts /\ RetryDelay[t.id][row.attempt] \in Nat
    BY <1>1, <2>1, SettingsAssumption DEF SettingsAssumption, Bookkeeping, Counted, Row
  <2>4. /\ run'[t.id].attempt = row.attempt
        /\ run'[t.id].status \in {"pending", "failed"}
        /\ run'[t.id].status = "pending" => row.attempt < MaximumAttempts
    <3>1. CASE retries
      <4> DEFINE new == RetriedRow(row, c, RetryDelay[t.id][row.attempt])
      <4>1. new.attempt = row.attempt /\ new.status = "pending"
        BY <2>1, <2>3, RetriedRowFacts
      <4>2. run'[t.id] = new
        BY <2>2, <3>1
      <4> HIDE DEF new
      <4> QED
        BY <3>1, <4>1, <4>2
    <3>2. CASE ~retries
      <4> DEFINE new == FailedRow(row, c, failure[w])
      <4>1. new.attempt = row.attempt /\ new.status = "failed"
        BY <1>1, <2>1, FailedRowFacts
      <4>2. run'[t.id] = new
        BY <2>2, <3>2
      <4> HIDE DEF new
      <4> QED
        BY <4>1, <4>2
    <3> QED
      BY <3>1, <3>2
  <2>5. {t.id} \in SUBSET Run
    BY <1>1
  <2> QED
    BY <1>1, <2>1, <2>2, <2>4, <2>5, GiveUpMaps
<1>4. CASE ~FencedRunning(w, t.id, t.gen, c)
  BY <1>1, <1>2, <1>4 DEF Hidden, Keeps
<1> QED
  BY <1>3, <1>4

LEMMA WriteRefines ==
    ASSUME IInv, Numbered, NEW w \in Process, Write(w)
    PROVE  Lifecycle!Next
<1> DEFINE r == active[w].id
<1> USE DEF IInv
<1>1. /\ active[w] \in queue[w] /\ active[w] \in Token /\ r \in Run
      /\ answer[w] \in Payload
  BY DEF Write, TypeOK, Token, Executing, Bookkeeping, Remembers
<1>2. run[r].attempt > 0
  <2>1. active[w].gen > 0 /\ active[w].gen <= run[r].gen /\ run[r].gen = run[r].attempt
    BY <1>1 DEF Numbered, Bookkeeping, Remembers, Counted
  <2>2. active[w].gen \in Nat /\ run[r].gen \in Nat
    BY <1>1 DEF Token, TypeOK, Row
  <2> QED
    BY <2>1, <2>2
<1>3. answer[w] # NoPayload
  BY <1>1, NullAssumption DEF NullAssumption
<1>4. /\ run' = run /\ imported[r] = NoPayload
      /\ imported' = [imported EXCEPT ![r] = answer[w]]
  BY DEF Write
<1>5. \A q \in Run : imported'[q] = IF q = r THEN answer[w] ELSE imported[q]
  BY <1>4 DEF TypeOK
<1> HIDE DEF r
<1> DEFINE there == [q \in Run |-> imported[q] # NoPayload]
<1>6. [q \in Run |-> imported'[q] # NoPayload] = [there EXCEPT ![r] = TRUE]
  <2>1. \A q \in Run : (imported'[q] # NoPayload) = IF q = r THEN TRUE ELSE there[q]
    BY <1>3, <1>5
  <2>2. [there EXCEPT ![r] = TRUE] = [q \in Run |-> IF q = r THEN TRUE ELSE there[q]]
    BY <1>1
  <2> HIDE DEF there
  <2> QED
    BY <2>1, <2>2
<1>7. there[r] = FALSE
  BY <1>1, <1>4
<1> QED
  BY <1>1, <1>2, <1>4, <1>6, <1>7 DEF Lifecycle!Next, Lifecycle!Import

LEMMA RenewIsHidden ==
    ASSUME IInv, NEW w \in Process, Renew(w)
    PROVE  Hidden
<1> USE DEF IInv
<1>1. active[w] \in Token /\ active[w].id \in Run
  BY DEF Renew, TypeOK, Token, Executing
<1>2. PICK c \in ClockReading(w) :
        run' = run \/ run' = [run EXCEPT ![active[w].id] = RenewedRow(@, c)]
  BY DEF Renew
<1>3. ASSUME NEW r \in Run PROVE Keeps(r)
  <2>1. run[r] \in Row /\ c \in Nat
    BY ReadingFacts DEF TypeOK
  <2>2. run'[r] = run[r] \/ run'[r] = RenewedRow(run[r], c)
    BY <1>1, <1>2 DEF TypeOK
  <2> QED
    BY <2>1, <2>2, RenewedRowFacts DEF Keeps
<1> QED
  BY <1>3 DEF Renew, Hidden

LEMMA OthersAreHidden ==
    ASSUME IInv, [Next]_vars
    PROVE  \/ Hidden
           \/ \E r \in Run : RunNow(r)
           \/ \E w \in Process :
                \/ RecoverCommit(w) \/ Materialize(w) \/ ClaimCommit(w)
                \/ Write(w) \/ Complete(w) \/ HandleFailure(w)
<1> USE DEF table, local, bounds
<1>1. ASSUME run' = run, imported' = imported PROVE Hidden
  BY <1>1 DEF Hidden, Keeps
<1>2. ASSUME NEW w \in Process,
             \/ BeginCycle(w) \/ RecoverSelect(w) \/ ClaimSelect(w) \/ ClaimRollback(w)
             \/ StartRun(w) \/ SkipRun(w) \/ EndCycle(w)
             \/ Fetch(w) \/ FetchFails(w) \/ Lookup(w) \/ LookupConflicts(w)
             \/ WriteLosesRace(w) \/ WriteFails(w) \/ CompleteFails(w)
             \/ Restart(w) \/ HeartbeatDies(w) \/ Crash(w)
      PROVE  Hidden
  BY <1>1, <1>2
  DEF BeginCycle, RecoverSelect, ClaimSelect, ClaimRollback, StartRun, SkipRun, EndCycle,
      Fetch, FetchFails, Lookup, LookupConflicts, WriteLosesRace, WriteFails,
      CompleteFails, Raise, Restart, HeartbeatDies, Crash
<1>3. CASE Tick \/ UNCHANGED vars
  BY <1>1, <1>3 DEF Tick, vars
<1> QED
  BY <1>2, <1>3, RenewIsHidden DEF Next, Step, Cycle, Execute, Environment

-----------------------------------------------------------------------------
LEMMA LifecycleStep == IInv /\ Numbered /\ [Next]_vars => [Lifecycle!Next]_(Lifecycle!vars)
BY OthersAreHidden, InsertRefines, RecoverRefines, ClaimRefines, WriteRefines,
   CompleteRefines, FailureRefines, HiddenStutters

(* No interleaving of recoveries, claims, renewals, late completions, late *)
(* imports and crashes shows anything but the life cycle of runs: submit,  *)
(* begin, give up, import once, succeed with the data imported.            *)
THEOREM LifecycleImplemented == Spec => ImplementsLifecycle
<1>1. ASSUME Init PROVE Lifecycle!Init
  <2>1. \A r \in Run : run[r].status = "absent" /\ run[r].attempt = 0
    BY <1>1 DEF Init, Absent
  <2>2. \A r \in Run : (imported[r] # NoPayload) = FALSE
    BY <1>1 DEF Init
  <2>3. [r \in Run |-> imported[r] # NoPayload] = [r \in Run |-> FALSE]
    BY <2>2
  <2> QED
    BY <2>1, <2>3 DEF Lifecycle!Init
<1> QED
  BY <1>1, LifecycleStep, IInvAlways, NumberedAlways, PTL
  DEF Spec, ImplementsLifecycle, Lifecycle!Spec
==============================================================================
