------------------------- MODULE ScheduleTable_proofs -------------------------
(***************************************************************************)
(* For any number of schedules, clients, workers and versions, any cadence *)
(* and either database: the table is well typed, an idempotency key makes  *)
(* one run, and occurrences are materialized in order, from the row as it  *)
(* is, at the moments that the cadence prescribes.                         *)
(*                                                                         *)
(* What the proofs rest on is Known: a version names one row, so that a    *)
(* change that still finds the version it loaded was computed from the row *)
(* as it is.  For the order of the occurrences, a request that read the    *)
(* clock before an occurrence was materialized has an outdated version.    *)
(***************************************************************************)
EXTENDS ScheduleTable, TLAPS

-----------------------------------------------------------------------------
(***************************************************************************)
(* For every length of a day, every cadence and every moment: what the     *)
(* functions on cadences return.  Occurrences are an arithmetic            *)
(* progression; the proofs compare multiples of its step.                  *)
(***************************************************************************)

LEMMA Division ==
    ASSUME NEW a \in Int, NEW d \in Nat \ {0}
    PROVE  /\ a \div d \in Int
           /\ a % d \in 0..(d - 1)
           /\ a = (a \div d) * d + (a % d)
OBVIOUS

(* A product grows with its factor. *)
LEMMA Products ==
    ASSUME NEW j \in Int, NEW k \in Int, NEW d \in Nat \ {0}, j <= k
    PROVE  j * d <= k * d
<1>1. (k - j) * d >= 0
  OBVIOUS
<1>2. (k - j) * d = k * d - j * d
  OBVIOUS
<1> QED
  BY <1>1, <1>2

LEMMA NextProduct ==
    ASSUME NEW k \in Int, NEW d \in Nat \ {0}
    PROVE  (k + 1) * d = k * d + d
OBVIOUS

(* Quotient and rest are unique. *)
LEMMA Rest ==
    ASSUME NEW k \in Int, NEW d \in Nat \ {0}, NEW r \in 0..(d - 1)
    PROVE  (k * d + r) % d = r
<1> DEFINE a == k * d + r
           q == a \div d
<1>1. a \in Int /\ q \in Int /\ a % d \in 0..(d - 1) /\ a = q * d + (a % d)
  BY Division
<1>2. ~(q < k)
  <2> SUFFICES ASSUME q + 1 <= k PROVE FALSE
    BY <1>1
  <2>1. q * d + d <= k * d
    BY Products, NextProduct, <1>1
  <2> QED
    BY <1>1, <2>1
<1>3. ~(k < q)
  <2> SUFFICES ASSUME k + 1 <= q PROVE FALSE
    BY <1>1
  <2>1. k * d + d <= q * d
    BY Products, NextProduct, <1>1
  <2> QED
    BY <1>1, <2>1
<1>4. q = k
  BY <1>1, <1>2, <1>3
<1> QED
  BY <1>1, <1>4

(* Of the numbers with one rest, those after the k-th are past the next.   *)
LEMMA Spacing ==
    ASSUME NEW a \in Int, NEW k \in Int, NEW d \in Nat \ {0}
    PROVE  /\ a > k * d + (a % d) => a >= k * d + d + (a % d)
           /\ a < k * d + (a % d) => a <= k * d - d + (a % d)
<1> DEFINE q == a \div d
<1>1. q \in Int /\ a % d \in 0..(d - 1) /\ a = q * d + (a % d)
  BY Division
<1>2. ASSUME a > k * d + (a % d) PROVE a >= k * d + d + (a % d)
  <2>1. ~(q <= k)
    BY <1>1, <1>2, Products
  <2>2. (k + 1) * d <= q * d
    BY <1>1, <2>1, Products
  <2> QED
    BY <1>1, <2>2, NextProduct
<1>3. ASSUME a < k * d + (a % d) PROVE a <= k * d - d + (a % d)
  <2>1. ~(k <= q)
    BY <1>1, <1>3, Products
  <2>2. (q + 1) * d <= k * d
    BY <1>1, <2>1, Products
  <2> QED
    BY <1>1, <2>2, NextProduct
<1> QED
  BY <1>2, <1>3

-----------------------------------------------------------------------------
LEMMA CadenceKinds ==
    ASSUME NEW cadence \in Cadences
    PROVE  \/ cadence.type = "fixed_interval" /\ cadence.minutes \in Nat \ {0}
           \/ cadence.type = "daily_utc" /\ cadence.minutes \in 0..(Day - 1)
BY DEF Cadences

(* Today's occurrence is the one of the day that holds `current`.          *)
LEMMA TodayFacts ==
    ASSUME NEW cadence \in Cadences, cadence.type = "daily_utc", NEW current \in Nat
    PROVE  /\ Today(cadence, current) \in Nat
           /\ Today(cadence, current) = (current \div Day) * Day + cadence.minutes
           /\ Today(cadence, current) % Day = cadence.minutes
           /\ (current \div Day) * Day <= current
           /\ current < (current \div Day) * Day + Day
<1> DEFINE q == current \div Day
<1>1. Day \in Nat \ {0} /\ cadence.minutes \in 0..(Day - 1)
  BY DayAssumption, CadenceKinds DEF DayAssumption
<1>2. q \in Int /\ current % Day \in 0..(Day - 1) /\ current = q * Day + (current % Day)
  BY <1>1, Division
<1>3. q >= 0
  BY <1>1
<1>4. q * Day \in Nat
  BY <1>1, <1>2, <1>3
<1>5. Today(cadence, current) = q * Day + cadence.minutes
  BY <1>1, <1>2 DEF Today
<1>6. (q * Day + cadence.minutes) % Day = cadence.minutes
  BY <1>1, <1>2, Rest
<1> QED
  BY <1>1, <1>2, <1>4, <1>5, <1>6

(* NextDaily is the first occurrence after `current`.                      *)
LEMMA NextDailyIsFirst ==
    ASSUME NEW cadence \in Cadences, cadence.type = "daily_utc", NEW current \in Nat
    PROVE  /\ NextDaily(cadence, current) \in Nat
           /\ NextDaily(cadence, current) > current
           /\ NextDaily(cadence, current) % Day = cadence.minutes
           /\ \A u \in (current + 1)..(NextDaily(cadence, current) - 1) :
                u % Day # cadence.minutes
<1> DEFINE q == current \div Day
           m == cadence.minutes
           n == NextDaily(cadence, current)
<1>1. Day \in Nat \ {0} /\ m \in 0..(Day - 1)
  BY DayAssumption, CadenceKinds DEF DayAssumption
<1>2. /\ Today(cadence, current) = q * Day + m /\ Today(cadence, current) % Day = m
      /\ q * Day <= current /\ current < q * Day + Day
      /\ Today(cadence, current) \in Nat
  BY TodayFacts
<1>3. q \in Int /\ q * Day \in Int
  BY <1>1, Division
<1>4. CASE Today(cadence, current) > current
  <2>1. n = q * Day + m
    BY <1>2, <1>4 DEF NextDaily
  <2>2. ASSUME NEW u \in (current + 1)..(n - 1), u % Day = m PROVE FALSE
    <3>1. u \in Int /\ u < q * Day + (u % Day)
      BY <1>2, <1>3, <2>1, <2>2
    <3>2. u <= q * Day - Day + (u % Day)
      BY <1>1, <1>3, <3>1, Spacing
    <3> QED
      BY <1>1, <1>2, <1>3, <2>1, <2>2, <3>2
  <2> QED
    BY <1>2, <1>4, <2>1, <2>2
<1>5. CASE ~(Today(cadence, current) > current)
  <2>1. n = q * Day + m + Day
    BY <1>2, <1>5 DEF NextDaily
  <2>2. ASSUME NEW u \in (current + 1)..(n - 1), u % Day = m PROVE FALSE
    <3>1. u \in Int /\ u > q * Day + (u % Day)
      BY <1>2, <1>3, <1>5, <2>1, <2>2
    <3>2. u >= q * Day + Day + (u % Day)
      BY <1>1, <1>3, <3>1, Spacing
    <3> QED
      BY <1>1, <1>2, <1>3, <2>1, <2>2, <3>2
  <2>3. n = (q + 1) * Day + m
    BY <1>1, <1>3, <2>1, NextProduct
  <2>4. n % Day = m
    BY <1>1, <1>3, <2>3, Rest
  <2>5. n \in Nat /\ n > current
    BY <1>1, <1>2, <1>3, <1>5, <2>1
  <2> HIDE DEF n, m
  <2>6. \A u \in (current + 1)..(n - 1) : u % Day # m
    BY <2>2
  <2> QED
    BY <2>4, <2>5, <2>6 DEF n, m
<1> QED
  BY <1>4, <1>5

(* CalculateInitialNextRunAt is a moment after `current`.                  *)
LEMMA InitialIsLater ==
    ASSUME NEW cadence \in Cadences, NEW current \in Nat
    PROVE  /\ CalculateInitialNextRunAt(cadence, current) \in Nat
           /\ CalculateInitialNextRunAt(cadence, current) > current
<1>1. CASE cadence.type = "fixed_interval"
  BY <1>1, CadenceKinds DEF CalculateInitialNextRunAt
<1>2. CASE cadence.type = "daily_utc"
  BY <1>2, NextDailyIsFirst DEF CalculateInitialNextRunAt
<1> QED
  BY <1>1, <1>2, CadenceKinds

-----------------------------------------------------------------------------
(* A fixed interval: the last step up to `current`, and the first after it. *)
LEMMA IntervalFacts ==
    ASSUME NEW cadence \in Cadences, cadence.type = "fixed_interval",
           NEW first \in Nat, NEW current \in Nat, first <= current
    PROVE  LET due == CalculateLatestDueOccurrence(cadence, first, current)
               following == CalculateNextFutureOccurrence(cadence, due, current)
           IN  /\ due \in first..current
               /\ following \in Nat
               /\ IsLatestUpTo(cadence, first, current, due)
               /\ IsFirstAfter(cadence, first, current, following)
<1> DEFINE m == cadence.minutes
           due == CalculateLatestDueOccurrence(cadence, first, current)
           following == CalculateNextFutureOccurrence(cadence, due, current)
<1> DEFINE past == current - first
           k == past \div m
<1>0. m \in Nat \ {0} /\ past \in Nat /\ due = first + k * m
  BY CadenceKinds DEF CalculateLatestDueOccurrence
<1>1. k \in Int /\ past % m \in 0..(m - 1) /\ past = k * m + (past % m)
  <2> HIDE DEF past, m, due
  <2> QED
    BY <1>0, Division
<1>2. k >= 0
  <2> HIDE DEF past, m, due
  <2> QED
    BY <1>0
<1> HIDE DEF m, due, k
<1>3. k * m \in Nat
  BY <1>0, <1>1, <1>2
<1>4. current < due + m /\ due \in first..current /\ due - first = k * m + 0
  BY <1>0, <1>1, <1>3
<1>5. (due - first) % m = 0
  BY <1>0, <1>1, <1>4, Rest
<1>6. following = due + m
  <2>1. current - due \in 0..(m - 1)
    BY <1>0, <1>3, <1>4
  <2>2. (current - due) \div m = 0
    BY <1>0, <2>1
  <2>3. following = due + ((current - due) \div m + 1) * m
    BY <1>4 DEF CalculateNextFutureOccurrence, m
  <2> QED
    BY <1>0, <2>2, <2>3
<1>7. following - first = (k + 1) * m + 0
  BY <1>0, <1>1, <1>3, <1>6, NextProduct
<1>8. (following - first) % m = 0
  <2>1. k + 1 \in Int /\ 0 \in 0..(m - 1)
    BY <1>0, <1>1
  <2>2. ((k + 1) * m + 0) % m = 0
    BY <1>0, <2>1, Rest
  <2> QED
    BY <1>7, <2>2
<1>9. following \in Nat /\ following > current
  BY <1>0, <1>4, <1>6
<1> HIDE DEF following
<1>10. ASSUME NEW u \in (due + 1)..(following - 1), (u - first) % m = 0 PROVE FALSE
  <2>1. u - first \in Int /\ u - first > k * m + ((u - first) % m)
    BY <1>0, <1>3, <1>4, <1>6, <1>10
  <2>2. u - first >= k * m + m + ((u - first) % m)
    BY <1>0, <1>1, <2>1, Spacing
  <2> QED
    BY <1>0, <1>3, <1>6, <1>10, <2>2
<1>11. IsLatestUpTo(cadence, first, current, due)
  <2>1. \A u \in (due + 1)..current : ~((u - first) % m = 0)
    BY <1>4, <1>9, <1>10
  <2> QED
    BY <1>4, <1>5, <2>1 DEF IsLatestUpTo, IsOccurrence, m
<1>12. IsFirstAfter(cadence, first, current, following)
  <2>1. \A u \in (current + 1)..(following - 1) : ~((u - first) % m = 0)
    BY <1>4, <1>9, <1>10
  <2>2. IsOccurrence(cadence, first, following)
    BY <1>8, <1>9 DEF IsOccurrence, m
  <2>3. \A u \in (current + 1)..(following - 1) : ~IsOccurrence(cadence, first, u)
    BY <2>1 DEF IsOccurrence, m
  <2> QED
    BY <1>9, <2>2, <2>3 DEF IsFirstAfter
<1> QED
  BY <1>4, <1>9, <1>11, <1>12 DEF due, following

(* CoalesceDueOccurrences, for a schedule that is due: the run stands for  *)
(* a moment between the first missed occurrence and now, the latest one    *)
(* for a fixed interval, and the schedule then waits for the first         *)
(* occurrence to come.                                                     *)
THEOREM CoalescedOccurrences ==
    ASSUME NEW cadence \in Cadences, NEW first \in Nat, NEW current \in Nat,
           first <= current
    PROVE  LET c == CoalesceDueOccurrences(cadence, first, current)
           IN  /\ c.due \in first..current
               /\ c.following \in Nat
               /\ cadence.type = "fixed_interval"
                    => IsLatestUpTo(cadence, first, current, c.due)
               /\ IsFirstAfter(cadence, first, current, c.following)
<1> DEFINE due == CalculateLatestDueOccurrence(cadence, first, current)
           following == CalculateNextFutureOccurrence(cadence, due, current)
           c == CoalesceDueOccurrences(cadence, first, current)
<1>1. due \in first..current
  <2>1. CASE cadence.type = "fixed_interval"
    BY <2>1, IntervalFacts
  <2>2. CASE cadence.type = "daily_utc"
    BY <2>2 DEF CalculateLatestDueOccurrence
  <2> QED
    BY <2>1, <2>2, CadenceKinds
<1>2. c.due = due /\ c.following = following
  BY <1>1 DEF NoTime, CoalesceDueOccurrences
<1>3. CASE cadence.type = "fixed_interval"
  BY <1>2, <1>3, IntervalFacts
<1>4. CASE cadence.type = "daily_utc"
  <2>1. following = NextDaily(cadence, current)
    BY <1>1, <1>4 DEF CalculateNextFutureOccurrence
  <2>2. IsFirstAfter(cadence, first, current, following)
    BY <1>4, <2>1, NextDailyIsFirst DEF IsFirstAfter, IsOccurrence
  <2> QED
    BY <1>1, <1>2, <1>4, <2>1, <2>2, NextDailyIsFirst
<1> QED
  BY <1>3, <1>4, CadenceKinds

-----------------------------------------------------------------------------

(* What every row of the table satisfies. *)
Settled(row) ==
    /\ row \in Row
    /\ row.version > 0
    /\ row.cadence \in CadenceChoice
    /\ row.config \in Config
    /\ IF row.enabled THEN row.next \in Nat ELSE row.next = NoTime

(* A row as it was loaded: of an earlier version, or the present one. *)
Known(s, row) ==
    /\ Settled(row)
    /\ row.version <= schedule[s].version
    /\ row.version = schedule[s].version => row = schedule[s]

(* The runs that were materialized for a schedule. *)
Occurrences(s) == {r \in runs : r.trigger = "scheduled" /\ r.schedule = s}

(* Those of them that a step adds. *)
NewOccurrences(s) == Occurrences(s)' \ Occurrences(s)

Changing(q) == q.state \in {"load", "commit"} /\ q.op # "run_now"

Asks(c) ==
    LET q == client[c] IN
    /\ q.at <= now
    /\ q.state # "idle" => q.id \in Schedule /\ q.op \in Operation
    /\ q.state = "create" => q.cadence \in CadenceChoice /\ q.config \in Config
    /\ q.state # "idle" /\ q.op = "run_now" => q.key \in Key
    /\ q.state \in {"lookup", "insert"} => q.op = "run_now" /\ held[c].config \in Config
    /\ q.state = "commit" =>
         /\ q.op # "run_now"
         /\ held[c].version = q.expected
         /\ Known(q.id, held[c])
    /\ Changing(q) =>
         /\ q.expected <= schedule[q.id].version
         /\ q.expected = schedule[q.id].version
              => \A r \in Occurrences(q.id) : r.due <= q.at

Works(w) ==
    /\ cur[w] <= now
    /\ worker[w] = "commit" =>
         /\ \A h \in loaded[w] :
              Known(h.id, h.row) /\ h.row.enabled /\ h.row.next <= cur[w]
         /\ \A g, h \in loaded[w] : g.id = h.id => g = h

(* A schedule is past all occurrences that were materialized for it. *)
Past(s) ==
    /\ IF schedule[s].version = 0 THEN ~schedule[s].enabled ELSE Settled(schedule[s])
    /\ \A r \in Occurrences(s) :
         /\ schedule[s].version > 0
         /\ r.due <= now
         /\ schedule[s].next # NoTime => r.due < schedule[s].next

Keyed == \A r \in runs : IF r.trigger = "manual" THEN r.hash \in Key ELSE r.hash = Nothing

IInv ==
    /\ TypeOK /\ Keyed /\ RunNowOnce
    /\ \A s \in Schedule : Past(s)
    /\ \A c \in Client : Asks(c)
    /\ \A w \in Worker : Works(w)

-----------------------------------------------------------------------------
LEMMA NoRowIsRow == NoRow \in Row
BY DEF NoRow, Row, Time

LEMMA NoRequestIsRequest ==
    /\ NoRequest \in Request
    /\ NoRequest.state = "idle" /\ NoRequest.op = Nothing /\ NoRequest.id = Nothing
    /\ NoRequest.expected = 0 /\ NoRequest.at = 0 /\ NoRequest.key = Nothing
    /\ NoRequest.config = Nothing /\ NoRequest.cadence = Nothing
BY DEF NoRequest, Request

LEMMA ChoicesAreCadences == CadenceChoice \subseteq Cadences
BY TableAssumption DEF TableAssumption

(* NextIfEnabled is None for a disabled schedule, and later than the       *)
(* clock reading for an enabled one.                                       *)
LEMMA NextFacts ==
    ASSUME NEW e, e.enabled \in BOOLEAN, NEW cadence \in CadenceChoice, NEW t \in Nat
    PROVE  /\ NextIfEnabled(e, cadence, t) \in Time
           /\ IF e.enabled THEN NextIfEnabled(e, cadence, t) \in Nat
                                /\ NextIfEnabled(e, cadence, t) > t
              ELSE NextIfEnabled(e, cadence, t) = NoTime
<1>1. cadence \in Cadences
  BY ChoicesAreCadences
<1> QED
  BY <1>1, InitialIsLater DEF NextIfEnabled, Time

(* The row that a new schedule gets. *)
LEMMA CreatedRow ==
    ASSUME NEW cadence \in CadenceChoice, NEW config \in Config, NEW t \in Nat,
           NEW enabled \in BOOLEAN, NEW row,
           row = [version |-> 1, enabled |-> enabled, cadence |-> cadence,
                  config |-> config, last |-> NoTime,
                  next |-> NextIfEnabled([enabled |-> enabled], cadence, t)]
    PROVE  Settled(row) /\ row.version = 1
<1>1. [enabled |-> enabled].enabled = enabled
  OBVIOUS
<1>2. row.next \in Time /\ IF enabled THEN row.next \in Nat ELSE row.next = NoTime
  BY <1>1, NextFacts
<1>3. row \in Row
  BY <1>2 DEF Row, Time
<1> QED
  BY <1>2, <1>3 DEF Settled

(* The row that a change makes of the row it loaded. *)
LEMMA ChangedRow ==
    ASSUME NEW row, Settled(row), NEW q \in Request
    PROVE  /\ Settled(Changed(row, q))
           /\ Changed(row, q).version = row.version + 1
           /\ Changed(row, q).next = NoTime \/ Changed(row, q).next > q.at
<1> DEFINE cadence == IF q.cadence = Nothing THEN row.cadence ELSE q.cadence
           config == IF q.config = Nothing THEN row.config ELSE q.config
           enabled == CASE q.op = "enable" -> TRUE
                        [] q.op = "disable" -> FALSE
                        [] OTHER -> row.enabled
           next == NextIfEnabled([enabled |-> enabled], cadence, q.at)
<1>1. cadence \in CadenceChoice /\ config \in Config /\ q.at \in Nat
  BY DEF Settled, Request
<1>2. enabled \in BOOLEAN
  BY DEF Settled, Row
<1>3. [enabled |-> enabled].enabled = enabled
  OBVIOUS
<1> HIDE DEF cadence, config, enabled
<1>4. /\ next \in Time
      /\ IF enabled THEN next \in Nat /\ next > q.at ELSE next = NoTime
  BY <1>1, <1>2, <1>3, NextFacts
<1> DEFINE new == [version |-> row.version + 1, enabled |-> enabled, cadence |-> cadence,
                   config |-> config, next |-> next, last |-> row.last]
<1>5. row \in Row
  BY DEF Settled
<1>6. Changed(row, q) = new
  <2>1. Changed(row, q) = [row EXCEPT !.version = @ + 1, !.cadence = cadence,
                             !.config = config, !.enabled = enabled, !.next = next]
    BY DEF Changed, cadence, config, enabled
  <2> HIDE DEF next
  <2> QED
    BY <1>5, <2>1 DEF Row
<1> HIDE DEF next
<1>7. new \in Row
  BY <1>1, <1>2, <1>4, <1>5 DEF Row
<1>8. row.version \in Nat /\ row.version > 0
  BY <1>5 DEF Row, Settled
<1>9. Settled(new) /\ new.version = row.version + 1 /\ (new.next = NoTime \/ new.next > q.at)
  BY <1>1, <1>2, <1>4, <1>7, <1>8 DEF Settled
<1> QED
  BY <1>6, <1>9

-----------------------------------------------------------------------------
(* What a worker that reads the clock at c makes of the present row of s.  *)
Fired(s, c) == CoalesceDueOccurrences(schedule[s].cadence, schedule[s].next, c)

Advanced(s, c) ==
    [schedule[s] EXCEPT !.last = Fired(s, c).due, !.next = Fired(s, c).following,
                        !.version = @ + 1]

Occurrence(s, c) ==
    [schedule |-> s, trigger |-> "scheduled", due |-> Fired(s, c).due,
     config |-> schedule[s].config, hash |-> Nothing]

(* A schedule that a worker may materialize. *)
Ready(s, c) ==
    /\ Settled(schedule[s]) /\ schedule[s].enabled
    /\ c \in Nat /\ c <= now
    /\ schedule[s].next \in Nat /\ schedule[s].next <= c

LEMMA AdvancedRow ==
    ASSUME NEW s, NEW c, Ready(s, c)
    PROVE  /\ Settled(Advanced(s, c))
           /\ Advanced(s, c).version = schedule[s].version + 1
           /\ Advanced(s, c).next = Fired(s, c).following
           /\ Fired(s, c).due \in schedule[s].next..c
           /\ schedule[s].cadence.type = "fixed_interval"
                => IsLatestUpTo(schedule[s].cadence, schedule[s].next, c, Fired(s, c).due)
           /\ IsFirstAfter(schedule[s].cadence, schedule[s].next, c, Fired(s, c).following)
<1> DEFINE row == schedule[s]
           due == Fired(s, c).due
           following == Fired(s, c).following
           new == [version |-> row.version + 1, enabled |-> row.enabled,
                   cadence |-> row.cadence, config |-> row.config,
                   next |-> following, last |-> due]
<1>1. /\ row \in Row /\ row.version \in Nat /\ row.version > 0
      /\ row.cadence \in CadenceChoice /\ row.cadence \in Cadences /\ row.config \in Config
      /\ row.enabled = TRUE
  BY ChoicesAreCadences DEF Ready, Settled, Row
<1>2. /\ Fired(s, c).due \in row.next..c
      /\ Fired(s, c).following \in Nat
      /\ row.cadence.type = "fixed_interval"
           => IsLatestUpTo(row.cadence, row.next, c, Fired(s, c).due)
      /\ IsFirstAfter(row.cadence, row.next, c, Fired(s, c).following)
  BY <1>1, CoalescedOccurrences DEF Ready, Fired
<1>3. Advanced(s, c) = new
  <2>1. Advanced(s, c) = [row EXCEPT !.last = due, !.next = following, !.version = @ + 1]
    BY DEF Advanced
  <2> HIDE DEF due, following, row
  <2> QED
    BY <1>1, <2>1 DEF Row
<1>4. new \in Row
  BY <1>1, <1>2 DEF Ready, Row, Time
<1>5. Settled(new) /\ new.version = row.version + 1 /\ new.next = Fired(s, c).following
  BY <1>1, <1>2, <1>4 DEF Settled
<1> QED
  BY <1>2, <1>3, <1>5

(* What a worker has loaded, when its version is still the present one.    *)
LEMMA LoadedIsReady ==
    ASSUME IInv, NEW w \in Worker, worker[w] = "commit",
           NEW h \in loaded[w], StillCurrent(h.id, h.row)
    PROVE  /\ h.id \in Schedule
           /\ h.row = schedule[h.id]
           /\ Ready(h.id, cur[w])
           /\ Coalesced(h, cur[w]) = Fired(h.id, cur[w])
           /\ Materialized(h, cur[w]) = Occurrence(h.id, cur[w])
<1>1. h \in [id : Schedule, row : Row] /\ cur[w] \in Nat
  BY DEF IInv, TypeOK
<1>2. Known(h.id, h.row) /\ h.row.enabled /\ h.row.next <= cur[w] /\ cur[w] <= now
  BY DEF IInv, Works
<1>3. h.row = schedule[h.id]
  BY <1>2 DEF StillCurrent, Known
<1>4. Ready(h.id, cur[w])
  BY <1>1, <1>2, <1>3 DEF Ready, Known, Settled
<1>5. Coalesced(h, cur[w]) = Fired(h.id, cur[w])
  BY <1>3 DEF Coalesced, Fired
<1> QED
  BY <1>1, <1>3, <1>4, <1>5 DEF Materialized, Occurrence

(* The three things that a step does to a schedule and its occurrences.    *)
Rests(s) == schedule'[s] = schedule[s] /\ NewOccurrences(s) = {}

Changes(s) ==
    /\ NewOccurrences(s) = {}
    /\ Settled(schedule'[s])
    /\ schedule'[s].version = schedule[s].version + 1
    /\ \A r \in Occurrences(s) :
         schedule[s].version > 0
           /\ (schedule'[s].next # NoTime => r.due < schedule'[s].next)

Advances(s, c) ==
    /\ Ready(s, c)
    /\ schedule'[s] = Advanced(s, c)
    /\ NewOccurrences(s) \subseteq {Occurrence(s, c)}

LEMMA MaterializeStep ==
    ASSUME IInv, NEW w \in Worker, MaterializeCommit(w), NEW s \in Schedule
    PROVE  Rests(s) \/ Advances(s, cur[w])
<1>1. /\ worker[w] = "commit"
      /\ \A h \in loaded[w] : StillCurrent(h.id, h.row)
      /\ runs' = runs \cup {Materialized(h, cur[w]) : h \in loaded[w]}
  BY DEF MaterializeCommit
<1>2. \A h \in loaded[w] : /\ h.row = schedule[h.id]
                           /\ Ready(h.id, cur[w])
                           /\ Coalesced(h, cur[w]) = Fired(h.id, cur[w])
                           /\ Materialized(h, cur[w]) = Occurrence(h.id, cur[w])
  BY <1>1, LoadedIsReady
<1>3. \A t : Occurrence(t, cur[w]).schedule = t /\ Occurrence(t, cur[w]).trigger = "scheduled"
  BY DEF Occurrence
<1>4. \A r \in NewOccurrences(s) : r = Occurrence(s, cur[w]) /\ \E h \in loaded[w] : h.id = s
  BY <1>1, <1>2, <1>3 DEF NewOccurrences, Occurrences
<1>5. CASE \E h \in loaded[w] : h.id = s
  <2> DEFINE h == CHOOSE h \in loaded[w] : h.id = s
  <2>1. h \in loaded[w] /\ h.id = s
    BY <1>5
  <2>2. schedule'[s] = [h.row EXCEPT !.last = Coalesced(h, cur[w]).due,
                                     !.next = Coalesced(h, cur[w]).following,
                                     !.version = @ + 1]
    BY <1>5 DEF MaterializeCommit
  <2> HIDE DEF h
  <2>3. schedule'[s] = Advanced(s, cur[w])
    BY <1>2, <2>1, <2>2 DEF Advanced
  <2> QED
    BY <1>2, <1>4, <2>1, <2>3 DEF Advances
<1>6. CASE ~\E h \in loaded[w] : h.id = s
  BY <1>4, <1>6 DEF MaterializeCommit, Rests
<1> QED
  BY <1>5, <1>6

LEMMA CreateStep ==
    ASSUME IInv, NEW c \in Client, CreateSchedule(c), NEW s \in Schedule
    PROVE  Rests(s) \/ Changes(s)
<1> DEFINE q == client[c]
<1>1. /\ q.state = "create" /\ runs' = runs
      /\ q.cadence \in CadenceChoice /\ q.config \in Config /\ q.at \in Nat
  BY DEF CreateSchedule, IInv, Asks, TypeOK, Request
<1>2. NewOccurrences(s) = {}
  BY <1>1 DEF NewOccurrences, Occurrences
<1>3. CASE schedule' = schedule
  BY <1>2, <1>3 DEF Rests
<1>4. ASSUME schedule[q.id].version = 0, NEW enabled \in BOOLEAN,
             schedule' = [schedule EXCEPT ![q.id] =
               [version |-> 1, enabled |-> enabled, cadence |-> q.cadence,
                config |-> q.config, last |-> NoTime,
                next |-> NextIfEnabled([enabled |-> enabled], q.cadence, q.at)]]
      PROVE  Rests(s) \/ Changes(s)
  <2>1. CASE s # q.id
    BY <1>2, <1>4, <2>1 DEF IInv, TypeOK, Rests
  <2>2. CASE s = q.id
    <3>1. schedule'[s] =
            [version |-> 1, enabled |-> enabled, cadence |-> q.cadence,
             config |-> q.config, last |-> NoTime,
             next |-> NextIfEnabled([enabled |-> enabled], q.cadence, q.at)]
      BY <1>4, <2>2 DEF IInv, TypeOK
    <3> HIDE DEF q
    <3>2. Settled(schedule'[s]) /\ schedule'[s].version = 1
      BY <1>1, <3>1, CreatedRow
    <3>3. Occurrences(s) = {}
      BY <1>4, <2>2 DEF IInv, Past
    <3> QED
      BY <1>2, <1>4, <2>2, <3>2, <3>3 DEF Changes
  <2> QED
    BY <2>1, <2>2
<1> QED
  BY <1>3, <1>4 DEF CreateSchedule

LEMMA ChangeStep ==
    ASSUME IInv, NEW c \in Client, CommitChange(c), NEW s \in Schedule
    PROVE  Rests(s) \/ Changes(s)
<1> DEFINE q == client[c]
<1>1. /\ q.state = "commit" /\ runs' = runs /\ q \in Request
      /\ q.op # "run_now" /\ held[c].version = q.expected /\ Known(q.id, held[c])
      /\ q.id \in Schedule
  BY DEF CommitChange, IInv, Asks, TypeOK
<1>2. NewOccurrences(s) = {}
  BY <1>1 DEF NewOccurrences, Occurrences
<1>3. CASE s # q.id \/ ~StillCurrent(q.id, held[c])
  <2>1. schedule'[s] = schedule[s]
    BY <1>3 DEF CommitChange, IInv, TypeOK
  <2> QED
    BY <1>2, <2>1 DEF Rests
<1>4. CASE s = q.id /\ StillCurrent(q.id, held[c])
  <2>1. held[c] = schedule[s] /\ q.expected = schedule[s].version /\ Settled(held[c])
    BY <1>1, <1>4 DEF StillCurrent, Known
  <2>2. schedule'[s] = Changed(held[c], q)
    BY <1>4 DEF CommitChange, IInv, TypeOK
  <2>3. /\ Settled(schedule'[s])
        /\ schedule'[s].version = schedule[s].version + 1
        /\ schedule'[s].next = NoTime \/ schedule'[s].next > q.at
    BY <1>1, <2>1, <2>2, ChangedRow
  <2>4. \A r \in Occurrences(s) : r.due <= q.at /\ r.due \in Nat /\ schedule[s].version > 0
    BY <1>1, <1>4, <2>1 DEF IInv, Asks, Changing, Past, Occurrences, TypeOK, RunRecord
  <2>5. q.at \in Nat /\ schedule'[s].next \in Nat \cup {NoTime}
    BY <1>1, <2>3 DEF Request, Settled, Row, Time
  <2> QED
    BY <1>2, <2>3, <2>4, <2>5 DEF Changes, NoTime
<1> QED
  BY <1>3, <1>4

(* Every step lets a schedule rest, changes it, or advances it.            *)
LEMMA TableStep ==
    ASSUME IInv, [Next]_vars, NEW s \in Schedule
    PROVE  \/ Rests(s) \/ Changes(s)
           \/ \E w \in Worker : MaterializeCommit(w) /\ Advances(s, cur[w])
<1>1. ASSUME UNCHANGED <<schedule, runs>> PROVE Rests(s)
  BY <1>1 DEF Rests, NewOccurrences, Occurrences
<1>2. ASSUME NEW c \in Client, InsertRun(c) PROVE Rests(s)
  <2>1. schedule' = schedule /\ \A r \in runs' \ runs : r.trigger = "manual"
    BY <1>2 DEF InsertRun
  <2> QED
    BY <2>1 DEF Rests, NewOccurrences, Occurrences
<1>3. ASSUME NEW c \in Client, Ask(c) \/ Load(c) \/ Refuse(c) \/ LookupRun(c)
      PROVE  Rests(s)
  BY <1>1, <1>3 DEF Ask, SendCreate, SendChange, SendRunNow, Send, Load, Refuse, LookupRun
<1>4. ASSUME NEW w \in Worker, BeginCycle(w) \/ SelectDue(w) \/ MaterializeConflict(w)
      PROVE  Rests(s)
  BY <1>1, <1>4 DEF BeginCycle, SelectDue, MaterializeConflict
<1>5. ASSUME Tick \/ UNCHANGED vars PROVE Rests(s)
  BY <1>1, <1>5 DEF Tick, vars
<1> QED
  BY <1>2, <1>3, <1>4, <1>5, CreateStep, ChangeStep, MaterializeStep
     DEF Next, Handle, Cycle

(* Versions grow with the rows, and the clock never goes back.             *)
LEMMA Growth ==
    ASSUME IInv, [Next]_vars
    PROVE  /\ runs \subseteq runs'
           /\ now' \in Nat /\ now <= now'
           /\ \A s \in Schedule : /\ schedule[s].version \in Nat
                                  /\ schedule'[s].version \in Nat
                                  /\ schedule[s].version <= schedule'[s].version
                                  /\ schedule'[s].version = schedule[s].version
                                       => schedule'[s] = schedule[s] /\ NewOccurrences(s) = {}
<1>1. runs \subseteq runs'
  BY DEF Next, Ask, Handle, Cycle, vars, SendCreate, SendChange, SendRunNow, Send,
         CreateSchedule, Load, Refuse, CommitChange, LookupRun, InsertRun,
         BeginCycle, SelectDue, MaterializeCommit, MaterializeConflict, Tick
<1>2. now' \in Nat /\ now <= now'
  <2>1. now' = now \/ now' = now + 1
    BY DEF Next, Ask, Handle, Cycle, vars, SendCreate, SendChange, SendRunNow, Send,
           CreateSchedule, Load, Refuse, CommitChange, LookupRun, InsertRun,
           BeginCycle, SelectDue, MaterializeCommit, MaterializeConflict, Tick
  <2> QED
    BY <2>1 DEF IInv, TypeOK
<1>3. ASSUME NEW s \in Schedule
      PROVE  /\ schedule[s].version \in Nat
             /\ \/ Rests(s)
                \/ schedule'[s].version = schedule[s].version + 1
  <2>1. schedule[s].version \in Nat
    BY DEF IInv, TypeOK, Row
  <2> QED
    BY <2>1, TableStep, AdvancedRow DEF Changes, Advances
<1> QED
  BY <1>1, <1>2, <1>3 DEF Rests

-----------------------------------------------------------------------------
(* A request that a client sends. *)
Sendable(q) ==
    /\ q \in Request
    /\ q.state \in {"load", "create"} /\ q.id \in Schedule /\ q.op \in Operation
    /\ q.at = now
    /\ q.state = "create" => q.cadence \in CadenceChoice /\ q.config \in Config
    /\ q.op = "run_now" => q.key \in Key
    /\ Changing(q) => q.expected = schedule[q.id].version

LEMMA AskFacts ==
    ASSUME TypeOK, NEW c \in Client, Ask(c)
    PROVE  \E q : Sendable(q) /\ Send(c, q)
<1>1. now \in Nat /\ schedule \in [Schedule -> Row]
  BY DEF TypeOK
<1>2. CASE SendCreate(c)
  <2>1. PICK s \in Schedule, config \in Config, cadence \in CadenceChoice :
          Send(c, [NoRequest EXCEPT !.state = "create", !.op = "create", !.id = s,
                     !.at = now, !.config = config, !.cadence = cadence])
    BY <1>2 DEF SendCreate
  <2> DEFINE q == [NoRequest EXCEPT !.state = "create", !.op = "create", !.id = s,
                     !.at = now, !.config = config, !.cadence = cadence]
  <2>2. /\ q.state = "create" /\ q.op = "create" /\ q.id = s /\ q.at = now
        /\ q.config = config /\ q.cadence = cadence
    BY NoRequestIsRequest DEF Request
  <2>3. q \in Request
    BY <1>1, NoRequestIsRequest DEF Request, Operation
  <2> HIDE DEF q
  <2>4. Sendable(q)
    BY <1>1, <2>2, <2>3 DEF Sendable, Operation, Changing
  <2> QED
    BY <2>1, <2>4 DEF q
<1>3. CASE SendChange(c)
  <2>1. PICK s \in Schedule, op \in {"update", "enable", "disable"},
             config \in Config \cup {Nothing}, cadence \in CadenceChoice \cup {Nothing} :
          Send(c, [NoRequest EXCEPT !.state = "load", !.op = op, !.id = s,
                     !.expected = schedule[s].version, !.at = now,
                     !.config = config, !.cadence = cadence])
    BY <1>3, ZenonT(60) DEF SendChange
  <2> DEFINE q == [NoRequest EXCEPT !.state = "load", !.op = op, !.id = s,
                     !.expected = schedule[s].version, !.at = now,
                     !.config = config, !.cadence = cadence]
  <2>2. /\ q.state = "load" /\ q.op = op /\ q.id = s /\ q.at = now
        /\ q.expected = schedule[s].version
    BY NoRequestIsRequest DEF Request
  <2>3. schedule[s].version \in Nat
    BY <1>1 DEF Row
  <2>4. q \in Request
    BY <1>1, <2>3, NoRequestIsRequest DEF Request, Operation
  <2> HIDE DEF q
  <2>5. Sendable(q)
    BY <1>1, <2>2, <2>4 DEF Sendable, Operation
  <2> QED
    BY <2>1, <2>5 DEF q
<1>4. CASE SendRunNow(c)
  <2>1. PICK s \in Schedule, key \in Key :
          Send(c, [NoRequest EXCEPT !.state = "load", !.op = "run_now", !.id = s,
                     !.at = now, !.key = key])
    BY <1>4 DEF SendRunNow
  <2> DEFINE q == [NoRequest EXCEPT !.state = "load", !.op = "run_now", !.id = s,
                     !.at = now, !.key = key]
  <2>2. q.state = "load" /\ q.op = "run_now" /\ q.id = s /\ q.at = now /\ q.key = key
    BY NoRequestIsRequest DEF Request
  <2>3. q \in Request
    BY <1>1, NoRequestIsRequest DEF Request, Operation
  <2> HIDE DEF q
  <2>4. Sendable(q)
    BY <1>1, <2>2, <2>3 DEF Sendable, Operation, Changing
  <2> QED
    BY <2>1, <2>4 DEF q
<1> QED
  BY <1>2, <1>3, <1>4 DEF Ask

LEMMA RequestStates ==
    ASSUME NEW q \in Request, NEW state \in {"lookup", "insert", "commit"}
    PROVE  [q EXCEPT !.state = state] \in Request
BY DEF Request

-----------------------------------------------------------------------------
(* Every step keeps the types. *)
LEMMA ScheduleTyped ==
    ASSUME IInv, [Next]_vars
    PROVE  schedule' \in [Schedule -> Row]
<1>1. \A s \in Schedule : schedule'[s] \in Row
  <2> SUFFICES ASSUME NEW s \in Schedule PROVE schedule'[s] \in Row
    OBVIOUS
  <2>1. schedule[s] \in Row
    BY DEF IInv, TypeOK
  <2> QED
    BY <2>1, TableStep, AdvancedRow DEF Rests, Changes, Advances, Settled
<1>2. DOMAIN schedule' = Schedule /\ schedule' = [s \in DOMAIN schedule' |-> schedule'[s]]
  <2>1. schedule \in [Schedule -> Row]
    BY DEF IInv, TypeOK
  <2>2. \/ schedule' = schedule
        \/ \E s, row : schedule' = [schedule EXCEPT ![s] = row]
        \/ \E w \in Worker : MaterializeCommit(w)
    BY DEF Next, Ask, Handle, Cycle, vars, SendCreate, SendChange, SendRunNow, Send,
           CreateSchedule, Load, Refuse, CommitChange, LookupRun, InsertRun,
           BeginCycle, SelectDue, MaterializeConflict, Tick
  <2> QED
    BY <2>1, <2>2 DEF MaterializeCommit
<1> QED
  BY <1>1, <1>2

LEMMA RunsTyped ==
    ASSUME IInv, [Next]_vars
    PROVE  runs' \subseteq RunRecord
<1>1. runs \subseteq RunRecord
  BY DEF IInv, TypeOK
<1>2. ASSUME NEW c \in Client, InsertRun(c) PROVE runs' \subseteq RunRecord
  <2> DEFINE q == client[c]
             r == [schedule |-> q.id, trigger |-> "manual", due |-> q.at,
                   config |-> held[c].config, hash |-> q.key]
  <2>1. /\ q.id \in Schedule /\ q.at \in Nat /\ q.key \in Key
        /\ held[c].config \in Config
    BY <1>2 DEF InsertRun, IInv, Asks, TypeOK, Request, Row
  <2>2. r \in RunRecord
    BY <2>1 DEF RunRecord
  <2>3. runs' = runs \cup {r} \/ runs' = runs
    BY <1>2 DEF InsertRun
  <2> QED
    BY <1>1, <2>2, <2>3
<1>3. ASSUME NEW w \in Worker, MaterializeCommit(w) PROVE runs' \subseteq RunRecord
  <2>1. ASSUME NEW h \in loaded[w] PROVE Materialized(h, cur[w]) \in RunRecord
    <3>1. h.id \in Schedule /\ Ready(h.id, cur[w])
          /\ Materialized(h, cur[w]) = Occurrence(h.id, cur[w])
      BY <1>3, LoadedIsReady DEF MaterializeCommit
    <3>2. Fired(h.id, cur[w]).due \in Nat
      BY <3>1, AdvancedRow DEF Ready
    <3> QED
      BY <3>1, <3>2 DEF Occurrence, RunRecord, Ready, Settled
  <2> QED
    BY <1>1, <1>3, <2>1 DEF MaterializeCommit
<1>4. ASSUME runs' = runs PROVE runs' \subseteq RunRecord
  BY <1>1, <1>4
<1> QED
  BY <1>2, <1>3, <1>4
     DEF Next, Ask, Handle, Cycle, vars, SendCreate, SendChange, SendRunNow, Send,
         CreateSchedule, Load, Refuse, CommitChange, LookupRun,
         BeginCycle, SelectDue, MaterializeConflict, Tick

LEMMA ClientsTyped ==
    ASSUME IInv, [Next]_vars
    PROVE  client' \in [Client -> Request] /\ held' \in [Client -> Row]
<1>1. client \in [Client -> Request] /\ held \in [Client -> Row] /\ schedule \in [Schedule -> Row]
  BY DEF IInv, TypeOK
<1>2. ASSUME NEW c \in Client, Ask(c) PROVE client' \in [Client -> Request] /\ held' = held
  <2>1. PICK q : Sendable(q) /\ Send(c, q)
    BY <1>2, AskFacts DEF IInv
  <2> QED
    BY <1>1, <2>1 DEF Sendable, Send
<1>3. ASSUME NEW c \in Client, Answer(c)
      PROVE  client' \in [Client -> Request] /\ held' \in [Client -> Row]
  BY <1>1, <1>3, NoRowIsRow, NoRequestIsRequest DEF Answer
<1>4. ASSUME NEW c \in Client, Load(c)
      PROVE  client' \in [Client -> Request] /\ held' \in [Client -> Row]
  <2>1. client[c].id \in Schedule
    BY <1>4 DEF Load, IInv, Asks
  <2>2. held' \in [Client -> Row]
    BY <1>1, <1>4, <2>1 DEF Load
  <2>3. PICK state \in {"lookup", "insert", "commit"} :
          client' = [client EXCEPT ![c] = [client[c] EXCEPT !.state = state]]
    BY <1>4 DEF Load
  <2>4. [client[c] EXCEPT !.state = state] \in Request
    BY <1>1, RequestStates
  <2> QED
    BY <1>1, <2>2, <2>3, <2>4
<1>5. ASSUME NEW c \in Client, LookupRun(c)
      PROVE  client' \in [Client -> Request] /\ held' \in [Client -> Row]
  <2>1. \/ Answer(c)
        \/ client' = [client EXCEPT ![c] = [client[c] EXCEPT !.state = "insert"]] /\ held' = held
    BY <1>5 DEF LookupRun
  <2>2. [client[c] EXCEPT !.state = "insert"] \in Request
    BY <1>1, RequestStates
  <2> QED
    BY <1>1, <1>3, <2>1, <2>2
<1>6. ASSUME UNCHANGED clientVars
      PROVE  client' \in [Client -> Request] /\ held' \in [Client -> Row]
  BY <1>1, <1>6 DEF clientVars
<1> QED
  BY <1>1, <1>2, <1>3, <1>4, <1>5, <1>6
     DEF Next, Handle, Cycle, vars, clientVars, CreateSchedule, Refuse, CommitChange, InsertRun,
         BeginCycle, SelectDue, MaterializeCommit, MaterializeConflict, Tick

LEMMA WorkersTyped ==
    ASSUME IInv, [Next]_vars
    PROVE  /\ worker' \in [Worker -> {"idle", "select", "commit"}]
           /\ cur' \in [Worker -> Nat]
           /\ loaded' \in [Worker -> SUBSET [id : Schedule, row : Row]]
<1>1. /\ now \in Nat
      /\ schedule \in [Schedule -> Row]
      /\ worker \in [Worker -> {"idle", "select", "commit"}]
      /\ cur \in [Worker -> Nat]
      /\ loaded \in [Worker -> SUBSET [id : Schedule, row : Row]]
  BY DEF IInv, TypeOK
<1>2. ASSUME NEW w \in Worker, SelectDue(w)
      PROVE  loaded' \in [Worker -> SUBSET [id : Schedule, row : Row]]
  <2>1. PICK first \in SUBSET Schedule :
          loaded' = [loaded EXCEPT ![w] = {[id |-> s, row |-> schedule[s]] : s \in first}]
    <3> DEFINE free == {s \in Due(cur[w]) : ~Locked(s, w)}
               first == {s \in free : Cardinality({t \in free : Before(t, s)}) < ClaimLimit}
    <3>1. first \in SUBSET Schedule
      BY DEF Due
    <3>2. loaded' = [loaded EXCEPT ![w] = {[id |-> s, row |-> schedule[s]] : s \in first}]
      BY <1>2 DEF SelectDue
    <3> HIDE DEF first
    <3> QED
      BY <3>1, <3>2
  <2>2. {[id |-> s, row |-> schedule[s]] : s \in first} \subseteq [id : Schedule, row : Row]
    BY <1>1
  <2> HIDE DEF SelectDue
  <2> QED
    BY <1>1, <2>1, <2>2
<1>3. ASSUME NEW w \in Worker, SelectDue(w)
      PROVE  /\ worker' \in [Worker -> {"idle", "select", "commit"}]
             /\ cur' \in [Worker -> Nat]
  BY <1>1, <1>3 DEF SelectDue
<1>4. ASSUME NEW w \in Worker, Finish(w) \/ BeginCycle(w)
      PROVE  /\ worker' \in [Worker -> {"idle", "select", "commit"}]
             /\ cur' \in [Worker -> Nat]
             /\ loaded' \in [Worker -> SUBSET [id : Schedule, row : Row]]
  BY <1>1, <1>4 DEF Finish, BeginCycle
<1>5. ASSUME UNCHANGED workerVars
      PROVE  /\ worker' \in [Worker -> {"idle", "select", "commit"}]
             /\ cur' \in [Worker -> Nat]
             /\ loaded' \in [Worker -> SUBSET [id : Schedule, row : Row]]
  BY <1>1, <1>5 DEF workerVars
<1> QED
  BY <1>2, <1>3, <1>4, <1>5
     DEF Next, Ask, Handle, Cycle, vars, workerVars, SendCreate, SendChange, SendRunNow, Send,
         CreateSchedule, Load, Refuse, CommitChange, LookupRun, InsertRun,
         MaterializeCommit, MaterializeConflict, Tick

LEMMA TypeStep ==
    ASSUME IInv, [Next]_vars
    PROVE  TypeOK'
BY Growth, ScheduleTyped, RunsTyped, ClientsTyped, WorkersTyped DEF TypeOK

-----------------------------------------------------------------------------
(* The other parts of the invariant, one by one. *)
LEMMA PastStep ==
    ASSUME IInv, [Next]_vars, NEW s \in Schedule
    PROVE  Past(s)'
<1>1. /\ schedule[s].version \in Nat
      /\ now \in Nat /\ now' \in Nat /\ now <= now'
      /\ \A r \in Occurrences(s) : r.due \in Nat
      /\ Past(s)
  BY Growth DEF IInv, TypeOK, Row, RunRecord, Occurrences
<1>2. \A r \in Occurrences(s)' : r \in Occurrences(s) \/ r \in NewOccurrences(s)
  BY DEF NewOccurrences
<1>3. CASE Rests(s)
  BY <1>1, <1>2, <1>3 DEF Rests, Past
<1>4. CASE Changes(s)
  BY <1>1, <1>2, <1>4 DEF Changes, Past
<1>5. ASSUME NEW w \in Worker, Advances(s, cur[w]) PROVE Past(s)'
  <2> DEFINE c == cur[w]
  <2>1. Ready(s, c) /\ schedule'[s] = Advanced(s, c)
    BY <1>5 DEF Advances
  <2>2. /\ Settled(schedule'[s])
        /\ schedule'[s].version = schedule[s].version + 1
        /\ schedule'[s].next = Fired(s, c).following
        /\ Fired(s, c).due \in schedule[s].next..c
        /\ Fired(s, c).following > c
    BY <2>1, AdvancedRow DEF IsFirstAfter
  <2>3. \A r \in NewOccurrences(s) : r.due = Fired(s, c).due
    BY <1>5 DEF Advances, Occurrence
  <2>4. \A r \in Occurrences(s) : r.due < schedule[s].next
    BY <1>1, <2>1 DEF Past, Ready, NoTime
  <2>5. schedule'[s].next \in Nat \cup {NoTime}
    BY <2>2 DEF Settled, Row, Time
  <2> QED
    BY <1>1, <1>2, <2>1, <2>2, <2>3, <2>4, <2>5 DEF Past, Ready, NoTime
<1> QED
  BY <1>3, <1>4, <1>5, TableStep

LEMMA KeyedStep ==
    ASSUME IInv, [Next]_vars
    PROVE  Keyed' /\ RunNowOnce'
<1>1. Keyed /\ RunNowOnce
  BY DEF IInv
<1>2. ASSUME runs' = runs PROVE Keyed' /\ RunNowOnce'
  BY <1>1, <1>2 DEF Keyed, RunNowOnce
<1>3. ASSUME NEW c \in Client, InsertRun(c) PROVE Keyed' /\ RunNowOnce'
  <2> DEFINE q == client[c]
             r == [schedule |-> q.id, trigger |-> "manual", due |-> q.at,
                   config |-> held[c].config, hash |-> q.key]
  <2>1. q.key \in Key
    BY <1>3 DEF InsertRun, IInv, Asks
  <2>2. CASE ManualRun(q.id, q.key) = {} /\ runs' = runs \cup {r}
    <3>1. r.trigger = "manual" /\ r.hash = q.key /\ r.schedule = q.id
      OBVIOUS
    <3>2. \A p \in runs : ~(p.schedule = r.schedule /\ p.hash = r.hash)
      BY <2>2, <3>1 DEF ManualRun
    <3> HIDE DEF q, r
    <3> QED
      BY <1>1, <2>1, <2>2, <3>1, <3>2 DEF Keyed, RunNowOnce
  <2> QED
    BY <1>2, <1>3, <2>2 DEF InsertRun
<1>4. ASSUME NEW w \in Worker, MaterializeCommit(w) PROVE Keyed' /\ RunNowOnce'
  <2>1. \A r \in runs' \ runs : r.trigger = "scheduled" /\ r.hash = Nothing
    <3>1. runs' = runs \cup {Materialized(h, cur[w]) : h \in loaded[w]}
      BY <1>4 DEF MaterializeCommit
    <3> QED
      BY <3>1 DEF Materialized
  <2>2. \A r \in runs' : r \in runs \/ r \in runs' \ runs
    OBVIOUS
  <2> QED
    BY <1>1, <2>1, <2>2 DEF Keyed, RunNowOnce
<1> QED
  BY <1>2, <1>3, <1>4
     DEF Next, Ask, Handle, Cycle, vars, SendCreate, SendChange, SendRunNow, Send,
         CreateSchedule, Load, Refuse, CommitChange, LookupRun,
         BeginCycle, SelectDue, MaterializeConflict, Tick

(* A loaded row stays known: either the row is as it was, or its version   *)
(* is a later one.                                                         *)
LEMMA KnownStays ==
    ASSUME IInv, [Next]_vars, NEW s \in Schedule, NEW row, Known(s, row)
    PROVE  /\ Settled(row)
           /\ row.version <= schedule'[s].version
           /\ row.version = schedule'[s].version => row = schedule'[s]
<1>1. row.version \in Nat
  BY DEF Known, Settled, Row
<1> QED
  BY <1>1, Growth DEF Known

LEMMA AsksStays ==
    ASSUME IInv, [Next]_vars, NEW c \in Client,
           client'[c] = client[c], held'[c] = held[c]
    PROVE  Asks(c)'
<1> DEFINE q == client[c]
<1>1. Asks(c) /\ q \in Request /\ now \in Nat
  BY DEF IInv, TypeOK
<1>2. q.at \in Nat /\ q.expected \in Nat
  BY <1>1 DEF Request
<1>3. q.at <= now'
  BY <1>1, <1>2, Growth DEF Asks
<1>4. ASSUME q.state = "commit"
      PROVE  /\ Settled(held[c])
             /\ held[c].version <= schedule'[q.id].version
             /\ held[c].version = schedule'[q.id].version => held[c] = schedule'[q.id]
  BY <1>1, <1>4, KnownStays DEF Asks
<1>5. ASSUME Changing(q)
      PROVE  /\ q.expected <= schedule'[q.id].version
             /\ q.expected = schedule'[q.id].version
                  => \A r \in Occurrences(q.id)' : r.due <= q.at
  <2>1. q.id \in Schedule
    BY <1>1, <1>5 DEF Asks, Changing
  <2>2. /\ schedule[q.id].version \in Nat /\ schedule'[q.id].version \in Nat
        /\ schedule[q.id].version <= schedule'[q.id].version
        /\ schedule'[q.id].version = schedule[q.id].version => NewOccurrences(q.id) = {}
    BY <2>1, Growth
  <2> QED
    BY <1>1, <1>2, <1>5, <2>2 DEF Asks, NewOccurrences, Occurrences
<1> QED
  BY <1>1, <1>3, <1>4, <1>5 DEF Asks, Changing, Known, Occurrences

LEMMA AsksStep ==
    ASSUME IInv, [Next]_vars, NEW c \in Client
    PROVE  Asks(c)'
<1> DEFINE q == client[c]
<1>1. /\ client \in [Client -> Request] /\ held \in [Client -> Row]
      /\ schedule \in [Schedule -> Row] /\ now \in Nat
      /\ Asks(c) /\ q \in Request
  BY DEF IInv, TypeOK
<1>2. ASSUME client'[c] = NoRequest PROVE Asks(c)'
  BY <1>1, <1>2, Growth, NoRequestIsRequest DEF Asks, Changing
<1>3. ASSUME NEW d \in Client, Answer(d) PROVE Asks(c)'
  <2>1. \/ client'[c] = NoRequest
        \/ client'[c] = client[c] /\ held'[c] = held[c]
    BY <1>1, <1>3 DEF Answer
  <2> QED
    BY <1>2, <2>1, AsksStays
<1>4. ASSUME NEW d \in Client, Ask(d) PROVE Asks(c)'
  <2>1. PICK new : Sendable(new) /\ Send(d, new)
    BY <1>1, <1>4, AskFacts DEF IInv
  <2>2. CASE c # d
    BY <1>1, <2>1, <2>2, AsksStays DEF Send
  <2>3. CASE c = d
    <3>1. client'[c] = new /\ held' = held /\ UNCHANGED <<now, schedule, runs>>
      BY <1>1, <2>1, <2>3 DEF Send
    <3>2. \A r \in Occurrences(new.id) : r.due <= new.at
      BY <2>1 DEF Sendable, IInv, Past
    <3>3. Occurrences(new.id)' = Occurrences(new.id)
      BY <3>1 DEF Occurrences
    <3>4. schedule[new.id].version \in Nat
      BY <1>1, <2>1 DEF Sendable, Row
    <3> QED
      BY <1>1, <2>1, <3>1, <3>2, <3>3, <3>4 DEF Asks, Sendable, Changing, Occurrences
  <2> QED
    BY <2>2, <2>3
<1>5. ASSUME NEW d \in Client, Load(d) PROVE Asks(c)'
  <2>1. CASE c # d
    BY <1>1, <1>5, <2>1, AsksStays DEF Load
  <2>2. CASE c = d
    <3> DEFINE state == IF q.op = "run_now" THEN "lookup" ELSE "commit"
    <3>1. /\ q.state = "load" /\ ~Refused(q) /\ UNCHANGED <<now, schedule, runs>>
          /\ held'[c] = schedule[q.id]
          /\ client'[c] = [q EXCEPT !.state = state]
      BY <1>1, <1>5, <2>2 DEF Load
    <3>2. /\ client'[c].state = state /\ client'[c].id = q.id /\ client'[c].op = q.op
          /\ client'[c].at = q.at /\ client'[c].key = q.key
          /\ client'[c].expected = q.expected
      BY <1>1, <3>1 DEF Request
    <3>3. /\ q.id \in Schedule /\ q.op \in Operation /\ q.at <= now
          /\ q.op = "run_now" => q.key \in Key
          /\ q.op # "run_now" =>
               /\ q.expected <= schedule[q.id].version
               /\ q.expected = schedule[q.id].version
                    => \A r \in Occurrences(q.id) : r.due <= q.at
      BY <1>1, <3>1 DEF Asks, Changing
    <3>4. /\ schedule[q.id].version \in Nat /\ schedule[q.id].version # 0
          /\ q.op # "run_now" => schedule[q.id].version = q.expected
      BY <1>1, <3>1, <3>3 DEF Refused, Row
    <3>5. Settled(schedule[q.id])
      BY <3>3, <3>4 DEF IInv, Past
    <3>6. schedule[q.id].config \in Config /\ Known(q.id, schedule[q.id])
      BY <3>4, <3>5 DEF Known, Settled
    <3>7. Occurrences(q.id)' = Occurrences(q.id)
      BY <3>1 DEF Occurrences
    <3> HIDE DEF q
    <3> QED
      BY <3>1, <3>2, <3>3, <3>4, <3>6, <3>7 DEF Asks, Changing, Known, Occurrences
  <2> QED
    BY <2>1, <2>2
<1>6. ASSUME NEW d \in Client, LookupRun(d) PROVE Asks(c)'
  <2>1. CASE Answer(d)
    BY <1>3, <2>1
  <2>2. CASE c # d /\ ~Answer(d)
    BY <1>1, <1>6, <2>2, AsksStays DEF LookupRun
  <2>3. CASE c = d /\ ~Answer(d)
    <3>1. /\ q.state = "lookup" /\ UNCHANGED <<now, schedule, runs>> /\ held'[c] = held[c]
          /\ client'[c] = [q EXCEPT !.state = "insert"]
      BY <1>1, <1>6, <2>3 DEF LookupRun
    <3>2. /\ client'[c].state = "insert" /\ client'[c].id = q.id /\ client'[c].op = q.op
          /\ client'[c].at = q.at /\ client'[c].key = q.key
      BY <1>1, <3>1 DEF Request
    <3>3. /\ q.id \in Schedule /\ q.op = "run_now" /\ q.at <= now /\ q.key \in Key
          /\ held[c].config \in Config
      BY <1>1, <3>1 DEF Asks
    <3> QED
      BY <3>1, <3>2, <3>3 DEF Asks, Changing, Operation
  <2> QED
    BY <2>1, <2>2, <2>3
<1>7. ASSUME UNCHANGED clientVars PROVE Asks(c)'
  BY <1>7, AsksStays DEF clientVars
<1> QED
  BY <1>3, <1>4, <1>5, <1>6, <1>7
     DEF Next, Handle, Cycle, vars, clientVars, CreateSchedule, Refuse, CommitChange, InsertRun,
         BeginCycle, SelectDue, MaterializeCommit, MaterializeConflict, Tick

LEMMA WorksStays ==
    ASSUME IInv, [Next]_vars, NEW w \in Worker,
           worker'[w] = worker[w], cur'[w] = cur[w], loaded'[w] = loaded[w]
    PROVE  Works(w)'
<1>1. Works(w) /\ cur[w] \in Nat /\ now \in Nat /\ loaded[w] \subseteq [id : Schedule, row : Row]
  BY DEF IInv, TypeOK
<1>2. cur[w] <= now'
  BY <1>1, Growth DEF Works
<1>3. ASSUME worker[w] = "commit", NEW h \in loaded[w]
      PROVE  /\ Settled(h.row)
             /\ h.row.version <= schedule'[h.id].version
             /\ h.row.version = schedule'[h.id].version => h.row = schedule'[h.id]
             /\ h.row.enabled /\ h.row.next <= cur[w]
  BY <1>1, <1>3, KnownStays DEF Works
<1> QED
  BY <1>1, <1>2, <1>3 DEF Works, Known

LEMMA WorksStep ==
    ASSUME IInv, [Next]_vars, NEW w \in Worker
    PROVE  Works(w)'
<1>1. /\ worker \in [Worker -> {"idle", "select", "commit"}]
      /\ cur \in [Worker -> Nat]
      /\ loaded \in [Worker -> SUBSET [id : Schedule, row : Row]]
      /\ schedule \in [Schedule -> Row] /\ now \in Nat
  BY DEF IInv, TypeOK
<1>2. ASSUME NEW v \in Worker, Finish(v) PROVE Works(w)'
  <2>1. CASE v # w
    BY <1>1, <1>2, <2>1, WorksStays DEF Finish
  <2>2. CASE v = w
    BY <1>1, <1>2, <2>2, Growth DEF Finish, Works
  <2> QED
    BY <2>1, <2>2
<1>3. ASSUME NEW v \in Worker, BeginCycle(v) PROVE Works(w)'
  <2>1. CASE v # w
    BY <1>1, <1>3, <2>1, WorksStays DEF BeginCycle
  <2>2. CASE v = w
    BY <1>1, <1>3, <2>2 DEF BeginCycle, Works
  <2> QED
    BY <2>1, <2>2
<1>4. ASSUME NEW v \in Worker, SelectDue(v) PROVE Works(w)'
  <2>1. CASE v # w
    BY <1>1, <1>4, <2>1, WorksStays DEF SelectDue
  <2>2. CASE v = w
    <3>1. PICK first \in SUBSET Due(cur[w]) :
            loaded' = [loaded EXCEPT ![w] = {[id |-> s, row |-> schedule[s]] : s \in first}]
      <4> DEFINE free == {s \in Due(cur[w]) : ~Locked(s, w)}
                 first == {s \in free : Cardinality({t \in free : Before(t, s)}) < ClaimLimit}
      <4>1. first \in SUBSET Due(cur[w])
        OBVIOUS
      <4>2. loaded' = [loaded EXCEPT ![w] = {[id |-> s, row |-> schedule[s]] : s \in first}]
        BY <1>4, <2>2 DEF SelectDue
      <4> HIDE DEF first
      <4> QED
        BY <4>1, <4>2
    <3>2. loaded'[w] = {[id |-> s, row |-> schedule[s]] : s \in first}
      BY <1>1, <3>1
    <3>3. UNCHANGED <<now, schedule, cur>>
      BY <1>4 DEF SelectDue
    <3>4. \A s \in first : /\ s \in Schedule /\ schedule[s].enabled
                           /\ schedule[s].next # NoTime /\ schedule[s].next <= cur[w]
      BY DEF Due
    <3>5. \A s \in first : Known(s, schedule[s])
      <4> SUFFICES ASSUME NEW s \in first PROVE Known(s, schedule[s])
        OBVIOUS
      <4>1. schedule[s] \in Row /\ Past(s)
        BY <1>1, <3>4 DEF IInv
      <4>2. schedule[s].version # 0
        BY <3>4, <4>1 DEF Past
      <4> QED
        BY <4>1, <4>2 DEF Past, Known, Row
    <3>6. \A h \in loaded'[w] : h.id \in first /\ h.row = schedule[h.id]
      BY <3>2
    <3>7. \A g, h \in loaded'[w] : g.id = h.id => g = h
      BY <3>2
    <3>8. cur[w] <= now
      BY DEF IInv, Works
    <3> QED
      BY <3>3, <3>4, <3>5, <3>6, <3>7, <3>8 DEF Works, Known
  <2> QED
    BY <2>1, <2>2
<1>5. ASSUME UNCHANGED workerVars PROVE Works(w)'
  BY <1>5, WorksStays DEF workerVars
<1> QED
  BY <1>2, <1>3, <1>4, <1>5
     DEF Next, Ask, Handle, Cycle, vars, workerVars, SendCreate, SendChange, SendRunNow, Send,
         CreateSchedule, Load, Refuse, CommitChange, LookupRun, InsertRun,
         MaterializeCommit, MaterializeConflict, Tick

-----------------------------------------------------------------------------
LEMMA IInvInit == Init => IInv
<1> SUFFICES ASSUME Init PROVE IInv
  OBVIOUS
<1>1. TypeOK
  BY NoRowIsRow, NoRequestIsRequest DEF Init, TypeOK
<1>2. Keyed /\ RunNowOnce
  BY DEF Init, Keyed, RunNowOnce
<1>3. \A s \in Schedule : Past(s)
  BY DEF Init, Past, Occurrences, NoRow
<1>4. \A c \in Client : Asks(c)
  BY NoRequestIsRequest DEF Init, Asks, Changing
<1>5. \A w \in Worker : Works(w)
  BY DEF Init, Works
<1> QED
  BY <1>1, <1>2, <1>3, <1>4, <1>5 DEF IInv

LEMMA IInvStep == IInv /\ [Next]_vars => IInv'
<1> SUFFICES ASSUME IInv, [Next]_vars PROVE IInv'
  OBVIOUS
<1> QED
  BY TypeStep, KeyedStep, PastStep, AsksStep, WorksStep DEF IInv

LEMMA IInvAlways == Spec => []IInv
BY IInvInit, IInvStep, PTL DEF Spec

(* Every variable keeps its type. *)
THEOREM TypeCorrect == Spec => []TypeOK
<1>1. IInv => TypeOK
  BY DEF IInv
<1> QED
  BY <1>1, IInvAlways, PTL

(* However many run-now requests carry one idempotency key, and however    *)
(* they interleave, they make one run: the unique constraint decides.      *)
THEOREM RunNowOnceAlways == Spec => []RunNowOnce
<1>1. IInv => RunNowOnce
  BY DEF IInv
<1> QED
  BY <1>1, IInvAlways, PTL

-----------------------------------------------------------------------------
(* A run is materialized only by a step that advances its schedule. *)
LEMMA NewScheduledFacts ==
    ASSUME IInv, [Next]_vars, NEW r \in NewScheduled
    PROVE  /\ r.schedule \in Schedule
           /\ \E w \in Worker : /\ MaterializeCommit(w)
                                /\ Advances(r.schedule, cur[w])
                                /\ r = Occurrence(r.schedule, cur[w])
<1>1. runs' \subseteq RunRecord
  BY TypeStep DEF TypeOK
<1>2. r \in NewOccurrences(r.schedule) /\ r.schedule \in Schedule
  BY <1>1 DEF NewScheduled, NewOccurrences, Occurrences, RunRecord
<1> QED
  BY <1>2, TableStep DEF Rests, Changes, Advances

(* Every materialized occurrence is later than all earlier ones of its     *)
(* schedule, across workers, changes, disabling and enabling.              *)
THEOREM OccurrencesInOrder == Spec => OccurrencesAdvance
<1> DEFINE InOrder ==
             \A r \in NewScheduled : \A q \in runs' :
               q # r /\ q.trigger = "scheduled" /\ q.schedule = r.schedule => q.due < r.due
<1>1. IInv /\ [Next]_vars => InOrder
  <2> SUFFICES ASSUME IInv, [Next]_vars, NEW r \in NewScheduled, NEW q \in runs',
                      q # r, q.trigger = "scheduled", q.schedule = r.schedule
               PROVE  q.due < r.due
    OBVIOUS
  <2> DEFINE s == r.schedule
  <2>1. PICK w \in Worker : Advances(s, cur[w]) /\ r = Occurrence(s, cur[w])
    BY NewScheduledFacts
  <2>2. s \in Schedule
    BY NewScheduledFacts
  <2>3. q \notin NewOccurrences(s)
    BY <2>1 DEF Advances
  <2>4. q \in Occurrences(s)
    BY <2>3 DEF NewOccurrences, Occurrences
  <2>5. q.due < schedule[s].next /\ q.due \in Nat
    BY <2>1, <2>2, <2>4 DEF IInv, Past, Advances, Ready, NoTime, TypeOK, RunRecord, Occurrences
  <2>6. r.due \in schedule[s].next..cur[w]
    BY <2>1, AdvancedRow DEF Advances, Occurrence
  <2> QED
    BY <2>1, <2>5, <2>6 DEF Advances, Ready
<1> QED
  BY <1>1, IInvAlways, PTL DEF Spec, OccurrencesAdvance

(* A scheduled run belongs to a schedule that is enabled and due when it   *)
(* is inserted, and has the configuration of that moment.                  *)
THEOREM ScheduledFromCurrent == Spec => ScheduledRunIsCurrent
<1> DEFINE IsCurrent ==
             \A r \in NewScheduled : LET row == schedule[r.schedule] IN
               /\ row.enabled
               /\ row.next <= r.due /\ r.due <= now
               /\ row.config = r.config
<1>1. IInv /\ [Next]_vars => IsCurrent
  <2> SUFFICES ASSUME IInv, [Next]_vars, NEW r \in NewScheduled
               PROVE  /\ schedule[r.schedule].enabled
                      /\ schedule[r.schedule].next <= r.due /\ r.due <= now
                      /\ schedule[r.schedule].config = r.config
    OBVIOUS
  <2> DEFINE s == r.schedule
  <2>1. PICK w \in Worker : Advances(s, cur[w]) /\ r = Occurrence(s, cur[w])
    BY NewScheduledFacts
  <2>2. r.due \in schedule[s].next..cur[w]
    BY <2>1, AdvancedRow DEF Advances, Occurrence
  <2>3. r.config = schedule[s].config
    BY <2>1 DEF Occurrence
  <2>4. now \in Nat
    BY DEF IInv, TypeOK
  <2> QED
    BY <2>1, <2>2, <2>3, <2>4 DEF Advances, Ready
<1> QED
  BY <1>1, IInvAlways, PTL DEF Spec, ScheduledRunIsCurrent

(* Whatever the interval, the length of a day and the delay: a fixed       *)
(* interval runs its latest missed occurrence, and every schedule then     *)
(* waits for the first occurrence to come.                                 *)
THEOREM Coalesces == Spec => CoalescesMissedOccurrences
<1> DEFINE IsCoalesced ==
             \A r \in NewScheduled, w \in Worker : Committing(w) =>
               LET row == schedule[r.schedule]
                   next == schedule'[r.schedule].next
               IN  /\ row.cadence.type = "fixed_interval"
                        => IsLatestUpTo(row.cadence, row.next, cur[w], r.due)
                   /\ IsFirstAfter(row.cadence, row.next, cur[w], next)
<1>1. IInv /\ [Next]_vars => IsCoalesced
  <2> SUFFICES ASSUME IInv, [Next]_vars, NEW r \in NewScheduled, NEW w \in Worker, Committing(w)
               PROVE  LET row == schedule[r.schedule]
                          next == schedule'[r.schedule].next
                      IN  /\ row.cadence.type = "fixed_interval"
                               => IsLatestUpTo(row.cadence, row.next, cur[w], r.due)
                          /\ IsFirstAfter(row.cadence, row.next, cur[w], next)
    OBVIOUS
  <2> DEFINE s == r.schedule
  <2>1. PICK v \in Worker : /\ MaterializeCommit(v)
                            /\ Advances(s, cur[v]) /\ r = Occurrence(s, cur[v])
    BY NewScheduledFacts
  <2>2. v = w
    BY <2>1 DEF MaterializeCommit, Finish, Committing, IInv, TypeOK
  <2>3. r.due = Fired(s, cur[w]).due
    BY <2>1, <2>2 DEF Occurrence
  <2>4. schedule'[s].next = Fired(s, cur[w]).following
    BY <2>1, <2>2, AdvancedRow DEF Advances
  <2> QED
    BY <2>1, <2>2, <2>3, <2>4, AdvancedRow DEF Advances
<1> QED
  BY <1>1, IInvAlways, PTL DEF Spec, CoalescesMissedOccurrences
===============================================================================
