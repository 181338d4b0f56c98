-------------------------- MODULE MacroStore_proofs --------------------------
(***************************************************************************)
(* For any dates, values, requests and sessions, on either database: the   *)
(* store is well typed, the entries of every date are one chain, as        *)
(* committed and as each open transaction sees them, reads of the past     *)
(* settle, an answered synchronization has taken effect, the counts of a   *)
(* batch are those of its entries, and the store implements                *)
(* ObservationHistory.                                                     *)
(*                                                                         *)
(* What a request read of a date is part of the chain of that date as long *)
(* as it may still write; so a new entry whose sequence the unique         *)
(* constraints accept was computed from the whole chain.  Of a batch, the  *)
(* request that processes it is the only one, and has accounted for every  *)
(* row before its next one.                                                *)
(***************************************************************************)
EXTENDS MacroStore, FiniteSetTheorems, TLAPS

(* The entries of one date: each sequence once, without a gap, and each    *)
(* revision beside what it replaced.                                       *)
Chain(C) ==
    /\ IsFiniteSet(C)
    /\ \A e, f \in C : e.sequence = f.sequence => e = f
    /\ {e.sequence : e \in C} = 0..(Cardinality(C) - 1)
    /\ \A e, f \in C : e.sequence = f.sequence + 1 => e.previous = f.value
    /\ \A e \in C : e.sequence = 0 => e.previous = Nothing

Chained(E) == \A d \in Date : Chain(Of(E, d))

(* An entry that continues a chain. *)
Extends(C, new) ==
    /\ new \in Entry
    /\ new.sequence = Cardinality(C)
    /\ new.previous = IF C = {} THEN Nothing ELSE Last(C).value

-----------------------------------------------------------------------------
LEMMA EmptyChain == Chain({})
<1>1. IsFiniteSet({}) /\ Cardinality({}) = 0
  BY FS_EmptySet
<1> QED
  BY <1>1 DEF Chain

(* The last entry of a chain has the highest sequence. *)
LEMMA LastFacts ==
    ASSUME NEW C \in SUBSET Entry, Chain(C), C # {}
    PROVE  /\ Last(C) \in C
           /\ Last(C).sequence = Cardinality(C) - 1
<1>1. Cardinality(C) \in Nat \ {0}
  BY FS_EmptySet, FS_CardinalityType DEF Chain
<1>2. Cardinality(C) - 1 \in {e.sequence : e \in C}
  BY <1>1 DEF Chain
<1>3. PICK e \in C : e.sequence = Cardinality(C) - 1
  BY <1>2
<1>4. \A f \in C : f.sequence \in 0..(Cardinality(C) - 1)
  BY DEF Chain
<1>5. \A f \in C : f.sequence <= e.sequence
  BY <1>1, <1>3, <1>4
<1>6. Last(C) \in C /\ \A f \in C : f.sequence <= Last(C).sequence
  BY <1>3, <1>5 DEF Last
<1>7. Last(C).sequence <= e.sequence /\ e.sequence <= Last(C).sequence
  BY <1>3, <1>5, <1>6
<1>8. Last(C).sequence \in Int
  BY <1>4, <1>6
<1> QED
  BY <1>1, <1>3, <1>6, <1>7, <1>8

LEMMA ChainExtends ==
    ASSUME NEW C \in SUBSET Entry, Chain(C), NEW new, Extends(C, new)
    PROVE  Chain(C \cup {new})
<1> DEFINE n == Cardinality(C)
           D == C \cup {new}
<1>1. IsFiniteSet(C) /\ n \in Nat
  BY FS_CardinalityType DEF Chain
<1>2. \A e \in C : e.sequence \in 0..(n - 1)
  BY DEF Chain
<1>3. new.sequence = n /\ new \notin C
  BY <1>1, <1>2 DEF Extends
<1>4. IsFiniteSet(D) /\ Cardinality(D) = n + 1
  BY <1>1, <1>3, FS_AddElement
<1>5. \A e, f \in D : e.sequence = f.sequence => e = f
  BY <1>1, <1>2, <1>3 DEF Chain
<1>6. {e.sequence : e \in D} = 0..n
  <2>1. {e.sequence : e \in D} = {e.sequence : e \in C} \cup {n}
    BY <1>3
  <2>2. {e.sequence : e \in C} = 0..(n - 1)
    BY DEF Chain
  <2> HIDE DEF n, D
  <2> QED
    BY <1>1, <2>1, <2>2
<1>7. \A e, f \in D : e.sequence = f.sequence + 1 => e.previous = f.value
  <2> SUFFICES ASSUME NEW e \in D, NEW f \in D, e.sequence = f.sequence + 1
               PROVE  e.previous = f.value
    OBVIOUS
  <2>1. CASE e \in C /\ f \in C
    BY <2>1 DEF Chain
  <2>2. CASE f = new
    BY <1>1, <1>2, <1>3, <2>2
  <2>3. CASE e = new /\ f \in C
    <3>1. C # {} /\ f.sequence = n - 1
      BY <1>1, <1>2, <1>3, <2>3
    <3>2. f = Last(C)
      BY <2>3, <3>1, LastFacts DEF Chain
    <3> QED
      BY <2>3, <3>1, <3>2 DEF Extends
  <2> QED
    BY <2>1, <2>2, <2>3
<1>8. \A e \in D : e.sequence = 0 => e.previous = Nothing
  <2> SUFFICES ASSUME NEW e \in D, e.sequence = 0 PROVE e.previous = Nothing
    OBVIOUS
  <2>1. CASE e \in C
    BY <2>1 DEF Chain
  <2>2. CASE e = new
    <3>1. C = {}
      BY <1>1, <1>3, <2>2, FS_EmptySet
    <3> QED
      BY <2>2, <3>1 DEF Extends
  <2> QED
    BY <2>1, <2>2
<1> HIDE DEF n, D
<1>9. {e.sequence : e \in D} = 0..(Cardinality(D) - 1)
  <2>1. Cardinality(D) - 1 = n
    BY <1>1, <1>4
  <2> QED
    BY <1>6, <2>1
<1>10. Chain(D)
  BY <1>4, <1>5, <1>7, <1>8, <1>9 DEF Chain
<1> QED
  BY <1>10 DEF D

(* An entry computed from a part of a chain, whose sequence is free, was   *)
(* computed from all of it.                                                *)
LEMMA NewExtends ==
    ASSUME NEW C \in SUBSET Entry, Chain(C), NEW D \in SUBSET C,
           NEW row \in Row, NEW stamp \in Nat, NEW key \in ImportKey \cup {Nothing},
           \A e \in C : e.sequence # NewEntry(D, row, stamp, key).sequence
    PROVE  Extends(C, NewEntry(D, row, stamp, key))
<1> DEFINE new == NewEntry(D, row, stamp, key)
<1>1. IsFiniteSet(C) /\ Cardinality(C) \in Nat
  BY FS_CardinalityType DEF Chain
<1>2. IsFiniteSet(D) /\ Cardinality(D) \in Nat /\ Cardinality(D) <= Cardinality(C)
  BY <1>1, FS_Subset, FS_CardinalityType
<1>3. new.sequence = Cardinality(D)
  BY DEF NewEntry
<1>4. Cardinality(D) \notin {e.sequence : e \in C}
  BY <1>3
<1>5. Cardinality(D) = Cardinality(C)
  BY <1>1, <1>2, <1>4 DEF Chain
<1>6. D = C
  BY <1>1, <1>5, FS_Subset
<1>7. C # {} => Last(C).value \in Value
  BY LastFacts DEF Entry
<1>8. new \in Entry
  BY <1>2, <1>6, <1>7 DEF NewEntry, Entry, Row
<1> QED
  BY <1>5, <1>6, <1>8 DEF NewEntry, Extends

LEMMA OfUnion ==
    ASSUME NEW E, NEW F, NEW d
    PROVE  Of(E \cup F, d) = Of(E, d) \cup Of(F, d)
BY DEF Of

-----------------------------------------------------------------------------
(* What is known of a request in progress. *)

Imports(q) == q.state \in {"open", "rows", "insert", "failing"}

Serves(s) ==
    LET q == session[s] IN
    /\ q.state # "idle" => q.payload \in Payload
    /\ q.state # "idle" /\ q.payload.kind # "manual" => q.key \in ImportKey
    /\ q.state = "lookup" => q.payload.kind # "manual"
    /\ q.state = "read" => q.payload.kind = "sync"
    /\ q.state \in {"stamp", "check"} => q.payload.kind = "manual" /\ q.next = 1
    /\ q.state = "write" => q.payload.kind \in {"sync", "manual"}
    /\ Imports(q) => q.payload.kind = "file"
    /\ q.state = "insert" => ~AllRead(s)
    /\ q.state # "idle" =>
         /\ q.planned \subseteq DOMAIN Rows(s)
         /\ q.rejected \subseteq DOMAIN Rows(s)

(* Only a file import keeps what it wrote back from the others, and not    *)
(* while its savepoints commit.                                            *)
Holds(s) ==
    /\ pending[s] # {} => session[s].state \in {"rows", "insert"}
    /\ pending[s] # {} => ~SavepointCommits(session[s])

(* What a request read is still there. *)
Sees(s) ==
    session[s].state # "failing" =>
      \A d \in Date : session[s].seen[d] \subseteq Of(entries \cup pending[s], d)

(* No two open transactions have written entries of one date. *)
Apart ==
    \A s, t \in Session : s # t =>
      \A e \in pending[s], f \in pending[t] : e.date # f.date

IInv ==
    /\ TypeOK
    /\ Chained(entries)
    /\ \A s \in Session : Chained(entries \cup pending[s])
    /\ \A s \in Session : Serves(s) /\ Holds(s) /\ Sees(s)
    /\ Apart

-----------------------------------------------------------------------------
(* How a step changes the entries, as committed and as held. *)

Alone(s, d) == \A t \in Session \ {s} : \A e \in pending[t] : e.date # d

Rests == entries' = entries /\ pending' = pending

Drops(s) == entries' = entries /\ pending' = [pending EXCEPT ![s] = {}]

Merges(s) == entries' = entries \cup pending[s] /\ pending' = [pending EXCEPT ![s] = {}]

(* Each date gets one entry at most, which continues its chain. *)
Adds(s, new) ==
    /\ pending[s] = {}
    /\ entries' = entries \cup new /\ pending' = pending
    /\ \A e \in new : Extends(Of(entries, e.date), e) /\ Alone(s, e.date)
    /\ \A e, f \in new : e.date = f.date => e = f

Keeps(s, new) ==
    /\ Extends(Of(entries \cup pending[s], new.date), new) /\ Alone(s, new.date)
    /\ entries' = entries /\ pending' = [pending EXCEPT ![s] = @ \cup {new}]

Changes(s) ==
    \/ Rests \/ Drops(s) \/ Merges(s)
    \/ \E new : Adds(s, new)
    \/ \E new : Keeps(s, new)

(* A chain that is continued, or left alone. *)
LEMMA AddedChain ==
    ASSUME TypeOK, NEW s \in Session, NEW new, Adds(s, new),
           NEW E \in SUBSET Entry, Chained(E),
           \A e \in new : Of(E, e.date) = Of(entries, e.date)
    PROVE  Chained(E \cup new)
<1> SUFFICES ASSUME NEW d \in Date PROVE Chain(Of(E \cup new, d))
  BY DEF Chained
<1>1. Chain(Of(E, d)) /\ Of(E, d) \in SUBSET Entry
  BY DEF Chained, Of
<1>2. CASE \A e \in new : e.date # d
  <2>1. Of(E \cup new, d) = Of(E, d)
    BY <1>2 DEF Of
  <2> QED
    BY <1>1, <2>1
<1>3. ASSUME NEW e \in new, e.date = d PROVE Chain(Of(E \cup new, d))
  <2>1. Extends(Of(E, d), e)
    BY <1>3 DEF Adds
  <2>2. Of(E \cup new, d) = Of(E, d) \cup {e}
    BY <1>3 DEF Of, Adds
  <2> QED
    BY <1>1, <2>1, <2>2, ChainExtends
<1> QED
  BY <1>2, <1>3

LEMMA ChainStep ==
    ASSUME IInv, NEW s \in Session, Changes(s)
    PROVE  /\ entries' \in SUBSET Entry /\ pending' \in [Session -> SUBSET Entry]
           /\ entries \subseteq entries'
           /\ Chained(entries')
           /\ \A t \in Session : Chained(entries' \cup pending'[t])
           /\ Apart'
           /\ \A t \in Session \ {s} : pending'[t] = pending[t]
<1> USE DEF IInv
<1>1. /\ entries \in SUBSET Entry /\ pending \in [Session -> SUBSET Entry]
      /\ Chained(entries) /\ \A t \in Session : Chained(entries \cup pending[t])
  BY DEF TypeOK
<1>2. CASE Rests
  BY <1>1, <1>2 DEF Rests, Apart
<1>3. CASE Drops(s)
  <2>1. /\ entries' = entries
        /\ pending' \in [Session -> SUBSET Entry]
        /\ \A t \in Session : pending'[t] = IF t = s THEN {} ELSE pending[t]
    BY <1>1, <1>3 DEF Drops
  <2>2. ASSUME NEW t \in Session PROVE Chained(entries' \cup pending'[t])
    <3>1. entries' \cup pending'[t] = entries \/ entries' \cup pending'[t] = entries \cup pending[t]
      BY <2>1
    <3> QED
      BY <1>1, <3>1
  <2>3. Apart'
    BY <2>1 DEF Apart
  <2> QED
    BY <1>1, <2>1, <2>2, <2>3
<1>4. CASE Merges(s)
  <2>1. /\ entries' = entries \cup pending[s]
        /\ \A t \in Session : pending'[t] = IF t = s THEN {} ELSE pending[t]
    BY <1>1, <1>4 DEF Merges
  <2>2. Chained(entries') /\ entries' \cup pending'[s] = entries'
    BY <1>1, <2>1
  <2>3. ASSUME NEW t \in Session \ {s}, NEW d \in Date
        PROVE  Chain(Of(entries' \cup pending'[t], d))
    <3>1. CASE \A e \in pending[t] : e.date # d
      <4>1. Of(entries' \cup pending'[t], d) = Of(entries \cup pending[s], d)
        BY <2>1, <3>1 DEF Of
      <4> QED
        BY <1>1, <4>1 DEF Chained
    <3>2. CASE ~\A e \in pending[t] : e.date # d
      <4>1. \A e \in pending[s] : e.date # d
        BY <3>2 DEF Apart
      <4>2. Of(entries' \cup pending'[t], d) = Of(entries \cup pending[t], d)
        BY <2>1, <4>1 DEF Of
      <4> QED
        BY <1>1, <4>2 DEF Chained
    <3> QED
      BY <3>1, <3>2
  <2>4. \A t \in Session : Chained(entries' \cup pending'[t])
    BY <2>2, <2>3 DEF Chained
  <2>5. Apart'
    BY <2>1 DEF Apart
  <2> QED
    BY <1>1, <1>4, <2>1, <2>2, <2>4, <2>5 DEF Merges
<1>5. ASSUME NEW new, Adds(s, new) PROVE
           /\ entries' \in SUBSET Entry /\ pending' \in [Session -> SUBSET Entry]
           /\ entries \subseteq entries'
           /\ Chained(entries')
           /\ \A t \in Session : Chained(entries' \cup pending'[t])
           /\ Apart'
           /\ \A t \in Session \ {s} : pending'[t] = pending[t]
  <2>1. /\ entries' = entries \cup new /\ pending' = pending /\ new \subseteq Entry
        /\ entries' \in SUBSET Entry
    BY <1>1, <1>5 DEF Adds, Extends
  <2>2. Chained(entries')
    BY <1>1, <1>5, <2>1, AddedChain
  <2>3. ASSUME NEW t \in Session PROVE Chained(entries' \cup pending'[t])
    <3>1. \A e \in new : Of(entries \cup pending[t], e.date) = Of(entries, e.date)
      <4>1. \A e \in new : \A f \in pending[t] : f.date # e.date
        BY <1>5 DEF Adds, Alone
      <4> QED
        BY <4>1 DEF Of
    <3>2. Chained((entries \cup pending[t]) \cup new)
      BY <1>1, <1>5, <3>1, AddedChain
    <3>3. (entries \cup pending[t]) \cup new = entries' \cup pending'[t]
      BY <2>1
    <3> QED
      BY <3>2, <3>3
  <2>4. Apart'
    BY <2>1 DEF Apart
  <2> QED
    BY <1>1, <2>1, <2>2, <2>3, <2>4
<1>6. ASSUME NEW new, Keeps(s, new) PROVE
           /\ entries' \in SUBSET Entry /\ pending' \in [Session -> SUBSET Entry]
           /\ entries \subseteq entries'
           /\ Chained(entries')
           /\ \A t \in Session : Chained(entries' \cup pending'[t])
           /\ Apart'
           /\ \A t \in Session \ {s} : pending'[t] = pending[t]
  <2>1. /\ entries' = entries /\ new \in Entry
        /\ \A t \in Session : pending'[t] = IF t = s THEN pending[s] \cup {new} ELSE pending[t]
        /\ pending' \in [Session -> SUBSET Entry]
    BY <1>1, <1>6 DEF Keeps, Extends
  <2>2. ASSUME NEW d \in Date PROVE Chain(Of(entries' \cup pending'[s], d))
    <3> DEFINE C == Of(entries \cup pending[s], d)
    <3>1. Chain(C) /\ C \in SUBSET Entry
      BY <1>1 DEF Chained, Of
    <3>2. CASE new.date = d
      <4>1. Of(entries' \cup pending'[s], d) = C \cup {new}
        BY <2>1, <3>2 DEF Of
      <4>2. Extends(C, new)
        BY <1>6, <3>2 DEF Keeps
      <4> QED
        BY <3>1, <4>1, <4>2, ChainExtends
    <3>3. CASE new.date # d
      <4>1. Of(entries' \cup pending'[s], d) = C
        BY <2>1, <3>3 DEF Of
      <4> QED
        BY <3>1, <4>1
    <3> QED
      BY <3>2, <3>3
  <2>3. \A t \in Session : Chained(entries' \cup pending'[t])
    BY <1>1, <2>1, <2>2 DEF Chained
  <2>4. Apart'
    BY <1>6, <2>1 DEF Apart, Keeps, Alone
  <2> QED
    BY <1>1, <2>1, <2>3, <2>4
<1> QED
  BY <1>2, <1>3, <1>4, <1>5, <1>6 DEF Changes

-----------------------------------------------------------------------------
(* What the actions are computed from. *)

LEMMA NotBlocked ==
    ASSUME NEW s \in Session, NEW dates, ~Blocked(s, dates), NEW d \in dates
    PROVE  Alone(s, d)
BY DEF Blocked, Waits, Alone

LEMMA RowFacts ==
    ASSUME IInv, NEW s \in Session, session[s].state # "idle"
    PROVE  /\ session[s] \in Request /\ session[s].payload \in Payload
           /\ Rows(s) \in Seq(Row) /\ DOMAIN Rows(s) = 1..Len(Rows(s))
           /\ \A i \in DOMAIN Rows(s) : Rows(s)[i] \in Row /\ Rows(s)[i].date \in Date
           /\ session[s].next \in Nat \ {0}
           /\ ~AllRead(s) => session[s].next \in DOMAIN Rows(s)
<1>1. session[s] \in Request /\ session[s].payload \in Payload
  BY DEF IInv, TypeOK, Serves
<1>2. Rows(s) \in Seq(Row) /\ Len(Rows(s)) \in Nat /\ session[s].next \in Nat \ {0}
  BY <1>1, StoreAssumption DEF StoreAssumption, Rows, Request
<1>3. DOMAIN Rows(s) = 1..Len(Rows(s)) /\ \A i \in DOMAIN Rows(s) : Rows(s)[i] \in Row
  BY <1>2
<1>4. ~AllRead(s) => session[s].next \in 1..Len(Rows(s))
  BY <1>2 DEF AllRead
<1> QED
  BY <1>1, <1>2, <1>3, <1>4 DEF Row

(* A synchronization and a correction by hand write one row for a date. *)
LEMMA OneRowPerDate ==
    ASSUME IInv, NEW s \in Session, session[s].state = "write",
           NEW i \in DOMAIN Rows(s), NEW j \in DOMAIN Rows(s),
           Rows(s)[i].date = Rows(s)[j].date
    PROVE  i = j
<1>1. /\ session[s].payload \in Payload /\ Rows(s) = session[s].payload.rows
      /\ DOMAIN Rows(s) = 1..Len(Rows(s)) /\ Rows(s) \in Seq(Row)
      /\ session[s].payload.kind \in {"sync", "manual"}
  BY RowFacts DEF Rows, IInv, Serves
<1>2. i \in Nat /\ j \in Nat /\ Rows(s)[i].date \in Nat /\ Rows(s)[j].date \in Nat
  <2>1. Rows(s)[i].date \in Date /\ Rows(s)[j].date \in Date
    BY RowFacts
  <2>2. Len(Rows(s)) \in Nat
    BY <1>1
  <2>3. i \in 1..Len(Rows(s)) /\ j \in 1..Len(Rows(s))
    BY <1>1
  <2>4. Date \subseteq Nat
    BY StoreAssumption DEF StoreAssumption
  <2>5. i \in Nat /\ j \in Nat
    BY <2>2, <2>3
  <2> QED
    BY <2>1, <2>4, <2>5
<1>3. CASE session[s].payload.kind = "sync"
  BY <1>1, <1>2, <1>3, StoreAssumption DEF StoreAssumption
<1>4. CASE session[s].payload.kind = "manual"
  BY <1>1, <1>2, <1>4, StoreAssumption DEF StoreAssumption
<1> QED
  BY <1>1, <1>3, <1>4

LEMMA KeyFacts ==
    ASSUME IInv, NEW s \in Session
    PROVE  session[s].key \in ImportKey \cup {Nothing} /\ session[s].stamp \in Nat
BY DEF IInv, TypeOK, Request

LEMMA CommitAdds ==
    ASSUME IInv, NEW s \in Session, Commit(s)
    PROVE  \E again \in SUBSET MayReread(s) : Adds(s, Written(s, again))
<1> DEFINE q == session[s]
<1>1. PICK again \in SUBSET MayReread(s) :
        /\ ~UniqueViolation(entries, Written(s, again))
        /\ entries' = entries \cup Written(s, again)
  BY DEF Commit
<1>2. /\ q.state = "write" /\ pending' = pending
      /\ ~Blocked(s, {Rows(s)[i].date : i \in q.planned})
  BY DEF Commit, CanWrite
<1>3. pending[s] = {} /\ q.planned \subseteq DOMAIN Rows(s)
  BY <1>2 DEF IInv, Holds, Serves
<1> DEFINE Read(i) == IF i \in again THEN Of(entries, Rows(s)[i].date)
                      ELSE q.seen[Rows(s)[i].date]
           New(i) == NewEntry(Read(i), Rows(s)[i], q.stamp, q.key)
<1>4. Written(s, again) = {New(i) : i \in q.planned}
  BY DEF Written
<1>5. ASSUME NEW i \in q.planned
      PROVE  /\ New(i).date = Rows(s)[i].date
             /\ Extends(Of(entries, Rows(s)[i].date), New(i))
             /\ Alone(s, Rows(s)[i].date)
  <2> DEFINE d == Rows(s)[i].date
  <2>1. Rows(s)[i] \in Row /\ d \in Date
    BY <1>2, <1>3, RowFacts
  <2>2. q.seen[d] \subseteq Of(entries, d)
    <3>1. entries \cup pending[s] = entries
      BY <1>3
    <3>2. q.seen[d] \subseteq Of(entries \cup pending[s], d)
      BY <1>2, <2>1 DEF IInv, Sees
    <3> QED
      BY <3>1, <3>2
  <2>3. Read(i) \in SUBSET Of(entries, d)
    BY <2>2
  <2>4. New(i).date = d
    BY DEF NewEntry
  <2>5. \A e \in Of(entries, d) : e.sequence # New(i).sequence
    BY <1>1, <1>4, <2>4 DEF UniqueViolation, Of
  <2>6. Of(entries, d) \in SUBSET Entry /\ Chain(Of(entries, d))
    BY <2>1 DEF IInv, TypeOK, Chained, Of
  <2>7. Extends(Of(entries, d), New(i))
    <3> HIDE DEF Read, d, q
    <3> QED
      BY <2>1, <2>3, <2>5, <2>6, KeyFacts, NewExtends DEF q, d
  <2>8. Alone(s, d)
    BY <1>2, NotBlocked
  <2> QED
    BY <2>4, <2>7, <2>8
<1>6. ASSUME NEW i \in q.planned, NEW j \in q.planned, New(i).date = New(j).date
      PROVE  New(i) = New(j)
  BY <1>2, <1>3, <1>5, <1>6, OneRowPerDate
<1>7. Adds(s, Written(s, again))
  <2> HIDE DEF New
  <2> QED
    BY <1>1, <1>2, <1>3, <1>4, <1>5, <1>6 DEF Adds
<1> QED
  BY <1>7

LEMMA InsertChanges ==
    ASSUME IInv, NEW s \in Session, InsertRow(s)
    PROVE  Changes(s)
<1> DEFINE q == session[s]
           row == NextRow(s)
           C == Of(entries \cup pending[s], row.date)
           new == NewEntry(q.seen[row.date], row, q.stamp, q.key)
<1>1. CASE UniqueViolation(entries \cup pending[s], {new})
  BY <1>1 DEF InsertRow, RejectRow, Changes, Rests, Drops
<1>2. CASE ~UniqueViolation(entries \cup pending[s], {new})
  <2>1. /\ q.state = "insert" /\ ~Blocked(s, {row.date})
        /\ IF SavepointCommits(q)
           THEN entries' = entries \cup {new} /\ pending' = pending
           ELSE pending' = [pending EXCEPT ![s] = @ \cup {new}] /\ entries' = entries
    BY <1>2 DEF InsertRow
  <2>2. row \in Row /\ row.date \in Date
    BY <2>1, RowFacts DEF IInv, Serves, NextRow
  <2>3. q.seen[row.date] \in SUBSET C
    BY <2>1, <2>2 DEF IInv, Sees
  <2>4. new.date = row.date
    BY DEF NewEntry
  <2>5. \A e \in C : e.sequence # new.sequence
    BY <1>2, <2>4 DEF UniqueViolation, Of
  <2>6. C \in SUBSET Entry /\ Chain(C)
    BY <2>2 DEF IInv, TypeOK, Chained, Of
  <2>7. Extends(C, new)
    <3> HIDE DEF C, q, row
    <3> QED
      BY <2>2, <2>3, <2>5, <2>6, KeyFacts, NewExtends DEF q
  <2>8. Alone(s, row.date)
    BY <2>1, NotBlocked
  <2>9. CASE SavepointCommits(q)
    <3>1. pending[s] = {}
      BY <2>9 DEF IInv, Holds
    <3>2. C = Of(entries, new.date)
      BY <2>4, <3>1 DEF Of
    <3>3. entries' = entries \cup {new} /\ pending' = pending
      BY <2>1, <2>9
    <3>4. Extends(Of(entries, new.date), new) /\ Alone(s, new.date)
      BY <2>4, <2>7, <2>8, <3>2
    <3> HIDE DEF new, C
    <3>5. Adds(s, {new})
      BY <3>1, <3>3, <3>4 DEF Adds
    <3> QED
      BY <3>5 DEF Changes
  <2>10. CASE ~SavepointCommits(q)
    <3>1. pending' = [pending EXCEPT ![s] = @ \cup {new}] /\ entries' = entries
      BY <2>1, <2>10
    <3>2. Extends(Of(entries \cup pending[s], new.date), new) /\ Alone(s, new.date)
      BY <2>4, <2>7, <2>8
    <3> HIDE DEF new, C
    <3>3. Keeps(s, new)
      BY <3>1, <3>2 DEF Keeps
    <3> QED
      BY <3>3 DEF Changes
  <2> QED
    BY <2>9, <2>10
<1> QED
  BY <1>1, <1>2

Acts(s) == Send(s) \/ Handle(s) \/ Interrupt(s)

LEMMA ActorChanges ==
    ASSUME IInv, NEW s \in Session, Acts(s)
    PROVE  Changes(s)
<1>1. CASE \/ Send(s) \/ Replay(s) \/ StartImport(s) \/ ReadRow(s) \/ Stamp(s) \/ Refuse(s)
           \/ ReadObservation(s) \/ Conflict(s) \/ OpenBatch(s) \/ RecordFailure(s)
  BY <1>1
  DEF Send, Replay, StartImport, ReadRow, Stamp, Refuse, ReadObservation, Conflict,
      OpenBatch, RecordFailure, Changes, Rests
<1>2. CASE ReadFileRow(s)
  BY <1>2 DEF ReadFileRow, RejectRow, Changes, Rests, Drops
<1>3. CASE FinishImport(s)
  BY <1>3 DEF FinishImport, Changes, Merges
<1>4. CASE Interrupt(s)
  BY <1>4 DEF Interrupt, Changes, Drops
<1>5. CASE Commit(s)
  BY <1>5, CommitAdds DEF Changes
<1> QED
  BY <1>1, <1>2, <1>3, <1>4, <1>5, InsertChanges DEF Acts, Handle

-----------------------------------------------------------------------------
(* A step keeps what is known of its own request. *)

Good(s) == session[s] \in Request /\ Serves(s) /\ Holds(s) /\ Sees(s)

LEMMA AnswerGood ==
    ASSUME TypeOK, NEW s \in Session,
           NEW answer \in {"none", "imported", "replay", "refused", "conflict", "error"},
           Answer(s, answer), pending'[s] = {}
    PROVE  Good(s)'
<1>1. session'[s] = Idle(answer)
  BY DEF Answer, TypeOK
<1>2. Idle(answer) \in Request
  BY DEF Idle, Request
<1> QED
  BY <1>1, <1>2 DEF Idle, Good, Serves, Holds, Sees, Imports, Rows

LEMMA SendGood ==
    ASSUME IInv, NEW s \in Session, Send(s)
    PROVE  Good(s)'
<1> DEFINE New(p, k) ==
             [Idle("none") EXCEPT !.payload = p, !.key = k,
                !.state = IF p.kind = "manual" THEN "stamp" ELSE "lookup"]
<1>1. PICK p \in Payload :
        \E k \in KeysFor(p) : session' = [session EXCEPT ![s] = New(p, k)]
  BY DEF Send
<1>7. PICK k \in KeysFor(p) : session' = [session EXCEPT ![s] = New(p, k)]
  BY <1>1
<1>2. pending' = pending /\ pending[s] = {}
  BY DEF Send, IInv, Holds
<1>3. /\ p.kind \in {"sync", "manual", "file"}
      /\ k \in ImportKey \cup {Nothing}
      /\ p.kind # "manual" => k \in ImportKey
  BY StoreAssumption DEF StoreAssumption, KeysFor, ImportKey
<1> DEFINE new == New(p, k)
<1>4. session'[s] = new
  BY <1>7 DEF IInv, TypeOK
<1>5. new \in Request
  <2>1. Idle("none") \in Request
    BY DEF Idle, Request
  <2>2. (IF p.kind = "manual" THEN "stamp" ELSE "lookup") \in {"stamp", "lookup"}
    OBVIOUS
  <2> QED
    BY <1>3, <2>1, <2>2 DEF Request
<1>6. /\ new.state = IF p.kind = "manual" THEN "stamp" ELSE "lookup"
      /\ new.payload = p /\ new.key = k /\ new.next = 1
      /\ new.planned = {} /\ new.rejected = {} /\ new.seen = [d \in Date |-> {}]
  BY DEF Idle
<1> HIDE DEF new, New
<1> QED
  BY <1>2, <1>3, <1>4, <1>5, <1>6 DEF Good, Serves, Holds, Sees, Imports, Rows

(* A request in progress that goes on with the same payload and key. *)
GoesOn(s, new) ==
    /\ session[s].state # "idle" /\ new.state # "idle"
    /\ session' = [session EXCEPT ![s] = new]
    /\ new \in Request
    /\ new.payload = session[s].payload /\ new.key = session[s].key
    /\ new.planned \subseteq DOMAIN Rows(s) /\ new.rejected \subseteq DOMAIN Rows(s)

Fits(new) ==
    LET kind == new.payload.kind IN
    /\ new.state = "lookup" => kind # "manual"
    /\ new.state = "read" => kind = "sync"
    /\ new.state \in {"stamp", "check"} => kind = "manual" /\ new.next = 1
    /\ new.state = "write" => kind \in {"sync", "manual"}
    /\ Imports(new) => kind = "file"
    /\ new.state = "insert" => new.next <= Len(new.payload.rows)

LEMMA GoesOnGood ==
    ASSUME IInv, NEW s \in Session, NEW new, GoesOn(s, new), Fits(new),
           pending'[s] # {} => new.state \in {"rows", "insert"} /\ ~SavepointCommits(new),
           new.state # "failing" =>
             \A d \in Date : new.seen[d] \subseteq Of(entries' \cup pending'[s], d)
    PROVE  Good(s)'
<1>1. session'[s] = new /\ new \in Request
  BY DEF GoesOn, IInv, TypeOK
<1>2. /\ new.payload \in Payload
      /\ new.payload.kind # "manual" => new.key \in ImportKey
      /\ new.planned \subseteq DOMAIN new.payload.rows
      /\ new.rejected \subseteq DOMAIN new.payload.rows
  BY DEF GoesOn, IInv, Serves, Rows
<1>3. new.next \in Nat /\ Len(new.payload.rows) \in Nat
  BY <1>1, <1>2, StoreAssumption DEF StoreAssumption, Request
<1>4. Serves(s)'
  BY <1>1, <1>2, <1>3 DEF Serves, Fits, Rows, AllRead, Imports
<1>5. Holds(s)' /\ Sees(s)'
  BY <1>1 DEF Holds, Sees, SavepointCommits
<1> QED
  BY <1>1, <1>4, <1>5 DEF Good

(* Before its first statement that writes, a request holds nothing. *)
LEMMA ReadingFacts ==
    ASSUME IInv, NEW s \in Session, session[s].state \notin {"rows", "insert"}
    PROVE  /\ pending[s] = {}
           /\ session[s].state # "failing" =>
                \A d \in Date : session[s].seen[d] \subseteq Of(entries, d)
<1>1. pending[s] = {}
  BY DEF IInv, Holds
<1>2. entries \cup pending[s] = entries
  BY <1>1
<1> QED
  BY <1>1, <1>2 DEF IInv, Sees

LEMMA StartImportGood ==
    ASSUME IInv, NEW s \in Session, StartImport(s)
    PROVE  Good(s)'
<1> DEFINE q == session[s]
           new == IF q.payload.kind = "sync" THEN [q EXCEPT !.state = "read"]
                  ELSE [q EXCEPT !.state = "open", !.stamp = ClockReading]
<1>1. q.state = "lookup" /\ session' = [session EXCEPT ![s] = new] /\ pending' = pending
      /\ entries' = entries
  BY DEF StartImport
<1>2. /\ q \in Request /\ q.payload \in Payload /\ q.payload.kind \in {"sync", "file"}
      /\ now \in Nat
      /\ q.planned \subseteq DOMAIN Rows(s) /\ q.rejected \subseteq DOMAIN Rows(s)
  BY <1>1, StoreAssumption DEF IInv, TypeOK, Serves, StoreAssumption
<1>3. /\ new \in Request
      /\ new.state = IF q.payload.kind = "sync" THEN "read" ELSE "open"
      /\ new.payload = q.payload /\ new.key = q.key /\ new.seen = q.seen
      /\ new.planned = q.planned /\ new.rejected = q.rejected
  BY <1>2 DEF Request, ClockReading
<1> HIDE DEF new
<1>4. GoesOn(s, new) /\ Fits(new)
  BY <1>1, <1>2, <1>3 DEF GoesOn, Fits, Imports
<1> QED
  BY <1>1, <1>3, <1>4, ReadingFacts, GoesOnGood

LEMMA ReadRowGood ==
    ASSUME IInv, NEW s \in Session, ReadRow(s)
    PROVE  Good(s)'
<1> DEFINE q == session[s]
           row == NextRow(s)
           found == Of(entries, row.date)
           planned == IF Differs(found, row) THEN q.planned \cup {q.next} ELSE q.planned
           new == [q EXCEPT !.seen[row.date] = found, !.next = @ + 1, !.planned = planned]
<1>1. /\ q.state = "read" /\ ~AllRead(s) /\ session' = [session EXCEPT ![s] = new]
      /\ pending' = pending /\ entries' = entries
  BY DEF ReadRow
<1>2. /\ q \in Request /\ q.payload.kind = "sync" /\ row.date \in Date
      /\ q.next \in Nat /\ q.next \in DOMAIN Rows(s) /\ found \in SUBSET Entry
      /\ q.planned \subseteq DOMAIN Rows(s) /\ q.rejected \subseteq DOMAIN Rows(s)
  BY <1>1, RowFacts DEF IInv, TypeOK, Serves, NextRow, Of
<1>3. planned \subseteq DOMAIN Rows(s) /\ planned \subseteq Nat
  BY <1>2 DEF Request
<1> HIDE DEF found, planned
<1>4. /\ new \in Request /\ new.state = "read" /\ new.payload = q.payload
      /\ new.key = q.key /\ new.planned = planned /\ new.rejected = q.rejected
      /\ new.seen = [q.seen EXCEPT ![row.date] = found]
  <2>1. [q.seen EXCEPT ![row.date] = found] \in [Date -> SUBSET Entry]
    BY <1>2 DEF Request
  <2>2. q.next + 1 \in Nat \ {0}
    BY <1>2
  <2>3. planned \in SUBSET Nat
    BY <1>3
  <2> HIDE DEF row
  <2> QED
    BY <1>1, <1>2, <2>1, <2>2, <2>3 DEF Request
<1> HIDE DEF new
<1>5. GoesOn(s, new) /\ Fits(new)
  BY <1>1, <1>2, <1>3, <1>4 DEF GoesOn, Fits, Imports
<1>6. \A d \in Date : new.seen[d] \subseteq Of(entries, d)
  BY <1>1, <1>2, <1>4, ReadingFacts DEF Request, found
<1> QED
  BY <1>1, <1>4, <1>5, <1>6, ReadingFacts, GoesOnGood

LEMMA StampGood ==
    ASSUME IInv, NEW s \in Session, Stamp(s)
    PROVE  Good(s)'
<1> DEFINE q == session[s]
           new == [q EXCEPT !.stamp = ClockReading,
                     !.state = IF q.state = "read" THEN "write" ELSE "check"]
<1>1. /\ q.state \in {"read", "stamp"} /\ session' = [session EXCEPT ![s] = new]
      /\ pending' = pending /\ entries' = entries
  BY DEF Stamp
<1>2. /\ q \in Request /\ now \in Nat
      /\ q.state = "read" => q.payload.kind = "sync"
      /\ q.state = "stamp" => q.payload.kind = "manual" /\ q.next = 1
      /\ q.planned \subseteq DOMAIN Rows(s) /\ q.rejected \subseteq DOMAIN Rows(s)
  BY <1>1 DEF IInv, TypeOK, Serves
<1>3. /\ new \in Request /\ new.state = IF q.state = "read" THEN "write" ELSE "check"
      /\ new.payload = q.payload /\ new.key = q.key /\ new.seen = q.seen
      /\ new.next = q.next
      /\ new.planned = q.planned /\ new.rejected = q.rejected
  BY <1>2 DEF Request, ClockReading
<1> HIDE DEF new
<1>4. GoesOn(s, new) /\ Fits(new)
  BY <1>1, <1>2, <1>3 DEF GoesOn, Fits, Imports
<1> QED
  BY <1>1, <1>3, <1>4, ReadingFacts, GoesOnGood

LEMMA ReadObservationGood ==
    ASSUME IInv, NEW s \in Session, ReadObservation(s)
    PROVE  Good(s)'
<1> DEFINE q == session[s]
           row == NextRow(s)
           found == Of(entries, row.date)
           new == [q EXCEPT !.state = "write", !.planned = {q.next},
                     !.seen[row.date] = found]
<1>1. /\ q.state = "check" /\ session' = [session EXCEPT ![s] = new]
      /\ pending' = pending /\ entries' = entries
  BY DEF ReadObservation
<1>2. /\ q \in Request /\ q.payload.kind = "manual" /\ q.next = 1
      /\ Len(Rows(s)) = 1 /\ q.rejected \subseteq DOMAIN Rows(s)
  BY <1>1, StoreAssumption DEF IInv, TypeOK, Serves, StoreAssumption, Rows
<1>3. q.next \in DOMAIN Rows(s) /\ row.date \in Date /\ found \in SUBSET Entry
  BY <1>1, <1>2, RowFacts DEF IInv, TypeOK, NextRow, Of
<1> HIDE DEF found
<1>4. /\ new \in Request /\ new.state = "write" /\ new.payload = q.payload
      /\ new.key = q.key /\ new.planned = {q.next} /\ new.rejected = q.rejected
      /\ new.seen = [q.seen EXCEPT ![row.date] = found]
  BY <1>1, <1>2, <1>3 DEF Request
<1> HIDE DEF new
<1>5. GoesOn(s, new) /\ Fits(new)
  BY <1>1, <1>2, <1>3, <1>4 DEF GoesOn, Fits, Imports
<1>6. \A d \in Date : new.seen[d] \subseteq Of(entries, d)
  BY <1>1, <1>2, <1>3, <1>4, ReadingFacts DEF Request, found
<1> QED
  BY <1>1, <1>4, <1>5, <1>6, ReadingFacts, GoesOnGood

LEMMA OpenBatchGood ==
    ASSUME IInv, NEW s \in Session, OpenBatch(s)
    PROVE  Good(s)'
<1> DEFINE q == session[s]
           new == [q EXCEPT !.state = "rows"]
<1>1. q.state = "open" /\ pending' = pending /\ entries' = entries
  BY DEF OpenBatch
<1>2. pending[s] = {}
  BY <1>1, ReadingFacts
<1>3. CASE KeyTaken(q.key)
  BY <1>1, <1>2, <1>3, AnswerGood DEF OpenBatch, IInv
<1>4. CASE ~KeyTaken(q.key)
  <2>1. session' = [session EXCEPT ![s] = new]
    BY <1>4 DEF OpenBatch, IInv, TypeOK
  <2>2. /\ q \in Request /\ q.payload.kind = "file"
        /\ q.planned \subseteq DOMAIN Rows(s) /\ q.rejected \subseteq DOMAIN Rows(s)
    BY <1>1 DEF IInv, TypeOK, Serves, Imports
  <2>3. /\ new \in Request /\ new.state = "rows" /\ new.payload = q.payload
        /\ new.key = q.key /\ new.seen = q.seen
        /\ new.planned = q.planned /\ new.rejected = q.rejected
    BY <2>2 DEF Request
  <2> HIDE DEF new
  <2>4. GoesOn(s, new) /\ Fits(new)
    BY <1>1, <2>1, <2>2, <2>3 DEF GoesOn, Fits, Imports
  <2> QED
    BY <1>1, <1>2, <2>3, <2>4, ReadingFacts, GoesOnGood
<1> QED
  BY <1>3, <1>4

(* What an import in its loop over the rows is, and what it read. *)
LEMMA LoopFacts ==
    ASSUME IInv, NEW s \in Session, session[s].state \in {"rows", "insert"}, ~AllRead(s)
    PROVE  /\ session[s] \in Request /\ session[s].payload.kind = "file"
           /\ session[s].next \in Nat /\ session[s].next \in DOMAIN Rows(s)
           /\ session[s].next <= Len(session[s].payload.rows)
           /\ NextRow(s).date \in Date
           /\ session[s].planned \subseteq DOMAIN Rows(s)
           /\ session[s].rejected \subseteq DOMAIN Rows(s)
           /\ \A d \in Date : session[s].seen[d] \subseteq Of(entries \cup pending[s], d)
<1>1. /\ session[s] \in Request /\ session[s].next \in Nat
      /\ session[s].next \in DOMAIN Rows(s) /\ NextRow(s).date \in Date
      /\ DOMAIN Rows(s) = 1..Len(Rows(s)) /\ Rows(s) \in Seq(Row)
  BY RowFacts DEF NextRow
<1>2. session[s].next <= Len(session[s].payload.rows)
  BY <1>1 DEF Rows
<1> QED
  BY <1>1, <1>2 DEF IInv, Serves, Sees, Imports

LEMMA RejectRowGood ==
    ASSUME IInv, NEW s \in Session, session[s].state \in {"rows", "insert"}, ~AllRead(s),
           RejectRow(s), entries' = entries
    PROVE  Good(s)'
<1> DEFINE q == session[s]
<1>1. CASE q.payload.partial
  <2> DEFINE new == [q EXCEPT !.rejected = @ \cup {q.next}, !.next = @ + 1, !.state = "rows"]
  <2>1. session' = [session EXCEPT ![s] = new] /\ pending' = pending
    BY <1>1 DEF RejectRow
  <2>2. q.rejected \cup {q.next} \in SUBSET Nat /\ q.next + 1 \in Nat \ {0}
    <3>1. q.next \in Nat /\ q \in Request
      BY LoopFacts
    <3>2. q.rejected \in SUBSET Nat
      BY <3>1 DEF Request
    <3> HIDE DEF q
    <3> QED
      BY <3>1, <3>2
  <2>3. /\ new \in Request /\ new.state = "rows" /\ new.payload = q.payload
        /\ new.key = q.key /\ new.seen = q.seen
        /\ new.planned = q.planned /\ new.rejected = q.rejected \cup {q.next}
    <3>1. q \in Request
      BY LoopFacts
    <3>2. new.state = "rows" /\ new.payload = q.payload /\ new.key = q.key /\ new.seen = q.seen
          /\ new.planned = q.planned /\ new.rejected = q.rejected \cup {q.next}
      BY <3>1 DEF Request
    <3>3. new \in Request
      BY <2>2, <3>1 DEF Request
    <3> QED
      BY <3>2, <3>3
  <2> HIDE DEF new
  <2>4. GoesOn(s, new) /\ Fits(new) /\ ~SavepointCommits(new)
    BY <2>1, <2>3, LoopFacts DEF GoesOn, Fits, Imports, SavepointCommits
  <2> QED
    BY <2>1, <2>3, <2>4, LoopFacts, GoesOnGood
<1>2. CASE ~q.payload.partial
  <2> DEFINE new == [q EXCEPT !.state = "failing"]
  <2>1. session' = [session EXCEPT ![s] = new] /\ pending'[s] = {}
    BY <1>2 DEF RejectRow, IInv, TypeOK
  <2>2. /\ new \in Request /\ new.state = "failing" /\ new.payload = q.payload
        /\ new.key = q.key
        /\ new.planned = q.planned /\ new.rejected = q.rejected
    BY LoopFacts DEF Request
  <2> HIDE DEF new
  <2>3. GoesOn(s, new) /\ Fits(new)
    BY <2>1, <2>2, LoopFacts DEF GoesOn, Fits, Imports
  <2> QED
    BY <2>1, <2>2, <2>3, GoesOnGood
<1> QED
  BY <1>1, <1>2

LEMMA ReadFileRowGood ==
    ASSUME IInv, NEW s \in Session, ReadFileRow(s)
    PROVE  Good(s)'
<1> DEFINE q == session[s]
           row == NextRow(s)
           found == Of(entries \cup pending[s], row.date)
           new == [q EXCEPT !.state = "insert", !.seen[row.date] = found]
<1>1. q.state = "rows" /\ ~AllRead(s) /\ entries' = entries
  BY DEF ReadFileRow
<1>2. CASE RejectRow(s)
  BY <1>1, <1>2, RejectRowGood
<1>3. CASE session' = [session EXCEPT ![s] = new] /\ pending' = pending
  <2>1. found \in SUBSET Entry
    BY DEF IInv, TypeOK, Of
  <2>2. row.date \in Date /\ q \in Request
    BY <1>1, LoopFacts
  <2> HIDE DEF found
  <2>3. [q.seen EXCEPT ![row.date] = found] \in [Date -> SUBSET Entry]
    BY <2>1, <2>2 DEF Request
  <2>4. /\ new \in Request /\ new.state = "insert" /\ new.payload = q.payload
        /\ new.key = q.key /\ new.planned = q.planned /\ new.rejected = q.rejected
        /\ new.next = q.next /\ new.seen = [q.seen EXCEPT ![row.date] = found]
    BY <2>2, <2>3 DEF Request
  <2> HIDE DEF new
  <2>5. GoesOn(s, new) /\ Fits(new)
    BY <1>1, <1>3, <2>4, LoopFacts DEF GoesOn, Fits, Imports
  <2>6. \A d \in Date : new.seen[d] \subseteq Of(entries \cup pending[s], d)
    <3>1. /\ q.seen \in [Date -> SUBSET Entry]
          /\ \A d \in Date : q.seen[d] \subseteq Of(entries \cup pending[s], d)
      BY <1>1, <2>2, LoopFacts DEF Request
    <3>2. \A d \in Date : new.seen[d] = IF d = row.date THEN found ELSE q.seen[d]
      BY <2>2, <2>4, <3>1
    <3> HIDE DEF q, row
    <3> QED
      BY <3>1, <3>2 DEF found
  <2>7. pending'[s] # {} => ~SavepointCommits(new)
    BY <1>3, <2>4 DEF IInv, Holds, SavepointCommits
  <2> QED
    BY <1>1, <1>3, <2>4, <2>5, <2>6, <2>7, GoesOnGood
<1> QED
  BY <1>2, <1>3 DEF ReadFileRow

LEMMA InsertRowGood ==
    ASSUME IInv, NEW s \in Session, InsertRow(s)
    PROVE  Good(s)'
<1> DEFINE q == session[s]
           row == NextRow(s)
           entry == NewEntry(q.seen[row.date], row, q.stamp, q.key)
           new == [q EXCEPT !.next = @ + 1, !.state = "rows"]
<1>1. q.state = "insert" /\ ~AllRead(s)
  BY DEF InsertRow, IInv, Serves
<1>2. CASE UniqueViolation(entries \cup pending[s], {entry})
  <2>1. RejectRow(s) /\ entries' = entries
    BY <1>2 DEF InsertRow
  <2> QED
    BY <1>1, <2>1, RejectRowGood
<1>3. CASE ~UniqueViolation(entries \cup pending[s], {entry})
  <2>1. /\ session' = [session EXCEPT ![s] = new]
        /\ IF SavepointCommits(q)
           THEN entries' = entries \cup {entry} /\ pending' = pending
           ELSE pending' = [pending EXCEPT ![s] = @ \cup {entry}] /\ entries' = entries
    BY <1>3 DEF InsertRow
  <2> HIDE DEF entry
  <2>2. q.next + 1 \in Nat \ {0} /\ q \in Request
    <3>1. q.next \in Nat /\ q \in Request
      BY <1>1, LoopFacts
    <3> HIDE DEF q
    <3> QED
      BY <3>1
  <2>3. /\ new \in Request /\ new.state = "rows" /\ new.payload = q.payload
        /\ new.key = q.key /\ new.planned = q.planned /\ new.rejected = q.rejected
        /\ new.seen = q.seen
    BY <2>2 DEF Request
  <2> HIDE DEF new
  <2>4. GoesOn(s, new) /\ Fits(new)
    BY <1>1, <2>1, <2>3, LoopFacts DEF GoesOn, Fits, Imports
  <2>5. entries \cup pending[s] \subseteq entries' \cup pending'[s]
    BY <2>1 DEF IInv, TypeOK
  <2>6. \A d \in Date : new.seen[d] \subseteq Of(entries' \cup pending'[s], d)
    BY <1>1, <2>3, <2>5, LoopFacts DEF Of
  <2>7. pending'[s] # {} => ~SavepointCommits(new)
    BY <2>1, <2>3 DEF IInv, Holds, SavepointCommits
  <2> QED
    BY <2>3, <2>4, <2>6, <2>7, GoesOnGood
<1> QED
  BY <1>2, <1>3

LEMMA ActorGood ==
    ASSUME IInv, NEW s \in Session, Acts(s)
    PROVE  Good(s)'
<1>1. CASE Replay(s)
  BY <1>1, ReadingFacts, AnswerGood DEF Replay, IInv
<1>2. CASE Refuse(s)
  BY <1>2, ReadingFacts, AnswerGood DEF Refuse, IInv
<1>3. CASE Commit(s)
  BY <1>3, ReadingFacts, AnswerGood DEF Commit, CanWrite, IInv
<1>4. CASE Conflict(s)
  BY <1>4, ReadingFacts, AnswerGood DEF Conflict, CanWrite, IInv
<1>5. CASE FinishImport(s)
  <2>1. pending'[s] = {} /\ Answer(s, "imported")
    BY <1>5 DEF FinishImport, IInv, TypeOK
  <2> QED
    BY <2>1, AnswerGood DEF IInv
<1>6. CASE RecordFailure(s)
  BY <1>6, ReadingFacts, AnswerGood DEF RecordFailure, IInv
<1>7. CASE Interrupt(s)
  <2>1. pending'[s] = {} /\ Answer(s, "error")
    BY <1>7 DEF Interrupt, IInv, TypeOK
  <2> QED
    BY <2>1, AnswerGood DEF IInv
<1> QED
  BY <1>1, <1>2, <1>3, <1>4, <1>5, <1>6, <1>7, SendGood, StartImportGood, ReadRowGood,
     StampGood, ReadObservationGood, OpenBatchGood, ReadFileRowGood, InsertRowGood
  DEF Acts, Handle

-----------------------------------------------------------------------------
(* The rest of a step. *)

LEMMA SessionFrame ==
    ASSUME IInv, NEW s \in Session, Acts(s)
    PROVE  \E new : session' = [session EXCEPT ![s] = new]
<1>1. CASE Send(s)
  BY <1>1 DEF Send
<1>2. CASE \/ Replay(s) \/ StartImport(s) \/ ReadRow(s) \/ Stamp(s) \/ Refuse(s)
           \/ ReadObservation(s) \/ Commit(s) \/ Conflict(s)
           \/ FinishImport(s) \/ RecordFailure(s) \/ Interrupt(s)
  BY <1>2
  DEF Replay, StartImport, ReadRow, Stamp, Refuse, ReadObservation, Commit, Conflict,
      FinishImport, RecordFailure, Interrupt, Answer
<1>3. CASE OpenBatch(s)
  BY <1>3 DEF OpenBatch, Answer
<1>4. CASE ReadFileRow(s) \/ InsertRow(s)
  BY <1>4 DEF ReadFileRow, InsertRow, RejectRow
<1> QED
  BY <1>1, <1>2, <1>3, <1>4 DEF Acts, Handle

(* What a request has planned or rejected is no more than its rows. *)
LEMMA Counts ==
    ASSUME IInv, NEW s \in Session, session[s].state # "idle"
    PROVE  /\ Len(Rows(s)) \in Nat
           /\ Cardinality(session[s].planned) \in Nat
           /\ Cardinality(session[s].rejected) \in Nat
           /\ Len(Rows(s)) - Cardinality(session[s].rejected) \in Nat
<1> DEFINE n == Len(Rows(s))
<1>1. n \in Nat /\ DOMAIN Rows(s) = 1..n
  BY RowFacts
<1>2. IsFiniteSet(1..n) /\ Cardinality(1..n) = n
  <2> HIDE DEF n
  <2>1. n \in Int /\ 1 \in Int
    BY <1>1
  <2>2. IsFiniteSet(1..n) /\ Cardinality(1..n) = IF 1 > n THEN 0 ELSE n - 1 + 1
    BY <2>1, FS_Interval
  <2> QED
    BY <1>1, <2>2
<1>3. session[s].planned \in SUBSET (1..n) /\ session[s].rejected \in SUBSET (1..n)
  BY <1>1 DEF IInv, Serves
<1>4. IsFiniteSet(session[s].planned) /\ IsFiniteSet(session[s].rejected)
  BY <1>2, <1>3, FS_Subset
<1>5. Cardinality(session[s].rejected) <= n
  BY <1>2, <1>3, FS_Subset
<1> QED
  BY <1>1, <1>4, <1>5, FS_CardinalityType

LEMMA BatchTyped ==
    ASSUME IInv, NEW s \in Session, Acts(s)
    PROVE  batch' \in [ImportKey -> Batch]
<1> DEFINE q == session[s]
<1>1. batch \in [ImportKey -> Batch]
  BY DEF IInv, TypeOK
<1>2. ASSUME NEW b \in Batch, batch' = [batch EXCEPT ![q.key] = b]
      PROVE  batch' \in [ImportKey -> Batch]
  BY <1>1, <1>2
<1>3. CASE Commit(s)
  <2>1. q.state # "idle" /\ q.payload \in Payload
    BY <1>3, RowFacts DEF Commit, CanWrite
  <2>2. SyncBatch(q) \in Batch
    BY <2>1, Counts DEF SyncBatch, NoBatch, Batch, BatchStatus
  <2> QED
    BY <1>1, <1>2, <1>3, <2>2 DEF Commit
<1>4. CASE OpenBatch(s)
  <2> DEFINE b == [NoBatch EXCEPT !.status = "processing", !.payload = q.payload,
                     !.rows = Len(Rows(s)), !.rejected = Len(Rows(s))]
  <2>1. q.state # "idle" /\ q.payload \in Payload
    BY <1>4, RowFacts DEF OpenBatch
  <2>2. b \in Batch
    BY <2>1, Counts DEF NoBatch, Batch, BatchStatus
  <2> QED
    BY <1>1, <1>2, <1>4, <2>2 DEF OpenBatch
<1>5. CASE FinishImport(s)
  <2> DEFINE rejected == Cardinality(q.rejected)
             b == [batch[q.key] EXCEPT
                     !.accepted = Len(Rows(s)) - rejected, !.rejected = rejected,
                     !.errors = q.rejected,
                     !.status = IF rejected = 0 THEN "completed" ELSE "completed_with_errors"]
  <2>1. q.state = "rows" /\ batch' = [batch EXCEPT ![q.key] = b]
    BY <1>5 DEF FinishImport
  <2>2. /\ rejected \in Nat /\ Len(Rows(s)) - rejected \in Nat
        /\ q.rejected \in SUBSET Nat
    BY <2>1, Counts DEF IInv, TypeOK, Request
  <2>3. q.key \in ImportKey
    BY <2>1 DEF IInv, Serves, Imports
  <2>4. batch[q.key] \in Batch
    BY <1>1, <2>3
  <2>5. (IF rejected = 0 THEN "completed" ELSE "completed_with_errors") \in BatchStatus
    BY DEF BatchStatus
  <2> HIDE DEF rejected
  <2>6. b \in Batch
    BY <2>2, <2>4, <2>5 DEF Batch
  <2> HIDE DEF b, q
  <2> QED
    BY <1>1, <2>1, <2>6
<1>6. CASE RecordFailure(s)
  <2> DEFINE b == [batch[q.key] EXCEPT !.status = "failed", !.accepted = 0,
                     !.rejected = batch[q.key].rows, !.errors = {q.next}]
  <2>1. q.state = "failing" /\ batch' = [batch EXCEPT ![q.key] = b]
    BY <1>6 DEF RecordFailure
  <2>2. q.key \in ImportKey /\ {q.next} \in SUBSET Nat
    BY <2>1, RowFacts DEF IInv, Serves, Imports
  <2>3. b \in Batch
    BY <1>1, <2>2 DEF Batch, BatchStatus
  <2> HIDE DEF b, q
  <2> QED
    BY <1>1, <2>1, <2>3
<1>7. CASE \/ Send(s) \/ Replay(s) \/ StartImport(s) \/ ReadRow(s) \/ Stamp(s) \/ Refuse(s)
           \/ ReadObservation(s) \/ Conflict(s) \/ ReadFileRow(s) \/ InsertRow(s)
           \/ Interrupt(s)
  BY <1>1, <1>7
  DEF Send, Replay, StartImport, ReadRow, Stamp, Refuse, ReadObservation, Conflict,
      ReadFileRow, InsertRow, Interrupt
<1> QED
  BY <1>3, <1>4, <1>5, <1>6, <1>7 DEF Acts, Handle

LEMMA OthersTyped ==
    ASSUME IInv, NEW s \in Session, Acts(s)
    PROVE  now' \in Nat /\ sent' \in Nat /\ issues' \in SUBSET Issue
<1>1. now \in Nat /\ sent \in Nat /\ issues \in SUBSET Issue
  BY DEF IInv, TypeOK
<1>2. CASE Send(s)
  BY <1>1, <1>2 DEF Send
<1>3. CASE Refuse(s)
  <2>1. NextRow(s).date \in Date /\ session[s].next \in Nat
    <3>1. session[s].state = "check"
      BY <1>3 DEF Refuse
    <3>2. session[s].next = 1 /\ Len(Rows(s)) = 1
      BY <3>1, StoreAssumption DEF IInv, Serves, StoreAssumption, Rows
    <3> QED
      BY <3>1, <3>2, RowFacts DEF NextRow
  <2> QED
    BY <1>1, <1>3, <2>1 DEF Refuse, Issue
<1>4. CASE FinishImport(s)
  <2>1. session[s].state = "rows" /\ session[s].key \in ImportKey
    BY <1>4 DEF FinishImport, IInv, Serves, Imports
  <2>2. session[s].rejected \subseteq DOMAIN Rows(s)
    BY <2>1 DEF IInv, Serves
  <2>3. \A i \in session[s].rejected : i \in Nat /\ Rows(s)[i].date \in Date
    BY <2>1, <2>2, RowFacts
  <2>4. RowIssues(s) \subseteq Issue
    BY <2>1, <2>3 DEF RowIssues, Issue
  <2> QED
    BY <1>1, <1>4, <2>4 DEF FinishImport
<1>5. CASE \/ Replay(s) \/ StartImport(s) \/ ReadRow(s) \/ Stamp(s)
           \/ ReadObservation(s) \/ Commit(s) \/ Conflict(s) \/ OpenBatch(s)
           \/ ReadFileRow(s) \/ InsertRow(s) \/ RecordFailure(s) \/ Interrupt(s)
  BY <1>1, <1>5
  DEF Replay, StartImport, ReadRow, Stamp, ReadObservation, Commit, Conflict, OpenBatch,
      ReadFileRow, InsertRow, RecordFailure, Interrupt
<1> QED
  BY <1>2, <1>3, <1>4, <1>5 DEF Acts, Handle

-----------------------------------------------------------------------------
LEMMA IInvInit == Init => IInv
<1> SUFFICES ASSUME Init PROVE IInv
  OBVIOUS
<1>1. Idle("none") \in Request
  BY DEF Idle, Request
<1>2. NoBatch \in Batch
  BY DEF NoBatch, Batch, BatchStatus
<1>3. TypeOK
  BY <1>1, <1>2 DEF Init, TypeOK
<1>4. Chained(entries) /\ \A s \in Session : Chained(entries \cup pending[s])
  <2>1. \A d : Of({}, d) = {}
    BY DEF Of
  <2>2. entries = {} /\ \A s \in Session : entries \cup pending[s] = {}
    BY DEF Init
  <2> QED
    BY <2>1, <2>2, EmptyChain DEF Chained
<1>5. ASSUME NEW s \in Session PROVE Serves(s) /\ Holds(s) /\ Sees(s)
  BY DEF Init, Idle, Serves, Holds, Sees, Imports
<1>6. Apart
  BY DEF Init, Apart
<1> QED
  BY <1>3, <1>4, <1>5, <1>6 DEF IInv

LEMMA ActorStep ==
    ASSUME IInv, NEW s \in Session, Acts(s)
    PROVE  IInv'
<1>1. Changes(s) /\ Good(s)'
  BY ActorChanges, ActorGood
<1>2. /\ entries' \in SUBSET Entry /\ pending' \in [Session -> SUBSET Entry]
      /\ entries \subseteq entries'
      /\ Chained(entries') /\ \A t \in Session : Chained(entries' \cup pending'[t])
      /\ Apart'
      /\ \A t \in Session \ {s} : pending'[t] = pending[t]
  BY <1>1, ChainStep
<1>3. PICK new : session' = [session EXCEPT ![s] = new]
  BY SessionFrame
<1>4. session \in [Session -> Request]
  BY DEF IInv, TypeOK
<1>5. session' \in [Session -> Request] /\ \A t \in Session \ {s} : session'[t] = session[t]
  <2>1. session'[s] = new /\ new \in Request
    BY <1>1, <1>3, <1>4 DEF Good
  <2> QED
    BY <1>3, <1>4, <2>1
<1>6. TypeOK'
  BY <1>2, <1>5, BatchTyped, OthersTyped DEF TypeOK
<1>7. ASSUME NEW t \in Session PROVE (Serves(t) /\ Holds(t) /\ Sees(t))'
  <2>1. CASE t = s
    BY <1>1, <2>1 DEF Good
  <2>2. CASE t # s
    <3>1. session'[t] = session[t] /\ pending'[t] = pending[t]
      BY <1>2, <1>5, <2>2
    <3>2. Serves(t)' /\ Holds(t)'
      BY <3>1 DEF IInv, Serves, Holds, Rows, AllRead
    <3>3. Sees(t)'
      BY <1>2, <3>1 DEF IInv, Sees, Of
    <3> QED
      BY <3>2, <3>3
  <2> QED
    BY <2>1, <2>2
<1> QED
  BY <1>2, <1>6, <1>7 DEF IInv

LEMMA IInvStep == IInv /\ [Next]_vars => IInv'
<1> SUFFICES ASSUME IInv, [Next]_vars PROVE IInv'
  OBVIOUS
<1>1. CASE UNCHANGED <<entries, batch, issues, session, pending, sent>> /\ now' \in Nat
  <2>1. TypeOK' /\ Chained(entries')
    BY <1>1 DEF IInv, TypeOK
  <2>2. \A s \in Session : Chained(entries' \cup pending'[s])
    BY <1>1 DEF IInv
  <2>3. ASSUME NEW s \in Session PROVE (Serves(s) /\ Holds(s) /\ Sees(s))'
    <3>1. Serves(s)'
      BY <1>1 DEF IInv, Serves, Rows, AllRead
    <3>2. Holds(s)' /\ Sees(s)'
      BY <1>1 DEF IInv, Holds, Sees
    <3> QED
      BY <3>1, <3>2
  <2>4. Apart'
    BY <1>1 DEF IInv, Apart
  <2> QED
    BY <2>1, <2>2, <2>3, <2>4 DEF IInv
<1>2. CASE Tick
  BY <1>1, <1>2 DEF Tick, IInv, TypeOK
<1>3. CASE UNCHANGED vars
  BY <1>1, <1>3 DEF vars, IInv, TypeOK
<1> QED
  BY <1>2, <1>3, ActorStep DEF Next, Acts, BreakDeadlock

LEMMA IInvAlways == Spec => []IInv
BY IInvInit, IInvStep, PTL DEF Spec

(* Every variable keeps its type. *)
THEOREM TypeCorrect == Spec => []TypeOK
<1>1. IInv => TypeOK
  BY DEF IInv
<1> QED
  BY <1>1, IInvAlways, PTL

(* Whatever requests overlap, and wherever one is cut short: the entries   *)
(* of a date count from 0 without a gap or a duplicate, and each revision  *)
(* names the value it replaced, as committed and as a transaction sees it. *)
THEOREM ChainAlways == Spec => []ChainIsLinked
<1>1. IInv => ChainIsLinked
  BY DEF IInv, ChainIsLinked, Chained, Chain, Linked
<1> QED
  BY <1>1, IInvAlways, PTL

-----------------------------------------------------------------------------
(* Timestamps: what a request holds has the timestamp that it read. *)

HeldStamps == \A s \in Session : \A e \in pending[s] : e.stamp = session[s].stamp

(* A rejected row leaves the timestamp, and adds nothing to a transaction. *)
LEMMA RejectKeepsStamp ==
    ASSUME IInv, NEW s \in Session, RejectRow(s)
    PROVE  session'[s].stamp = session[s].stamp /\ pending'[s] \subseteq pending[s]
<1>1. session \in [Session -> Request] /\ pending \in [Session -> SUBSET Entry]
  BY DEF IInv, TypeOK
<1>2. CASE session[s].payload.partial
  <2>1. /\ session' = [session EXCEPT ![s] =
             [session[s] EXCEPT !.rejected = @ \cup {session[s].next},
                                !.next = @ + 1, !.state = "rows"]]
        /\ pending' = pending
    BY <1>2 DEF RejectRow
  <2> QED
    BY <1>1, <2>1 DEF Request
<1>3. CASE ~session[s].payload.partial
  <2>1. /\ session' = [session EXCEPT ![s].state = "failing"]
        /\ pending' = [pending EXCEPT ![s] = {}]
    BY <1>3 DEF RejectRow
  <2> QED
    BY <1>1, <2>1 DEF Request
<1> QED
  BY <1>2, <1>3

LEMMA HeldStampsActor ==
    ASSUME IInv, HeldStamps, NEW s \in Session, Acts(s), NEW e \in pending'[s]
    PROVE  e.stamp = session'[s].stamp
<1> USE DEF IInv, TypeOK
<1>1. CASE session[s].state \notin {"rows", "insert"}
  <2>1. pending[s] = {}
    BY <1>1, ReadingFacts
  <2>2. pending'[s] = {}
    BY <1>1, <2>1
    DEF Acts, Handle, Send, Replay, StartImport, ReadRow, Stamp, Refuse, ReadObservation,
        Commit, Conflict, OpenBatch, ReadFileRow, InsertRow, FinishImport, RecordFailure,
        Interrupt
  <2> QED
    BY <2>2
<1>2. CASE ReadFileRow(s)
  <2> DEFINE found == Of(entries \cup pending[s], NextRow(s).date)
  <2>1. \/ RejectRow(s)
        \/ /\ session' = [session EXCEPT ![s] =
                [session[s] EXCEPT !.state = "insert", !.seen[NextRow(s).date] = found]]
           /\ pending' = pending
    BY <1>2 DEF ReadFileRow
  <2>2. CASE RejectRow(s)
    BY <2>2, RejectKeepsStamp DEF HeldStamps
  <2>3. CASE ~RejectRow(s)
    <3>1. session'[s].stamp = session[s].stamp
      <4>1. session[s] \in Request
        OBVIOUS
      <4>2. session'[s] = [session[s] EXCEPT !.state = "insert", !.seen[NextRow(s).date] = found]
        BY <2>1, <2>3
      <4> HIDE DEF found
      <4> QED
        BY <4>1, <4>2 DEF Request
    <3> QED
      BY <2>1, <2>3, <3>1 DEF HeldStamps
  <2> QED
    BY <2>2, <2>3
<1>3. CASE InsertRow(s)
  <2> DEFINE new == NewEntry(session[s].seen[NextRow(s).date], NextRow(s),
                             session[s].stamp, session[s].key)
  <2>1. new.stamp = session[s].stamp
    BY DEF NewEntry
  <2>2. CASE UniqueViolation(entries \cup pending[s], {new})
    <3>1. RejectRow(s)
      BY <1>3, <2>2 DEF InsertRow
    <3> QED
      BY <3>1, RejectKeepsStamp DEF HeldStamps
  <2>3. CASE ~UniqueViolation(entries \cup pending[s], {new})
    <3>1. /\ session' = [session EXCEPT ![s] =
               [session[s] EXCEPT !.next = @ + 1, !.state = "rows"]]
          /\ pending' = pending \/ pending' = [pending EXCEPT ![s] = @ \cup {new}]
      BY <1>3, <2>3 DEF InsertRow
    <3>2. session'[s].stamp = session[s].stamp
      BY <3>1 DEF Request
    <3>3. e \in pending[s] \/ e = new
      BY <3>1
    <3> HIDE DEF new
    <3> QED
      BY <2>1, <3>2, <3>3 DEF HeldStamps
  <2> QED
    BY <2>2, <2>3
<1>4. CASE FinishImport(s) \/ Interrupt(s)
  BY <1>4 DEF FinishImport, Interrupt
<1>5. CASE \/ Send(s) \/ Replay(s) \/ StartImport(s) \/ ReadRow(s) \/ Stamp(s) \/ Refuse(s)
           \/ ReadObservation(s) \/ Commit(s) \/ Conflict(s) \/ OpenBatch(s) \/ RecordFailure(s)
  BY <1>1, <1>5
  DEF Send, Replay, StartImport, ReadRow, Stamp, Refuse, ReadObservation, Commit, Conflict,
      CanWrite, OpenBatch, RecordFailure
<1> QED
  BY <1>2, <1>3, <1>4, <1>5 DEF Acts, Handle

LEMMA HeldStampsStep == IInv /\ HeldStamps /\ [Next]_vars => HeldStamps'
<1> SUFFICES ASSUME IInv, HeldStamps, [Next]_vars PROVE HeldStamps'
  OBVIOUS
<1>1. CASE Tick \/ UNCHANGED vars
  BY <1>1 DEF Tick, vars, HeldStamps
<1>2. ASSUME NEW s \in Session, Acts(s), NEW t \in Session, NEW e \in pending'[t]
      PROVE  e.stamp = session'[t].stamp
  <2>1. CASE t = s
    BY <1>2, <2>1, HeldStampsActor
  <2>2. CASE t # s
    <3>1. pending'[t] = pending[t]
      BY <1>2, <2>2, ActorChanges, ChainStep
    <3>2. session'[t] = session[t]
      BY <1>2, <2>2, SessionFrame DEF IInv, TypeOK
    <3> QED
      BY <1>2, <3>1, <3>2 DEF HeldStamps
  <2> QED
    BY <2>1, <2>2
<1> QED
  BY <1>1, <1>2 DEF Next, Acts, BreakDeadlock, HeldStamps

(* What a step commits has the timestamp of the request that commits it. *)
LEMMA CommittedStamps ==
    ASSUME IInv, HeldStamps, NEW s \in Session, Acts(s), NEW e \in entries' \ entries
    PROVE  /\ session[s].state \in {"write", "rows", "insert"}
           /\ e.stamp = session[s].stamp
<1>1. CASE Commit(s)
  <2>1. PICK again \in SUBSET MayReread(s) : entries' = entries \cup Written(s, again)
    BY <1>1 DEF Commit
  <2>2. PICK i \in session[s].planned :
          e = NewEntry(IF i \in again THEN Of(entries, Rows(s)[i].date)
                       ELSE session[s].seen[Rows(s)[i].date],
                       Rows(s)[i], session[s].stamp, session[s].key)
    BY <2>1 DEF Written
  <2>3. e.stamp = session[s].stamp
    BY <2>2 DEF NewEntry
  <2> QED
    BY <1>1, <2>3 DEF Commit, CanWrite
<1>2. CASE InsertRow(s)
  BY <1>2 DEF InsertRow, NewEntry
<1>3. CASE FinishImport(s)
  BY <1>3 DEF FinishImport, HeldStamps
<1>4. CASE \/ Send(s) \/ Replay(s) \/ StartImport(s) \/ ReadRow(s) \/ Stamp(s) \/ Refuse(s)
           \/ ReadObservation(s) \/ Conflict(s) \/ OpenBatch(s) \/ ReadFileRow(s)
           \/ RecordFailure(s) \/ Interrupt(s)
  BY <1>4
  DEF Send, Replay, StartImport, ReadRow, Stamp, Refuse, ReadObservation, Conflict,
      OpenBatch, ReadFileRow, RecordFailure, Interrupt
<1> QED
  BY <1>1, <1>2, <1>3, <1>4 DEF Acts, Handle

LEMMA ReadsAreStable ==
    ASSUME IInv, HeldStamps, [Next]_vars,
           NEW d \in Date, NEW cutoff \in 0..(now - 1),
           \A s \in Session : ~Stamped(s, cutoff)
    PROVE  AsOf(entries', d, cutoff) = AsOf(entries, d, cutoff)
<1>1. entries \subseteq entries' /\ \A e \in entries' \ entries : ~(e.stamp <= cutoff)
  <2>1. CASE Tick \/ UNCHANGED vars
    BY <2>1 DEF Tick, vars
  <2>2. ASSUME NEW s \in Session, Acts(s)
        PROVE  entries \subseteq entries' /\ \A e \in entries' \ entries : ~(e.stamp <= cutoff)
    <3>1. entries \subseteq entries'
      BY <2>2, ActorChanges, ChainStep
    <3>2. ASSUME NEW e \in entries' \ entries PROVE ~(e.stamp <= cutoff)
      <4>1. session[s].state \in {"write", "rows", "insert"} /\ e.stamp = session[s].stamp
        BY <2>2, CommittedStamps
      <4> QED
        BY <4>1 DEF Stamped
    <3> QED
      BY <3>1, <3>2
  <2> QED
    BY <2>1, <2>2 DEF Next, Acts, BreakDeadlock
<1>2. {e \in Of(entries', d) : e.stamp <= cutoff} = {e \in Of(entries, d) : e.stamp <= cutoff}
  BY <1>1 DEF Of
<1> QED
  BY <1>2 DEF AsOf

(* What was known at a moment in the past does not change, once the        *)
(* requests that had read their timestamp by then have been answered.      *)
THEOREM ReadsSettle == Spec => SettledReadsAreStable
<1>1. Init => HeldStamps
  BY DEF Init, HeldStamps
<1>2. IInv /\ HeldStamps /\ [Next]_vars
        => [\A d \in Date, cutoff \in 0..(now - 1) :
              (\A s \in Session : ~Stamped(s, cutoff)) =>
                AsOf(entries', d, cutoff) = AsOf(entries, d, cutoff)]_vars
  BY ReadsAreStable
<1> QED
  BY <1>1, <1>2, HeldStampsStep, IInvAlways, PTL DEF Spec, SettledReadsAreStable

-----------------------------------------------------------------------------
(* Synchronizations: what one has read of a date and not planned was the   *)
(* provider's value already.                                               *)
Compared(s) ==
    LET q == session[s] IN
    /\ q.state = "lookup" => q.next = 1
    /\ q.state \in {"read", "write"} /\ q.payload.kind = "sync" =>
         /\ q.state = "write" => AllRead(s)
         /\ \A i \in DOMAIN Rows(s) : i < q.next /\ i \notin q.planned =>
              ~Differs(q.seen[Rows(s)[i].date], Rows(s)[i])

AllCompared == \A s \in Session : Compared(s)

LEMMA ReadRowCompared ==
    ASSUME IInv, NEW s \in Session, Compared(s), ReadRow(s)
    PROVE  Compared(s)'
<1> DEFINE q == session[s]
           row == NextRow(s)
           found == Of(entries, row.date)
           planned == IF Differs(found, row) THEN q.planned \cup {q.next} ELSE q.planned
           new == [q EXCEPT !.seen[row.date] = found, !.next = @ + 1, !.planned = planned]
<1>1. q.state = "read" /\ ~AllRead(s) /\ session' = [session EXCEPT ![s] = new]
  BY DEF ReadRow
<1>2. /\ q \in Request /\ q.payload.kind = "sync" /\ row.date \in Date
      /\ q.next \in Nat /\ q.next \in DOMAIN Rows(s) /\ q.payload \in Payload
      /\ row = Rows(s)[q.next]
  BY <1>1, RowFacts DEF IInv, TypeOK, Serves, NextRow
<1>3. \A i \in DOMAIN Rows(s) : i \in Nat
  BY <1>1, RowFacts
<1>4. \A i \in DOMAIN Rows(s) : i < q.next => Rows(s)[i].date # row.date
  <2>1. \A i \in DOMAIN Rows(s) : i < q.next => Rows(s)[i].date < row.date
    BY <1>2, StoreAssumption DEF StoreAssumption, Rows
  <2>2. \A i \in DOMAIN Rows(s) : Rows(s)[i].date \in Nat
    BY <1>1, RowFacts, StoreAssumption DEF StoreAssumption
  <2>3. row.date \in Nat
    BY <1>2, StoreAssumption DEF StoreAssumption
  <2> HIDE DEF row, q
  <2> QED
    BY <2>1, <2>2, <2>3
<1>5. \A i \in DOMAIN Rows(s) : i < q.next /\ i \notin q.planned =>
        ~Differs(q.seen[Rows(s)[i].date], Rows(s)[i])
  BY <1>1, <1>2 DEF Compared
<1> HIDE DEF found, planned
<1>6. session'[s] = new
  BY <1>1 DEF IInv, TypeOK
<1>7. /\ new.state = "read" /\ new.payload = q.payload /\ new.planned = planned
      /\ new.seen = [q.seen EXCEPT ![row.date] = found] /\ new.next = q.next + 1
      /\ q.seen \in [Date -> SUBSET Entry]
  <2> HIDE DEF row
  <2> QED
    BY <1>1, <1>2 DEF Request
<1> HIDE DEF new
<1>8. ASSUME NEW i \in DOMAIN Rows(s), i < q.next + 1, i \notin planned
      PROVE  ~Differs(new.seen[Rows(s)[i].date], Rows(s)[i])
  <2>1. CASE i = q.next
    <3>1. ~Differs(found, row)
      BY <1>8, <2>1 DEF planned
    <3> HIDE DEF row
    <3> QED
      BY <1>2, <1>7, <2>1, <3>1
  <2>2. CASE i # q.next
    <3>1. i < q.next /\ i \notin q.planned
      BY <1>2, <1>3, <1>8, <2>2 DEF planned
    <3>2. Rows(s)[i].date # row.date /\ Rows(s)[i].date \in Date
      BY <1>1, <1>4, <3>1, RowFacts
    <3>3. new.seen[Rows(s)[i].date] = q.seen[Rows(s)[i].date]
      BY <1>2, <1>7, <3>2
    <3> QED
      BY <1>5, <3>1, <3>3
  <2> QED
    BY <2>1, <2>2
<1>9. Rows(s)' = Rows(s)
  BY <1>6, <1>7 DEF Rows
<1> QED
  BY <1>6, <1>7, <1>8, <1>9 DEF Compared

LEMMA ActorCompared ==
    ASSUME IInv, NEW s \in Session, Compared(s), Acts(s)
    PROVE  Compared(s)'
<1> DEFINE q == session[s]
<1>1. session \in [Session -> Request] /\ q \in Request
  BY DEF IInv, TypeOK
<1>2. ASSUME NEW answer, Answer(s, answer) PROVE Compared(s)'
  BY <1>1, <1>2 DEF Answer, Idle, Compared
<1>3. CASE Send(s)
  <2>1. PICK p \in Payload : \E k \in KeysFor(p) : session' = [session EXCEPT ![s] =
           [Idle("none") EXCEPT !.payload = p, !.key = k,
              !.state = IF p.kind = "manual" THEN "stamp" ELSE "lookup"]]
    BY <1>3 DEF Send
  <2>2. session'[s].state \in {"stamp", "lookup"} /\ session'[s].next = 1
    BY <1>1, <2>1 DEF Idle
  <2> QED
    BY <2>2 DEF Compared
<1>4. CASE StartImport(s)
  <2>1. q.state = "lookup" /\ q.next = 1
    BY <1>4 DEF StartImport, Compared
  <2>2. session'[s].next = 1 /\ session'[s].state \in {"read", "open"}
    <3>1. CASE q.payload.kind = "sync"
      <4>1. session' = [session EXCEPT ![s] = [q EXCEPT !.state = "read"]]
        BY <1>4, <3>1 DEF StartImport
      <4> QED
        BY <1>1, <2>1, <4>1 DEF Request
    <3>2. CASE q.payload.kind # "sync"
      <4>1. session' = [session EXCEPT ![s] =
                          [q EXCEPT !.state = "open", !.stamp = ClockReading]]
        BY <1>4, <3>2 DEF StartImport
      <4> QED
        BY <1>1, <2>1, <4>1 DEF Request
    <3> QED
      BY <3>1, <3>2
  <2>3. \A i \in DOMAIN Rows(s)' : ~(i < 1)
    <3>1. session'[s].state # "idle" /\ IInv'
      BY <1>4, <2>2, ActorStep DEF Acts, Handle
    <3>2. Rows(s)' \in Seq(Row) /\ DOMAIN Rows(s)' = 1..Len(Rows(s)')
      <4>1. session'[s].payload \in Payload
        BY <3>1 DEF IInv, Serves
      <4>2. Rows(s)' \in Seq(Row)
        BY <4>1, StoreAssumption DEF StoreAssumption, Rows
      <4> QED
        BY <4>2
    <3> QED
      BY <3>2
  <2> QED
    BY <2>2, <2>3 DEF Compared
<1>5. CASE Stamp(s)
  <2> DEFINE new == [q EXCEPT !.stamp = ClockReading,
                       !.state = IF q.state = "read" THEN "write" ELSE "check"]
  <2>1. session'[s] = new /\ (q.state = "read" => AllRead(s))
    BY <1>1, <1>5 DEF Stamp
  <2>2. /\ new.payload = q.payload /\ new.planned = q.planned /\ new.seen = q.seen
        /\ new.next = q.next /\ new.state = IF q.state = "read" THEN "write" ELSE "check"
    BY <1>1 DEF Request
  <2> HIDE DEF new
  <2>3. Rows(s)' = Rows(s)
    BY <2>1, <2>2 DEF Rows
  <2> QED
    BY <2>1, <2>2, <2>3 DEF Compared, AllRead
<1>6. CASE ReadObservation(s)
  <2>1. session'[s].state = "write" /\ session'[s].payload = q.payload
    BY <1>1, <1>6 DEF ReadObservation, Request
  <2>2. q.payload.kind = "manual"
    BY <1>6 DEF ReadObservation, IInv, Serves
  <2> QED
    BY <2>1, <2>2 DEF Compared
<1>7. CASE OpenBatch(s)
  <2>1. CASE KeyTaken(q.key)
    BY <1>2, <1>7, <2>1 DEF OpenBatch
  <2>2. CASE ~KeyTaken(q.key)
    <3>1. session'[s].state = "rows"
      BY <1>1, <1>7, <2>2 DEF OpenBatch, Request
    <3> QED
      BY <3>1 DEF Compared
  <2> QED
    BY <2>1, <2>2
<1>8. ASSUME RejectRow(s) PROVE session'[s].state \in {"rows", "failing"}
  <2>1. CASE q.payload.partial
    <3> DEFINE new == [q EXCEPT !.rejected = @ \cup {q.next}, !.next = @ + 1, !.state = "rows"]
    <3>1. session'[s] = new
      BY <1>1, <1>8, <2>1 DEF RejectRow
    <3>2. new.state = "rows"
      BY <1>1 DEF Request
    <3> QED
      BY <3>1, <3>2
  <2>2. CASE ~q.payload.partial
    BY <1>1, <1>8, <2>2 DEF RejectRow, Request
  <2> QED
    BY <2>1, <2>2
<1>9. CASE ReadFileRow(s) \/ InsertRow(s)
  <2>1. session'[s].state \in {"rows", "insert", "failing"}
    <3>1. CASE RejectRow(s)
      BY <1>8, <3>1
    <3>2. CASE ReadFileRow(s) /\ ~RejectRow(s)
      <4> DEFINE found == Of(entries \cup pending[s], NextRow(s).date)
                 new == [q EXCEPT !.state = "insert", !.seen[NextRow(s).date] = found]
      <4>1. session'[s] = new
        BY <1>1, <3>2 DEF ReadFileRow
      <4> HIDE DEF found
      <4>2. new.state = "insert"
        BY <1>1 DEF Request
      <4> QED
        BY <4>1, <4>2
    <3>3. CASE InsertRow(s) /\ ~RejectRow(s)
      <4> DEFINE new == [q EXCEPT !.next = @ + 1, !.state = "rows"]
      <4>1. session'[s] = new
        BY <1>1, <3>3 DEF InsertRow
      <4>2. new.state = "rows"
        BY <1>1 DEF Request
      <4> QED
        BY <4>1, <4>2
    <3> QED
      BY <1>9, <3>1, <3>2, <3>3
  <2> QED
    BY <2>1 DEF Compared
<1> QED
  BY <1>2, <1>3, <1>4, <1>5, <1>6, <1>7, <1>9, ReadRowCompared
  DEF Acts, Handle, Replay, Refuse, Commit, Conflict, FinishImport, RecordFailure, Interrupt

LEMMA ComparedStep == IInv /\ AllCompared /\ [Next]_vars => AllCompared'
<1> SUFFICES ASSUME IInv, AllCompared, [Next]_vars, NEW t \in Session PROVE Compared(t)'
  BY DEF AllCompared
<1>1. CASE session'[t] = session[t]
  BY <1>1 DEF AllCompared, Compared, Rows, AllRead
<1>2. CASE Tick \/ UNCHANGED vars
  BY <1>1, <1>2 DEF Tick, vars
<1>3. ASSUME NEW s \in Session, Acts(s) PROVE Compared(t)'
  <2>1. CASE t = s
    BY <1>3, <2>1, ActorCompared DEF AllCompared
  <2>2. CASE t # s
    BY <1>1, <1>3, <2>2, SessionFrame DEF IInv, TypeOK
  <2> QED
    BY <2>1, <2>2
<1> QED
  BY <1>2, <1>3 DEF Next, Acts, BreakDeadlock

(* The entries that a commit writes carry the dates and values of the rows *)
(* that are planned.                                                       *)
LEMMA WrittenRows ==
    ASSUME NEW s, NEW again
    PROVE  /\ \A e \in Written(s, again) : \E i \in session[s].planned :
                /\ e.date = Rows(s)[i].date /\ e.value = Rows(s)[i].value
                /\ e.batch = session[s].key
           /\ \A i \in session[s].planned : \E e \in Written(s, again) :
                e.date = Rows(s)[i].date /\ e.value = Rows(s)[i].value
<1> DEFINE Read(i) == IF i \in again THEN Of(entries, Rows(s)[i].date)
                      ELSE session[s].seen[Rows(s)[i].date]
           New(i) == NewEntry(Read(i), Rows(s)[i], session[s].stamp, session[s].key)
<1>1. Written(s, again) = {New(i) : i \in session[s].planned}
  BY DEF Written
<1>2. ASSUME NEW i \in session[s].planned
      PROVE  /\ New(i).date = Rows(s)[i].date /\ New(i).value = Rows(s)[i].value
             /\ New(i).batch = session[s].key
  BY DEF NewEntry
<1> HIDE DEF New
<1> QED
  BY <1>1, <1>2

(* The last entry of a chain that is continued is the new one. *)
LEMMA LastOfExtended ==
    ASSUME NEW C \in SUBSET Entry, Chain(C), NEW new, Extends(C, new)
    PROVE  Last(C \cup {new}) = new
<1> DEFINE D == C \cup {new}
<1>1. Chain(D) /\ D \in SUBSET Entry /\ D # {}
  BY ChainExtends DEF Extends
<1>2. IsFiniteSet(C) /\ Cardinality(C) \in Nat
  BY FS_CardinalityType DEF Chain
<1>3. new \notin C
  <2>1. \A e \in C : e.sequence \in 0..(Cardinality(C) - 1)
    BY DEF Chain
  <2> QED
    BY <1>2, <2>1 DEF Extends
<1>4. Cardinality(D) - 1 = Cardinality(C)
  <2>1. Cardinality(D) = Cardinality(C) + 1
    BY <1>2, <1>3, FS_AddElement
  <2> QED
    BY <1>2, <2>1
<1>5. Last(D) \in D /\ Last(D).sequence = new.sequence
  <2> HIDE DEF D
  <2> QED
    BY <1>1, <1>4, LastFacts DEF Extends
<1> QED
  BY <1>1, <1>5 DEF Chain

LEMMA SyncCommits ==
    ASSUME IInv, NEW s \in Session, Compared(s), Commit(s), session[s].payload.kind = "sync",
           NEW i \in DOMAIN Rows(s),
           Of(entries, Rows(s)[i].date) = session[s].seen[Rows(s)[i].date]
    PROVE  Effective(entries', Rows(s)[i].date) = Rows(s)[i].value
<1> DEFINE q == session[s]
           row == Rows(s)[i]
           C == Of(entries, row.date)
<1>1. q.state = "write" /\ q.planned \subseteq DOMAIN Rows(s)
  BY DEF Commit, CanWrite, IInv, Serves
<1>2. row \in Row /\ row.date \in Date
  BY <1>1, RowFacts
<1>3. PICK again \in SUBSET MayReread(s) : Adds(s, Written(s, again))
  BY CommitAdds
<1> DEFINE new == Written(s, again)
<1>4. entries' = entries \cup new
  BY <1>3 DEF Adds
<1>5. C \in SUBSET Entry /\ Chain(C)
  BY <1>2 DEF IInv, TypeOK, Chained, Of
<1>6. CASE i \in q.planned
  <2>1. PICK e \in new : e.date = row.date /\ e.value = row.value
    BY <1>6, WrittenRows
  <2>2. Extends(C, e)
    BY <1>3, <2>1 DEF Adds
  <2>3. \A f \in new : f.date = row.date => f = e
    BY <1>3, <2>1 DEF Adds
  <2> HIDE DEF new
  <2>4. Of(entries', row.date) = C \cup {e}
    BY <1>4, <2>1, <2>3 DEF Of
  <2>5. Last(C \cup {e}) = e
    BY <1>5, <2>2, LastOfExtended
  <2> QED
    BY <2>1, <2>4, <2>5 DEF Effective
<1>7. CASE i \notin q.planned
  <2>1. \A e \in new : e.date # row.date
    BY <1>1, <1>7, WrittenRows, OneRowPerDate
  <2> HIDE DEF new
  <2>2. Of(entries', row.date) = C
    BY <1>4, <2>1 DEF Of
  <2>3. i < q.next
    <3>1. AllRead(s)
      BY <1>1 DEF Compared
    <3>2. i \in Nat /\ i <= Len(Rows(s)) /\ Len(Rows(s)) \in Nat /\ q.next \in Nat
      BY <1>1, RowFacts
    <3> QED
      BY <3>1, <3>2 DEF AllRead
  <2>4. ~Differs(C, row)
    BY <1>1, <1>7, <2>3 DEF Compared
  <2> QED
    BY <2>2, <2>4 DEF Differs, Effective
<1> QED
  BY <1>6, <1>7

(* A request has no answer until it ends. *)
Unanswered == \A s \in Session : session[s].state # "idle" => session[s].answer = "none"

LEMMA RejectKeepsAnswer ==
    ASSUME IInv, NEW s \in Session, RejectRow(s)
    PROVE  session'[s].answer = session[s].answer
<1> DEFINE q == session[s]
           new == [q EXCEPT !.rejected = @ \cup {q.next}, !.next = @ + 1, !.state = "rows"]
<1>1. session \in [Session -> Request] /\ q \in Request
  BY DEF IInv, TypeOK
<1>2. CASE q.payload.partial
  <2>1. session'[s] = new
    BY <1>1, <1>2 DEF RejectRow
  <2>2. new.answer = q.answer
    BY <1>1 DEF Request
  <2> QED
    BY <2>1, <2>2
<1>3. CASE ~q.payload.partial
  BY <1>1, <1>3 DEF RejectRow, Request
<1> QED
  BY <1>2, <1>3

LEMMA ActorAnswers ==
    ASSUME IInv, NEW s \in Session, Acts(s)
    PROVE  \/ Send(s) /\ session'[s].answer = "none"
           \/ session[s].state # "idle" /\ session'[s].answer = session[s].answer
           \/ /\ session'[s].state = "idle"
              /\ session'[s].answer = "imported" => Commit(s) \/ FinishImport(s)
<1> DEFINE q == session[s]
<1>1. session \in [Session -> Request] /\ q \in Request
  BY DEF IInv, TypeOK
<1>2. ASSUME NEW answer, Answer(s, answer)
      PROVE  session'[s].state = "idle" /\ session'[s].answer = answer
  BY <1>1, <1>2 DEF Answer, Idle
<1>3. CASE Send(s)
  <2>1. PICK p \in Payload : \E k \in KeysFor(p) : session' = [session EXCEPT ![s] =
           [Idle("none") EXCEPT !.payload = p, !.key = k,
              !.state = IF p.kind = "manual" THEN "stamp" ELSE "lookup"]]
    BY <1>3 DEF Send
  <2>2. session'[s].answer = "none"
    BY <1>1, <2>1 DEF Idle
  <2> QED
    BY <1>3, <2>2
<1>4. CASE StartImport(s)
  <2>1. CASE q.payload.kind = "sync"
    <3>1. session' = [session EXCEPT ![s] = [q EXCEPT !.state = "read"]]
      BY <1>4, <2>1 DEF StartImport
    <3> QED
      BY <1>1, <1>4, <3>1 DEF StartImport, Request
  <2>2. CASE q.payload.kind # "sync"
    <3>1. session' = [session EXCEPT ![s] = [q EXCEPT !.state = "open", !.stamp = ClockReading]]
      BY <1>4, <2>2 DEF StartImport
    <3> QED
      BY <1>1, <1>4, <3>1 DEF StartImport, Request
  <2> QED
    BY <2>1, <2>2
<1>5. CASE ReadRow(s)
  <2> DEFINE found == Of(entries, NextRow(s).date)
             planned == IF Differs(found, NextRow(s)) THEN q.planned \cup {q.next} ELSE q.planned
             new == [q EXCEPT !.seen[NextRow(s).date] = found, !.next = @ + 1,
                              !.planned = planned]
  <2>1. q.state = "read" /\ session'[s] = new
    BY <1>1, <1>5 DEF ReadRow
  <2> HIDE DEF found, planned
  <2>2. new.answer = q.answer
    BY <1>1 DEF Request
  <2> QED
    BY <2>1, <2>2
<1>6. CASE Stamp(s)
  <2> DEFINE new == [q EXCEPT !.stamp = ClockReading,
                       !.state = IF q.state = "read" THEN "write" ELSE "check"]
  <2>1. q.state # "idle" /\ session'[s] = new
    BY <1>1, <1>6 DEF Stamp
  <2>2. new.answer = q.answer
    BY <1>1 DEF Request
  <2> QED
    BY <2>1, <2>2
<1>7. CASE ReadObservation(s)
  <2> DEFINE found == Of(entries, NextRow(s).date)
             new == [q EXCEPT !.state = "write", !.planned = {q.next},
                              !.seen[NextRow(s).date] = found]
  <2>1. q.state # "idle" /\ session'[s] = new
    BY <1>1, <1>7 DEF ReadObservation
  <2> HIDE DEF found
  <2>2. new.answer = q.answer
    BY <1>1 DEF Request
  <2> QED
    BY <2>1, <2>2
<1>8. CASE OpenBatch(s)
  <2>1. CASE KeyTaken(q.key)
    BY <1>2, <1>8, <2>1 DEF OpenBatch
  <2>2. CASE ~KeyTaken(q.key)
    <3>1. session' = [session EXCEPT ![s].state = "rows"]
      BY <1>8, <2>2 DEF OpenBatch
    <3> QED
      BY <1>1, <1>8, <3>1 DEF OpenBatch, Request
  <2> QED
    BY <2>1, <2>2
<1>9. CASE ReadFileRow(s) \/ InsertRow(s)
  <2>1. q.state # "idle"
    BY <1>9 DEF ReadFileRow, InsertRow
  <2>2. CASE RejectRow(s)
    BY <2>1, <2>2, RejectKeepsAnswer
  <2>3. CASE ReadFileRow(s) /\ ~RejectRow(s)
    <3> DEFINE found == Of(entries \cup pending[s], NextRow(s).date)
               new == [q EXCEPT !.state = "insert", !.seen[NextRow(s).date] = found]
    <3>1. session'[s] = new
      BY <1>1, <2>3 DEF ReadFileRow
    <3> HIDE DEF found
    <3>2. new.answer = q.answer
      BY <1>1 DEF Request
    <3> QED
      BY <2>1, <3>1, <3>2
  <2>4. CASE InsertRow(s) /\ ~RejectRow(s)
    <3> DEFINE new == [q EXCEPT !.next = @ + 1, !.state = "rows"]
    <3>1. session'[s] = new
      BY <1>1, <2>4 DEF InsertRow
    <3>2. new.answer = q.answer
      BY <1>1 DEF Request
    <3> QED
      BY <2>1, <3>1, <3>2
  <2> QED
    BY <1>9, <2>2, <2>3, <2>4
<1>10. CASE Commit(s) \/ FinishImport(s)
  <2>1. Answer(s, "imported")
    BY <1>10 DEF Commit, FinishImport
  <2> QED
    BY <1>2, <1>10, <2>1
<1>11. CASE Replay(s) \/ Refuse(s) \/ Conflict(s) \/ RecordFailure(s) \/ Interrupt(s)
  <2>1. \E answer \in {"replay", "conflict", "refused", "error"} : Answer(s, answer)
    BY <1>11 DEF Replay, Refuse, Conflict, RecordFailure, Interrupt
  <2> QED
    BY <1>2, <2>1
<1> QED
  BY <1>3, <1>4, <1>5, <1>6, <1>7, <1>8, <1>9, <1>10, <1>11 DEF Acts, Handle

LEMMA UnansweredStep == IInv /\ Unanswered /\ [Next]_vars => Unanswered'
<1> SUFFICES ASSUME IInv, Unanswered, [Next]_vars, NEW t \in Session, session'[t].state # "idle"
             PROVE  session'[t].answer = "none"
  BY DEF Unanswered
<1>1. CASE session'[t] = session[t]
  BY <1>1 DEF Unanswered
<1>2. CASE Tick \/ UNCHANGED vars
  BY <1>1, <1>2 DEF Tick, vars
<1>3. ASSUME NEW s \in Session, Acts(s) PROVE session'[t].answer = "none"
  <2>1. CASE t = s
    BY <1>3, <2>1, ActorAnswers DEF Unanswered
  <2>2. CASE t # s
    BY <1>1, <1>3, <2>2, SessionFrame DEF IInv, TypeOK
  <2> QED
    BY <2>1, <2>2
<1> QED
  BY <1>2, <1>3 DEF Next, Acts, BreakDeadlock

(* Only a commit answers a synchronization with a new batch. *)
LEMMA ImportedByCommit ==
    ASSUME IInv, Unanswered, [Next]_vars, NEW s \in Session, Answered(s, {"imported"})
    PROVE  Commit(s)
<1>1. session[s].state # "idle" /\ session[s].payload.kind = "sync"
      /\ session'[s].answer = "imported"
  BY DEF Answered
<1>2. session[s].answer = "none"
  BY <1>1 DEF Unanswered
<1>3. ~FinishImport(s) /\ ~Send(s)
  BY <1>1 DEF FinishImport, Send, IInv, Serves, Imports
<1>4. CASE Tick \/ UNCHANGED vars
  BY <1>1, <1>2, <1>4 DEF Tick, vars
<1>5. ASSUME NEW t \in Session, Acts(t) PROVE Commit(s)
  <2>1. CASE t = s
    BY <1>1, <1>2, <1>3, <1>5, <2>1, ActorAnswers
  <2>2. CASE t # s
    BY <1>1, <1>2, <1>5, <2>2, SessionFrame DEF IInv, TypeOK
  <2> QED
    BY <2>1, <2>2
<1> QED
  BY <1>4, <1>5 DEF Next, Acts, BreakDeadlock

(* A synchronization that is answered with a new batch has taken effect:   *)
(* each date has the provider's value, whatever committed meanwhile, unless *)
(* another request changed that date after it was read.                    *)
THEOREM SyncAlways == Spec => SyncTakesEffect
<1>1. Init => AllCompared /\ Unanswered
  BY DEF Init, AllCompared, Compared, Unanswered, Idle
<1>2. IInv /\ AllCompared /\ Unanswered /\ [Next]_vars
        => [\A s \in Session : Answered(s, {"imported"}) =>
              \A i \in DOMAIN Rows(s) :
                LET row == Rows(s)[i] IN
                \/ Effective(entries', row.date) = row.value
                \/ Of(entries, row.date) # session[s].seen[row.date]]_vars
  BY ImportedByCommit, SyncCommits DEF AllCompared, Answered
<1> QED
  BY <1>1, <1>2, ComparedStep, UnansweredStep, IInvAlways, PTL DEF Spec, SyncTakesEffect

-----------------------------------------------------------------------------
(* Batches: what one counts, while its import is under way and after.      *)

Own(k) == {e \in entries : e.batch = k}

(* The entries of the batch as its import sees them. *)
Wrote(s) == {e \in entries \cup pending[s] : e.batch = session[s].key}

(* The imports whose batch is being processed. *)
Loops(s) == session[s].state \in {"rows", "insert"}
Processes(s) == session[s].state \in {"rows", "insert", "failing"}

OneImport ==
    \A s, t \in Session : Processes(s) /\ Processes(t) /\ s # t => session[s].key # session[t].key

(* Every row that an import is done with is rejected or has an entry. *)
Accounts(s) ==
    LET q == session[s] IN
    /\ \A e \in pending[s] : e.batch = q.key
    /\ q.state \in {"lookup", "open"} => q.next = 1 /\ q.rejected = {}
    /\ q.state \in {"rows", "insert", "failing"} =>
         /\ batch[q.key].status = "processing" /\ batch[q.key].payload = q.payload
         /\ batch[q.key].rows = Len(Rows(s))
    /\ q.state = "failing" => ~q.payload.partial
    /\ q.state \in {"rows", "insert"} =>
         /\ q.next <= Len(Rows(s)) + 1 /\ q.rejected \subseteq 1 .. (q.next - 1)
         /\ IsFiniteSet(Wrote(s))
         /\ Cardinality(Wrote(s)) + Cardinality(q.rejected) = q.next - 1
         /\ \A i \in 1 .. (q.next - 1) : i \in q.rejected \/ Stores(Wrote(s), Rows(s)[i])

Reported(k) == {issue \in issues : issue.batch = k}

Balanced(k) ==
    LET b == batch[k] IN
    /\ b.accepted + b.rejected = b.rows
    /\ b.status = "none" => Own(k) = {}
    /\ b.status \in {"completed", "completed_with_errors"} =>
         /\ b.accepted = Cardinality(Own(k)) /\ b.rejected = Cardinality(b.errors)
         /\ b.payload.kind = "file" =>
              \A i \in DOMAIN b.payload.rows \ b.errors : Stores(Own(k), b.payload.rows[i])
         /\ Reported(k) =
              {[batch |-> k, row |-> i, date |-> b.payload.rows[i].date] : i \in b.errors}
    /\ b.status = "failed" =>
         Own(k) = {} /\ Reported(k) = {} /\ Cardinality(b.errors) = 1
    /\ b.status = "processing" =>
         /\ Own(k) # {} => Dialect = "sqlite" /\ b.payload.partial
         /\ Reported(k) = {} /\ b.errors = {}
    /\ b.status = "none" => Reported(k) = {}

Books ==
    /\ OneImport
    /\ \A s \in Session : Accounts(s)
    /\ \A k \in ImportKey : Balanced(k)

LEMMA NoKeyIsNothing == Nothing \notin ImportKey
BY StoreAssumption DEF StoreAssumption, ImportKey, GeneratedKey

LEMMA ProcessesKey ==
    ASSUME IInv, NEW s \in Session, Processes(s)
    PROVE  session[s].key \in ImportKey /\ session[s].payload.kind = "file"
BY DEF IInv, Serves, Imports, Processes

(* How a request that processes its batch can go on. *)
LEMMA RejectEffect ==
    ASSUME IInv, NEW s \in Session, RejectRow(s)
    PROVE  /\ session'[s].key = session[s].key /\ session'[s].payload = session[s].payload
           /\ \/ /\ session[s].payload.partial /\ session'[s].state = "rows"
                 /\ session'[s].next = session[s].next + 1
                 /\ session'[s].rejected = session[s].rejected \cup {session[s].next}
                 /\ pending' = pending
              \/ /\ ~session[s].payload.partial /\ session'[s].state = "failing"
                 /\ pending'[s] = {}
<1> DEFINE q == session[s]
           new == [q EXCEPT !.rejected = @ \cup {q.next}, !.next = @ + 1, !.state = "rows"]
<1>1. session \in [Session -> Request] /\ q \in Request /\ pending \in [Session -> SUBSET Entry]
  BY DEF IInv, TypeOK
<1>2. CASE q.payload.partial
  <2>1. session'[s] = new /\ pending' = pending
    BY <1>1, <1>2 DEF RejectRow
  <2>2. /\ new.key = q.key /\ new.payload = q.payload /\ new.state = "rows"
        /\ new.next = q.next + 1 /\ new.rejected = q.rejected \cup {q.next}
    BY <1>1 DEF Request
  <2> HIDE DEF new
  <2> QED
    BY <1>2, <2>1, <2>2
<1>3. CASE ~q.payload.partial
  <2>1. session'[s] = [q EXCEPT !.state = "failing"] /\ pending'[s] = {}
    BY <1>1, <1>3 DEF RejectRow
  <2>2. /\ session'[s].key = q.key /\ session'[s].payload = q.payload
        /\ session'[s].state = "failing"
    BY <1>1, <2>1 DEF Request
  <2> QED
    BY <1>3, <2>1, <2>2
<1> QED
  BY <1>2, <1>3

LEMMA ReadFileRowEffect ==
    ASSUME IInv, NEW s \in Session, ReadFileRow(s), ~RejectRow(s)
    PROVE  /\ session'[s].key = session[s].key /\ session'[s].payload = session[s].payload
           /\ session'[s].state = "insert" /\ session'[s].next = session[s].next
           /\ session'[s].rejected = session[s].rejected
           /\ pending' = pending
<1> DEFINE q == session[s]
           found == Of(entries \cup pending[s], NextRow(s).date)
           new == [q EXCEPT !.state = "insert", !.seen[NextRow(s).date] = found]
<1>1. session \in [Session -> Request] /\ q \in Request
  BY DEF IInv, TypeOK
<1>2. session'[s] = new /\ pending' = pending
  BY <1>1 DEF ReadFileRow
<1> HIDE DEF found
<1>3. /\ new.key = q.key /\ new.payload = q.payload /\ new.state = "insert"
      /\ new.next = q.next /\ new.rejected = q.rejected
  BY <1>1 DEF Request
<1> HIDE DEF new
<1> QED
  BY <1>2, <1>3

(* An entry is written, to the store or to the open transaction. *)
Inserts(s) ==
    /\ session'[s].key = session[s].key /\ session'[s].payload = session[s].payload
    /\ session'[s].state = "rows" /\ session'[s].next = session[s].next + 1
    /\ session'[s].rejected = session[s].rejected
    /\ \E new :
         /\ new \notin entries \cup pending[s] /\ new.batch = session[s].key
         /\ new.date = NextRow(s).date /\ new.value = NextRow(s).value
         /\ \/ /\ SavepointCommits(session[s])
               /\ entries' = entries \cup {new} /\ pending' = pending
            \/ /\ entries' = entries
               /\ pending' = [pending EXCEPT ![s] = @ \cup {new}]

LEMMA InsertRowEffect ==
    ASSUME IInv, NEW s \in Session, InsertRow(s)
    PROVE  \/ RejectRow(s) /\ entries' = entries
           \/ Inserts(s)
<1> DEFINE q == session[s]
           row == NextRow(s)
           entry == NewEntry(q.seen[row.date], row, q.stamp, q.key)
           new == [q EXCEPT !.next = @ + 1, !.state = "rows"]
<1>1. session \in [Session -> Request] /\ q \in Request
  BY DEF IInv, TypeOK
<1>2. CASE UniqueViolation(entries \cup pending[s], {entry})
  BY <1>2 DEF InsertRow
<1>3. CASE ~UniqueViolation(entries \cup pending[s], {entry})
  <2>1. /\ session' = [session EXCEPT ![s] = new]
        /\ IF SavepointCommits(q)
           THEN entries' = entries \cup {entry} /\ pending' = pending
           ELSE pending' = [pending EXCEPT ![s] = @ \cup {entry}] /\ entries' = entries
    BY <1>3 DEF InsertRow
  <2>2. /\ entry \notin entries \cup pending[s] /\ entry.batch = q.key
        /\ entry.date = NextRow(s).date /\ entry.value = NextRow(s).value
    BY <1>3 DEF UniqueViolation, NewEntry
  <2> HIDE DEF entry
  <2>3. /\ new.key = q.key /\ new.payload = q.payload /\ new.state = "rows"
        /\ new.next = q.next + 1 /\ new.rejected = q.rejected
    BY <1>1 DEF Request
  <2>4. session'[s] = new
    BY <1>1, <2>1
  <2> HIDE DEF new
  <2>5. Inserts(s)
    BY <2>1, <2>2, <2>3, <2>4 DEF Inserts
  <2> QED
    BY <2>5
<1> QED
  BY <1>2, <1>3

LEMMA OpenBatchEffect ==
    ASSUME IInv, NEW s \in Session, OpenBatch(s), ~KeyTaken(session[s].key)
    PROVE  /\ session[s].key \in ImportKey
           /\ session'[s].key = session[s].key /\ session'[s].payload = session[s].payload
           /\ session'[s].state = "rows" /\ session'[s].next = session[s].next
           /\ session'[s].rejected = session[s].rejected
           /\ entries' = entries /\ pending' = pending
<1>1. session \in [Session -> Request]
  BY DEF IInv, TypeOK
<1>2. session' = [session EXCEPT ![s].state = "rows"] /\ entries' = entries /\ pending' = pending
  BY DEF OpenBatch
<1>3. session'[s] = [session[s] EXCEPT !.state = "rows"]
  BY <1>1, <1>2
<1>4. session[s].key \in ImportKey
  BY DEF OpenBatch, IInv, Serves, Imports
<1> QED
  BY <1>1, <1>2, <1>3, <1>4 DEF Request

(* The actions that leave the batches and the committed entries alone. *)
Leaves(s) ==
    \/ Send(s) \/ Replay(s) \/ StartImport(s) \/ ReadRow(s) \/ Stamp(s) \/ Refuse(s)
    \/ ReadObservation(s) \/ Conflict(s) \/ ReadFileRow(s) \/ Interrupt(s)
    \/ (InsertRow(s) /\ RejectRow(s) /\ entries' = entries)
    \/ (OpenBatch(s) /\ KeyTaken(session[s].key))

LEMMA LeavesAlone ==
    ASSUME NEW s \in Session, Leaves(s)
    PROVE  /\ batch' = batch /\ entries' = entries
           /\ \A k \in ImportKey : Reported(k)' = Reported(k)
<1>1. CASE \/ Send(s) \/ Replay(s) \/ StartImport(s) \/ ReadRow(s) \/ Stamp(s)
           \/ ReadObservation(s) \/ Conflict(s) \/ ReadFileRow(s) \/ Interrupt(s)
  BY <1>1 DEF Send, Replay, StartImport, ReadRow, Stamp, ReadObservation, Conflict,
              ReadFileRow, Interrupt, Reported
<1>2. CASE \/ InsertRow(s) /\ entries' = entries
           \/ OpenBatch(s) /\ KeyTaken(session[s].key)
  BY <1>2 DEF InsertRow, OpenBatch, Answer, Reported
<1>3. CASE Refuse(s)
  BY <1>3, NoKeyIsNothing DEF Refuse, Reported
<1> QED
  BY <1>1, <1>2, <1>3 DEF Leaves

(* Of the others, each concerns the batch of its own key. *)
LEMMA ActsOnOwn ==
    ASSUME IInv, NEW s \in Session, Acts(s)
    PROVE  \/ Leaves(s)
           \/ Commit(s)
           \/ OpenBatch(s) /\ ~KeyTaken(session[s].key)
           \/ InsertRow(s) /\ Inserts(s)
           \/ FinishImport(s)
           \/ RecordFailure(s)
BY InsertRowEffect DEF Acts, Handle, Leaves

LEMMA AddsToOwn ==
    ASSUME IInv, NEW s \in Session, Accounts(s), Acts(s)
    PROVE  /\ \A e \in entries' \ entries : e.batch = session[s].key
           /\ \A k \in ImportKey : k # session[s].key =>
                Own(k)' = Own(k) /\ batch'[k] = batch[k] /\ Reported(k)' = Reported(k)
           /\ entries \subseteq entries'
<1>1. entries \subseteq entries'
  BY ActorChanges, ChainStep
<1>2. /\ \A e \in entries' \ entries : e.batch = session[s].key
      /\ \A k \in ImportKey : k # session[s].key =>
           batch'[k] = batch[k] /\ Reported(k)' = Reported(k)
  <2>1. CASE Leaves(s)
    BY <2>1, LeavesAlone
  <2>2. CASE Commit(s)
    BY <2>2, WrittenRows DEF Commit, IInv, TypeOK, Reported
  <2>3. CASE OpenBatch(s) /\ ~KeyTaken(session[s].key)
    BY <2>3 DEF OpenBatch, IInv, TypeOK, Reported
  <2>4. CASE InsertRow(s) /\ Inserts(s)
    BY <2>4 DEF InsertRow, Inserts, Reported
  <2>5. CASE FinishImport(s)
    <3>1. ASSUME NEW k \in ImportKey, k # session[s].key PROVE Reported(k)' = Reported(k)
      BY <2>5, <3>1 DEF FinishImport, RowIssues, Reported
    <3> QED
      BY <2>5, <3>1 DEF FinishImport, Accounts, IInv, TypeOK
  <2>6. CASE RecordFailure(s)
    BY <2>6 DEF RecordFailure, IInv, TypeOK, Reported
  <2> QED
    BY <2>1, <2>2, <2>3, <2>4, <2>5, <2>6, ActsOnOwn
<1>3. ASSUME NEW k \in ImportKey, k # session[s].key PROVE Own(k)' = Own(k)
  BY <1>1, <1>2, <1>3 DEF Own
<1> QED
  BY <1>1, <1>2, <1>3

(* What a step makes of a request that is not in the loop of an import. *)
LEMMA OutsideLoop ==
    ASSUME IInv, NEW s \in Session, Acts(s)
    PROVE  \/ /\ pending'[s] = {}
              /\ \/ session'[s].state \in {"idle", "stamp", "read", "check", "write"}
                 \/ Send(s) /\ session'[s].next = 1 /\ session'[s].rejected = {}
                            /\ session'[s].state = "lookup"
                 \/ StartImport(s) /\ session'[s].next = session[s].next
                                   /\ session'[s].rejected = session[s].rejected
                                   /\ session'[s].state = "open"
           \/ OpenBatch(s) /\ ~KeyTaken(session[s].key)
           \/ ReadFileRow(s) \/ InsertRow(s)
<1> DEFINE q == session[s]
<1>1. /\ session \in [Session -> Request] /\ q \in Request
      /\ pending \in [Session -> SUBSET Entry]
  BY DEF IInv, TypeOK
<1>2. q.state \notin {"rows", "insert"} => pending[s] = {}
  BY DEF IInv, Holds
<1>3. ASSUME NEW answer, Answer(s, answer) PROVE session'[s].state = "idle"
  BY <1>1, <1>3 DEF Answer, Idle
<1>4. CASE Send(s)
  <2>1. PICK p \in Payload : \E k \in KeysFor(p) : session' = [session EXCEPT ![s] =
           [Idle("none") EXCEPT !.payload = p, !.key = k,
              !.state = IF p.kind = "manual" THEN "stamp" ELSE "lookup"]]
    BY <1>4 DEF Send
  <2>2. /\ session'[s].state \in {"stamp", "lookup"} /\ session'[s].next = 1
        /\ session'[s].rejected = {}
    BY <1>1, <2>1 DEF Idle
  <2>3. pending'[s] = {}
    BY <1>2, <1>4 DEF Send
  <2> QED
    BY <1>4, <2>2, <2>3
<1>5. CASE StartImport(s)
  <2>1. pending'[s] = {}
    BY <1>2, <1>5 DEF StartImport
  <2>2. CASE q.payload.kind = "sync"
    <3>1. session' = [session EXCEPT ![s] = [q EXCEPT !.state = "read"]]
      BY <1>5, <2>2 DEF StartImport
    <3> QED
      BY <1>1, <2>1, <3>1 DEF Request
  <2>3. CASE q.payload.kind # "sync"
    <3>1. session' = [session EXCEPT ![s] = [q EXCEPT !.state = "open", !.stamp = ClockReading]]
      BY <1>5, <2>3 DEF StartImport
    <3>2. /\ session'[s].state = "open" /\ session'[s].next = q.next
          /\ session'[s].rejected = q.rejected
      BY <1>1, <3>1 DEF Request
    <3> QED
      BY <1>5, <2>1, <3>2
  <2> QED
    BY <2>2, <2>3
<1>6. CASE ReadRow(s)
  <2> DEFINE found == Of(entries, NextRow(s).date)
             planned == IF Differs(found, NextRow(s)) THEN q.planned \cup {q.next} ELSE q.planned
             new == [q EXCEPT !.seen[NextRow(s).date] = found, !.next = @ + 1,
                              !.planned = planned]
  <2>1. q.state = "read" /\ session'[s] = new /\ pending' = pending
    BY <1>1, <1>6 DEF ReadRow
  <2> HIDE DEF found, planned
  <2>2. new.state = q.state
    BY <1>1 DEF Request
  <2> QED
    BY <1>2, <2>1, <2>2
<1>7. CASE Stamp(s)
  <2>1. /\ q.state \in {"read", "stamp"} /\ pending' = pending
        /\ session'[s] = [q EXCEPT !.stamp = ClockReading,
                            !.state = IF q.state = "read" THEN "write" ELSE "check"]
    BY <1>1, <1>7 DEF Stamp
  <2>2. session'[s].state \in {"write", "check"}
    BY <1>1, <2>1 DEF Request
  <2> QED
    BY <1>2, <2>1, <2>2
<1>8. CASE ReadObservation(s)
  <2> DEFINE found == Of(entries, NextRow(s).date)
             new == [q EXCEPT !.state = "write", !.planned = {q.next},
                              !.seen[NextRow(s).date] = found]
  <2>1. q.state = "check" /\ session'[s] = new /\ pending' = pending
    BY <1>1, <1>8 DEF ReadObservation
  <2> HIDE DEF found
  <2>2. new.state = "write"
    BY <1>1 DEF Request
  <2> QED
    BY <1>2, <2>1, <2>2
<1>9. CASE \/ Replay(s) \/ Refuse(s) \/ Commit(s) \/ Conflict(s) \/ RecordFailure(s)
           \/ (OpenBatch(s) /\ KeyTaken(q.key))
  <2>1. q.state \notin {"rows", "insert"} /\ pending' = pending
    BY <1>9 DEF Replay, Refuse, Commit, CanWrite, Conflict, RecordFailure, OpenBatch
  <2>2. \E answer : Answer(s, answer)
    BY <1>9 DEF Replay, Refuse, Commit, Conflict, RecordFailure, OpenBatch
  <2> QED
    BY <1>2, <1>3, <2>1, <2>2
<1>10. CASE FinishImport(s) \/ Interrupt(s)
  <2>1. pending' = [pending EXCEPT ![s] = {}] /\ \E answer : Answer(s, answer)
    BY <1>10 DEF FinishImport, Interrupt
  <2> QED
    BY <1>1, <1>3, <2>1
<1> QED
  BY <1>4, <1>5, <1>6, <1>7, <1>8, <1>9, <1>10 DEF Acts, Handle

(* Rows before the next one are finitely many, and not the next one. *)
LEMMA RowsBefore ==
    ASSUME NEW n \in Nat, NEW R, R \subseteq 1..(n - 1)
    PROVE  IsFiniteSet(R) /\ Cardinality(R) \in Nat /\ n \notin R
<1>1. IsFiniteSet(1..(n - 1))
  <2>1. n - 1 \in Int
    OBVIOUS
  <2> QED
    BY <2>1, FS_Interval
<1>2. IsFiniteSet(R)
  BY <1>1, FS_Subset
<1>3. Cardinality(R) \in Nat
  BY <1>2, FS_CardinalityType
<1> QED
  BY <1>2, <1>3

LEMMA RejectAccounts ==
    ASSUME IInv, NEW s \in Session, Accounts(s), RejectRow(s),
           session[s].state \in {"rows", "insert"}, ~AllRead(s),
           entries' = entries, batch' = batch
    PROVE  Accounts(s)'
<1> DEFINE q == session[s]
           r == session'[s]
<1>1. /\ r.key = q.key /\ r.payload = q.payload
      /\ \/ /\ q.payload.partial /\ r.state = "rows" /\ r.next = q.next + 1
            /\ r.rejected = q.rejected \cup {q.next} /\ pending' = pending
         \/ ~q.payload.partial /\ r.state = "failing" /\ pending'[s] = {}
  BY RejectEffect
<1>2. /\ batch'[r.key].status = "processing" /\ batch'[r.key].payload = r.payload
      /\ batch'[r.key].rows = Len(Rows(s)) /\ Rows(s)' = Rows(s)
  BY <1>1 DEF Accounts, Rows
<1>3. CASE r.state = "failing"
  <2>1. pending'[s] = {} /\ ~r.payload.partial
    BY <1>1, <1>3
  <2> QED
    BY <1>2, <1>3, <2>1 DEF Accounts
<1>4. CASE r.state = "rows"
  <2>1. /\ r.next = q.next + 1 /\ r.rejected = q.rejected \cup {q.next}
        /\ pending' = pending
    BY <1>1, <1>4
  <2>2. Wrote(s)' = Wrote(s)
    BY <1>1, <2>1 DEF Wrote
  <2>3. /\ q.next \in Nat /\ q.next <= Len(Rows(s)) /\ Len(Rows(s)) \in Nat
        /\ q.rejected \subseteq 1..(q.next - 1)
        /\ IsFiniteSet(Wrote(s)) /\ Cardinality(Wrote(s)) \in Nat
        /\ Cardinality(Wrote(s)) + Cardinality(q.rejected) = q.next - 1
    BY RowFacts, FS_CardinalityType DEF Accounts, AllRead
  <2>4. IsFiniteSet(q.rejected) /\ q.next \notin q.rejected
    BY <2>3, RowsBefore
  <2>5. /\ Cardinality(r.rejected) = Cardinality(q.rejected) + 1
        /\ Cardinality(q.rejected) \in Nat
    <3>1. Cardinality(q.rejected) \in Nat
      BY <2>4, FS_CardinalityType
    <3>2. Cardinality(q.rejected \cup {q.next}) = Cardinality(q.rejected) + 1
      BY <2>4, FS_AddElement
    <3> QED
      BY <2>1, <3>1, <3>2
  <2>6. /\ r.next <= Len(Rows(s)) + 1 /\ r.rejected \subseteq 1..(r.next - 1)
        /\ Cardinality(Wrote(s)) + Cardinality(r.rejected) = r.next - 1
    <3> HIDE DEF q, r
    <3> QED
      BY <2>1, <2>3, <2>5
  <2>7. \A e \in pending'[s] : e.batch = r.key
    BY <1>1, <2>1 DEF Accounts
  <2>8. \A i \in 1..(r.next - 1) : i \in r.rejected \/ Stores(Wrote(s), Rows(s)[i])
    <3>1. \A i \in 1..(q.next - 1) : i \in q.rejected \/ Stores(Wrote(s), Rows(s)[i])
      BY DEF Accounts
    <3>2. \A i \in 1..(r.next - 1) : i \in 1..(q.next - 1) \/ i = q.next
      BY <2>1, <2>3
    <3> QED
      BY <2>1, <3>1, <3>2
  <2> QED
    BY <1>2, <1>4, <2>2, <2>3, <2>6, <2>7, <2>8 DEF Accounts
<1> QED
  BY <1>1, <1>3, <1>4

LEMMA InsertAccounts ==
    ASSUME IInv, NEW s \in Session, Accounts(s), InsertRow(s), Inserts(s)
    PROVE  Accounts(s)'
<1> DEFINE q == session[s]
           r == session'[s]
<1>1. /\ r.key = q.key /\ r.payload = q.payload /\ r.state = "rows"
      /\ r.next = q.next + 1 /\ r.rejected = q.rejected
  BY DEF Inserts
<1>2. PICK new : /\ new \notin entries \cup pending[s] /\ new.batch = q.key
                 /\ new.date = NextRow(s).date /\ new.value = NextRow(s).value
                 /\ \/ entries' = entries \cup {new} /\ pending' = pending
                    \/ entries' = entries /\ pending' = [pending EXCEPT ![s] = @ \cup {new}]
  BY DEF Inserts
<1>3. /\ batch'[r.key].status = "processing" /\ batch'[r.key].payload = r.payload
      /\ batch'[r.key].rows = Len(Rows(s)) /\ Rows(s)' = Rows(s)
  BY <1>1 DEF Accounts, Rows, InsertRow
<1>4. pending \in [Session -> SUBSET Entry]
  BY DEF IInv, TypeOK
<1>5. Wrote(s)' = Wrote(s) \cup {new} /\ new \notin Wrote(s)
  BY <1>1, <1>2, <1>4 DEF Wrote
<1>6. \A e \in pending'[s] : e.batch = r.key
  BY <1>1, <1>2, <1>4 DEF Accounts
<1>7. /\ q.next \in Nat /\ q.next <= Len(Rows(s)) /\ Len(Rows(s)) \in Nat
      /\ q.rejected \subseteq 1..(q.next - 1)
      /\ IsFiniteSet(Wrote(s))
      /\ Cardinality(Wrote(s)) + Cardinality(q.rejected) = q.next - 1
  BY RowFacts DEF Accounts, AllRead, InsertRow, IInv, Serves
<1>8. Cardinality(q.rejected) \in Nat /\ Cardinality(Wrote(s)) \in Nat
  BY <1>7, RowsBefore, FS_CardinalityType
<1>9. /\ IsFiniteSet(Wrote(s)') /\ Cardinality(Wrote(s)') = Cardinality(Wrote(s)) + 1
  BY <1>5, <1>7, FS_AddElement
<1>10. /\ r.next <= Len(Rows(s)) + 1 /\ r.rejected \subseteq 1..(r.next - 1)
       /\ Cardinality(Wrote(s)') + Cardinality(r.rejected) = r.next - 1
  <2> DEFINE w == Cardinality(Wrote(s)')
  <2> HIDE DEF q, r, w
  <2>1. w = Cardinality(Wrote(s)) + 1 /\ r.next = q.next + 1 /\ r.rejected = q.rejected
    BY <1>1, <1>9 DEF w, q, r
  <2>2. w + Cardinality(r.rejected) = r.next - 1
    BY <1>7, <1>8, <2>1
  <2> QED
    BY <1>7, <2>1, <2>2 DEF w
<1>11. \A i \in 1..(r.next - 1) : i \in r.rejected \/ Stores(Wrote(s)', Rows(s)[i])
  <2>1. \A i \in 1..(q.next - 1) : i \in q.rejected \/ Stores(Wrote(s), Rows(s)[i])
    BY DEF Accounts, InsertRow
  <2>2. \A i \in 1..(r.next - 1) : i \in 1..(q.next - 1) \/ i = q.next
    BY <1>1, <1>7
  <2>3. Stores(Wrote(s)', Rows(s)[q.next])
    BY <1>2, <1>5 DEF Stores, NextRow
  <2>4. ASSUME NEW row, Stores(Wrote(s), row) PROVE Stores(Wrote(s)', row)
    BY <1>5, <2>4 DEF Stores
  <2> QED
    BY <1>1, <2>1, <2>2, <2>3, <2>4
<1> QED
  BY <1>1, <1>3, <1>6, <1>9, <1>10, <1>11 DEF Accounts, Stores

LEMMA OpenBatchAccounts ==
    ASSUME IInv, NEW s \in Session, Accounts(s), Balanced(session[s].key),
           OpenBatch(s), ~KeyTaken(session[s].key)
    PROVE  Accounts(s)'
<1> DEFINE q == session[s]
           r == session'[s]
<1>1. /\ q.key \in ImportKey /\ r.key = q.key /\ r.payload = q.payload /\ r.state = "rows"
      /\ r.next = q.next /\ r.rejected = q.rejected
      /\ entries' = entries /\ pending' = pending
  BY OpenBatchEffect
<1>2. q.state = "open" /\ q.next = 1 /\ q.rejected = {} /\ pending[s] = {}
  BY DEF OpenBatch, Accounts, IInv, Holds
<1>3. Wrote(s)' = {}
  <2>1. Own(q.key) = {}
    BY <1>1, NoKeyIsNothing DEF Balanced, KeyTaken
  <2> QED
    BY <1>1, <1>2, <2>1 DEF Own, Wrote
<1>4. /\ batch'[q.key].status = "processing" /\ batch'[q.key].payload = q.payload
      /\ batch'[q.key].rows = Len(Rows(s)) /\ Rows(s)' = Rows(s)
  <2> DEFINE row == [NoBatch EXCEPT !.status = "processing", !.payload = q.payload,
                       !.rows = Len(Rows(s)), !.rejected = Len(Rows(s))]
  <2>1. batch'[q.key] = row
    BY <1>1 DEF OpenBatch, IInv, TypeOK
  <2>2. row.status = "processing" /\ row.payload = q.payload /\ row.rows = Len(Rows(s))
    BY DEF NoBatch
  <2> HIDE DEF row
  <2> QED
    BY <1>1, <2>1, <2>2 DEF Rows
<1>5. Len(Rows(s)) \in Nat
  BY <1>2, RowFacts
<1>6. IsFiniteSet({}) /\ Cardinality({}) = 0
  BY FS_EmptySet
<1>7. Cardinality(Wrote(s)') + Cardinality(r.rejected) = r.next - 1
  BY <1>1, <1>2, <1>3, <1>6
<1>8. 1..(r.next - 1) = {}
  BY <1>1, <1>2
<1> QED
  BY <1>1, <1>2, <1>3, <1>4, <1>5, <1>6, <1>7, <1>8 DEF Accounts

LEMMA ActorAccounts ==
    ASSUME IInv, Books, NEW s \in Session, Acts(s)
    PROVE  Accounts(s)'
<1> DEFINE q == session[s]
<1>1. Accounts(s)
  BY DEF Books
<1>2. CASE ReadFileRow(s) \/ InsertRow(s)
  <2>1. /\ q.state \in {"rows", "insert"} /\ ~AllRead(s) /\ batch' = batch
    BY <1>2 DEF ReadFileRow, InsertRow, IInv, Serves
  <2>2. CASE RejectRow(s) /\ entries' = entries
    BY <1>1, <2>1, <2>2, RejectAccounts
  <2>3. CASE InsertRow(s) /\ Inserts(s)
    BY <1>1, <2>3, InsertAccounts
  <2>4. CASE ReadFileRow(s) /\ ~RejectRow(s)
    <3>1. /\ session'[s].key = q.key /\ session'[s].payload = q.payload
          /\ session'[s].state = "insert" /\ session'[s].next = q.next
          /\ session'[s].rejected = q.rejected
          /\ pending' = pending /\ entries' = entries
      BY <2>4, ReadFileRowEffect DEF ReadFileRow
    <3>2. Wrote(s)' = Wrote(s) /\ Rows(s)' = Rows(s)
      BY <3>1 DEF Wrote, Rows
    <3> QED
      BY <1>1, <2>1, <2>4, <3>1, <3>2 DEF Accounts, ReadFileRow
  <2> QED
    BY <1>2, <2>2, <2>3, <2>4, InsertRowEffect DEF ReadFileRow
<1>3. CASE OpenBatch(s) /\ ~KeyTaken(q.key)
  <2>1. Balanced(q.key)
    BY <1>3, OpenBatchEffect DEF Books
  <2> QED
    BY <1>1, <1>3, <2>1, OpenBatchAccounts
<1>4. CASE /\ pending'[s] = {}
           /\ session'[s].state \in {"idle", "stamp", "read", "check", "write"}
  BY <1>4 DEF Accounts
<1>5. CASE /\ pending'[s] = {} /\ session'[s].state \in {"lookup", "open"}
           /\ session'[s].next = 1 /\ session'[s].rejected = {}
  BY <1>5 DEF Accounts
<1>6. CASE /\ StartImport(s) /\ pending'[s] = {} /\ session'[s].next = q.next
           /\ session'[s].rejected = q.rejected /\ session'[s].state = "open"
  <2>1. q.next = 1 /\ q.rejected = {}
    BY <1>1, <1>6 DEF StartImport, Accounts
  <2> QED
    BY <1>5, <1>6, <2>1
<1> QED
  BY <1>2, <1>3, <1>4, <1>5, <1>6, OutsideLoop

(* A request comes to process a batch by opening it. *)
LEMMA ComesToProcess ==
    ASSUME IInv, NEW s \in Session, Acts(s), Processes(s)'
    PROVE  /\ session'[s].key = session[s].key
           /\ Processes(s) \/ (OpenBatch(s) /\ ~KeyTaken(session[s].key))
<1>1. CASE OpenBatch(s) /\ ~KeyTaken(session[s].key)
  BY <1>1, OpenBatchEffect
<1>2. CASE ReadFileRow(s) \/ InsertRow(s)
  <2>1. Processes(s)
    BY <1>2 DEF ReadFileRow, InsertRow, Processes
  <2> QED
    BY <1>2, <2>1, RejectEffect, ReadFileRowEffect, InsertRowEffect DEF Inserts
<1>3. session'[s].state \in {"rows", "insert", "failing"}
  BY DEF Processes
<1> QED
  BY <1>1, <1>2, <1>3, OutsideLoop

(* What is not left alone is the batch of no other import. *)
LEMMA DistinctKeys ==
    ASSUME IInv, Books, NEW s \in Session, Acts(s), ~Leaves(s),
           NEW t \in Session, t # s, Processes(t)
    PROVE  session[t].key # session[s].key
<1>1. session[t].key \in ImportKey /\ batch[session[t].key].status = "processing"
  BY ProcessesKey DEF Books, Accounts, Processes
<1>2. CASE Commit(s) \/ (OpenBatch(s) /\ ~KeyTaken(session[s].key))
  BY <1>1, <1>2, NoKeyIsNothing DEF Commit, KeyTaken
<1>3. CASE InsertRow(s) \/ FinishImport(s) \/ RecordFailure(s)
  <2>1. Processes(s)
    BY <1>3 DEF InsertRow, FinishImport, RecordFailure, Processes
  <2> QED
    BY <2>1 DEF Books, OneImport
<1> QED
  BY <1>2, <1>3, ActsOnOwn

LEMMA OneImportStep ==
    ASSUME IInv, Books, NEW s \in Session, Acts(s)
    PROVE  OneImport'
<1>1. \A t \in Session \ {s} : session'[t] = session[t]
  BY SessionFrame DEF IInv, TypeOK
<1>2. ASSUME NEW t \in Session, t # s, Processes(t), Processes(s)'
      PROVE  session'[s].key # session[t].key
  <2>1. CASE Processes(s)
    BY <1>2, <2>1, ComesToProcess DEF Books, OneImport
  <2>2. CASE OpenBatch(s) /\ ~KeyTaken(session[s].key)
    <3>1. session[t].key \in ImportKey /\ batch[session[t].key].status = "processing"
      BY <1>2, ProcessesKey DEF Books, Accounts, Processes
    <3> QED
      BY <1>2, <2>2, <3>1, ComesToProcess, NoKeyIsNothing DEF KeyTaken
  <2> QED
    BY <1>2, <2>1, <2>2, ComesToProcess
<1>3. \A t \in Session \ {s} : Processes(t)' <=> Processes(t)
  BY <1>1 DEF Processes
<1>4. SUFFICES ASSUME NEW t \in Session, NEW u \in Session, Processes(t)', Processes(u)', t # u
               PROVE  session'[t].key # session'[u].key
  BY DEF OneImport
<1>5. CASE t = s
  BY <1>1, <1>2, <1>3, <1>4, <1>5
<1>6. CASE u = s
  BY <1>1, <1>2, <1>3, <1>4, <1>6
<1>7. CASE t # s /\ u # s
  BY <1>1, <1>3, <1>4, <1>7 DEF Books, OneImport
<1> QED
  BY <1>5, <1>6, <1>7

LEMMA OtherAccounts ==
    ASSUME IInv, Books, NEW s \in Session, Acts(s), NEW t \in Session, t # s
    PROVE  Accounts(t)'
<1>1. session'[t] = session[t] /\ pending'[t] = pending[t] /\ Rows(t)' = Rows(t)
  BY SessionFrame, ActorChanges, ChainStep DEF IInv, TypeOK, Rows
<1>2. Accounts(t)
  BY DEF Books
<1>3. CASE ~Processes(t)
  BY <1>1, <1>2, <1>3 DEF Accounts, Processes
<1>4. CASE Processes(t)
  <2>1. batch'[session[t].key] = batch[session[t].key] /\ Wrote(t)' = Wrote(t)
    <3>1. CASE Leaves(s)
      BY <1>1, <3>1, LeavesAlone DEF Wrote
    <3>2. CASE ~Leaves(s)
      <4>1. session[t].key \in ImportKey /\ session[t].key # session[s].key
        BY <1>4, <3>2, DistinctKeys, ProcessesKey
      <4>2. /\ \A e \in entries' \ entries : e.batch = session[s].key
            /\ entries \subseteq entries'
            /\ batch'[session[t].key] = batch[session[t].key]
        BY <4>1, AddsToOwn DEF Books
      <4> QED
        BY <1>1, <4>1, <4>2 DEF Wrote
    <3> QED
      BY <3>1, <3>2
  <2> QED
    BY <1>1, <1>2, <2>1 DEF Accounts
<1> QED
  BY <1>3, <1>4

-----------------------------------------------------------------------------
(* A commit writes as many entries as it planned rows. *)
LEMMA WrittenCount ==
    ASSUME IInv, NEW s \in Session, session[s].state = "write", NEW again
    PROVE  Cardinality(Written(s, again)) = Cardinality(session[s].planned)
<1> DEFINE planned == session[s].planned
           Read(i) == IF i \in again THEN Of(entries, Rows(s)[i].date)
                      ELSE session[s].seen[Rows(s)[i].date]
           New(i) == NewEntry(Read(i), Rows(s)[i], session[s].stamp, session[s].key)
           f == [i \in planned |-> New(i)]
<1>1. Written(s, again) = {New(i) : i \in planned}
  BY DEF Written
<1>2. planned \subseteq DOMAIN Rows(s) /\ IsFiniteSet(planned)
  <2>1. planned \subseteq 1..Len(Rows(s)) /\ Len(Rows(s)) \in Nat
        /\ planned \subseteq DOMAIN Rows(s)
    BY RowFacts DEF IInv, Serves
  <2>2. 1 \in Int /\ Len(Rows(s)) \in Int
    BY <2>1
  <2> QED
    BY <2>1, <2>2, FS_Interval, FS_Subset
<1>3. \A i, j \in planned : New(i) = New(j) => i = j
  <2>1. \A i \in planned : New(i).date = Rows(s)[i].date
    BY DEF NewEntry
  <2> HIDE DEF New
  <2> QED
    BY <1>2, <2>1, OneRowPerDate
<1> HIDE DEF New
<1>4. f \in Bijection(planned, Written(s, again))
  <2>1. f \in [planned -> Written(s, again)]
    BY <1>1
  <2>2. \A i, j \in planned : f[i] = f[j] => i = j
    BY <1>3
  <2>3. \A e \in Written(s, again) : \E i \in planned : f[i] = e
    BY <1>1
  <2> HIDE DEF f, planned
  <2> QED
    BY <2>1, <2>2, <2>3 DEF Bijection, Injection, Surjection, IsInjective
<1> QED
  BY <1>2, <1>4, FS_Bijection DEF ExistsBijection

LEMMA CommitBalances ==
    ASSUME IInv, Books, NEW s \in Session, NEW k \in ImportKey, k = session[s].key, Commit(s)
    PROVE  Balanced(k)'
<1> DEFINE q == session[s]
           n == Cardinality(q.planned)
<1>1. q.state = "write"
  BY KeyFacts DEF Commit, CanWrite
<1>2. Own(k) = {}
  BY NoKeyIsNothing DEF Books, Balanced, Commit, KeyTaken
<1>3. PICK again : entries' = entries \cup Written(s, again)
  BY DEF Commit
<1>4. Own(k)' = Written(s, again)
  <2>1. \A e \in Written(s, again) : e.batch = k
    BY WrittenRows
  <2> QED
    BY <1>2, <1>3, <2>1 DEF Own
<1>5. Cardinality(Own(k)') = n /\ n \in Nat
  BY <1>1, <1>4, WrittenCount, Counts
<1>6. batch'[k] = SyncBatch(q)
  BY NoKeyIsNothing DEF Commit, IInv, TypeOK
<1>7. /\ SyncBatch(q).status = "completed" /\ SyncBatch(q).accepted = n
      /\ SyncBatch(q).rejected = 0 /\ SyncBatch(q).rows = n /\ SyncBatch(q).errors = {}
      /\ SyncBatch(q).payload = q.payload
  <2> HIDE DEF q
  <2> QED
    BY DEF SyncBatch, NoBatch
<1>8. n + 0 = n /\ Cardinality({}) = 0
  BY <1>5, FS_EmptySet
<1>9. Reported(k)' = {}
  BY NoKeyIsNothing DEF Books, Balanced, Commit, KeyTaken, Reported
<1>10. ASSUME q.payload.kind = "file" PROVE FALSE
  BY <1>1, <1>10 DEF IInv, Serves
<1> HIDE DEF n
<1> QED
  BY <1>5, <1>6, <1>7, <1>8, <1>9, <1>10 DEF Balanced

LEMMA OpenBatchBalances ==
    ASSUME IInv, Books, NEW s \in Session, NEW k \in ImportKey, k = session[s].key,
           OpenBatch(s), ~KeyTaken(k)
    PROVE  Balanced(k)'
<1> DEFINE q == session[s]
           b == [NoBatch EXCEPT !.status = "processing", !.payload = q.payload,
                   !.rows = Len(Rows(s)), !.rejected = Len(Rows(s))]
<1>1. q.state = "open" /\ entries' = entries
  BY OpenBatchEffect DEF OpenBatch
<1>2. Own(k)' = {}
  BY <1>1, NoKeyIsNothing DEF Books, Balanced, KeyTaken, Own
<1>3. batch'[k] = b
  BY <1>1 DEF OpenBatch, IInv, TypeOK
<1>4. /\ b.status = "processing" /\ b.rows = Len(Rows(s)) /\ b.rejected = Len(Rows(s))
      /\ b.accepted = 0 /\ b.errors = {} /\ Len(Rows(s)) \in Nat
  BY <1>1, Counts DEF NoBatch
<1>5. Reported(k)' = {}
  BY NoKeyIsNothing DEF Books, Balanced, OpenBatch, KeyTaken, Reported
<1> HIDE DEF b
<1> QED
  BY <1>2, <1>3, <1>4, <1>5 DEF Balanced

LEMMA InsertBalances ==
    ASSUME IInv, Books, NEW s \in Session, NEW k \in ImportKey, k = session[s].key,
           InsertRow(s), Inserts(s)
    PROVE  Balanced(k)'
<1>1. /\ batch' = batch /\ batch[k].status = "processing"
      /\ batch[k].payload = session[s].payload /\ k \in ImportKey
  BY ProcessesKey DEF InsertRow, Books, Accounts, Processes
<1>2. /\ batch[k].accepted + batch[k].rejected = batch[k].rows
      /\ (Own(k) # {} => Dialect = "sqlite" /\ batch[k].payload.partial)
      /\ Reported(k) = {} /\ batch[k].errors = {}
  BY <1>1 DEF Books, Balanced
<1>3. entries' = entries \/ SavepointCommits(session[s])
  BY DEF Inserts
<1>4. Own(k)' # {} => Dialect = "sqlite" /\ batch[k].payload.partial
  BY <1>1, <1>2, <1>3 DEF Own, SavepointCommits
<1>5. Reported(k)' = Reported(k)
  BY DEF InsertRow, Reported
<1> QED
  BY <1>1, <1>2, <1>4, <1>5 DEF Balanced

LEMMA FinishBalances ==
    ASSUME IInv, Books, NEW s \in Session, NEW k \in ImportKey, k = session[s].key,
           FinishImport(s)
    PROVE  Balanced(k)'
<1> DEFINE q == session[s]
           n == Cardinality(q.rejected)
           b == [batch[k] EXCEPT
                   !.accepted = Len(Rows(s)) - n, !.rejected = n, !.errors = q.rejected,
                   !.status = IF n = 0 THEN "completed" ELSE "completed_with_errors"]
<1>1. q.state = "rows" /\ AllRead(s) /\ k \in ImportKey
  BY ProcessesKey DEF FinishImport, Processes
<1>2. /\ batch[k].payload = q.payload /\ batch[k].rows = Len(Rows(s))
      /\ q.next <= Len(Rows(s)) + 1 /\ q.rejected \subseteq 1 .. (q.next - 1)
      /\ Cardinality(Wrote(s)) + n = q.next - 1
      /\ IsFiniteSet(Wrote(s))
      /\ \A e \in pending[s] : e.batch = k
      /\ \A i \in 1 .. (q.next - 1) : i \in q.rejected \/ Stores(Wrote(s), Rows(s)[i])
      /\ batch[k].status = "processing"
  BY <1>1 DEF Books, Accounts
<1>3. /\ n \in Nat /\ Len(Rows(s)) \in Nat /\ q.next \in Nat /\ Cardinality(Wrote(s)) \in Nat
  BY <1>1, <1>2, Counts, RowFacts, FS_CardinalityType
<1>4. q.next = Len(Rows(s)) + 1
  BY <1>1, <1>2, <1>3 DEF AllRead
<1>5. Own(k)' = Wrote(s)
  BY <1>2 DEF Own, Wrote, FinishImport
<1>6. Cardinality(Own(k)') = Len(Rows(s)) - n
  <2> HIDE DEF n, q
  <2>1. Cardinality(Wrote(s)) = Len(Rows(s)) - n
    BY <1>2, <1>3, <1>4
  <2> QED
    BY <1>5, <2>1
<1>7. batch'[k] = b /\ batch[k] \in Batch
  BY <1>1 DEF FinishImport, IInv, TypeOK
<1>8. /\ b.status = (IF n = 0 THEN "completed" ELSE "completed_with_errors")
      /\ b.accepted = Len(Rows(s)) - n /\ b.rejected = n /\ b.errors = q.rejected
      /\ b.rows = Len(Rows(s)) /\ b.payload = q.payload
  <2> HIDE DEF n
  <2> QED
    BY <1>2, <1>7 DEF Batch
<1>9. /\ b.status \in {"completed", "completed_with_errors"}
      /\ b.accepted + b.rejected = b.rows
  BY <1>3, <1>8
<1>10. Rows(s) = b.payload.rows
  BY <1>8 DEF Rows
<1>11. \A i \in DOMAIN Rows(s) \ q.rejected : Stores(Own(k)', Rows(s)[i])
  <2>1. DOMAIN Rows(s) = 1..(q.next - 1)
    BY <1>1, <1>3, <1>4, RowFacts
  <2> QED
    BY <1>2, <1>5, <2>1
<1>12. Reported(k)' = {[batch |-> k, row |-> i, date |-> Rows(s)[i].date] : i \in q.rejected}
  <2>1. Reported(k) = {}
    BY <1>1, <1>2 DEF Books, Balanced
  <2>2. issues' = issues \cup RowIssues(s)
    BY DEF FinishImport
  <2> QED
    BY <2>1, <2>2 DEF Reported, RowIssues
<1> HIDE DEF b
<1>13. Cardinality(b.errors) = n
  BY <1>8
<1> HIDE DEF n
<1> QED
  BY <1>6, <1>7, <1>8, <1>9, <1>10, <1>11, <1>12, <1>13 DEF Balanced, Stores

LEMMA FailureBalances ==
    ASSUME IInv, Books, NEW s \in Session, NEW k \in ImportKey, k = session[s].key,
           RecordFailure(s)
    PROVE  Balanced(k)'
<1> DEFINE b == [batch[k] EXCEPT !.status = "failed", !.accepted = 0,
                   !.rejected = batch[k].rows, !.errors = {session[s].next}]
<1>1. session[s].state = "failing" /\ k \in ImportKey /\ entries' = entries
  BY ProcessesKey DEF RecordFailure, Processes
<1>2. Own(k)' = {}
  BY <1>1 DEF Books, Accounts, Balanced, Own
<1>3. batch'[k] = b /\ batch[k] \in Batch
  BY <1>1 DEF RecordFailure, IInv, TypeOK
<1>4. /\ b.status = "failed" /\ b.accepted = 0 /\ b.rejected = batch[k].rows
      /\ b.rows = batch[k].rows /\ b.errors = {session[s].next} /\ batch[k].rows \in Nat
  BY <1>3 DEF Batch
<1>5. Cardinality(b.errors) = 1
  BY <1>4, FS_Singleton
<1>6. Reported(k)' = {}
  BY <1>1 DEF Books, Accounts, Balanced, Reported, RecordFailure
<1> HIDE DEF b
<1> QED
  BY <1>2, <1>3, <1>4, <1>5, <1>6 DEF Balanced

LEMMA BalancedStep ==
    ASSUME IInv, Books, NEW s \in Session, Acts(s), NEW k \in ImportKey
    PROVE  Balanced(k)'
<1>1. Balanced(k) /\ Accounts(s)
  BY DEF Books
<1>2. CASE Leaves(s)
  <2>1. batch' = batch /\ Own(k)' = Own(k) /\ Reported(k)' = Reported(k)
    BY <1>2, LeavesAlone DEF Own
  <2> QED
    BY <1>1, <2>1 DEF Balanced
<1>3. CASE k # session[s].key
  <2>1. batch'[k] = batch[k] /\ Own(k)' = Own(k) /\ Reported(k)' = Reported(k)
    BY <1>1, <1>3, AddsToOwn
  <2> QED
    BY <1>1, <2>1 DEF Balanced
<1>4. CASE k = session[s].key /\ ~Leaves(s)
  BY <1>4, ActsOnOwn, NoKeyIsNothing, CommitBalances, OpenBatchBalances, InsertBalances,
     FinishBalances, FailureBalances
<1> QED
  BY <1>2, <1>3, <1>4

LEMMA BooksStep == IInv /\ Books /\ [Next]_vars => Books'
<1> SUFFICES ASSUME IInv, Books, [Next]_vars PROVE Books'
  OBVIOUS
<1>1. CASE Tick \/ UNCHANGED vars
  <2>1. /\ session' = session /\ pending' = pending /\ entries' = entries /\ batch' = batch
        /\ issues' = issues
    BY <1>1 DEF Tick, vars
  <2>2. OneImport'
    BY <2>1 DEF Books, OneImport, Processes
  <2>3. ASSUME NEW s \in Session PROVE Accounts(s)'
    <3>1. Wrote(s)' = Wrote(s) /\ Rows(s)' = Rows(s)
      BY <2>1 DEF Wrote, Rows
    <3> QED
      BY <2>1, <3>1 DEF Books, Accounts
  <2>4. ASSUME NEW k \in ImportKey PROVE Balanced(k)'
    <3>1. Own(k)' = Own(k) /\ Reported(k)' = Reported(k)
      BY <2>1 DEF Own, Reported
    <3> QED
      BY <2>1, <3>1 DEF Books, Balanced
  <2> QED
    BY <2>2, <2>3, <2>4 DEF Books
<1>2. ASSUME NEW s \in Session, Acts(s) PROVE Books'
  <2>1. \A t \in Session : Accounts(t)'
    BY <1>2, ActorAccounts, OtherAccounts
  <2> QED
    BY <1>2, <2>1, OneImportStep, BalancedStep DEF Books
<1> QED
  BY <1>1, <1>2 DEF Next, Acts, BreakDeadlock

LEMMA BooksInit == Init => Books
<1> SUFFICES ASSUME Init PROVE Books
  OBVIOUS
<1>1. OneImport /\ \A s \in Session : Accounts(s)
  BY DEF Init, Idle, OneImport, Processes, Accounts
<1>2. ASSUME NEW k \in ImportKey PROVE Balanced(k)
  BY DEF Init, NoBatch, Balanced, Own, Reported
<1> QED
  BY <1>1, <1>2 DEF Books

LEMMA BooksAlways == Spec => []Books
BY BooksInit, BooksStep, IInvAlways, PTL DEF Spec

(* The counts of a batch with an outcome are those of the entries that     *)
(* carry it; each row of a finished file import has its entry, or its      *)
(* error and its issue; and a batch that failed, or was cut short in an    *)
(* atomic import, has left no entry and no issue: wherever a row was       *)
(* rejected, a statement waited, or a request was cut short, and whatever  *)
(* other imports wrote meanwhile.                                          *)
THEOREM BatchesAlways == Spec => []BatchCountsRows
<1>1. Books => BatchCountsRows
  BY DEF Books, Balanced, BatchCountsRows, Own, Reported
<1> QED
  BY <1>1, BooksAlways, PTL

-----------------------------------------------------------------------------
(* The histories of a store whose dates are chains.                        *)

State == [previous : Value \cup {Nothing}, value : Value, batch : ImportKey \cup {Nothing}]

At(C, n) == CHOOSE e \in C : e.sequence = n

StateOf(e) == [previous |-> e.previous, value |-> e.value, batch |-> e.batch]

LEMMA AtFacts ==
    ASSUME NEW C \in SUBSET Entry, Chain(C), NEW n \in 0..(Cardinality(C) - 1)
    PROVE  At(C, n) \in C /\ At(C, n).sequence = n
<1>1. \E e \in C : e.sequence = n
  BY DEF Chain
<1> QED
  BY <1>1 DEF At

(* As the sequences have no gap, the rank of an entry is its sequence. *)
LEMMA RankIsSequence ==
    ASSUME NEW C \in SUBSET Entry, Chain(C), NEW e \in C
    PROVE  Rank(C, e) = e.sequence
<1> DEFINE n == e.sequence
           below == {f \in C : f.sequence < n}
           at == [f \in below |-> f.sequence + 1]
<1>1. /\ IsFiniteSet(C) /\ Cardinality(C) \in Nat
      /\ n \in 0..(Cardinality(C) - 1)
      /\ \A f \in C : f.sequence \in Nat
  BY FS_CardinalityType DEF Chain, Entry
<1>2. at \in Bijection(below, 1..n)
  <2>1. at \in [below -> 1..n]
    BY <1>1
  <2>2. \A f, g \in below : at[f] = at[g] => f = g
    BY <1>1 DEF Chain
  <2>3. ASSUME NEW m \in 1..n PROVE \E f \in below : at[f] = m
    <3>1. m - 1 \in 0..(Cardinality(C) - 1) /\ m - 1 < n /\ (m - 1) + 1 = m
      BY <1>1
    <3>2. PICK f \in C : f.sequence = m - 1
      BY <3>1 DEF Chain
    <3>3. f \in below
      BY <3>1, <3>2
    <3> QED
      BY <3>1, <3>2, <3>3
  <2> HIDE DEF at, below
  <2> QED
    BY <2>1, <2>2, <2>3 DEF Bijection, Injection, Surjection, IsInjective
<1>3. IsFiniteSet(below)
  BY <1>1, FS_Subset
<1>4. Cardinality(1..n) = Cardinality(below)
  BY <1>2, <1>3, FS_Bijection DEF ExistsBijection
<1>5. Cardinality(1..n) = n
  <2> HIDE DEF n
  <2>1. 1 \in Int /\ n \in Int /\ n \in Nat
    BY <1>1
  <2>2. Cardinality(1..n) = IF 1 > n THEN 0 ELSE n - 1 + 1
    BY <2>1, FS_Interval
  <2> QED
    BY <2>1, <2>2
<1> QED
  BY <1>4, <1>5 DEF Rank

LEMMA HistoryAt ==
    ASSUME NEW C \in SUBSET Entry, Chain(C)
    PROVE  /\ Cardinality(C) \in Nat
           /\ HistoryOf(C) \in [1..Cardinality(C) -> State]
           /\ \A i \in 1..Cardinality(C) : HistoryOf(C)[i] = StateOf(At(C, i - 1))
<1> DEFINE n == Cardinality(C)
           Chosen(i) == CHOOSE e \in C : Rank(C, e) <= i - 1 /\
                          \A f \in C : Rank(C, f) <= i - 1 => Rank(C, f) <= Rank(C, e)
<1>1. n \in Nat
  BY FS_CardinalityType DEF Chain
<1>2. ASSUME NEW i \in 1..n PROVE Chosen(i) = At(C, i - 1)
  <2>1. i - 1 \in 0..(n - 1) /\ i - 1 \in Nat
    BY <1>1
  <2>2. At(C, i - 1) \in C /\ At(C, i - 1).sequence = i - 1
    BY <2>1, AtFacts
  <2> DEFINE P(e) == Rank(C, e) <= i - 1 /\
                       \A f \in C : Rank(C, f) <= i - 1 => Rank(C, f) <= Rank(C, e)
  <2>3. P(At(C, i - 1))
    BY <2>1, <2>2, RankIsSequence
  <2>4. Chosen(i) \in C /\ P(Chosen(i))
    BY <2>2, <2>3
  <2>5. Rank(C, At(C, i - 1)) = i - 1
    BY <2>2, RankIsSequence
  <2>6. Rank(C, Chosen(i)) <= i - 1 /\ i - 1 <= Rank(C, Chosen(i))
    BY <2>1, <2>2, <2>4, <2>5
  <2>7. Rank(C, Chosen(i)) = Chosen(i).sequence /\ Chosen(i).sequence \in Nat
    BY <2>4, RankIsSequence DEF Entry
  <2>8. Chosen(i).sequence = i - 1
    BY <2>1, <2>6, <2>7
  <2> QED
    BY <2>2, <2>4, <2>8 DEF Chain
<1>3. HistoryOf(C) = [i \in 1..n |-> StateOf(Chosen(i))]
  BY DEF HistoryOf, StateOf
<1> HIDE DEF Chosen
<1>4. \A i \in 1..n : HistoryOf(C)[i] = StateOf(At(C, i - 1))
  BY <1>2, <1>3
<1>5. ASSUME NEW i \in 1..n PROVE StateOf(Chosen(i)) \in State
  <2>1. At(C, i - 1) \in Entry
    BY <1>1, AtFacts
  <2> QED
    BY <1>2, <2>1 DEF StateOf, State, Entry
<1> QED
  BY <1>1, <1>3, <1>4, <1>5

(* A chain that is continued is a history that grows. *)
LEMMA HistoryGrows ==
    ASSUME NEW C \in SUBSET Entry, Chain(C), NEW D \in SUBSET Entry, Chain(D), C \subseteq D,
           NEW batches, \A e \in D \ C : e.batch \in batches
    PROVE  LET old == HistoryOf(C)
               new == HistoryOf(D) IN
           /\ Len(old) <= Len(new)
           /\ SubSeq(new, 1, Len(old)) = old
           /\ \A i \in (Len(old) + 1)..Len(new) :
                /\ new[i].batch \in batches
                /\ new[i].previous = IF i = 1 THEN Nothing ELSE new[i - 1].value
<1> DEFINE old == HistoryOf(C)
           new == HistoryOf(D)
           m == Cardinality(C)
           n == Cardinality(D)
<1>1. /\ m \in Nat /\ old \in [1..m -> State] /\ \A i \in 1..m : old[i] = StateOf(At(C, i - 1))
      /\ n \in Nat /\ new \in [1..n -> State] /\ \A i \in 1..n : new[i] = StateOf(At(D, i - 1))
  BY HistoryAt
<1>2. m <= n
  BY FS_Subset DEF Chain
<1> HIDE DEF old, new, m, n
<1>3. Len(old) = m /\ Len(new) = n /\ old \in Seq(State) /\ new \in Seq(State)
  BY <1>1
<1>4. ASSUME NEW i \in 1..m PROVE At(C, i - 1) = At(D, i - 1)
  <2>1. i - 1 \in 0..(m - 1) /\ i - 1 \in 0..(n - 1)
    BY <1>1, <1>2
  <2>2. /\ At(C, i - 1) \in C /\ At(C, i - 1).sequence = i - 1
        /\ At(D, i - 1) \in D /\ At(D, i - 1).sequence = i - 1
    BY <2>1, AtFacts DEF m, n
  <2> QED
    BY <2>2 DEF Chain
<1>5. SubSeq(new, 1, m) = old
  <2>1. \A i \in 1..m : new[i] = old[i]
    BY <1>1, <1>2, <1>4
  <2> QED
    BY <1>1, <1>2, <1>3, <2>1
<1>6. ASSUME NEW i \in (m + 1)..n
      PROVE  /\ new[i].batch \in batches
             /\ new[i].previous = IF i = 1 THEN Nothing ELSE new[i - 1].value
  <2>1. i \in Nat /\ i \in 1..n /\ i - 1 \in 0..(n - 1) /\ ~(i - 1 <= m - 1)
    BY <1>1
  <2> DEFINE e == At(D, i - 1)
  <2>2. e \in D /\ e.sequence = i - 1
    BY <2>1, AtFacts DEF n
  <2>3. e \notin C
    <3>1. \A f \in C : f.sequence \in 0..(m - 1)
      BY DEF Chain, m
    <3> QED
      BY <1>1, <2>1, <2>2, <3>1
  <2>4. new[i] = StateOf(e)
    BY <1>1, <2>1
  <2>5. new[i].batch = e.batch /\ new[i].previous = e.previous
    BY <2>4 DEF StateOf
  <2>6. CASE i = 1
    <3>1. e.sequence = 0
      BY <2>2, <2>6
    <3> QED
      BY <2>2, <2>3, <2>5, <2>6, <3>1 DEF Chain
  <2>7. CASE i # 1
    <3> DEFINE f == At(D, i - 2)
    <3>1. i - 2 \in 0..(n - 1) /\ i - 1 \in 1..n /\ (i - 1) - 1 = i - 2 /\ i - 1 = (i - 2) + 1
      BY <1>1, <2>1, <2>7
    <3>2. f \in D /\ f.sequence = i - 2
      BY <3>1, AtFacts DEF n
    <3>3. new[i - 1] = StateOf(f)
      BY <1>1, <3>1
    <3>4. new[i - 1].value = f.value
      BY <3>3 DEF StateOf
    <3>5. e.sequence = f.sequence + 1
      BY <2>2, <3>1, <3>2
    <3>6. e.previous = f.value
      BY <2>2, <3>2, <3>5 DEF Chain
    <3> QED
      BY <2>2, <2>3, <2>5, <2>7, <3>4, <3>6
  <2> QED
    BY <2>6, <2>7
<1> QED
  BY <1>2, <1>3, <1>5, <1>6 DEF old, new

(* The histories and outcomes that the store shows. *)
Finished == {k \in ImportKey : batch[k].status \notin {"none", "processing"}}

Histories == [d \in Date |-> HistoryOf(Of(entries, d))]

LEMMA DateGrows ==
    ASSUME IInv, IInv', entries \subseteq entries', NEW d \in Date, NEW batches,
           \A e \in entries' \ entries : e.date = d => e.batch \in batches
    PROVE  History!Appended(d, batches)
<1> DEFINE C == Of(entries, d)
           D == Of(entries', d)
<1>1. /\ C \in SUBSET Entry /\ Chain(C) /\ D \in SUBSET Entry /\ Chain(D)
  BY DEF IInv, TypeOK, Chained, Of
<1>2. C \subseteq D /\ \A e \in D \ C : e.batch \in batches
  BY DEF Of
<1> HIDE DEF C, D
<1>3. LET old == HistoryOf(C)
          new == HistoryOf(D) IN
      /\ Len(old) <= Len(new)
      /\ SubSeq(new, 1, Len(old)) = old
      /\ \A i \in (Len(old) + 1)..Len(new) :
           /\ new[i].batch \in batches
           /\ new[i].previous = IF i = 1 THEN Nothing ELSE new[i - 1].value
  BY <1>1, <1>2, HistoryGrows
<1>4. Histories[d] = HistoryOf(C) /\ Histories'[d] = HistoryOf(D)
  BY DEF Histories, C, D
<1> QED
  BY <1>3, <1>4 DEF History!Appended, Histories

(* An import ends with what it still had to add. *)
LEMMA ImportFinishes ==
    ASSUME IInv, IInv', entries \subseteq entries', NEW k \in ImportKey,
           \A e \in entries' \ entries : e.batch = k,
           batch[k].status \in {"none", "processing"},
           batch'[k].status \in {"completed", "completed_with_errors", "failed"},
           \A j \in ImportKey \ {k} : batch'[j] = batch[j]
    PROVE  History!Finish(k)
<1>1. k \notin Finished /\ Finished' = Finished \cup {k}
  BY DEF Finished
<1>2. \A d \in Date : History!Appended(d, {k})
  BY DateGrows
<1> QED
  BY <1>1, <1>2 DEF History!Finish, Finished

(* One entry is added outside the end of an import. *)
LEMMA EntryAdds ==
    ASSUME IInv, IInv', entries \subseteq entries', NEW d \in Date,
           \A e \in entries' \ entries : /\ e.date = d
                                         /\ e.batch \in {Nothing} \cup (ImportKey \ Finished),
           Finished' = Finished
    PROVE  History!Add
<1>1. History!Appended(d, {Nothing} \cup (ImportKey \ Finished))
  BY DateGrows
<1>2. ASSUME NEW c \in Date \ {d} PROVE Of(entries', c) = Of(entries, c)
  BY DEF Of
<1>3. \A c \in Date \ {d} : Histories'[c] = Histories[c]
  BY <1>2 DEF Histories
<1> QED
  BY <1>1, <1>3 DEF History!Add, Finished, Histories

LEMMA HistoryRests ==
    ASSUME entries' = entries, Finished' = Finished
    PROVE  UNCHANGED History!vars
BY DEF History!vars, Finished

LEMMA CommitHistory ==
    ASSUME IInv, IInv', Books, NEW s \in Session, Commit(s), entries \subseteq entries'
    PROVE  History!Next
<1> DEFINE q == session[s]
<1>1. /\ q.key \in ImportKey \cup {Nothing} /\ q.state = "write"
      /\ \A e \in entries' \ entries : e.batch = q.key
  BY KeyFacts, WrittenRows DEF Commit, CanWrite
<1>2. CASE q.key \in ImportKey
  <2>1. /\ batch[q.key].status = "none"
        /\ \A j \in ImportKey \ {q.key} : batch'[j] = batch[j]
        /\ batch'[q.key] = SyncBatch(q)
    BY <1>2, NoKeyIsNothing DEF Commit, KeyTaken, IInv, TypeOK
  <2>2. batch'[q.key].status = "completed"
    BY <2>1 DEF SyncBatch, NoBatch
  <2>3. \E k \in ImportKey : History!Finish(k)
    BY <1>1, <1>2, <2>1, <2>2, ImportFinishes
  <2> QED
    BY <2>3 DEF History!Next
<1>3. CASE q.key = Nothing
  <2>1. q.payload.kind = "manual" /\ q.payload \in Payload
    <3>1. q.payload \in Payload
      BY <1>1, RowFacts
    <3>2. q.payload.kind \in {"sync", "manual"} /\ (q.payload.kind # "manual" => q.key \in ImportKey)
      BY <1>1 DEF IInv, Serves
    <3> QED
      BY <1>3, <3>1, <3>2, NoKeyIsNothing
  <2>2. Len(Rows(s)) = 1 /\ DOMAIN Rows(s) = 1..Len(Rows(s)) /\ Rows(s)[1].date \in Date
    BY <1>1, <2>1, RowFacts, StoreAssumption DEF StoreAssumption, Rows
  <2>3. \A i \in q.planned : i = 1
    <3>1. q.planned \subseteq DOMAIN Rows(s)
      BY <1>1 DEF IInv, Serves
    <3> HIDE DEF q
    <3> QED
      BY <2>2, <3>1
  <2>4. \A e \in entries' \ entries : e.date = Rows(s)[1].date
    BY <2>3, WrittenRows DEF Commit
  <2>5. Finished' = Finished
    BY <1>3 DEF Commit, Finished
  <2>6. History!Add
    BY <1>1, <1>3, <2>2, <2>4, <2>5, EntryAdds
  <2> QED
    BY <2>6 DEF History!Next
<1> QED
  BY <1>1, <1>2, <1>3

LEMMA InsertHistory ==
    ASSUME IInv, IInv', Books, NEW s \in Session, InsertRow(s), Inserts(s),
           entries \subseteq entries'
    PROVE  History!Next \/ UNCHANGED History!vars
<1> DEFINE k == session[s].key
<1>1. k \in ImportKey /\ batch' = batch /\ batch[k].status = "processing"
  BY ProcessesKey DEF InsertRow, Books, Accounts, Processes
<1>2. Finished' = Finished /\ k \in ImportKey \ Finished
  BY <1>1 DEF Finished
<1>3. CASE entries' = entries
  BY <1>2, <1>3, HistoryRests
<1>4. CASE entries' # entries
  <2>1. PICK new : entries' = entries \cup {new} /\ new.batch = k
    BY <1>4 DEF Inserts
  <2>2. new.date \in Date
    BY <2>1 DEF IInv, TypeOK, Entry
  <2>3. History!Add
    BY <1>2, <2>1, <2>2, EntryAdds
  <2> QED
    BY <2>3 DEF History!Next
<1> QED
  BY <1>3, <1>4

LEMMA EndHistory ==
    ASSUME IInv, IInv', Books, NEW s \in Session, FinishImport(s) \/ RecordFailure(s),
           entries \subseteq entries'
    PROVE  History!Next
<1> DEFINE k == session[s].key
<1>1. /\ k \in ImportKey /\ batch[k].status = "processing"
      /\ \A e \in pending[s] : e.batch = k
  BY ProcessesKey DEF FinishImport, RecordFailure, Books, Accounts, Processes
<1>2. \A e \in entries' \ entries : e.batch = k
  BY <1>1 DEF FinishImport, RecordFailure
<1>3. /\ \A j \in ImportKey \ {k} : batch'[j] = batch[j]
      /\ batch[k] \in Batch
  BY <1>1 DEF FinishImport, RecordFailure, IInv, TypeOK
<1>4. batch'[k].status \in {"completed", "completed_with_errors", "failed"}
  <2>1. CASE FinishImport(s)
    <3> DEFINE n == Cardinality(session[s].rejected)
               b == [batch[k] EXCEPT
                       !.accepted = Len(Rows(s)) - n, !.rejected = n,
                       !.errors = session[s].rejected,
                       !.status = IF n = 0 THEN "completed" ELSE "completed_with_errors"]
    <3>1. batch'[k] = b
      BY <1>1, <2>1 DEF FinishImport, IInv, TypeOK
    <3>2. b.status = IF n = 0 THEN "completed" ELSE "completed_with_errors"
      BY <1>3 DEF Batch
    <3> HIDE DEF b, n
    <3> QED
      BY <3>1, <3>2
  <2>2. CASE RecordFailure(s)
    <3> DEFINE b == [batch[k] EXCEPT !.status = "failed", !.accepted = 0,
                       !.rejected = batch[k].rows, !.errors = {session[s].next}]
    <3>1. batch'[k] = b
      BY <1>1, <2>2 DEF RecordFailure, IInv, TypeOK
    <3>2. b.status = "failed"
      BY <1>3 DEF Batch
    <3> HIDE DEF b
    <3> QED
      BY <3>1, <3>2
  <2> QED
    BY <2>1, <2>2
<1>5. \E j \in ImportKey : History!Finish(j)
  BY <1>1, <1>2, <1>3, <1>4, ImportFinishes
<1> QED
  BY <1>5 DEF History!Next

LEMMA HistoryStep == IInv /\ IInv' /\ Books /\ [Next]_vars => [History!Next]_History!vars
<1> SUFFICES ASSUME IInv, IInv', Books, [Next]_vars
             PROVE  History!Next \/ UNCHANGED History!vars
  OBVIOUS
<1>1. CASE Tick \/ UNCHANGED vars
  <2>1. entries' = entries /\ batch' = batch
    BY <1>1 DEF Tick, vars
  <2> QED
    BY <2>1, HistoryRests DEF Finished
<1>2. ASSUME NEW s \in Session, Acts(s) PROVE History!Next \/ UNCHANGED History!vars
  <2>1. entries \subseteq entries'
    BY <1>2, ActorChanges, ChainStep
  <2>2. CASE Leaves(s)
    <3>1. entries' = entries /\ Finished' = Finished
      BY <2>2, LeavesAlone DEF Finished
    <3> QED
      BY <3>1, HistoryRests
  <2>3. CASE Commit(s)
    BY <2>1, <2>3, CommitHistory
  <2>4. CASE OpenBatch(s) /\ ~KeyTaken(session[s].key)
    <3> DEFINE b == [NoBatch EXCEPT !.status = "processing", !.payload = session[s].payload,
                       !.rows = Len(Rows(s)), !.rejected = Len(Rows(s))]
    <3>1. /\ session[s].key \in ImportKey /\ entries' = entries
          /\ batch[session[s].key].status = "none"
          /\ batch' = [batch EXCEPT ![session[s].key] = b]
      BY <2>4, OpenBatchEffect, NoKeyIsNothing DEF OpenBatch, KeyTaken
    <3>2. b.status = "processing"
      BY DEF NoBatch
    <3> HIDE DEF b
    <3>3. Finished' = Finished
      BY <3>1, <3>2 DEF Finished, IInv, TypeOK
    <3> QED
      BY <3>1, <3>3, HistoryRests
  <2>5. CASE InsertRow(s) /\ Inserts(s)
    BY <2>1, <2>5, InsertHistory
  <2>6. CASE FinishImport(s) \/ RecordFailure(s)
    BY <2>1, <2>6, EndHistory
  <2> QED
    BY <1>2, <2>2, <2>3, <2>4, <2>5, <2>6, ActsOnOwn
<1> QED
  BY <1>1, <1>2 DEF Next, Acts, BreakDeadlock

LEMMA HistoryInit == Init => History!Init
<1> SUFFICES ASSUME Init PROVE History!Init
  OBVIOUS
<1>1. HistoryOf({}) = <<>>
  <2>1. Cardinality({}) = 0
    BY FS_EmptySet
  <2>2. 1..0 = {}
    OBVIOUS
  <2>3. DOMAIN HistoryOf({}) = {}
    BY <2>1, <2>2 DEF HistoryOf
  <2>4. HistoryOf({}) \in [{} -> State]
    BY <2>1, <2>2 DEF HistoryOf
  <2> QED
    BY <2>4
<1>2. \A d \in Date : Of(entries, d) = {}
  BY DEF Init, Of
<1>3. Finished = {}
  BY DEF Init, Finished, NoBatch
<1> QED
  BY <1>1, <1>2, <1>3 DEF History!Init, Finished

(* The store implements the histories: under all interleavings of reads,   *)
(* statements, savepoints, commits and interruptions, the states of a date *)
(* only grow, each to the one it replaces, and an import that has an       *)
(* outcome adds nothing any more.                                          *)
THEOREM HistoryImplemented == Spec => ImplementsHistory
BY HistoryInit, HistoryStep, IInvAlways, BooksAlways, PTL DEF Spec, ImplementsHistory, History!Spec
=============================================================================
