-------------------------- MODULE FredClient_proofs --------------------------
(***************************************************************************)
(* What a call of the FRED client promises, for any scope, any number of   *)
(* days, any size of page, any bound on the observations and any number of *)
(* retries, while the service publishes and withdraws observations between *)
(* two pages and fails as it likes: the observations returned are of the   *)
(* scope, each once, and complete unless one was withdrawn meanwhile       *)
(* (PagesAlways), and the requests of the call are bounded                 *)
(* (RequestsAlways).                                                       *)
(*                                                                         *)
(* A page is the days from the offset on, in their order.  What makes the  *)
(* pages complete is that a day which was there from the start and has not *)
(* been read comes after all those that have (Reads): a day's place is the *)
(* number of days up to it, so publishing moves it to a later page and     *)
(* never to an earlier one, and a page that repeats a day is refused.      *)
(* What bounds the requests is that every page but the last is full        *)
(* (Attempts).                                                             *)
(***************************************************************************)
EXTENDS FredClient, FiniteSetTheorems, SequenceTheorems, TLAPS

-----------------------------------------------------------------------------
(* Days in their order. *)

Ordered(s) == \A i, j \in DOMAIN s : i < j => s[i] < s[j]

LEMMA DaysAreNaturals == FredAssumption => \A d \in Day : d \in Nat
BY DEF FredAssumption, Day

LEMMA DaysAreFinite ==
    ASSUME FredAssumption, NEW S \in SUBSET Day
    PROVE  IsFiniteSet(S) /\ Cardinality(S) \in Nat
<1>1. IsFiniteSet(Day)
  <2>1. 1 \in Int /\ MaxDay \in Int
    BY DEF FredAssumption
  <2> QED
    BY <2>1, FS_Interval DEF Day
<1>2. IsFiniteSet(S)
  BY <1>1, FS_Subset
<1> QED
  BY <1>2, FS_CardinalityType

LEMMA UpTo ==
    ASSUME NEW n \in Nat
    PROVE  IsFiniteSet(1..n) /\ Cardinality(1..n) = n
<1>1. 1 \in Int /\ n \in Int
  OBVIOUS
<1>2. IsFiniteSet(1..n) /\ Cardinality(1..n) = IF 1 > n THEN 0 ELSE n - 1 + 1
  BY <1>1, FS_Interval
<1> QED
  BY <1>2

(* A day's place is the number of days up to it. *)
LEMMA OrderExists ==
    ASSUME FredAssumption, NEW S \in SUBSET Day
    PROVE  \E s \in [1..Cardinality(S) -> S] : Ordered(s)
<1> DEFINE n == Cardinality(S)
           upto(e) == {d \in S : d <= e}
           place == [e \in S |-> Cardinality(upto(e))]
<1>1. /\ IsFiniteSet(S) /\ n \in Nat
      /\ IsFiniteSet(1..n) /\ Cardinality(1..n) = n
      /\ \A e \in S : e \in Nat
  BY DaysAreFinite, UpTo, DaysAreNaturals
<1>2. \A e \in S : IsFiniteSet(upto(e)) /\ place[e] \in Nat /\ place[e] <= n
  <2> SUFFICES ASSUME NEW e \in S
               PROVE  IsFiniteSet(upto(e)) /\ place[e] \in Nat /\ place[e] <= n
    OBVIOUS
  <2>1. upto(e) \in SUBSET S
    OBVIOUS
  <2> HIDE DEF upto
  <2>2. IsFiniteSet(upto(e)) /\ Cardinality(upto(e)) <= n
    BY <1>1, <2>1, FS_Subset
  <2> QED
    BY <2>2, FS_CardinalityType
<1>3. ASSUME NEW d \in S, NEW e \in S, d < e PROVE place[d] < place[e]
  <2>1. upto(d) \subseteq upto(e) /\ e \in upto(e) /\ e \notin upto(d)
    BY <1>1, <1>3
  <2>2. IsFiniteSet(upto(d)) /\ IsFiniteSet(upto(e))
    BY <1>2
  <2> HIDE DEF upto
  <2>3. Cardinality(upto(d)) <= Cardinality(upto(e))
    BY <2>1, <2>2, FS_Subset
  <2>4. Cardinality(upto(d)) # Cardinality(upto(e))
    BY <2>1, <2>2, FS_Subset
  <2>5. place[d] \in Nat /\ place[e] \in Nat
    BY <1>2
  <2> QED
    BY <2>3, <2>4, <2>5
<1>4. \A e \in S : place[e] \in 1..n
  <2> SUFFICES ASSUME NEW e \in S PROVE place[e] \in 1..n
    OBVIOUS
  <2>1. e \in upto(e)
    BY <1>1
  <2> HIDE DEF upto
  <2>2. Cardinality(upto(e)) # 0
    BY <1>2, <2>1, FS_EmptySet
  <2> QED
    BY <1>1, <1>2, <2>2
<1>5. place \in Injection(S, 1..n)
  <2>1. place \in [S -> 1..n]
    BY <1>4
  <2> HIDE DEF place
  <2>2. \A d, e \in S : place[d] = place[e] => d = e
    <3> SUFFICES ASSUME NEW d \in S, NEW e \in S, d # e PROVE place[d] # place[e]
      OBVIOUS
    <3>1. place[d] \in Nat /\ place[e] \in Nat
      BY <1>2
    <3>2. d < e => place[d] < place[e]
      BY <1>3
    <3>3. e < d => place[e] < place[d]
      BY <1>3
    <3>4. d < e \/ e < d
      BY <1>1
    <3> HIDE DEF upto
    <3> QED
      BY <3>1, <3>2, <3>3, <3>4
  <2> QED
    BY <2>1, <2>2 DEF Injection, IsInjective
<1>6. place \in Surjection(S, 1..n)
  <2> HIDE DEF place
  <2> QED
    BY <1>1, <1>5, FS_Injection
<1> DEFINE s == [i \in 1..n |-> CHOOSE e \in S : place[e] = i]
<1>7. \A i \in 1..n : s[i] \in S /\ place[s[i]] = i
  <2>1. \A i \in 1..n : \E e \in S : place[e] = i
    BY <1>6 DEF Surjection
  <2> HIDE DEF place
  <2> QED
    BY <2>1
<1>8. s \in [1..n -> S]
  BY <1>7
<1>9. \A i, j \in 1..n : i < j => s[i] < s[j]
  <2> SUFFICES ASSUME NEW i \in 1..n, NEW j \in 1..n, i < j PROVE s[i] < s[j]
    OBVIOUS
  <2>1. s[i] \in S /\ s[j] \in S /\ place[s[i]] = i /\ place[s[j]] = j
    BY <1>7
  <2> HIDE DEF s, place
  <2>2. s[i] \in Nat /\ s[j] \in Nat /\ s[i] # s[j]
    BY <1>1, <2>1
  <2>3. ~(s[j] < s[i])
    BY <1>1, <1>3, <2>1
  <2> QED
    BY <2>2, <2>3
<1> HIDE DEF s
<1> QED
  BY <1>8, <1>9 DEF Ordered

(* All the days of a set, each once, from the earliest to the latest. *)
LEMMA InOrderFacts ==
    ASSUME FredAssumption, NEW S \in SUBSET Day
    PROVE  /\ Cardinality(S) \in Nat
           /\ InOrder(S) \in [1..Cardinality(S) -> S] /\ Ordered(InOrder(S))
           /\ InOrder(S) \in Seq(Day) /\ Len(InOrder(S)) = Cardinality(S)
           /\ \A d \in S : \E i \in 1..Cardinality(S) : InOrder(S)[i] = d
<1> DEFINE n == Cardinality(S)
           s == InOrder(S)
<1>1. IsFiniteSet(S) /\ n \in Nat /\ IsFiniteSet(1..n) /\ Cardinality(1..n) = n
  BY DaysAreFinite, UpTo
<1>2. s \in [1..n -> S] /\ Ordered(s)
  BY OrderExists DEF InOrder, Ordered
<1> HIDE DEF s
<1>3. s \in Injection(1..n, S)
  <2>1. \A i \in 1..n : s[i] \in Nat
    BY <1>2, DaysAreNaturals
  <2>2. \A i, j \in 1..n : s[i] = s[j] => i = j
    BY <1>1, <1>2, <2>1 DEF Ordered
  <2> QED
    BY <1>2, <2>2 DEF Injection, IsInjective
<1>4. s \in Surjection(1..n, S)
  BY <1>1, <1>3, FS_Injection
<1>5. \A d \in S : \E i \in 1..n : s[i] = d
  BY <1>4 DEF Surjection
<1>6. s \in Seq(Day) /\ Len(s) = n
  BY <1>1, <1>2
<1> QED
  BY <1>1, <1>2, <1>5, <1>6 DEF s

-----------------------------------------------------------------------------
(* The pages.                                                              *)

Seen == Range(call.observed)

InScopeOf(S) == {d \in S : InScope(d)}

(* While pages are read, what is still to come comes after what has been,  *)
(* whatever was published meanwhile.                                       *)
Reads ==
    /\ call.offset = Len(call.observed)
    /\ IsInjective(call.observed)
    /\ \A d \in Seen : InScope(d)
    /\ call.step = "waiting" /\ ~withdrawn =>
         /\ known \subseteq published /\ Seen \subseteq published
         /\ \A d \in InScopeOf(known) \ Seen : \A e \in Seen : e < d

(* Every page that was not the last one was full. *)
Attempts ==
    \E pages \in Nat :
      /\ Limit * pages <= MaxObservations
      /\ call.step = "waiting" =>
           /\ call.offset = Limit * pages
           /\ call.requests <= (MaxRetries + 1) * pages + call.attempt
      /\ call.requests <= (MaxRetries + 1) * (pages + 1)

IInv == TypeOK /\ Reads /\ Attempts /\ PagesAreComplete

LEMMA LimitFacts ==
    ASSUME FredAssumption
    PROVE  Limit \in Nat \ {0} /\ Limit <= MaxObservations
<1>1. \E x \in {PageLimit, MaxObservations} : \A y \in {PageLimit, MaxObservations} : x <= y
  BY DEF FredAssumption
<1>2. /\ Limit \in {PageLimit, MaxObservations}
      /\ \A y \in {PageLimit, MaxObservations} : Limit <= y
  BY <1>1 DEF Limit, Min
<1> QED
  BY <1>2 DEF FredAssumption

LEMMA MinFacts ==
    ASSUME NEW m \in Nat, NEW n \in Nat
    PROVE  /\ Min({m, n}) \in Nat /\ Min({m, n}) <= m /\ Min({m, n}) <= n
           /\ Min({m, n}) = m \/ Min({m, n}) = n
<1>1. \E x \in {m, n} : \A y \in {m, n} : x <= y
  OBVIOUS
<1>2. Min({m, n}) \in {m, n} /\ \A y \in {m, n} : Min({m, n}) <= y
  BY <1>1 DEF Min
<1> QED
  BY <1>2

(* What is asked for, and where the answer ends. *)
LEMMA PageFacts ==
    ASSUME FredAssumption, TypeOK, NEW scoped \in BOOLEAN
    PROVE  LET M == Matching(scoped)
               rows == Page(scoped)
               offset == call.offset IN
           /\ M \in SUBSET Day /\ Count(scoped) = Cardinality(M)
           /\ rows \in Seq(Day)
           /\ \A i \in 1..Len(rows) : /\ offset + i \in 1..Cardinality(M)
                                      /\ rows[i] = InOrder(M)[offset + i]
           /\ IF IsLastPage(rows, Count(scoped))
              THEN Cardinality(M) <= offset + Len(rows)
              ELSE Len(rows) = Limit
<1> DEFINE M == Matching(scoped)
           n == Cardinality(M)
           s == InOrder(M)
           rows == Page(scoped)
           offset == call.offset
           end == Min({Len(s), offset + Limit})
<1>1. M \in SUBSET Day /\ offset \in Nat
  BY DEF TypeOK, Call, Matching
<1>2. n \in Nat /\ s \in Seq(Day) /\ Len(s) = n
  BY <1>1, InOrderFacts
<1>3. Limit \in Nat \ {0}
  BY LimitFacts
<1>4. rows = SubSeq(s, offset + 1, end)
  BY DEF Page
<1> HIDE DEF n, s, rows, offset, M
<1>5. offset + Limit \in Nat
  BY <1>1, <1>3
<1>6. /\ end \in Nat /\ end <= n /\ end <= offset + Limit
      /\ end = n \/ end = offset + Limit
  BY <1>2, <1>5, MinFacts
<1> HIDE DEF end
<1>7. /\ rows \in Seq(Day)
      /\ Len(rows) = IF offset + 1 <= end THEN end - offset ELSE 0
      /\ \A i \in 1..(end - offset) : rows[i] = s[offset + i]
  <2>1. offset + 1 \in Int /\ end \in Int
    BY <1>1, <1>6
  <2>2. \A i \in (offset + 1)..end : s[i] \in Day
    BY <1>1, <1>2, <1>6
  <2>3. /\ rows \in Seq(Day)
        /\ Len(rows) = IF offset + 1 <= end THEN end - (offset + 1) + 1 ELSE 0
        /\ \A i \in 1..(end - (offset + 1) + 1) : rows[i] = s[(offset + 1) + i - 1]
    BY <1>4, <2>1, <2>2, SubSeqProperties
  <2> QED
    BY <1>1, <1>6, <2>3
<1>8. Len(rows) \in Nat /\ Len(rows) <= Limit
  BY <1>1, <1>3, <1>6, <1>7
<1>9. \A i \in 1..Len(rows) : offset + i \in 1..n /\ rows[i] = s[offset + i]
  <2> SUFFICES ASSUME NEW i \in 1..Len(rows)
               PROVE  offset + i \in 1..n /\ rows[i] = s[offset + i]
    OBVIOUS
  <2>1. i \in 1..(end - offset)
    BY <1>1, <1>6, <1>7
  <2> QED
    BY <1>1, <1>2, <1>6, <1>7, <2>1
<1>10. IF rows = <<>> \/ offset + Len(rows) >= n
       THEN n <= offset + Len(rows) ELSE Len(rows) = Limit
  <2>1. CASE rows = <<>>
    <3>1. Len(rows) = 0
      BY <2>1
    <3>2. n <= offset + Len(rows)
      BY <1>1, <1>2, <1>3, <1>6, <1>7, <3>1
    <3> QED
      BY <2>1, <3>2
  <2>2. CASE rows # <<>> /\ offset + Len(rows) >= n
    BY <1>1, <1>2, <1>8, <2>2
  <2>3. CASE rows # <<>> /\ ~(offset + Len(rows) >= n)
    <3>1. Len(rows) # 0
      BY <1>7, <2>3, EmptySeq
    <3>2. Len(rows) = Limit
      BY <1>1, <1>2, <1>3, <1>6, <1>7, <2>3, <3>1
    <3> QED
      BY <2>3, <3>2
  <2> QED
    BY <2>1, <2>2, <2>3
<1> QED
  BY <1>1, <1>7, <1>9, <1>10 DEF IsLastPage, Count, M, n, s, rows, offset

LEMMA RangeOfConcat ==
    ASSUME NEW s \in Seq(Day), NEW t \in Seq(Day)
    PROVE  /\ s \o t \in Seq(Day) /\ Len(s \o t) = Len(s) + Len(t)
           /\ Range(s \o t) = Range(s) \cup Range(t)
           /\ DOMAIN s = 1..Len(s) /\ Len(s) \in Nat
<1>1. /\ s \o t \in Seq(Day) /\ Len(s \o t) = Len(s) + Len(t)
      /\ \A i \in 1..(Len(s) + Len(t)) :
           (s \o t)[i] = IF i <= Len(s) THEN s[i] ELSE t[i - Len(s)]
      /\ Len(s) \in Nat /\ Len(t) \in Nat /\ DOMAIN (s \o t) = 1..(Len(s) + Len(t))
      /\ DOMAIN s = 1..Len(s) /\ DOMAIN t = 1..Len(t)
  BY ConcatProperties, LenProperties
<1> DEFINE u == s \o t
<1> HIDE DEF u
<1>2. ASSUME NEW d \in Range(u) PROVE d \in Range(s) \cup Range(t)
  <2>1. PICK i \in 1..(Len(s) + Len(t)) : u[i] = d
    BY <1>1, <1>2 DEF Range, u
  <2>2. CASE i <= Len(s)
    BY <1>1, <2>1, <2>2 DEF Range, u
  <2>3. CASE ~(i <= Len(s))
    <3>1. i - Len(s) \in 1..Len(t) /\ t[i - Len(s)] = d
      BY <1>1, <2>1, <2>3 DEF u
    <3> QED
      BY <1>1, <3>1 DEF Range
  <2> QED
    BY <2>2, <2>3
<1>3. ASSUME NEW d \in Range(s) PROVE d \in Range(u)
  <2>1. PICK i \in 1..Len(s) : s[i] = d
    BY <1>1, <1>3 DEF Range
  <2>2. i \in 1..(Len(s) + Len(t)) /\ u[i] = d
    BY <1>1, <2>1 DEF u
  <2> QED
    BY <1>1, <2>2 DEF Range, u
<1>4. ASSUME NEW d \in Range(t) PROVE d \in Range(u)
  <2>1. PICK j \in 1..Len(t) : t[j] = d
    BY <1>1, <1>4 DEF Range
  <2>2. Len(s) + j \in 1..(Len(s) + Len(t)) /\ ~(Len(s) + j <= Len(s)) /\ (Len(s) + j) - Len(s) = j
    BY <1>1
  <2>3. u[Len(s) + j] = d
    BY <1>1, <2>1, <2>2 DEF u
  <2> QED
    BY <1>1, <2>2, <2>3 DEF Range, u
<1>5. Range(u) = Range(s) \cup Range(t)
  BY <1>2, <1>3, <1>4
<1> QED
  BY <1>1, <1>5 DEF u

(* An accepted page is in scope, and has no day twice or again. *)
LEMMA AcceptedFacts ==
    ASSUME FredAssumption, TypeOK, Reads, NEW rows \in Seq(Day), BadRows(rows) = {}
    PROVE  LET new == call.observed \o rows IN
           /\ new \in Seq(Day) /\ Len(new) = call.offset + Len(rows)
           /\ Len(new) <= MaxObservations
           /\ IsInjective(new) /\ \A d \in Range(new) : InScope(d)
           /\ Range(new) = Seen \cup Range(rows)
<1> DEFINE old == call.observed
           new == old \o rows
           k == Len(old)
           n == Len(rows)
<1>1. /\ old \in Seq(Day) /\ k \in Nat /\ n \in Nat /\ DOMAIN rows = 1..n /\ DOMAIN old = 1..k
      /\ k = call.offset /\ k <= MaxObservations /\ IsInjective(old)
  BY DEF TypeOK, Call, Reads
<1>2. /\ new \in Seq(Day) /\ Len(new) = k + n /\ Range(new) = Range(old) \cup Range(rows)
      /\ DOMAIN new = 1..(k + n)
      /\ \A i \in 1..(k + n) : new[i] = IF i <= k THEN old[i] ELSE rows[i - k]
  <2>1. /\ new \in Seq(Day) /\ Len(new) = k + n /\ Range(new) = Range(old) \cup Range(rows)
    BY <1>1, RangeOfConcat
  <2>2. \A i \in 1..(k + n) : new[i] = IF i <= k THEN old[i] ELSE rows[i - k]
    BY <1>1, ConcatProperties
  <2> QED
    BY <2>1, <2>2, LenProperties
<1>3. \A i \in DOMAIN rows : ~IsMalformed(rows, i) /\ ~IsTooMany(i)
  BY DEF BadRows
<1>4. k + n <= MaxObservations
  <2>1. CASE n = 0
    BY <1>1, <2>1
  <2>2. CASE n # 0
    <3>1. n \in DOMAIN rows
      BY <1>1, <2>2
    <3>2. ~(k + n > MaxObservations)
      BY <1>3, <3>1 DEF IsTooMany
    <3> QED
      BY <1>1, <3>2 DEF FredAssumption
  <2> QED
    BY <2>1, <2>2
<1>5. \A d \in Range(new) : InScope(d)
  <2>1. \A d \in Range(rows) : InScope(d)
    BY <1>3 DEF Range, IsMalformed
  <2>2. \A d \in Range(old) : InScope(d)
    BY DEF Reads, Seen
  <2> HIDE DEF new
  <2> QED
    BY <1>2, <2>1, <2>2
<1>6. ASSUME NEW i \in 1..n, NEW a \in 1..(k + i - 1) PROVE new[a] # rows[i]
  <2> DEFINE before == SubSeq(rows, 1, i - 1)
  <2>1. rows[i] \notin Range(old \o before)
    BY <1>1, <1>3 DEF IsMalformed
  <2>2. before \in Seq(Day) /\ Len(before) = i - 1 /\ \A j \in 1..(i - 1) : before[j] = rows[j]
    <3>1. \A j \in 1..(i - 1) : rows[j] \in Day
      BY <1>1
    <3>2. 1 \in Int /\ i - 1 \in Int /\ (1 <= i - 1 \/ i - 1 = 0)
      BY <1>1
    <3>3. /\ before \in Seq(Day)
          /\ Len(before) = IF 1 <= i - 1 THEN i - 1 - 1 + 1 ELSE 0
          /\ \A j \in 1..(i - 1 - 1 + 1) : before[j] = rows[1 + j - 1]
      BY <3>1, <3>2, SubSeqProperties
    <3> QED
      BY <1>1, <3>2, <3>3
  <2> HIDE DEF before
  <2>3. Range(old \o before) = Range(old) \cup Range(before)
    BY <1>1, <2>2, RangeOfConcat
  <2>4. CASE a <= k
    <3>1. new[a] = old[a] /\ a \in DOMAIN old
      BY <1>1, <1>2, <2>4
    <3> HIDE DEF new
    <3> QED
      BY <2>1, <2>3, <3>1 DEF Range
  <2>5. CASE ~(a <= k)
    <3>1. a \in 1..(k + n) /\ a - k \in 1..(i - 1)
      BY <1>1, <2>5
    <3> HIDE DEF new
    <3>2. new[a] = rows[a - k]
      BY <1>2, <2>5, <3>1
    <3>3. a - k \in DOMAIN before /\ before[a - k] = rows[a - k]
      BY <2>2, <3>1
    <3> QED
      BY <2>1, <2>3, <3>1, <3>2, <3>3 DEF Range
  <2> QED
    BY <2>4, <2>5
<1>7. \A a, b \in 1..(k + n) : a < b => new[a] # new[b]
  <2> SUFFICES ASSUME NEW a \in 1..(k + n), NEW b \in 1..(k + n), a < b PROVE new[a] # new[b]
    OBVIOUS
  <2>1. CASE b <= k
    <3>1. new[a] = old[a] /\ new[b] = old[b] /\ a \in DOMAIN old /\ b \in DOMAIN old /\ a # b
      BY <1>1, <1>2, <2>1
    <3> HIDE DEF new
    <3> QED
      BY <1>1, <3>1 DEF IsInjective
  <2>2. CASE ~(b <= k)
    <3>1. b - k \in 1..n /\ a \in 1..(k + (b - k) - 1)
      BY <1>1, <2>2
    <3> HIDE DEF new
    <3>2. new[b] = rows[b - k]
      BY <1>2, <2>2
    <3> QED
      BY <1>6, <3>1, <3>2
  <2> QED
    BY <2>1, <2>2
<1>8. IsInjective(new)
  <2> HIDE DEF new
  <2>1. ASSUME NEW a \in 1..(k + n), NEW b \in 1..(k + n), a # b PROVE new[a] # new[b]
    <3>1. a < b \/ b < a
      BY <1>1, <2>1
    <3> QED
      BY <1>7, <3>1
  <2> QED
    BY <1>2, <2>1 DEF IsInjective
<1> QED
  BY <1>1, <1>2, <1>4, <1>5, <1>8 DEF Seen

(* As many days as an injective sequence has elements. *)
LEMMA RangeCount ==
    ASSUME NEW n \in Nat, NEW s, DOMAIN s = 1..n, \A i, j \in 1..n : s[i] = s[j] => i = j
    PROVE  IsFiniteSet(Range(s)) /\ Cardinality(Range(s)) = n
<1> DEFINE f == [i \in 1..n |-> s[i]]
<1>1. f \in Bijection(1..n, Range(s))
  <2>1. f \in [1..n -> Range(s)] /\ \A i \in 1..n : f[i] = s[i]
    BY DEF Range
  <2>2. \A d \in Range(s) : \E i \in 1..n : f[i] = d
    BY DEF Range
  <2> HIDE DEF f
  <2> QED
    BY <2>1, <2>2 DEF Bijection, Injection, Surjection, IsInjective
<1> QED
  BY <1>1, UpTo, FS_Bijection DEF ExistsBijection

(* A day that was there from the start and has not been read comes after   *)
(* the pages so far; so it is in the next page, or after that one too, and *)
(* then that one was not the last.                                         *)
LEMMA ComesLater ==
    ASSUME FredAssumption, TypeOK, Reads, call.step = "waiting", ~withdrawn,
           NEW scoped \in BOOLEAN, NEW d \in InScopeOf(known) \ Seen,
           d \notin Range(Page(scoped))
    PROVE  /\ \A e \in Range(Page(scoped)) : e < d
           /\ ~IsLastPage(Page(scoped), Count(scoped))
<1> DEFINE M == Matching(scoped)
           n == Cardinality(M)
           s == InOrder(M)
           rows == Page(scoped)
           offset == call.offset
<1>1. /\ M \in SUBSET Day /\ offset \in Nat
      /\ rows \in Seq(Day) /\ Len(rows) \in Nat /\ DOMAIN rows = 1..Len(rows)
      /\ \A i \in 1..Len(rows) : offset + i \in 1..n /\ rows[i] = s[offset + i]
      /\ IsLastPage(rows, Count(scoped)) => n <= offset + Len(rows)
  BY PageFacts, LenProperties DEF TypeOK, Call
<1>2. d \in M /\ Seen \subseteq M /\ \A e \in Seen : e < d
  BY DEF Reads, InScopeOf, Matching
<1>3. /\ n \in Nat /\ s \in [1..n -> M] /\ \A i, j \in 1..n : i < j => s[i] < s[j]
      /\ \A e \in M : \E i \in 1..n : s[i] = e
      /\ \A e \in M : e \in Nat
  BY <1>1, InOrderFacts, DaysAreNaturals DEF Ordered
<1> HIDE DEF M, n, s, rows, offset
<1>4. PICK p \in 1..n : s[p] = d
  BY <1>2, <1>3
<1>5. ASSUME NEW i \in 1..n, s[i] < d PROVE i < p
  <2>1. s[i] \in Nat /\ d \in Nat
    BY <1>2, <1>3
  <2>2. i # p
    BY <1>4, <1>5, <2>1
  <2>3. ~(p < i)
    BY <1>3, <1>4, <1>5, <2>1
  <2> QED
    BY <1>3, <2>2, <2>3
<1>6. offset < p
  <2> DEFINE before == [i \in 1..(p - 1) |-> s[i]]
  <2>1. Seen \subseteq Range(before)
    <3> SUFFICES ASSUME NEW e \in Seen PROVE e \in Range(before)
      OBVIOUS
    <3>1. PICK i \in 1..n : s[i] = e
      BY <1>2, <1>3
    <3>2. i < p
      BY <1>2, <1>5, <3>1
    <3>3. i \in DOMAIN before /\ before[i] = e
      BY <1>3, <3>1, <3>2
    <3> HIDE DEF before
    <3> QED
      BY <3>3 DEF Range
  <2>2. p - 1 \in Nat /\ DOMAIN before = 1..(p - 1)
    BY <1>3
  <2>3. \A i, j \in 1..(p - 1) : before[i] = before[j] => i = j
    <3> SUFFICES ASSUME NEW i \in 1..(p - 1), NEW j \in 1..(p - 1), i # j
                 PROVE  before[i] # before[j]
      OBVIOUS
    <3>1. /\ before[i] = s[i] /\ before[j] = s[j] /\ i \in 1..n /\ j \in 1..n
          /\ s[i] \in Nat /\ s[j] \in Nat
      BY <1>3
    <3>2. s[i] < s[j] \/ s[j] < s[i]
      BY <1>3, <3>1
    <3> QED
      BY <3>1, <3>2
  <2> HIDE DEF before
  <2>4. IsFiniteSet(Range(before)) /\ Cardinality(Range(before)) = p - 1
    BY <2>2, <2>3, RangeCount
  <2>5. Cardinality(Seen) = offset
    <3>1. /\ call.observed \in Seq(Day) /\ Len(call.observed) = offset
          /\ IsInjective(call.observed)
      BY DEF TypeOK, Call, Reads, offset
    <3>2. DOMAIN call.observed = 1..offset
      BY <3>1, LenProperties
    <3> QED
      BY <1>1, <3>1, <3>2, RangeCount DEF Seen, IsInjective
  <2>6. Cardinality(Seen) <= Cardinality(Range(before))
    BY <2>1, <2>4, FS_Subset
  <2> QED
    BY <1>1, <1>3, <2>4, <2>5, <2>6
<1>7. offset + Len(rows) < p
  <2> SUFFICES ASSUME p <= offset + Len(rows) PROVE d \in Range(rows)
    BY <1>1, <1>3 DEF rows
  <2>1. p - offset \in 1..Len(rows) /\ offset + (p - offset) = p
    BY <1>1, <1>3, <1>6
  <2>2. rows[p - offset] = d
    BY <1>1, <1>4, <2>1
  <2> QED
    BY <1>1, <2>1, <2>2 DEF Range
<1>8. ASSUME NEW e \in Range(rows) PROVE e < d
  <2>1. PICK i \in 1..Len(rows) : rows[i] = e
    BY <1>1, <1>8 DEF Range
  <2>2. offset + i \in 1..n /\ e = s[offset + i] /\ offset + i < p
    BY <1>1, <1>3, <1>7, <2>1
  <2> QED
    BY <1>3, <1>4, <2>2
<1>9. ~IsLastPage(rows, Count(scoped))
  BY <1>1, <1>3, <1>7
<1> QED
  BY <1>8, <1>9 DEF rows

-----------------------------------------------------------------------------
(* The steps.                                                              *)

LEMMA Products ==
    ASSUME NEW r \in Nat, NEW p \in Nat
    PROVE  /\ (r + 1) * p \in Nat
           /\ (r + 1) * (p + 1) = (r + 1) * p + r + 1
           /\ (r + 1) * p <= (r + 1) * (p + 1)
<1>1. (r + 1) * p \in Nat /\ (r + 1) * (p + 1) = (r + 1) * p + (r + 1)
  OBVIOUS
<1> DEFINE x == (r + 1) * p
           y == (r + 1) * (p + 1)
<1> HIDE DEF x, y
<1>2. x \in Nat /\ y = x + (r + 1)
  BY <1>1 DEF x, y
<1>3. y = x + r + 1 /\ x <= y
  BY <1>2
<1> QED
  BY <1>2, <1>3 DEF x, y

(* A step that reads no page and returns none, and loses no day unnoticed. *)
LEMMA NothingRead ==
    ASSUME Reads, PagesAreComplete, call.step = "waiting",
           UNCHANGED <<call.kind, call.scope, call.offset, call.observed, known>>,
           call'.step = "returned" => call.kind # "observations",
           ~withdrawn' => ~withdrawn /\ published \subseteq published'
    PROVE  Reads' /\ PagesAreComplete'
<1>1. Seen' = Seen /\ InScopeOf(known)' = InScopeOf(known)
  BY DEF Seen, InScopeOf, InScope
<1>2. (\A d \in Seen : InScope(d))' <=> \A d \in Seen : InScope(d)
  BY <1>1 DEF InScope
<1> QED
  BY <1>1, <1>2 DEF Reads, PagesAreComplete

(* One request more, and either one attempt more or the end of the call.   *)
LEMMA OneAttempt ==
    ASSUME FredAssumption, TypeOK, Attempts, call.step = "waiting",
           call'.requests = call.requests + 1,
           call'.step = "waiting" =>
             call'.attempt = call.attempt + 1 /\ call'.offset = call.offset
    PROVE  Attempts'
<1> DEFINE r == MaxRetries
<1>1. PICK pages \in Nat :
        /\ Limit * pages <= MaxObservations /\ call.offset = Limit * pages
        /\ call.requests <= (r + 1) * pages + call.attempt
  BY DEF Attempts
<1>2. /\ r \in Nat /\ call.requests \in Nat /\ call.attempt \in Nat /\ call.attempt <= r
  BY DEF FredAssumption, TypeOK, Call
<1> DEFINE x == (r + 1) * pages
           y == (r + 1) * (pages + 1)
<1>3. x \in Nat /\ y = x + r + 1
  BY <1>2, Products
<1>4. call.requests <= x + call.attempt
  BY <1>1
<1> HIDE DEF x, y
<1>5. /\ call.requests + 1 <= y
      /\ call.requests + 1 <= x + (call.attempt + 1)
  BY <1>2, <1>3, <1>4
<1>6. /\ call'.requests <= y
      /\ call'.step = "waiting" => call'.requests <= x + call'.attempt
  BY <1>5
<1> QED
  BY <1>1, <1>6 DEF Attempts, x, y, Limit

LEMMA NothingSent ==
    ASSUME Attempts, UNCHANGED call
    PROVE  Attempts'
BY DEF Attempts, Limit

LEMMA BeginStep ==
    ASSUME FredAssumption, IInv, Begin
    PROVE  IInv'
<1>1. PICK kind \in Kind, scope \in Scope :
        call' = [NoCall EXCEPT !.step = "waiting", !.kind = kind, !.scope = scope]
  BY DEF Begin
<1>2. /\ call'.step = "waiting" /\ call'.kind = kind /\ call'.scope = scope
      /\ call'.attempt = 0 /\ call'.offset = 0 /\ call'.observed = <<>>
      /\ call'.requests = 0 /\ call'.error = "none" /\ published' = published
      /\ known' = published /\ ~withdrawn'
  BY <1>1 DEF NoCall, Begin
<1>3. call' \in Call
  <2>1. <<>> \in Seq(Day) /\ "none" \in Error \cup {"none"}
    BY EmptySeq
  <2>2. call' = [step |-> "waiting", kind |-> kind, scope |-> scope, attempt |-> 0,
                 offset |-> 0, observed |-> <<>>, requests |-> 0, error |-> "none",
                 counted |-> TRUE]
    BY <1>1 DEF NoCall
  <2> QED
    BY <2>1, <2>2 DEF Call
<1>4. TypeOK'
  <2>1. Len(call'.observed) = 0 /\ 0 <= MaxObservations /\ 0 <= MaxRetries
    BY <1>2 DEF FredAssumption
  <2> QED
    BY <1>2, <1>3, <2>1 DEF IInv, TypeOK, Begin
<1>5. Seen' = {}
  BY <1>2 DEF Seen, Range
<1>6. IsInjective(call'.observed) /\ Len(call'.observed) = 0
  BY <1>2 DEF IsInjective
<1>7. Reads'
  BY <1>2, <1>5, <1>6 DEF Reads
<1>8. Attempts'
  <2>1. Limit * 0 = 0 /\ (MaxRetries + 1) * 0 = 0 /\ 0 <= MaxObservations
        /\ (MaxRetries + 1) * (0 + 1) = MaxRetries + 1 /\ MaxRetries \in Nat
    BY LimitFacts DEF FredAssumption
  <2>2. /\ 0 \in Nat /\ Limit * 0 <= MaxObservations
        /\ call'.offset = Limit * 0
        /\ call'.requests <= (MaxRetries + 1) * 0 + call'.attempt
        /\ call'.requests <= (MaxRetries + 1) * (0 + 1)
    BY <1>2, <2>1
  <2> QED
    BY <2>2 DEF Attempts, Limit
<1>9. PagesAreComplete'
  BY <1>2 DEF PagesAreComplete
<1> QED
  BY <1>4, <1>7, <1>8, <1>9 DEF IInv

LEMMA ServiceStep ==
    ASSUME IInv, Publish \/ Withdraw
    PROVE  IInv'
<1>1. TypeOK'
  BY DEF IInv, TypeOK, Publish, Withdraw
<1>2. /\ call.step = "waiting" /\ UNCHANGED <<call, known>>
      /\ ~withdrawn' => ~withdrawn /\ published \subseteq published'
  BY DEF Publish, Withdraw
<1>3. Reads' /\ PagesAreComplete'
  BY <1>2, NothingRead DEF IInv
<1>4. Attempts'
  BY <1>2, NothingSent DEF IInv
<1> QED
  BY <1>1, <1>3, <1>4 DEF IInv

LEMMA FailsStep ==
    ASSUME FredAssumption, IInv, NEW failure \in Transient \cup Broken, Fails(failure)
    PROVE  IInv'
<1>1. /\ call \in Call /\ call.attempt \in Nat /\ call.attempt <= MaxRetries
      /\ call.requests \in Nat /\ MaxRetries \in Nat
  BY DEF FredAssumption, IInv, TypeOK, Call
<1>2. LastError(failure) \in Error
  BY DEF Transient, Broken, LastError, Error
<1>3. call' \in Call /\ call'.attempt <= MaxRetries
  <2>1. CASE call.attempt < MaxRetries
    <3>1. /\ call' = [call EXCEPT !.attempt = @ + 1, !.requests = @ + 1]
          /\ call.attempt + 1 \in Nat /\ call.requests + 1 \in Nat
          /\ call.attempt + 1 <= MaxRetries
      BY <1>1, <2>1 DEF Fails, Counts
    <3> QED
      BY <1>1, <3>1 DEF Call
  <2>2. CASE ~(call.attempt < MaxRetries)
    <3>1. /\ call' = [call EXCEPT !.step = "failed", !.error = LastError(failure),
                                  !.requests = @ + 1]
          /\ call.requests + 1 \in Nat
      BY <1>1, <2>2 DEF Fails
    <3> QED
      BY <1>1, <1>2, <3>1 DEF Call
  <2> QED
    BY <2>1, <2>2
<1>4. /\ call.step = "waiting" /\ UNCHANGED <<published, known, withdrawn>>
      /\ UNCHANGED <<call.kind, call.scope, call.offset, call.observed>>
      /\ call'.step # "returned" /\ call'.requests = call.requests + 1
      /\ call'.step = "waiting" =>
           call'.attempt = call.attempt + 1 /\ call'.offset = call.offset
  BY <1>1 DEF Fails, Counts, Unchanged, Call
<1>5. TypeOK'
  BY <1>3, <1>4 DEF IInv, TypeOK
<1>6. Reads' /\ PagesAreComplete'
  BY <1>4, NothingRead DEF IInv
<1>7. Attempts'
  BY <1>4, OneAttempt DEF IInv
<1> QED
  BY <1>5, <1>6, <1>7 DEF IInv

(* The call ends without a page. *)
LEMMA EndsStep ==
    ASSUME FredAssumption, IInv, call.step = "waiting",
           NEW step \in {"returned", "failed"}, NEW error \in Error \cup {"none"},
           call' = [call EXCEPT !.step = step, !.error = error, !.requests = @ + 1],
           step = "returned" => call.kind # "observations", Unchanged
    PROVE  IInv'
<1>1. call \in Call /\ call.requests + 1 \in Nat
  BY DEF IInv, TypeOK, Call
<1>2. call' \in Call
  BY <1>1 DEF Call
<1>3. /\ UNCHANGED <<published, known, withdrawn>>
      /\ UNCHANGED <<call.kind, call.scope, call.offset, call.observed, call.attempt>>
      /\ call'.step = step /\ call'.requests = call.requests + 1
  BY <1>1 DEF Unchanged, Call
<1>4. TypeOK'
  BY <1>2, <1>3 DEF IInv, TypeOK
<1>5. Reads' /\ PagesAreComplete'
  BY <1>3, NothingRead DEF IInv
<1>6. Attempts'
  BY <1>3, OneAttempt DEF IInv
<1> QED
  BY <1>4, <1>5, <1>6 DEF IInv

LEMMA IsRefusedStep ==
    ASSUME FredAssumption, IInv, NEW failure \in Final, IsRefused(failure)
    PROVE  IInv'
<1>1. FinalError(failure) \in Error
  BY DEF Final, FinalError, Error
<1> QED
  BY <1>1, EndsStep DEF IsRefused

LEMMA AnswersOtherStep ==
    ASSUME FredAssumption, IInv,
           NEW error \in {"none", "malformed_response", "unsupported_metadata"},
           AnswersOther(error)
    PROVE  IInv'
<1> DEFINE step == IF error = "none" THEN "returned" ELSE "failed"
<1>1. step \in {"returned", "failed"} /\ error \in Error \cup {"none"}
  BY DEF Error
<1>2. /\ call.step = "waiting" /\ call.kind # "observations" /\ Unchanged
      /\ call' = [call EXCEPT !.step = step, !.error = error, !.requests = @ + 1]
  BY DEF AnswersOther
<1> HIDE DEF step
<1> QED
  BY <1>1, <1>2, EndsStep

(* A page is accepted and is not the last one: it was full. *)
LEMMA OneFullPage ==
    ASSUME FredAssumption, TypeOK, Attempts, call.step = "waiting",
           call'.requests = call.requests + 1, call'.attempt = 0,
           call'.offset = call.offset + Limit, call.offset + Limit <= MaxObservations
    PROVE  Attempts'
<1> DEFINE r == MaxRetries
<1>1. PICK pages \in Nat :
        /\ call.offset = Limit * pages
        /\ call.requests <= (r + 1) * pages + call.attempt
  BY DEF Attempts
<1>2. /\ r \in Nat /\ call.requests \in Nat /\ call.attempt \in Nat /\ call.attempt <= r
  BY DEF FredAssumption, TypeOK, Call
<1>3. Limit \in Nat /\ Limit * (pages + 1) = Limit * pages + Limit
  BY LimitFacts
<1>4. call'.offset = Limit * (pages + 1) /\ Limit * (pages + 1) <= MaxObservations
  BY <1>1, <1>3
<1> DEFINE x == (r + 1) * pages
           y == (r + 1) * (pages + 1)
           z == (r + 1) * ((pages + 1) + 1)
<1>5. x \in Nat /\ y = x + r + 1 /\ y \in Nat /\ y <= z
  <2>1. pages + 1 \in Nat
    OBVIOUS
  <2>2. x \in Nat /\ y = x + r + 1
    BY <1>2, Products
  <2>3. y \in Nat /\ y <= z
    BY <1>2, <2>1, Products
  <2> QED
    BY <2>2, <2>3
<1>6. z \in Nat
  BY <1>2
<1>7. call.requests <= x + call.attempt
  BY <1>1
<1> HIDE DEF x, y, z
<1>8. call'.requests <= y + call'.attempt /\ call'.requests <= z
  BY <1>2, <1>5, <1>6, <1>7
<1>9. pages + 1 \in Nat
  OBVIOUS
<1> QED
  BY <1>4, <1>8, <1>9 DEF Attempts, y, z, Limit

LEMMA AcceptedStep ==
    ASSUME FredAssumption, IInv, NEW scoped \in BOOLEAN, NEW count \in Counting,
           call.step = "waiting", call.kind = "observations", Unchanged,
           BadRows(Page(scoped)) = {},
           call' = LET rows == Page(scoped)
                       read == [call EXCEPT !.requests = @ + 1, !.attempt = 0,
                                            !.offset = @ + Len(rows),
                                            !.observed = @ \o rows,
                                            !.counted = @ /\ count = "given"]
                   IN  IF IsLastPage(rows, CountOf(rows, scoped, count))
                       THEN [read EXCEPT !.step = "returned"] ELSE read
    PROVE  IInv'
<1> DEFINE rows == Page(scoped)
           last == IsLastPage(rows, CountOf(rows, scoped, count))
           given == count = "given"
           new == call.observed \o rows
<1>1. TypeOK /\ Reads /\ Attempts
  BY DEF IInv
<1>2. rows \in Seq(Day) /\ Len(rows) \in Nat /\ (~last => given /\ Len(rows) = Limit)
  <2>1. /\ rows \in Seq(Day) /\ Len(rows) \in Nat
        /\ ~IsLastPage(rows, Count(scoped)) => Len(rows) = Limit
    BY <1>1, PageFacts, LenProperties
  <2>2. call.offset \in Nat
    BY <1>1 DEF TypeOK, Call
  <2> HIDE DEF rows
  <2>3. ~last => given
    BY <2>1, <2>2 DEF IsLastPage, CountOf
  <2> QED
    BY <2>1, <2>3 DEF CountOf
<1>3. /\ new \in Seq(Day) /\ Len(new) = call.offset + Len(rows)
      /\ Len(new) <= MaxObservations
      /\ IsInjective(new) /\ \A d \in Range(new) : InScope(d)
      /\ Range(new) = Seen \cup Range(rows)
  BY <1>1, <1>2, AcceptedFacts
<1>4. last \in BOOLEAN /\ given \in BOOLEAN
  BY DEF IsLastPage
<1>5. call \in Call /\ call.offset \in Nat /\ call.requests \in Nat
  BY <1>1 DEF TypeOK, Call
<1>6. ~withdrawn => /\ known \subseteq published /\ Seen \subseteq published
                    /\ \A d \in InScopeOf(known) \ Seen : \A e \in Seen : e < d
  BY <1>1 DEF Reads
<1>7. ~withdrawn /\ given => \A d \in InScopeOf(known) \ Range(new) :
                               ~last /\ \A e \in Range(new) : e < d
  <2> SUFFICES ASSUME ~withdrawn, given, NEW d \in InScopeOf(known) \ Range(new)
               PROVE  ~last /\ \A e \in Range(new) : e < d
    OBVIOUS
  <2>1. d \in InScopeOf(known) \ Seen /\ d \notin Range(rows)
    BY <1>3
  <2>2. ~last /\ \A e \in Range(rows) : e < d
    BY <1>1, <2>1, ComesLater DEF CountOf
  <2>3. \A e \in Seen : e < d
    BY <1>6, <2>1
  <2> HIDE DEF last, rows, new
  <2> QED
    BY <1>3, <2>2, <2>3
<1>8. Range(rows) \subseteq published
  <2> SUFFICES ASSUME NEW d \in Range(rows) PROVE d \in published
    OBVIOUS
  <2>1. PICK i \in 1..Len(rows) : rows[i] = d
    BY <1>2, LenProperties DEF Range
  <2>2. /\ Matching(scoped) \in SUBSET Day
        /\ call.offset + i \in 1..Cardinality(Matching(scoped))
        /\ d = InOrder(Matching(scoped))[call.offset + i]
    BY <1>1, <2>1, PageFacts
  <2>3. InOrder(Matching(scoped)) \in [1..Cardinality(Matching(scoped)) -> Matching(scoped)]
    BY <2>2, InOrderFacts
  <2>4. d \in Matching(scoped)
    BY <2>2, <2>3
  <2> QED
    BY <2>4 DEF Matching
<1> HIDE DEF rows, last, given, new
<1>9. /\ call' = [call EXCEPT !.requests = call.requests + 1, !.attempt = 0,
                              !.offset = call.offset + Len(rows), !.observed = new,
                              !.counted = call.counted /\ given,
                              !.step = IF last THEN "returned" ELSE call.step]
      /\ UNCHANGED <<published, known, withdrawn>>
  BY <1>4, <1>5 DEF rows, last, given, new, Unchanged, Call
<1>10. /\ call'.kind = call.kind /\ call'.scope = call.scope /\ call'.observed = new
       /\ call'.offset = call.offset + Len(rows) /\ call'.attempt = 0
       /\ call'.requests = call.requests + 1
       /\ call'.counted => given
       /\ call'.step = IF last THEN "returned" ELSE "waiting"
  BY <1>5, <1>9 DEF Call
<1>11. /\ Seen' = Range(new) /\ InScopeOf(known)' = InScopeOf(known)
       /\ (\A d \in Seen : InScope(d))' <=> \A d \in Range(new) : InScope(d)
  BY <1>9, <1>10 DEF Seen, InScopeOf, InScope
<1>12. TypeOK'
  <2>1. call.offset + Len(rows) \in Nat /\ call.requests + 1 \in Nat /\ 0 \in Nat
    BY <1>2, <1>5
  <2>2. call' \in Call
    BY <1>3, <1>4, <1>5, <1>9, <2>1 DEF Call
  <2>3. 0 <= MaxRetries
    BY DEF FredAssumption
  <2> QED
    BY <1>1, <1>3, <1>9, <1>10, <2>2, <2>3 DEF TypeOK
<1>13. Reads'
  <2>1. ~withdrawn => known \subseteq published /\ Range(new) \subseteq published
    BY <1>3, <1>6, <1>8
  <2>2. /\ call'.offset = Len(call'.observed) /\ IsInjective(call'.observed)
        /\ (\A d \in Seen : InScope(d))'
    BY <1>3, <1>10, <1>11
  <2>3. (call.step = "waiting" /\ ~withdrawn =>
           /\ known \subseteq published /\ Seen \subseteq published
           /\ \A d \in InScopeOf(known) \ Seen : \A e \in Seen : e < d)'
    BY <1>2, <1>7, <1>9, <1>10, <1>11, <2>1
  <2> QED
    BY <2>2, <2>3 DEF Reads
<1>14. Attempts'
  <2>1. CASE last
    <3>1. call'.step # "waiting"
      BY <1>10, <2>1
    <3> QED
      BY <1>1, <1>10, <3>1, OneAttempt
  <2>2. CASE ~last
    <3>1. /\ call'.offset = call.offset + Limit
          /\ call.offset + Limit <= MaxObservations
      BY <1>2, <1>3, <1>10, <2>2 DEF last, rows, new
    <3> QED
      BY <1>1, <1>10, <3>1, OneFullPage
  <2> QED
    BY <2>1, <2>2
<1>15. PagesAreComplete'
  <2> SUFFICES ASSUME call'.step = "returned"
               PROVE  /\ IsInjective(call'.observed)
                      /\ (\A i \in DOMAIN call.observed : InScope(call.observed[i]))'
                      /\ (~withdrawn /\ call.counted => InScopeOf(known) \subseteq Seen)'
    BY DEF PagesAreComplete, InScopeOf, Seen
  <2>1. last
    BY <1>10
  <2>2. ~withdrawn /\ given => InScopeOf(known) \subseteq Range(new)
    BY <1>7, <2>1
  <2>3. (\A d \in Seen : InScope(d))'
    BY <1>3, <1>11
  <2>4. (\A i \in DOMAIN call.observed : InScope(call.observed[i]))'
    BY <2>3 DEF Seen, Range
  <2> QED
    BY <1>3, <1>9, <1>10, <1>11, <2>2, <2>4
<1> QED
  BY <1>12, <1>13, <1>14, <1>15 DEF IInv

LEMMA AnswersObservationsStep ==
    ASSUME FredAssumption, IInv, NEW scoped \in BOOLEAN, NEW count \in Counting,
           AnswersObservations(scoped, count)
    PROVE  IInv'
<1> DEFINE rows == Page(scoped)
           bad == BadRows(rows)
           error == IF bad = {} \/ IsMalformed(rows, Min(bad)) THEN "malformed_response"
                    ELSE "response_too_large"
<1>1. call.step = "waiting" /\ call.kind = "observations" /\ Unchanged
  BY DEF AnswersObservations
<1>2. CASE call' = [call EXCEPT !.step = "failed", !.requests = @ + 1, !.error = error]
  <2>1. error \in Error \cup {"none"}
    BY DEF Error
  <2> HIDE DEF error
  <2>2. call' = [call EXCEPT !.step = "failed", !.error = error, !.requests = @ + 1]
    <3>1. call \in Call
      BY DEF IInv, TypeOK
    <3> QED
      BY <1>2, <3>1 DEF Call
  <2>3. "failed" \in {"returned", "failed"} /\ "failed" # "returned"
    OBVIOUS
  <2> QED
    BY <1>1, <2>1, <2>2, <2>3, EndsStep
<1>3. CASE call' # [call EXCEPT !.step = "failed", !.requests = @ + 1, !.error = error]
  BY <1>1, <1>3, AcceptedStep DEF AnswersObservations
<1> QED
  BY <1>2, <1>3

LEMMA InitIInv == FredAssumption /\ Init => IInv
<1> SUFFICES ASSUME FredAssumption, Init PROVE IInv
  OBVIOUS
<1>1. /\ call = NoCall /\ known = {} /\ withdrawn = FALSE /\ published \subseteq Day
  BY DEF Init
<1>2. /\ call.step = "idle" /\ call.attempt = 0 /\ call.offset = 0
      /\ call.observed = <<>> /\ call.requests = 0
  BY <1>1 DEF NoCall
<1>3. call \in Call
  <2>1. <<>> \in Seq(Day) /\ 1 \in Day /\ MaxDay \in Day
    BY EmptySeq DEF FredAssumption, Day
  <2> QED
    BY <1>1, <2>1 DEF NoCall, Call, Kind, Scope
<1>4. Len(call.observed) = 0 /\ Seen = {} /\ IsInjective(call.observed)
  BY <1>2 DEF Seen, Range, IsInjective
<1>5. TypeOK
  <2>1. 0 <= MaxRetries /\ 0 <= MaxObservations
    BY DEF FredAssumption
  <2>2. call.attempt <= MaxRetries /\ Len(call.observed) <= MaxObservations
    BY <1>2, <1>4, <2>1
  <2> QED
    BY <1>1, <1>3, <2>2 DEF TypeOK
<1>6. Reads
  BY <1>2, <1>4 DEF Reads
<1>7. Attempts
  <2>1. Limit * 0 = 0 /\ 0 <= MaxObservations
        /\ (MaxRetries + 1) * (0 + 1) = MaxRetries + 1 /\ MaxRetries \in Nat
    BY LimitFacts DEF FredAssumption
  <2>2. /\ 0 \in Nat /\ Limit * 0 <= MaxObservations /\ call.step # "waiting"
        /\ call.requests <= (MaxRetries + 1) * (0 + 1)
    BY <1>2, <2>1
  <2> QED
    BY <2>2 DEF Attempts
<1>8. PagesAreComplete
  BY <1>2 DEF PagesAreComplete
<1> QED
  BY <1>5, <1>6, <1>7, <1>8 DEF IInv

LEMMA StutterIInv == IInv /\ UNCHANGED vars => IInv'
BY DEF IInv, TypeOK, Reads, Attempts, PagesAreComplete, vars, Seen, InScopeOf, InScope,
       Limit

LEMMA Invariant == ASSUME FredAssumption PROVE Spec => []IInv
<1>1. Init => IInv
  BY InitIInv
<1>2. IInv /\ [Next]_vars => IInv'
  <2> SUFFICES ASSUME IInv, [Next]_vars PROVE IInv'
    OBVIOUS
  <2>1. CASE Publish \/ Withdraw
    BY <2>1, ServiceStep
  <2>2. CASE Begin
    BY <2>2, BeginStep
  <2>3. CASE \E failure \in Transient \cup Broken : Fails(failure)
    BY <2>3, FailsStep
  <2>4. CASE \E failure \in Final : IsRefused(failure)
    BY <2>4, IsRefusedStep
  <2>5. CASE \E error \in {"none", "malformed_response", "unsupported_metadata"} :
               AnswersOther(error)
    BY <2>5, AnswersOtherStep
  <2>6. CASE \E scoped \in BOOLEAN, count \in Counting : AnswersObservations(scoped, count)
    BY <2>6, AnswersObservationsStep
  <2>7. CASE UNCHANGED vars
    BY <2>7, StutterIInv
  <2> QED
    BY <2>1, <2>2, <2>3, <2>4, <2>5, <2>6, <2>7 DEF Next
<1> QED
  BY <1>1, <1>2, PTL DEF Spec

-----------------------------------------------------------------------------
(* The theorems. *)

(* A call keeps the types of its parts: no more attempts than there are    *)
(* retries (get_json), no more rows than provider_max_observations.        *)
THEOREM TypeCorrect == ASSUME FredAssumption PROVE Spec => []TypeOK
<1>1. IInv => TypeOK
  BY DEF IInv
<1> QED
  BY <1>1, Invariant, PTL

(* What get_observations returns are days of the scope, each once, and,    *)
(* unless one was withdrawn meanwhile or an answer lacked its count, all   *)
(* those that were there when it began, whatever the service publishes     *)
(* between two pages.                                                      *)
THEOREM PagesAlways == ASSUME FredAssumption PROVE Spec => []PagesAreComplete
<1>1. IInv => PagesAreComplete
  BY DEF IInv
<1> QED
  BY <1>1, Invariant, PTL

(* As many full pages as there may be observations, and one more. *)
LEMMA PagesAreFew ==
    ASSUME NEW limit \in Nat \ {0}, NEW most \in Nat, NEW pages \in Nat, limit * pages <= most
    PROVE  pages <= most \div limit /\ most \div limit \in Nat
<1> DEFINE q == most \div limit
           m == most % limit
<1>1. q \in Nat /\ m \in 0..(limit - 1) /\ most = limit * q + m
  OBVIOUS
<1> HIDE DEF q, m
<1>2. ASSUME pages > q PROVE FALSE
  <2>1. limit * (q + 1) = limit * q + limit
    BY <1>1
  <2>2. limit * (q + 1) <= limit * pages
    BY <1>1, <1>2
  <2> QED
    BY <1>1, <2>1, <2>2
<1> QED
  BY <1>1, <1>2 DEF q

(* A call of get_json makes as many requests as there are attempts, and    *)
(* get_observations calls it once for each full page and once more.        *)
THEOREM RequestsAlways == ASSUME FredAssumption PROVE Spec => []RequestsAreBounded
<1>1. IInv => RequestsAreBounded
  <2> SUFFICES ASSUME IInv PROVE RequestsAreBounded
    OBVIOUS
  <2> DEFINE r == MaxRetries
             q == MaxObservations \div Limit
  <2>1. PICK pages \in Nat : /\ Limit * pages <= MaxObservations
                             /\ call.requests <= (r + 1) * (pages + 1)
    BY DEF IInv, Attempts
  <2>2. q \in Nat /\ pages <= q /\ r \in Nat /\ call.requests \in Nat
    BY <2>1, LimitFacts, PagesAreFew DEF FredAssumption, IInv, TypeOK, Call
  <2> HIDE DEF q
  <2>3. (r + 1) * (pages + 1) <= (r + 1) * (q + 2)
    BY <2>2
  <2>4. (r + 1) * (pages + 1) \in Nat /\ (r + 1) * (q + 2) \in Nat
    BY <2>2
  <2>5. call.requests <= (r + 1) * (q + 2)
    BY <2>1, <2>2, <2>3, <2>4
  <2> QED
    BY <2>5 DEF RequestsAreBounded, q
<1> QED
  BY <1>1, Invariant, PTL
====
