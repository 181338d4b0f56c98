-------------------------- MODULE Portfolio_proofs --------------------------
(***************************************************************************)
(* What a portfolio promises, for any set of payloads, any finite set of   *)
(* clients and any bounds: the balances and the quantities are the sums of *)
(* the ledger, and the cost of every position is accounted for but for     *)
(* what rounding may lose (BooksAlways); overlapping requests change the   *)
(* portfolio as if each had run alone (AtomicImplemented).                 *)
(*                                                                         *)
(* A request that writes works on what it has read in several statements.  *)
(* The version makes that harmless: until it has changed, what a request   *)
(* has read is what there is (Fresh), and once it has, the request is      *)
(* refused.  So every entry is appended with the change it makes to the    *)
(* current rows, and the sums of the ledger and the rows move together     *)
(* (LedgerStep).  A sum is a recursive function: that it exists, that it   *)
(* depends on the entries summed alone, and what one entry more adds to it *)
(* are proved by the least counterexample (Induction).  An average loses   *)
(* half a quantum per unit at most (HalfEvenFacts).                        *)
(***************************************************************************)
EXTENDS Portfolio, FiniteSetTheorems, SequenceTheorems, WellFoundedInduction, TLAPS

-----------------------------------------------------------------------------
(* Sums.                                                                   *)

(* Induction over the numbers up to n, for a set. *)
LEMMA Induction ==
    ASSUME NEW n \in Nat, NEW S, 0 \in S, \A i \in 0..(n - 1) : i \in S => i + 1 \in S
    PROVE  \A i \in 0..n : i \in S
<1> DEFINE Outside == {i \in 0..n : i \notin S}
<1>1. SUFFICES ASSUME Outside # {} PROVE FALSE
  OBVIOUS
<1>2. PICK i \in Outside : \A j \in Outside : ~(<<j, i>> \in OpToRel(<, Nat))
  <2>1. IsWellFoundedOn(OpToRel(<, Nat), Nat)
    BY NatLessThanWellFounded
  <2>2. Outside \subseteq Nat
    OBVIOUS
  <2> HIDE DEF Outside
  <2> QED
    BY <1>1, <2>1, <2>2, WFMin
<1>3. i \in 0..n /\ i \notin S /\ i # 0
  OBVIOUS
<1>4. i - 1 \in S
  <2>1. i - 1 \in Nat /\ i \in Nat /\ i - 1 < i /\ i - 1 \in 0..n
    BY <1>3
  <2>2. <<i - 1, i>> \in OpToRel(<, Nat)
    BY <2>1 DEF OpToRel
  <2> QED
    BY <1>2, <2>1, <2>2
<1> QED
  BY <1>3, <1>4

IsSums(f, g, n) ==
    f = [i \in 0..n |-> IF i = 0 THEN 0 ELSE f[i - 1] + g[i]]

LEMMA SumsExist ==
    ASSUME NEW n \in Nat, NEW g \in [1..n -> Int]
    PROVE  \E f \in [0..n -> Int] : IsSums(f, g, n)
<1> DEFINE S == {i \in 0..n : \E f \in [0..i -> Int] : IsSums(f, g, i)}
<1>1. 0 \in S
  <2> DEFINE f == [i \in 0..0 |-> 0]
  <2>1. f \in [0..0 -> Int] /\ IsSums(f, g, 0)
    BY DEF IsSums
  <2> QED
    BY <2>1
<1>2. ASSUME NEW i \in 0..(n - 1), i \in S PROVE i + 1 \in S
  <2>1. PICK f \in [0..i -> Int] : IsSums(f, g, i)
    BY <1>2
  <2> DEFINE h == [k \in 0..(i + 1) |-> IF k = i + 1 THEN f[i] + g[i + 1] ELSE f[k]]
  <2>2. i \in Nat /\ i + 1 \in 0..n /\ g[i + 1] \in Int /\ f[i] \in Int
    OBVIOUS
  <2>3. \A k \in 0..i : f[k] \in Int /\ f[k] = IF k = 0 THEN 0 ELSE f[k - 1] + g[k]
    BY <2>1 DEF IsSums
  <2>4. h \in [0..(i + 1) -> Int]
    BY <2>2, <2>3
  <2>5. ASSUME NEW k \in 0..(i + 1)
        PROVE  h[k] = IF k = 0 THEN 0 ELSE h[k - 1] + g[k]
    <3>1. CASE k = i + 1
      BY <2>2, <3>1
    <3>2. CASE k # i + 1
      <4>1. k \in 0..i /\ (k # 0 => k - 1 \in 0..i)
        BY <2>2, <3>2
      <4>2. h[k] = f[k] /\ (k # 0 => h[k - 1] = f[k - 1])
        BY <2>2, <3>2, <4>1
      <4> QED
        BY <2>3, <4>1, <4>2
    <3> QED
      BY <3>1, <3>2
  <2>6. IsSums(h, g, i + 1)
    <3> HIDE DEF h
    <3> QED
      BY <2>4, <2>5 DEF IsSums
  <2> QED
    BY <2>2, <2>4, <2>6
<1>3. \A i \in 0..n : i \in S
  <2> HIDE DEF S
  <2> QED
    BY <1>1, <1>2, Induction
<1> QED
  BY <1>3

LEMMA SumsFacts ==
    ASSUME NEW n \in Nat, NEW g \in [1..n -> Int]
    PROVE  /\ Sums(g) \in [0..n -> Int] /\ Sums(g)[0] = 0
           /\ \A i \in 1..n : Sums(g)[i] = Sums(g)[i - 1] + g[i]
<1>1. Len(g) = n /\ g \in Seq(Int)
  OBVIOUS
<1>2. \E f : f = [i \in 0..n |-> IF i = 0 THEN 0 ELSE f[i - 1] + g[i]]
  BY SumsExist DEF IsSums
<1>3. Sums(g) = [i \in 0..n |-> IF i = 0 THEN 0 ELSE Sums(g)[i - 1] + g[i]]
  BY <1>1, <1>2 DEF Sums
<1> DEFINE f == Sums(g)
<1> HIDE DEF f
<1>4. DOMAIN f = 0..n /\ \A i \in 0..n : f[i] = IF i = 0 THEN 0 ELSE f[i - 1] + g[i]
  BY <1>3 DEF f
<1> DEFINE S == {i \in 0..n : f[i] \in Int}
<1>5. 0 \in S
  BY <1>4
<1>6. ASSUME NEW i \in 0..(n - 1), i \in S PROVE i + 1 \in S
  <2>1. i + 1 \in 0..n /\ i + 1 # 0 /\ i + 1 - 1 = i /\ g[i + 1] \in Int /\ f[i] \in Int
    BY <1>6
  <2>2. f[i + 1] = f[i] + g[i + 1]
    BY <1>4, <2>1
  <2> QED
    BY <2>1, <2>2
<1>7. \A i \in 0..n : i \in S
  <2> HIDE DEF S
  <2> QED
    BY <1>5, <1>6, Induction
<1>8. f \in [0..n -> Int]
  <2>1. f = [i \in 0..n |-> f[i]]
    BY <1>3 DEF f
  <2> QED
    BY <1>7, <2>1
<1> QED
  BY <1>4, <1>8 DEF f

(* The sums of what two sequences have in common are the same. *)
LEMMA SumsSame ==
    ASSUME NEW n \in Nat, NEW g \in [1..n -> Int], NEW m \in 0..n, NEW h \in [1..m -> Int],
           \A i \in 1..m : g[i] = h[i]
    PROVE  \A i \in 0..m : Sums(g)[i] = Sums(h)[i]
<1> DEFINE a == Sums(g)
           b == Sums(h)
           S == {i \in 0..m : a[i] = b[i]}
<1>1. /\ a[0] = 0 /\ b[0] = 0
      /\ \A i \in 1..n : a[i] = a[i - 1] + g[i]
      /\ \A i \in 1..m : b[i] = b[i - 1] + h[i]
  <2>1. m \in Nat
    OBVIOUS
  <2>2. a[0] = 0 /\ \A i \in 1..n : a[i] = a[i - 1] + g[i]
    BY SumsFacts
  <2>3. b[0] = 0 /\ \A i \in 1..m : b[i] = b[i - 1] + h[i]
    BY <2>1, SumsFacts
  <2> QED
    BY <2>2, <2>3
<1> HIDE DEF a, b
<1>2. 0 \in S
  BY <1>1
<1>3. ASSUME NEW i \in 0..(m - 1), i \in S PROVE i + 1 \in S
  <2>1. i + 1 \in 1..n /\ i + 1 \in 1..m /\ i + 1 - 1 = i /\ i + 1 \in 0..m
    OBVIOUS
  <2>2. a[i + 1] = a[i] + g[i + 1] /\ b[i + 1] = b[i] + h[i + 1]
    BY <1>1, <2>1
  <2>3. a[i] = b[i]
    BY <1>3
  <2> QED
    BY <2>1, <2>2, <2>3
<1>4. \A i \in 0..m : i \in S
  <2> HIDE DEF S
  <2>1. m \in Nat
    OBVIOUS
  <2> QED
    BY <1>2, <1>3, <2>1, Induction
<1> QED
  BY <1>4 DEF a, b

(* One element more adds itself to the last of the sums. *)
LEMMA SumsAppend ==
    ASSUME NEW n \in Nat, NEW g \in [1..n -> Int], NEW h \in [1..(n + 1) -> Int],
           \A i \in 1..n : h[i] = g[i]
    PROVE  /\ \A i \in 0..n : Sums(h)[i] = Sums(g)[i] /\ Sums(g)[i] \in Int
           /\ Sums(h)[n + 1] = Sums(g)[n] + h[n + 1]
<1>1. n + 1 \in Nat /\ n \in 0..(n + 1) /\ n + 1 \in 1..(n + 1) /\ n + 1 - 1 = n /\ n \in 0..n
  OBVIOUS
<1>2. \A i \in 0..n : Sums(h)[i] = Sums(g)[i]
  BY <1>1, SumsSame
<1>3. Sums(h)[n + 1] = Sums(h)[n + 1 - 1] + h[n + 1]
  <2>1. \A i \in 1..(n + 1) : Sums(h)[i] = Sums(h)[i - 1] + h[i]
    BY <1>1, SumsFacts
  <2> QED
    BY <1>1, <2>1
<1>4. \A i \in 0..n : Sums(g)[i] \in Int
  BY SumsFacts
<1> QED
  BY <1>1, <1>2, <1>3, <1>4

-----------------------------------------------------------------------------
(* Books.                                                                  *)

LEMMA BalancesFacts ==
    ASSUME NEW b
    PROVE  b \in Balances <=> DOMAIN b \subseteq Currency /\ b \in [DOMAIN b -> 0 .. MaxMoney]
<1>1. ASSUME b \in Balances
      PROVE  DOMAIN b \subseteq Currency /\ b \in [DOMAIN b -> 0 .. MaxMoney]
  <2>1. PICK S \in SUBSET Currency : b \in [S -> 0 .. MaxMoney]
    BY <1>1 DEF Balances
  <2> QED
    BY <2>1
<1>2. ASSUME DOMAIN b \subseteq Currency, b \in [DOMAIN b -> 0 .. MaxMoney]
      PROVE  b \in Balances
  BY <1>2 DEF Balances
<1> QED
  BY <1>1, <1>2

LEMMA PositionsFacts ==
    ASSUME NEW p
    PROVE  p \in Positions <=> DOMAIN p \subseteq Symbol /\ p \in [DOMAIN p -> Position]
<1>1. ASSUME p \in Positions
      PROVE  DOMAIN p \subseteq Symbol /\ p \in [DOMAIN p -> Position]
  <2>1. PICK S \in SUBSET Symbol : p \in [S -> Position]
    BY <1>1 DEF Positions
  <2> QED
    BY <2>1
<1>2. ASSUME DOMAIN p \subseteq Symbol, p \in [DOMAIN p -> Position]
      PROVE  p \in Positions
  BY <1>2 DEF Positions
<1> QED
  BY <1>1, <1>2

LEMMA EmptyFacts == <<>> \in Balances /\ <<>> \in Positions
<1>1. DOMAIN <<>> = {}
  OBVIOUS
<1>2. \A S : <<>> \in [{} -> S]
  OBVIOUS
<1> QED
  BY <1>1, <1>2, BalancesFacts, PositionsFacts

(* HALF_EVEN rounds to a nearest number, and never beyond a whole bound. *)
LEMMA Division ==
    ASSUME NEW n \in Nat, NEW d \in Nat \ {0}
    PROVE  n \div d \in Nat /\ n % d \in 0..(d - 1) /\ n = d * (n \div d) + (n % d)
OBVIOUS

LEMMA HalfEvenFacts ==
    ASSUME NEW n \in Nat, NEW d \in Nat \ {0}, NEW most \in Nat, n <= d * most
    PROVE  /\ HalfEven(n, d) \in 0 .. most
           /\ d * HalfEven(n, d) \in Nat
           /\ 2 * Abs(d * HalfEven(n, d) - n) <= d
<1> DEFINE q == n \div d
           r == n % d
           h == HalfEven(n, d)
           x == d * q
           y == d * (q + 1)
<1>1. q \in Nat /\ r \in 0..(d - 1) /\ n = x + r
  BY Division
<1>2. h = IF 2 * r > d \/ (2 * r = d /\ q % 2 = 1) THEN q + 1 ELSE q
  BY DEF HalfEven
<1>3. h = q \/ h = q + 1
  BY <1>2
<1> HIDE DEF q, r, h
<1>4. x \in Nat /\ y = x + d /\ y \in Nat
  BY <1>1
<1>5. \A m \in Nat : m < q => d * (m + 1) <= x
  BY <1>1
<1> HIDE DEF x, y
<1>6. ASSUME most < q PROVE FALSE
  <2>1. d * (most + 1) = d * most + d
    OBVIOUS
  <2>2. d * most + d <= x
    BY <1>5, <1>6, <2>1
  <2>3. d * most \in Nat
    OBVIOUS
  <2> QED
    BY <1>1, <1>4, <2>2, <2>3
<1>7. ASSUME h = q + 1 PROVE q < most
  <2>1. 2 * r >= d
    BY <1>1, <1>2, <1>7
  <2>2. r > 0
    BY <1>1, <2>1
  <2> SUFFICES ASSUME most = q PROVE FALSE
    BY <1>1, <1>6
  <2>3. d * most = x
    BY DEF x
  <2> QED
    BY <1>1, <1>4, <2>2, <2>3
<1>8. h \in 0 .. most
  BY <1>1, <1>3, <1>6, <1>7
<1>9. CASE h = q
  <2>1. d * h = x
    BY <1>9 DEF x
  <2>2. 2 * r <= d
    BY <1>1, <1>2, <1>9
  <2>3. d * h - n = -r /\ Abs(d * h - n) = r
    BY <1>1, <1>4, <2>1 DEF Abs
  <2> QED
    BY <1>4, <1>8, <2>1, <2>2, <2>3 DEF h
<1>10. CASE h = q + 1
  <2>1. d * h = y
    BY <1>10 DEF y
  <2>2. 2 * r >= d
    BY <1>1, <1>2, <1>10
  <2>3. d * h - n = d - r /\ Abs(d * h - n) = d - r
    BY <1>1, <1>4, <2>1 DEF Abs
  <2>4. 2 * Abs(d * h - n) <= d
    BY <1>1, <2>2, <2>3
  <2> QED
    BY <1>4, <1>8, <2>1, <2>4 DEF h
<1> QED
  BY <1>3, <1>9, <1>10

-----------------------------------------------------------------------------
(* What a transaction makes of a book.                                     *)

IsBook(b) == b.cash \in Balances /\ b.positions \in Positions

LEMMA PayloadFacts ==
    ASSUME PortfolioAssumption, NEW t \in Payload
    PROVE  /\ MaxMoney \in Nat /\ MaxQuantity \in Nat
           /\ \/ /\ t.type \in {"buy", "sell"} /\ t.symbol \in Symbol
                 /\ t.quantity \in 1 .. MaxQuantity
                 /\ t.price \in Price /\ t.price \in 1 .. MaxMoney
                 /\ t.quantity * t.price \in Nat \ {0}
              \/ /\ t.type \in Incoming \cup Outgoing /\ t.type \notin {"buy", "sell"}
                 /\ t.currency \in Currency /\ t.amount \in 1 .. MaxMoney
           /\ CurrencyOf(t) \in Currency
<1>1. CASE t \in Trade
  <2>1. /\ t.type \in {"buy", "sell"} /\ t.symbol \in Symbol
        /\ t.quantity \in 1 .. MaxQuantity
        /\ t.price \in Price /\ t.price \in 1 .. MaxMoney /\ Base \in Currency
        /\ MaxMoney \in Nat /\ MaxQuantity \in Nat
    BY <1>1 DEF Trade, PortfolioAssumption
  <2>2. t.quantity * t.price \in Nat \ {0}
    BY <2>1
  <2> QED
    BY <2>1, <2>2 DEF CurrencyOf
<1>2. CASE t \in CashMove
  BY <1>2 DEF CashMove, Incoming, Outgoing, CurrencyOf, PortfolioAssumption
<1> QED
  BY <1>1, <1>2 DEF PortfolioAssumption

LEMMA CashEffect ==
    ASSUME PortfolioAssumption, NEW b, IsBook(b), NEW t \in Payload,
           CashAfter(t, b) \in 0 .. MaxMoney
    PROVE  /\ After(t, b).cash \in Balances
           /\ \A c \in Currency : /\ Cash(b, c) \in 0 .. MaxMoney
                                  /\ CashFlow(Entry(t, b), c) \in Int
                                  /\ Cash(After(t, b), c) = Cash(b, c) + CashFlow(Entry(t, b), c)
<1> DEFINE k == CurrencyOf(t)
           v == CashAfter(t, b)
           new == With(b.cash, k, v)
           e == Entry(t, b)
           w == t.quantity * t.price
<1>1. /\ DOMAIN b.cash \subseteq Currency /\ \A c \in DOMAIN b.cash : b.cash[c] \in 0 .. MaxMoney
  BY BalancesFacts DEF IsBook
<1>2. k \in Currency
  BY PayloadFacts
<1>3. /\ DOMAIN new = DOMAIN b.cash \cup {k}
      /\ \A c \in DOMAIN new : new[c] = IF c = k THEN v ELSE b.cash[c]
  BY DEF With
<1>4. After(t, b).cash = new
  BY DEF After
<1>5. /\ e.type = t.type /\ e.currency = k
      /\ e.amount = IF t.type \in {"buy", "sell"} THEN w ELSE t.amount
  BY DEF Entry
<1>6. v = CASE t.type = "buy" -> Cash(b, k) - w
            [] t.type = "sell" -> Cash(b, k) + w
            [] t.type \in Incoming -> Cash(b, k) + t.amount
            [] t.type \in Outgoing -> Cash(b, k) - t.amount
  <2>1. t.type \in {"buy", "sell"} => k = Base
    BY DEF CurrencyOf
  <2>2. t.type \notin {"buy", "sell"} => k = t.currency
    BY DEF CurrencyOf
  <2>3. t.type \in {"buy", "sell"} \/ t.type \in Incoming \cup Outgoing
    BY PayloadFacts
  <2> QED
    BY <2>1, <2>2, <2>3 DEF CashAfter, Incoming, Outgoing
<1>7. \/ t.type \in {"buy", "sell"} /\ w \in Int
      \/ t.type \in Incoming \cup Outgoing /\ t.amount \in Int
  BY PayloadFacts
<1>8. \A c \in Currency : Cash(b, c) \in 0 .. MaxMoney
  BY <1>1 DEF Cash, PortfolioAssumption
<1> HIDE DEF w, e, k, v, new
<1>9. CashFlow(e, k) \in Int /\ v = Cash(b, k) + CashFlow(e, k)
  <2>1. Cash(b, k) \in Int
    BY <1>2, <1>8
  <2> QED
    BY <1>5, <1>6, <1>7, <2>1 DEF CashFlow, Incoming, Outgoing
<1>10. \A c \in Currency \ {k} : CashFlow(e, c) = 0
  BY <1>5 DEF CashFlow
<1>11. v \in 0 .. MaxMoney
  BY DEF v
<1>12. new \in Balances
  <2>1. DOMAIN new \subseteq Currency
    BY <1>1, <1>2, <1>3
  <2>2. new \in [DOMAIN new -> 0 .. MaxMoney]
    <3>1. new = [c \in DOMAIN new |-> new[c]]
      BY DEF new, With
    <3>2. \A c \in DOMAIN new : new[c] \in 0 .. MaxMoney
      BY <1>1, <1>3, <1>11
    <3> QED
      BY <3>1, <3>2
  <2> QED
    BY <2>1, <2>2, BalancesFacts
<1>13. ASSUME NEW c \in Currency PROVE Cash(After(t, b), c) = Cash(b, c) + CashFlow(e, c)
  <2>1. Cash(After(t, b), c) = IF c \in DOMAIN new THEN new[c] ELSE 0
    BY <1>4 DEF Cash
  <2>2. CASE c = k
    BY <1>3, <1>9, <2>1, <2>2
  <2>3. CASE c # k
    <3>1. Cash(After(t, b), c) = Cash(b, c)
      BY <1>3, <2>1, <2>3 DEF Cash
    <3>2. Cash(b, c) \in Int /\ CashFlow(e, c) = 0
      BY <1>8, <1>10, <2>3
    <3> QED
      BY <3>1, <3>2
  <2> QED
    BY <2>2, <2>3
<1>14. \A c \in Currency : CashFlow(e, c) \in Int
  BY <1>9, <1>10
<1> QED
  BY <1>4, <1>8, <1>12, <1>13, <1>14 DEF e

(* The error that a transaction adds to the cost of a symbol. *)
PositionsEffect(t, b) ==
    LET new == After(t, b)
        e == Entry(t, b)
    IN  /\ new.positions \in Positions
        /\ \A s \in Symbol :
             /\ Held(b, s) \in Nat /\ CostBasis(b, s) \in Int /\ CostBasis(new, s) \in Int
             /\ QuantityFlow(e, s) \in Int /\ CostFlow(e, s) \in Int
             /\ Held(new, s) = Held(b, s) + QuantityFlow(e, s)
             /\ 2 * Abs(CostBasis(new, s) - (CostBasis(b, s) + CostFlow(e, s)))
                  <= IF IsTrade(e, "buy", s) /\ Held(b, s) > 0 THEN Held(new, s) ELSE 0

(* The symbols that a transaction is not about. *)
LEMMA HeldFacts ==
    ASSUME PortfolioAssumption, NEW b, b.positions \in Positions
    PROVE  /\ DOMAIN b.positions \subseteq Symbol
           /\ \A s \in DOMAIN b.positions :
                LET held == b.positions[s] IN
                /\ held \in Position
                /\ held.quantity \in 1 .. MaxQuantity /\ held.average \in 0 .. MaxMoney
                /\ held.price \in Price /\ held.realized \in -MaxMoney .. MaxMoney
                /\ held.quantity * held.average \in Nat
           /\ \A s : /\ Held(b, s) \in Nat /\ CostBasis(b, s) \in Nat
                     /\ s \in DOMAIN b.positions <=> Held(b, s) > 0
<1>1. DOMAIN b.positions \subseteq Symbol /\ \A s \in DOMAIN b.positions : b.positions[s] \in Position
  BY PositionsFacts
<1>2. ASSUME NEW s \in DOMAIN b.positions
      PROVE  LET held == b.positions[s] IN
             /\ held \in Position
             /\ held.quantity \in 1 .. MaxQuantity /\ held.average \in 0 .. MaxMoney
             /\ held.price \in Price /\ held.realized \in -MaxMoney .. MaxMoney
             /\ held.quantity * held.average \in Nat
  <2> DEFINE held == b.positions[s]
  <2>1. /\ held \in Position
        /\ held.quantity \in 1 .. MaxQuantity /\ held.average \in 0 .. MaxMoney
        /\ held.price \in Price /\ held.realized \in -MaxMoney .. MaxMoney
    BY <1>1 DEF Position
  <2>2. MaxMoney \in Nat /\ MaxQuantity \in Nat
    BY DEF PortfolioAssumption
  <2>3. held.quantity * held.average \in Nat
    BY <2>1, <2>2
  <2> QED
    BY <2>1, <2>3
<1>3. ASSUME NEW s
      PROVE  /\ Held(b, s) \in Nat /\ CostBasis(b, s) \in Nat
             /\ s \in DOMAIN b.positions <=> Held(b, s) > 0
  <2>1. CASE s \in DOMAIN b.positions
    <3>1. b.positions[s].quantity \in 1 .. MaxQuantity /\ MaxQuantity \in Nat
          /\ b.positions[s].quantity * b.positions[s].average \in Nat
      BY <1>2, <2>1 DEF PortfolioAssumption
    <3> QED
      BY <2>1, <3>1 DEF Held, CostBasis
  <2>2. CASE s \notin DOMAIN b.positions
    BY <2>2 DEF Held, CostBasis
  <2> QED
    BY <2>1, <2>2
<1> QED
  BY <1>1, <1>2, <1>3

LEMMA NoFlow ==
    ASSUME PortfolioAssumption, NEW b, NEW new, NEW e, NEW s,
           b.positions \in Positions, new.positions \in Positions,
           s \in DOMAIN b.positions <=> s \in DOMAIN new.positions,
           s \in DOMAIN b.positions => new.positions[s] = b.positions[s],
           ~IsTrade(e, "buy", s), ~IsTrade(e, "sell", s)
    PROVE  /\ Held(b, s) \in Nat /\ CostBasis(b, s) \in Int /\ CostBasis(new, s) \in Int
           /\ QuantityFlow(e, s) \in Int /\ CostFlow(e, s) \in Int
           /\ Held(new, s) = Held(b, s) + QuantityFlow(e, s)
           /\ 2 * Abs(CostBasis(new, s) - (CostBasis(b, s) + CostFlow(e, s)))
                <= IF IsTrade(e, "buy", s) /\ Held(b, s) > 0 THEN Held(new, s) ELSE 0
<1>1. Held(new, s) = Held(b, s) /\ CostBasis(new, s) = CostBasis(b, s)
  BY DEF Held, CostBasis
<1>2. Held(b, s) \in Nat /\ CostBasis(b, s) \in Nat
  BY HeldFacts
<1>3. QuantityFlow(e, s) = 0 /\ CostFlow(e, s) = 0
  BY DEF QuantityFlow, CostFlow
<1>4. Abs(CostBasis(new, s) - (CostBasis(b, s) + CostFlow(e, s))) = 0
  BY <1>1, <1>2, <1>3 DEF Abs
<1> QED
  BY <1>1, <1>2, <1>3, <1>4

LEMMA WithFacts ==
    ASSUME NEW f \in Positions, NEW s \in Symbol, NEW p \in Position
    PROVE  LET new == With(f, s, p) IN
           /\ new \in Positions /\ DOMAIN new = DOMAIN f \cup {s} /\ new[s] = p
           /\ \A x \in DOMAIN f \ {s} : new[x] = f[x]
<1> DEFINE new == With(f, s, p)
<1>1. /\ new = [x \in DOMAIN new |-> new[x]] /\ DOMAIN new = DOMAIN f \cup {s}
      /\ new[s] = p /\ \A x \in DOMAIN f \ {s} : new[x] = f[x]
  BY DEF With
<1>2. DOMAIN f \subseteq Symbol /\ \A x \in DOMAIN f : f[x] \in Position
  BY PositionsFacts
<1> HIDE DEF new
<1>3. new \in [DOMAIN new -> Position] /\ DOMAIN new \subseteq Symbol
  BY <1>1, <1>2
<1>4. new \in Positions
  BY <1>3, PositionsFacts
<1> QED
  BY <1>1, <1>4 DEF new

LEMMA WithoutFacts ==
    ASSUME NEW f \in Positions, NEW s
    PROVE  LET new == Without(f, s) IN
           /\ new \in Positions /\ DOMAIN new = DOMAIN f \ {s}
           /\ \A x \in DOMAIN f \ {s} : new[x] = f[x]
<1> DEFINE new == Without(f, s)
<1>1. /\ new = [x \in DOMAIN new |-> new[x]] /\ DOMAIN new = DOMAIN f \ {s}
      /\ \A x \in DOMAIN f \ {s} : new[x] = f[x]
  BY DEF Without
<1>2. DOMAIN f \subseteq Symbol /\ \A x \in DOMAIN f : f[x] \in Position
  BY PositionsFacts
<1> HIDE DEF new
<1>3. new \in [DOMAIN new -> Position] /\ DOMAIN new \subseteq Symbol
  BY <1>1, <1>2
<1>4. new \in Positions
  BY <1>3, PositionsFacts
<1> QED
  BY <1>1, <1>4 DEF new

LEMMA EntryFacts ==
    ASSUME PortfolioAssumption, NEW b, NEW t \in Payload
    PROVE  LET e == Entry(t, b) IN
           /\ e.type = t.type /\ e.currency = CurrencyOf(t) /\ e.realized = Realized(t, b)
           /\ IF t.type \in {"buy", "sell"}
              THEN e.symbol = t.symbol /\ e.quantity = t.quantity
                   /\ e.amount = t.quantity * t.price
              ELSE e.symbol = "" /\ e.quantity = 0 /\ e.amount = t.amount
BY DEF Entry

LEMMA OtherEffect ==
    ASSUME PortfolioAssumption, NEW b, IsBook(b), NEW t \in Payload,
           t.type \notin {"buy", "sell"}
    PROVE  PositionsEffect(t, b)
<1> DEFINE new == After(t, b)
           e == Entry(t, b)
<1>1. new.positions = b.positions /\ b.positions \in Positions
  BY DEF After, PositionsAfter, IsBook
<1>2. \A s : ~IsTrade(e, "buy", s) /\ ~IsTrade(e, "sell", s)
  BY EntryFacts DEF IsTrade
<1> HIDE DEF new, e
<1> QED
  BY <1>1, <1>2, NoFlow DEF PositionsEffect, new, e

LEMMA Bounded ==
    ASSUME NEW h \in Nat, NEW a \in Nat, NEW q \in Nat, NEW p \in Nat, NEW most \in Nat,
           a <= most, p <= most
    PROVE  /\ h * a \in Nat /\ q * p \in Nat
           /\ h * a + q * p <= (h + q) * most
<1>1. h * a <= h * most /\ q * p <= q * most
  OBVIOUS
<1>2. (h + q) * most = h * most + q * most
  OBVIOUS
<1> DEFINE x == h * a
           y == q * p
           u == h * most
           v == q * most
           w == (h + q) * most
<1>3. x \in Nat /\ y \in Nat /\ u \in Nat /\ v \in Nat /\ x <= u /\ y <= v /\ w = u + v
  BY <1>1, <1>2
<1> HIDE DEF x, y, u, v, w
<1>4. x \in Nat /\ y \in Nat /\ x + y <= w
  BY <1>3
<1> QED
  BY <1>4 DEF x, y, w

LEMMA BuyEffect ==
    ASSUME PortfolioAssumption, NEW b, IsBook(b), NEW t \in Payload,
           t.type = "buy", ~OutOfRange(t, b)
    PROVE  PositionsEffect(t, b)
<1> DEFINE new == After(t, b)
           e == Entry(t, b)
           s == t.symbol
           p == Bought(t, b)
           q == t.quantity
           worth == q * t.price
<1>1. /\ s \in Symbol /\ q \in 1 .. MaxQuantity /\ t.price \in Price
      /\ t.price \in 1 .. MaxMoney /\ MaxMoney \in Nat /\ MaxQuantity \in Nat
      /\ worth \in Nat \ {0}
  BY PayloadFacts DEF Incoming, Outgoing
<1>2. b.positions \in Positions
  BY DEF IsBook
<1>3. new.positions = With(b.positions, s, p)
  BY DEF After, PositionsAfter
<1>4. /\ e.type = "buy" /\ e.symbol = s /\ e.quantity = q /\ e.amount = worth
  BY EntryFacts
<1>5. /\ p \in Position
      /\ p.quantity = Held(b, s) + q
      /\ p.quantity * p.average \in Int
      /\ 2 * Abs(p.quantity * p.average - (CostBasis(b, s) + worth))
           <= IF Held(b, s) > 0 THEN p.quantity ELSE 0
  <2>1. CASE s \notin DOMAIN b.positions
    <3>1. p = [quantity |-> q, average |-> t.price, price |-> t.price, realized |-> 0]
      BY <2>1 DEF Bought
    <3>2. Held(b, s) = 0 /\ CostBasis(b, s) = 0
      BY <2>1 DEF Held, CostBasis
    <3>3. 0 \in -MaxMoney .. MaxMoney /\ t.price \in 0 .. MaxMoney
      BY <1>1
    <3>4. p \in Position
      BY <1>1, <3>1, <3>3 DEF Position
    <3>5. p.quantity = q /\ p.quantity * p.average = worth
      BY <3>1
    <3> HIDE DEF worth, p
    <3>6. Abs(p.quantity * p.average - (CostBasis(b, s) + worth)) = 0
      BY <1>1, <3>2, <3>5 DEF Abs
    <3> QED
      BY <1>1, <3>2, <3>4, <3>5, <3>6
  <2>2. CASE s \in DOMAIN b.positions
    <3> DEFINE held == b.positions[s]
               total == held.quantity + q
               basis == held.quantity * held.average
               rounded == HalfEven(basis + worth, total)
    <3>1. /\ held \in Position /\ held.quantity \in 1 .. MaxQuantity
          /\ held.average \in 0 .. MaxMoney
      BY <1>2, <2>2, HeldFacts
    <3>2. total <= MaxQuantity /\ total \in Nat \ {0}
      BY <1>1, <2>2, <3>1 DEF OutOfRange
    <3>3. basis \in Nat /\ basis + worth \in Nat /\ basis + worth <= total * MaxMoney
      BY <1>1, <3>1, Bounded
    <3>4. Held(b, s) = held.quantity /\ Held(b, s) > 0 /\ CostBasis(b, s) = basis
      BY <1>1, <2>2, <3>1 DEF Held, CostBasis
    <3>5. p = [held EXCEPT !.quantity = total, !.average = rounded]
      BY <2>2 DEF Bought
    <3> HIDE DEF basis, worth, p, total
    <3>6. /\ rounded \in 0 .. MaxMoney /\ total * rounded \in Nat
          /\ 2 * Abs(total * rounded - (basis + worth)) <= total
      BY <1>1, <3>2, <3>3, HalfEvenFacts
    <3> HIDE DEF rounded, held
    <3>7. total \in 1 .. MaxQuantity
      BY <1>1, <3>2
    <3>8. p \in Position /\ p.quantity = total /\ p.average = rounded
      BY <3>1, <3>5, <3>6, <3>7 DEF Position
    <3> QED
      BY <3>4, <3>6, <3>8 DEF total
  <2> QED
    BY <2>1, <2>2
<1> HIDE DEF p, worth
<1>6. /\ new.positions \in Positions /\ DOMAIN new.positions = DOMAIN b.positions \cup {s}
      /\ new.positions[s] = p
      /\ \A x \in DOMAIN b.positions \ {s} : new.positions[x] = b.positions[x]
  <2> DEFINE f == b.positions
             w == With(f, s, p)
  <2>1. f \in Positions /\ s \in Symbol /\ p \in Position /\ new.positions = w
    BY <1>1, <1>2, <1>3, <1>5
  <2> HIDE DEF f, new, s
  <2>2. w \in Positions /\ DOMAIN w = DOMAIN f \cup {s} /\ w[s] = p
        /\ \A x \in DOMAIN f \ {s} : w[x] = f[x]
    BY <2>1, WithFacts
  <2> QED
    BY <2>1, <2>2 DEF f
<1>7. Held(new, s) = p.quantity /\ CostBasis(new, s) = p.quantity * p.average
  BY <1>6 DEF Held, CostBasis
<1>8. /\ IsTrade(e, "buy", s) /\ QuantityFlow(e, s) = q /\ CostFlow(e, s) = worth
      /\ \A x : x # s => ~IsTrade(e, "buy", x) /\ ~IsTrade(e, "sell", x)
  BY <1>4 DEF IsTrade, QuantityFlow, CostFlow
<1> HIDE DEF new, e
<1>9. Held(b, s) \in Nat /\ CostBasis(b, s) \in Int
  BY <1>2, HeldFacts
<1>10. ASSUME NEW x \in Symbol
       PROVE  /\ Held(b, x) \in Nat /\ CostBasis(b, x) \in Int /\ CostBasis(new, x) \in Int
              /\ QuantityFlow(e, x) \in Int /\ CostFlow(e, x) \in Int
              /\ Held(new, x) = Held(b, x) + QuantityFlow(e, x)
              /\ 2 * Abs(CostBasis(new, x) - (CostBasis(b, x) + CostFlow(e, x)))
                   <= IF IsTrade(e, "buy", x) /\ Held(b, x) > 0 THEN Held(new, x) ELSE 0
  <2>1. CASE x = s
    BY <1>1, <1>5, <1>7, <1>8, <1>9, <2>1
  <2>2. CASE x # s
    BY <1>2, <1>6, <1>8, <2>2, NoFlow
  <2> QED
    BY <2>1, <2>2
<1> QED
  BY <1>6, <1>10 DEF PositionsEffect, new, e

LEMMA SaleArithmetic ==
    ASSUME NEW h \in Int, NEW a \in Int, NEW q \in Int, NEW p \in Int
    PROVE  /\ (p - a) * q = q * p - q * a
           /\ (h - q) * a = h * a - q * a
           /\ q * a \in Int /\ q * p \in Int /\ h * a \in Int
OBVIOUS

LEMMA SellEffect ==
    ASSUME PortfolioAssumption, NEW b, IsBook(b), NEW t \in Payload,
           t.type = "sell", ~NotOwned(t, b), ~OutOfRange(t, b)
    PROVE  PositionsEffect(t, b)
<1> DEFINE new == After(t, b)
           e == Entry(t, b)
           s == t.symbol
           q == t.quantity
           held == b.positions[s]
           worth == q * t.price
           basis == held.quantity * held.average
           cost == q * held.average
<1>1. /\ s \in Symbol /\ q \in 1 .. MaxQuantity /\ t.price \in 1 .. MaxMoney
      /\ MaxMoney \in Nat /\ MaxQuantity \in Nat
  BY PayloadFacts DEF Incoming, Outgoing
<1>2. b.positions \in Positions
  BY DEF IsBook
<1>3. /\ s \in DOMAIN b.positions /\ held \in Position /\ held.quantity \in 1 .. MaxQuantity
      /\ held.average \in 0 .. MaxMoney /\ held.realized \in -MaxMoney .. MaxMoney
      /\ held.price \in Price /\ q <= held.quantity
  <2>1. s \in DOMAIN b.positions /\ ~(q > held.quantity)
    BY DEF NotOwned
  <2>2. /\ held \in Position /\ held.quantity \in 1 .. MaxQuantity
        /\ held.average \in 0 .. MaxMoney /\ held.realized \in -MaxMoney .. MaxMoney
        /\ held.price \in Price
    BY <1>2, <2>1, HeldFacts
  <2> QED
    BY <1>1, <2>1, <2>2
<1>4. /\ e.type = "sell" /\ e.symbol = s /\ e.quantity = q /\ e.amount = worth
      /\ e.realized = Realized(t, b)
  BY EntryFacts
<1>5. /\ Realized(t, b) = worth - cost
      /\ (held.quantity - q) * held.average = basis - cost
      /\ worth \in Int /\ basis \in Int /\ cost \in Int
  <2>1. Realized(t, b) = (t.price - held.average) * q
    BY DEF Realized
  <2>2. q \in Int /\ t.price \in Int /\ held.average \in Int /\ held.quantity \in Int
    BY <1>1, <1>3
  <2> QED
    BY <2>1, <2>2, SaleArithmetic
<1>6. Held(b, s) = held.quantity /\ CostBasis(b, s) = basis
  BY <1>3 DEF Held, CostBasis
<1> HIDE DEF worth, basis, cost
<1>7. /\ IsTrade(e, "sell", s) /\ QuantityFlow(e, s) = -q /\ CostFlow(e, s) = -cost
      /\ \A x : ~IsTrade(e, "buy", x) /\ (x # s => ~IsTrade(e, "sell", x))
  <2>1. /\ IsTrade(e, "sell", s)
        /\ \A x : ~IsTrade(e, "buy", x) /\ (x # s => ~IsTrade(e, "sell", x))
    BY <1>4 DEF IsTrade
  <2>2. (worth - cost) - worth = -cost
    BY <1>5
  <2> QED
    BY <1>4, <1>5, <2>1, <2>2 DEF QuantityFlow, CostFlow
<1>8. /\ new.positions \in Positions
      /\ \A x : x # s => (x \in DOMAIN b.positions <=> x \in DOMAIN new.positions)
      /\ \A x \in DOMAIN b.positions \ {s} : new.positions[x] = b.positions[x]
      /\ Held(new, s) = held.quantity - q
      /\ CostBasis(new, s) = basis - cost
  <2>1. CASE held.quantity = q
    <3>1. new.positions = Without(b.positions, s)
      BY <2>1 DEF After, PositionsAfter
    <3>2. /\ new.positions \in Positions /\ DOMAIN new.positions = DOMAIN b.positions \ {s}
          /\ \A x \in DOMAIN b.positions \ {s} : new.positions[x] = b.positions[x]
      <4> DEFINE f == b.positions
                 w == Without(f, s)
      <4>1. f \in Positions /\ new.positions = w
        BY <1>2, <3>1
      <4> HIDE DEF f, new, s
      <4>2. /\ w \in Positions /\ DOMAIN w = DOMAIN f \ {s}
            /\ \A x \in DOMAIN f \ {s} : w[x] = f[x]
        BY <4>1, WithoutFacts
      <4> QED
        BY <4>1, <4>2 DEF f
    <3>3. Held(new, s) = 0 /\ CostBasis(new, s) = 0
      BY <3>2 DEF Held, CostBasis
    <3>4. held.quantity - q = 0 /\ basis = cost
      BY <1>1, <2>1 DEF basis, cost
    <3> QED
      BY <1>5, <3>2, <3>3, <3>4
  <2>2. CASE held.quantity # q
    <3> DEFINE p == Sold(t, b)
    <3>1. new.positions = With(b.positions, s, p)
      BY <2>2 DEF After, PositionsAfter
    <3>2. p = [held EXCEPT !.quantity = held.quantity - q,
                           !.realized = held.realized + Realized(t, b)]
      BY <1>3 DEF Sold, Position
    <3>3. p.quantity = held.quantity - q /\ p.average = held.average
          /\ p.realized = held.realized + Realized(t, b)
      BY <1>3, <3>2 DEF Position
    <3>4. p.realized \in -MaxMoney .. MaxMoney
      <4>1. ~(Abs(p.realized) > MaxMoney)
        BY <2>2 DEF OutOfRange
      <4>2. p.realized \in Int
        BY <1>1, <1>3, <1>5, <3>3
      <4> HIDE DEF p
      <4> QED
        BY <1>1, <4>1, <4>2 DEF Abs
    <3>5. held.quantity - q \in 1 .. MaxQuantity
      BY <1>1, <1>3, <2>2
    <3>6. p \in Position
      <4>1. held.realized + Realized(t, b) \in -MaxMoney .. MaxMoney
        BY <3>3, <3>4
      <4> HIDE DEF p, held
      <4> QED
        BY <1>3, <3>2, <3>5, <4>1 DEF Position
    <3> HIDE DEF p
    <3>7. /\ new.positions \in Positions /\ DOMAIN new.positions = DOMAIN b.positions \cup {s}
          /\ new.positions[s] = p
          /\ \A x \in DOMAIN b.positions \ {s} : new.positions[x] = b.positions[x]
      <4> DEFINE f == b.positions
                 w == With(f, s, p)
      <4>1. f \in Positions /\ s \in Symbol /\ p \in Position /\ new.positions = w
        BY <1>1, <1>2, <3>1, <3>6
      <4> HIDE DEF f, new, s
      <4>2. w \in Positions /\ DOMAIN w = DOMAIN f \cup {s} /\ w[s] = p
            /\ \A x \in DOMAIN f \ {s} : w[x] = f[x]
        BY <4>1, WithFacts
      <4> QED
        BY <4>1, <4>2 DEF f
    <3>8. Held(new, s) = p.quantity /\ CostBasis(new, s) = p.quantity * p.average
      BY <3>7 DEF Held, CostBasis
    <3> QED
      BY <1>5, <3>3, <3>7, <3>8
  <2> QED
    BY <2>1, <2>2
<1> HIDE DEF new, e
<1>9. ASSUME NEW x \in Symbol
      PROVE  /\ Held(b, x) \in Nat /\ CostBasis(b, x) \in Int /\ CostBasis(new, x) \in Int
             /\ QuantityFlow(e, x) \in Int /\ CostFlow(e, x) \in Int
             /\ Held(new, x) = Held(b, x) + QuantityFlow(e, x)
             /\ 2 * Abs(CostBasis(new, x) - (CostBasis(b, x) + CostFlow(e, x)))
                  <= IF IsTrade(e, "buy", x) /\ Held(b, x) > 0 THEN Held(new, x) ELSE 0
  <2>1. CASE x = s
    <3>1. /\ held.quantity \in Nat /\ q \in Nat
      BY <1>1, <1>3
    <3>2. Abs(CostBasis(new, s) - (CostBasis(b, s) + CostFlow(e, s))) = 0
      BY <1>5, <1>6, <1>7, <1>8 DEF Abs
    <3> HIDE DEF held
    <3> QED
      BY <1>5, <1>6, <1>7, <1>8, <2>1, <3>1, <3>2
  <2>2. CASE x # s
    BY <1>2, <1>7, <1>8, <2>2, NoFlow
  <2> QED
    BY <2>1, <2>2
<1> QED
  BY <1>8, <1>9 DEF PositionsEffect, new, e

(* A transaction looks at no more of what was read than the two. *)
LEMMA SameContent ==
    ASSUME PortfolioAssumption, NEW t \in Payload,
           NEW b, NEW d, b.cash = d.cash, b.positions = d.positions
    PROVE  /\ Refused(t, b) <=> Refused(t, d)
           /\ After(t, b) = After(t, d) /\ Entry(t, b) = Entry(t, d)
           /\ \A s, p : Repriced(b, s, p) = Repriced(d, s, p)
<1>1. \A c : Cash(b, c) = Cash(d, c)
  BY DEF Cash
<1>2. CashAfter(t, b) = CashAfter(t, d)
  <2>1. t.type \in {"buy", "sell"} \/ t.type \in Incoming \cup Outgoing
    BY PayloadFacts
  <2> QED
    BY <1>1, <2>1 DEF CashAfter
<1>3. Realized(t, b) = Realized(t, d)
  BY DEF Realized
<1>4. Sold(t, b) = Sold(t, d) /\ Bought(t, b) = Bought(t, d)
  BY <1>3 DEF Sold, Bought
<1>5. PositionsAfter(t, b) = PositionsAfter(t, d)
  BY <1>4 DEF PositionsAfter
<1>6. NotOwned(t, b) <=> NotOwned(t, d)
  BY DEF NotOwned
<1>7. OutOfRange(t, b) <=> OutOfRange(t, d)
  BY <1>2, <1>3, <1>4 DEF OutOfRange
<1>8. \A s, p : Repriced(b, s, p) = Repriced(d, s, p)
  BY DEF Repriced
<1> QED
  BY <1>2, <1>3, <1>5, <1>6, <1>7, <1>8 DEF Refused, After, Entry

LEMMA TransactionRecord ==
    ASSUME NEW type \in {"buy", "sell"} \cup Incoming \cup Outgoing, NEW currency \in Currency,
           NEW symbol \in Symbol \cup {""}, NEW quantity \in 0 .. MaxQuantity,
           NEW amount \in 1 .. MaxMoney, NEW realized \in -MaxMoney .. MaxMoney
    PROVE  [type |-> type, currency |-> currency, realized |-> realized, symbol |-> symbol,
            quantity |-> quantity, amount |-> amount] \in Transaction
BY DEF Transaction

LEMMA EntryType ==
    ASSUME PortfolioAssumption, NEW b, IsBook(b), NEW t \in Payload, ~Refused(t, b)
    PROVE  Entry(t, b) \in Transaction
<1> DEFINE e == Entry(t, b)
           w == t.quantity * t.price
<1>1. MaxMoney \in Nat /\ MaxQuantity \in Nat /\ CurrencyOf(t) \in Currency
  BY PayloadFacts
<1>2. ~NotOwned(t, b) /\ ~OutOfRange(t, b)
  BY DEF Refused
<1>3. CASE t.type \in {"buy", "sell"}
  <2>1. /\ t.symbol \in Symbol /\ t.quantity \in 1 .. MaxQuantity /\ w \in Nat \ {0}
        /\ t.price \in 1 .. MaxMoney
    BY <1>3, PayloadFacts DEF Incoming, Outgoing
  <2>2. ~(w > MaxMoney)
    BY <1>2, <1>3 DEF OutOfRange
  <2>3. Realized(t, b) \in -MaxMoney .. MaxMoney
    <3>1. CASE t.type = "buy"
      BY <1>1, <3>1 DEF Realized
    <3>2. CASE t.type = "sell"
      <4> DEFINE a == b.positions[t.symbol].average
      <4>1. Realized(t, b) = (t.price - a) * t.quantity
        BY <3>2 DEF Realized
      <4>2. a \in 0 .. MaxMoney
        BY <1>2, <3>2, HeldFacts DEF NotOwned, IsBook
      <4>3. Realized(t, b) \in Int
        BY <1>1, <2>1, <4>1, <4>2
      <4>4. ~(Abs(Realized(t, b)) > MaxMoney)
        BY <1>2, <3>2 DEF OutOfRange
      <4> QED
        BY <1>1, <4>3, <4>4 DEF Abs
    <3> QED
      BY <1>3, <3>1, <3>2
  <2>4. e = [type |-> t.type, currency |-> CurrencyOf(t), realized |-> Realized(t, b),
             symbol |-> t.symbol, quantity |-> t.quantity, amount |-> w]
    BY <1>3 DEF Entry
  <2>5. w \in 1 .. MaxMoney
    BY <1>1, <2>1, <2>2
  <2>6. t.quantity \in 0 .. MaxQuantity
    BY <1>1, <2>1
  <2> HIDE DEF w
  <2>7. t.type \in {"buy", "sell"} \cup Incoming \cup Outgoing /\ t.symbol \in Symbol \cup {""}
    BY <1>3, <2>1
  <2>8. [type |-> t.type, currency |-> CurrencyOf(t), realized |-> Realized(t, b),
         symbol |-> t.symbol, quantity |-> t.quantity, amount |-> w] \in Transaction
    BY <1>1, <2>3, <2>5, <2>6, <2>7, TransactionRecord
  <2> QED
    BY <2>4, <2>8
<1>4. CASE t.type \notin {"buy", "sell"}
  <2>1. t.type \in Incoming \cup Outgoing /\ t.currency \in Currency /\ t.amount \in 1 .. MaxMoney
    BY <1>4, PayloadFacts
  <2>2. Realized(t, b) \in -MaxMoney .. MaxMoney
    BY <1>1, <1>4, <2>1 DEF Realized
  <2>3. e = [type |-> t.type, currency |-> CurrencyOf(t), realized |-> Realized(t, b),
             symbol |-> "", quantity |-> 0, amount |-> t.amount]
    BY <1>4 DEF Entry
  <2>4. 0 \in 0 .. MaxQuantity
    BY <1>1
  <2> HIDE DEF e
  <2> QED
    BY <1>1, <2>1, <2>2, <2>3, <2>4, TransactionRecord DEF e
<1> QED
  BY <1>3, <1>4

LEMMA TransactionEffect ==
    ASSUME PortfolioAssumption, NEW b, IsBook(b), NEW t \in Payload, ~Refused(t, b)
    PROVE  /\ IsBook(After(t, b)) /\ Entry(t, b) \in Transaction /\ PositionsEffect(t, b)
           /\ \A c \in Currency : /\ Cash(b, c) \in 0 .. MaxMoney
                                  /\ CashFlow(Entry(t, b), c) \in Int
                                  /\ Cash(After(t, b), c) = Cash(b, c) + CashFlow(Entry(t, b), c)
<1>1. ~NotOwned(t, b) /\ ~OutOfRange(t, b)
  BY DEF Refused
<1>2. CashAfter(t, b) \in 0 .. MaxMoney
  BY <1>1 DEF OutOfRange
<1>3. PositionsEffect(t, b)
  <2>1. CASE t.type = "buy"
    BY <1>1, <2>1, BuyEffect
  <2>2. CASE t.type = "sell"
    BY <1>1, <2>2, SellEffect
  <2>3. CASE t.type \notin {"buy", "sell"}
    BY <2>3, OtherEffect
  <2> QED
    BY <2>1, <2>2, <2>3
<1>4. After(t, b).positions \in Positions
  BY <1>3 DEF PositionsEffect
<1> QED
  BY <1>2, <1>3, <1>4, CashEffect, EntryType DEF IsBook

LEMMA RepriceEffect ==
    ASSUME PortfolioAssumption, NEW b, IsBook(b),
           NEW s \in DOMAIN b.positions, NEW p \in Price
    PROVE  LET new == Repriced(b, s, p) IN
           /\ IsBook(new) /\ new.cash = b.cash
           /\ \A x : Held(new, x) = Held(b, x) /\ CostBasis(new, x) = CostBasis(b, x)
<1> DEFINE new == Repriced(b, s, p)
           f == b.positions
           w == [f EXCEPT ![s].price = p]
<1>1. new.cash = b.cash /\ new.positions = w
  BY DEF Repriced
<1>2. f \in Positions /\ s \in DOMAIN f
  BY DEF IsBook
<1>3. DOMAIN f \subseteq Symbol /\ f \in [DOMAIN f -> Position]
  BY <1>2, PositionsFacts
<1> HIDE DEF f, new
<1>4. /\ DOMAIN w = DOMAIN f /\ w \in [DOMAIN w -> Position]
      /\ \A x \in DOMAIN f : /\ w[x].quantity = f[x].quantity
                             /\ w[x].average = f[x].average
  <2>1. \A x \in DOMAIN f : w[x] = IF x = s THEN [f[x] EXCEPT !.price = p] ELSE f[x]
    BY <1>2, <1>3
  <2>2. \A x \in DOMAIN f : /\ w[x] \in Position /\ w[x].quantity = f[x].quantity
                            /\ w[x].average = f[x].average
    BY <1>3, <2>1 DEF Position
  <2> QED
    BY <2>2
<1> HIDE DEF w
<1>5. w \in Positions
  BY <1>3, <1>4, PositionsFacts
<1>6. \A x : Held(new, x) = Held(b, x) /\ CostBasis(new, x) = CostBasis(b, x)
  BY <1>1, <1>4 DEF Held, CostBasis, f
<1> QED
  BY <1>1, <1>5, <1>6 DEF IsBook, new

-----------------------------------------------------------------------------
(* The ledger.                                                             *)

LEMMA FlowFacts ==
    ASSUME PortfolioAssumption, NEW e \in Transaction
    PROVE  /\ \A c : CashFlow(e, c) \in Int
           /\ \A s : QuantityFlow(e, s) \in Int /\ CostFlow(e, s) \in Int
<1>1. e.amount \in Int /\ e.quantity \in Int /\ e.realized \in Int
  <2>1. /\ e.amount \in 1 .. MaxMoney /\ e.quantity \in 0 .. MaxQuantity
        /\ e.realized \in -MaxMoney .. MaxMoney
    BY DEF Transaction
  <2> QED
    BY <2>1
<1> QED
  BY <1>1 DEF CashFlow, QuantityFlow, CostFlow

LEMMA FlowsFacts ==
    ASSUME PortfolioAssumption, NEW n \in Nat, ledger \in Seq(Transaction), Len(ledger) = n
    PROVE  /\ DOMAIN ledger = 1..n
           /\ \A c : CashFlows(c) \in [1..n -> Int]
           /\ \A s : /\ QuantityFlows(s) \in [1..n -> Int] /\ CostFlows(s) \in [1..n -> Int]
                     /\ Sums(QuantityFlows(s)) \in [0..n -> Int]
                     /\ Averaged(s) \in [1..n -> Int]
<1>1. DOMAIN ledger = 1..n /\ \A i \in 1..n : ledger[i] \in Transaction
  BY LenProperties, ElementOfSeq
<1>2. \A c : CashFlows(c) \in [1..n -> Int]
  BY <1>1, FlowFacts DEF CashFlows
<1>3. ASSUME NEW s
      PROVE  /\ QuantityFlows(s) \in [1..n -> Int] /\ CostFlows(s) \in [1..n -> Int]
             /\ Sums(QuantityFlows(s)) \in [0..n -> Int]
             /\ Averaged(s) \in [1..n -> Int]
  <2>1. QuantityFlows(s) \in [1..n -> Int] /\ CostFlows(s) \in [1..n -> Int]
    BY <1>1, FlowFacts DEF QuantityFlows, CostFlows
  <2>2. Sums(QuantityFlows(s)) \in [0..n -> Int]
    BY <2>1, SumsFacts
  <2>3. \A i \in 1..n : i \in 0..n
    OBVIOUS
  <2>4. Averaged(s) \in [1..n -> Int]
    BY <1>1, <2>2, <2>3 DEF Averaged
  <2> QED
    BY <2>1, <2>2, <2>4
<1> QED
  BY <1>1, <1>2, <1>3

LEMMA Triangle ==
    ASSUME NEW basis \in Int, NEW costs \in Int, NEW slack \in Int,
           NEW basis1 \in Int, NEW flow \in Int, NEW more \in Int,
           2 * Abs(basis - costs) <= slack,
           2 * Abs(basis1 - (basis + flow)) <= more
    PROVE  2 * Abs(basis1 - (costs + flow)) <= slack + more
BY DEF Abs

LEMMA LedgerStep ==
    ASSUME PortfolioAssumption, ledger \in Seq(Transaction), LedgerAddsUp, CostIsAccounted,
           IsBook(book), NEW t \in Payload, ~Refused(t, book),
           book'.cash = After(t, book).cash, book'.positions = After(t, book).positions,
           ledger' = Append(ledger, Entry(t, book))
    PROVE  /\ ledger' \in Seq(Transaction) /\ Len(ledger') = Len(ledger) + 1
           /\ LedgerAddsUp' /\ CostIsAccounted'
<1> DEFINE n == Len(ledger)
           e == Entry(t, book)
           new == After(t, book)
<1>1. /\ e \in Transaction /\ PositionsEffect(t, book)
      /\ \A c \in Currency : /\ Cash(book, c) \in 0 .. MaxMoney
                             /\ Cash(new, c) = Cash(book, c) + CashFlow(e, c)
  BY TransactionEffect
<1>2. /\ n \in Nat /\ n + 1 \in Nat /\ ledger' \in Seq(Transaction) /\ Len(ledger') = n + 1
      /\ \A i \in 1..n : ledger'[i] = ledger[i]
      /\ ledger'[n + 1] = e
  BY <1>1, LenProperties, AppendProperties
<1> HIDE DEF n
<1>3. /\ DOMAIN ledger = 1..n
      /\ \A c : CashFlows(c) \in [1..n -> Int]
      /\ \A s : /\ QuantityFlows(s) \in [1..n -> Int] /\ CostFlows(s) \in [1..n -> Int]
                /\ Averaged(s) \in [1..n -> Int]
  BY <1>2, FlowsFacts DEF n
<1>4. /\ DOMAIN ledger' = 1..(n + 1)
      /\ \A c : CashFlows(c)' \in [1..(n + 1) -> Int]
      /\ \A s : /\ QuantityFlows(s)' \in [1..(n + 1) -> Int]
                /\ CostFlows(s)' \in [1..(n + 1) -> Int]
                /\ Averaged(s)' \in [1..(n + 1) -> Int]
  <2>1. /\ DOMAIN ledger' = 1..(n + 1) /\ \A i \in 1..(n + 1) : ledger'[i] \in Transaction
    BY <1>2, LenProperties, ElementOfSeq
  <2>2. \A c : CashFlows(c)' \in [1..(n + 1) -> Int]
    BY <2>1, FlowFacts DEF CashFlows
  <2>3. \A s : /\ QuantityFlows(s)' \in [1..(n + 1) -> Int]
               /\ CostFlows(s)' \in [1..(n + 1) -> Int]
    BY <2>1, FlowFacts DEF QuantityFlows, CostFlows
  <2>4. \A s : Averaged(s)' \in [1..(n + 1) -> Int]
    <3> SUFFICES ASSUME NEW s PROVE Averaged(s)' \in [1..(n + 1) -> Int]
      OBVIOUS
    <3>1. Sums(QuantityFlows(s)') \in [0..(n + 1) -> Int]
      BY <1>2, <2>3, SumsFacts
    <3>2. \A i \in 1..(n + 1) : i \in 0..(n + 1)
      BY <1>2
    <3> QED
      BY <2>1, <3>1, <3>2 DEF Averaged
  <2> QED
    BY <2>1, <2>2, <2>3, <2>4
<1>5. n + 1 \in 1..(n + 1) /\ \A i \in 1..n : i \in 1..(n + 1)
  BY <1>2
<1> HIDE DEF e, new
<1>6. ASSUME NEW c \in Currency PROVE Cash(book', c) = Sums(CashFlows(c)')[n + 1]
  <2>1. /\ \A i \in 1..n : CashFlows(c)'[i] = CashFlows(c)[i]
        /\ CashFlows(c)'[n + 1] = CashFlow(e, c)
    BY <1>2, <1>3, <1>4, <1>5 DEF CashFlows
  <2>2. Sums(CashFlows(c)')[n + 1] = Sums(CashFlows(c))[n] + CashFlow(e, c)
    <3>1. PICK g, h : g = CashFlows(c) /\ h = CashFlows(c)'
      OBVIOUS
    <3>2. /\ g \in [1..n -> Int] /\ h \in [1..(n + 1) -> Int] /\ n \in Nat
          /\ \A i \in 1..n : h[i] = g[i]
          /\ h[n + 1] = CashFlow(e, c)
      BY <1>2, <1>3, <1>4, <2>1, <3>1
    <3>3. /\ \A i \in 0..n : Sums(h)[i] = Sums(g)[i] /\ Sums(g)[i] \in Int
          /\ Sums(h)[n + 1] = Sums(g)[n] + h[n + 1]
      BY <3>2, SumsAppend
    <3>4. n \in 0..n
      BY <3>2
    <3> QED
      BY <3>1, <3>2, <3>3, <3>4
  <2>3. Cash(book, c) = Sums(CashFlows(c))[n]
    BY DEF LedgerAddsUp, n
  <2>4. Cash(book', c) = Cash(new, c)
    BY DEF Cash, new
  <2> QED
    BY <1>1, <2>2, <2>3, <2>4 DEF e, new
<1>7. ASSUME NEW s \in Symbol
      PROVE  /\ Held(book', s) = Sums(QuantityFlows(s)')[n + 1]
             /\ 2 * Abs(CostBasis(book', s) - Sums(CostFlows(s)')[n + 1])
                   <= Sums(Averaged(s)')[n + 1]
  <2> DEFINE more == IF IsTrade(e, "buy", s) /\ Held(book, s) > 0 THEN Held(new, s) ELSE 0
  <2>1. Held(book', s) = Held(new, s) /\ CostBasis(book', s) = CostBasis(new, s)
    BY DEF Held, CostBasis, new
  <2>2. /\ Held(book, s) \in Nat /\ CostBasis(book, s) \in Int /\ CostBasis(new, s) \in Int
        /\ QuantityFlow(e, s) \in Int /\ CostFlow(e, s) \in Int
        /\ Held(new, s) = Held(book, s) + QuantityFlow(e, s)
        /\ 2 * Abs(CostBasis(new, s) - (CostBasis(book, s) + CostFlow(e, s))) <= more
    BY <1>1 DEF PositionsEffect, e, new
  <2>3. /\ Held(book, s) = Sums(QuantityFlows(s))[n]
        /\ 2 * Abs(CostBasis(book, s) - Sums(CostFlows(s))[n]) <= Sums(Averaged(s))[n]
    BY DEF LedgerAddsUp, CostIsAccounted, n
  <2>4. /\ \A i \in 1..n : /\ QuantityFlows(s)'[i] = QuantityFlows(s)[i]
                           /\ CostFlows(s)'[i] = CostFlows(s)[i]
        /\ QuantityFlows(s)'[n + 1] = QuantityFlow(e, s)
        /\ CostFlows(s)'[n + 1] = CostFlow(e, s)
    BY <1>2, <1>3, <1>4, <1>5 DEF QuantityFlows, CostFlows
  <2>5. /\ \A i \in 0..n : Sums(QuantityFlows(s)')[i] = Sums(QuantityFlows(s))[i]
        /\ Sums(QuantityFlows(s)')[n + 1] = Sums(QuantityFlows(s))[n] + QuantityFlow(e, s)
    <3>1. PICK g, h : g = QuantityFlows(s) /\ h = QuantityFlows(s)'
      OBVIOUS
    <3>2. /\ g \in [1..n -> Int] /\ h \in [1..(n + 1) -> Int] /\ n \in Nat
          /\ \A i \in 1..n : h[i] = g[i]
          /\ h[n + 1] = QuantityFlow(e, s)
      BY <1>2, <1>3, <1>4, <2>4, <3>1
    <3>3. /\ \A i \in 0..n : Sums(h)[i] = Sums(g)[i] /\ Sums(g)[i] \in Int
          /\ Sums(h)[n + 1] = Sums(g)[n] + h[n + 1]
      BY <3>2, SumsAppend
    <3>4. n \in 0..n
      BY <3>2
    <3> QED
      BY <3>1, <3>2, <3>3, <3>4
  <2>6. /\ Sums(CostFlows(s))[n] \in Int
        /\ Sums(CostFlows(s)')[n + 1] = Sums(CostFlows(s))[n] + CostFlow(e, s)
    <3>1. PICK g, h : g = CostFlows(s) /\ h = CostFlows(s)'
      OBVIOUS
    <3>2. /\ g \in [1..n -> Int] /\ h \in [1..(n + 1) -> Int] /\ n \in Nat
          /\ \A i \in 1..n : h[i] = g[i]
          /\ h[n + 1] = CostFlow(e, s)
      BY <1>2, <1>3, <1>4, <2>4, <3>1
    <3>3. /\ \A i \in 0..n : Sums(h)[i] = Sums(g)[i] /\ Sums(g)[i] \in Int
          /\ Sums(h)[n + 1] = Sums(g)[n] + h[n + 1]
      BY <3>2, SumsAppend
    <3>4. n \in 0..n
      BY <3>2
    <3> QED
      BY <3>1, <3>2, <3>3, <3>4
  <2>7. Held(new, s) = Sums(QuantityFlows(s)')[n + 1]
    BY <2>2, <2>3, <2>5
  <2>8. /\ \A i \in 1..n : Averaged(s)'[i] = Averaged(s)[i]
        /\ Averaged(s)'[n + 1] = more
    <3>1. \A i \in 1..n : i \in 0..n /\ i - 1 \in 0..n
      BY <1>2
    <3>2. ASSUME NEW i \in 1..n PROVE Averaged(s)'[i] = Averaged(s)[i]
      <4>1. /\ Sums(QuantityFlows(s)')[i] = Sums(QuantityFlows(s))[i]
            /\ Sums(QuantityFlows(s)')[i - 1] = Sums(QuantityFlows(s))[i - 1]
            /\ ledger'[i] = ledger[i] /\ i \in 1..(n + 1)
        BY <1>2, <1>5, <2>5, <3>1
      <4> QED
        BY <1>3, <1>4, <4>1 DEF Averaged
    <3>3. Sums(QuantityFlows(s)')[n + 1 - 1] = Held(book, s)
      <4>1. n + 1 - 1 = n /\ n \in 0..n
        BY <1>2
      <4> QED
        BY <2>3, <2>5, <4>1
    <3>4. Averaged(s)'[n + 1] = more
      BY <1>2, <1>4, <1>5, <2>7, <3>3 DEF Averaged
    <3> QED
      BY <3>2, <3>4
  <2>9. more \in Int
    BY <2>2
  <2> HIDE DEF more
  <2>10. /\ Sums(Averaged(s))[n] \in Int
         /\ Sums(Averaged(s)')[n + 1] = Sums(Averaged(s))[n] + more
    <3>1. PICK g, h : g = Averaged(s) /\ h = Averaged(s)'
      OBVIOUS
    <3>2. /\ g \in [1..n -> Int] /\ h \in [1..(n + 1) -> Int] /\ n \in Nat
          /\ \A i \in 1..n : h[i] = g[i]
          /\ h[n + 1] = more
      BY <1>2, <1>3, <1>4, <2>8, <3>1
    <3>3. /\ \A i \in 0..n : Sums(h)[i] = Sums(g)[i] /\ Sums(g)[i] \in Int
          /\ Sums(h)[n + 1] = Sums(g)[n] + h[n + 1]
      BY <3>2, SumsAppend
    <3>4. n \in 0..n
      BY <3>2
    <3> QED
      BY <3>1, <3>2, <3>3, <3>4
  <2>11. 2 * Abs(CostBasis(new, s) - (Sums(CostFlows(s))[n] + CostFlow(e, s)))
           <= Sums(Averaged(s))[n] + more
    BY <2>2, <2>3, <2>6, <2>9, <2>10, Triangle
  <2> QED
    BY <2>1, <2>6, <2>7, <2>10, <2>11
<1> QED
  BY <1>2, <1>6, <1>7 DEF LedgerAddsUp, CostIsAccounted, n

-----------------------------------------------------------------------------
(* The requests.                                                           *)

Request == [step : {"idle", "positions", "cash", "transactions", "write"},
            work : Work \cup {NoWork}, version : 0 .. MaxVersion,
            positions : Positions, cash : Balances, entries : Seq(Transaction)]

(* What a request has read is what there is, unless the version it has     *)
(* read is an old one.                                                     *)
Fresh(r) ==
    /\ r.version <= book.version
    /\ r.step # "idle" => r.version < MaxVersion
    /\ r.version = book.version =>
         /\ r.step \in {"cash", "transactions", "write"} => r.positions = book.positions
         /\ r.step \in {"transactions", "write"} => r.cash = book.cash

Requests ==
    /\ request \in [Client -> Request]
    /\ \A c \in Client : Fresh(request[c])

Snapshots ==
    /\ \E S : snapshots \in Seq(S)
    /\ Len(snapshots) + Snapshotting <= MaxSnapshots

IInv == TypeOK /\ Requests /\ Snapshots /\ LedgerAddsUp /\ CostIsAccounted

LEMMA IdleFacts ==
    ASSUME PortfolioAssumption
    PROVE  /\ Idle \in Request /\ Idle.step = "idle" /\ Idle.version = 0 /\ Idle.work = NoWork
           /\ NoWork.kind = "none"
<1>1. <<>> \in Positions /\ <<>> \in Balances /\ <<>> \in Seq(Transaction)
  BY EmptyFacts, EmptySeq
<1>2. 0 \in 0 .. MaxVersion
  BY DEF PortfolioAssumption
<1> QED
  BY <1>1, <1>2 DEF Idle, Request, NoWork

LEMMA WorkFacts ==
    ASSUME NEW w \in Work \cup {NoWork}
    PROVE  /\ w.kind = "transaction" => w.transaction \in Payload
           /\ w.kind = "price" => w.symbol \in Symbol /\ w.price \in Price
BY DEF Work, NoWork

InFlight == {c \in Client : request[c].work.kind = "snapshot"}

(* A request that ends, or that was not there, is one snapshot more at     *)
(* most.                                                                   *)
LEMMA CountFacts ==
    ASSUME PortfolioAssumption, request \in [Client -> Request], NEW c \in Client,
           NEW r \in Request, request' = [request EXCEPT ![c] = r]
    PROVE  /\ Snapshotting \in Nat /\ Snapshotting' \in Nat
           /\ Snapshotting' <= Snapshotting + 1
           /\ (r.work.kind = "snapshot" => request[c].work.kind = "snapshot")
                => Snapshotting' <= Snapshotting
           /\ r.work.kind # "snapshot" /\ request[c].work.kind = "snapshot"
                => Snapshotting' = Snapshotting - 1
<1> DEFINE A == InFlight
           B == InFlight'
<1>1. Snapshotting = Cardinality(A) /\ Snapshotting' = Cardinality(B)
  BY DEF Snapshotting, InFlight
<1>2. /\ A \subseteq Client /\ B \subseteq Client
      /\ B \subseteq A \cup {c}
      /\ (r.work.kind = "snapshot" => request[c].work.kind = "snapshot") => B \subseteq A
      /\ r.work.kind # "snapshot" /\ request[c].work.kind = "snapshot"
           => c \in A /\ B = A \ {c}
  BY DEF InFlight
<1> HIDE DEF A, B
<1>3. IsFiniteSet(A) /\ IsFiniteSet(B) /\ Cardinality(A) \in Nat /\ Cardinality(B) \in Nat
  BY <1>2, FS_Subset, FS_CardinalityType DEF PortfolioAssumption
<1>4. IsFiniteSet(A \cup {c}) /\ Cardinality(A \cup {c}) <= Cardinality(A) + 1
  <2>1. /\ IsFiniteSet(A \cup {c})
        /\ Cardinality(A \cup {c}) = IF c \in A THEN Cardinality(A) ELSE Cardinality(A) + 1
    BY <1>3, FS_AddElement
  <2> QED
    BY <1>3, <2>1
<1>5. Cardinality(B) <= Cardinality(A) + 1
  <2>1. Cardinality(B) <= Cardinality(A \cup {c}) /\ Cardinality(A \cup {c}) \in Nat
    BY <1>2, <1>4, FS_Subset, FS_CardinalityType
  <2> QED
    BY <1>3, <1>4, <2>1
<1>6. B \subseteq A => Cardinality(B) <= Cardinality(A)
  BY <1>3, FS_Subset
<1>7. c \in A => Cardinality(A \ {c}) = Cardinality(A) - 1
  BY <1>3, FS_RemoveElement
<1> QED
  BY <1>1, <1>2, <1>3, <1>5, <1>6, <1>7

(* The books are about the rows alone. *)
LEMMA SameBooks ==
    ASSUME IInv, UNCHANGED <<book, ledger>>
    PROVE  LedgerAddsUp' /\ CostIsAccounted'
<1>1. \A x : /\ CashFlows(x)' = CashFlows(x) /\ QuantityFlows(x)' = QuantityFlows(x)
             /\ CostFlows(x)' = CostFlows(x) /\ Averaged(x)' = Averaged(x)
  BY DEF CashFlows, QuantityFlows, CostFlows, Averaged
<1>2. LedgerAddsUp'
  BY <1>1 DEF IInv, LedgerAddsUp, Cash, Held
<1>3. CostIsAccounted'
  BY <1>1 DEF IInv, CostIsAccounted, CostBasis
<1> QED
  BY <1>2, <1>3

(* A request reads, or is refused. *)
LEMMA RequestStep ==
    ASSUME PortfolioAssumption, IInv, UNCHANGED <<book, ledger, snapshots>>,
           NEW c \in Client, NEW r \in Request, request' = [request EXCEPT ![c] = r], Fresh(r),
           \/ r.work.kind = "snapshot" => request[c].work.kind = "snapshot"
           \/ Len(snapshots) + Snapshotting < MaxSnapshots
    PROVE  IInv'
<1>1. request \in [Client -> Request] /\ \A d \in Client : Fresh(request[d])
  BY DEF IInv, Requests
<1>2. request' \in [Client -> Request]
  BY <1>1
<1>3. \A d \in Client : request'[d] = IF d = c THEN r ELSE request[d]
  BY <1>1
<1>4. \A d \in Client : Fresh(request[d])'
  BY <1>1, <1>3 DEF Fresh
<1>5. TypeOK'
  <2>1. ASSUME NEW d \in Client
        PROVE  /\ request'[d].step \in {"idle", "positions", "cash", "transactions", "write"}
               /\ request'[d].work \in Work \cup {NoWork}
               /\ request'[d].version \in 0 .. book'.version
    <3>1. request'[d] \in Request /\ request'[d].version <= book'.version
      BY <1>2, <1>4 DEF Fresh
    <3>2. book'.version \in Nat
      BY DEF IInv, TypeOK
    <3>3. request'[d].version \in 0 .. MaxVersion
      BY <3>1 DEF Request
    <3> QED
      BY <3>1, <3>2, <3>3 DEF Request
  <2> QED
    BY <2>1 DEF IInv, TypeOK
<1>6. Snapshots'
  <2>1. Len(snapshots) \in Nat /\ MaxSnapshots \in Nat
    BY LenProperties DEF IInv, Snapshots, PortfolioAssumption
  <2>2. /\ Snapshotting \in Nat /\ Snapshotting' \in Nat
        /\ Snapshotting' <= Snapshotting + 1
        /\ (r.work.kind = "snapshot" => request[c].work.kind = "snapshot")
             => Snapshotting' <= Snapshotting
    BY <1>1, CountFacts
  <2>3. Len(snapshots) + Snapshotting <= MaxSnapshots /\ \E S : snapshots \in Seq(S)
    BY DEF IInv, Snapshots
  <2>4. Len(snapshots) + Snapshotting' <= MaxSnapshots
    BY <2>1, <2>2, <2>3
  <2>5. snapshots' = snapshots
    OBVIOUS
  <2> QED
    BY <2>3, <2>4, <2>5 DEF Snapshots
<1>7. LedgerAddsUp' /\ CostIsAccounted'
  BY SameBooks
<1> QED
  BY <1>2, <1>4, <1>5, <1>6, <1>7 DEF IInv, Requests

LEMMA ReplyStep ==
    ASSUME PortfolioAssumption, IInv, NEW c \in Client, Refuse(c)
    PROVE  IInv'
<1>1. /\ UNCHANGED <<book, ledger, snapshots>> /\ request' = [request EXCEPT ![c] = Idle]
      /\ Idle \in Request /\ Idle.work.kind # "snapshot" /\ Idle.step = "idle" /\ Idle.version = 0
  BY IdleFacts DEF Refuse, Reply
<1>2. Fresh(Idle)
  <2>1. book.version \in Nat \ {0}
    BY DEF IInv, TypeOK
  <2> QED
    BY <1>1, <2>1 DEF Fresh
<1> QED
  BY <1>1, <1>2, RequestStep

LEMMA LoadPortfolioStep ==
    ASSUME PortfolioAssumption, IInv, NEW c \in Client, LoadPortfolio(c)
    PROVE  IInv'
<1>1. PICK work \in Work :
        /\ work.kind = "snapshot" => Len(snapshots) + Snapshotting < MaxSnapshots
        /\ request' = [request EXCEPT ![c] =
              [Idle EXCEPT !.step = "positions", !.work = work, !.version = book.version]]
  BY DEF LoadPortfolio
<1> DEFINE r == [Idle EXCEPT !.step = "positions", !.work = work, !.version = book.version]
<1>2. book.version \in 0 .. MaxVersion /\ book.version < MaxVersion /\ book.version \in Nat
  BY DEF IInv, TypeOK, LoadPortfolio
<1>3. r \in Request /\ r.step = "positions" /\ r.work = work /\ r.version = book.version
  BY <1>2, IdleFacts DEF Request
<1> HIDE DEF r
<1>4. Fresh(r)
  BY <1>2, <1>3 DEF Fresh
<1>5. UNCHANGED <<book, ledger, snapshots>> /\ request' = [request EXCEPT ![c] = r]
  BY <1>1 DEF LoadPortfolio, r
<1> QED
  BY <1>1, <1>3, <1>4, <1>5, RequestStep

LEMMA LoadPositionsStep ==
    ASSUME PortfolioAssumption, IInv, NEW c \in Client, LoadPositions(c)
    PROVE  IInv'
<1> DEFINE r == [request[c] EXCEPT !.step = "cash", !.positions = book.positions]
<1>1. /\ request \in [Client -> Request] /\ request[c] \in Request /\ Fresh(request[c])
      /\ book.positions \in Positions /\ request[c].step = "positions"
  BY DEF IInv, Requests, TypeOK, LoadPositions
<1>2. UNCHANGED <<book, ledger, snapshots>> /\ request' = [request EXCEPT ![c] = r]
  BY <1>1 DEF LoadPositions, Request
<1>3. /\ r \in Request /\ r.step = "cash" /\ r.positions = book.positions
      /\ r.version = request[c].version /\ r.work = request[c].work
  BY <1>1 DEF Request
<1> HIDE DEF r
<1>4. Fresh(r)
  BY <1>1, <1>3 DEF Fresh
<1> QED
  BY <1>2, <1>3, <1>4, RequestStep

LEMMA LoadBalancesStep ==
    ASSUME PortfolioAssumption, IInv, NEW c \in Client, LoadBalances(c)
    PROVE  IInv'
<1> DEFINE step == IF request[c].work.kind = "snapshot" THEN "transactions" ELSE "write"
           r == [request[c] EXCEPT !.step = step, !.cash = book.cash]
<1>1. /\ request \in [Client -> Request] /\ request[c] \in Request /\ Fresh(request[c])
      /\ book.cash \in Balances /\ request[c].step = "cash"
      /\ step \in {"transactions", "write"}
  BY DEF IInv, Requests, TypeOK, LoadBalances
<1>2. UNCHANGED <<book, ledger, snapshots>> /\ request' = [request EXCEPT ![c] = r]
  BY <1>1 DEF LoadBalances, Request
<1> HIDE DEF step
<1>3. /\ r \in Request /\ r.step = step /\ r.cash = book.cash
      /\ r.positions = request[c].positions
      /\ r.version = request[c].version /\ r.work = request[c].work
  BY <1>1 DEF Request
<1> HIDE DEF r
<1>4. Fresh(r)
  BY <1>1, <1>3 DEF Fresh
<1> QED
  BY <1>2, <1>3, <1>4, RequestStep

LEMMA LoadTransactionsStep ==
    ASSUME PortfolioAssumption, IInv, NEW c \in Client, LoadTransactions(c)
    PROVE  IInv'
<1> DEFINE r == [request[c] EXCEPT !.step = "write", !.entries = ledger]
<1>1. /\ request \in [Client -> Request] /\ request[c] \in Request /\ Fresh(request[c])
      /\ ledger \in Seq(Transaction) /\ request[c].step = "transactions"
  BY DEF IInv, Requests, TypeOK, LoadTransactions
<1>2. UNCHANGED <<book, ledger, snapshots>> /\ request' = [request EXCEPT ![c] = r]
  BY <1>1 DEF LoadTransactions, Request
<1>3. /\ r \in Request /\ r.step = "write" /\ r.cash = request[c].cash
      /\ r.positions = request[c].positions
      /\ r.version = request[c].version /\ r.work = request[c].work
  BY <1>1 DEF Request
<1> HIDE DEF r
<1>4. Fresh(r)
  BY <1>1, <1>3 DEF Fresh
<1> QED
  BY <1>2, <1>3, <1>4, RequestStep

(* The version makes what every other request has read an old one. *)
LEMMA MutateStep ==
    ASSUME PortfolioAssumption, IInv, NEW c \in Client, NEW content, IsBook(content),
           Mutate(c, content), IsCurrent(c), request[c].step = "write",
           request[c].work.kind # "snapshot",
           ledger' \in Seq(Transaction), Len(ledger') <= Len(ledger) + 1
    PROVE  TypeOK' /\ Requests' /\ Snapshots'
<1>1. /\ request \in [Client -> Request] /\ \A d \in Client : Fresh(request[d])
      /\ book.version \in 1 .. MaxVersion /\ Len(ledger) < book.version
      /\ ledger \in Seq(Transaction)
  BY DEF IInv, Requests, TypeOK
<1>2. /\ book' = [version |-> book.version + 1, cash |-> content.cash,
                  positions |-> content.positions]
      /\ request' = [request EXCEPT ![c] = Idle] /\ snapshots' = snapshots
  BY DEF Mutate, Mutated, Reply
<1>3. /\ book'.version = book.version + 1
      /\ book'.cash \in Balances /\ book'.positions \in Positions
  BY <1>2 DEF IsBook
<1>4. Idle \in Request /\ Idle.step = "idle" /\ Idle.version = 0 /\ Idle.work.kind # "snapshot"
  BY IdleFacts
<1>5. book.version < MaxVersion
  BY <1>1 DEF Fresh, IsCurrent
<1>6. MaxVersion \in Nat /\ book.version \in Nat \ {0} /\ book'.version \in 1 .. MaxVersion
  BY <1>1, <1>3, <1>5 DEF PortfolioAssumption
<1>7. request' \in [Client -> Request]
  BY <1>1, <1>2, <1>4
<1>8. ASSUME NEW d \in Client PROVE Fresh(request[d])'
  <2>1. CASE d = c
    <3>1. request'[d] = Idle
      BY <1>1, <1>2, <2>1
    <3> QED
      BY <1>3, <1>4, <1>6, <3>1 DEF Fresh
  <2>2. CASE d # c
    <3>1. request'[d] = request[d] /\ Fresh(request[d])
      BY <1>1, <1>2, <2>2
    <3>2. request[d].version \in 0 .. MaxVersion
      BY <1>1 DEF Request
    <3> QED
      BY <1>3, <1>6, <3>1, <3>2 DEF Fresh
  <2> QED
    BY <2>1, <2>2
<1>9. ASSUME NEW d \in Client
      PROVE  /\ request'[d].step \in {"idle", "positions", "cash", "transactions", "write"}
             /\ request'[d].work \in Work \cup {NoWork}
             /\ request'[d].version \in 0 .. book'.version
  <2>1. request'[d] \in Request /\ request'[d].version <= book'.version
    BY <1>7, <1>8 DEF Fresh
  <2>2. request'[d].version \in 0 .. MaxVersion
    BY <2>1 DEF Request
  <2> QED
    BY <1>6, <2>1, <2>2 DEF Request
<1>10. Len(ledger') < book'.version
  <2>1. Len(ledger') \in Nat /\ Len(ledger) \in Nat
    BY <1>1, LenProperties
  <2> QED
    BY <1>1, <1>3, <1>6, <2>1
<1>11. TypeOK'
  BY <1>2, <1>3, <1>6, <1>9, <1>10 DEF IInv, TypeOK
<1>12. Snapshots'
  <2>1. Len(snapshots) \in Nat /\ MaxSnapshots \in Nat
    BY LenProperties DEF IInv, Snapshots, PortfolioAssumption
  <2>2. /\ Snapshotting \in Nat /\ Snapshotting' \in Nat /\ Snapshotting' <= Snapshotting
    BY <1>1, <1>2, <1>4, CountFacts
  <2>3. Len(snapshots) + Snapshotting <= MaxSnapshots /\ \E S : snapshots \in Seq(S)
    BY DEF IInv, Snapshots
  <2>4. Len(snapshots) + Snapshotting' <= MaxSnapshots
    BY <2>1, <2>2, <2>3
  <2> QED
    BY <1>2, <2>3, <2>4 DEF Snapshots
<1> QED
  BY <1>7, <1>8, <1>11, <1>12 DEF Requests

(* What a request that may write has read is what the portfolio holds. *)
LEMMA CurrentFacts ==
    ASSUME IInv, NEW c \in Client, request[c].step = "write", IsCurrent(c)
    PROVE  request[c].cash = book.cash /\ request[c].positions = book.positions /\ IsBook(book)
BY DEF IInv, Requests, Fresh, IsCurrent, TypeOK, IsBook

LEMMA RecordTransactionStep ==
    ASSUME PortfolioAssumption, IInv, NEW c \in Client, RecordTransaction(c)
    PROVE  IInv'
<1> DEFINE t == request[c].work.transaction
           r == request[c]
<1>1. CASE Refuse(c)
  BY <1>1, ReplyStep
<1>2. CASE /\ ~Refused(t, r) /\ IsCurrent(c) /\ Mutate(c, After(t, r))
           /\ ledger' = Append(ledger, Entry(t, r))
  <2>1. /\ r.step = "write" /\ r.work.kind = "transaction" /\ r.work \in Work \cup {NoWork}
    BY DEF RecordTransaction, IInv, TypeOK
  <2>2. t \in Payload
    BY <2>1, WorkFacts
  <2>3. r.cash = book.cash /\ r.positions = book.positions /\ IsBook(book)
    BY <1>2, <2>1, CurrentFacts
  <2> HIDE DEF r, t
  <2>4. /\ ~Refused(t, book) /\ After(t, r) = After(t, book)
        /\ Entry(t, r) = Entry(t, book)
    BY <1>2, <2>2, <2>3, SameContent
  <2>5. IsBook(After(t, book))
    BY <2>2, <2>3, <2>4, TransactionEffect
  <2>6. /\ book'.cash = After(t, book).cash /\ book'.positions = After(t, book).positions
        /\ ledger' = Append(ledger, Entry(t, book))
    BY <1>2, <2>4 DEF Mutate, Mutated
  <2>7. /\ ledger \in Seq(Transaction) /\ LedgerAddsUp /\ CostIsAccounted
    BY DEF IInv, TypeOK
  <2>8. /\ ledger' \in Seq(Transaction) /\ Len(ledger') = Len(ledger) + 1
        /\ LedgerAddsUp' /\ CostIsAccounted'
    BY <2>2, <2>3, <2>4, <2>6, <2>7, LedgerStep
  <2>9. Len(ledger') <= Len(ledger) + 1
    BY <2>7, <2>8, LenProperties
  <2>10. r.work.kind # "snapshot" /\ Mutate(c, After(t, book))
    BY <1>2, <2>1, <2>4
  <2>11. TypeOK' /\ Requests' /\ Snapshots'
    BY <1>2, <2>1, <2>5, <2>8, <2>9, <2>10, MutateStep DEF r
  <2> QED
    BY <2>8, <2>11 DEF IInv
<1> QED
  BY <1>1, <1>2 DEF RecordTransaction

LEMMA UpdatePositionPriceStep ==
    ASSUME PortfolioAssumption, IInv, NEW c \in Client, UpdatePositionPrice(c)
    PROVE  IInv'
<1> DEFINE r == request[c]
           s == r.work.symbol
           p == r.work.price
<1>1. CASE Refuse(c)
  BY <1>1, ReplyStep
<1>2. CASE /\ s \in DOMAIN r.positions /\ IsCurrent(c) /\ Mutate(c, Repriced(r, s, p))
           /\ UNCHANGED ledger
  <2>1. /\ r.step = "write" /\ r.work.kind = "price" /\ r.work \in Work \cup {NoWork}
    BY DEF UpdatePositionPrice, IInv, TypeOK
  <2>2. p \in Price
    BY <2>1, WorkFacts
  <2>3. r.cash = book.cash /\ r.positions = book.positions /\ IsBook(book)
    BY <1>2, <2>1, CurrentFacts
  <2> DEFINE new == Repriced(book, s, p)
  <2>4. Repriced(r, s, p) = new
    BY <2>3 DEF Repriced
  <2> HIDE DEF r, s, p
  <2>5. /\ IsBook(new) /\ new.cash = book.cash
        /\ \A x : Held(new, x) = Held(book, x) /\ CostBasis(new, x) = CostBasis(book, x)
    BY <1>2, <2>2, <2>3, RepriceEffect
  <2> HIDE DEF new
  <2>6. book'.cash = new.cash /\ book'.positions = new.positions /\ ledger' = ledger
    BY <1>2, <2>4 DEF Mutate, Mutated
  <2>7. LedgerAddsUp' /\ CostIsAccounted'
    <3>1. \A x : Held(book', x) = Held(book, x) /\ CostBasis(book', x) = CostBasis(book, x)
      BY <2>5, <2>6 DEF Held, CostBasis
    <3>2. \A x : Cash(book', x) = Cash(book, x)
      BY <2>5, <2>6 DEF Cash
    <3>3. \A x : /\ CashFlows(x)' = CashFlows(x) /\ QuantityFlows(x)' = QuantityFlows(x)
                 /\ CostFlows(x)' = CostFlows(x) /\ Averaged(x)' = Averaged(x)
      BY <2>6 DEF CashFlows, QuantityFlows, CostFlows, Averaged
    <3> QED
      BY <2>6, <3>1, <3>2, <3>3 DEF IInv, LedgerAddsUp, CostIsAccounted
  <2>8. ledger' \in Seq(Transaction) /\ Len(ledger') <= Len(ledger) + 1
    <3>1. ledger \in Seq(Transaction)
      BY DEF IInv, TypeOK
    <3> QED
      BY <2>6, <3>1, LenProperties
  <2>9. r.work.kind # "snapshot" /\ Mutate(c, new)
    BY <1>2, <2>1, <2>4
  <2>10. TypeOK' /\ Requests' /\ Snapshots'
    BY <1>2, <2>1, <2>5, <2>8, <2>9, MutateStep DEF r
  <2> QED
    BY <2>7, <2>10 DEF IInv
<1> QED
  BY <1>1, <1>2 DEF UpdatePositionPrice

LEMMA CreateSnapshotStep ==
    ASSUME PortfolioAssumption, IInv, NEW c \in Client, CreateSnapshot(c)
    PROVE  IInv'
<1> DEFINE v == Valuation(request[c].cash, request[c].positions, request[c].entries)
<1>1. /\ request \in [Client -> Request] /\ \A d \in Client : Fresh(request[d])
      /\ Len(snapshots) + Snapshotting <= MaxSnapshots
      /\ book.version \in 1 .. MaxVersion
  BY DEF IInv, Requests, Snapshots, TypeOK
<1>2. /\ UNCHANGED <<book, ledger>> /\ request' = [request EXCEPT ![c] = Idle]
      /\ snapshots' = Append(snapshots, v) /\ request[c].work.kind = "snapshot"
  BY DEF CreateSnapshot, Reply
<1> HIDE DEF v
<1>3. Idle \in Request /\ Idle.step = "idle" /\ Idle.version = 0 /\ Idle.work.kind # "snapshot"
  BY IdleFacts
<1>4. Requests'
  <2>1. request' \in [Client -> Request]
    BY <1>1, <1>2, <1>3
  <2>2. ASSUME NEW d \in Client PROVE Fresh(request[d])'
    <3>1. request'[d] = Idle \/ request'[d] = request[d]
      BY <1>1, <1>2
    <3> QED
      BY <1>1, <1>2, <1>3, <3>1 DEF Fresh
  <2> QED
    BY <2>1, <2>2 DEF Requests
<1>5. (\E S : snapshots' \in Seq(S)) /\ Len(snapshots) \in Nat
      /\ Len(snapshots') = Len(snapshots) + 1
  <2>1. PICK S : snapshots \in Seq(S)
    BY DEF IInv, Snapshots
  <2>2. snapshots \in Seq(S \cup {v}) /\ v \in S \cup {v}
    <3>1. snapshots \in [1..Len(snapshots) -> S] /\ Len(snapshots) \in Nat
      BY <2>1, LenProperties
    <3>2. snapshots \in [1..Len(snapshots) -> S \cup {v}]
      BY <3>1
    <3> QED
      BY <3>1, <3>2, SeqDef
  <2> QED
    BY <1>2, <2>2, AppendProperties, LenProperties
<1>6. Snapshots' /\ Len(snapshots') <= MaxSnapshots
  <2>1. /\ Snapshotting \in Nat /\ Snapshotting' \in Nat
        /\ Snapshotting' = Snapshotting - 1
    BY <1>1, <1>2, <1>3, CountFacts
  <2>2. MaxSnapshots \in Nat
    BY DEF PortfolioAssumption
  <2>3. /\ Len(snapshots') + Snapshotting' <= MaxSnapshots
        /\ Len(snapshots') <= MaxSnapshots
    BY <1>1, <1>5, <2>1, <2>2
  <2> QED
    BY <1>5, <2>3 DEF Snapshots
<1>7. TypeOK'
  <2>1. ASSUME NEW d \in Client
        PROVE  /\ request'[d].step \in {"idle", "positions", "cash", "transactions", "write"}
               /\ request'[d].work \in Work \cup {NoWork}
               /\ request'[d].version \in 0 .. book'.version
    <3>1. request'[d] \in Request /\ request'[d].version <= book'.version
      BY <1>4 DEF Requests, Fresh
    <3>2. request'[d].version \in 0 .. MaxVersion
      BY <3>1 DEF Request
    <3> QED
      BY <1>1, <1>2, <3>1, <3>2 DEF Request
  <2> QED
    BY <1>2, <1>6, <2>1 DEF IInv, TypeOK
<1>8. LedgerAddsUp' /\ CostIsAccounted'
  BY <1>2, SameBooks
<1> QED
  BY <1>4, <1>6, <1>7, <1>8 DEF IInv

LEMMA Initially ==
    ASSUME PortfolioAssumption, Init
    PROVE  IInv
<1>1. /\ book = NewBook /\ ledger = <<>> /\ snapshots = <<>>
      /\ request = [c \in Client |-> Idle]
  BY DEF Init
<1>2. book.version = 1 /\ book.cash = <<>> /\ book.positions = <<>>
  BY <1>1 DEF NewBook
<1>3. MaxVersion \in Nat \ {0} /\ MaxSnapshots \in Nat
  BY DEF PortfolioAssumption
<1>4. ledger \in Seq(Transaction) /\ Len(ledger) = 0 /\ DOMAIN ledger = 1..0
      /\ snapshots \in Seq({}) /\ Len(snapshots) = 0
  BY <1>1, EmptySeq
<1>5. Idle \in Request /\ Idle.step = "idle" /\ Idle.version = 0 /\ Idle.work.kind = "none"
  BY IdleFacts
<1>6. TypeOK
  BY <1>1, <1>2, <1>3, <1>4, <1>5, EmptyFacts DEF TypeOK, Request
<1>7. Requests
  BY <1>1, <1>2, <1>3, <1>5 DEF Requests, Fresh
<1>8. Snapshots
  <2>1. {c \in Client : request[c].work.kind = "snapshot"} = {}
    BY <1>1, <1>5
  <2>2. Snapshotting = 0
    BY <2>1, FS_EmptySet DEF Snapshotting
  <2> QED
    BY <1>3, <1>4, <2>2 DEF Snapshots
<1>9. \A g \in [1..0 -> Int] : Sums(g)[0] = 0
  BY SumsFacts
<1>10. ASSUME NEW x
       PROVE  /\ CashFlows(x) \in [1..0 -> Int] /\ QuantityFlows(x) \in [1..0 -> Int]
              /\ CostFlows(x) \in [1..0 -> Int] /\ Averaged(x) \in [1..0 -> Int]
              /\ Cash(book, x) = 0 /\ Held(book, x) = 0 /\ CostBasis(book, x) = 0
  <2>1. DOMAIN book.cash = {} /\ DOMAIN book.positions = {}
    BY <1>2
  <2> QED
    BY <1>4, <2>1 DEF CashFlows, QuantityFlows, CostFlows, Averaged, Cash, Held, CostBasis
<1>11. LedgerAddsUp
  BY <1>4, <1>9, <1>10 DEF LedgerAddsUp
<1>12. CostIsAccounted
  <2>1. Abs(0 - 0) = 0
    BY DEF Abs
  <2> QED
    BY <1>4, <1>9, <1>10, <2>1 DEF CostIsAccounted
<1> QED
  BY <1>6, <1>7, <1>8, <1>11, <1>12 DEF IInv

LEMMA StepInvariant ==
    ASSUME PortfolioAssumption, IInv, [Next]_vars
    PROVE  IInv'
<1>1. CASE UNCHANGED vars
  <2>1. UNCHANGED <<book, ledger, snapshots, request>>
    BY <1>1 DEF vars
  <2>2. TypeOK' /\ Requests'
    BY <2>1 DEF IInv, TypeOK, Requests, Fresh
  <2>3. Snapshots'
    BY <2>1 DEF IInv, Snapshots, Snapshotting
  <2>4. LedgerAddsUp' /\ CostIsAccounted'
    BY <2>1, SameBooks
  <2> QED
    BY <2>2, <2>3, <2>4 DEF IInv
<1>2. ASSUME NEW c \in Client, Handle(c) PROVE IInv'
  BY <1>2, LoadPortfolioStep, LoadPositionsStep, LoadBalancesStep, LoadTransactionsStep,
     RecordTransactionStep, UpdatePositionPriceStep, CreateSnapshotStep DEF Handle
<1> QED
  BY <1>1, <1>2 DEF Next

LEMMA Invariance == ASSUME PortfolioAssumption PROVE Spec => []IInv
BY Initially, StepInvariant, PTL DEF Spec

-----------------------------------------------------------------------------
(* The portfolio, its ledger and the requests are what they are declared   *)
(* to be: no version is skipped, no stored value leaves its range.         *)
THEOREM TypeCorrect == ASSUME PortfolioAssumption PROVE Spec => []TypeOK
<1>1. IInv => TypeOK
  BY DEF IInv
<1> QED
  BY <1>1, Invariance, PTL

(* Every balance and every position is the sum of the transactions that    *)
(* were recorded, however the requests of clients overlapped, and the cost *)
(* of a position is what was paid less the cost of what was sold, but for  *)
(* half a quantum per unit of each average (portfolio_services.py,         *)
(* record_transaction).                                                    *)
THEOREM BooksAlways == ASSUME PortfolioAssumption PROVE Spec => []BooksAddUp
<1>1. IInv => BooksAddUp
  BY DEF IInv, BooksAddUp
<1> QED
  BY <1>1, Invariance, PTL

-----------------------------------------------------------------------------
(* The atomic record.                                                      *)

LEMMA MutateMaps ==
    ASSUME NEW c \in Client, NEW new, new = Content(new), Mutate(c, new),
           Changes(Content(book), new)
    PROVE  Atomic!Change
<1>1. book'.version = book.version + 1 /\ Content(book') = new
  BY DEF Mutate, Mutated, Content
<1> QED
  BY <1>1 DEF Atomic!Change

LEMMA TransactionMaps ==
    ASSUME PortfolioAssumption, IInv, NEW c \in Client, RecordTransaction(c),
           request[c].work.transaction \in Payload,
           ~Refused(request[c].work.transaction, request[c]), IsCurrent(c),
           Mutate(c, After(request[c].work.transaction, request[c]))
    PROVE  Atomic!Change
<1> DEFINE t == request[c].work.transaction
           r == request[c]
           old == Content(book)
           new == After(t, old)
<1>1. r.cash = old.cash /\ r.positions = old.positions
  BY CurrentFacts DEF RecordTransaction, Content
<1>2. t \in Payload /\ ~Refused(t, r)
  OBVIOUS
<1> HIDE DEF t, r, old
<1>3. ~Refused(t, old) /\ After(t, r) = new
  BY <1>1, <1>2, SameContent
<1>4. Changes(old, new)
  BY <1>2, <1>3 DEF Changes
<1>5. new = Content(new)
  BY DEF After, Content
<1>6. Mutate(c, new)
  BY <1>3 DEF t, r
<1> HIDE DEF new
<1> QED
  BY <1>4, <1>5, <1>6, MutateMaps DEF old

LEMMA PriceMaps ==
    ASSUME PortfolioAssumption, IInv, NEW c \in Client, UpdatePositionPrice(c),
           request[c].work.price \in Price,
           request[c].work.symbol \in DOMAIN request[c].positions, IsCurrent(c),
           Mutate(c, Repriced(request[c], request[c].work.symbol, request[c].work.price))
    PROVE  Atomic!Change
<1> DEFINE s == request[c].work.symbol
           p == request[c].work.price
           r == request[c]
           old == Content(book)
           new == Repriced(old, s, p)
<1>1. r.cash = old.cash /\ r.positions = old.positions
  BY CurrentFacts DEF UpdatePositionPrice, Content
<1>2. p \in Price /\ s \in DOMAIN old.positions
  BY <1>1
<1> HIDE DEF s, p, r, old
<1>3. Repriced(r, s, p) = new
  BY <1>1 DEF Repriced
<1>4. Changes(old, new)
  BY <1>2 DEF Changes
<1>5. new = Content(new)
  BY DEF Repriced, Content
<1>6. Mutate(c, new)
  BY <1>3 DEF s, p, r
<1> HIDE DEF new
<1> QED
  BY <1>4, <1>5, <1>6, MutateMaps DEF old

LEMMA StepMaps ==
    ASSUME PortfolioAssumption, IInv, NEW c \in Client, Handle(c)
    PROVE  book' = book \/ Atomic!Change
<1>1. CASE UNCHANGED book
  BY <1>1
<1>2. CASE RecordTransaction(c)
  <2>1. request[c].work.transaction \in Payload
    BY <1>2, WorkFacts DEF RecordTransaction, IInv, TypeOK
  <2>2. \/ Refuse(c)
        \/ /\ ~Refused(request[c].work.transaction, request[c]) /\ IsCurrent(c)
           /\ Mutate(c, After(request[c].work.transaction, request[c]))
    BY <1>2 DEF RecordTransaction
  <2> QED
    BY <1>2, <2>1, <2>2, TransactionMaps DEF Refuse
<1>3. CASE UpdatePositionPrice(c)
  <2>1. request[c].work.price \in Price
    BY <1>3, WorkFacts DEF UpdatePositionPrice, IInv, TypeOK
  <2>2. \/ Refuse(c)
        \/ /\ request[c].work.symbol \in DOMAIN request[c].positions /\ IsCurrent(c)
           /\ Mutate(c, Repriced(request[c], request[c].work.symbol, request[c].work.price))
    BY <1>3 DEF UpdatePositionPrice
  <2> QED
    BY <1>3, <2>1, <2>2, PriceMaps DEF Refuse
<1> QED
  BY <1>1, <1>2, <1>3
     DEF Handle, LoadPortfolio, LoadPositions, LoadBalances, LoadTransactions, CreateSnapshot

(* A portfolio changes as if each request that succeeds had read and       *)
(* written it in one step: the version in the UPDATE refuses a stale one   *)
(* (portfolio_models.py, version_id_col).                                  *)
THEOREM AtomicImplemented == ASSUME PortfolioAssumption PROVE Spec => ImplementsAtomicRecord
<1>1. Init => Atomic!Init
  BY DEF Init, Atomic!Init, NewBook
<1>2. IInv /\ [Next]_vars => [Atomic!Change]_(Atomic!vars)
  <2> SUFFICES ASSUME IInv, [Next]_vars PROVE [Atomic!Change]_(Atomic!vars)
    OBVIOUS
  <2>1. CASE book' = book
    BY <2>1 DEF Atomic!vars, Content
  <2>2. ASSUME NEW c \in Client, Handle(c) PROVE book' = book \/ Atomic!Change
    BY <2>2, StepMaps
  <2> QED
    BY <2>1, <2>2 DEF Next, vars
<1> QED
  BY <1>1, <1>2, Invariance, PTL DEF Spec, ImplementsAtomicRecord, Atomic!Spec
=============================================================================
