------------------------------ MODULE Portfolio ------------------------------
(***************************************************************************)
(* One portfolio: cash balances and positions, driven by transactions that *)
(* several clients record at once, price updates and snapshots.            *)
(*                                                                         *)
(* Source: portfolio_services.py, portfolio_models.py, integrity.py.       *)
(*                                                                         *)
(* get_portfolio is one SELECT for the row and one for each collection;    *)
(* the service runs them in autocommit (SQLite) or READ COMMITTED          *)
(* (PostgreSQL), so that another client may commit between two of them:    *)
(* each is a step.  The flush of a request and its commit are one step.    *)
(*                                                                         *)
(* Money and quantities are integers: one unit is the quantum to which     *)
(* _money and _quantity round.  Names, notes and times are left out; the   *)
(* allocations of a summary too.                                           *)
(***************************************************************************)
EXTENDS Integers, Sequences, FiniteSetsExt  \* MapThenSumSet

CONSTANTS
    Client,        \* requests that may be in flight together
    Symbol, Currency,
    Base,          \* base_currency
    Price,         \* prices of trades and price updates
    Payload,       \* transactions that clients may ask for
    MaxMoney, MaxQuantity,     \* MAX_MONEY and MAX_QUANTITY
    MaxVersion,    \* bound on the mutations
    MaxSnapshots   \* bound on the snapshots

Incoming == {"deposit", "dividend", "interest"}
Outgoing == {"withdrawal", "fee"}

(* TransactionCreate: the payloads that the schema lets through. *)
Trade ==
    [type : {"buy", "sell"}, symbol : Symbol, quantity : 1 .. MaxQuantity, price : Price]
CashMove ==
    [type : Incoming \cup Outgoing, currency : Currency, amount : 1 .. MaxMoney]

(* MCServices assumes it of its instance. *)
PortfolioAssumption ==
    /\ IsFiniteSet(Client)
    /\ Base \in Currency
    /\ MaxMoney \in Nat /\ MaxQuantity \in Nat
    /\ Price \subseteq 1 .. MaxMoney
    /\ Payload \subseteq Trade \cup CashMove
    /\ MaxVersion \in Nat \ {0} /\ MaxSnapshots \in Nat

VARIABLES
    book,       \* rows of portfolios, portfolio_positions and cash_balances
    ledger,     \* rows of portfolio_transactions
    snapshots,  \* rows of portfolio_snapshots
    request     \* [Client -> request in progress]

vars == <<book, ledger, snapshots, request>>

-----------------------------------------------------------------------------
Position == [quantity : 1 .. MaxQuantity, average : 0 .. MaxMoney, price : Price,
             realized : -MaxMoney .. MaxMoney]

(* A currency or a symbol without a row is outside the domain. *)
Balances == UNION {[S -> 0 .. MaxMoney] : S \in SUBSET Currency}
Positions == UNION {[S -> Position] : S \in SUBSET Symbol}

(* Quantity and symbol are NULL unless it is a trade: 0 and "" here. *)
Transaction ==
    [type : {"buy", "sell"} \cup Incoming \cup Outgoing, currency : Currency,
     symbol : Symbol \cup {""}, quantity : 0 .. MaxQuantity,
     amount : 1 .. MaxMoney, realized : -MaxMoney .. MaxMoney]

NewBook == [version |-> 1, cash |-> <<>>, positions |-> <<>>]

Content(b) == [cash |-> b.cash, positions |-> b.positions]

(* The functions without the key, and with the key set. *)
Without(f, k) == [x \in DOMAIN f \ {k} |-> f[x]]
With(f, k, v) == [x \in DOMAIN f \cup {k} |-> IF x = k THEN v ELSE f[x]]

Abs(n) == IF n < 0 THEN -n ELSE n

(* ROUND_HALF_EVEN of n / d, of a natural n. *)
HalfEven(n, d) ==
    LET q == n \div d
        r == n % d
    IN  IF 2 * r > d \/ (2 * r = d /\ q % 2 = 1) THEN q + 1 ELSE q

-----------------------------------------------------------------------------
(* What a transaction makes of a book that a client has read. *)
Cash(b, c) == IF c \in DOMAIN b.cash THEN b.cash[c] ELSE 0

CashAfter(t, b) ==
    CASE t.type = "buy"  -> Cash(b, Base) - t.quantity * t.price
      [] t.type = "sell" -> Cash(b, Base) + t.quantity * t.price
      [] t.type \in Incoming -> Cash(b, t.currency) + t.amount
      [] t.type \in Outgoing -> Cash(b, t.currency) - t.amount

CurrencyOf(t) == IF t.type \in {"buy", "sell"} THEN Base ELSE t.currency

Bought(t, b) ==
    IF t.symbol \notin DOMAIN b.positions
    THEN [quantity |-> t.quantity, average |-> t.price, price |-> t.price, realized |-> 0]
    ELSE LET held == b.positions[t.symbol]
             total == held.quantity + t.quantity
         IN  [held EXCEPT
                !.quantity = total,
                !.average = HalfEven(held.quantity * held.average + t.quantity * t.price, total)]

Realized(t, b) ==
    CASE t.type = "sell" -> (t.price - b.positions[t.symbol].average) * t.quantity
      [] t.type = "fee" -> IF t.currency = Base THEN -t.amount ELSE 0
      [] OTHER -> 0

Sold(t, b) ==
    LET held == b.positions[t.symbol] IN
    [held EXCEPT !.quantity = @ - t.quantity, !.realized = @ + Realized(t, b)]

PositionsAfter(t, b) ==
    CASE t.type = "buy" -> With(b.positions, t.symbol, Bought(t, b))
      [] t.type = "sell" /\ b.positions[t.symbol].quantity = t.quantity ->
            Without(b.positions, t.symbol)
      [] t.type = "sell" /\ b.positions[t.symbol].quantity # t.quantity ->
            With(b.positions, t.symbol, Sold(t, b))
      [] OTHER -> b.positions

(* What a sell is refused for before anything is computed. *)
NotOwned(t, b) ==
    /\ t.type = "sell"
    /\ \/ t.symbol \notin DOMAIN b.positions
       \/ t.quantity > b.positions[t.symbol].quantity

(* Insufficient funds, and results that exceed the storage range. *)
OutOfRange(t, b) ==
    \/ CashAfter(t, b) \notin 0 .. MaxMoney
    \/ t.type \in {"buy", "sell"} /\ t.quantity * t.price > MaxMoney
    \/ /\ t.type = "buy" /\ t.symbol \in DOMAIN b.positions
       /\ b.positions[t.symbol].quantity + t.quantity > MaxQuantity
    \/ t.type = "sell" /\ Abs(Realized(t, b)) > MaxMoney
    \/ /\ t.type = "sell" /\ b.positions[t.symbol].quantity # t.quantity
       /\ Abs(Sold(t, b).realized) > MaxMoney

Refused(t, b) == ~NotOwned(t, b) => OutOfRange(t, b)

After(t, b) ==
    [cash |-> With(b.cash, CurrencyOf(t), CashAfter(t, b)),
     positions |-> PositionsAfter(t, b)]

Repriced(b, s, p) ==
    [cash |-> b.cash, positions |-> [b.positions EXCEPT ![s].price = p]]

-----------------------------------------------------------------------------
(* portfolio_summary, of the rows that a client has read. *)
Sum(f(_), S) == MapThenSumSet(f, S)

Valuation(cash, positions, entries) ==
    LET value(s) == positions[s].quantity * positions[s].price
        cost(s)  == positions[s].quantity * positions[s].average
        gain(i)  == entries[i].realized
    IN  [position_value |-> Sum(value, DOMAIN positions),
         base_cash |-> IF Base \in DOMAIN cash THEN cash[Base] ELSE 0,
         total_cost_basis |-> Sum(cost, DOMAIN positions),
         realized |-> Sum(gain, DOMAIN entries)]

-----------------------------------------------------------------------------
Work == [kind : {"transaction"}, transaction : Payload]
        \cup [kind : {"price"}, symbol : Symbol, price : Price]
        \cup [kind : {"snapshot"}]

NoWork == [kind |-> "none"]

Idle == [step |-> "idle", work |-> NoWork, version |-> 0,
         positions |-> <<>>, cash |-> <<>>, entries |-> <<>>]

TypeOK ==
    /\ book.version \in 1 .. MaxVersion
    /\ book.cash \in Balances /\ book.positions \in Positions
    /\ ledger \in Seq(Transaction) /\ Len(ledger) < book.version
    /\ Len(snapshots) <= MaxSnapshots
    /\ \A c \in Client :
         /\ request[c].step \in {"idle", "positions", "cash", "transactions", "write"}
         /\ request[c].work \in Work \cup {NoWork}
         /\ request[c].version \in 0 .. book.version

(* create_portfolio has committed: no position, no balance. *)
Init ==
    /\ book = NewBook
    /\ ledger = <<>> /\ snapshots = <<>>
    /\ request = [c \in Client |-> Idle]

-----------------------------------------------------------------------------
Snapshotting == Cardinality({c \in Client : request[c].work.kind = "snapshot"})

(* get_portfolio: the row, then the collections in their order. *)
LoadPortfolio(c) ==
    /\ request[c].step = "idle"
    /\ book.version < MaxVersion
    /\ \E work \in Work :
         /\ work.kind = "snapshot" => Len(snapshots) + Snapshotting < MaxSnapshots
         /\ request' = [request EXCEPT ![c] =
                [Idle EXCEPT !.step = "positions", !.work = work, !.version = book.version]]
    /\ UNCHANGED <<book, ledger, snapshots>>

LoadPositions(c) ==
    /\ request[c].step = "positions"
    /\ request' = [request EXCEPT ![c].step = "cash", ![c].positions = book.positions]
    /\ UNCHANGED <<book, ledger, snapshots>>

LoadBalances(c) ==
    /\ request[c].step = "cash"
    /\ request' = [request EXCEPT
         ![c].step = IF request[c].work.kind = "snapshot" THEN "transactions" ELSE "write",
         ![c].cash = book.cash]
    /\ UNCHANGED <<book, ledger, snapshots>>

(* Every request loads the transactions too; only a summary uses them. *)
LoadTransactions(c) ==
    /\ request[c].step = "transactions"
    /\ request' = [request EXCEPT ![c].step = "write", ![c].entries = ledger]
    /\ UNCHANGED <<book, ledger, snapshots>>

Reply(c) == request' = [request EXCEPT ![c] = Idle]

(* A refusal (404, 409 or 422) rolls back: nothing is written. *)
Refuse(c) ==
    /\ Reply(c)
    /\ UNCHANGED <<book, ledger, snapshots>>

(* Mutant: the UPDATE of portfolios without its version. *)
AnyVersion(c) == TRUE

(* The UPDATE matches a row only if the version is still the one read. *)
IsCurrent(c) == book.version = request[c].version

(* Mutant: a mutation that is not counted. *)
Uncounted(content) ==
    [version |-> book.version, cash |-> content.cash, positions |-> content.positions]

Mutated(content) ==
    [version |-> book.version + 1, cash |-> content.cash, positions |-> content.positions]

Mutate(c, content) ==
    /\ book' = Mutated(content)
    /\ Reply(c)
    /\ UNCHANGED snapshots

Entry(t, b) ==
    [type |-> t.type, currency |-> CurrencyOf(t), realized |-> Realized(t, b),
     symbol |-> IF t.type \in {"buy", "sell"} THEN t.symbol ELSE "",
     quantity |-> IF t.type \in {"buy", "sell"} THEN t.quantity ELSE 0,
     amount |-> IF t.type \in {"buy", "sell"} THEN t.quantity * t.price ELSE t.amount]

(* record_transaction, once the portfolio is loaded. *)
RecordTransaction(c) ==
    /\ request[c].step = "write" /\ request[c].work.kind = "transaction"
    /\ LET t == request[c].work.transaction IN
         \/ Refused(t, request[c]) /\ Refuse(c)
         \/ ~Refused(t, request[c]) /\ ~IsCurrent(c) /\ Refuse(c)
         \/ /\ ~Refused(t, request[c]) /\ IsCurrent(c)
            /\ Mutate(c, After(t, request[c]))
            /\ ledger' = Append(ledger, Entry(t, request[c]))

(* update_position_price, once the portfolio is loaded. *)
UpdatePositionPrice(c) ==
    /\ request[c].step = "write" /\ request[c].work.kind = "price"
    /\ LET work == request[c].work
           held == work.symbol \in DOMAIN request[c].positions
       IN  \/ ~held /\ Refuse(c)
           \/ held /\ ~IsCurrent(c) /\ Refuse(c)
           \/ /\ held /\ IsCurrent(c)
              /\ Mutate(c, Repriced(request[c], work.symbol, work.price))
              /\ UNCHANGED ledger

(* create_snapshot: the summary of what was loaded, without a check. *)
CreateSnapshot(c) ==
    /\ request[c].step = "write" /\ request[c].work.kind = "snapshot"
    /\ snapshots' = Append(snapshots,
         Valuation(request[c].cash, request[c].positions, request[c].entries))
    /\ Reply(c)
    /\ UNCHANGED <<book, ledger>>

Handle(c) ==
    \/ LoadPortfolio(c) \/ LoadPositions(c) \/ LoadBalances(c) \/ LoadTransactions(c)
    \/ RecordTransaction(c) \/ UpdatePositionPrice(c) \/ CreateSnapshot(c)

Next == \E c \in Client : Handle(c)

Spec == Init /\ [][Next]_vars

-----------------------------------------------------------------------------
(* The sums of the first elements of a sequence of numbers, from none to   *)
(* all of them.                                                            *)
Sums(g) ==
    LET sum[n \in 0 .. Len(g)] == IF n = 0 THEN 0 ELSE sum[n - 1] + g[n]
    IN  sum

(* What a transaction adds to a balance, to what is held of a symbol, and  *)
(* to its cost; a sale takes its proceeds less its gain.                   *)
CashFlow(entry, c) ==
    IF entry.currency # c THEN 0
    ELSE IF entry.type \in Incoming \cup {"sell"} THEN entry.amount
    ELSE -entry.amount

IsTrade(entry, type, s) == entry.type = type /\ entry.symbol = s

QuantityFlow(entry, s) ==
    IF IsTrade(entry, "buy", s) THEN entry.quantity
    ELSE IF IsTrade(entry, "sell", s) THEN -entry.quantity
    ELSE 0

CostFlow(entry, s) ==
    IF IsTrade(entry, "buy", s) THEN entry.amount
    ELSE IF IsTrade(entry, "sell", s) THEN entry.realized - entry.amount
    ELSE 0

CashFlows(c) == [i \in DOMAIN ledger |-> CashFlow(ledger[i], c)]
QuantityFlows(s) == [i \in DOMAIN ledger |-> QuantityFlow(ledger[i], s)]
CostFlows(s) == [i \in DOMAIN ledger |-> CostFlow(ledger[i], s)]

(* The units over which a buy averages their cost. *)
Averaged(s) ==
    LET held == Sums(QuantityFlows(s))
    IN  [i \in DOMAIN ledger |->
            IF IsTrade(ledger[i], "buy", s) /\ held[i - 1] > 0 THEN held[i] ELSE 0]

Held(b, s) == IF s \in DOMAIN b.positions THEN b.positions[s].quantity ELSE 0

CostBasis(b, s) ==
    IF s \in DOMAIN b.positions
    THEN b.positions[s].quantity * b.positions[s].average ELSE 0

(* README.md:264: no transaction is committed without its matching cash    *)
(* and position changes.  Whatever clients overlapped, every balance and   *)
(* every position is the sum of the transactions that were recorded, and   *)
(* none is overdrawn: no update was lost, none applied twice.              *)
LedgerAddsUp ==
    /\ \A c \in Currency : Cash(book, c) = Sums(CashFlows(c))[Len(ledger)]
    /\ \A s \in Symbol : Held(book, s) = Sums(QuantityFlows(s))[Len(ledger)]

(* The books balance up to rounding: the cost basis of what is held of a   *)
(* symbol is what was paid for it less the cost of what was sold, but for  *)
(* half a quantum per unit then held for each buy that averaged.           *)
CostIsAccounted ==
    \A s \in Symbol :
      2 * Abs(CostBasis(book, s) - Sums(CostFlows(s))[Len(ledger)])
          <= Sums(Averaged(s))[Len(ledger)]

(* Both: no money and no holding without the transactions it came from.    *)
BooksAddUp == LedgerAddsUp /\ CostIsAccounted

(* What one request may make of a book. *)
Changes(old, new) ==
    \/ \E t \in Payload : ~Refused(t, old) /\ new = After(t, old)
    \/ \E s \in DOMAIN old.positions, p \in Price : new = Repriced(old, s, p)

Atomic == INSTANCE AtomicRecord WITH
    Initial <- Content(NewBook), Changes <- Changes,
    content <- Content(book), version <- book.version

(* Overlapping requests change a portfolio as if each had read and written *)
(* it in one step: a stale one is refused by the version of its UPDATE.    *)
ImplementsAtomicRecord == Atomic!Spec
=============================================================================
