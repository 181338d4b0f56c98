------------------------------ MODULE MCServices ------------------------------
(***************************************************************************)
(* The services side by side, for TLC.  Decision is extended, the others   *)
(* are instances.  They share no row, so that no interleaving of theirs    *)
(* matters: a behaviour moves one part and leaves the others as they were. *)
(*                                                                         *)
(* An instance of a module that has theorems is one of its theorem module, *)
(* which adds nothing but the theorems: Services_proofs cites them.        *)
(***************************************************************************)
EXTENDS Decision, Integers, TLC

CONSTANTS
    c1, c2, usd, eur, acme, s1, s2, low, high,
    Open, MaxInvestors, MaxJournals  \* Journal

VARIABLES
    part,  \* what moves
    book, ledger, snapshots, portfolioRequest,                   \* Portfolio
    investors, journals, journalRequest,                         \* Journal
    day, series, latest, issues, qualityRequest, settled,        \* SeriesQuality
    published, call, known, withdrawn,                           \* FredClient
    dialect, now, draft, sourceRevisions, definition, analyticsRuns, analyticsRequest,
    today, points, revised, versions, derivedRuns, view,         \* Dashboard
    clock, version, store, open, commits, run                    \* Transformations

Part == {"portfolio", "decision", "journal", "quality", "scan", "fred", "analytics",
         "dashboard", "comparison", "calculation"}

Cash(type, currency, amount) == [type |-> type, currency |-> currency, amount |-> amount]
Trade(type, quantity, price) ==
    [type |-> type, symbol |-> acme, quantity |-> quantity, price |-> price]

(* Trades whose average rounds, that sell out, that cost more than there   *)
(* is, and moves of cash that overdraw or exceed the storage range.        *)
Transactions ==
    {Cash("deposit", usd, 8), Cash("fee", usd, 3), Cash("withdrawal", usd, 4),
     Cash("interest", eur, 2), Trade("buy", 2, 1), Trade("buy", 1, 3),
     Trade("sell", 1, 3), Trade("sell", 2, 1)}

Portfolios == INSTANCE Portfolio_proofs WITH
    Symbol <- {acme}, Currency <- {usd, eur}, Base <- usd, Price <- {1, 3},
    Payload <- Transactions, MaxMoney <- 9, MaxQuantity <- 3,
    MaxVersion <- 4, MaxSnapshots <- 1, request <- portfolioRequest

Journals == INSTANCE Journal WITH request <- journalRequest

(* One series over several scans, and several series in one scan. *)
Quality == INSTANCE SeriesQuality_proofs WITH
    Series <- {s1}, Value <- {1, 2}, StaleAfter <- 1,
    MaxDay <- 2, MaxIssues <- 2, MaxVersion <- 2, request <- qualityRequest

Scan == INSTANCE SeriesQuality_proofs WITH
    Series <- {s1, s2}, Value <- {1, 2}, StaleAfter <- 0,
    MaxDay <- 1, MaxIssues <- 1, MaxVersion <- 1, request <- qualityRequest

Fred == INSTANCE FredClient_proofs WITH
    MaxDay <- 4, PageLimit <- 2, MaxObservations <- 3, MaxRetries <- 1

Calculated(type, frequency, window, dates) ==
    [type |-> type, frequency |-> frequency, window |-> window,
     base |-> <<2023, 2, 28>>, dates |-> dates]

(* Months without the day, a leap day, 52 weeks across it, the last week   *)
(* of a year.                                                              *)
Ends == {<<2023, 2, 28>>, <<2023, 3, 28>>, <<2023, 3, 31>>}
Leap == {<<2023, 2, 28>>, <<2024, 2, 28>>, <<2024, 2, 29>>}

Definitions ==
    {Calculated("difference", "monthly", 0, Ends),
     Calculated("rebase_index", "monthly", 0, Ends),
     Calculated("percent_change", "quarterly", 0, {<<2023, 5, 31>>, <<2023, 8, 31>>}),
     Calculated("percent_change", "annual", 0, Leap),
     Calculated("year_over_year_percent_change", "daily", 0, Leap),
     Calculated("year_over_year_percent_change", "weekly", 0, {<<2023, 3, 2>>, <<2024, 2, 29>>}),
     Calculated("ratio", "annual", 0, {<<2023, 1, 1>>}),
     Calculated("spread", "daily", 0, {<<2023, 1, 1>>}),
     Calculated("moving_average", "daily", 2, {<<2024, 2, 29>>, <<2024, 3, 1>>}),
     Calculated("rolling_standard_deviation", "weekly", 2, {<<2023, 12, 28>>, <<2024, 1, 4>>}),
     Calculated("rolling_z_score", "monthly", 3, {<<2022, m, 30>> : m \in 10 .. 12})}

(* Analytics, with Transformations and Dashboard as T and D.  The boards   *)
(* have one value and many commits; the comparisons many values and no run. *)
Analyses == INSTANCE Analytics_proofs WITH
    MaxTime <- 1, MaxRevisions <- 1, MaxLock <- 2, MaxRuns <- 2,
    revisions <- sourceRevisions, runs <- analyticsRuns, request <- analyticsRequest,
    Value <- {0, 2, 3}, BaseValue <- 10, MaxOutput <- 49,
    asked <- version, last <- run,
    Observed <- {4}, Derived <- {5}, MaxValue <- 250, StaleAfter <- 0,
    MaxDay <- 2, MaxVersions <- 2,
    day <- today, frequencies <- versions, shownRuns <- derivedRuns

Comparisons == INSTANCE Dashboard WITH
    Value <- {-3, 0, 4}, Derived <- {}, MaxValue <- 250, StaleAfter <- 1,
    MaxDay <- 3, MaxRevisions <- 1, MaxVersions <- 1, MaxRuns <- 0,
    day <- today, runs <- derivedRuns

ASSUME ServicesAssumption ==
    /\ Portfolios!PortfolioAssumption /\ Journals!JournalAssumption
    /\ Quality!QualityAssumption /\ Scan!QualityAssumption /\ Fred!FredAssumption
    /\ Analyses!AnalyticsAssumption /\ Analyses!T!TransformationAssumption
    /\ Analyses!D!DashboardAssumption /\ Comparisons!DashboardAssumption

ServicesInit ==
    /\ part \in Part
    /\ Portfolios!Init /\ Init /\ Journals!Init
    /\ IF part = "scan" THEN Scan!Init ELSE Quality!Init
    /\ Fred!Init /\ (part # "fred" => published = {})
    /\ Analyses!Init /\ (part # "analytics" => dialect = "sqlite")
    /\ Analyses!D!Init /\ versions = <<"same">>
    /\ Analyses!T!Init
    /\ part # "calculation" => version.type = "spread" /\ \A slot \in DOMAIN store : store[slot] = <<>>

portfolioVars == <<book, ledger, snapshots, portfolioRequest>>
journalVars == <<investors, journals, journalRequest>>
qualityVars == <<day, series, latest, issues, qualityRequest, settled>>
fredVars == <<published, call, known, withdrawn>>
analyticsVars ==
    <<dialect, now, draft, sourceRevisions, definition, analyticsRuns, analyticsRequest>>
dashboardVars == <<today, points, revised, versions, derivedRuns, view>>
calculationVars == <<clock, version, store, open, commits, run>>

ServicesNext ==
    /\ UNCHANGED part
    /\ IF part = "portfolio" THEN Portfolios!Next ELSE UNCHANGED portfolioVars
    /\ IF part = "decision" THEN Next ELSE UNCHANGED vars
    /\ IF part = "journal" THEN Journals!Next ELSE UNCHANGED journalVars
    /\ CASE part = "quality" -> Quality!Next
         [] part = "scan" -> Scan!Next
         [] OTHER -> UNCHANGED qualityVars
    /\ IF part = "fred" THEN Fred!Next ELSE UNCHANGED fredVars
    /\ IF part = "analytics" THEN Analyses!Next ELSE UNCHANGED analyticsVars
    /\ CASE part = "dashboard" -> Analyses!D!Next
         [] part = "comparison" -> Comparisons!Next
         [] OTHER -> UNCHANGED dashboardVars
    /\ IF part = "calculation" THEN Analyses!T!Next ELSE UNCHANGED calculationVars

ServicesSpec ==
    ServicesInit /\ [][ServicesNext]_<<part, vars, portfolioVars, journalVars, qualityVars,
        fredVars, analyticsVars, dashboardVars, calculationVars>>

Alike == Permutations({c1, c2})

-----------------------------------------------------------------------------
(* The properties of the parts, each checked where its part moves. *)

(* Every component of the state is what its comment says. *)
ServicesTypeOK ==
    CASE part = "portfolio" -> Portfolios!TypeOK
      [] part = "decision"  -> TypeOK
      [] part = "journal"   -> Journals!TypeOK
      [] part = "quality"   -> Quality!TypeOK
      [] part = "scan"      -> Scan!TypeOK
      [] part = "fred"      -> Fred!TypeOK
      [] part = "analytics" -> Analyses!TypeOK
      [] part = "dashboard" -> Analyses!D!TypeOK
      [] part = "comparison" -> Comparisons!TypeOK
      [] part = "calculation" -> Analyses!T!TypeOK

(* Portfolio: the books add up to the transactions, and the cost of what   *)
(* is held is what was paid for it.                                        *)
BooksAddUp == part = "portfolio" => Portfolios!BooksAddUp

(* SeriesQuality: one unresolved issue, with its whole life in events. *)
IssueHistoryIsComplete ==
    CASE part = "quality" -> Quality!IssueHistoryIsComplete
      [] part = "scan" -> Scan!IssueHistoryIsComplete
      [] OTHER -> TRUE

(* SeriesQuality: a scan that succeeds leaves no stale series unreported.  *)
(* The formula names no constant: one instance speaks for both.            *)
StaleIsReported == Scan!StaleIsReported

(* FredClient: the pages that are accepted make up the whole answer. *)
PagesAreComplete == part = "fred" => Fred!PagesAreComplete

(* FredClient: a call ends after a bounded number of requests. *)
RequestsAreBounded == part = "fred" => Fred!RequestsAreBounded

(* Analytics: a request is answered with what its snapshot held. *)
AnswersAreExact == part = "analytics" => Analyses!AnswersAreExact

(* Analytics: versions become current in the order of their numbers. *)
VersionsActivateInOrder == part = "analytics" => Analyses!VersionsActivateInOrder

(* Transformations: a run is what was known at its cutoff, and its lineage *)
(* shows how it came about.                                                *)
RunsAreReproducible == part = "calculation" => Analyses!T!RunsAreReproducible

(* Dashboard: what is compared belongs together. *)
ComparisonsBelongTogether ==
    CASE part = "dashboard" -> Analyses!D!ComparisonsBelongTogether
      [] part = "comparison" -> Comparisons!ComparisonsBelongTogether
      [] OTHER -> TRUE

(* Portfolio, Decision, Journal and SeriesQuality: requests that overlap   *)
(* change a versioned record as if one after the other.                    *)
RecordsAreAtomic ==
    /\ Portfolios!ImplementsAtomicRecord
    /\ ImplementsAtomicRecord
    /\ Journals!ImplementsAtomicRecord
    /\ Quality!ImplementsAtomicRecord
=============================================================================
