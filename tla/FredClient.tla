------------------------------ MODULE FredClient ------------------------------
(***************************************************************************)
(* One call of the FRED client: the request with its retries, the pages of *)
(* observations, and what is accepted of an answer.                        *)
(*                                                                         *)
(* Source: fred_provider.py, provider_contracts.py.                        *)
(*                                                                         *)
(* The service is external: it may publish and withdraw observations       *)
(* between two pages, answer with any failure, ignore the dates asked for, *)
(* or leave out the count of the observations or give a bad one.  An       *)
(* observation is its day; values, vintages and the wait between two       *)
(* attempts are left out.                                                  *)
(***************************************************************************)
EXTENDS Naturals, Sequences, FiniteSets, FiniteSetsExt

CONSTANTS
    MaxDay,           \* days are 1 .. MaxDay
    PageLimit,        \* most rows of an answer, 100000 in the code
    MaxObservations,  \* provider_max_observations
    MaxRetries        \* provider_max_retries

(* MCServices assumes it of its instance. *)
FredAssumption ==
    /\ MaxDay \in Nat \ {0} /\ MaxRetries \in Nat
    /\ PageLimit \in Nat \ {0} /\ MaxObservations \in Nat \ {0}

VARIABLES
    published,  \* days with an observation
    call,       \* the call in progress, or the one that has ended
    known,      \* history variable: what was published when the call began
    withdrawn   \* history variable: whether a day was withdrawn since

vars == <<published, call, known, withdrawn>>

-----------------------------------------------------------------------------
Day == 1 .. MaxDay

Kind == {"metadata", "observations", "health"}

(* Queries without a start, or without an end, ask for all the days. *)
Scope == [first : Day, last : Day]

Transient == {"rate_limited", "server_error"}   \* 429, and 500, 502, 503, 504
Broken == {"timeout", "transport_error"}
Final == {"denied", "redirect", "not_found", "other_error", "too_large", "bad_json"}

Error == {"rate_limited", "unavailable", "timeout", "authentication_failed",
          "series_not_found", "response_too_large", "malformed_response",
          "unsupported_metadata"}

Counting == {"given", "missing", "invalid"}

(* counted is history: whether the accepted answers gave their count.      *)
Call == [step : {"idle", "waiting", "returned", "failed"}, kind : Kind, scope : Scope,
         attempt : Nat, offset : Nat, observed : Seq(Day), requests : Nat,
         error : Error \cup {"none"}, counted : BOOLEAN]

NoCall == [step |-> "idle", kind |-> "health", scope |-> [first |-> 1, last |-> MaxDay],
           attempt |-> 0, offset |-> 0, observed |-> <<>>, requests |-> 0, error |-> "none",
           counted |-> TRUE]

TypeOK ==
    /\ published \subseteq Day
    /\ call \in Call /\ call.attempt <= MaxRetries
    /\ Len(call.observed) <= MaxObservations
    /\ known \subseteq Day /\ withdrawn \in BOOLEAN

Init ==
    /\ published \in SUBSET Day
    /\ call = NoCall
    /\ known = {} /\ withdrawn = FALSE

-----------------------------------------------------------------------------
(* The service. *)
Publish ==
    /\ call.step = "waiting"
    /\ \E d \in Day \ published : published' = published \cup {d}
    /\ UNCHANGED <<call, known, withdrawn>>

Withdraw ==
    /\ call.step = "waiting"
    /\ \E d \in published : published' = published \ {d}
    /\ withdrawn' = TRUE
    /\ UNCHANGED <<call, known>>

InScope(d) == call.scope.first <= d /\ d <= call.scope.last

Limit == Min({PageLimit, MaxObservations})

(* The days, from the earliest to the latest. *)
InOrder(days) ==
    CHOOSE s \in [1 .. Cardinality(days) -> days] :
        \A i, j \in DOMAIN s : i < j => s[i] < s[j]

(* The days that an answer is about, and the page of them that is asked    *)
(* for: all of the days when the service ignores the scope.                *)
Matching(scoped) == {d \in published : scoped => InScope(d)}

Page(scoped) ==
    LET days == InOrder(Matching(scoped))
    IN  SubSeq(days, call.offset + 1, Min({Len(days), call.offset + Limit}))

Count(scoped) == Cardinality(Matching(scoped))

-----------------------------------------------------------------------------
(* get_series_metadata, get_observations, check_health *)
Begin ==
    /\ call.step = "idle"
    /\ \E kind \in Kind, scope \in Scope :
         call' = [NoCall EXCEPT !.step = "waiting", !.kind = kind, !.scope = scope]
    /\ known' = published /\ withdrawn' = FALSE
    /\ UNCHANGED published

Unchanged == UNCHANGED <<published, known, withdrawn>>

(* Mutant: a broken connection is tried again without being counted. *)
CountsTransient(failure) == IF failure \in Broken THEN 0 ELSE 1

Counts(failure) == 1

(* What get_json raises when no attempt is left. *)
LastError(failure) ==
    CASE failure = "rate_limited" -> "rate_limited"
      [] failure = "timeout" -> "timeout"
      [] OTHER -> "unavailable"

(* Both kinds of failure use up the attempts of one request. *)
Fails(failure) ==
    /\ call.step = "waiting"
    /\ call' = IF call.attempt < MaxRetries
               THEN [call EXCEPT !.attempt = @ + Counts(failure), !.requests = @ + 1]
               ELSE [call EXCEPT !.step = "failed", !.error = LastError(failure),
                                 !.requests = @ + 1]
    /\ Unchanged

FinalError(failure) ==
    CASE failure = "denied" -> "authentication_failed"
      [] failure = "not_found" -> "series_not_found"
      [] failure \in {"redirect", "other_error"} -> "unavailable"
      [] failure = "too_large" -> "response_too_large"
      [] failure = "bad_json" -> "malformed_response"

(* Not tried again. *)
IsRefused(failure) ==
    /\ call.step = "waiting"
    /\ call' = [call EXCEPT !.step = "failed", !.error = FinalError(failure),
                            !.requests = @ + 1]
    /\ Unchanged

(* Metadata may be of another series, lack a field, or have a frequency    *)
(* that is not known.                                                      *)
AnswersOther(error) ==
    /\ call.step = "waiting" /\ call.kind # "observations"
    /\ error # "none" => call.kind = "metadata"
    /\ call' = [call EXCEPT !.step = IF error = "none" THEN "returned" ELSE "failed",
                            !.error = error, !.requests = @ + 1]
    /\ Unchanged

(* Mutant: a day that an earlier page had is accepted. *)
IsOutOfScope(rows, i) == ~InScope(rows[i])

(* The rows are checked one by one; the first bad one ends the call. *)
IsMalformed(rows, i) ==
    ~InScope(rows[i]) \/ rows[i] \in Range(call.observed \o SubSeq(rows, 1, i - 1))

IsTooMany(i) == Len(call.observed) + i > MaxObservations

BadRows(rows) == {i \in DOMAIN rows : IsMalformed(rows, i) \/ IsTooMany(i)}

IsLastPage(rows, count) == rows = <<>> \/ call.offset + Len(rows) >= count

(* A count that is missing is taken to be that of the rows of the page. *)
CountOf(rows, scoped, count) == IF count = "given" THEN Count(scoped) ELSE Len(rows)

AnswersObservations(scoped, count) ==
    /\ call.step = "waiting" /\ call.kind = "observations"
    /\ LET rows == Page(scoped)
           bad == BadRows(rows)
           read == [call EXCEPT !.requests = @ + 1, !.attempt = 0,
                                !.offset = @ + Len(rows), !.observed = @ \o rows,
                                !.counted = @ /\ count = "given"]
       IN  \/ /\ bad # {} \/ count = "invalid"
              /\ call' = [call EXCEPT
                   !.step = "failed", !.requests = @ + 1,
                   !.error = IF bad = {} \/ IsMalformed(rows, Min(bad))
                             THEN "malformed_response" ELSE "response_too_large"]
           \/ /\ bad = {} /\ count # "invalid"
              /\ call' = IF IsLastPage(rows, CountOf(rows, scoped, count))
                         THEN [read EXCEPT !.step = "returned"] ELSE read
    /\ Unchanged

Next ==
    \/ Publish \/ Withdraw \/ Begin
    \/ \E failure \in Transient \cup Broken : Fails(failure)
    \/ \E failure \in Final : IsRefused(failure)
    \/ \E error \in {"none", "malformed_response", "unsupported_metadata"} : AnswersOther(error)
    \/ \E scoped \in BOOLEAN, count \in Counting : AnswersObservations(scoped, count)

Spec == Init /\ [][Next]_vars

-----------------------------------------------------------------------------
(* Pages are read one by one while the service changes.  What get_observa- *)
(* tions returns are days of the scope, each once, and unless the service  *)
(* withdrew one meanwhile, or left out the count, no day that was there    *)
(* from the start is missing: a page that shifted is noticed.              *)
PagesAreComplete ==
    call.step = "returned" /\ call.kind = "observations" =>
        /\ IsInjective(call.observed)
        /\ \A i \in DOMAIN call.observed : InScope(call.observed[i])
        /\ ~withdrawn /\ call.counted => {d \in known : InScope(d)} \subseteq Range(call.observed)

(* README.md:430: bounded retries.  However the failures of the pages are  *)
(* mixed, a call ends after a bounded number of requests:                  *)
(* each page has the attempts of one request, and the pages are those of   *)
(* the accepted observations, and a last one.                              *)
RequestsAreBounded ==
    call.requests <= (MaxRetries + 1) * (MaxObservations \div Limit + 2)
=============================================================================
