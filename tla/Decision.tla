------------------------------- MODULE Decision -------------------------------
(***************************************************************************)
(* One decision case: its status, its estimate (probability, confidence    *)
(* and rationale together), the research attached to it and its revisions, *)
(* under clients that work on it at once.                                  *)
(*                                                                         *)
(* Source: decision_services.py, decision_models.py.                       *)
(*                                                                         *)
(* get_decision is one SELECT for the row and one for each collection,     *)
(* with other clients' commits in between: the row is one step, the        *)
(* collections another.  The flush of a request and its commit are a step. *)
(***************************************************************************)
EXTENDS Naturals, Sequences, FiniteSets

CONSTANTS
    Client,      \* requests that may be in flight together
    Estimate,    \* what a revision may set
    FirstEstimate,
    Given,       \* research that earlier requests have attached, one row each
    MaxVersion   \* bound on lock_version

VARIABLES
    case,       \* the row of decision_cases
    attached,   \* kinds of research with a row, and "outcome"
    revisions,  \* rows of decision_revisions, in the order of their commits
    request     \* [Client -> request in progress]

vars == <<case, attached, revisions, request>>

-----------------------------------------------------------------------------
(* What activation asks for, see _activation_gaps. *)
Research == {"hypothesis", "supporting_evidence", "opposing_evidence",
             "critic_review", "invalidation_rule"}

DecisionAssumption ==
    /\ FirstEstimate \in Estimate
    /\ Given \in SUBSET (Research \ {"critic_review"})
    /\ MaxVersion \in Nat /\ MaxVersion > Cardinality(Given)

ASSUME DecisionAssumption

Status == {"draft", "under_review", "active", "invalidated", "closed"}
Terminal == {"invalidated", "closed"}

Event == {"created", "review_started", "revised", "activated", "invalidated", "closed"}

Revision == [version : Nat \ {0}, event : Event, status : Status, estimate : Estimate]

Case == [status : Status, estimate : Estimate,
         current_version : Nat \ {0}, lock_version : Nat \ {0}]

(* attached only says whether there is a row of a kind.  An invalidation   *)
(* may name a rule.                                                        *)
Work == [kind : {"add"}, what : Research]
        \cup [kind : {"revise"}, estimate : Estimate]
        \cup [kind : {"activate", "close"}]
        \cup [kind : {"invalidate"}, rule : BOOLEAN]

NoWork == [kind |-> "none"]

TypeOK ==
    /\ case \in Case /\ case.lock_version <= MaxVersion
    /\ attached \subseteq Research \cup {"outcome"}
    /\ revisions \in Seq(Revision)
    /\ request \in [Client -> [step : {"idle", "collections", "write"}, work : Work \cup {NoWork},
                             case : Case, attached : SUBSET (Research \cup {"outcome"})]]

RevisionOf(row, event) ==
    [version |-> row.current_version, event |-> event,
     status |-> row.status, estimate |-> row.estimate]

NewCase ==
    [status |-> "draft", estimate |-> FirstEstimate, current_version |-> 1,
     lock_version |-> 1 + Cardinality(Given)]

Idle == [step |-> "idle", work |-> NoWork, case |-> NewCase, attached |-> {}]

(* create_decision has committed, and what attached the given research. *)
Init ==
    /\ case = NewCase
    /\ attached = Given
    /\ revisions = <<RevisionOf(NewCase, "created")>>
    /\ request = [c \in Client |-> Idle]

-----------------------------------------------------------------------------
(* The guards, on what the request has read. *)
Editable(row) == row.status \notin Terminal

(* Mutant: the gate forgets one of the kinds. *)
ForgottenGaps(seen) == Research \ (seen \cup {"opposing_evidence"})

Gaps(seen) == Research \ seen

Refuses(r) ==
    CASE r.work.kind \in {"add", "revise"} -> ~Editable(r.case)
      [] r.work.kind = "activate" ->
            r.case.status # "under_review" \/ Gaps(r.attached) # {}
      [] r.work.kind = "invalidate" ->
            \/ r.case.status # "active"
            \/ r.work.rule /\ "invalidation_rule" \notin r.attached
      [] r.work.kind = "close" ->
            r.case.status # "active" \/ "outcome" \in r.attached

(* A critic review of a draft starts the review. *)
StartsReview(r) ==
    r.work.kind = "add" /\ r.work.what = "critic_review" /\ r.case.status = "draft"

NextStatus(r) ==
    CASE StartsReview(r) -> "under_review"
      [] r.work.kind = "revise" /\ r.case.status # "draft" -> "under_review"
      [] r.work.kind = "activate" -> "active"
      [] r.work.kind = "invalidate" -> "invalidated"
      [] r.work.kind = "close" -> "closed"
      [] OTHER -> r.case.status

EventOf(r) ==
    CASE r.work.kind = "revise" -> "revised"
      [] r.work.kind = "activate" -> "activated"
      [] r.work.kind = "invalidate" -> "invalidated"
      [] r.work.kind = "close" -> "closed"
      [] OTHER -> "review_started"

(* Mutant: a revision keeps the status it was asked from. *)
RevisesOnlyTransitions(r) == r.work.kind \in {"activate", "invalidate", "close"}

(* Whether _append_revision is called. *)
AppendsRevision(r) == r.work.kind # "add" \/ StartsReview(r)

CaseAfter(r) ==
    [status |-> NextStatus(r),
     estimate |-> IF r.work.kind = "revise" THEN r.work.estimate ELSE r.case.estimate,
     current_version |-> r.case.current_version + IF AppendsRevision(r) THEN 1 ELSE 0,
     lock_version |-> r.case.lock_version + 1]

Attaches(r) ==
    CASE r.work.kind = "add" -> {r.work.what}
      [] r.work.kind = "close" -> {"outcome"}
      [] OTHER -> {}

-----------------------------------------------------------------------------
LoadCase(c) ==
    /\ request[c].step = "idle"
    /\ case.lock_version < MaxVersion
    /\ \E work \in Work :
         request' = [request EXCEPT ![c] =
             [step |-> "collections", work |-> work, case |-> case, attached |-> {}]]
    /\ UNCHANGED <<case, attached, revisions>>

LoadCollections(c) ==
    /\ request[c].step = "collections"
    /\ request' = [request EXCEPT ![c].step = "write", ![c].attached = attached]
    /\ UNCHANGED <<case, attached, revisions>>

Reply(c) == request' = [request EXCEPT ![c] = Idle]

(* Mutant: the UPDATE of decision_cases without its version. *)
AnyVersion(c) == TRUE

(* The UPDATE matches a row only if the version is still the one read. *)
IsCurrent(c) == case.lock_version = request[c].case.lock_version

(* 404 or 409; _commit_decision_change rolls a stale change back. *)
Refuse(c) ==
    /\ request[c].step = "write"
    /\ Refuses(request[c]) \/ ~IsCurrent(c)
    /\ UNCHANGED <<case, attached, revisions>>
    /\ Reply(c)

(* add_hypothesis, add_evidence, add_critic_review, add_invalidation_rule, *)
(* activate_decision, invalidate_decision, revise_decision, close_decision *)
Commit(c) ==
    /\ request[c].step = "write"
    /\ ~Refuses(request[c]) /\ IsCurrent(c)
    /\ case' = CaseAfter(request[c])
    /\ attached' = attached \cup Attaches(request[c])
    /\ revisions' = IF AppendsRevision(request[c])
                    THEN Append(revisions, RevisionOf(case', EventOf(request[c])))
                    ELSE revisions
    /\ Reply(c)

Handle(c) == LoadCase(c) \/ LoadCollections(c) \/ Refuse(c) \/ Commit(c)

Next == \E c \in Client : Handle(c)

Spec == Init /\ [][Next]_vars

-----------------------------------------------------------------------------
(* README.md:288: the revisions are the whole history.  Their versions are *)
(* 1, 2, ... without a gap, the last one shows the case as it is, and no   *)
(* status was passed through that no revision records.                     *)
HistoryIsComplete ==
    /\ Len(revisions) = case.current_version
    /\ \A i \in DOMAIN revisions : revisions[i].version = i
    /\ LET last == revisions[Len(revisions)] IN
         last.status = case.status /\ last.estimate = case.estimate

(* README.md:285: a case becomes active only with every kind of research   *)
(* attached, and stays so: no gate was passed on a stale reading.          *)
ActiveIsComplete ==
    (\E i \in DOMAIN revisions : revisions[i].event = "activated") => Research \subseteq attached

(* README.md:299: invalidated and closed cases are terminal.  Nothing that *)
(* overlapped the closing is attached to the case or changes it after it.  *)
TerminalIsFinal ==
    [][case.status \in Terminal => UNCHANGED <<case, attached, revisions>>]_vars

Content(row, what, log) == [status |-> row.status, estimate |-> row.estimate,
                            attached |-> what, revisions |-> log]

(* What one request may make of a case that it alone works on. *)
Changes(old, new) ==
    \E work \in Work :
      LET row == [status |-> old.status, estimate |-> old.estimate,
                  current_version |-> Len(old.revisions), lock_version |-> 1]
          r == [work |-> work, case |-> row, attached |-> old.attached]
          log == IF AppendsRevision(r)
                 THEN Append(old.revisions, RevisionOf(CaseAfter(r), EventOf(r)))
                 ELSE old.revisions
      IN  ~Refuses(r) /\ new = Content(CaseAfter(r), old.attached \cup Attaches(r), log)

Atomic == INSTANCE AtomicRecord WITH
    Initial <- Content(NewCase, Given, <<RevisionOf(NewCase, "created")>>),
    Changes <- Changes,
    content <- Content(case, attached, revisions), 
    version <- case.lock_version - Cardinality(Given)

(* Overlapping requests change a case as if one after the other. *)
ImplementsAtomicRecord == Atomic!Spec
===============================================================================
