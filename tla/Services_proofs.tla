---------------------------- MODULE Services_proofs ----------------------------
(***************************************************************************)
(* For any number of clients, estimates and versions: the history of a     *)
(* decision is complete, its gate holds, and its end is final.             *)
(*                                                                         *)
(* A request computes its change from a row that may be out of date.  What *)
(* the proofs rest on is Seen: a version names one row, so that a change   *)
(* that still finds the version it read was computed from the row as it    *)
(* is; and what was attached when it read stays attached.                  *)
(*                                                                         *)
(* The second section says the same of journals, of which any number may   *)
(* be closed by overlapping requests (Journal).  The last one is about all *)
(* services side by side (MCServices): what the theorems of each say of it *)
(* alone holds of it in the run that checks them together.                 *)
(***************************************************************************)
EXTENDS MCServices, FiniteSetTheorems, SequenceTheorems, TLAPS

(* A request in progress does something, and read a version that another   *)
(* change may have followed.                                               *)
Seen(c) ==
    request[c].step # "idle" =>
      /\ request[c].work \in Work
      /\ request[c].case.lock_version < MaxVersion
      /\ request[c].case.lock_version <= case.lock_version
      /\ request[c].case.lock_version = case.lock_version => request[c].case = case
      /\ request[c].attached \subseteq attached

IInv == TypeOK /\ \A c \in Client : Seen(c)

-----------------------------------------------------------------------------
(* The kinds of work, and what each has besides its kind. *)
LEMMA WorkKinds ==
    ASSUME NEW work \in Work
    PROVE  /\ work.kind \in {"add", "revise", "activate", "invalidate", "close"}
           /\ work.kind = "add" => work.what \in Research
           /\ work.kind = "revise" => work.estimate \in Estimate
BY DEF Work

(* The row that a request writes is a row, of the next version. *)
LEMMA CaseAfterIsCase ==
    ASSUME NEW r, r.work \in Work, r.case \in Case
    PROVE  /\ CaseAfter(r) \in Case
           /\ CaseAfter(r).lock_version = r.case.lock_version + 1
           /\ EventOf(r) \in Event
<1>1. NextStatus(r) \in Status
  BY DEF NextStatus, Status, Case
<1>2. r.work.kind = "revise" => r.work.estimate \in Estimate
  BY WorkKinds
<1>3. CaseAfter(r) \in Case
  BY <1>1, <1>2 DEF CaseAfter, Case
<1>4. CaseAfter(r).lock_version = r.case.lock_version + 1
  BY DEF CaseAfter
<1>5. EventOf(r) \in Event
  BY DEF EventOf, Event
<1> QED
  BY <1>3, <1>4, <1>5

LEMMA GivenIsCounted == Cardinality(Given) \in Nat
<1>1. Given \subseteq Research
  BY DecisionAssumption DEF DecisionAssumption
<1>2. IsFiniteSet(Research)
  <2> DEFINE few == <<"hypothesis", "supporting_evidence", "opposing_evidence",
                      "critic_review", "invalidation_rule">>
  <2>1. IsFiniteSet({})
    BY FS_EmptySet
  <2>2. IsFiniteSet({"hypothesis"})
    BY FS_Singleton
  <2>3. IsFiniteSet({"hypothesis"} \cup {"supporting_evidence"})
    BY <2>2, FS_AddElement
  <2>4. IsFiniteSet(({"hypothesis"} \cup {"supporting_evidence"}) \cup {"opposing_evidence"})
    BY <2>3, FS_AddElement
  <2>5. IsFiniteSet((({"hypothesis"} \cup {"supporting_evidence"}) \cup {"opposing_evidence"})
                    \cup {"critic_review"})
    BY <2>4, FS_AddElement
  <2>6. IsFiniteSet(((({"hypothesis"} \cup {"supporting_evidence"}) \cup {"opposing_evidence"})
                    \cup {"critic_review"}) \cup {"invalidation_rule"})
    BY <2>5, FS_AddElement
  <2>7. Research = (((({"hypothesis"} \cup {"supporting_evidence"}) \cup {"opposing_evidence"})
                    \cup {"critic_review"}) \cup {"invalidation_rule"})
    BY DEF Research
  <2> QED
    BY <2>6, <2>7
<1>3. IsFiniteSet(Given)
  BY <1>1, <1>2, FS_Subset
<1> QED
  BY <1>3, FS_CardinalityType

(* A change that is committed was computed from the row as it is. *)
LEMMA CommitIsCurrent ==
    ASSUME IInv, NEW c \in Client, Commit(c)
    PROVE  /\ request[c].work \in Work
           /\ request[c].case = case /\ case \in Case
           /\ request[c].attached \subseteq attached
           /\ case' = CaseAfter(request[c])
           /\ case'.lock_version = case.lock_version + 1
           /\ case' \in Case
           /\ case.lock_version < MaxVersion
<1>1. Seen(c) /\ request[c].step = "write"
  BY DEF IInv, Commit
<1>2. request[c].work \in Work /\ request[c].case = case /\ request[c].attached \subseteq attached
      /\ case.lock_version < MaxVersion
  BY <1>1 DEF Seen, Commit, IsCurrent
<1>3. case \in Case
  BY DEF IInv, TypeOK
<1> QED
  BY <1>2, <1>3, CaseAfterIsCase DEF Commit

-----------------------------------------------------------------------------
LEMMA InitIInv == Init => IInv
<1> SUFFICES ASSUME Init PROVE IInv
  OBVIOUS
<1>1. NewCase \in Case /\ NewCase.lock_version <= MaxVersion
  BY GivenIsCounted, DecisionAssumption DEF DecisionAssumption, NewCase, Case, Status
<1>2. revisions \in Seq(Revision)
  <2>1. RevisionOf(NewCase, "created") \in Revision
    BY <1>1 DEF RevisionOf, Revision, Case, Event
  <2> QED
    BY <2>1 DEF Init
<1>3. attached \subseteq Research \cup {"outcome"}
  BY DecisionAssumption DEF DecisionAssumption, Init
<1>4. TypeOK
  BY <1>1, <1>2, <1>3 DEF Init, TypeOK, Idle
<1>5. \A c \in Client : Seen(c)
  BY DEF Init, Idle, Seen
<1> QED
  BY <1>4, <1>5 DEF IInv

Request == [step : {"idle", "collections", "write"}, work : Work \cup {NoWork},
            case : Case, attached : SUBSET (Research \cup {"outcome"})]

(* A request that replaces a request leaves requests. *)
LEMMA Replaced ==
    ASSUME TypeOK, NEW c \in Client, NEW r \in Request, request' = [request EXCEPT ![c] = r]
    PROVE  request' \in [Client -> Request]
<1>1. request \in [Client -> Request]
  BY DEF TypeOK, Request
<1> QED
  BY <1>1

LEMMA IdleIsRequest == Idle \in Request
<1>1. Idle.case \in Case
  BY GivenIsCounted, DecisionAssumption DEF DecisionAssumption, Idle, NewCase, Case, Status
<1> QED
  BY <1>1 DEF Idle, Request

LEMMA StepTypeOK == IInv /\ [Next]_vars => TypeOK'
<1> SUFFICES ASSUME IInv, [Next]_vars PROVE TypeOK'
  OBVIOUS
<1> USE DEF IInv
<1>1. CASE UNCHANGED vars
  BY <1>1 DEF TypeOK, vars
<1>2. ASSUME NEW c \in Client, LoadCase(c) PROVE TypeOK'
  <2>1. PICK work \in Work : request' = [request EXCEPT ![c] =
            [step |-> "collections", work |-> work, case |-> case, attached |-> {}]]
    BY <1>2 DEF LoadCase
  <2>2. [step |-> "collections", work |-> work, case |-> case, attached |-> {}] \in Request
    BY DEF Request, TypeOK
  <2>3. request' \in [Client -> Request]
    BY <2>1, <2>2, Replaced
  <2> QED
    BY <1>2, <2>3 DEF LoadCase, TypeOK, Request
<1>3. ASSUME NEW c \in Client, LoadCollections(c) PROVE TypeOK'
  <2> DEFINE r == [request[c] EXCEPT !.step = "write", !.attached = attached]
  <2>1. r \in Request
    BY DEF Request, TypeOK
  <2>2. request' = [request EXCEPT ![c] = r]
    BY <1>3 DEF LoadCollections
  <2>3. request' \in [Client -> Request]
    BY <2>1, <2>2, Replaced
  <2> QED
    BY <1>3, <2>3 DEF LoadCollections, TypeOK, Request
<1>5. ASSUME NEW c \in Client, Refuse(c) PROVE TypeOK'
  <2>1. request' \in [Client -> Request]
    BY <1>5, IdleIsRequest, Replaced DEF Refuse, Reply
  <2> QED
    BY <1>5, <2>1 DEF Refuse, TypeOK, Request
<1>6. ASSUME NEW c \in Client, Commit(c) PROVE TypeOK'
  <2>1. case' \in Case /\ case.lock_version < MaxVersion /\ case \in Case
        /\ case'.lock_version = case.lock_version + 1 /\ request[c].work \in Work
        /\ request[c].case = case
    BY <1>6, CommitIsCurrent
  <2>2. case'.lock_version <= MaxVersion
    BY <2>1, DecisionAssumption DEF DecisionAssumption, Case
  <2>3. attached' \subseteq Research \cup {"outcome"}
    <3>1. Attaches(request[c]) \subseteq Research \cup {"outcome"}
      <4>1. CASE request[c].work.kind = "add"
        BY <4>1, <2>1, WorkKinds DEF Attaches
      <4>2. CASE request[c].work.kind = "close"
        BY <4>2 DEF Attaches
      <4>3. CASE request[c].work.kind \notin {"add", "close"}
        BY <4>3 DEF Attaches
      <4> QED
        BY <4>1, <4>2, <4>3
    <3> QED
      BY <3>1, <1>6 DEF Commit, TypeOK
  <2>4. revisions' \in Seq(Revision)
    <3>1. EventOf(request[c]) \in Event
      BY <2>1, CaseAfterIsCase
    <3>2. RevisionOf(case', EventOf(request[c])) \in Revision
      BY <2>1, <3>1 DEF RevisionOf, Revision, Case
    <3> QED
      BY <3>2, <1>6 DEF Commit, TypeOK
  <2>5. request' \in [Client -> Request]
    BY <1>6, IdleIsRequest, Replaced DEF Commit, Reply
  <2> QED
    BY <2>1, <2>2, <2>3, <2>4, <2>5 DEF TypeOK, Request
<1> QED
  BY <1>1, <1>2, <1>3, <1>5, <1>6 DEF Next, Handle

(* A client that reads learns the row as it is; a commit makes every other *)
(* reading old, and its client is done.                                    *)
LEMMA StepSeen == IInv /\ [Next]_vars => \A d \in Client : Seen(d)'
<1> SUFFICES ASSUME IInv, [Next]_vars, NEW d \in Client PROVE Seen(d)'
  OBVIOUS
<1> USE DEF IInv
<1>0. Seen(d) /\ request \in [Client -> Request] /\ case.lock_version \in Nat
  BY DEF TypeOK, Request, Case
<1>1. CASE UNCHANGED vars
  BY <1>0, <1>1 DEF Seen, vars
<1>2. ASSUME NEW c \in Client, LoadCase(c) PROVE Seen(d)'
  <2>1. PICK work \in Work : request' = [request EXCEPT ![c] =
            [step |-> "collections", work |-> work, case |-> case, attached |-> {}]]
    BY <1>2 DEF LoadCase
  <2>2. case.lock_version < MaxVersion /\ UNCHANGED <<case, attached>>
    BY <1>2 DEF LoadCase
  <2>3. CASE d = c
    BY <2>1, <2>2, <2>3, <1>0 DEF Seen
  <2>4. CASE d # c
    <3>1. request'[d] = request[d]
      BY <2>1, <2>4, <1>0
    <3> QED
      BY <3>1, <2>2, <1>0 DEF Seen
  <2> QED
    BY <2>3, <2>4
<1>3. ASSUME NEW c \in Client, LoadCollections(c) PROVE Seen(d)'
  <2>1. request' = [request EXCEPT ![c] = [request[c] EXCEPT !.step = "write", !.attached = attached]]
        /\ UNCHANGED <<case, attached>> /\ request[c].step = "collections"
    BY <1>3 DEF LoadCollections
  <2>2. CASE d = c
    <3>1. request'[d] = [request[d] EXCEPT !.step = "write", !.attached = attached]
      BY <2>1, <2>2, <1>0
    <3>2. /\ request'[d].work = request[d].work /\ request'[d].case = request[d].case
          /\ request'[d].attached = attached
      BY <3>1, <1>0 DEF Request
    <3> QED
      BY <3>2, <2>1, <2>2, <1>0 DEF Seen
  <2>3. CASE d # c
    <3>1. request'[d] = request[d]
      BY <2>1, <2>3, <1>0
    <3> QED
      BY <3>1, <2>1, <1>0 DEF Seen
  <2> QED
    BY <2>2, <2>3
<1>4. ASSUME NEW c \in Client, Reply(c), attached \subseteq attached',
             \/ case' = case
             \/ case'.lock_version = case.lock_version + 1
      PROVE  Seen(d)'
  <2>1. CASE d = c
    BY <2>1, <1>0, <1>4 DEF Reply, Idle, Seen
  <2>2. CASE d # c
    <3>1. request'[d] = request[d]
      BY <2>2, <1>0, <1>4 DEF Reply
    <3>2. request[d].case.lock_version \in Nat
      BY <1>0 DEF Request, Case
    <3> QED
      BY <3>1, <3>2, <1>0, <1>4 DEF Seen
  <2> QED
    BY <2>1, <2>2
<1>5. ASSUME NEW c \in Client, Refuse(c) PROVE Seen(d)'
  BY <1>4, <1>5 DEF Refuse
<1>6. ASSUME NEW c \in Client, Commit(c) PROVE Seen(d)'
  <2>1. case'.lock_version = case.lock_version + 1
    BY <1>6, CommitIsCurrent
  <2> QED
    BY <1>4, <1>6, <2>1 DEF Commit
<1> QED
  BY <1>1, <1>2, <1>3, <1>5, <1>6 DEF Next, Handle

(* TypeOK: every component of the state is what its comment says. *)
THEOREM TypeCorrect == Spec => []TypeOK
<1>1. IInv /\ [Next]_vars => IInv'
  BY StepTypeOK, StepSeen DEF IInv
<1>2. IInv => TypeOK
  BY DEF IInv
<1> QED
  BY InitIInv, <1>1, <1>2, PTL DEF Spec

LEMMA Invariance == Spec => []IInv
<1>1. IInv /\ [Next]_vars => IInv'
  BY StepTypeOK, StepSeen DEF IInv
<1> QED
  BY InitIInv, <1>1, PTL DEF Spec

-----------------------------------------------------------------------------
(* What a step does to the case, whoever takes it: nothing, or the change  *)
(* of a request that is not refused and that read the case as it is.       *)
Changed(c) ==
    /\ request[c].work \in Work /\ request[c].case = case
    /\ request[c].attached \subseteq attached
    /\ ~Refuses(request[c])
    /\ case' = CaseAfter(request[c])
    /\ attached' = attached \cup Attaches(request[c])
    /\ revisions' = IF AppendsRevision(request[c])
                    THEN Append(revisions, RevisionOf(case', EventOf(request[c])))
                    ELSE revisions

LEMMA StepChanges ==
    ASSUME IInv, [Next]_vars
    PROVE  UNCHANGED <<case, attached, revisions>> \/ \E c \in Client : Changed(c)
<1>1. CASE UNCHANGED vars
  BY <1>1 DEF vars
<1>2. ASSUME NEW c \in Client, LoadCase(c) \/ LoadCollections(c) \/ Refuse(c)
      PROVE  UNCHANGED <<case, attached, revisions>>
  BY <1>2 DEF LoadCase, LoadCollections, Refuse
<1>3. ASSUME NEW c \in Client, Commit(c) PROVE Changed(c)
  <2>1. ~Refuses(request[c]) /\ case' = CaseAfter(request[c])
        /\ attached' = attached \cup Attaches(request[c])
        /\ revisions' = IF AppendsRevision(request[c])
                    THEN Append(revisions, RevisionOf(case', EventOf(request[c])))
                    ELSE revisions
    BY <1>3 DEF Commit
  <2> QED
    BY <1>3, <2>1, CommitIsCurrent DEF Changed
<1> QED
  BY <1>1, <1>2, <1>3 DEF Next, Handle

(* A change without a revision leaves what the last revision shows; with   *)
(* one, the version counts it.                                             *)
LEMMA ChangeOfCase ==
    ASSUME NEW r, r.work \in Work, r.case \in Case
    PROVE  /\ AppendsRevision(r) => CaseAfter(r).current_version = r.case.current_version + 1
           /\ ~AppendsRevision(r) =>
                /\ CaseAfter(r).current_version = r.case.current_version
                /\ CaseAfter(r).status = r.case.status
                /\ CaseAfter(r).estimate = r.case.estimate
<1>1. AppendsRevision(r) => CaseAfter(r).current_version = r.case.current_version + 1
  BY DEF CaseAfter
<1>2. ASSUME ~AppendsRevision(r)
      PROVE  /\ CaseAfter(r).current_version = r.case.current_version
             /\ CaseAfter(r).status = r.case.status
             /\ CaseAfter(r).estimate = r.case.estimate
  <2>1. r.work.kind = "add" /\ ~StartsReview(r)
    BY <1>2 DEF AppendsRevision
  <2>2. NextStatus(r) = r.case.status
    BY <2>1 DEF NextStatus
  <2>3. CaseAfter(r).current_version = r.case.current_version + 0
    BY <1>2 DEF CaseAfter
  <2> QED
    BY <2>1, <2>2, <2>3 DEF CaseAfter, Case
<1> QED
  BY <1>1, <1>2

LEMMA StepHistory == IInv /\ HistoryIsComplete /\ [Next]_vars => HistoryIsComplete'
<1> SUFFICES ASSUME IInv, HistoryIsComplete, [Next]_vars PROVE HistoryIsComplete'
  OBVIOUS
<1>1. CASE UNCHANGED <<case, attached, revisions>>
  BY <1>1 DEF HistoryIsComplete
<1>2. ASSUME NEW c \in Client, Changed(c) PROVE HistoryIsComplete'
  <2>1. case \in Case /\ revisions \in Seq(Revision)
    BY DEF IInv, TypeOK
  <2>2. request[c].work \in Work /\ request[c].case = case
    BY <1>2 DEF Changed
  <2>3. CASE AppendsRevision(request[c])
    <3> DEFINE new == RevisionOf(case', EventOf(request[c]))
    <3>1. revisions' = Append(revisions, new)
      BY <1>2, <2>3 DEF Changed
    <3>2. case'.current_version = case.current_version + 1
      BY <1>2, <2>1, <2>2, <2>3, ChangeOfCase DEF Changed
    <3>3. new.version = case'.current_version /\ new.status = case'.status
          /\ new.estimate = case'.estimate
      BY DEF RevisionOf
    <3>4. Len(revisions) = case.current_version /\ case.current_version \in Nat
      BY <2>1 DEF HistoryIsComplete, Case
    <3> HIDE DEF new
    <3>5. Len(revisions') = Len(revisions) + 1 /\ revisions'[Len(revisions) + 1] = new
      BY <3>1, <2>1
    <3>6. \A i \in DOMAIN revisions' : revisions'[i].version = i
      <4> SUFFICES ASSUME NEW i \in 1 .. Len(revisions) + 1 PROVE revisions'[i].version = i
        BY <3>1, <2>1
      <4>1. CASE i = Len(revisions) + 1
        BY <4>1, <3>2, <3>3, <3>4, <3>5
      <4>2. CASE i # Len(revisions) + 1
        <5>1. i \in 1 .. Len(revisions) /\ revisions'[i] = revisions[i]
          BY <4>2, <3>1, <2>1
        <5> QED
          BY <5>1, <2>1 DEF HistoryIsComplete
      <4> QED
        BY <4>1, <4>2
    <3> QED
      BY <3>2, <3>3, <3>4, <3>5, <3>6 DEF HistoryIsComplete
  <2>4. CASE ~AppendsRevision(request[c])
    <3>1. revisions' = revisions
      BY <1>2, <2>4 DEF Changed
    <3>2. case'.current_version = case.current_version /\ case'.status = case.status
          /\ case'.estimate = case.estimate
      BY <1>2, <2>1, <2>2, <2>4, ChangeOfCase DEF Changed
    <3> QED
      BY <3>1, <3>2 DEF HistoryIsComplete
  <2> QED
    BY <2>3, <2>4
<1> QED
  BY <1>1, <1>2, StepChanges

(* README.md:288: whatever requests overlap, the revisions are numbered    *)
(* without a gap and the last one shows the case as it is.                 *)
THEOREM HistoryAlways == Spec => []HistoryIsComplete
<1>1. Init => HistoryIsComplete
  BY DEF Init, HistoryIsComplete, RevisionOf, NewCase
<1> QED
  BY <1>1, StepHistory, Invariance, PTL DEF Spec

-----------------------------------------------------------------------------
LEMMA StepActive == IInv /\ ActiveIsComplete /\ [Next]_vars => ActiveIsComplete'
<1> SUFFICES ASSUME IInv, ActiveIsComplete, [Next]_vars PROVE ActiveIsComplete'
  OBVIOUS
<1>1. CASE UNCHANGED <<case, attached, revisions>>
  BY <1>1 DEF ActiveIsComplete
<1>2. ASSUME NEW c \in Client, Changed(c) PROVE ActiveIsComplete'
  <2> SUFFICES ASSUME NEW i \in DOMAIN revisions', revisions'[i].event = "activated"
               PROVE  Research \subseteq attached'
    BY DEF ActiveIsComplete
  <2>1. revisions \in Seq(Revision) /\ attached \subseteq attached'
    BY <1>2 DEF IInv, TypeOK, Changed
  <2>2. CASE request[c].work.kind = "activate"
    <3>1. Gaps(request[c].attached) = {}
      BY <1>2, <2>2 DEF Changed, Refuses
    <3>2. Research \subseteq request[c].attached
      BY <3>1 DEF Gaps
    <3> QED
      BY <3>2, <2>1, <1>2 DEF Changed
  <2>3. CASE request[c].work.kind # "activate"
    <3> DEFINE new == RevisionOf(case', EventOf(request[c]))
    <3>1. new.event # "activated"
      BY <2>3 DEF RevisionOf, EventOf
    <3> HIDE DEF new
    <3>2. revisions' = Append(revisions, new) \/ revisions' = revisions
      BY <1>2 DEF Changed, new
    <3>3. i \in DOMAIN revisions /\ revisions[i].event = "activated"
      BY <3>1, <3>2, <2>1
    <3> QED
      BY <3>3, <2>1 DEF ActiveIsComplete
  <2> QED
    BY <2>2, <2>3
<1> QED
  BY <1>1, <1>2, StepChanges

(* README.md:285: no case was ever activated without every kind of         *)
(* research, although the gate reads the case and the research apart.      *)
THEOREM ActiveAlways == Spec => []ActiveIsComplete
<1>1. Init => ActiveIsComplete
  BY DEF Init, ActiveIsComplete, RevisionOf
<1> QED
  BY <1>1, StepActive, Invariance, PTL DEF Spec

(* No request that is not refused changes a case after its end. *)
LEMMA TerminalStays ==
    ASSUME IInv, [Next]_vars, case.status \in Terminal
    PROVE  UNCHANGED <<case, attached, revisions>>
<1>1. ASSUME NEW c \in Client, Changed(c) PROVE FALSE
  <2>1. /\ request[c].work.kind \in {"add", "revise", "activate", "invalidate", "close"}
        /\ request[c].case.status \in {"invalidated", "closed"}
    BY <1>1, WorkKinds DEF Changed, Terminal
  <2>2. CASE request[c].work.kind \in {"add", "revise"}
    BY <1>1, <2>1, <2>2 DEF Changed, Refuses, Editable, Terminal
  <2>3. CASE request[c].work.kind = "activate"
    BY <1>1, <2>1, <2>3 DEF Changed, Refuses
  <2>4. CASE request[c].work.kind = "invalidate"
    BY <1>1, <2>1, <2>4 DEF Changed, Refuses
  <2>5. CASE request[c].work.kind = "close"
    BY <1>1, <2>1, <2>5 DEF Changed, Refuses
  <2> QED
    BY <2>1, <2>2, <2>3, <2>4, <2>5
<1> QED
  BY <1>1, StepChanges

(* README.md:299: a case that was invalidated or closed stays as it is,    *)
(* whatever was in progress when it ended.                                 *)
THEOREM TerminalForGood == Spec => TerminalIsFinal
<1>1. IInv /\ [Next]_vars =>
         [case.status \in Terminal => UNCHANGED <<case, attached, revisions>>]_vars
  BY TerminalStays
<1> QED
  BY <1>1, Invariance, PTL DEF Spec, TerminalIsFinal

-----------------------------------------------------------------------------
(* Decision implements AtomicRecord.  A request that is not refused on     *)
(* what it read would not be refused on the case as it is: the row is the  *)
(* same, research is only added, and the outcome is missing until the end. *)

OutcomeEnds == "outcome" \in attached => case.status = "closed"

LEMMA StepOutcome == IInv /\ OutcomeEnds /\ [Next]_vars => OutcomeEnds'
<1> SUFFICES ASSUME IInv, OutcomeEnds, [Next]_vars, "outcome" \in attached'
             PROVE  case'.status = "closed"
  BY DEF OutcomeEnds
<1>1. CASE "outcome" \in attached
  BY <1>1, TerminalStays DEF OutcomeEnds, Terminal
<1>2. CASE "outcome" \notin attached
  <2>1. PICK c \in Client : Changed(c)
    BY <1>2, StepChanges
  <2>2. request[c].work \in Work /\ "outcome" \in Attaches(request[c])
    BY <1>2, <2>1 DEF Changed
  <2>3. request[c].work.kind = "close"
    BY <2>2, WorkKinds DEF Attaches, Research
  <2>4. NextStatus(request[c]) = "closed"
    BY <2>3 DEF NextStatus, StartsReview
  <2> QED
    BY <2>1, <2>4 DEF Changed, CaseAfter
<1> QED
  BY <1>1, <1>2

(* The request that makes the change, had it read the case as it is. *)
AsIf(c) ==
    [work |-> request[c].work,
     case |-> [status |-> case.status, estimate |-> case.estimate,
               current_version |-> Len(revisions), lock_version |-> 1],
     attached |-> attached]

LEMMA NotRefusedEither ==
    ASSUME IInv, OutcomeEnds, NEW c \in Client, Changed(c)
    PROVE  ~Refuses(AsIf(c))
<1>1. /\ request[c].work.kind \in {"add", "revise", "activate", "invalidate", "close"}
      /\ request[c].case = case /\ request[c].attached \subseteq attached
      /\ ~Refuses(request[c])
  BY WorkKinds DEF Changed
<1>2. /\ AsIf(c).work = request[c].work /\ AsIf(c).attached = attached
      /\ AsIf(c).case.status = case.status
  BY DEF AsIf
<1>3. CASE request[c].work.kind \in {"add", "revise"}
  BY <1>1, <1>2, <1>3 DEF Refuses, Editable
<1>4. CASE request[c].work.kind = "activate"
  <2>1. case.status = "under_review" /\ Gaps(request[c].attached) = {}
    BY <1>1, <1>4 DEF Refuses
  <2>2. Gaps(attached) = {}
    BY <1>1, <2>1 DEF Gaps
  <2> QED
    BY <1>2, <1>4, <2>1, <2>2 DEF Refuses
<1>5. CASE request[c].work.kind = "invalidate"
  BY <1>1, <1>2, <1>5 DEF Refuses
<1>6. CASE request[c].work.kind = "close"
  BY <1>1, <1>2, <1>6 DEF Refuses, OutcomeEnds
<1> QED
  BY <1>1, <1>3, <1>4, <1>5, <1>6

(* What the change writes does not depend on the version it starts from. *)
LEMMA SameChange ==
    ASSUME IInv, HistoryIsComplete, NEW c \in Client, Changed(c)
    PROVE  /\ AppendsRevision(AsIf(c)) = AppendsRevision(request[c])
           /\ Attaches(AsIf(c)) = Attaches(request[c])
           /\ CaseAfter(AsIf(c)).status = case'.status
           /\ CaseAfter(AsIf(c)).estimate = case'.estimate
           /\ RevisionOf(CaseAfter(AsIf(c)), EventOf(AsIf(c)))
                = RevisionOf(case', EventOf(request[c]))
<1>1. request[c].case = case /\ case' = CaseAfter(request[c])
  BY DEF Changed
<1>2. /\ AsIf(c).work = request[c].work
      /\ AsIf(c).case.status = case.status
      /\ AsIf(c).case.estimate = case.estimate
      /\ AsIf(c).case.current_version = case.current_version
  BY DEF AsIf, HistoryIsComplete
<1>3. StartsReview(AsIf(c)) = StartsReview(request[c])
  BY <1>1, <1>2 DEF StartsReview
<1>4. AppendsRevision(AsIf(c)) = AppendsRevision(request[c])
  BY <1>2, <1>3 DEF AppendsRevision
<1>5. Attaches(AsIf(c)) = Attaches(request[c]) /\ EventOf(AsIf(c)) = EventOf(request[c])
  BY <1>2 DEF Attaches, EventOf
<1>6. NextStatus(AsIf(c)) = NextStatus(request[c])
  BY <1>1, <1>2, <1>3 DEF NextStatus
<1>7. /\ CaseAfter(AsIf(c)).status = case'.status
      /\ CaseAfter(AsIf(c)).estimate = case'.estimate
      /\ CaseAfter(AsIf(c)).current_version = case'.current_version
  BY <1>1, <1>2, <1>4, <1>6 DEF CaseAfter
<1> QED
  BY <1>4, <1>5, <1>7 DEF RevisionOf

LEMMA ChangeMaps ==
    ASSUME IInv, HistoryIsComplete, OutcomeEnds, NEW c \in Client, Changed(c)
    PROVE  Atomic!Change
<1> DEFINE old == Content(case, attached, revisions)
           new == Content(case', attached', revisions')
           work == request[c].work
<1>1. work \in Work
  BY DEF Changed
<1>2. old.status = case.status /\ old.estimate = case.estimate
      /\ old.attached = attached /\ old.revisions = revisions
  BY DEF Content
<1>3. /\ attached' = attached \cup Attaches(AsIf(c))
      /\ revisions' = IF AppendsRevision(AsIf(c))
            THEN Append(revisions, RevisionOf(CaseAfter(AsIf(c)), EventOf(AsIf(c))))
            ELSE revisions
  BY SameChange DEF Changed
<1>4. new = Content(CaseAfter(AsIf(c)), attached \cup Attaches(AsIf(c)),
             IF AppendsRevision(AsIf(c))
             THEN Append(revisions, RevisionOf(CaseAfter(AsIf(c)), EventOf(AsIf(c))))
             ELSE revisions)
  BY <1>3, SameChange DEF Content
<1> HIDE DEF old, new
<1>5. Changes(old, new)
  BY <1>1, <1>2, <1>4, NotRefusedEither DEF Changes, AsIf
<1>6. case'.lock_version - Cardinality(Given) = (case.lock_version - Cardinality(Given)) + 1
  <2>1. case'.lock_version = case.lock_version + 1 /\ case.lock_version \in Nat
    <3>1. case \in Case /\ request[c].case = case
      BY DEF IInv, TypeOK, Changed
    <3> QED
      BY <3>1, <1>1, CaseAfterIsCase DEF Changed, Case
  <2> QED
    BY <2>1, GivenIsCounted
<1> QED
  BY <1>5, <1>6 DEF Atomic!Change, old, new

(* Overlapping requests change a case as if one after the other, each on   *)
(* the case, the research and the history as they are at its commit.       *)
THEOREM AtomicImplemented == Spec => ImplementsAtomicRecord
<1>1. Init => Atomic!Init /\ OutcomeEnds
  <2> SUFFICES ASSUME Init PROVE Atomic!Init /\ OutcomeEnds
    OBVIOUS
  <2>1. case.lock_version - Cardinality(Given) = 1
    BY GivenIsCounted DEF Init, NewCase
  <2>2. OutcomeEnds
    BY DecisionAssumption DEF DecisionAssumption, Init, OutcomeEnds, Research
  <2> QED
    BY <2>1, <2>2 DEF Init, Atomic!Init
<1>2. IInv /\ HistoryIsComplete /\ OutcomeEnds /\ [Next]_vars => [Atomic!Change]_(Atomic!vars)
  <2> SUFFICES ASSUME IInv, HistoryIsComplete, OutcomeEnds, [Next]_vars
               PROVE  [Atomic!Change]_(Atomic!vars)
    OBVIOUS
  <2>1. CASE UNCHANGED <<case, attached, revisions>>
    BY <2>1 DEF Atomic!vars, Content
  <2>2. ASSUME NEW c \in Client, Changed(c) PROVE Atomic!Change
    BY <2>2, ChangeMaps
  <2> QED
    BY <2>1, <2>2, StepChanges
<1> QED
  BY <1>1, <1>2, StepOutcome, Invariance, HistoryAlways, PTL
     DEF Spec, ImplementsAtomicRecord, Atomic!Spec

-----------------------------------------------------------------------------
(* Journals, which overlapping requests close.                             *)
(* A version names one row: a request whose version is still current read  *)
(* the row as it is.                                                       *)
JournalSeen(c) ==
    LET r == journalRequest[c] IN
    r # Journals!Idle =>
      /\ r.journal \in DOMAIN journals
      /\ r.row \in Journals!Journal
      /\ r.row.lock_version <= journals[r.journal].lock_version
      /\ r.row.lock_version = journals[r.journal].lock_version => r.row = journals[r.journal]

(* An open journal has no outcome. *)
JournalInv ==
    /\ investors \in 0 .. MaxInvestors
    /\ journals \in Seq(Journals!Journal) /\ Len(journals) <= MaxJournals
    /\ \A i \in DOMAIN journals :
         /\ journals[i].investor <= investors
         /\ journals[i].status = "draft" => journals[i].outcome = Open
    /\ journalRequest \in [Client -> [journal : Nat, row : Journals!Journal] \cup {Journals!Idle}]
    /\ \A c \in Client : JournalSeen(c)

(* The row that journalRequest writes. *)
Closed(row, c) == [row EXCEPT !.status = "closed", !.outcome = c, !.lock_version = @ + 1]

(* What a step does to the journals. *)
Closes(c) ==
    LET i == journalRequest[c].journal IN
    /\ i \in DOMAIN journals
    /\ ~Journals!Terminal(journals[i]) /\ journals[i] \in Journals!Journal
    /\ journals' = [journals EXCEPT ![i] = Closed(journals[i], c)]

(* Rows are added, and change only with their version. *)
JournalsGrow ==
    /\ journals' \in Seq(Journals!Journal)
    /\ Len(journals) \in Nat /\ Len(journals') \in Nat /\ Len(journals) <= Len(journals')
    /\ \A i \in DOMAIN journals :
         \/ journals'[i] = journals[i]
         \/ journals'[i].lock_version = journals[i].lock_version + 1

LEMMA NewJournalIsJournal ==
    ASSUME NEW investor \in 1 .. MaxInvestors
    PROVE  Journals!NewJournal(investor) \in Journals!Journal
BY DEF Journals!NewJournal, Journals!Journal, Journals!Status

LEMMA JournalRows ==
    ASSUME JournalInv, NEW i \in DOMAIN journals
    PROVE  /\ i \in Nat /\ journals[i] \in Journals!Journal
           /\ journals[i].investor \in Nat /\ journals[i].lock_version \in Nat \ {0}
<1>1. i \in Nat /\ journals[i] \in Journals!Journal
  BY DEF JournalInv
<1> QED
  BY <1>1 DEF Journals!Journal

LEMMA ClosedIsJournal ==
    ASSUME NEW row \in Journals!Journal, NEW c \in Client, NEW new,
           new = Closed(row, c)
    PROVE  /\ new \in Journals!Journal /\ new.investor = row.investor
           /\ new.status = "closed" /\ new.outcome = c
           /\ new.lock_version = row.lock_version + 1
<1>1. /\ row.investor \in 1 .. MaxInvestors /\ row.lock_version \in Nat \ {0}
      /\ row = [investor |-> row.investor, status |-> row.status,
                outcome |-> row.outcome, lock_version |-> row.lock_version]
  BY DEF Journals!Journal
<1>2. new = [investor |-> row.investor, status |-> "closed",
             outcome |-> c, lock_version |-> row.lock_version + 1]
  BY <1>1 DEF Closed
<1>3. row.lock_version + 1 \in Nat \ {0}
  BY <1>1
<1> QED
  BY <1>1, <1>2, <1>3 DEF Journals!Journal, Journals!Status

LEMMA SeenStays ==
    ASSUME JournalInv, JournalsGrow, NEW c \in Client, journalRequest'[c] = journalRequest[c]
    PROVE  JournalSeen(c)'
<1> DEFINE r == journalRequest[c]
           i == r.journal
<1>1. CASE r = Journals!Idle
  BY <1>1 DEF JournalSeen, Journals!Idle, Journals!NewJournal
<1>2. CASE r # Journals!Idle
  <2>1. /\ i \in DOMAIN journals /\ r.row \in Journals!Journal /\ journals[i] \in Journals!Journal
        /\ r.row.lock_version <= journals[i].lock_version
        /\ r.row.lock_version = journals[i].lock_version => r.row = journals[i]
    BY <1>2 DEF JournalInv, JournalSeen
  <2>2. i \in DOMAIN journals'
    BY <2>1 DEF JournalInv, JournalsGrow
  <2>3. r.row.lock_version \in Nat /\ journals[i].lock_version \in Nat
    BY <2>1 DEF Journals!Journal
  <2> HIDE DEF i
  <2>4. /\ r.row.lock_version <= journals'[i].lock_version
        /\ r.row.lock_version = journals'[i].lock_version => r.row = journals'[i]
    BY <2>1, <2>3 DEF JournalsGrow
  <2> QED
    BY <2>1, <2>2, <2>4 DEF JournalSeen, i
<1> QED
  BY <1>1, <1>2

LEMMA CloseReads ==
    ASSUME JournalInv, NEW c \in Client, Journals!CloseJournal(c)
    PROVE  Closes(c)
<1> DEFINE r == journalRequest[c]
           i == r.journal
<1>1. /\ r # Journals!Idle /\ ~Journals!Terminal(r.row) /\ journals[i].lock_version = r.row.lock_version
      /\ journals' = [journals EXCEPT ![i] =
           [r.row EXCEPT !.status = "closed", !.outcome = c, !.lock_version = @ + 1]]
  BY DEF Journals!CloseJournal, Journals!IsCurrent
<1>2. i \in DOMAIN journals /\ r.row = journals[i] /\ r.row \in Journals!Journal
  BY <1>1 DEF JournalInv, JournalSeen
<1> QED
  BY <1>1, <1>2 DEF Closes, Closed

LEMMA JournalStep == ASSUME Journals!JournalAssumption, JournalInv, [Journals!Next]_(Journals!vars) PROVE JournalInv'
<1>1. CASE Journals!CreateInvestorProfile
  <2>1. investors' \in 0 .. MaxInvestors /\ investors' >= investors /\ investors \in Nat
    BY <1>1 DEF Journals!CreateInvestorProfile, JournalInv, Journals!JournalAssumption
  <2>2. UNCHANGED <<journals, journalRequest>>
    BY <1>1 DEF Journals!CreateInvestorProfile
  <2>3. \A i \in DOMAIN journals : journals[i].investor \in Nat
    BY JournalRows
  <2> QED
    BY <2>1, <2>2, <2>3 DEF JournalInv, JournalSeen
<1>2. CASE Journals!CreateJournal
  <2>1. PICK investor \in 1 .. investors : journals' = Append(journals, Journals!NewJournal(investor))
    BY <1>2 DEF Journals!CreateJournal
  <2> DEFINE row == Journals!NewJournal(investor)
  <2>2. /\ row \in Journals!Journal /\ row.investor <= investors
        /\ row.status = "draft" /\ row.outcome = Open
    BY NewJournalIsJournal DEF JournalInv, Journals!JournalAssumption, Journals!NewJournal
  <2> HIDE DEF row
  <2>3. UNCHANGED <<investors, journalRequest>> /\ Len(journals) < MaxJournals
    BY <1>2 DEF Journals!CreateJournal
  <2>4. /\ journals' \in Seq(Journals!Journal) /\ Len(journals') = Len(journals) + 1 /\ Len(journals) \in Nat
        /\ \A i \in DOMAIN journals : journals'[i] = journals[i]
        /\ \A i \in DOMAIN journals' : i \in DOMAIN journals \/ journals'[i] = row
    BY <2>1, <2>2 DEF JournalInv, row
  <2>5. JournalsGrow
    BY <2>4 DEF JournalsGrow
  <2>6. \A c \in Client : JournalSeen(c)'
    BY <2>3, <2>5, SeenStays
  <2> QED
    BY <2>2, <2>3, <2>4, <2>6 DEF JournalInv, Journals!JournalAssumption
<1>3. ASSUME NEW c \in Client, Journals!LoadJournal(c) PROVE JournalInv'
  <2>1. PICK i \in DOMAIN journals :
          journalRequest' = [journalRequest EXCEPT ![c] = [journal |-> i, row |-> journals[i]]]
    BY <1>3 DEF Journals!LoadJournal
  <2>2. UNCHANGED <<investors, journals>>
    BY <1>3 DEF Journals!LoadJournal
  <2>3. i \in Nat /\ journals[i] \in Journals!Journal /\ journals[i].lock_version \in Nat
    BY JournalRows
  <2>4. journalRequest' \in [Client -> [journal : Nat, row : Journals!Journal] \cup {Journals!Idle}]
    BY <2>1, <2>3 DEF JournalInv, Journals!Idle, Journals!NewJournal
  <2>5. \A d \in Client : d # c => journalRequest'[d] = journalRequest[d]
    BY <2>1 DEF JournalInv
  <2>6. journalRequest'[c] = [journal |-> i, row |-> journals[i]]
    BY <2>1 DEF JournalInv
  <2>7. JournalSeen(c)'
    BY <2>2, <2>3, <2>6 DEF JournalSeen
  <2>8. \A d \in Client : JournalSeen(d)'
    BY <2>2, <2>5, <2>7 DEF JournalInv, JournalSeen, Journals!Idle, Journals!NewJournal
  <2> QED
    BY <2>2, <2>4, <2>8 DEF JournalInv
<1>4. ASSUME NEW c \in Client, Journals!Reply(c) PROVE
        /\ journalRequest' \in [Client -> [journal : Nat, row : Journals!Journal] \cup {Journals!Idle}]
        /\ journalRequest'[c] = Journals!Idle /\ \A d \in Client : d # c => journalRequest'[d] = journalRequest[d]
        /\ JournalSeen(c)'
  <2>1. journalRequest' = [journalRequest EXCEPT ![c] = Journals!Idle] /\ Journals!Idle' = Journals!Idle
    BY <1>4 DEF Journals!Reply, Journals!Idle, Journals!NewJournal
  <2>2. journalRequest'[c] = Journals!Idle
    BY <2>1 DEF JournalInv
  <2> QED
    BY <2>1, <2>2 DEF JournalInv, JournalSeen
<1>5. ASSUME NEW c \in Client, Journals!Refuse(c) PROVE JournalInv'
  <2>1. UNCHANGED <<investors, journals>> /\ Journals!Reply(c)
    BY <1>5 DEF Journals!Refuse
  <2>2. \A d \in Client : JournalSeen(d)'
    BY <1>4, <2>1 DEF JournalInv, JournalSeen, Journals!Idle, Journals!NewJournal
  <2> QED
    BY <1>4, <2>1, <2>2 DEF JournalInv
<1>6. ASSUME NEW c \in Client, Journals!CloseJournal(c) PROVE JournalInv'
  <2> DEFINE i == journalRequest[c].journal
             row == Closed(journals[i], c)
  <2>1. Closes(c) /\ Journals!Reply(c) /\ UNCHANGED investors
    BY <1>6, CloseReads DEF Journals!CloseJournal
  <2>2. i \in DOMAIN journals /\ journals[i] \in Journals!Journal /\ journals' = [journals EXCEPT ![i] = row]
    BY <2>1 DEF Closes
  <2>3. /\ row \in Journals!Journal /\ row.investor = journals[i].investor /\ row.status # "draft"
        /\ row.lock_version = journals[i].lock_version + 1
    BY <2>2, ClosedIsJournal
  <2> HIDE DEF row, i
  <2>4. /\ journals' \in Seq(Journals!Journal) /\ DOMAIN journals' = DOMAIN journals
        /\ Len(journals') = Len(journals) /\ Len(journals) \in Nat
        /\ journals'[i] = row /\ \A j \in DOMAIN journals : j # i => journals'[j] = journals[j]
    BY <2>2, <2>3 DEF JournalInv
  <2>5. JournalsGrow
    BY <2>3, <2>4 DEF JournalsGrow
  <2>6. \A d \in Client : JournalSeen(d)'
    BY <1>4, <2>1, <2>5, SeenStays
  <2> QED
    BY <1>4, <2>1, <2>2, <2>3, <2>4, <2>6 DEF JournalInv
<1>7. CASE UNCHANGED Journals!vars
  BY <1>7 DEF Journals!vars, JournalInv, JournalSeen, Journals!Idle, Journals!NewJournal
<1> QED
  BY <1>1, <1>2, <1>3, <1>5, <1>6, <1>7 DEF Journals!Next

(* A journal is closed by one request, which read it open.                 *)
LEMMA JournalChanges ==
    ASSUME JournalInv, [Journals!Next]_(Journals!vars)
    PROVE  \A i \in DOMAIN journals : [Journals!Atomic(i)!Change]_(Journals!Atomic(i)!vars)
<1> SUFFICES ASSUME NEW i \in DOMAIN journals PROVE [Journals!Atomic(i)!Change]_(Journals!Atomic(i)!vars)
  OBVIOUS
<1>1. CASE journals'[i] = journals[i]
  BY <1>1 DEF Journals!Atomic!vars, Journals!Content
<1>2. ASSUME NEW c \in Client, Journals!CloseJournal(c)
      PROVE  journals'[i] = journals[i] \/ Journals!Atomic(i)!Change
  <2> DEFINE j == journalRequest[c].journal
             new == Closed(journals[j], c)
  <2>1. /\ j \in DOMAIN journals /\ ~Journals!Terminal(journals[j]) /\ journals[j] \in Journals!Journal
        /\ journals' = [journals EXCEPT ![j] = new]
    BY <1>2, CloseReads DEF Closes
  <2>2. /\ new.status = "closed" /\ new.outcome = c
        /\ new.lock_version = journals[j].lock_version + 1
    BY <2>1, ClosedIsJournal
  <2> HIDE DEF j, new
  <2>3. CASE i # j
    BY <2>1, <2>3 DEF JournalInv
  <2>4. CASE i = j
    <3>1. journals'[i] = new
      BY <2>1, <2>4 DEF JournalInv
    <3>2. journals[i].status = "draft" /\ journals[i].outcome = Open
      BY <2>1, <2>4 DEF Journals!Terminal, Journals!Journal, Journals!Status
    <3>3. Journals!Content(journals[i]) = Journals!Content(Journals!NewJournal(1))
      BY <3>2 DEF Journals!Content, Journals!NewJournal
    <3>4. Journals!Content(journals'[i]) = [status |-> "closed", outcome |-> c]
      BY <2>2, <3>1 DEF Journals!Content
    <3>5. Journals!Changes(Journals!Content(journals[i]), Journals!Content(journals'[i]))
      BY <3>3, <3>4 DEF Journals!Changes
    <3>6. journals'[i].lock_version = journals[i].lock_version + 1
      BY <2>2, <2>4, <3>1
    <3> QED
      BY <3>5, <3>6 DEF Journals!Atomic!Change
  <2> QED
    BY <2>3, <2>4
<1>3. CASE Journals!CreateJournal
  <2>1. PICK investor : journals' = Append(journals, Journals!NewJournal(investor))
    BY <1>3 DEF Journals!CreateJournal
  <2>2. journals'[i] = journals[i]
    BY <2>1 DEF JournalInv
  <2> QED
    BY <1>1, <2>2
<1>4. CASE UNCHANGED journals
  BY <1>1, <1>4
<1> QED
  BY <1>1, <1>2, <1>3, <1>4 DEF Journals!Next, Journals!CreateInvestorProfile, Journals!LoadJournal, Journals!Refuse, Journals!vars

LEMMA JournalInit == ASSUME Journals!JournalAssumption, Journals!Init PROVE JournalInv
BY EmptySeq DEF Journals!JournalAssumption, Journals!Init, JournalInv, JournalSeen

(* Investors, journals and requests have their types. *)
THEOREM JournalsTyped ==
    ASSUME Journals!JournalAssumption
    PROVE  Journals!Spec => []Journals!TypeOK
<1>1. JournalInv => Journals!TypeOK
  <2> SUFFICES ASSUME JournalInv PROVE Journals!TypeOK
    OBVIOUS
  <2>1. ASSUME NEW c \in Client PROVE journalRequest[c].journal \in 0 .. Len(journals)
    <3>1. Len(journals) \in Nat /\ DOMAIN journals = 1 .. Len(journals)
      BY DEF JournalInv
    <3> QED
      BY <3>1 DEF JournalInv, JournalSeen, Journals!Idle
  <2> QED
    BY <2>1 DEF JournalInv, Journals!TypeOK
<1>2. JournalInv /\ [Journals!Next]_(Journals!vars) => JournalInv'
  BY JournalStep
<1> QED
  BY <1>1, <1>2, JournalInit, PTL DEF Journals!Spec

(* Of clients that overlap in journalRequest a journal one succeeds: a journal    *)
(* goes once from open to closed, with the outcome of the client that did. *)
THEOREM JournalsAtomic ==
    ASSUME Journals!JournalAssumption
    PROVE  Journals!Spec => Journals!ImplementsAtomicRecord
<1>1. JournalInv /\ [Journals!Next]_(Journals!vars)
        => [\A i \in DOMAIN journals : [Journals!Atomic(i)!Change]_(Journals!Atomic(i)!vars)]_journals
  BY JournalChanges
<1>2. JournalInv /\ [Journals!Next]_(Journals!vars) => JournalInv'
  BY JournalStep
<1> QED
  BY <1>1, <1>2, JournalInit, PTL DEF Journals!Spec, Journals!ImplementsAtomicRecord

-----------------------------------------------------------------------------
(* The services side by side (MCServices): a behaviour of all of them is a *)
(* behaviour of each, so that each keeps in the run what it keeps alone.   *)
servicesVars ==
    <<part, vars, portfolioVars, journalVars, qualityVars, fredVars, analyticsVars,
      dashboardVars, calculationVars>>

(* The parts that have their variables from another one. *)
Scans == part = "scan"
Compares == part = "comparison"

LEMMA DecisionRuns == ServicesSpec => Spec
<1>1. ServicesInit => Init
  BY DEF ServicesInit
<1>2. [ServicesNext]_servicesVars => [Next]_vars
  BY DEF ServicesNext, servicesVars, vars
<1> QED
  BY <1>1, <1>2, PTL DEF ServicesSpec, servicesVars, Spec

LEMMA PortfolioRuns == ServicesSpec => Portfolios!Spec
<1>1. ServicesInit => Portfolios!Init
  BY DEF ServicesInit
<1>2. [ServicesNext]_servicesVars => [Portfolios!Next]_(Portfolios!vars)
  BY DEF ServicesNext, servicesVars, portfolioVars, Portfolios!vars
<1> QED
  BY <1>1, <1>2, PTL DEF ServicesSpec, servicesVars, Portfolios!Spec

LEMMA JournalRuns == ServicesSpec => Journals!Spec
<1>1. ServicesInit => Journals!Init
  BY DEF ServicesInit
<1>2. [ServicesNext]_servicesVars => [Journals!Next]_(Journals!vars)
  BY DEF ServicesNext, servicesVars, journalVars, Journals!vars
<1> QED
  BY <1>1, <1>2, PTL DEF ServicesSpec, servicesVars, Journals!Spec

LEMMA FredRuns == ServicesSpec => Fred!Spec
<1>1. ServicesInit => Fred!Init
  BY DEF ServicesInit
<1>2. [ServicesNext]_servicesVars => [Fred!Next]_(Fred!vars)
  BY DEF ServicesNext, servicesVars, fredVars, Fred!vars
<1> QED
  BY <1>1, <1>2, PTL DEF ServicesSpec, servicesVars, Fred!Spec

LEMMA AnalyticsRuns == ServicesSpec => Analyses!Spec
<1>1. ServicesInit => Analyses!Init
  BY DEF ServicesInit
<1>2. [ServicesNext]_servicesVars => [Analyses!Next]_(Analyses!vars)
  BY DEF ServicesNext, servicesVars, analyticsVars, Analyses!vars
<1> QED
  BY <1>1, <1>2, PTL DEF ServicesSpec, servicesVars, Analyses!Spec

LEMMA CalculationRuns == ServicesSpec => Analyses!T!Spec
<1>1. ServicesInit => Analyses!T!Init
  BY DEF ServicesInit
<1>2. [ServicesNext]_servicesVars => [Analyses!T!Next]_(Analyses!T!vars)
  BY DEF ServicesNext, servicesVars, calculationVars, Analyses!T!vars
<1> QED
  BY <1>1, <1>2, PTL DEF ServicesSpec, servicesVars, Analyses!T!Spec

LEMMA QualityRuns == ServicesSpec /\ ~Scans => Quality!Spec /\ [](~Scans)
<1>1. ServicesInit /\ ~Scans => Quality!Init
  BY DEF ServicesInit, Scans
<1>2. ~Scans /\ [ServicesNext]_servicesVars => [Quality!Next]_(Quality!vars) /\ (~Scans)'
  BY DEF ServicesNext, servicesVars, qualityVars, Scans, Quality!vars
<1> QED
  BY <1>1, <1>2, PTL DEF ServicesSpec, servicesVars, Quality!Spec

LEMMA ScanRuns == ServicesSpec /\ Scans => Scan!Spec /\ [](Scans)
<1>1. ServicesInit /\ Scans => Scan!Init
  BY DEF ServicesInit, Scans
<1>2. Scans /\ [ServicesNext]_servicesVars => [Scan!Next]_(Scan!vars) /\ (Scans)'
  BY DEF ServicesNext, servicesVars, qualityVars, Scans, Scan!vars
<1> QED
  BY <1>1, <1>2, PTL DEF ServicesSpec, servicesVars, Scan!Spec

LEMMA BoardsRuns == ServicesSpec /\ ~Compares => Analyses!D!Spec /\ [](~Compares)
<1>1. ServicesInit /\ ~Compares => Analyses!D!Init
  BY DEF ServicesInit, Compares
<1>2. ~Compares /\ [ServicesNext]_servicesVars => [Analyses!D!Next]_(Analyses!D!vars) /\ (~Compares)'
  BY DEF ServicesNext, servicesVars, dashboardVars, Compares, Analyses!D!vars
<1> QED
  BY <1>1, <1>2, PTL DEF ServicesSpec, servicesVars, Analyses!D!Spec

(* The comparisons are the dashboard of Analytics_proofs with their own    *)
(* constants.                                                              *)
Compared == INSTANCE Analytics_proofs WITH
    MaxTime <- 1, MaxRevisions <- 1, MaxLock <- 2, MaxRuns <- 0,
    revisions <- sourceRevisions, runs <- analyticsRuns, request <- analyticsRequest,
    Value <- {}, BaseValue <- 1, MaxOutput <- 1, Definitions <- {},
    asked <- version, last <- run,
    Observed <- {-3, 0, 4}, Derived <- {}, MaxValue <- 250, StaleAfter <- 1,
    MaxDay <- 3, MaxVersions <- 1,
    day <- today, frequencies <- versions, shownRuns <- derivedRuns

LEMMA ComparedAssumption == Comparisons!DashboardAssumption <=> Compared!D!DashboardAssumption
BY DEF Comparisons!DashboardAssumption, Compared!D!DashboardAssumption

LEMMA ComparedInit == Comparisons!Init <=> Compared!D!Init
BY DEF Comparisons!Init, Compared!D!Init, Comparisons!Frequency, Compared!D!Frequency,
   Comparisons!NoView, Compared!D!NoView

LEMMA ComparedNext == Comparisons!Next <=> Compared!D!Next
<1>1. Comparisons!Tick <=> Compared!D!Tick
  BY DEF Comparisons!Tick, Compared!D!Tick
<1>2. Comparisons!Observe <=> Compared!D!Observe
  BY DEF Comparisons!Observe, Compared!D!Observe, Comparisons!Point, Compared!D!Point,
     Comparisons!Missing, Compared!D!Missing
<1>3. Comparisons!Revise <=> Compared!D!Revise
  BY DEF Comparisons!Revise, Compared!D!Revise, Comparisons!Point, Compared!D!Point,
     Comparisons!Missing, Compared!D!Missing
<1>4. Comparisons!CreateVersion <=> Compared!D!CreateVersion
  BY DEF Comparisons!CreateVersion, Compared!D!CreateVersion, Comparisons!Frequency,
     Compared!D!Frequency
<1>5. Comparisons!CommitRun <=> Compared!D!CommitRun
  BY DEF Comparisons!CommitRun, Compared!D!CommitRun, Comparisons!Missing, Compared!D!Missing,
     Comparisons!Max, Compared!D!Max
<1>6. Comparisons!ReadObservations <=> Compared!D!ReadObservations
  BY DEF Comparisons!ReadObservations, Compared!D!ReadObservations, Comparisons!Newest,
     Compared!D!Newest, Comparisons!Max, Compared!D!Max
<1>7. Comparisons!ReadRevisions <=> Compared!D!ReadRevisions
  BY DEF Comparisons!ReadRevisions, Compared!D!ReadRevisions, Comparisons!ValueAt,
     Compared!D!ValueAt, Comparisons!Absent, Compared!D!Absent
<1>8. Comparisons!ReadVersion <=> Compared!D!ReadVersion
  BY DEF Comparisons!ReadVersion, Compared!D!ReadVersion, Comparisons!With, Compared!D!With
<1>9. Comparisons!ReadRun <=> Compared!D!ReadRun
  BY DEF Comparisons!ReadRun, Compared!D!ReadRun, Comparisons!With, Compared!D!With,
     Comparisons!Newest, Compared!D!Newest, Comparisons!Max, Compared!D!Max,
     Comparisons!RunsOf, Compared!D!RunsOf
<1>10. Comparisons!ReadOutput <=> Compared!D!ReadOutput
  BY DEF Comparisons!ReadOutput, Compared!D!ReadOutput, Comparisons!With, Compared!D!With,
     Comparisons!OutputOf, Compared!D!OutputOf, Comparisons!Missing, Compared!D!Missing
<1> QED
  BY <1>1, <1>2, <1>3, <1>4, <1>5, <1>6, <1>7, <1>8, <1>9, <1>10
     DEF Comparisons!Next, Compared!D!Next

LEMMA ComparedTypeOK == Comparisons!TypeOK <=> Compared!D!TypeOK
BY DEF Comparisons!TypeOK, Compared!D!TypeOK, Comparisons!Day, Compared!D!Day,
   Comparisons!Point, Compared!D!Point, Comparisons!Missing, Compared!D!Missing,
   Comparisons!Frequency, Compared!D!Frequency, Comparisons!Run, Compared!D!Run

LEMMA ComparedTogether == Comparisons!ComparisonsBelongTogether <=> Compared!D!ComparisonsBelongTogether
BY DEF Comparisons!ComparisonsBelongTogether, Compared!D!ComparisonsBelongTogether,
   Comparisons!DerivedComparison, Compared!D!DerivedComparison, Comparisons!IsAvailable,
   Compared!D!IsAvailable, Comparisons!Missing, Compared!D!Missing, Comparisons!IsAnchored,
   Compared!D!IsAnchored, Comparisons!PreviousComparison, Compared!D!PreviousComparison,
   Comparisons!HalfEven, Compared!D!HalfEven, Comparisons!Abs, Compared!D!Abs,
   Comparisons!Comparison, Compared!D!Comparison, Comparisons!Absent, Compared!D!Absent,
   Comparisons!IsRepresentable, Compared!D!IsRepresentable, Comparisons!MetricState,
   Compared!D!MetricState, Comparisons!Freshness, Compared!D!Freshness, Comparisons!Age,
   Compared!D!Age


LEMMA ComparisonRuns ==
    ServicesSpec /\ Compares => Compared!D!Spec /\ []Compares
<1>1. ServicesInit => Compared!D!Init
  BY ComparedInit DEF ServicesInit, Compares, Analyses!D!Init, Comparisons!Init,
     Analyses!D!Frequency, Comparisons!Frequency, Analyses!D!NoView, Comparisons!NoView
<1>2. Compares /\ [ServicesNext]_servicesVars
        => [Compared!D!Next]_(Compared!D!vars) /\ Compares'
  BY ComparedNext DEF ServicesNext, servicesVars, dashboardVars, Compares, Compared!D!vars
<1> QED
  BY <1>1, <1>2, PTL DEF ServicesSpec, servicesVars, Compared!D!Spec

LEMMA PartsAlways == ServicesSpec => [](part \in Part)
<1>1. ServicesInit => part \in Part
  BY DEF ServicesInit
<1>2. part \in Part /\ [ServicesNext]_servicesVars => (part \in Part)'
  BY DEF ServicesNext, servicesVars, Part
<1> QED
  BY <1>1, <1>2, PTL DEF ServicesSpec, servicesVars

(* In the run, the state of the part that moves has its type. *)
THEOREM ServicesTyped == ServicesSpec => []ServicesTypeOK
<1>1. /\ Portfolios!Spec => []Portfolios!TypeOK
      /\ Spec => []TypeOK
      /\ Journals!Spec => []Journals!TypeOK
      /\ Fred!Spec => []Fred!TypeOK
      /\ Analyses!Spec => []Analyses!TypeOK
      /\ Analyses!T!Spec => []Analyses!T!TypeOK
  BY ServicesAssumption, Portfolios!TypeCorrect, TypeCorrect, JournalsTyped, Fred!TypeCorrect,
     Analyses!TypeCorrect, Analyses!CalculationsTyped
<1>2. ServicesSpec => []((Scans => Scan!TypeOK) /\ (~Scans => Quality!TypeOK))
  <2>1. Scan!Spec => []Scan!TypeOK
    BY ServicesAssumption, Scan!TypeCorrect
  <2>2. Quality!Spec => []Quality!TypeOK
    BY ServicesAssumption, Quality!TypeCorrect
  <2> QED
    BY <2>1, <2>2, QualityRuns, ScanRuns, PTL
<1>3. ServicesSpec => []((Compares => Comparisons!TypeOK) /\ (~Compares => Analyses!D!TypeOK))
  <2>1. Analyses!D!Spec => []Analyses!D!TypeOK
    BY ServicesAssumption, Analyses!DashboardsTyped
  <2>2. Compared!D!Spec => []Compared!D!TypeOK
    BY ServicesAssumption, ComparedAssumption, Compared!DashboardsTyped
  <2> QED
    BY <2>1, <2>2, ComparedTypeOK, BoardsRuns, ComparisonRuns, PTL
<1>4. part \in Part /\ Portfolios!TypeOK /\ TypeOK /\ Journals!TypeOK /\ Fred!TypeOK
      /\ Analyses!TypeOK /\ Analyses!T!TypeOK
      /\ ((Scans => Scan!TypeOK) /\ (~Scans => Quality!TypeOK))
      /\ ((Compares => Comparisons!TypeOK) /\ (~Compares => Analyses!D!TypeOK))
      => ServicesTypeOK
  BY DEF ServicesTypeOK, Part, Scans, Compares
<1> QED
  BY <1>1, <1>2, <1>3, <1>4, PartsAlways, PortfolioRuns, DecisionRuns, JournalRuns, FredRuns,
     AnalyticsRuns, CalculationRuns, PTL

(* In the run, the books of the portfolio add up to its transactions. *)
THEOREM ServicesBooks == ServicesSpec => []BooksAddUp
<1>1. Portfolios!Spec => []Portfolios!BooksAddUp
  BY ServicesAssumption, Portfolios!BooksAlways
<1>2. Portfolios!BooksAddUp => BooksAddUp
  BY DEF BooksAddUp
<1> QED
  BY <1>1, <1>2, PortfolioRuns, PTL

(* In the run, the pages that a call accepts make up the whole answer. *)
THEOREM ServicesPages == ServicesSpec => []PagesAreComplete
<1>1. Fred!Spec => []Fred!PagesAreComplete
  BY ServicesAssumption, Fred!PagesAlways
<1>2. Fred!PagesAreComplete => PagesAreComplete
  BY DEF PagesAreComplete
<1> QED
  BY <1>1, <1>2, FredRuns, PTL

(* In the run, a call ends after a bounded number of requests. *)
THEOREM ServicesRequests == ServicesSpec => []RequestsAreBounded
<1>1. Fred!Spec => []Fred!RequestsAreBounded
  BY ServicesAssumption, Fred!RequestsAlways
<1>2. Fred!RequestsAreBounded => RequestsAreBounded
  BY DEF RequestsAreBounded
<1> QED
  BY <1>1, <1>2, FredRuns, PTL

(* In the run, a request for analytics is answered with what its snapshot  *)
(* held.                                                                   *)
THEOREM ServicesAnswers == ServicesSpec => []AnswersAreExact
<1>1. Analyses!Spec => []Analyses!AnswersAreExact
  BY ServicesAssumption, Analyses!AnswersAlways
<1>2. Analyses!AnswersAreExact => AnswersAreExact
  BY DEF AnswersAreExact
<1> QED
  BY <1>1, <1>2, AnalyticsRuns, PTL

(* In the run, versions become current in the order of their numbers. *)
THEOREM ServicesVersions == ServicesSpec => []VersionsActivateInOrder
<1>1. Analyses!Spec => []Analyses!VersionsActivateInOrder
  BY ServicesAssumption, Analyses!VersionsAlways
<1>2. Analyses!VersionsActivateInOrder => VersionsActivateInOrder
  BY DEF VersionsActivateInOrder
<1> QED
  BY <1>1, <1>2, AnalyticsRuns, PTL

(* In the run, of one series over several scans and of several series in   *)
(* one, a series has one unresolved issue, with its whole life in events.  *)
THEOREM ServicesHistory == ServicesSpec => []IssueHistoryIsComplete
<1>1. Scan!Spec => []Scan!IssueHistoryIsComplete
  BY ServicesAssumption, Scan!HistoryAlways
<1>2. Quality!Spec => []Quality!IssueHistoryIsComplete
  BY ServicesAssumption, Quality!HistoryAlways
<1>3. ~Scans /\ Quality!IssueHistoryIsComplete => IssueHistoryIsComplete
  BY DEF IssueHistoryIsComplete, Scans
<1>4. Scans /\ Scan!IssueHistoryIsComplete => IssueHistoryIsComplete
  BY DEF IssueHistoryIsComplete, Scans
<1> QED
  BY <1>1, <1>2, <1>3, <1>4, QualityRuns, ScanRuns, PTL

(* In the run, a scan that succeeds leaves no stale series unreported. *)
THEOREM ServicesStale == ServicesSpec => StaleIsReported
<1>1. Scan!Spec => Scan!StaleIsReported
  BY ServicesAssumption, Scan!StaleAlways
<1>2. Quality!Spec => Quality!StaleIsReported
  BY ServicesAssumption, Quality!StaleAlways
<1>3. Quality!StaleIsReported => Scan!StaleIsReported
  BY DEF Quality!StaleIsReported, Scan!StaleIsReported, Quality!Idle, Scan!Idle,
     Quality!Conflicts, Scan!Conflicts, Quality!Unresolved, Scan!Unresolved,
     Quality!vars, Scan!vars
<1> QED
  BY <1>1, <1>2, <1>3, QualityRuns, ScanRuns, PTL DEF StaleIsReported

(* In the run, a run of the transformations is what was known at its       *)
(* cutoff, and its lineage shows how it came about.                        *)
THEOREM ServicesRuns == ServicesSpec => []RunsAreReproducible
<1>1. Analyses!T!Spec => []Analyses!T!RunsAreReproducible
  BY ServicesAssumption, Analyses!RunsReproducible
<1>2. Analyses!T!RunsAreReproducible => RunsAreReproducible
  BY DEF RunsAreReproducible
<1> QED
  BY <1>1, <1>2, CalculationRuns, PTL

(* In the run, what a dashboard compares belongs together. *)
THEOREM ServicesComparisons == ServicesSpec => []ComparisonsBelongTogether
<1>1. Analyses!D!Spec => []Analyses!D!ComparisonsBelongTogether
  BY ServicesAssumption, Analyses!ComparisonsAlways
<1>2. Compared!D!Spec => []Compared!D!ComparisonsBelongTogether
  BY ServicesAssumption, ComparedAssumption, Compared!ComparisonsAlways
<1>3. ~Compares /\ Analyses!D!ComparisonsBelongTogether => ComparisonsBelongTogether
  BY DEF ComparisonsBelongTogether, Compares
<1>4. Compares /\ Compared!D!ComparisonsBelongTogether => ComparisonsBelongTogether
  BY ComparedTogether DEF ComparisonsBelongTogether, Compares
<1> QED
  BY <1>1, <1>2, <1>3, <1>4, BoardsRuns, ComparisonRuns, PTL

(* In the run, requests that overlap change a portfolio, a decision, a     *)
(* journal and a series as if one after the other.                         *)
THEOREM ServicesAtomic == ServicesSpec => RecordsAreAtomic
<1>1. /\ Portfolios!Spec => Portfolios!ImplementsAtomicRecord
      /\ Spec => ImplementsAtomicRecord
      /\ Journals!Spec => Journals!ImplementsAtomicRecord
  BY ServicesAssumption, Portfolios!AtomicImplemented, AtomicImplemented, JournalsAtomic
<1>2. Scan!Spec => Scan!ImplementsAtomicRecord
  BY ServicesAssumption, Scan!AtomicImplemented
<1>3. Quality!Spec => Quality!ImplementsAtomicRecord
  BY ServicesAssumption, Quality!AtomicImplemented
<1>4. Scan!ImplementsAtomicRecord => Quality!ImplementsAtomicRecord
  <2>1. (\A s \in {s1, s2} : Scan!Atomic(s)!Init) => \A s \in {s1} : Quality!Atomic(s)!Init
    BY DEF Scan!Atomic!Init, Quality!Atomic!Init, Scan!Content, Quality!Content,
       Scan!NewRow, Quality!NewRow, Scan!Least, Quality!Least, Scan!Greatest, Quality!Greatest
  <2>2. [\A s \in {s1, s2} : [Scan!Atomic(s)!Change]_(Scan!Atomic(s)!vars)]_series
          => [\A s \in {s1} : [Quality!Atomic(s)!Change]_(Quality!Atomic(s)!vars)]_series
    BY DEF Scan!Atomic!Change, Quality!Atomic!Change, Scan!Atomic!vars, Quality!Atomic!vars,
       Scan!Content, Quality!Content, Scan!Changes, Quality!Changes, Scan!Patch, Quality!Patch,
       Scan!Patched, Quality!Patched, Scan!IsOrdered, Quality!IsOrdered
  <2> QED
    BY <2>1, <2>2, PTL DEF Scan!ImplementsAtomicRecord, Quality!ImplementsAtomicRecord
<1> QED
  BY <1>1, <1>2, <1>3, <1>4, PortfolioRuns, DecisionRuns, JournalRuns, QualityRuns, ScanRuns, PTL
     DEF RecordsAreAtomic
===============================================================================
