-------------------------------- MODULE Journal --------------------------------
(***************************************************************************)
(* Investor profiles and their research journals.                          *)
(*                                                                         *)
(* Source: services.py, models.py.  The texts of a journal are left out    *)
(* but for what closing it writes (outcome, lessons and closed_at), which  *)
(* is named after the client that wrote it.                                *)
(***************************************************************************)
EXTENDS Naturals, Sequences

CONSTANTS
    Client,       \* requests that may be in flight together
    Open,         \* what an open journal has for its outcome: nothing
    MaxInvestors, MaxJournals  \* bounds on the rows

(* MCServices assumes it of its instance. *)
JournalAssumption ==
    Open \notin Client /\ MaxInvestors \in Nat /\ MaxJournals \in Nat

VARIABLES
    investors,  \* number of investor_profiles, with a risk profile and a budget each
    journals,   \* rows of research_journals, by id
    request     \* [Client -> request in progress]

vars == <<investors, journals, request>>

-----------------------------------------------------------------------------
Status == {"draft", "closed"}

Journal == [investor : 1 .. MaxInvestors, status : Status,
            outcome : Client \cup {Open}, lock_version : Nat \ {0}]

NewJournal(investor) ==
    [investor |-> investor, status |-> "draft", outcome |-> Open, lock_version |-> 1]

Idle == [journal |-> 0, row |-> NewJournal(1)]

TypeOK ==
    /\ investors \in 0 .. MaxInvestors
    /\ journals \in Seq(Journal) /\ Len(journals) <= MaxJournals
    /\ \A i \in DOMAIN journals : journals[i].investor <= investors
    /\ \A c \in Client : request[c].journal \in 0 .. Len(journals)

Init == investors = 0 /\ journals = <<>> /\ request = [c \in Client |-> Idle]

-----------------------------------------------------------------------------
CreateInvestorProfile ==
    /\ investors < MaxInvestors
    /\ investors' = investors + 1
    /\ UNCHANGED <<journals, request>>

(* No profile is ever deleted: the check and the insertion are one step. *)
CreateJournal ==
    /\ Len(journals) < MaxJournals
    /\ \E investor \in 1 .. investors : journals' = Append(journals, NewJournal(investor))
    /\ UNCHANGED <<investors, request>>

(* get_journal *)
LoadJournal(c) ==
    /\ request[c] = Idle
    /\ \E i \in DOMAIN journals : request' = [request EXCEPT ![c] = [journal |-> i, row |-> journals[i]]]
    /\ UNCHANGED <<investors, journals>>

Reply(c) == request' = [request EXCEPT ![c] = Idle]

Terminal(row) == row.status = "closed" \/ row.outcome # Open

(* Mutant: the UPDATE of research_journals without its version. *)
AnyVersion(c) == TRUE

IsCurrent(c) == journals[request[c].journal].lock_version = request[c].row.lock_version

Refuse(c) ==
    /\ request[c] # Idle
    /\ Terminal(request[c].row) \/ ~IsCurrent(c)
    /\ Reply(c)
    /\ UNCHANGED <<investors, journals>>

(* close_journal, once the journal is loaded. *)
CloseJournal(c) ==
    /\ request[c] # Idle
    /\ ~Terminal(request[c].row) /\ IsCurrent(c)
    /\ journals' = [journals EXCEPT ![request[c].journal] =
         [request[c].row EXCEPT !.status = "closed", !.outcome = c, !.lock_version = @ + 1]]
    /\ Reply(c)
    /\ UNCHANGED investors

Next ==
    \/ CreateInvestorProfile \/ CreateJournal
    \/ \E c \in Client : LoadJournal(c) \/ Refuse(c) \/ CloseJournal(c)

Spec == Init /\ [][Next]_vars

-----------------------------------------------------------------------------
Content(row) == [status |-> row.status, outcome |-> row.outcome]

(* What one request may make of a journal that it alone works on. *)
Changes(old, new) ==
    /\ old = Content(NewJournal(1))
    /\ \E c \in Client : new = [status |-> "closed", outcome |-> c]

Atomic(i) == INSTANCE AtomicRecord WITH
    Initial <- Content(NewJournal(1)), Changes <- Changes,
    content <- Content(journals[i]), version <- journals[i].lock_version

(* README.md:230: a journal can be closed only once.  The outcome that the  *)
(* first of two clients recorded is the one that stays.                    *)
ImplementsAtomicRecord ==
    [][\A i \in DOMAIN journals : [Atomic(i)!Change]_(Atomic(i)!vars)]_journals
=============================================================================
