-------------------------- MODULE ObservationHistory --------------------------
(***************************************************************************)
(* What the macro data store promises, with no clock, no session and no    *)
(* transaction: the states of a date of a series form a history that only  *)
(* grows, in which every state names its predecessor, and an import, known *)
(* by its idempotency key, adds nothing once it is finished.               *)
(*                                                                         *)
(* Source: macro_data_models.py (DataObservation, DataRevision,            *)
(* DataImportBatch and the listeners that make them immutable).            *)
(***************************************************************************)
EXTENDS Naturals, Sequences

CONSTANTS Date, ImportKey, Nothing

VARIABLES
    history,   \* [Date -> sequence of [previous, value, batch]]
    finished   \* keys of the imports that have an outcome

vars == <<history, finished>>

Init ==
    /\ history = [d \in Date |-> <<>>]
    /\ finished = {}

(* New states are appended, each to the one it replaces. *)
Appended(d, batches) ==
    LET old == history[d]
        new == history'[d] IN
    /\ Len(old) <= Len(new)
    /\ SubSeq(new, 1, Len(old)) = old
    /\ \A i \in (Len(old) + 1)..Len(new) :
         /\ new[i].batch \in batches
         /\ new[i].previous = IF i = 1 THEN Nothing ELSE new[i - 1].value

(* One state is added by hand, or by an import that is under way. *)
Add ==
    /\ \E d \in Date :
         /\ Appended(d, {Nothing} \cup (ImportKey \ finished))
         /\ \A c \in Date \ {d} : history'[c] = history[c]
    /\ UNCHANGED finished

(* An import ends, and what it still has to add is added at once. *)
Finish(k) ==
    /\ k \notin finished
    /\ finished' = finished \cup {k}
    /\ \A d \in Date : Appended(d, {k})

Next == Add \/ \E k \in ImportKey : Finish(k)

Spec == Init /\ [][Next]_vars
=============================================================================
