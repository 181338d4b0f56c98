----------------------------- MODULE AtomicRecord -----------------------------
(***************************************************************************)
(* What a record guarded by a lock_version promises to the requests that   *)
(* change it: whatever they have read and however they overlap, the record *)
(* goes from one content to the next as if each request that succeeds had  *)
(* read it and changed it in one step, and the version counts the changes. *)
(***************************************************************************)
EXTENDS Naturals

CONSTANTS
    Initial,        \* the content of a new record
    Changes(_, _)   \* what one request may turn a content into

VARIABLES content, version

vars == <<content, version>>

Init == content = Initial /\ version = 1

Change == version' = version + 1 /\ Changes(content, content')

Spec == Init /\ [][Change]_vars
===============================================================================
