---------------------------- MODULE MCMacroStore ----------------------------
(* Instances of MacroStore for TLC. *)
EXTENDS MacroStore

CONSTANTS u, v, k1, k2, s1, s2

R(date, value) == [date |-> date, value |-> value, reason |-> TRUE, valid |-> TRUE]
First(row) == [row EXCEPT !.reason = FALSE]
Future(row) == [row EXCEPT !.valid = FALSE]

Sync(rows) == [kind |-> "sync", rows |-> rows, partial |-> FALSE]
Manual(row) == [kind |-> "manual", rows |-> <<row>>, partial |-> FALSE]
Atomic(rows) == [kind |-> "file", rows |-> rows, partial |-> FALSE]
Partial(rows) == [kind |-> "file", rows |-> rows, partial |-> TRUE]

(* A provider that changes its answer, a correction by hand, and files     *)
(* that write the same dates in opposite orders and whose second row is    *)
(* rejected when its date is there already.                                *)
AllKinds == {Sync(<<R(1, u), R(2, u)>>), Sync(<<R(1, v), R(2, u)>>),
             Manual(R(1, v)), Atomic(<<R(2, v), First(R(1, u))>>),
             Partial(<<R(1, v), First(R(2, u))>>)}

(* A file with a date twice, whose first rows are both rejected when the   *)
(* date is there already, one with a row to reject at the end, an answer   *)
(* that cannot be stored, and an observation by hand that may be refused.  *)
Imports == {Partial(<<First(R(1, u)), First(R(1, v)), R(2, v)>>),
            Atomic(<<R(2, u), Future(R(1, v))>>),
            Manual(First(R(1, v))), Sync(<<R(1, v), Future(R(2, u))>>)}

(* An answer, its correction, and the first one again. *)
BackAndForth == {Sync(<<R(1, u)>>), Sync(<<R(1, v)>>)}
=============================================================================
