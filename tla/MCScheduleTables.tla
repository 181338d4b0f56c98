--------------------------- MODULE MCScheduleTables ---------------------------
(***************************************************************************)
(* Two instances of ScheduleTable in one run: a table whose settings       *)
(* change, and one whose clients ask at once.  Which of the two a behaviour *)
(* is about never changes.                                                 *)
(***************************************************************************)
EXTENDS MCScheduleTable

VARIABLE table

Clients == INSTANCE ScheduleTable WITH
    Day <- 3, Schedule <- {1}, Client <- {c1, c2}, Worker <- {w1, w2}, Config <- {g1},
    CadenceChoice <- EveryTwo, Key <- {k}, ClaimLimit <- 1, Dialect <- "postgresql",
    MaxVersion <- 2, MaxTime <- 2

ASSUME Clients!TableAssumption

TablesInit ==
    \/ table = "settings" /\ Init
    \/ table = "clients" /\ Clients!Init

TablesNext ==
    /\ UNCHANGED table
    /\ IF table = "settings" THEN Next ELSE Clients!Next

TablesSpec == TablesInit /\ [][TablesNext]_<<table, vars>>

(* Each table is what the comments of ScheduleTable say. *)
TablesTypeOK == IF table = "settings" THEN TypeOK ELSE Clients!TypeOK
=============================================================================
