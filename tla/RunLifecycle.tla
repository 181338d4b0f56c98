---------------------------- MODULE RunLifecycle ----------------------------
(***************************************************************************)
(* What the scheduler promises about a synchronization run, with no clock, *)
(* no lease and no process: a run is begun a bounded number of times, never *)
(* together with another run of the same series; it can succeed only after *)
(* its data was imported, its data is imported at most once, and once it   *)
(* has succeeded or failed it stays so.                                    *)
(*                                                                         *)
(* One transaction may submit, begin or give up several runs at once.      *)
(* Source: scheduler_models.py (class ProviderSyncRun), scheduler_schemas  *)
(* .py (ProviderSyncRunStatus).                                            *)
(***************************************************************************)
EXTENDS Naturals

CONSTANTS Run, ConcurrencyKey, MaximumAttempts

VARIABLES
    status,    \* [Run -> status of the row]
    attempts,  \* [Run -> attempt_number]
    imported   \* [Run -> is there a batch under the sync idempotency key]

vars == <<status, attempts, imported>>

SameKey(r, q) == ConcurrencyKey[r] = ConcurrencyKey[q]

Init ==
    /\ status = [r \in Run |-> "absent"]
    /\ attempts = [r \in Run |-> 0]
    /\ imported = [r \in Run |-> FALSE]

(* enqueue_run_now or materialize_due_schedules inserts the runs. *)
Submit(S) ==
    /\ \A r \in S : status[r] = "absent"
    /\ status' = [r \in Run |-> IF r \in S THEN "pending" ELSE status[r]]
    /\ UNCHANGED <<attempts, imported>>

(* claim_pending_runs *)
Begin(S) ==
    /\ \A r \in S : status[r] = "pending" /\ attempts[r] < MaximumAttempts
    /\ \A r \in S, q \in Run :
         r # q /\ SameKey(r, q) => q \notin S /\ status[q] # "running"
    /\ status' = [r \in Run |-> IF r \in S THEN "running" ELSE status[r]]
    /\ attempts' = [r \in Run |-> IF r \in S THEN attempts[r] + 1 ELSE attempts[r]]
    /\ UNCHANGED imported

(* schedule_run_retry, complete_run_failure and recover_expired_runs: a    *)
(* running run is queued again if it has an attempt left, or fails.        *)
GiveUp(S, F) ==
    /\ F \subseteq S
    /\ \A r \in S : status[r] = "running"
    /\ \A r \in S \ F : attempts[r] < MaximumAttempts
    /\ status' = [r \in Run |-> IF r \in F THEN "failed"
                                ELSE IF r \in S THEN "pending" ELSE status[r]]
    /\ UNCHANGED <<attempts, imported>>

(* The import of a process that once began the run, in time or late. *)
Import(r) ==
    /\ attempts[r] > 0
    /\ ~imported[r]
    /\ imported' = [imported EXCEPT ![r] = TRUE]
    /\ UNCHANGED <<status, attempts>>

(* complete_run_success *)
Succeed(r) ==
    /\ status[r] = "running"
    /\ imported[r]
    /\ status' = [status EXCEPT ![r] = "succeeded"]
    /\ UNCHANGED <<attempts, imported>>

Next ==
    \/ \E r \in Run : Import(r) \/ Succeed(r)
    \/ \E S \in SUBSET Run : Submit(S) \/ Begin(S) \/ \E F \in SUBSET S : GiveUp(S, F)

Spec == Init /\ [][Next]_vars
=============================================================================
