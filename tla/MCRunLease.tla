----------------------------- MODULE MCRunLease -----------------------------
(* Instances of RunLease for TLC. *)
EXTENDS RunLease, TLC

CONSTANTS w1, w2, idA, idB, p1, p2, k1, k2

(* Two processes that share one worker id: the same host name and pid. *)
SameIds == (w1 :> idA) @@ (w2 :> idA)
OwnIds == (w1 :> idA) @@ (w2 :> idB)

OneKey == [r \in Run |-> k1]
TwoKeys == [r \in Run |-> IF r = 1 THEN k1 ELSE k2]
MixedKeys == [r \in Run |-> IF r <= 2 THEN k1 ELSE k2]

(* Sound where both processes use one worker id. *)
Alike == Permutations({w1, w2}) \cup Permutations({p1, p2})

Delays == [r \in Run |-> [a \in 1..MaximumAttempts |-> 1]]
=============================================================================
