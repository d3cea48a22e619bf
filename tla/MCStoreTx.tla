------------------------------ MODULE MCStoreTx ------------------------------
EXTENDS StoreTx, TLC

(* A retry delay shorter than one unit of the clock; so is the lease. *)
MCDelay == [n \in 0..AttemptLimit |-> 0]

MCSymmetry == Permutations(Worker) \cup Permutations(Session)
=============================================================================
