----------------------------- MODULE MCJobStore -----------------------------
EXTENDS JobStore, TLC

(* base * 2^(attempt - 1) with base 1, capped at 2 time units; attempt 0   *)
(* counts as 1.                                                            *)
MCDelay == [n \in 0..AttemptLimit |-> IF n <= 1 THEN 1 ELSE 2]

(* A request that leaves the lease to the server, and requests below,      *)
(* within and above the limits.                                            *)
MCLeaseSeconds == {-1, 1, 2, 9}

MCWorkersHandlers == Permutations(Worker) \cup Permutations(Handler)
=============================================================================
