--------------------------- MODULE MCQueueSystem ---------------------------
EXTENDS QueueSystem, TLC

MCDelay == [n \in 1..2 |-> n]

MCWorkers == Permutations(Worker)
=============================================================================
