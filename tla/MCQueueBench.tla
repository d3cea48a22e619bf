----------------------------- MODULE MCQueueBench -----------------------------
(* Two levels of two claimers, so that the second one meets the names of   *)
(* the first again.                                                        *)
EXTENDS QueueBench

MCLevels == <<2, 2>>
=============================================================================
