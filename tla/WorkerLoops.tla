----------------------------- MODULE WorkerLoops -----------------------------
(***************************************************************************)
(* One worker process (Run, process, heartbeatLoop, renewLoop of           *)
(* internal/worker/worker.go) against the clock: its row in the workers    *)
(* table, the lease of the job it executes, and what it does when the      *)
(* database was reset underneath it.  The job queue is only the number of  *)
(* claimable jobs: Store.Claim looks at it before it looks at the row.     *)
(***************************************************************************)
EXTENDS TickerLoop

CONSTANTS
  HeartbeatInterval,   \* of the worker
  HeartbeatTimeout,    \* of the server
  Lease,
  ReportPatience,      \* the timeout of reportCtx
  MissedBeats,         \* bound: heartbeats that fail in a row
  MissedRenewals,      \* bound: renewals that fail in a row
  MaxJobs,             \* bound: claimable jobs
  MaxResets            \* bound: resets of the database

VARIABLES
  row,      \* the workers table has this worker
  heart,    \* heartbeatLoop, and the age of last_heartbeat
  pc,       \* the main goroutine
  wait,     \* time since its registration or claim was served, or since it
            \* began to report; -1: neither
  renew,    \* renewLoop, and the age of the lease
  held,     \* the job the process executes: held by it, taken away, or gone
  queue,    \* claimable jobs
  resets

rvars == <<row, heart, pc, wait, renew, held, queue, resets>>

ASSUME LoopsAssumption ==
  /\ HeartbeatInterval \in Nat \ {0} /\ HeartbeatTimeout \in Nat
  /\ Lease \in Nat /\ Lease >= 3 /\ ReportPatience \in Nat
  /\ MissedBeats \in Nat /\ MissedRenewals \in Nat
  /\ MaxJobs \in Nat /\ MaxResets \in Nat

(* process renews at a third of the lease. *)
RenewInterval == Lease \div 3

RInit ==
  /\ row = FALSE
  /\ heart = Off /\ renew = Off
  /\ pc = "register" /\ wait = -1
  /\ held = "none"
  /\ queue = 0 /\ resets = 0

(* last_heartbeat = now() in an UPDATE that may find no row. *)
Touched == IF row THEN 0 ELSE heart.age
------------------------------------------------------------------------------
(* registerWithRetry. *)
RegisterServed ==
  /\ pc = "register" /\ wait = -1
  /\ row' = TRUE /\ heart' = [heart EXCEPT !.age = 0]
  /\ wait' = 0
  /\ UNCHANGED <<pc, renew, held, queue, resets>>

(* The first time, Run then starts heartbeatLoop. *)
RegisterAnswered ==
  /\ pc = "register" /\ wait >= 0
  /\ pc' = "poll" /\ wait' = -1
  /\ heart' = IF heart.beat = 0 THEN Started(heart, HeartbeatInterval) ELSE heart
  /\ UNCHANGED <<row, renew, held, queue, resets>>

ClaimServedToKnown ==
  /\ pc = "poll" /\ wait = -1 /\ queue > 0 /\ row
  /\ queue' = queue - 1 /\ wait' = 0
  /\ held' = "held" /\ renew' = [renew EXCEPT !.age = 0]
  /\ heart' = [heart EXCEPT !.age = 0]
  /\ UNCHANGED <<row, pc, resets>>

(* Run's claim.  On an empty queue the answer is no_jobs_available, to a   *)
(* known worker and to an unknown one, and the worker only sleeps.  With a *)
(* job to hand out, an unknown worker is told to register and the claim is *)
(* rolled back.                                                            *)
ClaimServed ==
  /\ pc = "poll" /\ wait = -1 /\ queue > 0
  /\ \/ /\ row
        /\ queue' = queue - 1 /\ wait' = 0
        /\ held' = "held" /\ renew' = [renew EXCEPT !.age = 0]
        /\ heart' = [heart EXCEPT !.age = 0]
        /\ UNCHANGED pc
     \/ /\ ~row
        /\ pc' = "register"
        /\ UNCHANGED <<queue, wait, held, renew, heart>>
  /\ UNCHANGED <<row, resets>>

(* process starts renewLoop and the command when the answer is there. *)
ClaimAnsweredStale ==
  /\ pc = "poll" /\ wait >= 0
  /\ pc' = "busy" /\ wait' = -1
  /\ renew' = Started(renew, Lease)
  /\ UNCHANGED <<row, heart, held, queue, resets>>

ClaimAnswered ==
  /\ pc = "poll" /\ wait >= 0
  /\ pc' = "busy" /\ wait' = -1
  /\ renew' = Started(renew, RenewInterval)
  /\ UNCHANGED <<row, heart, held, queue, resets>>

(* The answer is lost: another try follows.  A job whose claim was not     *)
(* heard is left to the reaper.                                            *)
AnswerLost ==
  /\ pc \in {"register", "poll"} /\ wait >= 0
  /\ wait' = -1 /\ held' = "none"
  /\ UNCHANGED <<row, heart, pc, renew, queue, resets>>
------------------------------------------------------------------------------
(* heartbeatLoop.  A 404 is an error like any other to it: it is logged. *)
BeatSent ==
  /\ CanSend(heart)
  /\ heart' = Sent(heart)
  /\ UNCHANGED <<row, pc, wait, renew, held, queue, resets>>

BeatServedUntouched ==
  /\ CanServe(heart)
  /\ heart' = Served(heart, heart.age)
  /\ UNCHANGED <<row, pc, wait, renew, held, queue, resets>>

BeatServed ==
  /\ CanServe(heart)
  /\ heart' = Served(heart, Touched)
  /\ UNCHANGED <<row, pc, wait, renew, held, queue, resets>>

BeatAnswered ==
  /\ CanAnswer(heart)
  /\ heart' = Answered(heart)
  /\ UNCHANGED <<row, pc, wait, renew, held, queue, resets>>

BeatLost ==
  /\ CanLose(heart, MissedBeats)
  /\ heart' = Lost(heart)
  /\ UNCHANGED <<row, pc, wait, renew, held, queue, resets>>
------------------------------------------------------------------------------
(* renewLoop. *)
RenewSent ==
  /\ CanSend(renew)
  /\ renew' = Sent(renew)
  /\ UNCHANGED <<row, heart, pc, wait, held, queue, resets>>

RenewServed ==
  /\ CanServe(renew)
  /\ renew' = Served(renew, IF held = "held" THEN 0 ELSE renew.age)
  /\ UNCHANGED <<row, heart, pc, wait, held, queue, resets>>

(* A 409 cancels the command and ends the loop; a 404 is only logged. *)
RenewAnswered ==
  /\ CanAnswer(renew)
  /\ IF held = "taken"
     THEN pc' = "report" /\ wait' = 0 /\ renew' = Stopped(renew)
     ELSE renew' = Answered(renew) /\ UNCHANGED <<pc, wait>>
  /\ UNCHANGED <<row, heart, held, queue, resets>>

RenewLost ==
  /\ CanLose(renew, MissedRenewals)
  /\ renew' = Lost(renew)
  /\ UNCHANGED <<row, heart, pc, wait, held, queue, resets>>

(* The command ends: the loop is stopped before the report is sent. *)
Exit ==
  /\ pc = "busy"
  /\ pc' = "report" /\ wait' = 0 /\ renew' = Stopped(renew)
  /\ UNCHANGED <<row, heart, held, queue, resets>>

(* The report is sent up to four times before reportCtx ends.  It touches  *)
(* the worker's row, unless it is refused or given up.                     *)
Report ==
  /\ pc = "report"
  /\ pc' = "poll" /\ wait' = -1 /\ held' = "none"
  /\ heart' \in {heart, [heart EXCEPT !.age = Touched]}
  /\ UNCHANGED <<row, renew, queue, resets>>
------------------------------------------------------------------------------
(* The reaper, as soon as lease_until < now(). *)
Reap ==
  /\ held = "held" /\ renew.age > Lease
  /\ held' = "taken"
  /\ UNCHANGED <<row, heart, pc, wait, renew, queue, resets>>

Submit ==
  /\ queue < MaxJobs
  /\ queue' = queue + 1
  /\ UNCHANGED <<row, heart, pc, wait, renew, held, resets>>

(* The database comes back empty. *)
Reset ==
  /\ resets < MaxResets
  /\ resets' = resets + 1
  /\ row' = FALSE /\ queue' = 0
  /\ held' = IF held = "none" THEN "none" ELSE "gone"
  /\ UNCHANGED <<heart, pc, wait, renew>>

(* Ages stop growing where they no longer matter. *)
Capped(l, limit) == IF l.age > limit THEN [l EXCEPT !.age = limit + 1] ELSE l

Tick ==
  /\ CanPass(heart, MissedBeats) /\ CanPass(renew, MissedRenewals)
  /\ wait < (IF pc = "report" THEN ReportPatience ELSE Latency)
  /\ wait' = IF wait = -1 THEN -1 ELSE wait + 1
  /\ heart' = Capped(Passed(heart, HeartbeatInterval), HeartbeatTimeout)
  /\ renew' = Capped(Passed(renew, RenewInterval), Lease)
  /\ UNCHANGED <<row, pc, held, queue, resets>>

RNext ==
  \/ RegisterServed \/ RegisterAnswered
  \/ ClaimServed \/ ClaimAnswered \/ AnswerLost
  \/ BeatSent \/ BeatServed \/ BeatAnswered \/ BeatLost
  \/ RenewSent \/ RenewServed \/ RenewAnswered \/ RenewLost
  \/ Exit \/ Report
  \/ Reap \/ Submit \/ Reset \/ Tick

(* The process executes its code, a call it waits for returns, and a       *)
(* registration tried again and again is answered.  Nobody is obliged to   *)
(* submit, to reset or to lose an answer.                                  *)
RSpec ==
  /\ RInit /\ [][RNext]_rvars
  /\ WF_rvars(RegisterServed) /\ SF_rvars(RegisterAnswered)
  /\ WF_rvars(ClaimServed) /\ WF_rvars(ClaimAnswered \/ AnswerLost)
  /\ WF_rvars(Exit) /\ WF_rvars(Report)
------------------------------------------------------------------------------
(* ListWorkers: last_heartbeat > now() - timeout. *)
Alive == row /\ heart.age < HeartbeatTimeout

(* Once heartbeatLoop runs, GET /workers never shows a running worker as   *)
(* dead while at most MissedBeats heartbeats fail in a row: late answers,  *)
(* ticks that fall into a slow call, a registration between two ticks and  *)
(* the strict comparison of ListWorkers leave no gap.                      *)
HealthyIsAlive == (row /\ heart.beat # 0) => Alive

(* While at most MissedRenewals renewals fail in a row, the reaper never   *)
(* takes the job of a command that runs: it can only take it from a worker *)
(* that reports, and not before the report has been under way for what the *)
(* renewals leave of the lease.                                            *)
LeaseKept ==
  held = "taken" =>
    pc = "report" /\ wait > Lease - Oldest(RenewInterval, MissedRenewals)

(* A worker whose row is gone still comes to the next job: the claim it is *)
(* refused makes Run register anew, and a later claim succeeds.            *)
ForgottenWorkerServes == queue > 0 ~> (pc = "busy" \/ queue = 0)

(* internal/worker/worker.go, on process: "two consecutive renewals can    *)
(* fail (a blip, a slow request) before the lease actually lapses".  With  *)
(* no more failures than that, a command that runs keeps its job.          *)
TwoRenewalsCanFail == pc = "busy" => held # "taken"
=============================================================================
