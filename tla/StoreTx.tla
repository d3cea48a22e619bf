------------------------------- MODULE StoreTx -------------------------------
(***************************************************************************)
(* The transactions of internal/jobs/store.go taken apart into the SQL     *)
(* statements they are made of, under PostgreSQL's READ COMMITTED rules    *)
(* and row locks.  JobStore treats a transaction as one step; here other   *)
(* transactions run between two statements of one.                         *)
(*                                                                         *)
(* A statement sees the committed tables and what its own transaction      *)
(* wrote.  It locks the rows it writes until the transaction ends, and if  *)
(* a row that matches its WHERE clause is locked by another transaction,   *)
(* it waits and then looks at the row again.  FOR UPDATE SKIP LOCKED never *)
(* waits.  now() is the instant at which the transaction began.            *)
(***************************************************************************)
EXTENDS JobRows, FiniteSets, Sequences

CONSTANTS
  Job, Worker,
  Session,       \* database connections, of one server or of several
  MaxAttempts,   \* the values of max_attempts a submission may carry
  Lease,         \* the lease every claim and renewal asks for
  Delay,         \* BackoffConfig.Delay
  Batch,         \* jobs one sweep takes at most
  MaxTime        \* bound: the clock stops here

VARIABLES
  jobs,      \* the committed jobs table
  workers,   \* the committed workers table
  now,       \* the clock
  tx         \* the transaction of each session

tvars == <<jobs, workers, now, tx>>

(* ValidateNew: max_attempts lies between 1 and AttemptLimit. *)
AttemptLimit == 100

ASSUME TxAssumption ==
  /\ Job \subseteq Nat /\ IsFiniteSet(Job)
  /\ NULL \notin Worker \cup Int
  /\ MaxAttempts \subseteq 1..AttemptLimit
  /\ Lease \in Nat /\ Delay \in [0..AttemptLimit -> Nat]
  /\ Batch \in Nat \ {0} /\ MaxTime \in Nat

Empty == [x \in {} |-> NULL]

(* start: what now() returns, as long as a statement to come will use it.  *)
(* rows and wrows: the rows this transaction has locked, in the version it *)
(* will commit.  todo: the rows a sweep has selected and not yet updated.  *)
Idle == [op |-> "none", step |-> "none", start |-> 0, job |-> NULL,
         worker |-> NULL, attempts |-> 0, todo |-> <<>>, rows |-> Empty,
         wrows |-> Empty]

TInit ==
  /\ jobs = [j \in Job |-> NoRow]
  /\ workers = [w \in Worker |-> [registered |-> FALSE, current_job_id |-> NULL]]
  /\ now = 0
  /\ tx = [s \in Session |-> Idle]

JobLocked(s, j) == \E t \in Session \ {s} : j \in DOMAIN tx[t].rows

WorkerLocked(s, w) == \E t \in Session \ {s} : w \in DOMAIN tx[t].wrows

At(s, ops, step) == tx[s].op \in ops /\ tx[s].step = step

Set(f, x, v) == [y \in DOMAIN f \cup {x} |-> IF y = x THEN v ELSE f[y]]

(* The transaction is over, committed or rolled back: its locks are gone. *)
End(s) == tx' = [tx EXCEPT ![s] = Idle]
------------------------------------------------------------------------------
(* The start of a transaction.  Complete and Cancel write now() only into  *)
(* updated_at, which is left out.                                          *)
Begun(op, j, w) ==
  [Idle EXCEPT !.op = op, !.step = "job", !.job = j, !.worker = w,
               !.start = IF op \in {"complete", "cancel"} THEN 0 ELSE now]

BeginClaim(s, w) ==
  /\ tx[s].op = "none"
  /\ tx' = [tx EXCEPT ![s] = Begun("claim", NULL, w)]
  /\ UNCHANGED <<jobs, workers, now>>

BeginSweep(s) ==
  /\ tx[s].op = "none"
  /\ tx' = [tx EXCEPT ![s] = Begun("reap", NULL, NULL)]
  /\ UNCHANGED <<jobs, workers, now>>

(* Complete and RenewLease begin with their UPDATE; so does Cancel, which  *)
(* names no worker.  An id that was never handed out matches no row.       *)
BeginUpdate(s, op, j, w) ==
  /\ tx[s].op = "none" /\ Exists(jobs[j])
  /\ tx' = [tx EXCEPT ![s] = Begun(op, j, w)]
  /\ UNCHANGED <<jobs, workers, now>>

(* Fail reads the attempts before its transaction begins. *)
FailRead(s, j, w) ==
  /\ tx[s].op = "none" /\ Exists(jobs[j])
  /\ tx' = [tx EXCEPT ![s] = [Begun("fail", j, w) EXCEPT
                                 !.step = "begin", !.attempts = jobs[j].attempts]]
  /\ UNCHANGED <<jobs, workers, now>>

BeginFail(s) ==
  /\ At(s, {"fail"}, "begin")
  /\ tx' = [tx EXCEPT ![s].step = "job", ![s].start = now]
  /\ UNCHANGED <<jobs, workers, now>>
------------------------------------------------------------------------------
(* Claim, first statement: the first claimable row nobody has locked. *)
Candidates(s) == {j \in Job : Claimable(jobs[j], tx[s].start) /\ ~JobLocked(s, j)}

IsFirst(j, S) ==
  /\ j \in S
  /\ \A k \in S \ {j} :
       \/ jobs[j].available_at < jobs[k].available_at
       \/ jobs[j].available_at = jobs[k].available_at /\ j < k

ClaimJob(s) ==
  /\ At(s, {"claim"}, "job")
  /\ \/ Candidates(s) = {} /\ End(s)
     \/ \E j \in Candidates(s) :
          /\ IsFirst(j, Candidates(s))
          /\ tx' = [tx EXCEPT ![s].step = "worker", ![s].job = j, ![s].start = 0,
                      ![s].rows = Set(@, j, Claimed(jobs[j], tx[s].worker,
                                                    tx[s].start + Lease))]
  /\ UNCHANGED <<jobs, workers, now>>

(* Claim, second statement; a worker that is not there rolls it back. *)
ClaimWorker(s) ==
  /\ At(s, {"claim"}, "worker")
  /\ LET w == tx[s].worker IN
       \/ ~workers[w].registered /\ End(s)
       \/ /\ workers[w].registered /\ ~WorkerLocked(s, w)
          /\ tx' = [tx EXCEPT ![s].step = "commit",
                      ![s].wrows = Set(@, w, [workers[w] EXCEPT
                                                !.current_job_id = tx[s].job])]
  /\ UNCHANGED <<jobs, workers, now>>

(* Complete and Fail, first statement.  A row that does not match is not   *)
(* waited for; one that matches and is locked is.                          *)
Reported(s, r) ==
  IF tx[s].op = "complete" THEN Completed(r, tx[s].worker)
  ELSE FailedBy(r, tx[s].worker, tx[s].start + Delay[tx[s].attempts])

ReportJobCommitted(s) ==
  /\ At(s, {"complete", "fail"}, "job")
  /\ LET j == tx[s].job IN
       \/ ~Owned(jobs[j], tx[s].worker) /\ End(s) /\ UNCHANGED jobs
       \/ /\ Owned(jobs[j], tx[s].worker) /\ ~JobLocked(s, j)
          /\ jobs' = [jobs EXCEPT ![j] = Reported(s, @)]
          /\ tx' = [tx EXCEPT ![s].step = "worker"]
  /\ UNCHANGED <<workers, now>>

ReportJobAfterWorker(s) ==
  /\ At(s, {"complete", "fail"}, "job")
  /\ LET j == tx[s].job
         w == tx[s].worker
     IN  \/ ~Owned(jobs[j], w) /\ End(s)
         \/ /\ Owned(jobs[j], w) /\ w \notin DOMAIN tx[s].wrows
            /\ workers[w].registered /\ ~WorkerLocked(s, w)
            /\ tx' = [tx EXCEPT ![s].wrows = Set(@, w, [workers[w] EXCEPT
                                                          !.current_job_id = NULL])]
         \/ /\ Owned(jobs[j], w) /\ w \in DOMAIN tx[s].wrows
            /\ ~JobLocked(s, j)
            /\ tx' = [tx EXCEPT ![s].step = "commit",
                                ![s].rows = Set(@, j, Reported(s, jobs[j]))]
  /\ UNCHANGED <<jobs, workers, now>>

ReportJob(s) ==
  /\ At(s, {"complete", "fail"}, "job")
  /\ LET j == tx[s].job IN
       \/ ~Owned(jobs[j], tx[s].worker) /\ End(s)
       \/ /\ Owned(jobs[j], tx[s].worker) /\ ~JobLocked(s, j)
          /\ tx' = [tx EXCEPT ![s].step = "worker", ![s].start = 0,
                              ![s].attempts = 0,
                              ![s].rows = Set(@, j, Reported(s, jobs[j]))]
  /\ UNCHANGED <<jobs, workers, now>>

(* Complete and Fail, second statement. *)
ReportWorker(s) ==
  /\ At(s, {"complete", "fail"}, "worker")
  /\ LET w == tx[s].worker IN
       \/ /\ ~workers[w].registered
          /\ tx' = [tx EXCEPT ![s].step = "commit"]
       \/ /\ workers[w].registered /\ ~WorkerLocked(s, w)
          /\ tx' = [tx EXCEPT ![s].step = "commit",
                      ![s].wrows = Set(@, w, [workers[w] EXCEPT
                                                !.current_job_id = NULL])]
  /\ UNCHANGED <<jobs, workers, now>>
------------------------------------------------------------------------------
(* ReapExpiredLeases, the SELECT ... FOR UPDATE SKIP LOCKED. *)
ExpiredJobs(s) == {j \in Job : Expired(jobs[j], tx[s].start) /\ ~JobLocked(s, j)}

IsBatch(S, E) ==
  /\ S \subseteq E
  /\ Cardinality(S) <= Batch
  /\ S # E => Cardinality(S) = Batch
  /\ \A j \in S, k \in E \ S : jobs[j].lease_until <= jobs[k].lease_until

(* The orders in which ORDER BY lease_until may return S. *)
Ordered(S) ==
  {q \in [1..Cardinality(S) -> S] :
     /\ \A j \in S : \E i \in DOMAIN q : q[i] = j
     /\ \A i, k \in DOMAIN q :
          i < k => jobs[q[i]].lease_until <= jobs[q[k]].lease_until}

SweepSelectUnlocked(s) ==
  /\ At(s, {"reap"}, "job")
  /\ \/ ExpiredJobs(s) = {} /\ End(s)
     \/ \E S \in SUBSET ExpiredJobs(s) : \E q \in Ordered(S) :
          /\ S # {} /\ IsBatch(S, ExpiredJobs(s))
          /\ tx' = [tx EXCEPT ![s].step = "worker", ![s].todo = q]
  /\ UNCHANGED <<jobs, workers, now>>

SweepSelect(s) ==
  /\ At(s, {"reap"}, "job")
  /\ \/ ExpiredJobs(s) = {} /\ End(s)
     \/ \E S \in SUBSET ExpiredJobs(s) : \E q \in Ordered(S) :
          /\ S # {} /\ IsBatch(S, ExpiredJobs(s))
          /\ tx' = [tx EXCEPT ![s].step = "worker", ![s].todo = q,
                              ![s].rows = [j \in S |-> jobs[j]]]
  /\ UNCHANGED <<jobs, workers, now>>

(* The version of a worker's row that a statement of s sees. *)
Seen(s, w) == IF w \in DOMAIN tx[s].wrows THEN tx[s].wrows[w] ELSE workers[w]

(* WHERE id = $1 AND current_job_id = $2 *)
Names(s, w, j) == Seen(s, w).registered /\ Seen(s, w).current_job_id = j

(* The two UPDATEs for the next row of the batch, in one step: the first   *)
(* hits a row that this transaction has locked and nobody sees before the  *)
(* commit; only the second may wait.  The AND status = 'RUNNING' of the    *)
(* first always holds of a row that was RUNNING when it was locked.        *)
SweepOne(s) ==
  /\ At(s, {"reap"}, "worker")
  /\ LET j == Head(tx[s].todo)
         w == jobs[j].worker_id
         swept == [tx[s] EXCEPT
                     !.todo = Tail(@),
                     !.step = IF Len(tx[s].todo) = 1 THEN "commit" ELSE @,
                     !.rows = Set(@, j, Reaped(jobs[j], tx[s].start
                                                          + Delay[jobs[j].attempts]))]
     IN  \/ ~Names(s, w, j) /\ tx' = [tx EXCEPT ![s] = swept]
         \/ /\ Names(s, w, j) /\ ~WorkerLocked(s, w)
            /\ tx' = [tx EXCEPT ![s] =
                        [swept EXCEPT !.wrows =
                           Set(@, w, [Seen(s, w) EXCEPT !.current_job_id = NULL])]]
  /\ UNCHANGED <<jobs, workers, now>>
------------------------------------------------------------------------------
(* The methods that are one statement: it waits, writes and commits. *)
RenewLease(s) ==
  /\ At(s, {"renew"}, "job")
  /\ LET j == tx[s].job IN
       \/ ~Owned(jobs[j], tx[s].worker) /\ UNCHANGED jobs
       \/ /\ Owned(jobs[j], tx[s].worker) /\ ~JobLocked(s, j)
          /\ jobs' = [jobs EXCEPT ![j] = Renewed(@, tx[s].start + Lease)]
  /\ End(s)
  /\ UNCHANGED <<workers, now>>

CancelUnlocked(s) ==
  /\ At(s, {"cancel"}, "job")
  /\ LET j == tx[s].job IN
       \/ jobs[j].status # "PENDING" /\ UNCHANGED jobs
       \/ /\ jobs[j].status = "PENDING"
          /\ jobs' = [jobs EXCEPT ![j] = Canceled(@)]
  /\ End(s)
  /\ UNCHANGED <<workers, now>>

Cancel(s) ==
  /\ At(s, {"cancel"}, "job")
  /\ LET j == tx[s].job IN
       \/ jobs[j].status # "PENDING" /\ UNCHANGED jobs
       \/ /\ jobs[j].status = "PENDING" /\ ~JobLocked(s, j)
          /\ jobs' = [jobs EXCEPT ![j] = Canceled(@)]
  /\ End(s)
  /\ UNCHANGED <<workers, now>>

RegisterWorker(s, w) ==
  /\ tx[s].op = "none" /\ ~WorkerLocked(s, w)
  /\ workers' = [workers EXCEPT ![w] = [registered |-> TRUE, current_job_id |-> NULL]]
  /\ UNCHANGED <<jobs, now, tx>>

Create(j, max) ==
  /\ ~Exists(jobs[j])
  /\ jobs' = [jobs EXCEPT ![j] = Inserted(max, now)]
  /\ UNCHANGED <<workers, now, tx>>
------------------------------------------------------------------------------
(* withTx: the end of fn without an error. *)
Commit(s) ==
  /\ tx[s].step = "commit"
  /\ jobs' = [j \in Job |-> IF j \in DOMAIN tx[s].rows THEN tx[s].rows[j] ELSE jobs[j]]
  /\ workers' = [w \in Worker |->
                   IF w \in DOMAIN tx[s].wrows THEN tx[s].wrows[w] ELSE workers[w]]
  /\ End(s)
  /\ UNCHANGED now

(* A statement fails, the request's context is canceled, or the server or  *)
(* its connection dies: nothing of the transaction remains.                *)
Rollback(s) ==
  /\ tx[s].op # "none"
  /\ End(s)
  /\ UNCHANGED <<jobs, workers, now>>

Tick ==
  /\ now < MaxTime
  /\ now' = now + 1
  /\ UNCHANGED <<jobs, workers, tx>>

TNext ==
  \/ \E j \in Job, max \in MaxAttempts : Create(j, max)
  \/ \E s \in Session :
       \/ BeginSweep(s) \/ BeginFail(s)
       \/ \E w \in Worker : BeginClaim(s, w) \/ RegisterWorker(s, w)
       \/ \E j \in Job : BeginUpdate(s, "cancel", j, NULL)
       \/ \E j \in Job, w \in Worker :
            \/ FailRead(s, j, w)
            \/ \E op \in {"complete", "renew"} : BeginUpdate(s, op, j, w)
       \/ ClaimJob(s) \/ ClaimWorker(s)
       \/ ReportJob(s) \/ ReportWorker(s)
       \/ SweepSelect(s) \/ SweepOne(s)
       \/ RenewLease(s) \/ Cancel(s)
       \/ Commit(s) \/ Rollback(s)
  \/ Tick

TSpec == TInit /\ [][TNext]_tvars
------------------------------------------------------------------------------
(* The rows whose locks the next statement of s cannot do without. *)
WantsJob(s, j) ==
  /\ tx[s].step = "job" /\ tx[s].job = j
  /\ \/ tx[s].op \in {"complete", "fail", "renew"} /\ Owned(jobs[j], tx[s].worker)
     \/ tx[s].op = "cancel" /\ jobs[j].status = "PENDING"

WantsWorker(s, w) ==
  \/ /\ At(s, {"claim", "complete", "fail"}, "worker")
     /\ tx[s].worker = w /\ workers[w].registered
  \/ /\ At(s, {"reap"}, "worker")
     /\ w = jobs[Head(tx[s].todo)].worker_id
     /\ Names(s, w, Head(tx[s].todo))

WaitsFor(s, t) ==
  /\ s # t
  /\ \/ \E j \in DOMAIN tx[t].rows : WantsJob(s, j)
     \/ \E w \in DOMAIN tx[t].wrows : WantsWorker(s, w)

(* No transactions ever wait for each other in a circle, whatever requests *)
(* and sweeps of however many servers overlap.  Requests lock one job and  *)
(* then one worker; a sweep locks many of both, in the order of the leases *)
(* and not of any id, and is saved by "AND current_job_id = $2".           *)
NoDeadlock ==
  \A D \in (SUBSET Session) \ {{}} : \E s \in D : \A t \in D : ~WaitsFor(s, t)

(* workers.current_job_id never names a job that is not RUNNING under that *)
(* worker, in any committed state between the statements of overlapping    *)
(* claims, reports, sweeps and registrations.                              *)
CurrentJobHeld ==
  \A w \in Worker : workers[w].current_job_id # NULL =>
    workers[w].registered /\ Owned(jobs[workers[w].current_job_id], w)

(* The transactions of the holder that report on j and commit this step. *)
ReportsCommitted(j) ==
  {s \in Session : /\ tx[s].op \in {"complete", "fail"} /\ tx[s].step = "commit"
                   /\ tx'[s].op = "none" /\ tx[s].job = j
                   /\ tx[s].worker = jobs[j].worker_id}

(* As long as a lease runs by the clock, nothing but the commit of its     *)
(* holder's own report ends the attempt, although every transaction judges *)
(* leases by the older instant at which it began and although a renewal    *)
(* may commit between two statements of a sweep.                           *)
LeaseHonored ==
  [][\A j \in Job :
       jobs[j].status = "RUNNING" /\ jobs[j].lease_until >= now =>
         Owned(jobs'[j], jobs[j].worker_id) \/ ReportsCommitted(j) # {}]_tvars

TxLifecycle == INSTANCE JobLifecycle WITH
  status <- [j \in Job |-> jobs[j].status],
  attempts <- [j \in Job |-> jobs[j].attempts],
  limit <- [j \in Job |-> jobs[j].max_attempts],
  holder <- [j \in Job |-> jobs[j].worker_id]

(* What is committed moves only along the edges of the diagram on the      *)
(* Status type: no statement ever overwrites a row with a version computed *)
(* from an older one, and a transaction that dies half way leaves nothing. *)
CommitsFollowLifecycle == TxLifecycle!LSpec
=============================================================================
