--------------------------- MODULE JobStoreProofs ---------------------------
(***************************************************************************)
(* What holds of the store for every set of jobs, workers and handlers,    *)
(* every lease, every backoff function and every batch size.               *)
(***************************************************************************)
EXTENDS JobStore, FiniteSetTheorems, TLAPS

(* A request that is between two steps names the row it is about. *)
CallsWellFormed ==
  \A h \in Handler : LET c == call[h] IN
    /\ c.step = "write" =>
         c.op = "fail" /\ c.job \in Job /\ c.worker \in Worker
    /\ c.step = "explain" =>
         /\ c.op \in {"renew", "complete", "fail", "cancel"}
         /\ c.job \in Job
         /\ c.op = "complete" => c.worker \in Worker
    /\ c.step # "done" => c.reply = "none"
    /\ c.reply = "ok" /\ c.op \in {"claim", "complete", "cancel"} => c.job \in Job

(* The inductive invariant. *)
IInv == TypeOK /\ JobsConsistent /\ CurrentJobIsHeld /\ CallsWellFormed

(* clampLease returns a duration that is not negative. *)
LEMMA ClampLeaseType ==
  ASSUME NEW s \in LeaseSeconds
  PROVE  ClampLease(s) \in Nat
BY LeaseAssumption DEF ClampLease

(* Before the first request the tables are empty and consistent. *)
LEMMA InitIInv == Init => IInv
BY NullAssumption
   DEF Init, IInv, TypeOK, JobsConsistent, CurrentJobIsHeld, CallsWellFormed,
       RowConsistent, JobRow, WorkerRow, Call, NoRow, NoWorker, Idle, Status,
       Terminal, AttemptLimit
------------------------------------------------------------------------------
(* The statements of the store, one row at a time: each takes a consistent *)
(* row to a consistent row.                                                *)

(* A job as Create inserts it is consistent. *)
LEMMA InsertedRow ==
  ASSUME NEW max \in MaxAttempts, NEW t \in Nat
  PROVE  Inserted(max, t) \in JobRow /\ RowConsistent(Inserted(max, t))
BY NullAssumption, AttemptsAssumption
   DEF Inserted, JobRow, RowConsistent, Status, Terminal, AttemptLimit

(* Claiming a PENDING row uses one of the attempts it has left. *)
LEMMA ClaimedRow ==
  ASSUME NEW r \in JobRow, RowConsistent(r), r.status = "PENDING",
         NEW w \in Worker, NEW t \in Nat
  PROVE  /\ Claimed(r, w, t) \in JobRow
         /\ RowConsistent(Claimed(r, w, t))
         /\ Owned(Claimed(r, w, t), w)
         /\ Claimed(r, w, t).attempts = r.attempts + 1
         /\ r.attempts + 1 \in 0..AttemptLimit
<1>1. /\ Claimed(r, w, t).status = "RUNNING"
      /\ Claimed(r, w, t).worker_id = w
      /\ Claimed(r, w, t).lease_until = t
      /\ Claimed(r, w, t).attempts = r.attempts + 1
      /\ Claimed(r, w, t).max_attempts = r.max_attempts
  BY DEF Claimed, JobRow
<1>2. r.attempts + 1 \in 0..AttemptLimit /\ r.attempts + 1 <= r.max_attempts
  BY DEF JobRow, RowConsistent, AttemptLimit
<1>3. Claimed(r, w, t) \in JobRow
  BY <1>2, Zenon DEF Claimed, JobRow, Status
<1>4. RowConsistent(Claimed(r, w, t))
  BY <1>1, <1>2, NullAssumption DEF RowConsistent, JobRow
<1> QED
  BY <1>1, <1>2, <1>3, <1>4 DEF Owned

(* A renewal moves the lease of a RUNNING row and nothing else. *)
LEMMA RenewedRow ==
  ASSUME NEW r \in JobRow, RowConsistent(r), r.status = "RUNNING", NEW t \in Nat
  PROVE  /\ Renewed(r, t) \in JobRow
         /\ RowConsistent(Renewed(r, t))
         /\ \A w : Owned(r, w) => Owned(Renewed(r, t), w)
BY NullAssumption DEF Renewed, JobRow, RowConsistent, Owned

(* A completion ends the attempt under the worker that reported it. *)
LEMMA CompletedRow ==
  ASSUME NEW r \in JobRow, RowConsistent(r), NEW w \in Worker, Owned(r, w)
  PROVE  Completed(r, w) \in JobRow /\ RowConsistent(Completed(r, w))
BY NullAssumption, Zenon
   DEF Completed, JobRow, RowConsistent, Owned, Status, Terminal

(* A failure report leaves a retry or a job that is out of attempts. *)
LEMMA FailedRow ==
  ASSUME NEW r \in JobRow, RowConsistent(r), NEW w \in Worker, Owned(r, w),
         NEW t \in Nat
  PROVE  FailedBy(r, w, t) \in JobRow /\ RowConsistent(FailedBy(r, w, t))
<1>1. /\ FailedBy(r, w, t).status = IF Exhausted(r) THEN "FAILED" ELSE "PENDING"
      /\ FailedBy(r, w, t).worker_id = IF Exhausted(r) THEN w ELSE NULL
      /\ FailedBy(r, w, t).lease_until = NULL
      /\ FailedBy(r, w, t).attempts = r.attempts
      /\ FailedBy(r, w, t).max_attempts = r.max_attempts
  BY DEF FailedBy, JobRow
<1>2. FailedBy(r, w, t) \in JobRow
  BY Zenon DEF FailedBy, JobRow, Status, Terminal
<1>3. RowConsistent(FailedBy(r, w, t))
  BY <1>1, NullAssumption DEF RowConsistent, Exhausted, JobRow, AttemptLimit
<1> QED
  BY <1>2, <1>3

(* The reaper does the same to a row whose lease ran out. *)
LEMMA ReapedRow ==
  ASSUME NEW r \in JobRow, RowConsistent(r), r.status = "RUNNING", NEW t \in Nat
  PROVE  Reaped(r, t) \in JobRow /\ RowConsistent(Reaped(r, t))
<1>1. /\ Reaped(r, t).status = IF Exhausted(r) THEN "FAILED" ELSE "PENDING"
      /\ Reaped(r, t).worker_id = IF Exhausted(r) THEN r.worker_id ELSE NULL
      /\ Reaped(r, t).lease_until = NULL
      /\ Reaped(r, t).attempts = r.attempts
      /\ Reaped(r, t).max_attempts = r.max_attempts
  BY DEF Reaped, JobRow
<1>2. Reaped(r, t) \in JobRow
  BY Zenon DEF Reaped, JobRow, Status, Terminal
<1>3. RowConsistent(Reaped(r, t))
  BY <1>1, NullAssumption DEF RowConsistent, Exhausted, JobRow, AttemptLimit
<1> QED
  BY <1>2, <1>3

(* Only a PENDING row is canceled, so it has neither owner nor lease. *)
LEMMA CanceledRow ==
  ASSUME NEW r \in JobRow, RowConsistent(r), r.status = "PENDING"
  PROVE  Canceled(r) \in JobRow /\ RowConsistent(Canceled(r))
BY NullAssumption, Zenon DEF Canceled, JobRow, RowConsistent, Status, Terminal
------------------------------------------------------------------------------
(* The actions, one lemma each: the tables stay consistent. *)

(* Create adds a row no worker row can name yet. *)
LEMMA CreateIInv ==
  ASSUME IInv, NEW j \in Job, NEW max \in MaxAttempts, Create(j, max)
  PROVE  IInv'
<1> USE DEF IInv
<1>1. jobs' = [jobs EXCEPT ![j] = Inserted(max, now)]
      /\ jobs[j].status = "ABSENT"
      /\ UNCHANGED <<workers, now, call, reaped>>
  BY DEF Create, Exists
<1>2. Inserted(max, now) \in JobRow /\ RowConsistent(Inserted(max, now))
  BY InsertedRow DEF TypeOK
<1>3. TypeOK'
  BY <1>1, <1>2 DEF TypeOK
<1>4. JobsConsistent'
  BY <1>1, <1>2 DEF JobsConsistent, TypeOK
<1>5. CurrentJobIsHeld'
  BY <1>1 DEF CurrentJobIsHeld, Owned, TypeOK, WorkerRow
<1>6. CallsWellFormed'
  BY <1>1 DEF CallsWellFormed
<1> QED
  BY <1>3, <1>4, <1>5, <1>6

(* Claim takes a PENDING row, which no worker row names. *)
LEMMA ClaimJobIInv ==
  ASSUME IInv, NEW h \in Handler, NEW j \in Job, NEW w \in Worker,
         NEW s \in LeaseSeconds, NEW locked \in SUBSET Job,
         ClaimJob(h, j, w, s, locked)
  PROVE  IInv'
<1> USE DEF IInv
<1> DEFINE until == now + ClampLease(s)
           row == Claimed(jobs[j], w, until)
<1>1. /\ jobs[j].status = "PENDING"
      /\ workers[w].registered
      /\ jobs' = [jobs EXCEPT ![j] = row]
      /\ workers' = [workers EXCEPT ![w].current_job_id = j]
      /\ call' = [call EXCEPT ![h] =
                    Answered("claim", j, w, jobs[j].attempts + 1, "ok")]
      /\ UNCHANGED <<now, reaped>>
  BY DEF ClaimJob, IsFirst, Candidates, Claimable
<1>2. until \in Nat
  BY ClampLeaseType DEF TypeOK
<1>3. jobs[j] \in JobRow /\ RowConsistent(jobs[j])
  BY DEF TypeOK, JobsConsistent
<1> HIDE DEF until
<1>4. /\ row \in JobRow /\ RowConsistent(row) /\ Owned(row, w)
      /\ jobs[j].attempts + 1 \in 0..AttemptLimit
  BY <1>1, <1>2, <1>3, ClaimedRow
<1> HIDE DEF row
<1>5. TypeOK'
  <2>1. jobs' \in [Job -> JobRow]
    BY <1>1, <1>4 DEF TypeOK
  <2>2. workers' \in [Worker -> WorkerRow]
    BY <1>1 DEF TypeOK, WorkerRow
  <2>3. call' \in [Handler -> Call]
    BY <1>1, <1>4 DEF TypeOK, Call, Answered
  <2> QED
    BY <1>1, <2>1, <2>2, <2>3 DEF TypeOK
<1>6. JobsConsistent'
  BY <1>1, <1>4 DEF JobsConsistent, TypeOK
<1>7. CurrentJobIsHeld'
  <2> SUFFICES ASSUME NEW v \in Worker, workers'[v].current_job_id # NULL
               PROVE  /\ workers'[v].registered
                      /\ Owned(jobs'[workers'[v].current_job_id], v)
    BY DEF CurrentJobIsHeld
  <2>1. CASE v = w
    BY <1>1, <1>4, <2>1 DEF TypeOK, WorkerRow
  <2>2. CASE v # w
    <3>1. workers'[v] = workers[v]
      BY <1>1, <2>2 DEF TypeOK
    <3>2. Owned(jobs[workers[v].current_job_id], v) /\ workers[v].registered
      BY <3>1 DEF CurrentJobIsHeld
    <3>3. workers[v].current_job_id # j
      BY <3>2, <1>1 DEF Owned
    <3>4. jobs'[workers[v].current_job_id] = jobs[workers[v].current_job_id]
      BY <1>1, <3>1, <3>3 DEF TypeOK, WorkerRow
    <3> QED
      BY <3>1, <3>2, <3>4
  <2> QED
    BY <2>1, <2>2
<1>8. CallsWellFormed'
  BY <1>1 DEF CallsWellFormed, Answered, TypeOK
<1> QED
  BY <1>5, <1>6, <1>7, <1>8

(* A refused claim changes nothing but the answer. *)
LEMMA ClaimRefusedIInv ==
  ASSUME IInv, NEW h \in Handler, NEW w \in Worker, NEW locked \in SUBSET Job,
         ClaimRefused(h, w, locked)
  PROVE  IInv'
<1> USE DEF IInv
<1>1. PICK reply \in {"no_jobs", "unknown_worker"} :
        call' = [call EXCEPT ![h] = Answered("claim", NULL, w, 0, reply)]
  BY Zenon DEF ClaimRefused
<1>2. UNCHANGED <<jobs, workers, now, reaped>>
  BY DEF ClaimRefused
<1>3. TypeOK'
  BY <1>1, <1>2 DEF TypeOK, Call, Answered, AttemptLimit
<1>4. JobsConsistent' /\ CurrentJobIsHeld'
  BY <1>2 DEF JobsConsistent, CurrentJobIsHeld
<1>5. CallsWellFormed'
  BY <1>1 DEF CallsWellFormed, Answered, TypeOK
<1> QED
  BY <1>3, <1>4, <1>5

(* An answered request, and one that missed its row, are well formed. *)
LEMMA CallSteps ==
  ASSUME IInv, NEW h \in Handler, NEW j \in Job, NEW w \in Worker \cup {NULL},
         NEW op \in {"renew", "complete", "fail", "cancel"},
         NEW reply \in {"ok", "not_found", "not_owned", "not_cancelable",
                        "error"},
         op = "complete" => w \in Worker,
         \/ call' = [call EXCEPT ![h] = Answered(op, j, w, 0, reply)]
         \/ call' = [call EXCEPT ![h] = Missed(op, j, w)]
  PROVE  call' \in [Handler -> Call] /\ CallsWellFormed'
<1> USE DEF IInv
<1>1. CASE call' = [call EXCEPT ![h] = Answered(op, j, w, 0, reply)]
  BY <1>1 DEF TypeOK, Call, Answered, AttemptLimit, CallsWellFormed
<1>2. CASE call' = [call EXCEPT ![h] = Missed(op, j, w)]
  <2>1. Missed(op, j, w) \in Call
    BY DEF Call, Missed, AttemptLimit
  <2>2. call' \in [Handler -> Call]
    BY <1>2, <2>1 DEF TypeOK
  <2>3. CallsWellFormed'
    BY <1>2 DEF TypeOK, CallsWellFormed, Missed
  <2> QED
    BY <2>2, <2>3
<1> QED
  BY <1>1, <1>2

(* RenewLease keeps the row RUNNING under the same worker. *)
LEMMA RenewIInv ==
  ASSUME IInv, NEW h \in Handler, NEW j \in Job, NEW w \in Worker,
         NEW s \in LeaseSeconds, Renew(h, j, w, s)
  PROVE  IInv'
<1> USE DEF IInv
<1>1. call' \in [Handler -> Call] /\ CallsWellFormed'
  <2>1. \/ call' = [call EXCEPT ![h] = Answered("renew", j, w, 0, "ok")]
        \/ call' = [call EXCEPT ![h] = Missed("renew", j, w)]
    BY DEF Renew
  <2> QED
    BY <2>1, CallSteps
<1>2. UNCHANGED <<workers, now, reaped>>
  BY DEF Renew
<1>3. CASE UNCHANGED jobs
  BY <1>1, <1>2, <1>3 DEF TypeOK, JobsConsistent, CurrentJobIsHeld
<1>4. CASE Owned(jobs[j], w)
  <2> DEFINE until == now + ClampLease(s)
             row == Renewed(jobs[j], until)
  <2>1. jobs' = [jobs EXCEPT ![j] = row]
    BY <1>4 DEF Renew
  <2>2. until \in Nat
    BY ClampLeaseType DEF TypeOK
  <2>3. jobs[j] \in JobRow /\ RowConsistent(jobs[j]) /\ jobs[j].status = "RUNNING"
    BY <1>4 DEF TypeOK, JobsConsistent, Owned
  <2> HIDE DEF until
  <2>4. /\ row \in JobRow /\ RowConsistent(row)
        /\ \A v : Owned(jobs[j], v) => Owned(row, v)
    BY <2>2, <2>3, RenewedRow
  <2> HIDE DEF row
  <2>5. TypeOK' /\ JobsConsistent'
    BY <1>1, <1>2, <2>1, <2>4 DEF TypeOK, JobsConsistent
  <2>6. CurrentJobIsHeld'
    BY <1>2, <2>1, <2>4 DEF CurrentJobIsHeld, TypeOK, WorkerRow
  <2> QED
    BY <1>1, <2>5, <2>6
<1> QED
  BY <1>3, <1>4 DEF Renew

(* The transaction of an accepted report: the row leaves RUNNING and the   *)
(* reporting worker's row names no job, whichever job it named before.     *)
LEMMA ReportTables ==
  ASSUME IInv, NEW j \in Job, NEW w \in Worker, Owned(jobs[j], w),
         NEW row \in JobRow, RowConsistent(row),
         jobs' = [jobs EXCEPT ![j] = row], workers' = ReportCounted(w)
  PROVE  /\ jobs' \in [Job -> JobRow] /\ workers' \in [Worker -> WorkerRow]
         /\ JobsConsistent' /\ CurrentJobIsHeld'
<1> USE DEF IInv
<1>1. jobs' \in [Job -> JobRow]
  BY DEF TypeOK
<1>2. workers' \in [Worker -> WorkerRow]
  <2>1. workers[w] \in WorkerRow
    BY DEF TypeOK
  <2>2. Counted(workers[w]) \in WorkerRow
    <3>1. workers[w].jobs_processed + 1 \in Nat
      BY <2>1 DEF WorkerRow
    <3> QED
      BY <2>1, <3>1, Zenon DEF WorkerRow, Counted
  <2> QED
    BY <2>1, <2>2 DEF TypeOK, ReportCounted
<1>3. JobsConsistent'
  BY DEF JobsConsistent, TypeOK
<1>4. CurrentJobIsHeld'
  <2> SUFFICES ASSUME NEW v \in Worker, workers'[v].current_job_id # NULL
               PROVE  /\ workers'[v].registered
                      /\ Owned(jobs'[workers'[v].current_job_id], v)
    BY DEF CurrentJobIsHeld
  <2>1. v # w
    <3> SUFFICES ASSUME v = w PROVE FALSE
      OBVIOUS
    <3>1. Counted(workers[w]).current_job_id = NULL
      BY DEF Counted, TypeOK, WorkerRow
    <3> QED
      BY <3>1 DEF ReportCounted, TypeOK, CurrentJobIsHeld
  <2>2. workers'[v] = workers[v]
    BY <2>1 DEF TypeOK, ReportCounted
  <2>3. Owned(jobs[workers[v].current_job_id], v) /\ workers[v].registered
    BY <2>2 DEF CurrentJobIsHeld
  <2>4. workers[v].current_job_id # j
    BY <2>1, <2>3 DEF Owned
  <2>5. jobs'[workers[v].current_job_id] = jobs[workers[v].current_job_id]
    BY <2>2, <2>4 DEF TypeOK, WorkerRow
  <2> QED
    BY <2>2, <2>3, <2>5
<1> QED
  BY <1>1, <1>2, <1>3, <1>4

(* Complete, accepted or not. *)
LEMMA CompleteIInv ==
  ASSUME IInv, NEW h \in Handler, NEW j \in Job, NEW w \in Worker,
         Complete(h, j, w)
  PROVE  IInv'
<1> USE DEF IInv
<1>1. call' \in [Handler -> Call] /\ CallsWellFormed'
  <2>1. \/ call' = [call EXCEPT ![h] = Answered("complete", j, w, 0, "ok")]
        \/ call' = [call EXCEPT ![h] = Missed("complete", j, w)]
    BY DEF Complete
  <2> QED
    BY <2>1, CallSteps
<1>2. UNCHANGED <<now, reaped>>
  BY DEF Complete
<1>3. CASE UNCHANGED <<jobs, workers>>
  BY <1>1, <1>2, <1>3 DEF TypeOK, JobsConsistent, CurrentJobIsHeld
<1>4. CASE Owned(jobs[j], w)
  <2> DEFINE row == Completed(jobs[j], w)
  <2>1. jobs' = [jobs EXCEPT ![j] = row] /\ workers' = ReportCounted(w)
    BY <1>4 DEF Complete
  <2>2. row \in JobRow /\ RowConsistent(row)
    BY <1>4, CompletedRow DEF TypeOK, JobsConsistent
  <2> HIDE DEF row
  <2>3. /\ jobs' \in [Job -> JobRow] /\ workers' \in [Worker -> WorkerRow]
        /\ JobsConsistent' /\ CurrentJobIsHeld'
    BY <1>4, <2>1, <2>2, ReportTables, Zenon
  <2> QED
    BY <1>1, <1>2, <2>3 DEF TypeOK
<1> QED
  BY <1>3, <1>4 DEF Complete

(* The read of Fail keeps the attempt count it saw. *)
LEMMA FailReadIInv ==
  ASSUME IInv, NEW h \in Handler, NEW j \in Job, NEW w \in Worker,
         FailRead(h, j, w)
  PROVE  IInv'
<1> USE DEF IInv
<1>1. UNCHANGED <<jobs, workers, now, reaped>>
  BY DEF FailRead
<1>2. JobsConsistent' /\ CurrentJobIsHeld'
  BY <1>1 DEF JobsConsistent, CurrentJobIsHeld
<1>3. call' \in [Handler -> Call] /\ CallsWellFormed'
  <2>1. CASE call' = [call EXCEPT ![h] = Answered("fail", j, w, 0, "not_found")]
    BY <2>1, CallSteps, Zenon
  <2>2. CASE call' = [call EXCEPT ![h] =
                 [op |-> "fail", step |-> "write", job |-> j, worker |-> w,
                  attempts |-> jobs[j].attempts, reply |-> "none"]]
    <3>1. jobs[j].attempts \in 0..AttemptLimit
      BY DEF TypeOK, JobRow
    <3> QED
      BY <2>2, <3>1 DEF TypeOK, Call, CallsWellFormed
  <2> QED
    BY <2>1, <2>2, Zenon DEF FailRead
<1> QED
  BY <1>1, <1>2, <1>3 DEF TypeOK

(* The transaction of Fail, with whatever attempt count was read before. *)
LEMMA FailWriteIInv ==
  ASSUME IInv, NEW h \in Handler, FailWrite(h)
  PROVE  IInv'
<1> USE DEF IInv
<1> DEFINE j == call[h].job
           w == call[h].worker
           t == now + Delay[call[h].attempts]
<1>1. j \in Job /\ w \in Worker
  BY DEF FailWrite, CallsWellFormed
<1>2. t \in Nat
  BY DelayAssumption DEF TypeOK, Call
<1>3. /\ UNCHANGED <<now, reaped>>
      /\ \/ /\ UNCHANGED <<jobs, workers>>
            /\ call' = [call EXCEPT ![h] = Missed("fail", j, w)]
         \/ /\ Owned(jobs[j], w)
            /\ jobs' = [jobs EXCEPT ![j] = FailedBy(jobs[j], w, t)]
            /\ workers' = ReportCounted(w)
            /\ call' = [call EXCEPT ![h] = Answered("fail", j, w, 0, "ok")]
  BY DEF FailWrite
<1> HIDE DEF j, w, t
<1>4. call' \in [Handler -> Call] /\ CallsWellFormed'
  BY <1>1, <1>3, CallSteps
<1>5. CASE UNCHANGED <<jobs, workers>>
  BY <1>3, <1>4, <1>5 DEF TypeOK, JobsConsistent, CurrentJobIsHeld
<1>6. CASE /\ Owned(jobs[j], w)
           /\ jobs' = [jobs EXCEPT ![j] = FailedBy(jobs[j], w, t)]
           /\ workers' = ReportCounted(w)
  <2> DEFINE row == FailedBy(jobs[j], w, t)
  <2>1. row \in JobRow /\ RowConsistent(row)
    BY <1>1, <1>2, <1>6, FailedRow DEF TypeOK, JobsConsistent
  <2>2. jobs' = [jobs EXCEPT ![j] = row]
    BY <1>6
  <2> HIDE DEF row
  <2>3. /\ jobs' \in [Job -> JobRow] /\ workers' \in [Worker -> WorkerRow]
        /\ JobsConsistent' /\ CurrentJobIsHeld'
    BY <1>1, <1>6, <2>1, <2>2, ReportTables, Zenon
  <2> QED
    BY <1>3, <1>4, <2>3 DEF TypeOK
<1> QED
  BY <1>3, <1>5, <1>6

(* Cancel, accepted or not: a PENDING row is named by no worker row. *)
LEMMA CancelIInv ==
  ASSUME IInv, NEW h \in Handler, NEW j \in Job, Cancel(h, j)
  PROVE  IInv'
<1> USE DEF IInv
<1>1. call' \in [Handler -> Call] /\ CallsWellFormed'
  <2>1. \/ call' = [call EXCEPT ![h] = Answered("cancel", j, NULL, 0, "ok")]
        \/ call' = [call EXCEPT ![h] = Missed("cancel", j, NULL)]
    BY DEF Cancel
  <2> QED
    BY <2>1, CallSteps
<1>2. UNCHANGED <<workers, now, reaped>>
  BY DEF Cancel
<1>3. CASE UNCHANGED jobs
  BY <1>1, <1>2, <1>3 DEF TypeOK, JobsConsistent, CurrentJobIsHeld
<1>4. CASE jobs[j].status = "PENDING"
  <2> DEFINE row == Canceled(jobs[j])
  <2>1. jobs' = [jobs EXCEPT ![j] = row]
    BY <1>4 DEF Cancel
  <2>2. row \in JobRow /\ RowConsistent(row)
    BY <1>4, CanceledRow DEF TypeOK, JobsConsistent
  <2> HIDE DEF row
  <2>3. TypeOK' /\ JobsConsistent'
    BY <1>1, <1>2, <2>1, <2>2 DEF TypeOK, JobsConsistent
  <2>4. CurrentJobIsHeld'
    BY <1>2, <1>4, <2>1 DEF CurrentJobIsHeld, Owned, TypeOK, WorkerRow
  <2> QED
    BY <1>1, <2>3, <2>4
<1> QED
  BY <1>3, <1>4 DEF Cancel

(* The second read answers with one of the store's errors, or ok. *)
LEMMA ExplainIInv ==
  ASSUME IInv, NEW h \in Handler, Explain(h)
  PROVE  IInv'
<1> USE DEF IInv
<1> DEFINE c == call[h]
           reply == Explanation(c.op, jobs[c.job], c.worker)
<1>1. /\ c.op \in {"renew", "complete", "fail", "cancel"}
      /\ c.job \in Job /\ c.worker \in Worker \cup {NULL}
      /\ c.op = "complete" => c.worker \in Worker
  BY DEF Explain, CallsWellFormed, TypeOK, Call
<1>2. reply \in {"ok", "not_found", "not_owned", "not_cancelable"}
  <2>1. CASE ~Exists(jobs[c.job])
    BY <1>1, <2>1 DEF Explanation
  <2>2. CASE Exists(jobs[c.job])
    BY <1>1, <2>2 DEF Explanation
  <2> QED
    BY <2>1, <2>2
<1>3. call' = [call EXCEPT ![h] = Answered(c.op, c.job, c.worker, 0, reply)]
  BY SMTT(30) DEF Explain
<1> HIDE DEF c, reply
<1>4. call' \in [Handler -> Call] /\ CallsWellFormed'
  BY <1>1, <1>2, <1>3, CallSteps, ZenonT(40)
<1> QED
  BY <1>4 DEF Explain, TypeOK, JobsConsistent, CurrentJobIsHeld

(* A request that dies leaves the tables alone. *)
LEMMA AbortIInv ==
  ASSUME IInv, NEW h \in Handler, Abort(h)
  PROVE  IInv'
<1> USE DEF IInv
<1> DEFINE c == call[h]
<1>1. /\ c.op \in {"renew", "complete", "fail", "cancel"}
      /\ c.job \in Job /\ c.worker \in Worker \cup {NULL}
      /\ c.op = "complete" => c.worker \in Worker
  BY DEF Abort, Free, CallsWellFormed, TypeOK, Call
<1>2. call' = [call EXCEPT ![h] = Answered(c.op, c.job, c.worker, 0, "error")]
  BY DEF Abort
<1> HIDE DEF c
<1>3. call' \in [Handler -> Call] /\ CallsWellFormed'
  BY <1>1, <1>2, CallSteps, Zenon
<1> QED
  BY <1>3 DEF Abort, TypeOK, JobsConsistent, CurrentJobIsHeld

(* A sweep of the reaper: whoever was named as running a reaped job is     *)
(* its owner, so its row is cleared.                                       *)
LEMMA ReapIInv ==
  ASSUME IInv, NEW S \in SUBSET Job, NEW locked \in SUBSET Job, Reap(S, locked)
  PROVE  IInv'
<1> USE DEF IInv
<1> DEFINE t(j) == now + Delay[jobs[j].attempts]
<1>1. \A j \in S : j \in Job /\ jobs[j].status = "RUNNING"
  BY DEF Reap, IsBatch, ExpiredJobs, Expired
<1>2. \A j \in Job : t(j) \in Nat
  BY DelayAssumption DEF TypeOK, JobRow
<1>3. \A j \in Job : jobs[j] \in JobRow /\ RowConsistent(jobs[j])
  BY DEF TypeOK, JobsConsistent
<1>4. jobs' = [j \in Job |-> IF j \in S THEN Reaped(jobs[j], t(j)) ELSE jobs[j]]
  BY DEF Reap
<1> HIDE DEF t
<1>5. \A j \in S : Reaped(jobs[j], t(j)) \in JobRow
                   /\ RowConsistent(Reaped(jobs[j], t(j)))
  BY <1>1, <1>2, <1>3, ReapedRow
<1>6. jobs' \in [Job -> JobRow]
  BY <1>3, <1>4, <1>5
<1>7. JobsConsistent'
  BY <1>3, <1>4, <1>5 DEF JobsConsistent
<1>8. \A v \in Worker :
        \/ workers'[v] = workers[v]
        \/ workers'[v] = [workers[v] EXCEPT !.current_job_id = NULL]
  BY DEF Reap
<1>9. workers' \in [Worker -> WorkerRow]
  <2>1. \A v \in Worker : workers[v] \in WorkerRow
                          /\ [workers[v] EXCEPT !.current_job_id = NULL] \in WorkerRow
    BY DEF TypeOK, WorkerRow
  <2> QED
    BY <2>1 DEF Reap
<1>10. CurrentJobIsHeld'
  <2> SUFFICES ASSUME NEW v \in Worker, workers'[v].current_job_id # NULL
               PROVE  /\ workers'[v].registered
                      /\ Owned(jobs'[workers'[v].current_job_id], v)
    BY DEF CurrentJobIsHeld
  <2> DEFINE k == workers[v].current_job_id
  <2>1. workers'[v] = workers[v]
    BY <1>8, Zenon DEF TypeOK, WorkerRow
  <2>2. k \in Job /\ Owned(jobs[k], v) /\ workers[v].registered
    BY <2>1 DEF CurrentJobIsHeld, TypeOK, WorkerRow
  <2>3. k \notin S
    <3> SUFFICES ASSUME k \in S PROVE FALSE
      OBVIOUS
    <3>1. jobs[k].worker_id = v
      BY <2>2 DEF Owned
    <3>2. workers'[v] = [workers[v] EXCEPT !.current_job_id = NULL]
      BY <3>1 DEF Reap
    <3>3. workers'[v].current_job_id = NULL
      BY <3>2 DEF TypeOK, WorkerRow
    <3> QED
      BY <3>3
  <2> QED
    BY <1>4, <2>1, <2>2, <2>3
<1>11. reaped' \in Nat
  <2>1. IsFiniteSet(S)
    BY JobAssumption, FS_Subset, Zenon
  <2> QED
    BY <2>1, FS_CardinalityType DEF Reap, TypeOK
<1> QED
  BY <1>6, <1>7, <1>9, <1>10, <1>11 DEF Reap, TypeOK, CallsWellFormed

(* Registering shows the worker idle. *)
LEMMA RegisterIInv ==
  ASSUME IInv, NEW w \in Worker, Register(w)
  PROVE  IInv'
<1> USE DEF IInv
<1>1. workers' \in [Worker -> WorkerRow]
  BY Zenon DEF Register, TypeOK, WorkerRow
<1>2. CurrentJobIsHeld'
  BY DEF Register, CurrentJobIsHeld, TypeOK, WorkerRow
<1> QED
  BY <1>1, <1>2 DEF Register, TypeOK, JobsConsistent, CallsWellFormed

(* No step of the store leaves the invariant. *)
LEMMA NextIInv == IInv /\ [Next]_vars => IInv'
<1> SUFFICES ASSUME IInv, [Next]_vars
             PROVE  IInv'
  OBVIOUS
<1>1. CASE Tick
  BY <1>1 DEF Tick, IInv, TypeOK, JobsConsistent, CurrentJobIsHeld, CallsWellFormed
<1>2. CASE UNCHANGED vars
  BY <1>2 DEF vars, IInv, TypeOK, JobsConsistent, CurrentJobIsHeld, CallsWellFormed
<1> QED
  BY <1>1, <1>2, CreateIInv, ClaimJobIInv, ClaimRefusedIInv, RenewIInv,
     CompleteIInv, FailReadIInv, FailWriteIInv, CancelIInv, ExplainIInv,
     AbortIInv, ReapIInv, RegisterIInv
     DEF Next
------------------------------------------------------------------------------
(* The store's invariant, for every instance. *)
THEOREM IInvAlways == Spec => []IInv
BY InitIInv, NextIInv, PTL DEF Spec

(* Types: in particular attempts stays within what ValidateNew allows. *)
THEOREM TypeCorrect == Spec => []TypeOK
BY IInvAlways, PTL DEF IInv

(* Every row of the jobs table is consistent after every statement. *)
THEOREM JobsAlwaysConsistent == Spec => []JobsConsistent
BY IInvAlways, PTL DEF IInv

(* A worker's current_job_id is a job it really holds. *)
THEOREM CurrentJobAlwaysHeld == Spec => []CurrentJobIsHeld
BY IInvAlways, PTL DEF IInv
------------------------------------------------------------------------------
(* One edge of the lifecycle diagram, or none, between two versions of a   *)
(* row.                                                                    *)
SameRow(r, q) ==
  /\ q.status = r.status /\ q.attempts = r.attempts
  /\ q.max_attempts = r.max_attempts /\ q.worker_id = r.worker_id

Edge(r, q) ==
  \/ SameRow(r, q)
  \/ /\ r.status = "ABSENT" /\ q.status = "PENDING" /\ q.attempts = 0
     /\ q.worker_id = NULL /\ q.max_attempts >= 1
  \/ /\ q.max_attempts = r.max_attempts
     /\ \/ /\ r.status = "PENDING" /\ q.status = "RUNNING"
           /\ r.attempts < r.max_attempts /\ q.attempts = r.attempts + 1
           /\ q.worker_id \in Worker
        \/ /\ r.status = "PENDING" /\ q.status = "CANCELED"
           /\ q.attempts = r.attempts /\ q.worker_id = NULL
        \/ /\ r.status = "RUNNING" /\ q.status = "COMPLETED"
           /\ q.attempts = r.attempts /\ q.worker_id = r.worker_id
        \/ /\ r.status = "RUNNING" /\ q.status = "PENDING"
           /\ r.attempts < r.max_attempts
           /\ q.attempts = r.attempts /\ q.worker_id = NULL
        \/ /\ r.status = "RUNNING" /\ q.status = "FAILED"
           /\ r.attempts = r.max_attempts
           /\ q.attempts = r.attempts /\ q.worker_id = r.worker_id

(* No edge lowers the attempts of a row, and an edge into RUNNING that     *)
(* keeps them keeps the owner: only a claim changes it.                    *)
LEMMA EdgeAttempts ==
  ASSUME NEW r, NEW q, Edge(r, q), r.attempts \in Nat, q.attempts \in Nat,
         r.status = "ABSENT" => r.attempts = 0
  PROVE  /\ r.attempts <= q.attempts
         /\ q.attempts = r.attempts /\ q.status = "RUNNING" =>
              r.status = "RUNNING" /\ q.worker_id = r.worker_id
<1>1. \/ SameRow(r, q)
      \/ r.status = "ABSENT" /\ q.status = "PENDING" /\ q.attempts = 0
      \/ q.attempts = r.attempts + 1
      \/ q.attempts = r.attempts /\ q.status # "RUNNING"
  BY DEF Edge
<1>2. CASE SameRow(r, q)
  BY <1>2 DEF SameRow
<1>3. CASE r.status = "ABSENT" /\ q.status = "PENDING" /\ q.attempts = 0
  BY <1>3
<1>4. CASE q.attempts = r.attempts + 1
  BY <1>4
<1>5. CASE q.attempts = r.attempts /\ q.status # "RUNNING"
  BY <1>5
<1> QED
  BY <1>1, <1>2, <1>3, <1>4, <1>5

(* Each statement of the store moves its row along one edge. *)
LEMMA RowEdges ==
  ASSUME NEW r \in JobRow, RowConsistent(r), NEW t \in Nat, NEW w \in Worker
  PROVE  /\ r.status = "PENDING" => Edge(r, Claimed(r, w, t))
         /\ Edge(r, Renewed(r, t))
         /\ Owned(r, w) => Edge(r, Completed(r, w))
         /\ Owned(r, w) => Edge(r, FailedBy(r, w, t))
         /\ r.status = "RUNNING" => Edge(r, Reaped(r, t))
<1>1. r.status = "PENDING" => Edge(r, Claimed(r, w, t))
  BY DEF Edge, Claimed, JobRow, RowConsistent
<1>2. Edge(r, Renewed(r, t))
  BY DEF Edge, SameRow, Renewed, JobRow
<1>3. Owned(r, w) => Edge(r, Completed(r, w))
  BY DEF Edge, Completed, JobRow, Owned
<1>4. Owned(r, w) => Edge(r, FailedBy(r, w, t))
  <2>1. /\ FailedBy(r, w, t).status = IF Exhausted(r) THEN "FAILED" ELSE "PENDING"
        /\ FailedBy(r, w, t).worker_id = IF Exhausted(r) THEN w ELSE NULL
        /\ FailedBy(r, w, t).attempts = r.attempts
        /\ FailedBy(r, w, t).max_attempts = r.max_attempts
    BY DEF FailedBy, JobRow
  <2> QED
    BY <2>1 DEF Edge, Owned, Exhausted, RowConsistent, JobRow, AttemptLimit
<1>5. r.status = "RUNNING" => Edge(r, Reaped(r, t))
  <2>1. /\ Reaped(r, t).status = IF Exhausted(r) THEN "FAILED" ELSE "PENDING"
        /\ Reaped(r, t).worker_id = IF Exhausted(r) THEN r.worker_id ELSE NULL
        /\ Reaped(r, t).attempts = r.attempts
        /\ Reaped(r, t).max_attempts = r.max_attempts
    BY DEF Reaped, JobRow
  <2>2. r.attempts <= r.max_attempts /\ r.attempts \in Nat /\ r.max_attempts \in Nat
    BY DEF RowConsistent, JobRow, AttemptLimit
  <2>3. CASE Exhausted(r)
    <3>1. r.attempts = r.max_attempts
      BY <2>2, <2>3 DEF Exhausted
    <3> QED
      BY <2>1, <2>3, <3>1 DEF Edge
  <2>4. CASE ~Exhausted(r)
    <3>1. r.attempts < r.max_attempts
      BY <2>2, <2>4, SMTT(30) DEF Exhausted
    <3> QED
      BY <2>1, <2>4, <3>1 DEF Edge
  <2> QED
    BY <2>3, <2>4
<1> QED
  BY <1>1, <1>2, <1>3, <1>4, <1>5

(* Every step of the store moves every row along one edge, or none. *)
LEMMA StepEdges ==
  ASSUME IInv, [Next]_vars, NEW k \in Job
  PROVE  Edge(jobs[k], jobs'[k])
<1> USE DEF IInv
<1>1. jobs[k] \in JobRow /\ RowConsistent(jobs[k]) /\ now \in Nat
  BY DEF TypeOK, JobsConsistent
<1>2. CASE UNCHANGED jobs
  BY <1>2 DEF Edge, SameRow
<1>3. ASSUME NEW j \in Job, NEW max \in MaxAttempts, Create(j, max)
      PROVE  Edge(jobs[k], jobs'[k])
  BY <1>3, AttemptsAssumption
     DEF Create, Exists, Inserted, Edge, SameRow, TypeOK, AttemptLimit
<1>4. ASSUME NEW h \in Handler, NEW j \in Job, NEW w \in Worker,
             NEW s \in LeaseSeconds, NEW locked \in SUBSET Job,
             ClaimJob(h, j, w, s, locked)
      PROVE  Edge(jobs[k], jobs'[k])
  <2> DEFINE until == now + ClampLease(s)
  <2>1. until \in Nat
    BY ClampLeaseType DEF TypeOK
  <2>2. jobs' = [jobs EXCEPT ![j] = Claimed(jobs[j], w, until)]
        /\ jobs[j].status = "PENDING"
    BY <1>4 DEF ClaimJob, IsFirst, Candidates, Claimable
  <2> HIDE DEF until
  <2>3. CASE k # j
    BY <2>2, <2>3 DEF TypeOK, Edge, SameRow
  <2>4. CASE k = j
    BY <1>1, <2>1, <2>2, <2>4, RowEdges DEF TypeOK
  <2> QED
    BY <2>3, <2>4
<1>5. ASSUME NEW h \in Handler, NEW j \in Job, NEW w \in Worker,
             NEW s \in LeaseSeconds, Renew(h, j, w, s)
      PROVE  Edge(jobs[k], jobs'[k])
  <2> DEFINE until == now + ClampLease(s)
  <2>1. until \in Nat
    BY ClampLeaseType DEF TypeOK
  <2>2. UNCHANGED jobs \/ jobs' = [jobs EXCEPT ![j] = Renewed(jobs[j], until)]
    BY <1>5 DEF Renew
  <2> HIDE DEF until
  <2>3. CASE k # j \/ UNCHANGED jobs
    BY <2>2, <2>3 DEF TypeOK, Edge, SameRow
  <2>4. CASE k = j
    <3>1. Edge(jobs[k], Renewed(jobs[k], until))
      BY <1>1, <2>1, RowEdges
    <3>2. jobs'[k] = jobs[k] \/ jobs'[k] = Renewed(jobs[k], until)
      BY <2>2, <2>4 DEF TypeOK
    <3>3. Edge(jobs[k], jobs[k])
      BY DEF Edge, SameRow
    <3> QED
      BY <3>1, <3>2, <3>3
  <2> QED
    BY <2>3, <2>4
<1>6. ASSUME NEW h \in Handler, NEW j \in Job, NEW w \in Worker,
             Complete(h, j, w)
      PROVE  Edge(jobs[k], jobs'[k])
  <2>1. \/ UNCHANGED jobs
        \/ /\ Owned(jobs[j], w)
           /\ jobs' = [jobs EXCEPT ![j] = Completed(jobs[j], w)]
    BY <1>6 DEF Complete
  <2>2. CASE k # j \/ UNCHANGED jobs
    BY <2>1, <2>2 DEF TypeOK, Edge, SameRow
  <2>3. CASE k = j
    BY <1>1, <1>2, <2>1, <2>3, RowEdges DEF TypeOK
  <2> QED
    BY <2>2, <2>3
<1>7. ASSUME NEW h \in Handler, FailWrite(h)
      PROVE  Edge(jobs[k], jobs'[k])
  <2> DEFINE j == call[h].job
             w == call[h].worker
             t == now + Delay[call[h].attempts]
  <2>1. j \in Job /\ w \in Worker
    BY <1>7 DEF FailWrite, CallsWellFormed
  <2>2. t \in Nat
    BY DelayAssumption DEF TypeOK, Call
  <2>3. \/ UNCHANGED jobs
        \/ /\ Owned(jobs[j], w)
           /\ jobs' = [jobs EXCEPT ![j] = FailedBy(jobs[j], w, t)]
    BY <1>7 DEF FailWrite
  <2> HIDE DEF j, w, t
  <2>4. CASE k # j \/ UNCHANGED jobs
    BY <2>3, <2>4 DEF TypeOK, Edge, SameRow
  <2>5. CASE k = j
    BY <1>1, <1>2, <2>1, <2>2, <2>3, <2>5, RowEdges DEF TypeOK
  <2> QED
    BY <2>4, <2>5
<1>8. ASSUME NEW h \in Handler, NEW j \in Job, Cancel(h, j)
      PROVE  Edge(jobs[k], jobs'[k])
  <2>1. \/ UNCHANGED jobs
        \/ /\ jobs[j].status = "PENDING"
           /\ jobs' = [jobs EXCEPT ![j] = Canceled(jobs[j])]
    BY <1>8 DEF Cancel
  <2>2. CASE k # j \/ UNCHANGED jobs
    BY <2>1, <2>2 DEF TypeOK, Edge, SameRow
  <2>3. CASE k = j
    <3>1. jobs[k].status = "PENDING" => Edge(jobs[k], Canceled(jobs[k]))
      BY <1>1 DEF Edge, Canceled, JobRow, RowConsistent
    <3>2. \/ jobs'[k] = jobs[k]
          \/ jobs[k].status = "PENDING" /\ jobs'[k] = Canceled(jobs[k])
      BY <2>1, <2>3 DEF TypeOK
    <3>3. Edge(jobs[k], jobs[k])
      BY DEF Edge, SameRow
    <3> QED
      BY <3>1, <3>2, <3>3
  <2> QED
    BY <2>2, <2>3
<1>9. ASSUME NEW S \in SUBSET Job, NEW locked \in SUBSET Job, Reap(S, locked)
      PROVE  Edge(jobs[k], jobs'[k])
  <2> DEFINE t == now + Delay[jobs[k].attempts]
  <2>1. t \in Nat
    BY <1>1, DelayAssumption DEF JobRow
  <2>2. jobs'[k] = (IF k \in S THEN Reaped(jobs[k], t) ELSE jobs[k])
        /\ (k \in S => jobs[k].status = "RUNNING")
    BY <1>9 DEF Reap, IsBatch, ExpiredJobs, Expired
  <2> HIDE DEF t
  <2>3. CASE k \notin S
    BY <2>2, <2>3 DEF Edge, SameRow
  <2>4. CASE k \in S
    <3>1. jobs[k].worker_id \in Worker
      BY <1>1, <2>2, <2>4 DEF RowConsistent, JobRow
    <3> QED
      BY <1>1, <2>1, <2>2, <2>4, <3>1, RowEdges
  <2> QED
    BY <2>3, <2>4
<1>10. ASSUME NEW h \in Handler, NEW w \in Worker, NEW locked \in SUBSET Job,
              ClaimRefused(h, w, locked)
       PROVE  Edge(jobs[k], jobs'[k])
  BY <1>2, <1>10 DEF ClaimRefused
<1>11. ASSUME NEW h \in Handler, NEW j \in Job, NEW w \in Worker,
              FailRead(h, j, w)
       PROVE  Edge(jobs[k], jobs'[k])
  BY <1>2, <1>11 DEF FailRead
<1>12. ASSUME NEW h \in Handler, Explain(h)
       PROVE  Edge(jobs[k], jobs'[k])
  BY <1>2, <1>12 DEF Explain
<1>13. ASSUME NEW w \in Worker, Register(w)
       PROVE  Edge(jobs[k], jobs'[k])
  BY <1>2, <1>13 DEF Register
<1>14. CASE Tick
  BY <1>2, <1>14 DEF Tick
<1>15. CASE UNCHANGED vars
  BY <1>2, <1>15 DEF vars
<1>16. ASSUME NEW h \in Handler, Abort(h)
       PROVE  Edge(jobs[k], jobs'[k])
  BY <1>2, <1>16 DEF Abort
<1> QED
  BY <1>3, <1>4, <1>5, <1>6, <1>7, <1>8, <1>9, <1>10, <1>11, <1>12, <1>13,
     <1>14, <1>15, <1>16
     DEF Next

(* The initial tables are the initial state of the diagram. *)
LEMMA InitLifecycle == Init => Lifecycle!LInit
BY SMTT(30) DEF Init, NoRow, Lifecycle!LInit

(* An edge is a step of the diagram. *)
LEMMA EdgesAreLifecycle ==
  ASSUME IInv, \A k \in Job : Edge(jobs[k], jobs'[k])
  PROVE  Lifecycle!LNext
<1> SUFFICES ASSUME NEW j \in Job
             PROVE  Lifecycle!LMove(j) \/ Lifecycle!LStay(j)
  BY SMTT(30) DEF Lifecycle!LNext
<1>1. Edge(jobs[j], jobs'[j])
  OBVIOUS
<1>2. jobs[j] \in JobRow /\ RowConsistent(jobs[j])
  BY DEF IInv, TypeOK, JobsConsistent
<1> QED
  BY <1>1, <1>2, ZenonT(40)
     DEF Edge, SameRow, Lifecycle!LMove, Lifecycle!LStay, Lifecycle!LSubmit,
         Lifecycle!LClaim, Lifecycle!LCancel, Lifecycle!LComplete,
         Lifecycle!LRetry, Lifecycle!LGiveUp, Lifecycle!Becomes

(* The store implements the diagram of job states: however requests and    *)
(* sweeps interleave, finished jobs never change, each claim consumes one  *)
(* attempt, and a job changes hands only through PENDING.                  *)
THEOREM StoreImplementsLifecycle == Spec => FollowsLifecycle
<1>1. IInv /\ [Next]_vars => [Lifecycle!LNext]_Lifecycle!lvars
  BY StepEdges, EdgesAreLifecycle
<1> QED
  BY <1>1, InitLifecycle, IInvAlways, PTL
     DEF Spec, FollowsLifecycle, Lifecycle!LSpec
------------------------------------------------------------------------------
(* The state a handler has just entered is true of the tables. *)
Justified(h) ==
  LET c == call'[h] IN
  /\ c.op = "complete" /\ c.reply = "ok" =>
       jobs'[c.job].status = "COMPLETED" /\ jobs'[c.job].worker_id = c.worker
  /\ c.op = "cancel" /\ c.reply = "ok" => jobs'[c.job].status = "CANCELED"
  /\ c.op = "claim" /\ c.reply = "ok" =>
       /\ c.attempts = jobs[c.job].attempts + 1
       /\ c.attempts = jobs'[c.job].attempts
       /\ jobs'[c.job].worker_id = c.worker

OthersKept(h) == \A g \in Handler \ {h} : call'[g] = call[g]

(* A step moves at most one handler, and what it answers is true. *)
LEMMA AnswersJustified ==
  ASSUME IInv, Next
  PROVE  \/ UNCHANGED call
         \/ \E h \in Handler : OthersKept(h) /\ Justified(h)
<1> USE DEF IInv
<1> DEFINE Goal == \/ UNCHANGED call
                   \/ \E h \in Handler : OthersKept(h) /\ Justified(h)
<1>1. ASSUME NEW h \in Handler, NEW j \in Job, NEW w \in Worker,
             NEW s \in LeaseSeconds, NEW locked \in SUBSET Job,
             ClaimJob(h, j, w, s, locked)
      PROVE  Goal
  <2> DEFINE until == now + ClampLease(s)
  <2>1. /\ call' = [call EXCEPT ![h] =
                      Answered("claim", j, w, jobs[j].attempts + 1, "ok")]
        /\ jobs' = [jobs EXCEPT ![j] = Claimed(jobs[j], w, until)]
    BY <1>1 DEF ClaimJob
  <2>2. /\ Claimed(jobs[j], w, until).attempts = jobs[j].attempts + 1
        /\ Claimed(jobs[j], w, until).worker_id = w
    BY DEF TypeOK, JobRow, Claimed
  <2> HIDE DEF until
  <2>3. OthersKept(h) /\ Justified(h)
    BY <2>1, <2>2 DEF TypeOK, OthersKept, Justified, Answered
  <2> QED
    BY <2>3, Zenon
<1>2. ASSUME NEW h \in Handler, NEW w \in Worker, NEW locked \in SUBSET Job,
             ClaimRefused(h, w, locked)
      PROVE  Goal
  <2>1. OthersKept(h) /\ Justified(h)
    BY <1>2 DEF ClaimRefused, TypeOK, OthersKept, Justified, Answered
  <2> QED
    BY <2>1, Zenon
<1>3. ASSUME NEW h \in Handler, NEW j \in Job, NEW w \in Worker,
             NEW s \in LeaseSeconds, Renew(h, j, w, s)
      PROVE  Goal
  <2>1. OthersKept(h) /\ Justified(h)
    BY <1>3 DEF Renew, TypeOK, OthersKept, Justified, Answered, Missed
  <2> QED
    BY <2>1, Zenon
<1>4. ASSUME NEW h \in Handler, NEW j \in Job, NEW w \in Worker,
             Complete(h, j, w)
      PROVE  Goal
  <2>1. CASE Owned(jobs[j], w)
    <3>1. /\ call' = [call EXCEPT ![h] = Answered("complete", j, w, 0, "ok")]
          /\ jobs' = [jobs EXCEPT ![j] = Completed(jobs[j], w)]
      BY <1>4, <2>1 DEF Complete
    <3>2. /\ Completed(jobs[j], w).status = "COMPLETED"
          /\ Completed(jobs[j], w).worker_id = w
      BY DEF TypeOK, JobRow, Completed
    <3>3. OthersKept(h) /\ Justified(h)
      BY <3>1, <3>2 DEF TypeOK, OthersKept, Justified, Answered
    <3> QED
      BY <3>3, Zenon
  <2>2. CASE ~Owned(jobs[j], w)
    <3>1. call' = [call EXCEPT ![h] = Missed("complete", j, w)]
      BY <1>4, <2>2 DEF Complete
    <3>2. call'[h].reply = "none" /\ \A g \in Handler \ {h} : call'[g] = call[g]
      BY <3>1 DEF TypeOK, Missed
    <3>3. OthersKept(h) /\ Justified(h)
      BY <3>2 DEF OthersKept, Justified
    <3> QED
      BY <3>3, Zenon
  <2> QED
    BY <2>1, <2>2, Zenon
<1>5. ASSUME NEW h \in Handler, NEW j \in Job, NEW w \in Worker,
             FailRead(h, j, w)
      PROVE  Goal
  <2>1. OthersKept(h) /\ Justified(h)
    BY <1>5 DEF FailRead, TypeOK, OthersKept, Justified, Answered
  <2> QED
    BY <2>1, Zenon
<1>6. ASSUME NEW h \in Handler, NEW j \in Job, Cancel(h, j)
      PROVE  Goal
  <2>1. CASE jobs[j].status = "PENDING"
    <3>1. /\ call' = [call EXCEPT ![h] = Answered("cancel", j, NULL, 0, "ok")]
          /\ jobs' = [jobs EXCEPT ![j] = Canceled(jobs[j])]
      BY <1>6, <2>1 DEF Cancel
    <3>2. Canceled(jobs[j]).status = "CANCELED"
      BY DEF TypeOK, JobRow, Canceled
    <3>3. OthersKept(h) /\ Justified(h)
      BY <3>1, <3>2 DEF TypeOK, OthersKept, Justified, Answered
    <3> QED
      BY <3>3, Zenon
  <2>2. CASE jobs[j].status # "PENDING"
    <3>1. OthersKept(h) /\ Justified(h)
      BY <1>6, <2>2 DEF Cancel, TypeOK, OthersKept, Justified, Missed
    <3> QED
      BY <3>1, Zenon
  <2> QED
    BY <2>1, <2>2, Zenon
<1>7. ASSUME NEW h \in Handler, FailWrite(h)
      PROVE  Goal
  <2>1. OthersKept(h) /\ Justified(h)
    BY <1>7 DEF FailWrite, TypeOK, OthersKept, Justified, Answered, Missed
  <2> QED
    BY <2>1, Zenon
<1>8. ASSUME NEW h \in Handler, Explain(h)
      PROVE  Goal
  <2> DEFINE c == call[h]
             reply == Explanation(c.op, jobs[c.job], c.worker)
  <2>1. /\ c.op \in {"renew", "complete", "fail", "cancel"}
        /\ c.job \in Job
        /\ c.op = "complete" => c.worker \in Worker
    BY <1>8 DEF Explain, CallsWellFormed
  <2>2. /\ call' = [call EXCEPT ![h] = Answered(c.op, c.job, c.worker, 0, reply)]
        /\ jobs' = jobs
    BY <1>8 DEF Explain
  <2>3. c.op = "complete" /\ reply = "ok" =>
          jobs[c.job].status = "COMPLETED" /\ jobs[c.job].worker_id = c.worker
    BY DEF Explanation, IsReplay
  <2>4. c.op = "cancel" /\ reply = "ok" => jobs[c.job].status = "CANCELED"
    BY SMTT(30) DEF Explanation
  <2> HIDE DEF c, reply
  <2>5. OthersKept(h) /\ Justified(h)
    BY <2>1, <2>2, <2>3, <2>4 DEF TypeOK, OthersKept, Justified, Answered
  <2> QED
    BY <2>5, Zenon
<1>9. ASSUME UNCHANGED call
      PROVE  Goal
  BY <1>9
<1>10. ASSUME \/ \E j \in Job, max \in MaxAttempts : Create(j, max)
              \/ \E S, locked \in SUBSET Job : Reap(S, locked)
              \/ \E w \in Worker : Register(w)
              \/ Tick
       PROVE  Goal
  BY <1>9, <1>10, Zenon DEF Create, Reap, Register, Tick
<1>11. ASSUME NEW h \in Handler, Abort(h)
       PROVE  Goal
  <2>1. OthersKept(h) /\ Justified(h)
    BY <1>11 DEF Abort, TypeOK, OthersKept, Justified, Answered
  <2> QED
    BY <2>1, Zenon
<1> HIDE DEF Goal
<1>12. Goal
  BY <1>1, <1>2, <1>3, <1>4, <1>5, <1>6, <1>7, <1>8, <1>10, <1>11,
     ZenonT(30) DEF Next
<1> QED
  BY <1>12 DEF Goal

(* Answers given before stay true: finished rows do not change. *)
LEMMA NextAnswersHold == IInv /\ AnswersHold /\ [Next]_vars => AnswersHold'
<1> SUFFICES ASSUME IInv, AnswersHold, [Next]_vars, NEW h \in Handler,
                    call'[h].reply = "ok"
             PROVE  /\ call'[h].op = "complete" =>
                         /\ jobs'[call'[h].job].status = "COMPLETED"
                         /\ jobs'[call'[h].job].worker_id = call'[h].worker
                    /\ call'[h].op = "cancel" =>
                         jobs'[call'[h].job].status = "CANCELED"
  BY DEF AnswersHold
<1>1. CASE call'[h] = call[h]
  <2>1. call[h].op \in {"complete", "cancel"} => call[h].job \in Job
    BY <1>1 DEF IInv, CallsWellFormed
  <2>2. \A k \in Job : jobs[k].status \in {"COMPLETED", "CANCELED"} =>
                         SameRow(jobs[k], jobs'[k])
    BY StepEdges DEF Edge
  <2> QED
    BY <1>1, <2>1, <2>2 DEF AnswersHold, SameRow
<1>2. CASE call'[h] # call[h]
  <2>1. Next
    BY <1>2 DEF vars
  <2>2. Justified(h)
    BY <1>2, <2>1, AnswersJustified DEF OthersKept
  <2> QED
    BY <2>2 DEF Justified
<1> QED
  BY <1>1, <1>2

(* A 200 to a completion or a cancellation is never taken back. *)
THEOREM AnswersAlwaysHold == Spec => []AnswersHold
<1>1. Init => AnswersHold
  BY DEF Init, AnswersHold, Idle
<1> QED
  BY <1>1, NextAnswersHold, IInvAlways, PTL DEF Spec

(* A claim answered before keeps what it was given. *)
LEMMA NextClaimsExclusive ==
  IInv /\ ClaimsExclusive /\ [Next]_vars => ClaimsExclusive'
<1> SUFFICES ASSUME IInv, ClaimsExclusive, [Next]_vars, IInv'
             PROVE  ClaimsExclusive'
  BY NextIInv
<1>1. \A f \in Handler : ClaimAnswer(f) => call[f].job \in Job
  BY DEF IInv, CallsWellFormed, ClaimAnswer
<1>2. \A f \in Handler : ClaimAnswer(f)' => call'[f].job \in Job
  BY DEF IInv, CallsWellFormed, ClaimAnswer
<1>3. /\ \A f \in Handler : call[f].attempts \in Nat /\ call'[f].attempts \in Nat
      /\ \A k \in Job : jobs[k].attempts \in Nat /\ jobs'[k].attempts \in Nat
  <2>1. /\ call \in [Handler -> Call] /\ call' \in [Handler -> Call]
        /\ jobs \in [Job -> JobRow] /\ jobs' \in [Job -> JobRow]
    BY DEF IInv, TypeOK
  <2>2. \A c \in Call : c.attempts \in Nat
    BY DEF Call, AttemptLimit
  <2>3. \A r \in JobRow : r.attempts \in Nat
    BY DEF JobRow, AttemptLimit
  <2> QED
    BY <2>1, <2>2, <2>3
<1>4. \A f \in Handler : call'[f] # call[f] =>
        OthersKept(f) /\ Justified(f)
  <2> SUFFICES ASSUME NEW f \in Handler, call'[f] # call[f]
               PROVE  OthersKept(f) /\ Justified(f)
    OBVIOUS
  <2>1. Next
    BY DEF vars
  <2> QED
    BY <2>1, AnswersJustified DEF OthersKept
<1>5. \A f \in Handler : ClaimAnswer(f)' =>
        /\ call'[f].attempts <= jobs'[call'[f].job].attempts
        /\ call'[f].attempts = jobs'[call'[f].job].attempts
             /\ jobs'[call'[f].job].status = "RUNNING" =>
             jobs'[call'[f].job].worker_id = call'[f].worker
  <2> SUFFICES ASSUME NEW f \in Handler, ClaimAnswer(f)'
               PROVE  /\ call'[f].attempts <= jobs'[call'[f].job].attempts
                      /\ call'[f].attempts = jobs'[call'[f].job].attempts
                           /\ jobs'[call'[f].job].status = "RUNNING" =>
                           jobs'[call'[f].job].worker_id = call'[f].worker
    OBVIOUS
  <2>1. CASE call'[f] # call[f]
    <3>1. /\ call'[f].attempts = jobs'[call'[f].job].attempts
          /\ jobs'[call'[f].job].worker_id = call'[f].worker
      BY <1>4, <2>1, SMTT(30) DEF Justified, ClaimAnswer
    <3> QED
      BY <1>2, <1>3, <3>1
  <2>2. CASE call'[f] = call[f]
    <3> DEFINE k == call[f].job
    <3>1. k \in Job /\ ClaimAnswer(f)
      BY <1>1, <2>2 DEF ClaimAnswer
    <3>2. Edge(jobs[k], jobs'[k])
      BY <3>1, StepEdges
    <3>3. /\ jobs[k].attempts <= jobs'[k].attempts
          /\ jobs'[k].attempts = jobs[k].attempts /\ jobs'[k].status = "RUNNING" =>
               jobs[k].status = "RUNNING" /\ jobs'[k].worker_id = jobs[k].worker_id
      <4>1. jobs[k].status = "ABSENT" => jobs[k].attempts = 0
        BY <3>1 DEF IInv, JobsConsistent, RowConsistent
      <4>2. jobs[k].attempts \in Nat /\ jobs'[k].attempts \in Nat
        BY <1>3, <3>1
      <4> HIDE DEF k
      <4> QED
        BY <3>2, <4>1, <4>2, EdgeAttempts
    <3>4. /\ call[f].attempts <= jobs[k].attempts
          /\ call[f].attempts = jobs[k].attempts /\ jobs[k].status = "RUNNING" =>
               jobs[k].worker_id = call[f].worker
      BY <3>1 DEF ClaimsExclusive
    <3>5. call[f].attempts \in Nat /\ jobs[k].attempts \in Nat
          /\ jobs'[k].attempts \in Nat
      BY <1>3, <3>1
    <3> QED
      BY <2>2, <3>3, <3>4, <3>5
  <2> QED
    BY <2>1, <2>2
<1>6. \A f, g \in Handler :
        /\ f # g /\ ClaimAnswer(f)' /\ ClaimAnswer(g)'
        /\ call'[g].job = call'[f].job
        => call'[g].attempts # call'[f].attempts
  <2>1. ASSUME NEW f \in Handler, NEW g \in Handler, f # g, ClaimAnswer(f)',
               ClaimAnswer(g)', call'[g].job = call'[f].job, call'[f] # call[f]
        PROVE  call'[g].attempts # call'[f].attempts
    <3>1. call'[g] = call[g] /\ call'[f].attempts = jobs[call'[f].job].attempts + 1
      BY <1>4, <2>1 DEF OthersKept, Justified, ClaimAnswer
    <3>2. ClaimAnswer(g) /\ call[g].job = call'[f].job
      BY <2>1, <3>1 DEF ClaimAnswer
    <3>3. call[g].attempts <= jobs[call[g].job].attempts
      BY <3>2 DEF ClaimsExclusive
    <3> QED
      BY <1>1, <1>3, <3>1, <3>2, <3>3
  <2>2. ASSUME NEW f \in Handler, NEW g \in Handler, f # g, ClaimAnswer(f)',
               ClaimAnswer(g)', call'[g].job = call'[f].job,
               call'[f] = call[f], call'[g] = call[g]
        PROVE  call'[g].attempts # call'[f].attempts
    BY <2>2 DEF ClaimsExclusive, ClaimAnswer
  <2> QED
    BY <2>1, <2>2
<1> QED
  BY <1>5, <1>6 DEF ClaimsExclusive

(* One attempt of a job is handed to one claim, and stays with its worker. *)
THEOREM ClaimsAlwaysExclusive == Spec => []ClaimsExclusive
<1>1. Init => ClaimsExclusive
  BY DEF Init, ClaimsExclusive, ClaimAnswer, Idle
<1> QED
  BY <1>1, NextClaimsExclusive, IInvAlways, PTL DEF Spec
------------------------------------------------------------------------------
(* Only three statements take a row out of RUNNING. *)
EndsAttempt(j) ==
  \/ \E h \in Handler, w \in Worker : Complete(h, j, w) /\ Owned(jobs[j], w)
  \/ \E h \in Handler : /\ FailWrite(h) /\ call[h].job = j
                        /\ Owned(jobs[j], call[h].worker)
  \/ \E S, locked \in SUBSET Job : Reap(S, locked) /\ j \in S

(* Every other step leaves a RUNNING row RUNNING under its worker. *)
LEMMA RunningKept ==
  ASSUME IInv, Next, NEW j \in Job, jobs[j].status = "RUNNING", ~EndsAttempt(j)
  PROVE  Owned(jobs'[j], jobs[j].worker_id)
<1>0. jobs \in [Job -> JobRow]
  BY DEF IInv, TypeOK
<1> DEFINE Goal == Owned(jobs'[j], jobs[j].worker_id)
<1>1. jobs'[j] = jobs[j] => Goal
  BY DEF Owned
<1>2. ASSUME NEW k \in Job, NEW max \in MaxAttempts, Create(k, max)
      PROVE  Goal
  BY <1>0, <1>1, <1>2 DEF Create, Exists
<1>3. ASSUME NEW h \in Handler, NEW k \in Job, NEW w \in Worker,
             NEW s \in LeaseSeconds, NEW locked \in SUBSET Job,
             ClaimJob(h, k, w, s, locked)
      PROVE  Goal
  <2>1. k # j
    BY <1>3 DEF ClaimJob, IsFirst, Candidates, Claimable
  <2> QED
    BY <1>0, <1>1, <1>3, <2>1 DEF ClaimJob
<1>4. ASSUME NEW h \in Handler, NEW k \in Job, NEW w \in Worker,
             NEW s \in LeaseSeconds, Renew(h, k, w, s)
      PROVE  Goal
  <2> DEFINE until == now + ClampLease(s)
  <2>1. jobs'[j] = jobs[j] \/ jobs'[j] = Renewed(jobs[j], until)
    BY <1>0, <1>4 DEF Renew
  <2>2. Owned(Renewed(jobs[j], until), jobs[j].worker_id)
    BY <1>0 DEF Owned, Renewed, JobRow
  <2> QED
    BY <1>1, <2>1, <2>2, Zenon
<1>5. ASSUME NEW h \in Handler, NEW k \in Job, NEW w \in Worker,
             Complete(h, k, w)
      PROVE  Goal
  <2>1. CASE Owned(jobs[k], w)
    <3>1. k # j
      BY <1>5, <2>1 DEF EndsAttempt
    <3>2. jobs'[j] = jobs[j]
      BY <1>0, <1>5, <2>1, <3>1 DEF Complete
    <3> QED
      BY <1>1, <3>2, Zenon
  <2>2. CASE ~Owned(jobs[k], w)
    <3>1. jobs' = jobs
      BY <1>5, <2>2 DEF Complete
    <3> QED
      BY <1>1, <3>1, Zenon
  <2> QED
    BY <2>1, <2>2, Zenon
<1>6. ASSUME NEW h \in Handler, FailWrite(h)
      PROVE  Goal
  <2>1. CASE Owned(jobs[call[h].job], call[h].worker)
    <3>1. call[h].job # j
      BY <1>6, <2>1 DEF EndsAttempt
    <3>2. jobs'[j] = jobs[j]
      BY <1>0, <1>6, <2>1, <3>1 DEF FailWrite
    <3> QED
      BY <1>1, <3>2, Zenon
  <2>2. CASE ~Owned(jobs[call[h].job], call[h].worker)
    <3>1. jobs' = jobs
      BY <1>6, <2>2 DEF FailWrite
    <3> QED
      BY <1>1, <3>1, Zenon
  <2> QED
    BY <2>1, <2>2, Zenon
<1>7. ASSUME NEW h \in Handler, NEW k \in Job, Cancel(h, k)
      PROVE  Goal
  <2>1. jobs'[j] = jobs[j]
    BY <1>0, <1>7 DEF Cancel
  <2> QED
    BY <1>1, <2>1, Zenon
<1>8. ASSUME NEW S \in SUBSET Job, NEW locked \in SUBSET Job, Reap(S, locked)
      PROVE  Goal
  <2>1. j \notin S
    BY <1>8 DEF EndsAttempt
  <2> QED
    BY <1>1, <1>8, <2>1 DEF Reap
<1>9. ASSUME UNCHANGED jobs
      PROVE  Goal
  BY <1>1, <1>9, Zenon
<1>10. ASSUME \/ \E h \in Handler, w \in Worker, locked \in SUBSET Job :
                   ClaimRefused(h, w, locked)
              \/ \E h \in Handler, k \in Job, w \in Worker : FailRead(h, k, w)
              \/ \E h \in Handler : Explain(h) \/ Abort(h)
              \/ \E w \in Worker : Register(w)
              \/ Tick
       PROVE  Goal
  BY <1>9, <1>10, Zenon DEF ClaimRefused, FailRead, Explain, Abort, Register, Tick
<1> HIDE DEF Goal
<1>11. Goal
  BY <1>2, <1>3, <1>4, <1>5, <1>6, <1>7, <1>8, <1>10, ZenonT(30) DEF Next
<1> QED
  BY <1>11 DEF Goal

(* A lease that has not run out protects its holder from everything but a  *)
(* report in its own name.                                                 *)
THEOREM LeasesAlwaysProtect == Spec => LeaseProtects
<1> DEFINE Kept(j) == Owned(jobs'[j], jobs[j].worker_id)
           Reported(j) == Reports(j, jobs[j].worker_id) # {}
           Protected(j) == jobs[j].status = "RUNNING" /\ jobs[j].lease_until >= now
<1>1. ASSUME IInv, AnswersHold, Next, NEW j \in Job, Protected(j)
      PROVE  Kept(j) \/ Reported(j)
  <2>0. call \in [Handler -> Call] /\ jobs \in [Job -> JobRow]
    BY <1>1 DEF IInv, TypeOK
  <2>1. CASE ~EndsAttempt(j)
    BY <1>1, <2>1, RunningKept
  <2>2. ASSUME NEW h \in Handler, NEW w \in Worker, Complete(h, j, w),
               Owned(jobs[j], w)
        PROVE  Reported(j)
    <3>1. call'[h] = Answered("complete", j, w, 0, "ok")
      BY <2>0, <2>2, SMTT(30) DEF Complete
    <3>2. call[h] # Answered("complete", j, w, 0, "ok")
      <4> SUFFICES ASSUME call[h] = Answered("complete", j, w, 0, "ok")
                   PROVE  FALSE
        OBVIOUS
      <4>1. call[h].op = "complete" /\ call[h].reply = "ok" /\ call[h].job = j
        BY DEF Answered
      <4> QED
        BY <1>1, <4>1 DEF AnswersHold
    <3> QED
      BY <2>2, <3>1, <3>2 DEF Answered, Owned, Reports
  <2>3. ASSUME NEW h \in Handler, FailWrite(h), call[h].job = j,
               Owned(jobs[j], call[h].worker)
        PROVE  Reported(j)
    <3>1. call'[h] = Answered("fail", j, call[h].worker, 0, "ok")
      BY <2>0, <2>3, SMTT(30) DEF FailWrite
    <3>2. call[h].step = "write"
      BY <2>3 DEF FailWrite
    <3> QED
      BY <2>3, <3>1, <3>2, SMTT(30) DEF Answered, Owned, Reports
  <2>4. ASSUME NEW S \in SUBSET Job, NEW locked \in SUBSET Job, Reap(S, locked),
               j \in S
        PROVE  FALSE
    <3>1. jobs[j].lease_until < now
      BY <2>4 DEF Reap, IsBatch, ExpiredJobs, Expired
    <3>2. jobs[j].lease_until \in Nat /\ now \in Nat
      BY <1>1, NullAssumption DEF IInv, TypeOK, JobRow, JobsConsistent, RowConsistent
    <3> QED
      BY <1>1, <3>1, <3>2
  <2> QED
    BY <2>1, <2>2, <2>3, <2>4, SMTT(30) DEF EndsAttempt
<1>2. IInv /\ AnswersHold /\ [Next]_vars => [LeaseRespected]_vars
  BY <1>1 DEF LeaseRespected
<1> QED
  BY <1>2, IInvAlways, AnswersAlwaysHold, PTL DEF Spec, LeaseProtects
=============================================================================
