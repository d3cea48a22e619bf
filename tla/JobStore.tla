------------------------------- MODULE JobStore -------------------------------
(***************************************************************************)
(* The store (internal/jobs/store.go) behind the HTTP handlers of          *)
(* internal/api/server.go and the reaper of internal/api/reaper.go.        *)
(*                                                                         *)
(* Every handler goroutine may be running any request with any job and     *)
(* worker id: the clients are unconstrained.  A transaction is one step.   *)
(* The reads a method makes outside its transaction are steps of their     *)
(* own: Fail reads the row before its transaction, and RenewLease,         *)
(* Complete, Fail and Cancel read it again when the guarded UPDATE         *)
(* matched nothing, to decide what to answer.  Between any two of these    *)
(* steps every other handler, the reaper and the clock may move.           *)
(***************************************************************************)
EXTENDS JobRows, FiniteSetsExt

CONSTANTS
  Job,           \* ids the jobs table may hold: a set of naturals
  Worker,        \* worker ids
  Handler,       \* request goroutines of the server
  MaxAttempts,   \* the values of max_attempts a submission may carry
  LeaseSeconds,  \* the values of lease_seconds a request may carry
  DefaultLease, MinLease, MaxLease,
  Delay,         \* BackoffConfig.Delay, as a function of the attempt count
  Batch,         \* jobs one reaper sweep takes at most
  MaxTime        \* bound: the clock stops here

VARIABLES
  jobs,      \* the jobs table
  workers,   \* the workers table
  now,       \* the database clock
  call,      \* what each handler is doing, or the last answer it gave
  reaped     \* history: how many rows ReapExpiredLeases has returned in all

vars == <<jobs, workers, now, call, reaped>>

ASSUME JobAssumption == IsFiniteSet(Job) /\ Job \subseteq Nat

ASSUME NullAssumption == NULL \notin Worker /\ NULL \notin Int

(* ValidateNew: max_attempts lies between 1 and AttemptLimit. *)
AttemptLimit == 100

ASSUME AttemptsAssumption == MaxAttempts \subseteq 1..AttemptLimit

ASSUME LeaseAssumption ==
  /\ LeaseSeconds \subseteq Int
  /\ DefaultLease \in Nat /\ MinLease \in Nat /\ MaxLease \in Nat

ASSUME DelayAssumption == Delay \in [0..AttemptLimit -> Nat]

ASSUME BoundAssumption == Batch \in Nat \ {0} /\ MaxTime \in Nat
------------------------------------------------------------------------------
UnclampedBelow(seconds) == IF seconds > MaxLease THEN MaxLease ELSE seconds

(* Server.clampLease: no request means the default, unclamped. *)
ClampLease(seconds) ==
  IF seconds <= 0 THEN DefaultLease
  ELSE IF seconds < MinLease THEN MinLease
  ELSE IF seconds > MaxLease THEN MaxLease
  ELSE seconds

NoWorker == [registered |-> FALSE, jobs_processed |-> 0, current_job_id |-> NULL]

(* A handler that is not in the middle of a request holds the answer it    *)
(* gave last, so that properties can compare answers with the tables.      *)
Idle == [op |-> "none", step |-> "done", job |-> NULL, worker |-> NULL,
         attempts |-> 0, reply |-> "none"]

Answered(op, j, w, n, reply) ==
  [op |-> op, step |-> "done", job |-> j, worker |-> w, attempts |-> n,
   reply |-> reply]

(* The guarded UPDATE matched nothing; the row is still to be read again. *)
Missed(op, j, w) ==
  [op |-> op, step |-> "explain", job |-> j, worker |-> w, attempts |-> 0,
   reply |-> "none"]

Free(h) == call[h].step = "done"

Init ==
  /\ jobs = [j \in Job |-> NoRow]
  /\ workers = [w \in Worker |-> NoWorker]
  /\ now = 0
  /\ call = [h \in Handler |-> Idle]
  /\ reaped = 0
------------------------------------------------------------------------------
(* handleCreateJob and Store.Create.  The sequence hands ids out in order, *)
(* but the inserts commit in any order.                                    *)
Create(j, max) ==
  /\ ~Exists(jobs[j])
  /\ jobs' = [jobs EXCEPT ![j] = Inserted(max, now)]
  /\ UNCHANGED <<workers, now, call, reaped>>

(* ORDER BY available_at, id LIMIT 1 over the rows that no concurrent      *)
(* transaction has locked (SKIP LOCKED).                                   *)
Candidates(locked) == {j \in Job \ locked : Claimable(jobs[j], now)}

IsFirst(j, S) ==
  /\ j \in S
  /\ \A k \in S \ {j} :
       \/ jobs[j].available_at < jobs[k].available_at
       \/ jobs[j].available_at = jobs[k].available_at /\ j < k

(* Store.Claim when the candidate and the worker's row are both there. *)
ClaimJob(h, j, w, seconds, locked) ==
  /\ Free(h)
  /\ IsFirst(j, Candidates(locked))
  /\ workers[w].registered
  /\ jobs' = [jobs EXCEPT ![j] = Claimed(@, w, now + ClampLease(seconds))]
  /\ workers' = [workers EXCEPT ![w].current_job_id = j]
  /\ call' = [call EXCEPT ![h] =
                Answered("claim", j, w, jobs[j].attempts + 1, "ok")]
  /\ UNCHANGED <<now, reaped>>

(* Nothing to claim is found out before the worker's row is looked at; an  *)
(* unknown worker rolls the claim back.                                    *)
ClaimRefused(h, w, locked) ==
  /\ Free(h)
  /\ Candidates(locked) = {} \/ ~workers[w].registered
  /\ call' = [call EXCEPT ![h] =
                Answered("claim", NULL, w, 0,
                         IF Candidates(locked) = {} THEN "no_jobs"
                                                    ELSE "unknown_worker")]
  /\ UNCHANGED <<jobs, workers, now, reaped>>

(* Store.RenewLease up to the end of its UPDATE. *)
Renew(h, j, w, seconds) ==
  /\ Free(h)
  /\ IF Owned(jobs[j], w)
     THEN /\ jobs' = [jobs EXCEPT ![j] = Renewed(@, now + ClampLease(seconds))]
          /\ call' = [call EXCEPT ![h] = Answered("renew", j, w, 0, "ok")]
     ELSE /\ call' = [call EXCEPT ![h] = Missed("renew", j, w)]
          /\ UNCHANGED jobs
  /\ UNCHANGED <<workers, now, reaped>>

CountedOnly(row) == [row EXCEPT !.jobs_processed = @ + 1]

(* The worker's row in the transaction of Complete and of Fail: the        *)
(* UPDATE hits it if it is there, whatever job it names.                   *)
Counted(row) == [row EXCEPT !.jobs_processed = @ + 1, !.current_job_id = NULL]

ReportCounted(w) ==
  [workers EXCEPT ![w] = IF @.registered THEN Counted(@) ELSE @]

(* Store.Complete up to the end of the transaction in finish. *)
Complete(h, j, w) ==
  /\ Free(h)
  /\ IF Owned(jobs[j], w)
     THEN /\ jobs' = [jobs EXCEPT ![j] = Completed(@, w)]
          /\ workers' = ReportCounted(w)
          /\ call' = [call EXCEPT ![h] = Answered("complete", j, w, 0, "ok")]
     ELSE /\ call' = [call EXCEPT ![h] = Missed("complete", j, w)]
          /\ UNCHANGED <<jobs, workers>>
  /\ UNCHANGED <<now, reaped>>

(* Store.Fail, first the read that fixes the retry delay ... *)
FailRead(h, j, w) ==
  /\ Free(h)
  /\ call' = [call EXCEPT ![h] =
                IF Exists(jobs[j])
                THEN [op |-> "fail", step |-> "write", job |-> j, worker |-> w,
                      attempts |-> jobs[j].attempts, reply |-> "none"]
                ELSE Answered("fail", j, w, 0, "not_found")]
  /\ UNCHANGED <<jobs, workers, now, reaped>>

(* ... then the transaction, with the delay of the attempt count read. *)
FailWrite(h) ==
  /\ call[h].step = "write"
  /\ LET j == call[h].job
         w == call[h].worker
     IN  IF Owned(jobs[j], w)
         THEN /\ jobs' = [jobs EXCEPT ![j] =
                            FailedBy(@, w, now + Delay[call[h].attempts])]
              /\ workers' = ReportCounted(w)
              /\ call' = [call EXCEPT ![h] = Answered("fail", j, w, 0, "ok")]
         ELSE /\ call' = [call EXCEPT ![h] = Missed("fail", j, w)]
              /\ UNCHANGED <<jobs, workers>>
  /\ UNCHANGED <<now, reaped>>

(* Store.Cancel up to the end of its UPDATE. *)
Cancel(h, j) ==
  /\ Free(h)
  /\ IF jobs[j].status = "PENDING"
     THEN /\ jobs' = [jobs EXCEPT ![j] = Canceled(@)]
          /\ call' = [call EXCEPT ![h] = Answered("cancel", j, NULL, 0, "ok")]
     ELSE /\ call' = [call EXCEPT ![h] = Missed("cancel", j, NULL)]
          /\ UNCHANGED jobs
  /\ UNCHANGED <<workers, now, reaped>>

ReplayOfAnyWorker(r, w, want) ==
  \/ r.status = want
  \/ want = "FAILED" /\ r.status = "PENDING" /\ r.worker_id = NULL

(* replayOrConflict: the state that was asked for, reached by this very    *)
(* worker, is a replay; so is any PENDING job without an owner when a      *)
(* failure is reported.                                                    *)
IsReplay(r, w, want) ==
  \/ r.status = want /\ r.worker_id = w
  \/ want = "FAILED" /\ r.status = "PENDING" /\ r.worker_id = NULL

(* What the second read answers: explainLostRow for RenewLease,            *)
(* replayOrConflict for Complete and Fail, the tail of Cancel.             *)
Explanation(op, r, w) ==
  CASE ~Exists(r) -> "not_found"
    [] Exists(r) /\ op = "renew" -> "not_owned"
    [] Exists(r) /\ op = "complete" ->
         IF IsReplay(r, w, "COMPLETED") THEN "ok" ELSE "not_owned"
    [] Exists(r) /\ op = "fail" ->
         IF IsReplay(r, w, "FAILED") THEN "ok" ELSE "not_owned"
    [] Exists(r) /\ op = "cancel" ->
         IF r.status = "CANCELED" THEN "ok" ELSE "not_cancelable"

Explain(h) ==
  /\ call[h].step = "explain"
  /\ LET c == call[h] IN
       call' = [call EXCEPT ![h] =
                  Answered(c.op, c.job, c.worker, 0,
                           Explanation(c.op, jobs[c.job], c.worker))]
  /\ UNCHANGED <<jobs, workers, now, reaped>>

(* A request that dies between its steps: the database is unreachable, or  *)
(* the client went away and its context was canceled.  What an earlier     *)
(* step committed stays; the answer is a 500.                              *)
Abort(h) ==
  /\ ~Free(h)
  /\ LET c == call[h] IN
       call' = [call EXCEPT ![h] = Answered(c.op, c.job, c.worker, 0, "error")]
  /\ UNCHANGED <<jobs, workers, now, reaped>>

(* The rows a sweep takes: ORDER BY lease_until LIMIT batch over the       *)
(* expired rows that are not locked.  Ties go either way.                  *)
ExpiredJobs(locked) == {j \in Job \ locked : Expired(jobs[j], now)}

IsBatch(S, locked) ==
  /\ S \subseteq ExpiredJobs(locked)
  /\ Cardinality(S) <= Batch
  /\ S # ExpiredJobs(locked) => Cardinality(S) = Batch
  /\ \A j \in S, k \in ExpiredJobs(locked) \ S :
       jobs[j].lease_until <= jobs[k].lease_until

(* Reaper.sweep and Store.ReapExpiredLeases: the whole batch in one        *)
(* transaction.  A worker's row is touched only if it still names the job. *)
Reap(S, locked) ==
  /\ S # {} /\ IsBatch(S, locked)
  /\ jobs' = [j \in Job |-> IF j \in S
                            THEN Reaped(jobs[j], now + Delay[jobs[j].attempts])
                            ELSE jobs[j]]
  /\ workers' = [w \in Worker |->
                   IF \E j \in S : /\ jobs[j].worker_id = w
                                   /\ workers[w].current_job_id = j
                   THEN [workers[w] EXCEPT !.current_job_id = NULL]
                   ELSE workers[w]]
  /\ reaped' = reaped + Cardinality(S)
  /\ UNCHANGED <<now, call>>

(* handleRegisterWorker and Store.RegisterWorker: an upsert; a worker that *)
(* comes back keeps its counter and is shown idle.                         *)
Register(w) ==
  /\ workers' = [workers EXCEPT ![w].registered = TRUE,
                                ![w].current_job_id = NULL]
  /\ UNCHANGED <<jobs, now, call, reaped>>

Tick ==
  /\ now < MaxTime
  /\ now' = now + 1
  /\ UNCHANGED <<jobs, workers, call, reaped>>

Next ==
  \/ \E j \in Job, max \in MaxAttempts : Create(j, max)
  \/ \E h \in Handler, w \in Worker, locked \in SUBSET Job :
       \/ \E j \in Job, s \in LeaseSeconds : ClaimJob(h, j, w, s, locked)
       \/ ClaimRefused(h, w, locked)
  \/ \E h \in Handler, j \in Job, w \in Worker :
       \/ \E s \in LeaseSeconds : Renew(h, j, w, s)
       \/ Complete(h, j, w)
       \/ FailRead(h, j, w)
  \/ \E h \in Handler, j \in Job : Cancel(h, j)
  \/ \E h \in Handler : FailWrite(h) \/ Explain(h) \/ Abort(h)
  \/ \E S, locked \in SUBSET Job : Reap(S, locked)
  \/ \E w \in Worker : Register(w)
  \/ Tick

Spec == Init /\ [][Next]_vars
------------------------------------------------------------------------------
JobRow ==
  [status: Status \cup {"ABSENT"}, attempts: 0..AttemptLimit,
   max_attempts: 1..AttemptLimit, worker_id: Worker \cup {NULL},
   lease_until: Nat \cup {NULL}, available_at: Nat]

WorkerRow ==
  [registered: BOOLEAN, jobs_processed: Nat, current_job_id: Job \cup {NULL}]

Call ==
  [op: {"none", "claim", "renew", "complete", "fail", "cancel"},
   step: {"done", "write", "explain"}, job: Job \cup {NULL},
   worker: Worker \cup {NULL}, attempts: 0..AttemptLimit,
   reply: {"none", "ok", "no_jobs", "unknown_worker", "not_found",
           "not_owned", "not_cancelable", "error"}]

(* Both tables, the clock and the handlers stay within their columns'      *)
(* types; attempts never passes what ValidateNew allows for max_attempts.  *)
TypeOK ==
  /\ jobs \in [Job -> JobRow]
  /\ workers \in [Worker -> WorkerRow]
  /\ now \in Nat
  /\ call \in [Handler -> Call]
  /\ reaped \in Nat

RowConsistent(r) ==
  /\ r.lease_until # NULL <=> r.status = "RUNNING"
  /\ r.worker_id # NULL <=> r.status \in {"RUNNING", "COMPLETED", "FAILED"}
  /\ r.attempts <= r.max_attempts
  /\ r.status = "ABSENT" => r.attempts = 0
  /\ r.status = "PENDING" => r.attempts < r.max_attempts
  /\ r.status \in {"RUNNING", "COMPLETED"} => r.attempts > 0
  /\ r.status = "FAILED" => r.attempts = r.max_attempts

(* A row's columns always tell one story, whatever statements hit it: a    *)
(* lease exactly while RUNNING, an owner exactly while RUNNING or finished *)
(* by a worker, an attempt left in every PENDING row, none left in a       *)
(* FAILED one, and never more attempts than allowed.                       *)
JobsConsistent == \A j \in Job : RowConsistent(jobs[j])

(* workers.current_job_id never names a job that is not RUNNING under that *)
(* very worker, although a worker may hold several jobs, may be reaped and *)
(* may register again in between.                                          *)
CurrentJobIsHeld ==
  \A w \in Worker : workers[w].current_job_id # NULL =>
    /\ workers[w].registered
    /\ Owned(jobs[workers[w].current_job_id], w)

(* Every attempt a claim consumed is still running, or was ended exactly   *)
(* once: by one accepted report (counted in jobs_processed) or by one      *)
(* reaping.  A report and the reaper can never both end the same attempt.  *)
AttemptsAccounted ==
  MapThenSumSet(LAMBDA j : jobs[j].attempts, Job) =
    Cardinality({j \in Job : jobs[j].status = "RUNNING"})
      + MapThenSumSet(LAMBDA w : workers[w].jobs_processed, Worker)
      + reaped

(* An answer 200 keeps its word for ever: a completion that was accepted   *)
(* or taken for a replay leaves the job COMPLETED by that worker, and a    *)
(* cancellation leaves it CANCELED.  The answer may come from a read made  *)
(* some steps after the UPDATE that missed.                                *)
AnswersHold ==
  \A h \in Handler : call[h].reply = "ok" =>
    /\ call[h].op = "complete" => /\ jobs[call[h].job].status = "COMPLETED"
                                  /\ jobs[call[h].job].worker_id = call[h].worker
    /\ call[h].op = "cancel" => jobs[call[h].job].status = "CANCELED"

ClaimAnswer(h) == call[h].op = "claim" /\ call[h].reply = "ok"

(* Store.Claim hands an attempt of a job to one request only, and as long  *)
(* as that attempt is RUNNING the worker it was handed to owns the row.    *)
ClaimsExclusive ==
  \A h \in Handler : ClaimAnswer(h) =>
    LET c == call[h]
        r == jobs[c.job]
    IN  /\ c.attempts <= r.attempts
        /\ c.attempts = r.attempts /\ r.status = "RUNNING" =>
             r.worker_id = c.worker
        /\ \A g \in Handler \ {h} :
             ClaimAnswer(g) /\ call[g].job = c.job => call[g].attempts # c.attempts

(* The handlers that answered this step to a report of w about j. *)
Reports(j, w) ==
  {h \in Handler : /\ call'[h] # call[h]
                   /\ call'[h].op \in {"complete", "fail"}
                   /\ call'[h].reply = "ok"
                   /\ call'[h].job = j /\ call'[h].worker = w}

LeaseRespected ==
  \A j \in Job :
    jobs[j].status = "RUNNING" /\ jobs[j].lease_until >= now =>
      \/ Owned(jobs'[j], jobs[j].worker_id)
      \/ Reports(j, jobs[j].worker_id) # {}

(* While a lease has not run out, the only thing that ends the attempt is  *)
(* a report that names the worker holding it: neither the reaper, nor a    *)
(* cancellation, nor another worker's claim or report takes the job away.  *)
LeaseProtects == [][LeaseRespected]_vars
------------------------------------------------------------------------------
(* The store seen as the diagram of job states in job.go: forget leases,   *)
(* availability, the workers table, the clock and the requests.            *)
Lifecycle == INSTANCE JobLifecycle WITH
  status <- [j \in Job |-> jobs[j].status],
  attempts <- [j \in Job |-> jobs[j].attempts],
  limit <- [j \in Job |-> jobs[j].max_attempts],
  holder <- [j \in Job |-> jobs[j].worker_id]

(* Whatever requests, sweeps and restarts interleave, every job moves only *)
(* along the edges of the diagram on the Status type: a finished job never *)
(* changes again, a claim consumes exactly one attempt and needs one left, *)
(* and a job passes from one worker to another only through PENDING.       *)
FollowsLifecycle == Lifecycle!LSpec
=============================================================================
