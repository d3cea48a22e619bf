---------------------------- MODULE StoreTxProofs ----------------------------
(***************************************************************************)
(* Proofs about StoreTx, for any number of jobs, workers, connections and  *)
(* jobs per sweep: no deadlock, and workers.current_job_id.                *)
(***************************************************************************)
EXTENDS StoreTx, FiniteSetTheorems, SequenceTheorems, TLAPS

(* A record with the fields of a transaction, of a job, of a worker. *)
TxShape(r) ==
  r \in [op: {r.op}, step: {r.step}, start: {r.start}, job: {r.job},
         worker: {r.worker}, attempts: {r.attempts}, todo: {r.todo},
         rows: {r.rows}, wrows: {r.wrows}]

JobOK(r) ==
  /\ r \in [status: {r.status}, attempts: {r.attempts},
            max_attempts: {r.max_attempts}, worker_id: {r.worker_id},
            lease_until: {r.lease_until}, available_at: {r.available_at}]
  /\ r.status = "RUNNING" => r.worker_id \in Worker

WorkerOK(r) ==
  /\ r \in [registered: {r.registered}, current_job_id: {r.current_job_id}]
  /\ r.registered \in BOOLEAN
  /\ r.current_job_id \in Job \cup {NULL}

(* The steps before a transaction has locked anything. *)
Early == {"none", "begin", "job"}

(* What a transaction knows of the tables J and W while it holds its       *)
(* locks.  A claim holds a PENDING job and will name it in its worker's    *)
(* row.                                                                    *)
ClaimOK(r, J) ==
  /\ r.job \in Job /\ DOMAIN r.rows = {r.job}
  /\ J[r.job].status = "PENDING" /\ Owned(r.rows[r.job], r.worker)
  /\ r.step = "worker" => DOMAIN r.wrows = {}
  /\ r.step = "commit" => /\ DOMAIN r.wrows = {r.worker}
                          /\ r.wrows[r.worker].registered = TRUE
                          /\ r.wrows[r.worker].current_job_id = r.job

(* A report holds a job of its worker, whose row will not name it. *)
ReportOK(r, J, W) ==
  /\ r.job \in Job /\ DOMAIN r.rows = {r.job}
  /\ Owned(J[r.job], r.worker)
  /\ r.step = "worker" => DOMAIN r.wrows = {}
  /\ r.step = "commit" =>
       /\ DOMAIN r.wrows \subseteq {r.worker}
       /\ \A w \in DOMAIN r.wrows : r.wrows[w].current_job_id = NULL
       /\ r.worker \notin DOMAIN r.wrows => W[r.worker].current_job_id # r.job

(* A sweep holds RUNNING jobs, and only workers whose committed row names  *)
(* one of them; a worker that names one of them is held or comes later.    *)
SweepOK(r, J, W) ==
  /\ \A j \in DOMAIN r.rows : J[j].status = "RUNNING"
  /\ r.todo \in Seq(DOMAIN r.rows)
  /\ r.step = "worker" <=> r.todo # <<>>
  /\ \A w \in DOMAIN r.wrows : /\ r.wrows[w].current_job_id = NULL
                               /\ W[w].current_job_id \in DOMAIN r.rows
  /\ \A w \in Worker \ DOMAIN r.wrows :
       W[w].current_job_id \in DOMAIN r.rows =>
         \E i \in 1..Len(r.todo) : r.todo[i] = W[w].current_job_id

TxOK(r, J, W) ==
  /\ TxShape(r)
  /\ DOMAIN r.rows \subseteq Job /\ DOMAIN r.wrows \subseteq Worker
  /\ \A j \in DOMAIN r.rows : JobOK(r.rows[j])
  /\ \A w \in DOMAIN r.wrows : WorkerOK(r.wrows[w])
  /\ r.op = "none" => r.step = "none"
  /\ r.step \in Early => DOMAIN r.rows = {} /\ DOMAIN r.wrows = {}
  /\ r.step \notin Early =>
       r.step \in {"worker", "commit"} /\ r.op \in {"claim", "complete", "fail", "reap"}
  /\ r.op \in {"claim", "complete", "fail", "renew"} => r.worker \in Worker
  /\ r.op \in {"complete", "fail", "renew", "cancel"} => r.job \in Job
  /\ r.step \notin Early /\ r.op = "claim" => ClaimOK(r, J)
  /\ r.step \notin Early /\ r.op \in {"complete", "fail"} => ReportOK(r, J, W)
  /\ r.step \notin Early /\ r.op = "reap" => SweepOK(r, J, W)

(* A row is locked by one transaction at most. *)
Exclusive ==
  \A s, t \in Session : s # t =>
    /\ DOMAIN tx[s].rows \cap DOMAIN tx[t].rows = {}
    /\ DOMAIN tx[s].wrows \cap DOMAIN tx[t].wrows = {}

TablesOK ==
  /\ tx = [s \in Session |-> tx[s]]
  /\ jobs = [j \in Job |-> jobs[j]]
  /\ \A j \in Job : JobOK(jobs[j])
  /\ workers = [w \in Worker |-> workers[w]]
  /\ \A w \in Worker : WorkerOK(workers[w])

(* The inductive invariant. *)
TInv ==
  /\ TablesOK /\ Exclusive /\ CurrentJobHeld
  /\ \A s \in Session : TxOK(tx[s], jobs, workers)

(* NULL is no id, and there are finitely many jobs. *)
LEMMA NullFacts ==
  NULL \notin Worker /\ NULL \notin Job /\ IsFiniteSet(Job)
<1>1. NULL \notin Worker \cup Int /\ Job \subseteq Nat /\ IsFiniteSet(Job)
  BY TxAssumption
<1>2. \A n \in Nat : n \in Int
  OBVIOUS
<1> QED
  BY <1>1, <1>2, Zenon
------------------------------------------------------------------------------
(* No circle of waiting transactions.  A transaction waits for one that is *)
(* further along: for a job row before it holds anything, for a worker row *)
(* next; a sweep comes last, and two sweeps never wait for each other.     *)
Level(s) ==
  IF tx[s].step = "job" THEN 3
  ELSE IF tx[s].step # "worker" THEN 0
  ELSE IF tx[s].op = "reap" THEN 1 ELSE 2

(* A transaction waits only for one of a lower level. *)
LEMMA WaitsDescend ==
  ASSUME TInv, NEW s \in Session, NEW t \in Session, WaitsFor(s, t)
  PROVE  Level(t) < Level(s)
<1>1. TxOK(tx[s], jobs, workers) /\ TxOK(tx[t], jobs, workers)
  BY DEF TInv
<1>2. s # t
  BY DEF WaitsFor
<1>3. CASE \E j \in DOMAIN tx[t].rows : WantsJob(s, j)
  <2>1. tx[s].step = "job" /\ DOMAIN tx[t].rows # {}
    BY <1>3 DEF WantsJob
  <2>2. tx[t].step # "job"
    BY <1>1, <2>1 DEF TxOK, Early
  <2> QED
    BY <2>1, <2>2 DEF Level
<1>4. CASE \E w \in DOMAIN tx[t].wrows : WantsWorker(s, w)
  <2>1. PICK w \in DOMAIN tx[t].wrows : WantsWorker(s, w)
    BY <1>4
  <2>2. tx[t].step = "commit" \/ (tx[t].step = "worker" /\ tx[t].op = "reap")
    BY <1>1, <2>1 DEF TxOK, ClaimOK, ReportOK, Early
  <2>3. tx[s].step = "worker"
    BY <2>1 DEF WantsWorker, At
  <2>4. CASE tx[s].op # "reap" \/ tx[t].step = "commit"
    BY <2>2, <2>3, <2>4 DEF Level
  <2>5. CASE tx[s].op = "reap" /\ tx[t].step = "worker" /\ tx[t].op = "reap"
    <3> DEFINE j == Head(tx[s].todo)
    <3>1. Names(s, w, j)
      BY <2>1, <2>5 DEF WantsWorker, At
    <3>2. SweepOK(tx[s], jobs, workers) /\ SweepOK(tx[t], jobs, workers)
      BY <1>1, <2>3, <2>5 DEF TxOK, Early
    <3>3. j \in DOMAIN tx[s].rows
      BY <2>3, <3>2 DEF SweepOK
    <3>4. j # NULL
      BY <1>1, <3>3, NullFacts DEF TxOK
    <3>5. w \notin DOMAIN tx[s].wrows
      BY <3>1, <3>2, <3>4 DEF Names, Seen, SweepOK
    <3>6. workers[w].current_job_id = j
      BY <3>1, <3>5 DEF Names, Seen
    <3>7. j \in DOMAIN tx[t].rows
      BY <2>1, <3>2, <3>6 DEF SweepOK
    <3> QED
      BY <1>2, <3>3, <3>7 DEF TInv, Exclusive
  <2> QED
    BY <2>2, <2>4, <2>5
<1> QED
  BY <1>3, <1>4 DEF WaitsFor

(* The session of the lowest level of a set waits for none of it. *)
LEMMA NoCircle == TInv => NoDeadlock
<1> SUFFICES ASSUME TInv, NEW D \in (SUBSET Session) \ {{}}
             PROVE  \E s \in D : \A t \in D : ~WaitsFor(s, t)
  BY DEF NoDeadlock
<1>1. \A s, t \in D : WaitsFor(s, t) => Level(t) < Level(s)
  BY WaitsDescend
<1>2. \A s \in D : Level(s) \in {0, 1, 2, 3}
  BY DEF Level
<1>3. PICK s0 \in D : TRUE
  OBVIOUS
<1>4. \E s \in D : \A t \in D : Level(s) <= Level(t)
  <2>1. CASE \E s \in D : Level(s) = 0
    BY <1>2, <2>1
  <2>2. CASE (\A s \in D : Level(s) # 0) /\ \E s \in D : Level(s) = 1
    BY <1>2, <2>2
  <2>3. CASE (\A s \in D : Level(s) \notin {0, 1}) /\ \E s \in D : Level(s) = 2
    BY <1>2, <2>3
  <2>4. CASE \A s \in D : Level(s) \notin {0, 1, 2}
    BY <1>2, <1>3, <2>4
  <2> QED
    BY <2>1, <2>2, <2>3, <2>4
<1>5. PICK s \in D : \A t \in D : Level(s) <= Level(t)
  BY <1>4
<1>6. ASSUME NEW t \in D, WaitsFor(s, t)
      PROVE  FALSE
  <2>1. Level(t) < Level(s) /\ Level(s) <= Level(t)
    BY <1>1, <1>5, <1>6
  <2>2. Level(s) \in Int /\ Level(t) \in Int
    BY <1>2
  <2> QED
    BY <2>1, <2>2
<1> QED
  BY <1>5, <1>6
------------------------------------------------------------------------------
(* The invariant.  A row is locked while a transaction relies on it: what  *)
(* other transactions commit does not disturb it, as long as they name no  *)
(* job of it in a worker's row.                                            *)
LEMMA Undisturbed ==
  ASSUME NEW r, NEW J, NEW W, NEW K, NEW V, TxOK(r, J, W),
         \A j \in DOMAIN r.rows : K[j] = J[j],
         \A w \in DOMAIN r.wrows : V[w] = W[w],
         \A w \in Worker : V[w].current_job_id \in DOMAIN r.rows =>
                             V[w].current_job_id = W[w].current_job_id
  PROVE  TxOK(r, K, V)
<1>1. r.step \notin Early /\ r.op = "claim" => ClaimOK(r, K)
  BY DEF TxOK, ClaimOK
<1>2. r.step \notin Early /\ r.op \in {"complete", "fail"} => ReportOK(r, K, V)
  <2> SUFFICES ASSUME r.step \notin Early, r.op \in {"complete", "fail"}
               PROVE  ReportOK(r, K, V)
    OBVIOUS
  <2>1. ReportOK(r, J, W) /\ r.worker \in Worker
    BY DEF TxOK
  <2>2. K[r.job] = J[r.job]
    BY <2>1 DEF ReportOK
  <2>3. V[r.worker].current_job_id = r.job => W[r.worker].current_job_id = r.job
    BY <2>1 DEF ReportOK
  <2> QED
    BY <2>1, <2>2, <2>3 DEF ReportOK
<1>3. r.step \notin Early /\ r.op = "reap" => SweepOK(r, K, V)
  <2> SUFFICES ASSUME r.step \notin Early, r.op = "reap"
               PROVE  SweepOK(r, K, V)
    OBVIOUS
  <2>1. SweepOK(r, J, W) /\ DOMAIN r.wrows \subseteq Worker
    BY DEF TxOK
  <2> QED
    BY <2>1 DEF SweepOK
<1> QED
  BY <1>1, <1>2, <1>3 DEF TxOK

(* A step that changes one transaction and no table. *)
LEMMA TxStep ==
  ASSUME TInv, NEW s \in Session,
         tx' = [t \in Session |-> tx'[t]],
         \A t \in Session \ {s} : tx'[t] = tx[t],
         UNCHANGED <<jobs, workers>>,
         TxOK(tx'[s], jobs, workers),
         \A t \in Session \ {s} :
           /\ DOMAIN tx'[s].rows \cap DOMAIN tx[t].rows = {}
           /\ DOMAIN tx'[s].wrows \cap DOMAIN tx[t].wrows = {}
  PROVE  TInv'
<1>1. TablesOK'
  BY DEF TInv, TablesOK
<1>2. Exclusive'
  BY DEF TInv, Exclusive
<1>3. CurrentJobHeld'
  BY DEF TInv, CurrentJobHeld
<1>4. \A t \in Session : TxOK(tx'[t], jobs', workers')
  BY DEF TInv
<1> QED
  BY <1>1, <1>2, <1>3, <1>4 DEF TInv

(* Empty has no rows. *)
LEMMA EmptyDomain == DOMAIN Empty = {}
BY DEF Empty

(* A transaction that begins holds nothing. *)
LEMMA BegunOK ==
  ASSUME NEW J, NEW W, NEW r, TxShape(r), r.step \in Early,
         r.rows = Empty, r.wrows = Empty,
         r.op = "none" => r.step = "none",
         r.op \in {"claim", "complete", "fail", "renew"} => r.worker \in Worker,
         r.op \in {"complete", "fail", "renew", "cancel"} => r.job \in Job
  PROVE  TxOK(r, J, W) /\ DOMAIN r.rows = {} /\ DOMAIN r.wrows = {}
BY EmptyDomain DEF TxOK

(* A session without a transaction. *)
LEMMA IdleOK ==
  /\ TxShape(Idle) /\ Idle.op = "none" /\ Idle.step = "none"
  /\ Idle.rows = Empty /\ Idle.wrows = Empty
BY DEF Idle, TxShape

(* The end of a transaction that changes no table. *)
LEMMA EndStep ==
  ASSUME TInv, NEW s \in Session, End(s), UNCHANGED <<jobs, workers>>
  PROVE  TInv'
<1>1. /\ tx' = [t \in Session |-> tx'[t]]
      /\ tx'[s] = Idle /\ \A t \in Session \ {s} : tx'[t] = tx[t]
  BY DEF End, TInv, TablesOK
<1>2. TxOK(Idle, jobs, workers) /\ DOMAIN Idle.rows = {} /\ DOMAIN Idle.wrows = {}
  BY Zenon, IdleOK, BegunOK DEF Early
<1> QED
  BY <1>1, <1>2, TxStep

(* The fields of a transaction that begins. *)
LEMMA BegunShape ==
  ASSUME NEW op, NEW j, NEW w
  PROVE  /\ TxShape(Begun(op, j, w))
         /\ Begun(op, j, w).op = op /\ Begun(op, j, w).step = "job"
         /\ Begun(op, j, w).job = j /\ Begun(op, j, w).worker = w
         /\ Begun(op, j, w).rows = Empty /\ Begun(op, j, w).wrows = Empty
<1>1. /\ Begun(op, j, w).op = op /\ Begun(op, j, w).step = "job"
      /\ Begun(op, j, w).job = j /\ Begun(op, j, w).worker = w
      /\ Begun(op, j, w).rows = Empty /\ Begun(op, j, w).wrows = Empty
  BY DEF Begun, Idle
<1>2. TxShape(Begun(op, j, w))
  BY IdleOK, Zenon DEF Begun, TxShape
<1> QED
  BY <1>1, <1>2

(* The first step of every transaction. *)
Begins(s) ==
  LET r == tx'[s] IN
  /\ UNCHANGED <<jobs, workers>>
  /\ tx' = [t \in Session |-> tx'[t]]
  /\ \A t \in Session \ {s} : tx'[t] = tx[t]
  /\ TxShape(r) /\ r.step \in Early
  /\ r.rows = Empty /\ r.wrows = Empty
  /\ r.op \in {"claim", "reap", "complete", "renew", "cancel", "fail"}
  /\ r.op \in {"claim", "complete", "fail", "renew"} => r.worker \in Worker
  /\ r.op \in {"complete", "fail", "renew", "cancel"} => r.job \in Job

(* A transaction that begins keeps the invariant. *)
LEMMA BeginsStep ==
  ASSUME TInv, NEW s \in Session, Begins(s)
  PROVE  TInv'
<1> DEFINE r == tx'[s]
<1>1. /\ UNCHANGED <<jobs, workers>>
      /\ tx' = [t \in Session |-> tx'[t]]
      /\ \A t \in Session \ {s} : tx'[t] = tx[t]
  BY DEF Begins
<1>2. /\ TxShape(r) /\ r.step \in Early
      /\ r.rows = Empty /\ r.wrows = Empty
      /\ r.op # "none"
      /\ r.op \in {"claim", "complete", "fail", "renew"} => r.worker \in Worker
      /\ r.op \in {"complete", "fail", "renew", "cancel"} => r.job \in Job
  BY DEF Begins
<1>3. TxOK(r, jobs, workers) /\ DOMAIN r.rows = {} /\ DOMAIN r.wrows = {}
  <2> HIDE DEF r
  <2> QED
    BY Zenon, <1>2, BegunOK
<1> QED
  BY <1>1, <1>3, TxStep

(* Claim begins. *)
LEMMA BeginClaimStep ==
  ASSUME TInv, NEW s \in Session, NEW w \in Worker, BeginClaim(s, w)
  PROVE  TInv'
<1>1. /\ tx' = [tx EXCEPT ![s] = Begun("claim", NULL, w)]
      /\ UNCHANGED <<jobs, workers>>
  BY DEF BeginClaim
<1>2. /\ tx'[s] = Begun("claim", NULL, w)
      /\ tx' = [t \in Session |-> tx'[t]]
      /\ \A t \in Session \ {s} : tx'[t] = tx[t]
  BY <1>1 DEF TInv, TablesOK
<1>3. Begins(s)
  BY <1>1, <1>2, BegunShape DEF Begins, Early
<1> QED
  BY <1>3, BeginsStep

(* ReapExpiredLeases begins. *)
LEMMA BeginSweepStep ==
  ASSUME TInv, NEW s \in Session, BeginSweep(s)
  PROVE  TInv'
<1>1. /\ tx' = [tx EXCEPT ![s] = Begun("reap", NULL, NULL)]
      /\ UNCHANGED <<jobs, workers>>
  BY DEF BeginSweep
<1>2. /\ tx'[s] = Begun("reap", NULL, NULL)
      /\ tx' = [t \in Session |-> tx'[t]]
      /\ \A t \in Session \ {s} : tx'[t] = tx[t]
  BY <1>1 DEF TInv, TablesOK
<1>3. Begins(s)
  BY <1>1, <1>2, BegunShape DEF Begins, Early
<1> QED
  BY <1>3, BeginsStep

(* Complete, RenewLease and Cancel begin. *)
LEMMA BeginUpdateStep ==
  ASSUME TInv, NEW s \in Session, NEW j \in Job, NEW w, NEW op,
         \/ op \in {"complete", "renew"} /\ w \in Worker
         \/ op = "cancel",
         BeginUpdate(s, op, j, w)
  PROVE  TInv'
<1>1. /\ tx' = [tx EXCEPT ![s] = Begun(op, j, w)]
      /\ UNCHANGED <<jobs, workers>>
  BY DEF BeginUpdate
<1>2. /\ tx'[s] = Begun(op, j, w)
      /\ tx' = [t \in Session |-> tx'[t]]
      /\ \A t \in Session \ {s} : tx'[t] = tx[t]
  BY <1>1 DEF TInv, TablesOK
<1>3. Begins(s)
  BY <1>1, <1>2, BegunShape DEF Begins, Early
<1> QED
  BY <1>3, BeginsStep

(* The read that Fail makes before its transaction. *)
LEMMA FailReadStep ==
  ASSUME TInv, NEW s \in Session, NEW j \in Job, NEW w \in Worker, FailRead(s, j, w)
  PROVE  TInv'
<1> DEFINE b == Begun("fail", j, w)
           r == [b EXCEPT !.step = "begin", !.attempts = jobs[j].attempts]
<1>1. tx' = [tx EXCEPT ![s] = r] /\ UNCHANGED <<jobs, workers>>
  BY DEF FailRead
<1>2. /\ TxShape(b) /\ b.op = "fail" /\ b.job = j /\ b.worker = w
      /\ b.rows = Empty /\ b.wrows = Empty
  BY BegunShape
<1> HIDE DEF b
<1>3. /\ r.op = "fail" /\ r.job = j /\ r.worker = w /\ r.step = "begin"
      /\ r.rows = Empty /\ r.wrows = Empty
  BY <1>2 DEF TxShape
<1>4. TxShape(r)
  BY <1>2, Zenon DEF TxShape
<1> HIDE DEF r
<1>5. /\ tx'[s] = r
      /\ tx' = [t \in Session |-> tx'[t]]
      /\ \A t \in Session \ {s} : tx'[t] = tx[t]
  BY <1>1 DEF TInv, TablesOK
<1>6. Begins(s)
  BY <1>1, <1>3, <1>4, <1>5 DEF Begins, Early
<1> QED
  BY <1>6, BeginsStep

(* A step of a transaction under way, field by field. *)
LEMMA BeginFailStep ==
  ASSUME TInv, NEW s \in Session, BeginFail(s)
  PROVE  TInv'
<1>1. /\ tx[s].op = "fail" /\ tx[s].step = "begin"
      /\ tx' = [tx EXCEPT ![s].step = "job", ![s].start = now]
      /\ UNCHANGED <<jobs, workers>>
  BY DEF BeginFail, At
<1>2. TxOK(tx[s], jobs, workers) /\ TxShape(tx[s])
  BY DEF TInv, TxOK
<1> DEFINE r == [tx[s] EXCEPT !.step = "job", !.start = now]
<1>3. /\ tx'[s] = r
      /\ tx' = [t \in Session |-> tx'[t]]
      /\ \A t \in Session \ {s} : tx'[t] = tx[t]
  BY <1>1, <1>2 DEF TInv, TablesOK
<1>4. /\ r.op = "fail" /\ r.job = tx[s].job /\ r.worker = tx[s].worker
      /\ r.step = "job" /\ r.rows = tx[s].rows /\ r.wrows = tx[s].wrows
  BY <1>1, <1>2 DEF TxShape
<1>5. TxShape(r)
  BY <1>2, Zenon DEF TxShape
<1> HIDE DEF r
<1>6. TxOK(r, jobs, workers) /\ DOMAIN r.rows = {} /\ DOMAIN r.wrows = {}
  BY <1>1, <1>2, <1>4, <1>5 DEF TxOK, Early
<1>7. \A t \in Session \ {s} :
        /\ DOMAIN tx'[s].rows \cap DOMAIN tx[t].rows = {}
        /\ DOMAIN tx'[s].wrows \cap DOMAIN tx[t].wrows = {}
  BY <1>3, <1>6
<1>8. TxOK(tx'[s], jobs, workers)
  BY <1>3, <1>6
<1> QED
  BY Zenon, <1>1, <1>3, <1>7, <1>8, TxStep
------------------------------------------------------------------------------
(* What the statements do to a job's row. *)
LEMMA ClaimedOK ==
  ASSUME NEW r, JobOK(r), NEW w \in Worker, NEW t
  PROVE  JobOK(Claimed(r, w, t)) /\ Owned(Claimed(r, w, t), w)
<1>1. Claimed(r, w, t).status = "RUNNING" /\ Claimed(r, w, t).worker_id = w
  BY DEF Claimed, JobOK
<1>2. Claimed(r, w, t) \in
        [status: {Claimed(r, w, t).status}, attempts: {Claimed(r, w, t).attempts},
         max_attempts: {Claimed(r, w, t).max_attempts},
         worker_id: {Claimed(r, w, t).worker_id},
         lease_until: {Claimed(r, w, t).lease_until},
         available_at: {Claimed(r, w, t).available_at}]
  BY Zenon DEF Claimed, JobOK
<1> QED
  BY <1>1, <1>2 DEF JobOK, Owned

(* A statement that ends an attempt, or cancels, leaves no RUNNING row. *)
LEMMA EndedOK ==
  ASSUME NEW r, JobOK(r), NEW w, NEW t
  PROVE  /\ JobOK(Completed(r, w)) /\ Completed(r, w).status # "RUNNING"
         /\ JobOK(FailedBy(r, w, t)) /\ FailedBy(r, w, t).status # "RUNNING"
         /\ JobOK(Reaped(r, t)) /\ Reaped(r, t).status # "RUNNING"
         /\ JobOK(Canceled(r)) /\ Canceled(r).status # "RUNNING"
<1>1. /\ Completed(r, w).status = "COMPLETED"
      /\ Canceled(r).status = "CANCELED"
      /\ FailedBy(r, w, t).status \in {"FAILED", "PENDING"}
      /\ Reaped(r, t).status \in {"FAILED", "PENDING"}
  BY DEF JobOK, Completed, FailedBy, Reaped, Canceled
<1>2. JobOK(Completed(r, w))
  BY <1>1, Zenon DEF JobOK, Completed
<1>3. JobOK(FailedBy(r, w, t))
  BY <1>1, Zenon DEF JobOK, FailedBy
<1>4. JobOK(Reaped(r, t))
  BY <1>1, Zenon DEF JobOK, Reaped
<1>5. JobOK(Canceled(r))
  BY <1>1, Zenon DEF JobOK, Canceled
<1> QED
  BY <1>1, <1>2, <1>3, <1>4, <1>5

(* A renewal leaves the job with its worker. *)
LEMMA RenewedOK ==
  ASSUME NEW r, JobOK(r), NEW t
  PROVE  JobOK(Renewed(r, t)) /\ \A w : Owned(r, w) => Owned(Renewed(r, t), w)
<1>1. /\ Renewed(r, t).status = r.status /\ Renewed(r, t).worker_id = r.worker_id
  BY DEF JobOK, Renewed
<1>2. JobOK(Renewed(r, t))
  BY Zenon DEF JobOK, Renewed
<1> QED
  BY <1>1, <1>2 DEF Owned

(* A new row, and no row, is nobody's. *)
LEMMA InsertedOK ==
  ASSUME NEW m, NEW t
  PROVE  /\ JobOK(Inserted(m, t)) /\ Inserted(m, t).status # "RUNNING"
         /\ JobOK(NoRow) /\ NoRow.status # "RUNNING"
BY DEF JobOK, Inserted, NoRow

(* What they do to a worker's row. *)
LEMMA WorkerRowOK ==
  ASSUME NEW r, WorkerOK(r), NEW j \in Job \cup {NULL}
  PROVE  /\ WorkerOK([r EXCEPT !.current_job_id = j])
         /\ [r EXCEPT !.current_job_id = j].current_job_id = j
         /\ [r EXCEPT !.current_job_id = j].registered = r.registered
<1>1. /\ [r EXCEPT !.current_job_id = j].current_job_id = j
      /\ [r EXCEPT !.current_job_id = j].registered = r.registered
  BY DEF WorkerOK
<1>2. WorkerOK([r EXCEPT !.current_job_id = j])
  BY ZenonT(40) DEF WorkerOK
<1> QED
  BY <1>1, <1>2
------------------------------------------------------------------------------
(* The statements. *)
LEMMA ClaimJobStep ==
  ASSUME TInv, NEW s \in Session, ClaimJob(s)
  PROVE  TInv'
<1>1. /\ tx[s].op = "claim" /\ tx[s].step = "job"
      /\ UNCHANGED <<jobs, workers>>
  BY Zenon DEF ClaimJob, At
<1>2. /\ TxOK(tx[s], jobs, workers) /\ TxShape(tx[s])
      /\ tx[s].worker \in Worker
      /\ DOMAIN tx[s].rows = {} /\ DOMAIN tx[s].wrows = {}
  BY <1>1 DEF TInv, TxOK, Early
<1>3. CASE End(s)
  BY <1>1, <1>3, EndStep
<1>4. ASSUME NEW j \in Candidates(s),
             tx' = [tx EXCEPT ![s].step = "worker", ![s].job = j, ![s].start = 0,
                      ![s].rows = Set(@, j, Claimed(jobs[j], tx[s].worker,
                                                    tx[s].start + Lease))]
      PROVE  TInv'
  <2> DEFINE c == Claimed(jobs[j], tx[s].worker, tx[s].start + Lease)
             f == Set(tx[s].rows, j, c)
             r == [tx[s] EXCEPT !.step = "worker", !.job = j, !.start = 0,
                                !.rows = f]
  <2>1. j \in Job /\ jobs[j].status = "PENDING" /\ ~JobLocked(s, j)
    BY DEF Candidates, Claimable
  <2>2. JobOK(c) /\ Owned(c, tx[s].worker)
    BY <1>2, <2>1, ClaimedOK DEF TInv, TablesOK
  <2>3. DOMAIN f = {j} /\ f[j] = c
    <3>1. DOMAIN tx[s].rows = {}
      BY SMTT(20), <1>2
    <3> HIDE DEF c
    <3> QED
      BY <3>1 DEF Set
  <2>4. /\ tx'[s] = r
        /\ tx' = [t \in Session |-> tx'[t]]
        /\ \A t \in Session \ {s} : tx'[t] = tx[t]
    BY Zenon, <1>2, <1>4 DEF TInv, TablesOK
  <2> HIDE DEF f, c
  <2>5. /\ r.op = "claim" /\ r.step = "worker" /\ r.job = j
        /\ r.worker = tx[s].worker /\ r.rows = f /\ r.wrows = tx[s].wrows
    BY <1>1, <1>2 DEF TxShape
  <2>6. TxShape(r)
    BY <1>2, Zenon DEF TxShape
  <2> HIDE DEF r
  <2>7. ClaimOK(r, jobs)
    BY <1>2, <2>1, <2>2, <2>3, <2>5 DEF ClaimOK
  <2>8. TxOK(r, jobs, workers)
    BY <1>2, <2>1, <2>2, <2>3, <2>5, <2>6, <2>7 DEF TxOK, Early
  <2>9. TxOK(tx'[s], jobs, workers)
    BY <2>4, <2>8
  <2>10. \A t \in Session \ {s} :
           /\ DOMAIN tx'[s].rows \cap DOMAIN tx[t].rows = {}
           /\ DOMAIN tx'[s].wrows \cap DOMAIN tx[t].wrows = {}
    BY <1>2, <2>1, <2>3, <2>4, <2>5 DEF JobLocked
  <2> QED
    BY <1>1, <2>4, <2>9, <2>10, TxStep
<1> QED
  BY ZenonT(40), <1>3, <1>4 DEF ClaimJob

(* Claim names the job in the row of its worker. *)
LEMMA ClaimWorkerStep ==
  ASSUME TInv, NEW s \in Session, ClaimWorker(s)
  PROVE  TInv'
<1> DEFINE w == tx[s].worker
           v == [workers[w] EXCEPT !.current_job_id = tx[s].job]
           f == Set(tx[s].wrows, w, v)
           r == [tx[s] EXCEPT !.step = "commit", !.wrows = f]
<1>1. /\ tx[s].op = "claim" /\ tx[s].step = "worker"
      /\ UNCHANGED <<jobs, workers>>
  BY DEF ClaimWorker, At
<1>2. /\ TxOK(tx[s], jobs, workers) /\ TxShape(tx[s])
      /\ w \in Worker /\ ClaimOK(tx[s], jobs)
      /\ DOMAIN tx[s].wrows = {}
  BY <1>1 DEF TInv, TxOK, Early, ClaimOK
<1>3. CASE End(s)
  BY <1>1, <1>3, EndStep
<1>4. ASSUME workers[w].registered, ~WorkerLocked(s, w),
             tx' = [tx EXCEPT ![s].step = "commit",
                      ![s].wrows = Set(@, w, [workers[w] EXCEPT
                                                !.current_job_id = tx[s].job])]
      PROVE  TInv'
  <2>1. tx[s].job \in Job \cup {NULL} /\ WorkerOK(workers[w])
    BY <1>2 DEF ClaimOK, TInv, TablesOK
  <2>2. WorkerOK(v) /\ v.current_job_id = tx[s].job /\ v.registered = TRUE
    <3>1. workers[w].registered = TRUE
      BY <1>4, <2>1 DEF WorkerOK
    <3> QED
      BY <2>1, <3>1, WorkerRowOK
  <2>3. DOMAIN f = {w} /\ f[w] = v
    <3>1. DOMAIN tx[s].wrows = {}
      BY SMTT(20), <1>2
    <3> HIDE DEF v
    <3> QED
      BY <3>1 DEF Set
  <2>4. /\ tx'[s] = r
        /\ tx' = [t \in Session |-> tx'[t]]
        /\ \A t \in Session \ {s} : tx'[t] = tx[t]
    BY Zenon, <1>2, <1>4 DEF TInv, TablesOK
  <2> HIDE DEF f, v
  <2>5. /\ r.op = "claim" /\ r.step = "commit" /\ r.job = tx[s].job
        /\ r.worker = w /\ r.rows = tx[s].rows /\ r.wrows = f
    BY <1>1, <1>2 DEF TxShape
  <2>6. TxShape(r)
    BY <1>2, Zenon DEF TxShape
  <2> HIDE DEF r
  <2>7. ClaimOK(r, jobs)
    BY <1>2, <2>2, <2>3, <2>5 DEF ClaimOK
  <2>8. TxOK(r, jobs, workers)
    BY <1>2, <2>2, <2>3, <2>5, <2>6, <2>7 DEF TxOK, Early
  <2>9. TxOK(tx'[s], jobs, workers)
    BY <2>4, <2>8
  <2>10. \A t \in Session \ {s} :
           /\ DOMAIN tx'[s].rows \cap DOMAIN tx[t].rows = {}
           /\ DOMAIN tx'[s].wrows \cap DOMAIN tx[t].wrows = {}
    <3>1. \A t \in Session \ {s} : DOMAIN tx[s].rows \cap DOMAIN tx[t].rows = {}
      BY DEF TInv, Exclusive
    <3> QED
      BY ZenonT(40), <3>1, <1>4, <2>3, <2>4, <2>5 DEF WorkerLocked
  <2> QED
    BY <1>1, <2>4, <2>9, <2>10, TxStep
<1> QED
  BY <1>3, <1>4 DEF ClaimWorker

(* Complete and Fail lock the job of their worker. *)
LEMMA ReportJobStep ==
  ASSUME TInv, NEW s \in Session, ReportJob(s)
  PROVE  TInv'
<1> DEFINE j == tx[s].job
           c == Reported(s, jobs[j])
           f == Set(tx[s].rows, j, c)
           r == [tx[s] EXCEPT !.step = "worker", !.start = 0, !.attempts = 0,
                              !.rows = f]
<1>1. /\ tx[s].op \in {"complete", "fail"} /\ tx[s].step = "job"
      /\ UNCHANGED <<jobs, workers>>
  BY DEF ReportJob, At
<1>2. /\ TxOK(tx[s], jobs, workers) /\ TxShape(tx[s])
      /\ tx[s].worker \in Worker /\ j \in Job
      /\ DOMAIN tx[s].rows = {} /\ DOMAIN tx[s].wrows = {}
  BY <1>1 DEF TInv, TxOK, Early
<1>3. CASE End(s)
  BY <1>1, <1>3, EndStep
<1>4. ASSUME Owned(jobs[j], tx[s].worker), ~JobLocked(s, j),
             tx' = [tx EXCEPT ![s].step = "worker", ![s].start = 0,
                              ![s].attempts = 0,
                              ![s].rows = Set(@, j, Reported(s, jobs[j]))]
      PROVE  TInv'
  <2>1. JobOK(c)
    <3>1. JobOK(jobs[j])
      BY <1>2 DEF TInv, TablesOK
    <3> QED
      BY <3>1, EndedOK DEF Reported
  <2>2. DOMAIN f = {j} /\ f[j] = c
    <3>1. DOMAIN tx[s].rows = {}
      BY <1>2
    <3> HIDE DEF c
    <3> QED
      BY <3>1 DEF Set
  <2>3. /\ tx'[s] = r
        /\ tx' = [t \in Session |-> tx'[t]]
        /\ \A t \in Session \ {s} : tx'[t] = tx[t]
    BY Zenon, <1>2, <1>4 DEF TInv, TablesOK
  <2> HIDE DEF f, c
  <2>4. /\ r.op = tx[s].op /\ r.step = "worker" /\ r.job = j
        /\ r.worker = tx[s].worker /\ r.rows = f /\ r.wrows = tx[s].wrows
    BY <1>1, <1>2 DEF TxShape
  <2>5. TxShape(r)
    BY <1>2, Zenon DEF TxShape
  <2> HIDE DEF r
  <2>6. ReportOK(r, jobs, workers)
    BY <1>2, <1>4, <2>2, <2>4 DEF ReportOK
  <2>7. TxOK(r, jobs, workers)
    BY <1>1, <1>2, <2>1, <2>2, <2>4, <2>5, <2>6 DEF TxOK, Early
  <2>8. TxOK(tx'[s], jobs, workers)
    BY <2>3, <2>7
  <2>9. \A t \in Session \ {s} :
          /\ DOMAIN tx'[s].rows \cap DOMAIN tx[t].rows = {}
          /\ DOMAIN tx'[s].wrows \cap DOMAIN tx[t].wrows = {}
    <3>1. \A t \in Session \ {s} : j \notin DOMAIN tx[t].rows
      BY <1>4 DEF JobLocked
    <3>2. DOMAIN tx'[s].rows = {j} /\ DOMAIN tx'[s].wrows = {}
      BY <1>2, <2>2, <2>3, <2>4
    <3> QED
      BY <3>1, <3>2
  <2> QED
    BY <1>1, <2>3, <2>8, <2>9, TxStep
<1> QED
  BY <1>3, <1>4 DEF ReportJob

(* Complete and Fail clear their worker's current_job_id, or find that the *)
(* worker is not registered and so names no job.                           *)
LEMMA ReportWorkerStep ==
  ASSUME TInv, NEW s \in Session, ReportWorker(s)
  PROVE  TInv'
<1> DEFINE w == tx[s].worker
<1>1. /\ tx[s].op \in {"complete", "fail"} /\ tx[s].step = "worker"
      /\ UNCHANGED <<jobs, workers>>
  BY DEF ReportWorker, At
<1>2. /\ TxOK(tx[s], jobs, workers) /\ TxShape(tx[s])
      /\ w \in Worker /\ ReportOK(tx[s], jobs, workers)
      /\ DOMAIN tx[s].wrows = {}
  BY <1>1 DEF TInv, TxOK, Early, ReportOK
<1>3. WorkerOK(workers[w])
  BY <1>2 DEF TInv, TablesOK
<1>4. \A t \in Session \ {s} : DOMAIN tx[s].rows \cap DOMAIN tx[t].rows = {}
  BY DEF TInv, Exclusive
<1>5. ASSUME ~workers[w].registered,
             tx' = [tx EXCEPT ![s].step = "commit"]
      PROVE  TInv'
  <2> DEFINE r == [tx[s] EXCEPT !.step = "commit"]
  <2>1. workers[w].current_job_id # tx[s].job
    BY <1>2, <1>5, NullFacts DEF TInv, CurrentJobHeld, ReportOK
  <2>2. /\ tx'[s] = r
        /\ tx' = [t \in Session |-> tx'[t]]
        /\ \A t \in Session \ {s} : tx'[t] = tx[t]
    BY <1>2, <1>5 DEF TInv, TablesOK
  <2>3. /\ r.op = tx[s].op /\ r.step = "commit" /\ r.job = tx[s].job
        /\ r.worker = w /\ r.rows = tx[s].rows /\ r.wrows = tx[s].wrows
    BY <1>2 DEF TxShape
  <2>4. TxShape(r)
    BY <1>2, Zenon DEF TxShape
  <2> HIDE DEF r
  <2>5. ReportOK(r, jobs, workers)
    BY <1>2, <2>1, <2>3 DEF ReportOK
  <2>6. TxOK(r, jobs, workers)
    BY <1>1, <1>2, <2>3, <2>4, <2>5 DEF TxOK, Early
  <2>7. TxOK(tx'[s], jobs, workers)
    BY <2>2, <2>6
  <2>8. \A t \in Session \ {s} :
          /\ DOMAIN tx'[s].rows \cap DOMAIN tx[t].rows = {}
          /\ DOMAIN tx'[s].wrows \cap DOMAIN tx[t].wrows = {}
    BY <1>2, <1>4, <2>2, <2>3
  <2> QED
    BY <1>1, <2>2, <2>7, <2>8, TxStep
<1>6. ASSUME ~WorkerLocked(s, w),
             tx' = [tx EXCEPT ![s].step = "commit",
                      ![s].wrows = Set(@, w, [workers[w] EXCEPT
                                                !.current_job_id = NULL])]
      PROVE  TInv'
  <2> DEFINE v == [workers[w] EXCEPT !.current_job_id = NULL]
             f == Set(tx[s].wrows, w, v)
             r == [tx[s] EXCEPT !.step = "commit", !.wrows = f]
  <2>1. WorkerOK(v) /\ v.current_job_id = NULL
    <3>1. NULL \in Job \cup {NULL}
      OBVIOUS
    <3> QED
      BY <1>3, <3>1, WorkerRowOK
  <2>2. DOMAIN f = {w} /\ f[w] = v
    <3>1. DOMAIN tx[s].wrows = {}
      BY SMTT(20), <1>2
    <3> HIDE DEF v
    <3> QED
      BY <3>1 DEF Set
  <2>3. /\ tx'[s] = r
        /\ tx' = [t \in Session |-> tx'[t]]
        /\ \A t \in Session \ {s} : tx'[t] = tx[t]
    BY Zenon, <1>2, <1>6 DEF TInv, TablesOK
  <2> HIDE DEF f, v
  <2>4. /\ r.op = tx[s].op /\ r.step = "commit" /\ r.job = tx[s].job
        /\ r.worker = w /\ r.rows = tx[s].rows /\ r.wrows = f
    BY <1>2 DEF TxShape
  <2>5. TxShape(r)
    BY <1>2, Zenon DEF TxShape
  <2> HIDE DEF r
  <2>6. ReportOK(r, jobs, workers)
    BY <1>2, <2>1, <2>2, <2>4 DEF ReportOK
  <2>7. TxOK(r, jobs, workers)
    BY <1>1, <1>2, <2>1, <2>2, <2>4, <2>5, <2>6 DEF TxOK, Early
  <2>8. TxOK(tx'[s], jobs, workers)
    BY <2>3, <2>7
  <2>9. \A t \in Session \ {s} :
          /\ DOMAIN tx'[s].rows \cap DOMAIN tx[t].rows = {}
          /\ DOMAIN tx'[s].wrows \cap DOMAIN tx[t].wrows = {}
    BY ZenonT(40), <1>4, <1>6, <2>2, <2>3, <2>4 DEF WorkerLocked
  <2> QED
    BY <1>1, <2>3, <2>8, <2>9, TxStep
<1> QED
  BY <1>5, <1>6 DEF ReportWorker

(* The rows a sweep selects, in some order: every one of them is to do. *)
LEMMA OrderedFacts ==
  ASSUME NEW S \in SUBSET Job, S # {}, NEW q \in Ordered(S)
  PROVE  /\ q \in Seq(S) /\ q # <<>>
         /\ \A j \in S : \E i \in 1..Len(q) : q[i] = j
<1>1. IsFiniteSet(S)
  BY NullFacts, FS_Subset
<1>2. Cardinality(S) \in Nat /\ Cardinality(S) # 0
  BY <1>1, FS_CardinalityType, FS_EmptySet
<1>3. /\ q \in [1..Cardinality(S) -> S]
      /\ \A j \in S : \E i \in DOMAIN q : q[i] = j
  BY DEF Ordered
<1>4. q \in Seq(S) /\ Len(q) = Cardinality(S)
  BY <1>2, <1>3
<1> QED
  BY <1>2, <1>3, <1>4

(* The sweep's SELECT locks expired rows, all of them RUNNING. *)
LEMMA SweepSelectStep ==
  ASSUME TInv, NEW s \in Session, SweepSelect(s)
  PROVE  TInv'
<1>1. /\ tx[s].op = "reap" /\ tx[s].step = "job"
      /\ UNCHANGED <<jobs, workers>>
  BY Zenon DEF SweepSelect, At
<1>2. /\ TxOK(tx[s], jobs, workers) /\ TxShape(tx[s])
      /\ DOMAIN tx[s].rows = {} /\ DOMAIN tx[s].wrows = {}
  BY <1>1 DEF TInv, TxOK, Early
<1>3. CASE End(s)
  BY <1>1, <1>3, EndStep
<1>4. ASSUME NEW S \in SUBSET ExpiredJobs(s), NEW q \in Ordered(S), S # {},
             tx' = [tx EXCEPT ![s].step = "worker", ![s].todo = q,
                              ![s].rows = [j \in S |-> jobs[j]]]
      PROVE  TInv'
  <2> DEFINE f == [j \in S |-> jobs[j]]
             r == [tx[s] EXCEPT !.step = "worker", !.todo = q, !.rows = f]
  <2>1. S \subseteq Job /\ \A j \in S : jobs[j].status = "RUNNING" /\ ~JobLocked(s, j)
    BY DEF ExpiredJobs, Expired
  <2>2. /\ q \in Seq(S) /\ q # <<>>
        /\ \A j \in S : \E i \in 1..Len(q) : q[i] = j
    BY <1>4, <2>1, OrderedFacts
  <2>3. DOMAIN f = S /\ \A j \in S : JobOK(f[j])
    BY SMTT(20), <2>1 DEF TInv, TablesOK
  <2>4. /\ tx'[s] = r
        /\ tx' = [t \in Session |-> tx'[t]]
        /\ \A t \in Session \ {s} : tx'[t] = tx[t]
    BY Zenon, <1>2, <1>4 DEF TInv, TablesOK
  <2> HIDE DEF f
  <2>5. /\ r.op = "reap" /\ r.step = "worker" /\ r.todo = q
        /\ r.rows = f /\ r.wrows = tx[s].wrows
    BY <1>1, <1>2 DEF TxShape
  <2>6. TxShape(r)
    BY <1>2, Zenon DEF TxShape
  <2> HIDE DEF r
  <2>7. SweepOK(r, jobs, workers)
    BY Zenon, <1>2, <2>1, <2>2, <2>3, <2>5 DEF SweepOK
  <2>8. TxOK(r, jobs, workers)
    BY <1>2, <2>1, <2>3, <2>5, <2>6, <2>7 DEF TxOK, Early
  <2>9. TxOK(tx'[s], jobs, workers)
    BY <2>4, <2>8
  <2>10. \A t \in Session \ {s} :
           /\ DOMAIN tx'[s].rows \cap DOMAIN tx[t].rows = {}
           /\ DOMAIN tx'[s].wrows \cap DOMAIN tx[t].wrows = {}
    BY <1>2, <2>1, <2>3, <2>4, <2>5 DEF JobLocked
  <2> QED
    BY <1>1, <2>4, <2>9, <2>10, TxStep
<1> QED
  BY Zenon, <1>3, <1>4 DEF SweepSelect

(* The rest of what is to do. *)
LEMMA TailFacts ==
  ASSUME NEW S, NEW q \in Seq(S), q # <<>>
  PROVE  /\ Head(q) \in S /\ Tail(q) \in Seq(S)
         /\ Len(q) = 1 <=> Tail(q) = <<>>
         /\ \A x \in S : (\E i \in 1..Len(q) : q[i] = x) /\ x # Head(q) =>
                           \E i \in 1..Len(Tail(q)) : Tail(q)[i] = x
<1>1. /\ Head(q) \in S /\ Tail(q) \in Seq(S)
      /\ Len(q) \in Nat /\ Len(q) >= 1
      /\ Head(q) = q[1] /\ Len(Tail(q)) = Len(q) - 1
      /\ \A i \in 1..Len(Tail(q)) : Tail(q)[i] = q[i + 1]
  OBVIOUS
<1>2. Len(q) = 1 <=> Tail(q) = <<>>
  <2>1. Tail(q) = <<>> <=> Len(Tail(q)) = 0
    BY <1>1, EmptySeq
  <2> QED
    BY <1>1, <2>1
<1>3. ASSUME NEW x \in S, NEW i \in 1..Len(q), q[i] = x, x # Head(q)
      PROVE  \E k \in 1..Len(Tail(q)) : Tail(q)[k] = x
  <2>1. i # 1
    BY <1>1, <1>3
  <2>2. i - 1 \in 1..Len(Tail(q)) /\ (i - 1) + 1 = i
    BY <1>1, <2>1
  <2>3. Tail(q)[i - 1] = x
    BY <1>1, <1>3, <2>2
  <2> QED
    BY <2>2, <2>3
<1> QED
  BY <1>1, <1>2, <1>3

(* The sweep updates one of its jobs, and its worker's row if that row     *)
(* still names the job.                                                    *)
LEMMA SweepOneStep ==
  ASSUME TInv, NEW s \in Session, SweepOne(s)
  PROVE  TInv'
<1> DEFINE q == tx[s].todo
           j == Head(q)
           w == jobs[j].worker_id
           c == Reaped(jobs[j], tx[s].start + Delay[jobs[j].attempts])
           f == Set(tx[s].rows, j, c)
           p == [tx[s] EXCEPT !.todo = Tail(@),
                              !.step = IF Len(tx[s].todo) = 1 THEN "commit" ELSE @,
                              !.rows = f]
<1>1. /\ tx[s].op = "reap" /\ tx[s].step = "worker"
      /\ UNCHANGED <<jobs, workers>>
  BY DEF SweepOne, At
<1>2. /\ TxOK(tx[s], jobs, workers) /\ TxShape(tx[s])
      /\ SweepOK(tx[s], jobs, workers)
  BY <1>1 DEF TInv, TxOK, Early
<1>3. q \in Seq(DOMAIN tx[s].rows) /\ q # <<>>
  BY <1>1, <1>2 DEF SweepOK
<1>4. /\ j \in DOMAIN tx[s].rows /\ Tail(q) \in Seq(DOMAIN tx[s].rows)
      /\ Len(q) = 1 <=> Tail(q) = <<>>
      /\ \A x \in DOMAIN tx[s].rows :
           (\E i \in 1..Len(q) : q[i] = x) /\ x # j =>
             \E i \in 1..Len(Tail(q)) : Tail(q)[i] = x
  <2> DEFINE D == DOMAIN tx[s].rows
  <2> HIDE DEF D, q
  <2>1. q \in Seq(D) /\ q # <<>>
    BY SMTT(20), <1>3 DEF D
  <2> QED
    BY <2>1, TailFacts DEF D
<1>5. /\ DOMAIN tx[s].rows \subseteq Job /\ DOMAIN tx[s].wrows \subseteq Worker
      /\ j \in Job /\ jobs[j].status = "RUNNING" /\ w \in Worker /\ JobOK(jobs[j])
  BY Zenon, <1>2, <1>4 DEF TxOK, SweepOK, TInv, TablesOK, JobOK
<1>6. JobOK(c)
  BY <1>5, EndedOK
<1>7. /\ DOMAIN f = DOMAIN tx[s].rows
      /\ \A x \in DOMAIN f : JobOK(f[x])
  <2> HIDE DEF c, j
  <2>1. /\ DOMAIN f = DOMAIN tx[s].rows /\ f[j] = c
        /\ \A x \in DOMAIN tx[s].rows : x # j => f[x] = tx[s].rows[x]
    BY <1>4 DEF Set
  <2>2. \A x \in DOMAIN tx[s].rows : JobOK(tx[s].rows[x])
    BY <1>2 DEF TxOK
  <2> QED
    BY <1>6, <2>1, <2>2
<1>8. /\ p.op = "reap" /\ p.rows = f /\ p.wrows = tx[s].wrows /\ p.todo = Tail(q)
      /\ p.step = IF Len(q) = 1 THEN "commit" ELSE "worker"
  <2> HIDE DEF f
  <2> QED
    BY <1>1, <1>2 DEF TxShape
<1>9. TxShape(p)
  <2> HIDE DEF f
  <2> QED
    BY <1>2, Zenon DEF TxShape
<1>10. \A t \in Session \ {s} :
         /\ DOMAIN tx[s].rows \cap DOMAIN tx[t].rows = {}
         /\ DOMAIN tx[s].wrows \cap DOMAIN tx[t].wrows = {}
  BY DEF TInv, Exclusive
<1>11. \A x \in Worker :
         /\ workers[x].current_job_id = j => x = w /\ workers[x].registered
         /\ workers[x].current_job_id \in DOMAIN tx[s].rows => 
              workers[x].current_job_id # NULL
  BY <1>5, NullFacts DEF TInv, CurrentJobHeld, Owned
<1>12. ASSUME ~Names(s, w, j), tx' = [tx EXCEPT ![s] = p]
       PROVE  TInv'
  <2> HIDE DEF p
  <2>1. /\ tx'[s] = p
        /\ tx' = [t \in Session |-> tx'[t]]
        /\ \A t \in Session \ {s} : tx'[t] = tx[t]
    BY <1>12 DEF TInv, TablesOK
  <2> HIDE DEF f, c, w, j, q
  <2>2. \A x \in Worker \ DOMAIN tx[s].wrows : workers[x].current_job_id # j
    BY <1>11, <1>12 DEF Names, Seen
  <2>3. SweepOK(p, jobs, workers)
    BY SMTT(20), <1>2, <1>4, <1>7, <1>8, <2>2 DEF SweepOK, q
  <2>4. TxOK(p, jobs, workers)
    BY SMTT(20), <1>2, <1>7, <1>8, <1>9, <2>3 DEF TxOK, Early
  <2>5. TxOK(tx'[s], jobs, workers)
    BY <2>1, <2>4
  <2>6. \A t \in Session \ {s} :
          /\ DOMAIN tx'[s].rows \cap DOMAIN tx[t].rows = {}
          /\ DOMAIN tx'[s].wrows \cap DOMAIN tx[t].wrows = {}
    BY <1>7, <1>8, <1>10, <2>1
  <2> QED
    BY <1>1, <2>1, <2>5, <2>6, TxStep
<1>13. ASSUME Names(s, w, j), ~WorkerLocked(s, w),
              tx' = [tx EXCEPT ![s] = [p EXCEPT !.wrows =
                       Set(@, w, [Seen(s, w) EXCEPT !.current_job_id = NULL])]]
       PROVE  TInv'
  <2> DEFINE v == [Seen(s, w) EXCEPT !.current_job_id = NULL]
             g == Set(tx[s].wrows, w, v)
             r == [p EXCEPT !.wrows = g]
  <2> HIDE DEF p
  <2>1. w \notin DOMAIN tx[s].wrows
    <3>1. \A x \in DOMAIN tx[s].wrows : tx[s].wrows[x].current_job_id = NULL
      BY SMTT(20), <1>2 DEF SweepOK
    <3> QED
      BY Zenon, <1>5, <1>13, <3>1, NullFacts DEF Names, Seen
  <2>2. workers[w].current_job_id = j /\ Seen(s, w) = workers[w]
    BY ZenonT(40), <1>13, <2>1 DEF Names, Seen
  <2>3. WorkerOK(v) /\ v.current_job_id = NULL
    <3>1. WorkerOK(workers[w]) /\ NULL \in Job \cup {NULL}
      BY <1>5 DEF TInv, TablesOK
    <3> QED
      BY ZenonT(40), <2>2, <3>1, WorkerRowOK
  <2> HIDE DEF f, c, w, j, q
  <2>4. /\ tx'[s] = r
        /\ tx' = [t \in Session |-> tx'[t]]
        /\ \A t \in Session \ {s} : tx'[t] = tx[t]
    <3>1. [p EXCEPT !.wrows = Set(@, w, [Seen(s, w) EXCEPT !.current_job_id = NULL])] = r
      BY <1>8, <1>9 DEF TxShape
    <3> HIDE DEF r
    <3> QED
      BY <1>13, <3>1 DEF TInv, TablesOK
  <2>5. /\ DOMAIN g = DOMAIN tx[s].wrows \cup {w} /\ g[w] = v
        /\ \A x \in DOMAIN tx[s].wrows : g[x] = tx[s].wrows[x]
    <3> HIDE DEF v
    <3> QED
      BY <2>1 DEF Set
  <2> HIDE DEF g, v
  <2>6. /\ r.op = "reap" /\ r.rows = f /\ r.wrows = g /\ r.todo = Tail(q)
        /\ r.step = IF Len(q) = 1 THEN "commit" ELSE "worker"
    BY <1>8, <1>9 DEF TxShape
  <2>7. TxShape(r)
    BY <1>9, Zenon DEF TxShape
  <2> HIDE DEF r
  <2>8. SweepOK(r, jobs, workers)
    <3>1. \A x \in DOMAIN r.wrows : /\ r.wrows[x].current_job_id = NULL
                                    /\ workers[x].current_job_id \in DOMAIN r.rows
      BY SMTT(20), <1>2, <1>4, <1>7, <2>2, <2>3, <2>5, <2>6 DEF SweepOK
    <3>2. \A x \in Worker \ DOMAIN r.wrows :
            workers[x].current_job_id \in DOMAIN r.rows =>
              \E i \in 1..Len(r.todo) : r.todo[i] = workers[x].current_job_id
      <4>1. \A x \in Worker \ DOMAIN r.wrows :
              x \notin DOMAIN tx[s].wrows /\ workers[x].current_job_id # j
        BY <1>11, <2>5, <2>6
      <4> QED
        BY <1>2, <1>4, <1>7, <2>6, <4>1 DEF SweepOK, q
    <3> QED
      BY SMTT(20), <1>2, <1>4, <1>7, <2>6, <3>1, <3>2 DEF SweepOK
  <2>9. TxOK(r, jobs, workers)
    <3>1. \A x \in DOMAIN r.wrows : WorkerOK(r.wrows[x])
      BY <1>2, <2>3, <2>5, <2>6 DEF TxOK
    <3>2. DOMAIN r.rows \subseteq Job /\ DOMAIN r.wrows \subseteq Worker
      BY <1>5, <1>7, <2>5, <2>6
    <3> QED
      BY SMTT(20), <1>7, <2>6, <2>7, <2>8, <3>1, <3>2 DEF TxOK, Early
  <2>10. TxOK(tx'[s], jobs, workers)
    BY <2>4, <2>9
  <2>11. \A t \in Session \ {s} :
           /\ DOMAIN tx'[s].rows \cap DOMAIN tx[t].rows = {}
           /\ DOMAIN tx'[s].wrows \cap DOMAIN tx[t].wrows = {}
    <3>1. \A t \in Session \ {s} : w \notin DOMAIN tx[t].wrows
      BY <1>13 DEF WorkerLocked
    <3>2. /\ DOMAIN tx'[s].rows = DOMAIN tx[s].rows
          /\ DOMAIN tx'[s].wrows = DOMAIN tx[s].wrows \cup {w}
      BY <1>7, <2>4, <2>5, <2>6
    <3> QED
      BY <1>10, <3>1, <3>2
  <2> QED
    BY SMTT(20), <1>1, <2>4, <2>10, <2>11, TxStep
<1> QED
  BY <1>12, <1>13 DEF SweepOne
------------------------------------------------------------------------------
(* A step that commits one version of one job that nobody else has locked, *)
(* and ends at most the transaction it belongs to.                         *)
LEMMA OneJobStep ==
  ASSUME TInv, NEW j \in Job, NEW row, JobOK(row),
         \A w \in Worker : Owned(jobs[j], w) => Owned(row, w),
         jobs' = [jobs EXCEPT ![j] = row], workers' = workers,
         tx' = [t \in Session |-> tx'[t]],
         \A t \in Session : \/ tx'[t] = Idle
                            \/ tx'[t] = tx[t] /\ j \notin DOMAIN tx[t].rows
  PROVE  TInv'
<1>1. /\ jobs' = [k \in Job |-> jobs'[k]] /\ jobs'[j] = row
      /\ \A k \in Job \ {j} : jobs'[k] = jobs[k]
  BY DEF TInv, TablesOK
<1>2. TablesOK'
  BY <1>1 DEF TInv, TablesOK
<1>3. CurrentJobHeld'
  <2> SUFFICES ASSUME NEW w \in Worker, workers[w].current_job_id # NULL
               PROVE  /\ workers[w].registered
                      /\ Owned(jobs'[workers[w].current_job_id], w)
    BY DEF CurrentJobHeld
  <2>1. /\ workers[w].registered /\ Owned(jobs[workers[w].current_job_id], w)
        /\ workers[w].current_job_id \in Job
    BY DEF TInv, CurrentJobHeld, TablesOK, WorkerOK
  <2> QED
    BY <1>1, <2>1
<1>4. TxOK(Idle, jobs', workers') /\ DOMAIN Idle.rows = {} /\ DOMAIN Idle.wrows = {}
  BY Zenon, IdleOK, BegunOK DEF Early
<1>5. Exclusive'
  BY <1>4 DEF TInv, Exclusive
<1>6. ASSUME NEW t \in Session
      PROVE  TxOK(tx'[t], jobs', workers')
  <2>1. CASE tx'[t] = Idle
    BY <1>4, <2>1
  <2>2. CASE tx'[t] = tx[t] /\ j \notin DOMAIN tx[t].rows
    <3>1. TxOK(tx[t], jobs, workers)
      BY DEF TInv
    <3>2. \A k \in DOMAIN tx[t].rows : jobs'[k] = jobs[k]
      BY <1>1, <2>2, <3>1 DEF TxOK
    <3>3. TxOK(tx[t], jobs', workers')
      BY Zenon, <3>1, <3>2, Undisturbed
    <3> QED
      BY <2>2, <3>3
  <2> QED
    BY <2>1, <2>2
<1> QED
  BY Zenon, <1>2, <1>3, <1>5, <1>6 DEF TInv

(* RenewLease writes the row it waited for. *)
LEMMA RenewStep ==
  ASSUME TInv, NEW s \in Session, RenewLease(s)
  PROVE  TInv'
<1> DEFINE j == tx[s].job
           row == Renewed(jobs[j], tx[s].start + Lease)
<1>1. tx[s].op = "renew" /\ tx[s].step = "job" /\ End(s) /\ workers' = workers
  BY DEF RenewLease, At
<1>2. j \in Job /\ JobOK(jobs[j])
  BY <1>1 DEF TInv, TxOK, TablesOK
<1>3. CASE UNCHANGED jobs
  BY <1>1, <1>3, EndStep
<1>4. CASE ~JobLocked(s, j) /\ jobs' = [jobs EXCEPT ![j] = row]
  <2>1. JobOK(row) /\ \A w \in Worker : Owned(jobs[j], w) => Owned(row, w)
    BY <1>2, RenewedOK
  <2>2. /\ tx' = [t \in Session |-> tx'[t]]
        /\ tx'[s] = Idle /\ \A t \in Session \ {s} : tx'[t] = tx[t]
    BY <1>1 DEF End, TInv, TablesOK
  <2>3. \A t \in Session : \/ tx'[t] = Idle
                           \/ tx'[t] = tx[t] /\ j \notin DOMAIN tx[t].rows
    BY <1>4, <2>2 DEF JobLocked
  <2> HIDE DEF row, j
  <2> QED
    BY Zenon, <1>1, <1>2, <1>4, <2>1, <2>2, <2>3, OneJobStep
<1> QED
  BY <1>3, <1>4 DEF RenewLease

(* Cancel writes the PENDING row it waited for; no worker names it. *)
LEMMA CancelStep ==
  ASSUME TInv, NEW s \in Session, Cancel(s)
  PROVE  TInv'
<1> DEFINE j == tx[s].job
           row == Canceled(jobs[j])
<1>1. tx[s].op = "cancel" /\ tx[s].step = "job" /\ End(s) /\ workers' = workers
  BY DEF Cancel, At
<1>2. j \in Job /\ JobOK(jobs[j])
  BY <1>1 DEF TInv, TxOK, TablesOK
<1>3. CASE UNCHANGED jobs
  BY <1>1, <1>3, EndStep
<1>4. CASE /\ jobs[j].status = "PENDING" /\ ~JobLocked(s, j)
           /\ jobs' = [jobs EXCEPT ![j] = row]
  <2>1. JobOK(row)
    BY <1>2, EndedOK
  <2>2. \A w \in Worker : ~Owned(jobs[j], w)
    BY <1>4 DEF Owned
  <2>3. /\ tx' = [t \in Session |-> tx'[t]]
        /\ tx'[s] = Idle /\ \A t \in Session \ {s} : tx'[t] = tx[t]
    BY <1>1 DEF End, TInv, TablesOK
  <2>4. \A t \in Session : \/ tx'[t] = Idle
                           \/ tx'[t] = tx[t] /\ j \notin DOMAIN tx[t].rows
    BY <1>4, <2>3 DEF JobLocked
  <2> HIDE DEF row, j
  <2> QED
    BY Zenon, <1>1, <1>2, <1>4, <2>1, <2>2, <2>3, <2>4, OneJobStep
<1> QED
  BY <1>3, <1>4 DEF Cancel

(* Create inserts a row, which nobody can have locked. *)
LEMMA CreateStep ==
  ASSUME TInv, NEW j \in Job, NEW max, Create(j, max)
  PROVE  TInv'
<1> DEFINE row == Inserted(max, now)
<1>1. /\ jobs[j].status = "ABSENT" /\ jobs' = [jobs EXCEPT ![j] = row]
      /\ workers' = workers /\ tx' = tx
  BY DEF Create, Exists
<1>2. JobOK(row)
  BY InsertedOK
<1>3. \A w \in Worker : ~Owned(jobs[j], w)
  BY <1>1 DEF Owned
<1>4. ASSUME NEW t \in Session
      PROVE  j \notin DOMAIN tx[t].rows
  <2>1. TxOK(tx[t], jobs, workers)
    BY DEF TInv
  <2>2. CASE tx[t].step \in Early
    BY <2>1, <2>2 DEF TxOK
  <2>3. CASE tx[t].step \notin Early
    BY Zenon, <1>1, <2>1, <2>3 DEF TxOK, ClaimOK, ReportOK, SweepOK, Owned
  <2> QED
    BY <2>2, <2>3
<1>5. tx' = [t \in Session |-> tx'[t]] /\ \A t \in Session : tx'[t] = tx[t]
  BY <1>1 DEF TInv, TablesOK
<1> HIDE DEF row
<1> QED
  BY ZenonT(40), <1>1, <1>2, <1>3, <1>4, <1>5, OneJobStep

(* RegisterWorker overwrites a worker's row that nobody else has locked. *)
LEMMA RegisterStep ==
  ASSUME TInv, NEW s \in Session, NEW w \in Worker, RegisterWorker(s, w)
  PROVE  TInv'
<1> DEFINE v == [registered |-> TRUE, current_job_id |-> NULL]
<1>1. /\ tx[s].op = "none" /\ ~WorkerLocked(s, w)
      /\ workers' = [workers EXCEPT ![w] = v] /\ UNCHANGED <<jobs, tx>>
  BY DEF RegisterWorker
<1>2. WorkerOK(v) /\ v.current_job_id = NULL
  BY DEF WorkerOK
<1> HIDE DEF v
<1>3. /\ workers' = [x \in Worker |-> workers'[x]] /\ workers'[w] = v
      /\ \A x \in Worker \ {w} : workers'[x] = workers[x]
  BY <1>1 DEF TInv, TablesOK
<1>4. TablesOK'
  BY <1>1, <1>2, <1>3 DEF TInv, TablesOK
<1>5. Exclusive'
  BY <1>1 DEF TInv, Exclusive
<1>6. CurrentJobHeld'
  BY <1>1, <1>2, <1>3 DEF TInv, CurrentJobHeld
<1>7. ASSUME NEW t \in Session
      PROVE  TxOK(tx'[t], jobs', workers')
  <2>1. TxOK(tx[t], jobs, workers)
    BY DEF TInv
  <2>2. w \notin DOMAIN tx[t].wrows
    <3>1. CASE t = s
      BY <1>1, <2>1, <3>1 DEF TxOK, Early
    <3>2. CASE t # s
      BY <1>1, <3>2 DEF WorkerLocked
    <3> QED
      BY SMTT(20), <3>1, <3>2
  <2>3. \A x \in DOMAIN tx[t].wrows : workers'[x] = workers[x]
    BY <1>3, <2>1, <2>2 DEF TxOK
  <2>4. \A x \in Worker : workers'[x].current_job_id \in DOMAIN tx[t].rows =>
                           workers'[x].current_job_id = workers[x].current_job_id
    BY <1>2, <1>3, <2>1, NullFacts DEF TxOK
  <2>5. \A k \in DOMAIN tx[t].rows : jobs'[k] = jobs[k]
    BY <1>1
  <2>6. TxOK(tx[t], jobs', workers')
    BY <2>1, <2>3, <2>4, <2>5, Undisturbed
  <2> QED
    BY <1>1, <2>6
<1> QED
  BY <1>4, <1>5, <1>6, <1>7 DEF TInv

(* The commit of a claim, a report or a sweep. *)
LEMMA CommitStep ==
  ASSUME TInv, NEW s \in Session, Commit(s)
  PROVE  TInv'
<1> DEFINE r == tx[s]
<1>1. /\ r.step = "commit" /\ End(s)
      /\ jobs' = [j \in Job |-> IF j \in DOMAIN r.rows THEN r.rows[j] ELSE jobs[j]]
      /\ workers' = [w \in Worker |->
                       IF w \in DOMAIN r.wrows THEN r.wrows[w] ELSE workers[w]]
  BY SMTT(20) DEF Commit
<1>2. /\ TxOK(r, jobs, workers)
      /\ DOMAIN r.rows \subseteq Job /\ DOMAIN r.wrows \subseteq Worker
      /\ \A j \in DOMAIN r.rows : JobOK(r.rows[j])
      /\ \A w \in DOMAIN r.wrows : WorkerOK(r.wrows[w])
  BY SMTT(20) DEF TInv, TxOK
<1>3. \/ r.op = "claim" /\ ClaimOK(r, jobs)
      \/ r.op \in {"complete", "fail"} /\ ReportOK(r, jobs, workers)
      \/ r.op = "reap" /\ SweepOK(r, jobs, workers)
  BY <1>1, <1>2 DEF TxOK, Early
<1>4. /\ tx' = [t \in Session |-> tx'[t]]
      /\ tx'[s] = Idle /\ \A t \in Session \ {s} : tx'[t] = tx[t]
  BY <1>1 DEF End, TInv, TablesOK
<1>5. \A t \in Session \ {s} : /\ DOMAIN r.rows \cap DOMAIN tx[t].rows = {}
                              /\ DOMAIN r.wrows \cap DOMAIN tx[t].wrows = {}
  BY DEF TInv, Exclusive
<1> HIDE DEF r
<1>6. /\ jobs' = [j \in Job |-> jobs'[j]]
      /\ \A j \in DOMAIN r.rows : jobs'[j] = r.rows[j]
      /\ \A j \in Job \ DOMAIN r.rows : jobs'[j] = jobs[j]
      /\ workers' = [w \in Worker |-> workers'[w]]
      /\ \A w \in DOMAIN r.wrows : workers'[w] = r.wrows[w]
      /\ \A w \in Worker \ DOMAIN r.wrows : workers'[w] = workers[w]
  BY <1>1, <1>2
<1>7. TablesOK'
  BY <1>2, <1>4, <1>6 DEF TInv, TablesOK
<1>8. TxOK(Idle, jobs', workers') /\ DOMAIN Idle.rows = {} /\ DOMAIN Idle.wrows = {}
  BY Zenon, IdleOK, BegunOK DEF Early
<1>9. Exclusive'
  BY <1>4, <1>8 DEF TInv, Exclusive
<1>10. \A w \in DOMAIN r.wrows : \/ r.wrows[w].current_job_id = NULL
                               \/ r.wrows[w].current_job_id \in DOMAIN r.rows
  <2>1. CASE r.op = "claim" /\ ClaimOK(r, jobs)
    BY <1>1, <2>1 DEF ClaimOK
  <2>2. CASE r.op \in {"complete", "fail"} /\ ReportOK(r, jobs, workers)
    BY <1>1, <2>2 DEF ReportOK
  <2>3. CASE r.op = "reap" /\ SweepOK(r, jobs, workers)
    BY <2>3 DEF SweepOK
  <2> QED
    BY <1>3, <2>1, <2>2, <2>3
<1>11. ASSUME NEW t \in Session
       PROVE  TxOK(tx'[t], jobs', workers')
  <2>1. CASE t = s
    BY <1>4, <1>8, <2>1
  <2>2. CASE t # s
    <3>1. TxOK(tx[t], jobs, workers)
      BY DEF TInv
    <3>2. /\ DOMAIN tx[t].rows \subseteq Job /\ DOMAIN tx[t].wrows \subseteq Worker
          /\ DOMAIN r.rows \cap DOMAIN tx[t].rows = {}
          /\ DOMAIN r.wrows \cap DOMAIN tx[t].wrows = {}
      BY <1>5, <2>2, <3>1 DEF TxOK
    <3>3. \A j \in DOMAIN tx[t].rows : jobs'[j] = jobs[j]
      BY <1>6, <3>2
    <3>4. \A w \in DOMAIN tx[t].wrows : workers'[w] = workers[w]
      BY <1>6, <3>2
    <3>5. \A w \in Worker : workers'[w].current_job_id \in DOMAIN tx[t].rows =>
                             workers'[w].current_job_id = workers[w].current_job_id
      BY <1>6, <1>10, <3>2, NullFacts
    <3>6. TxOK(tx[t], jobs', workers')
      BY <3>1, <3>3, <3>4, <3>5, Undisturbed
    <3> QED
      BY <1>4, <2>2, <3>6
  <2> QED
    BY <2>1, <2>2
<1>12. CurrentJobHeld'
  <2> SUFFICES ASSUME NEW w \in Worker, workers'[w].current_job_id # NULL
               PROVE  /\ workers'[w].registered
                      /\ Owned(jobs'[workers'[w].current_job_id], w)
    BY DEF CurrentJobHeld
  <2>1. CASE w \notin DOMAIN r.wrows
    <3> DEFINE k == workers[w].current_job_id
    <3>1. workers'[w] = workers[w]
      BY <1>6, <2>1
    <3>2. k \in Job /\ workers[w].registered /\ Owned(jobs[k], w)
      BY <3>1 DEF TInv, CurrentJobHeld, TablesOK, WorkerOK
    <3>3. k \notin DOMAIN r.rows
      <4>1. CASE r.op = "claim" /\ ClaimOK(r, jobs)
        BY <3>2, <4>1 DEF ClaimOK, Owned
      <4>2. CASE r.op \in {"complete", "fail"} /\ ReportOK(r, jobs, workers)
        BY <1>1, <2>1, <3>2, <4>2 DEF ReportOK, Owned
      <4>3. CASE r.op = "reap" /\ SweepOK(r, jobs, workers)
        <5>1. r.todo = <<>> /\ Len(r.todo) = 0
          BY <1>1, <4>3 DEF SweepOK
        <5>2. ~\E i \in 1..Len(r.todo) : r.todo[i] = k
          BY <5>1
        <5> QED
          BY <2>1, <4>3, <5>2 DEF SweepOK
      <4> QED
        BY SMTT(20), <1>3, <4>1, <4>2, <4>3
    <3> QED
      BY <1>6, <3>1, <3>2, <3>3
  <2>2. CASE w \in DOMAIN r.wrows
    <3>1. workers'[w] = r.wrows[w] /\ r.wrows[w].current_job_id # NULL
      BY <1>6, <2>2
    <3>2. r.op = "claim" /\ ClaimOK(r, jobs)
      <4>1. CASE r.op \in {"complete", "fail"} /\ ReportOK(r, jobs, workers)
        BY <1>1, <2>2, <3>1, <4>1 DEF ReportOK
      <4>2. CASE r.op = "reap" /\ SweepOK(r, jobs, workers)
        BY SMTT(20), <2>2, <3>1, <4>2 DEF SweepOK
      <4> QED
        BY SMTT(20), <1>3, <4>1, <4>2
    <3>3. /\ w = r.worker /\ r.wrows[w].registered
          /\ r.wrows[w].current_job_id = r.job
          /\ r.job \in DOMAIN r.rows /\ Owned(r.rows[r.job], r.worker)
      BY <1>1, <2>2, <3>2 DEF ClaimOK
    <3> QED
      BY <1>6, <3>1, <3>3
  <2> QED
    BY <2>1, <2>2
<1> QED
  BY <1>7, <1>9, <1>11, <1>12 DEF TInv

(* Before the first request every row is absent and no transaction runs. *)
LEMMA InitHolds ==
  TInit => TInv
<1> SUFFICES ASSUME TInit
             PROVE  TInv
  OBVIOUS
<1>1. /\ jobs = [j \in Job |-> NoRow] /\ tx = [s \in Session |-> Idle]
      /\ workers = [w \in Worker |-> [registered |-> FALSE, current_job_id |-> NULL]]
  BY DEF TInit
<1>2. TxOK(Idle, jobs, workers) /\ DOMAIN Idle.rows = {} /\ DOMAIN Idle.wrows = {}
  BY IdleOK, BegunOK DEF Early
<1>3. JobOK(NoRow) /\ WorkerOK([registered |-> FALSE, current_job_id |-> NULL])
  BY InsertedOK DEF WorkerOK
<1>4. TablesOK
  BY <1>1, <1>3 DEF TablesOK
<1>5. CurrentJobHeld
  BY <1>1 DEF CurrentJobHeld
<1>6. Exclusive
  BY <1>1, <1>2 DEF Exclusive
<1>7. \A s \in Session : TxOK(tx[s], jobs, workers)
  BY <1>1, <1>2
<1> QED
  BY <1>4, <1>5, <1>6, <1>7 DEF TInv

(* Every step preserves the invariant. *)
LEMMA StepHolds ==
  TInv /\ [TNext]_tvars => TInv'
<1> SUFFICES ASSUME TInv, [TNext]_tvars
             PROVE  TInv'
  OBVIOUS
<1>1. CASE UNCHANGED <<jobs, workers, tx>>
  BY <1>1 DEF TInv, TablesOK, Exclusive, CurrentJobHeld
<1>2. ASSUME NEW j \in Job, NEW max \in MaxAttempts, Create(j, max)
      PROVE  TInv'
  BY <1>2, CreateStep
<1>3. ASSUME NEW s \in Session, BeginSweep(s) \/ BeginFail(s)
      PROVE  TInv'
  BY <1>3, BeginSweepStep, BeginFailStep
<1>4. ASSUME NEW s \in Session, NEW w \in Worker, BeginClaim(s, w) \/ RegisterWorker(s, w)
      PROVE  TInv'
  BY <1>4, BeginClaimStep, RegisterStep
<1>5. ASSUME NEW s \in Session, NEW j \in Job, BeginUpdate(s, "cancel", j, NULL)
      PROVE  TInv'
  BY <1>5, BeginUpdateStep
<1>6. ASSUME NEW s \in Session, NEW j \in Job, NEW w \in Worker,
             FailRead(s, j, w) \/ \E op \in {"complete", "renew"} : BeginUpdate(s, op, j, w)
      PROVE  TInv'
  BY <1>6, FailReadStep, BeginUpdateStep
<1>7. ASSUME NEW s \in Session,
             \/ ClaimJob(s) \/ ClaimWorker(s) \/ ReportJob(s) \/ ReportWorker(s)
             \/ SweepSelect(s) \/ SweepOne(s)
      PROVE  TInv'
  BY <1>7, ClaimJobStep, ClaimWorkerStep, ReportJobStep, ReportWorkerStep,
     SweepSelectStep, SweepOneStep
<1>8. ASSUME NEW s \in Session, RenewLease(s) \/ Cancel(s) \/ Commit(s)
      PROVE  TInv'
  BY <1>8, RenewStep, CancelStep, CommitStep
<1>9. ASSUME NEW s \in Session, Rollback(s)
      PROVE  TInv'
  <2>1. End(s) /\ UNCHANGED <<jobs, workers>>
    BY <1>9 DEF Rollback
  <2> QED
    BY <2>1, EndStep
<1>10. CASE Tick
  BY <1>1, <1>10 DEF Tick
<1>11. CASE UNCHANGED tvars
  BY <1>1, <1>11 DEF tvars
<1> QED
  BY SMTT(20), <1>2, <1>3, <1>4, <1>5, <1>6, <1>7, <1>8, <1>9, <1>10, <1>11 DEF TNext
------------------------------------------------------------------------------
(* No transactions of the store wait for each other in a circle, however   *)
(* many jobs, workers, servers and overlapping sweeps there are.           *)
THEOREM StoreNeverDeadlocks ==
  TSpec => []NoDeadlock
<1>1. TInv => NoDeadlock
  BY NoCircle
<1> QED
  BY <1>1, InitHolds, StepHolds, PTL DEF TSpec

(* Every committed workers.current_job_id names a job that is RUNNING      *)
(* under that worker, whatever transactions overlap.                       *)
THEOREM CommittedCurrentJobIsHeld ==
  TSpec => []CurrentJobHeld
<1>1. TInv => CurrentJobHeld
  BY DEF TInv
<1> QED
  BY <1>1, InitHolds, StepHolds, PTL DEF TSpec
=============================================================================
