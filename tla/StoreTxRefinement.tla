-------------------------- MODULE StoreTxRefinement --------------------------
(***************************************************************************)
(* The transactions of StoreTx, for any number of jobs, workers and        *)
(* connections: what they commit follows the diagram of job states, and    *)
(* no running lease is ended by anybody but its holder.                    *)
(*                                                                         *)
(* The argument adds one fact to the invariant of StoreTxProofs.  The      *)
(* version of a row that a transaction is going to commit is one edge of   *)
(* the diagram away from the row that is committed NOW, because the lock   *)
(* has kept everybody else from that row since the version was computed.   *)
(***************************************************************************)
EXTENDS StoreTxProofs

(* A row of the committed table. *)
RowOK(r) ==
  /\ r.attempts \in Nat /\ r.max_attempts \in Nat
  /\ r.status = "PENDING" => r.attempts < r.max_attempts /\ r.worker_id = NULL
  /\ r.status = "RUNNING" => r.attempts <= r.max_attempts /\ r.lease_until \in Int

Same(r, q) == q.status = r.status /\ q.attempts = r.attempts /\ q.worker_id = r.worker_id

(* What a transaction does to a row it has locked. *)
Edge(r, q) ==
  /\ q.max_attempts = r.max_attempts
  /\ q.status = "RUNNING" => q.lease_until \in Int
  /\ \/ Same(r, q)
     \/ /\ r.status = "PENDING" /\ q.status = "RUNNING"
        /\ q.attempts = r.attempts + 1 /\ q.worker_id \in Worker
     \/ /\ r.status = "RUNNING" /\ q.status = "COMPLETED"
        /\ q.attempts = r.attempts /\ q.worker_id = r.worker_id
     \/ /\ r.status = "RUNNING" /\ q.status = "PENDING"
        /\ r.attempts < r.max_attempts
        /\ q.attempts = r.attempts /\ q.worker_id = NULL
     \/ /\ r.status = "RUNNING" /\ q.status = "FAILED"
        /\ r.attempts = r.max_attempts
        /\ q.attempts = r.attempts /\ q.worker_id = r.worker_id

(* The clocks, the committed rows, the versions to be committed, and the   *)
(* leases a sweep has found expired.                                       *)
Clocks == now \in Nat /\ \A s \in Session : tx[s].start \in Nat /\ tx[s].start <= now

RowsOK == \A j \in Job : RowOK(jobs[j])

Versions == \A s \in Session : \A j \in DOMAIN tx[s].rows : Edge(jobs[j], tx[s].rows[j])

Overdue ==
  \A s \in Session : tx[s].op = "reap" =>
    \A j \in DOMAIN tx[s].rows : jobs[j].lease_until < now

RInv == TInv /\ Clocks /\ RowsOK /\ Versions /\ Overdue

(* What one step does to the committed row of j. *)
Moved(j) ==
  \/ Edge(jobs[j], jobs'[j])
  \/ /\ jobs[j].status = "PENDING" /\ jobs'[j].status = "CANCELED"
     /\ jobs'[j].attempts = jobs[j].attempts /\ jobs'[j].worker_id = NULL
     /\ jobs'[j].max_attempts = jobs[j].max_attempts
  \/ /\ jobs[j].status = "ABSENT" /\ jobs'[j].status = "PENDING"
     /\ jobs'[j].attempts = 0 /\ jobs'[j].worker_id = NULL
     /\ jobs'[j].max_attempts >= 1

Honored(j) ==
  jobs[j].status = "RUNNING" /\ jobs[j].lease_until >= now =>
    Owned(jobs'[j], jobs[j].worker_id) \/ ReportsCommitted(j) # {}

Goal == RInv' /\ \A j \in Job : Moved(j) /\ Honored(j)
------------------------------------------------------------------------------
(* What the statements of store.go do to a row, as edges. *)

(* An edge leads from a good row to a good row. *)
LEMMA EdgeKeeps ==
  ASSUME NEW r, NEW q, RowOK(r), Edge(r, q)
  PROVE  RowOK(q)
BY DEF RowOK, Edge, Same

(* A claim consumes an attempt of a PENDING row. *)
LEMMA ClaimedEdge ==
  ASSUME NEW r, JobOK(r), RowOK(r), r.status = "PENDING", NEW w \in Worker,
         NEW t \in Int
  PROVE  Edge(r, Claimed(r, w, t))
BY DEF JobOK, RowOK, Edge, Claimed

(* A report of the holder ends the attempt. *)
LEMMA ReportedEdge ==
  ASSUME NEW r, JobOK(r), RowOK(r), NEW w, Owned(r, w), NEW t
  PROVE  Edge(r, Completed(r, w)) /\ Edge(r, FailedBy(r, w, t))
<1>1. r.status = "RUNNING" /\ r.worker_id = w
  BY DEF Owned
<1>2. Edge(r, Completed(r, w))
  BY <1>1 DEF JobOK, RowOK, Edge, Completed
<1>3. Edge(r, FailedBy(r, w, t))
  BY <1>1 DEF JobOK, RowOK, Edge, FailedBy, Exhausted
<1> QED
  BY <1>2, <1>3

(* So does the sweep. *)
LEMMA ReapedEdge ==
  ASSUME NEW r, JobOK(r), RowOK(r), r.status = "RUNNING", NEW t
  PROVE  Edge(r, Reaped(r, t))
BY DEF JobOK, RowOK, Edge, Reaped, Exhausted

(* A renewal changes nothing but the lease. *)
LEMMA RenewedEdge ==
  ASSUME NEW r, JobOK(r), RowOK(r), NEW t \in Int
  PROVE  Edge(r, Renewed(r, t))
BY DEF JobOK, RowOK, Edge, Same, Renewed

(* A row that stays as it is. *)
LEMMA SameEdge ==
  ASSUME NEW r, RowOK(r)
  PROVE  Edge(r, r)
BY DEF RowOK, Edge, Same
------------------------------------------------------------------------------
(* Steps that commit nothing. *)
LEMMA NothingCommitted ==
  ASSUME RInv, jobs' = jobs
  PROVE  \A j \in Job : Moved(j) /\ Honored(j)
<1> SUFFICES ASSUME NEW j \in Job
             PROVE  Moved(j) /\ Honored(j)
  OBVIOUS
<1>1. Edge(jobs[j], jobs'[j])
  BY SameEdge DEF RInv, RowsOK
<1>2. Honored(j)
  BY DEF Honored, Owned
<1> QED
  BY <1>1, <1>2 DEF Moved

(* A step of one transaction that touches no table. *)
LEMMA OneTransaction ==
  ASSUME RInv, TInv', NEW s \in Session, jobs' = jobs, now' = now,
         \A t \in Session \ {s} : tx'[t] = tx[t],
         tx'[s].start \in Nat, tx'[s].start <= now,
         \A j \in DOMAIN tx'[s].rows : Edge(jobs[j], tx'[s].rows[j]),
         tx'[s].op = "reap" =>
           \A j \in DOMAIN tx'[s].rows : jobs[j].lease_until < now
  PROVE  Goal
<1>1. Clocks'
  BY DEF RInv, Clocks
<1>2. RowsOK'
  BY DEF RInv, RowsOK
<1>3. Versions'
  BY DEF RInv, Versions
<1>4. Overdue'
  BY DEF RInv, Overdue
<1> QED
  BY <1>1, <1>2, <1>3, <1>4, NothingCommitted DEF RInv, Goal

(* A transaction begins, ends without a commit, or locks only a worker. *)
LEMMA RowsKept ==
  ASSUME RInv, TInv', NEW s \in Session, jobs' = jobs, now' = now,
         \A t \in Session \ {s} : tx'[t] = tx[t],
         \/ /\ DOMAIN tx'[s].rows = {}
            /\ tx'[s].start \in {0, now}
         \/ /\ tx'[s].rows = tx[s].rows /\ tx'[s].op = tx[s].op
            /\ tx'[s].start = tx[s].start
  PROVE  Goal
<1>1. now \in Nat /\ tx[s].start \in Nat /\ tx[s].start <= now
  BY DEF RInv, Clocks
<1>2. tx'[s].start \in Nat /\ tx'[s].start <= now
  BY <1>1
<1>3. \A j \in DOMAIN tx'[s].rows : Edge(jobs[j], tx'[s].rows[j])
  BY DEF RInv, Versions
<1>4. tx'[s].op = "reap" => \A j \in DOMAIN tx'[s].rows : jobs[j].lease_until < now
  BY DEF RInv, Overdue
<1> QED
  BY <1>2, <1>3, <1>4, OneTransaction

(* The end of a transaction that wrote nothing. *)
LEMMA EndKeeps ==
  ASSUME RInv, TInv', NEW s \in Session, End(s), jobs' = jobs, now' = now
  PROVE  Goal
<1>1. tx'[s] = Idle /\ \A t \in Session \ {s} : tx'[t] = tx[t]
  BY DEF End, RInv, TInv, TablesOK
<1>2. DOMAIN Idle.rows = {} /\ Idle.start \in {0, now}
  BY EmptyDomain DEF Idle
<1> QED
  BY <1>1, <1>2, RowsKept
------------------------------------------------------------------------------
(* The begin of a transaction. *)
LEMMA BeginGoal ==
  ASSUME RInv, TInv', NEW s \in Session, NEW op, NEW j, NEW w,
         jobs' = jobs, now' = now,
         \/ tx' = [tx EXCEPT ![s] = Begun(op, j, w)]
         \/ \E n : tx' = [tx EXCEPT ![s] = [Begun(op, j, w) EXCEPT
                                              !.step = "begin", !.attempts = n]]
  PROVE  Goal
<1>1. /\ \A t \in Session \ {s} : tx'[t] = tx[t]
      /\ \/ tx'[s] = Begun(op, j, w)
         \/ \E n : tx'[s] = [Begun(op, j, w) EXCEPT !.step = "begin", !.attempts = n]
  BY Zenon DEF RInv, TInv, TablesOK
<1>2. Begun(op, j, w).rows = Empty /\ Begun(op, j, w).start \in {0, now}
  BY Zenon DEF Begun, Idle
<1>3. \A n : LET b == [Begun(op, j, w) EXCEPT !.step = "begin", !.attempts = n]
             IN  b.rows = Empty /\ b.start \in {0, now}
  BY Zenon DEF Begun, Idle
<1>4. DOMAIN tx'[s].rows = {} /\ tx'[s].start \in {0, now}
  <2>1. CASE tx'[s] = Begun(op, j, w)
    BY <1>2, <2>1, EmptyDomain, Zenon
  <2>2. ASSUME NEW n,
               tx'[s] = [Begun(op, j, w) EXCEPT !.step = "begin", !.attempts = n]
        PROVE  DOMAIN tx'[s].rows = {} /\ tx'[s].start \in {0, now}
    BY <1>3, <2>2, EmptyDomain, Zenon
  <2> QED
    BY <1>1, <2>1, <2>2, Zenon
<1> QED
  BY <1>1, <1>4, RowsKept, Zenon

(* The transaction of Fail begins after its read. *)
LEMMA BeginFailGoal ==
  ASSUME RInv, TInv', NEW s \in Session, BeginFail(s)
  PROVE  Goal
<1>1. /\ tx[s].step = "begin" /\ jobs' = jobs /\ now' = now
      /\ tx' = [tx EXCEPT ![s].step = "job", ![s].start = now]
  BY DEF BeginFail, At
<1>2. TxShape(tx[s]) /\ DOMAIN tx[s].rows = {}
  BY <1>1 DEF RInv, TInv, TxOK, Early
<1>3. /\ \A t \in Session \ {s} : tx'[t] = tx[t]
      /\ tx'[s] = [tx[s] EXCEPT !.step = "job", !.start = now]
  BY <1>1 DEF RInv, TInv, TablesOK
<1>4. tx'[s].rows = tx[s].rows /\ tx'[s].start = now
  BY <1>2, <1>3 DEF TxShape
<1> QED
  BY <1>1, <1>2, <1>3, <1>4, RowsKept, Zenon
------------------------------------------------------------------------------
(* The statements that lock a job. *)

(* Claim. *)
LEMMA ClaimJobGoal ==
  ASSUME RInv, TInv', NEW s \in Session, ClaimJob(s)
  PROVE  Goal
<1>1. tx[s].op = "claim" /\ tx[s].step = "job" /\ jobs' = jobs /\ now' = now
  BY Zenon DEF ClaimJob, At
<1>2. /\ TxShape(tx[s]) /\ tx[s].worker \in Worker /\ DOMAIN tx[s].rows = {}
      /\ tx[s].start \in Nat /\ now \in Nat
  BY <1>1 DEF RInv, TInv, TxOK, Early, Clocks
<1>3. CASE End(s)
  BY <1>1, <1>3, EndKeeps
<1>4. ASSUME NEW j \in Candidates(s),
             tx' = [tx EXCEPT ![s].step = "worker", ![s].job = j, ![s].start = 0,
                      ![s].rows = Set(@, j, Claimed(jobs[j], tx[s].worker,
                                                    tx[s].start + Lease))]
      PROVE  Goal
  <2> DEFINE c == Claimed(jobs[j], tx[s].worker, tx[s].start + Lease)
             f == Set(tx[s].rows, j, c)
             r == [tx[s] EXCEPT !.step = "worker", !.job = j, !.start = 0,
                                !.rows = f]
  <2>1. /\ j \in Job /\ jobs[j].status = "PENDING"
        /\ JobOK(jobs[j]) /\ RowOK(jobs[j])
    BY DEF Candidates, Claimable, RInv, TInv, TablesOK, RowsOK
  <2>2. Edge(jobs[j], c)
    <3>1. tx[s].start + Lease \in Int
      BY <1>2, TxAssumption
    <3> QED
      BY <1>2, <2>1, <3>1, ClaimedEdge
  <2>3. DOMAIN f = {j} /\ f[j] = c
    <3> HIDE DEF c
    <3> QED
      BY <1>2 DEF Set
  <2>4. tx'[s] = r /\ \A t \in Session \ {s} : tx'[t] = tx[t]
    BY <1>2, <1>4, Zenon DEF RInv, TInv, TablesOK
  <2> HIDE DEF f, c
  <2>5. r.op = "claim" /\ r.rows = f /\ r.start = 0
    BY <1>1, <1>2 DEF TxShape
  <2> HIDE DEF r
  <2>6. /\ tx'[s].start \in Nat /\ tx'[s].start <= now /\ tx'[s].op # "reap"
        /\ \A k \in DOMAIN tx'[s].rows : Edge(jobs[k], tx'[s].rows[k])
    BY <1>2, <2>2, <2>3, <2>4, <2>5
  <2> QED
    BY <1>1, <2>4, <2>6, OneTransaction
<1> QED
  BY <1>3, <1>4, Zenon DEF ClaimJob

(* Complete and Fail. *)
LEMMA ReportJobGoal ==
  ASSUME RInv, TInv', NEW s \in Session, ReportJob(s)
  PROVE  Goal
<1> DEFINE j == tx[s].job
           c == Reported(s, jobs[j])
           f == Set(tx[s].rows, j, c)
           r == [tx[s] EXCEPT !.step = "worker", !.start = 0, !.attempts = 0,
                              !.rows = f]
<1>1. /\ tx[s].op \in {"complete", "fail"} /\ tx[s].step = "job"
      /\ jobs' = jobs /\ now' = now
  BY DEF ReportJob, At
<1>2. /\ TxShape(tx[s]) /\ j \in Job /\ DOMAIN tx[s].rows = {} /\ now \in Nat
      /\ JobOK(jobs[j]) /\ RowOK(jobs[j])
  BY <1>1, Zenon DEF RInv, TInv, TablesOK, RowsOK, TxOK, Early, Clocks
<1>3. CASE End(s)
  BY <1>1, <1>3, EndKeeps
<1>4. ASSUME Owned(jobs[j], tx[s].worker),
             tx' = [tx EXCEPT ![s].step = "worker", ![s].start = 0,
                              ![s].attempts = 0,
                              ![s].rows = Set(@, j, Reported(s, jobs[j]))]
      PROVE  Goal
  <2>1. Edge(jobs[j], c)
    BY <1>2, <1>4, ReportedEdge DEF Reported
  <2>2. DOMAIN f = {j} /\ f[j] = c
    <3> HIDE DEF c
    <3> QED
      BY <1>2 DEF Set
  <2>3. tx'[s] = r /\ \A t \in Session \ {s} : tx'[t] = tx[t]
    BY <1>2, <1>4, Zenon DEF RInv, TInv, TablesOK
  <2> HIDE DEF f, c
  <2>4. r.op = tx[s].op /\ r.rows = f /\ r.start = 0
    BY <1>2 DEF TxShape
  <2> HIDE DEF r, j
  <2>5. /\ tx'[s].start \in Nat /\ tx'[s].start <= now /\ tx'[s].op # "reap"
        /\ \A k \in DOMAIN tx'[s].rows : Edge(jobs[k], tx'[s].rows[k])
    BY <1>1, <1>2, <2>1, <2>2, <2>3, <2>4
  <2> QED
    BY <1>1, <2>3, <2>5, OneTransaction
<1> QED
  BY <1>3, <1>4 DEF ReportJob

(* The sweep's SELECT: what it finds expired at the instant it began is    *)
(* expired now.                                                            *)
LEMMA SweepSelectGoal ==
  ASSUME RInv, TInv', NEW s \in Session, SweepSelect(s)
  PROVE  Goal
<1>1. tx[s].op = "reap" /\ tx[s].step = "job" /\ jobs' = jobs /\ now' = now
  BY Zenon DEF SweepSelect, At
<1>2. /\ TxShape(tx[s]) /\ now \in Nat
      /\ tx[s].start \in Nat /\ tx[s].start <= now
  BY DEF RInv, TInv, TxOK, Clocks
<1>3. CASE End(s)
  BY <1>1, <1>3, EndKeeps
<1>4. ASSUME NEW S \in SUBSET ExpiredJobs(s), NEW q,
             tx' = [tx EXCEPT ![s].step = "worker", ![s].todo = q,
                              ![s].rows = [j \in S |-> jobs[j]]]
      PROVE  Goal
  <2> DEFINE f == [j \in S |-> jobs[j]]
             r == [tx[s] EXCEPT !.step = "worker", !.todo = q, !.rows = f]
  <2>1. /\ S \subseteq Job
        /\ \A j \in S : jobs[j].status = "RUNNING" /\ jobs[j].lease_until < tx[s].start
    BY DEF ExpiredJobs, Expired
  <2>2. \A j \in S : RowOK(jobs[j]) /\ jobs[j].lease_until \in Int
    BY <2>1 DEF RInv, RowsOK, RowOK
  <2>3. \A j \in S : jobs[j].lease_until < now
    BY <1>2, <2>1, <2>2
  <2>4. \A j \in S : Edge(jobs[j], jobs[j])
    BY <2>2, SameEdge
  <2>5. tx'[s] = r /\ \A t \in Session \ {s} : tx'[t] = tx[t]
    BY <1>2, <1>4, Zenon DEF RInv, TInv, TablesOK
  <2>6. DOMAIN f = S /\ \A j \in S : f[j] = jobs[j]
    OBVIOUS
  <2> HIDE DEF f
  <2>7. r.rows = f /\ r.start = tx[s].start
    BY <1>2 DEF TxShape
  <2> HIDE DEF r
  <2>8. /\ \A j \in DOMAIN tx'[s].rows : Edge(jobs[j], tx'[s].rows[j])
        /\ \A j \in DOMAIN tx'[s].rows : jobs[j].lease_until < now
        /\ tx'[s].start = tx[s].start
    BY <2>3, <2>4, <2>5, <2>6, <2>7
  <2> QED
    BY <1>1, <1>2, <2>5, <2>8, OneTransaction
<1> QED
  BY <1>3, <1>4, Zenon DEF SweepSelect

(* The sweep's UPDATE of one of its rows. *)
LEMMA SweepOneGoal ==
  ASSUME RInv, TInv', NEW s \in Session, SweepOne(s)
  PROVE  Goal
<1> DEFINE q == tx[s].todo
           j == Head(q)
           w == jobs[j].worker_id
           c == Reaped(jobs[j], tx[s].start + Delay[jobs[j].attempts])
           f == Set(tx[s].rows, j, c)
           p == [tx[s] EXCEPT !.todo = Tail(@),
                              !.step = IF Len(tx[s].todo) = 1 THEN "commit" ELSE @,
                              !.rows = f]
<1>1. tx[s].op = "reap" /\ tx[s].step = "worker" /\ jobs' = jobs /\ now' = now
  BY DEF SweepOne, At
<1>2. /\ TxShape(tx[s]) /\ SweepOK(tx[s], jobs, workers) /\ DOMAIN tx[s].rows \subseteq Job
      /\ tx[s].start \in Nat /\ tx[s].start <= now
  BY <1>1 DEF RInv, TInv, TxOK, Early, Clocks
<1>3. j \in DOMAIN tx[s].rows
  <2> DEFINE D == DOMAIN tx[s].rows
  <2>1. q \in Seq(D) /\ q # <<>>
    BY <1>1, <1>2 DEF SweepOK
  <2> HIDE DEF D, q
  <2>2. Head(q) \in D
    BY <2>1, TailFacts
  <2> QED
    BY <2>2 DEF D
<1>4. jobs[j].status = "RUNNING" /\ JobOK(jobs[j]) /\ RowOK(jobs[j])
  BY <1>2, <1>3, Zenon DEF SweepOK, RInv, TInv, TablesOK, RowsOK
<1>5. Edge(jobs[j], c)
  BY <1>4, ReapedEdge
<1>6. /\ \A k \in DOMAIN tx[s].rows : Edge(jobs[k], tx[s].rows[k])
      /\ \A k \in DOMAIN tx[s].rows : jobs[k].lease_until < now
  BY <1>1 DEF RInv, Versions, Overdue
<1> HIDE DEF c, j
<1>7. /\ DOMAIN f = DOMAIN tx[s].rows /\ f[j] = c
      /\ \A x \in DOMAIN tx[s].rows : x # j => f[x] = tx[s].rows[x]
  BY <1>3 DEF Set
<1> HIDE DEF f
<1>8. p.rows = f /\ p.start = tx[s].start /\ TxShape(p)
  <2>1. p.rows = f /\ p.start = tx[s].start
    BY <1>2 DEF TxShape
  <2>2. TxShape(p)
    BY <1>2, Zenon DEF TxShape
  <2> QED
    BY <2>1, <2>2
<1>9. /\ \/ tx' = [tx EXCEPT ![s] = p]
         \/ \E g : tx' = [tx EXCEPT ![s] = [p EXCEPT !.wrows = g]]
  <2> HIDE DEF w
  <2>1. CASE tx' = [tx EXCEPT ![s] = p]
    BY <2>1
  <2>2. CASE tx' = [tx EXCEPT ![s] = [p EXCEPT !.wrows =
                      Set(@, w, [Seen(s, w) EXCEPT !.current_job_id = NULL])]]
    <3> DEFINE g == Set(p.wrows, w, [Seen(s, w) EXCEPT !.current_job_id = NULL])
    <3> HIDE DEF p
    <3>1. [p EXCEPT !.wrows = Set(@, w, [Seen(s, w) EXCEPT !.current_job_id = NULL])]
            = [p EXCEPT !.wrows = g]
      OBVIOUS
    <3> QED
      BY <2>2, <3>1, Zenon
  <2> QED
    BY <2>1, <2>2, Zenon DEF SweepOne, w, j, f, c
<1> HIDE DEF p
<1>10. /\ tx'[s].rows = f /\ tx'[s].start = tx[s].start
       /\ \A t \in Session \ {s} : tx'[t] = tx[t]
  <2>1. CASE tx' = [tx EXCEPT ![s] = p]
    BY <1>8, <2>1 DEF RInv, TInv, TablesOK
  <2>2. ASSUME NEW g, tx' = [tx EXCEPT ![s] = [p EXCEPT !.wrows = g]]
        PROVE  /\ tx'[s].rows = f /\ tx'[s].start = tx[s].start
               /\ \A t \in Session \ {s} : tx'[t] = tx[t]
    <3>1. [p EXCEPT !.wrows = g].rows = f /\ [p EXCEPT !.wrows = g].start = tx[s].start
      BY <1>8 DEF TxShape
    <3> QED
      BY <2>2, <3>1, Zenon DEF RInv, TInv, TablesOK
  <2> QED
    BY <1>9, <2>1, <2>2
<1>11. /\ \A k \in DOMAIN tx'[s].rows : Edge(jobs[k], tx'[s].rows[k])
       /\ \A k \in DOMAIN tx'[s].rows : jobs[k].lease_until < now
  BY <1>5, <1>6, <1>7, <1>10
<1> QED
  BY <1>1, <1>2, <1>10, <1>11, OneTransaction

(* The second statements of Claim, Complete and Fail touch no job. *)
LEMMA WorkerGoal ==
  ASSUME RInv, TInv', NEW s \in Session, ClaimWorker(s) \/ ReportWorker(s)
  PROVE  Goal
<1>1. jobs' = jobs /\ now' = now
  BY DEF ClaimWorker, ReportWorker
<1>2. TxShape(tx[s])
  BY DEF RInv, TInv, TxOK
<1>3. CASE End(s)
  BY <1>1, <1>3, EndKeeps
<1>4. CASE tx' = [tx EXCEPT ![s].step = "commit"]
  <2>1. /\ tx'[s] = [tx[s] EXCEPT !.step = "commit"]
        /\ \A t \in Session \ {s} : tx'[t] = tx[t]
    BY <1>4 DEF RInv, TInv, TablesOK
  <2>2. tx'[s].rows = tx[s].rows /\ tx'[s].op = tx[s].op /\ tx'[s].start = tx[s].start
    BY <1>2, <2>1 DEF TxShape
  <2> QED
    BY <1>1, <2>1, <2>2, RowsKept, Zenon
<1>5. ASSUME NEW w, NEW v,
             tx' = [tx EXCEPT ![s].step = "commit", ![s].wrows = Set(@, w, v)]
      PROVE  Goal
  <2> DEFINE g == Set(tx[s].wrows, w, v)
  <2>1. /\ tx'[s] = [tx[s] EXCEPT !.step = "commit", !.wrows = g]
        /\ \A t \in Session \ {s} : tx'[t] = tx[t]
    BY <1>2, <1>5 DEF RInv, TInv, TablesOK, TxShape
  <2> HIDE DEF g
  <2>2. tx'[s].rows = tx[s].rows /\ tx'[s].op = tx[s].op /\ tx'[s].start = tx[s].start
    BY <1>2, <2>1 DEF TxShape
  <2> QED
    BY <1>1, <2>1, <2>2, RowsKept, Zenon
<1>6. CASE ClaimWorker(s)
  BY <1>3, <1>5, <1>6 DEF ClaimWorker
<1>7. CASE ReportWorker(s)
  BY <1>4, <1>5, <1>7 DEF ReportWorker
<1> QED
  BY <1>6, <1>7
------------------------------------------------------------------------------
(* The steps that write the jobs table. *)

(* A step that commits one version of one job that nobody else has locked. *)
LEMMA OneJobGoal ==
  ASSUME RInv, TInv', NEW j \in Job, NEW row, RowOK(row),
         jobs' = [jobs EXCEPT ![j] = row], now' = now,
         \A t \in Session : \/ tx'[t] = Idle
                            \/ tx'[t] = tx[t] /\ j \notin DOMAIN tx[t].rows,
         Moved(j), Honored(j)
  PROVE  Goal
<1>1. jobs'[j] = row /\ \A k \in Job \ {j} : jobs'[k] = jobs[k]
  BY DEF RInv, TInv, TablesOK
<1>2. DOMAIN Idle.rows = {} /\ Idle.start = 0
  BY EmptyDomain DEF Idle
<1>3. \A t \in Session : DOMAIN tx[t].rows \subseteq Job
  BY DEF RInv, TInv, TxOK
<1>4. Clocks'
  BY <1>2 DEF RInv, Clocks
<1>5. RowsOK'
  BY <1>1 DEF RInv, RowsOK
<1>6. Versions'
  BY <1>1, <1>2, <1>3 DEF RInv, Versions
<1>7. Overdue'
  BY <1>1, <1>2, <1>3 DEF RInv, Overdue
<1>8. ASSUME NEW k \in Job \ {j}
      PROVE  Moved(k) /\ Honored(k)
  <2>1. Edge(jobs[k], jobs'[k])
    BY <1>1, SameEdge DEF RInv, RowsOK
  <2>2. Honored(k)
    BY <1>1 DEF Honored, Owned
  <2> QED
    BY <2>1, <2>2 DEF Moved
<1> QED
  BY <1>4, <1>5, <1>6, <1>7, <1>8 DEF RInv, Goal

(* Create. *)
LEMMA CreateGoal ==
  ASSUME RInv, TInv', NEW j \in Job, NEW max \in MaxAttempts, Create(j, max)
  PROVE  Goal
<1> DEFINE row == Inserted(max, now)
<1>1. /\ jobs[j].status = "ABSENT" /\ jobs' = [jobs EXCEPT ![j] = row]
      /\ now' = now /\ tx' = tx
  BY DEF Create, Exists
<1>2. max \in Nat /\ max >= 1
  BY TxAssumption DEF AttemptLimit
<1>3. RowOK(row) /\ row.status = "PENDING" /\ row.attempts = 0
      /\ row.worker_id = NULL /\ row.max_attempts = max
  BY <1>2 DEF RowOK, Inserted
<1>4. ASSUME NEW t \in Session
      PROVE  j \notin DOMAIN tx[t].rows
  <2>1. TxOK(tx[t], jobs, workers)
    BY DEF RInv, TInv
  <2>2. CASE tx[t].step \in Early
    BY <2>1, <2>2, SMTT(20) DEF TxOK
  <2>3. CASE tx[t].step \notin Early
    BY <1>1, <2>1, <2>3 DEF TxOK, ClaimOK, ReportOK, SweepOK, Owned
  <2> QED
    BY <2>2, <2>3
<1> HIDE DEF row
<1>5. jobs'[j] = row
  BY <1>1 DEF RInv, TInv, TablesOK
<1>6. Moved(j) /\ Honored(j)
  BY <1>1, <1>2, <1>3, <1>5 DEF Moved, Honored
<1> QED
  BY <1>1, <1>3, <1>4, <1>6, OneJobGoal, Zenon

(* RenewLease. *)
LEMMA RenewGoal ==
  ASSUME RInv, TInv', NEW s \in Session, RenewLease(s)
  PROVE  Goal
<1> DEFINE j == tx[s].job
           row == Renewed(jobs[j], tx[s].start + Lease)
<1>1. tx[s].op = "renew" /\ End(s) /\ now' = now
  BY DEF RenewLease, At
<1>2. j \in Job /\ JobOK(jobs[j]) /\ RowOK(jobs[j]) /\ tx[s].start + Lease \in Int
  <2>1. j \in Job
    BY <1>1 DEF RInv, TInv, TxOK
  <2>2. tx[s].start + Lease \in Int
    BY TxAssumption DEF RInv, Clocks
  <2> QED
    BY <2>1, <2>2 DEF RInv, TInv, TablesOK, RowsOK
<1>3. CASE UNCHANGED jobs
  BY <1>1, <1>3, EndKeeps
<1>4. CASE ~JobLocked(s, j) /\ jobs' = [jobs EXCEPT ![j] = row]
  <2>1. Edge(jobs[j], row) /\ RowOK(row)
    BY <1>2, RenewedEdge, EdgeKeeps
  <2>2. row.status = jobs[j].status /\ row.worker_id = jobs[j].worker_id
    BY <1>2 DEF JobOK, Renewed
  <2>3. tx'[s] = Idle /\ \A t \in Session \ {s} : tx'[t] = tx[t]
    BY <1>1 DEF End, RInv, TInv, TablesOK
  <2>4. \A t \in Session : \/ tx'[t] = Idle
                           \/ tx'[t] = tx[t] /\ j \notin DOMAIN tx[t].rows
    BY <1>4, <2>3 DEF JobLocked
  <2> HIDE DEF row, j
  <2>5. jobs'[j] = row
    BY <1>2, <1>4 DEF RInv, TInv, TablesOK
  <2>6. Moved(j) /\ Honored(j)
    BY <2>1, <2>2, <2>5 DEF Moved, Honored, Owned
  <2> QED
    BY <1>1, <1>2, <1>4, <2>1, <2>4, <2>6, OneJobGoal, Zenon
<1> QED
  BY <1>3, <1>4 DEF RenewLease

(* Cancel. *)
LEMMA CancelGoal ==
  ASSUME RInv, TInv', NEW s \in Session, Cancel(s)
  PROVE  Goal
<1> DEFINE j == tx[s].job
           row == Canceled(jobs[j])
<1>1. tx[s].op = "cancel" /\ End(s) /\ now' = now
  BY DEF Cancel, At
<1>2. j \in Job /\ JobOK(jobs[j]) /\ RowOK(jobs[j])
  <2>1. j \in Job
    BY <1>1 DEF RInv, TInv, TxOK
  <2> QED
    BY <2>1, SMTT(20) DEF RInv, TInv, TablesOK, RowsOK
<1>3. CASE UNCHANGED jobs
  BY <1>1, <1>3, EndKeeps
<1>4. CASE /\ jobs[j].status = "PENDING" /\ ~JobLocked(s, j)
           /\ jobs' = [jobs EXCEPT ![j] = row]
  <2>1. /\ row.status = "CANCELED" /\ row.attempts = jobs[j].attempts
        /\ row.worker_id = jobs[j].worker_id
        /\ row.max_attempts = jobs[j].max_attempts
    BY <1>2 DEF JobOK, Canceled
  <2>2. tx'[s] = Idle /\ \A t \in Session \ {s} : tx'[t] = tx[t]
    BY <1>1 DEF End, RInv, TInv, TablesOK
  <2>3. \A t \in Session : \/ tx'[t] = Idle
                           \/ tx'[t] = tx[t] /\ j \notin DOMAIN tx[t].rows
    BY <1>4, <2>2 DEF JobLocked
  <2> HIDE DEF row, j
  <2>4. jobs'[j] = row
    BY <1>2, <1>4 DEF RInv, TInv, TablesOK
  <2>5. RowOK(row)
    BY <1>2, <2>1 DEF RowOK
  <2>6. Moved(j) /\ Honored(j)
    BY <1>2, <1>4, <2>1, <2>4 DEF RowOK, Moved, Honored
  <2> QED
    BY <1>1, <1>2, <1>4, <2>3, <2>5, <2>6, OneJobGoal, Zenon
<1> QED
  BY <1>3, <1>4 DEF Cancel

(* The commit of a claim, a report or a sweep.  The rows other             *)
(* transactions have locked are not among those it writes.                 *)
LEMMA CommitGoal ==
  ASSUME RInv, TInv', NEW s \in Session, Commit(s)
  PROVE  Goal
<1> DEFINE r == tx[s]
<1>1. /\ r.step = "commit" /\ End(s) /\ now' = now
      /\ jobs' = [j \in Job |-> IF j \in DOMAIN r.rows THEN r.rows[j] ELSE jobs[j]]
  BY SMTT(20) DEF Commit
<1>2. /\ TxOK(r, jobs, workers) /\ r.step \notin Early
      /\ r.op \in {"claim", "complete", "fail", "reap"}
      /\ \A t \in Session : DOMAIN tx[t].rows \subseteq Job
  BY <1>1 DEF RInv, TInv, TxOK, Early
<1>3. tx'[s] = Idle /\ \A t \in Session \ {s} : tx'[t] = tx[t]
  BY <1>1 DEF End, RInv, TInv, TablesOK
<1>4. /\ \A j \in DOMAIN r.rows : jobs'[j] = r.rows[j]
      /\ \A j \in Job \ DOMAIN r.rows : jobs'[j] = jobs[j]
  BY <1>1, <1>2
<1>5. \A t \in Session \ {s} : \A j \in DOMAIN tx[t].rows : jobs'[j] = jobs[j]
  BY <1>2, <1>4 DEF RInv, TInv, Exclusive
<1>6. DOMAIN Idle.rows = {} /\ Idle.start = 0 /\ Idle.op = "none"
  BY EmptyDomain DEF Idle
<1>7. \A j \in Job : Edge(jobs[j], jobs'[j])
  BY <1>4, SameEdge DEF RInv, Versions, RowsOK
<1>8. Clocks'
  BY <1>1, <1>3, <1>6 DEF RInv, Clocks
<1>9. RowsOK'
  BY <1>7, EdgeKeeps DEF RInv, RowsOK
<1>10. Versions'
  BY <1>3, <1>5, <1>6 DEF RInv, Versions
<1>11. Overdue'
  BY <1>1, <1>3, <1>5, <1>6 DEF RInv, Overdue
<1>12. ASSUME NEW j \in Job, jobs[j].status = "RUNNING", jobs[j].lease_until >= now
       PROVE  Owned(jobs'[j], jobs[j].worker_id) \/ ReportsCommitted(j) # {}
  <2>1. CASE j \notin DOMAIN r.rows
    BY <1>4, <1>12, <2>1, SMTT(20) DEF Owned
  <2>2. CASE j \in DOMAIN r.rows /\ r.op = "claim"
    BY <1>2, <1>12, <2>2 DEF TxOK, ClaimOK
  <2>3. CASE j \in DOMAIN r.rows /\ r.op = "reap"
    <3>1. jobs[j].lease_until < now /\ jobs[j].lease_until \in Int /\ now \in Int
      BY <1>12, <2>3, SMTT(20) DEF RInv, Overdue, RowsOK, RowOK, Clocks
    <3> QED
      BY <1>12, <3>1
  <2>4. CASE j \in DOMAIN r.rows /\ r.op \in {"complete", "fail"}
    <3>1. ReportOK(r, jobs, workers)
      BY <1>2, <2>4, SMTT(20) DEF TxOK
    <3>2. r.job = j /\ r.worker = jobs[j].worker_id
      BY <2>4, <3>1 DEF ReportOK, Owned
    <3>3. s \in ReportsCommitted(j)
      BY <1>1, <1>3, <1>6, <2>4, <3>2, SMTT(20) DEF ReportsCommitted
    <3> QED
      BY <3>3, SMTT(20)
  <2> QED
    BY <1>2, <2>1, <2>2, <2>3, <2>4
<1>13. \A j \in Job : Moved(j) /\ Honored(j)
  BY <1>7, <1>12 DEF Moved, Honored
<1> QED
  BY <1>8, <1>9, <1>10, <1>11, <1>13 DEF RInv, Goal

(* Steps that touch neither a job nor a transaction. *)
LEMMA StillGoal ==
  ASSUME RInv, TInv', jobs' = jobs, tx' = tx, now' = now \/ now' = now + 1
  PROVE  Goal
<1>1. \A j \in Job : RowOK(jobs[j])
  BY DEF RInv, RowsOK
<1>2. now \in Nat /\ now' \in Nat /\ now <= now'
  BY DEF RInv, Clocks
<1>3. Clocks'
  BY <1>2 DEF RInv, Clocks
<1>4. RowsOK'
  BY <1>1 DEF RowsOK
<1>5. Versions'
  BY DEF RInv, Versions
<1>6. Overdue'
  <2> SUFFICES ASSUME NEW s \in Session, tx[s].op = "reap",
                      NEW j \in DOMAIN tx[s].rows
               PROVE  jobs[j].lease_until < now'
    BY DEF Overdue
  <2>1. TxOK(tx[s], jobs, workers)
    BY DEF RInv, TInv
  <2>2. j \in Job /\ jobs[j].status = "RUNNING"
    BY <2>1 DEF TxOK, SweepOK
  <2>3. jobs[j].lease_until \in Int /\ jobs[j].lease_until < now
    BY <1>1, <2>2 DEF RowOK, RInv, Overdue
  <2> QED
    BY <1>2, <2>3
<1> QED
  BY <1>3, <1>4, <1>5, <1>6, NothingCommitted DEF RInv, Goal
------------------------------------------------------------------------------
(* Before the first request. *)
LEMMA InitRInv == TInit => RInv
<1> SUFFICES ASSUME TInit
             PROVE  RInv
  OBVIOUS
<1>1. /\ jobs = [j \in Job |-> NoRow] /\ tx = [s \in Session |-> Idle] /\ now = 0
  BY DEF TInit
<1>2. DOMAIN Idle.rows = {} /\ Idle.start = 0
  BY EmptyDomain DEF Idle
<1>3. RowOK(NoRow)
  BY DEF RowOK, NoRow
<1>4. Clocks /\ Versions /\ Overdue
  BY <1>1, <1>2 DEF Clocks, Versions, Overdue
<1>5. RowsOK
  BY <1>1, <1>3 DEF RowsOK
<1> QED
  BY <1>4, <1>5, InitHolds DEF RInv

(* Every step of the transactions. *)
LEMMA StepGoal == RInv /\ [TNext]_tvars => Goal
<1> SUFFICES ASSUME RInv, [TNext]_tvars
             PROVE  Goal
  OBVIOUS
<1>0. TInv'
  BY StepHolds DEF RInv
<1>1. ASSUME NEW j \in Job, NEW max \in MaxAttempts, Create(j, max)
      PROVE  Goal
  BY <1>0, <1>1, CreateGoal
<1>2. ASSUME NEW s \in Session, BeginSweep(s)
      PROVE  Goal
  BY <1>0, <1>2, BeginGoal, Zenon DEF BeginSweep
<1>3. ASSUME NEW s \in Session, BeginFail(s)
      PROVE  Goal
  BY <1>0, <1>3, BeginFailGoal
<1>4. ASSUME NEW s \in Session, NEW w \in Worker, BeginClaim(s, w)
      PROVE  Goal
  BY <1>0, <1>4, BeginGoal, Zenon DEF BeginClaim
<1>5. ASSUME NEW s \in Session, NEW w \in Worker, RegisterWorker(s, w)
      PROVE  Goal
  BY <1>0, <1>5, StillGoal DEF RegisterWorker
<1>6. ASSUME NEW s \in Session, NEW op, NEW j, NEW w, BeginUpdate(s, op, j, w)
      PROVE  Goal
  BY <1>0, <1>6, BeginGoal, Zenon DEF BeginUpdate
<1>7. ASSUME NEW s \in Session, NEW j \in Job, NEW w \in Worker, FailRead(s, j, w)
      PROVE  Goal
  <2>1. /\ jobs' = jobs /\ now' = now
        /\ tx' = [tx EXCEPT ![s] = [Begun("fail", j, w) EXCEPT
                                      !.step = "begin", !.attempts = jobs[j].attempts]]
    BY <1>7 DEF FailRead
  <2> QED
    BY <1>0, <2>1, BeginGoal, Zenon
<1>8. ASSUME NEW s \in Session,
             \/ ClaimJob(s) \/ ClaimWorker(s) \/ ReportJob(s) \/ ReportWorker(s)
             \/ SweepSelect(s) \/ SweepOne(s)
      PROVE  Goal
  BY <1>0, <1>8, ClaimJobGoal, ReportJobGoal, SweepSelectGoal, SweepOneGoal,
     WorkerGoal
<1>9. ASSUME NEW s \in Session, RenewLease(s) \/ Cancel(s) \/ Commit(s)
      PROVE  Goal
  BY <1>0, <1>9, RenewGoal, CancelGoal, CommitGoal
<1>10. ASSUME NEW s \in Session, Rollback(s)
       PROVE  Goal
  BY <1>0, <1>10, EndKeeps DEF Rollback
<1>11. CASE Tick
  BY <1>0, <1>11, StillGoal DEF Tick
<1>12. CASE UNCHANGED tvars
  BY <1>0, <1>12, StillGoal DEF tvars
<1> QED
  BY <1>1, <1>2, <1>3, <1>4, <1>5, <1>6, <1>7, <1>8, <1>9, <1>10, <1>11, <1>12
     DEF TNext

(* The invariant holds throughout. *)
LEMMA RInvAlways == TSpec => []RInv
<1>1. RInv /\ [TNext]_tvars => RInv'
  BY StepGoal DEF Goal
<1> QED
  BY <1>1, InitRInv, PTL DEF TSpec
------------------------------------------------------------------------------
(* Each move of a row is an edge of the diagram. *)
LEMMA MovesAreLifecycle ==
  ASSUME RInv, \A k \in Job : Moved(k)
  PROVE  TxLifecycle!LNext
<1> SUFFICES ASSUME NEW j \in Job
             PROVE  TxLifecycle!LMove(j) \/ TxLifecycle!LStay(j)
  BY SMTT(30) DEF TxLifecycle!LNext
<1>1. Moved(j) /\ RowOK(jobs[j])
  BY DEF RInv, RowsOK
<1> QED
  BY <1>1, ZenonT(40)
     DEF Moved, RowOK, Edge, Same, TxLifecycle!LMove, TxLifecycle!LStay,
         TxLifecycle!LSubmit, TxLifecycle!LClaim, TxLifecycle!LCancel,
         TxLifecycle!LComplete, TxLifecycle!LRetry, TxLifecycle!LGiveUp,
         TxLifecycle!Becomes

(* The transactions implement the diagram of job states: whatever requests *)
(* and sweeps of however many servers overlap, statement by statement, the *)
(* committed rows move only along its edges.                               *)
THEOREM TransactionsImplementLifecycle == TSpec => CommitsFollowLifecycle
<1>1. RInv /\ [TNext]_tvars => [TxLifecycle!LNext]_TxLifecycle!lvars
  BY StepGoal, MovesAreLifecycle DEF Goal
<1>2. TInit => TxLifecycle!LInit
  BY SMTT(30) DEF TInit, NoRow, TxLifecycle!LInit
<1> QED
  BY <1>1, <1>2, RInvAlways, PTL
     DEF TSpec, CommitsFollowLifecycle, TxLifecycle!LSpec

(* While a lease runs by the clock, no transaction but its holder's own    *)
(* report ends the attempt, although each judges leases by the instant at  *)
(* which it began.                                                         *)
THEOREM RunningLeaseIsHonored == TSpec => LeaseHonored
<1>1. RInv /\ [TNext]_tvars =>
        [\A j \in Job :
           jobs[j].status = "RUNNING" /\ jobs[j].lease_until >= now =>
             Owned(jobs'[j], jobs[j].worker_id) \/ ReportsCommitted(j) # {}]_tvars
  BY StepGoal DEF Goal, Honored
<1> QED
  BY <1>1, RInvAlways, PTL DEF TSpec, LeaseHonored
=============================================================================
