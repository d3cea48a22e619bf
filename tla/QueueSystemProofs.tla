-------------------------- MODULE QueueSystemProofs --------------------------
(***************************************************************************)
(* Proofs about QueueSystem, for any number of jobs, workers, crashes and  *)
(* late requests.  Every step but a claim that is heard moves rows forward *)
(* and lets processes go on or forget their job; that is enough to keep    *)
(* the invariant, and each action is only shown to be such a step.         *)
(***************************************************************************)
EXTENDS QueueSystem, TLAPS

Row ==
  [status: Status \cup {"ABSENT"}, attempts: Nat, max_attempts: Nat \ {0},
   worker_id: Worker \cup {NULL}, lease_until: (-1..Lease) \cup {NULL},
   available_at: Nat]

RowOK(r) ==
  /\ r \in Row
  /\ r.status = "ABSENT" => r.attempts = 0
  /\ r.status # "ABSENT" => r.max_attempts \in MaxAttempts
  /\ r.attempts <= r.max_attempts
  /\ r.status = "PENDING" => r.attempts < r.max_attempts
  /\ r.status = "RUNNING" => r.attempts > 0 /\ r.lease_until # NULL

TableOK ==
  /\ jobs = [j \in Job |-> jobs[j]]
  /\ \A j \in Job : RowOK(jobs[j])

HistoryOK ==
  /\ starts \in [Job -> Nat]
  /\ succeeded \in [Job -> SUBSET (Worker \X Nat)]
  /\ \A j \in Job : starts[j] <= jobs[j].attempts

Busy(p) == p.pc \in {"run", "report"}

(* A process that executes or reports knows its job, and one that reports  *)
(* a success has seen it.                                                  *)
ProcessesOK ==
  /\ proc \in [Worker -> Process]
  /\ \A w \in Worker :
       /\ Busy(proc[w]) <=> proc[w].job # NULL
       /\ Busy(proc[w]) => proc[w].attempt > 0
       /\ proc[w].pc = "report" /\ proc[w].ok =>
            <<w, proc[w].attempt>> \in succeeded[proc[w].job]

Message ==
  [op: {"claim", "renew", "complete", "fail"}, worker: Worker,
   job: Job \cup {NULL}, attempt: Nat]

(* A late request is about an attempt that was claimed, and a late report  *)
(* about one that its sender no longer executes; a late completion tells   *)
(* the truth.                                                              *)
MessageOK(m) ==
  /\ m \in Message
  /\ m.op # "claim" => /\ m.job \in Job /\ m.attempt > 0
                       /\ m.attempt <= jobs[m.job].attempts
  /\ m.op = "complete" => <<m.worker, m.attempt>> \in succeeded[m.job]
  /\ /\ m.op \in {"complete", "fail"}
     /\ proc[m.worker].pc = "run" /\ proc[m.worker].job = m.job
     => m.attempt < proc[m.worker].attempt

LateOK == \A m \in late : MessageOK(m)

(* The inductive invariant. *)
QInv ==
  /\ TableOK /\ HistoryOK /\ ProcessesOK /\ LateOK
  /\ CompletedJobSucceeded /\ OneProcessPerAttempt
  /\ stops \in 0..MaxStops
------------------------------------------------------------------------------
(* A row goes forward: it stays well formed, loses no attempt, and is      *)
(* RUNNING in an old attempt only if it was, for the same worker.          *)
Forward(r, q) ==
  /\ RowOK(q)
  /\ r.attempts <= q.attempts
  /\ q.attempts = r.attempts /\ q.status = "RUNNING" =>
       r.status = "RUNNING" /\ q.worker_id = r.worker_id

TableForward ==
  /\ jobs' = [j \in Job |-> jobs'[j]]
  /\ \A j \in Job : Forward(jobs[j], jobs'[j])

(* A COMPLETED row was COMPLETED before, or there is a reason for it. *)
Justified ==
  \A j \in Job : jobs'[j].status = "COMPLETED" =>
    \/ jobs[j].status = "COMPLETED" /\ jobs'[j].worker_id = jobs[j].worker_id
    \/ \E n \in 1..jobs'[j].attempts : <<jobs'[j].worker_id, n>> \in succeeded[j]

(* A process goes on with its job, or has none. *)
Continues(p, q) ==
  \/ q.job = NULL /\ ~Busy(q)
  \/ /\ q.job = p.job /\ q.attempt = p.attempt /\ Busy(q) = Busy(p)
     /\ q.pc = "run" => p.pc = "run"

(* A request that is new among the late ones comes from a process, which   *)
(* no longer executes if it is a report.                                   *)
Posted(m) ==
  /\ m \in Message
  /\ m.op # "claim" => /\ Busy(proc[m.worker])
                       /\ m.job = proc[m.worker].job
                       /\ m.attempt = proc[m.worker].attempt
  /\ m.op = "complete" => <<m.worker, m.attempt>> \in succeeded[m.job]
  /\ m.op \in {"complete", "fail"} => proc'[m.worker].pc # "run"

Moves ==
  /\ TableForward /\ Justified
  /\ \A w \in Worker : Continues(proc[w], proc'[w])
  /\ \A m \in late' : m \in late \/ Posted(m)
  /\ starts' = starts
  /\ succeeded' \in [Job -> SUBSET (Worker \X Nat)]
  /\ \A j \in Job : succeeded[j] \subseteq succeeded'[j]
  /\ ProcessesOK'
  /\ stops' \in 0..MaxStops

(* The values that appear in rows. *)
LEMMA Constants ==
  /\ NULL \notin Worker /\ NULL \notin Int /\ NULL \notin Job
  /\ Job \subseteq Nat /\ MaxAttempts \subseteq Nat \ {0}
  /\ Lease \in Nat /\ ReportTries \in Nat \ {0} /\ MaxStops \in Nat
<1>1. NULL \notin Worker \cup Int /\ Job \subseteq Nat
  BY SystemAssumption
<1>2. \A n \in Nat : n \in Int
  OBVIOUS
<1>3. NULL \notin Job
  BY <1>1, <1>2, Zenon
<1> QED
  BY <1>1, <1>3, SystemAssumption

(* The process of a worker is about a job in the table. *)
LEMMA BusyFacts ==
  ASSUME QInv, NEW w \in Worker, Busy(proc[w])
  PROVE  /\ proc[w].job \in Job
         /\ proc[w].attempt \in Nat \ {0}
         /\ proc[w].attempt <= jobs[proc[w].job].attempts
<1>1. proc[w] \in Process /\ proc[w].job # NULL /\ proc[w].attempt > 0
  BY Zenon DEF QInv, ProcessesOK
<1>2. proc[w].attempt <= jobs[proc[w].job].attempts
  BY DEF QInv, OneProcessPerAttempt, Busy
<1> QED
  BY <1>1, <1>2 DEF Process

(* Such a step keeps the invariant. *)
LEMMA MovesHold ==
  ASSUME QInv, Moves
  PROVE  QInv'
<1>1. TableOK'
  BY DEF Moves, TableForward, Forward, TableOK
<1>2. \A j \in Job : /\ jobs[j].attempts \in Nat /\ jobs'[j].attempts \in Nat
                     /\ jobs[j].attempts <= jobs'[j].attempts
  BY DEF QInv, TableOK, Moves, TableForward, Forward, RowOK, Row
<1>3. HistoryOK'
  <2>1. starts' \in [Job -> Nat] /\ \A j \in Job : starts[j] <= jobs[j].attempts
    BY DEF QInv, HistoryOK, Moves
  <2>2. ASSUME NEW j \in Job PROVE starts'[j] <= jobs'[j].attempts
    <3>1. starts'[j] = starts[j] /\ starts[j] \in Nat /\ starts[j] <= jobs[j].attempts
      BY <2>1 DEF Moves
    <3> QED
      BY <1>2, <3>1
  <2> QED
    BY <2>1, <2>2 DEF HistoryOK, Moves
<1>4. LateOK'
  <2> SUFFICES ASSUME NEW m \in late' PROVE MessageOK(m)'
    BY DEF LateOK
  <2>1. CASE m \in late
    <3>1. MessageOK(m)
      BY <2>1 DEF QInv, LateOK
    <3>2. m \in Message /\ m.worker \in Worker
      BY <3>1 DEF MessageOK, Message
    <3>3. m.op # "claim" => /\ m.job \in Job /\ m.attempt > 0
                            /\ m.attempt <= jobs'[m.job].attempts
      <4> HAVE m.op # "claim"
      <4>1. m.job \in Job /\ m.attempt > 0 /\ m.attempt <= jobs[m.job].attempts /\ m.attempt \in Nat
        BY <3>1 DEF MessageOK, Message
      <4> QED
        BY <4>1, <1>2
    <3>4. m.op = "complete" => <<m.worker, m.attempt>> \in succeeded'[m.job]
      <4> HAVE m.op = "complete"
      <4>1. m.job \in Job /\ <<m.worker, m.attempt>> \in succeeded[m.job]
        BY <3>1 DEF MessageOK
      <4> QED
        BY <4>1 DEF Moves
    <3>5. ASSUME m.op \in {"complete", "fail"}, proc'[m.worker].pc = "run",
                 proc'[m.worker].job = m.job
          PROVE  m.attempt < proc'[m.worker].attempt
      <4>1. Continues(proc[m.worker], proc'[m.worker])
        BY <3>2 DEF Moves
      <4>2. proc[m.worker].pc = "run" /\ proc[m.worker].job = m.job
            /\ proc'[m.worker].attempt = proc[m.worker].attempt
        BY <4>1, <3>5 DEF Continues, Busy
      <4> QED
        BY <4>2, <3>1, <3>5 DEF MessageOK
    <3> QED
      BY <3>2, <3>3, <3>4, <3>5 DEF MessageOK
  <2>2. CASE Posted(m)
    <3>1. m \in Message /\ m.worker \in Worker
      BY <2>2 DEF Posted, Message
    <3>2. ASSUME m.op # "claim"
          PROVE  /\ m.job \in Job /\ m.attempt > 0
                 /\ m.attempt <= jobs'[m.job].attempts
      <4>1. Busy(proc[m.worker]) /\ m.job = proc[m.worker].job /\ m.attempt = proc[m.worker].attempt
        BY <2>2, <3>2 DEF Posted
      <4>2. /\ m.job \in Job /\ m.attempt \in Nat \ {0}
            /\ m.attempt <= jobs[m.job].attempts
        BY <4>1, <3>1, BusyFacts
      <4> QED
        BY <4>2, <1>2
    <3>3. m.op = "complete" => <<m.worker, m.attempt>> \in succeeded'[m.job]
      BY <2>2, <3>2 DEF Posted, Moves
    <3> QED
      BY <2>2, <3>1, <3>2, <3>3 DEF MessageOK, Posted
  <2> QED
    BY <2>1, <2>2 DEF Moves
<1>5. CompletedJobSucceeded'
  <2> SUFFICES ASSUME NEW j \in Job, jobs'[j].status = "COMPLETED"
               PROVE  \E n \in 1..jobs'[j].attempts :
                        <<jobs'[j].worker_id, n>> \in succeeded'[j]
    BY DEF CompletedJobSucceeded
  <2>1. succeeded[j] \subseteq succeeded'[j]
    BY DEF Moves
  <2>2. CASE jobs[j].status = "COMPLETED" /\ jobs'[j].worker_id = jobs[j].worker_id
    <3>1. PICK n \in 1..jobs[j].attempts : <<jobs[j].worker_id, n>> \in succeeded[j]
      BY <2>2 DEF QInv, CompletedJobSucceeded
    <3>2. n \in 1..jobs'[j].attempts
      BY <1>2, <3>1
    <3> QED
      BY <3>1, <3>2, <2>1, <2>2
  <2>3. CASE \E n \in 1..jobs'[j].attempts : <<jobs'[j].worker_id, n>> \in succeeded[j]
    BY <2>3, <2>1
  <2> QED
    BY <2>2, <2>3 DEF Moves, Justified
<1>6. OneProcessPerAttempt'
  <2> SUFFICES ASSUME NEW w \in Worker, Busy(proc'[w])
               PROVE  LET j == proc'[w].job
                          n == proc'[w].attempt
                      IN  /\ n <= jobs'[j].attempts
                          /\ n = jobs'[j].attempts /\ jobs'[j].status = "RUNNING" =>
                               jobs'[j].worker_id = w
                          /\ \A v \in Worker \ {w} : proc'[v].job = j => proc'[v].attempt # n
    BY DEF OneProcessPerAttempt, Busy
  <2> DEFINE j == proc[w].job
             n == proc[w].attempt
  <2>1. /\ proc'[w].job = j /\ proc'[w].attempt = n /\ Busy(proc[w])
    BY DEF Moves, Continues
  <2>2. j \in Job /\ n \in Nat \ {0} /\ n <= jobs[j].attempts
    BY <2>1, BusyFacts
  <2>3. /\ n = jobs[j].attempts /\ jobs[j].status = "RUNNING" => jobs[j].worker_id = w
        /\ \A v \in Worker \ {w} : proc[v].job = j => proc[v].attempt # n
    BY <2>1 DEF QInv, OneProcessPerAttempt, Busy
  <2>4. Forward(jobs[j], jobs'[j])
    BY <2>2 DEF Moves, TableForward
  <2> HIDE DEF j, n
  <2>5. n <= jobs'[j].attempts
    BY <2>2, <1>2
  <2>6. n = jobs'[j].attempts /\ jobs'[j].status = "RUNNING" => jobs'[j].worker_id = w
    <3> HAVE n = jobs'[j].attempts /\ jobs'[j].status = "RUNNING"
    <3>1. jobs[j].attempts = jobs'[j].attempts
      BY <1>2, <2>2
    <3> QED
      BY <3>1, <2>3, <2>4 DEF Forward
  <2>7. ASSUME NEW v \in Worker \ {w}, proc'[v].job = j PROVE proc'[v].attempt # n
    <3>1. j # NULL
      BY <2>2, Constants
    <3>2. proc'[v].job = proc[v].job /\ proc'[v].attempt = proc[v].attempt
      BY <2>7, <3>1 DEF Moves, Continues
    <3> QED
      BY <2>3, <2>7, <3>2
  <2> QED
    BY <2>1, <2>5, <2>6, <2>7
<1> QED
  BY <1>1, <1>3, <1>4, <1>5, <1>6 DEF QInv, Moves
------------------------------------------------------------------------------
(* What each statement does to a row. *)

(* A row that does not change goes forward. *)
LEMMA KeptRow ==
  ASSUME NEW r, RowOK(r)
  PROVE  Forward(r, r)
BY DEF Forward, RowOK, Row

(* Store.Create. *)
LEMMA InsertedRow ==
  ASSUME NEW r, RowOK(r), ~Exists(r), NEW max \in MaxAttempts
  PROVE  Forward(r, Inserted(max, 0))
<1>1. max \in Nat \ {0} /\ r.attempts = 0
  BY Constants DEF RowOK, Exists
<1>2. Inserted(max, 0) \in Row
  BY <1>1 DEF Inserted, Row, Status
<1> QED
  BY <1>1, <1>2 DEF Forward, RowOK, Inserted

(* Store.Cancel. *)
LEMMA CanceledRow ==
  ASSUME NEW r, RowOK(r), r.status = "PENDING"
  PROVE  Forward(r, Canceled(r)) /\ Canceled(r).status = "CANCELED"
<1>1. r \in Row
  BY DEF RowOK
<1>2. Canceled(r) \in Row
  BY Zenon, <1>1 DEF Canceled, Row, Status, Terminal
<1>3. /\ Canceled(r).status = "CANCELED" /\ Canceled(r).attempts = r.attempts
      /\ Canceled(r).max_attempts = r.max_attempts
  BY <1>1 DEF Canceled, Row
<1> QED
  BY <1>1, <1>2, <1>3 DEF Forward, RowOK, Row

(* Store.Claim. *)
LEMMA ClaimedRow ==
  ASSUME NEW r, RowOK(r), r.status = "PENDING", NEW w \in Worker
  PROVE  /\ Forward(r, Claimed(r, w, Lease))
         /\ Claimed(r, w, Lease).status = "RUNNING"
         /\ Claimed(r, w, Lease).worker_id = w
         /\ Claimed(r, w, Lease).attempts = r.attempts + 1
<1> DEFINE q == Claimed(r, w, Lease)
<1>1. r \in Row /\ Lease \in (-1..Lease) \cup {NULL} /\ r.attempts + 1 \in Nat
  BY Constants DEF RowOK, Row
<1>2. q \in Row
  BY Zenon, <1>1 DEF Claimed, Row, Status
<1>3. /\ q.status = "RUNNING" /\ q.attempts = r.attempts + 1 /\ q.worker_id = w
      /\ q.max_attempts = r.max_attempts /\ q.lease_until = Lease
  BY <1>1 DEF Claimed, Row
<1>4. Lease # NULL
  BY Constants
<1> HIDE DEF q
<1>5. RowOK(q)
  BY <1>1, <1>2, <1>3, <1>4 DEF RowOK, Row
<1>6. Forward(r, q)
  BY <1>1, <1>3, <1>5 DEF Forward, Row
<1> QED
  BY <1>3, <1>6 DEF q

(* Store.RenewLease. *)
LEMMA RenewedRow ==
  ASSUME NEW r, RowOK(r), r.status = "RUNNING"
  PROVE  Forward(r, Renewed(r, Lease)) /\ Renewed(r, Lease).status = "RUNNING"
         /\ Renewed(r, Lease).worker_id = r.worker_id
<1> DEFINE q == Renewed(r, Lease)
<1>1. r \in Row /\ Lease \in (-1..Lease) \cup {NULL} /\ Lease # NULL
  BY Constants DEF RowOK
<1>2. q \in Row
  BY <1>1 DEF Renewed, Row
<1>3. /\ q.status = "RUNNING" /\ q.attempts = r.attempts /\ q.worker_id = r.worker_id
      /\ q.max_attempts = r.max_attempts /\ q.lease_until = Lease
  BY <1>1 DEF Renewed, Row
<1> HIDE DEF q
<1> QED
  BY <1>1, <1>2, <1>3 DEF Forward, RowOK, Row, q

(* Store.Complete. *)
LEMMA CompletedRow ==
  ASSUME NEW r, RowOK(r), r.status = "RUNNING", NEW w \in Worker
  PROVE  /\ Forward(r, Completed(r, w))
         /\ Completed(r, w).worker_id = w
         /\ Completed(r, w).attempts = r.attempts
<1> DEFINE q == Completed(r, w)
<1>1. r \in Row
  BY DEF RowOK
<1>2. q \in Row
  BY Zenon, <1>1 DEF Completed, Row, Status, Terminal
<1>3. /\ q.status = "COMPLETED" /\ q.attempts = r.attempts
      /\ q.worker_id = w /\ q.max_attempts = r.max_attempts
  BY <1>1 DEF Completed, Row
<1> HIDE DEF q
<1> QED
  BY <1>1, <1>2, <1>3 DEF Forward, RowOK, Row, q

(* The delay of an attempt that was claimed is a time. *)
LEMMA DelayFacts ==
  ASSUME NEW r, RowOK(r), r.status = "RUNNING"
  PROVE  Delay[r.attempts] \in Nat
<1>1. r.max_attempts \in MaxAttempts /\ r.attempts \in 1..r.max_attempts
  BY DEF RowOK, Row
<1> QED
  BY Zenon, <1>1, SystemAssumption

(* Store.Fail. *)
LEMMA FailedRow ==
  ASSUME NEW r, RowOK(r), r.status = "RUNNING", NEW w \in Worker
  PROVE  /\ Forward(r, FailedBy(r, w, Delay[r.attempts]))
         /\ FailedBy(r, w, Delay[r.attempts]).status \in {"PENDING", "FAILED"}
<1> DEFINE q == FailedBy(r, w, Delay[r.attempts])
<1>1. r \in Row /\ Delay[r.attempts] \in Nat
  BY DelayFacts DEF RowOK
<1>2. q \in Row
  BY Zenon, <1>1 DEF FailedBy, Row, Status, Terminal
<1>3. /\ q.status = IF Exhausted(r) THEN "FAILED" ELSE "PENDING"
      /\ q.attempts = r.attempts /\ q.max_attempts = r.max_attempts
  BY <1>1 DEF FailedBy, Row
<1> HIDE DEF q
<1> QED
  BY <1>1, <1>2, <1>3 DEF Forward, RowOK, Row, Exhausted, q

(* The reaper. *)
LEMMA ReapedRow ==
  ASSUME NEW r, RowOK(r), r.status = "RUNNING"
  PROVE  /\ Forward(r, Reaped(r, Delay[r.attempts]))
         /\ Reaped(r, Delay[r.attempts]).status \in {"PENDING", "FAILED"}
<1> DEFINE q == Reaped(r, Delay[r.attempts])
<1>1. r \in Row /\ Delay[r.attempts] \in Nat
  BY DelayFacts DEF RowOK
<1>2. q \in Row
  BY Zenon, <1>1 DEF Reaped, Row, Status, Terminal
<1>3. /\ q.status = IF Exhausted(r) THEN "FAILED" ELSE "PENDING"
      /\ q.attempts = r.attempts /\ q.max_attempts = r.max_attempts
  BY <1>1 DEF Reaped, Row
<1> HIDE DEF q
<1> QED
  BY <1>1, <1>2, <1>3 DEF Forward, RowOK, Row, Exhausted, q

(* The database clock. *)
LEMMA AgedRow ==
  ASSUME NEW r, RowOK(r)
  PROVE  /\ Forward(r, Aged(r))
         /\ Aged(r).status = r.status /\ Aged(r).worker_id = r.worker_id
<1> DEFINE u == IF r.lease_until = NULL \/ r.lease_until = -1
                  THEN r.lease_until ELSE r.lease_until - 1
           a == IF r.available_at = 0 THEN r.available_at ELSE r.available_at - 1
           q == [r EXCEPT !.lease_until = u, !.available_at = a]
<1>1. r \in Row /\ NULL \notin Int /\ Lease \in Nat
  BY Constants DEF RowOK
<1>2. r.lease_until \in (-1..Lease) \cup {NULL} /\ r.available_at \in Nat
  BY <1>1 DEF Row
<1>3. u \in (-1..Lease) \cup {NULL} /\ a \in Nat /\ (r.lease_until # NULL => u # NULL)
  BY <1>1, <1>2
<1>4. Aged(r) = q
  BY DEF Aged
<1> HIDE DEF u, a
<1>5. q \in Row
  BY Zenon, <1>1, <1>3 DEF Row
<1>6. /\ q.status = r.status /\ q.attempts = r.attempts /\ q.worker_id = r.worker_id
      /\ q.max_attempts = r.max_attempts /\ q.lease_until = u
  BY <1>1 DEF Row
<1> HIDE DEF q
<1>7. Forward(r, q)
  BY <1>1, <1>3, <1>5, <1>6 DEF Forward, RowOK, Row
<1> QED
  BY <1>4, <1>6, <1>7
------------------------------------------------------------------------------
(* What a step does to the table. *)

(* A step that leaves the table alone. *)
LEMMA SameTable ==
  ASSUME QInv, jobs' = jobs
  PROVE  TableForward /\ Justified
<1>1. \A j \in Job : RowOK(jobs[j]) /\ Forward(jobs[j], jobs[j])
  BY KeptRow DEF QInv, TableOK
<1> QED
  BY <1>1 DEF QInv, TableOK, TableForward, Justified

(* A statement that writes one row. *)
LEMMA OneRow ==
  ASSUME QInv, NEW j \in Job, NEW q, Forward(jobs[j], q),
         jobs' = [jobs EXCEPT ![j] = q],
         q.status = "COMPLETED" =>
           \E n \in 1..q.attempts : <<q.worker_id, n>> \in succeeded[j]
  PROVE  TableForward /\ Justified
<1>1. jobs = [k \in Job |-> jobs[k]]
  BY DEF QInv, TableOK
<1>2. \A k \in Job : jobs'[k] = IF k = j THEN q ELSE jobs[k]
  BY <1>1
<1>3. jobs' = [k \in Job |-> jobs'[k]]
  BY <1>1
<1>4. ASSUME NEW k \in Job PROVE Forward(jobs[k], jobs'[k])
  <2>1. RowOK(jobs[k])
    BY DEF QInv, TableOK
  <2>2. Forward(jobs[k], jobs[k])
    BY <2>1, KeptRow
  <2> QED
    BY <1>2, <2>2
<1> QED
  BY <1>2, <1>3, <1>4 DEF TableForward, Justified

(* The claim query hands out a PENDING row. *)
LEMMA ClaimTable ==
  ASSUME QInv, NEW w \in Worker, NEW j \in Job, ClaimedBy(w, j)
  PROVE  /\ TableForward /\ Justified
         /\ jobs[j].status = "PENDING"
         /\ jobs'[j].attempts = jobs[j].attempts + 1
         /\ jobs'[j].worker_id = w
<1>1. jobs[j].status = "PENDING" /\ jobs' = [jobs EXCEPT ![j] = Claimed(jobs[j], w, Lease)]
  BY DEF ClaimedBy, Claimable
<1>2. RowOK(jobs[j]) /\ jobs = [k \in Job |-> jobs[k]]
  BY DEF QInv, TableOK
<1> DEFINE q == Claimed(jobs[j], w, Lease)
<1>3. /\ Forward(jobs[j], q) /\ q.status = "RUNNING" /\ q.worker_id = w
      /\ q.attempts = jobs[j].attempts + 1
  BY <1>1, <1>2, ClaimedRow
<1>4. jobs' = [jobs EXCEPT ![j] = q]
  BY <1>1
<1> HIDE DEF q
<1>5. TableForward /\ Justified
  BY Zenon, <1>3, <1>4, OneRow
<1>6. jobs'[j] = q
  BY <1>2, <1>4
<1> QED
  BY <1>1, <1>3, <1>5, <1>6

(* A renewal or a report, whenever it is served.  A completion that is     *)
(* accepted is about an execution that succeeded.                          *)
LEMMA ServedTable ==
  ASSUME QInv, NEW m \in Message, m.op # "claim", m.job \in Job,
         jobs' = After(m),
         m.op = "complete" => /\ m.attempt \in 1..jobs[m.job].attempts
                              /\ <<m.worker, m.attempt>> \in succeeded[m.job]
  PROVE  TableForward /\ Justified
<1> DEFINE j == m.job
           r == jobs[j]
<1>1. CASE ~Owned(r, m.worker)
  BY <1>1, SameTable DEF After
<1>2. CASE Owned(r, m.worker)
  <2>1. RowOK(r) /\ r.status = "RUNNING" /\ r.worker_id = m.worker /\ m.worker \in Worker
    BY <1>2 DEF QInv, TableOK, Owned, Message
  <2>2. CASE m.op = "renew"
    <3> DEFINE q == Renewed(r, Lease)
    <3>1. Forward(r, q) /\ q.status # "COMPLETED"
      BY <2>1, RenewedRow
    <3>2. jobs' = [jobs EXCEPT ![j] = q]
      BY <1>2, <2>2 DEF After
    <3> QED
      BY Zenon, <3>1, <3>2, OneRow
  <2>3. CASE m.op = "complete"
    <3> DEFINE q == Completed(r, m.worker)
    <3>1. Forward(r, q) /\ q.worker_id = m.worker /\ q.attempts = r.attempts
      BY <2>1, CompletedRow
    <3>2. jobs' = [jobs EXCEPT ![j] = q]
      BY <1>2, <2>3 DEF After
    <3> HIDE DEF q
    <3>3. \E n \in 1..q.attempts : <<q.worker_id, n>> \in succeeded[j]
      BY <3>1, <2>3
    <3> QED
      BY Zenon, <3>1, <3>2, <3>3, OneRow
  <2>4. CASE m.op = "fail"
    <3> DEFINE q == FailedBy(r, m.worker, Delay[r.attempts])
    <3>1. Forward(r, q) /\ q.status # "COMPLETED"
      BY <2>1, FailedRow
    <3>2. jobs' = [jobs EXCEPT ![j] = q]
      BY <1>2, <2>4 DEF After
    <3> QED
      BY Zenon, <3>1, <3>2, OneRow
  <2> QED
    BY <2>2, <2>3, <2>4 DEF Message
<1> QED
  BY <1>1, <1>2
------------------------------------------------------------------------------
(* What a step does to the processes and to the requests on their way. *)

(* A step that leaves the processes alone. *)
LEMMA SameProcesses ==
  ASSUME QInv, proc' = proc, succeeded' = succeeded
  PROVE  ProcessesOK' /\ \A w \in Worker : Continues(proc[w], proc'[w])
<1>1. ProcessesOK'
  BY DEF QInv, ProcessesOK
<1> QED
  BY <1>1 DEF Continues

(* A step of one process. *)
LEMMA OneProcess ==
  ASSUME QInv, NEW w \in Worker, NEW p \in Process,
         proc' = [proc EXCEPT ![w] = p], succeeded' = succeeded,
         Continues(proc[w], p),
         Busy(p) <=> p.job # NULL, Busy(p) => p.attempt > 0,
         p.pc = "report" /\ p.ok => <<w, p.attempt>> \in succeeded[p.job]
  PROVE  ProcessesOK' /\ \A v \in Worker : Continues(proc[v], proc'[v])
<1>1. proc \in [Worker -> Process]
  BY DEF QInv, ProcessesOK
<1>2. \A v \in Worker : proc'[v] = IF v = w THEN p ELSE proc[v]
  BY <1>1
<1>3. proc' \in [Worker -> Process]
  BY <1>1
<1>4. \A v \in Worker : Continues(proc[v], proc'[v])
  BY <1>2 DEF Continues
<1>5. ASSUME NEW v \in Worker
      PROVE  /\ Busy(proc'[v]) <=> proc'[v].job # NULL
             /\ Busy(proc'[v]) => proc'[v].attempt > 0
             /\ proc'[v].pc = "report" /\ proc'[v].ok =>
                  <<v, proc'[v].attempt>> \in succeeded[proc'[v].job]
  <2>1. CASE v = w
    BY <1>2, <2>1
  <2>2. CASE v # w
    <3>1. proc'[v] = proc[v]
      BY <1>2, <2>2
    <3> QED
      BY <3>1 DEF QInv, ProcessesOK
  <2> QED
    BY <2>1, <2>2
<1>6. ProcessesOK'
  BY <1>3, <1>5 DEF ProcessesOK, Busy
<1> QED
  BY <1>4, <1>6

(* A process that forgets its job. *)
LEMMA IdleProcess ==
  ASSUME QInv, NEW w \in Worker, NEW p \in Process, ~Busy(p), p.job = NULL,
         proc' = [proc EXCEPT ![w] = p], succeeded' = succeeded
  PROVE  ProcessesOK' /\ \A v \in Worker : Continues(proc[v], proc'[v])
<1>1. Continues(proc[w], p) /\ p.pc # "report"
  BY DEF Continues, Busy
<1> QED
  BY Zenon, <1>1, OneProcess

(* The places of a process without a job. *)
LEMMA IdleRecords ==
  /\ Down \in Process /\ ~Busy(Down) /\ Down.job = NULL
  /\ Looping \in Process /\ ~Busy(Looping) /\ Looping.job = NULL
  /\ Registering \in Process /\ ~Busy(Registering) /\ Registering.job = NULL
<1>1. 0 \in 0..(ReportTries - 1)
  BY Constants
<1> QED
  BY Zenon, <1>1 DEF Down, Looping, Registering, Process, Busy

(* The top of the loop after a report, for a worker that may be stopping. *)
LEMMA BackToLoopFacts ==
  ASSUME QInv, NEW w \in Worker
  PROVE  BackToLoop(w) \in Process /\ ~Busy(BackToLoop(w)) /\ BackToLoop(w).job = NULL
<1>1. proc[w].stop \in BOOLEAN
  BY DEF QInv, ProcessesOK, Process
<1>2. 0 \in 0..(ReportTries - 1)
  BY Constants
<1> QED
  BY Zenon, <1>1, <1>2 DEF BackToLoop, Looping, Down, Process, Busy

(* The request of a process that claims, or that works on a job. *)
LEMMA RequestFacts ==
  ASSUME QInv, NEW w \in Worker, NEW op \in {"claim", "renew", "complete", "fail"}
  PROVE  /\ Request(op, w) \in Message
         /\ Request(op, w).op = op /\ Request(op, w).worker = w
         /\ Request(op, w).job = proc[w].job
         /\ Request(op, w).attempt = proc[w].attempt
<1>1. proc[w].job \in Job \cup {NULL} /\ proc[w].attempt \in Nat
  BY DEF QInv, ProcessesOK, Process
<1> QED
  BY <1>1 DEF Request, Message

(* The report of a process is about its job, and a completion is true. *)
LEMMA ReportFacts ==
  ASSUME QInv, NEW w \in Worker, proc[w].pc = "report"
  PROVE  /\ Report(w) \in Message /\ Report(w).op \in {"complete", "fail"}
         /\ Report(w).worker = w /\ Report(w).job = proc[w].job
         /\ Report(w).attempt = proc[w].attempt
         /\ proc[w].job \in Job
         /\ Report(w).op = "complete" =>
              /\ Report(w).attempt \in 1..jobs[Report(w).job].attempts
              /\ <<w, Report(w).attempt>> \in succeeded[Report(w).job]
<1>1. Busy(proc[w])
  BY DEF Busy
<1>2. /\ proc[w].job \in Job /\ proc[w].attempt \in Nat \ {0}
      /\ proc[w].attempt <= jobs[proc[w].job].attempts
  BY <1>1, BusyFacts
<1>3. jobs[proc[w].job].attempts \in Nat
  BY <1>2 DEF QInv, TableOK, RowOK, Row
<1>4. proc[w].ok => <<w, proc[w].attempt>> \in succeeded[proc[w].job]
  BY DEF QInv, ProcessesOK
<1>5. CASE proc[w].ok
  <2>1. Report(w) = Request("complete", w)
    BY <1>5 DEF Report
  <2> QED
    BY <1>2, <1>3, <1>4, <1>5, <2>1, RequestFacts
<1>6. CASE ~proc[w].ok
  <2>1. Report(w) = Request("fail", w)
    BY <1>6 DEF Report
  <2> QED
    BY <1>2, <2>1, RequestFacts
<1> QED
  BY <1>5, <1>6

(* A step that adds to no history. *)
LEMMA QuietHolds ==
  ASSUME QInv, TableForward, Justified, ProcessesOK',
         \A w \in Worker : Continues(proc[w], proc'[w]),
         \A m \in late' : m \in late \/ Posted(m),
         UNCHANGED history, stops' \in 0..MaxStops
  PROVE  QInv'
<1>1. Moves
  BY DEF Moves, QInv, HistoryOK, history
<1> QED
  BY <1>1, MovesHold
------------------------------------------------------------------------------
(* The actions. *)

(* Every queue starts empty, with all processes down. *)
LEMMA InitHolds ==
  ASSUME QInit
  PROVE  QInv
<1>1. TableOK
  BY Constants DEF QInit, TableOK, RowOK, Row, NoRow, Status
<1>2. HistoryOK
  BY DEF QInit, HistoryOK, NoRow
<1>3. \A w \in Worker : proc[w] = Down
  BY DEF QInit
<1>4. proc \in [Worker -> Process]
  BY IdleRecords DEF QInit
<1>5. \A w \in Worker : ~Busy(proc[w]) /\ proc[w].job = NULL
  BY <1>3, IdleRecords
<1>6. ProcessesOK
  BY <1>4, <1>5 DEF ProcessesOK, Busy
<1>7. OneProcessPerAttempt
  BY <1>5 DEF OneProcessPerAttempt, Busy
<1>8. LateOK /\ CompletedJobSucceeded
  BY DEF QInit, LateOK, CompletedJobSucceeded, NoRow
<1>9. stops \in 0..MaxStops
  BY Constants DEF QInit
<1> QED
  BY <1>1, <1>2, <1>6, <1>7, <1>8, <1>9 DEF QInv

(* A step that only changes the table. *)
LEMMA TableStep ==
  ASSUME QInv, TableForward, Justified, late' \subseteq late,
         UNCHANGED <<proc, stops, history>>
  PROVE  QInv'
<1>1. succeeded' = succeeded
  BY DEF history
<1>2. stops' \in 0..MaxStops
  BY DEF QInv
<1> QED
  BY <1>1, <1>2, SameProcesses, QuietHolds

(* POST /jobs. *)
LEMMA SubmitStep ==
  ASSUME QInv, NEW j \in Job, NEW max \in MaxAttempts, Submit(j, max)
  PROVE  QInv'
<1>1. RowOK(jobs[j]) /\ ~Exists(jobs[j])
  BY DEF QInv, TableOK, Submit
<1> DEFINE q == Inserted(max, 0)
<1>2. Forward(jobs[j], q) /\ q.status = "PENDING"
  BY <1>1, InsertedRow DEF Inserted
<1>3. jobs' = [jobs EXCEPT ![j] = q]
  BY DEF Submit
<1> HIDE DEF q
<1>4. TableForward /\ Justified
  BY Zenon, <1>2, <1>3, OneRow
<1> QED
  BY <1>4, TableStep DEF Submit

(* POST /jobs/{id}/cancel. *)
LEMMA CancelStep ==
  ASSUME QInv, NEW j \in Job, CancelJob(j)
  PROVE  QInv'
<1>1. RowOK(jobs[j]) /\ jobs[j].status = "PENDING"
  BY DEF QInv, TableOK, CancelJob
<1> DEFINE q == Canceled(jobs[j])
<1>2. Forward(jobs[j], q) /\ q.status = "CANCELED"
  BY <1>1, CanceledRow
<1>3. jobs' = [jobs EXCEPT ![j] = q]
  BY DEF CancelJob
<1> HIDE DEF q
<1>4. TableForward /\ Justified
  BY Zenon, <1>2, <1>3, OneRow
<1> QED
  BY <1>4, TableStep DEF CancelJob

(* A sweep of the reaper. *)
LEMMA SweepStep ==
  ASSUME QInv, NEW S \in SUBSET Job, Sweep(S)
  PROVE  QInv'
<1>1. \A j \in Job : jobs'[j] = IF j \in S THEN Reaped(jobs[j], Delay[jobs[j].attempts])
                                           ELSE jobs[j]
  BY DEF Sweep
<1>2. jobs' = [j \in Job |-> jobs'[j]]
  BY DEF Sweep
<1>3. ASSUME NEW j \in Job
      PROVE  /\ Forward(jobs[j], jobs'[j])
             /\ jobs'[j].status = "COMPLETED" => jobs'[j] = jobs[j]
  <2>1. RowOK(jobs[j])
    BY DEF QInv, TableOK
  <2>2. CASE j \in S
    <3>1. jobs[j].status = "RUNNING"
      BY <2>2 DEF Sweep, Expired
    <3> QED
      BY <1>1, <2>1, <2>2, <3>1, ReapedRow
  <2>3. CASE j \notin S
    BY <1>1, <2>1, <2>3, KeptRow
  <2> QED
    BY <2>2, <2>3
<1>4. TableForward /\ Justified
  BY <1>2, <1>3 DEF TableForward, Justified
<1> QED
  BY <1>4, TableStep DEF Sweep

(* Time passes. *)
LEMMA TickStep ==
  ASSUME QInv, Tick
  PROVE  QInv'
<1>1. \A j \in Job : jobs'[j] = Aged(jobs[j])
  BY DEF Tick
<1>2. jobs' = [j \in Job |-> jobs'[j]]
  BY DEF Tick
<1>3. ASSUME NEW j \in Job
      PROVE  /\ Forward(jobs[j], jobs'[j]) /\ jobs'[j].status = jobs[j].status
             /\ jobs'[j].worker_id = jobs[j].worker_id
  <2>1. RowOK(jobs[j])
    BY DEF QInv, TableOK
  <2> QED
    BY <1>1, <2>1, AgedRow
<1>4. TableForward /\ Justified
  BY <1>2, <1>3 DEF TableForward, Justified
<1> QED
  BY <1>4, TableStep DEF Tick

(* A request that arrives after its sender stopped waiting. *)
LEMMA ServeLateStep ==
  ASSUME QInv, NEW m \in late, ServeLate(m)
  PROVE  QInv'
<1>1. MessageOK(m) /\ m \in Message /\ m.worker \in Worker
  BY DEF QInv, LateOK, MessageOK, Message
<1>2. TableForward /\ Justified
  <2>1. CASE m.op = "claim"
    <3>1. PICK j \in Job : ClaimedBy(m.worker, j)
      BY <2>1 DEF ServeLate
    <3> QED
      BY <1>1, <3>1, ClaimTable
  <2>2. CASE m.op # "claim"
    <3>1. /\ m.job \in Job /\ m.attempt \in Nat /\ m.attempt > 0
          /\ m.attempt <= jobs[m.job].attempts
      BY <1>1, <2>2 DEF MessageOK, Message
    <3>2. jobs[m.job].attempts \in Nat
      BY <3>1 DEF QInv, TableOK, RowOK, Row
    <3>3. m.attempt \in 1..jobs[m.job].attempts
      BY <3>1, <3>2
    <3>4. m.op = "complete" => <<m.worker, m.attempt>> \in succeeded[m.job]
      BY <1>1 DEF MessageOK
    <3>5. jobs' = After(m)
      BY <2>2 DEF ServeLate
    <3> QED
      BY <1>1, <2>2, <3>1, <3>3, <3>4, <3>5, ServedTable
  <2> QED
    BY <2>1, <2>2
<1> QED
  BY <1>2, TableStep DEF ServeLate

(* A request that never arrives. *)
LEMMA DropLateStep ==
  ASSUME QInv, NEW m \in late, DropLate(m)
  PROVE  QInv'
BY SameTable, TableStep DEF DropLate

(* A claim whose answer is lost. *)
LEMMA ClaimUnheardStep ==
  ASSUME QInv, NEW w \in Worker, NEW j \in Job, ClaimUnheard(w, j)
  PROVE  QInv'
BY ClaimTable, TableStep DEF ClaimUnheard

(* A renewal the server executes. *)
LEMMA RenewedTable ==
  ASSUME QInv, NEW w \in Worker, Renewing(w), jobs' = After(Request("renew", w))
  PROVE  TableForward /\ Justified
<1>1. Busy(proc[w])
  BY DEF Renewing, Busy
<1>2. proc[w].job \in Job
  BY <1>1, BusyFacts
<1> DEFINE m == Request("renew", w)
<1>3. m \in Message /\ m.op = "renew" /\ m.job = proc[w].job
  BY RequestFacts
<1>4. jobs' = After(m)
  OBVIOUS
<1> HIDE DEF m
<1> QED
  BY Zenon, <1>2, <1>3, <1>4, ServedTable

(* A renewal whose answer is lost. *)
LEMMA RenewUnheardStep ==
  ASSUME QInv, NEW w \in Worker, RenewUnheard(w)
  PROVE  QInv'
BY RenewedTable, TableStep DEF RenewUnheard

(* A step of one process that leaves the table alone. *)
LEMMA ProcessStep ==
  ASSUME QInv, jobs' = jobs, ProcessesOK',
         \A w \in Worker : Continues(proc[w], proc'[w]),
         \A m \in late' : m \in late \/ Posted(m),
         UNCHANGED history, stops' \in 0..MaxStops
  PROVE  QInv'
BY SameTable, QuietHolds

(* renewLoop. *)
LEMMA RenewStep ==
  ASSUME QInv, NEW w \in Worker, Renew(w)
  PROVE  QInv'
<1>1. Renewing(w) /\ proc[w].pc = "run" /\ succeeded' = succeeded
  BY DEF Renew, Renewing, history
<1>2. stops' \in 0..MaxStops /\ UNCHANGED <<late, history>> /\ \A m \in late' : m \in late
  BY DEF Renew, QInv
<1>3. CASE Owned(jobs[proc[w].job], w)
  <2>1. jobs' = After(Request("renew", w)) /\ proc' = proc
    BY <1>3 DEF Renew
  <2> QED
    BY <1>1, <1>2, <2>1, RenewedTable, SameProcesses, QuietHolds
<1>4. CASE ~Owned(jobs[proc[w].job], w)
  <2> DEFINE p == [proc[w] EXCEPT !.lost = TRUE]
  <2>1. proc[w] \in Process /\ Busy(proc[w]) /\ proc[w].job # NULL /\ proc[w].attempt > 0
    BY Zenon, <1>1 DEF QInv, ProcessesOK, Busy
  <2>2. jobs' = jobs /\ proc' = [proc EXCEPT ![w] = p]
    BY <1>4 DEF Renew
  <2>3. /\ p \in Process /\ p.pc = "run" /\ p.job = proc[w].job /\ p.attempt = proc[w].attempt
    BY Zenon, <1>1, <2>1 DEF Process
  <2> HIDE DEF p
  <2>4. Busy(p) /\ Continues(proc[w], p)
    BY <1>1, <2>1, <2>3 DEF Busy, Continues
  <2>5. ProcessesOK' /\ \A v \in Worker : Continues(proc[v], proc'[v])
    BY Zenon, <1>1, <2>1, <2>2, <2>3, <2>4, OneProcess
  <2> QED
    BY <1>2, <2>2, <2>5, ProcessStep
<1> QED
  BY <1>3, <1>4

(* Steps of a process that has no job afterwards. *)
LEMMA IdleStep ==
  ASSUME QInv, NEW w \in Worker, NEW p \in Process, ~Busy(p), p.job = NULL,
         proc' = [proc EXCEPT ![w] = p], jobs' = jobs,
         \A m \in late' : m \in late \/ Posted(m),
         UNCHANGED history, stops' \in 0..MaxStops
  PROVE  QInv'
<1>1. succeeded' = succeeded
  BY DEF history
<1> QED
  BY Zenon, <1>1, IdleProcess, ProcessStep

(* A process starts, and registers. *)
LEMMA StartStep ==
  ASSUME QInv, NEW w \in Worker, Start(w) \/ Register(w)
  PROVE  QInv'
<1>1. /\ jobs' = jobs /\ late' = late /\ UNCHANGED history /\ stops' \in 0..MaxStops
      /\ proc' = [proc EXCEPT ![w] = Registering] \/ proc' = [proc EXCEPT ![w] = Looping]
  BY DEF Start, Register, QInv
<1> QED
  BY <1>1, IdleRecords, IdleStep

(* A request its sender stops waiting for. *)
LEMMA AbandonFacts ==
  ASSUME NEW m, Abandon(m), Posted(m)
  PROVE  \A x \in late' : x \in late \/ Posted(x)
BY DEF Abandon

(* The claim of a process may be on its way. *)
LEMMA ClaimPosted ==
  ASSUME QInv, NEW w \in Worker
  PROVE  Posted(Request("claim", w))
<1>1. Request("claim", w) \in Message /\ Request("claim", w).op = "claim"
  BY RequestFacts
<1> QED
  BY <1>1 DEF Posted

(* So may a renewal, while the command runs. *)
LEMMA RenewPosted ==
  ASSUME QInv, NEW w \in Worker, proc[w].pc = "run"
  PROVE  Posted(Request("renew", w))
<1> DEFINE m == Request("renew", w)
<1>1. /\ m \in Message /\ m.op = "renew" /\ m.worker = w /\ m.job = proc[w].job
      /\ m.attempt = proc[w].attempt
  BY RequestFacts
<1>2. Busy(proc[w])
  BY DEF Busy
<1> HIDE DEF m
<1>3. Posted(m)
  BY <1>1, <1>2 DEF Posted
<1> QED
  BY <1>3 DEF m

(* So may a report, of a process that does not begin another command. *)
LEMMA ReportPosted ==
  ASSUME QInv, NEW w \in Worker, proc[w].pc = "report", proc'[w].pc # "run"
  PROVE  Posted(Report(w))
<1> DEFINE m == Report(w)
<1>1. /\ m \in Message /\ m.op \in {"complete", "fail"} /\ m.worker = w
      /\ m.job = proc[w].job /\ m.attempt = proc[w].attempt
      /\ m.op = "complete" => <<w, m.attempt>> \in succeeded[m.job]
  BY ReportFacts
<1>2. Busy(proc[w])
  BY DEF Busy
<1> HIDE DEF m
<1>3. Posted(m)
  BY <1>1, <1>2 DEF Posted
<1> QED
  BY <1>3 DEF m

(* A process dies, and what it was sending may still arrive. *)
LEMMA CrashStep ==
  ASSUME QInv, NEW w \in Worker, Crash(w)
  PROVE  QInv'
<1>1. /\ jobs' = jobs /\ UNCHANGED history /\ proc' = [proc EXCEPT ![w] = Down]
      /\ stops' = stops + 1 /\ stops < MaxStops /\ proc[w].pc # "down"
  BY DEF Crash
<1>2. stops' \in 0..MaxStops
  BY <1>1, Constants DEF QInv
<1>3. proc \in [Worker -> Process] /\ proc[w] \in Process
  BY DEF QInv, ProcessesOK
<1>4. proc'[w].pc # "run"
  BY <1>1, <1>3 DEF Down
<1>5. \A m \in late' : m \in late \/ Posted(m)
  <2>1. CASE proc[w].pc = "claim"
    <3>1. Abandon(Request("claim", w))
      BY <2>1 DEF Crash
    <3> QED
      BY <3>1, ClaimPosted, AbandonFacts
  <2>2. CASE proc[w].pc = "run"
    <3>1. Abandon(Request("renew", w))
      BY <2>2 DEF Crash
    <3> QED
      BY <2>2, <3>1, RenewPosted, AbandonFacts
  <2>3. CASE proc[w].pc = "report"
    <3>1. Abandon(Report(w))
      BY <2>3 DEF Crash
    <3> QED
      BY <1>4, <2>3, <3>1, ReportPosted, AbandonFacts
  <2>4. CASE proc[w].pc = "register"
    BY <2>4 DEF Crash
  <2> QED
    BY <1>1, <1>3, <2>1, <2>2, <2>3, <2>4 DEF Process
<1> QED
  BY Zenon, <1>1, <1>2, <1>5, IdleRecords, IdleStep

(* Run returns. *)
LEMMA StoppedStep ==
  ASSUME QInv, NEW w \in Worker, Stopped(w)
  PROVE  QInv'
<1>1. /\ jobs' = jobs /\ UNCHANGED history /\ proc' = [proc EXCEPT ![w] = Down]
      /\ stops' \in 0..MaxStops
      /\ Abandon(Request("claim", w)) \/ late' = late
  BY DEF Stopped, QInv
<1>2. \A m \in late' : m \in late \/ Posted(m)
  BY <1>1, ClaimPosted, AbandonFacts
<1> QED
  BY Zenon, <1>1, <1>2, IdleRecords, IdleStep

(* SIGTERM. *)
LEMMA ShutdownStep ==
  ASSUME QInv, NEW w \in Worker, Shutdown(w)
  PROVE  QInv'
<1> DEFINE p == [proc[w] EXCEPT !.stop = TRUE]
<1>1. /\ jobs' = jobs /\ late' = late /\ UNCHANGED history /\ succeeded' = succeeded
      /\ proc' = [proc EXCEPT ![w] = p] /\ stops' = stops + 1 /\ stops < MaxStops
  BY DEF Shutdown, history
<1>2. stops' \in 0..MaxStops
  BY <1>1, Constants DEF QInv
<1>3. /\ proc[w] \in Process
      /\ Busy(proc[w]) <=> proc[w].job # NULL
      /\ Busy(proc[w]) => proc[w].attempt > 0
      /\ proc[w].pc = "report" /\ proc[w].ok => <<w, proc[w].attempt>> \in succeeded[proc[w].job]
  BY DEF QInv, ProcessesOK
<1>4. /\ p \in Process /\ p.pc = proc[w].pc /\ p.job = proc[w].job
      /\ p.attempt = proc[w].attempt /\ p.ok = proc[w].ok
  BY Zenon, <1>3 DEF Process
<1> HIDE DEF p
<1>5. (Busy(p) <=> Busy(proc[w])) /\ Continues(proc[w], p)
  BY <1>4 DEF Busy, Continues
<1>6. ProcessesOK' /\ \A v \in Worker : Continues(proc[v], proc'[v])
  BY Zenon, <1>1, <1>3, <1>4, <1>5, OneProcess
<1> QED
  BY <1>1, <1>2, <1>6, ProcessStep

(* A claim or a renewal that the worker gives up. *)
LEMMA AbandonedStep ==
  ASSUME QInv, NEW w \in Worker, ClaimAbandoned(w) \/ RenewAbandoned(w)
  PROVE  QInv'
<1>1. jobs' = jobs /\ proc' = proc /\ UNCHANGED history /\ stops' \in 0..MaxStops
  BY DEF ClaimAbandoned, RenewAbandoned, QInv
<1>2. succeeded' = succeeded
  BY <1>1 DEF history
<1>3. \A m \in late' : m \in late \/ Posted(m)
  <2>1. CASE ClaimAbandoned(w)
    BY <2>1, ClaimPosted DEF ClaimAbandoned
  <2>2. CASE RenewAbandoned(w)
    BY <2>2, RenewPosted DEF RenewAbandoned, Renewing
  <2> QED
    BY <2>1, <2>2
<1> QED
  BY <1>1, <1>2, <1>3, SameProcesses, ProcessStep

(* The command is killed. *)
LEMMA KilledStep ==
  ASSUME QInv, NEW w \in Worker, Killed(w)
  PROVE  QInv'
<1> DEFINE p == [proc[w] EXCEPT !.pc = "report", !.ok = FALSE]
<1>1. /\ jobs' = jobs /\ late' = late /\ UNCHANGED history /\ succeeded' = succeeded
      /\ proc' = [proc EXCEPT ![w] = p] /\ stops' \in 0..MaxStops /\ proc[w].pc = "run"
  BY Zenon DEF Killed, history, QInv
<1>2. proc[w] \in Process /\ Busy(proc[w]) /\ proc[w].job # NULL /\ proc[w].attempt > 0
  BY Zenon, <1>1 DEF QInv, ProcessesOK, Busy
<1>3. /\ p \in Process /\ p.pc = "report" /\ p.job = proc[w].job
      /\ p.attempt = proc[w].attempt /\ p.ok = FALSE
  BY Zenon, <1>2 DEF Process
<1> HIDE DEF p
<1>4. Busy(p) /\ Continues(proc[w], p)
  BY <1>2, <1>3 DEF Busy, Continues
<1>5. ProcessesOK' /\ \A v \in Worker : Continues(proc[v], proc'[v])
  BY Zenon, <1>1, <1>2, <1>3, <1>4, OneProcess
<1> QED
  BY <1>1, <1>5, ProcessStep

(* The command ends by itself. *)
LEMMA ExitStep ==
  ASSUME QInv, NEW w \in Worker, NEW ok \in BOOLEAN, Exit(w, ok)
  PROVE  QInv'
<1> DEFINE p == [proc[w] EXCEPT !.pc = "report", !.ok = ok]
           j == proc[w].job
           n == proc[w].attempt
<1>1. /\ jobs' = jobs /\ late' = late /\ starts' = starts
      /\ proc' = [proc EXCEPT ![w] = p] /\ stops' \in 0..MaxStops /\ proc[w].pc = "run"
      /\ succeeded' = IF ok THEN [succeeded EXCEPT ![j] = @ \cup {<<w, n>>}] ELSE succeeded
  BY Zenon DEF Exit, QInv
<1>2. proc \in [Worker -> Process] /\ proc[w] \in Process /\ Busy(proc[w])
  BY <1>1 DEF QInv, ProcessesOK, Busy
<1>3. j \in Job /\ n \in Nat /\ n > 0 /\ j # NULL
  BY <1>2, BusyFacts, Constants
<1>4. /\ p \in Process /\ p.pc = "report" /\ p.job = j /\ p.attempt = n /\ p.ok = ok
  BY Zenon, <1>2 DEF Process
<1> HIDE DEF p, j, n
<1>5. succeeded \in [Job -> SUBSET (Worker \X Nat)]
  BY DEF QInv, HistoryOK
<1>6. /\ succeeded' \in [Job -> SUBSET (Worker \X Nat)]
      /\ \A k \in Job : succeeded[k] \subseteq succeeded'[k]
      /\ ok => <<w, n>> \in succeeded'[j]
  <2>1. CASE ok
    <3>1. succeeded' = [succeeded EXCEPT ![j] = @ \cup {<<w, n>>}]
      BY <1>1, <2>1
    <3>2. <<w, n>> \in Worker \X Nat
      BY <1>3
    <3>3. \A k \in Job : succeeded'[k] = IF k = j THEN succeeded[j] \cup {<<w, n>>} ELSE succeeded[k]
      BY <1>5, <3>1
    <3>4. succeeded[j] \cup {<<w, n>>} \in SUBSET (Worker \X Nat)
      BY <1>3, <1>5, <3>2
    <3> HIDE DEF n
    <3>5. succeeded' \in [Job -> SUBSET (Worker \X Nat)]
      BY Zenon, <1>5, <3>1, <3>4
    <3> QED
      BY <1>3, <3>3, <3>5
  <2>2. CASE ~ok
    BY <1>1, <1>5, <2>2
  <2> QED
    BY <2>1, <2>2
<1>7. \A v \in Worker : proc'[v] = IF v = w THEN p ELSE proc[v]
  BY <1>1, <1>2
<1>8. proc' \in [Worker -> Process]
  BY <1>1, <1>2, <1>4
<1>9. Busy(p) /\ Continues(proc[w], p)
  BY <1>2, <1>4 DEF Busy, Continues, j, n
<1>10. \A v \in Worker : Continues(proc[v], proc'[v])
  BY Zenon, <1>7, <1>9 DEF Continues
<1>11. ASSUME NEW v \in Worker
       PROVE  /\ Busy(proc'[v]) <=> proc'[v].job # NULL
              /\ Busy(proc'[v]) => proc'[v].attempt > 0
              /\ proc'[v].pc = "report" /\ proc'[v].ok =>
                   <<v, proc'[v].attempt>> \in succeeded'[proc'[v].job]
  <2>1. CASE v = w
    BY <1>3, <1>4, <1>6, <1>7, <1>9, <2>1
  <2>2. CASE v # w
    <3>1. proc'[v] = proc[v]
      BY <1>7, <2>2
    <3>2. /\ Busy(proc[v]) <=> proc[v].job # NULL
          /\ Busy(proc[v]) => proc[v].attempt > 0
          /\ proc[v].pc = "report" /\ proc[v].ok => <<v, proc[v].attempt>> \in succeeded[proc[v].job]
      BY DEF QInv, ProcessesOK
    <3>3. Busy(proc[v]) => proc[v].job \in Job
      BY BusyFacts
    <3>4. proc[v].pc = "report" => Busy(proc[v])
      BY DEF Busy
    <3> QED
      BY <1>6, <3>1, <3>2, <3>3, <3>4
  <2> QED
    BY <2>1, <2>2
<1>12. ProcessesOK'
  BY <1>8, <1>11 DEF ProcessesOK, Busy
<1>13. Moves
  BY <1>1, <1>6, <1>10, <1>12, SameTable DEF Moves
<1> QED
  BY <1>13, MovesHold

(* A try of report that brought no answer. *)
LEMMA TriedOnceFacts ==
  ASSUME QInv, NEW w \in Worker, proc[w].pc = "report", TriedOnce(w),
         succeeded' = succeeded
  PROVE  /\ ProcessesOK' /\ \A v \in Worker : Continues(proc[v], proc'[v])
         /\ proc'[w].pc # "run"
<1> DEFINE p == [proc[w] EXCEPT !.tries = @ + 1]
<1>1. /\ proc \in [Worker -> Process] /\ proc[w] \in Process
      /\ Busy(proc[w]) /\ proc[w].job # NULL /\ proc[w].attempt > 0
      /\ proc[w].ok => <<w, proc[w].attempt>> \in succeeded[proc[w].job]
  BY DEF QInv, ProcessesOK, Busy
<1>2. CASE proc[w].tries + 1 < ReportTries /\ proc' = [proc EXCEPT ![w] = p]
  <2>1. proc[w].tries + 1 \in 0..(ReportTries - 1)
    BY <1>1, <1>2, Constants DEF Process
  <2>2. /\ p \in Process /\ p.pc = "report" /\ p.job = proc[w].job
        /\ p.attempt = proc[w].attempt /\ p.ok = proc[w].ok
    BY <1>1, <2>1 DEF Process
  <2>3. proc' = [proc EXCEPT ![w] = p]
    BY <1>2
  <2> HIDE DEF p
  <2>4. Busy(p) /\ Continues(proc[w], p)
    BY <1>1, <2>2 DEF Busy, Continues
  <2>5. ProcessesOK' /\ \A v \in Worker : Continues(proc[v], proc'[v])
    BY Zenon, <1>1, <2>2, <2>3, <2>4, OneProcess
  <2>6. proc'[w] = p
    BY <1>1, <2>3
  <2> QED
    BY <2>2, <2>5, <2>6
<1>3. CASE proc' = [proc EXCEPT ![w] = BackToLoop(w)]
  <2>1. proc'[w] = BackToLoop(w)
    BY <1>1, <1>3
  <2>2. BackToLoop(w).pc # "run"
    BY BackToLoopFacts DEF Busy
  <2> QED
    BY Zenon, <1>3, <2>1, <2>2, BackToLoopFacts, IdleProcess
<1>4. \/ proc[w].tries + 1 < ReportTries /\ proc' = [proc EXCEPT ![w] = p]
      \/ proc' = [proc EXCEPT ![w] = BackToLoop(w)]
  BY <1>1 DEF TriedOnce
<1> QED
  BY <1>2, <1>3, <1>4

(* A report the server executes. *)
LEMMA ReportTable ==
  ASSUME QInv, NEW w \in Worker, proc[w].pc = "report", jobs' = After(Report(w))
  PROVE  TableForward /\ Justified
<1> DEFINE m == Report(w)
<1>1. /\ m \in Message /\ m.op \in {"complete", "fail"} /\ m.worker = w /\ m.job \in Job
      /\ m.op = "complete" => /\ m.attempt \in 1..jobs[m.job].attempts
                              /\ <<w, m.attempt>> \in succeeded[m.job]
  BY ReportFacts
<1>2. jobs' = After(m)
  OBVIOUS
<1> HIDE DEF m
<1> QED
  BY <1>1, <1>2, ServedTable

(* report. *)
LEMMA ReportStep ==
  ASSUME QInv, NEW w \in Worker,
         ReportAnswered(w) \/ ReportUnheard(w) \/ ReportAbandoned(w)
  PROVE  QInv'
<1>1. proc[w].pc = "report" /\ UNCHANGED history /\ stops' \in 0..MaxStops
  BY DEF ReportAnswered, ReportUnheard, ReportAbandoned, QInv
<1>2. succeeded' = succeeded
  BY <1>1 DEF history
<1>3. CASE ReportAnswered(w)
  <2>1. /\ jobs' = After(Report(w)) /\ late' = late
        /\ proc' = [proc EXCEPT ![w] = BackToLoop(w)]
    BY <1>3 DEF ReportAnswered
  <2>2. TableForward /\ Justified
    BY <1>1, <2>1, ReportTable
  <2>3. ProcessesOK' /\ \A v \in Worker : Continues(proc[v], proc'[v])
    BY Zenon, <1>2, <2>1, BackToLoopFacts, IdleProcess
  <2> QED
    BY <1>1, <2>1, <2>2, <2>3, QuietHolds
<1>4. CASE ReportUnheard(w)
  <2>1. jobs' = After(Report(w)) /\ late' = late /\ TriedOnce(w)
    BY <1>4 DEF ReportUnheard
  <2>2. TableForward /\ Justified
    BY <1>1, <2>1, ReportTable
  <2>3. ProcessesOK' /\ \A v \in Worker : Continues(proc[v], proc'[v])
    BY <1>1, <1>2, <2>1, TriedOnceFacts
  <2> QED
    BY <1>1, <2>1, <2>2, <2>3, QuietHolds
<1>5. CASE ReportAbandoned(w)
  <2>1. jobs' = jobs /\ Abandon(Report(w)) /\ TriedOnce(w)
    BY <1>5 DEF ReportAbandoned
  <2>2. /\ ProcessesOK' /\ \A v \in Worker : Continues(proc[v], proc'[v])
        /\ proc'[w].pc # "run"
    BY <1>1, <1>2, <2>1, TriedOnceFacts
  <2>3. \A m \in late' : m \in late \/ Posted(m)
    BY <1>1, <2>1, <2>2, ReportPosted, AbandonFacts
  <2> QED
    BY <1>1, <2>1, <2>2, <2>3, ProcessStep
<1> QED
  BY <1>3, <1>4, <1>5

(* A claim that is heard: the one step that begins an execution, of an     *)
(* attempt newer than any other.                                           *)
LEMMA ClaimStep ==
  ASSUME QInv, NEW w \in Worker, NEW j \in Job, Claim(w, j)
  PROVE  QInv'
<1> DEFINE n == jobs[j].attempts + 1
           p == [Looping EXCEPT !.pc = "run", !.job = j, !.attempt = n]
<1>1. /\ ClaimedBy(w, j) /\ proc' = [proc EXCEPT ![w] = p]
      /\ starts' = [starts EXCEPT ![j] = @ + 1] /\ UNCHANGED <<late, stops, succeeded>>
  BY DEF Claim
<1>2. /\ TableForward /\ Justified /\ jobs'[j].attempts = n /\ jobs'[j].worker_id = w
  BY <1>1, ClaimTable
<1>3. \A k \in Job : /\ jobs[k].attempts \in Nat /\ jobs'[k].attempts \in Nat
                     /\ jobs[k].attempts <= jobs'[k].attempts
  BY <1>2 DEF QInv, TableOK, TableForward, Forward, RowOK, Row
<1>4. n \in Nat /\ n > 0 /\ n > jobs[j].attempts /\ j # NULL
  BY <1>3, Constants
<1>5. 0 \in 0..(ReportTries - 1)
  BY Constants
<1> HIDE DEF n
<1>6. /\ p \in Process /\ p.pc = "run" /\ p.job = j /\ p.attempt = n /\ Busy(p)
  BY Zenon, <1>4, <1>5 DEF Looping, Down, Process, Busy
<1> HIDE DEF p
<1>7. proc \in [Worker -> Process]
  BY DEF QInv, ProcessesOK
<1>8. \A v \in Worker : proc'[v] = IF v = w THEN p ELSE proc[v]
  BY <1>1, <1>7
<1>9. TableOK'
  BY <1>2 DEF TableForward, Forward, TableOK
<1>10. HistoryOK'
  <2>1. /\ starts \in [Job -> Nat] /\ succeeded \in [Job -> SUBSET (Worker \X Nat)]
        /\ \A k \in Job : starts[k] <= jobs[k].attempts
    BY DEF QInv, HistoryOK
  <2>2. starts' \in [Job -> Nat] /\ \A k \in Job : starts'[k] = IF k = j THEN starts[j] + 1 ELSE starts[k]
    BY <1>1, <2>1
  <2>3. ASSUME NEW k \in Job PROVE starts'[k] <= jobs'[k].attempts
    <3>1. starts[k] \in Nat /\ starts[k] <= jobs[k].attempts
      BY <2>1
    <3>2. CASE k = j
      BY <1>2, <1>3, <2>2, <3>1, <3>2 DEF n
    <3>3. CASE k # j
      BY <1>3, <2>2, <3>1, <3>3
    <3> QED
      BY <3>2, <3>3
  <2> QED
    BY <1>1, <2>1, <2>2, <2>3 DEF HistoryOK
<1>11. ProcessesOK'
  <2>1. proc' \in [Worker -> Process]
    BY <1>1, <1>6, <1>7
  <2>2. ASSUME NEW v \in Worker
        PROVE  /\ Busy(proc'[v]) <=> proc'[v].job # NULL
               /\ Busy(proc'[v]) => proc'[v].attempt > 0
               /\ proc'[v].pc = "report" /\ proc'[v].ok =>
                    <<v, proc'[v].attempt>> \in succeeded[proc'[v].job]
    <3>1. CASE v = w
      BY <1>4, <1>6, <1>8, <3>1
    <3>2. CASE v # w
      <4>1. proc'[v] = proc[v]
        BY <1>8, <3>2
      <4> QED
        BY <4>1 DEF QInv, ProcessesOK
    <3> QED
      BY <3>1, <3>2
  <2> QED
    BY <1>1, <2>1, <2>2 DEF ProcessesOK, Busy
<1>12. LateOK'
  <2> SUFFICES ASSUME NEW m \in late PROVE MessageOK(m)'
    BY <1>1 DEF LateOK
  <2>1. MessageOK(m) /\ m \in Message /\ m.worker \in Worker /\ m.attempt \in Nat
    BY DEF QInv, LateOK, MessageOK, Message
  <2>2. m.op # "claim" => /\ m.job \in Job /\ m.attempt > 0
                          /\ m.attempt <= jobs[m.job].attempts
    BY <2>1 DEF MessageOK
  <2>3. m.op # "claim" => m.attempt <= jobs'[m.job].attempts
    BY <1>3, <2>1, <2>2
  <2>4. m.op = "complete" => <<m.worker, m.attempt>> \in succeeded'[m.job]
    BY <1>1, <2>1 DEF MessageOK
  <2>5. ASSUME m.op \in {"complete", "fail"}, proc'[m.worker].pc = "run",
               proc'[m.worker].job = m.job
        PROVE  m.attempt < proc'[m.worker].attempt
    <3>1. CASE m.worker = w
      <4>1. m.job = j /\ proc'[m.worker].attempt = n
        BY <1>6, <1>8, <2>5, <3>1
      <4> QED
        BY <1>3, <1>4, <2>1, <2>2, <2>5, <4>1
    <3>2. CASE m.worker # w
      <4>1. proc'[m.worker] = proc[m.worker]
        BY <1>8, <2>1, <3>2
      <4> QED
        BY <2>1, <2>5, <4>1 DEF MessageOK
    <3> QED
      BY <3>1, <3>2
  <2> QED
    BY <2>1, <2>2, <2>3, <2>4, <2>5 DEF MessageOK
<1>13. CompletedJobSucceeded'
  <2> SUFFICES ASSUME NEW k \in Job, jobs'[k].status = "COMPLETED"
               PROVE  \E i \in 1..jobs'[k].attempts :
                        <<jobs'[k].worker_id, i>> \in succeeded[k]
    BY <1>1 DEF CompletedJobSucceeded
  <2>1. CASE jobs[k].status = "COMPLETED" /\ jobs'[k].worker_id = jobs[k].worker_id
    <3>1. PICK i \in 1..jobs[k].attempts : <<jobs[k].worker_id, i>> \in succeeded[k]
      BY <2>1 DEF QInv, CompletedJobSucceeded
    <3>2. i \in 1..jobs'[k].attempts
      BY <1>3, <3>1
    <3> QED
      BY <2>1, <3>1, <3>2
  <2> QED
    BY Zenon, <1>2, <2>1 DEF Justified
<1>14. OneProcessPerAttempt'
  <2> SUFFICES ASSUME NEW v \in Worker, Busy(proc'[v])
               PROVE  LET k == proc'[v].job
                          i == proc'[v].attempt
                      IN  /\ i <= jobs'[k].attempts
                          /\ i = jobs'[k].attempts /\ jobs'[k].status = "RUNNING" =>
                               jobs'[k].worker_id = v
                          /\ \A u \in Worker \ {v} : proc'[u].job = k => proc'[u].attempt # i
    BY DEF OneProcessPerAttempt, Busy
  <2>1. ASSUME NEW u \in Worker, proc[u].job = j PROVE proc[u].attempt # n
    <3>1. Busy(proc[u])
      BY Zenon, <1>4, <2>1 DEF QInv, ProcessesOK
    <3>2. proc[u].attempt \in Nat /\ proc[u].attempt <= jobs[j].attempts
      BY <2>1, <3>1, BusyFacts
    <3> QED
      BY <1>3, <1>4, <3>2
  <2>2. CASE v = w
    <3>1. proc'[v].job = j /\ proc'[v].attempt = n
      BY <1>6, <1>8, <2>2
    <3>2. \A u \in Worker \ {v} : proc'[u] = proc[u]
      BY <1>8, <2>2
    <3> QED
      BY <1>2, <1>4, <2>1, <2>2, <3>1, <3>2
  <2>3. CASE v # w
    <3> DEFINE k == proc[v].job
               i == proc[v].attempt
    <3>1. proc'[v] = proc[v] /\ Busy(proc[v])
      BY <1>8, <2>3
    <3>2. k \in Job /\ i \in Nat /\ i <= jobs[k].attempts
      BY <3>1, BusyFacts
    <3>3. /\ i = jobs[k].attempts /\ jobs[k].status = "RUNNING" => jobs[k].worker_id = v
          /\ \A u \in Worker \ {v} : proc[u].job = k => proc[u].attempt # i
      BY <3>1 DEF QInv, OneProcessPerAttempt, Busy
    <3>4. k = j => i # n
      BY <2>1
    <3>5. Forward(jobs[k], jobs'[k])
      BY <1>2, <3>2 DEF TableForward
    <3> HIDE DEF k, i
    <3>6. i <= jobs'[k].attempts
      BY <1>3, <3>2
    <3>7. i = jobs'[k].attempts /\ jobs'[k].status = "RUNNING" => jobs'[k].worker_id = v
      <4> HAVE i = jobs'[k].attempts /\ jobs'[k].status = "RUNNING"
      <4>1. jobs[k].attempts = jobs'[k].attempts
        BY <1>3, <3>2
      <4> QED
        BY <3>3, <3>5, <4>1 DEF Forward
    <3>8. ASSUME NEW u \in Worker \ {v}, proc'[u].job = k PROVE proc'[u].attempt # i
      <4>1. CASE u = w
        BY <1>6, <1>8, <3>4, <3>8, <4>1
      <4>2. CASE u # w
        BY <1>8, <3>3, <3>8, <4>2
      <4> QED
        BY <4>1, <4>2
    <3>9. proc'[v].job = k /\ proc'[v].attempt = i
      BY <3>1 DEF k, i
    <3> QED
      BY <3>6, <3>7, <3>8, <3>9
  <2> QED
    BY <2>2, <2>3
<1> QED
  BY <1>1, <1>9, <1>10, <1>11, <1>12, <1>13, <1>14 DEF QInv

(* Every step of the system keeps the invariant. *)
LEMMA StepHolds ==
  ASSUME QInv, [QNext]_qvars
  PROVE  QInv'
<1>1. CASE UNCHANGED qvars
  <2>1. jobs' = jobs /\ late' = late /\ UNCHANGED <<proc, stops, history>>
    BY <1>1 DEF qvars, history
  <2> QED
    BY <2>1, SameTable, TableStep
<1>2. CASE \E j \in Job : CancelJob(j) \/ \E max \in MaxAttempts : Submit(j, max)
  BY <1>2, CancelStep, SubmitStep
<1>3. CASE \E S \in SUBSET Job : Sweep(S)
  BY <1>3, SweepStep
<1>4. CASE Tick
  BY <1>4, TickStep
<1>5. CASE \E m \in late : ServeLate(m) \/ DropLate(m)
  BY <1>5, ServeLateStep, DropLateStep
<1>6. ASSUME NEW w \in Worker,
             Start(w) \/ Register(w) \/ Crash(w) \/ Shutdown(w) \/ Stopped(w)
      PROVE  QInv'
  BY <1>6, StartStep, CrashStep, ShutdownStep, StoppedStep
<1>7. ASSUME NEW w \in Worker, NEW j \in Job, Claim(w, j) \/ ClaimUnheard(w, j)
      PROVE  QInv'
  BY <1>7, ClaimStep, ClaimUnheardStep
<1>8. ASSUME NEW w \in Worker,
             ClaimAbandoned(w) \/ Renew(w) \/ RenewUnheard(w) \/ RenewAbandoned(w)
      PROVE  QInv'
  BY <1>8, AbandonedStep, RenewStep, RenewUnheardStep
<1>9. ASSUME NEW w \in Worker, Killed(w) \/ \E ok \in BOOLEAN : Exit(w, ok)
      PROVE  QInv'
  BY <1>9, KilledStep, ExitStep
<1>10. ASSUME NEW w \in Worker,
              ReportAnswered(w) \/ ReportUnheard(w) \/ ReportAbandoned(w)
       PROVE  QInv'
  BY <1>10, ReportStep
<1>11. QNext \/ UNCHANGED qvars
  OBVIOUS
<1> QED
  BY <1>1, <1>2, <1>3, <1>4, <1>5, <1>6, <1>7, <1>8, <1>9, <1>10, <1>11, Zenon DEF QNext

(* The invariant holds in every reachable state. *)
LEMMA Invariance ==
  QSpec => []QInv
<1>1. QInit => QInv
  BY InitHolds
<1>2. QInv /\ [QNext]_qvars => QInv'
  BY StepHolds
<1> QED
  BY <1>1, <1>2, PTL DEF QSpec

(* The table, the processes and the requests on their way are well formed. *)
THEOREM SystemTypeCorrect ==
  QSpec => []QTypeOK
<1>1. ASSUME QInv PROVE QTypeOK
  <2>1. \A j \in Job : jobs[j] \in Row
    BY <1>1 DEF QInv, TableOK, RowOK
  <2>2. \A w \in Worker : proc[w].pc \in {"run", "report"} <=> proc[w].job # NULL
    BY Zenon, <1>1 DEF QInv, ProcessesOK, Busy
  <2>3. \A m \in late : m.op # "claim" => m.job \in Job
    BY Zenon, <1>1 DEF QInv, LateOK, MessageOK
  <2> QED
    BY <1>1, <2>1, <2>2, <2>3 DEF QTypeOK, QInv, ProcessesOK, Row
<1> QED
  BY <1>1, Invariance, PTL

(* At least once: a job is COMPLETED only by a worker that has executed it *)
(* with exit status 0, however reports are lost, repeated or delayed.      *)
THEOREM CompletedWasExecuted ==
  QSpec => []CompletedJobSucceeded
<1>1. QInv => CompletedJobSucceeded
  BY DEF QInv
<1> QED
  BY <1>1, Invariance, PTL

(* No job is executed more often than max_attempts says. *)
THEOREM ExecutionsBounded ==
  QSpec => []StartsBounded
<1>1. ASSUME QInv PROVE StartsBounded
  <2> SUFFICES ASSUME NEW j \in Job
               PROVE  starts[j] <= jobs[j].attempts /\ starts[j] <= jobs[j].max_attempts
    BY DEF StartsBounded
  <2>1. starts[j] \in Nat /\ starts[j] <= jobs[j].attempts
    BY <1>1 DEF QInv, HistoryOK
  <2>2. /\ jobs[j].attempts \in Nat /\ jobs[j].max_attempts \in Nat
        /\ jobs[j].attempts <= jobs[j].max_attempts
    BY <1>1 DEF QInv, TableOK, RowOK, Row
  <2> QED
    BY <2>1, <2>2
<1> QED
  BY <1>1, Invariance, PTL

(* No attempt of a job is executed by two processes. *)
THEOREM AttemptsExecutedOnce ==
  QSpec => []OneProcessPerAttempt
<1>1. QInv => OneProcessPerAttempt
  BY DEF QInv
<1> QED
  BY <1>1, Invariance, PTL
------------------------------------------------------------------------------
(* Who may take a job away from a worker that executes it on a live lease. *)

(* A report changes only a row its sender owns; a renewal leaves the owner.*)
LEMMA ServedRows ==
  ASSUME QInv, NEW m \in Message, m.op # "claim", m.job \in Job, jobs' = After(m),
         NEW j \in Job, NEW w \in Worker, Owned(jobs[j], w)
  PROVE  \/ Owned(jobs'[j], w)
         \/ m.op \in {"complete", "fail"} /\ m.worker = w /\ m.job = j
<1>1. CASE ~Owned(jobs[m.job], m.worker)
  BY <1>1 DEF After
<1>2. CASE Owned(jobs[m.job], m.worker) /\ m.job = j
  <2>1. m.worker = w
    BY <1>2 DEF Owned
  <2>2. CASE m.op = "renew"
    <3>1. jobs = [k \in Job |-> jobs[k]] /\ RowOK(jobs[j]) /\ jobs[j].status = "RUNNING"
      BY DEF QInv, TableOK, Owned
    <3>2. jobs'[j] = Renewed(jobs[j], Lease)
      BY <1>2, <2>2, <3>1 DEF After
    <3> QED
      BY <3>1, <3>2, RenewedRow DEF Owned
  <2> QED
    BY <1>2, <2>1, <2>2 DEF Message
<1>3. CASE Owned(jobs[m.job], m.worker) /\ m.job # j
  <2>1. jobs = [k \in Job |-> jobs[k]]
    BY DEF QInv, TableOK
  <2>2. jobs'[j] = jobs[j]
    BY <1>3, <2>1 DEF After
  <2> QED
    BY <2>2
<1> QED
  BY <1>1, <1>2, <1>3

(* A claim takes a PENDING row, never one that is owned. *)
LEMMA ClaimedRows ==
  ASSUME QInv, NEW v \in Worker, NEW k \in Job, ClaimedBy(v, k),
         NEW j \in Job, NEW w \in Worker, Owned(jobs[j], w)
  PROVE  Owned(jobs'[j], w)
<1>1. j # k
  BY DEF ClaimedBy, Claimable, Owned
<1>2. jobs = [i \in Job |-> jobs[i]]
  BY DEF QInv, TableOK
<1>3. jobs'[j] = jobs[j]
  BY <1>1, <1>2 DEF ClaimedBy
<1> QED
  BY <1>3

(* The worker, its job and the late reports that may still end it. *)
LEMMA ProtectedStep ==
  ASSUME QInv, [QNext]_qvars, NEW w \in Worker, Secure(w)
  PROVE  \/ Owned(jobs'[proc[w].job], w)
         \/ \E m \in late \ late' : /\ m.worker = w /\ m.job = proc[w].job
                                     /\ m.op \in {"complete", "fail"}
                                     /\ m.attempt < proc[w].attempt
<1> DEFINE j == proc[w].job
<1>1. proc[w].pc = "run" /\ Owned(jobs[j], w) /\ jobs[j].status = "RUNNING"
  BY DEF Secure, Owned
<1>2. j \in Job
  BY <1>1, BusyFacts DEF Busy
<1>3. RowOK(jobs[j]) /\ jobs = [k \in Job |-> jobs[k]]
  BY <1>2 DEF QInv, TableOK
<1>4. jobs' = jobs => Owned(jobs'[j], w)
  BY <1>1
<1>5. ASSUME NEW k \in Job, CancelJob(k) \/ \E max \in MaxAttempts : Submit(k, max)
      PROVE  Owned(jobs'[j], w)
  <2>1. k # j
    BY <1>1, <1>5 DEF CancelJob, Submit, Exists
  <2>2. jobs'[j] = jobs[j]
    BY <1>2, <1>3, <1>5, <2>1 DEF CancelJob, Submit
  <2> QED
    BY <1>1, <2>2
<1>6. ASSUME NEW S \in SUBSET Job, Sweep(S)
      PROVE  Owned(jobs'[j], w)
  <2>1. jobs[j].lease_until >= 0
    BY DEF Secure
  <2>2. jobs[j].lease_until \in Int
    BY <1>1, <1>3, Constants DEF RowOK, Row
  <2>3. j \notin S
    BY <1>6, <2>1, <2>2 DEF Sweep, Expired
  <2>4. jobs'[j] = jobs[j]
    BY <1>2, <1>6, <2>3 DEF Sweep
  <2> QED
    BY <1>1, <2>4
<1>7. ASSUME Tick
      PROVE  Owned(jobs'[j], w)
  <2>1. jobs'[j] = Aged(jobs[j])
    BY <1>2, <1>7 DEF Tick
  <2> QED
    BY <1>1, <1>3, <2>1, AgedRow DEF Owned
<1>8. ASSUME NEW m \in late, ServeLate(m)
      PROVE  \/ Owned(jobs'[j], w)
             \/ /\ m \notin late' /\ m.worker = w /\ m.job = j
                /\ m.op \in {"complete", "fail"} /\ m.attempt < proc[w].attempt
  <2>1. MessageOK(m) /\ m \in Message /\ m.worker \in Worker
    BY DEF QInv, LateOK, MessageOK, Message
  <2>2. CASE m.op = "claim"
    <3>1. PICK k \in Job : ClaimedBy(m.worker, k)
      BY <1>8, <2>2 DEF ServeLate
    <3> QED
      BY <1>1, <1>2, <2>1, <3>1, ClaimedRows
  <2>3. CASE m.op # "claim"
    <3>1. jobs' = After(m) /\ m \notin late'
      BY <1>8, <2>3 DEF ServeLate
    <3>2. m.job \in Job
      BY <2>1, <2>3 DEF MessageOK
    <3>3. \/ Owned(jobs'[j], w)
          \/ m.op \in {"complete", "fail"} /\ m.worker = w /\ m.job = j
      BY <1>1, <1>2, <2>1, <2>3, <3>1, <3>2, ServedRows
    <3>4. m.op \in {"complete", "fail"} /\ m.worker = w /\ m.job = j => m.attempt < proc[w].attempt
      BY <1>1, <2>1 DEF MessageOK
    <3> QED
      BY <3>1, <3>3, <3>4
  <2> QED
    BY <2>2, <2>3
<1>9. ASSUME NEW v \in Worker, NEW k \in Job, Claim(v, k) \/ ClaimUnheard(v, k)
      PROVE  Owned(jobs'[j], w)
  <2>1. ClaimedBy(v, k)
    BY <1>9 DEF Claim, ClaimUnheard
  <2> QED
    BY <1>1, <1>2, <2>1, ClaimedRows
<1>10. ASSUME NEW v \in Worker, Renew(v) \/ RenewUnheard(v)
       PROVE  Owned(jobs'[j], w)
  <2>1. CASE jobs' = jobs
    BY <1>1, <2>1
  <2>2. CASE jobs' = After(Request("renew", v))
    <3> DEFINE m == Request("renew", v)
    <3>1. proc[v].job \in Job
      BY <1>10, BusyFacts DEF Renew, RenewUnheard, Renewing, Busy
    <3>2. m \in Message /\ m.op = "renew" /\ m.job \in Job
      BY <3>1, RequestFacts
    <3>3. jobs' = After(m)
      BY <2>2
    <3> HIDE DEF m
    <3> QED
      BY <1>1, <1>2, <3>2, <3>3, ServedRows
  <2> QED
    BY <1>10, <2>1, <2>2 DEF Renew, RenewUnheard
<1>11. ASSUME NEW v \in Worker,
              ReportAnswered(v) \/ ReportUnheard(v) \/ ReportAbandoned(v)
       PROVE  Owned(jobs'[j], w)
  <2>1. CASE jobs' = jobs
    BY <1>1, <2>1
  <2>2. CASE jobs' = After(Report(v))
    <3> DEFINE m == Report(v)
    <3>1. proc[v].pc = "report" /\ v # w
      BY <1>1, <1>11 DEF ReportAnswered, ReportUnheard, ReportAbandoned
    <3>2. /\ m \in Message /\ m.op \in {"complete", "fail"} /\ m.worker = v
          /\ m.job \in Job
      BY Zenon, <3>1, ReportFacts
    <3>3. jobs' = After(m)
      BY <2>2
    <3> HIDE DEF m
    <3> QED
      BY <1>1, <1>2, <3>1, <3>2, <3>3, ServedRows
  <2> QED
    BY <1>11, <2>1, <2>2 DEF ReportAnswered, ReportUnheard, ReportAbandoned
<1>12. ASSUME \/ UNCHANGED qvars
              \/ \E m \in late : DropLate(m)
              \/ \E v \in Worker :
                   \/ Start(v) \/ Register(v) \/ Crash(v) \/ Shutdown(v) \/ Stopped(v)
                   \/ ClaimAbandoned(v) \/ RenewAbandoned(v)
                   \/ Killed(v) \/ \E ok \in BOOLEAN : Exit(v, ok)
       PROVE  jobs' = jobs
  BY Zenon, <1>12 DEF qvars, DropLate, Start, Register, Crash, Shutdown, Stopped, ClaimAbandoned,
               RenewAbandoned, Killed, Exit
<1>13. QNext \/ UNCHANGED qvars
  OBVIOUS
<1> HIDE DEF j
<1>14. \/ Owned(jobs'[j], w)
       \/ \E m \in late : /\ m \notin late' /\ m.worker = w /\ m.job = j
                          /\ m.op \in {"complete", "fail"} /\ m.attempt < proc[w].attempt
  BY <1>4, <1>5, <1>6, <1>7, <1>8, <1>9, <1>10, <1>11, <1>12, <1>13, Zenon DEF QNext
<1> QED
  BY <1>14 DEF j

(* While a worker executes the attempt it holds on a live lease, nothing   *)
(* but its own late report about an earlier attempt takes the job away.    *)
THEOREM ExecutionsProtected ==
  QSpec => ExecutionProtected
<1>1. QInv /\ [QNext]_qvars =>
        [\A w \in Worker : Secure(w) =>
           \/ Owned(jobs'[proc[w].job], w)
           \/ \E m \in late \ late' : /\ m.worker = w /\ m.job = proc[w].job
                                     /\ m.op \in {"complete", "fail"}
                                     /\ m.attempt < proc[w].attempt]_qvars
  BY ProtectedStep
<1> QED
  BY <1>1, Invariance, PTL DEF QSpec, ExecutionProtected
=============================================================================
