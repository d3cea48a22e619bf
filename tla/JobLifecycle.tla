---------------------------- MODULE JobLifecycle ----------------------------
(***************************************************************************)
(* What the queue promises about its jobs, with no table, worker row,      *)
(* clock or request in sight: the diagram on the Status type in            *)
(* internal/jobs/job.go.  One step may move several jobs, as a sweep of    *)
(* the reaper does, but each job only along one edge of the diagram.       *)
(***************************************************************************)
EXTENDS Integers

CONSTANTS Job, Worker, NULL

VARIABLES
  status,     \* status of each job; "ABSENT" until it is submitted
  attempts,   \* attempts consumed so far
  limit,      \* max_attempts
  holder      \* worker the job is handed to, or was finished by

lvars == <<status, attempts, limit, holder>>

LInit ==
  /\ status = [j \in Job |-> "ABSENT"]
  /\ attempts = [j \in Job |-> 0]
  /\ limit = [j \in Job |-> 1]
  /\ holder = [j \in Job |-> NULL]

Becomes(j, s, n, w) == status'[j] = s /\ attempts'[j] = n /\ holder'[j] = w

LSubmit(j) ==
  /\ status[j] = "ABSENT"
  /\ Becomes(j, "PENDING", 0, NULL)
  /\ limit'[j] >= 1

(* A claim starts attempt n + 1, and only if the job has one left. *)
LClaim(j) ==
  /\ status[j] = "PENDING" /\ attempts[j] < limit[j]
  /\ \E w \in Worker : Becomes(j, "RUNNING", attempts[j] + 1, w)
  /\ limit'[j] = limit[j]

LCancel(j) ==
  /\ status[j] = "PENDING"
  /\ Becomes(j, "CANCELED", attempts[j], NULL)
  /\ limit'[j] = limit[j]

LComplete(j) ==
  /\ status[j] = "RUNNING"
  /\ Becomes(j, "COMPLETED", attempts[j], holder[j])
  /\ limit'[j] = limit[j]

(* A failure or an expired lease: another attempt if one is left ... *)
LRetry(j) ==
  /\ status[j] = "RUNNING" /\ attempts[j] < limit[j]
  /\ Becomes(j, "PENDING", attempts[j], NULL)
  /\ limit'[j] = limit[j]

(* ... and the end of the job if none is. *)
LGiveUp(j) ==
  /\ status[j] = "RUNNING" /\ attempts[j] = limit[j]
  /\ Becomes(j, "FAILED", attempts[j], holder[j])
  /\ limit'[j] = limit[j]

LMove(j) ==
  \/ LSubmit(j) \/ LClaim(j) \/ LCancel(j)
  \/ LComplete(j) \/ LRetry(j) \/ LGiveUp(j)

LStay(j) ==
  /\ Becomes(j, status[j], attempts[j], holder[j])
  /\ limit'[j] = limit[j]

LNext == \A j \in Job : LMove(j) \/ LStay(j)

LSpec == LInit /\ [][LNext]_lvars
=============================================================================
