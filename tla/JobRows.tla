------------------------------- MODULE JobRows -------------------------------
(***************************************************************************)
(* One row of the jobs table (migrations/001_init.sql) and what each SQL   *)
(* statement of internal/jobs/store.go does to it.  Every operator takes   *)
(* the row and the values the statement is given; instants are parameters, *)
(* so a module may keep them absolute or relative to its own clock.        *)
(*                                                                         *)
(* The payload, the stored output and the human-readable columns are left  *)
(* out: no guard of the store reads them.                                  *)
(***************************************************************************)
EXTENDS Integers

CONSTANT
  NULL    \* the SQL null

Terminal == {"COMPLETED", "FAILED", "CANCELED"}

Status == {"PENDING", "RUNNING"} \cup Terminal

(* An id nobody has inserted yet. *)
NoRow == [status |-> "ABSENT", attempts |-> 0, max_attempts |-> 1,
          worker_id |-> NULL, lease_until |-> NULL, available_at |-> 0]

(* Create: the column defaults, claimable from the instant of insertion. *)
Inserted(max, t) ==
  [status |-> "PENDING", attempts |-> 0, max_attempts |-> max,
   worker_id |-> NULL, lease_until |-> NULL, available_at |-> t]

Exists(r) == r.status # "ABSENT"

(* The WHERE clause of the claim query. *)
Claimable(r, t) == r.status = "PENDING" /\ r.available_at <= t

(* Claim consumes the attempt here, not when the attempt fails. *)
Claimed(r, w, until) ==
  [r EXCEPT !.status = "RUNNING", !.worker_id = w, !.lease_until = until,
            !.attempts = @ + 1]

OwnedInAnyStatus(r, w) == r.worker_id = w

(* The guard of RenewLease, Complete and Fail.  It names the worker and    *)
(* the status; neither lease_until nor the attempt is part of it.          *)
Owned(r, w) == r.status = "RUNNING" /\ r.worker_id = w

Renewed(r, until) == [r EXCEPT !.lease_until = until]

Completed(r, w) ==
  [r EXCEPT !.status = "COMPLETED", !.worker_id = w, !.lease_until = NULL]

ExhaustedTooLate(r) == r.attempts > r.max_attempts

Exhausted(r) == r.attempts >= r.max_attempts

FailedKeepingWorker(r, w, available) ==
  [r EXCEPT !.status = IF Exhausted(r) THEN "FAILED" ELSE "PENDING",
            !.lease_until = NULL, !.available_at = available]

(* Fail: available_at moves in both branches, worker_id survives only in   *)
(* a row that is FAILED for good.                                          *)
FailedBy(r, w, available) ==
  [r EXCEPT !.status = IF Exhausted(r) THEN "FAILED" ELSE "PENDING",
            !.worker_id = IF Exhausted(r) THEN w ELSE NULL,
            !.lease_until = NULL,
            !.available_at = available]

ExpiredAtOnce(r, t) == r.status = "RUNNING" /\ r.lease_until <= t

ExpiredWithRetryLeft(r, t) ==
  r.status = "RUNNING" /\ r.lease_until < t /\ r.attempts < r.max_attempts

(* The WHERE clause of the reaper; the comparison is strict. *)
Expired(r, t) == r.status = "RUNNING" /\ r.lease_until < t

ReapedWithRefund(r, available) ==
  [r EXCEPT !.status = IF Exhausted(r) THEN "FAILED" ELSE "PENDING",
            !.worker_id = IF Exhausted(r) THEN @ ELSE NULL,
            !.lease_until = NULL, !.available_at = available,
            !.attempts = IF Exhausted(r) THEN @ ELSE @ - 1]

(* The reaper's UPDATE of one row it found expired. *)
Reaped(r, available) ==
  [r EXCEPT !.status = IF Exhausted(r) THEN "FAILED" ELSE "PENDING",
            !.worker_id = IF Exhausted(r) THEN @ ELSE NULL,
            !.lease_until = NULL,
            !.available_at = available]

Canceled(r) == [r EXCEPT !.status = "CANCELED", !.lease_until = NULL]
=============================================================================
