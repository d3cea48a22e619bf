# A TLA+ verification of the job queue

The repository is a job queue on PostgreSQL: a server with an HTTP API, worker
processes that claim jobs, run them as shell commands and report the outcome,
and a reaper that takes back jobs whose lease ran out. All state is in two
tables. This directory holds TLA+ models of it, the TLC runs that check them on
small instances, and TLAPS proofs of what matters most for instances of any
size. Paths below are relative to the repository root (`src/` in `PROJECT.json`).

## 1. The system

| Part | Code | State | Modules | What makes it hard |
|---|---|---|---|---|
| Job store | `internal/jobs/store.go`, `migrations/001_init.sql` | `jobs`, `workers` | `JobRows`, `JobStore` | several requests and the reaper on one row; reads outside the transaction |
| Transactions | the same, PostgreSQL | row locks, uncommitted rows | `StoreTx` | `now()` is old, locks are taken in different orders, a transaction may die |
| Lifecycle | `internal/jobs/job.go` | status, attempts | `JobLifecycle` | two code paths (SQL and Go) decide between retry and FAILED |
| Backoff | `internal/jobs/job.go` `Delay` | none | `Backoff` | the product leaves int64 |
| Handlers, middleware | `internal/api/server.go`, `errors.go`, `middleware.go` | none | `JobStore`, `Attempt` | a request may die between two round trips; limits on bodies |
| Reaper | `internal/api/reaper.go` | ticker | `JobStore`, `StoreTx`, `QueueSystem` | races renewals and reports; batch limit |
| Worker process | `internal/worker/worker.go`, `client.go` | position in `Run`, the job it holds | `QueueSystem`, `WorkerLoops` | lost answers, late requests, crashes, restart under the same id; slow calls swallow ticks |
| Execution | `internal/worker/executor.go` | a process group, two buffers | `Attempt` | timeout, cancellation, processes left behind, output limits |
| Server start | `internal/database/database.go`, `cmd/server/main.go` | `schema_migrations` | `Migrate` | several servers check the ledger before either applies |
| Benchmark | `cmd/queue-bench` | claim records | `QueueBench` | its verdict on double dispatch, on a queue others use too |
| CLI | `cmd/queue` | none | none | |

How the parts interact: clients and workers reach the store only through HTTP;
the reaper shares the store with the handlers; a worker learns that it lost a
job only from a 409 to a renewal or report. Heartbeats are for monitoring:
recovery uses leases alone.

## 2. Modules

The same rows appear in models of different grain. `JobStore` looks between the
database round trips of handlers, `StoreTx` between the statements of one
transaction, `QueueSystem` at processes and messages, `WorkerLoops` at time,
`Attempt` at bytes. Each leaves to the others what it does not look at.

### JobRows
One row of `jobs` as a record, and one operator per SQL statement (`Claimed`,
`Renewed`, `Completed`, `FailedBy`, `Reaped`, `Canceled`) or `WHERE` clause
(`Claimable`, `Owned`, `Expired`). Every module about jobs uses it. Payload,
`last_error` and the timestamps nobody compares are left out.

### JobStore
The store behind the handlers. Clients are unconstrained: any handler may serve
any request for any job and worker at any time.

| Variable | Code |
|---|---|
| `jobs`, `workers` | the tables |
| `now` | the database clock |
| `call[h]` | what handler goroutine `h` is doing between two round trips, or the answer it gave last |
| `reaped` | history: rows returned by `ReapExpiredLeases` |

A transaction is one step. `FailRead`/`FailWrite` split `Fail` at its first
read. `Renew`, `Complete`, `FailWrite` and `Cancel` end in state `explain` when
their UPDATE matched nothing, and `Explain` is the second read (`explainLostRow`,
`replayOrConflict`, the tail of `Cancel`). `Abort` is a request that dies in
between. `SKIP LOCKED` is the parameter `locked`: any set of rows may be held by
somebody else. Attempt counts, order of claims (`available_at, id`), batch order
(`lease_until`, ties either way) and `clampLease` are kept.

### StoreTx
The same transactions as their SQL statements, under READ COMMITTED. `tx[s]` is
the transaction of database session `s`: which statement is next, the instant at
which it began (`now()`), the rows of `jobs` and `workers` it has locked in the
version it will commit (`rows`, `wrows`), and the rows a sweep selected and has
not updated yet (`todo`). `jobs` and `workers` are what is committed. A statement
that needs a row somebody else has locked is not enabled: it waits, and looks at
the committed row when it goes on. `FOR UPDATE SKIP LOCKED` passes over locked
rows. `Rollback` may come at any point.

### JobLifecycle
What the queue promises of a job, with no table, clock or request: the diagram
on `Status`. `JobStore` and `StoreTx` instantiate it with status, attempts,
limit and holder read off the (committed) row; `FollowsLifecycle` and
`CommitsFollowLifecycle` are its specification.

### Backoff
`BackoffConfig.Delay` on int64 nanoseconds, represented by four 16-bit limbs
because TLC's integers have 32 bits. Compared with doubling that stops at the
ceiling. `2^(n-1)` is exact in float64 up to the clamp at 40.

### QueueSystem
Worker processes, store, reaper and network together. `proc[w]` is the position
of the process with id `w` in `Run`/`process`/`report` (`down`, `register`,
`claim`, `run`, `report`), the job and attempt it executes, whether a 409 was
seen (`lost`), whether SIGTERM came (`stop`), the outcome, and how often the
report was sent. `late` holds requests whose sender no longer waits; each may be
served at any later time or never. `starts` and `succeeded` are history.
Times in a row are relative to the database clock, which keeps the state space
finite without a bound on time.

Every call of a worker has three actions: answered, served but unheard,
abandoned. `Crash` is kill -9, `Shutdown` is SIGTERM; a restarted process keeps
its id (`--id`). `Exit` is the end of the command in any state of its
cancellation; `Killed` its end by cancellation.

### TickerLoop and WorkerLoops
`TickerLoop` is the pattern `heartbeatLoop` and `renewLoop` share: a
`time.Ticker` whose channel holds one tick, and a call on every tick that may be
served and answered late, or fail at once, after the client's timeout, before or
after it was served. `WorkerLoops` runs both loops of one worker beside its main
goroutine (`register`, `poll`, `busy`, `report`) with explicit time: the age of
`last_heartbeat` and of the lease, the reaper, a queue that is only a number of
claimable jobs, and `Reset`, which empties the database underneath the worker.

### Attempt
One attempt from the command's first byte to the columns of its row: writes into
`boundedBuffer`, exit, a process left behind, the deadline, SIGTERM or a lost
lease, `WaitDelay`, the order of the tests after `cmd.Wait`; the report as JSON
(`RoundTrip`: what is not UTF-8 becomes U+FFFD), the body limit, recovery from a
panic, `TruncateOutput`, what a PostgreSQL text column accepts, and the retries
of `report`. A byte is one of ten kinds, told apart by what that path does to
them: characters have one, two or four bytes (U+FFFD three), may be cut after any
of them, and every byte left of one becomes a U+FFFD of its own. Bytes are
counted as the code counts them.

### QueueBench
`cmd/queue-bench`. `phase` is where the run is; the goroutines of a phase are
`posts` and `look` (a claimer stops at its second empty answer); `got` are the
claim records from which double dispatch is concluded. Around it a fleet that
comes and goes, another client, and leases that expire. A request of the
benchmark may fail before or after it took effect.

### Migrate
Server processes that start together. `ledger` is `schema_migrations`, `schema`
the sequence of bodies whose effect is committed. `Check` reads the ledger
outside the transaction; `Apply` and `Record` are the two statements of the
transaction; the primary key makes a second `Record` fail.

### Modules for TLC and for proofs
`MCJobStore`, `MCStoreTx`, `MCQueueSystem`, `MCAttempt`, `MCQueueBench` supply
constants and symmetry. `JobStoreProofs`, `StoreTxProofs`, `StoreTxRefinement`,
`QueueSystemProofs`, `WorkerLoopsProofs` and `MigrateProofs` hold the theorems.
Operators that stand directly before another one and do nearly the same
(`ExpiredAtOnce` before `Expired`) are the plausible bugs the properties are
tested against; no specification uses them.

## 3. Runs

| Run | Instance | Shows |
|---|---|---|
| `store` | 1 job, 2 workers, 2 handlers, clock to 4 | `TypeOK`, `JobsConsistent`, `CurrentJobIsHeld`, `AttemptsAccounted`, `AnswersHold`, `ClaimsExclusive`, `LeaseProtects`, `FollowsLifecycle` under every interleaving of two requests, the reaper and the clock |
| `tx` | 2 jobs, 2 workers, 2 sessions, lease 0, clock to 1 | `NoDeadlock`, `CurrentJobHeld`, `LeaseHonored`, `CommitsFollowLifecycle` under every interleaving of two transactions' statements |
| `backoff` | 56 flag settings, 100 attempts | `DelayIsCappedDoubling` |
| `system` | 1 job, 2 workers, 2 stops, 2 late requests, 4 report tries | `QTypeOK`, `CompletedJobSucceeded`, `StartsBounded`, `OneProcessPerAttempt`, `ExecutionProtected` |
| `system_live` | 2 jobs, 1 worker, 1 stop, 1 late request | `JobsFinish` |
| `loops` | the default intervals and timeouts in units of 2.5 s, answers within 2.5 s, 2 missed heartbeats, 1 missed renewal, 1 reset | `HealthyIsAlive`, `LeaseKept`, `ForgottenWorkerServes` |
| `attempt` | buffers of 4 bytes, body of 32, 2 writes, 3 faults, 4 tries | `NothingCutSilently`, `CompletedMeansFinished`, `TextIsRecorded`, `AttemptEnds` |
| `bench` | levels 2 and 2, 4 job ids, 1 worker, 1 failed request, 1 foreign job | `NoFalseAlarm`, `QueueIsPutBack`, `OnlyFaultsFail`, `DrainIsSound`, `BenchEnds` |
| `migrate` | 3 servers, 2 migrations, 2 kills | `MTypeOK`, `SchemaInOrder`, `ServesOnFullSchema`, `EveryServerServes` |

Deadlock checking is off where the model comes to a legitimate end: the job used
all its attempts (`backoff`), the report is over (`attempt`), the benchmark has
ended (`bench`), all servers serve (`migrate`).

Three runs expect a violation: each states a sentence of the repository the code
does not keep. `PROJECT.json` quotes the sentences.

| Run | What TLC shows |
|---|---|
| `fencing` | a late report about an earlier attempt ends a later one of the same worker |
| `renewals` | two renewals that time out take the whole lease, and the reaper takes the job of a running command |
| `long_output` | output cut in the middle of a character grows on its way, is cut again inside U+FFFD, and is refused by the database: the report is lost |

None of this loses a result that was acknowledged; `AnswersHold` and
`CompletedJobSucceeded` hold all the same.

### What else the models show

Store and workers:

* A report after the lease ran out and before the sweep is accepted
  (`docs/DESIGN.md:62` promises a 409). `Complete` and `Fail` do not read
  `lease_until`.
* `Fail` may apply the delay of an earlier attempt of the same worker: it reads
  `attempts` before its transaction (`FailRead`, then a sweep and a claim, then
  `FailWrite`).
* A failure report about a PENDING job nobody claimed is answered 200, as a
  replay. It changes nothing.
* A job whose claims were all committed and never heard ends FAILED without
  having been executed (`ClaimUnheard`, then `Sweep`).
* `heartbeatLoop` only logs the 404 of a server that has forgotten the worker.
  The worker registers when a claim that finds a job is refused, so it stays
  invisible on an empty queue and still serves (`ForgottenWorkerServes`).
* Of two servers that start together the second may exit with an error from
  `Migrate` and come up after its restart.

Transactions:

* The sweep's UPDATE repeats `AND status = 'RUNNING'`, which the comment says
  keeps it correct "if the query above is ever relaxed". It would not:
  without the lock of the SELECT (`SweepSelectUnlocked`) a lease that was renewed
  in between is reaped.
* What keeps a sweep from deadlocks with reports is `AND current_job_id = $2`: a
  worker row is wanted only while it names the job the sweep has locked.

Timing, with the defaults:

* Two heartbeats in a row may time out.
* One renewal may time out, provided calls that are answered take at most 2.5 s.
  Two may fail only if the failures are quick.
* When no renewal failed, 15 s of the lease are left to a report that may take
  20 s (`reportCtx`).

Output:

* Of a character that is cut, U+FFFD may be left before the marker: one of four
  bytes cut after its third becomes three of them, and `TruncateOutput` keeps the
  first. `NothingCutSilently` therefore compares the columns with what a beginning
  of the output reads as, not with a beginning of the whole.
* A NUL byte, and output that is not UTF-8 and outgrows the limit once it is
  replaced, lose the report as the run `long_output` shows.
* Two streams full of characters that JSON escapes exceed the body limit of
  256 KiB; the 4xx is not retried. `TextIsRecorded` therefore excludes escapes on
  both streams at once.
* A command that exits with 0 and leaves a child holding its pipes is reported
  as failed. The child of a shell that has exited is not killed, nor is one that
  has left the process group.
* The result of `TruncateOutput` is longer than `MaxResultBytes` by its marker.

Benchmark:

* With `max_attempts` 1 an expired lease ends FAILED, so the seeded jobs cannot
  raise a false alarm. The comment at `cmd/queue-bench/claim.go:20` expects
  PENDING. A job of another client, with retries, can raise one; `NoFalseAlarm`
  is about the benchmark's own jobs.
* Pipeline mode may take the claimers of a recent claim run for live workers.

### Bounds

* Jobs and workers: a row's guard never reads another row, except for the order
  of claims, the batch and `current_job_id`. `tx` has two of each, so a worker
  may hold two jobs and a sweep may take two.
* Two handlers: every answer depends on one request and what the others did in
  between, and one other handler with the reaper and the clock can do anything.
* Two sessions: a deadlock of two transactions needs two workers. One between
  two sweeps needs four jobs; there the theorem `StoreNeverDeadlocks` is what we
  have. With lease 0 and the clock to 1, a lease has run out or not, and `now()`
  of a transaction is current or old.
* `store` runs with a default lease below the minimum, which the server accepts
  (`--lease-seconds` is not clamped, `cmd/server/main.go:80`), and with requests
  on every branch of `clampLease`: none, too short, within the limits, too long.
* `max_attempts` 1 and 2: the last attempt, and one that is not the last.
* The clock's bound in `store` exceeds lease plus delay, so a job can be claimed,
  reaped, claimed again and reaped again. The run `fencing` confirms that late
  requests meet later attempts.
* `loops`: 2.5 s is the largest unit that divides the defaults (15, 10, 60, 30
  and 20 s). The bounds on failures are tight: one more failure in a row
  violates each invariant.
* `attempt`: with four bytes a character of four may be whole or cut after one,
  two or three, and U+FFFD whole or cut; 32 bytes of body
  hold one stream of escapes and not two. Three faults and four tries as in the
  code.
* `bench`: two levels of the same size share their claimers' ids; four ids are a
  job left from before, one job per level or phase, and a foreign one.
* `backoff` is not a statement about every setting: with a base of 3531 s and a
  ceiling above 4.7 days, or 859 s and above 40 days, a wrapped product is
  positive and below the ceiling. The settings of the run are the usual ones.

### Fairness

* `QueueSystem`. `Tick`, `Sweep`: the clock runs, and the reaper's ticker retries
  after errors. `Start`: `docker-compose.yml` says `restart: unless-stopped`.
  `Register`, `Stopped`, `Killed`/`Exit`, and the report actions: a process runs
  its code; a command ends at the job timeout at the latest; every HTTP call
  returns because the client has a timeout. Nothing is assumed about how a
  report ends: all of them may be lost. A worker that keeps polling while a job
  is claimable gets a claim committed in the end, heard or not.
* `WorkerLoops`. Weak fairness of the main goroutine's own steps; strong fairness
  of the answer to a registration, which is retried for ever. A heartbeat or a
  renewal may fail `MissedBeats` or `MissedRenewals` times in a row and no more.
* `Attempt`. The deadline's timer, the worker's steps and the server's. Neither
  the command nor what it leaves behind need ever end.
* `QueueBench`. Weak fairness of the benchmark as a whole: every request, the
  drain and `awaitTerminal` have a timeout. `claimUntilEmpty` and `cancelPending`
  have none and end by what the queue answers: `BenchEnds` holds because other
  clients submit a bounded number of jobs (`MaxForeign`). Under a steady stream of
  foreign jobs a claim run need not end.
* `Migrate`. Weak fairness of each server's own steps, `Boot` included (the same
  restart policy).

## 4. Proofs

All proofs hold for arbitrary sets and numbers in place of the instances above,
under the named assumptions of the modules (`JobAssumption`, `NullAssumption`,
`AttemptsAssumption`, `LeaseAssumption`, `DelayAssumption`, `BoundAssumption`;
`TxAssumption`; `SystemAssumption`; `CallAssumption`, `LoopsAssumption`;
`MigrateAssumption`): ids are numbers, `NULL` is not a value, limits and times
are natural numbers, and `max_attempts` lies in the range `ValidateNew` accepts.

### JobStoreProofs

* `TypeCorrect`, `JobsAlwaysConsistent`, `CurrentJobAlwaysHeld`. The inductive
  invariant is `IInv`: the three together with `CallsWellFormed`, which says that
  a request between two round trips names an existing id. `JobsConsistent` is
  what makes `TypeOK` inductive: a claim may increment `attempts` only because a
  PENDING row has an attempt left. Lemmas about single statements (`ClaimedRow`,
  `FailedRow`, `ReapedRow`, ...) carry the argument; then one lemma per action.
* `StoreImplementsLifecycle`: the refinement. `StepEdges` shows that each step
  takes each row along one edge or leaves it, `EdgesAreLifecycle` that these are
  the edges of the diagram.
* `AnswersAlwaysHold`: an answer is justified when given (`AnswersJustified`),
  and terminal rows never change (from `StepEdges`).
* `ClaimsAlwaysExclusive`: attempts never decrease, and a claim answers with a
  count no earlier claim answered with.
* `LeasesAlwaysProtect`: an action property, by cases on the actions
  (`RunningKept`).

### StoreTxProofs and StoreTxRefinement

* `StoreNeverDeadlocks`, `CommittedCurrentJobIsHeld`, from the invariant `TInv`:
  the types, what each transaction holds and knows at each of its statements, and
  that no row is locked twice. The argument is a rank (`Level`): a request that
  waits for a job row holds nothing; one that waits for a worker row waits for a
  transaction that has no row left to wait for, or for a sweep; a sweep wants a
  worker row only while it names a job the sweep has locked, so no other sweep
  can hold it, and whoever does hold it is about to commit. Two sweeps therefore
  never wait for each other, although each takes its locks in the order of leases.
* `TransactionsImplementLifecycle`, `RunningLeaseIsHonored`, from `RInv`, which
  adds: transactions began in the past (`Clocks`), rows are well formed
  (`RowsOK`), every version a transaction will commit is one edge of the diagram
  away from the committed row (`Versions`), and what a sweep has selected is
  overdue by the clock, in the committed row (`Overdue`). The last two are what
  row locks buy: they hold because nobody else can commit the row in between.

### QueueSystemProofs

`SystemTypeCorrect`, `CompletedWasExecuted`, `ExecutionsBounded`,
`AttemptsExecutedOnce`, `ExecutionsProtected`, for any number of jobs, processes,
crashes and late requests, from `QInv`. Beside the properties it says that rows
are consistent (`TableOK`), that executions do not outnumber attempts
(`HistoryOK`), that a process and the table agree about the attempt it executes
(`ProcessesOK`), and that a late request carries an attempt its sender was given
and, if it is a completion, one that succeeded (`LateOK`). Every step but a heard
claim satisfies `Moves` (rows go forward, processes continue or forget, late
requests were posted by a process), and `Moves` preserves `QInv` whatever the
action is; the heard claim, which starts an execution, is a case of its own.

### WorkerLoopsProofs

`WorkerStaysAlive` and `RunningCommandKeepsLease`, for all intervals, timeouts,
leases, latencies and bounds on failures in a row that satisfy one inequality:
`Oldest(interval, missed)`, that is the latency, one interval, `missed` times the
longer of interval and client timeout, and the latency again, is below the
server's heartbeat timeout, or at most the lease. The invariant `Control` ties
the loops to the main goroutine; `LoopInv` bounds the age by the position in the
ticker's period, the number of failures and the flight of the current call, with
one case for each state of a loop.

### MigrateProofs

`SchemaAlwaysInOrder` and `AlwaysServesOnFullSchema`, from `MInv`. It adds to
`MTypeOK` and `SchemaInOrder` that a server in its loop has everything before
`next` in the ledger (`LoopPosition`).

### Only model-checked

`AttemptsAccounted` (a sum over a set needs an induction), `Backoff` (recursive
functions), `Attempt` and `QueueBench`, and all liveness, which is out of the
prover's reach.

## 5. Not modelled

* The command-line client (`cmd/queue/main.go`): one request per command, flags
  and formatting. Its wait loop is the one `awaitTerminal` of the benchmark
  repeats.
* Logging, configuration, the comparison of the auth token, the JSON bodies of
  the mux's own errors, the read-only endpoints except for the counts and the
  liveness they show.
* Graceful shutdown of the server and the limits of its connection pool. The
  models let a request die at any point, which covers more.
* SIGTERM in real time: `cmd/worker/main.go:46` says the job is "retried
  immediately", but `Fail` applies the backoff, and ends the job if it was the
  last attempt. `QueueSystem` has the step and says nothing about when.
* The converse of `CurrentJobIsHeld`: a worker that holds two jobs and completes
  one shows none in `GET /workers`.
* Fractional seconds in `clampLease` and the backoff flags; int64 overflow of a
  huge `lease_seconds` (`internal/api/server.go:146`).
* `--skip-migrate`.
* PostgreSQL itself: `StoreTx` and `Migrate` take READ COMMITTED, row locks and
  primary keys from its documentation as the code relies on them.
