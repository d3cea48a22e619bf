------------------------------ MODULE QueueBench ------------------------------
(***************************************************************************)
(* cmd/queue-bench, the load generator whose claim mode doubles as the     *)
(* repository's check for double dispatch, run against a queue that other  *)
(* programs use too: workers that start and stop after the benchmark has   *)
(* looked for them, another client that submits, leases that expire.       *)
(*                                                                         *)
(* A request of the benchmark is one step of the server.  It may fail,     *)
(* before or after it took effect.  Rates and latencies are left out.      *)
(***************************************************************************)
EXTENDS JobRows, FiniteSets, Sequences

CONSTANTS
  Job,              \* 1..n, handed out in this order
  Worker,           \* the worker fleet
  Levels,           \* --claim-levels: the numbers of claimers
  Backlog,          \* --claim-jobs, and --jobs in pipeline mode
  Samples,          \* --latency-samples
  Page,             \* jobs cancelPending asks for at a time
  DefaultAttempts,  \* max_attempts of a submission that names none
  MaxFaults,        \* bound: requests of the benchmark that fail
  MaxForeign        \* bound: jobs another client submits

VARIABLES
  mode,      \* --mode
  phase,     \* where the benchmark is; "done" and "failed" end it
  level,     \* index into Levels
  posts,     \* submissions of this phase
  failed,    \* a goroutine of this phase has kept an error
  look,      \* the claimers of this level: first, second, done
  got,       \* claim records: for each job, the claimers that got it
  todo,      \* claim records still to clean up
  page,      \* jobs still to cancel
  baseline,  \* terminalCount before the first submission
  ours,      \* jobs submitted by the benchmark
  jobs,      \* the jobs table
  alive,     \* workers of the fleet with a recent heartbeat
  quiet,     \* nobody has interfered since the benchmark looked for workers
  foreign,
  faults

run == <<mode, level, posts, failed, look, got, todo, page, baseline, ours>>

outside == <<alive, quiet, foreign>>

bvars == <<phase, run, jobs, outside, faults>>

(* parseLevels refuses anything else. *)
AreLevels(q) == q \in Seq(Nat \ {0}) /\ q # <<>>

(* bench-claimer-<level>-<i>: two levels of the same size share their claimers. *)
Claimer == UNION {{n} \X (1..n) : n \in {Levels[i] : i \in DOMAIN Levels}}

ASSUME BenchAssumption ==
  /\ AreLevels(Levels) /\ Backlog \in Nat /\ Samples \in Nat
  /\ Page \in Nat \ {0} /\ DefaultAttempts \in Nat \ {0}

Having(S) == {j \in Job : jobs[j].status \in S}

NextId == CHOOSE j \in Job : ~Exists(jobs[j]) /\ \A k \in Job : k < j => Exists(jobs[k])

(* An earlier run may have left jobs behind, finished or not. *)
BInit ==
  /\ mode \in {"pipeline", "claim"} /\ phase = "workers"
  /\ level = 1 /\ posts = 0 /\ failed = FALSE
  /\ look = <<>> /\ got = [j \in Job |-> <<>>] /\ todo = {} /\ page = {}
  /\ baseline = 0 /\ ours = {}
  /\ \E first \in {NoRow, Inserted(1, 0), Canceled(Inserted(1, 0))} :
       jobs = [j \in Job |-> IF j = 1 THEN first ELSE NoRow]
  /\ alive \in {{}, Worker} /\ quiet = TRUE /\ foreign = 0 /\ faults = 0

Fault == faults < MaxFaults /\ faults' = faults + 1

(* A request that is not part of a concurrent phase fails: so does the run. *)
Aborts ==
  /\ phase \in {"workers", "empty", "baseline", "list", "cancel", "drain", "median", "await"}
  /\ Fault /\ phase' = "failed"
  /\ UNCHANGED <<run, jobs, outside>>
------------------------------------------------------------------------------
(* Claim mode: a fleet would compete for the backlog. *)
ForeignAliveWorkers ==
  /\ phase = "workers" /\ mode = "claim" /\ quiet' = TRUE
  /\ phase' = IF alive = {} THEN "empty" ELSE "failed"
  /\ UNCHANGED <<run, jobs, alive, foreign, faults>>

(* Pipeline mode refuses a queue without workers, and may take the         *)
(* claimers of a recent claim run for workers.                             *)
AliveWorkers ==
  /\ phase = "workers" /\ mode = "pipeline" /\ quiet' = TRUE
  /\ \/ phase' = "empty"
     \/ phase' = "failed" /\ alive = {}
  /\ UNCHANGED <<run, jobs, alive, foreign, faults>>

SkipRequireEmpty ==
  /\ phase = "empty"
  /\ phase' = IF mode = "claim" THEN "submit" ELSE "baseline"
  /\ UNCHANGED <<run, jobs, outside, faults>>

(* requireEmptyQueue. *)
RequireEmpty ==
  /\ phase = "empty"
  /\ phase' = IF Having({"PENDING", "RUNNING"}) # {} THEN "failed"
              ELSE IF mode = "claim" THEN "submit" ELSE "baseline"
  /\ UNCHANGED <<run, jobs, outside, faults>>

TerminalCount == Cardinality(Having(Terminal))

Baseline ==
  /\ phase = "baseline" /\ baseline' = TerminalCount /\ phase' = "submit"
  /\ UNCHANGED <<mode, level, posts, failed, look, got, todo, page, ours, jobs, outside, faults>>

Insert(max) ==
  /\ jobs' = [jobs EXCEPT ![NextId] = Inserted(max, 0)]
  /\ ours' = ours \cup {NextId}

(* One request of one of the goroutines of a phase: they go on after an    *)
(* error.                                                                  *)
Post(max) ==
  /\ phase = "submit" /\ posts < Backlog
  /\ posts' = posts + 1
  /\ \/ Insert(max) /\ UNCHANGED <<failed, faults>>
     \/ /\ Fault /\ failed' = TRUE
        /\ Insert(max) \/ UNCHANGED <<jobs, ours>>
  /\ UNCHANGED <<mode, phase, level, look, got, todo, page, baseline, outside>>

SeedDefault == mode = "claim" /\ Post(DefaultAttempts)

(* seedBacklog: a failure is to be terminal. *)
Seed == mode = "claim" /\ Post(1)

(* submitPhase. *)
SubmitJob == mode = "pipeline" /\ Post(DefaultAttempts)

(* seedBacklog returns, and raceClaimers registers its claimers. *)
SeedEnds ==
  /\ phase = "submit" /\ mode = "claim" /\ posts = Backlog /\ posts' = 0
  /\ \/ failed /\ phase' = "failed" /\ UNCHANGED <<look, faults>>
     \/ ~failed /\ Fault /\ phase' = "failed" /\ UNCHANGED look
     \/ /\ ~failed /\ phase' = "race" /\ UNCHANGED faults
        /\ look' = [k \in 1..Levels[level] |-> "first"]
  /\ UNCHANGED <<mode, level, failed, got, todo, page, baseline, ours, jobs, outside>>

SubmitEnds ==
  /\ phase = "submit" /\ mode = "pipeline" /\ posts = Backlog /\ posts' = 0
  /\ phase' = IF failed THEN "failed" ELSE "drain"
  /\ UNCHANGED <<mode, level, failed, look, got, todo, page, baseline, ours, jobs, outside, faults>>
------------------------------------------------------------------------------
(* Claim mode. *)
(* A job that was tried before may not be due yet. *)
Due == {j \in Having({"PENDING"}) : jobs[j].attempts = 0}

(* SKIP LOCKED: a row that another claim has locked looks like no row. *)
OthersClaim(k) == alive # {} \/ \E i \in DOMAIN look \ {k} : look[i] # "done"

(* What the claim query may return: the oldest job that is due, or, with   *)
(* others at work, any.                                                    *)
MayGet(k, j) ==
  /\ jobs[j].status = "PENDING"
  /\ OthersClaim(k) \/ \A i \in Due : j <= i

MayGetNone(k) == OthersClaim(k) \/ Due = {}

ClaimForever(k) ==
  /\ phase = "race" /\ look[k] # "done"
  /\ \/ \E j \in Job :
          /\ MayGet(k, j)
          /\ jobs' = [jobs EXCEPT ![j] = Claimed(@, <<Levels[level], k>>, 0)]
          /\ got' = [got EXCEPT ![j] = Append(@, <<Levels[level], k>>)]
          /\ UNCHANGED <<look, failed, faults>>
     \/ /\ MayGetNone(k) /\ look' = [look EXCEPT ![k] = "second"]
        /\ UNCHANGED <<jobs, got, failed, faults>>
  /\ UNCHANGED <<mode, phase, level, posts, todo, page, baseline, ours, outside>>

(* claimUntilEmpty: one request of claimer k.  An error discards what this *)
(* claimer has got and, later, the whole run.                              *)
ClaimOne(k) ==
  /\ phase = "race" /\ look[k] # "done"
  /\ \/ \E j \in Job :
          /\ MayGet(k, j)
          /\ jobs' = [jobs EXCEPT ![j] = Claimed(@, <<Levels[level], k>>, 0)]
          /\ \/ /\ got' = [got EXCEPT ![j] = Append(@, <<Levels[level], k>>)]
                /\ look' = [look EXCEPT ![k] = "first"]
                /\ UNCHANGED <<failed, faults>>
             \/ /\ Fault /\ failed' = TRUE
                /\ look' = [look EXCEPT ![k] = "done"] /\ UNCHANGED got
     \/ /\ MayGetNone(k)
        /\ look' = [look EXCEPT ![k] = IF @ = "first" THEN "second" ELSE "done"]
        /\ UNCHANGED <<jobs, got, failed, faults>>
     \/ /\ Fault /\ failed' = TRUE /\ look' = [look EXCEPT ![k] = "done"]
        /\ UNCHANGED <<jobs, got>>
  /\ UNCHANGED <<mode, phase, level, posts, todo, page, baseline, ours, outside>>

Records == {<<j, c>> \in Job \X Claimer : \E i \in DOMAIN got[j] : got[j][i] = c}

(* raceClaimers returns; the next level, or the cleanup. *)
RaceEnds ==
  /\ phase = "race" /\ \A k \in DOMAIN look : look[k] = "done"
  /\ look' = <<>>
  /\ \/ failed /\ phase' = "failed" /\ UNCHANGED <<level, todo>>
     \/ /\ ~failed /\ level < Len(Levels)
        /\ level' = level + 1 /\ phase' = "submit" /\ UNCHANGED todo
     \/ /\ ~failed /\ level = Len(Levels)
        /\ todo' = Records /\ phase' = "cleanup" /\ UNCHANGED level
  /\ UNCHANGED <<mode, posts, failed, got, page, baseline, ours, jobs, outside, faults>>

NeverReplay(r, c) == FALSE

(* replayOrConflict, for a failure that was reported before or a job that  *)
(* the reaper has failed.                                                  *)
IsReplay(r, c) ==
  \/ r.status = "FAILED" /\ r.worker_id = c
  \/ r.status = "PENDING" /\ r.worker_id = NULL

(* cleanup: one request of one of its goroutines. *)
CleanUp(j, c) ==
  /\ phase = "cleanup" /\ <<j, c>> \in todo /\ todo' = todo \ {<<j, c>>}
  /\ \/ /\ Owned(jobs[j], c) /\ jobs' = [jobs EXCEPT ![j] = FailedBy(@, c, 0)]
        /\ UNCHANGED <<failed, faults>>
     \/ /\ ~Owned(jobs[j], c) /\ failed' = (failed \/ ~IsReplay(jobs[j], c))
        /\ UNCHANGED <<jobs, faults>>
     \/ /\ Fault /\ failed' = TRUE
        /\ \/ Owned(jobs[j], c) /\ jobs' = [jobs EXCEPT ![j] = FailedBy(@, c, 0)]
           \/ UNCHANGED jobs
  /\ UNCHANGED <<mode, phase, level, posts, look, got, page, baseline, ours, outside>>

CleanUpEndsEarly ==
  /\ phase = "cleanup" /\ todo = {}
  /\ phase' = IF failed THEN "failed" ELSE "done"
  /\ UNCHANGED <<run, jobs, outside, faults>>

CleanUpEnds ==
  /\ phase = "cleanup" /\ todo = {}
  /\ phase' = IF failed THEN "failed" ELSE "list"
  /\ UNCHANGED <<run, jobs, outside, faults>>

(* cancelPending: the newest jobs first, a page at a time. *)
List ==
  /\ phase = "list"
  /\ \E S \in SUBSET Having({"PENDING"}) :
       /\ Cardinality(S) = IF Cardinality(Having({"PENDING"})) < Page
                             THEN Cardinality(Having({"PENDING"})) ELSE Page
       /\ \A j \in S, k \in Having({"PENDING"}) \ S : k < j
       /\ page' = S
       /\ phase' = IF S = {} THEN "done" ELSE "cancel"
  /\ UNCHANGED <<mode, level, posts, failed, look, got, todo, baseline, ours, jobs, outside, faults>>

CancelOne ==
  /\ phase = "cancel" /\ page # {}
  /\ LET j == CHOOSE j \in page : \A k \in page : k <= j IN
       /\ page' = page \ {j}
       /\ \/ /\ jobs[j].status = "PENDING" /\ jobs' = [jobs EXCEPT ![j] = Canceled(@)]
             /\ \/ UNCHANGED <<phase, faults>>
                \/ Fault /\ phase' = "failed"
          \/ /\ jobs[j].status # "PENDING" /\ UNCHANGED <<jobs, faults>>
             /\ phase' = IF jobs[j].status = "CANCELED" THEN phase ELSE "failed"
  /\ UNCHANGED <<mode, level, posts, failed, look, got, todo, baseline, ours, outside>>

PageEnds ==
  /\ phase = "cancel" /\ page = {} /\ phase' = "list"
  /\ UNCHANGED <<run, jobs, outside, faults>>
------------------------------------------------------------------------------
(* Pipeline mode. *)
Drained == TerminalCount - baseline >= Backlog

(* drainPhase polls; it gives up at its deadline or without workers. *)
Drain ==
  /\ phase = "drain"
  /\ phase' = IF Drained THEN "median" ELSE "failed"
  /\ UNCHANGED <<run, jobs, outside, faults>>

(* medianDurationMS needs a completed job. *)
Median ==
  /\ phase = "median"
  /\ phase' = IF Having({"COMPLETED"}) = {} THEN "failed"
              ELSE IF Samples = 0 THEN "done" ELSE "sample"
  /\ UNCHANGED <<run, jobs, outside, faults>>

(* latencyPhase and awaitTerminal. *)
Sample ==
  /\ phase = "sample" /\ posts' = posts + 1
  /\ \/ Insert(DefaultAttempts) /\ phase' = "await" /\ UNCHANGED faults
     \/ /\ Fault /\ phase' = "failed"
        /\ Insert(DefaultAttempts) \/ UNCHANGED <<jobs, ours>>
  /\ UNCHANGED <<mode, level, failed, look, got, todo, page, baseline, outside>>

Last(S) == CHOOSE j \in S : \A k \in S : k <= j

Await ==
  /\ phase = "await"
  /\ phase' = IF jobs[Last(ours)].status \notin Terminal THEN "failed"
              ELSE IF posts = Samples THEN "done" ELSE "sample"
  /\ UNCHANGED <<run, jobs, outside, faults>>
------------------------------------------------------------------------------
(* Everybody else. *)
FleetChanges ==
  /\ alive' \in {{}, Worker} \ {alive} /\ quiet' = (quiet /\ mode = "pipeline")
  /\ UNCHANGED <<phase, run, jobs, foreign, faults>>

WorkerClaims(w) ==
  /\ w \in alive /\ \A j \in Job : ~Owned(jobs[j], w)
  /\ \E j \in Having({"PENDING"}) : jobs' = [jobs EXCEPT ![j] = Claimed(@, w, 0)]
  /\ UNCHANGED <<phase, run, outside, faults>>

WorkerReports(w, j) ==
  /\ Owned(jobs[j], w)
  /\ \/ jobs' = [jobs EXCEPT ![j] = Completed(@, w)]
     \/ jobs' = [jobs EXCEPT ![j] = FailedBy(@, w, 0)]
  /\ UNCHANGED <<phase, run, outside, faults>>

LeaseExpires(j) ==
  /\ jobs[j].status = "RUNNING" /\ jobs' = [jobs EXCEPT ![j] = Reaped(@, 0)]
  /\ UNCHANGED <<phase, run, outside, faults>>

ForeignSubmit ==
  /\ foreign < MaxForeign /\ \E j \in Job : ~Exists(jobs[j])
  /\ jobs' = [jobs EXCEPT ![NextId] = Inserted(DefaultAttempts, 0)]
  /\ foreign' = foreign + 1 /\ quiet' = FALSE
  /\ UNCHANGED <<phase, run, alive, faults>>

Bench ==
  \/ ForeignAliveWorkers \/ AliveWorkers \/ RequireEmpty \/ Baseline
  \/ Seed \/ SeedEnds \/ SubmitJob \/ SubmitEnds
  \/ \E k \in DOMAIN look : ClaimOne(k)
  \/ RaceEnds \/ \E j \in Job, c \in Claimer : CleanUp(j, c)
  \/ CleanUpEnds \/ List \/ CancelOne \/ PageEnds
  \/ Drain \/ Median \/ Sample \/ Await

(* The behaviours of interest end with the run. *)
Others ==
  /\ phase \notin {"done", "failed"}
  /\ \/ FleetChanges \/ ForeignSubmit
     \/ \E w \in Worker : WorkerClaims(w) \/ \E j \in Job : WorkerReports(w, j)
     \/ \E j \in Job : LeaseExpires(j)

BNext == Bench \/ Aborts \/ Others

BSpec == BInit /\ [][BNext]_bvars /\ WF_bvars(Bench)
------------------------------------------------------------------------------
(* The claim mode reports no double dispatch of a job it has seeded: not   *)
(* when leases expire in the middle of a run, and not when workers join it.*)
NoFalseAlarm == \A j \in ours : Len(got[j]) <= 1

(* A claim run that ends well has put the queue back: none of its jobs is  *)
(* PENDING, and none is RUNNING under one of its claimers.                 *)
QueueIsPutBack ==
  mode = "claim" /\ phase = "done" =>
    \A j \in ours : /\ jobs[j].status # "PENDING"
                    /\ jobs[j].status = "RUNNING" => jobs[j].worker_id \in Worker

(* Only a request that fails, another client or a worker can make a claim  *)
(* run fail once it has begun; a lease that expires before its job is      *)
(* cleaned up cannot.                                                      *)
OnlyFaultsFail ==
  mode = "claim" /\ phase = "failed" /\ ours # {} => faults > 0 \/ ~quiet

(* When drainPhase stops the clock every job submitted for it has ended,   *)
(* although it only compares two counts of all jobs.                       *)
DrainIsSound ==
  mode = "pipeline" /\ phase \in {"median", "sample"} /\ quiet =>
    \A j \in ours : jobs[j].status \in Terminal

(* Every run ends, with a result or an error, if the others submit only so *)
(* many jobs: claimUntilEmpty has no deadline of its own.                  *)
BenchEnds == <>(phase \in {"done", "failed"})
=============================================================================
