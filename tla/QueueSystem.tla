----------------------------- MODULE QueueSystem -----------------------------
(***************************************************************************)
(* The whole queue: worker processes (internal/worker/worker.go and        *)
(* client.go) that claim, execute, renew and report over HTTP against the  *)
(* store (JobRows), with the reaper, process crashes, graceful shutdowns   *)
(* and a network that loses answers and delays requests.                   *)
(*                                                                         *)
(* A request a worker waits for ends in one of three ways: the server      *)
(* executes it and the worker hears the answer; the server executes it and *)
(* the answer is lost; or the worker gives up (its 15 s timeout, a closed  *)
(* connection, a canceled context), and the request may still reach the    *)
(* server later, after anything else has happened.                         *)
(*                                                                         *)
(* Times in a row are relative to the database clock: lease_until is what  *)
(* is left of the lease (-1 once it has run out), available_at how long    *)
(* the job still has to wait.  Of the order among claimable jobs nothing   *)
(* is kept: a claim may take any of them.                                  *)
(***************************************************************************)
EXTENDS JobRows, FiniteSets

CONSTANTS
  Job, Worker,
  MaxAttempts,   \* the values of max_attempts a submission may carry
  Lease,         \* the lease every worker asks for
  Delay,         \* BackoffConfig.Delay
  ReportTries,   \* how often report sends a terminal update
  MaxStops,      \* bound: crashes and shutdowns of worker processes
  MaxLate        \* bound: abandoned requests on their way to the server

VARIABLES
  jobs,        \* the jobs table
  proc,        \* the process behind each worker id
  late,        \* requests whose sender no longer waits for the answer
  stops,       \* crashes and shutdowns so far
  starts,      \* history: how often a worker started executing each job
  succeeded    \* history: the executions of each job that exited with 0

qvars == <<jobs, proc, late, stops, starts, succeeded>>

ASSUME SystemAssumption ==
  /\ Job \subseteq Nat /\ NULL \notin Worker \cup Int
  /\ MaxAttempts \subseteq Nat \ {0}
  /\ \A max \in MaxAttempts : \A n \in 1..max : Delay[n] \in Nat
  /\ Lease \in Nat /\ ReportTries \in Nat \ {0}
  /\ MaxStops \in Nat /\ MaxLate \in Nat

Down == [pc |-> "down", stop |-> FALSE, job |-> NULL, attempt |-> 0,
         lost |-> FALSE, ok |-> FALSE, tries |-> 0]

(* The top of the loop in Run, and the first statement of Run. *)
Looping == [Down EXCEPT !.pc = "claim"]

Registering == [Down EXCEPT !.pc = "register"]

QInit ==
  /\ jobs = [j \in Job |-> NoRow]
  /\ proc = [w \in Worker |-> Down]
  /\ late = {}
  /\ stops = 0
  /\ starts = [j \in Job |-> 0]
  /\ succeeded = [j \in Job |-> {}]

history == <<starts, succeeded>>
------------------------------------------------------------------------------
(* What the server does with a request.  The attempt a report is about is  *)
(* not part of the request: it is kept only to be compared.                *)
Request(op, w) ==
  [op |-> op, worker |-> w, job |-> proc[w].job, attempt |-> proc[w].attempt]

ReportAlwaysComplete(w) == Request("complete", w)

Report(w) == Request(IF proc[w].ok THEN "complete" ELSE "fail", w)

After(m) ==
  IF ~Owned(jobs[m.job], m.worker) THEN jobs
  ELSE [jobs EXCEPT ![m.job] =
          CASE m.op = "renew" -> Renewed(@, Lease)
            [] m.op = "complete" -> Completed(@, m.worker)
            [] m.op = "fail" -> FailedBy(@, m.worker, Delay[@.attempts])]

ClaimedBy(w, j) ==
  /\ Claimable(jobs[j], 0)
  /\ jobs' = [jobs EXCEPT ![j] = Claimed(@, w, Lease)]

(* The sender stops waiting; the request is lost or stays on its way. *)
Abandon(m) ==
  \/ UNCHANGED late
  \/ Cardinality(late) < MaxLate /\ late' = late \cup {m}

ServeLate(m) ==
  /\ late' = late \ {m}
  /\ IF m.op = "claim" THEN \E j \in Job : ClaimedBy(m.worker, j)
                       ELSE jobs' = After(m)
  /\ UNCHANGED <<proc, stops, history>>

DropLate(m) == late' = late \ {m} /\ UNCHANGED <<jobs, proc, stops, history>>
------------------------------------------------------------------------------
(* Clients and the server's own work. *)
Submit(j, max) ==
  /\ ~Exists(jobs[j])
  /\ jobs' = [jobs EXCEPT ![j] = Inserted(max, 0)]
  /\ UNCHANGED <<proc, late, stops, history>>

CancelJob(j) ==
  /\ jobs[j].status = "PENDING"
  /\ jobs' = [jobs EXCEPT ![j] = Canceled(@)]
  /\ UNCHANGED <<proc, late, stops, history>>

Sweep(S) ==
  /\ S # {} /\ \A j \in S : Expired(jobs[j], 0)
  /\ jobs' = [j \in Job |-> IF j \in S THEN Reaped(jobs[j], Delay[jobs[j].attempts])
                                       ELSE jobs[j]]
  /\ UNCHANGED <<proc, late, stops, history>>

Aged(r) ==
  [r EXCEPT !.lease_until = IF @ = NULL \/ @ = -1 THEN @ ELSE @ - 1,
            !.available_at = IF @ = 0 THEN @ ELSE @ - 1]

Tick ==
  /\ jobs' = [j \in Job |-> Aged(jobs[j])]
  /\ jobs' # jobs
  /\ UNCHANGED <<proc, late, stops, history>>
------------------------------------------------------------------------------
(* The life of a worker process.  A restarted one keeps its id. *)
Start(w) ==
  /\ proc[w].pc = "down"
  /\ proc' = [proc EXCEPT ![w] = Registering]
  /\ UNCHANGED <<jobs, late, stops, history>>

(* registerWithRetry: a failed try changes nothing that is modelled. *)
Register(w) ==
  /\ proc[w].pc = "register" /\ ~proc[w].stop
  /\ proc' = [proc EXCEPT ![w] = Looping]
  /\ UNCHANGED <<jobs, late, stops, history>>

(* kill -9, or the machine is gone: whatever it was sending may still      *)
(* arrive.                                                                 *)
Crash(w) ==
  /\ proc[w].pc # "down" /\ stops < MaxStops
  /\ proc' = [proc EXCEPT ![w] = Down]
  /\ stops' = stops + 1
  /\ CASE proc[w].pc = "claim" -> Abandon(Request("claim", w))
       [] proc[w].pc = "run" -> Abandon(Request("renew", w))
       [] proc[w].pc = "report" -> Abandon(Report(w))
       [] proc[w].pc = "register" -> UNCHANGED late
  /\ UNCHANGED <<jobs, history>>

(* SIGTERM cancels the context of Run. *)
Shutdown(w) ==
  /\ proc[w].pc # "down" /\ ~proc[w].stop /\ stops < MaxStops
  /\ proc' = [proc EXCEPT ![w].stop = TRUE]
  /\ stops' = stops + 1
  /\ UNCHANGED <<jobs, late, history>>

(* Run returns, canceling a claim that may be under way. *)
Stopped(w) ==
  /\ proc[w].pc \in {"register", "claim"} /\ proc[w].stop
  /\ proc' = [proc EXCEPT ![w] = Down]
  /\ IF proc[w].pc = "claim" THEN Abandon(Request("claim", w)) ELSE UNCHANGED late
  /\ UNCHANGED <<jobs, stops, history>>
------------------------------------------------------------------------------
(* Run's claim.  A poll that finds nothing changes nothing. *)
Claim(w, j) ==
  /\ proc[w].pc = "claim" /\ ~proc[w].stop
  /\ ClaimedBy(w, j)
  /\ proc' = [proc EXCEPT ![w] = [Looping EXCEPT !.pc = "run", !.job = j,
                                             !.attempt = jobs[j].attempts + 1]]
  /\ starts' = [starts EXCEPT ![j] = @ + 1]
  /\ UNCHANGED <<late, stops, succeeded>>

(* The job is RUNNING under a worker that knows nothing of it. *)
ClaimUnheard(w, j) ==
  /\ proc[w].pc = "claim"
  /\ ClaimedBy(w, j)
  /\ UNCHANGED <<proc, late, stops, history>>

ClaimAbandoned(w) ==
  /\ proc[w].pc = "claim" /\ ~proc[w].stop
  /\ Cardinality(late) < MaxLate
  /\ late' = late \cup {Request("claim", w)}
  /\ UNCHANGED <<jobs, proc, stops, history>>

(* process: the renewals that go on beside the command.  A 409 cancels the *)
(* command; a renewal that fails in any other way is only logged.          *)
Renewing(w) == proc[w].pc = "run" /\ ~proc[w].lost /\ ~proc[w].stop

Renew(w) ==
  /\ Renewing(w)
  /\ IF Owned(jobs[proc[w].job], w)
     THEN jobs' = After(Request("renew", w)) /\ UNCHANGED proc
     ELSE proc' = [proc EXCEPT ![w].lost = TRUE] /\ UNCHANGED jobs
  /\ UNCHANGED <<late, stops, history>>

RenewUnheard(w) ==
  /\ Renewing(w)
  /\ jobs' = After(Request("renew", w))
  /\ UNCHANGED <<proc, late, stops, history>>

RenewAbandoned(w) ==
  /\ Renewing(w)
  /\ Cardinality(late) < MaxLate
  /\ late' = late \cup {Request("renew", w)}
  /\ UNCHANGED <<jobs, proc, stops, history>>

(* ExecuteShell returns: exit status 0, or anything else (a non-zero       *)
(* status, the job timeout, a command that cannot be started).  A command  *)
(* may end by itself while its cancellation is on the way.  Renewals have  *)
(* stopped before the report is sent.                                      *)
Exit(w, ok) ==
  /\ proc[w].pc = "run"
  /\ proc' = [proc EXCEPT ![w].pc = "report", ![w].ok = ok]
  /\ succeeded' = IF ok
                  THEN [succeeded EXCEPT ![proc[w].job] = @ \cup {<<w, proc[w].attempt>>}]
                  ELSE succeeded
  /\ UNCHANGED <<jobs, late, stops, starts>>

(* The command's context was canceled, by a 409 or by SIGTERM. *)
Killed(w) ==
  /\ proc[w].pc = "run" /\ ~Renewing(w)
  /\ proc' = [proc EXCEPT ![w].pc = "report", ![w].ok = FALSE]
  /\ UNCHANGED <<jobs, late, stops, history>>

(* report has returned, and with it process: back to the top of the loop. *)
BackToLoop(w) == [Looping EXCEPT !.stop = proc[w].stop]

TriedOnceMore(w) ==
  \/ /\ proc[w].tries + 1 <= ReportTries
     /\ proc' = [proc EXCEPT ![w].tries = @ + 1]
  \/ proc' = [proc EXCEPT ![w] = BackToLoop(w)]

(* A try that brought no answer: another one, unless it was the last or    *)
(* the 20 s for all of them are over.                                      *)
TriedOnce(w) ==
  \/ /\ proc[w].tries + 1 < ReportTries
     /\ proc' = [proc EXCEPT ![w].tries = @ + 1]
  \/ proc' = [proc EXCEPT ![w] = BackToLoop(w)]

(* Any answer ends report: a 200, or a 4xx that no retry would change. *)
ReportAnswered(w) ==
  /\ proc[w].pc = "report"
  /\ jobs' = After(Report(w))
  /\ proc' = [proc EXCEPT ![w] = BackToLoop(w)]
  /\ UNCHANGED <<late, stops, history>>

ReportUnheard(w) ==
  /\ proc[w].pc = "report"
  /\ jobs' = After(Report(w))
  /\ TriedOnce(w)
  /\ UNCHANGED <<late, stops, history>>

ReportAbandoned(w) ==
  /\ proc[w].pc = "report"
  /\ Abandon(Report(w))
  /\ TriedOnce(w)
  /\ UNCHANGED <<jobs, stops, history>>
------------------------------------------------------------------------------
QNext ==
  \/ \E j \in Job : CancelJob(j) \/ \E max \in MaxAttempts : Submit(j, max)
  \/ \E S \in SUBSET Job : Sweep(S)
  \/ Tick
  \/ \E m \in late : ServeLate(m) \/ DropLate(m)
  \/ \E w \in Worker :
       \/ Start(w) \/ Register(w) \/ Crash(w) \/ Shutdown(w) \/ Stopped(w)
       \/ \E j \in Job : Claim(w, j) \/ ClaimUnheard(w, j)
       \/ ClaimAbandoned(w)
       \/ Renew(w) \/ RenewUnheard(w) \/ RenewAbandoned(w)
       \/ \E ok \in BOOLEAN : Exit(w, ok)
       \/ Killed(w)
       \/ ReportAnswered(w) \/ ReportUnheard(w) \/ ReportAbandoned(w)

QSpec == QInit /\ [][QNext]_qvars

(* The clock runs and the reaper's ticker fires; a stopped process is      *)
(* restarted; a process keeps executing its code, and its command ends (at *)
(* the latest at the job timeout); a worker that keeps polling while a job *)
(* is claimable gets a claim through in the end, heard or not.  Of renewals *)
(* and reports nothing is assumed but that the call returns.               *)
QFairness ==
  /\ WF_qvars(Tick)
  /\ WF_qvars(\E S \in SUBSET Job : Sweep(S))
  /\ \A w \in Worker :
       /\ WF_qvars(Start(w)) /\ WF_qvars(Register(w)) /\ WF_qvars(Stopped(w))
       /\ WF_qvars(\E j \in Job : Claim(w, j) \/ ClaimUnheard(w, j))
       /\ WF_qvars(Killed(w) \/ \E ok \in BOOLEAN : Exit(w, ok))
       /\ WF_qvars(ReportAnswered(w) \/ ReportUnheard(w) \/ ReportAbandoned(w))

QFairSpec == QSpec /\ QFairness
------------------------------------------------------------------------------
Process ==
  [pc: {"down", "register", "claim", "run", "report"}, stop: BOOLEAN,
   job: Job \cup {NULL}, attempt: Nat, lost: BOOLEAN, ok: BOOLEAN,
   tries: 0..(ReportTries - 1)]

(* The table, the processes and the requests under way are well formed,    *)
(* and the processes that execute or report name the job they do it for.   *)
QTypeOK ==
  /\ \A j \in Job : /\ jobs[j].status \in Status \cup {"ABSENT"}
                    /\ jobs[j].worker_id \in Worker \cup {NULL}
                    /\ jobs[j].lease_until \in (-1..Lease) \cup {NULL}
                    /\ jobs[j].available_at \in Nat
  /\ proc \in [Worker -> Process]
  /\ \A w \in Worker : proc[w].pc \in {"run", "report"} <=> proc[w].job # NULL
  /\ \A m \in late : m.op # "claim" => m.job \in Job
  /\ stops \in 0..MaxStops

(* At least once, for the jobs that are COMPLETED: the worker in the row   *)
(* executed the command and saw it exit with 0, in this or in an earlier   *)
(* attempt, whatever reports were lost, repeated or late.                  *)
CompletedJobSucceeded ==
  \A j \in Job : jobs[j].status = "COMPLETED" =>
    \E n \in 1..jobs[j].attempts : <<jobs[j].worker_id, n>> \in succeeded[j]

(* No more executions than max_attempts, although claims are retried when  *)
(* their answer is lost, workers restart under the same id and late        *)
(* requests arrive: a job submitted to run once is never started twice.    *)
StartsBounded ==
  \A j \in Job : starts[j] <= jobs[j].attempts /\ starts[j] <= jobs[j].max_attempts

(* Two processes may execute the same job at the same time (a lease ran    *)
(* out while its holder was cut off), but never the same attempt of it,    *)
(* and the newest attempt, while RUNNING, belongs to whoever executes it.  *)
OneProcessPerAttempt ==
  \A w \in Worker : proc[w].pc \in {"run", "report"} =>
    LET j == proc[w].job
        n == proc[w].attempt
    IN  /\ n <= jobs[j].attempts
        /\ n = jobs[j].attempts /\ jobs[j].status = "RUNNING" =>
             jobs[j].worker_id = w
        /\ \A v \in Worker \ {w} : proc[v].job = j => proc[v].attempt # n

(* w executes the attempt that the table says it holds, on a live lease. *)
Secure(w) ==
  /\ proc[w].pc = "run"
  /\ Owned(jobs[proc[w].job], w)
  /\ jobs[proc[w].job].attempts = proc[w].attempt
  /\ jobs[proc[w].job].lease_until >= 0

(* The job of a worker that executes it on a live lease is taken away by   *)
(* nothing but a late report of that same worker about an earlier attempt: *)
(* not by the reaper, a cancellation, another worker or a late renewal.    *)
ExecutionProtected ==
  [][\A w \in Worker : Secure(w) =>
       \/ Owned(jobs'[proc[w].job], w)
       \/ \E m \in late \ late' : /\ m.worker = w /\ m.job = proc[w].job
                                 /\ m.op \in {"complete", "fail"}
                                 /\ m.attempt < proc[w].attempt]_qvars

(* Every submitted job is finished in the end: no crash, shutdown, lost    *)
(* answer or late request strands it in RUNNING or PENDING.                *)
JobsFinish ==
  \A j \in Job : Exists(jobs[j]) ~> jobs[j].status \in Terminal
------------------------------------------------------------------------------
(* A sentence of the repository that the code does not keep.               *)

(* docs/DESIGN.md: "Late report from old worker | 409".  A COMPLETED job   *)
(* was completed by the attempt that was RUNNING, not by an older one.     *)
CompletedByItsLastAttempt ==
  \A j \in Job : jobs[j].status = "COMPLETED" =>
    <<jobs[j].worker_id, jobs[j].attempts>> \in succeeded[j]
=============================================================================
