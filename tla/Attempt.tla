------------------------------- MODULE Attempt -------------------------------
(***************************************************************************)
(* One attempt at a job, from the command to the columns of its row:       *)
(* ExecuteShell and its boundedBuffers (internal/worker/executor.go), the  *)
(* report and its retries (worker.go, client.go), the server's middleware  *)
(* and handlers (internal/api), TruncateOutput and the UPDATE of Complete  *)
(* and Fail (internal/jobs/store.go).                                      *)
(*                                                                         *)
(* An output is a sequence of bytes, told apart by what the path does to   *)
(* them:                                                                   *)
(*   "a"       one byte of text                                            *)
(*   "c"       one byte of text that JSON writes as \u00xx                 *)
(*   "h" "g"   the first byte of a character of two bytes, or of four      *)
(*   "t"       a further byte of such a character                          *)
(*   "0"       a NUL byte                                                  *)
(*   "f1" "f2" "f3"  the replacement character U+FFFD                      *)
(*   "m"       a truncation marker, the worker's or the server's           *)
(* Requests that arrive after their client has given up, and other workers *)
(* that claim the job, are the subject of QueueSystem.                     *)
(***************************************************************************)
EXTENDS JobRows, SequencesExt

CONSTANTS
  MaxOutputBytes,    \* what a boundedBuffer keeps
  MaxResultBytes,    \* what TruncateOutput keeps
  MaxRequestBytes,   \* what maxBody lets through
  Envelope,          \* what a report needs besides the two outputs
  Chunks,            \* what a command may write at once
  MaxWrites,         \* bound: writes of one command
  MaxFaults,         \* bound: requests and answers lost, handlers that fail
  ReportTries,       \* sends of one report
  Self               \* the worker

VARIABLES
  proc,     \* the shell: running, zero, nonzero, killed, or never started
  child,    \* it has left a process behind that holds the pipes
  wrote,    \* the writes to each stream while it was read
  buf,      \* the boundedBuffers
  ctx,      \* the context of the command: alive, deadline, canceled
  pc,       \* the worker: run, send, sent, pause, over
  report,   \* what it reports
  sends,    \* how often it has sent it
  answer,   \* the status of the answer, 0 before there is one
  faults,
  late,     \* reportCtx ended, or the lease did
  row,      \* the job's row
  stored    \* its result_stdout and result_stderr

avars == <<proc, child, wrote, buf, ctx, pc, report, sends, answer, faults, late,
           row, stored>>

Stream == {"stdout", "stderr"}

ASSUME AttemptAssumption ==
  /\ {MaxOutputBytes, MaxResultBytes, MaxRequestBytes, Envelope} \subseteq Nat
  /\ {MaxWrites, MaxFaults} \subseteq Nat /\ ReportTries \in Nat \ {0}

AInit ==
  /\ proc \in {"running", "unstarted"} /\ child = FALSE
  /\ wrote = [s \in Stream |-> <<>>]
  /\ buf = [s \in Stream |-> [kept |-> <<>>, total |-> 0]]
  /\ ctx = "alive" /\ pc = "run" /\ report = NULL
  /\ sends = 0 /\ answer = 0 /\ faults = 0 /\ late = FALSE
  /\ row \in {Claimed(Inserted(max, 0), Self, 0) : max \in {1, 2}}
  /\ stored = NULL
------------------------------------------------------------------------------
(* The command. *)
BufferWrite(b, p) ==
  LET room == MaxOutputBytes - Len(b.kept) IN
  [kept |-> b.kept \o SubSeq(p, 1, IF room < Len(p) THEN room ELSE Len(p)),
   total |-> b.total + Len(p)]

BufferStringUnmarked(b) == b.kept

(* String: the marker also tells the total, which nothing reads. *)
BufferString(b) == IF b.total > Len(b.kept) THEN Append(b.kept, "m") ELSE b.kept

Write(s, p) ==
  /\ pc = "run" /\ (proc = "running" \/ child)
  /\ Len(wrote["stdout"]) + Len(wrote["stderr"]) < MaxWrites
  /\ wrote' = [wrote EXCEPT ![s] = Append(@, p)]
  /\ buf' = [buf EXCEPT ![s] = BufferWrite(@, p)]
  /\ UNCHANGED <<proc, child, ctx, pc, report, sends, answer, faults, late, row, stored>>

Background ==
  /\ pc = "run" /\ proc = "running" /\ child' = TRUE
  /\ UNCHANGED <<proc, wrote, buf, ctx, pc, report, sends, answer, faults, late, row, stored>>

ChildExits ==
  /\ child /\ child' = FALSE
  /\ UNCHANGED <<proc, wrote, buf, ctx, pc, report, sends, answer, faults, late, row, stored>>

Exit(status) ==
  /\ proc = "running" /\ proc' = status
  /\ UNCHANGED <<child, wrote, buf, ctx, pc, report, sends, answer, faults, late, row, stored>>

(* The command's context ends, by its timeout or because of a shutdown or  *)
(* a lost lease.  cmd.Cancel kills the process group of a running shell,   *)
(* and with it what the shell has left behind, unless that has moved to a  *)
(* group of its own; exec no longer calls it once the shell has exited.    *)
ContextEnds(cause) ==
  /\ pc = "run" /\ ctx = "alive" /\ ctx' = cause
  /\ proc' = IF proc = "running" THEN "killed" ELSE proc
  /\ child' \in IF proc = "running" THEN {FALSE, child} ELSE {child}
  /\ UNCHANGED <<wrote, buf, pc, report, sends, answer, faults, late, row, stored>>

(* What ExecuteShell makes of it.  The deadline is looked at first.  A     *)
(* cancellation that races the end of a shell may replace its success by   *)
(* an error, and so does WaitDelay when the pipes are still open.          *)
OutcomesByStatus ==
  CASE proc = "zero" -> IF child THEN {NULL} ELSE {0}
    [] proc = "nonzero" -> {1}
    [] proc = "killed" -> {-1}
    [] OTHER -> {NULL}

Outcomes ==
  CASE ctx = "deadline" -> {NULL}
    [] proc = "zero" -> (IF child THEN {} ELSE {0})
                          \cup (IF child \/ ctx = "canceled" THEN {NULL} ELSE {})
    [] proc = "nonzero" -> {1}
    [] proc = "killed" -> {-1}
    [] OTHER -> {NULL}

Reports(code) ==
  [kind |-> IF code = 0 THEN "complete" ELSE "fail", exit_code |-> code,
   out |-> [s \in Stream |-> BufferString(buf[s])]]

ReturnAtEOF ==
  /\ pc = "run" /\ proc # "running" /\ ~child
  /\ \E code \in Outcomes : report' = Reports(code)
  /\ pc' = "send"
  /\ UNCHANGED <<proc, child, wrote, buf, ctx, sends, answer, faults, late, row, stored>>

(* cmd.Run returns when both pipes have been read to their end, or when    *)
(* WaitDelay has run out.  The worker has stopped renewing when it reports.*)
Return ==
  /\ pc = "run" /\ proc # "running"
  /\ \E code \in Outcomes : report' = Reports(code)
  /\ pc' = "send"
  /\ UNCHANGED <<proc, child, wrote, buf, ctx, sends, answer, faults, late, row, stored>>
------------------------------------------------------------------------------
(* UTF-8: how many bytes must follow a first byte, and where all of them   *)
(* do.                                                                     *)
Further == [h |-> 1, f1 |-> 2, g |-> 3]

Continues == {"t", "f2", "f3"}

Whole(q, i) ==
  /\ q[i] \in DOMAIN Further /\ i + Further[q[i]] <= Len(q)
  /\ \A k \in 1..Further[q[i]] : q[i + k] \in Continues

(* The byte belongs to no character. *)
Alone(q, i) ==
  \/ q[i] \in DOMAIN Further /\ ~Whole(q, i)
  \/ q[i] \in Continues /\ ~\E k \in 1..(i - 1) : Whole(q, k) /\ i <= k + Further[q[k]]

(* What JSON does to an output.  Each byte that belongs to no character is *)
(* written as an escape and read back as the replacement character: up to  *)
(* three of them where boundedBuffer has cut a character of four bytes.    *)
RoundTrip(q) ==
  FlattenSeq([i \in 1..Len(q) |-> IF Alone(q, i) THEN <<"f1", "f2", "f3">> ELSE <<q[i]>>])

Encoded(q) ==
  Len(q) + 5 * Cardinality({i \in 1..Len(q) : q[i] \in {"c", "0"} \/ Alone(q, i)})

BodySize == Envelope + Encoded(report.out["stdout"]) + Encoded(report.out["stderr"])

(* TruncateOutput cuts between two bytes, not between two characters. *)
TruncateOutput(q) ==
  IF Len(q) <= MaxResultBytes THEN q ELSE Append(SubSeq(q, 1, MaxResultBytes), "m")

(* What PostgreSQL takes for a text in UTF-8. *)
Storable(q) == \A i \in 1..Len(q) : q[i] # "0" /\ ~Alone(q, i)

(* replayOrConflict *)
IsReplay ==
  IF report.kind = "complete" THEN row.status = "COMPLETED" /\ row.worker_id = Self
  ELSE \/ row.status = "FAILED" /\ row.worker_id = Self
       \/ row.status = "PENDING" /\ row.worker_id = NULL
------------------------------------------------------------------------------
(* The report. *)
Send ==
  /\ pc = "send" /\ sends' = sends + 1 /\ pc' = "sent" /\ answer' = 0
  /\ UNCHANGED <<proc, child, wrote, buf, ctx, report, faults, late, row, stored>>

(* maxBody: decode fails to read a body that is longer. *)
TooLarge == BodySize > MaxRequestBytes

Columns == [s \in Stream |-> TruncateOutput(RoundTrip(report.out[s]))]

(* The middleware and the handler, up to the commit and the answer.  A     *)
(* column PostgreSQL refuses is an error of the UPDATE.                    *)
Serve ==
  /\ pc = "sent" /\ answer = 0
  /\ \E columns \in {Columns} :
       IF TooLarge
         THEN answer' = 400 /\ UNCHANGED <<row, stored>>
       ELSE IF \E s \in Stream : ~Storable(columns[s])
         THEN answer' = 500 /\ UNCHANGED <<row, stored>>
       ELSE \/ /\ Owned(row, Self)
               /\ row' = IF report.kind = "complete" THEN Completed(row, Self)
                         ELSE FailedBy(row, Self, 0)
               /\ stored' = columns
               /\ answer' = 200
            \/ /\ ~Owned(row, Self)
               /\ answer' = IF IsReplay THEN 200 ELSE 409
               /\ UNCHANGED <<row, stored>>
  /\ UNCHANGED <<proc, child, wrote, buf, ctx, pc, report, sends, faults, late>>

(* A handler panics, and recovery answers, or the database is not there. *)
ServerFails ==
  /\ pc = "sent" /\ answer = 0 /\ faults < MaxFaults
  /\ answer' = 500 /\ faults' = faults + 1
  /\ UNCHANGED <<proc, child, wrote, buf, ctx, pc, report, sends, late, row, stored>>

(* The request is lost, or its answer is. *)
Lose ==
  /\ pc = "sent" /\ faults < MaxFaults
  /\ pc' = "pause" /\ faults' = faults + 1
  /\ UNCHANGED <<proc, child, wrote, buf, ctx, report, sends, answer, late, row, stored>>

ReceiveOnceOnly ==
  /\ pc = "sent" /\ answer # 0
  /\ pc' = "over"
  /\ UNCHANGED <<proc, child, wrote, buf, ctx, report, sends, answer, faults, late, row, stored>>

(* report: an answer below 500 is final. *)
Receive ==
  /\ pc = "sent" /\ answer # 0
  /\ pc' = IF answer < 500 THEN "over" ELSE "pause"
  /\ UNCHANGED <<proc, child, wrote, buf, ctx, report, sends, answer, faults, late, row, stored>>

PauseEnds ==
  /\ pc = "pause"
  /\ pc' = IF sends < ReportTries THEN "send" ELSE "over"
  /\ UNCHANGED <<proc, child, wrote, buf, ctx, report, sends, answer, faults, late, row, stored>>

(* The 20 seconds of reportCtx are over. *)
ReportContextEnds ==
  /\ pc \in {"sent", "pause"} /\ pc' = "over" /\ late' = TRUE
  /\ UNCHANGED <<proc, child, wrote, buf, ctx, report, sends, answer, faults, row, stored>>

(* The reaper takes the job away. *)
LeaseLapses ==
  /\ row.status = "RUNNING" /\ row' = Reaped(row, 0) /\ late' = TRUE
  /\ UNCHANGED <<proc, child, wrote, buf, ctx, pc, report, sends, answer, faults, stored>>

ANext ==
  \/ \E s \in Stream, p \in Chunks : Write(s, p)
  \/ Background \/ ChildExits
  \/ \E status \in {"zero", "nonzero"} : Exit(status)
  \/ \E cause \in {"deadline", "canceled"} : ContextEnds(cause)
  \/ Return \/ Send \/ Serve \/ ServerFails \/ Lose \/ Receive \/ PauseEnds
  \/ ReportContextEnds \/ LeaseLapses

(* Timers fire, calls return, and the worker goes on; whether the command  *)
(* or what it has left behind ever ends is up to them.                     *)
ASpec ==
  /\ AInit /\ [][ANext]_avars
  /\ WF_avars(ContextEnds("deadline")) /\ WF_avars(Return) /\ WF_avars(Send)
  /\ WF_avars(Serve) /\ WF_avars(Receive) /\ WF_avars(PauseEnds)
------------------------------------------------------------------------------
Output(s) == FlattenSeq(wrote[s])

(* The stored columns are what the command wrote, from the first byte on,  *)
(* and end with a marker unless they are all of it: nothing is cut         *)
(* silently on the way through boundedBuffer and TruncateOutput, each with *)
(* a limit of its own, and no more than has to be.  Before the marker is   *)
(* what a beginning of the output reads as: of the character at the cut    *)
(* only replacement characters may be left.                                *)
NothingCutSilently ==
  stored # NULL =>
    \A s \in Stream :
      \/ stored[s] = RoundTrip(Output(s))
      \/ /\ Len(stored[s]) = MaxResultBytes + 1 /\ Last(stored[s]) = "m"
         /\ \E n \in 0..Len(Output(s)) :
              IsPrefix(Front(stored[s]), RoundTrip(SubSeq(Output(s), 1, n)))

(* A job is COMPLETED only if its shell exited with 0 before the deadline  *)
(* and nobody was left who could have written more.                        *)
CompletedMeansFinished ==
  row.status = "COMPLETED" => proc = "zero" /\ ctx # "deadline" /\ ~child

(* What is sure to fit and to be stored: characters that are whole, no     *)
(* NUL, nothing cut unless all of it is one-byte text, and escapes on one  *)
(* of the streams only.                                                    *)
Text(q) ==
  /\ \A i \in 1..Len(q) : q[i] # "0" /\ ~Alone(q, i)
  /\ Len(q) <= MaxOutputBytes \/ ToSet(q) \subseteq {"a", "c"}

TextOnly ==
  /\ \A s \in Stream : Text(Output(s))
  /\ \E s \in Stream : "c" \notin ToSet(Output(s))

Recorded == row.status # "RUNNING"

(* As long as the lease and reportCtx hold, three failed sends do not lose *)
(* the report of a command that writes text, however much of it.           *)
TextIsRecorded == pc = "over" /\ ~late /\ TextOnly => Recorded

(* Every attempt ends, also when the command never does and when it leaves *)
(* a process behind that holds its pipes for ever.                         *)
AttemptEnds == <>(pc = "over")

(* docs/DESIGN.md: "Output over 32KB | Truncated, with a marker".  Claimed *)
(* here only of a command whose output is text that PostgreSQL would take  *)
(* if it were shorter.                                                     *)
LongOutputIsTruncated ==
  pc = "over" /\ ~late /\ faults = 0 /\ (\A s \in Stream : Storable(Output(s))) =>
    \A s \in Stream : Len(Output(s)) > MaxOutputBytes =>
      stored # NULL /\ stored[s] # <<>> /\ Last(stored[s]) = "m"
=============================================================================
