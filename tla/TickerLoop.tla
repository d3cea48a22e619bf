----------------------------- MODULE TickerLoop -----------------------------
(***************************************************************************)
(* A goroutine that calls the server on every tick of a time.Ticker, as    *)
(* heartbeatLoop and renewLoop of internal/worker/worker.go do, and the    *)
(* age of what the call keeps fresh on the server: last_heartbeat or the   *)
(* lease.  The channel of a ticker holds one tick; ticks that come while   *)
(* it is full are dropped.  A call is served at some moment of its flight, *)
(* and the answer may arrive later.                                        *)
(*                                                                         *)
(* A loop is a record: age, time since the server was last touched; beat,  *)
(* time to the next tick (0: the loop is not running); due, the ticks in   *)
(* the channel; call, whether a call is under way and served; flight, for  *)
(* how long; missed, calls in a row that brought no answer.                *)
(***************************************************************************)
EXTENDS Integers

CONSTANTS
  Patience,   \* the timeout of the HTTP client: no call takes longer
  Latency     \* no call that is answered takes longer

ASSUME CallAssumption ==
  Patience \in Nat \ {0} /\ Latency \in Nat /\ Latency <= Patience

Off == [age |-> 0, beat |-> 0, due |-> 0, call |-> "none", flight |-> 0,
        missed |-> 0]

Stopped(l) == [Off EXCEPT !.age = l.age]

(* time.NewTicker: the first tick comes one interval from now. *)
Started(l, interval) == [Stopped(l) EXCEPT !.beat = interval]

CanSend(l) == l.due = 1 /\ l.call = "none"

Sent(l) == [l EXCEPT !.due = 0, !.call = "sent"]

CanServe(l) == l.call = "sent" /\ l.flight <= Latency

Served(l, age) == [l EXCEPT !.call = "served", !.age = age]

CanAnswer(l) == l.call = "served" /\ l.flight <= Latency

Answered(l) == [l EXCEPT !.call = "none", !.flight = 0, !.missed = 0]

(* At most `most' calls in a row fail: at once, after any time up to the   *)
(* timeout, before or after they were served.                              *)
CanLose(l, most) == l.call # "none" /\ l.missed < most

Lost(l) == [l EXCEPT !.call = "none", !.flight = 0, !.missed = @ + 1]

(* A tick the loop is free to take is taken before time passes, and a call *)
(* that must not fail is served and answered in time.                      *)
CanPass(l, most) ==
  /\ ~CanSend(l)
  /\ l.call # "none" =>
       l.flight < (IF l.missed < most THEN Patience ELSE Latency)

Passed(l, interval) ==
  [l EXCEPT !.age = @ + 1,
            !.flight = IF l.call = "none" THEN 0 ELSE @ + 1,
            !.beat = IF @ = 0 THEN 0 ELSE IF @ = 1 THEN interval ELSE @ - 1,
            !.due = IF l.beat = 1 THEN 1 ELSE @]

Longest(interval) == IF interval < Patience THEN Patience ELSE interval

(* How long after the last answer the next call is sent at the latest,     *)
(* when m calls failed since.                                              *)
Slack(interval, m) == Latency + interval + m * Longest(interval)

(* The oldest the server's record ever gets while `most' calls in a row    *)
(* may fail: the answer that starts the loop may be late, then comes the   *)
(* first tick, then the failures, then the call that is served.            *)
Oldest(interval, most) == Slack(interval, most) + Latency
=============================================================================
