-------------------------- MODULE WorkerLoopsProofs --------------------------
(***************************************************************************)
(* Proofs about WorkerLoops, for every value of its constants.  The lemmas *)
(* of the first part are about one ticker loop and serve both loops.       *)
(***************************************************************************)
EXTENDS WorkerLoops, TLAPS

LoopType ==
  [age: Nat, beat: Nat, due: 0..1, call: {"none", "sent", "served"},
   flight: Nat, missed: Nat]

(* What holds of a loop whatever the server does: a loop that is off has   *)
(* no call and no tick; a call that outlasts Latency is one that may fail; *)
(* a call that started on a tick and sees no further tick is younger than  *)
(* the interval.                                                           *)
LoopInv(l, interval, most) ==
  /\ l \in LoopType
  /\ l.beat <= interval /\ l.missed <= most
  /\ l.flight <= Patience
  /\ l.call = "none" => l.flight = 0
  /\ l.beat = 0 => l.call = "none" /\ l.due = 0
  /\ l.flight > Latency => l.missed < most
  /\ l.call # "none" /\ l.due = 0 => l.beat + l.flight <= interval

(* How old the server's record may be at each point of the loop. *)
Fresh(l, interval) ==
  /\ l.call = "none" => l.age <= Slack(interval, l.missed)
  /\ l.call = "none" /\ l.due = 0 => l.age + l.beat <= Slack(interval, l.missed)
  /\ l.call = "sent" => l.age <= Slack(interval, l.missed) + l.flight
  /\ l.call = "served" => l.age <= l.flight

(* Multiplication is monotone: one more failure costs at most Longest. *)
LEMMA TimesGrows ==
  ASSUME NEW a \in Nat, NEW b \in Nat, a <= b, NEW c \in Nat
  PROVE  a * c <= b * c
<1>1. b = a + (b - a) /\ b - a \in Nat
  OBVIOUS
<1>2. b * c = a * c + (b - a) * c
  BY <1>1, SMT
<1>3. (b - a) * c \in Nat /\ a * c \in Nat
  BY <1>1, SMT
<1> QED
  BY <1>2, <1>3

(* No call keeps the loop longer than Longest. *)
LEMMA LongestFacts ==
  ASSUME NEW interval \in Nat
  PROVE  /\ Longest(interval) \in Nat
         /\ interval <= Longest(interval) /\ Patience <= Longest(interval)
BY CallAssumption DEF Longest

(* Each further failure allows the record Longest more. *)
LEMMA SlackFacts ==
  ASSUME NEW interval \in Nat, NEW m \in Nat
  PROVE  /\ Slack(interval, m) \in Nat
         /\ Latency + interval <= Slack(interval, m)
         /\ Slack(interval, m + 1) = Slack(interval, m) + Longest(interval)
<1>1. Longest(interval) \in Nat
  BY LongestFacts
<1>2. m * Longest(interval) \in Nat
  BY <1>1
<1>3. (m + 1) * Longest(interval) = m * Longest(interval) + Longest(interval)
  BY <1>1
<1> QED
  BY <1>1, <1>2, <1>3, CallAssumption DEF Slack

(* More failures never allow the record less. *)
LEMMA SlackGrows ==
  ASSUME NEW interval \in Nat, NEW m \in Nat, NEW n \in Nat, m <= n
  PROVE  Slack(interval, m) <= Slack(interval, n)
<1>1. Longest(interval) \in Nat
  BY LongestFacts
<1>2. m * Longest(interval) <= n * Longest(interval)
  BY <1>1, TimesGrows
<1>3. m * Longest(interval) \in Nat /\ n * Longest(interval) \in Nat
  BY <1>1
<1> QED
  BY <1>2, <1>3, CallAssumption DEF Slack

(* The types of the fields of a loop. *)
LEMMA LoopFields ==
  ASSUME NEW l \in LoopType
  PROVE  /\ l.age \in Nat /\ l.beat \in Nat /\ l.due \in 0..1
         /\ l.call \in {"none", "sent", "served"}
         /\ l.flight \in Nat /\ l.missed \in Nat
BY DEF LoopType

(* A record may be at least as old as one answered call takes. *)
LEMMA OldestFacts ==
  ASSUME NEW interval \in Nat, NEW most \in Nat
  PROVE  Oldest(interval, most) \in Nat /\ Latency <= Oldest(interval, most)
<1>1. Slack(interval, most) \in Nat
  BY SlackFacts
<1> QED
  BY <1>1, CallAssumption DEF Oldest

(* A loop that was answered late by at most Latency starts fresh. *)
LEMMA StartedLoop ==
  ASSUME NEW interval \in Nat, interval > 0, NEW most \in Nat, NEW l,
         LoopInv(l, interval, most)
  PROVE  /\ LoopInv(Started(l, interval), interval, most)
         /\ Started(l, interval).beat = interval
         /\ l.age <= Latency => Fresh(Started(l, interval), interval)
<1> DEFINE n == Started(l, interval)
<1>1. l \in LoopType
  BY DEF LoopInv
<1>2. /\ l.age \in Nat /\ l.beat \in Nat /\ l.due \in 0..1
      /\ l.call \in {"none", "sent", "served"}
      /\ l.flight \in Nat /\ l.missed \in Nat
  BY <1>1, LoopFields
<1>3. /\ n.age = l.age /\ n.beat = interval /\ n.due = 0
      /\ n.call = "none" /\ n.flight = 0 /\ n.missed = 0
  BY <1>1, <1>2 DEF LoopType, Started, Stopped, Off
<1>4. 0 \in 0..1 /\ 0 \in Nat
  BY <1>2
<1>5. n \in LoopType
  BY <1>1, <1>2, <1>4, Zenon DEF LoopType, Started, Stopped, Off
<1> HIDE DEF n
<1>6. /\ Longest(interval) \in Nat
      /\ interval <= Longest(interval) /\ Patience <= Longest(interval)
  BY LongestFacts
<1>7. /\ Slack(interval, 0) \in Nat
      /\ Latency + interval <= Slack(interval, 0)
      /\ Slack(interval, 0 + 1) = Slack(interval, 0) + Longest(interval)
  BY <1>2, SlackFacts
<1>8. LoopInv(n, interval, most)
  BY <1>2, <1>3, <1>5, CallAssumption DEF LoopInv
<1>9. l.age <= Latency => Fresh(n, interval)
  BY <1>2, <1>3, <1>6, <1>7, CallAssumption DEF LoopInv, Fresh
<1> QED
  BY <1>3, <1>8, <1>9 DEF n

(* A loop that stops leaves the age as it is. *)
LEMMA StoppedLoop ==
  ASSUME NEW interval \in Nat, NEW most \in Nat, NEW l,
         LoopInv(l, interval, most)
  PROVE  /\ LoopInv(Stopped(l), interval, most)
         /\ Stopped(l).beat = 0 /\ Stopped(l).age = l.age
<1> DEFINE n == Stopped(l)
<1>1. l \in LoopType
  BY DEF LoopInv
<1>2. /\ l.age \in Nat /\ l.beat \in Nat /\ l.due \in 0..1
      /\ l.call \in {"none", "sent", "served"}
      /\ l.flight \in Nat /\ l.missed \in Nat
  BY <1>1, LoopFields
<1>3. /\ n.age = l.age /\ n.beat = 0 /\ n.due = 0
      /\ n.call = "none" /\ n.flight = 0 /\ n.missed = 0
  BY <1>1, <1>2 DEF LoopType, Stopped, Off
<1>4. 0 \in 0..1 /\ 0 \in Nat
  BY <1>2
<1>5. n \in LoopType
  BY <1>1, <1>2, <1>4, Zenon DEF LoopType, Stopped, Off
<1> HIDE DEF n
<1>8. LoopInv(n, interval, most)
  BY <1>2, <1>3, <1>5, CallAssumption DEF LoopInv
<1> QED
  BY <1>3, <1>8 DEF n

(* Taking a tick keeps the loop fresh. *)
LEMMA SentLoop ==
  ASSUME NEW interval \in Nat, NEW most \in Nat, NEW l,
         LoopInv(l, interval, most), CanSend(l)
  PROVE  /\ LoopInv(Sent(l), interval, most)
         /\ Sent(l).beat = l.beat /\ l.beat # 0
         /\ Fresh(l, interval) => Fresh(Sent(l), interval)
<1> DEFINE n == Sent(l)
<1>1. l \in LoopType
  BY DEF LoopInv
<1>2. /\ l.age \in Nat /\ l.beat \in Nat /\ l.due \in 0..1
      /\ l.call \in {"none", "sent", "served"}
      /\ l.flight \in Nat /\ l.missed \in Nat
  BY <1>1, LoopFields
<1>3. /\ n.age = l.age /\ n.beat = l.beat /\ n.due = 0
      /\ n.call = "sent" /\ n.flight = l.flight /\ n.missed = l.missed
  BY <1>1, <1>2 DEF LoopType, Sent
<1>4. 0 \in 0..1 /\ 0 \in Nat
  BY <1>2
<1>5. n \in LoopType
  BY <1>1, <1>2, <1>4, Zenon DEF LoopType, Sent
<1> HIDE DEF n
<1>6. /\ Longest(interval) \in Nat
      /\ interval <= Longest(interval) /\ Patience <= Longest(interval)
  BY LongestFacts
<1>7. /\ Slack(interval, l.missed) \in Nat
      /\ Latency + interval <= Slack(interval, l.missed)
      /\ Slack(interval, l.missed + 1) = Slack(interval, l.missed) + Longest(interval)
  BY Zenon, <1>2, SlackFacts
<1>8. LoopInv(n, interval, most)
  BY <1>2, <1>3, <1>5, CallAssumption DEF LoopInv, CanSend
<1>9. Fresh(l, interval) => Fresh(n, interval)
  BY <1>2, <1>3, <1>6, <1>7, CallAssumption DEF LoopInv, Fresh, CanSend
<1>10. l.beat # 0
  BY <1>2, CallAssumption DEF LoopInv, CanSend
<1> QED
  BY <1>3, <1>8, <1>9, <1>10 DEF n

(* A call that is served makes the record fresh. *)
LEMMA ServedLoop ==
  ASSUME NEW interval \in Nat, NEW most \in Nat, NEW l, NEW age \in Nat,
         LoopInv(l, interval, most), CanServe(l)
  PROVE  /\ LoopInv(Served(l, age), interval, most)
         /\ Served(l, age).beat = l.beat /\ l.beat # 0
         /\ age = 0 => Fresh(Served(l, age), interval)
<1> DEFINE n == Served(l, age)
<1>1. l \in LoopType
  BY DEF LoopInv
<1>2. /\ l.age \in Nat /\ l.beat \in Nat /\ l.due \in 0..1
      /\ l.call \in {"none", "sent", "served"}
      /\ l.flight \in Nat /\ l.missed \in Nat
  BY <1>1, LoopFields
<1>3. /\ n.age = age /\ n.beat = l.beat /\ n.due = l.due
      /\ n.flight = l.flight /\ n.call = "served" /\ n.missed = l.missed
  BY <1>1, <1>2 DEF LoopType, Served
<1>4. 0 \in 0..1 /\ 0 \in Nat
  BY <1>2
<1>5. n \in LoopType
  BY <1>1, <1>2, <1>4, Zenon DEF LoopType, Served
<1> HIDE DEF n
<1>6. /\ Longest(interval) \in Nat
      /\ interval <= Longest(interval) /\ Patience <= Longest(interval)
  BY LongestFacts
<1>7. /\ Slack(interval, l.missed) \in Nat
      /\ Latency + interval <= Slack(interval, l.missed)
      /\ Slack(interval, l.missed + 1) = Slack(interval, l.missed) + Longest(interval)
  BY Zenon, <1>2, SlackFacts
<1>8. LoopInv(n, interval, most)
  BY <1>2, <1>3, <1>5, CallAssumption DEF LoopInv, CanServe
<1>9. age = 0 => Fresh(n, interval)
  BY <1>2, <1>3, <1>6, <1>7, CallAssumption DEF LoopInv, Fresh, CanServe
<1>10. l.beat # 0
  BY <1>2, CallAssumption DEF LoopInv, CanServe
<1> QED
  BY <1>3, <1>8, <1>9, <1>10 DEF n

(* After an answer no failure counts any more. *)
LEMMA AnsweredLoop ==
  ASSUME NEW interval \in Nat, NEW most \in Nat, NEW l,
         LoopInv(l, interval, most), CanAnswer(l)
  PROVE  /\ LoopInv(Answered(l), interval, most)
         /\ Answered(l).beat = l.beat /\ l.beat # 0
         /\ Fresh(l, interval) => Fresh(Answered(l), interval)
<1> DEFINE n == Answered(l)
<1>1. l \in LoopType
  BY DEF LoopInv
<1>2. /\ l.age \in Nat /\ l.beat \in Nat /\ l.due \in 0..1
      /\ l.call \in {"none", "sent", "served"}
      /\ l.flight \in Nat /\ l.missed \in Nat
  BY <1>1, LoopFields
<1>3. /\ n.age = l.age /\ n.beat = l.beat /\ n.due = l.due
      /\ n.call = "none" /\ n.flight = 0 /\ n.missed = 0
  BY <1>1, <1>2 DEF LoopType, Answered
<1>4. 0 \in 0..1 /\ 0 \in Nat
  BY <1>2
<1>5. n \in LoopType
  BY <1>1, <1>2, <1>4, Zenon DEF LoopType, Answered
<1> HIDE DEF n
<1>6. /\ Longest(interval) \in Nat
      /\ interval <= Longest(interval) /\ Patience <= Longest(interval)
  BY LongestFacts
<1>7. /\ Slack(interval, 0) \in Nat
      /\ Latency + interval <= Slack(interval, 0)
      /\ Slack(interval, 0 + 1) = Slack(interval, 0) + Longest(interval)
  BY <1>2, SlackFacts
<1>8. LoopInv(n, interval, most)
  BY <1>2, <1>3, <1>5, CallAssumption DEF LoopInv, CanAnswer
<1>9. Fresh(l, interval) => Fresh(n, interval)
  BY <1>2, <1>3, <1>6, <1>7, CallAssumption DEF LoopInv, Fresh, CanAnswer
<1>10. l.beat # 0
  BY <1>2, CallAssumption DEF LoopInv, CanAnswer
<1> QED
  BY <1>3, <1>8, <1>9, <1>10 DEF n

(* A failure costs what is left of the interval, or the client's timeout. *)
LEMMA LostLoop ==
  ASSUME NEW interval \in Nat, NEW most \in Nat, NEW l,
         LoopInv(l, interval, most), CanLose(l, most)
  PROVE  /\ LoopInv(Lost(l), interval, most)
         /\ Lost(l).beat = l.beat /\ l.beat # 0
         /\ Fresh(l, interval) => Fresh(Lost(l), interval)
<1> DEFINE n == Lost(l)
<1>1. l \in LoopType
  BY DEF LoopInv
<1>2. /\ l.age \in Nat /\ l.beat \in Nat /\ l.due \in 0..1
      /\ l.call \in {"none", "sent", "served"}
      /\ l.flight \in Nat /\ l.missed \in Nat
  BY <1>1, LoopFields
<1>3. /\ n.age = l.age /\ n.beat = l.beat /\ n.due = l.due
      /\ n.call = "none" /\ n.flight = 0 /\ n.missed = l.missed + 1
  BY <1>1, <1>2 DEF LoopType, Lost
<1>4. 0 \in 0..1 /\ 0 \in Nat /\ l.missed + 1 \in Nat
  BY <1>2
<1>5. n \in LoopType
  BY <1>1, <1>2, <1>4, Zenon DEF LoopType, Lost
<1> HIDE DEF n
<1>6. /\ Longest(interval) \in Nat
      /\ interval <= Longest(interval) /\ Patience <= Longest(interval)
  BY LongestFacts
<1>7. /\ Slack(interval, l.missed) \in Nat
      /\ Latency + interval <= Slack(interval, l.missed)
      /\ Slack(interval, l.missed + 1) = Slack(interval, l.missed) + Longest(interval)
  BY Zenon, <1>2, SlackFacts
<1>8. LoopInv(n, interval, most)
  BY <1>2, <1>3, <1>5, CallAssumption DEF LoopInv, CanLose
<1>9. Fresh(l, interval) => Fresh(n, interval)
  BY <1>2, <1>3, <1>6, <1>7, CallAssumption DEF LoopInv, Fresh, CanLose
<1>10. l.beat # 0
  BY <1>2, CallAssumption DEF LoopInv, CanLose
<1> QED
  BY <1>3, <1>8, <1>9, <1>10 DEF n

(* Whatever else touches the record while the loop runs, it stays fresh. *)
LEMMA TouchedLoop ==
  ASSUME NEW interval \in Nat, NEW most \in Nat, NEW l,
         LoopInv(l, interval, most)
  PROVE  /\ LoopInv([l EXCEPT !.age = 0], interval, most)
         /\ [l EXCEPT !.age = 0].beat = l.beat
         /\ [l EXCEPT !.age = 0].age = 0
         /\ Fresh([l EXCEPT !.age = 0], interval)
<1> DEFINE n == [l EXCEPT !.age = 0]
<1>1. l \in LoopType
  BY DEF LoopInv
<1>2. /\ l.age \in Nat /\ l.beat \in Nat /\ l.due \in 0..1
      /\ l.call \in {"none", "sent", "served"}
      /\ l.flight \in Nat /\ l.missed \in Nat
  BY <1>1, LoopFields
<1>3. /\ n.age = 0 /\ n.beat = l.beat /\ n.due = l.due
      /\ n.flight = l.flight /\ n.call = l.call /\ n.missed = l.missed
  BY <1>1, <1>2 DEF LoopType
<1>4. 0 \in 0..1 /\ 0 \in Nat
  BY <1>2
<1>5. n \in LoopType
  BY <1>1, <1>2, <1>4, Zenon DEF LoopType
<1> HIDE DEF n
<1>6. /\ Longest(interval) \in Nat
      /\ interval <= Longest(interval) /\ Patience <= Longest(interval)
  BY LongestFacts
<1>7. /\ Slack(interval, l.missed) \in Nat
      /\ Latency + interval <= Slack(interval, l.missed)
      /\ Slack(interval, l.missed + 1) = Slack(interval, l.missed) + Longest(interval)
  BY Zenon, <1>2, SlackFacts
<1>8. LoopInv(n, interval, most)
  BY <1>2, <1>3, <1>5, CallAssumption DEF LoopInv
<1>9. Fresh(n, interval)
  BY <1>2, <1>3, <1>6, <1>7, CallAssumption DEF LoopInv, Fresh
<1> QED
  BY <1>3, <1>8, <1>9 DEF n

(* Time keeps the loop fresh. *)
LEMMA PassedLoop ==
  ASSUME NEW interval \in Nat, interval > 0, NEW most \in Nat, NEW l,
         LoopInv(l, interval, most), CanPass(l, most)
  PROVE  /\ LoopInv(Passed(l, interval), interval, most)
         /\ Passed(l, interval).age = l.age + 1
         /\ Passed(l, interval).beat = 0 <=> l.beat = 0
         /\ l.beat # 0 /\ Fresh(l, interval) => Fresh(Passed(l, interval), interval)
<1> DEFINE n == Passed(l, interval)
<1>1. l \in LoopType
  BY DEF LoopInv
<1>2. /\ l.age \in Nat /\ l.beat \in Nat /\ l.due \in 0..1
      /\ l.call \in {"none", "sent", "served"}
      /\ l.flight \in Nat /\ l.missed \in Nat
  BY <1>1, LoopFields
<1>3. /\ n.age = l.age + 1
      /\ n.flight = IF l.call = "none" THEN 0 ELSE l.flight + 1
      /\ n.beat = IF l.beat = 0 THEN 0
                  ELSE IF l.beat = 1 THEN interval ELSE l.beat - 1
      /\ n.due = IF l.beat = 1 THEN 1 ELSE l.due
      /\ n.call = l.call /\ n.missed = l.missed
  BY <1>1, <1>2 DEF LoopType, Passed
<1>4. /\ l.age + 1 \in Nat
      /\ (IF l.call = "none" THEN 0 ELSE l.flight + 1) \in Nat
      /\ (IF l.beat = 0 THEN 0 ELSE IF l.beat = 1 THEN interval ELSE l.beat - 1) \in Nat
      /\ (IF l.beat = 1 THEN 1 ELSE l.due) \in 0..1
  BY <1>2
<1>5. n \in LoopType
  BY <1>1, <1>2, <1>4, Zenon DEF LoopType, Passed
<1> HIDE DEF n
<1>6. /\ Longest(interval) \in Nat
      /\ interval <= Longest(interval) /\ Patience <= Longest(interval)
  BY LongestFacts
<1>7. /\ Slack(interval, l.missed) \in Nat
      /\ Latency + interval <= Slack(interval, l.missed)
      /\ Slack(interval, l.missed + 1) = Slack(interval, l.missed) + Longest(interval)
  BY Zenon, <1>2, SlackFacts
<1>8. LoopInv(n, interval, most) /\ (n.beat = 0 <=> l.beat = 0)
  BY <1>2, <1>3, <1>5, CallAssumption DEF CanPass, CanSend, LoopInv
<1>9. l.beat # 0 /\ Fresh(l, interval) => Fresh(n, interval)
  BY <1>2, <1>3, <1>6, <1>7, CallAssumption DEF CanPass, CanSend, LoopInv, Fresh
<1> QED
  BY <1>3, <1>8, <1>9 DEF n

(* The cap on ages keeps the loop fresh. *)
LEMMA CappedLoop ==
  ASSUME NEW interval \in Nat, NEW most \in Nat, NEW l,
         LoopInv(l, interval, most), NEW limit \in Nat
  PROVE  /\ LoopInv(Capped(l, limit), interval, most)
         /\ Capped(l, limit).age <= l.age
         /\ Capped(l, limit).beat = l.beat
         /\ Fresh(l, interval) => Fresh(Capped(l, limit), interval)
<1> DEFINE n == Capped(l, limit)
<1>1. l \in LoopType
  BY DEF LoopInv
<1>2. /\ l.age \in Nat /\ l.beat \in Nat /\ l.due \in 0..1
      /\ l.call \in {"none", "sent", "served"}
      /\ l.flight \in Nat /\ l.missed \in Nat
  BY <1>1, LoopFields
<1>3. /\ n.age <= l.age
      /\ n.beat = l.beat /\ n.due = l.due /\ n.flight = l.flight
      /\ n.call = l.call /\ n.missed = l.missed
  BY <1>1, <1>2 DEF LoopType, Capped
<1>4. limit + 1 \in Nat
  OBVIOUS
<1>5. n \in LoopType
  <2>1. [l EXCEPT !.age = limit + 1] \in LoopType
    BY <1>1, <1>4, Zenon DEF LoopType
  <2> QED
    BY <1>1, <2>1, Zenon DEF Capped
<1> HIDE DEF n
<1>6. n.age \in Nat
  BY <1>5, LoopFields
<1>7. Slack(interval, l.missed) \in Nat
  BY Zenon, <1>2, SlackFacts
<1>8. LoopInv(n, interval, most)
  BY <1>2, <1>3, <1>5 DEF LoopInv
<1>9. Fresh(l, interval) => Fresh(n, interval)
  BY <1>2, <1>3, <1>6, <1>7 DEF Fresh
<1> QED
  BY <1>3, <1>8, <1>9 DEF n

(* One unit of time, with the cap. *)
LEMMA TickedLoop ==
  ASSUME NEW interval \in Nat, interval > 0, NEW most \in Nat, NEW l,
         LoopInv(l, interval, most), CanPass(l, most), NEW limit \in Nat,
         NEW n, n = Capped(Passed(l, interval), limit)
  PROVE  /\ LoopInv(n, interval, most)
         /\ n.age <= l.age + 1
         /\ n.beat = 0 <=> l.beat = 0
         /\ l.beat # 0 /\ Fresh(l, interval) => Fresh(n, interval)
<1> DEFINE p == Passed(l, interval)
<1>1. /\ LoopInv(p, interval, most)
      /\ p.age = l.age + 1
      /\ p.beat = 0 <=> l.beat = 0
      /\ l.beat # 0 /\ Fresh(l, interval) => Fresh(p, interval)
  BY PassedLoop
<1>2. n = Capped(p, limit)
  OBVIOUS
<1> HIDE DEF p
<1>3. /\ LoopInv(n, interval, most)
      /\ n.age <= p.age
      /\ n.beat = p.beat
      /\ Fresh(p, interval) => Fresh(n, interval)
  <2>1. LoopInv(p, interval, most)
    BY <1>1
  <2>2. /\ LoopInv(Capped(p, limit), interval, most)
        /\ Capped(p, limit).age <= p.age
        /\ Capped(p, limit).beat = p.beat
        /\ Fresh(p, interval) => Fresh(Capped(p, limit), interval)
    BY <2>1, CappedLoop
  <2> QED
    BY <2>2, <1>2, Zenon
<1>4. n.age <= l.age + 1
  BY <1>1, <1>3
<1>5. n.beat = 0 <=> l.beat = 0
  BY <1>1, <1>3
<1>6. l.beat # 0 /\ Fresh(l, interval) => Fresh(n, interval)
  BY <1>1, <1>3, Zenon
<1> QED
  BY <1>3, <1>4, <1>5, <1>6

(* The bound on the age of the server's record. *)
LEMMA FreshBound ==
  ASSUME NEW interval \in Nat, NEW most \in Nat, NEW l,
         LoopInv(l, interval, most), Fresh(l, interval)
  PROVE  l.age <= Oldest(interval, most)
<1>1. l \in LoopType
  BY DEF LoopInv
<1>2. /\ l.age \in Nat /\ l.beat \in Nat /\ l.due \in 0..1
      /\ l.call \in {"none", "sent", "served"}
      /\ l.flight \in Nat /\ l.missed \in Nat
  BY <1>1, LoopFields
<1>3. l.missed <= most
  BY DEF LoopInv
<1>4. /\ Longest(interval) \in Nat /\ Patience <= Longest(interval)
      /\ Slack(interval, l.missed) \in Nat /\ Slack(interval, most) \in Nat
      /\ Slack(interval, l.missed) <= Slack(interval, most)
      /\ Slack(interval, l.missed + 1) = Slack(interval, l.missed) + Longest(interval)
  BY Zenon, <1>2, <1>3, LongestFacts, SlackFacts, SlackGrows
<1>5. l.flight > Latency => Slack(interval, l.missed + 1) <= Slack(interval, most)
  <2>1. ASSUME l.flight > Latency
        PROVE  l.missed + 1 \in Nat /\ l.missed + 1 <= most
    BY <1>2, <2>1 DEF LoopInv
  <2> QED
    BY <2>1, SlackGrows
<1> QED
  BY <1>2, <1>4, <1>5, CallAssumption DEF Oldest, LoopInv, Fresh
------------------------------------------------------------------------------
(* The rest of the argument is about the worker.  Control says where the   *)
(* main goroutine can be and which loop runs then; the other two say how   *)
(* old last_heartbeat and the lease can be at each point.                  *)
Control ==
  /\ pc \in {"register", "poll", "busy", "report"}
  /\ wait \in Int /\ -1 <= wait
  /\ pc # "report" => wait <= Latency
  /\ pc = "report" => 0 <= wait
  /\ pc = "busy" => wait = -1
  /\ LoopInv(heart, HeartbeatInterval, MissedBeats)
  /\ LoopInv(renew, RenewInterval, MissedRenewals)
  /\ heart.beat = 0 => pc = "register"
  /\ renew.beat # 0 <=> pc = "busy"
  /\ pc = "register" => held = "none"
  /\ pc = "poll" /\ wait = -1 => held = "none"

HeartFresh ==
  /\ row /\ heart.beat # 0 => Fresh(heart, HeartbeatInterval)
  /\ row /\ pc = "register" /\ 0 <= wait => heart.age <= wait

LeaseFresh ==
  /\ held = "held" /\ pc = "poll" => renew.age <= wait
  /\ held = "held" /\ pc = "busy" => Fresh(renew, RenewInterval)
  /\ held = "held" /\ pc = "report" =>
       renew.age <= Oldest(RenewInterval, MissedRenewals) + wait
  /\ LeaseKept

(* The types of the flags and of the bounds. *)
LEMMA ConstantFacts ==
  /\ HeartbeatInterval \in Nat /\ HeartbeatInterval > 0
  /\ RenewInterval \in Nat /\ RenewInterval > 0
  /\ MissedBeats \in Nat /\ MissedRenewals \in Nat
  /\ HeartbeatTimeout \in Nat /\ Lease \in Nat
  /\ Patience \in Nat /\ Latency \in Nat
BY LoopsAssumption, CallAssumption DEF RenewInterval

(* A loop that does not run keeps the invariant of a loop. *)
LEMMA OffLoop ==
  ASSUME NEW interval \in Nat, NEW most \in Nat
  PROVE  LoopInv(Off, interval, most) /\ Off.beat = 0
<1>1. Off \in LoopType
  BY DEF Off, LoopType
<1>2. /\ Off.age = 0 /\ Off.beat = 0 /\ Off.due = 0 /\ Off.call = "none"
      /\ Off.flight = 0 /\ Off.missed = 0
  BY DEF Off
<1> QED
  BY <1>1, <1>2, CallAssumption DEF LoopInv

(* The process starts with both loops off. *)
LEMMA InitHolds == RInit => Control /\ HeartFresh /\ LeaseFresh
<1> SUFFICES ASSUME RInit
             PROVE  Control /\ HeartFresh /\ LeaseFresh
  OBVIOUS
<1>1. /\ LoopInv(Off, HeartbeatInterval, MissedBeats) /\ Off.beat = 0
      /\ LoopInv(Off, RenewInterval, MissedRenewals)
  BY OffLoop, ConstantFacts
<1>2. /\ row = FALSE /\ heart = Off /\ renew = Off
      /\ pc = "register" /\ wait = -1 /\ held = "none"
  BY DEF RInit
<1>3. Control
  BY <1>1, <1>2, ConstantFacts DEF Control
<1> QED
  BY <1>2, <1>3 DEF HeartFresh, LeaseFresh, LeaseKept

(* Every step keeps Control. *)
LEMMA ControlStep == Control /\ [RNext]_rvars => Control'
<1> SUFFICES ASSUME Control, [RNext]_rvars
             PROVE  Control'
  OBVIOUS
<1>i. /\ HeartbeatInterval \in Nat /\ HeartbeatInterval > 0
      /\ RenewInterval \in Nat /\ RenewInterval > 0
      /\ MissedBeats \in Nat /\ MissedRenewals \in Nat
      /\ HeartbeatTimeout \in Nat /\ Lease \in Nat
      /\ Patience \in Nat /\ Latency \in Nat
  BY ConstantFacts
<1>h. LoopInv(heart, HeartbeatInterval, MissedBeats)
  BY DEF Control
<1>r. LoopInv(renew, RenewInterval, MissedRenewals)
  BY DEF Control
<1>t. /\ LoopInv([heart EXCEPT !.age = 0], HeartbeatInterval, MissedBeats)
      /\ [heart EXCEPT !.age = 0].beat = heart.beat
      /\ LoopInv([renew EXCEPT !.age = 0], RenewInterval, MissedRenewals)
      /\ [renew EXCEPT !.age = 0].beat = renew.beat
  BY <1>i, <1>h, <1>r, TouchedLoop
<1>a. heart.age \in Nat /\ renew.age \in Nat
  BY <1>h, <1>r, LoopFields DEF LoopInv
<1>1. CASE RegisterServed
  <2>1. /\ pc = "register" /\ wait' = 0 /\ heart' = [heart EXCEPT !.age = 0]
        /\ UNCHANGED <<pc, renew, held>>
    BY <1>1 DEF RegisterServed
  <2>2. LoopInv(heart', HeartbeatInterval, MissedBeats) /\ heart'.beat = heart.beat
    BY <2>1, <1>t, Zenon
  <2>3. /\ pc' = pc /\ wait' = 0 /\ renew' = renew /\ held' = held
    BY <2>1
  <2> QED
    BY <2>1, <2>2, <2>3, <1>i DEF Control
<1>2. CASE RegisterAnswered
  <2>1. /\ LoopInv(Started(heart, HeartbeatInterval), HeartbeatInterval, MissedBeats)
        /\ Started(heart, HeartbeatInterval).beat = HeartbeatInterval
    BY <1>i, <1>h, StartedLoop
  <2> QED
    BY <1>2, <1>i, <2>1 DEF RegisterAnswered, Control
<1>3. CASE ClaimServed
  <2>1. CASE row
    <3>1. /\ pc = "poll" /\ pc' = pc /\ wait' = 0
          /\ heart' = [heart EXCEPT !.age = 0] /\ renew' = [renew EXCEPT !.age = 0]
      BY <1>3, <2>1 DEF ClaimServed
    <3>2. /\ LoopInv(heart', HeartbeatInterval, MissedBeats) /\ heart'.beat = heart.beat
          /\ LoopInv(renew', RenewInterval, MissedRenewals) /\ renew'.beat = renew.beat
      BY <3>1, <1>t, Zenon
    <3> QED
      BY <3>1, <3>2, <1>i DEF Control
  <2>2. CASE ~row
    <3>1. /\ pc = "poll" /\ pc' = "register" /\ wait = -1
          /\ UNCHANGED <<wait, heart, renew, held>>
      BY <1>3, <2>2 DEF ClaimServed
    <3> QED
      BY <3>1, <1>i DEF Control
  <2> QED
    BY <2>1, <2>2
<1>4. CASE ClaimAnswered
  <2>1. /\ LoopInv(Started(renew, RenewInterval), RenewInterval, MissedRenewals)
        /\ Started(renew, RenewInterval).beat = RenewInterval
    BY <1>i, <1>r, StartedLoop
  <2> QED
    BY <1>4, <1>i, <2>1 DEF ClaimAnswered, Control
<1>5. CASE AnswerLost
  BY <1>5, <1>i DEF AnswerLost, Control
<1>6. CASE BeatSent \/ BeatServed \/ BeatAnswered \/ BeatLost
  <2>1. LoopInv(heart', HeartbeatInterval, MissedBeats) /\ heart'.beat = heart.beat
    <3>1. CASE BeatSent
      BY <3>1, <1>i, <1>h, SentLoop DEF BeatSent
    <3>2. CASE BeatServed
      <4>1. Touched \in Nat
        BY <1>a DEF Touched
      <4> QED
        BY <3>2, <4>1, <1>i, <1>h, ServedLoop DEF BeatServed
    <3>3. CASE BeatAnswered
      BY <3>3, <1>i, <1>h, AnsweredLoop DEF BeatAnswered
    <3>4. CASE BeatLost
      BY <3>4, <1>i, <1>h, LostLoop DEF BeatLost
    <3> QED
      BY <1>6, <3>1, <3>2, <3>3, <3>4
  <2>2. UNCHANGED <<pc, wait, renew, held>>
    BY <1>6 DEF BeatSent, BeatServed, BeatAnswered, BeatLost
  <2> QED
    BY <2>1, <2>2 DEF Control
<1>7. CASE RenewSent \/ RenewServed \/ (RenewAnswered /\ held # "taken") \/ RenewLost
  <2>1. /\ LoopInv(renew', RenewInterval, MissedRenewals)
        /\ renew'.beat = renew.beat
    <3>1. CASE RenewSent
      BY <3>1, <1>i, <1>r, SentLoop DEF RenewSent
    <3>2. CASE RenewServed
      <4>1. (IF held = "held" THEN 0 ELSE renew.age) \in Nat
        BY <1>a
      <4> QED
        BY <3>2, <4>1, <1>i, <1>r, ServedLoop DEF RenewServed
    <3>3. CASE RenewAnswered /\ held # "taken"
      BY <3>3, <1>i, <1>r, AnsweredLoop DEF RenewAnswered
    <3>4. CASE RenewLost
      BY <3>4, <1>i, <1>r, LostLoop DEF RenewLost
    <3> QED
      BY <1>7, <3>1, <3>2, <3>3, <3>4
  <2>2. UNCHANGED <<pc, wait, heart, held>>
    BY <1>7 DEF RenewSent, RenewServed, RenewAnswered, RenewLost
  <2> QED
    BY <2>1, <2>2 DEF Control
<1>8. CASE Exit \/ (RenewAnswered /\ held = "taken")
  <2>1. LoopInv(Stopped(renew), RenewInterval, MissedRenewals) /\ Stopped(renew).beat = 0
    BY <1>i, <1>r, StoppedLoop
  <2>2. pc = "busy"
    <3>1. CASE Exit
      BY <3>1 DEF Exit
    <3>2. CASE RenewAnswered
      <4>1. renew.beat # 0
        BY <3>2, <1>i, <1>r, AnsweredLoop DEF RenewAnswered
      <4> QED
        BY <4>1 DEF Control
    <3> QED
      BY <1>8, <3>1, <3>2
  <2>3. /\ pc' = "report" /\ wait' = 0 /\ renew' = Stopped(renew)
        /\ UNCHANGED <<heart, held>>
    BY <1>8 DEF Exit, RenewAnswered
  <2> QED
    BY <2>1, <2>2, <2>3, <1>i DEF Control
<1>9. CASE Report
  <2>1. LoopInv(heart', HeartbeatInterval, MissedBeats) /\ heart'.beat = heart.beat
    <3>1. CASE heart' = heart
      BY <3>1, <1>h
    <3>2. CASE heart' = [heart EXCEPT !.age = Touched]
      <4>1. CASE row
        BY <3>2, <4>1, <1>t DEF Touched
      <4>2. CASE ~row
        <5>1. heart' = [heart EXCEPT !.age = heart.age]
          BY <3>2, <4>2 DEF Touched
        <5>2. heart' = heart
          BY <5>1, <1>h, Zenon DEF LoopInv, LoopType
        <5> QED
          BY <5>2, <1>h
      <4> QED
        BY <4>1, <4>2
    <3> QED
      BY <1>9, <3>1, <3>2 DEF Report
  <2>2. heart.beat # 0
    BY <1>9 DEF Report, Control
  <2> QED
    BY <1>9, <1>i, <2>1, <2>2 DEF Report, Control
<1>10. CASE Reap \/ Submit \/ Reset
  BY <1>10, <1>i DEF Reap, Submit, Reset, Control
<1>11. CASE Tick
  <2>1. /\ LoopInv(heart', HeartbeatInterval, MissedBeats)
        /\ heart'.beat = 0 <=> heart.beat = 0
    BY <1>11, <1>i, <1>h, TickedLoop DEF Tick
  <2>2. /\ LoopInv(renew', RenewInterval, MissedRenewals)
        /\ renew'.beat = 0 <=> renew.beat = 0
    BY <1>11, <1>i, <1>r, TickedLoop DEF Tick
  <2> QED
    BY <1>11, <1>i, <2>1, <2>2 DEF Tick, Control
<1>12. CASE UNCHANGED rvars
  BY <1>12 DEF rvars, Control
<1> QED
  BY <1>1, <1>2, <1>3, <1>4, <1>5, <1>6, <1>7, <1>8, <1>9, <1>10, <1>11, <1>12
     DEF RNext

(* Every step keeps last_heartbeat as fresh as HeartFresh says. *)
LEMMA HeartStep == Control /\ HeartFresh /\ [RNext]_rvars => HeartFresh'
<1> SUFFICES ASSUME Control, HeartFresh, [RNext]_rvars
             PROVE  HeartFresh'
  OBVIOUS
<1>i. /\ HeartbeatInterval \in Nat /\ HeartbeatInterval > 0
      /\ RenewInterval \in Nat /\ RenewInterval > 0
      /\ MissedBeats \in Nat /\ MissedRenewals \in Nat
      /\ HeartbeatTimeout \in Nat /\ Lease \in Nat
      /\ Patience \in Nat /\ Latency \in Nat
  BY ConstantFacts
<1>h. LoopInv(heart, HeartbeatInterval, MissedBeats)
  BY DEF Control
<1>a. heart.age \in Nat /\ wait \in Int
  BY <1>h, LoopFields DEF LoopInv, Control
<1>t. /\ [heart EXCEPT !.age = 0].beat = heart.beat
      /\ [heart EXCEPT !.age = 0].age = 0
      /\ Fresh([heart EXCEPT !.age = 0], HeartbeatInterval)
  BY <1>i, <1>h, TouchedLoop
<1>1. CASE RegisterServed \/ (ClaimServed /\ row)
  <2>1. heart' = [heart EXCEPT !.age = 0] /\ wait' = 0
    BY <1>1 DEF RegisterServed, ClaimServed
  <2>2. Fresh(heart', HeartbeatInterval) /\ heart'.age = 0
    BY <2>1, <1>t, Zenon
  <2> QED
    BY <2>1, <2>2 DEF HeartFresh
<1>2. CASE RegisterAnswered
  <2>1. /\ pc = "register" /\ 0 <= wait /\ pc' = "poll" /\ row' = row
        /\ heart' = IF heart.beat = 0 THEN Started(heart, HeartbeatInterval)
                                      ELSE heart
    BY <1>2 DEF RegisterAnswered
  <2>2. row => heart.age <= Latency
    <3>1. wait <= Latency
      BY <2>1 DEF Control
    <3>2. row => heart.age <= wait
      BY <2>1 DEF HeartFresh
    <3> QED
      BY <3>1, <3>2, <1>a, <1>i
  <2>3. heart.age <= Latency => Fresh(Started(heart, HeartbeatInterval), HeartbeatInterval)
    BY <1>i, <1>h, StartedLoop
  <2> QED
    BY <2>1, <2>2, <2>3 DEF HeartFresh
<1>3. CASE ClaimServed /\ ~row
  <2>1. row' = row /\ ~row
    BY <1>3 DEF ClaimServed
  <2> QED
    BY <2>1 DEF HeartFresh
<1>4. CASE ClaimAnswered \/ AnswerLost
  <2>1. row' = row /\ heart' = heart /\ (pc' # "register" \/ wait' = -1)
    BY <1>4 DEF ClaimAnswered, AnswerLost
  <2> QED
    BY <2>1 DEF HeartFresh
<1>5. CASE BeatSent \/ BeatAnswered \/ BeatLost
  <2>1. /\ Fresh(heart, HeartbeatInterval) => Fresh(heart', HeartbeatInterval)
        /\ heart'.beat = heart.beat
    <3>1. CASE BeatSent
      BY <3>1, <1>i, <1>h, SentLoop DEF BeatSent
    <3>2. CASE BeatAnswered
      BY <3>2, <1>i, <1>h, AnsweredLoop DEF BeatAnswered
    <3>3. CASE BeatLost
      BY <3>3, <1>i, <1>h, LostLoop DEF BeatLost
    <3> QED
      BY <1>5, <3>1, <3>2, <3>3
  <2>2. heart'.age = heart.age
    <3>1. heart \in LoopType
      BY <1>h DEF LoopInv
    <3>2. heart' \in {Sent(heart), Answered(heart), Lost(heart)}
      BY <1>5 DEF BeatSent, BeatAnswered, BeatLost
    <3> QED
      BY Zenon, <3>1, <3>2 DEF Sent, Answered, Lost, LoopType
  <2>3. row' = row /\ pc' = pc /\ wait' = wait
    BY <1>5 DEF BeatSent, BeatAnswered, BeatLost
  <2> QED
    BY <2>1, <2>2, <2>3 DEF HeartFresh
<1>6. CASE BeatServed
  <2>1. row' = row /\ pc' = pc /\ wait' = wait /\ heart' = Served(heart, Touched)
    BY <1>6 DEF BeatServed
  <2>2. CASE row
    <3>1. heart' = Served(heart, 0)
      BY <2>1, <2>2 DEF Touched
    <3>2. Fresh(heart', HeartbeatInterval)
      BY <3>1, <1>6, <1>i, <1>h, ServedLoop DEF BeatServed
    <3>3. heart'.age = 0
      <4>1. heart \in LoopType
        BY <1>h DEF LoopInv
      <4> QED
        BY <3>1, <4>1 DEF Served, LoopType
    <3> QED
      BY <2>1, <3>2, <3>3 DEF HeartFresh
  <2>3. CASE ~row
    BY <2>1, <2>3 DEF HeartFresh
  <2> QED
    BY <2>2, <2>3
<1>7. CASE RenewSent \/ RenewServed \/ RenewAnswered \/ RenewLost \/ Exit
  <2>1. /\ row' = row /\ heart' = heart
        /\ pc' = "report" \/ (pc' = pc /\ wait' = wait)
    BY <1>7 DEF RenewSent, RenewServed, RenewAnswered, RenewLost, Exit
  <2> QED
    BY <2>1 DEF HeartFresh
<1>8. CASE Report
  <2>1. row' = row /\ pc' = "poll" /\ heart' \in {heart, [heart EXCEPT !.age = Touched]}
    BY <1>8 DEF Report
  <2>2. CASE row
    <3>1. heart' = heart \/ heart' = [heart EXCEPT !.age = 0]
      BY <2>1, <2>2 DEF Touched
    <3>2. Fresh([heart EXCEPT !.age = 0], HeartbeatInterval)
      BY <1>t
    <3>3. heart.beat # 0
      BY <1>8 DEF Report, Control
    <3>4. Fresh(heart, HeartbeatInterval)
      BY <2>2, <3>3 DEF HeartFresh
    <3>5. Fresh(heart', HeartbeatInterval)
      BY <3>1, <3>2, <3>4, Zenon
    <3> QED
      BY <2>1, <3>5 DEF HeartFresh
  <2>3. CASE ~row
    BY <2>1, <2>3 DEF HeartFresh
  <2> QED
    BY <2>2, <2>3
<1>9. CASE Reap \/ Submit
  <2>1. UNCHANGED <<row, heart, pc, wait>>
    BY <1>9 DEF Reap, Submit
  <2> QED
    BY <2>1 DEF HeartFresh
<1>10. CASE Reset
  <2>1. row' = FALSE
    BY <1>10 DEF Reset
  <2> QED
    BY <2>1 DEF HeartFresh
<1>11. CASE Tick
  <2>1. /\ heart'.age <= heart.age + 1
        /\ heart'.beat = 0 <=> heart.beat = 0
        /\ heart.beat # 0 /\ Fresh(heart, HeartbeatInterval)
             => Fresh(heart', HeartbeatInterval)
        /\ LoopInv(heart', HeartbeatInterval, MissedBeats)
    BY <1>11, <1>i, <1>h, TickedLoop DEF Tick
  <2>2. row' = row /\ pc' = pc /\ wait' = IF wait = -1 THEN -1 ELSE wait + 1
    BY <1>11 DEF Tick
  <2>3. row' /\ heart'.beat # 0 => Fresh(heart', HeartbeatInterval)
    BY <2>1, <2>2 DEF HeartFresh
  <2>4. heart'.age \in Nat
    BY <2>1, LoopFields DEF LoopInv
  <2>5. row' /\ pc' = "register" /\ 0 <= wait' => heart'.age <= wait'
    <3>1. SUFFICES ASSUME row', pc' = "register", 0 <= wait'
                   PROVE  heart'.age <= wait'
      OBVIOUS
    <3>2. 0 <= wait /\ wait' = wait + 1
      BY <2>2, <3>1, <1>a DEF Control
    <3>3. heart.age <= wait
      BY <2>2, <3>1, <3>2 DEF HeartFresh
    <3> QED
      BY <2>1, <2>4, <3>2, <3>3, <1>a
  <2> QED
    BY <2>3, <2>5 DEF HeartFresh
<1>12. CASE UNCHANGED rvars
  BY <1>12 DEF rvars, HeartFresh
<1> QED
  BY <1>1, <1>2, <1>3, <1>4, <1>5, <1>6, <1>7, <1>8, <1>9, <1>10, <1>11, <1>12
     DEF RNext

(* While at most MissedBeats heartbeats fail in a row, a worker whose      *)
(* heartbeat loop runs is never listed as dead, for all intervals,         *)
(* timeouts and latencies that leave room for that many failures.          *)
THEOREM WorkerStaysAlive ==
  ASSUME Oldest(HeartbeatInterval, MissedBeats) < HeartbeatTimeout
  PROVE  RSpec => []HealthyIsAlive
<1>1. RInit => Control /\ HeartFresh
  BY InitHolds
<1>2. Control /\ HeartFresh /\ [RNext]_rvars => (Control /\ HeartFresh)'
  BY ControlStep, HeartStep
<1>3. Control /\ HeartFresh => HealthyIsAlive
  <2> SUFFICES ASSUME Control, HeartFresh, row, heart.beat # 0
               PROVE  heart.age < HeartbeatTimeout
    BY DEF HealthyIsAlive, Alive
  <2>1. LoopInv(heart, HeartbeatInterval, MissedBeats)
    BY DEF Control
  <2>2. Fresh(heart, HeartbeatInterval)
    BY DEF HeartFresh
  <2>3. heart.age <= Oldest(HeartbeatInterval, MissedBeats)
    BY <2>1, <2>2, ConstantFacts, FreshBound
  <2>4. heart.age \in Nat
    BY <2>1, LoopFields DEF LoopInv
  <2>5. Oldest(HeartbeatInterval, MissedBeats) \in Nat
    BY OldestFacts, ConstantFacts
  <2> QED
    BY <2>3, <2>4, <2>5, ConstantFacts
<1> QED
  BY <1>1, <1>2, <1>3, PTL DEF RSpec

(* Every step keeps the lease as LeaseFresh says, when the lease has room  *)
(* for the renewals that may fail.                                         *)
LEMMA LeaseStep ==
  ASSUME Oldest(RenewInterval, MissedRenewals) <= Lease
  PROVE  Control /\ LeaseFresh /\ [RNext]_rvars => LeaseFresh'
<1> SUFFICES ASSUME Control, LeaseFresh, [RNext]_rvars
             PROVE  LeaseFresh'
  OBVIOUS
<1> DEFINE O == Oldest(RenewInterval, MissedRenewals)
<1>i. /\ RenewInterval \in Nat /\ RenewInterval > 0
      /\ MissedRenewals \in Nat /\ Lease \in Nat
      /\ Patience \in Nat /\ Latency \in Nat
  BY ConstantFacts
<1>o. O \in Nat /\ Latency <= O /\ O <= Lease
  BY <1>i, OldestFacts
<1> HIDE DEF O
<1>r. LoopInv(renew, RenewInterval, MissedRenewals)
  BY DEF Control
<1>a. renew.age \in Nat /\ wait \in Int
  BY <1>r, LoopFields DEF LoopInv, Control
<1>b. Fresh(renew, RenewInterval) => renew.age <= O
  BY <1>i, <1>r, FreshBound DEF O
<1>k. LeaseKept <=> (held = "taken" => pc = "report" /\ wait > Lease - O)
  BY DEF LeaseKept, O
<1>f. LeaseFresh <=>
        /\ held = "held" /\ pc = "poll" => renew.age <= wait
        /\ held = "held" /\ pc = "busy" => Fresh(renew, RenewInterval)
        /\ held = "held" /\ pc = "report" => renew.age <= O + wait
        /\ held = "taken" => pc = "report" /\ wait > Lease - O
  BY <1>k DEF LeaseFresh, O
<1>g. (/\ held' = "held" /\ pc' = "poll" => renew'.age <= wait'
       /\ held' = "held" /\ pc' = "busy" => Fresh(renew', RenewInterval)
       /\ held' = "held" /\ pc' = "report" => renew'.age <= O + wait'
       /\ held' = "taken" => pc' = "report" /\ wait' > Lease - O)
      => LeaseFresh'
  BY DEF LeaseFresh, LeaseKept, O
<1>1. CASE RegisterServed \/ RegisterAnswered
  <2>1. pc = "register" /\ held' = held
    BY <1>1 DEF RegisterServed, RegisterAnswered
  <2>2. held' = "none"
    BY <2>1 DEF Control
  <2> QED
    BY <2>2, <1>g
<1>2. CASE ClaimServed
  <2>1. CASE row
    <3>1. /\ held' = "held" /\ pc' = "poll" /\ wait' = 0
          /\ renew' = [renew EXCEPT !.age = 0]
      BY <1>2, <2>1 DEF ClaimServed, Control
    <3>2. renew'.age = 0
      BY <3>1, <1>i, <1>r, TouchedLoop
    <3> QED
      BY <3>1, <3>2, <1>g
  <2>2. CASE ~row
    <3>1. pc = "poll" /\ wait = -1 /\ held' = held
      BY <1>2, <2>2 DEF ClaimServed
    <3>2. held' = "none"
      BY <3>1 DEF Control
    <3> QED
      BY <3>2, <1>g
  <2> QED
    BY <2>1, <2>2
<1>3. CASE ClaimAnswered
  <2>1. /\ pc = "poll" /\ pc' = "busy" /\ held' = held
        /\ renew' = Started(renew, RenewInterval)
    BY <1>3 DEF ClaimAnswered
  <2>2. held # "taken"
    BY <2>1, <1>f
  <2>3. wait <= Latency
    BY <2>1 DEF Control
  <2>4. held = "held" => renew.age <= Latency
    BY <2>1, <2>3, <1>f, <1>a, <1>i
  <2>5. renew.age <= Latency => Fresh(renew', RenewInterval)
    BY <2>1, <1>i, <1>r, StartedLoop
  <2> QED
    BY <2>1, <2>2, <2>4, <2>5, <1>g
<1>4. CASE AnswerLost \/ Report
  <2>1. held' = "none"
    BY <1>4 DEF AnswerLost, Report
  <2> QED
    BY <2>1, <1>g
<1>5. CASE BeatSent \/ BeatServed \/ BeatAnswered \/ BeatLost \/ Submit
  <2>1. pc' = pc /\ wait' = wait /\ renew' = renew /\ held' = held
    BY <1>5 DEF BeatSent, BeatServed, BeatAnswered, BeatLost, Submit
  <2> QED
    BY <2>1, <1>f, <1>g
<1>6. CASE RenewSent \/ RenewServed \/ RenewLost \/ RenewAnswered
  <2>1. renew.beat # 0
    <3>1. CASE RenewSent
      BY <3>1, <1>i, <1>r, SentLoop DEF RenewSent
    <3>2. CASE RenewServed
      <4>1. 0 \in Nat
        OBVIOUS
      <4> QED
        BY <3>2, <4>1, <1>i, <1>r, ServedLoop DEF RenewServed
    <3>3. CASE RenewAnswered
      BY <3>3, <1>i, <1>r, AnsweredLoop DEF RenewAnswered
    <3>4. CASE RenewLost
      BY <3>4, <1>i, <1>r, LostLoop DEF RenewLost
    <3> QED
      BY <1>6, <3>1, <3>2, <3>3, <3>4
  <2>2. pc = "busy"
    BY <2>1 DEF Control
  <2>3. held # "taken"
    BY <2>2, <1>f
  <2>4. pc' = "busy" /\ held' = held
    BY <1>6, <2>2, <2>3 DEF RenewSent, RenewServed, RenewAnswered, RenewLost
  <2>5. held = "held" => Fresh(renew, RenewInterval)
    BY <2>2, <1>f
  <2>6. held = "held" => Fresh(renew', RenewInterval)
    <3>1. CASE RenewSent
      BY <3>1, <2>5, <1>i, <1>r, SentLoop DEF RenewSent
    <3>2. CASE RenewServed
      <4>1. held = "held" => renew' = Served(renew, 0)
        BY <3>2 DEF RenewServed
      <4>2. CanServe(renew) /\ 0 \in Nat
        BY <3>2 DEF RenewServed
      <4>3. Fresh(Served(renew, 0), RenewInterval)
        BY <4>2, <1>i, <1>r, ServedLoop
      <4> QED
        BY <4>1, <4>3, Zenon
    <3>3. CASE RenewAnswered
      BY <3>3, <2>3, <2>5, <1>i, <1>r, AnsweredLoop DEF RenewAnswered
    <3>4. CASE RenewLost
      BY <3>4, <2>5, <1>i, <1>r, LostLoop DEF RenewLost
    <3> QED
      BY <1>6, <3>1, <3>2, <3>3, <3>4
  <2> QED
    BY <2>3, <2>4, <2>6, <1>g
<1>7. CASE Exit
  <2>1. /\ pc = "busy" /\ pc' = "report" /\ wait' = 0 /\ held' = held
        /\ renew' = Stopped(renew)
    BY <1>7 DEF Exit
  <2>2. renew'.age = renew.age
    BY <2>1, <1>i, <1>r, StoppedLoop
  <2>3. held # "taken" /\ (held = "held" => renew.age <= O)
    BY <2>1, <1>b, <1>f
  <2> QED
    BY <2>1, <2>2, <2>3, <1>a, <1>o, <1>g
<1>8. CASE Reap
  <2>1. /\ held = "held" /\ renew.age > Lease /\ held' = "taken"
        /\ pc' = pc /\ wait' = wait
    BY <1>8 DEF Reap
  <2>2. pc # "register"
    BY <2>1 DEF Control
  <2>3. pc # "poll"
    <3>1. pc = "poll" => wait <= Latency
      BY DEF Control
    <3> QED
      BY <3>1, <2>1, <1>a, <1>f, <1>i, <1>o
  <2>4. pc # "busy"
    BY <2>1, <1>a, <1>b, <1>f, <1>i, <1>o
  <2>5. pc = "report"
    BY <2>2, <2>3, <2>4 DEF Control
  <2>6. wait > Lease - O
    BY <2>1, <2>5, <1>a, <1>f, <1>i, <1>o
  <2> QED
    BY <2>1, <2>5, <2>6, <1>g
<1>9. CASE Reset
  <2>1. held' = "none" \/ held' = "gone"
    BY <1>9 DEF Reset
  <2> QED
    BY <2>1, <1>g
<1>10. CASE Tick
  <2>1. /\ renew'.age <= renew.age + 1
        /\ renew.beat # 0 /\ Fresh(renew, RenewInterval) => Fresh(renew', RenewInterval)
        /\ LoopInv(renew', RenewInterval, MissedRenewals)
    BY <1>10, <1>i, <1>r, TickedLoop DEF Tick
  <2>2. renew'.age \in Nat
    BY <2>1, LoopFields DEF LoopInv
  <2>3. /\ pc' = pc /\ held' = held
        /\ wait' = IF wait = -1 THEN -1 ELSE wait + 1
    BY <1>10 DEF Tick
  <2>4. held' = "held" /\ pc' = "busy" => Fresh(renew', RenewInterval)
    BY <2>1, <2>3, <1>f DEF Control
  <2>5. held' = "held" /\ pc' = "poll" => renew'.age <= wait'
    BY <2>1, <2>2, <2>3, <1>a, <1>f DEF Control
  <2>6. pc = "report" => wait' = wait + 1
    BY <2>3, <1>a DEF Control
  <2>7. held' = "held" /\ pc' = "report" => renew'.age <= O + wait'
    BY <2>1, <2>2, <2>3, <2>6, <1>a, <1>f, <1>o
  <2>8. held' = "taken" => pc' = "report" /\ wait' > Lease - O
    BY <2>3, <2>6, <1>a, <1>f, <1>i, <1>o
  <2> QED
    BY <2>4, <2>5, <2>7, <2>8, <1>g
<1>11. CASE UNCHANGED rvars
  <2>1. pc' = pc /\ wait' = wait /\ renew' = renew /\ held' = held
    BY <1>11 DEF rvars
  <2> QED
    BY <2>1, <1>f, <1>g
<1> QED
  BY <1>1, <1>2, <1>3, <1>4, <1>5, <1>6, <1>7, <1>8, <1>9, <1>10, <1>11 DEF RNext

(* While at most MissedRenewals renewals fail in a row, the reaper never   *)
(* takes the job from a command that runs, for every lease, client timeout *)
(* and latency with Lease / 3 + MissedRenewals * max(Lease / 3, Patience)  *)
(* + 2 * Latency <= Lease; and a report has the rest of the lease.         *)
THEOREM RunningCommandKeepsLease ==
  ASSUME Oldest(RenewInterval, MissedRenewals) <= Lease
  PROVE  RSpec => []LeaseKept
<1>1. RInit => Control /\ LeaseFresh
  BY InitHolds
<1>2. Control /\ LeaseFresh /\ [RNext]_rvars => (Control /\ LeaseFresh)'
  BY ControlStep, LeaseStep
<1>3. LeaseFresh => LeaseKept
  BY DEF LeaseFresh
<1> QED
  BY <1>1, <1>2, <1>3, PTL DEF RSpec
=============================================================================
