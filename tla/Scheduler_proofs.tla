-------------------------- MODULE Scheduler_proofs --------------------------
(***************************************************************************)
(* Proofs about Scheduler: for any schedules, cadences, zone and lengths   *)
(* of day and week, with no bound on the clock, the restarts or the store's *)
(* faults beyond their being natural numbers.                              *)
(***************************************************************************)
EXTENDS Scheduler, TLAPS

-----------------------------------------------------------------------------
(* The arithmetic of the calendar.                                         *)

\* Quotient and remainder of a natural number.
LEMMA Division ==
  ASSUME NEW t \in Nat, NEW d \in Nat \ {0}
  PROVE  /\ t \div d \in Nat /\ t % d \in 0..(d - 1)
         /\ t = d * (t \div d) + (t % d)
OBVIOUS

\* A number is known by its quotient and remainder.
LEMMA Remainder ==
  ASSUME NEW d \in Nat \ {0}, NEW q \in Nat, NEW r \in 0..(d - 1)
  PROVE  /\ q * d + r \in Nat
         /\ (q * d + r) \div d = q
         /\ (q * d + r) % d = r
OBVIOUS

\* next_daily_run_at never looks back, or more than a day ahead.
LEMMA DailyPastAhead ==
  ASSUME NEW at \in 0..(Day - 1), NEW t \in Nat
  PROVE  /\ DailyPast(at, t) \in Nat
         /\ t < DailyPast(at, t) /\ DailyPast(at, t) <= t + Day
         /\ DailyPast(at, t) % Day = at
<1> DEFINE q == t \div Day
<1> DEFINE candidate == q * Day + at
<1>1. Day \in Nat \ {0} /\ at \in Nat /\ at < Day
  BY SchedulerAssumption
<1>2. q \in Nat /\ t % Day \in 0..(Day - 1) /\ t = Day * q + (t % Day)
  BY <1>1, Division
<1>3. candidate \in Nat /\ candidate % Day = at
  BY <1>1, <1>2, Remainder
<1>4. candidate + Day = (q + 1) * Day + at
  BY <1>1, <1>2
<1>5. (candidate + Day) % Day = at
  <2>1. q + 1 \in Nat
    BY <1>2
  <2>2. ((q + 1) * Day + at) % Day = at
    BY ONLY <1>1, <2>1, Remainder, at \in 0..(Day - 1)
  <2> QED BY <1>4, <2>2
<1>6. t < candidate + Day /\ candidate <= t + Day
  BY <1>1, <1>2
<1> QED BY <1>1, <1>3, <1>5, <1>6 DEF DailyPast, MovesOn

\* ... and is the first instant with that time of day.
LEMMA DailyPastFirst ==
  ASSUME NEW at \in 0..(Day - 1), NEW t \in Nat,
         NEW u \in Nat, t < u, u < DailyPast(at, t)
  PROVE  u % Day # at
<1> SUFFICES ASSUME u % Day = at PROVE FALSE
  OBVIOUS
<1> DEFINE q == t \div Day
<1> DEFINE p == u \div Day
<1>1. Day \in Nat \ {0} /\ at \in Nat /\ at < Day
  BY SchedulerAssumption
<1>2. q \in Nat /\ t % Day \in 0..(Day - 1) /\ t = Day * q + (t % Day)
  BY <1>1, Division
<1>3. p \in Nat /\ u = Day * p + at
  BY <1>1, Division
<1>4. CASE q * Day + at <= t
  <2>1. u < Day * (q + 1) + at
    BY <1>1, <1>2, <1>4 DEF DailyPast, MovesOn
  <2>2. p < q + 1
    BY <1>1, <1>2, <1>3, <2>1
  <2>3. Day * p <= Day * q
    BY <1>1, <1>2, <1>3, <2>2
  <2> QED BY <1>1, <1>2, <1>3, <1>4, <2>3
<1>5. CASE t < q * Day + at
  <2>1. u < Day * q + at
    BY <1>1, <1>2, <1>5 DEF DailyPast, MovesOn
  <2>2. p < q
    BY <1>1, <1>2, <1>3, <2>1
  <2>3. Day * (p + 1) <= Day * q
    BY <1>1, <1>2, <1>3, <2>2
  <2> QED BY <1>1, <1>2, <1>3, <2>3
<1> QED BY <1>1, <1>2, <1>4, <1>5

\* The days from a weekday to the next given one.
LEMMA DaysAhead ==
  ASSUME NEW w \in Nat \ {0}, NEW q \in Nat, NEW day \in 0..(w - 1)
  PROVE  /\ (day - (q % w)) % w \in 0..(w - 1)
         /\ (q + ((day - (q % w)) % w)) % w = day
<1> DEFINE r == q % w
<1> DEFINE k == q \div w
<1> DEFINE ahead == (day - r) % w
<1>1. k \in Nat /\ r \in 0..(w - 1) /\ q = w * k + r
  BY Division
<1>2. CASE day >= r
  <2>1. ahead = day - r
    BY ONLY <1>1, <1>2, w \in Nat \ {0}, day \in 0..(w - 1)
  <2>2. q + ahead = k * w + day
    BY <1>1, <2>1
  <2>3. (k * w + day) % w = day
    BY <1>1, Remainder
  <2> QED BY <1>1, <1>2, <2>1, <2>2, <2>3
<1>3. CASE day < r
  <2>1. ahead = day - r + w
    BY ONLY <1>1, <1>3, w \in Nat \ {0}, day \in 0..(w - 1)
  <2>2. q + ahead = (k + 1) * w + day
    BY <1>1, <2>1
  <2>3. ((k + 1) * w + day) % w = day
    <3>1. k + 1 \in Nat
      BY <1>1
    <3> QED BY ONLY <3>1, w \in Nat \ {0}, day \in 0..(w - 1), Remainder
  <2> QED BY <1>1, <1>3, <2>1, <2>2, <2>3
<1> QED BY <1>1, <1>2, <1>3

\* Days of the same weekday are whole weeks apart.
LEMMA WeeksApart ==
  ASSUME NEW w \in Nat \ {0}, NEW p \in Nat, NEW q \in Nat, p < q, p % w = q % w
  PROVE  p + w <= q
<1> DEFINE i == p \div w
<1> DEFINE j == q \div w
<1> DEFINE r == q % w
<1>1. i \in Nat /\ j \in Nat /\ r \in 0..(w - 1) /\ p = w * i + r /\ q = w * j + r
  BY Division
<1>2. i < j
  BY <1>1
<1>3. w * (i + 1) <= w * j
  BY <1>1, <1>2
<1> QED BY <1>1, <1>3

\* next_weekly_run_at looks ahead, to the day and the time asked for.
LEMMA WeeklyPastAhead ==
  ASSUME NEW day \in 0..(Week - 1), NEW at \in 0..(Day - 1), NEW t \in Nat
  PROVE  /\ WeeklyPast(day, at, t) \in Nat
         /\ t < WeeklyPast(day, at, t)
         /\ WeeklyPast(day, at, t) % Day = at
         /\ (WeeklyPast(day, at, t) \div Day) % Week = day
<1> DEFINE q == t \div Day
<1> DEFINE ahead == (day - (q % Week)) % Week
<1> DEFINE candidate == (q + ahead) * Day + at
<1>1. Day \in Nat \ {0} /\ Week \in Nat \ {0} /\ at \in Nat /\ at < Day /\ day \in Nat
  BY SchedulerAssumption
<1>2. q \in Nat /\ t % Day \in 0..(Day - 1) /\ t = Day * q + (t % Day)
  BY <1>1, Division
<1>3. ahead \in 0..(Week - 1) /\ (q + ahead) % Week = day
  BY <1>1, <1>2, DaysAhead
<1>4. q + ahead \in Nat /\ q + ahead + Week \in Nat
  BY <1>1, <1>2, <1>3
<1>5. candidate \in Nat /\ candidate % Day = at /\ candidate \div Day = q + ahead
  BY <1>1, <1>4, Remainder
<1> HIDE DEF ahead
<1>6. candidate + Week * Day = (q + ahead + Week) * Day + at
  BY <1>1, <1>2, <1>3
<1>7. /\ ((q + ahead + Week) * Day + at) % Day = at
      /\ ((q + ahead + Week) * Day + at) \div Day = q + ahead + Week
  BY ONLY <1>1, <1>4, Remainder, at \in 0..(Day - 1)
<1>8. (q + ahead + Week) % Week = day
  <2>1. q + ahead + Week = Week * ((q + ahead) \div Week + 1) + day
    BY <1>1, <1>3, <1>4, Division
  <2>2. (q + ahead) \div Week + 1 \in Nat
    BY <1>1, <1>4, Division
  <2>3. (((q + ahead) \div Week + 1) * Week + day) % Week = day
    BY ONLY <1>1, <2>2, Remainder, day \in 0..(Week - 1)
  <2>4. ((q + ahead) \div Week + 1) * Week + day = q + ahead + Week
    BY <1>1, <2>1, <2>2
  <2> QED BY <2>3, <2>4
<1>9. t < candidate + Week * Day
  <2>1. q * Day <= (q + ahead) * Day
    BY <1>1, <1>2, <1>3
  <2>2. Day <= Week * Day
    BY <1>1
  <2>3. t < q * Day + Day
    BY <1>1, <1>2
  <2>4. q * Day \in Nat /\ (q + ahead) * Day \in Nat /\ Week * Day \in Nat
    BY <1>1, <1>2, <1>4
  <2> QED BY ONLY <1>1, <2>1, <2>2, <2>3, <2>4, t \in Nat
<1>10. WeeklyPast(day, at, t) = IF candidate <= t THEN candidate + Week * Day ELSE candidate
  BY DEF WeeklyPast, MovesOn, ahead
<1>11. CASE candidate <= t
  <2>1. WeeklyPast(day, at, t) = candidate + Week * Day
    BY <1>10, <1>11
  <2>2. candidate + Week * Day \in Nat
    BY <1>1, <1>5
  <2>3. (candidate + Week * Day) % Day = at /\ (candidate + Week * Day) \div Day = q + ahead + Week
    BY <1>6, <1>7
  <2> QED BY <1>8, <1>9, <2>1, <2>2, <2>3
<1>12. CASE ~(candidate <= t)
  <2>1. WeeklyPast(day, at, t) = candidate
    BY <1>10, <1>12
  <2>2. t < candidate
    BY <1>5, <1>12
  <2> QED BY <1>3, <1>5, <2>1, <2>2
<1> QED BY <1>11, <1>12

\* ... and finds the first of them.
LEMMA WeeklyPastFirst ==
  ASSUME NEW day \in 0..(Week - 1), NEW at \in 0..(Day - 1), NEW t \in Nat,
         NEW u \in Nat, t < u, u < WeeklyPast(day, at, t), u % Day = at
  PROVE  (u \div Day) % Week # day
<1> SUFFICES ASSUME (u \div Day) % Week = day PROVE FALSE
  OBVIOUS
<1> DEFINE q == t \div Day
<1> DEFINE p == u \div Day
<1> DEFINE ahead == (day - (q % Week)) % Week
<1> DEFINE candidate == (q + ahead) * Day + at
<1>1. Day \in Nat \ {0} /\ Week \in Nat \ {0} /\ at \in Nat /\ at < Day /\ day \in Nat
  BY SchedulerAssumption
<1>2. q \in Nat /\ t % Day \in 0..(Day - 1) /\ t = Day * q + (t % Day)
  BY <1>1, Division
<1>3. p \in Nat /\ u = Day * p + at
  BY <1>1, Division
<1>4. ahead \in 0..(Week - 1) /\ (q + ahead) % Week = day
  BY <1>1, <1>2, DaysAhead
<1>5. WeeklyPast(day, at, t) = IF candidate <= t THEN candidate + Week * Day ELSE candidate
  BY DEF WeeklyPast, MovesOn
<1> HIDE DEF ahead
<1>6. q + ahead \in Nat
  BY <1>1, <1>2, <1>4
<1>7. q <= p
  <2> SUFFICES ASSUME p < q PROVE FALSE
    BY <1>2, <1>3
  <2>1. Day * (p + 1) <= Day * q
    BY <1>1, <1>2, <1>3
  <2> QED BY <1>1, <1>2, <1>3, <2>1
<1>8. q + ahead <= p
  <2> SUFFICES ASSUME p < q + ahead PROVE FALSE
    BY <1>3, <1>6
  <2>1. p + Week <= q + ahead
    BY <1>1, <1>3, <1>4, <1>6, WeeksApart
  <2> QED BY <1>1, <1>2, <1>3, <1>4, <1>7, <2>1
<1>9. CASE candidate <= t
  <2>1. p # q + ahead
    BY <1>1, <1>3, <1>6, <1>9
  <2>2. q + ahead < p
    BY <1>3, <1>6, <1>8, <2>1
  <2>3. q + ahead + Week <= p
    BY <1>1, <1>3, <1>4, <1>6, <2>2, WeeksApart
  <2>4. (q + ahead + Week) * Day <= p * Day
    BY <1>1, <1>3, <1>6, <2>3
  <2>5. candidate + Week * Day <= u
    BY <1>1, <1>3, <1>6, <2>4
  <2> QED BY <1>1, <1>3, <1>5, <1>6, <1>9, <2>5
<1>10. CASE ~(candidate <= t)
  <2>1. (q + ahead) * Day <= p * Day
    BY <1>1, <1>3, <1>6, <1>8
  <2> QED BY <1>1, <1>3, <1>5, <1>6, <1>10, <2>1
<1> QED BY <1>9, <1>10

\* What a schedule's next run is, for every kind of cadence.
LEMMA OffsetType ==
  ASSUME NEW t \in Nat
  PROVE  Offset(t) \in Nat /\ Local(t) \in Nat /\ Local(t) = t + Offset(t)
<1>1. Offset(t) \in Nat
  BY SchedulerAssumption DEF Offset
<1> QED BY <1>1 DEF Local

\* A daily or weekly run lies ahead of its base, and the offset of the base
\* makes it the first one of its time and day.
LEMMA NextFireFixed ==
  ASSUME NEW id \in Ids, NEW t \in Nat, Cadence[id].type \in {"daily", "weekly"}
  PROVE  /\ NextFire(id, t) \in Nat /\ NextFire(id, t) > t
         /\ Shows(id, NextFire(id, t) + Offset(t))
         /\ \A u \in (t + 1)..(NextFire(id, t) - 1) : ~Shows(id, u + Offset(t))
<1> DEFINE c == Cadence[id]
<1>1. c.at \in 0..(Day - 1) /\ c.day \in 0..(Week - 1)
  <2>1. c \in Cadences
    BY SchedulerAssumption
  <2> QED BY <2>1 DEF Cadences
<1>2. PICK o \in Nat : o = Offset(t)
  BY OffsetType
<1>3. PICK l \in Nat : l = Local(t) /\ l = t + o
  BY <1>2, OffsetType
<1>4. CASE c.type = "daily"
  <2>1. PICK p \in Nat : p = DailyPast(c.at, l) /\ l < p /\ p % Day = c.at
    BY <1>1, DailyPastAhead
  <2>2. NextFire(id, t) = p - o
    BY <1>2, <1>3, <1>4, <2>1 DEF NextFire, NextDaily
  <2>3. p - o \in Nat /\ p - o > t /\ (p - o) + o = p
    BY <1>3, <2>1
  <2>4. ASSUME NEW u \in (t + 1)..((p - o) - 1) PROVE (u + o) % Day # c.at
    <3>1. u + o \in Nat /\ l < u + o /\ u + o < p
      BY <1>3, <2>3
    <3>2. PICK v \in Nat : v = u + o
      BY <3>1
    <3>3. v % Day # c.at
      BY <1>1, <2>1, <3>1, <3>2, DailyPastFirst
    <3> QED BY <3>2, <3>3
  <2> QED BY <1>2, <1>4, <2>1, <2>2, <2>3, <2>4 DEF Shows
<1>5. CASE c.type = "weekly"
  <2>1. PICK p \in Nat : p = WeeklyPast(c.day, c.at, l) /\ l < p /\ p % Day = c.at /\ (p \div Day) % Week = c.day
    BY <1>1, WeeklyPastAhead
  <2>2. NextFire(id, t) = p - o
    BY <1>2, <1>3, <1>5, <2>1 DEF NextFire, NextWeekly
  <2>3. p - o \in Nat /\ p - o > t /\ (p - o) + o = p
    BY <1>3, <2>1
  <2>4. ASSUME NEW u \in (t + 1)..((p - o) - 1), (u + o) % Day = c.at PROVE ((u + o) \div Day) % Week # c.day
    <3>1. u + o \in Nat /\ l < u + o /\ u + o < p
      BY <1>3, <2>3
    <3>2. PICK v \in Nat : v = u + o
      BY <3>1
    <3>3. (v \div Day) % Week # c.day
      BY <1>1, <2>1, <2>4, <3>1, <3>2, WeeklyPastFirst
    <3> QED BY <3>2, <3>3
  <2> QED BY <1>2, <1>5, <2>1, <2>2, <2>3, <2>4 DEF Shows
<1> QED BY <1>4, <1>5

LEMMA NextFireType ==
  ASSUME NEW id \in Ids, NEW t \in Nat
  PROVE  NextFire(id, t) \in Nat
<1> DEFINE c == Cadence[id]
<1>1. c \in Cadences
  BY SchedulerAssumption
<1>2. c.every \in Nat
  BY <1>1 DEF Cadences
<1>3. t + c.every \in Nat
  BY <1>2
<1>4. c.type \in {"daily", "weekly"} => NextFire(id, t) \in Nat
  BY NextFireFixed
<1> QED BY <1>3, <1>4 DEF NextFire

\* ... and the zone makes it so on the wall, as long as its offset stays.
LEMMA NextFireFirst ==
  ASSUME NEW id \in Ids, NEW t \in Nat, Cadence[id].type \in {"daily", "weekly"}
  PROVE  /\ NextFire(id, t) > t
         /\ Shows(id, Local(NextFire(id, t))) \/ Offset(NextFire(id, t)) # Offset(t)
         /\ \A u \in (t + 1)..(NextFire(id, t) - 1) : Shows(id, Local(u)) => Offset(u) # Offset(t)
<1>1. PICK n \in Nat : n = NextFire(id, t) /\ n > t /\ Shows(id, n + Offset(t))
  BY NextFireFixed
<1>2. \A u \in (t + 1)..(n - 1) : ~Shows(id, u + Offset(t))
  BY <1>1, NextFireFixed
<1>3. Shows(id, Local(n)) \/ Offset(n) # Offset(t)
  BY <1>1 DEF Local
<1>4. \A u \in (t + 1)..(n - 1) : Shows(id, Local(u)) => Offset(u) # Offset(t)
  BY <1>2 DEF Local
<1> QED BY <1>1, <1>3, <1>4

-----------------------------------------------------------------------------
(* The inductive invariant.                                                *)

\* An id that was never given to a schedule is nowhere else.
Unborn == \A id \in Ids : sched[id] = Absent =>
  id \notin thread.due /\ attempt[id] = Never /\ lateOff[id] = 0 /\ thread.cur # id

\* A late trigger uses up the schedule's place on the list of the tick.
Lates == \A id \in Ids :
  /\ Enabled(id) => lateOff[id] = 0
  /\ lateOff[id] <= 1 /\ (lateOff[id] = 1 => id \notin thread.due)
  /\ ~paused => latePaused[id] = 0
  /\ latePaused[id] <= 1 /\ (latePaused[id] = 1 => id \notin thread.due /\ thread.at # "scan")

\* The trigger at hand is the last one of its schedule.
AtHand == thread.at = "triggered" =>
  /\ attempt[thread.cur] = thread.time
  /\ outcome[thread.cur] = Status(thread.ok)

\* The next run is counted from the last trigger, in the row and on the list.
Settled(id) == Exists(id) /\ attempt[id] # Never /\ ~InFlight(id) /\ thread.at # "dead"
Spaced == \A id \in Ids :
  /\ Settled(id) => sched[id].next = NextFire(id, attempt[id])
  /\ id \in thread.due /\ attempt[id] # Never => NextFire(id, attempt[id]) <= thread.time

\* A one-time schedule that was triggered is on again only by a request.
OffAgain == \A id \in Ids : Once(id) /\ attempt[id] # Never =>
  /\ Enabled(id) /\ thread.at # "dead" /\ ~(thread.at \in {"triggered", "disable"} /\ thread.cur = id) => rearmed[id]
  /\ id \in thread.due => rearmed[id]

IInv ==
  /\ TypeOK /\ Unborn /\ Lates /\ AtHand /\ Spaced /\ OffAgain
  /\ StatusTellsTheLastAttempt /\ NextIsTheFirst

-----------------------------------------------------------------------------
(* The parts, one by one: each holds after every step.                     *)

LEMMA RowEnabled ==
  ASSUME NEW r \in Rows, NEW b \in BOOLEAN
  PROVE  [r EXCEPT !.enabled = b] \in Rows
BY DEF Rows

LEMMA RowRecorded ==
  ASSUME NEW r \in Rows, NEW n \in Nat, NEW x \in {"none", "triggered", "error"}
  PROVE  [r EXCEPT !.next = n, !.status = x] \in Rows
BY DEF Rows

LEMMA RowType ==
  ASSUME NEW n \in Nat
  PROVE  Row(n) \in Rows
BY ZenonT(20) DEF Rows, Row

LEMMA ExistsRow ==
  ASSUME TypeOK, NEW id \in Ids
  PROVE  Exists(id) <=> sched[id] \in Rows
BY DEF TypeOK, Exists, Rows, Absent, Deleted

\* What create_schedule may put into next_run_at.
LEMMA FirstRunsType ==
  ASSUME TypeOK, NEW id \in Ids, NEW n \in FirstRuns(id)
  PROVE  n \in Nat
<1>1. now \in Nat /\ MaxNow \in Nat
  BY SchedulerAssumption DEF TypeOK
<1>2. NextFire(id, now) \in Nat
  BY <1>1, NextFireType
<1> QED BY <1>1, <1>2 DEF FirstRuns

\* Both ways to create a schedule insert a row with a next run.
LEMMA Inserting ==
  ASSUME TypeOK, NEW id \in Ids, NEW new \in Ids, Create(new) \/ Duplicate(id, new)
  PROVE  \E n \in Nat :
           /\ Insert(new, n)
           /\ Cadence[new].type \in {"daily", "weekly"} => n = NextFire(new, now)
<1>1. ASSUME Create(new)
      PROVE  \E n \in Nat : Insert(new, n) /\ (Cadence[new].type \in {"daily", "weekly"} => n = NextFire(new, now))
  <2>1. PICK n \in FirstRuns(new) : Insert(new, n)
    BY <1>1 DEF Create
  <2>2. n \in Nat
    BY <2>1, FirstRunsType
  <2>3. Cadence[new].type \in {"daily", "weekly"} => n = NextFire(new, now)
    BY <2>1 DEF FirstRuns, Once
  <2> QED BY <2>1, <2>2, <2>3
<1>2. ASSUME Duplicate(id, new), Once(id)
      PROVE  \E n \in Nat : Insert(new, n) /\ (Cadence[new].type \in {"daily", "weekly"} => n = NextFire(new, now))
  <2>1. Insert(new, sched[id].next) /\ Exists(id) /\ Cadence[new] = Cadence[id]
    BY <1>2 DEF Duplicate
  <2>2. sched[id].next \in Nat
    BY <2>1, ExistsRow DEF Rows
  <2>3. Cadence[new].type = "once"
    BY <1>2, <2>1 DEF Once
  <2> QED BY <2>1, <2>2, <2>3
<1>3. Duplicate(id, new) => Once(id) \/ Create(new)
  BY DEF Duplicate
<1> QED BY <1>1, <1>2, <1>3

LEMMA TypeStep ==
  ASSUME TypeOK, [Next]_vars
  PROVE  TypeOK'
<1> USE DEF TypeOK
<1>1. CASE Clock
  BY <1>1 DEF Clock, bounds
<1>2. ASSUME NEW id \in Ids, NEW n \in Nat, Insert(id, n) PROVE TypeOK'
  <2>1. Row(n) \in Rows
    BY RowType
  <2>2. sched' \in [Ids -> Rows \cup {Absent, Deleted}]
    BY <1>2, <2>1 DEF Insert
  <2> QED BY <1>2, <2>2 DEF Insert, bounds
<1>3. ASSUME NEW id \in Ids, Create(id) PROVE TypeOK'
  BY <1>2, <1>3, Inserting
<1>4. ASSUME NEW id \in Ids, NEW new \in Ids, Duplicate(id, new) PROVE TypeOK'
  BY <1>2, <1>4, Inserting
<1>5. ASSUME NEW id \in Ids, NEW on \in BOOLEAN, SetEnabled(id, on) PROVE TypeOK'
  <2>1. [sched[id] EXCEPT !.enabled = on] \in Rows
    BY <1>5, ExistsRow, RowEnabled DEF SetEnabled
  <2>2. sched' \in [Ids -> Rows \cup {Absent, Deleted}]
    BY <1>5, <2>1 DEF SetEnabled
  <2>3. rearmed' \in [Ids -> BOOLEAN]
    BY <1>5 DEF SetEnabled
  <2>4. lateOff' \in [Ids -> Nat]
    BY <1>5 DEF SetEnabled
  <2> QED BY <1>5, <2>2, <2>3, <2>4 DEF SetEnabled, bounds
<1>6. ASSUME NEW id \in Ids, Delete(id) PROVE TypeOK'
  <2>1. sched' \in [Ids -> Rows \cup {Absent, Deleted}]
    BY <1>6 DEF Delete
  <2> QED BY <1>6, <2>1 DEF Delete, bounds
<1>7. CASE Pause
  BY <1>7 DEF Pause, bounds
<1>8. CASE Resume
  BY <1>8 DEF Resume, bounds
<1>9. CASE BeginTick
  BY <1>9 DEF BeginTick, bounds, Places
<1>10. CASE Scan
  <2>1. DueAt(thread.time) \subseteq Ids
    BY DEF DueAt
  <2> QED BY <1>10, <2>1 DEF Scan, bounds, Places
<1>11. ASSUME NEW id \in Ids, Trigger(id) PROVE TypeOK'
  <2>1. PICK ok \in BOOLEAN :
          /\ thread' = [thread EXCEPT !.at = "triggered", !.due = @ \ {id}, !.cur = id, !.ok = ok]
          /\ outcome' = [outcome EXCEPT ![id] = IF ok THEN "triggered" ELSE "error"]
    BY <1>11 DEF Trigger, Caught, Rest
  <2>2. thread' \in [at : Places, time : Nat, due : SUBSET Ids, cur : Ids \cup {NoSchedule}, ok : BOOLEAN]
    BY <2>1 DEF Places
  <2>3. thread'.at = "triggered" /\ thread'.cur \in Ids \ thread'.due
    BY <2>1
  <2>4. lateOff' \in [Ids -> Nat] /\ latePaused' \in [Ids -> Nat] /\ attempt' \in [Ids -> Nat \cup {Never}]
    BY <1>11 DEF Trigger
  <2>5. outcome' \in [Ids -> {"none", "triggered", "error"}]
    BY <2>1
  <2>6. rearmed' \in [Ids -> BOOLEAN]
    BY <1>11 DEF Trigger
  <2> QED BY <1>11, <2>2, <2>3, <2>4, <2>5, <2>6 DEF Trigger, bounds
<1>12. ASSUME NEW th, th = [thread EXCEPT !.at = "loop", !.cur = NoSchedule, !.ok = TRUE]
       PROVE  /\ th \in [at : Places, time : Nat, due : SUBSET Ids, cur : Ids \cup {NoSchedule}, ok : BOOLEAN]
              /\ th.at = "loop"
  <2>1. TRUE \in BOOLEAN
    OBVIOUS
  <2> QED BY <1>12, <2>1 DEF Places
<1>13. CASE Record
  <2> DEFINE id == thread.cur
  <2>1. id \in Ids /\ thread.time \in Nat
    BY <1>13 DEF Record
  <2>2. NextRun(id, thread.time) \in Nat /\ Status(thread.ok) \in {"none", "triggered", "error"}
    BY <2>1, NextFireType DEF NextRun, Status
  <2>3. sched' \in [Ids -> Rows \cup {Absent, Deleted}] /\ base' \in [Ids -> Nat]
    <3>1. CASE Exists(id)
      <4>1. [sched[id] EXCEPT !.next = NextRun(id, thread.time), !.status = Status(thread.ok)] \in Rows
        BY <2>1, <2>2, <3>1, ExistsRow, RowRecorded
      <4>2. /\ sched' = [sched EXCEPT ![id] = [sched[id] EXCEPT !.next = NextRun(id, thread.time), !.status = Status(thread.ok)]]
            /\ base' = [base EXCEPT ![id] = thread.time]
        BY <1>13, <2>1, <3>1 DEF Record
      <4> QED BY <2>1, <4>1, <4>2
    <3>2. CASE ~Exists(id)
      BY <1>13, <3>2 DEF Record
    <3> QED BY <3>1, <3>2
  <2>4. CASE Once(id)
    <3>1. thread' = [thread EXCEPT !.at = "disable"]
      BY <1>13, <2>4 DEF Record
    <3>2. /\ thread' \in [at : Places, time : Nat, due : SUBSET Ids, cur : Ids \cup {NoSchedule}, ok : BOOLEAN]
          /\ thread'.at = "disable" /\ thread'.cur \in Ids \ thread'.due
      BY <1>13, <3>1 DEF Places, Record
    <3> QED BY <1>13, <2>3, <3>2 DEF Record, bounds
  <2>5. CASE ~Once(id)
    <3>1. thread' = [thread EXCEPT !.at = "loop", !.cur = NoSchedule, !.ok = TRUE]
      BY <1>13, <2>5 DEF Record, GoOn
    <3> QED BY <1>12, <1>13, <2>3, <3>1 DEF Record, bounds
  <2> QED BY <2>4, <2>5
<1>14. CASE DisableOnce
  <2> DEFINE id == thread.cur
  <2>1. id \in Ids
    BY <1>14 DEF DisableOnce
  <2>2. sched' \in [Ids -> Rows \cup {Absent, Deleted}]
    <3>1. CASE Exists(id)
      <4>1. FALSE \in BOOLEAN
        OBVIOUS
      <4>2. [sched[id] EXCEPT !.enabled = FALSE] \in Rows
        BY <2>1, <3>1, <4>1, ExistsRow, RowEnabled
      <4> QED BY <1>14, <2>1, <3>1, <4>2 DEF DisableOnce, SwitchOff
    <3>2. CASE ~Exists(id)
      BY <1>14, <3>2 DEF DisableOnce
    <3> QED BY <3>1, <3>2
  <2>3. thread' = [thread EXCEPT !.at = "loop", !.cur = NoSchedule, !.ok = TRUE]
    BY <1>14 DEF DisableOnce, GoOn
  <2> QED BY <1>12, <1>14, <2>2, <2>3 DEF DisableOnce, bounds
<1>15. ASSUME NEW th, th \in {Idle, [Idle EXCEPT !.at = "dead"]}
       PROVE  /\ th \in [at : Places, time : Nat, due : SUBSET Ids, cur : Ids \cup {NoSchedule}, ok : BOOLEAN]
              /\ th.at \in {"idle", "dead"} /\ th.due = {}
  <2>1. Idle \in [at : Places, time : Nat, due : SUBSET Ids, cur : Ids \cup {NoSchedule}, ok : BOOLEAN]
    <3>1. "idle" \in Places /\ 0 \in Nat /\ {} \in SUBSET Ids /\ NoSchedule \in Ids \cup {NoSchedule}
      BY DEF Places
    <3>2. TRUE \in BOOLEAN
      OBVIOUS
    <3> QED BY <3>1, <3>2, ZenonT(20) DEF Idle
  <2>2. Idle.at = "idle" /\ Idle.due = {}
    BY DEF Idle
  <2>3. /\ [Idle EXCEPT !.at = "dead"] \in [at : Places, time : Nat, due : SUBSET Ids, cur : Ids \cup {NoSchedule}, ok : BOOLEAN]
        /\ [Idle EXCEPT !.at = "dead"].at = "dead" /\ [Idle EXCEPT !.at = "dead"].due = {}
    BY <2>1, <2>2 DEF Places
  <2> QED BY <1>15, <2>1, <2>2, <2>3
<1>16. CASE EndTick
  BY <1>15, <1>16 DEF EndTick, bounds
<1>17. CASE StoreRaises
  BY <1>15, <1>17 DEF StoreRaises
<1>18. CASE Restart
  BY <1>15, <1>18 DEF Restart, Never
<1>19. CASE UNCHANGED vars
  BY <1>19 DEF vars, bounds
<1> QED BY <1>1, <1>3, <1>4, <1>5, <1>6, <1>7, <1>8, <1>9, <1>10, <1>11, <1>13, <1>14, <1>16, <1>17, <1>18, <1>19 DEF Next, Tick

\* Every step, with the two ways to create a schedule as one.
LEMMA Cases ==
  ASSUME TypeOK, [Next]_vars
  PROVE  \/ Clock
         \/ \E id \in Ids, n \in Nat :
              Insert(id, n) /\ (Cadence[id].type \in {"daily", "weekly"} => n = NextFire(id, now))
         \/ \E id \in Ids, on \in BOOLEAN : SetEnabled(id, on)
         \/ \E id \in Ids : Delete(id)
         \/ Pause \/ Resume \/ BeginTick \/ Scan
         \/ \E id \in Ids : Trigger(id)
         \/ Record \/ DisableOnce \/ EndTick \/ StoreRaises \/ Restart
         \/ UNCHANGED vars
BY Inserting DEF Next, Tick

\* What a trigger does to the thread.
LEMMA TriggerThread ==
  ASSUME TypeOK, NEW id \in Ids, Trigger(id)
  PROVE  /\ thread.at = "loop" /\ id \in thread.due
         /\ thread'.at = "triggered" /\ thread'.due = thread.due \ {id} /\ thread'.cur = id
         /\ thread'.time = thread.time
         /\ outcome' = [outcome EXCEPT ![id] = Status(thread'.ok)]
         /\ \A i \in Ids : i \in thread'.due <=> i \in thread.due /\ i # id
<1>1. PICK ok \in BOOLEAN :
        /\ thread' = [thread EXCEPT !.at = "triggered", !.due = @ \ {id}, !.cur = id, !.ok = ok]
        /\ outcome' = [outcome EXCEPT ![id] = IF ok THEN "triggered" ELSE "error"]
  BY DEF Trigger, Caught, Rest
<1>2. /\ thread'.at = "triggered" /\ thread'.due = thread.due \ {id} /\ thread'.cur = id
      /\ thread'.time = thread.time
  BY <1>1 DEF TypeOK
<1>3. thread'.ok = ok
  BY <1>1 DEF TypeOK
<1> QED BY <1>1, <1>2, <1>3 DEF Trigger, Status

\* Where the other steps of the thread leave it.
LEMMA ThreadMoves ==
  ASSUME TypeOK
  PROVE  /\ BeginTick => thread.at = "idle" /\ thread'.at = "scan" /\ thread'.due = {} /\ thread'.cur = thread.cur
         /\ Scan => thread.at = "scan" /\ thread'.at = "loop" /\ thread'.due = DueAt(thread.time)
                    /\ thread'.time = thread.time /\ thread'.cur = thread.cur
         /\ Record => /\ thread.at = "triggered" /\ thread'.due = thread.due /\ thread'.time = thread.time
                      /\ IF Once(thread.cur) THEN thread'.at = "disable" /\ thread'.cur = thread.cur
                         ELSE thread'.at = "loop" /\ thread'.cur = NoSchedule
         /\ DisableOnce => /\ thread.at = "disable" /\ thread'.at = "loop" /\ thread'.due = thread.due
                           /\ thread'.time = thread.time /\ thread'.cur = NoSchedule
         /\ EndTick \/ Restart => thread'.at = "idle" /\ thread'.due = {} /\ thread'.cur = NoSchedule
         /\ StoreRaises => thread'.at = "dead" /\ thread'.due = {} /\ thread'.cur = NoSchedule
<1>1. BeginTick => thread.at = "idle" /\ thread'.at = "scan" /\ thread'.due = {} /\ thread'.cur = thread.cur
  BY DEF TypeOK, BeginTick
<1>2. Scan => thread.at = "scan" /\ thread'.at = "loop" /\ thread'.due = DueAt(thread.time)
              /\ thread'.time = thread.time /\ thread'.cur = thread.cur
  BY DEF TypeOK, Scan
<1>3. Record => /\ thread.at = "triggered" /\ thread'.due = thread.due /\ thread'.time = thread.time
                /\ IF Once(thread.cur) THEN thread'.at = "disable" /\ thread'.cur = thread.cur
                   ELSE thread'.at = "loop" /\ thread'.cur = NoSchedule
  <2> SUFFICES ASSUME Record
               PROVE  /\ thread.at = "triggered" /\ thread'.due = thread.due /\ thread'.time = thread.time
                      /\ IF Once(thread.cur) THEN thread'.at = "disable" /\ thread'.cur = thread.cur
                         ELSE thread'.at = "loop" /\ thread'.cur = NoSchedule
    OBVIOUS
  <2>1. thread.at = "triggered"
    BY DEF Record
  <2>2. CASE Once(thread.cur)
    <3>1. thread' = [thread EXCEPT !.at = "disable"]
      BY <2>2 DEF Record
    <3> QED BY <2>1, <2>2, <3>1 DEF TypeOK
  <2>3. CASE ~Once(thread.cur)
    <3>1. thread' = [thread EXCEPT !.at = "loop", !.cur = NoSchedule, !.ok = TRUE]
      BY <2>3 DEF Record, GoOn
    <3> QED BY <2>1, <2>3, <3>1 DEF TypeOK
  <2> QED BY <2>2, <2>3
<1>4. DisableOnce => /\ thread.at = "disable" /\ thread'.at = "loop" /\ thread'.due = thread.due
                     /\ thread'.time = thread.time /\ thread'.cur = NoSchedule
  BY DEF TypeOK, DisableOnce, GoOn
<1>5. Idle.at = "idle" /\ Idle.due = {} /\ Idle.cur = NoSchedule
  BY DEF Idle
<1>6. /\ [Idle EXCEPT !.at = "dead"].at = "dead" /\ [Idle EXCEPT !.at = "dead"].due = {}
      /\ [Idle EXCEPT !.at = "dead"].cur = NoSchedule
  BY DEF Idle
<1>7. EndTick \/ Restart => thread' = Idle
  BY DEF EndTick, Restart
<1>8. StoreRaises => thread' = [Idle EXCEPT !.at = "dead"]
  BY DEF StoreRaises
<1> QED BY <1>1, <1>2, <1>3, <1>4, <1>5, <1>6, <1>7, <1>8

LEMMA UnbornStep ==
  ASSUME TypeOK, Unborn, [Next]_vars
  PROVE  Unborn'
<1> SUFFICES ASSUME NEW i \in Ids, sched'[i] = Absent
             PROVE  i \notin thread'.due /\ attempt'[i] = Never /\ lateOff'[i] = 0 /\ thread'.cur # i
  BY DEF Unborn
<1>0. Absent.state = "absent" /\ Deleted.state = "deleted" /\ (sched[i] \in Rows => sched[i].state = "row")
  BY DEF Absent, Deleted, Rows
<1>1. CASE sched[i] = Absent
  <2>1. i \notin thread.due /\ attempt[i] = Never /\ lateOff[i] = 0 /\ thread.cur # i /\ ~Exists(i) /\ i # NoSchedule
    BY <1>0, <1>1, SchedulerAssumption DEF Unborn, Exists
  <2>2. ASSUME NEW id \in Ids, Trigger(id) PROVE id # i /\ attempt'[i] = Never /\ lateOff'[i] = 0
    BY <2>1, <2>2 DEF Trigger, TypeOK
  <2>3. ASSUME NEW id \in Ids, NEW on \in BOOLEAN, SetEnabled(id, on) PROVE id # i /\ lateOff'[i] = 0
    BY <2>1, <2>3 DEF SetEnabled, TypeOK
  <2>4. ASSUME NEW id \in Ids, Trigger(id) PROVE i \notin thread'.due /\ thread'.cur # i
    BY <2>1, <2>2, <2>4, TriggerThread
  <2>5. i \notin DueAt(thread.time)
    BY <2>1 DEF DueAt, Enabled
  <2>6. CASE BeginTick \/ Scan \/ Record \/ DisableOnce \/ EndTick \/ StoreRaises \/ Restart
    <3>1. i \notin thread'.due /\ thread'.cur # i
      BY <2>1, <2>5, <2>6, ThreadMoves
    <3> QED BY <2>1, <2>6, <3>1 DEF BeginTick, Scan, Record, DisableOnce, EndTick, StoreRaises, Restart, TypeOK
  <2>7. CASE Clock \/ Pause \/ Resume \/ UNCHANGED vars
    BY <2>1, <2>7 DEF Clock, Pause, Resume, vars
  <2>8. ASSUME NEW id \in Ids, NEW n \in Nat, Insert(id, n) \/ Delete(id)
        PROVE  i \notin thread'.due /\ attempt'[i] = Never /\ lateOff'[i] = 0 /\ thread'.cur # i
    BY <2>1, <2>8 DEF Insert, Delete
  <2>9. 0 \in Nat
    OBVIOUS
  <2>10. ASSUME NEW id \in Ids, NEW on \in BOOLEAN, SetEnabled(id, on)
         PROVE  i \notin thread'.due /\ attempt'[i] = Never /\ thread'.cur # i
    BY <2>1, <2>10 DEF SetEnabled
  <2> QED BY <2>2, <2>3, <2>4, <2>6, <2>7, <2>8, <2>9, <2>10, Cases
<1>2. CASE sched[i] # Absent
  <2>1. ASSUME NEW id \in Ids, NEW n \in Nat, Insert(id, n) PROVE FALSE
    <3>1. Row(n).state = "row"
      BY DEF Row
    <3> QED BY <1>0, <1>2, <2>1, <3>1 DEF Insert, TypeOK
  <2>2. ASSUME NEW id \in Ids, Delete(id) PROVE FALSE
    BY <1>0, <1>2, <2>2 DEF Delete, TypeOK
  <2>3. ASSUME NEW id \in Ids, NEW on \in BOOLEAN, SetEnabled(id, on) PROVE FALSE
    <3>1. [sched[id] EXCEPT !.enabled = on] \in Rows
      BY <2>3, ExistsRow, RowEnabled DEF SetEnabled
    <3>2. [sched[id] EXCEPT !.enabled = on] # Absent
      BY <1>0, <3>1 DEF Rows
    <3> QED BY <1>2, <2>3, <3>2 DEF SetEnabled, TypeOK
  <2>4. ASSUME Record \/ DisableOnce PROVE FALSE
    <3> DEFINE id == thread.cur
    <3>1. id \in Ids
      BY <2>4 DEF Record, DisableOnce, TypeOK
    <3>2. CASE Exists(id) /\ Record
      <4>1. NextRun(id, thread.time) \in Nat /\ Status(thread.ok) \in {"none", "triggered", "error"}
        BY <3>1, NextFireType DEF NextRun, Status, TypeOK
      <4>2. [sched[id] EXCEPT !.next = NextRun(id, thread.time), !.status = Status(thread.ok)] \in Rows
        BY <3>1, <3>2, <4>1, ExistsRow, RowRecorded
      <4>3. [sched[id] EXCEPT !.next = NextRun(id, thread.time), !.status = Status(thread.ok)] # Absent
        BY <1>0, <4>2 DEF Rows
      <4>4. sched' = [sched EXCEPT ![id] = [sched[id] EXCEPT !.next = NextRun(id, thread.time), !.status = Status(thread.ok)]]
        BY <3>1, <3>2 DEF Record
      <4> QED BY <1>2, <3>1, <4>3, <4>4 DEF TypeOK
    <3>3. CASE Exists(id) /\ DisableOnce
      <4>1. FALSE \in BOOLEAN
        OBVIOUS
      <4>2. [sched[id] EXCEPT !.enabled = FALSE] \in Rows
        BY <3>1, <3>3, <4>1, ExistsRow, RowEnabled
      <4>3. [sched[id] EXCEPT !.enabled = FALSE] # Absent
        BY <1>0, <4>2 DEF Rows
      <4>4. sched' = [sched EXCEPT ![id] = [sched[id] EXCEPT !.enabled = FALSE]]
        BY <3>1, <3>3 DEF DisableOnce, SwitchOff
      <4> QED BY <1>2, <3>1, <4>3, <4>4 DEF TypeOK
    <3>4. CASE ~Exists(id)
      BY <1>2, <2>4, <3>4 DEF Record, DisableOnce
    <3> QED BY <2>4, <3>2, <3>3, <3>4
  <2>5. CASE sched' = sched
    BY <1>2, <2>5
  <2>6. CASE Clock \/ Pause \/ Resume \/ BeginTick \/ Scan \/ EndTick \/ StoreRaises \/ Restart \/ UNCHANGED vars
    BY <2>5, <2>6 DEF Clock, Pause, Resume, BeginTick, Scan, EndTick, StoreRaises, Restart, vars
  <2>7. ASSUME NEW id \in Ids, Trigger(id) PROVE FALSE
    <3>1. sched' = sched
      BY <2>7 DEF Trigger
    <3> QED BY <1>2, <3>1
  <2> QED BY <2>1, <2>2, <2>3, <2>4, <2>6, <2>7, Cases
<1> QED BY <1>1, <1>2

\* What the steps that touch an existing row do to row i.
LEMMA RowMoves ==
  ASSUME TypeOK, NEW i \in Ids
  PROVE  /\ \A id \in Ids, on \in BOOLEAN : SetEnabled(id, on) =>
              /\ Exists(i)' <=> Exists(i)
              /\ sched'[i].next = sched[i].next /\ sched'[i].status = sched[i].status
              /\ id # i => sched'[i] = sched[i]
              /\ id = i => sched'[i].enabled = on
         /\ Record =>
              /\ Exists(i)' <=> Exists(i)
              /\ Enabled(i)' <=> Enabled(i)
              /\ thread.cur # i => sched'[i] = sched[i] /\ base'[i] = base[i]
              /\ thread.cur = i /\ Exists(i) =>
                   /\ sched'[i].next = NextFire(i, thread.time) /\ sched'[i].status = Status(thread.ok)
                   /\ base'[i] = thread.time
         /\ DisableOnce =>
              /\ Exists(i)' <=> Exists(i)
              /\ thread.cur # i => sched'[i] = sched[i]
              /\ thread.cur = i => ~Enabled(i)'
              /\ sched'[i].next = sched[i].next /\ sched'[i].status = sched[i].status
<1>1. ASSUME NEW id \in Ids, NEW on \in BOOLEAN, SetEnabled(id, on)
      PROVE  /\ Exists(i)' <=> Exists(i)
             /\ sched'[i].next = sched[i].next /\ sched'[i].status = sched[i].status
             /\ id # i => sched'[i] = sched[i]
             /\ id = i => sched'[i].enabled = on
  <2>1. sched[id] \in Rows /\ Exists(id)
    BY <1>1, ExistsRow DEF SetEnabled
  <2>2. sched' = [sched EXCEPT ![id] = [sched[id] EXCEPT !.enabled = on]]
    BY <1>1 DEF SetEnabled
  <2>3. CASE id = i
    <3>1. sched'[i] = [sched[i] EXCEPT !.enabled = on]
      BY <2>2, <2>3 DEF TypeOK
    <3>2. sched'[i].enabled = on
      BY <2>1, <2>3, <3>1 DEF Rows
    <3>3. sched'[i].state = "row" /\ sched'[i].next = sched[i].next /\ sched'[i].status = sched[i].status
      BY <2>1, <2>3, <3>1 DEF Rows
    <3> QED BY <2>1, <2>3, <3>2, <3>3 DEF Exists
  <2>4. CASE id # i
    BY <2>2, <2>4 DEF TypeOK, Exists
  <2> QED BY <2>3, <2>4
<1>2. ASSUME Record
      PROVE  /\ Exists(i)' <=> Exists(i)
             /\ Enabled(i)' <=> Enabled(i)
             /\ thread.cur # i => sched'[i] = sched[i] /\ base'[i] = base[i]
             /\ thread.cur = i /\ Exists(i) =>
                  /\ sched'[i].next = NextFire(i, thread.time) /\ sched'[i].status = Status(thread.ok)
                  /\ base'[i] = thread.time
  <2>1. thread.cur \in Ids
    BY <1>2 DEF Record, TypeOK
  <2>2. CASE Exists(thread.cur)
    <3>1. /\ sched' = [sched EXCEPT ![thread.cur] = [sched[thread.cur] EXCEPT !.next = NextFire(thread.cur, thread.time), !.status = Status(thread.ok)]]
          /\ base' = [base EXCEPT ![thread.cur] = thread.time]
      BY <1>2, <2>1, <2>2 DEF Record, NextRun
    <3>2. CASE thread.cur # i
      BY <3>1, <3>2 DEF TypeOK, Exists, Enabled
    <3>3. CASE thread.cur = i
      <4>1. sched[i] \in Rows
        BY <2>2, <3>3, ExistsRow
      <4>2. /\ sched'[i] = [sched[i] EXCEPT !.next = NextFire(i, thread.time), !.status = Status(thread.ok)]
            /\ base'[i] = thread.time
        BY <3>1, <3>3 DEF TypeOK
      <4>3. /\ sched'[i].next = NextFire(i, thread.time) /\ sched'[i].status = Status(thread.ok)
            /\ sched'[i].state = "row"
        BY <4>1, <4>2 DEF Rows
      <4>4. sched'[i].enabled = sched[i].enabled
        BY <4>1, <4>2 DEF Rows
      <4> QED BY <2>2, <3>3, <4>2, <4>3, <4>4 DEF Exists, Enabled
    <3> QED BY <3>2, <3>3
  <2>3. CASE ~Exists(thread.cur)
    <3>1. sched' = sched /\ base' = base
      BY <1>2, <2>3 DEF Record
    <3> QED BY <2>3, <3>1 DEF Exists, Enabled
  <2> QED BY <2>2, <2>3
<1>3. ASSUME DisableOnce
      PROVE  /\ Exists(i)' <=> Exists(i)
             /\ thread.cur # i => sched'[i] = sched[i]
             /\ thread.cur = i => ~Enabled(i)'
             /\ sched'[i].next = sched[i].next /\ sched'[i].status = sched[i].status
  <2>1. thread.cur \in Ids
    BY <1>3 DEF DisableOnce, TypeOK
  <2>2. CASE Exists(thread.cur)
    <3>1. sched' = [sched EXCEPT ![thread.cur] = [sched[thread.cur] EXCEPT !.enabled = FALSE]]
      BY <1>3, <2>1, <2>2 DEF DisableOnce, SwitchOff
    <3>2. CASE thread.cur # i
      BY <3>1, <3>2 DEF TypeOK, Exists
    <3>3. CASE thread.cur = i
      <4>1. sched[i] \in Rows
        BY <2>2, <3>3, ExistsRow
      <4>2. sched'[i] = [sched[i] EXCEPT !.enabled = FALSE]
        BY <3>1, <3>3 DEF TypeOK
      <4>3. sched'[i].next = sched[i].next /\ sched'[i].status = sched[i].status /\ sched'[i].state = "row"
        BY <4>1, <4>2 DEF Rows
      <4>4. sched'[i].enabled = FALSE
        BY <4>1, <4>2 DEF Rows
      <4>5. ~Enabled(i)'
        BY <4>4 DEF Enabled
      <4> QED BY <2>2, <3>3, <4>3, <4>5 DEF Exists
    <3> QED BY <3>2, <3>3
  <2>3. CASE ~Exists(thread.cur)
    <3>1. sched' = sched
      BY <1>3, <2>3 DEF DisableOnce
    <3> QED BY <2>3, <3>1 DEF Exists, Enabled
  <2> QED BY <2>2, <2>3
<1> QED BY <1>1, <1>2, <1>3

LEMMA LatesStep ==
  ASSUME TypeOK, Unborn, Lates, [Next]_vars
  PROVE  Lates'
<1> DEFINE Late(i) ==
      /\ Enabled(i) => lateOff[i] = 0
      /\ lateOff[i] <= 1 /\ (lateOff[i] = 1 => i \notin thread.due)
      /\ ~paused => latePaused[i] = 0
      /\ latePaused[i] <= 1 /\ (latePaused[i] = 1 => i \notin thread.due /\ thread.at # "scan")
<1> SUFFICES ASSUME NEW i \in Ids PROVE Late(i)'
  BY DEF Lates
<1>1. Late(i) /\ lateOff[i] \in Nat /\ latePaused[i] \in Nat
  BY DEF Lates, TypeOK
<1>2. ASSUME NEW id \in Ids, NEW n \in Nat, Insert(id, n) PROVE Late(i)'
  <2>1. id = i => lateOff[i] = 0
    BY <1>2 DEF Insert, Unborn
  <2>2. id # i => Enabled(i)' = Enabled(i)
    BY <1>2 DEF Insert, Enabled, Exists, TypeOK
  <2> QED BY <1>1, <1>2, <2>1, <2>2 DEF Insert
<1>3. ASSUME NEW id \in Ids, NEW on \in BOOLEAN, SetEnabled(id, on) PROVE Late(i)'
  <2>1. CASE id = i
    <3>1. Enabled(i)' => on
      BY <1>3, <2>1, RowMoves DEF Enabled
    <3>2. lateOff'[i] = IF on THEN 0 ELSE lateOff[i]
      BY <1>3, <2>1 DEF SetEnabled, TypeOK
    <3>3. ~on => ~Enabled(i)'
      BY <3>1
    <3> QED BY <1>1, <1>3, <3>2, <3>3 DEF SetEnabled
  <2>2. CASE id # i
    <3>1. Enabled(i)' = Enabled(i)
      BY <1>3, <2>2, RowMoves DEF Enabled, Exists
    <3>2. lateOff'[i] = lateOff[i]
      BY <1>3, <2>2 DEF SetEnabled, TypeOK
    <3> QED BY <1>1, <1>3, <3>1, <3>2 DEF SetEnabled
  <2> QED BY <2>1, <2>2
<1>4. ASSUME NEW id \in Ids, Delete(id) PROVE Late(i)'
  <2>1. Enabled(i)' => Enabled(i)
    BY <1>4 DEF Delete, Enabled, Exists, TypeOK, Deleted
  <2> QED BY <1>1, <1>4, <2>1 DEF Delete
<1>5. CASE UNCHANGED sched /\ UNCHANGED <<lateOff, thread>> /\ (Pause \/ Resume)
  BY <1>1, <1>5 DEF Pause, Resume, Enabled, Exists
<1>6. CASE Pause \/ Resume
  BY <1>5, <1>6 DEF Pause, Resume
<1>7. CASE BeginTick
  BY <1>1, <1>7, ThreadMoves DEF BeginTick, Unpaused, Enabled, Exists
<1>8. CASE Scan
  <2>1. i \in DueAt(thread.time) => Enabled(i)
    BY DEF DueAt
  <2>2. latePaused[i] # 1
    BY <1>1, <1>8 DEF Scan
  <2> QED BY <1>1, <1>8, <2>1, <2>2, ThreadMoves DEF Scan, Enabled, Exists
<1>9. ASSUME NEW id \in Ids, Trigger(id) PROVE Late(i)'
  <2>1. Enabled(i)' = Enabled(i) /\ paused' = paused
    BY <1>9 DEF Trigger, Enabled, Exists
  <2>2. CASE id = i
    <3>1. i \in thread.due /\ i \notin thread'.due /\ thread'.at = "triggered"
      BY <1>9, <2>2, TriggerThread
    <3>2. lateOff[i] = 0 /\ latePaused[i] = 0
      BY <1>1, <3>1
    <3>3. lateOff'[i] = IF Enabled(i) THEN 0 ELSE 1
      BY <1>9, <2>2, <3>2 DEF Trigger, TypeOK
    <3>4. latePaused'[i] = IF paused THEN 1 ELSE 0
      BY <1>9, <2>2, <3>2 DEF Trigger, TypeOK
    <3> QED BY <2>1, <3>1, <3>3, <3>4
  <2>3. CASE id # i
    <3>1. thread'.at = "triggered" /\ (i \in thread'.due <=> i \in thread.due)
      BY <1>9, <2>3, TriggerThread
    <3>2. lateOff'[i] = lateOff[i] /\ latePaused'[i] = latePaused[i]
      BY <1>9, <2>3 DEF Trigger, TypeOK
    <3> QED BY <1>1, <2>1, <3>1, <3>2
  <2> QED BY <2>2, <2>3
<1>10. CASE Record
  <2>1. Enabled(i)' <=> Enabled(i)
    BY <1>10, RowMoves
  <2>2. thread'.at # "scan" /\ thread'.due = thread.due
    BY <1>10, ThreadMoves
  <2> QED BY <1>1, <1>10, <2>1, <2>2 DEF Record
<1>11. CASE DisableOnce
  <2>1. Enabled(i)' => Enabled(i)
    BY <1>11, RowMoves DEF Enabled, Exists
  <2>2. thread'.at # "scan" /\ thread'.due = thread.due
    BY <1>11, ThreadMoves
  <2> QED BY <1>1, <1>11, <2>1, <2>2 DEF DisableOnce
<1>12. CASE EndTick \/ StoreRaises \/ Restart
  <2>1. thread'.at # "scan" /\ thread'.due = {}
    BY <1>12, ThreadMoves
  <2> QED BY <1>1, <1>12, <2>1 DEF EndTick, StoreRaises, Restart, Enabled, Exists
<1>13. CASE Clock \/ UNCHANGED vars
  BY <1>1, <1>13 DEF Clock, vars, Enabled, Exists
<1> QED BY <1>2, <1>3, <1>4, <1>6, <1>7, <1>8, <1>9, <1>10, <1>11, <1>12, <1>13, Cases

LEMMA AtHandStep ==
  ASSUME TypeOK, AtHand, [Next]_vars
  PROVE  AtHand'
<1>1. ASSUME NEW id \in Ids, Trigger(id) PROVE AtHand'
  <2>1. attempt' = [attempt EXCEPT ![id] = thread.time]
    BY <1>1 DEF Trigger
  <2> QED BY <1>1, <2>1, TriggerThread DEF AtHand, TypeOK
<1>2. CASE BeginTick \/ Scan \/ Record \/ DisableOnce \/ EndTick \/ StoreRaises \/ Restart
  <2>1. thread'.at # "triggered"
    BY <1>2, ThreadMoves
  <2> QED BY <2>1 DEF AtHand
<1>3. CASE UNCHANGED <<thread, attempt, outcome>>
  BY <1>3 DEF AtHand, Status
<1>4. ASSUME NEW id \in Ids, NEW n \in Nat, NEW on \in BOOLEAN, Insert(id, n) \/ SetEnabled(id, on) \/ Delete(id)
      PROVE  AtHand'
  BY <1>3, <1>4 DEF Insert, SetEnabled, Delete
<1>5. CASE Clock \/ Pause \/ Resume \/ UNCHANGED vars
  BY <1>3, <1>5 DEF Clock, Pause, Resume, vars
<1>6. 0 \in Nat /\ TRUE \in BOOLEAN
  OBVIOUS
<1> QED BY <1>1, <1>2, <1>4, <1>5, <1>6, Cases

LEMMA SpacedStep ==
  ASSUME TypeOK, Unborn, AtHand, Spaced, [Next]_vars
  PROVE  Spaced'
<1> DEFINE Apart(i) ==
      /\ Settled(i) => sched[i].next = NextFire(i, attempt[i])
      /\ i \in thread.due /\ attempt[i] # Never => NextFire(i, attempt[i]) <= thread.time
<1> SUFFICES ASSUME NEW i \in Ids PROVE Apart(i)'
  BY DEF Spaced
<1>1. Apart(i)
  BY DEF Spaced
<1>2. ASSUME NEW id \in Ids, NEW n \in Nat, Insert(id, n) PROVE Apart(i)'
  <2>1. attempt' = attempt /\ thread' = thread
    BY <1>2 DEF Insert
  <2>2. CASE id = i
    <3>1. attempt[i] = Never
      BY <1>2, <2>2 DEF Insert, Unborn
    <3> QED BY <2>1, <3>1 DEF Settled
  <2>3. CASE id # i
    <3>1. sched'[i] = sched[i]
      BY <1>2, <2>3 DEF Insert, TypeOK
    <3> QED BY <1>1, <2>1, <3>1 DEF Settled, Exists, InFlight, NextFire
  <2> QED BY <2>2, <2>3
<1>3. ASSUME NEW id \in Ids, NEW on \in BOOLEAN, SetEnabled(id, on) PROVE Apart(i)'
  <2>1. attempt' = attempt /\ thread' = thread
    BY <1>3 DEF SetEnabled
  <2>2. (Exists(i)' <=> Exists(i)) /\ sched'[i].next = sched[i].next
    BY <1>3, RowMoves
  <2> QED BY <1>1, <2>1, <2>2 DEF Settled, InFlight
<1>4. ASSUME NEW id \in Ids, Delete(id) PROVE Apart(i)'
  <2>1. attempt' = attempt /\ thread' = thread
    BY <1>4 DEF Delete
  <2>2. sched'[i] = sched[i] \/ ~Exists(i)'
    BY <1>4 DEF Delete, TypeOK, Exists, Deleted
  <2> QED BY <1>1, <2>1, <2>2 DEF Settled, InFlight, Exists
<1>5. CASE UNCHANGED <<sched, attempt, thread>>
  BY <1>1, <1>5 DEF Settled, InFlight, Exists
<1>6. CASE BeginTick
  <2>1. sched' = sched /\ attempt' = attempt
    BY <1>6 DEF BeginTick
  <2>2. thread.at = "idle" /\ thread'.at = "scan" /\ thread'.due = {}
    BY <1>6, ThreadMoves
  <2> QED BY <1>1, <2>1, <2>2 DEF Settled, InFlight, Exists
<1>7. CASE Scan
  <2>1. sched' = sched /\ attempt' = attempt
    BY <1>7 DEF Scan
  <2>2. thread.at = "scan" /\ thread'.at = "loop" /\ thread'.due = DueAt(thread.time) /\ thread'.time = thread.time
    BY <1>7, ThreadMoves
  <2>3. i \in DueAt(thread.time) => Exists(i) /\ sched[i].next <= thread.time
    BY DEF DueAt, Enabled
  <2>4. Settled(i)' => Settled(i)
    BY <2>1, <2>2 DEF Settled, InFlight, Exists
  <2>5. i \in DueAt(thread.time) /\ attempt[i] # Never => Settled(i)
    BY <2>2, <2>3 DEF Settled, InFlight
  <2> QED BY <1>1, <2>1, <2>2, <2>3, <2>4, <2>5
<1>8. ASSUME NEW id \in Ids, Trigger(id) PROVE Apart(i)'
  <2>1. sched' = sched /\ attempt' = [attempt EXCEPT ![id] = thread.time]
    BY <1>8 DEF Trigger
  <2>2. CASE id = i
    <3>1. InFlight(i)' /\ i \notin thread'.due
      BY <1>8, <2>2, TriggerThread DEF InFlight
    <3> QED BY <3>1 DEF Settled
  <2>3. CASE id # i
    <3>1. /\ thread.at = "loop" /\ thread'.at = "triggered" /\ thread'.time = thread.time
          /\ (i \in thread'.due <=> i \in thread.due)
      BY <1>8, <2>3, TriggerThread
    <3>2. attempt'[i] = attempt[i]
      BY <2>1, <2>3 DEF TypeOK
    <3>3. Settled(i)' => Settled(i)
      BY <2>1, <3>1, <3>2 DEF Settled, InFlight, Exists
    <3> QED BY <1>1, <2>1, <3>1, <3>2, <3>3
  <2> QED BY <2>2, <2>3
<1>9. CASE Record
  <2>1. attempt' = attempt
    BY <1>9 DEF Record
  <2>2. /\ thread.at = "triggered" /\ thread'.due = thread.due /\ thread'.time = thread.time
        /\ thread'.at \in {"loop", "disable"}
    BY <1>9, ThreadMoves
  <2>3. CASE thread.cur = i
    <3>1. attempt[i] = thread.time
      BY <2>2, <2>3 DEF AtHand
    <3>2. Exists(i)' => sched'[i].next = NextFire(i, thread.time)
      BY <1>9, <2>3, RowMoves
    <3>3. i \notin thread'.due
      BY <2>2, <2>3 DEF TypeOK
    <3> QED BY <2>1, <3>1, <3>2, <3>3 DEF Settled
  <2>4. CASE thread.cur # i
    <3>1. sched'[i] = sched[i]
      BY <1>9, <2>4, RowMoves
    <3>2. Settled(i)' => Settled(i)
      BY <2>1, <2>2, <2>4, <3>1 DEF Settled, InFlight, Exists
    <3> QED BY <1>1, <2>1, <2>2, <3>1, <3>2
  <2> QED BY <2>3, <2>4
<1>10. CASE DisableOnce
  <2>1. attempt' = attempt
    BY <1>10 DEF DisableOnce
  <2>2. thread.at = "disable" /\ thread'.at = "loop" /\ thread'.due = thread.due /\ thread'.time = thread.time
    BY <1>10, ThreadMoves
  <2>3. (Exists(i)' <=> Exists(i)) /\ sched'[i].next = sched[i].next
    BY <1>10, RowMoves
  <2>4. Settled(i)' => Settled(i)
    BY <2>1, <2>2, <2>3 DEF Settled, InFlight
  <2> QED BY <1>1, <2>1, <2>2, <2>3, <2>4
<1>11. CASE EndTick
  <2>1. sched' = sched /\ attempt' = attempt /\ thread.at = "loop"
    BY <1>11 DEF EndTick
  <2>2. thread'.at = "idle" /\ thread'.due = {}
    BY <1>11, ThreadMoves
  <2>3. Settled(i)' => Settled(i)
    BY <2>1, <2>2 DEF Settled, InFlight, Exists
  <2> QED BY <1>1, <2>1, <2>2, <2>3
<1>12. CASE StoreRaises
  BY <1>12, ThreadMoves DEF Settled
<1>13. CASE Restart
  <2>1. attempt'[i] = Never
    BY <1>13 DEF Restart
  <2> QED BY <2>1 DEF Settled
<1>14. CASE Clock \/ Pause \/ Resume \/ UNCHANGED vars
  BY <1>5, <1>14 DEF Clock, Pause, Resume, vars
<1> QED BY <1>2, <1>3, <1>4, <1>6, <1>7, <1>8, <1>9, <1>10, <1>11, <1>12, <1>13, <1>14, Cases

LEMMA OffAgainStep ==
  ASSUME TypeOK, Unborn, OffAgain, [Next]_vars
  PROVE  OffAgain'
<1> DEFINE Free(i) == Enabled(i) /\ thread.at # "dead" /\ ~(thread.at \in {"triggered", "disable"} /\ thread.cur = i)
<1> SUFFICES ASSUME NEW i \in Ids, Once(i), (attempt[i] # Never)'
             PROVE  (Free(i) => rearmed[i])' /\ (i \in thread.due => rearmed[i])'
  BY DEF OffAgain, Once
<1>1. attempt[i] # Never => (Free(i) => rearmed[i]) /\ (i \in thread.due => rearmed[i])
  BY DEF OffAgain
<1>2. ASSUME NEW id \in Ids, NEW n \in Nat, Insert(id, n)
      PROVE  (Free(i) => rearmed[i])' /\ (i \in thread.due => rearmed[i])'
  <2>1. attempt' = attempt /\ thread' = thread /\ rearmed' = rearmed
    BY <1>2 DEF Insert
  <2>2. id # i
    BY <1>2, <2>1 DEF Insert, Unborn
  <2>3. sched'[i] = sched[i]
    BY <1>2, <2>2 DEF Insert, TypeOK
  <2> QED BY <1>1, <2>1, <2>3 DEF Enabled, Exists
<1>3. ASSUME NEW id \in Ids, NEW on \in BOOLEAN, SetEnabled(id, on)
      PROVE  (Free(i) => rearmed[i])' /\ (i \in thread.due => rearmed[i])'
  <2>1. attempt' = attempt /\ thread' = thread
    BY <1>3 DEF SetEnabled
  <2>2. CASE id = i
    <3>1. rearmed'[i] = (rearmed[i] \/ on)
      BY <1>3, <2>2 DEF SetEnabled, TypeOK
    <3>2. Enabled(i)' => on
      BY <1>3, <2>2, RowMoves DEF Enabled
    <3> QED BY <1>1, <2>1, <3>1, <3>2
  <2>3. CASE id # i
    <3>1. rearmed'[i] = rearmed[i]
      BY <1>3, <2>3 DEF SetEnabled, TypeOK
    <3>2. sched'[i] = sched[i]
      BY <1>3, <2>3, RowMoves
    <3> QED BY <1>1, <2>1, <3>1, <3>2 DEF Enabled, Exists
  <2> QED BY <2>2, <2>3
<1>4. ASSUME NEW id \in Ids, Delete(id)
      PROVE  (Free(i) => rearmed[i])' /\ (i \in thread.due => rearmed[i])'
  <2>1. attempt' = attempt /\ thread' = thread /\ rearmed' = rearmed
    BY <1>4 DEF Delete
  <2>2. Enabled(i)' => Enabled(i)
    BY <1>4 DEF Delete, Enabled, Exists, TypeOK, Deleted
  <2> QED BY <1>1, <2>1, <2>2
<1>5. CASE UNCHANGED <<sched, attempt, thread, rearmed>>
  BY <1>1, <1>5 DEF Enabled, Exists
<1>6. CASE BeginTick
  <2>1. sched' = sched /\ attempt' = attempt /\ rearmed' = rearmed
    BY <1>6 DEF BeginTick
  <2>2. thread.at = "idle" /\ thread'.due = {}
    BY <1>6, ThreadMoves
  <2> QED BY <1>1, <2>1, <2>2 DEF Enabled, Exists
<1>7. CASE Scan
  <2>1. sched' = sched /\ attempt' = attempt /\ rearmed' = rearmed
    BY <1>7 DEF Scan
  <2>2. thread.at = "scan" /\ thread'.due = DueAt(thread.time)
    BY <1>7, ThreadMoves
  <2>3. i \in DueAt(thread.time) => Enabled(i)
    BY DEF DueAt
  <2> QED BY <1>1, <2>1, <2>2, <2>3 DEF Enabled, Exists
<1>8. ASSUME NEW id \in Ids, Trigger(id)
      PROVE  (Free(i) => rearmed[i])' /\ (i \in thread.due => rearmed[i])'
  <2>1. sched' = sched /\ attempt' = [attempt EXCEPT ![id] = thread.time]
    BY <1>8 DEF Trigger
  <2>2. CASE id = i
    BY <1>8, <2>2, TriggerThread
  <2>3. CASE id # i
    <3>1. thread.at = "loop" /\ (i \in thread'.due <=> i \in thread.due)
      BY <1>8, <2>3, TriggerThread
    <3>2. attempt'[i] = attempt[i]
      BY <2>1, <2>3 DEF TypeOK
    <3>3. rearmed'[i] = rearmed[i]
      BY <1>8, <2>3 DEF Trigger, TypeOK
    <3> QED BY <1>1, <2>1, <3>1, <3>2, <3>3 DEF Enabled, Exists
  <2> QED BY <2>2, <2>3
<1>9. CASE Record
  <2>1. attempt' = attempt /\ rearmed' = rearmed
    BY <1>9 DEF Record
  <2>2. thread.at = "triggered" /\ thread'.due = thread.due
    BY <1>9, ThreadMoves
  <2>3. Enabled(i)' <=> Enabled(i)
    BY <1>9, RowMoves
  <2>4. CASE thread.cur = i
    <3>1. thread'.at = "disable" /\ thread'.cur = i
      BY <1>9, <2>4, ThreadMoves
    <3> QED BY <1>1, <2>1, <2>2, <3>1
  <2>5. CASE thread.cur # i
    BY <1>1, <2>1, <2>2, <2>3, <2>5
  <2> QED BY <2>4, <2>5
<1>10. CASE DisableOnce
  <2>1. attempt' = attempt /\ rearmed' = rearmed
    BY <1>10 DEF DisableOnce
  <2>2. thread.at = "disable" /\ thread'.due = thread.due
    BY <1>10, ThreadMoves
  <2>3. CASE thread.cur = i
    <3>1. ~Enabled(i)'
      BY <1>10, <2>3, RowMoves
    <3> QED BY <1>1, <2>1, <2>2, <3>1
  <2>4. CASE thread.cur # i
    <3>1. sched'[i] = sched[i]
      BY <1>10, <2>4, RowMoves
    <3> QED BY <1>1, <2>1, <2>2, <2>4, <3>1 DEF Enabled, Exists
  <2> QED BY <2>3, <2>4
<1>11. CASE EndTick
  <2>1. sched' = sched /\ attempt' = attempt /\ rearmed' = rearmed /\ thread.at = "loop"
    BY <1>11 DEF EndTick
  <2>2. thread'.due = {}
    BY <1>11, ThreadMoves
  <2> QED BY <1>1, <2>1, <2>2 DEF Enabled, Exists
<1>12. CASE StoreRaises
  BY <1>12, ThreadMoves
<1>13. CASE Restart
  <2>1. attempt'[i] = Never
    BY <1>13 DEF Restart
  <2> QED BY <2>1
<1>14. CASE Clock \/ Pause \/ Resume \/ UNCHANGED vars
  BY <1>5, <1>14 DEF Clock, Pause, Resume, vars
<1> QED BY <1>2, <1>3, <1>4, <1>6, <1>7, <1>8, <1>9, <1>10, <1>11, <1>12, <1>13, <1>14, Cases

LEMMA StatusStep ==
  ASSUME TypeOK, Unborn, AtHand, StatusTellsTheLastAttempt, [Next]_vars
  PROVE  StatusTellsTheLastAttempt'
<1> SUFFICES ASSUME NEW i \in Ids, Settled(i)' PROVE (sched[i].status = outcome[i])'
  BY DEF StatusTellsTheLastAttempt, Settled
<1>1. Settled(i) => sched[i].status = outcome[i]
  BY DEF StatusTellsTheLastAttempt, Settled
<1>2. ASSUME NEW id \in Ids, NEW n \in Nat, Insert(id, n) PROVE (sched[i].status = outcome[i])'
  <2>1. attempt' = attempt /\ thread' = thread /\ outcome' = outcome
    BY <1>2 DEF Insert
  <2>2. id # i
    BY <1>2, <2>1 DEF Insert, Unborn, Settled
  <2>3. sched'[i] = sched[i]
    BY <1>2, <2>2 DEF Insert, TypeOK
  <2> QED BY <1>1, <2>1, <2>3 DEF Settled, Exists, InFlight
<1>3. ASSUME NEW id \in Ids, NEW on \in BOOLEAN, SetEnabled(id, on) PROVE (sched[i].status = outcome[i])'
  <2>1. attempt' = attempt /\ thread' = thread /\ outcome' = outcome
    BY <1>3 DEF SetEnabled
  <2>2. (Exists(i)' <=> Exists(i)) /\ sched'[i].status = sched[i].status
    BY <1>3, RowMoves
  <2> QED BY <1>1, <2>1, <2>2 DEF Settled, InFlight
<1>4. ASSUME NEW id \in Ids, Delete(id) PROVE (sched[i].status = outcome[i])'
  <2>1. attempt' = attempt /\ thread' = thread /\ outcome' = outcome
    BY <1>4 DEF Delete
  <2>2. sched'[i] = sched[i] \/ ~Exists(i)'
    BY <1>4 DEF Delete, TypeOK, Exists, Deleted
  <2> QED BY <1>1, <2>1, <2>2 DEF Settled, InFlight, Exists
<1>5. CASE UNCHANGED <<sched, attempt, thread, outcome>>
  BY <1>1, <1>5 DEF Settled, InFlight, Exists
<1>6. CASE BeginTick \/ Scan \/ EndTick
  <2>1. sched' = sched /\ attempt' = attempt /\ outcome' = outcome /\ thread.at \in {"idle", "scan", "loop"}
    BY <1>6 DEF BeginTick, Scan, EndTick
  <2> QED BY <1>1, <2>1 DEF Settled, InFlight, Exists
<1>7. ASSUME NEW id \in Ids, Trigger(id) PROVE (sched[i].status = outcome[i])'
  <2>1. sched' = sched /\ attempt' = [attempt EXCEPT ![id] = thread.time]
    BY <1>7 DEF Trigger
  <2>2. id # i
    BY <1>7, TriggerThread DEF Settled, InFlight
  <2>3. attempt'[i] = attempt[i] /\ outcome'[i] = outcome[i] /\ thread.at = "loop"
    BY <1>7, <2>1, <2>2, TriggerThread DEF TypeOK
  <2> QED BY <1>1, <2>1, <2>3 DEF Settled, InFlight, Exists
<1>8. CASE Record
  <2>1. attempt' = attempt /\ outcome' = outcome
    BY <1>8 DEF Record
  <2>2. thread.at = "triggered"
    BY <1>8, ThreadMoves
  <2>3. CASE thread.cur = i
    <3>1. outcome[i] = Status(thread.ok)
      BY <2>2, <2>3 DEF AtHand
    <3>2. Exists(i)
      BY <1>8, RowMoves DEF Settled
    <3>3. sched'[i].status = Status(thread.ok)
      BY <1>8, <2>3, <3>2, RowMoves
    <3> QED BY <2>1, <3>1, <3>3
  <2>4. CASE thread.cur # i
    <3>1. sched'[i] = sched[i]
      BY <1>8, <2>4, RowMoves
    <3> QED BY <1>1, <2>1, <2>2, <2>4, <3>1 DEF Settled, InFlight, Exists
  <2> QED BY <2>3, <2>4
<1>9. CASE DisableOnce
  <2>1. attempt' = attempt /\ outcome' = outcome
    BY <1>9 DEF DisableOnce
  <2>2. thread.at = "disable"
    BY <1>9, ThreadMoves
  <2>3. (Exists(i)' <=> Exists(i)) /\ sched'[i].status = sched[i].status
    BY <1>9, RowMoves
  <2> QED BY <1>1, <2>1, <2>2, <2>3 DEF Settled, InFlight
<1>10. CASE StoreRaises
  BY <1>10, ThreadMoves DEF Settled
<1>11. CASE Restart
  <2>1. attempt'[i] = Never
    BY <1>11 DEF Restart
  <2> QED BY <2>1 DEF Settled
<1>12. CASE Clock \/ Pause \/ Resume \/ UNCHANGED vars
  BY <1>5, <1>12 DEF Clock, Pause, Resume, vars
<1> QED BY <1>2, <1>3, <1>4, <1>6, <1>7, <1>8, <1>9, <1>10, <1>11, <1>12, Cases

LEMMA FirstStep ==
  ASSUME TypeOK, NextIsTheFirst, [Next]_vars
  PROVE  NextIsTheFirst'
<1> DEFINE First(i, b, n) == /\ n > b
                             /\ Shows(i, Local(n)) \/ Offset(n) # Offset(b)
                             /\ \A u \in (b + 1)..(n - 1) : Shows(i, Local(u)) => Offset(u) # Offset(b)
<1> SUFFICES ASSUME NEW i \in Ids, Cadence[i].type \in {"daily", "weekly"}, Exists(i)'
             PROVE  First(i, base'[i], sched'[i].next)
  BY DEF NextIsTheFirst, Shows, Local, Offset
<1>1. Exists(i) => First(i, base[i], sched[i].next)
  BY DEF NextIsTheFirst
<1>2. ASSUME NEW t \in Nat PROVE First(i, t, NextFire(i, t))
  BY NextFireFirst
<1> HIDE DEF First
<1>3. ASSUME NEW id \in Ids, NEW n \in Nat, Insert(id, n),
             Cadence[id].type \in {"daily", "weekly"} => n = NextFire(id, now)
      PROVE  First(i, base'[i], sched'[i].next)
  <2>1. CASE id = i
    <3>1. base'[i] = now /\ sched'[i] = Row(n) /\ now \in Nat
      BY <1>3, <2>1 DEF Insert, TypeOK
    <3>2. Row(n).next = n
      BY DEF Row
    <3> QED BY <1>2, <1>3, <2>1, <3>1, <3>2
  <2>2. CASE id # i
    <3>1. base'[i] = base[i] /\ sched'[i] = sched[i]
      BY <1>3, <2>2 DEF Insert, TypeOK
    <3> QED BY <1>1, <3>1 DEF Exists
  <2> QED BY <2>1, <2>2
<1>4. ASSUME NEW id \in Ids, NEW on \in BOOLEAN, SetEnabled(id, on) PROVE First(i, base'[i], sched'[i].next)
  <2>1. base' = base
    BY <1>4 DEF SetEnabled
  <2>2. (Exists(i)' <=> Exists(i)) /\ sched'[i].next = sched[i].next
    BY <1>4, RowMoves
  <2> QED BY <1>1, <2>1, <2>2
<1>5. ASSUME NEW id \in Ids, Delete(id) PROVE First(i, base'[i], sched'[i].next)
  <2>1. id # i
    BY <1>5 DEF Delete, TypeOK, Exists, Deleted
  <2>2. base'[i] = base[i] /\ sched'[i] = sched[i]
    BY <1>5, <2>1 DEF Delete, TypeOK
  <2> QED BY <1>1, <2>2 DEF Exists
<1>6. CASE Record
  <2>1. Exists(i)
    BY <1>6, RowMoves
  <2>2. CASE thread.cur = i
    <3>1. base'[i] = thread.time /\ sched'[i].next = NextFire(i, thread.time)
      BY <1>6, <2>1, <2>2, RowMoves
    <3>2. thread.time \in Nat
      BY DEF TypeOK
    <3> QED BY <1>2, <3>1, <3>2
  <2>3. CASE thread.cur # i
    <3>1. sched'[i] = sched[i] /\ base'[i] = base[i]
      BY <1>6, <2>3, RowMoves
    <3> QED BY <1>1, <2>1, <3>1
  <2> QED BY <2>2, <2>3
<1>7. CASE DisableOnce
  <2>1. base' = base
    BY <1>7 DEF DisableOnce
  <2>2. (Exists(i)' <=> Exists(i)) /\ sched'[i].next = sched[i].next
    BY <1>7, RowMoves
  <2> QED BY <1>1, <2>1, <2>2
<1>8. CASE UNCHANGED <<sched, base>>
  BY <1>1, <1>8 DEF Exists
<1>9. ASSUME NEW id \in Ids, Trigger(id) PROVE First(i, base'[i], sched'[i].next)
  BY <1>8, <1>9 DEF Trigger
<1>10. CASE Clock \/ Pause \/ Resume \/ BeginTick \/ Scan \/ EndTick \/ StoreRaises \/ Restart \/ UNCHANGED vars
  BY <1>8, <1>10 DEF Clock, Pause, Resume, BeginTick, Scan, EndTick, StoreRaises, Restart, vars
<1> QED BY <1>3, <1>4, <1>5, <1>6, <1>7, <1>9, <1>10, Cases

-----------------------------------------------------------------------------
(* The theorems.                                                           *)

\* Every reachable state satisfies the inductive invariant.
THEOREM Invariant == Spec => []IInv
<1>1. Init => IInv
  <2> SUFFICES ASSUME Init PROVE IInv
    OBVIOUS
  <2>1. Idle.at = "idle" /\ Idle.due = {} /\ Idle.cur = NoSchedule /\ Absent.state = "absent"
    BY DEF Idle, Absent
  <2>2. Idle \in [at : Places, time : Nat, due : SUBSET Ids, cur : Ids \cup {NoSchedule}, ok : BOOLEAN]
    <3>1. "idle" \in Places /\ 0 \in Nat /\ {} \in SUBSET Ids /\ NoSchedule \in Ids \cup {NoSchedule}
      BY DEF Places
    <3>2. TRUE \in BOOLEAN
      OBVIOUS
    <3> QED BY <3>1, <3>2, ZenonT(20) DEF Idle
  <2>3. TypeOK
    <3>1. rearmed \in [Ids -> BOOLEAN]
      BY ZenonT(20) DEF Init
    <3>2. paused \in BOOLEAN
      BY ZenonT(20) DEF Init
    <3> QED BY <2>1, <2>2, <3>1, <3>2 DEF Init, TypeOK
  <2>4. \A id \in Ids : ~Exists(id) /\ attempt[id] = Never
    BY <2>1 DEF Init, Exists
  <2>5. Unborn /\ Lates
    BY <2>1, <2>4, SchedulerAssumption DEF Init, Unborn, Lates, Enabled
  <2>6. AtHand /\ Spaced /\ OffAgain /\ StatusTellsTheLastAttempt /\ NextIsTheFirst
    BY <2>1, <2>4 DEF Init, AtHand, Spaced, OffAgain, StatusTellsTheLastAttempt, NextIsTheFirst, Settled
  <2> QED BY <2>3, <2>5, <2>6 DEF IInv
<1>2. IInv /\ [Next]_vars => IInv'
  BY TypeStep, UnbornStep, LatesStep, AtHandStep, SpacedStep, OffAgainStep, StatusStep, FirstStep DEF IInv
<1> QED BY <1>1, <1>2, PTL DEF Spec

\* The table and the thread keep their types, and a schedule at hand is never
\* still on the list.
THEOREM TypeCorrect == Spec => []TypeOK
<1>1. IInv => TypeOK
  BY DEF IInv
<1> QED BY <1>1, Invariant, PTL

\* A switched off, deleted or paused schedule is triggered at most once more.
THEOREM OffMeansOff == Spec => []OneLateFire
<1>1. IInv => OneLateFire
  BY DEF IInv, Lates, OneLateFire
<1> QED BY <1>1, Invariant, PTL

\* Whatever was tried last is what the panel shows.
THEOREM PanelIsTrue == Spec => []StatusTellsTheLastAttempt
<1>1. IInv => StatusTellsTheLastAttempt
  BY DEF IInv
<1> QED BY <1>1, Invariant, PTL

\* Daily and weekly rows name the first local time they are meant for, for any
\* length of day and week and any zone, but for instants at which the offset is
\* not the one of the instant they were computed from.
THEOREM CalendarIsExact == Spec => []NextIsTheFirst
<1>1. IInv => NextIsTheFirst
  BY DEF IInv
<1> QED BY <1>1, Invariant, PTL

\* No occurrence fires twice and none is made up for in a burst.
THEOREM CadenceKept == Spec => FiresApart
<1>1. IInv /\ [Next]_vars =>
        [\A id \in Ids : Attempted(id) /\ attempt[id] # Never => NextFire(id, attempt[id]) <= thread.time]_vars
  BY DEF IInv, Spaced, Attempted
<1> QED BY <1>1, Invariant, PTL DEF Spec, FiresApart

\* A one-time schedule is triggered again only if a request enabled it again.
THEOREM OnceMeansOnce == Spec => OnceFiresOnce
<1>1. IInv /\ [Next]_vars =>
        [\A id \in Ids : Attempted(id) /\ attempt[id] # Never /\ Once(id) => rearmed[id]]_vars
  BY DEF IInv, OffAgain, Attempted
<1> QED BY <1>1, Invariant, PTL DEF Spec, OnceFiresOnce
=============================================================================
