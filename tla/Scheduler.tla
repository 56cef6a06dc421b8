----------------------------- MODULE Scheduler -----------------------------
(***************************************************************************)
(* webapp/scheduler.py: the thread that polls the schedules table and      *)
(* fires what is due, beside the requests that create, clone, switch,      *)
(* delete and pause schedules.                                             *)
(*                                                                         *)
(* A tick reads the pause flag, reads the due rows once and then works on  *)
(* that list: trigger, record the next run, disable if it was a one-time   *)
(* schedule.  Every call of the store is one step, and requests, the clock *)
(* and a crash come between any two.  Ids are never used again             *)
(* (AUTOINCREMENT) and nothing edits a cadence, so Cadence is a constant.  *)
(***************************************************************************)
EXTENDS Integers

CONSTANTS
  Ids,         \* schedule ids
  Cadence,     \* [type, every, at, day] of each
  NoSchedule,  \* no schedule at hand
  Day, Week,   \* clock units in a day, days in a week
  Standard,    \* how far local time is ahead of UTC (whole weeks added where it is behind)
  Saving,      \* how much further while daylight saving time holds
  Summer,      \* the instants at which it holds
  MaxNow,      \* bound: the clock
  MaxRestarts, \* bound: process restarts
  MaxFaults    \* bound: store calls that raise in the thread

Cadences == [type : {"interval", "daily", "weekly", "once"}, every : Nat \ {0}, at : 0..(Day - 1), day : 0..(Week - 1)]

ASSUME SchedulerAssumption ==
  /\ Day \in Nat \ {0} /\ Week \in Nat \ {0}
  /\ Standard \in Nat /\ Saving \in Nat
  /\ Cadence \in [Ids -> Cadences]
  /\ NoSchedule \notin Ids
  /\ MaxNow \in Nat /\ MaxRestarts \in Nat /\ MaxFaults \in Nat

VARIABLES
  now,      \* the clock
  sched,    \* the schedules table: a row, Absent or Deleted
  paused,   \* Scheduler.paused
  thread,   \* the scheduler's thread
  base,     \* history: the instant each row's next_run_at was computed from
  attempt,  \* history: the tick of the last trigger since the last restart
  outcome,  \* history: how that trigger ended
  rearmed,  \* history: enabled by a request since that trigger
  lateOff,  \* history: triggers since the row was disabled or deleted
  latePaused, \* history: triggers since the pause
  restarts, faults \* bounds

vars == <<now, sched, paused, thread, base, attempt, outcome, rearmed, lateOff, latePaused, restarts, faults>>
bounds == <<restarts, faults>>

Absent == [state |-> "absent"]
Deleted == [state |-> "deleted"]
Exists(id) == sched[id].state = "row"
Enabled(id) == Exists(id) /\ sched[id].enabled
Row(next) == [state |-> "row", enabled |-> TRUE, next |-> next, status |-> "none"]
Never == -1

\* at: where the thread is in _tick; time: the tick's now; due: what is left of
\* the list read; cur: the schedule at hand; ok: did its trigger return.
Idle == [at |-> "idle", time |-> 0, due |-> {}, cur |-> NoSchedule, ok |-> TRUE]
GoOn == thread' = [thread EXCEPT !.at = "loop", !.cur = NoSchedule, !.ok = TRUE]
InFlight(id) == thread.at = "triggered" /\ thread.cur = id

-----------------------------------------------------------------------------
(* When does a schedule fire next?                                         *)

\* candidate <= local_after moves on.
\* Seeded fault: < for <=.
MovesOnPast(candidate, t) == candidate < t
MovesOn(candidate, t) == candidate <= t

\* The zone, and what the clock on the wall shows.
Offset(t) == IF t \in Summer THEN Standard + Saving ELSE Standard
Local(t) == t + Offset(t)

\* The first local time at of a day, or of a day of the week, past local.
DailyPast(at, local) ==
  LET candidate == (local \div Day) * Day + at
  IN IF MovesOn(candidate, local) THEN candidate + Day ELSE candidate

WeeklyPast(day, at, local) ==
  LET ahead == (day - ((local \div Day) % Week)) % Week
      candidate == (local \div Day + ahead) * Day + at
  IN IF MovesOn(candidate, local) THEN candidate + Week * Day ELSE candidate

\* after.astimezone() has a fixed offset, the one at after: the candidate keeps
\* it, and is converted back with it, whatever the zone does in between.
NextDaily(at, t) == DailyPast(at, Local(t)) - Offset(t)
NextWeekly(day, at, t) == WeeklyPast(day, at, Local(t)) - Offset(t)

NextFire(id, t) ==
  LET c == Cadence[id]
  IN CASE c.type = "daily" -> NextDaily(c.at, t)
       [] c.type = "weekly" -> NextWeekly(c.day, c.at, t)
       [] c.type = "once" -> t
       [] OTHER -> t + c.every

Once(id) == Cadence[id].type = "once"

Init ==
  /\ now = 0
  /\ sched = [id \in Ids |-> Absent]
  /\ paused = FALSE
  /\ thread = Idle
  /\ base = [id \in Ids |-> 0]
  /\ attempt = [id \in Ids |-> Never]
  /\ outcome = [id \in Ids |-> "none"]
  /\ rearmed = [id \in Ids |-> FALSE]
  /\ lateOff = [id \in Ids |-> 0]
  /\ latePaused = [id \in Ids |-> 0]
  /\ restarts = 0 /\ faults = 0

-----------------------------------------------------------------------------
(* Requests.                                                               *)

Clock ==
  /\ now < MaxNow
  /\ now' = now + 1
  /\ UNCHANGED <<sched, paused, thread, base, attempt, outcome, rearmed, lateOff, latePaused, bounds>>

Insert(id, next) ==
  /\ sched[id] = Absent
  /\ sched' = [sched EXCEPT ![id] = Row(next)]
  /\ base' = [base EXCEPT ![id] = now]
  /\ UNCHANGED <<now, paused, thread, attempt, outcome, rearmed, lateOff, latePaused, bounds>>

\* create_schedule: an interval starts at once, a one-time run lies ahead.
FirstRuns(id) ==
  CASE Cadence[id].type = "interval" -> {now}
    [] Once(id) -> (now + 1)..MaxNow
    [] OTHER -> {NextFire(id, now)}

Create(id) == \E next \in FirstRuns(id) : Insert(id, next)

\* bulk_duplicate_schedules: a one-time schedule keeps its next_run_at.
Duplicate(id, new) ==
  /\ Exists(id) /\ Cadence[new] = Cadence[id]
  /\ IF Once(id) THEN Insert(new, sched[id].next) ELSE Create(new)

SetEnabled(id, on) ==
  /\ Exists(id)
  /\ sched' = [sched EXCEPT ![id].enabled = on]
  /\ rearmed' = [rearmed EXCEPT ![id] = @ \/ on]
  /\ lateOff' = [lateOff EXCEPT ![id] = IF on THEN 0 ELSE @]
  /\ UNCHANGED <<now, paused, thread, base, attempt, outcome, latePaused, bounds>>

Delete(id) ==
  /\ Exists(id)
  /\ sched' = [sched EXCEPT ![id] = Deleted]
  /\ base' = [base EXCEPT ![id] = 0]
  /\ UNCHANGED <<now, paused, thread, attempt, outcome, rearmed, lateOff, latePaused, bounds>>

Pause ==
  /\ paused' = TRUE
  /\ UNCHANGED <<now, sched, thread, base, attempt, outcome, rearmed, lateOff, latePaused, bounds>>

Resume ==
  /\ paused' = FALSE
  /\ latePaused' = [id \in Ids |-> 0]
  /\ UNCHANGED <<now, sched, thread, base, attempt, outcome, rearmed, lateOff, bounds>>

-----------------------------------------------------------------------------
(* The thread: _tick.                                                      *)

\* Seeded fault: the pause is not looked at.
Always == TRUE
Unpaused == ~paused

BeginTick ==
  /\ thread.at = "idle" /\ Unpaused
  /\ thread' = [thread EXCEPT !.at = "scan", !.time = now]
  /\ UNCHANGED <<now, sched, paused, base, attempt, outcome, rearmed, lateOff, latePaused, bounds>>

\* due_schedules: WHERE enabled = 1 AND next_run_at <= now.
\* Seeded fault: the flag is not in the WHERE.
AnyDue(t) == {id \in Ids : Exists(id) /\ sched[id].next <= t}
DueAt(t) == {id \in Ids : Enabled(id) /\ sched[id].next <= t}

Scan ==
  /\ thread.at = "scan"
  /\ thread' = [thread EXCEPT !.at = "loop", !.due = DueAt(thread.time)]
  /\ UNCHANGED <<now, sched, paused, base, attempt, outcome, rearmed, lateOff, latePaused, bounds>>

\* A trigger that raises is caught and reported.
\* Seeded fault: it is not.
Escapes(ok) == IF ok THEN "triggered" ELSE "dead"
Caught(ok) == "triggered"

\* What is left of the list.
Rest(due, id) == due \ {id}

Trigger(id) ==
  /\ thread.at = "loop" /\ id \in thread.due
  /\ \E ok \in BOOLEAN :
       /\ thread' = [thread EXCEPT !.at = Caught(ok), !.due = Rest(@, id), !.cur = id, !.ok = ok]
       /\ outcome' = [outcome EXCEPT ![id] = IF ok THEN "triggered" ELSE "error"]
  /\ attempt' = [attempt EXCEPT ![id] = thread.time]
  /\ rearmed' = [rearmed EXCEPT ![id] = FALSE]
  /\ lateOff' = IF Enabled(id) THEN lateOff ELSE [lateOff EXCEPT ![id] = @ + 1]
  /\ latePaused' = IF paused THEN [latePaused EXCEPT ![id] = @ + 1] ELSE latePaused
  /\ UNCHANGED <<now, sched, paused, base, bounds>>

\* The status that is recorded, and the next run.
Status(ok) == IF ok THEN "triggered" ELSE "error"
\* Seeded fault: the run after the one that was due.
FollowingRun(id, t) == NextFire(id, sched[id].next)
NextRun(id, t) == NextFire(id, t)

\* record_schedule_run: an UPDATE, of no row if it has been deleted.
Record ==
  LET id == thread.cur
  IN /\ thread.at = "triggered"
     /\ IF Exists(id)
        THEN /\ sched' = [sched EXCEPT ![id].next = NextRun(id, thread.time), ![id].status = Status(thread.ok)]
             /\ base' = [base EXCEPT ![id] = thread.time]
        ELSE UNCHANGED <<sched, base>>
     /\ IF Once(id) THEN thread' = [thread EXCEPT !.at = "disable"] ELSE GoOn
     /\ UNCHANGED <<now, paused, attempt, outcome, rearmed, lateOff, latePaused, bounds>>

\* A one-time schedule is disabled however its trigger ended.
SwitchOff(ok) == TRUE

DisableOnce ==
  LET id == thread.cur
  IN /\ thread.at = "disable"
     /\ sched' = IF Exists(id) /\ SwitchOff(thread.ok) THEN [sched EXCEPT ![id].enabled = FALSE] ELSE sched
     /\ GoOn
     /\ UNCHANGED <<now, paused, base, attempt, outcome, rearmed, lateOff, latePaused, bounds>>

EndTick ==
  /\ thread.at = "loop" /\ thread.due = {}
  /\ thread' = Idle
  /\ UNCHANGED <<now, sched, paused, base, attempt, outcome, rearmed, lateOff, latePaused, bounds>>

\* Only trigger is inside the try: a store call that raises ends the thread.
StoreRaises ==
  /\ thread.at \in {"scan", "triggered", "disable"} /\ faults < MaxFaults
  /\ faults' = faults + 1
  /\ thread' = [Idle EXCEPT !.at = "dead"]
  /\ UNCHANGED <<now, sched, paused, base, attempt, outcome, rearmed, lateOff, latePaused, restarts>>

\* The process dies and is started again: the table stays, the pause does not.
Restart ==
  /\ restarts < MaxRestarts
  /\ restarts' = restarts + 1
  /\ paused' = FALSE
  /\ thread' = Idle
  /\ attempt' = [id \in Ids |-> Never]
  /\ latePaused' = [id \in Ids |-> 0]
  /\ UNCHANGED <<now, sched, base, outcome, rearmed, lateOff, faults>>

Tick == BeginTick \/ Scan \/ (\E id \in Ids : Trigger(id)) \/ Record \/ DisableOnce \/ EndTick

Next ==
  \/ Clock
  \/ \E id \in Ids : Create(id)
  \/ \E id, new \in Ids : Duplicate(id, new)
  \/ \E id \in Ids, on \in BOOLEAN : SetEnabled(id, on)
  \/ \E id \in Ids : Delete(id)
  \/ Pause
  \/ Resume
  \/ Tick
  \/ StoreRaises
  \/ Restart

Spec == Init /\ [][Next]_vars

\* The loop never stops by itself; nothing is asked of users or of the clock.
FairSpec == Spec /\ WF_vars(Tick)

-----------------------------------------------------------------------------
(* Properties.                                                             *)

Places == {"idle", "scan", "loop", "triggered", "disable", "dead"}
Rows == [state : {"row"}, enabled : BOOLEAN, next : Nat, status : {"none", "triggered", "error"}]

TypeOK ==
  /\ now \in Nat
  /\ sched \in [Ids -> Rows \cup {Absent, Deleted}]
  /\ paused \in BOOLEAN
  /\ thread \in [at : Places, time : Nat, due : SUBSET Ids, cur : Ids \cup {NoSchedule}, ok : BOOLEAN]
  /\ thread.at \in {"triggered", "disable"} => thread.cur \in Ids \ thread.due
  /\ thread.at \in {"idle", "scan"} => thread.due = {}
  /\ base \in [Ids -> Nat]
  /\ attempt \in [Ids -> Nat \cup {Never}]
  /\ outcome \in [Ids -> {"none", "triggered", "error"}]
  /\ rearmed \in [Ids -> BOOLEAN]
  /\ lateOff \in [Ids -> Nat] /\ latePaused \in [Ids -> Nat]

Attempted(id) == thread.at = "loop" /\ id \in thread.due /\ thread'.cur = id

\* The cadence is kept: without a restart in between, a schedule is triggered
\* again only when its next run, counted from the tick that triggered it last,
\* has come: nothing fires twice for one next_run_at, and time missed while
\* paused, disabled or busy is not caught up on in a burst.
FiresApart ==
  [][\A id \in Ids : Attempted(id) /\ attempt[id] # Never => NextFire(id, attempt[id]) <= thread.time]_vars

\* A one-time schedule is triggered once, whether the trigger returned or
\* raised, until a request enables it again.
OnceFiresOnce ==
  [][\A id \in Ids : Attempted(id) /\ attempt[id] # Never /\ Once(id) => rearmed[id]]_vars

\* The list a tick works on goes stale, but only for that tick: a schedule that
\* was disabled, deleted or caught by the pause is triggered at most once more.
OneLateFire == \A id \in Ids : lateOff[id] <= 1 /\ latePaused[id] <= 1

\* "a schedule blocked by an open breaker says so in the Schedules panel instead
\* of silently not running" (_trigger_schedule): once the thread is done with a
\* trigger, the row shows how that trigger ended.
StatusTellsTheLastAttempt ==
  \A id \in Ids : Exists(id) /\ attempt[id] # Never /\ ~InFlight(id) /\ thread.at # "dead" =>
    sched[id].status = outcome[id]

\* A daily or weekly row names the first instant, strictly after the one it was
\* computed from, at which the clock on the wall shows its time and day.  The one
\* exception are instants at which the zone's offset is another one than at the
\* base: the row may name such an instant although the wall shows another time
\* there, and may pass over one although the wall shows the right one.
Shows(id, local) ==
  /\ local % Day = Cadence[id].at
  /\ Cadence[id].type = "weekly" => (local \div Day) % Week = Cadence[id].day
NextIsTheFirst ==
  \A id \in Ids : Exists(id) /\ Cadence[id].type \in {"daily", "weekly"} =>
    LET b == base[id]
        n == sched[id].next
    IN /\ n > b
       /\ Shows(id, Local(n)) \/ Offset(n) # Offset(b)
       /\ \A u \in (b + 1)..(n - 1) : Shows(id, Local(u)) => Offset(u) # Offset(b)

\* A schedule that is due is taken up, unless it is disabled, deleted or paused,
\* or an exception of the store has ended the thread: a trigger that raises does
\* not keep the others from firing.
Due(id, n) == Enabled(id) /\ sched[id].next = n /\ n <= now /\ ~paused
DueSchedulesFire ==
  \A id \in Ids : \A n \in 0..MaxNow : Due(id, n) ~> (~Due(id, n) \/ faults > 0)
=============================================================================
