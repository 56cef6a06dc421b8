--------------------------- MODULE CircuitBreaker ---------------------------
(***************************************************************************)
(* The per-module circuit breaker of webapp/main.py, on the module_health, *)
(* breaker_overrides and module_overrides tables of engine/state_store.py. *)
(*                                                                         *)
(* Launch requests pass a gate that reads each module's health and enabled *)
(* flag, then run their modules one after another; every end of a step is  *)
(* recorded.  Each store method holds the store's lock, so it is one step, *)
(* but a request or a run makes several such calls and others come between *)
(* them: health, then enabled; threshold, then failure, then threshold.    *)
(***************************************************************************)
EXTENDS Naturals, Sequences

CONSTANTS
  Modules,
  Runs,             \* the threads that launch and carry out runs
  Plans,            \* the module sequences a launch may ask for
  ManifestThreshold,\* circuit_breaker_threshold, or the default, per module
  ManifestEnabled,  \* the manifest's enabled flag, per module
  Thresholds,       \* the overrides a user sets
  NoOverride,       \* no row in an override table
  MaxFailures,      \* bound: failures recorded
  MaxRestarts       \* bound: process restarts

ASSUME BreakerAssumption ==
  /\ Plans \subseteq Seq(Modules)
  /\ ManifestThreshold \in [Modules -> Nat \ {0}]
  /\ ManifestEnabled \in [Modules -> BOOLEAN]
  /\ Thresholds \subseteq Nat \ {0}
  /\ NoOverride \notin Nat \cup BOOLEAN
  /\ MaxFailures \in Nat /\ MaxRestarts \in Nat

VARIABLES
  failures,  \* module_health.consecutive_failures
  tripped,   \* module_health.tripped
  threshold, \* breaker_overrides
  enabled,   \* module_overrides
  run,       \* what each thread is doing
  trips,     \* history: how often each breaker has tripped
  told,      \* history: the trips announced, in order
  lost,      \* history: trips whose announcement a restart cut off
  changed,   \* history: modules whose threshold was ever changed
  shut,      \* history: for each thread, what has been barred ever since its request
  recorded,  \* bound: failures recorded
  restarts   \* bound: restarts

vars == <<failures, tripped, threshold, enabled, run, trips, told, lost, changed, shut, recorded, restarts>>
store == <<failures, tripped, threshold, enabled>>
history == <<trips, told, lost, changed, shut>>
bounds == <<recorded, restarts>>

\* plan: the modules; pos: the one at hand; blocked: the gate has found one;
\* limit: the threshold read; health: the row record_module_failure returned.
Idle == [at |-> "idle", plan |-> << >>, pos |-> 1, blocked |-> FALSE, limit |-> 0,
         health |-> [count |-> 0, tripped |-> FALSE, trip |-> 0]]
Place(r) == run[r].at
ModuleOf(r) == run[r].plan[run[r].pos]

\* _breaker_threshold, _is_module_effectively_enabled.
Threshold(m) == IF threshold[m] = NoOverride THEN ManifestThreshold[m] ELSE threshold[m]
Enabled(m) == IF enabled[m] = NoOverride THEN ManifestEnabled[m] ELSE enabled[m]

\* The modules a launch is refused for, each with the reason.
Reasons == {"tripped", "disabled"}
BarredFor(m, why) == IF why = "tripped" THEN tripped[m] ELSE ~Enabled(m)
Barred == {p \in Modules \X Reasons : BarredFor(p[1], p[2])}

Init ==
  /\ failures = [m \in Modules |-> 0]
  /\ tripped = [m \in Modules |-> FALSE]
  /\ threshold = [m \in Modules |-> NoOverride]
  /\ enabled = [m \in Modules |-> NoOverride]
  /\ run = [r \in Runs |-> Idle]
  /\ trips = [m \in Modules |-> 0]
  /\ told = << >>
  /\ lost = {}
  /\ changed = {}
  /\ shut = [r \in Runs |-> {}]
  /\ recorded = 0
  /\ restarts = 0

\* Keeps shut up to date: what is no longer barred is not shut any more.
Reopened == shut' = [r \in Runs |-> shut[r] \cap Barred']

-----------------------------------------------------------------------------
(* A launch request: _ensure_modules_runnable, one module after another.   *)

Request(r) ==
  /\ Place(r) = "idle"
  /\ \E p \in Plans : run' = [run EXCEPT ![r] = [Idle EXCEPT !.at = "health", !.plan = p]]
  /\ shut' = [shut EXCEPT ![r] = Barred]
  /\ UNCHANGED <<store, trips, told, lost, changed, bounds>>

\* The lists tripped and disabled of the gate: is anything in them?
\* Seeded fault: each module starts the lists afresh.
LatestOnly(blocked, found) == found
Collect(blocked, found) == blocked \/ found

AtGate(r) == Place(r) \in {"health", "enabled"} /\ run[r].pos \in DOMAIN run[r].plan

CheckHealth(r) ==
  /\ AtGate(r) /\ Place(r) = "health"
  /\ run' = [run EXCEPT ![r].at = "enabled", ![r].blocked = Collect(@, tripped[ModuleOf(r)])]
  /\ UNCHANGED <<store, history, bounds>>

CheckEnabled(r) ==
  /\ AtGate(r) /\ Place(r) = "enabled"
  /\ run' = [run EXCEPT ![r].at = "health", ![r].pos = @ + 1,
                          ![r].blocked = Collect(@, ~Enabled(ModuleOf(r)))]
  /\ UNCHANGED <<store, history, bounds>>

AllChecked(r) == Place(r) = "health" /\ run[r].pos > Len(run[r].plan)

\* The 409s: nothing runs.
Refuse(r) ==
  /\ AllChecked(r) /\ run[r].blocked
  /\ run' = [run EXCEPT ![r] = Idle]
  /\ shut' = [shut EXCEPT ![r] = {}]
  /\ UNCHANGED <<store, trips, told, lost, changed, bounds>>

Launch(r) ==
  /\ AllChecked(r) /\ ~run[r].blocked
  /\ run' = [run EXCEPT ![r].at = "running", ![r].pos = 1]
  /\ shut' = [shut EXCEPT ![r] = {}]
  /\ UNCHANGED <<store, trips, told, lost, changed, bounds>>

-----------------------------------------------------------------------------
(* The run's thread: _record_breaker_event for each step that ends.        *)

HasStep(r) == Place(r) = "running" /\ run[r].pos <= Len(run[r].plan)
NextStep(r) == run' = [run EXCEPT ![r].at = "running", ![r].pos = @ + 1]

\* A skipped step records nothing.
StepSkipped(r) ==
  /\ HasStep(r)
  /\ NextStep(r)
  /\ UNCHANGED <<store, history, bounds>>

\* record_module_success: "AND tripped = 0".
\* Seeded fault: a success clears the row whatever it says.
ClearAlways(m) ==
  /\ failures' = [failures EXCEPT ![m] = 0]
  /\ tripped' = [tripped EXCEPT ![m] = FALSE]
ClearStreak(m) ==
  /\ failures' = IF tripped[m] THEN failures ELSE [failures EXCEPT ![m] = 0]
  /\ UNCHANGED tripped

StepSucceeds(r) ==
  /\ HasStep(r)
  /\ ClearStreak(ModuleOf(r))
  /\ NextStep(r)
  /\ UNCHANGED <<threshold, enabled, trips, told, lost, changed, bounds>>
  /\ Reopened

\* The step failed and its threshold is read.
StepFails(r) ==
  /\ HasStep(r) /\ recorded < MaxFailures
  /\ recorded' = recorded + 1
  /\ run' = [run EXCEPT ![r].at = "measured", ![r].limit = Threshold(ModuleOf(r))]
  /\ UNCHANGED <<store, history, restarts>>

\* Does this failure trip the breaker?
\* Seeded fault: > for >=.
TripsPast(count, limit) == count > limit
TripsAt(count, limit) == count >= limit

\* record_module_failure, and the row it returns.
RecordFailure(r) ==
  LET m == ModuleOf(r)
      count == failures[m] + 1
      trip == TripsAt(count, run[r].limit)
      number == IF trip /\ ~tripped[m] THEN trips[m] + 1 ELSE trips[m]
  IN /\ Place(r) = "measured"
     /\ failures' = [failures EXCEPT ![m] = count]
     /\ tripped' = [tripped EXCEPT ![m] = @ \/ trip]
     /\ trips' = [trips EXCEPT ![m] = number]
     /\ run' = [run EXCEPT ![r].at = "recorded",
                           ![r].health = [count |-> count, tripped |-> tripped[m] \/ trip, trip |-> number]]
     /\ UNCHANGED <<threshold, enabled, told, lost, changed, shut, bounds>>

\* Has this failure just tripped the breaker?
\* Seeded fault: every failure of an open breaker is announced.
IsOpen(health, limit) == health.tripped
JustTripped(health, limit) == health.tripped /\ health.count = limit

Announces(r) == JustTripped(run[r].health, Threshold(ModuleOf(r)))

\* The threshold is read again; breaker_tripped is sent if the count matches.
Announce(r) ==
  /\ Place(r) = "recorded"
  /\ told' = IF Announces(r) THEN Append(told, <<ModuleOf(r), run[r].health.trip>>) ELSE told
  /\ NextStep(r)
  /\ UNCHANGED <<store, trips, lost, changed, shut, bounds>>

RunEnds(r) ==
  /\ Place(r) = "running" /\ run[r].pos > Len(run[r].plan)
  /\ run' = [run EXCEPT ![r] = Idle]
  /\ UNCHANGED <<store, history, bounds>>

-----------------------------------------------------------------------------
(* The user, and the process.                                              *)

\* reset_breaker.
Reset(m) ==
  /\ failures' = [failures EXCEPT ![m] = 0]
  /\ tripped' = [tripped EXCEPT ![m] = FALSE]
  /\ UNCHANGED <<threshold, enabled, run, trips, told, lost, changed, bounds>>
  /\ Reopened

SetThreshold(m) ==
  /\ \E t \in Thresholds \cup {NoOverride} : threshold' = [threshold EXCEPT ![m] = t]
  /\ changed' = changed \cup {m}
  /\ UNCHANGED <<failures, tripped, enabled, run, trips, told, lost, shut, bounds>>

SetEnabled(m) ==
  /\ \E e \in BOOLEAN \cup {NoOverride} : enabled' = [enabled EXCEPT ![m] = e]
  /\ UNCHANGED <<failures, tripped, threshold, run, trips, told, lost, changed, bounds>>
  /\ Reopened

\* The process is killed: the tables stay, the threads are gone.
Restart ==
  /\ restarts < MaxRestarts
  /\ restarts' = restarts + 1
  /\ run' = [r \in Runs |-> Idle]
  /\ lost' = lost \cup {<<ModuleOf(r), run[r].health.trip>> : r \in {q \in Runs : Place(q) = "recorded"}}
  /\ shut' = [r \in Runs |-> {}]
  /\ UNCHANGED <<store, trips, told, changed, recorded>>

Next ==
  \/ \E r \in Runs : Request(r)
  \/ \E r \in Runs : CheckHealth(r)
  \/ \E r \in Runs : CheckEnabled(r)
  \/ \E r \in Runs : Refuse(r)
  \/ \E r \in Runs : Launch(r)
  \/ \E r \in Runs : StepSkipped(r)
  \/ \E r \in Runs : StepSucceeds(r)
  \/ \E r \in Runs : StepFails(r)
  \/ \E r \in Runs : RecordFailure(r)
  \/ \E r \in Runs : Announce(r)
  \/ \E r \in Runs : RunEnds(r)
  \/ \E m \in Modules : Reset(m)
  \/ \E m \in Modules : SetThreshold(m)
  \/ \E m \in Modules : SetEnabled(m)
  \/ Restart

Spec == Init /\ [][Next]_vars

-----------------------------------------------------------------------------
(* Properties.                                                             *)

TypeOK ==
  /\ failures \in [Modules -> Nat]
  /\ tripped \in [Modules -> BOOLEAN]
  /\ threshold \in [Modules -> Nat \cup {NoOverride}]
  /\ enabled \in [Modules -> BOOLEAN \cup {NoOverride}]
  /\ trips \in [Modules -> Nat]
  /\ told \in Seq(Modules \X Nat)
  /\ changed \subseteq Modules
  /\ \A r \in Runs :
       /\ Place(r) \in {"idle", "health", "enabled", "running", "measured", "recorded"}
       /\ run[r].plan \in Seq(Modules)
       /\ run[r].pos \in 1..(Len(run[r].plan) + 1)
       /\ Place(r) \in {"enabled", "measured", "recorded"} => run[r].pos \in DOMAIN run[r].plan

\* "Once tripped, the breaker stays open until reset_breaker is called": no
\* success, no failure and no change of a setting closes it or lowers the count.
OpenUntilReset ==
  [][\A m \in Modules : tripped[m] => (tripped'[m] /\ failures'[m] >= failures[m]) \/ Reset(m)]_vars

\* A breaker is open exactly when the streak has reached the threshold, however
\* the runs' reads and writes interleave, as long as nobody changes it.
OpenAtTheThreshold ==
  \A m \in Modules : m \notin changed => (tripped[m] <=> failures[m] >= ManifestThreshold[m])

\* Every trip is announced once: it is in the feed, or its run is about to put
\* it there, or the process died in between; and it is in the feed only once.
Pending(m, t) ==
  \E r \in Runs : Place(r) = "recorded" /\ ModuleOf(r) = m /\ run[r].health.trip = t /\ Announces(r)
Announced(m) ==
  /\ \A t \in 1..trips[m] :
       (\E i \in 1..Len(told) : told[i] = <<m, t>>) \/ Pending(m, t) \/ <<m, t>> \in lost
  /\ \A i, j \in 1..Len(told) : told[i] = told[j] /\ told[i][1] = m => i = j

\* Not so for a module whose threshold was changed: it is read twice, before
\* and after the failure is counted, and a breaker that opens on a count the
\* second reading does not equal opens without a word.
TripsAreAnnounced == \A m \in Modules : m \notin changed => Announced(m)

\* A run is never launched with a module whose breaker was open, or which was
\* disabled, all the time from the request to the launch.  (A module that is
\* barred all the time, but first for one reason and then for the other, can
\* get through: the gate asks for each once.)
GateIsTight ==
  \A r \in Runs : AllChecked(r) /\ ~run[r].blocked =>
    \A i \in 1..Len(run[r].plan), why \in Reasons : <<run[r].plan[i], why>> \notin shut[r]
=============================================================================
