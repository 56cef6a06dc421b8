----------------------------- MODULE RunHistory -----------------------------
(***************************************************************************)
(* The run history of engine/state_store.py: the tables runs, steps and    *)
(* protected_runs, written by the threads that carry out runs, thinned out *)
(* by purges and deletions, and exported to and merged from snapshots      *)
(* (webapp/main.py, /api/runs/... and /api/backup/...).                    *)
(*                                                                         *)
(* A store method holds the store's lock and is one step, but a purge      *)
(* reads the protected ids under the lock before it takes it again, and    *)
(* the routes look whether a run exists before they pin it.                *)
(* Rows of different tables are tied by the run's id alone.                *)
(***************************************************************************)
EXTENDS Naturals, FiniteSets

CONSTANTS
  Workers,       \* threads that carry out runs
  Clients,       \* requests that may be in flight at once
  MaxRuns,       \* bound: runs
  MaxSteps,      \* bound: steps logged
  MaxSnapshots,  \* bound: snapshots exported
  MaxDeaths      \* bound: deaths of the process

ASSUME HistoryAssumption ==
  MaxRuns \in Nat /\ MaxSteps \in Nat /\ MaxSnapshots \in Nat /\ MaxDeaths \in Nat

RunIds == 1..MaxRuns
StepIds == 1..MaxSteps

VARIABLES
  runs,     \* the runs table
  steps,    \* the steps table
  pinned,   \* protected_runs
  lastRun,  \* sqlite_sequence: the highest id each table ever had
  lastStep,
  work,     \* what each worker thread is doing
  req,      \* the request each client has in flight
  taken,    \* the snapshots that were exported
  begun,    \* runs begun so far, each with its number (history)
  logged,   \* the ids of the steps each of them has logged (history)
  cut,      \* ids of runs deleted while running (history)
  raced,    \* ids of runs removed while a request was pinning them (history)
  deaths

tables == <<runs, steps, lastRun, lastStep>>
history == <<begun, logged, cut>>
vars == <<tables, pinned, work, req, taken, history, raced, deaths>>

\* A row of runs: its status, and by, the number of the run it is about.  A row of steps:
\* its run_id, and the number of the run whose worker logged it.
NoRow == [status |-> "none"]
RunRow(status, n) == [status |-> status, by |-> n]
StepRow(id, n) == [status |-> "row", run |-> id, by |-> n]
RunRows == [status : {"running", "finished"}, by : RunIds]
StepRows == [status : {"row"}, run : RunIds, by : RunIds]

Present(table) == {i \in DOMAIN table : table[i] # NoRow}

Idle == [at |-> "idle"]
Working == [at : {"running"}, id : RunIds, by : RunIds]
\* late is history: what was pinned since the purge read the pins.
Purging == [at : {"purge"}, spared : SUBSET RunIds, late : SUBSET RunIds]
Pinning == [at : {"pin"}, id : RunIds, on : BOOLEAN]

Init ==
  /\ runs = [i \in RunIds |-> NoRow]
  /\ steps = [i \in StepIds |-> NoRow]
  /\ pinned = {}
  /\ lastRun = 0 /\ lastStep = 0
  /\ work = [w \in Workers |-> Idle]
  /\ req = [c \in Clients |-> Idle]
  /\ taken = {}
  /\ begun = 0 /\ logged = [n \in RunIds |-> {}] /\ cut = {} /\ raced = {}
  /\ deaths = 0

\* Seeded fault: without AUTOINCREMENT the id is one more than the highest present.
HighestPresent == CHOOSE i \in 0..MaxRuns : /\ i = 0 \/ i \in Present(runs)
                                            /\ \A j \in Present(runs) : j <= i
ReusedId == HighestPresent + 1
FreshId == lastRun + 1

-----------------------------------------------------------------------------
(* The threads that carry out runs.                                        *)

StartRun(w) ==
  /\ work[w] = Idle /\ begun < MaxRuns /\ FreshId \in RunIds
  /\ begun' = begun + 1
  /\ runs' = [runs EXCEPT ![FreshId] = RunRow("running", begun')]
  /\ lastRun' = FreshId
  /\ work' = [work EXCEPT ![w] = [at |-> "running", id |-> FreshId, by |-> begun']]
  /\ UNCHANGED <<steps, lastStep, pinned, req, taken, logged, cut, raced, deaths>>

\* The foreign key of steps is declared and not enforced: the row is inserted
\* whether the run is still there or not.
LogStep(w) ==
  /\ work[w] # Idle /\ lastStep < MaxSteps
  /\ lastStep' = lastStep + 1
  /\ steps' = [steps EXCEPT ![lastStep'] = StepRow(work[w].id, work[w].by)]
  /\ logged' = [logged EXCEPT ![work[w].by] = @ \cup {lastStep'}]
  /\ UNCHANGED <<runs, lastRun, pinned, work, req, taken, begun, cut, raced, deaths>>

\* An UPDATE, of no row if the run has been deleted.
FinishRun(w) ==
  /\ work[w] # Idle
  /\ LET id == work[w].id
     IN runs' = IF runs[id] = NoRow THEN runs ELSE [runs EXCEPT ![id].status = "finished"]
  /\ work' = [work EXCEPT ![w] = Idle]
  /\ UNCHANGED <<steps, lastRun, lastStep, pinned, req, taken, history, raced, deaths>>

\* orchestrator.run raises outside its own handlers: nobody writes the row's end.
RunRaises(w) ==
  /\ work[w] # Idle
  /\ work' = [work EXCEPT ![w] = Idle]
  /\ UNCHANGED <<tables, pinned, req, taken, history, raced, deaths>>

-----------------------------------------------------------------------------
(* Purges, deletions and pins.                                             *)

Without(ids) == [i \in RunIds |-> IF i \in ids THEN NoRow ELSE runs[i]]

\* Seeded fault: a run goes and its steps stay.
StepsRemain(ids) == steps
StepsWithout(ids) == [i \in StepIds |-> IF steps[i] # NoRow /\ steps[i].run \in ids THEN NoRow ELSE steps[i]]

\* Runs that a request is about to pin, having seen that they exist.
AboutToPin(id) == \E c \in Clients : req[c].at = "pin" /\ req[c].id = id

\* all_protected_run_ids.
\* Seeded fault: a purge knows of no pins.
NoneProtected == {}
ProtectedIds == pinned

\* prune_runs: the protected ids, ...
ReadPins(c) ==
  /\ req[c] = Idle
  /\ req' = [req EXCEPT ![c] = [at |-> "purge", spared |-> ProtectedIds, late |-> {}]]
  /\ UNCHANGED <<tables, pinned, work, taken, history, raced, deaths>>

\* Seeded fault: a run still in progress is a candidate.
AnyRun(id) == TRUE
Prunable(id) == runs[id].status = "finished"

\* ... and then the deletion, of the finished runs a cutoff takes, which leaves
\* the rows of pins alone.
PurgeRuns(c) ==
  /\ req[c].at = "purge"
  /\ \E ids \in SUBSET ({i \in Present(runs) : Prunable(i)} \ req[c].spared) :
       /\ runs' = Without(ids)
       /\ steps' = StepsWithout(ids)
       /\ raced' = raced \cup {i \in ids : AboutToPin(i) \/ i \in req[c].late}
  /\ req' = [req EXCEPT ![c] = Idle]
  /\ UNCHANGED <<lastRun, lastStep, pinned, work, taken, history, deaths>>

PinsWithout(ids) == pinned \ ids

\* delete_runs, of whatever ids are there, running or pinned.
DeleteRuns(ids) ==
  /\ ids # {} /\ ids \subseteq Present(runs)
  /\ runs' = Without(ids)
  /\ steps' = StepsWithout(ids)
  /\ pinned' = PinsWithout(ids)
  /\ cut' = cut \cup {i \in ids : runs[i].status = "running"}
  /\ raced' = raced \cup {i \in ids : AboutToPin(i)}
  /\ UNCHANGED <<lastRun, lastStep, work, req, taken, begun, logged, deaths>>

\* The routes that pin and unpin: the run exists ...
AskToPin(c) ==
  /\ req[c] = Idle
  /\ \E id \in Present(runs), on \in BOOLEAN :
       req' = [req EXCEPT ![c] = [at |-> "pin", id |-> id, on |-> on]]
  /\ UNCHANGED <<tables, pinned, work, taken, history, raced, deaths>>

\* ... and then the row is written.
SetPin(c) ==
  /\ req[c].at = "pin"
  /\ pinned' = IF req[c].on THEN pinned \cup {req[c].id} ELSE pinned \ {req[c].id}
  /\ req' = [d \in Clients |->
               CASE d = c -> Idle
                 [] d # c /\ req[d].at = "purge" /\ req[c].on -> [req[d] EXCEPT !.late = @ \cup ({req[c].id} \ req[d].spared)]
                 [] OTHER -> req[d]]
  /\ UNCHANGED <<tables, work, taken, history, raced, deaths>>

-----------------------------------------------------------------------------
(* Snapshots.                                                              *)

\* export_snapshot reads both tables under one lock.
Export ==
  /\ Cardinality(taken) < MaxSnapshots
  /\ taken' = taken \cup {[runs |-> runs, steps |-> steps]}
  /\ UNCHANGED <<tables, pinned, work, req, history, raced, deaths>>

\* INSERT OR IGNORE by primary key: what is there stays.
Merged(old, new) == [i \in DOMAIN old |-> IF old[i] # NoRow THEN old[i] ELSE new[i]]

\* The counters keep up with the ids that are inserted.
AtLeast(n, ids) == CHOOSE m \in {n} \cup ids : \A i \in {n} \cup ids : i <= m

Restore ==
  /\ \E snap \in taken :
       /\ runs' = Merged(runs, snap.runs)
       /\ steps' = Merged(steps, snap.steps)
       /\ lastRun' = AtLeast(lastRun, Present(snap.runs))
       /\ lastStep' = AtLeast(lastStep, Present(snap.steps))
  /\ UNCHANGED <<pinned, work, req, taken, history, raced, deaths>>

\* The process dies and comes back to its database.
Death ==
  /\ deaths < MaxDeaths
  /\ deaths' = deaths + 1
  /\ work' = [w \in Workers |-> Idle]
  /\ req' = [c \in Clients |-> Idle]
  /\ UNCHANGED <<tables, pinned, taken, history, raced>>

Next ==
  \/ \E w \in Workers : StartRun(w) \/ LogStep(w) \/ FinishRun(w) \/ RunRaises(w)
  \/ \E c \in Clients : ReadPins(c) \/ PurgeRuns(c) \/ AskToPin(c) \/ SetPin(c)
  \/ \E ids \in SUBSET RunIds : DeleteRuns(ids)
  \/ Export
  \/ Restore
  \/ Death

Spec == Init /\ [][Next]_vars

-----------------------------------------------------------------------------
(* Properties.                                                             *)

Snapshots == [runs : [RunIds -> {NoRow} \cup RunRows], steps : [StepIds -> {NoRow} \cup StepRows]]

TypeOK ==
  /\ runs \in [RunIds -> {NoRow} \cup RunRows]
  /\ steps \in [StepIds -> {NoRow} \cup StepRows]
  /\ pinned \subseteq RunIds
  /\ lastRun \in 0..MaxRuns /\ lastStep \in 0..MaxSteps
  /\ work \in [Workers -> {Idle} \cup Working]
  /\ req \in [Clients -> {Idle} \cup Purging \cup Pinning]
  /\ taken \subseteq Snapshots
  /\ begun \in 0..MaxRuns /\ logged \in [RunIds -> SUBSET StepIds]
  /\ cut \subseteq RunIds /\ raced \subseteq RunIds /\ deaths \in 0..MaxDeaths

\* steps.run_id REFERENCES runs(id): whatever is purged, deleted, exported and
\* merged back, no step is left without its run, unless a user deleted the run
\* while it was going on.
EveryStepHasItsRun ==
  \A i \in Present(steps) : steps[i].run \in Present(runs) \cup cut

\* The steps shown under a run are the steps of that run.
StepsAreTheirRunsOwn ==
  \A i \in Present(steps) :
    steps[i].run \in Present(runs) => steps[i].by = runs[steps[i].run].by

\* A run that is shown as finished is shown with every step it logged.
FinishedRunsAreWhole ==
  \A id \in Present(runs) \ cut :
    runs[id].status # "running" =>
      {i \in Present(steps) : steps[i].run = id} = logged[runs[id].by]

\* Pins are about runs that are there, and a protected run survives every purge:
\* a pin without its run is left only by a request that was setting it when the
\* run was removed, or that set it after the purge had read the pins.
PinsHaveTheirRun == pinned \subseteq Present(runs) \cup raced

\* "A run still in progress is never a candidate, no matter how old" (prune_runs):
\* no purge takes a row that a worker is going to finish.
PurgeSparesTheLive ==
  [][\A c \in Clients : PurgeRuns(c) =>
       \A w \in Workers : work[w] # Idle /\ work[w].id \in Present(runs) =>
         work[w].id \in Present(runs')]_vars
=============================================================================
