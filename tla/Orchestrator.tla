---------------------------- MODULE Orchestrator ----------------------------
(***************************************************************************)
(* engine/orchestrator.py: one call of Orchestrator.run().                 *)
(*                                                                         *)
(* The run's own thread walks the pipeline slot by slot.  A slot is one    *)
(* step, or a parallel group of branches; a single step is kept here as a  *)
(* slot with one branch.  module.run() is a call: it goes to the shared    *)
(* thread pool (a step without a timeout runs in the run's thread), reads  *)
(* the shared context when it starts, and returns or raises when it likes. *)
(* A call whose timeout passes is abandoned, not stopped: it keeps its     *)
(* place in the pool, and the run goes on without it.  Every call holds the *)
(* live context and may set a name in it itself while it runs, abandoned or *)
(* not.                                                                    *)
(*                                                                         *)
(* Values are abstracted to where they come from: what a slot's branch was *)
(* seeded with, what an attempt of it returned, or what an attempt of it   *)
(* set in the context by itself.                                           *)
(***************************************************************************)
EXTENDS Naturals, Sequences, FiniteSets

CONSTANTS
  Keys,       \* names in the shared context
  NoKey,      \* "no condition"
  Pipelines,  \* the pipelines a run may be given
  PoolSize,   \* _EXECUTOR's max_workers
  Faults,     \* what may raise outside run()'s try blocks
  Secrets,    \* names whose value redact_secrets replaces, whole or in part
  Settable,   \* names modules set in the context themselves
  MaxSets     \* how often they do so in one run

ASSUME OrchestratorAssumption ==
  /\ NoKey \notin Keys
  /\ PoolSize \in Nat \ {0}
  /\ Faults \subseteq {"seed", "output", "store"}
  /\ Secrets \subseteq Keys
  /\ Settable \subseteq Keys
  /\ MaxSets \in Nat

\* A step: the key its condition tests, the fields with a value of their own,
\* the fields mapped from another key, the key of its output, max_retries, and
\* whether it has a timeout.  A slot: its branches and whether it is a group.
StepSpec == [cond : Keys \cup {NoKey}, static : SUBSET Keys, mapped : SUBSET (Keys \X Keys),
             output : Keys, retries : Nat, timed : BOOLEAN]
Slot == [par : BOOLEAN, branches : Seq(StepSpec)]

ASSUME PipelinesAssumption ==
  \A p \in Pipelines :
    /\ p \in Seq(Slot)
    /\ \A s \in 1..Len(p) : ~p[s].par => Len(p[s].branches) = 1

VARIABLES
  pipe,   \* self.pipeline
  stop,   \* self.stop_on_error
  ctx,    \* context.variables
  row,    \* status of this run's row in the runs table
  steps,  \* this run's rows in the steps table, with the attempt they are about
  events, \* what emit() was called with
  at,     \* where the run's thread is
  pos,    \* index: the current slot
  cur,    \* the loops of _run_parallel_group before the collection: their index
  todo,   \* the branches of the current slot still to be collected
  try,    \* the attempt being awaited
  snap,   \* resolved_inputs of each branch of the current slot
  had,    \* had_failure
  bad,    \* any_failed of the current group
  calls,  \* every submitted call of module.run()
  sets    \* how often a module has set a name itself

vars == <<pipe, stop, ctx, row, steps, events, at, pos, cur, todo, try, snap, had, bad, calls, sets>>

Places == {"start", "slot", "seeded", "asking", "seeding", "noting", "next", "await",
           "stopping", "over", "dead"}

\* A value: where it comes from, and of which attempt of which branch.
Val(by, s, b, n) == [by |-> by, slot |-> s, branch |-> b, attempt |-> n]
Unset == Val("none", 0, 0, 0)
Masked == Val("masked", 0, 0, 0)

Branches(s) == 1..Len(pipe[s].branches)
StepOf(s, b) == pipe[s].branches[b]
HeadBranch == Head(todo)

Init ==
  /\ pipe \in Pipelines
  /\ stop \in BOOLEAN
  /\ ctx = [k \in Keys |-> Unset]
  /\ row = "none"
  /\ steps = << >>
  /\ events = << >>
  /\ at = "start"
  /\ pos = 1
  /\ cur = 1
  /\ todo = << >>
  /\ try = 1
  /\ snap = << >>
  /\ had = FALSE
  /\ bad = FALSE
  /\ calls = {}
  /\ sets = 0

-----------------------------------------------------------------------------
(* Helpers of the run's thread.                                            *)

Event(kind, s, b) == [kind |-> kind, slot |-> s, branch |-> b]
Emit(e) == events' = Append(events, e)

\* _condition_allows, with a condition that holds when its key has a value.
Allows(step, c) == IF step.cond = NoKey THEN TRUE ELSE c[step.cond] # Unset

\* context.update(step.seed(context)) for branch b of slot s.
Seeded(s, b, c) ==
  LET step == StepOf(s, b)
  IN [k \in Keys |-> CASE \E m \in step.mapped : m[1] = k ->
                            c[(CHOOSE m \in step.mapped : m[1] = k)[2]]
                       [] k \in step.static /\ ~\E m \in step.mapped : m[1] = k -> Val("seed", s, b, 0)
                       [] OTHER -> c[k]]

\* A submitted call; saw is the context it read when it started.
Call(s, b, n, state, saw) == [slot |-> s, branch |-> b, attempt |-> n, state |-> state, saw |-> saw]

Submitted(s, b, n) == Call(s, b, n, "queued", << >>)

\* context.update(output), and context.set() by the module itself.
Merged(c) == [ctx EXCEPT ![StepOf(c.slot, c.branch).output] = Val("output", c.slot, c.branch, c.attempt)]
SetItself(c, k) == [ctx EXCEPT ![k] = Val("set", c.slot, c.branch, c.attempt)]

\* Seeded fault: after a retry the first future is still the one awaited.
FirstFuture(c) == c.slot = pos /\ c.branch = HeadBranch /\ c.attempt = 1

\* The call the thread is waiting for.
Awaited(c) == c.slot = pos /\ c.branch = HeadBranch /\ c.attempt = try

\* Seeded fault: leaves the collection loop after the first branch.
LeaveLoop ==
  IF pipe[pos].par
  THEN at' = "next" /\ todo' = << >> /\ UNCHANGED pos
  ELSE at' = "slot" /\ todo' = << >> /\ pos' = pos + 1

\* The thread goes on after the branch at the head of todo.
GoOn ==
  IF pipe[pos].par
  THEN at' = "next" /\ todo' = Tail(todo) /\ UNCHANGED pos
  ELSE at' = "slot" /\ todo' = << >> /\ pos' = pos + 1

\* redact_secrets: the audit trail shows a placeholder where a secret is.
Redacted(c) == [k \in Keys |-> IF k \in Secrets /\ c[k] # Unset THEN Masked ELSE c[k]]

\* What the row of branch b shows of its inputs: its own copy, made before it ran.
\* Seeded fault: the snapshot is the live dict and not a copy of it.
LiveInputs(b) == Redacted(ctx)
ResolvedInputs(b) == Redacted(snap[b])

\* state_store.log_step.
\* Seeded fault: under stop_on_error a failure is raised before it is logged.
LogUnlessRaised(r) == IF stop /\ ~r.success THEN UNCHANGED steps ELSE steps' = Append(steps, r)
LogStep(r) == steps' = Append(steps, r)

AttemptsLeft == try <= StepOf(pos, HeadBranch).retries

\* A timeout passes whether or not a worker has taken the call.
\* Seeded fault: the clock starts when a worker takes the call.
UnfinishedAtWorker(c) == c.state = "running"
Unfinished(c) == c.state \in {"queued", "running"}

\* Does this failure end the run?
\* Seeded fault: stop_on_error is not looked at after a group.
NeverStops(failed) == FALSE
Stops(failed) == failed /\ stop

\* had_failure after a group.
\* Seeded fault: group_failed is not carried over.
GroupForgotten == had
HadFailure == had \/ bad

\* The status finish_run() is given.
FinalStatus == IF had THEN "failed" ELSE "completed"

-----------------------------------------------------------------------------
(* The run's thread.                                                       *)

Start ==
  /\ at = "start"
  /\ row' = "running"
  /\ at' = "slot"
  /\ UNCHANGED <<pipe, stop, ctx, steps, events, pos, cur, todo, try, snap, had, bad, calls, sets>>

SkipStep ==
  /\ at = "slot" /\ pos <= Len(pipe) /\ ~pipe[pos].par
  /\ ~Allows(StepOf(pos, 1), ctx)
  /\ Emit(Event("step_skipped", pos, 1))
  /\ pos' = pos + 1
  /\ UNCHANGED <<pipe, stop, ctx, row, steps, at, cur, todo, try, snap, had, bad, calls, sets>>

SeedStep ==
  /\ at = "slot" /\ pos <= Len(pipe) /\ ~pipe[pos].par
  /\ Allows(StepOf(pos, 1), ctx)
  /\ ctx' = Seeded(pos, 1, ctx)
  /\ at' = "seeded"
  /\ UNCHANGED <<pipe, stop, row, steps, events, pos, cur, todo, try, snap, had, bad, calls, sets>>

StartStep ==
  /\ at = "seeded"
  /\ snap' = <<ctx>>
  /\ Emit(Event("step_started", pos, 1))
  /\ calls' = calls \cup {Submitted(pos, 1, 1)}
  /\ at' = "await"
  /\ todo' = <<1>>
  /\ try' = 1
  /\ UNCHANGED <<pipe, stop, ctx, row, steps, pos, cur, had, bad, sets>>

\* _run_parallel_group: every condition is asked before any branch is seeded.
StartGroup ==
  /\ at = "slot" /\ pos <= Len(pipe) /\ pipe[pos].par
  /\ Emit(Event("group_started", pos, 0))
  /\ at' = "asking"
  /\ cur' = 1
  /\ todo' = << >>
  /\ bad' = FALSE
  /\ snap' = [b \in Branches(pos) |-> ctx]
  /\ UNCHANGED <<pipe, stop, ctx, row, steps, pos, try, had, calls, sets>>

AskBranch ==
  /\ at = "asking" /\ cur \in Branches(pos)
  /\ IF Allows(StepOf(pos, cur), ctx)
     THEN todo' = Append(todo, cur) /\ UNCHANGED events
     ELSE Emit(Event("step_skipped", pos, cur)) /\ UNCHANGED todo
  /\ cur' = cur + 1
  /\ UNCHANGED <<pipe, stop, ctx, row, steps, at, pos, try, snap, had, bad, calls, sets>>

AllAsked ==
  /\ at = "asking" /\ cur \notin Branches(pos)
  /\ at' = "seeding"
  /\ cur' = 1
  /\ UNCHANGED <<pipe, stop, ctx, row, steps, events, pos, todo, try, snap, had, bad, calls, sets>>

\* The branches are seeded in turn, all into the one shared context.
SeedBranch ==
  /\ at = "seeding" /\ cur \in 1..Len(todo)
  /\ ctx' = Seeded(pos, todo[cur], ctx)
  /\ at' = "noting"
  /\ UNCHANGED <<pipe, stop, row, steps, events, pos, cur, todo, try, snap, had, bad, calls, sets>>

NoteBranch ==
  /\ at = "noting"
  /\ snap' = [snap EXCEPT ![todo[cur]] = ctx]
  /\ cur' = cur + 1
  /\ at' = "seeding"
  /\ UNCHANGED <<pipe, stop, ctx, row, steps, events, pos, todo, try, had, bad, calls, sets>>

SubmitBranches ==
  /\ at = "seeding" /\ cur > Len(todo)
  /\ calls' = calls \cup {Submitted(pos, todo[i], 1) : i \in 1..Len(todo)}
  /\ at' = "next"
  /\ UNCHANGED <<pipe, stop, ctx, row, steps, events, pos, cur, todo, try, snap, had, bad, sets>>

\* The collection loop turns to the next branch in listed order.
StartBranch ==
  /\ at = "next" /\ todo # << >>
  /\ Emit(Event("step_started", pos, HeadBranch))
  /\ try' = 1
  /\ at' = "await"
  /\ UNCHANGED <<pipe, stop, ctx, row, steps, pos, cur, todo, snap, had, bad, calls, sets>>

\* The awaited call returned: merge, record, log, report.
StepCompletes ==
  /\ at = "await"
  /\ \E c \in calls :
       /\ Awaited(c) /\ c.state = "returned"
       /\ ctx' = Merged(c)
       /\ LogStep([slot |-> pos, branch |-> HeadBranch, success |-> TRUE,
                   attempt |-> try, inputs |-> ResolvedInputs(HeadBranch), saw |-> c.saw])
  /\ Emit(Event("step_completed", pos, HeadBranch))
  /\ GoOn
  /\ UNCHANGED <<pipe, stop, row, cur, try, snap, had, bad, calls, sets>>

\* An attempt fails: the call raised, or its timeout passed first.
AttemptFails ==
  \E c \in calls :
    /\ Awaited(c)
    /\ \/ c.state = "raised"
       \/ Unfinished(c) /\ StepOf(pos, HeadBranch).timed

\* _run_with_retries, _await_branch_with_retries: report, back off, submit again.
Retry ==
  /\ at = "await" /\ AttemptFails
  /\ AttemptsLeft
  /\ Emit(Event("step_retrying", pos, HeadBranch))
  /\ try' = try + 1
  /\ calls' = calls \cup {Submitted(pos, HeadBranch, try + 1)}
  /\ UNCHANGED <<pipe, stop, ctx, row, steps, at, pos, cur, todo, snap, had, bad, sets>>

FailedRow == [slot |-> pos, branch |-> HeadBranch, success |-> FALSE, attempt |-> try,
              inputs |-> ResolvedInputs(HeadBranch), saw |-> << >>]

\* The last attempt failed: record, log, report; under stop_on_error a single
\* step's failure ends the run, a branch's only after its siblings.
StepFails ==
  /\ at = "await" /\ AttemptFails
  /\ ~AttemptsLeft
  /\ LogStep(FailedRow)
  /\ Emit(Event("step_failed", pos, HeadBranch))
  /\ IF Stops(~pipe[pos].par)
     THEN at' = "stopping" /\ UNCHANGED <<pos, todo>>
     ELSE GoOn
  /\ IF pipe[pos].par THEN bad' = TRUE /\ UNCHANGED had ELSE had' = TRUE /\ UNCHANGED bad
  /\ UNCHANGED <<pipe, stop, ctx, row, cur, try, snap, calls, sets>>

\* group_completed, and run()'s handling of group_failed.
FinishGroup ==
  /\ at = "next" /\ todo = << >>
  /\ Emit(Event("group_completed", pos, 0))
  /\ had' = HadFailure
  /\ IF Stops(bad)
     THEN at' = "stopping" /\ UNCHANGED pos
     ELSE at' = "slot" /\ pos' = pos + 1
  /\ UNCHANGED <<pipe, stop, ctx, row, steps, cur, todo, try, snap, bad, calls, sets>>

\* stop_on_error: finish_run and run_failed, then the error is raised again.
StopRun ==
  /\ at = "stopping"
  /\ row' = "failed"
  /\ Emit(Event("run_failed", 0, 0))
  /\ at' = "over"
  /\ UNCHANGED <<pipe, stop, ctx, steps, pos, cur, todo, try, snap, had, bad, calls, sets>>

Finish ==
  /\ at = "slot" /\ pos > Len(pipe)
  /\ row' = FinalStatus
  /\ Emit(Event(IF had THEN "run_failed" ELSE "run_completed", 0, 0))
  /\ at' = "over"
  /\ UNCHANGED <<pipe, stop, ctx, steps, pos, cur, todo, try, snap, had, bad, calls, sets>>

\* The exceptions no try block of run() covers.  The thread is gone with them.
Dies ==
  /\ at' = "dead"
  /\ UNCHANGED <<pipe, stop, ctx, row, steps, events, pos, cur, todo, try, snap, had, bad, calls, sets>>

\* step.seed(context) raises.
SeedRaises ==
  /\ "seed" \in Faults
  /\ \/ at = "slot" /\ pos <= Len(pipe) /\ ~pipe[pos].par /\ Allows(StepOf(pos, 1), ctx)
     \/ at = "seeding" /\ cur \in 1..Len(todo)
  /\ Dies

\* The module returned what cannot be merged (no dict).
OutputRaises ==
  /\ "output" \in Faults
  /\ at = "await"
  /\ \E c \in calls : Awaited(c) /\ c.state = "returned"
  /\ Dies

\* It was merged and then log_step raises: no JSON, or the store does not take it.
LogRaises ==
  /\ Faults \cap {"output", "store"} # {}
  /\ at = "await"
  /\ \E c \in calls : Awaited(c) /\ c.state = "returned" /\ ctx' = Merged(c)
  /\ at' = "dead"
  /\ UNCHANGED <<pipe, stop, row, steps, events, pos, cur, todo, try, snap, had, bad, calls, sets>>

\* start_run, log_step or finish_run raises (a closed store, a full disk), or
\* the on_event callback does after a step's end (it records module health).
StoreRaises ==
  /\ "store" \in Faults
  /\ \/ at \in {"start", "stopping"}
     \/ at = "slot" /\ pos > Len(pipe)
     \/ at = "await" /\ AttemptFails /\ ~AttemptsLeft
     \/ /\ at \in {"slot", "next"} /\ events # << >>
        /\ events[Len(events)].kind \in {"step_completed", "step_failed"}
  /\ Dies

\* finish_run has set the row; redact_secrets(context.variables) then walks the
\* live dict for the closing event and raises when a module that still runs
\* sets a name that was not there: the dictionary changed size.
ClosingRaises ==
  /\ \/ at = "stopping"
     \/ at = "slot" /\ pos > Len(pipe)
  /\ sets < MaxSets
  /\ \E c \in calls, k \in Settable :
       c.state = "running" /\ ctx[k] = Unset /\ ctx' = SetItself(c, k)
  /\ sets' = sets + 1
  /\ row' = FinalStatus
  /\ at' = "dead"
  /\ UNCHANGED <<pipe, stop, steps, events, pos, cur, todo, try, snap, had, bad, calls>>

ThreadStep ==
  \/ Start \/ SkipStep \/ SeedStep \/ StartStep
  \/ StartGroup \/ AskBranch \/ AllAsked \/ SeedBranch \/ NoteBranch \/ SubmitBranches
  \/ StartBranch \/ StepCompletes \/ Retry \/ StepFails
  \/ FinishGroup \/ StopRun \/ Finish

-----------------------------------------------------------------------------
(* The pool and the modules.                                               *)

Pooled(c) == pipe[c.slot].par \/ StepOf(c.slot, c.branch).timed
Busy == Cardinality({c \in calls : c.state = "running" /\ Pooled(c)})

\* A worker takes a queued call, also one nobody waits for any more; a call
\* without a timeout needs no worker.
CallStarts(c) ==
  /\ c.state = "queued"
  /\ Pooled(c) => Busy < PoolSize
  /\ calls' = (calls \ {c}) \cup {[c EXCEPT !.state = "running", !.saw = ctx]}
  /\ UNCHANGED <<pipe, stop, ctx, row, steps, events, at, pos, cur, todo, try, snap, had, bad, sets>>

CallEnds(c) ==
  /\ c.state = "running"
  /\ \E s \in {"returned", "raised"} : calls' = (calls \ {c}) \cup {[c EXCEPT !.state = s]}
  /\ UNCHANGED <<pipe, stop, ctx, row, steps, events, at, pos, cur, todo, try, snap, had, bad, sets>>

\* context.set() or update() by the module itself, also by one whose timeout has
\* passed and whose run is over.
CallSets(c) ==
  /\ c.state = "running"
  /\ sets < MaxSets
  /\ \E k \in Settable : ctx' = SetItself(c, k)
  /\ sets' = sets + 1
  /\ UNCHANGED <<pipe, stop, row, steps, events, at, pos, cur, todo, try, snap, had, bad, calls>>

Next ==
  \/ Start
  \/ SkipStep
  \/ SeedStep
  \/ StartStep
  \/ StartGroup
  \/ AskBranch
  \/ AllAsked
  \/ SeedBranch
  \/ NoteBranch
  \/ SubmitBranches
  \/ StartBranch
  \/ StepCompletes
  \/ Retry
  \/ StepFails
  \/ FinishGroup
  \/ StopRun
  \/ Finish
  \/ SeedRaises
  \/ OutputRaises
  \/ LogRaises
  \/ StoreRaises
  \/ ClosingRaises
  \/ \E c \in calls : CallStarts(c)
  \/ \E c \in calls : CallEnds(c)
  \/ \E c \in calls : CallSets(c)

Spec == Init /\ [][Next]_vars

\* The run's thread keeps going; the modules are free never to return.
FairSpec == Spec /\ WF_vars(ThreadStep)

-----------------------------------------------------------------------------
(* Properties.                                                             *)

Value == [by : {"none", "seed", "output", "set", "masked"}, slot : Nat, branch : Nat, attempt : Nat]
Context == [Keys -> Value]

TypeOK ==
  /\ pipe \in Pipelines
  /\ stop \in BOOLEAN /\ had \in BOOLEAN /\ bad \in BOOLEAN
  /\ ctx \in Context
  /\ row \in {"none", "running", "completed", "failed"}
  /\ at \in Places
  /\ pos \in 1..(Len(pipe) + 1)
  /\ cur \in Nat \ {0}
  /\ todo \in Seq(Nat)
  /\ try \in Nat \ {0}
  /\ sets \in 0..MaxSets
  /\ \A c \in calls :
       /\ c.slot \in 1..Len(pipe)
       /\ c.branch \in Branches(c.slot)
       /\ c.attempt \in 1..(StepOf(c.slot, c.branch).retries + 1)
       /\ c.state \in {"queued", "running", "returned", "raised"}
       /\ c.state # "queued" => c.saw \in Context

StepEnd == {"step_completed", "step_failed"}
RunEnd == {"run_completed", "run_failed"}

\* The events that report the end of a step.  The n-th of them, counted from the
\* first event, has n of them up to and including itself.
Ends == {i \in 1..Len(events) : events[i].kind \in StepEnd}
Place(i) == Cardinality({j \in Ends : j <= i})

\* The steps a watcher saw end, and the steps the history will show, are the
\* same, in the same order and with the same outcome.
HistoryMatchesEvents ==
  /\ Cardinality(Ends) = Len(steps)
  /\ \A i \in Ends : LET r == steps[Place(i)]
                     IN /\ events[i].slot = r.slot
                        /\ events[i].branch = r.branch
                        /\ (events[i].kind = "step_completed") = r.success

\* The verdict in the runs table, the closing event and the step rows agree;
\* the closing event is the last one and there is only one.  A thread that died
\* has sent none, and if the row has a verdict already it is the right one.
VerdictMatches ==
  LET failed == \E i \in 1..Len(steps) : ~steps[i].success
      closing == {i \in 1..Len(events) : events[i].kind \in RunEnd}
  IN /\ at = "over" =>
          /\ closing = {Len(events)}
          /\ row = IF failed THEN "failed" ELSE "completed"
          /\ events[Len(events)].kind = IF failed THEN "run_failed" ELSE "run_completed"
     /\ at # "over" => /\ closing = {}
                       /\ \/ row \in {"none", "running"}
                          \/ at = "dead" /\ row = IF failed THEN "failed" ELSE "completed"

Ended(s, b, kinds) == {i \in 1..Len(events) : events[i].kind \in kinds
                                              /\ events[i].slot = s /\ events[i].branch = b}

\* Every step of every slot the run got past is accounted for exactly once:
\* skipped, completed or failed, and in the last two cases it was started.
EveryStepAccountedFor ==
  \A s \in 1..(pos - 1) : \A b \in Branches(s) :
    /\ Cardinality(Ended(s, b, StepEnd \cup {"step_skipped"})) = 1
    /\ Cardinality(Ended(s, b, StepEnd)) = Cardinality(Ended(s, b, {"step_started"}))

\* Under stop_on_error nothing starts after the slot of the first failure.
StopMeansStop ==
  stop => \A i \in 1..Len(events) : events[i].kind = "step_failed" =>
            \A j \in i..Len(events) : events[j].kind = "step_started" =>
              events[j].slot = events[i].slot /\ pipe[events[i].slot].par

\* The run never merges what an abandoned or a failed attempt returned: an
\* output in the context comes from the attempt whose completion is on record.
\* (What a module sets in the context itself is told apart: an abandoned one
\* goes on setting names, and nothing in the engine keeps it from that.)
OutputsAreOnRecord ==
  at # "dead" =>
    \A k \in Keys : ctx[k].by = "output" =>
      \E i \in 1..Len(steps) : /\ steps[i].success
                               /\ steps[i].slot = ctx[k].slot
                               /\ steps[i].branch = ctx[k].branch
                               /\ steps[i].attempt = ctx[k].attempt

\* The row of a single step that completed shows what the attempt on record ran
\* on, name by name: a secret as the placeholder, every other name with the
\* value the module found, unless that value is one a module set itself after
\* the snapshot (an abandoned call, or an earlier attempt of this step).  (A
\* branch of a group need not have run on its row: the branches are seeded
\* into one context, one after the other, and all run on what is left there.)
StepRanOnItsInputs ==
  \A i \in 1..Len(steps) :
    /\ \A k \in Secrets : steps[i].inputs[k] \in {Masked, Unset}
    /\ steps[i].success /\ ~pipe[steps[i].slot].par =>
         \A k \in Keys : \/ steps[i].inputs[k] = Redacted(steps[i].saw)[k]
                         \/ steps[i].saw[k].by = "set"

\* With a timeout on every step a run ends even if no module ever returns and
\* the pool is full of abandoned calls.
AllTimed == \A i \in 1..Len(pipe) : \A b \in 1..Len(pipe[i].branches) : pipe[i].branches[b].timed
RunEnds == AllTimed ~> at \in {"over", "dead"}
=============================================================================
