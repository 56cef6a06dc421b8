------------------------ MODULE Orchestrator_proofs ------------------------
(***************************************************************************)
(* Proofs about Orchestrator, for every set of pipelines, every pool size  *)
(* and every set of faults.  The inductive invariant has six parts: the    *)
(* shape of the state, what the failure flags say of the step rows, where  *)
(* the thread may be after a failure, which attempt an output comes from,  *)
(* what the calls of a single step have seen but for what modules set      *)
(* themselves, and what the events say of each branch of the slots behind  *)
(* the thread, at it and ahead of it.                                      *)
(***************************************************************************)
EXTENDS Orchestrator, TLAPS, FiniteSetTheorems

States == {"queued", "running", "returned", "raised"}
Kinds == {"group_started", "group_completed", "step_skipped", "step_started", "step_retrying",
          "step_completed", "step_failed", "run_completed", "run_failed"}
EventSet == [kind : Kinds, slot : Nat, branch : Nat]
Saw == Context \cup {<< >>}
RowSet == [slot : Nat, branch : Nat, success : BOOLEAN, attempt : Nat, inputs : Context, saw : Saw]
CallSet == [slot : Nat, branch : Nat, attempt : Nat, state : States, saw : Saw]

CallOK(c) ==
  /\ c.slot \in 1..Len(pipe)
  /\ c.branch \in Branches(c.slot)
  /\ c.attempt \in 1..(StepOf(c.slot, c.branch).retries + 1)
  /\ c.state # "queued" => c.saw \in Context

\* The shape of the state.
Shape ==
  /\ pipe \in Pipelines
  /\ stop \in BOOLEAN /\ had \in BOOLEAN /\ bad \in BOOLEAN
  /\ ctx \in Context
  /\ row \in {"none", "running", "completed", "failed"}
  /\ at \in Places
  /\ pos \in 1..(Len(pipe) + 1)
  /\ cur \in Nat \ {0}
  /\ todo \in Seq(Nat)
  /\ try \in Nat \ {0}
  /\ sets \in 0..MaxSets
  /\ steps \in Seq(RowSet)
  /\ events \in Seq(EventSet)
  /\ calls \subseteq CallSet
  /\ \A c \in calls : CallOK(c)
  /\ at \in {"seeded", "asking", "seeding", "noting", "next", "await", "stopping"} => pos \in 1..Len(pipe)
  /\ at = "seeded" => ~pipe[pos].par
  /\ at \in {"asking", "seeding", "noting", "next"} => pipe[pos].par
  /\ at = "noting" => cur \in 1..Len(todo)
  /\ at \in {"asking", "seeding", "noting", "next", "await"} =>
       /\ \A i \in 1..Len(todo) : todo[i] \in Branches(pos)
       /\ snap \in [Branches(pos) -> Context]
  /\ at = "await" => todo # << >>

-----------------------------------------------------------------------------
(* Lemmas about the operators of the model.                                *)

LEMMA PipeShape ==
  ASSUME pipe \in Pipelines
  PROVE  /\ pipe \in Seq(Slot)
         /\ Len(pipe) \in Nat
         /\ \A s \in 1..Len(pipe) :
              /\ pipe[s] \in Slot
              /\ pipe[s].par \in BOOLEAN
              /\ Len(pipe[s].branches) \in Nat
              /\ Branches(s) \subseteq Nat \ {0}
              /\ ~pipe[s].par => Branches(s) = {1}
              /\ \A b \in Branches(s) : StepOf(s, b) \in StepSpec
<1>1. pipe \in Seq(Slot) /\ Len(pipe) \in Nat
  BY PipelinesAssumption
<1>2. ASSUME NEW s \in 1..Len(pipe)
      PROVE  /\ pipe[s] \in Slot
             /\ pipe[s].par \in BOOLEAN
             /\ Len(pipe[s].branches) \in Nat
             /\ Branches(s) \subseteq Nat \ {0}
             /\ ~pipe[s].par => Branches(s) = {1}
             /\ \A b \in Branches(s) : StepOf(s, b) \in StepSpec
  <2>1. pipe[s] \in Slot
    BY <1>1
  <2>2. pipe[s].par \in BOOLEAN /\ pipe[s].branches \in Seq(StepSpec)
    BY <2>1 DEF Slot
  <2>3. Len(pipe[s].branches) \in Nat
    BY <2>2
  <2>4. Branches(s) \subseteq Nat \ {0}
    BY <2>3 DEF Branches
  <2>5. ~pipe[s].par => Branches(s) = {1}
    <3>1. ~pipe[s].par => Len(pipe[s].branches) = 1
      BY PipelinesAssumption
    <3>2. 1..1 = {1}
      OBVIOUS
    <3> QED BY <3>1, <3>2 DEF Branches
  <2>6. \A b \in Branches(s) : StepOf(s, b) \in StepSpec
    BY <2>2 DEF Branches, StepOf
  <2> QED BY <2>1, <2>2, <2>3, <2>4, <2>5, <2>6
<1> QED BY <1>1, <1>2

\* Seeding maps a context to a context, and it brings no new output into it.
LEMMA SeededContext ==
  ASSUME pipe \in Pipelines, NEW s \in 1..Len(pipe), NEW b \in Branches(s), NEW c \in Context
  PROVE  /\ Seeded(s, b, c) \in Context
         /\ \A k \in Keys : Seeded(s, b, c)[k].by = "output" => \E j \in Keys : Seeded(s, b, c)[k] = c[j]
<1> DEFINE step == StepOf(s, b)
<1>1. step.mapped \subseteq Keys \X Keys /\ s \in Nat /\ b \in Nat
  BY PipeShape DEF StepSpec
<1>2. ASSUME NEW k \in Keys
      PROVE  Seeded(s, b, c)[k] = Val("seed", s, b, 0) \/ \E j \in Keys : Seeded(s, b, c)[k] = c[j]
  <2>1. CASE \E m \in step.mapped : m[1] = k
    <3> DEFINE m == CHOOSE m \in step.mapped : m[1] = k
    <3>1. m \in step.mapped /\ m[2] \in Keys
      BY <2>1, <1>1
    <3>2. Seeded(s, b, c)[k] = c[m[2]]
      BY <2>1 DEF Seeded
    <3> QED BY <3>1, <3>2
  <2>2. CASE ~\E m \in step.mapped : m[1] = k
    <3>1. CASE k \in step.static
      BY <2>2, <3>1 DEF Seeded
    <3>2. CASE k \notin step.static
      BY <2>2, <3>2 DEF Seeded
    <3> QED BY <3>1, <3>2
  <2> QED BY <2>1, <2>2
<1>3. \A k \in Keys : c[k] \in Value
  BY DEF Context
<1>4. Val("seed", s, b, 0) \in Value
  BY <1>1 DEF Val, Value
<1>5. \A k \in Keys : Seeded(s, b, c)[k] \in Value
  BY <1>2, <1>3, <1>4
<1>6. Seeded(s, b, c) = [k \in Keys |-> Seeded(s, b, c)[k]]
  BY DEF Seeded
<1>7. Seeded(s, b, c) \in Context
  BY <1>5, <1>6 DEF Context
<1>8. Val("seed", s, b, 0).by # "output"
  BY DEF Val
<1> QED BY <1>2, <1>7, <1>8

\* What the audit trail shows of a context, and what a call makes of it.
LEMMA RedactedContext ==
  ASSUME NEW c \in Context
  PROVE  /\ Redacted(c) \in Context
         /\ \A k \in Secrets : Redacted(c)[k] \in {Masked, Unset}
         /\ \A d \in Context, k \in Keys : c[k] = d[k] => Redacted(c)[k] = Redacted(d)[k]
<1>1. Masked \in Value
  BY DEF Masked, Val, Value
<1>2. Secrets \subseteq Keys
  BY OrchestratorAssumption
<1> QED BY <1>1, <1>2 DEF Redacted, Context

LEMMA WrittenContext ==
  ASSUME Shape, NEW c \in calls
  PROVE  /\ Merged(c) \in Context
         /\ \A k \in Keys : Merged(c)[k] = ctx[k] \/ Merged(c)[k] = Val("output", c.slot, c.branch, c.attempt)
         /\ \A j \in Settable : /\ SetItself(c, j) \in Context
                                /\ \A k \in Keys : SetItself(c, j)[k] = ctx[k] \/ SetItself(c, j)[k].by = "set"
<1>1. ctx \in Context /\ c.slot \in Nat /\ c.branch \in Nat /\ c.attempt \in Nat /\ Settable \subseteq Keys
  BY OrchestratorAssumption DEF Shape, CallSet
<1>2. PICK v : v = Val("output", c.slot, c.branch, c.attempt)
  OBVIOUS
<1>3. PICK w : w = Val("set", c.slot, c.branch, c.attempt)
  OBVIOUS
<1>4. v \in Value /\ w \in Value /\ w.by = "set"
  BY <1>1, <1>2, <1>3 DEF Val, Value
<1>5. /\ Merged(c) \in Context
      /\ \A k \in Keys : Merged(c)[k] = ctx[k] \/ Merged(c)[k] = v
  <2>1. PICK o : o = StepOf(c.slot, c.branch).output
    OBVIOUS
  <2>2. Merged(c) = [ctx EXCEPT ![o] = v]
    BY <1>2, <2>1 DEF Merged
  <2> QED BY <1>1, <1>4, <2>2 DEF Context
<1>6. ASSUME NEW j \in Settable
      PROVE  /\ SetItself(c, j) \in Context
             /\ \A k \in Keys : SetItself(c, j)[k] = ctx[k] \/ SetItself(c, j)[k].by = "set"
  <2>1. SetItself(c, j) = [ctx EXCEPT ![j] = w]
    BY <1>3 DEF SetItself
  <2> QED BY <1>1, <1>4, <2>1 DEF Context
<1> QED BY <1>2, <1>5, <1>6

-----------------------------------------------------------------------------
(* The shape of the state is kept.                                         *)

LEMMA InitShape == Init => Shape
<1> SUFFICES ASSUME Init PROVE Shape
  OBVIOUS
<1>1. pipe \in Pipelines /\ Len(pipe) \in Nat
  BY PipeShape DEF Init
<1>2. ctx \in Context
  BY DEF Init, Context, Unset, Val, Value
<1>3. steps \in Seq(RowSet) /\ events \in Seq(EventSet) /\ todo \in Seq(Nat)
  BY DEF Init
<1>4. calls \subseteq CallSet /\ \A c \in calls : CallOK(c)
  BY DEF Init
<1>5. at = "start" /\ at \in Places
  BY DEF Init, Places
<1>6. pos \in 1..(Len(pipe) + 1) /\ cur \in Nat \ {0} /\ try \in Nat \ {0} /\ sets \in 0..MaxSets
  BY <1>1, OrchestratorAssumption DEF Init
<1>7. stop \in BOOLEAN /\ had \in BOOLEAN /\ bad \in BOOLEAN /\ row \in {"none", "running", "completed", "failed"}
  BY DEF Init
<1> QED BY <1>1, <1>2, <1>3, <1>4, <1>5, <1>6, <1>7 DEF Shape

\* What the thread's helpers do to the shape.
LEMMA GoOnShape ==
  ASSUME Shape, at = "await", GoOn
  PROVE  /\ at' \in {"next", "slot"}
         /\ pos' \in 1..(Len(pipe) + 1)
         /\ todo' \in Seq(Nat)
         /\ at' = "next" => /\ pipe[pos].par /\ pos' = pos
                            /\ todo' = Tail(todo)
                            /\ \A i \in 1..Len(todo') : todo'[i] \in Branches(pos)
         /\ at' = "slot" => ~pipe[pos].par /\ pos' = pos + 1
<1>1. pos \in 1..Len(pipe) /\ Len(pipe) \in Nat /\ todo \in Seq(Nat) /\ todo # << >>
  BY PipeShape DEF Shape
<1>2. \A i \in 1..Len(todo) : todo[i] \in Branches(pos)
  BY DEF Shape
<1>3. CASE pipe[pos].par
  <2>1. Len(Tail(todo)) = Len(todo) - 1 /\ \A i \in 1..Len(Tail(todo)) : Tail(todo)[i] = todo[i + 1]
    BY <1>1
  <2>2. \A i \in 1..Len(Tail(todo)) : i + 1 \in 1..Len(todo)
    BY <1>1, <2>1
  <2>3. at' = "next" /\ todo' = Tail(todo) /\ pos' = pos
    BY <1>3 DEF GoOn
  <2>4. todo' \in Seq(Nat)
    BY <1>1, <2>3
  <2>5. \A i \in 1..Len(todo') : todo'[i] \in Branches(pos)
    BY <1>2, <2>1, <2>2, <2>3
  <2>6. pos \in 1..(Len(pipe) + 1)
    BY <1>1
  <2> QED BY <1>3, <2>3, <2>4, <2>5, <2>6
<1>4. CASE ~pipe[pos].par
  <2>1. at' = "slot" /\ todo' = << >> /\ pos' = pos + 1
    BY <1>4 DEF GoOn
  <2>2. todo' \in Seq(Nat) /\ pos + 1 \in 1..(Len(pipe) + 1)
    BY <1>1, <2>1
  <2> QED BY <1>4, <2>1, <2>2
<1> QED BY <1>3, <1>4

LEMMA HeadShape ==
  ASSUME Shape, at \in {"next", "await"}, todo # << >>
  PROVE  /\ HeadBranch \in Branches(pos) /\ HeadBranch \in Nat /\ pos \in 1..Len(pipe) /\ pos \in Nat
         /\ StepOf(pos, HeadBranch) \in StepSpec
         /\ snap[HeadBranch] \in Context
<1>1. todo \in Seq(Nat) /\ 1 \in 1..Len(todo) /\ HeadBranch = todo[1]
  BY DEF Shape, HeadBranch
<1>2. HeadBranch \in Branches(pos) /\ pos \in 1..Len(pipe) /\ snap \in [Branches(pos) -> Context]
  BY <1>1 DEF Shape
<1> QED BY <1>1, <1>2, PipeShape DEF Shape

LEMMA SubmittedShape ==
  ASSUME Shape, NEW s \in 1..Len(pipe), NEW b \in Branches(s), NEW n \in 1..(StepOf(s, b).retries + 1)
  PROVE  Submitted(s, b, n) \in CallSet /\ CallOK(Submitted(s, b, n))
<1>0. StepOf(s, b) \in StepSpec /\ s \in Nat /\ b \in Nat
  BY PipeShape DEF Shape
<1>1. n \in Nat
  BY <1>0 DEF StepSpec
<1> QED BY <1>0, <1>1 DEF Submitted, Call, CallSet, CallOK, States, Saw

LEMMA ShapeStep == Shape /\ [Next]_vars => Shape'
<1> SUFFICES ASSUME Shape, [Next]_vars PROVE Shape'
  OBVIOUS
<1> USE DEF Places
<1>0. /\ pipe \in Seq(Slot) /\ Len(pipe) \in Nat /\ pos \in Nat
      /\ \A s \in 1..Len(pipe) : Branches(s) \subseteq Nat /\ (~pipe[s].par => Branches(s) = {1})
  BY PipeShape DEF Shape
<1>e. ASSUME NEW kind \in Kinds, NEW s \in Nat, NEW b \in Nat, Emit(Event(kind, s, b))
      PROVE  events' \in Seq(EventSet)
  BY <1>e DEF Shape, Emit, Event, EventSet
<1>1. CASE Start
  BY <1>1 DEF Shape, Start, CallOK, Branches, StepOf
<1>2. CASE SkipStep
  <2>1. events' \in Seq(EventSet)
    BY <1>0, <1>2, <1>e DEF SkipStep, Kinds
  <2>2. pos' \in 1..(Len(pipe) + 1)
    BY <1>0, <1>2 DEF SkipStep, Shape
  <2> QED BY <1>2, <2>1, <2>2 DEF Shape, SkipStep, CallOK, Branches, StepOf
<1>z. CASE SeedStep
  <2>1. pos \in 1..Len(pipe) /\ ~pipe[pos].par /\ 1 \in Branches(pos)
    BY <1>0, <1>z DEF SeedStep, Shape
  <2>2. ctx' \in Context
    BY <1>z, <2>1, SeededContext DEF SeedStep, Shape
  <2> QED BY <1>z, <2>1, <2>2 DEF Shape, SeedStep, CallOK, Branches, StepOf
<1>3. CASE StartStep
  <2>1. pos \in 1..Len(pipe) /\ ~pipe[pos].par /\ Branches(pos) = {1} /\ 1 \in Branches(pos)
    BY <1>0, <1>3 DEF StartStep, Shape
  <2>3. events' \in Seq(EventSet)
    BY <1>0, <1>3, <1>e DEF StartStep, Kinds
  <2>2. StepOf(pos, 1) \in StepSpec
    BY <2>1, PipeShape DEF Shape
  <2>4. 1 \in 1..(StepOf(pos, 1).retries + 1)
    BY <2>2 DEF StepSpec
  <2>5. Submitted(pos, 1, 1) \in CallSet /\ CallOK(Submitted(pos, 1, 1))
    BY <2>1, <2>4, SubmittedShape
  <2>6. calls' \subseteq CallSet /\ \A c \in calls' : CallOK(c)
    BY <1>3, <2>5 DEF StartStep, Shape
  <2>7. snap' = <<ctx>> /\ snap' \in [Branches(pos) -> Context]
    BY <1>3, <2>1 DEF StartStep, Shape
  <2>8. todo' = <<1>> /\ todo' \in Seq(Nat) /\ todo' # << >> /\ \A i \in 1..Len(todo') : todo'[i] \in Branches(pos)
    BY <1>3, <2>1 DEF StartStep
  <2> QED BY <1>3, <2>1, <2>3, <2>6, <2>7, <2>8 DEF Shape, StartStep, CallOK, Branches, StepOf
<1>4. CASE StartGroup
  <2>1. pos \in 1..Len(pipe) /\ pipe[pos].par
    BY <1>0, <1>4 DEF StartGroup, Shape
  <2>2. events' \in Seq(EventSet)
    BY <1>0, <1>4, <1>e DEF StartGroup, Kinds
  <2>3. snap' \in [Branches(pos) -> Context]
    BY <1>4 DEF StartGroup, Shape
  <2>4. todo' = << >> /\ todo' \in Seq(Nat) /\ Len(todo') = 0
    BY <1>4 DEF StartGroup
  <2>5. \A i \in 1..Len(todo') : todo'[i] \in Branches(pos)
    BY <2>4
  <2>6. bad' \in BOOLEAN
    BY <1>4, ZenonT(20) DEF StartGroup
  <2> QED BY <1>4, <2>1, <2>2, <2>3, <2>4, <2>5, <2>6 DEF Shape, StartGroup, CallOK, Branches, StepOf
<1>5. CASE AskBranch
  <2>1. events' \in Seq(EventSet)
    BY <1>0, <1>5, <1>e DEF AskBranch, Kinds, Shape
  <2>2. todo' \in Seq(Nat) /\ \A i \in 1..Len(todo') : todo'[i] \in Branches(pos)
    <3>1. cur \in Branches(pos) /\ cur \in Nat /\ todo \in Seq(Nat) /\ \A i \in 1..Len(todo) : todo[i] \in Branches(pos)
      BY <1>0, <1>5 DEF AskBranch, Shape
    <3>2. CASE todo' = Append(todo, cur)
      <4>1. todo' \in Seq(Nat) /\ Len(todo') = Len(todo) + 1
        BY <3>1, <3>2
      <4>2. \A i \in 1..Len(todo') : (i \in 1..Len(todo) /\ todo'[i] = todo[i]) \/ todo'[i] = cur
        BY <3>1, <3>2
      <4> QED BY <3>1, <4>1, <4>2
    <3>3. CASE UNCHANGED todo
      BY <3>1, <3>3
    <3> QED BY <1>5, <3>2, <3>3 DEF AskBranch
  <2>3. /\ at = "asking" /\ cur' = cur + 1
        /\ UNCHANGED <<pipe, stop, ctx, row, steps, at, pos, try, snap, had, bad, calls, sets>>
    BY <1>5 DEF AskBranch
  <2> QED BY <2>1, <2>2, <2>3 DEF Shape, CallOK, Branches, StepOf
<1>6. CASE AllAsked
  BY <1>6 DEF Shape, AllAsked, CallOK, Branches, StepOf
<1>7. CASE SeedBranch
  <2>1. pos \in 1..Len(pipe) /\ todo[cur] \in Branches(pos)
    BY <1>7 DEF SeedBranch, Shape
  <2>2. ctx' \in Context
    BY <1>7, <2>1, SeededContext DEF SeedBranch, Shape
  <2> QED BY <1>7, <2>1, <2>2 DEF Shape, SeedBranch, CallOK, Branches, StepOf
<1>y. CASE NoteBranch
  <2>1. snap' \in [Branches(pos) -> Context]
    BY <1>y DEF NoteBranch, Shape
  <2>2. cur' \in Nat \ {0}
    BY <1>y DEF NoteBranch, Shape
  <2> QED BY <1>y, <2>1, <2>2 DEF Shape, NoteBranch, CallOK, Branches, StepOf
<1>8. CASE SubmitBranches
  <2>1. ASSUME NEW i \in 1..Len(todo)
        PROVE  Submitted(pos, todo[i], 1) \in CallSet /\ CallOK(Submitted(pos, todo[i], 1))
    <3>1. pos \in 1..Len(pipe) /\ todo[i] \in Branches(pos) /\ ctx \in Context
      BY <1>8 DEF SubmitBranches, Shape
    <3>2. 1 \in 1..(StepOf(pos, todo[i]).retries + 1)
      BY <3>1, PipeShape DEF Shape, StepSpec
    <3> QED BY <3>1, <3>2, SubmittedShape
  <2>2. calls' \subseteq CallSet /\ \A c \in calls' : CallOK(c)
    BY <1>8, <2>1 DEF SubmitBranches, Shape
  <2> QED BY <1>8, <2>2 DEF Shape, SubmitBranches, CallOK, Branches, StepOf
<1>9. CASE StartBranch
  <2>1. events' \in Seq(EventSet)
    BY <1>9, <1>e, HeadShape DEF StartBranch, Kinds
  <2> QED BY <1>9, <2>1 DEF Shape, StartBranch, CallOK, Branches, StepOf
<1>10. CASE StepCompletes
  <2>1. GoOn /\ at = "await" /\ todo # << >>
    BY <1>10 DEF StepCompletes, Shape
  <2>2. events' \in Seq(EventSet)
    BY <1>10, <1>e, <2>1, HeadShape DEF StepCompletes, Kinds
  <2>3. PICK c \in calls :
          /\ Awaited(c) /\ c.state = "returned"
          /\ ctx' = Merged(c)
          /\ LogStep([slot |-> pos, branch |-> HeadBranch, success |-> TRUE,
                      attempt |-> try, inputs |-> ResolvedInputs(HeadBranch), saw |-> c.saw])
    BY <1>10 DEF StepCompletes
  <2>4. c \in CallSet /\ c.saw \in Context
    BY <2>3 DEF Shape, CallOK
  <2>5. ctx' \in Context
    BY <2>3, WrittenContext
  <2>6. steps' \in Seq(RowSet)
    <3>1. [slot |-> pos, branch |-> HeadBranch, success |-> TRUE,
           attempt |-> try, inputs |-> ResolvedInputs(HeadBranch), saw |-> c.saw] \in RowSet
      BY <2>1, <2>4, HeadShape, RedactedContext DEF RowSet, Saw, Shape, ResolvedInputs
    <3> QED BY <2>3, <3>1 DEF LogStep, Shape
  <2> QED BY <1>0, <1>10, <2>1, <2>2, <2>5, <2>6, GoOnShape DEF Shape, StepCompletes, CallOK, Branches, StepOf
<1>11. CASE Retry
  <2>1. events' \in Seq(EventSet)
    BY <1>11, <1>e, HeadShape DEF Retry, Kinds, Shape
  <2>2. try + 1 \in 1..(StepOf(pos, HeadBranch).retries + 1)
    BY <1>11, HeadShape DEF Retry, AttemptsLeft, Shape, StepSpec
  <2>3. calls' \subseteq CallSet /\ \A c \in calls' : CallOK(c)
    <3>1. LET d == Submitted(pos, HeadBranch, try + 1) IN d \in CallSet /\ CallOK(d)
      BY <1>11, <2>2, HeadShape, SubmittedShape DEF Retry, Shape
    <3> QED BY <1>11, <3>1 DEF Retry, Shape
  <2>4. try' \in Nat \ {0}
    BY <1>11 DEF Retry, Shape
  <2> QED BY <1>11, <2>1, <2>3, <2>4 DEF Shape, Retry, CallOK, Branches, StepOf
<1>12. CASE StepFails
  <2>1. events' \in Seq(EventSet)
    BY <1>12, <1>e, HeadShape DEF StepFails, Kinds, Shape
  <2>2. steps' \in Seq(RowSet)
    <3>1. FailedRow \in RowSet
      BY <1>12, HeadShape, RedactedContext DEF StepFails, FailedRow, RowSet, Saw, Shape, ResolvedInputs
    <3> QED BY <1>12, <3>1 DEF StepFails, LogStep, Shape
  <2>3. had' \in BOOLEAN /\ bad' \in BOOLEAN
    BY <1>12 DEF StepFails, Shape
  <2>4. CASE GoOn
    BY <1>0, <1>12, <2>1, <2>2, <2>3, <2>4, GoOnShape DEF Shape, StepFails, CallOK, Branches, StepOf
  <2>5. CASE at' = "stopping" /\ UNCHANGED <<pos, todo>>
    BY <1>0, <1>12, <2>1, <2>2, <2>3, <2>5 DEF Shape, StepFails, CallOK, Branches, StepOf
  <2> QED BY <1>12, <2>4, <2>5 DEF StepFails
<1>13. CASE FinishGroup
  <2>1. events' \in Seq(EventSet)
    BY <1>0, <1>13, <1>e DEF FinishGroup, Kinds
  <2>2. had' \in BOOLEAN
    BY <1>13 DEF FinishGroup, HadFailure, Shape
  <2>3. (at' = "stopping" /\ pos' = pos) \/ (at' = "slot" /\ pos' = pos + 1)
    BY <1>13 DEF FinishGroup
  <2>4. pos' \in 1..(Len(pipe) + 1) /\ pos \in 1..Len(pipe)
    BY <1>0, <1>13, <2>3 DEF FinishGroup, Shape
  <2> QED BY <1>13, <2>1, <2>2, <2>3, <2>4 DEF Shape, FinishGroup, CallOK, Branches, StepOf
<1>14. CASE StopRun
  <2>1. events' \in Seq(EventSet)
    BY <1>14, <1>e DEF StopRun, Kinds
  <2> QED BY <1>14, <2>1 DEF Shape, StopRun, CallOK, Branches, StepOf
<1>15. CASE Finish
  <2>1. events' \in Seq(EventSet)
    BY <1>15, <1>e DEF Finish, Kinds
  <2>2. row' \in {"completed", "failed"}
    BY <1>15 DEF Finish, FinalStatus
  <2> QED BY <1>15, <2>1, <2>2 DEF Shape, Finish, CallOK, Branches, StepOf
<1>16. CASE SeedRaises \/ OutputRaises \/ StoreRaises
  <2>1. Dies
    BY <1>16 DEF SeedRaises, OutputRaises, StoreRaises
  <2> QED BY <2>1 DEF Shape, Dies, CallOK, Branches, StepOf
<1>x. CASE LogRaises
  <2>1. ctx' \in Context
    BY <1>x, WrittenContext DEF LogRaises
  <2> QED BY <1>x, <2>1 DEF Shape, LogRaises, CallOK, Branches, StepOf
<1>w. CASE ClosingRaises
  <2>1. ctx' \in Context
    BY <1>w, WrittenContext DEF ClosingRaises
  <2>2. row' \in {"completed", "failed"}
    BY <1>w DEF ClosingRaises, FinalStatus
  <2>3. sets' \in 0..MaxSets
    BY <1>w, OrchestratorAssumption DEF ClosingRaises, Shape
  <2> QED BY <1>w, <2>1, <2>2, <2>3 DEF Shape, ClosingRaises, CallOK, Branches, StepOf
<1>v. ASSUME NEW c \in calls, CallSets(c) PROVE Shape'
  <2>1. ctx' \in Context
    BY <1>v, WrittenContext DEF CallSets
  <2>3. sets' \in 0..MaxSets
    BY <1>v, OrchestratorAssumption DEF CallSets, Shape
  <2>4. /\ pipe' = pipe /\ stop' = stop /\ row' = row /\ steps' = steps /\ events' = events /\ at' = at
        /\ pos' = pos /\ cur' = cur /\ todo' = todo /\ try' = try /\ snap' = snap /\ had' = had /\ bad' = bad
        /\ calls' = calls
    BY <1>v DEF CallSets
  <2>5. \A d \in calls : CallOK(d)'
    BY <2>4 DEF Shape, CallOK, Branches, StepOf
  <2>6. Branches(pos)' = Branches(pos)
    BY <2>4 DEF Branches
  <2> QED BY <2>1, <2>3, <2>4, <2>5, <2>6 DEF Shape
<1>17. ASSUME NEW c \in calls, CallStarts(c) PROVE Shape'
  <2>1. LET d == [c EXCEPT !.state = "running", !.saw = ctx] IN d \in CallSet /\ CallOK(d)
    BY DEF Shape, CallSet, CallOK, States, Saw
  <2>2. calls' \subseteq CallSet /\ \A e \in calls' : CallOK(e)
    BY <1>17, <2>1 DEF CallStarts, Shape
  <2>3. /\ pipe' = pipe /\ stop' = stop /\ ctx' = ctx /\ row' = row /\ steps' = steps /\ events' = events
        /\ at' = at /\ pos' = pos /\ cur' = cur /\ todo' = todo /\ try' = try /\ snap' = snap /\ had' = had
        /\ bad' = bad /\ sets' = sets
    BY <1>17 DEF CallStarts
  <2>4. \A e \in calls' : CallOK(e)'
    BY <2>2, <2>3 DEF CallOK, Branches, StepOf
  <2>5. Branches(pos)' = Branches(pos)
    BY <2>3 DEF Branches
  <2> QED BY <2>2, <2>3, <2>4, <2>5 DEF Shape
<1>18. ASSUME NEW c \in calls, CallEnds(c) PROVE Shape'
  <2>1. PICK s \in {"returned", "raised"} : calls' = (calls \ {c}) \cup {[c EXCEPT !.state = s]}
    BY <1>18 DEF CallEnds
  <2>2. LET d == [c EXCEPT !.state = s] IN d \in CallSet /\ CallOK(d)
    BY <1>18 DEF Shape, CallSet, CallOK, States, CallEnds
  <2>3. calls' \subseteq CallSet /\ \A e \in calls' : CallOK(e)
    BY <2>1, <2>2 DEF Shape
  <2> QED BY <1>18, <2>3 DEF Shape, CallEnds, CallOK, Branches, StepOf
<1>19. CASE UNCHANGED vars
  BY <1>19 DEF Shape, vars, CallOK, Branches, StepOf
<1> QED BY <1>1, <1>2, <1>3, <1>4, <1>5, <1>6, <1>7, <1>8, <1>9, <1>10, <1>11, <1>12,
           <1>13, <1>14, <1>15, <1>16, <1>17, <1>18, <1>19, <1>v, <1>w, <1>x, <1>y, <1>z DEF Next

-----------------------------------------------------------------------------
(* What an emitted event and a logged row add.                             *)

LEMMA EmitEffect ==
  ASSUME Shape, NEW kind \in Kinds, NEW s \in Nat, NEW b \in Nat, Emit(Event(kind, s, b))
  PROVE  /\ Len(events') = Len(events) + 1
         /\ Len(events) \in Nat
         /\ events'[Len(events')] = Event(kind, s, b)
         /\ \A i \in 1..Len(events) : events'[i] = events[i]
  BY DEF Shape, Emit, Event, EventSet

LEMMA LogEffect ==
  ASSUME Shape, NEW r, LogStep(r)
  PROVE  /\ Len(steps') = Len(steps) + 1
         /\ Len(steps) \in Nat
         /\ steps'[Len(steps')] = r
         /\ \A i \in 1..Len(steps) : steps'[i] = steps[i]
  BY DEF Shape, LogStep

-----------------------------------------------------------------------------
(* Outputs come from recorded attempts.                                    *)

\* The output v is the one of a completed attempt on record.
OnRecord(v, rows) ==
  \E i \in 1..Len(rows) : /\ rows[i].success
                          /\ rows[i].slot = v.slot /\ rows[i].branch = v.branch /\ rows[i].attempt = v.attempt

LEMMA RecordedStep == Shape /\ OutputsAreOnRecord /\ [Next]_vars => OutputsAreOnRecord'
<1> SUFFICES ASSUME Shape, OutputsAreOnRecord, [Next]_vars PROVE OutputsAreOnRecord'
  OBVIOUS
<1>o. at # "dead" => \A k \in Keys : ctx[k].by = "output" => OnRecord(ctx[k], steps)
  BY DEF OutputsAreOnRecord, OnRecord
<1>r. SUFFICES ASSUME at' # "dead", NEW k \in Keys, ctx'[k].by = "output" PROVE OnRecord(ctx'[k], steps')
  BY DEF OutputsAreOnRecord, OnRecord
\* The values were there before, or a module set them itself.
<1>1. CASE at # "dead" /\ steps' = steps /\ (ctx'[k].by = "output" => \E j \in Keys : ctx'[k] = ctx[j])
  BY <1>1, <1>o, <1>r
<1>2. CASE UNCHANGED <<at, ctx, steps>>
  BY <1>1, <1>2, <1>r
<1>3. CASE SeedStep \/ SeedBranch
  <2>1. PICK s \in 1..Len(pipe) : \E b \in Branches(s) : ctx' = Seeded(s, b, ctx)
    BY <1>3, PipeShape DEF SeedStep, SeedBranch, Shape
  <2>2. \E j \in Keys : ctx'[k] = ctx[j]
    BY <1>r, <2>1, SeededContext DEF Shape
  <2> QED BY <1>1, <1>3, <2>2 DEF SeedStep, SeedBranch
<1>5. CASE StepCompletes
  <2>1. PICK c \in calls :
          /\ Awaited(c) /\ c.state = "returned"
          /\ ctx' = Merged(c)
          /\ LogStep([slot |-> pos, branch |-> HeadBranch, success |-> TRUE,
                      attempt |-> try, inputs |-> ResolvedInputs(HeadBranch), saw |-> c.saw])
    BY <1>5 DEF StepCompletes
  <2>2. PICK r : r = [slot |-> pos, branch |-> HeadBranch, success |-> TRUE,
                      attempt |-> try, inputs |-> ResolvedInputs(HeadBranch), saw |-> c.saw]
    OBVIOUS
  <2>3. /\ Len(steps') = Len(steps) + 1 /\ Len(steps) \in Nat
        /\ steps'[Len(steps')] = r /\ \A i \in 1..Len(steps) : steps'[i] = steps[i]
    BY <2>1, <2>2, LogEffect
  <2>4. r.slot = c.slot /\ r.branch = c.branch /\ r.attempt = c.attempt /\ r.success
    BY <2>1, <2>2 DEF Awaited
  <2>5. CASE ctx'[k] = ctx[k]
    <3>1. OnRecord(ctx[k], steps)
      BY <1>5, <1>o, <1>r, <2>5 DEF StepCompletes
    <3> QED BY <2>3, <2>5, <3>1 DEF OnRecord
  <2>6. CASE ctx'[k] = Val("output", c.slot, c.branch, c.attempt)
    <3>1. Len(steps') \in 1..Len(steps')
      BY <2>3
    <3>2. ctx'[k].slot = c.slot /\ ctx'[k].branch = c.branch /\ ctx'[k].attempt = c.attempt
      BY <2>6 DEF Val
    <3> QED BY <2>3, <2>4, <3>1, <3>2 DEF OnRecord
  <2> QED BY <2>1, <2>5, <2>6, WrittenContext
<1>6. CASE StepFails
  <2>1. LogStep(FailedRow) /\ ctx' = ctx /\ at = "await"
    BY <1>6 DEF StepFails
  <2>2. Len(steps') = Len(steps) + 1 /\ Len(steps) \in Nat /\ \A i \in 1..Len(steps) : steps'[i] = steps[i]
    BY <2>1, LogEffect
  <2>3. OnRecord(ctx[k], steps)
    BY <1>o, <1>r, <2>1
  <2> QED BY <2>1, <2>2, <2>3 DEF OnRecord
<1>7. CASE UNCHANGED vars
  BY <1>2, <1>7 DEF vars
<1>8. CASE Start \/ SkipStep \/ StartStep \/ StartGroup \/ AskBranch \/ AllAsked \/ NoteBranch \/ SubmitBranches
           \/ StartBranch \/ Retry \/ FinishGroup \/ StopRun \/ Finish
  <2>1. at # "dead" /\ UNCHANGED <<ctx, steps>>
    BY <1>8 DEF Start, SkipStep, StartStep, StartGroup, AskBranch, AllAsked, NoteBranch, SubmitBranches, StartBranch,
                Retry, FinishGroup, StopRun, Finish
  <2> QED BY <1>1, <2>1
<1>9. CASE SeedRaises \/ OutputRaises \/ LogRaises \/ StoreRaises \/ ClosingRaises
  BY <1>r, <1>9 DEF SeedRaises, OutputRaises, LogRaises, StoreRaises, ClosingRaises, Dies
<1>10. ASSUME NEW c \in calls, CallStarts(c) \/ CallEnds(c) PROVE OnRecord(ctx'[k], steps')
  BY <1>2, <1>10 DEF CallStarts, CallEnds
<1>11. ASSUME NEW c \in calls, CallSets(c) PROVE OnRecord(ctx'[k], steps')
  <2>1. at' = at /\ steps' = steps /\ (ctx'[k] = ctx[k] \/ ctx'[k].by = "set")
    BY <1>11, WrittenContext DEF CallSets
  <2> QED BY <1>1, <1>r, <2>1
<1> QED BY <1>3, <1>5, <1>6, <1>7, <1>8, <1>9, <1>10, <1>11 DEF Next

-----------------------------------------------------------------------------
(* The verdict.                                                            *)

Failed == \E i \in 1..Len(steps) : ~steps[i].success
NoClosing == \A i \in 1..Len(events) : events[i].kind \notin RunEnd

\* The two flags say whether a step failed; only inside a group may it be bad
\* alone that does.
Flags ==
  /\ Failed <=> had \/ bad
  /\ bad /\ ~had => at \in {"next", "await", "dead"}
  /\ bad /\ ~had /\ at = "await" => pipe[pos].par
  /\ at = "stopping" => had

Verdict ==
  /\ at = "over" =>
       /\ events # << >>
       /\ \A i \in 1..Len(events) : events[i].kind \in RunEnd <=> i = Len(events)
       /\ row = IF had THEN "failed" ELSE "completed"
       /\ events[Len(events)].kind = IF had THEN "run_failed" ELSE "run_completed"
  /\ at # "over" =>
       /\ NoClosing
       /\ \/ row \in {"none", "running"}
          \/ at = "dead" /\ row = IF had \/ bad THEN "failed" ELSE "completed"

LEMMA FlagsStep == Shape /\ Flags /\ [Next]_vars => Flags'
<1> SUFFICES ASSUME Shape, Flags, [Next]_vars PROVE Flags'
  OBVIOUS
<1>b. had \in BOOLEAN /\ bad \in BOOLEAN
  BY DEF Shape
<1>f. ASSUME steps' = steps PROVE Failed' <=> Failed
  BY <1>f DEF Failed
<1>1. CASE StartGroup
  <2>1. (Failed' <=> Failed) /\ had' = had /\ at' = "asking" /\ bad' = FALSE /\ (bad => had)
    BY <1>1, <1>f DEF StartGroup, Flags
  <2> QED BY <1>b, <2>1 DEF Flags
<1>2. CASE StepCompletes
  <2>1. PICK r : LogStep(r) /\ r.success
    BY <1>2 DEF StepCompletes
  <2>2. /\ Len(steps') = Len(steps) + 1 /\ Len(steps) \in Nat
        /\ steps'[Len(steps')] = r /\ \A i \in 1..Len(steps) : steps'[i] = steps[i]
    BY <2>1, LogEffect
  <2>3. Failed' <=> Failed
    <3>1. \A i \in 1..Len(steps') : i \in 1..Len(steps) \/ i = Len(steps')
      BY <2>2
    <3>2. \A i \in 1..Len(steps) : i \in 1..Len(steps')
      BY <2>2
    <3> QED BY <2>1, <2>2, <3>1, <3>2 DEF Failed
  <2>4. had' = had /\ bad' = bad /\ pipe' = pipe /\ GoOn /\ at = "await"
    BY <1>2 DEF StepCompletes
  <2>5. (at' = "next" /\ pipe[pos].par) \/ (at' = "slot" /\ ~pipe[pos].par)
    BY <2>4 DEF GoOn
  <2> QED BY <1>b, <2>3, <2>4, <2>5 DEF Flags
<1>3. CASE StepFails
  <2>1. LogStep(FailedRow) /\ ~FailedRow.success
    BY <1>3 DEF StepFails, FailedRow
  <2>2. Len(steps') \in 1..Len(steps') /\ steps'[Len(steps')] = FailedRow
    BY <2>1, LogEffect
  <2>3. Failed'
    BY <2>1, <2>2 DEF Failed
  <2>4. CASE pipe[pos].par
    <3>1. ~Stops(~pipe[pos].par)
      BY <2>4 DEF Stops
    <3>2. bad' = TRUE /\ had' = had /\ GoOn
      BY <1>3, <2>4, <3>1 DEF StepFails
    <3>3. at' = "next"
      BY <2>4, <3>2 DEF GoOn
    <3> QED BY <1>b, <2>3, <3>2, <3>3 DEF Flags
  <2>5. CASE ~pipe[pos].par
    <3>1. had' = TRUE /\ bad' = bad
      BY <1>3, <2>5 DEF StepFails
    <3> QED BY <1>b, <2>3, <3>1 DEF Flags
  <2> QED BY <2>4, <2>5
<1>4. CASE FinishGroup
  <2>1. (Failed' <=> Failed) /\ bad' = bad /\ at' \in {"stopping", "slot"} /\ (at' = "stopping" => bad)
    BY <1>4, <1>f DEF FinishGroup, Stops
  <2>2. had' <=> had \/ bad
    BY <1>4 DEF FinishGroup, HadFailure
  <2> QED BY <1>b, <2>1, <2>2 DEF Flags
<1>5. ASSUME UNCHANGED <<steps, had, bad, pipe, pos>>, at' # "stopping", at' = "await" => at = "await" \/ pipe[pos].par,
             at' \in {"next", "await", "dead"} \/ at \notin {"next", "await", "dead"}
      PROVE  Flags'
  BY <1>5, <1>f, <1>b DEF Flags
<1>6. CASE SeedStep \/ StartStep
  BY <1>6, <1>f, <1>b DEF SeedStep, StartStep, Flags, Shape
<1>7. CASE SkipStep
  BY <1>7, <1>f, <1>b DEF SkipStep, Flags
<1>8. CASE Start \/ AskBranch \/ AllAsked \/ SeedBranch \/ NoteBranch \/ SubmitBranches \/ StopRun \/ Finish
  BY <1>5, <1>8 DEF Start, AskBranch, AllAsked, SeedBranch, NoteBranch, SubmitBranches, StopRun, Finish
<1>9. CASE StartBranch
  BY <1>5, <1>9 DEF StartBranch, Shape
<1>10. CASE Retry
  BY <1>5, <1>10 DEF Retry
<1>11. CASE SeedRaises \/ OutputRaises \/ LogRaises \/ StoreRaises \/ ClosingRaises
  BY <1>5, <1>11 DEF SeedRaises, OutputRaises, LogRaises, StoreRaises, ClosingRaises, Dies
<1>12. CASE UNCHANGED vars
  BY <1>12, <1>f, <1>b DEF vars, Flags
<1>13. ASSUME NEW c \in calls, CallStarts(c) \/ CallEnds(c) \/ CallSets(c) PROVE Flags'
  BY <1>13, <1>f, <1>b DEF CallStarts, CallEnds, CallSets, Flags
<1> QED BY <1>1, <1>2, <1>3, <1>4, <1>6, <1>7, <1>8, <1>9, <1>10, <1>11, <1>12, <1>13 DEF Next

LEMMA VerdictStep == Shape /\ Flags /\ Verdict /\ [Next]_vars => Verdict'
<1> SUFFICES ASSUME Shape, Flags, Verdict, [Next]_vars PROVE Verdict'
  OBVIOUS
<1>q. ASSUME at \notin {"over", "dead"}, at' # "over", row' = row, events' = events PROVE Verdict'
  BY <1>q DEF Verdict, NoClosing
<1>e. ASSUME at \notin {"over", "dead"}, at' # "over", row' = row,
             NEW kind \in Kinds \ RunEnd, NEW s \in Nat, NEW b \in Nat, Emit(Event(kind, s, b))
      PROVE  Verdict'
  <2>1. /\ Len(events') = Len(events) + 1 /\ Len(events) \in Nat
        /\ events'[Len(events')] = Event(kind, s, b) /\ \A i \in 1..Len(events) : events'[i] = events[i]
    BY <1>e, EmitEffect
  <2>2. \A i \in 1..Len(events') : i \in 1..Len(events) \/ i = Len(events')
    BY <2>1
  <2>3. Event(kind, s, b).kind \notin RunEnd
    BY <1>e DEF Event
  <2> QED BY <1>e, <2>1, <2>2, <2>3 DEF Verdict, NoClosing
<1>c. ASSUME at \notin {"over", "dead"}, at' = "over", had' = had,
             Emit(Event(IF had THEN "run_failed" ELSE "run_completed", 0, 0)),
             row' = IF had THEN "failed" ELSE "completed"
      PROVE  Verdict'
  <2> DEFINE kind == IF had THEN "run_failed" ELSE "run_completed"
  <2>0. kind \in Kinds /\ kind \in RunEnd
    BY DEF Kinds, RunEnd
  <2>1. /\ Len(events') = Len(events) + 1 /\ Len(events) \in Nat
        /\ events'[Len(events')] = Event(kind, 0, 0) /\ \A i \in 1..Len(events) : events'[i] = events[i]
    BY <1>c, <2>0, EmitEffect
  <2>2. Event(kind, 0, 0).kind = kind
    BY DEF Event
  <2>3. \A i \in 1..Len(events') : events'[i].kind \in RunEnd <=> i = Len(events')
    <3>1. \A i \in 1..Len(events') : i \in 1..Len(events) \/ i = Len(events')
      BY <2>1
    <3>2. \A i \in 1..Len(events) : i # Len(events') /\ events[i].kind \notin RunEnd
      BY <1>c, <2>1 DEF Verdict, NoClosing
    <3> HIDE DEF kind
    <3> QED BY <2>0, <2>1, <2>2, <3>1, <3>2
  <2>4. events' # << >>
    BY <2>1
  <2>5. events'[Len(events')].kind = kind
    BY <2>1, <2>2
  <2> QED BY <1>c, <2>3, <2>4, <2>5 DEF Verdict
<1>n. pos \in Nat /\ (at \in {"next", "await"} /\ todo # << >> => HeadBranch \in Nat)
  BY PipeShape, HeadShape DEF Shape
<1>k. Kinds \ RunEnd = {"group_started", "group_completed", "step_skipped", "step_started", "step_retrying",
                        "step_completed", "step_failed"}
  BY DEF Kinds, RunEnd
<1>1. CASE Start
  BY <1>1 DEF Start, Verdict, NoClosing
<1>2. CASE SkipStep
  BY <1>2, <1>e, <1>n, <1>k DEF SkipStep
<1>3. CASE StartStep
  BY <1>3, <1>e, <1>n, <1>k DEF StartStep
<1>4. CASE StartGroup
  BY <1>4, <1>e, <1>n, <1>k DEF StartGroup
<1>5. CASE AskBranch
  BY <1>5, <1>e, <1>q, <1>n, <1>k DEF AskBranch, Shape
<1>6. CASE SeedStep \/ AllAsked \/ SeedBranch \/ NoteBranch \/ SubmitBranches
  BY <1>6, <1>q DEF SeedStep, AllAsked, SeedBranch, NoteBranch, SubmitBranches
<1>7. CASE StartBranch
  BY <1>7, <1>e, <1>n, <1>k DEF StartBranch
<1>8. CASE StepCompletes
  <2>1. todo # << >> /\ at' # "over" /\ at = "await" /\ row' = row
    BY <1>8 DEF StepCompletes, GoOn, Shape
  <2> QED BY <1>8, <1>e, <1>n, <1>k, <2>1 DEF StepCompletes
<1>9. CASE Retry
  BY <1>9, <1>e, <1>n, <1>k DEF Retry, Shape
<1>10. CASE StepFails
  <2>1. todo # << >> /\ at' # "over" /\ at = "await" /\ row' = row
    BY <1>10 DEF StepFails, GoOn, Shape
  <2> QED BY <1>10, <1>e, <1>n, <1>k, <2>1 DEF StepFails
<1>11. CASE FinishGroup
  BY <1>11, <1>e, <1>n, <1>k DEF FinishGroup
<1>12. CASE StopRun
  <2>1. had
    BY <1>12 DEF StopRun, Flags
  <2> QED BY <1>12, <1>c, <2>1 DEF StopRun
<1>13. CASE Finish
  BY <1>13, <1>c DEF Finish, FinalStatus
<1>14. CASE SeedRaises \/ OutputRaises \/ StoreRaises
  <2>1. Dies /\ at \notin {"over", "dead"}
    BY <1>14 DEF SeedRaises, OutputRaises, StoreRaises
  <2> QED BY <1>q, <2>1 DEF Dies
<1>x. CASE LogRaises
  BY <1>q, <1>x DEF LogRaises
<1>w. CASE ClosingRaises
  <2>1. /\ at \in {"stopping", "slot"} /\ at' = "dead" /\ UNCHANGED <<events, had, bad>>
        /\ row' = IF had THEN "failed" ELSE "completed"
    BY <1>w DEF ClosingRaises, FinalStatus
  <2>2. (had \/ bad) <=> had
    BY <2>1 DEF Flags
  <2>3. NoClosing'
    BY <2>1 DEF Verdict, NoClosing
  <2>4. row' = IF had' \/ bad' THEN "failed" ELSE "completed"
    <3>1. PICK h \in BOOLEAN : h = had
      BY DEF Shape
    <3>2. PICK g \in BOOLEAN : g = (had \/ bad)
      OBVIOUS
    <3> QED BY <2>1, <2>2, <3>1, <3>2
  <2> QED BY <2>1, <2>3, <2>4 DEF Verdict
<1>15. CASE UNCHANGED vars
  BY <1>15 DEF vars, Verdict, NoClosing
<1>16. ASSUME NEW c \in calls, CallStarts(c) \/ CallEnds(c) \/ CallSets(c) PROVE Verdict'
  BY <1>16 DEF CallStarts, CallEnds, CallSets, Verdict, NoClosing
<1> QED BY <1>w, <1>x, <1>1, <1>2, <1>3, <1>4, <1>5, <1>6, <1>7, <1>8, <1>9, <1>10, <1>11, <1>12, <1>13, <1>14, <1>15, <1>16 DEF Next

-----------------------------------------------------------------------------
(* stop_on_error.                                                          *)

\* After a failure under stop_on_error the thread is in the failed group, or
\* it starts nothing any more.
Halted ==
  stop => \A i \in 1..Len(events) : events[i].kind = "step_failed" =>
    \/ at \in {"next", "await"} /\ bad /\ pos = events[i].slot /\ pipe[pos].par
    \/ at \in {"stopping", "over", "dead"}

LEMMA HaltedStep == Shape /\ Halted /\ [Next]_vars => Halted'
<1> SUFFICES ASSUME Shape, Halted, [Next]_vars PROVE Halted'
  OBVIOUS
<1>s. stop' = stop
  BY DEF Next, vars, Start, SkipStep, SeedStep, StartStep, StartGroup, AskBranch, AllAsked, SeedBranch, NoteBranch,
         SubmitBranches, StartBranch, StepCompletes, Retry, StepFails, FinishGroup, StopRun, Finish, SeedRaises,
         OutputRaises, LogRaises, StoreRaises, ClosingRaises, Dies, CallStarts, CallEnds, CallSets
<1> SUFFICES ASSUME stop
             PROVE  \A i \in 1..Len(events') : events'[i].kind = "step_failed" =>
                      \/ at' \in {"next", "await"} /\ bad' /\ pos' = events'[i].slot /\ pipe'[pos'].par
                      \/ at' \in {"stopping", "over", "dead"}
  BY <1>s DEF Halted
<1>n. pos \in Nat /\ (at \in {"next", "await"} /\ todo # << >> => HeadBranch \in Nat)
  BY PipeShape, HeadShape DEF Shape
<1>f. \A i \in 1..Len(events) : events[i].kind = "step_failed" =>
        \/ at \in {"next", "await"} /\ bad /\ pos = events[i].slot /\ pipe[pos].par
        \/ at \in {"stopping", "over", "dead"}
  BY DEF Halted
\* Where the new last event is no failure, only the old ones matter.
<1>e. ASSUME NEW kind \in Kinds \ {"step_failed"}, NEW s \in Nat, NEW b \in Nat, Emit(Event(kind, s, b))
      PROVE  \A i \in 1..Len(events') : events'[i].kind = "step_failed" =>
               i \in 1..Len(events) /\ events'[i] = events[i]
  <2>1. /\ Len(events') = Len(events) + 1 /\ Len(events) \in Nat
        /\ events'[Len(events')] = Event(kind, s, b) /\ \A i \in 1..Len(events) : events'[i] = events[i]
    BY <1>e, EmitEffect
  <2> QED BY <2>1 DEF Event
<1>k. Kinds \ {"step_failed"} = {"group_started", "group_completed", "step_skipped", "step_started",
                                "step_retrying", "step_completed", "run_completed", "run_failed"}
  BY DEF Kinds
<1>1. CASE at \in {"start", "slot", "seeded", "asking", "seeding", "noting"} /\ UNCHANGED events
  BY <1>1, <1>f
<1>2. CASE Start \/ SeedStep \/ AllAsked \/ SeedBranch \/ NoteBranch \/ SubmitBranches
  BY <1>1, <1>2 DEF Start, SeedStep, AllAsked, SeedBranch, NoteBranch, SubmitBranches
<1>3. CASE SkipStep
  BY <1>3, <1>e, <1>f, <1>n, <1>k DEF SkipStep
<1>4. CASE StartStep
  BY <1>4, <1>e, <1>f, <1>n, <1>k DEF StartStep
<1>5. CASE StartGroup
  BY <1>5, <1>e, <1>f, <1>n, <1>k DEF StartGroup
<1>6. CASE AskBranch
  BY <1>1, <1>6, <1>e, <1>f, <1>n, <1>k DEF AskBranch, Shape
<1>7. CASE StartBranch
  BY <1>7, <1>e, <1>f, <1>n, <1>k DEF StartBranch
<1>8. CASE StepCompletes
  <2>1. todo # << >> /\ at = "await" /\ GoOn /\ bad' = bad /\ pipe' = pipe
    BY <1>8 DEF StepCompletes, Shape
  <2>2. pipe[pos].par => at' = "next" /\ pos' = pos
    BY <2>1 DEF GoOn
  <2>3. \A i \in 1..Len(events') : events'[i].kind = "step_failed" => i \in 1..Len(events) /\ events'[i] = events[i]
    BY <1>8, <1>e, <1>n, <1>k, <2>1 DEF StepCompletes
  <2> QED BY <1>f, <2>1, <2>2, <2>3
<1>9. CASE Retry
  BY <1>9, <1>e, <1>f, <1>n, <1>k DEF Retry, Shape
<1>10. CASE StepFails
  <2>1. todo # << >> /\ at = "await" /\ pipe' = pipe
    BY <1>10 DEF StepFails, Shape
  <2>2. /\ Len(events') = Len(events) + 1 /\ Len(events) \in Nat
        /\ events'[Len(events')] = Event("step_failed", pos, HeadBranch)
        /\ \A i \in 1..Len(events) : events'[i] = events[i]
    BY <1>10, <1>n, <2>1, EmitEffect DEF StepFails, Kinds
  <2>3. CASE pipe[pos].par
    <3>1. bad' = TRUE /\ at' = "next" /\ pos' = pos
      BY <1>10, <2>3 DEF StepFails, Stops, GoOn
    <3>2. \A i \in 1..Len(events') : i \in 1..Len(events) \/ i = Len(events')
      BY <2>2
    <3>3. events'[Len(events')].slot = pos
      BY <2>2 DEF Event
    <3> QED BY <1>f, <2>1, <2>2, <2>3, <3>1, <3>2, <3>3
  <2>4. CASE ~pipe[pos].par
    BY <1>10, <2>4 DEF StepFails, Stops
  <2> QED BY <2>3, <2>4
<1>11. CASE FinishGroup
  <2>1. at' = "stopping" \/ ~bad
    BY <1>11 DEF FinishGroup, Stops
  <2> QED BY <1>11, <1>e, <1>f, <1>n, <1>k, <2>1 DEF FinishGroup
<1>12. CASE StopRun
  BY <1>12 DEF StopRun
<1>13. CASE Finish
  BY <1>13 DEF Finish
<1>14. CASE SeedRaises \/ OutputRaises \/ LogRaises \/ StoreRaises \/ ClosingRaises
  BY <1>14 DEF SeedRaises, OutputRaises, LogRaises, StoreRaises, ClosingRaises, Dies
<1>15. CASE UNCHANGED vars
  BY <1>15, <1>f DEF vars
<1>16. ASSUME NEW c \in calls, CallStarts(c) \/ CallEnds(c) \/ CallSets(c)
       PROVE  UNCHANGED <<events, at, bad, pos, pipe>>
  BY <1>16 DEF CallStarts, CallEnds, CallSets
<1>17. CASE UNCHANGED <<events, at, bad, pos, pipe>>
  BY <1>17, <1>f
<1> QED BY <1>2, <1>3, <1>4, <1>5, <1>6, <1>7, <1>8, <1>9, <1>10, <1>11, <1>12, <1>13, <1>14, <1>15, <1>16, <1>17 DEF Next

\* The events of a stopped run: a step that starts after a failure is a branch
\* of the failed group.
LEMMA StopStep == Shape /\ Halted /\ StopMeansStop /\ [Next]_vars => StopMeansStop'
<1> SUFFICES ASSUME Shape, Halted, StopMeansStop, [Next]_vars PROVE StopMeansStop'
  OBVIOUS
<1>s. stop' = stop /\ pipe' = pipe
  BY DEF Next, vars, Start, SkipStep, SeedStep, StartStep, StartGroup, AskBranch, AllAsked, SeedBranch, NoteBranch,
         SubmitBranches, StartBranch, StepCompletes, Retry, StepFails, FinishGroup, StopRun, Finish, SeedRaises,
         OutputRaises, LogRaises, StoreRaises, ClosingRaises, Dies, CallStarts, CallEnds, CallSets
<1>q. CASE events' = events
  BY <1>s, <1>q DEF StopMeansStop
\* An event that starts nothing cannot break the property.
<1>e. ASSUME NEW kind \in Kinds \ {"step_started"}, NEW s \in Nat, NEW b \in Nat, Emit(Event(kind, s, b))
      PROVE  StopMeansStop'
  <2>1. /\ Len(events') = Len(events) + 1 /\ Len(events) \in Nat
        /\ events'[Len(events')] = Event(kind, s, b) /\ \A i \in 1..Len(events) : events'[i] = events[i]
    BY <1>e, EmitEffect
  <2> SUFFICES ASSUME stop, NEW i \in 1..Len(events'), events'[i].kind = "step_failed",
                      NEW j \in i..Len(events'), events'[j].kind = "step_started"
               PROVE  events'[j].slot = events'[i].slot /\ pipe[events'[i].slot].par
    BY <1>s DEF StopMeansStop
  <2>2. j \in i..Len(events) /\ i \in 1..Len(events)
    BY <1>e, <2>1 DEF Event
  <2>3. events'[i] = events[i] /\ events'[j] = events[j]
    BY <2>1, <2>2
  <2> QED BY <2>2, <2>3 DEF StopMeansStop
\* One that starts a step is about the current slot, where Halted has the thread.
<1>t. ASSUME NEW b \in Nat, pos \in Nat, Emit(Event("step_started", pos, b)), at \in {"seeded", "next"}
      PROVE  StopMeansStop'
  <2>1. /\ Len(events') = Len(events) + 1 /\ Len(events) \in Nat
        /\ events'[Len(events')] = Event("step_started", pos, b)
        /\ \A i \in 1..Len(events) : events'[i] = events[i]
    BY <1>t, EmitEffect DEF Kinds
  <2> SUFFICES ASSUME stop, NEW i \in 1..Len(events'), events'[i].kind = "step_failed",
                      NEW j \in i..Len(events'), events'[j].kind = "step_started"
               PROVE  events'[j].slot = events'[i].slot /\ pipe[events'[i].slot].par
    BY <1>s DEF StopMeansStop
  <2>2. i \in 1..Len(events) /\ events'[i] = events[i]
    BY <2>1 DEF Event
  <2>3. CASE j \in i..Len(events)
    <3>1. events'[j] = events[j]
      BY <2>1, <2>2, <2>3
    <3> QED BY <2>2, <2>3, <3>1 DEF StopMeansStop
  <2>4. CASE j = Len(events')
    <3>1. events'[j].slot = pos
      BY <2>1, <2>4 DEF Event
    <3>2. pos = events[i].slot /\ pipe[pos].par
      BY <1>t, <2>2 DEF Halted
    <3> QED BY <2>2, <3>1, <3>2
  <2>5. j \in i..Len(events) \/ j = Len(events')
    BY <2>1, <2>2
  <2> QED BY <2>3, <2>4, <2>5
<1>n. pos \in Nat /\ (at \in {"next", "await"} /\ todo # << >> => HeadBranch \in Nat)
  BY PipeShape, HeadShape DEF Shape
<1>k. Kinds \ {"step_started"} = {"group_started", "group_completed", "step_skipped", "step_retrying",
                                 "step_completed", "step_failed", "run_completed", "run_failed"}
  BY DEF Kinds
<1>1. CASE Start \/ SeedStep \/ AllAsked \/ SeedBranch \/ NoteBranch \/ SubmitBranches
  BY <1>q, <1>1 DEF Start, SeedStep, AllAsked, SeedBranch, NoteBranch, SubmitBranches
<1>2. CASE SkipStep
  BY <1>2, <1>e, <1>n, <1>k DEF SkipStep
<1>3. CASE StartStep
  BY <1>3, <1>t, <1>n DEF StartStep
<1>4. CASE StartGroup
  BY <1>4, <1>e, <1>n, <1>k DEF StartGroup
<1>5. CASE AskBranch
  BY <1>5, <1>e, <1>q, <1>n, <1>k DEF AskBranch, Shape
<1>6. CASE StartBranch
  BY <1>6, <1>t, <1>n DEF StartBranch
<1>7. CASE StepCompletes \/ Retry \/ StepFails
  <2>1. at = "await" /\ todo # << >>
    BY <1>7 DEF StepCompletes, Retry, StepFails, Shape
  <2> QED BY <1>7, <1>e, <1>n, <1>k, <2>1 DEF StepCompletes, Retry, StepFails
<1>8. CASE FinishGroup
  BY <1>8, <1>e, <1>n, <1>k DEF FinishGroup
<1>9. CASE StopRun
  BY <1>9, <1>e, <1>k DEF StopRun
<1>10. CASE Finish
  <2>1. (IF had THEN "run_failed" ELSE "run_completed") \in Kinds \ {"step_started"}
    BY <1>k
  <2> QED BY <1>10, <1>e, <2>1 DEF Finish
<1>11. CASE SeedRaises \/ OutputRaises \/ LogRaises \/ StoreRaises \/ ClosingRaises \/ UNCHANGED vars
  BY <1>q, <1>11 DEF SeedRaises, OutputRaises, LogRaises, StoreRaises, ClosingRaises, Dies, vars
<1>12. ASSUME NEW c \in calls, CallStarts(c) \/ CallEnds(c) \/ CallSets(c) PROVE StopMeansStop'
  BY <1>q, <1>12 DEF CallStarts, CallEnds, CallSets
<1> QED BY <1>1, <1>2, <1>3, <1>4, <1>5, <1>6, <1>7, <1>8, <1>9, <1>10, <1>11, <1>12 DEF Next

-----------------------------------------------------------------------------
(* The inputs of a single step.                                            *)

\* One context differs from another only in names that modules set themselves.
ButForSets(c, d) == \A k \in Keys : c[k] = d[k] \/ c[k].by = "set"

\* While a single step is awaited the context is what its snapshot says, and
\* so is what its started calls have read, but for names that modules set.
Fresh ==
  /\ \A c \in calls : c.slot <= pos
  /\ at \in {"start", "slot", "seeded"} => \A c \in calls : c.slot < pos
  /\ at = "await" /\ ~pipe[pos].par =>
       /\ todo = <<1>>
       /\ ButForSets(ctx, snap[1])
       /\ \A c \in calls : c.slot = pos /\ c.state # "queued" => ButForSets(c.saw, snap[1])

LEMMA FreshStep == Shape /\ Fresh /\ [Next]_vars => Fresh'
<1> SUFFICES ASSUME Shape, Fresh, [Next]_vars PROVE Fresh'
  OBVIOUS
<1>n. pos \in Nat /\ \A c \in calls : c.slot \in Nat
  BY PipeShape DEF Shape, CallSet
\* Steps that leave the calls alone and do not go on to await a single step.
<1>q. ASSUME UNCHANGED <<calls, pos, pipe>>,
             at' \in {"start", "slot", "seeded"} => at \in {"start", "slot", "seeded"},
             at' = "await" => pipe[pos].par
      PROVE  Fresh'
  BY <1>q DEF Fresh
<1>1. CASE Start \/ SeedStep \/ StopRun \/ Finish
  BY <1>q, <1>1 DEF Start, SeedStep, StopRun, Finish
<1>2. CASE SkipStep
  BY <1>2, <1>n DEF SkipStep, Fresh
<1>3. CASE StartStep
  <2>1. /\ calls' = calls \cup {Submitted(pos, 1, 1)} /\ pos' = pos /\ pipe' = pipe /\ at' = "await"
        /\ todo' = <<1>> /\ snap' = <<ctx>> /\ ctx' = ctx
    BY <1>3 DEF StartStep
  <2>2. \A c \in calls : c.slot < pos
    BY <1>3 DEF StartStep, Fresh
  <2>3. Submitted(pos, 1, 1).slot = pos /\ Submitted(pos, 1, 1).state = "queued"
    BY DEF Submitted, Call
  <2>4. snap'[1] = ctx' /\ ButForSets(ctx', snap'[1])
    BY <2>1 DEF ButForSets
  <2> QED BY <1>n, <2>1, <2>2, <2>3, <2>4 DEF Fresh
<1>4. CASE StartGroup \/ AskBranch \/ AllAsked \/ SeedBranch \/ NoteBranch
  <2>1. UNCHANGED <<calls, pos, pipe>> /\ at' \in {"asking", "seeding", "noting"}
    BY <1>4 DEF StartGroup, AskBranch, AllAsked, SeedBranch, NoteBranch
  <2> QED BY <1>q, <2>1
<1>6. CASE SubmitBranches
  <2>1. \A i \in 1..Len(todo) : Submitted(pos, todo[i], 1).slot = pos
    BY DEF Submitted, Call
  <2> QED BY <1>6, <1>n, <2>1 DEF SubmitBranches, Fresh
<1>7. CASE StartBranch
  BY <1>7, <1>q DEF StartBranch, Shape
<1>8. CASE StepCompletes
  <2>1. GoOn /\ at = "await" /\ calls' = calls /\ pipe' = pipe
    BY <1>8 DEF StepCompletes
  <2> QED BY <1>n, <2>1 DEF GoOn, Fresh
<1>9. CASE Retry
  <2>1. /\ calls' = calls \cup {Submitted(pos, HeadBranch, try + 1)} /\ pos' = pos /\ pipe' = pipe
        /\ at' = "await" /\ at = "await" /\ todo' = todo /\ snap' = snap /\ ctx' = ctx
    BY <1>9 DEF Retry
  <2>2. PICK d : d = Submitted(pos, HeadBranch, try + 1)
    OBVIOUS
  <2>3. d.slot = pos /\ d.state = "queued"
    BY <2>2 DEF Submitted, Call
  <2> QED BY <1>n, <2>1, <2>2, <2>3 DEF Fresh
<1>10. CASE StepFails
  <2>1. at = "await" /\ calls' = calls /\ pipe' = pipe
    BY <1>10 DEF StepFails
  <2>2. GoOn \/ (at' = "stopping" /\ pos' = pos)
    BY <1>10 DEF StepFails
  <2> QED BY <1>n, <2>1, <2>2 DEF GoOn, Fresh
<1>11. CASE FinishGroup
  BY <1>11, <1>n DEF FinishGroup, Fresh
<1>13. CASE SeedRaises \/ OutputRaises \/ LogRaises \/ StoreRaises \/ ClosingRaises
  BY <1>q, <1>13 DEF SeedRaises, OutputRaises, LogRaises, StoreRaises, ClosingRaises, Dies
<1>14. ASSUME NEW c \in calls, CallStarts(c) PROVE Fresh'
  <2>1. PICK d : d = [c EXCEPT !.state = "running", !.saw = ctx]
    OBVIOUS
  <2>2. d.slot = c.slot /\ d.saw = ctx
    BY <2>1 DEF Shape, CallSet
  <2>3. calls' = (calls \ {c}) \cup {d} /\ UNCHANGED <<pos, at, pipe, todo, snap, ctx>>
    BY <1>14, <2>1 DEF CallStarts
  <2> QED BY <1>n, <2>2, <2>3 DEF Fresh
<1>15. ASSUME NEW c \in calls, CallEnds(c) PROVE Fresh'
  <2>1. PICK s \in {"returned", "raised"} : calls' = (calls \ {c}) \cup {[c EXCEPT !.state = s]}
    BY <1>15 DEF CallEnds
  <2>2. PICK d : d = [c EXCEPT !.state = s]
    OBVIOUS
  <2>3. d.slot = c.slot /\ d.saw = c.saw
    BY <2>2 DEF Shape, CallSet
  <2>4. c.state # "queued" /\ UNCHANGED <<pos, at, pipe, todo, snap, ctx>>
    BY <1>15 DEF CallEnds
  <2> QED BY <1>n, <2>1, <2>2, <2>3, <2>4 DEF Fresh
<1>17. ASSUME NEW c \in calls, CallSets(c) PROVE Fresh'
  <2>1. UNCHANGED <<calls, pos, at, pipe, todo, snap>>
    BY <1>17 DEF CallSets
  <2>2. \A k \in Keys : ctx'[k] = ctx[k] \/ ctx'[k].by = "set"
    BY <1>17, WrittenContext DEF CallSets
  <2>3. at = "await" /\ ~pipe[pos].par => ButForSets(ctx', snap[1])
    BY <2>2 DEF Fresh, ButForSets
  <2> QED BY <2>1, <2>3 DEF Fresh
<1>16. CASE UNCHANGED vars
  BY <1>16 DEF vars, Fresh
<1> QED BY <1>1, <1>2, <1>3, <1>4, <1>6, <1>7, <1>8, <1>9, <1>10, <1>11, <1>13, <1>14, <1>15, <1>16, <1>17 DEF Next

\* What a row shows of its inputs.
Shows(r) ==
  /\ \A k \in Secrets : r.inputs[k] \in {Masked, Unset}
  /\ r.success /\ ~pipe[r.slot].par =>
       \A k \in Keys : r.inputs[k] = Redacted(r.saw)[k] \/ r.saw[k].by = "set"

LEMMA InputsStep == Shape /\ Fresh /\ StepRanOnItsInputs /\ [Next]_vars => StepRanOnItsInputs'
<1> SUFFICES ASSUME Shape, Fresh, StepRanOnItsInputs, [Next]_vars PROVE StepRanOnItsInputs'
  OBVIOUS
<1>o. \A i \in 1..Len(steps) : Shows(steps[i])
  BY DEF StepRanOnItsInputs, Shows
<1>q. CASE UNCHANGED <<steps, pipe>>
  BY <1>q DEF StepRanOnItsInputs
<1>l. ASSUME NEW r, LogStep(r), pipe' = pipe, Shows(r) PROVE StepRanOnItsInputs'
  <2>1. /\ Len(steps') = Len(steps) + 1 /\ Len(steps) \in Nat
        /\ steps'[Len(steps')] = r /\ \A i \in 1..Len(steps) : steps'[i] = steps[i]
    BY <1>l, LogEffect
  <2>2. \A i \in 1..Len(steps') : i \in 1..Len(steps) \/ i = Len(steps')
    BY <2>1
  <2>3. \A i \in 1..Len(steps') : Shows(steps'[i])
    BY <1>l, <1>o, <2>1, <2>2
  <2> QED BY <1>l, <2>3 DEF StepRanOnItsInputs, Shows
<1>1. CASE StepCompletes
  <2>1. PICK c \in calls :
          /\ Awaited(c) /\ c.state = "returned"
          /\ LogStep([slot |-> pos, branch |-> HeadBranch, success |-> TRUE,
                      attempt |-> try, inputs |-> ResolvedInputs(HeadBranch), saw |-> c.saw])
    BY <1>1 DEF StepCompletes
  <2>2. PICK r : r = [slot |-> pos, branch |-> HeadBranch, success |-> TRUE,
                      attempt |-> try, inputs |-> ResolvedInputs(HeadBranch), saw |-> c.saw]
    OBVIOUS
  <2>3. r.inputs = Redacted(snap[HeadBranch]) /\ r.saw = c.saw /\ r.slot = pos
    BY <2>2 DEF ResolvedInputs
  <2>4. pipe' = pipe /\ at = "await" /\ snap[HeadBranch] \in Context /\ c.saw \in Context
    BY <1>1, <2>1, HeadShape DEF StepCompletes, Shape, CallOK
  <2>5. \A k \in Secrets : r.inputs[k] \in {Masked, Unset}
    BY <2>3, <2>4, RedactedContext
  <2>6. ~pipe[pos].par => ButForSets(c.saw, snap[HeadBranch])
    BY <2>1, <2>4 DEF Fresh, Awaited, HeadBranch
  <2>7. ~pipe[pos].par => \A k \in Keys : r.inputs[k] = Redacted(r.saw)[k] \/ r.saw[k].by = "set"
    BY <2>3, <2>4, <2>6, RedactedContext DEF ButForSets
  <2>8. Shows(r)
    BY <2>3, <2>5, <2>7 DEF Shows
  <2> QED BY <1>l, <2>1, <2>2, <2>4, <2>8
<1>2. CASE StepFails
  <2>1. LogStep(FailedRow) /\ pipe' = pipe /\ ~FailedRow.success
    BY <1>2 DEF StepFails, FailedRow
  <2>2. FailedRow.inputs = Redacted(snap[HeadBranch]) /\ snap[HeadBranch] \in Context
    BY <1>2, HeadShape DEF FailedRow, ResolvedInputs, StepFails, Shape
  <2> QED BY <1>l, <2>1, <2>2, RedactedContext DEF Shows
<1>3. CASE Start \/ SkipStep \/ SeedStep \/ StartStep \/ StartGroup \/ AskBranch \/ AllAsked \/ SeedBranch
           \/ NoteBranch \/ SubmitBranches \/ StartBranch \/ Retry \/ FinishGroup \/ StopRun \/ Finish
  BY <1>q, <1>3 DEF Start, SkipStep, SeedStep, StartStep, StartGroup, AskBranch, AllAsked, SeedBranch, NoteBranch,
                    SubmitBranches, StartBranch, Retry, FinishGroup, StopRun, Finish
<1>4. CASE SeedRaises \/ OutputRaises \/ LogRaises \/ StoreRaises \/ ClosingRaises \/ UNCHANGED vars
  BY <1>q, <1>4 DEF SeedRaises, OutputRaises, LogRaises, StoreRaises, ClosingRaises, Dies, vars
<1>5. ASSUME NEW c \in calls, CallStarts(c) \/ CallEnds(c) \/ CallSets(c) PROVE StepRanOnItsInputs'
  BY <1>q, <1>5 DEF CallStarts, CallEnds, CallSets
<1> QED BY <1>1, <1>2, <1>3, <1>4, <1>5 DEF Next

-----------------------------------------------------------------------------
(* Every step is accounted for.                                            *)

Final == StepEnd \cup {"step_skipped"}
Started == {"step_started"}

\* What the events say of branch b of slot s: nothing yet, that it was started,
\* or that it was skipped or started and ended, each once.
Untouched(s, b) == Ended(s, b, Final) = {} /\ Ended(s, b, Started) = {}
Begun(s, b) == Ended(s, b, Final) = {} /\ \E i \in Nat : Ended(s, b, Started) = {i}
Settled(s, b) ==
  \E i \in Nat :
    /\ Ended(s, b, Final) = {i}
    /\ \/ Ended(s, b, StepEnd) = {} /\ Ended(s, b, Started) = {}
       \/ Ended(s, b, StepEnd) = {i} /\ \E j \in Nat : Ended(s, b, Started) = {j}

Waits(b) == \E i \in 1..Len(todo) : todo[i] = b
InSlot == at \in {"asking", "seeding", "noting", "next", "await"}
Entering == at \in {"start", "slot", "seeded"}
Current(b) == at = "await" /\ b = HeadBranch
Pending(b) == (at = "asking" /\ b >= cur) \/ (Waits(b) /\ ~Current(b))

\* Slots behind the thread are settled and those ahead untouched; in the current
\* one the branches still to be turned to are untouched, the one at hand is begun.
Accounts ==
  /\ \A s \in 1..(pos - 1) : \A b \in Branches(s) : Settled(s, b)
  /\ \A s, b \in Nat : s > pos \/ (s = pos /\ Entering) => Untouched(s, b)
  /\ InSlot =>
       /\ \A i, j \in 1..Len(todo) : todo[i] = todo[j] => i = j
       /\ at = "asking" => \A i \in 1..Len(todo) : todo[i] < cur
       /\ \A b \in Branches(pos) :
            /\ Pending(b) => Untouched(pos, b)
            /\ Current(b) => Begun(pos, b)
            /\ ~Pending(b) /\ ~Current(b) => Settled(pos, b)

\* What the events say of a branch goes on being said.
Kept(s, b) ==
  /\ Untouched(s, b) => Untouched(s, b)'
  /\ Begun(s, b) => Begun(s, b)'
  /\ Settled(s, b) => Settled(s, b)'

LEMMA EmitEnded ==
  ASSUME Shape, NEW kind \in Kinds, NEW s \in Nat, NEW b \in Nat, Emit(Event(kind, s, b)),
         NEW t, NEW c, NEW K
  PROVE  /\ Len(events') \in Nat
         /\ kind \in K /\ t = s /\ c = b => Ended(t, c, K)' = Ended(t, c, K) \cup {Len(events')}
         /\ ~(kind \in K /\ t = s /\ c = b) => Ended(t, c, K)' = Ended(t, c, K)
<1>1. /\ Len(events') = Len(events) + 1 /\ Len(events) \in Nat
      /\ events'[Len(events')] = Event(kind, s, b) /\ \A i \in 1..Len(events) : events'[i] = events[i]
  BY EmitEffect
<1>2. \A i : i \in 1..Len(events') <=> i \in 1..Len(events) \/ i = Len(events')
  BY <1>1
<1>3. Ended(t, c, K)' = {i \in 1..Len(events') : events'[i].kind \in K /\ events'[i].slot = t /\ events'[i].branch = c}
  BY DEF Ended
<1>4. Event(kind, s, b).kind = kind /\ Event(kind, s, b).slot = s /\ Event(kind, s, b).branch = b
  BY DEF Event
<1> QED BY <1>1, <1>2, <1>3, <1>4 DEF Ended

\* An event that is no start and no end, or about another branch, says nothing.
LEMMA OtherEvent ==
  ASSUME Shape, NEW kind \in Kinds, NEW s \in Nat, NEW b \in Nat, Emit(Event(kind, s, b)),
         NEW t, NEW c, kind \notin Final \cup Started \/ t # s \/ c # b
  PROVE  Kept(t, c)
<1>1. /\ Ended(t, c, Final)' = Ended(t, c, Final)
      /\ Ended(t, c, Started)' = Ended(t, c, Started)
      /\ Ended(t, c, StepEnd)' = Ended(t, c, StepEnd)
  <2>1. ~(kind \in Final /\ t = s /\ c = b) /\ ~(kind \in Started /\ t = s /\ c = b)
        /\ ~(kind \in StepEnd /\ t = s /\ c = b)
    BY DEF Final
  <2> QED BY <2>1, EmitEnded
<1> QED BY <1>1 DEF Kept, Untouched, Begun, Settled

LEMMA NoEvent ==
  ASSUME events' = events, NEW t, NEW c
  PROVE  Kept(t, c)
<1>1. \A K : Ended(t, c, K)' = Ended(t, c, K)
  BY DEF Ended
<1> QED BY <1>1 DEF Kept, Untouched, Begun, Settled

LEMMA SkipSettles ==
  ASSUME Shape, NEW s \in Nat, NEW b \in Nat, Emit(Event("step_skipped", s, b)), Untouched(s, b)
  PROVE  Settled(s, b)'
<1>1. /\ "step_skipped" \in Kinds /\ "step_skipped" \in Final
      /\ "step_skipped" \notin Started /\ "step_skipped" \notin StepEnd
  BY DEF Kinds, Final, Started, StepEnd
<1>2. Ended(s, b, StepEnd) = {}
  BY DEF Untouched, Ended, Final
<1>3. /\ Len(events') \in Nat
      /\ Ended(s, b, Final)' = {Len(events')}
      /\ Ended(s, b, Started)' = {}
      /\ Ended(s, b, StepEnd)' = {}
  BY <1>1, <1>2, EmitEnded DEF Untouched
<1> QED BY <1>3 DEF Settled

LEMMA StartBegins ==
  ASSUME Shape, NEW s \in Nat, NEW b \in Nat, Emit(Event("step_started", s, b)), Untouched(s, b)
  PROVE  Begun(s, b)'
<1>1. "step_started" \in Kinds /\ "step_started" \notin Final /\ "step_started" \in Started
  BY DEF Kinds, Final, Started, StepEnd
<1>2. /\ Len(events') \in Nat
      /\ Ended(s, b, Final)' = {}
      /\ Ended(s, b, Started)' = {Len(events')}
  BY <1>1, EmitEnded DEF Untouched
<1> QED BY <1>2 DEF Begun

LEMMA EndSettles ==
  ASSUME Shape, NEW kind \in StepEnd, NEW s \in Nat, NEW b \in Nat, Emit(Event(kind, s, b)), Begun(s, b)
  PROVE  Settled(s, b)'
<1>1. kind \in Kinds /\ kind \in Final /\ kind \notin Started
  BY DEF Kinds, Final, Started, StepEnd
<1>2. Ended(s, b, StepEnd) = {}
  BY DEF Begun, Ended, Final
<1>3. PICK j \in Nat : Ended(s, b, Started) = {j}
  BY DEF Begun
<1>4. /\ Len(events') \in Nat
      /\ Ended(s, b, Final)' = {Len(events')}
      /\ Ended(s, b, Started)' = {j}
      /\ Ended(s, b, StepEnd)' = {Len(events')}
  BY <1>1, <1>2, <1>3, EmitEnded DEF Begun
<1> QED BY <1>4 DEF Settled

\* A step that says nothing new of other slots leaves their account as it is.
LEMMA OtherSlots ==
  ASSUME Shape, Accounts, \A t, c : t # pos => Kept(t, c)
  PROVE  /\ \A s \in 1..(pos - 1) : \A b \in Branches(s) : Settled(s, b)'
         /\ \A s, b \in Nat : s > pos => Untouched(s, b)'
<1>1. pos \in Nat
  BY PipeShape DEF Shape
<1>2. ASSUME NEW s \in 1..(pos - 1), NEW b \in Branches(s) PROVE Settled(s, b)'
  <2>1. s # pos
    BY <1>1
  <2> QED BY <2>1 DEF Accounts, Kept
<1>3. ASSUME NEW s \in Nat, NEW b \in Nat, s > pos PROVE Untouched(s, b)'
  <2>1. s # pos
    BY <1>1, <1>3
  <2> QED BY <1>3, <2>1 DEF Accounts, Kept
<1> QED BY <1>2, <1>3

\* The thread goes on to the next slot when this one is settled.
LEMMA SlotDone ==
  ASSUME Shape, Accounts, \A t, c : t # pos => Kept(t, c),
         pipe' = pipe, pos' = pos + 1, at' = "slot",
         NEW p, p = pos, \A b \in Branches(p) : Settled(p, b)'
  PROVE  Accounts'
<1> USE DEF Entering
<1>1. /\ \A s \in 1..(pos - 1) : \A b \in Branches(s) : Settled(s, b)'
      /\ \A s, b \in Nat : s > pos => Untouched(s, b)'
  BY OtherSlots
<1>2. pos \in Nat /\ ~InSlot'
  BY PipeShape DEF Shape, InSlot
<1>3. \A s : Branches(s)' = Branches(s)
  BY DEF Branches
<1>4. ASSUME NEW s \in 1..(pos' - 1), NEW b \in Branches(s) PROVE Settled(s, b)'
  <2>1. s \in 1..(pos - 1) \/ s = p
    BY <1>2
  <2> QED BY <1>1, <1>4, <2>1
<1>5. ASSUME NEW s \in Nat, NEW b \in Nat, s > pos' \/ s = pos' PROVE Untouched(s, b)'
  <2>1. s > pos
    BY <1>2, <1>5
  <2> QED BY <1>1, <2>1
<1> QED BY <1>2, <1>3, <1>4, <1>5 DEF Accounts

\* The thread stays in its slot.
LEMMA SameSlot ==
  ASSUME Shape, Accounts, \A t, c : t # pos => Kept(t, c),
         pipe' = pipe, pos' = pos, ~Entering',
         InSlot' =>
           /\ \A i, j \in 1..Len(todo') : todo'[i] = todo'[j] => i = j
           /\ at' = "asking" => \A i \in 1..Len(todo') : todo'[i] < cur'
           /\ \A b \in Branches(pos) :
                /\ Pending(b)' => Untouched(pos, b)'
                /\ Current(b)' => Begun(pos, b)'
                /\ ~Pending(b)' /\ ~Current(b)' => Settled(pos, b)'
  PROVE  Accounts'
<1> USE DEF Entering
<1>1. /\ \A s \in 1..(pos - 1) : \A b \in Branches(s) : Settled(s, b)'
      /\ \A s, b \in Nat : s > pos => Untouched(s, b)'
  BY OtherSlots
<1>2. \A s : Branches(s)' = Branches(s)
  BY DEF Branches
<1>3. \A s \in 1..(pos' - 1) : \A b \in Branches(s)' : Settled(s, b)'
  BY <1>1, <1>2
<1>4. \A s, b \in Nat : s > pos' \/ (s = pos' /\ Entering') => Untouched(s, b)'
  BY <1>1
<1>5. ASSUME InSlot', NEW b \in Branches(pos)'
      PROVE  /\ Pending(b)' => Untouched(pos, b)'
             /\ Current(b)' => Begun(pos, b)'
             /\ ~Pending(b)' /\ ~Current(b)' => Settled(pos, b)'
  <2>1. PICK p : p = pos
    OBVIOUS
  <2>2. b \in Branches(p)
    BY <1>5, <1>2, <2>1
  <2>3. /\ Pending(b)' => Untouched(p, b)'
        /\ Current(b)' => Begun(p, b)'
        /\ ~Pending(b)' /\ ~Current(b)' => Settled(p, b)'
    BY <1>5, <2>1, <2>2
  <2> QED BY <2>1, <2>3
<1> QED BY <1>3, <1>4, <1>5 DEF Accounts

\* Collecting the first of the branches leaves the others waiting.
LEMMA TailWaits ==
  ASSUME todo \in Seq(Nat), todo # << >>, todo' = Tail(todo),
         \A i, j \in 1..Len(todo) : todo[i] = todo[j] => i = j
  PROVE  /\ \A i, j \in 1..Len(todo') : todo'[i] = todo'[j] => i = j
         /\ \A b : Waits(b)' <=> Waits(b) /\ b # HeadBranch
<1>1. PICK n \in Nat : n = Len(todo)
  OBVIOUS
<1>2. n > 0 /\ HeadBranch = todo[1]
  BY <1>1 DEF HeadBranch
<1>3. Len(todo') = n - 1 /\ \A i \in 1..(n - 1) : todo'[i] = todo[i + 1]
  BY <1>1, <1>2
<1>4. \A i, j \in 1..Len(todo') : todo'[i] = todo'[j] => i = j
  BY <1>1, <1>2, <1>3
<1>5. ASSUME NEW b PROVE Waits(b)' <=> Waits(b) /\ b # HeadBranch
  <2>1. Waits(b)' <=> \E i \in 1..(n - 1) : todo[i + 1] = b
    BY <1>2, <1>3 DEF Waits
  <2>2. Waits(b) <=> \E i \in 1..n : todo[i] = b
    BY <1>1 DEF Waits
  <2>3. ASSUME NEW i \in 1..(n - 1), todo[i + 1] = b PROVE Waits(b) /\ b # HeadBranch
    <3>1. i + 1 \in 1..n /\ 1 \in 1..n /\ i + 1 # 1
      BY <1>2
    <3> QED BY <1>1, <1>2, <2>2, <2>3, <3>1
  <2>4. ASSUME NEW i \in 1..n, todo[i] = b, b # HeadBranch PROVE \E k \in 1..(n - 1) : todo[k + 1] = b
    <3>1. i # 1
      BY <1>2, <2>4
    <3>2. i - 1 \in 1..(n - 1) /\ (i - 1) + 1 = i
      BY <3>1
    <3> QED BY <2>4, <3>2
  <2> QED BY <2>1, <2>2, <2>3, <2>4
<1> QED BY <1>4, <1>5

\* The thread goes on after the branch it awaited when that one is settled.
LEMMA BranchDone ==
  ASSUME Shape, Accounts, at = "await", GoOn, pipe' = pipe,
         NEW p, p = pos, NEW h, h = HeadBranch,
         \A t, c : t # p \/ c # h => Kept(t, c), Settled(p, h)'
  PROVE  Accounts'
<1>1. /\ pos \in 1..Len(pipe) /\ todo # << >> /\ todo \in Seq(Nat) /\ InSlot
      /\ h \in Branches(p) /\ (~pipe[p].par => Branches(p) = {1})
  BY PipeShape, HeadShape DEF Shape, InSlot
<1>2. CASE ~pipe[p].par
  <2>1. \A b \in Branches(p) : Settled(p, b)'
    BY <1>1, <1>2
  <2> QED BY <1>2, <2>1, SlotDone DEF GoOn
<1>3. CASE pipe[p].par
  <2>1. at' = "next" /\ todo' = Tail(todo) /\ pos' = p
    BY <1>3 DEF GoOn
  <2>2. /\ \A i, j \in 1..Len(todo') : todo'[i] = todo'[j] => i = j
        /\ \A b : Waits(b)' <=> Waits(b) /\ b # h
    BY <1>1, <2>1, TailWaits DEF Accounts
  <2>3. \A b : (Pending(b)' <=> Pending(b)) /\ ~Current(b)' /\ (Current(b) <=> b = h)
    BY <2>1, <2>2 DEF Pending, Current
  <2>4. ASSUME NEW b \in Branches(p)
        PROVE  (Pending(b)' => Untouched(p, b)') /\ (~Pending(b)' => Settled(p, b)')
    <3>1. CASE b = h
      BY <2>3, <3>1 DEF Pending
    <3>2. CASE b # h
      <4>1. (Pending(b) => Untouched(p, b)) /\ (~Pending(b) => Settled(p, b))
        BY <1>1, <2>3, <3>2 DEF Accounts
      <4> QED BY <2>3, <3>2, <4>1 DEF Kept
    <3> QED BY <3>1, <3>2
  <2> QED BY <2>1, <2>2, <2>3, <2>4, SameSlot DEF Entering
<1> QED BY <1>2, <1>3

LEMMA AccountsStep == Shape /\ Accounts /\ [Next]_vars => Accounts'
<1> SUFFICES ASSUME Shape, Accounts, [Next]_vars PROVE Accounts'
  OBVIOUS
<1> USE DEF Entering
<1>p. PICK p \in Nat : p = pos
  BY PipeShape DEF Shape
<1>n. /\ pos \in 1..Len(pipe) => Branches(p) \subseteq Nat \ {0} /\ (~pipe[p].par => Branches(p) = {1})
      /\ at \in {"next", "await"} /\ todo # << >> => HeadBranch \in Branches(p)
      /\ at = "seeded" => pos \in 1..Len(pipe) /\ ~pipe[p].par
      /\ InSlot => pos \in 1..Len(pipe)
      /\ InSlot => \A i \in 1..Len(todo) : todo[i] \in Branches(p)
      /\ todo \in Seq(Nat) /\ Len(todo) \in Nat /\ cur \in Nat \ {0}
  BY <1>p, PipeShape, HeadShape DEF Shape, InSlot
<1>b. \A s : pipe' = pipe => Branches(s)' = Branches(s)
  BY DEF Branches
<1>q. ASSUME events' = events PROVE \A t, c : Kept(t, c)
  BY <1>q, NoEvent
\* Steps after which nothing of the slot is claimed.
<1>o. ASSUME \A t, c : t # pos => Kept(t, c), pipe' = pipe, pos' = pos, at' \in {"stopping", "over", "dead"}
      PROVE  Accounts'
  BY <1>o, SameSlot DEF InSlot
\* Steps that leave the slot where it is.
<1>s. ASSUME \A t, c : Kept(t, c), UNCHANGED <<pipe, pos, at, cur, todo>>
      PROVE  Accounts'
  <2>1. \A b : (Pending(b)' <=> Pending(b)) /\ (Current(b)' <=> Current(b))
    BY <1>s DEF Pending, Current, Waits, HeadBranch
  <2>2. \A s : Branches(s)' = Branches(s)
    BY <1>s, <1>b
  <2>3. ASSUME InSlot
        PROVE  \A b \in Branches(p) : /\ Pending(b) => Untouched(p, b)'
                                      /\ Current(b) => Begun(p, b)'
                                      /\ ~Pending(b) /\ ~Current(b) => Settled(p, b)'
    BY <1>p, <1>s, <2>3 DEF Accounts, Kept
  <2>4. /\ \A s \in 1..(pos - 1) : \A b \in Branches(s) : Settled(s, b)'
        /\ \A s, b \in Nat : s > pos \/ (s = pos /\ Entering) => Untouched(s, b)'
    BY <1>s DEF Accounts, Kept
  <2>5. InSlot' <=> InSlot
    BY <1>s DEF InSlot
  <2>6. pos' = p
    BY <1>p, <1>s
  <2>7. ASSUME InSlot', NEW b \in Branches(pos)'
        PROVE  /\ Pending(b)' => Untouched(pos, b)'
               /\ Current(b)' => Begun(pos, b)'
               /\ ~Pending(b)' /\ ~Current(b)' => Settled(pos, b)'
    BY <2>1, <2>2, <2>3, <2>5, <2>6, <2>7
  <2> QED BY <1>s, <2>2, <2>4, <2>5, <2>7 DEF Accounts
<1>1. CASE Start
  <2>1. \A t, c : Kept(t, c)
    BY <1>1, <1>q DEF Start
  <2>2. \A s : Branches(s)' = Branches(s)
    BY <1>1, <1>b DEF Start
  <2> QED BY <1>1, <2>1, <2>2 DEF Start, Accounts, Kept, InSlot
<1>z. CASE SeedStep
  <2>1. \A t, c : Kept(t, c)
    BY <1>z, <1>q DEF SeedStep
  <2>2. \A s : Branches(s)' = Branches(s)
    BY <1>z, <1>b DEF SeedStep
  <2> QED BY <1>z, <2>1, <2>2 DEF SeedStep, Accounts, Kept, InSlot
<1>2. CASE SkipStep
  <2>1. Branches(p) = {1} /\ Untouched(p, 1) /\ Emit(Event("step_skipped", p, 1))
    BY <1>2, <1>p, <1>n DEF SkipStep, Accounts, Shape
  <2>2. Settled(p, 1)'
    BY <2>1, SkipSettles
  <2>3. \A t, c : t # pos => Kept(t, c)
    BY <2>1, <1>p, OtherEvent DEF Kinds
  <2> QED BY <1>2, <1>p, <2>1, <2>2, <2>3, SlotDone DEF SkipStep
<1>3. CASE StartStep
  <2>1. Branches(p) = {1} /\ Untouched(p, 1) /\ Emit(Event("step_started", p, 1))
    BY <1>3, <1>p, <1>n DEF StartStep, Accounts, Shape
  <2>2. Begun(p, 1)'
    BY <2>1, StartBegins
  <2>3. \A t, c : t # pos => Kept(t, c)
    BY <2>1, <1>p, OtherEvent DEF Kinds
  <2>4. at' = "await" /\ todo' = <<1>> /\ pos' = p /\ pipe' = pipe
    BY <1>3, <1>p DEF StartStep
  <2>5. Current(1)' /\ ~Pending(1)'
    BY <2>4 DEF Current, Pending, HeadBranch
  <2> QED BY <1>p, <2>1, <2>2, <2>3, <2>4, <2>5, SameSlot
<1>4. CASE StartGroup
  <2>1. \A t, c : Kept(t, c)
    BY <1>4, <1>p, OtherEvent DEF StartGroup, Kinds, Final, Started, StepEnd
  <2>2. \A b \in Branches(p) : Untouched(p, b)'
    BY <1>4, <1>p, <1>n, <2>1 DEF StartGroup, Accounts, Kept, Shape
  <2>3. at' = "asking" /\ cur' = 1 /\ todo' = << >> /\ pos' = p /\ pipe' = pipe
    BY <1>4, <1>p DEF StartGroup
  <2>4. \A b \in Branches(p) : Pending(b)' /\ ~Current(b)'
    BY <1>4, <1>p, <1>n, <2>3 DEF Pending, Current, StartGroup, Shape
  <2> QED BY <1>p, <2>1, <2>2, <2>3, <2>4, SameSlot
<1>5. CASE AskBranch
  <2>1. cur \in Branches(p) /\ at = "asking" /\ InSlot /\ pos \in 1..Len(pipe)
    BY <1>5, <1>p, <1>n DEF AskBranch, InSlot
  <2>2. at' = "asking" /\ cur' = cur + 1 /\ pos' = p /\ pipe' = pipe
    BY <1>5, <1>p DEF AskBranch
  <2>3. \A i \in 1..Len(todo) : todo[i] < cur /\ todo[i] \in Nat
    BY <1>n, <2>1 DEF Accounts
  <2>4. CASE todo' = Append(todo, cur) /\ events' = events
    <3>1. Len(todo') = Len(todo) + 1 /\ todo'[Len(todo) + 1] = cur /\ \A i \in 1..Len(todo) : todo'[i] = todo[i]
      BY <1>n, <2>4
    <3>2. \A i \in 1..Len(todo') : i \in 1..Len(todo) \/ i = Len(todo) + 1
      BY <1>n, <3>1
    <3>3. \A i \in 1..Len(todo') : todo'[i] < cur'
      BY <1>n, <2>2, <2>3, <3>1, <3>2
    <3>4. \A i, j \in 1..Len(todo') : todo'[i] = todo'[j] => i = j
      <4>1. \A i, j \in 1..Len(todo) : todo[i] = todo[j] => i = j
        BY <2>1 DEF Accounts
      <4>2. \A i \in 1..Len(todo) : todo[i] # cur
        BY <1>n, <2>3
      <4> QED BY <3>1, <3>2, <4>1, <4>2
    <3>5. \A b \in Branches(p) : (Pending(b)' <=> Pending(b)) /\ ~Current(b)' /\ ~Current(b)
      <4> SUFFICES ASSUME NEW b \in Branches(p)
                   PROVE  (Pending(b)' <=> Pending(b)) /\ ~Current(b)' /\ ~Current(b)
        OBVIOUS
      <4>1. b \in Nat
        BY <1>n, <2>1
      <4>2. Waits(b)' <=> Waits(b) \/ b = cur
        <5>1. Waits(b)' <=> \E i \in 1..Len(todo') : todo'[i] = b
          BY DEF Waits
        <5>2. 1..Len(todo') = 1..Len(todo) \cup {Len(todo) + 1}
          BY <1>n, <3>1
        <5> QED BY <3>1, <5>1, <5>2 DEF Waits
      <4>3. ~Current(b)' /\ ~Current(b)
        BY <2>1, <2>2 DEF Current
      <4> QED BY <1>n, <2>1, <2>2, <4>1, <4>2, <4>3 DEF Pending
    <3>6. \A t, c : Kept(t, c)
      BY <1>q, <2>4
    <3>7. \A b \in Branches(p) : /\ Pending(b) => Untouched(p, b)'
                                 /\ ~Pending(b) => Settled(p, b)'
      BY <1>p, <2>1, <3>5, <3>6 DEF Accounts, Kept
    <3> QED BY <1>p, <2>2, <3>3, <3>4, <3>5, <3>6, <3>7, SameSlot
  <2>5. CASE todo' = todo /\ Emit(Event("step_skipped", p, cur))
    <3>1. Pending(cur) /\ \A b : ~Current(b) /\ ~Current(b)'
      BY <2>1, <2>2, <1>n DEF Pending, Current
    <3>2. Untouched(p, cur)
      BY <1>p, <2>1, <3>1 DEF Accounts
    <3>3. PICK k \in Nat : k = cur
      BY <1>n
    <3>4. Settled(p, k)'
      BY <2>5, <3>2, <3>3, SkipSettles
    <3>5. \A t, c : t # p \/ c # k => Kept(t, c)
      BY <2>5, <3>3, OtherEvent DEF Kinds
    <3>6. ~Waits(k)
      BY <1>n, <2>3, <3>3 DEF Waits
    <3>7. \A b \in Branches(p) : Pending(b)' <=> Pending(b) /\ b # k
      <4> SUFFICES ASSUME NEW b \in Branches(p) PROVE Pending(b)' <=> Pending(b) /\ b # k
        OBVIOUS
      <4>1. b \in Nat
        BY <1>n, <2>1
      <4>2. Waits(b)' <=> Waits(b)
        BY <2>5 DEF Waits
      <4> QED BY <1>n, <2>1, <2>2, <3>1, <3>3, <3>6, <4>1, <4>2 DEF Pending
    <3>8. \A b \in Branches(p) : /\ Pending(b)' => Untouched(p, b)'
                                 /\ ~Pending(b)' => Settled(p, b)'
      <4> SUFFICES ASSUME NEW b \in Branches(p)
                   PROVE  (Pending(b)' => Untouched(p, b)') /\ (~Pending(b)' => Settled(p, b)')
        OBVIOUS
      <4>1. CASE b = k
        BY <3>4, <3>7, <4>1
      <4>2. CASE b # k
        <5>1. Kept(p, b)
          BY <3>5, <4>2
        <5>2. (Pending(b) => Untouched(p, b)) /\ (~Pending(b) => Settled(p, b))
          BY <1>p, <2>1, <3>1 DEF Accounts
        <5> QED BY <3>7, <4>2, <5>1, <5>2 DEF Kept
      <4> QED BY <4>1, <4>2
    <3>9. \A i \in 1..Len(todo') : todo'[i] < cur'
      BY <1>n, <2>2, <2>3, <2>5
    <3>10. \A i, j \in 1..Len(todo') : todo'[i] = todo'[j] => i = j
      BY <2>1, <2>5 DEF Accounts
    <3> QED BY <1>p, <2>2, <3>1, <3>5, <3>8, <3>9, <3>10, SameSlot
  <2> QED BY <1>5, <1>p, <2>4, <2>5 DEF AskBranch
<1>6. CASE AllAsked
  <2>1. at = "asking" /\ cur \notin Branches(p) /\ InSlot /\ pos \in 1..Len(pipe)
    BY <1>6, <1>p, <1>n DEF AllAsked, InSlot
  <2>2. at' = "seeding" /\ todo' = todo /\ pos' = p /\ pipe' = pipe /\ \A t, c : Kept(t, c)
    BY <1>6, <1>p, <1>q DEF AllAsked
  <2>3. ASSUME NEW b \in Branches(p) PROVE (Pending(b)' <=> Pending(b)) /\ ~Current(b)' /\ ~Current(b)
    <3>1. ~(b >= cur)
      <4>1. PICK n \in Nat : Branches(p) = 1..n
        BY <1>p, <2>1, PipeShape DEF Branches, Shape
      <4> QED BY <1>n, <2>1, <4>1
    <3>2. Waits(b)' <=> Waits(b)
      BY <2>2 DEF Waits
    <3> QED BY <2>1, <2>2, <3>1, <3>2 DEF Pending, Current
  <2>4. \A b \in Branches(p) : (Pending(b) => Untouched(p, b)') /\ (~Pending(b) => Settled(p, b)')
    BY <1>p, <2>1, <2>2, <2>3 DEF Accounts, Kept
  <2>5. \A i, j \in 1..Len(todo') : todo'[i] = todo'[j] => i = j
    BY <2>1, <2>2 DEF Accounts
  <2> QED BY <1>p, <2>2, <2>3, <2>4, <2>5, SameSlot
<1>7. ASSUME SeedBranch \/ NoteBranch \/ SubmitBranches PROVE Accounts'
  <2>1. at \in {"seeding", "noting"} /\ InSlot
    BY <1>7 DEF SeedBranch, NoteBranch, SubmitBranches, InSlot
  <2>2. at' \in {"seeding", "noting", "next"} /\ todo' = todo /\ pos' = p /\ pipe' = pipe /\ \A t, c : Kept(t, c)
    BY <1>7, <1>p, <1>q DEF SeedBranch, NoteBranch, SubmitBranches
  <2>3. \A b : (Pending(b)' <=> Pending(b)) /\ ~Current(b)' /\ ~Current(b)
    BY <2>1, <2>2 DEF Pending, Current, Waits
  <2>4. \A b \in Branches(p) : (Pending(b) => Untouched(p, b)') /\ (~Pending(b) => Settled(p, b)')
    BY <1>p, <2>1, <2>2, <2>3 DEF Accounts, Kept
  <2>5. \A i, j \in 1..Len(todo') : todo'[i] = todo'[j] => i = j
    BY <2>1, <2>2 DEF Accounts
  <2> QED BY <1>p, <2>2, <2>3, <2>4, <2>5, SameSlot
<1>8. CASE StartBranch
  <2>1. at = "next" /\ todo # << >> /\ InSlot
    BY <1>8 DEF StartBranch, InSlot
  <2>2. PICK h \in Branches(p) : h = HeadBranch /\ h = todo[1] /\ h \in Nat
    BY <1>p, <1>n, <2>1, HeadShape DEF HeadBranch
  <2>3. at' = "await" /\ todo' = todo /\ pos' = p /\ pipe' = pipe /\ Emit(Event("step_started", p, h))
    BY <1>8, <1>p, <2>2 DEF StartBranch
  <2>4. Waits(h) /\ \A b : Waits(b)' <=> Waits(b)
    BY <1>n, <2>1, <2>2, <2>3 DEF Waits
  <2>5. \A b : (Current(b)' <=> b = h) /\ ~Current(b) /\ (Pending(b)' <=> Waits(b) /\ b # h) /\ (Pending(b) <=> Waits(b))
    BY <2>1, <2>2, <2>3, <2>4 DEF Current, Pending, HeadBranch
  <2>6. Untouched(p, h)
    BY <1>p, <2>1, <2>4, <2>5 DEF Accounts
  <2>7. Begun(p, h)'
    BY <2>2, <2>3, <2>6, StartBegins
  <2>8. \A t, c : t # p \/ c # h => Kept(t, c)
    BY <2>2, <2>3, OtherEvent DEF Kinds
  <2>9. ASSUME NEW b \in Branches(p)
        PROVE  /\ Pending(b)' => Untouched(p, b)'
               /\ Current(b)' => Begun(p, b)'
               /\ ~Pending(b)' /\ ~Current(b)' => Settled(p, b)'
    <3>1. CASE b = h
      BY <2>5, <2>7, <3>1
    <3>2. CASE b # h
      <4>1. (Waits(b) => Untouched(p, b)) /\ (~Waits(b) => Settled(p, b))
        BY <1>p, <2>1, <2>5 DEF Accounts
      <4> QED BY <2>5, <2>8, <3>2, <4>1 DEF Kept
    <3> QED BY <3>1, <3>2
  <2>10. \A i, j \in 1..Len(todo') : todo'[i] = todo'[j] => i = j
    BY <2>1, <2>3 DEF Accounts
  <2> QED BY <1>p, <2>3, <2>8, <2>9, <2>10, SameSlot
\* The awaited branch ends.
<1>e. ASSUME NEW kind \in StepEnd, at = "await", Emit(Event(kind, pos, HeadBranch))
      PROVE  \E h : /\ h = HeadBranch /\ Settled(p, h)'
                    /\ \A t, c : t # p \/ c # h => Kept(t, c)
  <2>1. todo # << >> /\ InSlot
    BY <1>e DEF Shape, InSlot
  <2>2. PICK h \in Branches(p) : h = HeadBranch /\ h \in Nat
    BY <1>e, <1>p, <2>1, HeadShape
  <2>3. Begun(p, h)
    BY <1>e, <1>p, <2>1, <2>2 DEF Accounts, Current
  <2>4. Emit(Event(kind, p, h)) /\ kind \in Kinds
    BY <1>e, <1>p, <2>2 DEF StepEnd, Kinds
  <2>5. Settled(p, h)'
    BY <2>2, <2>3, <2>4, EndSettles
  <2>6. \A t, c : t # p \/ c # h => Kept(t, c)
    BY <2>2, <2>4, OtherEvent
  <2> QED BY <2>2, <2>5, <2>6
<1>9. CASE StepCompletes
  <2>1. at = "await" /\ GoOn /\ pipe' = pipe /\ Emit(Event("step_completed", pos, HeadBranch))
    BY <1>9 DEF StepCompletes
  <2>2. PICK h : /\ h = HeadBranch /\ Settled(p, h)'
                 /\ \A t, c : t # p \/ c # h => Kept(t, c)
    BY <1>e, <2>1 DEF StepEnd
  <2> QED BY <1>p, <2>1, <2>2, BranchDone
<1>10. CASE Retry
  <2>1. todo # << >> /\ at = "await"
    BY <1>10 DEF Retry, Shape
  <2>2. PICK h \in Nat : h = HeadBranch
    BY <2>1, HeadShape
  <2>3. Emit(Event("step_retrying", p, h))
    BY <1>10, <1>p, <2>2 DEF Retry
  <2>4. \A t, c : Kept(t, c)
    BY <2>3, OtherEvent DEF Kinds, Final, Started, StepEnd
  <2> QED BY <1>10, <1>s, <2>4 DEF Retry
<1>11. CASE StepFails
  <2>1. /\ at = "await" /\ pipe' = pipe /\ Emit(Event("step_failed", pos, HeadBranch))
        /\ GoOn \/ (at' = "stopping" /\ pos' = pos)
    BY <1>11 DEF StepFails
  <2>2. PICK h : /\ h = HeadBranch /\ Settled(p, h)'
                 /\ \A t, c : t # p \/ c # h => Kept(t, c)
    BY <1>e, <2>1 DEF StepEnd
  <2>3. CASE GoOn
    BY <1>p, <2>1, <2>2, <2>3, BranchDone
  <2>4. CASE at' = "stopping" /\ pos' = pos
    BY <1>o, <1>p, <2>1, <2>2, <2>4
  <2> QED BY <2>1, <2>3, <2>4
<1>12. CASE FinishGroup
  <2>1. at = "next" /\ todo = << >> /\ InSlot /\ pipe' = pipe /\ Emit(Event("group_completed", p, 0))
    BY <1>12, <1>p DEF FinishGroup, InSlot
  <2>2. \A t, c : Kept(t, c)
    BY <2>1, OtherEvent DEF Kinds, Final, Started, StepEnd
  <2>3. \A b : ~Pending(b) /\ ~Current(b)
    BY <2>1 DEF Pending, Current, Waits
  <2>4. \A b \in Branches(p) : Settled(p, b)'
    BY <1>p, <2>1, <2>2, <2>3 DEF Accounts, Kept
  <2>5. CASE at' = "stopping" /\ pos' = pos
    BY <1>o, <2>1, <2>2, <2>5
  <2>6. CASE at' = "slot" /\ pos' = pos + 1
    BY <1>p, <2>1, <2>2, <2>4, <2>6, SlotDone
  <2> QED BY <1>12, <2>5, <2>6 DEF FinishGroup
<1>13. CASE StopRun \/ Finish
  <2>1. PICK kind \in RunEnd : Emit(Event(kind, 0, 0))
    BY <1>13 DEF StopRun, Finish, RunEnd
  <2>2. \A t, c : Kept(t, c)
    BY <2>1, OtherEvent DEF Kinds, Final, Started, StepEnd, RunEnd
  <2> QED BY <1>13, <1>o, <2>2 DEF StopRun, Finish
<1>14. CASE SeedRaises \/ OutputRaises \/ LogRaises \/ StoreRaises \/ ClosingRaises
  BY <1>14, <1>o, <1>q DEF SeedRaises, OutputRaises, LogRaises, StoreRaises, ClosingRaises, Dies
<1>15. ASSUME NEW c \in calls, CallStarts(c) \/ CallEnds(c) \/ CallSets(c) PROVE Accounts'
  BY <1>15, <1>s, <1>q DEF CallStarts, CallEnds, CallSets
<1>16. CASE UNCHANGED vars
  BY <1>16, <1>s, <1>q DEF vars
<1> QED BY <1>1, <1>2, <1>3, <1>4, <1>5, <1>6, <1>7, <1>8, <1>9, <1>10, <1>11, <1>12, <1>13, <1>14, <1>15, <1>16, <1>z DEF Next

-----------------------------------------------------------------------------
(* The history and the events.                                             *)

\* The ends are finitely many, and each has a place among them that the next
\* one does not change.
LEMMA EndsCount ==
  ASSUME Shape
  PROVE  /\ IsFiniteSet(Ends) /\ Cardinality(Ends) \in Nat
         /\ \A i \in Ends : Place(i) \in 1..Cardinality(Ends)
<1>1. Len(events) \in Nat
  BY DEF Shape
<1>2. IsFiniteSet(1..Len(events)) /\ Ends \in SUBSET (1..Len(events))
  BY <1>1, FS_Interval DEF Ends
<1>3. IsFiniteSet(Ends) /\ Cardinality(Ends) \in Nat
  BY <1>2, FS_Subset, FS_CardinalityType
<1>4. ASSUME NEW i \in Ends PROVE Place(i) \in 1..Cardinality(Ends)
  <2> DEFINE upto == {j \in Ends : j <= i}
  <2>1. i \in upto /\ upto \in SUBSET Ends
    BY <1>1 DEF Ends
  <2>2. IsFiniteSet(upto) /\ Cardinality(upto) \in Nat /\ Cardinality(upto) <= Cardinality(Ends)
    BY <1>3, <2>1, FS_Subset, FS_CardinalityType
  <2>3. Cardinality(upto) # 0
    BY <2>1, <2>2, FS_EmptySet
  <2> QED BY <1>3, <2>2, <2>3 DEF Place
<1> QED BY <1>3, <1>4

LEMMA OtherEnds ==
  ASSUME Shape, HistoryMatchesEvents, steps' = steps,
         NEW kind \in Kinds \ StepEnd, NEW s \in Nat, NEW b \in Nat, Emit(Event(kind, s, b))
  PROVE  HistoryMatchesEvents'
<1>1. /\ Len(events') = Len(events) + 1 /\ Len(events) \in Nat
      /\ events'[Len(events')] = Event(kind, s, b) /\ \A i \in 1..Len(events) : events'[i] = events[i]
  BY EmitEffect
<1>2. Event(kind, s, b).kind \notin StepEnd
  BY DEF Event
<1>3. \A i \in 1..Len(events') : i \in 1..Len(events) \/ i = Len(events')
  BY <1>1
<1>4. \A i \in 1..Len(events) : i \in 1..Len(events')
  BY <1>1
<1>5. Ends' = Ends
  BY <1>1, <1>2, <1>3, <1>4 DEF Ends
<1>6. \A i \in Ends : events'[i] = events[i]
  BY <1>1 DEF Ends
<1> QED BY <1>5, <1>6 DEF HistoryMatchesEvents, Place

\* A logged row and the event of the same step go together.
LEMMA OneMoreEnd ==
  ASSUME Shape, HistoryMatchesEvents, NEW r \in RowSet, LogStep(r),
         NEW kind \in StepEnd, (kind = "step_completed") = r.success,
         NEW s \in Nat, NEW b \in Nat, r.slot = s, r.branch = b, Emit(Event(kind, s, b))
  PROVE  HistoryMatchesEvents'
<1>0. kind \in Kinds
  BY DEF Kinds, StepEnd
<1>1. /\ Len(events') = Len(events) + 1 /\ Len(events) \in Nat
      /\ events'[Len(events')] = Event(kind, s, b) /\ \A i \in 1..Len(events) : events'[i] = events[i]
  BY <1>0, EmitEffect
<1>2. PICK n \in Nat : n = Len(events')
  BY <1>1
<1>3. n \notin Ends /\ \A i \in Ends : i \in 1..Len(events) /\ i < n /\ i \in Nat
  BY <1>1, <1>2 DEF Ends
<1>4. Ends' = Ends \cup {n}
  <2>1. \A i \in 1..Len(events') : i \in 1..Len(events) \/ i = n
    BY <1>1, <1>2
  <2>2. n \in 1..Len(events') /\ \A i \in 1..Len(events) : i \in 1..Len(events')
    BY <1>1, <1>2
  <2>3. events'[n].kind = kind
    BY <1>1, <1>2 DEF Event
  <2> QED BY <1>1, <2>1, <2>2, <2>3 DEF Ends
<1>5. /\ Len(steps') = Len(steps) + 1 /\ Len(steps) \in Nat
      /\ steps'[Len(steps')] = r /\ \A i \in 1..Len(steps) : steps'[i] = steps[i]
  BY LogEffect
<1>6. IsFiniteSet(Ends) /\ \A i \in Ends : Place(i) \in 1..Len(steps)
  BY EndsCount DEF HistoryMatchesEvents
<1>7. Cardinality(Ends') = Len(steps')
  <2>1. Cardinality(Ends \cup {n}) = Cardinality(Ends) + 1
    BY <1>3, <1>6, FS_AddElement
  <2> QED BY <1>4, <1>5, <2>1 DEF HistoryMatchesEvents
<1>8. Place(n)' = Len(steps')
  <2>1. \A j \in Ends' : j <= n
    BY <1>2, <1>3, <1>4
  <2>2. {j \in Ends' : j <= n} = Ends'
    BY <2>1
  <2> QED BY <1>7, <2>2 DEF Place
<1>9. ASSUME NEW i \in Ends PROVE Place(i)' = Place(i)
  <2>1. ~(n <= i)
    BY <1>2, <1>3
  <2>2. {j \in Ends' : j <= i} = {j \in Ends : j <= i}
    BY <1>4, <2>1
  <2> QED BY <2>2 DEF Place
<1>10. ASSUME NEW i \in Ends'
       PROVE  /\ events'[i].slot = steps'[Place(i)'].slot
              /\ events'[i].branch = steps'[Place(i)'].branch
              /\ (events'[i].kind = "step_completed") = steps'[Place(i)'].success
  <2>1. CASE i = n
    <3>1. steps'[Place(i)'] = r /\ events'[i] = Event(kind, s, b)
      BY <1>1, <1>2, <1>5, <1>8, <2>1
    <3> QED BY <3>1 DEF Event
  <2>2. CASE i \in Ends
    <3>1. events'[i] = events[i]
      BY <1>1, <1>3, <2>2
    <3>2. steps'[Place(i)'] = steps[Place(i)]
      BY <1>5, <1>6, <1>9, <2>2
    <3> QED BY <2>2, <3>1, <3>2 DEF HistoryMatchesEvents
  <2> QED BY <1>4, <2>1, <2>2
<1> QED BY <1>7, <1>10 DEF HistoryMatchesEvents

LEMMA HistoryStep == Shape /\ HistoryMatchesEvents /\ [Next]_vars => HistoryMatchesEvents'
<1> SUFFICES ASSUME Shape, HistoryMatchesEvents, [Next]_vars PROVE HistoryMatchesEvents'
  OBVIOUS
<1>q. ASSUME steps' = steps, events' = events PROVE HistoryMatchesEvents'
  BY <1>q DEF HistoryMatchesEvents, Ends, Place
<1>n. pos \in Nat /\ (at \in {"next", "await"} /\ todo # << >> => HeadBranch \in Nat)
  BY PipeShape, HeadShape DEF Shape
<1>k. Kinds \ StepEnd = {"group_started", "group_completed", "step_skipped", "step_started",
                         "step_retrying", "run_completed", "run_failed"}
  BY DEF Kinds, StepEnd
<1>a. at = "await" => todo # << >> /\ HeadBranch \in Branches(pos) /\ snap[HeadBranch] \in Context
  BY HeadShape DEF Shape
<1>1. CASE Start \/ SeedStep \/ AllAsked \/ SeedBranch \/ NoteBranch \/ SubmitBranches
  BY <1>1, <1>q DEF Start, SeedStep, AllAsked, SeedBranch, NoteBranch, SubmitBranches
<1>2. CASE SkipStep
  BY <1>2, <1>k, <1>n, OtherEnds DEF SkipStep
<1>3. CASE StartStep
  BY <1>3, <1>k, <1>n, OtherEnds DEF StartStep
<1>4. CASE StartGroup
  BY <1>4, <1>k, <1>n, OtherEnds DEF StartGroup
<1>5. CASE AskBranch
  BY <1>5, <1>k, <1>n, <1>q, OtherEnds DEF AskBranch, Shape
<1>6. CASE StartBranch
  BY <1>6, <1>k, <1>n, OtherEnds DEF StartBranch
<1>7. CASE StepCompletes
  <2>1. PICK c \in calls :
          /\ Awaited(c) /\ c.state = "returned"
          /\ LogStep([slot |-> pos, branch |-> HeadBranch, success |-> TRUE,
                      attempt |-> try, inputs |-> ResolvedInputs(HeadBranch), saw |-> c.saw])
    BY <1>7 DEF StepCompletes
  <2> DEFINE r == [slot |-> pos, branch |-> HeadBranch, success |-> TRUE,
                   attempt |-> try, inputs |-> ResolvedInputs(HeadBranch), saw |-> c.saw]
  <2>2. r \in RowSet
    BY <1>7, <1>a, <1>n, <2>1, RedactedContext DEF StepCompletes, Shape, CallSet, RowSet, ResolvedInputs
  <2>3. Emit(Event("step_completed", pos, HeadBranch)) /\ HeadBranch \in Nat
    BY <1>7, <1>a, <1>n DEF StepCompletes
  <2> QED BY <1>n, <2>1, <2>2, <2>3, OneMoreEnd DEF StepEnd
<1>8. CASE Retry
  BY <1>8, <1>a, <1>k, <1>n, OtherEnds DEF Retry
<1>9. CASE StepFails
  <2>1. FailedRow \in RowSet
    BY <1>9, <1>a, <1>n, RedactedContext DEF StepFails, Shape, RowSet, FailedRow, Saw, ResolvedInputs
  <2>2. Emit(Event("step_failed", pos, HeadBranch)) /\ LogStep(FailedRow) /\ HeadBranch \in Nat
    BY <1>9, <1>a, <1>n DEF StepFails
  <2>3. FailedRow.slot = pos /\ FailedRow.branch = HeadBranch /\ FailedRow.success = FALSE
    BY DEF FailedRow
  <2> QED BY <1>n, <2>1, <2>2, <2>3, OneMoreEnd DEF StepEnd
<1>10. CASE FinishGroup
  BY <1>10, <1>k, <1>n, OtherEnds DEF FinishGroup
<1>11. CASE StopRun
  BY <1>11, <1>k, OtherEnds DEF StopRun
<1>12. CASE Finish
  BY <1>12, <1>k, OtherEnds DEF Finish
<1>13. CASE SeedRaises \/ OutputRaises \/ LogRaises \/ StoreRaises \/ ClosingRaises
  BY <1>13, <1>q DEF SeedRaises, OutputRaises, LogRaises, StoreRaises, ClosingRaises, Dies
<1>14. CASE UNCHANGED vars
  BY <1>14, <1>q DEF vars
<1>15. ASSUME NEW c \in calls, CallStarts(c) \/ CallEnds(c) \/ CallSets(c) PROVE HistoryMatchesEvents'
  BY <1>15, <1>q DEF CallStarts, CallEnds, CallSets
<1> QED BY <1>1, <1>2, <1>3, <1>4, <1>5, <1>6, <1>7, <1>8, <1>9, <1>10, <1>11, <1>12, <1>13,
           <1>14, <1>15 DEF Next

-----------------------------------------------------------------------------
(* The inductive invariant and what follows from it.                       *)

IInv ==
  /\ Shape /\ Flags /\ Verdict /\ Halted /\ Fresh
  /\ OutputsAreOnRecord /\ StopMeansStop /\ StepRanOnItsInputs /\ Accounts
  /\ HistoryMatchesEvents

\* Every reachable state of a run satisfies the inductive invariant.
THEOREM Invariant == Spec => []IInv
<1>1. Init => IInv
  <2> SUFFICES ASSUME Init PROVE IInv
    OBVIOUS
  <2>1. Shape
    BY InitShape
  <2>2. Flags /\ Verdict /\ Halted
    BY DEF Init, Flags, Failed, Verdict, NoClosing, Halted
  <2>3. Fresh /\ StopMeansStop /\ StepRanOnItsInputs
    BY DEF Init, Fresh, StopMeansStop, StepRanOnItsInputs
  <2>4. OutputsAreOnRecord
    BY DEF Init, OutputsAreOnRecord, Unset, Val
  <2>5. Accounts
    BY DEF Init, Accounts, InSlot, Entering, Untouched, Ended
  <2>6. HistoryMatchesEvents
    <3>1. Ends = {}
      BY DEF Init, Ends
    <3> QED BY <3>1, FS_EmptySet DEF Init, HistoryMatchesEvents
  <2> QED BY <2>1, <2>2, <2>3, <2>4, <2>5, <2>6 DEF IInv
<1>2. IInv /\ [Next]_vars => IInv'
  BY ShapeStep, FlagsStep, VerdictStep, HaltedStep, FreshStep, RecordedStep, StopStep, InputsStep, AccountsStep,
     HistoryStep DEF IInv
<1> QED BY <1>1, <1>2, PTL DEF Spec

\* The state of a run keeps its types; a retried call never has more attempts
\* than max_retries allows.
THEOREM TypeCorrect == Spec => []TypeOK
<1>1. IInv => TypeOK
  BY DEF IInv, Shape, TypeOK, CallOK, CallSet, States
<1> QED BY <1>1, Invariant, PTL

\* What a watcher saw end and what the history shows are the same steps, in the
\* same order and with the same outcome, also when the run dies on the way.
THEOREM HistoryIsTrue == Spec => []HistoryMatchesEvents
<1>1. IInv => HistoryMatchesEvents
  BY DEF IInv
<1> QED BY <1>1, Invariant, PTL

\* The runs table, the closing event and the step rows tell the same verdict,
\* and no verdict is given before the end.
THEOREM VerdictIsTrue == Spec => []VerdictMatches
<1>1. IInv => VerdictMatches
  <2> SUFFICES ASSUME IInv PROVE VerdictMatches
    OBVIOUS
  <2>1. (at = "over" => (Failed <=> had)) /\ (Failed <=> had \/ bad)
    BY DEF IInv, Flags, Shape
  <2>2. Len(events) \in Nat /\ (events # << >> => Len(events) \in 1..Len(events))
    BY DEF IInv, Shape
  <2>3. at = "over" => {i \in 1..Len(events) : events[i].kind \in RunEnd} = {Len(events)}
    BY <2>2 DEF IInv, Verdict
  <2> QED BY <2>1, <2>3 DEF IInv, Verdict, NoClosing, VerdictMatches, Failed
<1> QED BY <1>1, Invariant, PTL

\* Under stop_on_error nothing starts after the slot of the first failure.
THEOREM StopIsFinal == Spec => []StopMeansStop
<1>1. IInv => StopMeansStop
  BY DEF IInv
<1> QED BY <1>1, Invariant, PTL

\* An output in the context is the output of a completed, recorded attempt,
\* whatever abandoned calls return or set themselves.
THEOREM NoAbandonedOutput == Spec => []OutputsAreOnRecord
<1>1. IInv => OutputsAreOnRecord
  BY DEF IInv
<1> QED BY <1>1, Invariant, PTL

\* A single step ran on the inputs its row shows, but for secrets, which no row
\* shows, and names that modules set themselves.
THEOREM RecordedInputsAreTrue == Spec => []StepRanOnItsInputs
<1>1. IInv => StepRanOnItsInputs
  BY DEF IInv
<1> QED BY <1>1, Invariant, PTL

\* Every step of every slot the run got past was skipped, completed or failed,
\* exactly once, and a step that ended had been started, exactly once.
THEOREM EveryStepIsAccounted == Spec => []EveryStepAccountedFor
<1>1. IInv => EveryStepAccountedFor
  <2> SUFFICES ASSUME IInv, NEW s \in 1..(pos - 1), NEW b \in Branches(s)
               PROVE  /\ Cardinality(Ended(s, b, Final)) = 1
                      /\ Cardinality(Ended(s, b, StepEnd)) = Cardinality(Ended(s, b, Started))
    BY DEF EveryStepAccountedFor, Final, Started
  <2>1. Settled(s, b)
    BY DEF IInv, Accounts
  <2>2. \A i : Cardinality({i}) = 1
    BY FS_Singleton
  <2> QED BY <2>1, <2>2 DEF Settled
<1> QED BY <1>1, Invariant, PTL
============================================================================
