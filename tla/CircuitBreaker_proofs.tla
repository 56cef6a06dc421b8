----------------------- MODULE CircuitBreaker_proofs -----------------------
(***************************************************************************)
(* Proofs about CircuitBreaker, for any modules, threads, plans and        *)
(* thresholds.  The argument: a thread measures against the threshold that *)
(* is in force as long as nobody changes it, so a closed breaker's streak  *)
(* is below it; the streak passes the threshold exactly once per trip, and *)
(* the failure that does so gets the number of a new trip.                 *)
(***************************************************************************)
EXTENDS CircuitBreaker, TLAPS

Ats == {"idle", "health", "enabled", "running", "measured", "recorded"}
HealthSet == [count : Nat, tripped : BOOLEAN, trip : Nat]
RunSet == [at : Ats, plan : Seq(Modules), pos : Nat \ {0}, blocked : BOOLEAN, limit : Nat, health : HealthSet]

Shape ==
  /\ failures \in [Modules -> Nat]
  /\ tripped \in [Modules -> BOOLEAN]
  /\ threshold \in [Modules -> Nat \cup {NoOverride}]
  /\ enabled \in [Modules -> BOOLEAN \cup {NoOverride}]
  /\ trips \in [Modules -> Nat]
  /\ told \in Seq(Modules \X Nat)
  /\ changed \subseteq Modules
  /\ run \in [Runs -> RunSet]
  /\ \A r \in Runs :
       /\ run[r].pos <= Len(run[r].plan) + 1
       /\ Place(r) \in {"enabled", "measured", "recorded"} => run[r].pos <= Len(run[r].plan)
  /\ shut \in [Runs -> SUBSET (Modules \X Reasons)]

LEMMA ModuleAtHand ==
  ASSUME Shape, NEW r \in Runs, run[r].pos <= Len(run[r].plan)
  PROVE  ModuleOf(r) \in Modules
<1>1. run[r] \in RunSet
  BY DEF Shape
<1>2. run[r].plan \in Seq(Modules) /\ run[r].pos \in 1..Len(run[r].plan)
  BY <1>1 DEF RunSet
<1> QED BY <1>2 DEF ModuleOf

LEMMA ThresholdType ==
  ASSUME Shape, NEW m \in Modules
  PROVE  Threshold(m) \in Nat
  BY BreakerAssumption DEF Shape, Threshold

-----------------------------------------------------------------------------
(* The shape of the state is kept.                                         *)

\* A thread's record and its place in its plan.
RunOK(x) ==
  /\ x \in RunSet
  /\ x.pos <= Len(x.plan) + 1
  /\ x.at \in {"enabled", "measured", "recorded"} => x.pos <= Len(x.plan)

LEMMA RunShape == Shape => \A r \in Runs : RunOK(run[r]) /\ run[r].pos \in Nat \ {0} /\ Len(run[r].plan) \in Nat
  BY DEF Shape, RunOK, Place, RunSet

\* Only thread r moved, to a proper record.
Moves(r) ==
  /\ run' = [q \in Runs |-> run'[q]]
  /\ \A q \in Runs \ {r} : run'[q] = run[q]
  /\ RunOK(run'[r])

LEMMA OneRunChanges ==
  ASSUME Shape, NEW r \in Runs, Moves(r)
  PROVE  /\ run' \in [Runs -> RunSet]
         /\ \A q \in Runs : /\ run'[q].pos <= Len(run'[q].plan) + 1
                            /\ run'[q].at \in {"enabled", "measured", "recorded"} => run'[q].pos <= Len(run'[q].plan)
<1>1. \A q \in Runs : RunOK(run'[q])
  BY RunShape DEF Moves
<1>2. \A q \in Runs : run'[q] \in RunSet
  BY <1>1 DEF RunOK
<1> QED BY <1>1, <1>2 DEF Moves, RunOK

LEMMA RecordMoves ==
  ASSUME NEW x \in RunSet, NEW a \in Ats, NEW p \in Nat \ {0}
  PROVE  [x EXCEPT !.at = a, !.pos = p] \in RunSet
  BY DEF RunSet

LEMMA IdleShape == RunOK(Idle)
<1>1. Idle.pos = 1 /\ Idle.plan = << >> /\ Len(<< >>) = 0 /\ Idle.at = "idle"
  BY DEF Idle
<1>2. Idle \in RunSet
  BY DEF Idle, RunSet, HealthSet, Ats
<1> QED BY <1>1, <1>2 DEF RunOK

LEMMA InitShape == Init => Shape
<1> SUFFICES ASSUME Init PROVE Shape
  OBVIOUS
<1>1. \A r \in Runs : RunOK(run[r])
  BY IdleShape DEF Init
<1>2. run \in [Runs -> RunSet]
  BY <1>1 DEF Init, RunOK
<1>3. told \in Seq(Modules \X Nat)
  BY DEF Init
<1> QED BY <1>1, <1>2, <1>3 DEF Init, Shape, RunOK, Place

\* Every step of a thread moves that thread only, to a proper record.
LEMMA ThreadMoves ==
  ASSUME Shape, NEW r \in Runs,
         Request(r) \/ CheckHealth(r) \/ CheckEnabled(r) \/ Refuse(r) \/ Launch(r) \/ StepSkipped(r)
         \/ StepSucceeds(r) \/ StepFails(r) \/ RecordFailure(r) \/ Announce(r) \/ RunEnds(r)
  PROVE  Moves(r)
<1>0. /\ run \in [Runs -> RunSet] /\ run[r] \in RunSet /\ RunOK(run[r])
      /\ run[r].pos \in Nat \ {0} /\ Len(run[r].plan) \in Nat
  BY RunShape DEF Shape
<1>1. CASE Request(r)
  <2>1. PICK p \in Plans : run' = [run EXCEPT ![r] = [Idle EXCEPT !.at = "health", !.plan = p]]
    BY <1>1 DEF Request
  <2>2. p \in Seq(Modules) /\ Len(p) \in Nat
    BY BreakerAssumption
  <2> DEFINE x == [Idle EXCEPT !.at = "health", !.plan = p]
  <2>3. x.at = "health" /\ x.pos = 1 /\ x.plan = p
    BY DEF Idle
  <2>4. x \in RunSet
    BY <2>2, IdleShape DEF RunOK, RunSet, Ats
  <2>5. RunOK(x)
    BY <2>2, <2>3, <2>4 DEF RunOK
  <2> HIDE DEF x
  <2> QED BY <1>0, <2>1, <2>5 DEF Moves, x
<1>2. CASE CheckHealth(r)
  <2>1. tripped[ModuleOf(r)] \in BOOLEAN
    <3>1. ModuleOf(r) \in Modules
      <4>1. run[r].plan \in Seq(Modules) /\ run[r].pos \in DOMAIN run[r].plan
        BY <1>0, <1>2 DEF CheckHealth, AtGate, RunSet
      <4>2. run[r].pos <= Len(run[r].plan)
        BY <4>1
      <4> QED BY <4>2, ModuleAtHand
    <3> QED BY <3>1 DEF Shape
  <2> DEFINE x == Collect(run[r].blocked, tripped[ModuleOf(r)])
  <2>3. x \in BOOLEAN /\ run[r].pos <= Len(run[r].plan)
    BY <1>0, <1>2, <2>1 DEF Collect, RunSet, CheckHealth, AtGate
  <2>4. run' = [run EXCEPT ![r].at = "enabled", ![r].blocked = x]
    BY <1>2 DEF CheckHealth
  <2> HIDE DEF x
  <2>2. RunOK(run'[r])
    BY <1>0, <2>3, <2>4 DEF RunOK, RunSet, Ats
  <2> QED BY <1>0, <1>2, <2>2 DEF Moves, CheckHealth
<1>3. CASE CheckEnabled(r)
  <2>1. (~Enabled(ModuleOf(r))) \in BOOLEAN
    OBVIOUS
  <2> DEFINE x == Collect(run[r].blocked, ~Enabled(ModuleOf(r)))
  <2>3. x \in BOOLEAN /\ run[r].pos <= Len(run[r].plan)
    BY <1>0, <1>3, <2>1 DEF Collect, RunSet, CheckEnabled, AtGate
  <2>4. run' = [run EXCEPT ![r].at = "health", ![r].pos = @ + 1, ![r].blocked = x]
    BY <1>3 DEF CheckEnabled
  <2> HIDE DEF x
  <2>2. RunOK(run'[r])
    BY <1>0, <2>3, <2>4 DEF RunOK, RunSet, Ats
  <2> QED BY <1>0, <1>3, <2>2 DEF Moves, CheckEnabled
<1>4. CASE Refuse(r) \/ RunEnds(r)
  BY <1>0, <1>4, IdleShape DEF Refuse, RunEnds, Moves
<1>5. CASE Launch(r)
  <2>1. RunOK(run'[r])
    <3>1. run' = [run EXCEPT ![r].at = "running", ![r].pos = 1]
      BY <1>5 DEF Launch
    <3>2. run'[r] = [run[r] EXCEPT !.at = "running", !.pos = 1]
      BY <1>0, <3>1
    <3>3. [run[r] EXCEPT !.at = "running", !.pos = 1] \in RunSet
      <4>1. "running" \in Ats /\ 1 \in Nat \ {0}
        BY DEF Ats
      <4> QED BY <1>0, <4>1, RecordMoves
    <3>4. run'[r].pos = 1 /\ run'[r].at = "running"
      BY <1>0, <3>2 DEF RunSet
    <3>5. run'[r].plan = run[r].plan
      BY <1>0, <3>2 DEF RunSet
    <3> QED BY <1>0, <3>2, <3>3, <3>4, <3>5 DEF RunOK
  <2> QED BY <1>0, <1>5, <2>1 DEF Moves, Launch
<1>6. CASE StepSkipped(r) \/ StepSucceeds(r) \/ Announce(r)
  <2>1. NextStep(r) /\ run[r].pos <= Len(run[r].plan)
    BY <1>0, <1>6 DEF StepSkipped, StepSucceeds, Announce, HasStep, Shape
  <2>2. RunOK(run'[r])
    BY <1>0, <2>1 DEF NextStep, RunOK, RunSet, Ats
  <2> QED BY <1>0, <2>1, <2>2 DEF Moves, NextStep
<1>7. CASE StepFails(r)
  <2>1. Threshold(ModuleOf(r)) \in Nat
    BY <1>0, <1>7, ModuleAtHand, ThresholdType DEF StepFails, HasStep
  <2>2. RunOK(run'[r])
    BY <1>0, <1>7, <2>1 DEF StepFails, HasStep, RunOK, RunSet, Ats
  <2> QED BY <1>0, <1>7, <2>2 DEF Moves, StepFails
<1>8. CASE RecordFailure(r)
  <2>0. run[r].pos <= Len(run[r].plan) /\ ModuleOf(r) \in Modules
    BY <1>8, ModuleAtHand DEF RecordFailure, Shape
  <2> DEFINE m == ModuleOf(r)
             count == failures[m] + 1
             trip == TripsAt(count, run[r].limit)
             number == IF trip /\ ~tripped[m] THEN trips[m] + 1 ELSE trips[m]
             h == [count |-> count, tripped |-> tripped[m] \/ trip, trip |-> number]
  <2>1. h \in HealthSet
    BY <2>0 DEF HealthSet, Shape
  <2>2. run' = [run EXCEPT ![r].at = "recorded", ![r].health = h]
    BY <1>8 DEF RecordFailure
  <2> HIDE DEF h
  <2>3. RunOK(run'[r])
    BY <1>0, <2>0, <2>1, <2>2 DEF RunOK, RunSet, Ats
  <2> QED BY <1>0, <2>2, <2>3 DEF Moves
<1> QED BY <1>1, <1>2, <1>3, <1>4, <1>5, <1>6, <1>7, <1>8

LEMMA ReopenedShape ==
  ASSUME Shape, Reopened
  PROVE  shut' \in [Runs -> SUBSET (Modules \X Reasons)]
  BY DEF Shape, Reopened, Barred

LEMMA ShapeStep == Shape /\ [Next]_vars => Shape'
<1> SUFFICES ASSUME Shape, [Next]_vars PROVE Shape'
  OBVIOUS
<1> USE DEF Place
\* What a step of a thread leaves to show.
<1>t. ASSUME NEW r \in Runs,
             Request(r) \/ CheckHealth(r) \/ CheckEnabled(r) \/ Refuse(r) \/ Launch(r) \/ StepSkipped(r)
             \/ StepSucceeds(r) \/ StepFails(r) \/ RecordFailure(r) \/ Announce(r) \/ RunEnds(r),
             failures' \in [Modules -> Nat], tripped' \in [Modules -> BOOLEAN], trips' \in [Modules -> Nat],
             told' \in Seq(Modules \X Nat), shut' \in [Runs -> SUBSET (Modules \X Reasons)],
             UNCHANGED <<threshold, enabled, changed>>
      PROVE  Shape'
  BY <1>t, ThreadMoves, OneRunChanges DEF Shape
<1>1. ASSUME NEW r \in Runs, Request(r) \/ CheckHealth(r) \/ CheckEnabled(r) \/ Refuse(r) \/ Launch(r)
                             \/ StepSkipped(r) \/ StepFails(r) \/ RunEnds(r)
      PROVE  Shape'
  <2>1. UNCHANGED <<failures, tripped, trips, told, threshold, enabled, changed>>
    BY <1>1 DEF Request, CheckHealth, CheckEnabled, Refuse, Launch, StepSkipped, StepFails, RunEnds, store, history
  <2>2. shut' \in [Runs -> SUBSET (Modules \X Reasons)]
    <3>0. Barred \in SUBSET (Modules \X Reasons)
      BY DEF Barred
    <3>1. CASE Request(r)
      BY <3>0, <3>1 DEF Request, Shape
    <3>2. CASE Refuse(r) \/ Launch(r)
      BY <3>2 DEF Refuse, Launch, Shape
    <3>3. CASE CheckHealth(r) \/ CheckEnabled(r) \/ StepSkipped(r) \/ StepFails(r) \/ RunEnds(r)
      BY <3>3 DEF CheckHealth, CheckEnabled, StepSkipped, StepFails, RunEnds, history, Shape
    <3> QED BY <1>1, <3>1, <3>2, <3>3
  <2> QED BY <1>1, <1>t, <2>1, <2>2 DEF Shape
<1>2. ASSUME NEW r \in Runs, StepSucceeds(r) PROVE Shape'
  <2>1. failures' \in [Modules -> Nat] /\ tripped' \in [Modules -> BOOLEAN]
    BY <1>2 DEF StepSucceeds, ClearStreak, Shape
  <2> QED BY <1>2, <1>t, <2>1, ReopenedShape DEF StepSucceeds, Shape
<1>3. ASSUME NEW r \in Runs, RecordFailure(r) PROVE Shape'
  <2>1. ModuleOf(r) \in Modules
    BY <1>3, ModuleAtHand DEF RecordFailure, Shape
  <2>2. failures' \in [Modules -> Nat] /\ trips' \in [Modules -> Nat]
    BY <1>3, <2>1 DEF RecordFailure, Shape
  <2>3. tripped' \in [Modules -> BOOLEAN]
    BY <1>3, <2>1 DEF RecordFailure, Shape
  <2> QED BY <1>3, <1>t, <2>2, <2>3 DEF RecordFailure, Shape
<1>4. ASSUME NEW r \in Runs, Announce(r) PROVE Shape'
  <2>1. ModuleOf(r) \in Modules /\ run[r].health.trip \in Nat
    BY <1>4, ModuleAtHand DEF Announce, Shape, RunSet, HealthSet
  <2>2. told' \in Seq(Modules \X Nat)
    BY <1>4, <2>1 DEF Announce, Shape
  <2> QED BY <1>4, <1>t, <2>2 DEF Announce, store, Shape
<1>5. ASSUME NEW m \in Modules, Reset(m) PROVE Shape'
  BY <1>5, ReopenedShape DEF Reset, Shape
<1>6. ASSUME NEW m \in Modules, SetThreshold(m) PROVE Shape'
  <2>1. threshold' \in [Modules -> Nat \cup {NoOverride}] /\ changed' \subseteq Modules
    BY <1>6, BreakerAssumption DEF SetThreshold, Shape
  <2> QED BY <1>6, <2>1 DEF SetThreshold, Shape
<1>7. ASSUME NEW m \in Modules, SetEnabled(m) PROVE Shape'
  <2>1. enabled' \in [Modules -> BOOLEAN \cup {NoOverride}]
    BY <1>7 DEF SetEnabled, Shape
  <2> QED BY <1>7, <2>1, ReopenedShape DEF SetEnabled, Shape
<1>8. CASE Restart
  <2>1. run' = [r \in Runs |-> Idle] /\ shut' = [r \in Runs |-> {}]
    BY <1>8 DEF Restart
  <2>2. run' \in [Runs -> RunSet] /\ \A r \in Runs : RunOK(run'[r])
    BY <2>1, IdleShape DEF RunOK
  <2> QED BY <1>8, <2>1, <2>2 DEF Restart, store, Shape, RunOK
<1>9. CASE UNCHANGED vars
  BY <1>9 DEF vars, Shape
<1> QED BY <1>1, <1>2, <1>3, <1>4, <1>5, <1>6, <1>7, <1>8, <1>9 DEF Next

-----------------------------------------------------------------------------
(* The breaker is open exactly at the threshold.                           *)

Measures ==
  /\ \A m \in Modules : m \notin changed => threshold[m] = NoOverride
  /\ \A r \in Runs : Place(r) = "measured" /\ ModuleOf(r) \notin changed =>
                      run[r].limit = ManifestThreshold[ModuleOf(r)]

LEMMA MeasuresStep == Shape /\ Measures /\ [Next]_vars => Measures'
<1> SUFFICES ASSUME Shape, Measures, [Next]_vars PROVE Measures'
  OBVIOUS
<1>1. ASSUME NEW r \in Runs, Moves(r), UNCHANGED <<threshold, changed>>, run'[r].at # "measured" PROVE Measures'
  BY <1>1 DEF Measures, Moves, Place, ModuleOf
<1>2. ASSUME NEW r \in Runs, StepFails(r) PROVE Measures'
  <2>1. Moves(r) /\ UNCHANGED <<threshold, changed>>
    BY <1>2, ThreadMoves DEF StepFails, store, history
  <2>2. run'[r].limit = Threshold(ModuleOf(r)) /\ run'[r].plan = run[r].plan /\ run'[r].pos = run[r].pos
    BY <1>2 DEF StepFails, Shape, RunSet
  <2>3. ModuleOf(r) \in Modules
    BY <1>2, ModuleAtHand DEF StepFails, HasStep
  <2>4. ModuleOf(r) \notin changed => run'[r].limit = ManifestThreshold[ModuleOf(r)]
    BY <2>2, <2>3 DEF Threshold, Measures
  <2> QED BY <2>1, <2>2, <2>4 DEF Measures, Moves, Place, ModuleOf
<1>3. ASSUME NEW r \in Runs, Request(r) \/ CheckHealth(r) \/ CheckEnabled(r) \/ Refuse(r) \/ Launch(r)
                             \/ StepSkipped(r) \/ StepSucceeds(r) \/ RecordFailure(r) \/ Announce(r) \/ RunEnds(r)
      PROVE  Measures'
  <2>1. Moves(r)
    BY <1>3, ThreadMoves
  <2>2. UNCHANGED <<threshold, changed>>
    BY <1>3 DEF Request, CheckHealth, CheckEnabled, Refuse, Launch, StepSkipped, StepSucceeds, RecordFailure,
                Announce, RunEnds, store, history
  <2>3. run'[r].at # "measured"
    <3>0. run \in [Runs -> RunSet]
      BY DEF Shape
    <3>1. CASE Refuse(r) \/ RunEnds(r)
      BY <3>0, <3>1 DEF Refuse, RunEnds, Idle
    <3>7. CASE Request(r)
      <4>1. PICK p \in Plans : run' = [run EXCEPT ![r] = [Idle EXCEPT !.at = "health", !.plan = p]]
        BY <3>7 DEF Request
      <4>2. [Idle EXCEPT !.at = "health", !.plan = p].at = "health"
        BY DEF Idle
      <4> QED BY <3>0, <4>1, <4>2
    <3>2. CASE CheckHealth(r)
      BY <3>0, <3>2 DEF CheckHealth, RunSet
    <3>3. CASE CheckEnabled(r)
      BY <3>0, <3>3 DEF CheckEnabled, RunSet
    <3>4. CASE Launch(r)
      BY <3>0, <3>4 DEF Launch, RunSet
    <3>5. CASE RecordFailure(r)
      BY <3>0, <3>5 DEF RecordFailure, RunSet
    <3>6. CASE StepSkipped(r) \/ StepSucceeds(r) \/ Announce(r)
      BY <3>0, <3>6 DEF StepSkipped, StepSucceeds, Announce, NextStep, RunSet
    <3> QED BY <1>3, <3>1, <3>2, <3>3, <3>4, <3>5, <3>6, <3>7
  <2> QED BY <1>1, <2>1, <2>2, <2>3
<1>4. ASSUME NEW m \in Modules, Reset(m) \/ SetEnabled(m) PROVE Measures'
  BY <1>4 DEF Reset, SetEnabled, Measures, Place, ModuleOf
<1>5. ASSUME NEW m \in Modules, SetThreshold(m) PROVE Measures'
  BY <1>5 DEF SetThreshold, Measures, Place, ModuleOf, Shape
<1>6. CASE Restart
  BY <1>6 DEF Restart, store, Measures, Place, Idle
<1>7. CASE UNCHANGED vars
  BY <1>7 DEF vars, Measures, Place, ModuleOf
<1> QED BY <1>2, <1>3, <1>4, <1>5, <1>6, <1>7 DEF Next

LEMMA OpenStep == Shape /\ Measures /\ OpenAtTheThreshold /\ [Next]_vars => OpenAtTheThreshold'
<1> SUFFICES ASSUME Shape, Measures, OpenAtTheThreshold, [Next]_vars PROVE OpenAtTheThreshold'
  OBVIOUS
<1>0. \A m \in Modules : ManifestThreshold[m] \in Nat \ {0}
  BY BreakerAssumption
<1>1. CASE UNCHANGED <<failures, tripped>> /\ changed \subseteq changed'
  BY <1>1 DEF OpenAtTheThreshold
<1>2. ASSUME NEW m \in Modules, failures' = [failures EXCEPT ![m] = 0], tripped' = [tripped EXCEPT ![m] = FALSE],
             UNCHANGED changed
      PROVE  OpenAtTheThreshold'
  <2>1. failures'[m] = 0 /\ ~tripped'[m] /\ \A n \in Modules \ {m} : failures'[n] = failures[n] /\ tripped'[n] = tripped[n]
    BY <1>2 DEF Shape
  <2>2. ~(0 >= ManifestThreshold[m])
    BY <1>0
  <2> QED BY <1>2, <2>1, <2>2 DEF OpenAtTheThreshold
<1>3. ASSUME NEW r \in Runs, StepSucceeds(r) PROVE OpenAtTheThreshold'
  <2> DEFINE m == ModuleOf(r)
  <2>1. m \in Modules /\ changed' = changed /\ ClearStreak(m)
    BY <1>3, ModuleAtHand DEF StepSucceeds, HasStep
  <2>2. CASE tripped[m]
    BY <1>1, <2>1, <2>2 DEF ClearStreak
  <2>3. CASE ~tripped[m]
    <3>1. tripped[m] = FALSE
      BY <2>1, <2>3 DEF Shape
    <3>2. failures' = [failures EXCEPT ![m] = 0] /\ tripped' = tripped
      BY <2>1, <2>3 DEF ClearStreak
    <3>3. tripped' = [tripped EXCEPT ![m] = FALSE]
      BY <3>1, <3>2 DEF Shape
    <3> QED BY <1>2, <2>1, <3>2, <3>3
  <2> QED BY <2>2, <2>3
<1>4. ASSUME NEW r \in Runs, RecordFailure(r) PROVE OpenAtTheThreshold'
  <2> DEFINE m == ModuleOf(r)
  <2>1. m \in Modules /\ changed' = changed /\ Place(r) = "measured"
    BY <1>4, ModuleAtHand DEF RecordFailure, Shape
  <2>2. failures' = [failures EXCEPT ![m] = failures[m] + 1]
    BY <1>4 DEF RecordFailure
  <2>3. tripped' = [tripped EXCEPT ![m] = tripped[m] \/ TripsAt(failures[m] + 1, run[r].limit)]
    BY <1>4 DEF RecordFailure
  <2>4. m \notin changed => run[r].limit = ManifestThreshold[m]
    BY <2>1 DEF Measures
  <2>5. tripped'[m] <=> tripped[m] \/ TripsAt(failures[m] + 1, run[r].limit)
    BY <2>1, <2>3 DEF Shape
  <2>6. m \notin changed => (tripped'[m] <=> failures'[m] >= ManifestThreshold[m])
    <3>1. failures[m] \in Nat /\ failures'[m] = failures[m] + 1
      BY <2>1, <2>2 DEF Shape
    <3>2. m \notin changed => (tripped[m] <=> failures[m] >= ManifestThreshold[m])
      BY <2>1 DEF OpenAtTheThreshold
    <3>3. failures[m] >= ManifestThreshold[m] => failures[m] + 1 >= ManifestThreshold[m]
      BY <1>0, <2>1, <3>1
    <3>4. m \notin changed => (TripsAt(failures[m] + 1, run[r].limit) <=> failures[m] + 1 >= ManifestThreshold[m])
      BY <2>4 DEF TripsAt
    <3> QED BY <2>5, <3>1, <3>2, <3>3, <3>4
  <2>7. \A n \in Modules \ {m} : failures'[n] = failures[n] /\ tripped'[n] = tripped[n]
    BY <2>2, <2>3 DEF Shape
  <2> HIDE DEF m
  <2> QED BY <2>1, <2>6, <2>7 DEF OpenAtTheThreshold
<1>5. ASSUME NEW r \in Runs, Request(r) \/ CheckHealth(r) \/ CheckEnabled(r) \/ Refuse(r) \/ Launch(r)
                             \/ StepSkipped(r) \/ StepFails(r) \/ Announce(r) \/ RunEnds(r)
      PROVE  OpenAtTheThreshold'
  BY <1>1, <1>5 DEF Request, CheckHealth, CheckEnabled, Refuse, Launch, StepSkipped, StepFails, Announce, RunEnds,
                    store, history
<1>6. ASSUME NEW m \in Modules, Reset(m) PROVE OpenAtTheThreshold'
  BY <1>2, <1>6 DEF Reset
<1>7. ASSUME NEW m \in Modules, SetThreshold(m) \/ SetEnabled(m) PROVE OpenAtTheThreshold'
  BY <1>1, <1>7 DEF SetThreshold, SetEnabled
<1>8. CASE Restart \/ UNCHANGED vars
  BY <1>1, <1>8 DEF Restart, store, vars
<1> QED BY <1>3, <1>4, <1>5, <1>6, <1>7, <1>8 DEF Next

-----------------------------------------------------------------------------
(* Every trip is announced once.                                           *)

\* Thread r still has to announce trip t of m.
Owes(r, m, t) ==
  /\ Place(r) = "recorded" /\ ModuleOf(r) = m
  /\ run[r].health.trip = t /\ run[r].health.tripped
  /\ run[r].health.count = ManifestThreshold[m]

Told(m, t) == \E i \in 1..Len(told) : told[i] = <<m, t>>

\* The books of one module: what is owed is new and owed by one thread, what
\* was told is told once, and nothing is forgotten.
Books(m) ==
  /\ \A r \in Runs, t \in Nat : Owes(r, m, t) => t \in 1..trips[m] /\ ~Told(m, t)
  /\ \A r, q \in Runs, t \in Nat : Owes(r, m, t) /\ Owes(q, m, t) => r = q
  /\ \A t \in Nat : Told(m, t) => t <= trips[m]
  /\ \A t \in 1..trips[m] : Told(m, t) \/ (\E r \in Runs : Owes(r, m, t)) \/ <<m, t>> \in lost
  /\ \A i, j \in 1..Len(told) : told[i] = told[j] /\ told[i][1] = m => i = j

Notices == \A m \in Modules \ changed : Books(m)

\* Nothing the books of m are about has changed.
LEMMA BooksKept ==
  ASSUME NEW m, Books(m), UNCHANGED <<told, lost>>, trips'[m] = trips[m],
         \A r \in Runs, t \in Nat : Owes(r, m, t)' <=> Owes(r, m, t)
  PROVE  Books(m)'
<1>1. \A t \in Nat : Told(m, t)' <=> Told(m, t)
  BY DEF Told
<1>2. \A r \in Runs, t \in Nat : Owes(r, m, t)' => t \in 1..trips'[m] /\ ~Told(m, t)'
  BY <1>1 DEF Books
<1>3. \A r, q \in Runs, t \in Nat : Owes(r, m, t)' /\ Owes(q, m, t)' => r = q
  BY DEF Books
<1>4. \A t \in Nat : Told(m, t)' => t <= trips'[m]
  BY <1>1 DEF Books
<1>5. \A t \in 1..trips'[m] : Told(m, t)' \/ (\E r \in Runs : Owes(r, m, t)') \/ <<m, t>> \in lost'
  <2> SUFFICES ASSUME NEW t \in 1..trips[m]
               PROVE  Told(m, t)' \/ (\E r \in Runs : Owes(r, m, t)') \/ <<m, t>> \in lost
    OBVIOUS
  <2>1. t \in Nat
    OBVIOUS
  <2> QED BY <1>1, <2>1 DEF Books
<1>6. \A i, j \in 1..Len(told') : told'[i] = told'[j] /\ told'[i][1] = m => i = j
  BY DEF Books
<1> QED BY <1>2, <1>3, <1>4, <1>5, <1>6 DEF Books

\* A step that moves thread r from and to places that owe nothing.
LEMMA NothingOwed ==
  ASSUME NEW r \in Runs, Moves(r), run[r].at # "recorded", run'[r].at # "recorded",
         NEW m, NEW q \in Runs, NEW t
  PROVE  Owes(q, m, t)' <=> Owes(q, m, t)
<1>1. CASE q = r
  BY <1>1 DEF Owes, Place
<1>2. CASE q # r
  BY <1>2 DEF Moves, Owes, Place, ModuleOf
<1> QED BY <1>1, <1>2

LEMMA RecordBooks ==
  ASSUME Shape, Measures, OpenAtTheThreshold, NEW r \in Runs, RecordFailure(r),
         NEW m \in Modules, m \notin changed, Books(m)
  PROVE  Books(m)'
<1> DEFINE n == ModuleOf(r)
           count == failures[n] + 1
           trip == TripsAt(count, run[r].limit)
           number == IF trip /\ ~tripped[n] THEN trips[n] + 1 ELSE trips[n]
           h == [count |-> count, tripped |-> tripped[n] \/ trip, trip |-> number]
<1>0. n \in Modules /\ Place(r) = "measured" /\ Moves(r) /\ run \in [Runs -> RunSet]
  BY ModuleAtHand, ThreadMoves DEF RecordFailure, Shape
<1>1. UNCHANGED <<told, lost>> /\ trips' = [trips EXCEPT ![n] = number]
  BY DEF RecordFailure
<1>2. run' = [run EXCEPT ![r].at = "recorded", ![r].health = h]
  BY DEF RecordFailure
<1>3. run'[r].at = "recorded" /\ run'[r].plan = run[r].plan /\ run'[r].pos = run[r].pos /\ run'[r].health = h
  <2> HIDE DEF h
  <2> QED BY <1>0, <1>2 DEF RunSet
<1>h. /\ run'[r].health.count = count /\ run'[r].health.trip = number
      /\ run'[r].health.tripped = (tripped[n] \/ trip)
  <2>1. h.count = count /\ h.trip = number
    OBVIOUS
  <2>2. h.tripped = (tripped[n] \/ trip)
    BY ZenonT(20)
  <2> HIDE DEF h
  <2> QED BY <1>3, <2>1, <2>2
<1>4. ModuleOf(r)' = n
  BY <1>3 DEF ModuleOf
<1>5. \A q \in Runs \ {r}, t \in Nat : Owes(q, m, t)' <=> Owes(q, m, t)
  BY <1>0 DEF Moves, Owes, Place, ModuleOf
<1>6. \A t \in Nat : ~Owes(r, m, t)
  BY <1>0 DEF Owes
<1>7. CASE m # n
  <2>1. \A t \in Nat : ~Owes(r, m, t)'
    BY <1>4, <1>7 DEF Owes
  <2>2. trips'[m] = trips[m]
    BY <1>1, <1>7 DEF Shape
  <2> HIDE DEF n, number, h
  <2> QED BY <1>1, <1>5, <1>6, <2>1, <2>2, BooksKept
<1>8. CASE m = n
  <2>0. /\ run[r].limit = ManifestThreshold[m] /\ ManifestThreshold[m] \in Nat \ {0}
        /\ failures[m] \in Nat /\ trips[m] \in Nat /\ tripped[m] \in BOOLEAN
        /\ tripped[m] <=> failures[m] >= ManifestThreshold[m]
    BY <1>0, <1>8, BreakerAssumption DEF Measures, OpenAtTheThreshold, Shape
  <2>1. CASE trip /\ ~tripped[m]
    <3>0. PICK new \in Nat : new = trips[m] + 1
      BY <2>0
    <3>1. count = ManifestThreshold[m]
      BY <1>8, <2>0, <2>1 DEF TripsAt
    <3>2. number = new /\ trips'[m] = new
      BY <3>0, <1>1, <1>8, <2>1 DEF Shape
    <3>3. Owes(r, m, new)' /\ \A t \in Nat : Owes(r, m, t)' => t = new
      <4> HIDE DEF n, count, trip, number, h
      <4>1. ModuleOf(r)' = m /\ run'[r].at = "recorded" /\ run'[r].health.trip = new
        BY <1>3, <1>4, <1>8, <1>h, <3>2
      <4>2. run'[r].health.tripped /\ run'[r].health.count = ManifestThreshold[m]
        BY <1>h, <2>1, <3>1
      <4> QED BY <4>1, <4>2 DEF Owes, Place
    <3>4. \A t \in Nat : Told(m, t)' <=> Told(m, t)
      BY <1>1 DEF Told
    <3>5. \A q \in Runs, t \in Nat : Owes(q, m, t)' <=> (q # r /\ Owes(q, m, t)) \/ (q = r /\ t = new)
      <4> SUFFICES ASSUME NEW q \in Runs, NEW t \in Nat
                   PROVE  Owes(q, m, t)' <=> (q # r /\ Owes(q, m, t)) \/ (q = r /\ t = new)
        OBVIOUS
      <4>1. CASE q = r
        BY <3>3, <4>1 DEF Owes, Place, ModuleOf
      <4>2. CASE q # r
        BY <1>5, <4>2
      <4> QED BY <4>1, <4>2
    <3>6. \A t \in 1..trips'[m] : t \in 1..trips[m] \/ t = new
      BY <2>0, <3>0, <3>2
    <3>7. \A t \in 1..trips[m] : t \in 1..trips'[m] /\ t # new /\ t \in Nat
      BY <2>0, <3>0, <3>2
    <3>8. new \in 1..trips'[m] /\ ~Told(m, new) /\ new \in Nat
      BY <2>0, <3>0, <3>2 DEF Books
    <3>9. \A q \in Runs, t \in Nat : Owes(q, m, t)' => t \in 1..trips'[m] /\ ~Told(m, t)'
      BY <3>4, <3>5, <3>7, <3>8 DEF Books
    <3>10. \A q, p \in Runs, t \in Nat : Owes(q, m, t)' /\ Owes(p, m, t)' => q = p
      BY <3>5, <3>7 DEF Books
    <3>11. \A t \in Nat : Told(m, t)' => t <= trips'[m]
      BY <2>0, <3>0, <3>2, <3>4 DEF Books
    <3>12. \A t \in 1..trips'[m] : Told(m, t)' \/ (\E q \in Runs : Owes(q, m, t)') \/ <<m, t>> \in lost'
      BY <1>1, <1>6, <3>3, <3>4, <3>5, <3>6, <3>7 DEF Books
    <3>13. \A i, j \in 1..Len(told') : told'[i] = told'[j] /\ told'[i][1] = m => i = j
      BY <1>1 DEF Books
    <3> QED BY <3>9, <3>10, <3>11, <3>12, <3>13 DEF Books
  <2>2. CASE ~(trip /\ ~tripped[m])
    <3>1. trips'[m] = trips[m]
      BY <1>1, <1>8, <2>2 DEF Shape
    <3>2. tripped[m] => count # ManifestThreshold[m]
      BY <1>8, <2>0
    <3>3. \A t \in Nat : ~Owes(r, m, t)'
      <4> HIDE DEF n, count, trip, number, h
      <4> QED BY <1>8, <1>h, <2>2, <3>2 DEF Owes
    <3> HIDE DEF n, number, h
    <3> QED BY <1>1, <1>5, <1>6, <3>1, <3>3, BooksKept
  <2> QED BY <2>1, <2>2
<1> QED BY <1>7, <1>8

LEMMA AnnounceBooks ==
  ASSUME Shape, Measures, NEW r \in Runs, Announce(r), NEW m \in Modules, m \notin changed, Books(m)
  PROVE  Books(m)'
<1>0. /\ Place(r) = "recorded" /\ Moves(r) /\ run \in [Runs -> RunSet]
      /\ ModuleOf(r) \in Modules /\ run[r].health.trip \in Nat
  BY ModuleAtHand, ThreadMoves DEF Announce, Shape, RunSet, HealthSet
<1>1. trips' = trips /\ lost' = lost /\ run'[r].at = "running"
  BY <1>0 DEF Announce, NextStep, RunSet
<1>2. \A t \in Nat : ~Owes(r, m, t)'
  BY <1>1 DEF Owes, Place
<1>3. \A q \in Runs \ {r}, t \in Nat : Owes(q, m, t)' <=> Owes(q, m, t)
  BY <1>0 DEF Moves, Owes, Place, ModuleOf
<1>4. Threshold(m) = ManifestThreshold[m]
  BY DEF Measures, Threshold
<1>5. CASE ModuleOf(r) = m /\ Announces(r)
  <2>1. PICK t \in Nat : t = run[r].health.trip
    BY <1>0
  <2>2. Owes(r, m, t)
    BY <1>0, <1>4, <1>5, <2>1 DEF Owes, Announces, JustTripped
  <2>3. told \in Seq(Modules \X Nat) /\ told' = Append(told, <<m, t>>)
    BY <1>5, <2>1 DEF Announce, Shape
  <2>4. /\ Len(told') = Len(told) + 1 /\ Len(told) \in Nat /\ told'[Len(told')] = <<m, t>>
        /\ \A i \in 1..Len(told) : told'[i] = told[i]
    BY <2>3
  <2>5. \A i \in 1..Len(told') : i \in 1..Len(told) \/ i = Len(told')
    BY <2>4
  <2>6. \A s \in Nat : Told(m, s)' <=> Told(m, s) \/ s = t
    <3>1. ASSUME NEW s \in Nat, Told(m, s)' PROVE Told(m, s) \/ s = t
      <4>1. PICK i \in 1..Len(told') : told'[i] = <<m, s>>
        BY <3>1 DEF Told
      <4>2. CASE i \in 1..Len(told)
        BY <2>4, <4>1, <4>2 DEF Told
      <4>3. CASE i = Len(told')
        BY <2>4, <4>1, <4>3
      <4> QED BY <2>5, <4>2, <4>3
    <3>2. ASSUME NEW s \in Nat, Told(m, s) PROVE Told(m, s)'
      <4>1. PICK i \in 1..Len(told) : told[i] = <<m, s>>
        BY <3>2 DEF Told
      <4>2. i \in 1..Len(told') /\ told'[i] = <<m, s>>
        BY <2>4, <4>1
      <4> QED BY <4>2 DEF Told
    <3>3. Told(m, t)'
      <4>1. Len(told') \in 1..Len(told')
        BY <2>4
      <4> QED BY <2>4, <4>1 DEF Told
    <3> QED BY <3>1, <3>2, <3>3
  <2>7. \A q \in Runs, s \in Nat : Owes(q, m, s)' => q # r /\ Owes(q, m, s) /\ s # t
    <3> SUFFICES ASSUME NEW q \in Runs, NEW s \in Nat, Owes(q, m, s)'
                 PROVE  q # r /\ Owes(q, m, s) /\ s # t
      OBVIOUS
    <3>1. q # r
      BY <1>1 DEF Owes, Place
    <3>2. Owes(q, m, s)
      BY <1>3, <3>1
    <3>3. s # t
      BY <2>2, <3>1, <3>2 DEF Books
    <3> QED BY <3>1, <3>2, <3>3
  <2>8. \A q \in Runs, s \in Nat : Owes(q, m, s)' => s \in 1..trips'[m] /\ ~Told(m, s)'
    BY <1>1, <2>6, <2>7 DEF Books
  <2>9. \A q, p \in Runs, s \in Nat : Owes(q, m, s)' /\ Owes(p, m, s)' => q = p
    BY <2>7 DEF Books
  <2>10. \A s \in Nat : Told(m, s)' => s <= trips'[m]
    <3>1. t \in 1..trips[m]
      BY <2>2 DEF Books
    <3>2. trips[m] \in Nat
      BY DEF Shape
    <3> QED BY <1>1, <2>6, <3>1, <3>2 DEF Books
  <2>11. \A s \in 1..trips'[m] : Told(m, s)' \/ (\E q \in Runs : Owes(q, m, s)') \/ <<m, s>> \in lost'
    <3> SUFFICES ASSUME NEW s \in 1..trips[m]
                 PROVE  Told(m, s)' \/ (\E q \in Runs : Owes(q, m, s)') \/ <<m, s>> \in lost
      BY <1>1
    <3>1. s \in Nat
      OBVIOUS
    <3>2. Told(m, s) \/ (\E q \in Runs : Owes(q, m, s)) \/ <<m, s>> \in lost
      BY DEF Books
    <3>3. ASSUME NEW q \in Runs, Owes(q, m, s) PROVE Told(m, s)' \/ Owes(q, m, s)'
      <4>1. CASE q = r
        BY <2>1, <2>6, <3>1, <3>3, <4>1 DEF Owes
      <4>2. CASE q # r
        BY <1>3, <3>1, <3>3, <4>2
      <4> QED BY <4>1, <4>2
    <3> QED BY <2>6, <3>1, <3>2, <3>3
  <2>12. \A i, j \in 1..Len(told') : told'[i] = told'[j] /\ told'[i][1] = m => i = j
    <3>1. \A i \in 1..Len(told) : told[i] # <<m, t>>
      BY <2>2 DEF Books, Told
    <3> QED BY <2>4, <2>5, <3>1 DEF Books
  <2> QED BY <2>8, <2>9, <2>10, <2>11, <2>12 DEF Books
<1>6. CASE ModuleOf(r) = m /\ ~Announces(r)
  <2>1. \A t \in Nat : ~Owes(r, m, t)
    BY <1>4, <1>6 DEF Owes, Announces, JustTripped
  <2>2. told' = told
    BY <1>6 DEF Announce
  <2> QED BY <1>1, <1>2, <1>3, <2>1, <2>2, BooksKept
<1>7. CASE ModuleOf(r) # m
  <2>1. \A t \in Nat : ~Owes(r, m, t)
    BY <1>7 DEF Owes
  <2>2. CASE told' = told
    BY <1>1, <1>2, <1>3, <2>1, <2>2, BooksKept
  <2>3. CASE told' = Append(told, <<ModuleOf(r), run[r].health.trip>>)
    <3>0. told \in Seq(Modules \X Nat)
      BY DEF Shape
    <3>1. /\ Len(told') = Len(told) + 1 /\ Len(told) \in Nat /\ told'[Len(told')][1] = ModuleOf(r)
          /\ \A i \in 1..Len(told) : told'[i] = told[i]
      BY <2>3, <3>0
    <3>2. \A i \in 1..Len(told') : i \in 1..Len(told) \/ i = Len(told')
      BY <3>1
    <3>3. \A i \in 1..Len(told) : i \in 1..Len(told')
      BY <3>1
    <3>4. \A s \in Nat : Told(m, s)' <=> Told(m, s)
      BY <1>7, <3>1, <3>2, <3>3 DEF Told
    <3>5. \A q \in Runs, s \in Nat : Owes(q, m, s)' <=> Owes(q, m, s)
      BY <1>2, <1>3, <2>1
    <3>6. \A q \in Runs, s \in Nat : Owes(q, m, s)' => s \in 1..trips'[m] /\ ~Told(m, s)'
      BY <1>1, <3>4, <3>5 DEF Books
    <3>7. \A q, p \in Runs, s \in Nat : Owes(q, m, s)' /\ Owes(p, m, s)' => q = p
      BY <3>5 DEF Books
    <3>8. \A s \in Nat : Told(m, s)' => s <= trips'[m]
      BY <1>1, <3>4 DEF Books
    <3>9. \A s \in 1..trips'[m] : Told(m, s)' \/ (\E q \in Runs : Owes(q, m, s)') \/ <<m, s>> \in lost'
      BY <1>1, <3>4, <3>5 DEF Books
    <3>10. \A i, j \in 1..Len(told') : told'[i] = told'[j] /\ told'[i][1] = m => i = j
      BY <1>7, <3>1, <3>2 DEF Books
    <3> QED BY <3>6, <3>7, <3>8, <3>9, <3>10 DEF Books
  <2> QED BY <2>2, <2>3 DEF Announce
<1> QED BY <1>5, <1>6, <1>7

\* A killed process owes nothing more: what its threads owed is lost.
LEMMA RestartBooks ==
  ASSUME Shape, Restart, NEW m \in Modules, Books(m)
  PROVE  Books(m)'
<1>1. told' = told /\ trips' = trips /\ lost \subseteq lost'
  BY DEF Restart, store
<1>2. \A r \in Runs, t \in Nat : ~Owes(r, m, t)'
  BY DEF Restart, Owes, Place, Idle
<1>3. \A r \in Runs, t \in Nat : Owes(r, m, t) => <<m, t>> \in lost'
  BY DEF Restart, Owes
<1>4. \A t \in Nat : Told(m, t)' <=> Told(m, t)
  BY <1>1 DEF Told
<1>5. \A t \in 1..trips'[m] : Told(m, t)' \/ (\E r \in Runs : Owes(r, m, t)') \/ <<m, t>> \in lost'
  <2> SUFFICES ASSUME NEW t \in 1..trips[m] PROVE Told(m, t)' \/ <<m, t>> \in lost'
    BY <1>1
  <2>1. t \in Nat
    OBVIOUS
  <2> QED BY <1>1, <1>3, <1>4, <2>1 DEF Books
<1>6. \A t \in Nat : Told(m, t)' => t <= trips'[m]
  BY <1>1, <1>4 DEF Books
<1>7. \A i, j \in 1..Len(told') : told'[i] = told'[j] /\ told'[i][1] = m => i = j
  BY <1>1 DEF Books
<1> QED BY <1>2, <1>5, <1>6, <1>7 DEF Books

LEMMA NoticesStep ==
  Shape /\ Measures /\ OpenAtTheThreshold /\ Notices /\ [Next]_vars => Notices'
<1> SUFFICES ASSUME Shape, Measures, OpenAtTheThreshold, Notices, [Next]_vars,
                    NEW m \in Modules, m \notin changed'
             PROVE  Books(m)'
  BY DEF Notices
<1>0. changed \subseteq changed'
  BY DEF Next, vars, store, history, Request, CheckHealth, CheckEnabled, Refuse, Launch, StepSkipped,
         StepSucceeds, StepFails, RecordFailure, Announce, RunEnds, Reset, SetThreshold, SetEnabled, Restart
<1>1. Books(m) /\ m \notin changed
  BY <1>0 DEF Notices
<1>2. ASSUME NEW r \in Runs, RecordFailure(r) PROVE Books(m)'
  BY <1>1, <1>2, RecordBooks
<1>3. ASSUME NEW r \in Runs, Announce(r) PROVE Books(m)'
  BY <1>1, <1>3, AnnounceBooks
<1>4. CASE Restart
  BY <1>1, <1>4, RestartBooks
<1>5. ASSUME NEW r \in Runs, Request(r) \/ CheckHealth(r) \/ CheckEnabled(r) \/ Refuse(r) \/ Launch(r)
                             \/ StepSkipped(r) \/ StepSucceeds(r) \/ StepFails(r) \/ RunEnds(r)
      PROVE  Books(m)'
  <2>1. Moves(r) /\ run \in [Runs -> RunSet]
    BY <1>5, ThreadMoves DEF Shape
  <2>2. UNCHANGED <<told, lost, trips>>
    BY <1>5 DEF Request, CheckHealth, CheckEnabled, Refuse, Launch, StepSkipped, StepSucceeds, StepFails, RunEnds,
                store, history
  <2>3. run[r].at # "recorded"
    BY <1>5 DEF Request, CheckHealth, CheckEnabled, Refuse, Launch, StepSkipped, StepSucceeds, StepFails, RunEnds,
                AtGate, AllChecked, HasStep, Place
  <2>4. run'[r].at # "recorded"
    <3>1. CASE Refuse(r) \/ RunEnds(r)
      BY <2>1, <3>1 DEF Refuse, RunEnds, Idle
    <3>2. CASE Request(r)
      <4>1. PICK p \in Plans : run' = [run EXCEPT ![r] = [Idle EXCEPT !.at = "health", !.plan = p]]
        BY <3>2 DEF Request
      <4>2. [Idle EXCEPT !.at = "health", !.plan = p].at = "health"
        BY DEF Idle
      <4> QED BY <2>1, <4>1, <4>2
    <3>3. CASE CheckHealth(r)
      BY <2>1, <3>3 DEF CheckHealth, RunSet
    <3>4. CASE CheckEnabled(r)
      BY <2>1, <3>4 DEF CheckEnabled, RunSet
    <3>5. CASE Launch(r)
      BY <2>1, <3>5 DEF Launch, RunSet
    <3>6. CASE StepFails(r)
      BY <2>1, <3>6 DEF StepFails, RunSet
    <3>7. CASE StepSkipped(r) \/ StepSucceeds(r)
      BY <2>1, <3>7 DEF StepSkipped, StepSucceeds, NextStep, RunSet
    <3> QED BY <1>5, <3>1, <3>2, <3>3, <3>4, <3>5, <3>6, <3>7
  <2>5. \A q \in Runs, t \in Nat : Owes(q, m, t)' <=> Owes(q, m, t)
    BY <2>1, <2>3, <2>4, NothingOwed
  <2> QED BY <1>1, <2>2, <2>5, BooksKept
<1>6. CASE UNCHANGED <<run, told, lost, trips>>
  <2>1. \A q \in Runs, t \in Nat : Owes(q, m, t)' <=> Owes(q, m, t)
    BY <1>6 DEF Owes, Place, ModuleOf
  <2> QED BY <1>1, <1>6, <2>1, BooksKept
<1>7. ASSUME NEW n \in Modules, Reset(n) \/ SetThreshold(n) \/ SetEnabled(n) PROVE Books(m)'
  BY <1>6, <1>7 DEF Reset, SetThreshold, SetEnabled
<1>8. CASE UNCHANGED vars
  BY <1>6, <1>8 DEF vars
<1> QED BY <1>2, <1>3, <1>4, <1>5, <1>7, <1>8 DEF Next

-----------------------------------------------------------------------------
(* The gate lets nothing through that was barred all the while.            *)

\* What is shut for a thread is barred now; and what an unblocked thread has
\* asked about was not barred when it asked, so it is not shut.
Asked(x) == {<<x.plan[i], why>> : i \in 1..(x.pos - 1), why \in Reasons}
            \cup (IF x.at = "enabled" THEN {<<x.plan[x.pos], "tripped">>} ELSE {})
Passed(r) == run[r].at \in {"health", "enabled"} /\ ~run[r].blocked => shut[r] \cap Asked(run[r]) = {}
Gate == \A r \in Runs : shut[r] \subseteq Barred /\ Passed(r)

LEMMA GateStep == Shape /\ Gate /\ [Next]_vars => Gate'
<1> SUFFICES ASSUME Shape, Gate, [Next]_vars PROVE Gate'
  OBVIOUS
<1>0. run \in [Runs -> RunSet] /\ shut \in [Runs -> SUBSET (Modules \X Reasons)]
  BY DEF Shape
\* Nothing new is shut, and the other threads stay where they are.
<1>1. ASSUME NEW r \in Runs, Moves(r), \A q \in Runs : shut'[q] \subseteq shut[q] /\ shut'[q] \subseteq Barred',
             run'[r].at \in {"health", "enabled"} /\ ~run'[r].blocked => shut'[r] \cap Asked(run'[r]) = {}
      PROVE  Gate'
  <2> SUFFICES ASSUME NEW q \in Runs PROVE shut'[q] \subseteq Barred' /\ Passed(q)'
    BY DEF Gate
  <2>1. CASE q = r
    BY <1>1, <2>1 DEF Passed
  <2>2. CASE q # r
    <3>1. run'[q] = run[q] /\ Passed(q) /\ shut'[q] \subseteq shut[q]
      BY <1>1, <2>2 DEF Moves, Gate
    <3> QED BY <1>1, <3>1 DEF Passed
  <2> QED BY <2>1, <2>2
<1>2. ASSUME UNCHANGED <<tripped, enabled>> PROVE Barred' = Barred
  BY <1>2 DEF Barred, BarredFor, Enabled
<1>3. ASSUME NEW r \in Runs, Request(r) PROVE Gate'
  <2>1. Moves(r) /\ UNCHANGED <<tripped, enabled>>
    BY <1>3, ThreadMoves DEF Request, store
  <2>2. PICK p \in Plans : run' = [run EXCEPT ![r] = [Idle EXCEPT !.at = "health", !.plan = p]]
    BY <1>3 DEF Request
  <2>3. run'[r].at = "health" /\ run'[r].pos = 1
    <3>1. LET x == [Idle EXCEPT !.at = "health", !.plan = p] IN x.at = "health" /\ x.pos = 1
      BY DEF Idle
    <3> QED BY <1>0, <2>2, <3>1
  <2>4. Asked(run'[r]) = {}
    BY <2>3 DEF Asked
  <2>5. shut'[r] = Barred /\ \A q \in Runs \ {r} : shut'[q] = shut[q]
    BY <1>0, <1>3 DEF Request
  <2>6. \A q \in Runs \ {r} : run'[q] = run[q]
    BY <2>1 DEF Moves
  <2>7. ASSUME NEW q \in Runs PROVE shut'[q] \subseteq Barred' /\ Passed(q)'
    <3>1. CASE q = r
      BY <1>2, <2>1, <2>4, <2>5, <3>1 DEF Passed
    <3>2. CASE q # r
      BY <1>2, <2>1, <2>5, <2>6, <3>2 DEF Passed, Gate
    <3> QED BY <3>1, <3>2
  <2> QED BY <2>7 DEF Gate
<1>4. ASSUME NEW r \in Runs, CheckHealth(r) PROVE Gate'
  <2> DEFINE m == ModuleOf(r)
  <2>1. Moves(r) /\ UNCHANGED <<tripped, enabled, shut>> /\ Barred' = Barred
    BY <1>2, <1>4, ThreadMoves DEF CheckHealth, store, history
  <2>2. /\ run'[r].at = "enabled" /\ run'[r].pos = run[r].pos /\ run'[r].plan = run[r].plan
        /\ run'[r].blocked = Collect(run[r].blocked, tripped[m])
    BY <1>0, <1>4 DEF CheckHealth, RunSet
  <2>3. run[r].at = "health" /\ run[r].plan[run[r].pos] = m
    BY <1>4 DEF CheckHealth, Place, ModuleOf
  <2>4. Asked(run'[r]) = Asked(run[r]) \cup {<<m, "tripped">>}
    BY <2>2, <2>3 DEF Asked
  <2>5. ~run'[r].blocked => ~run[r].blocked /\ <<m, "tripped">> \notin Barred
    BY <2>2 DEF Collect, Barred, BarredFor
  <2>6. ~run[r].blocked => shut[r] \cap Asked(run[r]) = {}
    BY <2>3 DEF Gate, Passed
  <2>7. \A q \in Runs : shut[q] \subseteq Barred
    BY DEF Gate
  <2> HIDE DEF m
  <2>8. ~run'[r].blocked => shut'[r] \cap Asked(run'[r]) = {}
    BY <2>1, <2>4, <2>5, <2>6, <2>7
  <2> QED BY <1>1, <2>1, <2>7, <2>8
<1>5. ASSUME NEW r \in Runs, CheckEnabled(r) PROVE Gate'
  <2> DEFINE m == ModuleOf(r)
  <2>1. Moves(r) /\ UNCHANGED <<tripped, enabled, shut>> /\ Barred' = Barred
    BY <1>2, <1>5, ThreadMoves DEF CheckEnabled, store, history
  <2>2. /\ run'[r].at = "health" /\ run'[r].pos = run[r].pos + 1 /\ run'[r].plan = run[r].plan
        /\ run'[r].blocked = Collect(run[r].blocked, ~Enabled(m))
    BY <1>0, <1>5 DEF CheckEnabled, RunSet
  <2>3. run[r].at = "enabled" /\ run[r].plan[run[r].pos] = m /\ run[r].pos \in Nat \ {0}
    BY <1>0, <1>5 DEF CheckEnabled, Place, ModuleOf, RunSet
  <2>4. Asked(run'[r]) \subseteq Asked(run[r]) \cup {<<m, "disabled">>}
    <3> SUFFICES ASSUME NEW i \in 1..run[r].pos, NEW why \in Reasons
                 PROVE  <<run[r].plan[i], why>> \in Asked(run[r]) \cup {<<m, "disabled">>}
      BY <2>2, <2>3 DEF Asked
    <3>1. CASE i = run[r].pos
      BY <2>3, <3>1 DEF Asked, Reasons
    <3>2. CASE i # run[r].pos
      <4>1. i \in 1..(run[r].pos - 1)
        BY <2>3, <3>2
      <4> QED BY <4>1 DEF Asked
    <3> QED BY <3>1, <3>2
  <2>5. ~run'[r].blocked => ~run[r].blocked /\ <<m, "disabled">> \notin Barred
    BY <2>2 DEF Collect, Barred, BarredFor
  <2>6. ~run[r].blocked => shut[r] \cap Asked(run[r]) = {}
    BY <2>3 DEF Gate, Passed
  <2>7. \A q \in Runs : shut[q] \subseteq Barred
    BY DEF Gate
  <2> HIDE DEF m
  <2>8. ~run'[r].blocked => shut'[r] \cap Asked(run'[r]) = {}
    BY <2>1, <2>4, <2>5, <2>6, <2>7
  <2> QED BY <1>1, <2>1, <2>7, <2>8
\* Past the gate there is nothing to show of the thread itself.
<1>6. ASSUME NEW r \in Runs, Refuse(r) \/ Launch(r) \/ StepSkipped(r) \/ StepSucceeds(r) \/ StepFails(r)
                             \/ RecordFailure(r) \/ Announce(r) \/ RunEnds(r)
      PROVE  Gate'
  <2>1. Moves(r)
    BY <1>6, ThreadMoves
  <2>2. run'[r].at \notin {"health", "enabled"}
    <3>1. CASE Refuse(r) \/ RunEnds(r)
      BY <1>0, <3>1 DEF Refuse, RunEnds, Idle
    <3>2. CASE Launch(r)
      BY <1>0, <3>2 DEF Launch, RunSet
    <3>3. CASE StepSkipped(r) \/ StepSucceeds(r) \/ Announce(r)
      BY <1>0, <3>3 DEF StepSkipped, StepSucceeds, Announce, NextStep, RunSet
    <3>4. CASE StepFails(r)
      BY <1>0, <3>4 DEF StepFails, RunSet
    <3>5. CASE RecordFailure(r)
      BY <1>0, <3>5 DEF RecordFailure, RunSet
    <3> QED BY <1>6, <3>1, <3>2, <3>3, <3>4, <3>5
  <2>3. \A q \in Runs : shut'[q] \subseteq shut[q] /\ shut'[q] \subseteq Barred'
    <3>0. \A q \in Runs : shut[q] \subseteq Barred
      BY DEF Gate
    <3>1. CASE Refuse(r) \/ Launch(r)
      <4>1. UNCHANGED <<tripped, enabled>> /\ shut' = [shut EXCEPT ![r] = {}]
        BY <3>1 DEF Refuse, Launch, store
      <4> QED BY <1>0, <1>2, <3>0, <4>1
    <3>2. CASE StepSucceeds(r)
      BY <3>2 DEF StepSucceeds, Reopened
    <3>3. CASE StepSkipped(r) \/ StepFails(r) \/ Announce(r) \/ RunEnds(r)
      <4>1. UNCHANGED <<tripped, enabled, shut>>
        BY <3>3 DEF StepSkipped, StepFails, Announce, RunEnds, store, history
      <4> QED BY <1>2, <3>0, <4>1
    <3>4. CASE RecordFailure(r)
      <4>1. UNCHANGED <<enabled, shut>> /\ \A m \in Modules : tripped[m] => tripped'[m]
        BY <3>4 DEF RecordFailure, Shape
      <4>2. Barred \subseteq Barred'
        BY <4>1 DEF Barred, BarredFor, Enabled
      <4> QED BY <3>0, <4>1, <4>2
    <3> QED BY <1>6, <3>1, <3>2, <3>3, <3>4
  <2> QED BY <1>1, <2>1, <2>2, <2>3
<1>7. ASSUME UNCHANGED run, \A q \in Runs : shut'[q] \subseteq shut[q] /\ shut'[q] \subseteq Barred' PROVE Gate'
  BY <1>7 DEF Gate, Passed
<1>8. ASSUME NEW m \in Modules, Reset(m) \/ SetEnabled(m) PROVE Gate'
  <2>1. UNCHANGED run /\ Reopened
    BY <1>8 DEF Reset, SetEnabled
  <2> QED BY <1>7, <2>1 DEF Reopened
<1>9. ASSUME UNCHANGED <<run, tripped, enabled, shut>> PROVE Gate'
  BY <1>2, <1>7, <1>9 DEF Gate
<1>10. ASSUME NEW m \in Modules, SetThreshold(m) PROVE Gate'
  BY <1>9, <1>10 DEF SetThreshold
<1>11. CASE Restart
  <2>1. \A q \in Runs : run'[q].at = "idle" /\ shut'[q] = {}
    BY <1>11 DEF Restart, Idle
  <2> QED BY <2>1 DEF Gate, Passed
<1>12. CASE UNCHANGED vars
  BY <1>9, <1>12 DEF vars
<1> QED BY <1>3, <1>4, <1>5, <1>6, <1>8, <1>10, <1>11, <1>12 DEF Next

-----------------------------------------------------------------------------
(* The inductive invariant and what follows from it.                       *)

IInv == Shape /\ Measures /\ OpenAtTheThreshold /\ Notices /\ Gate

\* Every reachable state satisfies the inductive invariant.
THEOREM Invariant == Spec => []IInv
<1>1. Init => IInv
  <2> SUFFICES ASSUME Init PROVE IInv
    OBVIOUS
  <2>1. Shape
    BY InitShape
  <2>2. Measures
    BY DEF Init, Measures, Place, Idle
  <2>3. ASSUME NEW m \in Modules
        PROVE  ~tripped[m] /\ ~(failures[m] >= ManifestThreshold[m])
    <3>1. ManifestThreshold[m] \in Nat \ {0}
      BY BreakerAssumption
    <3>2. tripped[m] = FALSE
      BY DEF Init
    <3>3. failures[m] = 0
      BY DEF Init
    <3>4. ~(failures[m] >= ManifestThreshold[m])
      BY <3>1, <3>3
    <3> QED BY <3>2, <3>4
  <2>4. OpenAtTheThreshold
    BY <2>3 DEF OpenAtTheThreshold
  <2>5. \A m \in Modules : trips[m] = 0 /\ Len(told) = 0 /\ \A r \in Runs, t \in Nat : ~Owes(r, m, t)
    BY DEF Init, Owes, Place, Idle
  <2>6. \A m \in Modules : \A t \in Nat : ~Told(m, t)
    BY <2>5 DEF Told
  <2>7. ASSUME NEW m \in Modules PROVE Books(m)
    <3>1. trips[m] = 0 /\ Len(told) = 0 /\ 1..0 = {}
      BY <2>5
    <3> QED BY <2>5, <2>6, <3>1 DEF Books
  <2>8. Notices
    BY <2>7 DEF Notices
  <2>9. Gate
    BY DEF Init, Idle, Gate, Passed
  <2> QED BY <2>1, <2>2, <2>4, <2>8, <2>9 DEF IInv
<1>2. IInv /\ [Next]_vars => IInv'
  BY ShapeStep, MeasuresStep, OpenStep, NoticesStep, GateStep DEF IInv
<1> QED BY <1>1, <1>2, PTL DEF Spec

\* The tables and the threads keep their types.
THEOREM TypeCorrect == Spec => []TypeOK
<1>1. IInv => TypeOK
  <2> SUFFICES ASSUME IInv PROVE TypeOK
    OBVIOUS
  <2>1. ASSUME NEW r \in Runs
        PROVE  /\ Place(r) \in Ats /\ run[r].plan \in Seq(Modules)
               /\ run[r].pos \in 1..(Len(run[r].plan) + 1)
               /\ Place(r) \in {"enabled", "measured", "recorded"} => run[r].pos \in DOMAIN run[r].plan
    <3>1. run[r] \in RunSet /\ RunOK(run[r]) /\ run[r].pos \in Nat \ {0} /\ Len(run[r].plan) \in Nat
      BY RunShape DEF IInv, Shape
    <3> QED BY <3>1 DEF RunOK, RunSet, Place
  <2> QED BY <2>1 DEF IInv, Shape, TypeOK, Ats
<1> QED BY <1>1, Invariant, PTL

\* With a threshold nobody changes, a breaker is open exactly when the streak
\* has reached it.
THEOREM OpensAtTheThreshold == Spec => []OpenAtTheThreshold
<1>1. IInv => OpenAtTheThreshold
  BY DEF IInv
<1> QED BY <1>1, Invariant, PTL

\* With a threshold nobody changes, every trip is announced exactly once.
THEOREM EachTripToldOnce == Spec => []TripsAreAnnounced
<1>1. IInv => TripsAreAnnounced
  <2> SUFFICES ASSUME IInv, NEW m \in Modules, m \notin changed PROVE Announced(m)
    BY DEF TripsAreAnnounced
  <2>1. Books(m) /\ Threshold(m) = ManifestThreshold[m]
    BY DEF IInv, Notices, Measures, Threshold
  <2>2. \A r \in Runs, t \in Nat : Owes(r, m, t) => Pending(m, t)
    BY <2>1 DEF Owes, Pending, Announces, JustTripped
  <2>3. \A t \in 1..trips[m] : t \in Nat
    OBVIOUS
  <2> QED BY <2>1, <2>2, <2>3 DEF Books, Told, Announced
<1> QED BY <1>1, Invariant, PTL

\* The gate lets no module through that was tripped, or disabled, all the time
\* from the request to the launch, for any plan and any number of modules.
THEOREM GateHolds == Spec => []GateIsTight
<1>1. IInv => GateIsTight
  <2> SUFFICES ASSUME IInv, NEW r \in Runs, AllChecked(r), ~run[r].blocked,
                      NEW i \in 1..Len(run[r].plan), NEW why \in Reasons
               PROVE  <<run[r].plan[i], why>> \notin shut[r]
    BY DEF GateIsTight
  <2>1. run[r].pos \in Nat \ {0} /\ Len(run[r].plan) \in Nat
    BY RunShape DEF IInv
  <2>2. i \in 1..(run[r].pos - 1)
    BY <2>1 DEF AllChecked
  <2>3. <<run[r].plan[i], why>> \in Asked(run[r])
    BY <2>2 DEF Asked
  <2>4. shut[r] \cap Asked(run[r]) = {}
    BY DEF IInv, Gate, Passed, AllChecked, Place
  <2> QED BY <2>3, <2>4
<1> QED BY <1>1, Invariant, PTL

\* Nothing but a reset closes an open breaker or lowers its count.
THEOREM OnlyResetCloses == Spec => OpenUntilReset
<1>1. Shape /\ [Next]_vars => [\A m \in Modules : tripped[m] => (tripped'[m] /\ failures'[m] >= failures[m]) \/ Reset(m)]_vars
  <2> SUFFICES ASSUME Shape, Next, NEW m \in Modules, tripped[m]
               PROVE  (tripped'[m] /\ failures'[m] >= failures[m]) \/ Reset(m)
    BY DEF vars
  <2>0. failures[m] \in Nat
    BY DEF Shape
  <2>1. CASE UNCHANGED <<failures, tripped>>
    BY <2>0, <2>1
  <2>2. ASSUME NEW r \in Runs, StepSucceeds(r) PROVE tripped'[m] /\ failures'[m] >= failures[m]
    <3>1. ModuleOf(r) \in Modules /\ ClearStreak(ModuleOf(r))
      BY <2>2, ModuleAtHand DEF StepSucceeds, HasStep
    <3>2. CASE m = ModuleOf(r)
      BY <2>0, <3>1, <3>2 DEF ClearStreak
    <3>3. CASE m # ModuleOf(r)
      BY <2>0, <3>1, <3>3 DEF ClearStreak, Shape
    <3> QED BY <3>2, <3>3
  <2>3. ASSUME NEW r \in Runs, RecordFailure(r) PROVE tripped'[m] /\ failures'[m] >= failures[m]
    <3>1. tripped' = [tripped EXCEPT ![ModuleOf(r)] = @ \/ TripsAt(failures[ModuleOf(r)] + 1, run[r].limit)]
      BY <2>3 DEF RecordFailure
    <3>2. failures' = [failures EXCEPT ![ModuleOf(r)] = failures[ModuleOf(r)] + 1]
      BY <2>3 DEF RecordFailure
    <3>3. tripped'[m]
      BY <3>1 DEF Shape
    <3>4. failures'[m] >= failures[m]
      BY <2>0, <3>2 DEF Shape
    <3> QED BY <3>3, <3>4
  <2>4. ASSUME NEW n \in Modules, Reset(n) PROVE (tripped'[m] /\ failures'[m] >= failures[m]) \/ Reset(m)
    <3>1. CASE n = m
      BY <2>4, <3>1
    <3>2. CASE n # m
      BY <2>0, <2>4, <3>2 DEF Reset, Shape
    <3> QED BY <3>1, <3>2
  <2>5. ASSUME NEW r \in Runs, Request(r) \/ CheckHealth(r) \/ CheckEnabled(r) \/ Refuse(r) \/ Launch(r)
                               \/ StepSkipped(r) \/ StepFails(r) \/ Announce(r) \/ RunEnds(r)
        PROVE  UNCHANGED <<failures, tripped>>
    BY <2>5 DEF Request, CheckHealth, CheckEnabled, Refuse, Launch, StepSkipped, StepFails, Announce, RunEnds,
                store, history
  <2>6. ASSUME NEW n \in Modules, SetThreshold(n) \/ SetEnabled(n) PROVE UNCHANGED <<failures, tripped>>
    BY <2>6 DEF SetThreshold, SetEnabled
  <2>7. CASE Restart
    BY <2>1, <2>7 DEF Restart, store
  <2> QED BY <2>1, <2>2, <2>3, <2>4, <2>5, <2>6, <2>7 DEF Next
<1>2. IInv => Shape
  BY DEF IInv
<1> QED BY <1>1, <1>2, Invariant, PTL DEF Spec, OpenUntilReset
============================================================================
