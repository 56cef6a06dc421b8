------------------------- MODULE Retention_proofs -------------------------
(***************************************************************************)
(* Proofs about the two components that thin out what they keep and spare  *)
(* what is pinned: the run history (RunHistory) and the automatic backups  *)
(* (AutoBackup).                                                           *)
(***************************************************************************)
EXTENDS RunHistory, AutoBackup, FiniteSetTheorems, TLAPS

(***************************************************************************)
(* RunHistory, for any workers, clients, runs, steps and snapshots, as     *)
(* long as the database is the one the snapshots came from: steps belong   *)
(* to the runs they are shown under, finished runs are whole, purges spare *)
(* the live, pins are about runs that are there.                           *)
(*                                                                         *)
(* The properties are not inductive, because Restore may bring back what a *)
(* snapshot holds: they must hold of every snapshot taken, and go on       *)
(* holding of it while the workers log more steps (Linked).  A run must    *)
(* be whole before it is finished: Manned says so while it is live.        *)
(***************************************************************************)
\* An id is used once: a run's id is its number, a step is logged by one run.
Numbered ==
  /\ lastRun = begun
  /\ \A n \in RunIds : logged[n] \subseteq 1..lastStep
  /\ \A n \in RunIds : n > begun => logged[n] = {}
  /\ \A m, n \in RunIds : m # n => logged[m] \cap logged[n] = {}

\* The tables (of the database or of a snapshot) agree with what happened.
RunsAgree(r) ==
  /\ \A i \in Present(r) : r[i].by = i /\ i <= begun
  /\ \A w \in Workers : work[w] # Idle =>
       r[work[w].id] = NoRow \/ r[work[w].id].status = "running"
StepsAgree(r, s) ==
  \A i \in Present(s) : /\ s[i].by = s[i].run /\ i <= lastStep
                        /\ i \in logged[s[i].run]
                        /\ s[i].run \in Present(r) \cup cut
AllThere(r, s) ==
  \A i \in Present(r) \ cut : r[i].status = "finished" => logged[i] \subseteq Present(s)
Linked(r, s) == RunsAgree(r) /\ StepsAgree(r, s) /\ AllThere(r, s)

\* A live run is one worker's; its row and its steps stay unless it is cut.
Manned ==
  /\ \A w \in Workers : work[w] # Idle =>
       /\ work[w].by = work[w].id /\ work[w].id <= begun
       /\ work[w].id \notin cut => /\ work[w].id \in Present(runs)
                                   /\ logged[work[w].id] \subseteq Present(steps)
  /\ \A v, w \in Workers : v # w /\ work[v] # Idle /\ work[w] # Idle => work[v].id # work[w].id

Pinned ==
  /\ PinsHaveTheirRun
  /\ \A c \in Clients : req[c].at = "pin" => req[c].id \in Present(runs) \cup raced
  /\ \A c \in Clients : req[c].at = "purge" => pinned \subseteq req[c].spared \cup req[c].late

IInv ==
  /\ TypeOK
  /\ Numbered
  /\ Manned
  /\ Linked(runs, steps)
  /\ \A snap \in taken : Linked(snap.runs, snap.steps)
  /\ Pinned

RunsTables == [RunIds -> {NoRow} \cup RunRows]
StepsTables == [StepIds -> {NoRow} \cup StepRows]

-----------------------------------------------------------------------------
(* Lemmas about rows and tables.                                           *)

LEMMA RunShape ==
  ASSUME NEW x \in {NoRow} \cup RunRows
  PROVE  /\ x # NoRow <=> x \in RunRows
         /\ x = NoRow <=> x.status = "none"
         /\ x # NoRow => x.by \in RunIds /\ x.status \in {"running", "finished"}
  BY DEF NoRow, RunRows

LEMMA StepShape ==
  ASSUME NEW x \in {NoRow} \cup StepRows
  PROVE  x # NoRow => x.run \in RunIds /\ x.by \in RunIds
  BY DEF NoRow, StepRows

LEMMA WorkShape ==
  ASSUME NEW x \in {Idle} \cup Working
  PROVE  x # Idle => x.id \in RunIds /\ x.by \in RunIds
  BY DEF Idle, Working

LEMMA RequestShape ==
  ASSUME NEW x \in {Idle} \cup Purging \cup Pinning
  PROVE  /\ x.at = "purge" => x.spared \subseteq RunIds /\ x.late \subseteq RunIds
         /\ x.at = "pin" => x.id \in RunIds /\ x.on \in BOOLEAN
         /\ Idle.at # "pin" /\ Idle.at # "purge"
  BY DEF Idle, Purging, Pinning

LEMMA PresentRuns ==
  ASSUME NEW r \in RunsTables
  PROVE  /\ Present(r) = {i \in RunIds : r[i] # NoRow}
         /\ \A i \in Present(r) : r[i].status \in {"running", "finished"}
<1>1. DOMAIN r = RunIds
  BY DEF RunsTables
<1>2. \A i \in RunIds : r[i] \in {NoRow} \cup RunRows
  BY DEF RunsTables
<1> QED BY <1>1, <1>2, RunShape DEF Present

LEMMA PresentSteps ==
  ASSUME NEW s \in StepsTables
  PROVE  /\ Present(s) = {i \in StepIds : s[i] # NoRow}
         /\ \A i \in Present(s) : s[i].run \in RunIds /\ s[i].by \in RunIds
<1>1. DOMAIN s = StepIds
  BY DEF StepsTables
<1>2. \A i \in StepIds : s[i] \in {NoRow} \cup StepRows
  BY DEF StepsTables
<1> QED BY <1>1, <1>2, StepShape DEF Present

\* A counter that is ahead of all ids stays.
LEMMA AlreadyAhead ==
  ASSUME NEW n \in Nat, NEW ids, ids \subseteq 0..n
  PROVE  AtLeast(n, ids) = n
<1>1. \A i \in {n} \cup ids : i <= n
  OBVIOUS
<1>2. \A m \in {n} \cup ids : (\A i \in {n} \cup ids : i <= m) => m = n
  OBVIOUS
<1> QED BY <1>1, <1>2 DEF AtLeast

\* What was linked stays so while workers log steps, begin and end runs, and
\* rows that others delete are cut.
LEMMA StillLinked ==
  ASSUME NEW r \in RunsTables, NEW s \in StepsTables, Linked(r, s),
         begun \in Nat, begun' \in Nat, begun <= begun',
         lastStep \in Nat, lastStep' \in Nat, lastStep <= lastStep',
         cut \subseteq cut',
         work \in [Workers -> {Idle} \cup Working],
         \A n \in RunIds : logged[n] \subseteq logged'[n],
         \A w \in Workers : work'[w] # Idle => work'[w] = work[w] \/ r[work'[w].id] = NoRow,
         \A n \in RunIds : \/ logged'[n] = logged[n]
                           \/ \E w \in Workers : work[w] # Idle /\ work[w].id = n
  PROVE  Linked(r, s)'
<1>1. RunsAgree(r)'
  <2>1. ASSUME NEW i \in Present(r)
        PROVE  r[i].by = i /\ i <= begun'
    <3>1. i \in RunIds /\ r[i].by = i /\ i <= begun
      BY PresentRuns DEF Linked, RunsAgree
    <3> QED BY <3>1 DEF RunIds
  <2>2. ASSUME NEW w \in Workers, work'[w] # Idle
        PROVE  r[work'[w].id] = NoRow \/ r[work'[w].id].status = "running"
    <3>1. CASE work'[w] = work[w]
      BY <2>2, <3>1 DEF Linked, RunsAgree
    <3> QED BY <2>2, <3>1
  <2> QED BY <2>1, <2>2 DEF RunsAgree, Present
<1>2. StepsAgree(r, s)'
  <2>1. ASSUME NEW i \in Present(s)
        PROVE  /\ s[i].by = s[i].run /\ i <= lastStep'
               /\ i \in logged'[s[i].run]
               /\ s[i].run \in Present(r) \cup cut'
    <3>1. i \in StepIds /\ s[i].run \in RunIds
      BY PresentSteps
    <3>2. /\ s[i].by = s[i].run /\ i <= lastStep /\ i \in logged[s[i].run]
          /\ s[i].run \in Present(r) \cup cut
      BY DEF Linked, StepsAgree
    <3> QED BY <3>1, <3>2 DEF StepIds
  <2> QED BY <2>1 DEF StepsAgree, Present
<1>3. AllThere(r, s)'
  <2>1. ASSUME NEW i \in Present(r) \ cut', r[i].status = "finished"
        PROVE  logged'[i] \subseteq Present(s)
    <3>1. i \in RunIds /\ r[i] # NoRow /\ i \notin cut /\ logged[i] \subseteq Present(s)
      BY <2>1, PresentRuns DEF Linked, AllThere
    <3>2. ~ \E w \in Workers : work[w] # Idle /\ work[w].id = i
      BY <2>1, <3>1 DEF Linked, RunsAgree
    <3> QED BY <3>1, <3>2
  <2> QED BY <2>1 DEF AllThere, Present
<1> QED BY <1>1, <1>2, <1>3 DEF Linked

\* The snapshots stay linked under every action that takes none.
LEMMA SnapshotsStay ==
  ASSUME IInv, TypeOK', taken' = taken, begun <= begun', lastStep <= lastStep', cut \subseteq cut',
         \A n \in RunIds : logged[n] \subseteq logged'[n],
         \A w \in Workers : work'[w] # Idle =>
           work'[w] = work[w] \/ (work'[w].id \in RunIds /\ work'[w].id > begun),
         \A n \in RunIds : \/ logged'[n] = logged[n]
                           \/ \E w \in Workers : work[w] # Idle /\ work[w].id = n
  PROVE  \A snap \in taken' : Linked(snap.runs, snap.steps)'
<1> SUFFICES ASSUME NEW snap \in taken
             PROVE  Linked(snap.runs, snap.steps)'
  BY DEF Linked, RunsAgree, StepsAgree, AllThere, Present
<1>1. PICK r, s : r = snap.runs /\ s = snap.steps
  OBVIOUS
<1>2. r \in RunsTables /\ s \in StepsTables
  BY <1>1 DEF IInv, TypeOK, Snapshots, RunsTables, StepsTables
<1>3. Linked(r, s)
  BY <1>1 DEF IInv
<1>4. \A w \in Workers : work'[w] # Idle => work'[w] = work[w] \/ r[work'[w].id] = NoRow
  <2>1. \A i \in RunIds : i > begun => r[i] = NoRow
    BY <1>2, <1>3, PresentRuns DEF Linked, RunsAgree, RunIds, IInv, TypeOK
  <2> QED BY <2>1
<1>5. /\ begun \in Nat /\ begun' \in Nat /\ lastStep \in Nat /\ lastStep' \in Nat
      /\ work \in [Workers -> {Idle} \cup Working]
  BY DEF IInv, TypeOK
<1>6. Linked(r, s)'
  BY <1>2, <1>3, <1>4, <1>5, StillLinked
<1> QED BY <1>1, <1>6 DEF Linked, RunsAgree, StepsAgree, AllThere, Present

\* A step is in the log of its run only.
LEMMA OwnStep ==
  ASSUME IInv, NEW n \in RunIds, NEW i \in Present(steps)
  PROVE  i \in logged[n] <=> steps[i].run = n
<1>1. steps[i].run \in RunIds /\ i \in logged[steps[i].run]
  BY PresentSteps DEF IInv, TypeOK, StepsTables, Linked, StepsAgree
<1>2. \A m \in RunIds : m # n => logged[m] \cap logged[n] = {}
  BY DEF IInv, Numbered
<1> QED BY <1>1, <1>2

-----------------------------------------------------------------------------
(* The workers.                                                            *)

LEMMA StartRunKeeps ==
  ASSUME IInv, NEW w \in Workers, StartRun(w)
  PROVE  IInv'
<1> DEFINE id == begun + 1
<1>0. TypeOK /\ Numbered /\ Manned /\ Linked(runs, steps) /\ Pinned /\ lastRun = begun
  BY DEF IInv, Numbered
<1>1. /\ id \in RunIds /\ work[w] = Idle /\ begun' = id /\ lastRun' = id
      /\ runs' = [runs EXCEPT ![id] = RunRow("running", id)]
      /\ work' = [work EXCEPT ![w] = [at |-> "running", id |-> id, by |-> id]]
      /\ UNCHANGED <<steps, lastStep, pinned, req, taken, logged, cut, raced, deaths>>
  BY <1>0 DEF StartRun, FreshId
<1>2. begun \in Nat /\ MaxRuns \in Nat /\ id > begun /\ id \in 0..MaxRuns
  BY <1>0, <1>1, HistoryAssumption DEF TypeOK, RunIds
<1>3. RunRow("running", id) \in RunRows /\ RunRow("running", id) # NoRow
  BY <1>1 DEF RunRow, RunRows, NoRow
<1>4. runs' \in RunsTables /\ runs \in RunsTables /\ steps \in StepsTables
  BY <1>0, <1>1, <1>3 DEF TypeOK, RunsTables, StepsTables
<1>5. [at |-> "running", id |-> id, by |-> id] \in Working
  BY <1>1 DEF Working
<1>6. TypeOK'
  <2>1. runs' \in [RunIds -> {NoRow} \cup RunRows]
    BY <1>4 DEF RunsTables
  <2>2. work' \in [Workers -> {Idle} \cup Working]
    BY <1>0, <1>1, <1>5 DEF TypeOK
  <2> QED BY <2>1, <2>2, <1>0, <1>1, <1>2 DEF TypeOK, Snapshots
<1>7. Present(runs') = Present(runs) \cup {id} /\ id \notin Present(runs)
  <2>1. Present(runs) = {i \in RunIds : runs[i] # NoRow} /\ Present(runs') = {i \in RunIds : runs'[i] # NoRow}
    BY <1>4, PresentRuns
  <2>2. id \notin Present(runs)
    BY <1>0, <1>2 DEF Linked, RunsAgree
  <2>3. \A i \in RunIds : runs'[i] = IF i = id THEN RunRow("running", id) ELSE runs[i]
    BY <1>1, <1>4 DEF RunsTables
  <2> QED BY <2>1, <2>2, <2>3, <1>1, <1>3
<1>8. Numbered'
  BY <1>0, <1>1, <1>2 DEF Numbered, RunIds
<1>9. /\ work'[w] # Idle /\ work'[w].id = id /\ work'[w].by = id
      /\ \A v \in Workers \ {w} : work'[v] = work[v]
  BY <1>0, <1>1 DEF TypeOK, Idle
<1>10. \A v \in Workers : work[v] # Idle => work[v].id \in RunIds /\ work[v].id < id
  BY <1>0, <1>2, WorkShape DEF TypeOK, Manned, RunIds
<1>11. Manned'
  <2>1. ASSUME NEW v \in Workers, work'[v] # Idle
        PROVE  /\ work'[v].by = work'[v].id /\ work'[v].id <= begun'
               /\ work'[v].id \notin cut' => /\ work'[v].id \in Present(runs')
                                             /\ logged'[work'[v].id] \subseteq Present(steps')
    <3>1. CASE v = w
      <4>1. work'[v].id = id /\ work'[v].by = id /\ id <= begun'
        BY <3>1, <1>1, <1>2, <1>9
      <4>2. logged'[id] = {}
        BY <1>0, <1>1, <1>2 DEF Numbered
      <4> QED BY <4>1, <4>2, <1>7
    <3>2. CASE v # w
      <4>1. work'[v] = work[v] /\ work[v] # Idle /\ work[v].id \in RunIds /\ work[v].id < id
        BY <2>1, <3>2, <1>9, <1>10
      <4>2. /\ work[v].by = work[v].id
            /\ work[v].id \notin cut => /\ work[v].id \in Present(runs)
                                        /\ logged[work[v].id] \subseteq Present(steps)
        BY <4>1, <1>0 DEF Manned
      <4>3. work[v].id <= begun'
        BY <4>1, <1>1, <1>2 DEF RunIds
      <4>4. work[v].id \notin cut => work[v].id \in Present(runs') /\ logged'[work[v].id] \subseteq Present(steps')
        BY <4>2, <1>1, <1>7
      <4> QED BY <4>1, <4>2, <4>3, <4>4, <1>1
    <3> QED BY <3>1, <3>2
  <2>2. ASSUME NEW u \in Workers, NEW v \in Workers, u # v, work'[u] # Idle, work'[v] # Idle
        PROVE  work'[u].id # work'[v].id
    BY <2>2, <1>0, <1>2, <1>9, <1>10 DEF Manned, RunIds
  <2> QED BY <2>1, <2>2 DEF Manned, Present
<1>12. Linked(runs, steps)'
  <2>1. \A i \in Present(runs) : i \in RunIds /\ i # id /\ runs'[i] = runs[i]
    BY <1>1, <1>4, <1>7, PresentRuns DEF RunsTables
  <2>2. runs'[id] = RunRow("running", id)
    BY <1>1, <1>4 DEF RunsTables
  <2>3. RunsAgree(runs)'
    <3>1. ASSUME NEW i \in Present(runs')
          PROVE  runs'[i].by = i /\ i <= begun'
      <4>1. CASE i = id
        BY <4>1, <2>2, <1>1, <1>2 DEF RunRow
      <4>2. CASE i # id
        <5>1. i \in Present(runs) /\ i \in RunIds /\ runs'[i] = runs[i]
          BY <4>2, <2>1, <1>7
        <5>2. runs[i].by = i /\ i <= begun
          BY <5>1, <1>0 DEF Linked, RunsAgree
        <5> QED BY <5>1, <5>2, <1>1, <1>2 DEF RunIds
      <4> QED BY <4>1, <4>2
    <3>2. ASSUME NEW v \in Workers, work'[v] # Idle
          PROVE  runs'[work'[v].id] = NoRow \/ runs'[work'[v].id].status = "running"
      <4>1. CASE v = w
        BY <4>1, <2>2, <1>9 DEF RunRow
      <4>2. CASE v # w
        <5>1. work'[v] = work[v] /\ work[v] # Idle /\ work[v].id \in RunIds /\ work[v].id # id
          BY <3>2, <4>2, <1>2, <1>9, <1>10 DEF RunIds
        <5>2. runs'[work[v].id] = runs[work[v].id]
          BY <5>1, <1>1, <1>4 DEF RunsTables
        <5> QED BY <5>1, <5>2, <1>0 DEF Linked, RunsAgree
      <4> QED BY <4>1, <4>2
    <3> QED BY <3>1, <3>2 DEF RunsAgree, Present
  <2>4. StepsAgree(runs, steps)'
    <3>1. \A i \in Present(steps) : /\ steps[i].by = steps[i].run /\ i <= lastStep
                                    /\ i \in logged[steps[i].run]
                                    /\ steps[i].run \in Present(runs) \cup cut
      BY <1>0 DEF Linked, StepsAgree
    <3> QED BY <3>1, <1>1, <1>7 DEF StepsAgree, Present
  <2>5. AllThere(runs, steps)'
    <3>1. ASSUME NEW i \in Present(runs') \ cut', runs'[i].status = "finished"
          PROVE  logged'[i] \subseteq Present(steps')
      <4>1. i # id
        BY <3>1, <2>2 DEF RunRow
      <4>2. i \in Present(runs) \ cut /\ runs[i].status = "finished"
        BY <3>1, <4>1, <1>1, <1>7, <2>1
      <4> QED BY <4>2, <1>0, <1>1 DEF Linked, AllThere
    <3> QED BY <3>1 DEF AllThere, Present
  <2> QED BY <2>3, <2>4, <2>5 DEF Linked
<1>13. \A snap \in taken' : Linked(snap.runs, snap.steps)'
  <2>1. \A v \in Workers : work'[v] # Idle =>
          work'[v] = work[v] \/ (work'[v].id \in RunIds /\ work'[v].id > begun)
    BY <1>1, <1>2, <1>9
  <2>2. begun <= begun' /\ lastStep <= lastStep' /\ cut \subseteq cut' /\ taken' = taken
    BY <1>0, <1>1, <1>2, HistoryAssumption DEF TypeOK
  <2>3. \A n \in RunIds : logged'[n] = logged[n]
    BY <1>1
  <2> QED BY <2>1, <2>2, <2>3, <1>6, SnapshotsStay
<1>14. Pinned'
  <2>1. pinned' \subseteq Present(runs') \cup raced'
    BY <1>0, <1>1, <1>7 DEF Pinned, PinsHaveTheirRun
  <2>2. \A c \in Clients : req'[c].at = "pin" => req'[c].id \in Present(runs') \cup raced'
    BY <1>0, <1>1, <1>7 DEF Pinned
  <2>3. \A c \in Clients : req'[c].at = "purge" => pinned' \subseteq req'[c].spared \cup req'[c].late
    BY <1>0, <1>1 DEF Pinned
  <2> QED BY <2>1, <2>2, <2>3 DEF Pinned, PinsHaveTheirRun, Present
<1> QED BY <1>6, <1>8, <1>11, <1>12, <1>13, <1>14 DEF IInv

\* Steps that leave the tables alone: workers may stop, and a snapshot may be taken.
LEMMA QuietStep ==
  ASSUME IInv, TypeOK', Pinned', UNCHANGED <<tables, history>>,
         \A w \in Workers : work'[w] \in {Idle, work[w]},
         \A snap \in taken' : snap \in taken \/ snap = [runs |-> runs, steps |-> steps]
  PROVE  IInv'
<1>1. /\ runs' = runs /\ steps' = steps /\ lastRun' = lastRun /\ lastStep' = lastStep
      /\ begun' = begun /\ logged' = logged /\ cut' = cut
  BY DEF tables, history
<1>2. /\ begun \in Nat /\ lastStep \in Nat /\ work \in [Workers -> {Idle} \cup Working]
      /\ runs \in RunsTables /\ steps \in StepsTables
  BY HistoryAssumption DEF IInv, TypeOK, RunsTables, StepsTables
<1>3. \A w \in Workers : work'[w] # Idle => work'[w] = work[w]
  OBVIOUS
<1>4. ASSUME NEW r \in RunsTables, NEW s \in StepsTables, Linked(r, s)
      PROVE  Linked(r, s)'
  BY <1>1, <1>2, <1>3, <1>4, StillLinked
<1>5. Linked(runs, steps)'
  <2>1. PICK r, s : r = runs /\ s = steps
    OBVIOUS
  <2>2. Linked(r, s)'
    BY <2>1, <1>2, <1>4 DEF IInv
  <2> QED BY <2>1, <2>2, <1>1 DEF Linked, RunsAgree, StepsAgree, AllThere, Present
<1>6. ASSUME NEW snap \in taken'
      PROVE  Linked(snap.runs, snap.steps)'
  <2>1. PICK r, s : r = snap.runs /\ s = snap.steps
    OBVIOUS
  <2>2. CASE snap \in taken
    <3>1. r \in RunsTables /\ s \in StepsTables /\ Linked(r, s)
      BY <2>1, <2>2 DEF IInv, TypeOK, Snapshots, RunsTables, StepsTables
    <3>2. Linked(r, s)'
      BY <3>1, <1>4
    <3> QED BY <2>1, <3>2 DEF Linked, RunsAgree, StepsAgree, AllThere, Present
  <2>3. CASE snap = [runs |-> runs, steps |-> steps]
    BY <2>3, <1>1, <1>5 DEF Linked, RunsAgree, StepsAgree, AllThere, Present
  <2> QED BY <1>6, <2>2, <2>3
<1>7. Numbered'
  BY <1>1 DEF IInv, Numbered
<1>8. Manned'
  BY <1>1, <1>3 DEF IInv, Manned, Present
<1> QED BY <1>5, <1>6, <1>7, <1>8 DEF IInv

LEMMA LogStepKeeps ==
  ASSUME IInv, NEW w \in Workers, LogStep(w)
  PROVE  IInv'
<1> DEFINE k == lastStep + 1
<1>0. TypeOK /\ Numbered /\ Manned /\ Linked(runs, steps) /\ Pinned
  BY DEF IInv
<1>1. PICK n : n = work[w].id
  OBVIOUS
<1>2. n \in RunIds /\ work[w] # Idle /\ work[w].id = n /\ work[w].by = n /\ n <= begun
  BY <1>0, <1>1, WorkShape DEF LogStep, TypeOK, Manned
<1>3. /\ lastStep < MaxSteps /\ lastStep' = k
      /\ steps' = [steps EXCEPT ![k] = StepRow(n, n)]
      /\ logged' = [logged EXCEPT ![n] = @ \cup {k}]
      /\ UNCHANGED <<runs, lastRun, pinned, work, req, taken, begun, cut, raced, deaths>>
  BY <1>2 DEF LogStep
<1>4. /\ lastStep \in Nat /\ MaxSteps \in Nat /\ k \in StepIds /\ k \in 0..MaxSteps /\ k > lastStep
      /\ begun \in Nat
  BY <1>0, <1>3, HistoryAssumption DEF TypeOK, StepIds
<1>5. StepRow(n, n) \in StepRows /\ StepRow(n, n) # NoRow /\ StepRow(n, n).run = n /\ StepRow(n, n).by = n
  BY <1>2 DEF StepRow, StepRows, NoRow
<1>6. /\ runs \in RunsTables /\ steps \in StepsTables /\ steps' \in StepsTables
      /\ logged \in [RunIds -> SUBSET StepIds] /\ logged' \in [RunIds -> SUBSET StepIds]
  BY <1>0, <1>3, <1>4, <1>5 DEF TypeOK, RunsTables, StepsTables
<1>7. TypeOK'
  <2>1. steps' \in [StepIds -> {NoRow} \cup StepRows]
    BY <1>6 DEF StepsTables
  <2> QED BY <2>1, <1>0, <1>3, <1>4, <1>6 DEF TypeOK, Snapshots
<1>8. /\ logged'[n] = logged[n] \cup {k}
      /\ \A m \in RunIds \ {n} : logged'[m] = logged[m]
      /\ \A m \in RunIds : logged[m] \subseteq logged'[m] /\ k \notin logged[m]
  BY <1>0, <1>2, <1>3, <1>4, <1>6 DEF Numbered
<1>9. /\ Present(steps') = Present(steps) \cup {k}
      /\ steps'[k] = StepRow(n, n)
      /\ \A i \in Present(steps) : i <= lastStep /\ i # k /\ steps'[i] = steps[i] /\ steps[i].run \in RunIds
  <2>1. \A i \in Present(steps) : i \in StepIds /\ i <= lastStep /\ steps[i].run \in RunIds
    BY <1>0, <1>6, PresentSteps DEF Linked, StepsAgree
  <2>2. \A i \in StepIds : steps'[i] = IF i = k THEN StepRow(n, n) ELSE steps[i]
    BY <1>3, <1>6 DEF StepsTables
  <2>3. Present(steps) = {i \in StepIds : steps[i] # NoRow} /\ Present(steps') = {i \in StepIds : steps'[i] # NoRow}
    BY <1>6, PresentSteps
  <2>4. \A i \in Present(steps) : i # k
    BY <2>1, <1>4 DEF StepIds
  <2> QED BY <2>1, <2>2, <2>3, <2>4, <1>4, <1>5
<1>10. Numbered'
  <2>1. \A m \in RunIds : logged'[m] \subseteq 1..lastStep'
    BY <1>0, <1>3, <1>4, <1>8 DEF Numbered
  <2>2. \A m \in RunIds : m > begun' => logged'[m] = {}
    BY <1>0, <1>2, <1>3, <1>4, <1>8 DEF Numbered, RunIds
  <2>3. \A l, m \in RunIds : l # m => logged'[l] \cap logged'[m] = {}
    <3>1. \A l, m \in RunIds : l # m => logged[l] \cap logged[m] = {}
      BY <1>0 DEF Numbered
    <3> QED BY <3>1, <1>8
  <2> QED BY <2>1, <2>2, <2>3, <1>0, <1>3 DEF Numbered
<1>11. Manned'
  <2>1. ASSUME NEW v \in Workers, work[v] # Idle, work[v].id \notin cut
        PROVE  work[v].id \in Present(runs) /\ logged'[work[v].id] \subseteq Present(steps')
    <3>1. PICK m : m = work[v].id
      OBVIOUS
    <3>2. m \in RunIds /\ m \in Present(runs) /\ logged[m] \subseteq Present(steps)
      BY <2>1, <3>1, <1>0, WorkShape DEF TypeOK, Manned
    <3>3. logged'[m] \subseteq Present(steps')
      BY <3>2, <1>8, <1>9
    <3> QED BY <3>1, <3>2, <3>3
  <2> QED BY <2>1, <1>0, <1>3 DEF Manned, Present
<1>12. Linked(runs, steps)'
  <2>1. RunsAgree(runs)'
    BY <1>0, <1>3 DEF Linked, RunsAgree, Present
  <2>2. StepsAgree(runs, steps)'
    <3>1. ASSUME NEW i \in Present(steps')
          PROVE  /\ steps'[i].by = steps'[i].run /\ i <= lastStep'
                 /\ i \in logged'[steps'[i].run]
                 /\ steps'[i].run \in Present(runs) \cup cut
      <4>1. CASE i = k
        <5>1. n \in Present(runs) \cup cut
          BY <1>0, <1>2 DEF Manned
        <5> QED BY <4>1, <5>1, <1>3, <1>4, <1>5, <1>8, <1>9
      <4>2. CASE i # k
        <5>1. i \in Present(steps) /\ steps'[i] = steps[i] /\ i <= lastStep /\ steps[i].run \in RunIds
          BY <4>2, <1>9
        <5>2. /\ steps[i].by = steps[i].run /\ i \in logged[steps[i].run]
              /\ steps[i].run \in Present(runs) \cup cut /\ i \in StepIds
          BY <5>1, <1>0, <1>6, PresentSteps DEF Linked, StepsAgree
        <5>3. i <= lastStep'
          BY <5>1, <5>2, <1>3, <1>4 DEF StepIds
        <5> QED BY <5>1, <5>2, <5>3, <1>8
      <4> QED BY <4>1, <4>2
    <3> QED BY <3>1, <1>3 DEF StepsAgree, Present
  <2>3. AllThere(runs, steps)'
    <3>1. ASSUME NEW i \in Present(runs) \ cut, runs[i].status = "finished"
          PROVE  logged'[i] \subseteq Present(steps')
      <4>1. i \in RunIds /\ runs[i] # NoRow /\ logged[i] \subseteq Present(steps)
        BY <3>1, <1>0, <1>6, PresentRuns DEF Linked, AllThere
      <4>2. i # n
        BY <3>1, <4>1, <1>0, <1>2 DEF Linked, RunsAgree
      <4> QED BY <4>1, <4>2, <1>8, <1>9
    <3> QED BY <3>1, <1>3 DEF AllThere, Present
  <2> QED BY <2>1, <2>2, <2>3 DEF Linked
<1>13. \A snap \in taken' : Linked(snap.runs, snap.steps)'
  <2>1. begun <= begun' /\ lastStep <= lastStep' /\ cut \subseteq cut' /\ taken' = taken
    BY <1>3, <1>4
  <2>2. \A v \in Workers : work'[v] = work[v]
    BY <1>3
  <2>3. \A m \in RunIds : logged'[m] = logged[m] \/ \E v \in Workers : work[v] # Idle /\ work[v].id = m
    BY <1>2, <1>8
  <2> QED BY <2>1, <2>2, <2>3, <1>7, <1>8, SnapshotsStay
<1>14. Pinned'
  BY <1>0, <1>3 DEF Pinned, PinsHaveTheirRun, Present
<1> QED BY <1>7, <1>10, <1>11, <1>12, <1>13, <1>14 DEF IInv

LEMMA FinishRunKeeps ==
  ASSUME IInv, NEW w \in Workers, FinishRun(w)
  PROVE  IInv'
<1>0. TypeOK /\ Numbered /\ Manned /\ Linked(runs, steps) /\ Pinned
  BY DEF IInv
<1>1. PICK n : n = work[w].id
  OBVIOUS
<1>2. n \in RunIds /\ work[w] # Idle /\ (n \notin cut => logged[n] \subseteq Present(steps))
  BY <1>0, <1>1, WorkShape DEF FinishRun, TypeOK, Manned
<1>3. /\ runs' = IF runs[n] = NoRow THEN runs ELSE [runs EXCEPT ![n].status = "finished"]
      /\ work' = [work EXCEPT ![w] = Idle]
      /\ UNCHANGED <<steps, lastRun, lastStep, pinned, req, taken, history, raced, deaths>>
  BY <1>1 DEF FinishRun
<1>4. /\ begun' = begun /\ logged' = logged /\ cut' = cut /\ begun \in Nat /\ lastStep \in Nat
      /\ runs \in RunsTables /\ steps \in StepsTables
  BY <1>0, <1>3, HistoryAssumption DEF history, TypeOK, RunsTables, StepsTables
<1>5. /\ runs' \in RunsTables
      /\ \A i \in RunIds \ {n} : runs'[i] = runs[i]
      /\ runs[n] = NoRow => runs'[n] = NoRow
      /\ runs[n] # NoRow => runs'[n] # NoRow /\ runs'[n].by = runs[n].by
  <2>1. CASE runs[n] = NoRow
    BY <2>1, <1>3, <1>4
  <2>2. CASE runs[n] # NoRow
    <3>1. PICK x : x = [runs[n] EXCEPT !.status = "finished"]
      OBVIOUS
    <3>2. runs[n] \in RunRows
      BY <2>2, <1>2, <1>4 DEF RunsTables
    <3>3. x \in RunRows /\ x # NoRow /\ x.by = runs[n].by
      BY <3>1, <3>2 DEF RunRows, NoRow
    <3>4. runs' = [runs EXCEPT ![n] = x]
      BY <2>2, <3>1, <1>3
    <3> QED BY <2>2, <3>3, <3>4, <1>2, <1>4 DEF RunsTables
  <2> QED BY <2>1, <2>2
<1>6. Present(runs') = Present(runs)
  BY <1>2, <1>4, <1>5, PresentRuns
<1>7. \A v \in Workers : work'[v] # Idle => v # w /\ work'[v] = work[v]
  BY <1>0, <1>3 DEF TypeOK
<1>8. TypeOK'
  <2>1. runs' \in [RunIds -> {NoRow} \cup RunRows]
    BY <1>5 DEF RunsTables
  <2>2. work' \in [Workers -> {Idle} \cup Working]
    BY <1>0, <1>3 DEF TypeOK
  <2> QED BY <2>1, <2>2, <1>0, <1>3, <1>4 DEF TypeOK, Snapshots
<1>9. Numbered'
  BY <1>0, <1>3, <1>4 DEF Numbered
<1>10. Manned'
  BY <1>0, <1>3, <1>4, <1>6, <1>7 DEF Manned, Present
<1>11. Linked(runs, steps)'
  <2>1. RunsAgree(runs)'
    <3>1. ASSUME NEW i \in Present(runs)
          PROVE  runs'[i].by = i /\ i <= begun
      BY <1>0, <1>4, <1>5, PresentRuns DEF Linked, RunsAgree
    <3>2. ASSUME NEW v \in Workers, work'[v] # Idle
          PROVE  runs'[work'[v].id] = NoRow \/ runs'[work'[v].id].status = "running"
      <4>1. work'[v] = work[v] /\ work[v].id \in RunIds /\ work[v].id # n
        BY <3>2, <1>0, <1>1, <1>2, <1>7, WorkShape DEF Manned, TypeOK
      <4> QED BY <3>2, <4>1, <1>0, <1>5 DEF Linked, RunsAgree
    <3> QED BY <3>1, <3>2, <1>4, <1>6 DEF RunsAgree, Present
  <2>2. StepsAgree(runs, steps)'
    <3>1. Present(steps)' = Present(steps) /\ Present(runs)' = Present(runs)
      BY <1>3, <1>6 DEF Present
    <3> QED BY <3>1, <1>0, <1>3, <1>4 DEF Linked, StepsAgree
  <2>3. AllThere(runs, steps)'
    <3>1. ASSUME NEW i \in Present(runs) \ cut, runs'[i].status = "finished"
          PROVE  logged[i] \subseteq Present(steps)
      <4>1. CASE i = n
        BY <3>1, <4>1, <1>2
      <4>2. CASE i # n
        BY <3>1, <4>2, <1>0, <1>4, <1>5, PresentRuns DEF Linked, AllThere
      <4> QED BY <4>1, <4>2
    <3> QED BY <3>1, <1>3, <1>4, <1>6 DEF AllThere, Present
  <2> QED BY <2>1, <2>2, <2>3 DEF Linked
<1>12. \A snap \in taken' : Linked(snap.runs, snap.steps)'
  <2>1. begun <= begun' /\ lastStep <= lastStep' /\ cut \subseteq cut' /\ taken' = taken
    BY <1>3, <1>4
  <2> QED BY <2>1, <1>4, <1>7, <1>8, SnapshotsStay
<1>13. Pinned'
  <2>1. Present(runs)' = Present(runs)
    BY <1>6 DEF Present
  <2> QED BY <2>1, <1>0, <1>3 DEF Pinned, PinsHaveTheirRun
<1> QED BY <1>8, <1>9, <1>10, <1>11, <1>12, <1>13 DEF IInv

-----------------------------------------------------------------------------
(* Purges, deletions and pins.                                             *)

\* Rows go together with their steps; those of live runs are cut.
LEMMA Removing ==
  ASSUME IInv, NEW ids \in SUBSET RunIds,
         runs' = Without(ids), steps' = StepsWithout(ids),
         UNCHANGED <<lastRun, lastStep, work, taken, begun, logged>>,
         cut \subseteq cut', cut' \subseteq RunIds,
         \A w \in Workers : work[w] # Idle /\ work[w].id \in ids /\ work[w].id \in Present(runs) => work[w].id \in cut'
  PROVE  /\ runs' \in RunsTables /\ steps' \in StepsTables
         /\ Present(runs') = Present(runs) \ ids
         /\ Numbered' /\ Manned' /\ Linked(runs, steps)'
<1>0. TypeOK /\ Numbered /\ Manned /\ Linked(runs, steps)
  BY DEF IInv
<1>1. runs \in RunsTables /\ steps \in StepsTables
  BY <1>0 DEF TypeOK, RunsTables, StepsTables
<1>2. runs' \in RunsTables /\ steps' \in StepsTables
  BY <1>1 DEF Without, StepsWithout, RunsTables, StepsTables
<1>3. Present(runs') = Present(runs) \ ids /\ \A i \in Present(runs') : i \in RunIds /\ runs'[i] = runs[i]
  BY <1>1, <1>2, PresentRuns DEF Without
<1>4. /\ Present(steps') = {i \in Present(steps) : steps[i].run \notin ids}
      /\ \A i \in Present(steps') : i \in StepIds /\ steps'[i] = steps[i]
  BY <1>1, <1>2, PresentSteps DEF StepsWithout
<1>5. ASSUME NEW n \in RunIds \ ids, logged[n] \subseteq Present(steps)
      PROVE  logged[n] \subseteq Present(steps')
  BY <1>4, <1>5, OwnStep
<1>6. Numbered'
  BY <1>0 DEF Numbered
<1>7. Manned'
  <2>1. ASSUME NEW w \in Workers, work[w] # Idle, work[w].id \notin cut'
        PROVE  work[w].id \in Present(runs') /\ logged[work[w].id] \subseteq Present(steps')
    <3>1. PICK n : n = work[w].id
      OBVIOUS
    <3>2. n \in RunIds /\ n \in Present(runs) /\ logged[n] \subseteq Present(steps)
      BY <2>1, <3>1, <1>0, WorkShape DEF Manned, TypeOK
    <3>3. n \notin ids
      BY <2>1, <3>1, <3>2
    <3> QED BY <3>1, <3>2, <3>3, <1>3, <1>5
  <2> QED BY <2>1, <1>0 DEF Manned, Present
<1>8. Linked(runs, steps)'
  <2>1. RunsAgree(runs)'
    <3>1. \A i \in Present(runs') : runs'[i].by = i /\ i <= begun
      BY <1>0, <1>3 DEF Linked, RunsAgree
    <3>2. ASSUME NEW w \in Workers, work[w] # Idle
          PROVE  runs'[work[w].id] = NoRow \/ runs'[work[w].id].status = "running"
      <4>1. work[w].id \in RunIds
        BY <3>2, <1>0, WorkShape DEF TypeOK
      <4>2. runs'[work[w].id] \in {NoRow, runs[work[w].id]}
        BY <4>1 DEF Without
      <4> QED BY <3>2, <4>2, <1>0 DEF Linked, RunsAgree
    <3> QED BY <3>1, <3>2 DEF RunsAgree, Present
  <2>2. StepsAgree(runs, steps)'
    <3>1. ASSUME NEW i \in Present(steps')
          PROVE  /\ steps'[i].by = steps'[i].run /\ i <= lastStep
                 /\ i \in logged[steps'[i].run]
                 /\ steps'[i].run \in Present(runs') \cup cut'
      <4>1. i \in Present(steps) /\ steps'[i] = steps[i] /\ steps[i].run \notin ids
        BY <1>4
      <4> QED BY <4>1, <1>0, <1>3 DEF Linked, StepsAgree
    <3> QED BY <3>1 DEF StepsAgree, Present
  <2>3. AllThere(runs, steps)'
    <3>1. ASSUME NEW i \in Present(runs') \ cut', runs'[i].status = "finished"
          PROVE  logged[i] \subseteq Present(steps')
      <4>1. i \in RunIds \ ids /\ i \in Present(runs) \ cut /\ runs[i].status = "finished"
        BY <3>1, <1>3
      <4>2. logged[i] \subseteq Present(steps)
        BY <4>1, <1>0 DEF Linked, AllThere
      <4> QED BY <4>1, <4>2, <1>5
    <3> QED BY <3>1 DEF AllThere, Present
  <2> QED BY <2>1, <2>2, <2>3 DEF Linked
<1> QED BY <1>2, <1>3, <1>6, <1>7, <1>8

LEMMA SnapshotsSurvive ==
  ASSUME IInv, TypeOK', UNCHANGED <<lastRun, lastStep, work, taken, begun, logged>>, cut \subseteq cut'
  PROVE  \A snap \in taken' : Linked(snap.runs, snap.steps)'
<1>1. begun \in Nat /\ lastStep \in Nat
  BY HistoryAssumption DEF IInv, TypeOK
<1>2. begun <= begun' /\ lastStep <= lastStep' /\ taken' = taken
  BY <1>1
<1> QED BY <1>2, SnapshotsStay

\* No purge takes a live run: its row is running.
LEMMA PurgeTakesFinished ==
  ASSUME IInv, NEW w \in Workers, work[w] # Idle, work[w].id \in Present(runs)
  PROVE  work[w].id \in RunIds /\ runs[work[w].id].status = "running" /\ ~Prunable(work[w].id)
<1>1. work[w].id \in RunIds /\ runs[work[w].id] # NoRow
  BY WorkShape, PresentRuns DEF IInv, TypeOK, RunsTables
<1> QED BY <1>1 DEF IInv, Linked, RunsAgree, Prunable

LEMMA PurgeRunsKeeps ==
  ASSUME IInv, NEW c \in Clients, PurgeRuns(c)
  PROVE  /\ IInv'
         /\ \A w \in Workers : work[w] # Idle /\ work[w].id \in Present(runs) => work[w].id \in Present(runs')
<1>0. TypeOK /\ Pinned
  BY DEF IInv
<1>1. /\ req' = [req EXCEPT ![c] = Idle]
      /\ UNCHANGED <<lastRun, lastStep, pinned, work, taken, history, deaths>>
  BY DEF PurgeRuns
<1>2. PICK ids : /\ ids \subseteq {i \in Present(runs) : Prunable(i)} /\ ids \cap req[c].spared = {}
                 /\ runs' = Without(ids) /\ steps' = StepsWithout(ids)
                 /\ raced' = raced \cup {i \in ids : AboutToPin(i) \/ i \in req[c].late}
  BY DEF PurgeRuns
<1>3. ids \subseteq RunIds
  BY <1>2, <1>0, PresentRuns DEF TypeOK, RunsTables
<1>4. begun' = begun /\ logged' = logged /\ cut' = cut /\ cut \subseteq RunIds
  BY <1>0, <1>1 DEF history, TypeOK
<1>5. \A w \in Workers : work[w] # Idle /\ work[w].id \in Present(runs) => work[w].id \notin ids
  BY <1>2, PurgeTakesFinished
<1>6. /\ runs' \in RunsTables /\ steps' \in StepsTables
      /\ Present(runs') = Present(runs) \ ids
      /\ Numbered' /\ Manned' /\ Linked(runs, steps)'
  BY <1>1, <1>2, <1>3, <1>4, <1>5, Removing
<1>7. TypeOK'
  <2>1. raced' \subseteq RunIds
    BY <1>0, <1>2, <1>3 DEF TypeOK
  <2>2. req' \in [Clients -> {Idle} \cup Purging \cup Pinning]
    BY <1>0, <1>1 DEF TypeOK
  <2> QED BY <2>1, <2>2, <1>0, <1>1, <1>4, <1>6 DEF TypeOK, Snapshots, RunsTables, StepsTables
<1>8. \A snap \in taken' : Linked(snap.runs, snap.steps)'
  BY <1>1, <1>4, <1>7, SnapshotsSurvive
<1>9. Pinned'
  <2>0. pinned \cap ids \subseteq req[c].late
    BY <1>0, <1>2 DEF PurgeRuns, Pinned
  <2>1. pinned' \subseteq Present(runs') \cup raced'
    BY <2>0, <1>0, <1>1, <1>2, <1>6 DEF Pinned, PinsHaveTheirRun
  <2>3. ASSUME NEW d \in Clients, req'[d].at = "purge"
        PROVE  pinned' \subseteq req'[d].spared \cup req'[d].late
    <3>1. d # c /\ req'[d] = req[d]
      BY <2>3, <1>0, <1>1, RequestShape DEF TypeOK
    <3> QED BY <2>3, <3>1, <1>0, <1>1 DEF Pinned
  <2>2. ASSUME NEW d \in Clients, req'[d].at = "pin"
        PROVE  req'[d].id \in Present(runs') \cup raced'
    <3>1. d # c /\ req'[d] = req[d]
      BY <2>2, <1>0, <1>1, RequestShape DEF TypeOK
    <3>2. req[d].id \in ids => AboutToPin(req[d].id)
      BY <2>2, <3>1 DEF AboutToPin
    <3> QED BY <2>2, <3>1, <3>2, <1>0, <1>2, <1>6 DEF Pinned
  <2> QED BY <2>1, <2>2, <2>3 DEF Pinned, PinsHaveTheirRun, Present
<1>10. IInv'
  BY <1>6, <1>7, <1>8, <1>9 DEF IInv
<1> QED BY <1>5, <1>6, <1>10

LEMMA DeleteRunsKeeps ==
  ASSUME IInv, NEW ids \in SUBSET RunIds, DeleteRuns(ids)
  PROVE  IInv'
<1>0. TypeOK /\ Pinned
  BY DEF IInv
<1>1. /\ ids \subseteq Present(runs)
      /\ runs' = Without(ids) /\ steps' = StepsWithout(ids)
      /\ pinned' = pinned \ ids
      /\ cut' = cut \cup {i \in ids : runs[i].status = "running"}
      /\ raced' = raced \cup {i \in ids : AboutToPin(i)}
      /\ UNCHANGED <<lastRun, lastStep, work, req, taken, begun, logged, deaths>>
  BY DEF DeleteRuns, PinsWithout
<1>2. cut \subseteq cut' /\ cut' \subseteq RunIds /\ raced' \subseteq RunIds
  BY <1>0, <1>1 DEF TypeOK
<1>3. \A w \in Workers : work[w] # Idle /\ work[w].id \in ids /\ work[w].id \in Present(runs) => work[w].id \in cut'
  BY <1>1, PurgeTakesFinished
<1>4. /\ runs' \in RunsTables /\ steps' \in StepsTables
      /\ Present(runs') = Present(runs) \ ids
      /\ Numbered' /\ Manned' /\ Linked(runs, steps)'
  BY <1>1, <1>2, <1>3, Removing
<1>5. TypeOK'
  BY <1>0, <1>1, <1>2, <1>4 DEF TypeOK, Snapshots, RunsTables, StepsTables
<1>6. \A snap \in taken' : Linked(snap.runs, snap.steps)'
  BY <1>1, <1>2, <1>5, SnapshotsSurvive
<1>7. Pinned'
  <2>1. pinned' \subseteq Present(runs') \cup raced'
    BY <1>0, <1>1, <1>4 DEF Pinned, PinsHaveTheirRun
  <2>2. ASSUME NEW d \in Clients, req[d].at = "pin"
        PROVE  req[d].id \in Present(runs') \cup raced'
    <3>1. req[d].id \in ids => AboutToPin(req[d].id)
      BY <2>2 DEF AboutToPin
    <3> QED BY <2>2, <3>1, <1>0, <1>1, <1>4 DEF Pinned
  <2>3. \A d \in Clients : req'[d].at = "purge" => pinned' \subseteq req'[d].spared \cup req'[d].late
    BY <1>0, <1>1 DEF Pinned
  <2> QED BY <2>1, <2>2, <2>3, <1>1 DEF Pinned, PinsHaveTheirRun, Present
<1> QED BY <1>4, <1>5, <1>6, <1>7 DEF IInv

LEMMA PinsKeep ==
  ASSUME IInv, NEW c \in Clients, ReadPins(c) \/ AskToPin(c) \/ SetPin(c)
  PROVE  IInv'
<1>0. TypeOK /\ Pinned
  BY DEF IInv
<1>1. UNCHANGED <<tables, work, taken, history, raced, deaths>>
  BY DEF ReadPins, AskToPin, SetPin
<1>2. /\ runs' = runs /\ steps' = steps /\ lastRun' = lastRun /\ lastStep' = lastStep
      /\ begun' = begun /\ logged' = logged /\ cut' = cut /\ raced' = raced
  BY <1>1 DEF tables, history
<1>3. /\ req' \in [Clients -> {Idle} \cup Purging \cup Pinning]
      /\ \A d \in Clients : req'[d].at = "pin" => req'[d].id \in Present(runs) \cup raced
      /\ \A d \in Clients : req'[d].at = "purge" => pinned' \subseteq req'[d].spared \cup req'[d].late
      /\ pinned' = pinned \/ (req[c].at = "pin" /\ pinned' \subseteq pinned \cup {req[c].id})
  <2>1. CASE ReadPins(c)
    <3>1. PICK r : r = [at |-> "purge", spared |-> pinned, late |-> {}]
      OBVIOUS
    <3>2. r \in Purging /\ r.at # "pin" /\ pinned \subseteq r.spared \cup r.late
      BY <3>1, <1>0 DEF Purging, TypeOK
    <3>3. req' = [req EXCEPT ![c] = r] /\ pinned' = pinned
      BY <2>1, <3>1 DEF ReadPins, ProtectedIds
    <3> QED BY <3>2, <3>3, <1>0 DEF Pinned, TypeOK
  <2>2. CASE AskToPin(c)
    <3>1. PICK id \in Present(runs), on \in BOOLEAN : req' = [req EXCEPT ![c] = [at |-> "pin", id |-> id, on |-> on]]
      BY <2>2 DEF AskToPin
    <3>2. PICK r : r = [at |-> "pin", id |-> id, on |-> on]
      OBVIOUS
    <3>3. id \in RunIds
      BY <3>1, <1>0, PresentRuns DEF TypeOK, RunsTables
    <3>4. r \in Pinning /\ r.id \in Present(runs) /\ r.at # "purge"
      BY <3>1, <3>2, <3>3 DEF Pinning
    <3>5. req' = [req EXCEPT ![c] = r] /\ pinned' = pinned
      BY <2>2, <3>1, <3>2 DEF AskToPin
    <3> QED BY <3>4, <3>5, <1>0 DEF Pinned, TypeOK
  <2>3. CASE SetPin(c)
    <3>1. PICK id \in RunIds : id = req[c].id /\ id \in Present(runs) \cup raced
      BY <2>3, <1>0, RequestShape DEF SetPin, Pinned, TypeOK
    <3>2. pinned' = (IF req[c].on THEN pinned \cup {id} ELSE pinned \ {id}) /\ req[c].at = "pin"
      BY <2>3, <3>1 DEF SetPin
    <3>3. ASSUME NEW d \in Clients
          PROVE  /\ req'[d] \in {Idle} \cup Purging \cup Pinning
                 /\ req'[d].at = "pin" => req'[d].id \in Present(runs) \cup raced
                 /\ req'[d].at = "purge" => pinned' \subseteq req'[d].spared \cup req'[d].late
      <4>1. PICK q : q = req[d] /\ q \in {Idle} \cup Purging \cup Pinning
        BY <1>0 DEF TypeOK
      <4>2. CASE d = c
        BY <2>3, <4>2 DEF SetPin, Idle
      <4>3. CASE d # c /\ q.at = "purge" /\ req[c].on
        <5>1. q \in Purging
          BY <4>1, <4>3 DEF Idle, Pinning
        <5>2. PICK z : z = q.late \cup ({id} \ q.spared)
          OBVIOUS
        <5>3. req'[d] = [q EXCEPT !.late = z]
          BY <2>3, <3>1, <4>1, <4>3, <5>2 DEF SetPin
        <5>4. req'[d] \in Purging /\ req'[d].at = "purge" /\ req'[d].spared = q.spared /\ req'[d].late = z
          BY <3>1, <5>1, <5>2, <5>3 DEF Purging
        <5>5. pinned \subseteq q.spared \cup q.late
          BY <4>1, <4>3, <1>0 DEF Pinned
        <5> QED BY <3>2, <4>3, <5>2, <5>4, <5>5
      <4>4. CASE d # c /\ ~(q.at = "purge" /\ req[c].on)
        <5>1. req'[d] = q
          BY <2>3, <4>1, <4>4 DEF SetPin
        <5>2. q.at = "pin" => q.id \in Present(runs) \cup raced
          BY <4>1, <1>0 DEF Pinned
        <5>3. q.at = "purge" => pinned' \subseteq q.spared \cup q.late
          BY <3>2, <4>1, <4>4, <1>0 DEF Pinned
        <5> QED BY <4>1, <5>1, <5>2, <5>3
      <4> QED BY <4>2, <4>3, <4>4
    <3>4. req' = [d \in Clients |-> req'[d]]
      BY <2>3 DEF SetPin
    <3>5. req' \in [Clients -> {Idle} \cup Purging \cup Pinning]
      BY <3>3, <3>4
    <3> QED BY <3>1, <3>2, <3>3, <3>5
  <2> QED BY <2>1, <2>2, <2>3
<1>4. TypeOK'
  <2>1. pinned' \subseteq RunIds
    BY <1>0, <1>3, RequestShape DEF TypeOK
  <2> QED BY <2>1, <1>0, <1>1, <1>2, <1>3 DEF TypeOK, Snapshots
<1>5. Pinned'
  <2>1. pinned' \subseteq Present(runs) \cup raced
    BY <1>0, <1>3 DEF Pinned, PinsHaveTheirRun
  <2> QED BY <2>1, <1>2, <1>3 DEF Pinned, PinsHaveTheirRun, Present
<1> QED BY <1>1, <1>4, <1>5, QuietStep

-----------------------------------------------------------------------------
(* Snapshots, deaths.                                                      *)

\* A snapshot holds no row the database has not seen, so merging it brings back
\* rows that were removed and changes none.
LEMMA RestoreKeeps ==
  ASSUME IInv, Restore
  PROVE  IInv'
<1>0. TypeOK /\ Numbered /\ Manned /\ Linked(runs, steps) /\ Pinned
  BY DEF IInv
<1>1. PICK snap \in taken : /\ runs' = Merged(runs, snap.runs)
                            /\ steps' = Merged(steps, snap.steps)
                            /\ lastRun' = AtLeast(lastRun, Present(snap.runs))
                            /\ lastStep' = AtLeast(lastStep, Present(snap.steps))
  BY DEF Restore
<1>2. UNCHANGED <<pinned, work, req, taken, begun, logged, cut, raced, deaths>>
  BY DEF Restore, history
<1>3. PICK r, s : r = snap.runs /\ s = snap.steps
  OBVIOUS
<1>4. /\ r \in RunsTables /\ s \in StepsTables /\ Linked(r, s)
      /\ runs \in RunsTables /\ steps \in StepsTables
  BY <1>0, <1>3 DEF IInv, TypeOK, Snapshots, RunsTables, StepsTables
<1>5. /\ lastRun' = lastRun /\ lastStep' = lastStep
  <2>1. lastRun \in Nat /\ lastStep \in Nat /\ lastRun = begun
    BY <1>0, HistoryAssumption DEF TypeOK, Numbered
  <2>2. Present(r) \subseteq 0..lastRun
    BY <2>1, <1>4, PresentRuns DEF Linked, RunsAgree, RunIds
  <2>3. Present(s) \subseteq 0..lastStep
    BY <2>1, <1>4, PresentSteps DEF Linked, StepsAgree, StepIds
  <2> QED BY <2>1, <2>2, <2>3, <1>1, <1>3, AlreadyAhead
<1>6. /\ runs' \in RunsTables
      /\ \A i \in RunIds : runs'[i] = IF runs[i] # NoRow THEN runs[i] ELSE r[i]
  BY <1>1, <1>3, <1>4 DEF Merged, RunsTables
<1>7. /\ steps' \in StepsTables
      /\ \A i \in StepIds : steps'[i] = IF steps[i] # NoRow THEN steps[i] ELSE s[i]
  BY <1>1, <1>3, <1>4 DEF Merged, StepsTables
<1>8. Present(runs') = Present(runs) \cup Present(r)
  BY <1>4, <1>6, PresentRuns
<1>9. Present(steps') = Present(steps) \cup Present(s)
  BY <1>4, <1>7, PresentSteps
<1>10. TypeOK'
  BY <1>0, <1>2, <1>5, <1>6, <1>7 DEF TypeOK, Snapshots, RunsTables, StepsTables
<1>11. Numbered'
  BY <1>0, <1>2, <1>5 DEF Numbered
<1>12. Manned'
  <2>1. ASSUME NEW w \in Workers, work[w] # Idle, work[w].id \notin cut
        PROVE  work[w].id \in Present(runs') /\ logged[work[w].id] \subseteq Present(steps')
    BY <2>1, <1>0, <1>8, <1>9 DEF Manned
  <2> QED BY <2>1, <1>0, <1>2 DEF Manned, Present
<1>13. Linked(runs, steps)'
  <2>1. RunsAgree(runs)'
    <3>1. ASSUME NEW i \in Present(runs')
          PROVE  runs'[i].by = i /\ i <= begun
      <4>1. i \in RunIds /\ (runs[i] # NoRow => i \in Present(runs)) /\ (runs[i] = NoRow => i \in Present(r))
        BY <1>4, <1>6, <1>8, PresentRuns
      <4> QED BY <4>1, <1>0, <1>4, <1>6 DEF Linked, RunsAgree
    <3>2. ASSUME NEW w \in Workers, work[w] # Idle
          PROVE  runs'[work[w].id] = NoRow \/ runs'[work[w].id].status = "running"
      <4>1. work[w].id \in RunIds
        BY <3>2, <1>0, WorkShape DEF TypeOK
      <4> QED BY <3>2, <4>1, <1>0, <1>4, <1>6 DEF Linked, RunsAgree
    <3> QED BY <3>1, <3>2, <1>2 DEF RunsAgree, Present
  <2>2. StepsAgree(runs, steps)'
    <3>1. ASSUME NEW i \in Present(steps')
          PROVE  /\ steps'[i].by = steps'[i].run /\ i <= lastStep
                 /\ i \in logged[steps'[i].run]
                 /\ steps'[i].run \in Present(runs') \cup cut
      <4>1. i \in StepIds /\ (steps[i] # NoRow => i \in Present(steps)) /\ (steps[i] = NoRow => i \in Present(s))
        BY <1>4, <1>7, <1>9, PresentSteps
      <4>2. CASE steps[i] # NoRow
        BY <4>1, <4>2, <1>0, <1>7, <1>8 DEF Linked, StepsAgree
      <4>3. CASE steps[i] = NoRow
        BY <4>1, <4>3, <1>4, <1>7, <1>8 DEF Linked, StepsAgree
      <4> QED BY <4>2, <4>3
    <3> QED BY <3>1, <1>2, <1>5 DEF StepsAgree, Present
  <2>3. AllThere(runs, steps)'
    <3>1. ASSUME NEW i \in Present(runs') \ cut, runs'[i].status = "finished"
          PROVE  logged[i] \subseteq Present(steps')
      <4>1. i \in RunIds /\ (runs[i] # NoRow => i \in Present(runs)) /\ (runs[i] = NoRow => i \in Present(r))
        BY <1>4, <1>6, <1>8, PresentRuns
      <4>2. CASE runs[i] # NoRow
        BY <3>1, <4>1, <4>2, <1>0, <1>6, <1>9 DEF Linked, AllThere
      <4>3. CASE runs[i] = NoRow
        BY <3>1, <4>1, <4>3, <1>4, <1>6, <1>9 DEF Linked, AllThere
      <4> QED BY <4>2, <4>3
    <3> QED BY <3>1, <1>2 DEF AllThere, Present
  <2> QED BY <2>1, <2>2, <2>3 DEF Linked
<1>14. \A t \in taken' : Linked(t.runs, t.steps)'
  BY <1>2, <1>5, <1>10, SnapshotsSurvive
<1>15. Pinned'
  <2>1. pinned' \subseteq Present(runs') \cup raced'
    BY <1>0, <1>2, <1>8 DEF Pinned, PinsHaveTheirRun
  <2>2. \A c \in Clients : req'[c].at = "pin" => req'[c].id \in Present(runs') \cup raced'
    BY <1>0, <1>2, <1>8 DEF Pinned
  <2>3. \A c \in Clients : req'[c].at = "purge" => pinned' \subseteq req'[c].spared \cup req'[c].late
    BY <1>0, <1>2 DEF Pinned
  <2> QED BY <2>1, <2>2, <2>3 DEF Pinned, PinsHaveTheirRun, Present
<1> QED BY <1>10, <1>11, <1>12, <1>13, <1>14, <1>15 DEF IInv

LEMMA OthersKeep ==
  ASSUME IInv, (\E w \in Workers : RunRaises(w)) \/ Export \/ Death
  PROVE  IInv'
<1>0. TypeOK /\ Pinned
  BY DEF IInv
<1>1. UNCHANGED <<tables, pinned, history, raced>>
  BY DEF RunRaises, Export, Death
<1>2. \A w \in Workers : work'[w] \in {Idle, work[w]}
  BY <1>0 DEF RunRaises, Export, Death, TypeOK
<1>3. \A snap \in taken' : snap \in taken \/ snap = [runs |-> runs, steps |-> steps]
  BY DEF RunRaises, Export, Death
<1>4. \A c \in Clients : req'[c] \in {Idle, req[c]}
  BY DEF RunRaises, Export, Death
<1>5. TypeOK'
  <2>1. work' \in [Workers -> {Idle} \cup Working]
    BY <1>0 DEF RunRaises, Export, Death, TypeOK
  <2>2. req' \in [Clients -> {Idle} \cup Purging \cup Pinning]
    BY <1>0 DEF RunRaises, Export, Death, TypeOK
  <2>3. taken' \subseteq Snapshots
    BY <1>0, <1>3 DEF TypeOK, Snapshots
  <2>4. deaths' \in 0..MaxDeaths
    BY <1>0, HistoryAssumption DEF RunRaises, Export, Death, TypeOK
  <2> QED BY <2>1, <2>2, <2>3, <2>4, <1>0, <1>1 DEF TypeOK, tables, history
<1>6. Pinned'
  <2>1. runs' = runs /\ pinned' = pinned /\ raced' = raced
    BY <1>1 DEF tables
  <2>2. \A c \in Clients : req'[c].at \in {"pin", "purge"} => req'[c] = req[c]
    BY <1>4 DEF Idle
  <2> QED BY <2>1, <2>2, <1>0 DEF Pinned, PinsHaveTheirRun, Present
<1> QED BY <1>1, <1>2, <1>3, <1>5, <1>6, QuietStep

-----------------------------------------------------------------------------
(* The theorems.                                                           *)

LEMMA InitInv ==
  ASSUME Init
  PROVE  IInv
<1>1. runs \in RunsTables /\ steps \in StepsTables /\ Present(runs) = {} /\ Present(steps) = {}
  <2>1. runs \in RunsTables /\ steps \in StepsTables
    BY DEF Init, RunsTables, StepsTables
  <2> QED BY <2>1, PresentRuns, PresentSteps DEF Init
<1>2. TypeOK
  BY <1>1, HistoryAssumption DEF Init, TypeOK, RunsTables, StepsTables
<1>3. Numbered
  BY DEF Init, Numbered
<1>4. \A w \in Workers : work[w] = Idle
  BY DEF Init
<1>5. \A c \in Clients : req[c].at # "pin"
  BY DEF Init, Idle
<1>6. Manned /\ Linked(runs, steps)
  BY <1>1, <1>4 DEF Manned, Linked, RunsAgree, StepsAgree, AllThere
<1>7. Pinned
  BY <1>5 DEF Init, Pinned, PinsHaveTheirRun
<1> QED BY <1>2, <1>3, <1>6, <1>7 DEF IInv, Init

LEMMA NextInv ==
  ASSUME IInv, [Next]_vars
  PROVE  IInv'
<1>1. ASSUME NEW w \in Workers, StartRun(w) PROVE IInv'
  BY <1>1, StartRunKeeps
<1>2. ASSUME NEW w \in Workers, LogStep(w) PROVE IInv'
  BY <1>2, LogStepKeeps
<1>3. ASSUME NEW w \in Workers, FinishRun(w) PROVE IInv'
  BY <1>3, FinishRunKeeps
<1>4. ASSUME NEW c \in Clients, PurgeRuns(c) PROVE IInv'
  BY <1>4, PurgeRunsKeeps
<1>5. ASSUME NEW c \in Clients, ReadPins(c) \/ AskToPin(c) \/ SetPin(c) PROVE IInv'
  BY <1>5, PinsKeep
<1>6. ASSUME NEW ids \in SUBSET RunIds, DeleteRuns(ids) PROVE IInv'
  BY <1>6, DeleteRunsKeeps
<1>7. CASE Restore
  BY <1>7, RestoreKeeps
<1>8. CASE (\E w \in Workers : RunRaises(w)) \/ Export \/ Death
  BY <1>8, OthersKeep
<1>9. CASE UNCHANGED vars
  <2>1. UNCHANGED <<tables, pinned, work, req, taken, history, raced, deaths>>
    BY <1>9 DEF vars
  <2>2. UNCHANGED <<runs, steps, lastRun, lastStep, begun, logged, cut>>
    BY <2>1 DEF tables, history
  <2>3. TypeOK'
    BY <2>1, <2>2 DEF IInv, TypeOK, Snapshots
  <2>4. Pinned'
    BY <2>1, <2>2 DEF IInv, Pinned, PinsHaveTheirRun, Present
  <2> QED BY <2>1, <2>3, <2>4, QuietStep
<1> QED BY <1>1, <1>2, <1>3, <1>4, <1>5, <1>6, <1>7, <1>8, <1>9 DEF Next

\* The inductive invariant holds in every reachable state.
THEOREM Invariance == Spec => []IInv
<1>1. Init => IInv
  BY InitInv
<1>2. IInv /\ [Next]_vars => IInv'
  BY NextInv
<1> QED BY <1>1, <1>2, PTL DEF Spec

\* Every variable stays in its type, under every step of the tables, the
\* requests and the snapshots.
THEOREM TypeCorrect == Spec => []TypeOK
<1>1. IInv => TypeOK
  BY DEF IInv
<1> QED BY <1>1, Invariance, PTL

\* No step is left without its run, unless a user deleted the run while it was
\* going on.
THEOREM StepsHaveTheirRuns == Spec => []EveryStepHasItsRun
<1>1. IInv => EveryStepHasItsRun
  BY DEF IInv, Linked, StepsAgree, EveryStepHasItsRun
<1> QED BY <1>1, Invariance, PTL

\* The steps shown under a run are that run's: no id is given out twice, and
\* no snapshot brings back a row under another's id.
THEOREM StepsAreOwn == Spec => []StepsAreTheirRunsOwn
<1>1. IInv => StepsAreTheirRunsOwn
  BY DEF IInv, Linked, RunsAgree, StepsAgree, StepsAreTheirRunsOwn
<1> QED BY <1>1, Invariance, PTL

\* A run that is shown as finished is shown with every step it logged, before
\* and after a restore.
THEOREM FinishedAreWhole == Spec => []FinishedRunsAreWhole
<1>1. ASSUME IInv, NEW id \in Present(runs) \ cut, runs[id].status # "running"
      PROVE  {i \in Present(steps) : steps[i].run = id} = logged[runs[id].by]
  <2>1. runs \in RunsTables
    BY <1>1 DEF IInv, TypeOK, RunsTables
  <2>2. id \in RunIds /\ runs[id].status = "finished" /\ runs[id].by = id
    BY <1>1, <2>1, PresentRuns DEF IInv, Linked, RunsAgree
  <2>3. logged[id] \subseteq Present(steps)
    BY <1>1, <2>2 DEF IInv, Linked, AllThere
  <2> QED BY <1>1, <2>2, <2>3, OwnStep
<1>2. IInv => FinishedRunsAreWhole
  BY <1>1 DEF FinishedRunsAreWhole
<1> QED BY <1>2, Invariance, PTL

\* Pins are about runs that are there, or whose removal raced with the pin: no
\* purge takes a run that was pinned when it read the pins.
THEOREM PinsAreAboutRuns == Spec => []PinsHaveTheirRun
<1>1. IInv => PinsHaveTheirRun
  BY DEF IInv, Pinned
<1> QED BY <1>1, Invariance, PTL

\* No purge takes a row that a worker is going to finish.
THEOREM PurgesSpare == Spec => PurgeSparesTheLive
<1>1. IInv /\ [Next]_vars => [\A c \in Clients : PurgeRuns(c) =>
                               \A w \in Workers : work[w] # Idle /\ work[w].id \in Present(runs) =>
                                 work[w].id \in Present(runs')]_vars
  BY PurgeRunsKeeps
<1> QED BY <1>1, Invariance, PTL DEF Spec, PurgeSparesTheLive

-----------------------------------------------------------------------------
(***************************************************************************)
(* AutoBackup, for any requests, settings and length of time:              *)
(* a restorable snapshot remains, pinned ones survive, last_backup_at is   *)
(* the second of a snapshot that was written whole.                        *)
(*                                                                         *)
(* Each is carried by a part of the invariant of its own, on top of the    *)
(* types. Spared: what was pinned in time is not on the list of a prune    *)
(* or purge, from when its pins are read to its last unlink. Dated: who    *)
(* is past the write of his snapshot has it in written. Sound: while the   *)
(* newest snapshot is safe, one backup at most is under way, and what it   *)
(* prunes after its write does not take the newest file, which is whole.   *)
(***************************************************************************)
Jobs == {NoJob, Failing, Ended} \cup Backup \cup PurgeJob \cup Deleting \cup PinJob
Places == {"idle", "begin", "open", "fill", "pins", "list", "unlink", "remove", "clear", "check", "row",
           "failed", "ended"}

Under(p) == BackingUp(p) /\ job[p].at # "begin"
PastWrite(p) == BackingUp(p) /\ job[p].at \in {"pins", "list", "unlink"}

Spared ==
  /\ kept \subseteq There \cap protected
  /\ \A p \in Threads : job[p].at = "list" => kept \subseteq job[p].pins
  /\ \A p \in Threads : job[p].at = "unlink" => kept \cap job[p].todo = {}

Dated ==
  /\ LastIsTrue
  /\ \A p \in Threads : PastWrite(p) => job[p].now \in written

Newest(m) == \A n \in There : n <= m
Sound ==
  safe =>
    /\ \A p, q \in Threads : Under(p) /\ Under(q) => p = q
    /\ \E m \in Seconds :
         /\ file[m] = Whole
         /\ \A p \in Threads : PastWrite(p) =>
              Newest(m) /\ (job[p].at = "unlink" => m \notin job[p].todo)

BackupInv == BackupTypeOK /\ Spared /\ Dated /\ Sound

-----------------------------------------------------------------------------
(* Lemmas about jobs.                                                      *)

LEMMA JobShape ==
  ASSUME NEW j \in Jobs
  PROVE  /\ j.at \in Places
         /\ j.at \in {"begin", "open", "fill"} => j \in Backup
         /\ j.at \in {"pins", "list", "unlink"} => j \in Backup \cup PurgeJob
         /\ j.at \in {"pins", "list", "unlink"} /\ j.op = "backup" => j \in Backup
         /\ j.at \in {"pins", "list", "unlink"} /\ j.op # "backup" => j \in PurgeJob
         /\ j.at \in {"remove", "clear"} => j \in Deleting
         /\ j.at \in {"check", "row"} => j \in PinJob
         /\ j.at \in {"remove", "clear", "check", "row"} => j.op # "backup"
         /\ j.at \in {"begin", "open", "fill"} => j.op = "backup"
  BY DEF Jobs, NoJob, Failing, Ended, Backup, PurgeJob, Deleting, PinJob, Places

LEMMA StartIsBackup ==
  ASSUME BackupTypeOK, NEW place \in {"begin", "open"}
  PROVE  Start(place, "backup") \in Backup
  BY DEF BackupTypeOK, Start, Backup, Settings

LEMMA RestIsJob ==
  ASSUME NEW op \in {"pin", "unpin"}, NEW names \in SUBSET Seconds
  PROVE  /\ Rest(op, names) \in Jobs
         /\ Rest(op, names).at \in {"idle", "check"}
         /\ Rest(op, names).at = "check" => Rest(op, names).op = op
  BY DEF Rest, Jobs, NoJob, PinJob

\* What a thread does next while it writes, prunes or purges is its job.
LEMMA JobGoesOn ==
  ASSUME NEW j \in Backup \cup PurgeJob, NEW pins \in SUBSET Seconds, NEW todo \in SUBSET Seconds,
         NEW keep \in Keeps
  PROVE  /\ j \in Backup => [j EXCEPT !.at = "fill"] \in Backup
         /\ j \in Backup => [j EXCEPT !.at = "pins"] \in Backup
         /\ [j EXCEPT !.at = "list", !.pins = pins, !.keep = keep] \in Backup \cup PurgeJob
         /\ [j EXCEPT !.at = "unlink", !.todo = todo] \in Backup \cup PurgeJob
         /\ [j EXCEPT !.todo = todo] \in Backup \cup PurgeJob
  BY DEF Backup, PurgeJob

\* What ends a backup, and what comes of a failure in the timer's thread.
Leaves(p) == UnlinkMissing(p) \/ WriteFails(p) \/ Reported(p) \/ ReportRaises(p) \/ Stamp(p)

LEMMA LeavesShape ==
  ASSUME NEW p \in Threads, Leaves(p)
  PROVE  /\ \E r \in {NoJob, Failing, Ended} : job' = [job EXCEPT ![p] = r]
         /\ UNCHANGED <<file, protected, set, clock, asked, noted>>
         /\ last' = last \/ Stamp(p)
<1>1. CASE UnlinkMissing(p) \/ WriteFails(p)
  <2>1. PICK r : r = Back(p)
    OBVIOUS
  <2>2. r \in {NoJob, Failing, Ended}
    BY <2>1 DEF Back
  <2>3. job' = [job EXCEPT ![p] = r] /\ last' = last
    BY <1>1, <2>1 DEF UnlinkMissing, WriteFails, GiveUp
  <2> QED BY <1>1, <2>2, <2>3 DEF UnlinkMissing, WriteFails, bounds
<1>2. CASE Reported(p)
  BY <1>2 DEF Reported, bounds
<1>3. CASE ReportRaises(p)
  BY <1>3 DEF ReportRaises, bounds
<1>4. CASE Stamp(p)
  BY <1>4 DEF Stamp, bounds
<1> QED BY <1>1, <1>2, <1>3, <1>4 DEF Leaves

\* Each of these is a job that touches no file.
LEMMA RestShape ==
  ASSUME NEW r \in {NoJob, Failing, Ended}
  PROVE  r \in Jobs /\ r.at \in {"idle", "failed", "ended"} /\ (r.at = "idle" \/ r.op # "backup")
  BY DEF Jobs, NoJob, Failing, Ended

\* What a request starts with is a job, and no more than the beginning of one.
Opening == {"idle", "begin", "pins", "remove", "row", "check"}
Opens(c, r) ==
  /\ r \in Jobs /\ r.at \in Opening /\ (r.at = "pins" => r.op = "purge")
  /\ job' = [job EXCEPT ![c] = r]
Asked(c) ==
  /\ asked' = asked + 1 /\ asked < MaxAsks /\ set' \in Settings
  /\ \E r : Opens(c, r)
  /\ UNCHANGED <<file, protected, last, clock, faults, noted>>

LEMMA AskedWith ==
  ASSUME NEW c \in Callers, NEW r \in Jobs, r.at \in Opening, r.at = "pins" => r.op = "purge",
         Ask(c, r), set' \in Settings
  PROVE  Asked(c)
<1>1. Opens(c, r)
  BY DEF Opens, Ask
<1> QED BY <1>1 DEF Asked, Ask

LEMMA AskShape ==
  ASSUME BackupTypeOK, NEW c \in Callers, Request(c)
  PROVE  Asked(c)
<1>0. set \in Settings
  BY DEF BackupTypeOK
<1>1. CASE RunNow(c)
  <2>1. Start("begin", "backup") \in Jobs /\ Start("begin", "backup").at = "begin"
    BY StartIsBackup DEF Jobs, Start
  <2>2. Ask(c, Start("begin", "backup")) /\ set' \in Settings
    BY <1>0, <1>1 DEF RunNow
  <2> QED BY <2>1, <2>2, AskedWith DEF Opening
<1>2. CASE Configure(c)
  <2>1. NoJob \in Jobs /\ NoJob.at = "idle"
    BY DEF Jobs, NoJob
  <2>2. Ask(c, NoJob) /\ set' \in Settings
    BY <1>2 DEF Configure
  <2> QED BY <2>1, <2>2, AskedWith DEF Opening
<1>3. CASE PurgeOlderThan(c)
  <2>1. PICK cutoff \in 1..(clock + 1) :
          Ask(c, [Start("pins", "purge") EXCEPT !.now = cutoff]) /\ UNCHANGED set
    BY <1>3 DEF PurgeOlderThan
  <2>2. PICK r : r = [Start("pins", "purge") EXCEPT !.now = cutoff]
    OBVIOUS
  <2>3. cutoff \in 1..Never
    BY BoundsAssumption DEF BackupTypeOK, Seconds, Never
  <2>4. r \in PurgeJob /\ r.at = "pins" /\ r.op = "purge"
    BY <2>2, <2>3 DEF Start, PurgeJob, BackupTypeOK, Settings
  <2>5. r \in Jobs /\ Ask(c, r) /\ set' \in Settings
    BY <1>0, <2>1, <2>2, <2>4 DEF Jobs
  <2> QED BY <2>4, <2>5, AskedWith DEF Opening
<1>4. CASE Delete(c)
  <2>1. PICK n \in There : Ask(c, [at |-> "remove", op |-> "delete", name |-> n]) /\ UNCHANGED set
    BY <1>4 DEF Delete
  <2>2. PICK r : r = [at |-> "remove", op |-> "delete", name |-> n]
    OBVIOUS
  <2>3. r \in Jobs /\ r.at = "remove"
    BY <2>2 DEF Deleting, There, Jobs
  <2>4. Ask(c, r) /\ set' \in Settings
    BY <1>0, <2>1, <2>2
  <2> QED BY <2>3, <2>4, AskedWith DEF Opening
<1>5. CASE Protect(c)
  <2>1. PICK n \in There, op \in {"pin", "unpin"} :
          Ask(c, [at |-> "row", op |-> op, todo |-> {n}, name |-> n]) /\ UNCHANGED set
    BY <1>5 DEF Protect
  <2>2. PICK r : r = [at |-> "row", op |-> op, todo |-> {n}, name |-> n]
    OBVIOUS
  <2>3. r \in Jobs /\ r.at = "row"
    BY <2>2 DEF PinJob, There, Jobs
  <2>4. Ask(c, r) /\ set' \in Settings
    BY <1>0, <2>1, <2>2
  <2> QED BY <2>3, <2>4, AskedWith DEF Opening
<1>6. CASE BulkProtect(c)
  <2>1. PICK ns \in (SUBSET There) \ {{}}, op \in {"pin", "unpin"} :
          Ask(c, [at |-> "check", op |-> op, todo |-> ns]) /\ UNCHANGED set
    BY <1>6 DEF BulkProtect
  <2>2. PICK r : r = [at |-> "check", op |-> op, todo |-> ns]
    OBVIOUS
  <2>3. r \in Jobs /\ r.at = "check"
    BY <2>2 DEF PinJob, There, Jobs
  <2>4. Ask(c, r) /\ set' \in Settings
    BY <1>0, <2>1, <2>2
  <2> QED BY <2>3, <2>4, AskedWith DEF Opening
<1> QED BY <1>1, <1>2, <1>3, <1>4, <1>5, <1>6 DEF Request

-----------------------------------------------------------------------------
(* Types.                                                                  *)

LEMMA BackupTypes ==
  ASSUME BackupTypeOK, NEW p \in Threads, BackupStep(p) \/ WriteFails(p) \/ ReportRaises(p)
  PROVE  BackupTypeOK'
<1> DEFINE j == job[p]
<1>0. /\ j \in Jobs /\ set \in Settings /\ set.keep \in Keeps
      /\ file \in [Seconds -> {NoFile, Torn, Whole}]
      /\ protected \subseteq Seconds /\ written \subseteq Seconds /\ kept \subseteq Seconds
      /\ clock \in Seconds /\ asked \in 0..MaxAsks /\ last \in Seconds \cup {Never}
      /\ safe \in BOOLEAN
  BY DEF BackupTypeOK, Jobs, Settings
<1>1. /\ j.at \in {"begin", "open", "fill"} => j \in Backup
      /\ j.at \in {"pins", "list", "unlink"} => j \in Backup \cup PurgeJob
      /\ j.at = "unlink" /\ j.op = "backup" => j \in Backup
  BY <1>0, JobShape
<1>2. j \in Backup => j.now \in Seconds
  BY DEF Backup
<1>3. j \in Backup \cup PurgeJob => j.todo \in SUBSET Seconds /\ j.pins \in SUBSET Seconds /\ j.keep \in Keeps
  BY DEF Backup, PurgeJob
<1>4. ASSUME NEW r \in Jobs, job' = [job EXCEPT ![p] = r]
      PROVE  job' \in [Threads -> {NoJob, Failing, Ended} \cup Backup \cup PurgeJob \cup Deleting \cup PinJob]
  BY <1>4 DEF BackupTypeOK, Jobs
<1>5. faults' \in 0..MaxFaults
  BY BoundsAssumption DEF BackupTypeOK, BackupStep, WriteFails, Begin, Open, Fill, ReadProtected, List, Unlink,
                          UnlinkMissing, Reported, ReportRaises, Stamp, bounds
<1>6. CASE Begin(p)
  <2>1. Start("open", "backup") \in Jobs
    BY StartIsBackup DEF Jobs
  <2>2. job' \in [Threads -> {NoJob, Failing, Ended} \cup Backup \cup PurgeJob \cup Deleting \cup PinJob]
    BY <1>4, <1>6, <2>1 DEF Begin
  <2> QED BY <1>0, <1>5, <1>6, <2>2 DEF BackupTypeOK, Begin, bounds
<1>7. CASE Open(p)
  <2>1. PICK r : r = [j EXCEPT !.at = "fill"]
    OBVIOUS
  <2>2. r \in Jobs /\ j.now \in Seconds
    BY <1>1, <1>2, <1>3, <1>7, <2>1, JobGoesOn DEF Open, Jobs
  <2>3. job' = [job EXCEPT ![p] = r]
    BY <1>7, <2>1 DEF Open
  <2>4. job' \in [Threads -> {NoJob, Failing, Ended} \cup Backup \cup PurgeJob \cup Deleting \cup PinJob]
    BY <1>4, <2>2, <2>3
  <2> QED BY <1>0, <1>5, <1>7, <2>2, <2>4 DEF BackupTypeOK, Open, bounds
<1>8. CASE Fill(p)
  <2>1. PICK r : r = [j EXCEPT !.at = "pins"]
    OBVIOUS
  <2>2. r \in Jobs /\ j.now \in Seconds
    BY <1>1, <1>2, <1>3, <1>8, <2>1, JobGoesOn DEF Fill, Jobs
  <2>3. job' = [job EXCEPT ![p] = r]
    BY <1>8, <2>1 DEF Fill
  <2>4. job' \in [Threads -> {NoJob, Failing, Ended} \cup Backup \cup PurgeJob \cup Deleting \cup PinJob]
    BY <1>4, <2>2, <2>3
  <2>5. safe' \in BOOLEAN
    BY <1>8, ZenonT(30) DEF Fill
  <2> QED BY <1>0, <1>5, <1>8, <2>2, <2>4, <2>5 DEF BackupTypeOK, Fill, bounds
<1>9. CASE ReadProtected(p)
  <2>1. PICK r : r = [j EXCEPT !.at = "list", !.pins = Pins, !.keep = set.keep]
    OBVIOUS
  <2>2. r \in Jobs
    BY <1>0, <1>1, <1>3, <1>9, <2>1, JobGoesOn DEF ReadProtected, Jobs, Pins
  <2>3. job' = [job EXCEPT ![p] = r]
    BY <1>9, <2>1 DEF ReadProtected
  <2>4. job' \in [Threads -> {NoJob, Failing, Ended} \cup Backup \cup PurgeJob \cup Deleting \cup PinJob]
    BY <1>4, <2>2, <2>3
  <2> QED BY <1>0, <1>5, <1>9, <2>4 DEF BackupTypeOK, ReadProtected, bounds, noted
<1>10. CASE List(p)
  <2>1. PICK r : r = [j EXCEPT !.at = "unlink", !.todo = Stale(j)]
    OBVIOUS
  <2>2. Stale(j) \in SUBSET Seconds
    BY DEF Stale, There
  <2>3. r \in Jobs
    BY <1>1, <1>3, <1>10, <2>1, <2>2, JobGoesOn DEF List, Jobs
  <2>4. job' = [job EXCEPT ![p] = r]
    BY <1>10, <2>1 DEF List
  <2>5. job' \in [Threads -> {NoJob, Failing, Ended} \cup Backup \cup PurgeJob \cup Deleting \cup PinJob]
    BY <1>4, <2>3, <2>4
  <2> QED BY <1>0, <1>5, <1>10, <2>5 DEF BackupTypeOK, List, bounds, noted
<1>11. CASE Unlink(p)
  <2>1. PICK n \in There : file' = [file EXCEPT ![n] = NoFile] /\ job' = [job EXCEPT ![p].todo = @ \ {n}]
    BY <1>11 DEF Unlink
  <2>2. PICK r : r = [j EXCEPT !.todo = j.todo \ {n}]
    OBVIOUS
  <2>3. r \in Jobs
    BY <1>1, <1>3, <1>11, <2>2, JobGoesOn DEF Unlink, Jobs
  <2>4. job' = [job EXCEPT ![p] = r]
    BY <2>1, <2>2
  <2>5. job' \in [Threads -> {NoJob, Failing, Ended} \cup Backup \cup PurgeJob \cup Deleting \cup PinJob]
    BY <1>4, <2>3, <2>4
  <2>6. safe' \in BOOLEAN
    BY <1>11, ZenonT(30) DEF Unlink
  <2> QED BY <1>0, <1>5, <1>11, <2>1, <2>5, <2>6 DEF BackupTypeOK, Unlink, bounds
<1>12. CASE UnlinkMissing(p) \/ WriteFails(p) \/ Reported(p) \/ ReportRaises(p)
  <2>1. PICK r \in {NoJob, Failing, Ended} : job' = [job EXCEPT ![p] = r]
    BY <1>12, LeavesShape DEF Leaves
  <2>2. job' \in [Threads -> {NoJob, Failing, Ended} \cup Backup \cup PurgeJob \cup Deleting \cup PinJob]
    BY <1>4, <2>1, RestShape
  <2>3. UNCHANGED <<file, protected, set, last, clock, asked, noted>>
    BY <1>12 DEF UnlinkMissing, WriteFails, Reported, ReportRaises, GiveUp, bounds
  <2> QED BY <1>0, <1>5, <2>2, <2>3 DEF BackupTypeOK, noted
<1>13. CASE Stamp(p)
  <2>1. last' \in Seconds \cup {Never}
    BY <1>0, <1>1, <1>2, <1>13 DEF Stamp
  <2>2. job' \in [Threads -> {NoJob, Failing, Ended} \cup Backup \cup PurgeJob \cup Deleting \cup PinJob]
    BY <1>4, <1>13 DEF Jobs, Stamp
  <2> QED BY <1>0, <1>5, <1>13, <2>1, <2>2 DEF BackupTypeOK, Stamp, noted, bounds
<1> QED BY <1>6, <1>7, <1>8, <1>9, <1>10, <1>11, <1>12, <1>13 DEF BackupStep

\* What follows a request to delete or to pin, step by step.
Answers(c) == Remove(c) \/ Clear(c) \/ Check(c) \/ SetProtected(c)

\* Whatever a delete or a pin does next is a job, and none that writes or prunes.
LEMMA AnswerShape ==
  ASSUME BackupTypeOK, NEW c \in Callers, Answers(c)
  PROVE  /\ job[c].at \in {"remove", "clear", "check", "row"}
         /\ \E r \in Jobs : /\ job' = [job EXCEPT ![c] = r]
                            /\ r.at \in {"idle", "clear", "row", "check"}
         /\ UNCHANGED <<set, last, bounds, written>>
<1> DEFINE j == job[c]
<1>0. j \in Jobs
  BY DEF BackupTypeOK, Jobs, Threads
<1>1. /\ j.at \in {"remove", "clear"} => j \in Deleting
      /\ j.at \in {"check", "row"} => j \in PinJob
  BY <1>0, JobShape
<1>2. NoJob \in Jobs /\ NoJob.at = "idle"
  BY DEF Jobs, NoJob
<1>3. CASE Remove(c)
  <2>1. PICK r : r = IF file[j.name] = NoFile THEN NoJob ELSE [j EXCEPT !.at = "clear"]
    OBVIOUS
  <2>2. r \in Jobs /\ r.at \in {"idle", "clear"}
    BY <1>1, <1>2, <1>3, <2>1 DEF Remove, Deleting, Jobs
  <2>3. job' = [job EXCEPT ![c] = r]
    BY <1>3, <2>1 DEF Remove
  <2> QED BY <1>3, <2>2, <2>3 DEF Remove
<1>4. CASE Clear(c)
  BY <1>2, <1>4 DEF Clear
<1>5. CASE Check(c)
  <2>1. PICK n \in j.todo :
          job' = [job EXCEPT ![c] =
                    IF n \in There THEN [at |-> "row", op |-> @.op, todo |-> @.todo \ {n}, name |-> n]
                    ELSE Rest(@.op, @.todo \ {n})]
    BY <1>5 DEF Check
  <2>2. j \in PinJob /\ j.at = "check"
    BY <1>1, <1>5 DEF Check
  <2>3. j.todo \in SUBSET Seconds /\ j.op \in {"pin", "unpin"}
    BY <2>2 DEF PinJob
  <2>4. PICK r : r = IF n \in There THEN [at |-> "row", op |-> j.op, todo |-> j.todo \ {n}, name |-> n]
                     ELSE Rest(j.op, j.todo \ {n})
    OBVIOUS
  <2>5. r \in Jobs /\ r.at \in {"idle", "row", "check"}
    <3>1. CASE n \in There
      BY <2>3, <2>4, <3>1 DEF PinJob, Jobs
    <3>2. CASE n \notin There
      BY <2>3, <2>4, <3>2, RestIsJob
    <3> QED BY <3>1, <3>2
  <2>6. job' = [job EXCEPT ![c] = r]
    BY <2>1, <2>4
  <2> QED BY <1>5, <2>5, <2>6 DEF Check, noted
<1>6. CASE SetProtected(c)
  <2>1. j \in PinJob /\ j.at = "row"
    BY <1>1, <1>6 DEF SetProtected
  <2>2. j.todo \in SUBSET Seconds /\ j.op \in {"pin", "unpin"}
    BY <2>1 DEF PinJob
  <2>3. Rest(j.op, j.todo) \in Jobs /\ Rest(j.op, j.todo).at \in {"idle", "check"}
    BY <2>2, RestIsJob
  <2>4. job' = [job EXCEPT ![c] = Rest(j.op, j.todo)]
    BY <1>6 DEF SetProtected
  <2> QED BY <1>6, <2>3, <2>4 DEF SetProtected
<1> QED BY <1>3, <1>4, <1>5, <1>6 DEF Answers

LEMMA AnswerTypes ==
  ASSUME BackupTypeOK, NEW c \in Callers, Answers(c)
  PROVE  BackupTypeOK'
<1>1. PICK r \in Jobs : job' = [job EXCEPT ![c] = r]
  BY AnswerShape
<1>2. job' \in [Threads -> {NoJob, Failing, Ended} \cup Backup \cup PurgeJob \cup Deleting \cup PinJob]
  BY <1>1 DEF BackupTypeOK, Jobs
<1>3. UNCHANGED <<set, last, bounds, written>>
  BY AnswerShape
<1>4. job[c] \in Jobs
  BY DEF BackupTypeOK, Jobs, Threads
<1>5. job[c].at \in {"remove", "clear", "row"} => job[c].name \in Seconds
  BY <1>4 DEF Jobs, NoJob, Failing, Ended, Backup, PurgeJob, Deleting, PinJob
<1>6. safe' \in BOOLEAN /\ kept' \subseteq Seconds
  BY <1>5 DEF BackupTypeOK, Answers, Remove, Clear, Check, SetProtected, noted, There
<1>7. file' \in [Seconds -> {NoFile, Torn, Whole}] /\ protected' \subseteq Seconds
  BY <1>5 DEF BackupTypeOK, Answers, Remove, Clear, Check, SetProtected
<1> QED BY <1>2, <1>3, <1>6, <1>7 DEF BackupTypeOK, bounds

LEMMA TypeNext == BackupTypeOK /\ [BackupNext]_bvars => BackupTypeOK'
<1> SUFFICES ASSUME BackupTypeOK, [BackupNext]_bvars
             PROVE  BackupTypeOK'
  OBVIOUS
<1>1. CASE Wake
  <2>1. Start("begin", "backup") \in Backup
    BY StartIsBackup
  <2>2. job' \in [Threads -> {NoJob, Failing, Ended} \cup Backup \cup PurgeJob \cup Deleting \cup PinJob]
    BY <1>1, <2>1 DEF BackupTypeOK, Wake
  <2> QED BY <1>1, <2>2 DEF BackupTypeOK, Wake, bounds, noted
<1>2. CASE Tick
  BY <1>2, BoundsAssumption DEF BackupTypeOK, Tick, noted, Seconds
<1>3. CASE Crash
  BY <1>3, BoundsAssumption, SettingsAssumption DEF BackupTypeOK, Crash, noted
<1>4. ASSUME NEW c \in Callers, Request(c)
      PROVE  BackupTypeOK'
  <2>1. Asked(c)
    BY <1>4, AskShape
  <2>2. PICK r : Opens(c, r)
    BY <2>1 DEF Asked
  <2>3. job' \in [Threads -> {NoJob, Failing, Ended} \cup Backup \cup PurgeJob \cup Deleting \cup PinJob]
    BY <2>2 DEF BackupTypeOK, Opens, Jobs
  <2> QED BY <2>1, <2>3, BoundsAssumption DEF BackupTypeOK, Asked, noted
<1>5. CASE UNCHANGED bvars
  BY <1>5 DEF BackupTypeOK, bvars, bounds, noted
<1> QED BY <1>1, <1>2, <1>3, <1>4, <1>5, BackupTypes, AnswerTypes DEF BackupNext, Answers

-----------------------------------------------------------------------------
(* What was pinned in time is spared.                                      *)

LEMMA OnlyJob ==
  ASSUME BackupTypeOK, NEW p \in Threads, NEW r, job' = [job EXCEPT ![p] = r]
  PROVE  job'[p] = r /\ \A q \in Threads \ {p} : job'[q] = job[q]
  BY DEF BackupTypeOK

\* Files that nobody counts on come and go; a job that is not at its list or
\* its unlinks has nothing to spare.
LEMMA SparedStays ==
  ASSUME BackupTypeOK, Spared, NEW p \in Threads, NEW r, job' = [job EXCEPT ![p] = r],
         kept' \subseteq There' \cap protected', kept' \subseteq kept,
         r.at = "list" => kept' \subseteq r.pins,
         r.at = "unlink" => kept' \cap r.todo = {}
  PROVE  Spared'
<1>1. job'[p] = r /\ \A q \in Threads \ {p} : job'[q] = job[q]
  BY OnlyJob
<1>2. ASSUME NEW q \in Threads
      PROVE  /\ job'[q].at = "list" => kept' \subseteq job'[q].pins
             /\ job'[q].at = "unlink" => kept' \cap job'[q].todo = {}
  <2>1. CASE q = p
    BY <1>1, <2>1
  <2>2. CASE q # p
    BY <1>1, <2>2 DEF Spared
  <2> QED BY <2>1, <2>2
<1> QED BY <1>2 DEF Spared

LEMMA SparedByBackups ==
  ASSUME BackupTypeOK, Spared, NEW p \in Threads, BackupStep(p) \/ WriteFails(p) \/ ReportRaises(p)
  PROVE  Spared'
<1> DEFINE j == job[p]
<1>0. /\ kept \subseteq Seconds /\ kept \subseteq There /\ kept \subseteq protected
      /\ file \in [Seconds -> {NoFile, Torn, Whole}] /\ j \in Jobs
  BY DEF BackupTypeOK, Spared, Jobs
<1>1. CASE Begin(p)
  <2>1. PICK r : r = Start("open", "backup")
    OBVIOUS
  <2>2. job' = [job EXCEPT ![p] = r] /\ r.at = "open" /\ UNCHANGED <<file, protected, kept>>
    BY <1>1, <2>1 DEF Begin, Start
  <2> QED BY <1>0, <2>2, SparedStays DEF There
<1>2. CASE Open(p) \/ Fill(p)
  <2>1. PICK r : r = [j EXCEPT !.at = IF Open(p) THEN "fill" ELSE "pins"]
    OBVIOUS
  <2>2. j \in Backup
    BY <1>0, <1>2, JobShape DEF Open, Fill
  <2>3. r.at \in {"fill", "pins"}
    BY <2>1, <2>2 DEF Backup
  <2>4. job' = [job EXCEPT ![p] = r] /\ UNCHANGED <<protected, kept>>
    BY <1>2, <2>1 DEF Open, Fill
  <2>5. There \subseteq There'
    BY <1>0, <1>2 DEF Open, Fill, There, NoFile, Torn, Whole
  <2> QED BY <1>0, <2>3, <2>4, <2>5, SparedStays
<1>3. CASE ReadProtected(p)
  <2>1. PICK r : r = [j EXCEPT !.at = "list", !.pins = Pins, !.keep = set.keep]
    OBVIOUS
  <2>2. j \in Backup \cup PurgeJob
    BY <1>0, <1>3, JobShape DEF ReadProtected
  <2>3. r.at = "list" /\ r.pins = protected
    BY <2>1, <2>2 DEF Backup, PurgeJob, Pins
  <2>4. job' = [job EXCEPT ![p] = r] /\ UNCHANGED <<file, protected, kept>>
    BY <1>3, <2>1 DEF ReadProtected, noted
  <2> QED BY <1>0, <2>3, <2>4, SparedStays DEF There
<1>4. CASE List(p)
  <2>1. PICK r : r = [j EXCEPT !.at = "unlink", !.todo = Stale(j)]
    OBVIOUS
  <2>2. j \in Backup \cup PurgeJob /\ j.at = "list"
    BY <1>0, <1>4, JobShape DEF List
  <2>3. r.at = "unlink" /\ r.todo = Stale(j)
    BY <2>1, <2>2 DEF Backup, PurgeJob
  <2>4. kept \cap Stale(j) = {}
    BY <2>2 DEF Spared, Stale
  <2>5. job' = [job EXCEPT ![p] = r] /\ UNCHANGED <<file, protected, kept>>
    BY <1>4, <2>1 DEF List, noted
  <2> QED BY <1>0, <2>3, <2>4, <2>5, SparedStays DEF There
<1>5. CASE Unlink(p)
  <2>1. PICK n \in There : /\ InTurn(j, n) /\ file' = [file EXCEPT ![n] = NoFile]
                           /\ job' = [job EXCEPT ![p].todo = @ \ {n}]
    BY <1>5 DEF Unlink
  <2>2. PICK r : r = [j EXCEPT !.todo = j.todo \ {n}]
    OBVIOUS
  <2>3. j \in Backup \cup PurgeJob /\ j.at = "unlink"
    BY <1>0, <1>5, JobShape DEF Unlink
  <2>4. kept \cap j.todo = {} /\ n \in j.todo
    BY <2>1, <2>3 DEF Spared, InTurn
  <2>5. r.at = "unlink" /\ r.todo = j.todo \ {n}
    BY <2>2, <2>3 DEF Backup, PurgeJob
  <2>6. job' = [job EXCEPT ![p] = r] /\ UNCHANGED <<protected, kept>>
    BY <1>5, <2>1, <2>2 DEF Unlink
  <2>7. kept \subseteq There'
    BY <1>0, <2>1, <2>4 DEF There
  <2> QED BY <1>0, <2>4, <2>5, <2>6, <2>7, SparedStays
<1>6. CASE Leaves(p)
  <2>1. PICK r \in {NoJob, Failing, Ended} : job' = [job EXCEPT ![p] = r]
    BY <1>6, LeavesShape
  <2>2. r.at \in {"idle", "failed", "ended"} /\ UNCHANGED <<file, protected, kept>>
    BY <1>6, <2>1, RestShape, LeavesShape DEF noted
  <2> QED BY <1>0, <2>1, <2>2, SparedStays DEF There
<1> QED BY <1>1, <1>2, <1>3, <1>4, <1>5, <1>6 DEF BackupStep, Leaves

LEMMA SparedByAnswers ==
  ASSUME BackupTypeOK, Spared, NEW c \in Callers, Answers(c)
  PROVE  Spared'
<1>0. /\ kept \subseteq Seconds /\ kept \subseteq There /\ kept \subseteq protected
      /\ file \in [Seconds -> {NoFile, Torn, Whole}] /\ c \in Threads
  BY DEF BackupTypeOK, Spared, Threads
<1>1. PICK r \in Jobs : job' = [job EXCEPT ![c] = r] /\ r.at \in {"idle", "clear", "row", "check"}
  BY AnswerShape
<1>2. CASE Remove(c) \/ Clear(c) \/ Check(c)
  <2>1. kept' \subseteq kept /\ kept' \subseteq There' /\ kept' \subseteq protected'
    BY <1>0, <1>2 DEF Remove, Clear, Check, There, noted
  <2> QED BY <1>0, <1>1, <2>1, SparedStays
<1>3. CASE SetProtected(c)
  <2>1. UNCHANGED file
    BY <1>3 DEF SetProtected
  <2>2. CASE kept' \subseteq kept
    <3>1. kept' \subseteq protected'
      BY <1>0, <1>3, <2>2 DEF SetProtected
    <3> QED BY <1>0, <1>1, <2>1, <2>2, <3>1, SparedStays DEF There
  <2>3. CASE ~(kept' \subseteq kept)
    <3>1. /\ kept' = kept \cup {job[c].name} /\ job[c].name \in There /\ ~Sweeping
          /\ protected' = protected \cup {job[c].name}
      BY <1>3, <2>3 DEF SetProtected
    <3>2. \A q \in Threads : job'[q].at \notin {"list", "unlink"}
      <4>1. job'[c] = r /\ \A q \in Threads \ {c} : job'[q] = job[q]
        BY <1>0, <1>1, OnlyJob
      <4> QED BY <1>1, <3>1, <4>1 DEF Sweeping
    <3>3. kept' \subseteq There' \cap protected'
      BY <1>0, <2>1, <3>1 DEF There
    <3> QED BY <3>2, <3>3 DEF Spared
  <2> QED BY <2>2, <2>3
<1> QED BY <1>2, <1>3 DEF Answers

LEMMA SparedNext ==
  ASSUME BackupTypeOK, Spared, [BackupNext]_bvars
  PROVE  Spared'
<1>0. kept \subseteq There /\ kept \subseteq protected
  BY DEF Spared
<1>1. CASE Wake
  <2>1. PICK r : r = Start("begin", "backup")
    OBVIOUS
  <2>2. job' = [job EXCEPT ![Timer] = r] /\ r.at = "begin" /\ UNCHANGED <<file, protected, kept>>
    BY <1>1, <2>1 DEF Wake, Start, noted
  <2> QED BY <1>0, <2>2, SparedStays DEF There, Threads
<1>2. CASE Tick \/ UNCHANGED bvars
  BY <1>2 DEF Tick, bvars, bounds, noted, Spared, There
<1>3. CASE Crash
  BY <1>0, <1>3 DEF Crash, noted, Spared, There, NoJob
<1>4. ASSUME NEW c \in Callers, Request(c)
      PROVE  Spared'
  <2>1. Asked(c)
    BY <1>4, AskShape
  <2>2. PICK r : Opens(c, r)
    BY <2>1 DEF Asked
  <2>3. /\ job' = [job EXCEPT ![c] = r] /\ r.at \notin {"list", "unlink"}
        /\ UNCHANGED <<file, protected, kept>>
    BY <2>1, <2>2 DEF Opens, Opening, Asked, noted
  <2> QED BY <1>0, <2>3, SparedStays DEF There, Threads
<1> QED BY <1>1, <1>2, <1>3, <1>4, SparedByBackups, SparedByAnswers DEF BackupNext, Answers

-----------------------------------------------------------------------------
(* What is dated was written.                                              *)

LEMMA DatedStays ==
  ASSUME BackupTypeOK, Dated, NEW p \in Threads, NEW r, job' = [job EXCEPT ![p] = r],
         written \subseteq written', last' \in {last} \cup written',
         r.at \in {"pins", "list", "unlink"} /\ r.op = "backup" => r.now \in written'
  PROVE  Dated'
<1>1. job'[p] = r /\ \A q \in Threads \ {p} : job'[q] = job[q]
  BY OnlyJob
<1>2. ASSUME NEW q \in Threads, PastWrite(q)'
      PROVE  job'[q].now \in written'
  <2>1. CASE q = p
    BY <1>1, <1>2, <2>1 DEF PastWrite, BackingUp
  <2>2. CASE q # p
    BY <1>1, <1>2, <2>2 DEF Dated, PastWrite, BackingUp
  <2> QED BY <2>1, <2>2
<1>3. LastIsTrue'
  BY DEF Dated, LastIsTrue
<1> QED BY <1>2, <1>3 DEF Dated

LEMMA DatedByBackups ==
  ASSUME BackupTypeOK, Dated, NEW p \in Threads, BackupStep(p) \/ WriteFails(p) \/ ReportRaises(p)
  PROVE  Dated'
<1> DEFINE j == job[p]
<1>0. j \in Jobs
  BY DEF BackupTypeOK, Jobs
<1>1. j.at \in {"pins", "list", "unlink"} /\ j.op = "backup" => j.now \in written
  BY DEF Dated, PastWrite, BackingUp
<1>2. CASE Begin(p)
  <2>1. PICK r : r = Start("open", "backup")
    OBVIOUS
  <2>2. job' = [job EXCEPT ![p] = r] /\ r.at = "open" /\ UNCHANGED <<last, written>>
    BY <1>2, <2>1 DEF Begin, Start
  <2> QED BY <2>2, DatedStays
<1>3. CASE Open(p)
  <2>1. PICK r : r = [j EXCEPT !.at = "fill"]
    OBVIOUS
  <2>2. r.at = "fill"
    BY <1>0, <1>3, <2>1, JobShape DEF Open, Backup
  <2>3. job' = [job EXCEPT ![p] = r] /\ UNCHANGED <<last, written>>
    BY <1>3, <2>1 DEF Open
  <2> QED BY <2>2, <2>3, DatedStays
<1>4. CASE Fill(p)
  <2>1. PICK r : r = [j EXCEPT !.at = "pins"]
    OBVIOUS
  <2>2. r.now = j.now
    BY <1>0, <1>4, <2>1, JobShape DEF Fill, Backup
  <2>3. job' = [job EXCEPT ![p] = r] /\ UNCHANGED last /\ written' = written \cup {j.now}
    BY <1>4, <2>1 DEF Fill
  <2> QED BY <2>2, <2>3, DatedStays
<1>5. CASE ReadProtected(p)
  <2>1. PICK r : r = [j EXCEPT !.at = "list", !.pins = Pins, !.keep = set.keep]
    OBVIOUS
  <2>2. j \in Backup \cup PurgeJob /\ j.at = "pins"
    BY <1>0, <1>5, JobShape DEF ReadProtected
  <2>3. r.op = j.op /\ r.now = j.now
    BY <2>1, <2>2 DEF Backup, PurgeJob
  <2>4. job' = [job EXCEPT ![p] = r] /\ UNCHANGED <<last, written>>
    BY <1>5, <2>1 DEF ReadProtected, noted
  <2> QED BY <1>1, <2>2, <2>3, <2>4, DatedStays
<1>6. CASE List(p)
  <2>1. PICK r : r = [j EXCEPT !.at = "unlink", !.todo = Stale(j)]
    OBVIOUS
  <2>2. j \in Backup \cup PurgeJob /\ j.at = "list"
    BY <1>0, <1>6, JobShape DEF List
  <2>3. r.op = j.op /\ r.now = j.now
    BY <2>1, <2>2 DEF Backup, PurgeJob
  <2>4. job' = [job EXCEPT ![p] = r] /\ UNCHANGED <<last, written>>
    BY <1>6, <2>1 DEF List, noted
  <2> QED BY <1>1, <2>2, <2>3, <2>4, DatedStays
<1>7. CASE Unlink(p)
  <2>1. PICK n \in There : job' = [job EXCEPT ![p].todo = @ \ {n}]
    BY <1>7 DEF Unlink
  <2>2. PICK r : r = [j EXCEPT !.todo = j.todo \ {n}]
    OBVIOUS
  <2>3. j \in Backup \cup PurgeJob /\ j.at = "unlink"
    BY <1>0, <1>7, JobShape DEF Unlink
  <2>4. r.op = j.op /\ r.now = j.now
    BY <2>2, <2>3 DEF Backup, PurgeJob
  <2>5. job' = [job EXCEPT ![p] = r] /\ UNCHANGED <<last, written>>
    BY <1>7, <2>1, <2>2 DEF Unlink
  <2> QED BY <1>1, <2>3, <2>4, <2>5, DatedStays
<1>8. CASE Leaves(p)
  <2>1. PICK r \in {NoJob, Failing, Ended} : job' = [job EXCEPT ![p] = r]
    BY <1>8, LeavesShape
  <2>2. last' \in {last} \cup written
    BY <1>1, <1>8, LeavesShape DEF Stamp
  <2>3. r.at \in {"idle", "failed", "ended"} /\ UNCHANGED written
    BY <1>8, <2>1, RestShape, LeavesShape DEF noted
  <2> QED BY <2>1, <2>2, <2>3, DatedStays
<1> QED BY <1>2, <1>3, <1>4, <1>5, <1>6, <1>7, <1>8 DEF BackupStep, Leaves

LEMMA DatedNext ==
  ASSUME BackupTypeOK, Dated, [BackupNext]_bvars
  PROVE  Dated'
<1>1. CASE Wake
  <2>1. PICK r : r = Start("begin", "backup")
    OBVIOUS
  <2>2. job' = [job EXCEPT ![Timer] = r] /\ r.at = "begin" /\ UNCHANGED <<last, written>>
    BY <1>1, <2>1 DEF Wake, Start, noted
  <2> QED BY <2>2, DatedStays DEF Threads
<1>2. CASE Tick \/ UNCHANGED bvars
  BY <1>2 DEF Tick, bvars, bounds, noted, Dated, LastIsTrue, PastWrite, BackingUp
<1>3. CASE Crash
  BY <1>3 DEF Crash, noted, Dated, LastIsTrue, PastWrite, BackingUp, NoJob
<1>4. ASSUME NEW c \in Callers, Request(c)
      PROVE  Dated'
  <2>1. Asked(c)
    BY <1>4, AskShape
  <2>2. PICK r : Opens(c, r)
    BY <2>1 DEF Asked
  <2>3. job' = [job EXCEPT ![c] = r] /\ UNCHANGED <<last, written>>
    BY <2>1, <2>2 DEF Opens, Asked, noted
  <2>4. ~(r.at \in {"pins", "list", "unlink"} /\ r.op = "backup")
    BY <2>2 DEF Opens, Opening
  <2> QED BY <2>3, <2>4, DatedStays DEF Threads
<1>5. ASSUME NEW c \in Callers, Answers(c)
      PROVE  Dated'
  <2>1. PICK r \in Jobs : job' = [job EXCEPT ![c] = r] /\ r.at \in {"idle", "clear", "row", "check"}
    BY <1>5, AnswerShape
  <2>2. UNCHANGED <<last, written>>
    BY <1>5, AnswerShape
  <2> QED BY <2>1, <2>2, DatedStays DEF Threads
<1> QED BY <1>1, <1>2, <1>3, <1>4, <1>5, DatedByBackups DEF BackupNext, Answers

-----------------------------------------------------------------------------
(* The newest snapshot is sound while it is safe.                          *)

Quiet(r) == r.at \in {"idle", "begin"} \/ r.op # "backup"

\* A thread that is under no backup afterwards disturbs nothing unless it
\* touches a file.
LEMMA SoundStays ==
  ASSUME BackupTypeOK, Sound, NEW p \in Threads, NEW r, job' = [job EXCEPT ![p] = r],
         Quiet(r), safe' => safe, UNCHANGED file
  PROVE  Sound'
<1> SUFFICES ASSUME safe'
             PROVE  /\ \A q1, q2 \in Threads : Under(q1)' /\ Under(q2)' => q1 = q2
                    /\ \E m \in Seconds :
                         /\ file'[m] = Whole
                         /\ \A q \in Threads : PastWrite(q)' =>
                              Newest(m)' /\ (job'[q].at = "unlink" => m \notin job'[q].todo)
  BY DEF Sound
<1>1. job'[p] = r /\ \A q \in Threads \ {p} : job'[q] = job[q]
  BY OnlyJob
<1>2. \A q \in Threads : Under(q)' => Under(q) /\ job'[q] = job[q]
  BY <1>1 DEF Under, BackingUp, Quiet
<1>3. \A q \in Threads : PastWrite(q)' => PastWrite(q) /\ job'[q] = job[q]
  BY <1>1 DEF PastWrite, BackingUp, Quiet
<1>4. PICK m \in Seconds :
        /\ file[m] = Whole
        /\ \A q \in Threads : PastWrite(q) =>
             Newest(m) /\ (job[q].at = "unlink" => m \notin job[q].todo)
  BY DEF Sound
<1>5. Newest(m) => Newest(m)'
  BY DEF Newest, There
<1> QED BY <1>2, <1>3, <1>4, <1>5 DEF Sound

\* The newest snapshot is never on the list of a prune.
LEMMA NewestIsKept ==
  ASSUME NEW j \in Backup, NEW m \in Seconds, Newest(m)
  PROVE  m \notin Stale(j)
<1>1. Newer(m) = {}
  BY BoundsAssumption DEF Newer, Newest, There, Seconds
<1>2. Cardinality(Newer(m)) = 0
  BY <1>1, FS_EmptySet
<1>3. j.op = "backup" /\ j.keep \in Nat \ {0}
  BY SettingsAssumption DEF Backup
<1> QED BY <1>2, <1>3 DEF Stale

LEMMA SoundByWriting ==
  ASSUME BackupTypeOK, Sound, NEW p \in Threads, Begin(p) \/ Open(p) \/ Fill(p)
  PROVE  Sound'
<1> DEFINE j == job[p]
<1> SUFFICES ASSUME safe'
             PROVE  /\ \A q1, q2 \in Threads : Under(q1)' /\ Under(q2)' => q1 = q2
                    /\ \E m \in Seconds :
                         /\ file'[m] = Whole
                         /\ \A q \in Threads : PastWrite(q)' =>
                              Newest(m)' /\ (job'[q].at = "unlink" => m \notin job'[q].todo)
  BY DEF Sound
<1>0. j \in Backup /\ j.now \in Seconds /\ file \in [Seconds -> {NoFile, Torn, Whole}]
  <2>1. j \in Jobs
    BY DEF BackupTypeOK, Jobs
  <2> QED BY <2>1, JobShape DEF BackupTypeOK, Begin, Open, Fill, Backup
<1>1. ASSUME Alone(p), \A q \in Threads \ {p} : job'[q] = job[q]
      PROVE  \A q \in Threads : Under(q)' \/ PastWrite(q)' => q = p
  BY <1>1 DEF Alone, Under, PastWrite, BackingUp
<1>2. CASE Begin(p)
  <2>1. PICK r : r = Start("open", "backup")
    OBVIOUS
  <2>2. job' = [job EXCEPT ![p] = r] /\ r.at = "open" /\ UNCHANGED file /\ safe /\ Alone(p)
    BY <1>2, <2>1 DEF Begin, Start
  <2>3. job'[p] = r /\ \A q \in Threads \ {p} : job'[q] = job[q]
    BY <2>2, OnlyJob
  <2>4. PICK m \in Seconds : file[m] = Whole
    BY <2>2 DEF Sound
  <2>5. \A q \in Threads : ~PastWrite(q)'
    BY <1>1, <2>2, <2>3 DEF PastWrite
  <2> QED BY <1>1, <2>2, <2>3, <2>4, <2>5
<1>3. CASE Open(p)
  <2>1. PICK r : r = [j EXCEPT !.at = "fill"]
    OBVIOUS
  <2>2. r.at = "fill"
    BY <1>0, <2>1 DEF Backup
  <2>3. /\ job' = [job EXCEPT ![p] = r] /\ file' = [file EXCEPT ![j.now] = Torn]
        /\ safe /\ file[j.now] = NoFile
    BY <1>3, <2>1 DEF Open
  <2>4. job'[p] = r /\ \A q \in Threads \ {p} : job'[q] = job[q]
    BY <2>3, OnlyJob
  <2>5. PICK m \in Seconds : file[m] = Whole
    BY <2>3 DEF Sound
  <2>6. file'[m] = Whole
    BY <1>0, <2>3, <2>5 DEF Whole, NoFile
  <2>7. Under(p)
    BY <1>0, <1>3 DEF Under, BackingUp, Open, Backup
  <2>8. \A q \in Threads : Under(q)' => Under(q)
    BY <2>4, <2>7 DEF Under, BackingUp
  <2>9. \A q \in Threads : Under(q) => q = p
    BY <2>3, <2>7 DEF Sound
  <2>10. \A q \in Threads : ~PastWrite(q)'
    <3>1. \A q \in Threads : PastWrite(q)' => Under(q)'
      BY DEF PastWrite, Under
    <3> QED BY <2>2, <2>4, <2>8, <2>9, <3>1 DEF PastWrite
  <2> QED BY <2>6, <2>8, <2>9, <2>10
<1>4. CASE Fill(p)
  <2>1. PICK r : r = [j EXCEPT !.at = "pins"]
    OBVIOUS
  <2>2. r.at = "pins"
    BY <1>0, <2>1 DEF Backup
  <2>3. /\ job' = [job EXCEPT ![p] = r] /\ file' = [file EXCEPT ![j.now] = Whole]
        /\ Alone(p) /\ \A n \in There : n <= j.now
    BY <1>4, <2>1 DEF Fill
  <2>4. job'[p] = r /\ \A q \in Threads \ {p} : job'[q] = job[q]
    BY <2>3, OnlyJob
  <2>5. PICK m \in Seconds : m = j.now
    BY <1>0
  <2>6. file'[m] = Whole
    BY <1>0, <2>3, <2>5
  <2>7. Newest(m)'
    <3>1. \A n \in Seconds : file'[n] # NoFile => n \in There \/ n = m
      BY <1>0, <2>3, <2>5 DEF There
    <3>2. m <= m
      BY BoundsAssumption DEF Seconds
    <3>3. ASSUME NEW n \in There'
          PROVE  n <= m
      BY <2>3, <2>5, <3>1, <3>2, <3>3 DEF There
    <3> QED BY <3>3 DEF Newest
  <2>8. \A q \in Threads : Under(q)' \/ PastWrite(q)' => q = p
    BY <1>1, <2>3, <2>4
  <2> QED BY <2>2, <2>4, <2>6, <2>7, <2>8
<1> QED BY <1>2, <1>3, <1>4

\* What a backup does after its write, the newest snapshot being whole.
LEMMA SoundPruning ==
  ASSUME BackupTypeOK, Sound, NEW p \in Threads, PastWrite(p), safe' => safe,
         NEW r, job' = [job EXCEPT ![p] = r], r.op = "backup", r.at \in {"list", "unlink"},
         There' \subseteq There,
         \A m \in Seconds :
           file[m] = Whole /\ Newest(m) /\ (job[p].at = "unlink" => m \notin job[p].todo) =>
             file'[m] = Whole /\ (r.at = "unlink" => m \notin r.todo)
  PROVE  Sound'
<1> SUFFICES ASSUME safe'
             PROVE  /\ \A q1, q2 \in Threads : Under(q1)' /\ Under(q2)' => q1 = q2
                    /\ \E m \in Seconds :
                         /\ file'[m] = Whole
                         /\ \A q \in Threads : PastWrite(q)' =>
                              Newest(m)' /\ (job'[q].at = "unlink" => m \notin job'[q].todo)
  BY DEF Sound
<1>1. job'[p] = r /\ \A q \in Threads \ {p} : job'[q] = job[q]
  BY OnlyJob
<1>2. Under(p)
  BY DEF PastWrite, Under
<1>3. \A q \in Threads : Under(q)' => q = p
  BY <1>1, <1>2 DEF Sound, Under, BackingUp
<1>4. \A q \in Threads : PastWrite(q)' => q = p
  <2>1. \A q \in Threads : PastWrite(q)' => Under(q)'
    BY DEF PastWrite, Under
  <2> QED BY <1>3, <2>1
<1>5. PICK m \in Seconds :
        /\ file[m] = Whole
        /\ Newest(m) /\ (job[p].at = "unlink" => m \notin job[p].todo)
  BY DEF Sound
<1>6. Newest(m)'
  BY <1>5 DEF Newest
<1>7. file'[m] = Whole /\ (r.at = "unlink" => m \notin r.todo)
  BY <1>5
<1> QED BY <1>1, <1>3, <1>4, <1>6, <1>7

LEMMA SoundBySweeping ==
  ASSUME BackupTypeOK, Sound, NEW p \in Threads, ReadProtected(p) \/ List(p) \/ Unlink(p)
  PROVE  Sound'
<1> DEFINE j == job[p]
<1>0. j \in Backup \cup PurgeJob /\ j.at \in {"pins", "list", "unlink"}
  <2>1. j \in Jobs
    BY DEF BackupTypeOK, Jobs
  <2> QED BY <2>1, JobShape DEF ReadProtected, List, Unlink
<1>1. j.op = "backup" => j \in Backup /\ PastWrite(p)
  BY <1>0 DEF PastWrite, BackingUp, PurgeJob
<1>2. CASE ReadProtected(p)
  <2>1. PICK r : r = [j EXCEPT !.at = "list", !.pins = Pins, !.keep = set.keep]
    OBVIOUS
  <2>2. r.at = "list" /\ r.op = j.op
    BY <1>0, <2>1 DEF Backup, PurgeJob
  <2>3. job' = [job EXCEPT ![p] = r] /\ UNCHANGED <<file, safe>>
    BY <1>2, <2>1 DEF ReadProtected, noted
  <2>4. CASE j.op = "backup"
    BY <1>1, <2>2, <2>3, <2>4, SoundPruning DEF There
  <2>5. CASE j.op # "backup"
    BY <2>2, <2>3, <2>5, SoundStays DEF Quiet
  <2> QED BY <2>4, <2>5
<1>3. CASE List(p)
  <2>1. PICK r : r = [j EXCEPT !.at = "unlink", !.todo = Stale(j)]
    OBVIOUS
  <2>2. r.at = "unlink" /\ r.op = j.op /\ r.todo = Stale(j)
    BY <1>0, <2>1 DEF Backup, PurgeJob
  <2>3. job' = [job EXCEPT ![p] = r] /\ UNCHANGED <<file, safe>>
    BY <1>3, <2>1 DEF List, noted
  <2>4. CASE j.op = "backup"
    <3>1. \A m \in Seconds : Newest(m) => m \notin r.todo
      BY <1>1, <2>2, <2>4, NewestIsKept
    <3> QED BY <1>1, <2>2, <2>3, <2>4, <3>1, SoundPruning DEF There
  <2>5. CASE j.op # "backup"
    BY <2>2, <2>3, <2>5, SoundStays DEF Quiet
  <2> QED BY <2>4, <2>5
<1>4. CASE Unlink(p)
  <2>1. PICK n \in There : /\ InTurn(j, n) /\ file' = [file EXCEPT ![n] = NoFile]
                           /\ job' = [job EXCEPT ![p].todo = @ \ {n}]
                           /\ safe' = (safe /\ j.op = "backup")
    BY <1>4 DEF Unlink
  <2>2. PICK r : r = [j EXCEPT !.todo = j.todo \ {n}]
    OBVIOUS
  <2>3. r.at = "unlink" /\ r.op = j.op /\ r.todo = j.todo \ {n} /\ j.at = "unlink"
    BY <1>0, <1>4, <2>2 DEF Backup, PurgeJob, Unlink
  <2>4. job' = [job EXCEPT ![p] = r]
    BY <2>1, <2>2
  <2>5. file \in [Seconds -> {NoFile, Torn, Whole}]
    BY DEF BackupTypeOK
  <2>6. CASE j.op = "backup"
    <3>1. n \in j.todo
      BY <2>1 DEF InTurn
    <3>2. \A m \in Seconds : file[m] = Whole /\ m \notin j.todo => file'[m] = Whole /\ m \notin r.todo
      BY <2>1, <2>3, <2>5, <3>1
    <3>3. There' \subseteq There
      BY <2>1, <2>5 DEF There
    <3> QED BY <1>1, <2>1, <2>3, <2>4, <2>6, <3>2, <3>3, SoundPruning
  <2>7. CASE j.op # "backup"
    BY <2>1, <2>7 DEF Sound
  <2> QED BY <2>6, <2>7
<1> QED BY <1>2, <1>3, <1>4

LEMMA SoundNext ==
  ASSUME BackupTypeOK, Sound, [BackupNext]_bvars
  PROVE  Sound'
<1>1. CASE Wake
  <2>1. PICK r : r = Start("begin", "backup")
    OBVIOUS
  <2>2. job' = [job EXCEPT ![Timer] = r] /\ r.at = "begin" /\ UNCHANGED <<file, safe>>
    BY <1>1, <2>1 DEF Wake, Start, noted
  <2> QED BY <2>2, SoundStays DEF Quiet, Threads
<1>2. CASE Tick \/ UNCHANGED bvars
  BY <1>2 DEF Tick, bvars, bounds, noted, Sound, Under, PastWrite, BackingUp, Newest, There
<1>3. CASE Crash
  BY <1>3 DEF Crash, noted, Sound, Under, PastWrite, BackingUp, NoJob
<1>4. ASSUME NEW c \in Callers, Request(c)
      PROVE  Sound'
  <2>1. Asked(c)
    BY <1>4, AskShape
  <2>2. PICK r : Opens(c, r)
    BY <2>1 DEF Asked
  <2>3. job' = [job EXCEPT ![c] = r] /\ UNCHANGED <<file, safe>>
    BY <2>1, <2>2 DEF Opens, Asked, noted
  <2>4. r \in Jobs /\ Quiet(r)
    BY <2>2, JobShape DEF Opens, Opening, Quiet
  <2> QED BY <2>3, <2>4, SoundStays DEF Threads
<1>5. ASSUME NEW p \in Threads, Leaves(p)
      PROVE  Sound'
  <2>1. PICK r \in {NoJob, Failing, Ended} : job' = [job EXCEPT ![p] = r]
    BY <1>5, LeavesShape
  <2>2. (r.at = "idle" \/ r.op # "backup") /\ UNCHANGED <<file, safe>>
    BY <1>5, <2>1, RestShape, LeavesShape DEF noted
  <2> QED BY <2>1, <2>2, SoundStays DEF Quiet
<1>6. ASSUME NEW c \in Callers, Answers(c)
      PROVE  Sound'
  <2>1. PICK r \in Jobs : job' = [job EXCEPT ![c] = r] /\ r.at \in {"idle", "clear", "row", "check"}
    BY <1>6, AnswerShape
  <2>2. Quiet(r)
    BY <2>1, JobShape DEF Quiet
  <2>3. c \in Threads /\ file \in [Seconds -> {NoFile, Torn, Whole}]
    BY DEF BackupTypeOK, Threads
  <2>4. ~safe' \/ (safe' = safe /\ UNCHANGED file)
    <3>1. CASE Remove(c)
      BY <2>3, <3>1 DEF Remove
    <3>2. CASE Clear(c) \/ Check(c) \/ SetProtected(c)
      BY <3>2 DEF Clear, Check, SetProtected, noted
    <3> QED BY <1>6, <3>1, <3>2 DEF Answers
  <2>5. CASE ~safe'
    BY <2>5 DEF Sound
  <2>6. CASE safe' = safe /\ UNCHANGED file
    BY <2>1, <2>2, <2>3, <2>6, SoundStays
  <2> QED BY <2>4, <2>5, <2>6
<1> QED BY <1>1, <1>2, <1>3, <1>4, <1>5, <1>6, SoundByWriting, SoundBySweeping
       DEF BackupNext, BackupStep, Leaves, Answers

-----------------------------------------------------------------------------
(* The theorems.                                                           *)

\* The inductive invariant holds of every run of the program.
THEOREM BackupInvariant == BackupSpec => []BackupInv
<1>1. BackupInit => BackupInv
  <2> SUFFICES ASSUME BackupInit
               PROVE  BackupInv
    OBVIOUS
  <2>1. BackupTypeOK
    <3>1. clock \in Seconds /\ asked \in 0..MaxAsks /\ faults \in 0..MaxFaults
      BY BoundsAssumption DEF BackupInit, Seconds
    <3>2. set \in Settings
      BY SettingsAssumption DEF BackupInit
    <3>3. /\ file \in [Seconds -> {NoFile, Torn, Whole}] /\ last \in Seconds \cup {Never}
          /\ job \in [Threads -> {NoJob, Failing, Ended} \cup Backup \cup PurgeJob \cup Deleting \cup PinJob]
      BY DEF BackupInit
    <3>4. /\ protected \subseteq Seconds /\ written \subseteq Seconds /\ kept \subseteq Seconds
          /\ safe \in BOOLEAN
      BY DEF BackupInit
    <3> QED BY <3>1, <3>2, <3>3, <3>4 DEF BackupTypeOK
  <2>2. Spared /\ Dated /\ Sound
    BY DEF BackupInit, Spared, Dated, Sound, LastIsTrue, PastWrite, BackingUp, NoJob
  <2> QED BY <2>1, <2>2 DEF BackupInv
<1>2. BackupInv /\ [BackupNext]_bvars => BackupInv'
  BY TypeNext, SparedNext, DatedNext, SoundNext DEF BackupInv
<1> QED BY <1>1, <1>2, PTL DEF BackupSpec

\* Files, pins, settings and jobs keep their types.
THEOREM BackupTypesHold == BackupSpec => []BackupTypeOK
<1>1. BackupInv => BackupTypeOK
  BY DEF BackupInv
<1> QED BY <1>1, BackupInvariant, PTL

\* Whatever later backups are cut short, killed or pruned, a snapshot that was
\* written whole with no other backup under way can be restored, or a newer one.
THEOREM SafetyHolds == BackupSpec => []SafeMeansRestorable
<1>1. BackupInv => SafeMeansRestorable
  BY DEF BackupInv, Sound, SafeMeansRestorable
<1> QED BY <1>1, BackupInvariant, PTL

\* No prune and no purge takes a snapshot that was pinned before it began.
THEOREM PinsHold == BackupSpec => []PinnedSurvives
<1>1. BackupInv => PinnedSurvives
  BY DEF BackupInv, Spared, PinnedSurvives, There
<1> QED BY <1>1, BackupInvariant, PTL

\* The timer counts from a snapshot that exists or existed, never from a failure.
THEOREM LastIsWritten == BackupSpec => []LastIsTrue
<1>1. BackupInv => LastIsTrue
  BY DEF BackupInv, Dated
<1> QED BY <1>1, BackupInvariant, PTL
=============================================================================
