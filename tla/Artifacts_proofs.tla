------------------------- MODULE Artifacts_proofs -------------------------
(***************************************************************************)
(* Proofs about Artifacts and the Ingestion it extends, for any threads,   *)
(* editors, files, contents, beginnings and length of time: what is        *)
(* refused was kept, nothing is recorded twice, the watcher takes in what  *)
(* it has taken up, conversions belong to the table beside them, nothing   *)
(* is written over, and tags and notes follow their artifact.              *)
(***************************************************************************)
EXTENDS Artifacts, FiniteSetTheorems, WellFoundedInduction, TLAPS

-----------------------------------------------------------------------------
(* The shape of the state.                                                 *)

Docs == [stem : Stems, kind : {"table", "json"}, data : Data]
DocJob == [at : {"look", "save", "convert", "record"}, todo : Seq(Docs) \ {<< >>},
           into : Stamped \cup {NoName}]
Jobs == {Idle} \cup DocJob \cup ReadJob
Texts == Notes \cup {NoNote}

\* Past the look: what is in hand can be read.  Once saved: a table, under its name.
JobOK(j) ==
  /\ j.at \in {"save", "convert", "record"} => Readable(Head(j.todo).data)
  /\ j.at = "convert" => j.into \in Stamped /\ j.into[3] = "table"

WillOK(r) ==
  /\ r.field \in {"tags", "note"}
  /\ DOMAIN r.will \subseteq Names
  /\ r.will \in [DOMAIN r.will -> IF r.field = "tags" THEN SUBSET Tags ELSE Texts]

Renaming == {"move", "movetags", "movenote"}
Copying == {"copy", "copytags", "copynote"}

EditOK(r) ==
  \/ r = Idle
  \/ r.at \in {"check", "write"} /\ r = Annotating(r.field, r.at = "check", r.will) /\ WillOK(r)
  \/ /\ r.at = "found"
     /\ r = [at |-> "found", field |-> r.field, checked |-> TRUE, will |-> r.will, cur |-> r.cur]
     /\ WillOK(r) /\ r.cur \in DOMAIN r.will
  \/ /\ r.at \in Renaming \cup Copying /\ r = Moving(r.at, r.from, r.to)
     /\ r.from \in Names /\ r.to \in Given /\ r.from # r.to
  \/ r.at = "unlink" /\ r = Removing(r.todo) /\ r.todo \subseteq Names

\* The types of Ingestion, with what the steps of a job can rely on.
IngestShape ==
  /\ disk \in [Names -> Entry \cup {NoFile}]
  /\ recorded \subseteq Data /\ whole \subseteq Data
  /\ twice \subseteq Data /\ contested \subseteq Data /\ clashed \in BOOLEAN
  /\ folder \in [DropNames -> Arrival \cup {NoFile}]
  /\ seen \subseteq DropNames /\ scan \subseteq DropNames /\ missed \subseteq DropNames
  /\ clock \in 0..MaxClock
  /\ IsBudget(budget)
  /\ job \in [Threads -> Jobs]
  /\ \A p \in Threads : JobOK(job[p])
  /\ \A c \in Clients : job[c] \notin ReadJob

Shape ==
  /\ IngestShape /\ ATypeOK
  /\ edit = [e \in Editors |-> edit[e]]
  /\ \A e \in Editors : EditOK(edit[e])

-----------------------------------------------------------------------------
(* The parts of the inductive invariant.                                   *)

\* Who is about to record has stored it all.
Kept ==
  /\ RefusedOnlyIfKept
  /\ \A p \in Threads : job[p].at = "record" => Current(p).data \in whole

\* What two threads have in hand, or one and the records, is contested.
Once ==
  /\ NotTwice
  /\ \A p \in Threads : WorkedOnBy(p) \cap recorded \subseteq contested
  /\ \A p, q \in Threads : p # q => WorkedOnBy(p) \cap WorkedOnBy(q) \subseteq contested

\* What the watcher has in hand it has taken up, and it is what lies in the folder.
TakenUp ==
  /\ TakenUpMeansIngested
  /\ job[Watcher].at = "read" => job[Watcher].from \in seen
  /\ job[Watcher] \in DocJob =>
       LET w == DroppedAs(Current(Watcher))
       IN /\ Len(job[Watcher].todo) = 1
          /\ w \in seen
          /\ w \in InFolder \ missed => Current(Watcher).data = folder[w].now

\* A conversion is of the table beside it, unless a user put a file of another
\* kind under one of the two names or files came under a name in use.
ConversionsBelong ==
  ~clashed => \A n \in Stamped :
    n[3] = "table" /\ OwnNames(n) /\ OnDiskWhole(n) /\ OnDiskWhole(SidecarOf(n))
    => disk[SidecarOf(n)].body = Holding(Converted[disk[n].body.data])

Belong ==
  /\ ConversionsBelong
  /\ ~clashed => \A p \in Threads : job[p].at = "convert" =>
       /\ job[p].into \notin borrowed /\ OnDiskWhole(job[p].into)
            => disk[job[p].into].body = Holding(Current(p).data)
       /\ \A q \in Threads : q # p /\ job[q].at = "convert" => job[q].into # job[p].into

\* What is stored as an uploaded table is the content of one that could be read.
Raw ==
  \A n \in Stamped \ borrowed : n[3] = "table" /\ OnDiskWhole(n) =>
    disk[n].body.data \in Data /\ Readable(disk[n].body.data)

\* Requests that meet are blurred in all they touch; a rename or a copy goes to a
\* name that is free.
Apart ==
  /\ \A d, e \in Editors :
       d # e /\ Touched(edit[d]) \cap Touched(edit[e]) # {}
       => Touched(edit[d]) \cup Touched(edit[e]) \subseteq blurred
  /\ \A e \in Editors : edit[e].at \in {"move", "copy"} /\ edit[e].to \in OnDisk => edit[e].to \in blurred

Sure(n) == n \in OnDisk /\ n \notin blurred /\ n \notin haunted

\* How far a request has come with a file it touches.
ByWill(r, n) ==
  IF r.field = "tags" THEN r.will[n] = meant[n].tags /\ NoteOf(n) = meant[n].note
  ELSE TagsOf(n) = meant[n].tags /\ r.will[n] = meant[n].note
Left(n) == ~HasRow(n) /\ meant[n] = Bare
TagsToCome(r) ==
  /\ ~HasRow(r.to)
  /\ TagsOf(r.from) = meant[r.to].tags /\ NoteOf(r.from) = meant[r.to].note
NoteToCome(r) ==
  /\ notes[r.to] = NoRow
  /\ TagsOf(r.to) = meant[r.to].tags /\ NoteOf(r.from) = meant[r.to].note

Underway(r, n) ==
  CASE r.at \in {"check", "write", "found"} -> ByWill(r, n)
    [] r.at \in {"movetags", "copytags"} /\ n = r.to -> TagsToCome(r)
    [] r.at \in {"movenote", "copynote"} /\ n = r.to -> NoteToCome(r)
    [] r.at \in {"movetags", "movenote"} /\ n # r.to -> Left(n)
    [] OTHER -> Annotated(n)

\* Files nobody touches show what was meant, the others will.  There is no file
\* without its meaning, and a name that is about to be annotated has a file or a row.
Follows ==
  /\ \A n \in Names \ OnDisk : meant[n] = Bare
  /\ \A e \in Editors : edit[e].at \in {"check", "write", "found"} =>
       \A n \in DOMAIN edit[e].will : n \in OnDisk \/ n \in blurred \/ HasRow(n)
  /\ ~clashed => \A n \in Names : Sure(n) =>
       /\ n \notin InFlight => Annotated(n)
       /\ \A e \in Editors : n \in Touched(edit[e]) => Underway(edit[e], n)

IInv == Shape /\ Kept /\ Once /\ TakenUp /\ Belong /\ Raw /\ Apart /\ Follows

-----------------------------------------------------------------------------
(* Lemmas about jobs, requests and files.                                  *)

LEMMA JobShape ==
  ASSUME NEW j \in Jobs
  PROVE  /\ j.at \in {"idle", "read", "look", "save", "convert", "record"}
         /\ j.at = "idle" <=> j = Idle
         /\ j.at = "read" <=> j \in ReadJob
         /\ j.at \in {"look", "save", "convert", "record"} <=> j \in DocJob
         /\ j.at = "read" => j.from \in DropNames
         /\ j \in DocJob =>
              /\ j = [at |-> j.at, todo |-> j.todo, into |-> j.into]
              /\ j.todo \in Seq(Docs) /\ j.todo # << >>
              /\ Len(j.todo) \in Nat \ {0}
              /\ Head(j.todo) \in Docs
              /\ j.into \in Stamped \cup {NoName}
  BY DEF Jobs, Idle, DocJob, ReadJob

LEMMA JobGoesOn ==
  ASSUME NEW j \in DocJob, NEW place, NEW n
  PROVE  /\ [j EXCEPT !.at = place] = [at |-> place, todo |-> j.todo, into |-> j.into]
         /\ [j EXCEPT !.at = place, !.into = n] = [at |-> place, todo |-> j.todo, into |-> n]
<1>1. PICK a, t, i : j = [at |-> a, todo |-> t, into |-> i]
  BY DEF DocJob
<1>2. [j EXCEPT !.at = place] = [at |-> place, todo |-> t, into |-> i]
  BY <1>1
<1>3. [j EXCEPT !.at = place, !.into = n] = [at |-> place, todo |-> t, into |-> n]
  <2>1. PICK k : k = [at |-> place, todo |-> t, into |-> i]
    OBVIOUS
  <2>2. [k EXCEPT !.into = n] = [at |-> place, todo |-> t, into |-> n]
    BY <2>1
  <2>3. [j EXCEPT !.at = place, !.into = n] = [k EXCEPT !.into = n]
    BY <1>2, <2>1
  <2> QED BY <2>2, <2>3
<1>4. j.todo = t /\ j.into = i
  BY <1>1
<1> QED BY <1>2, <1>3, <1>4

LEMMA RestShape ==
  ASSUME NEW p \in Threads, job[p] \in DocJob
  PROVE  Rest(p) \in Jobs /\ JobOK(Rest(p)) /\ Rest(p).at \in {"idle", "look"}
<1>1. CASE Len(job[p].todo) > 1
  <2>0. PICK s \in Seq(Docs) : s = job[p].todo
    BY DEF DocJob
  <2>1. Tail(s) \in Seq(Docs) /\ Len(Tail(s)) = Len(s) - 1 /\ Len(s) > 1 /\ Len(s) \in Nat
    BY <1>1, <2>0
  <2>2. Tail(s) # << >>
    <3>1. PICK t \in Seq(Docs) : t = Tail(s)
      BY <2>1
    <3>2. Len(t) # 0
      BY <2>1, <3>1
    <3>3. t # << >>
      BY <3>2
    <3> QED BY <3>1, <3>3
  <2> QED BY <1>1, <2>0, <2>1, <2>2 DEF Rest, Ingesting, Jobs, DocJob, JobOK
<1>2. CASE ~(Len(job[p].todo) > 1)
  BY <1>2 DEF Rest, Idle, Jobs, JobOK
<1> QED BY <1>1, <1>2

LEMMA Files ==
  /\ \A x \in Entry : x # NoFile /\ x.body \in Body /\ x.time \in 0..MaxClock
  /\ \A d : Holding(d) # Torn /\ Holding(d).data = d
  /\ \A b, t : Stored(b, t) # NoFile /\ Stored(b, t).body = b /\ Stored(b, t).time = t
  /\ \A b \in Body, t \in 0..MaxClock : Stored(b, t) \in Entry
  /\ \A d, e : Holding(d) = Holding(e) => d = e
  BY DEF Entry, NoFile, Holding, Torn, Stored

LEMMA StampedNames ==
  /\ \A n \in Stamped : /\ SidecarOf(n) \in Stamped /\ n \in Namesakes(n) /\ SidecarOf(n) \in Namesakes(n)
                        /\ n \in Names /\ SidecarOf(n) \in Names
  /\ clock \in 0..MaxClock => \A f \in Docs : StampedName(f) \in Stamped /\ StampedName(f)[3] = f.kind
  BY DEF Stamped, SidecarOf, Namesakes, Names, StampedName, Docs

-----------------------------------------------------------------------------
(* The types of ingestion.                                                 *)

\* What a job is while its thread has a file in hand.
LEMMA InHand ==
  ASSUME IngestShape, NEW p \in Threads, job[p].at \in {"look", "save", "convert", "record"}
  PROVE  /\ job[p] \in DocJob
         /\ Current(p) \in Docs /\ Current(p).data \in Data /\ Current(p) = Head(job[p].todo)
         /\ Current(p).kind \in {"table", "json"} /\ Current(p).stem \in Stems
         /\ StampedName(Current(p)) \in Stamped
         /\ job[p].at \in {"save", "convert", "record"} => Readable(Current(p).data)
         /\ job[p].at = "convert" => job[p].into \in Stamped /\ job[p].into[3] = "table"
         /\ p # Watcher => p \in Clients
<1>1. job[p] \in Jobs /\ JobOK(job[p]) /\ clock \in 0..MaxClock
  BY DEF IngestShape
<1>2. job[p] \in DocJob
  BY <1>1, JobShape
<1>3. Current(p) \in Docs
  BY <1>2, JobShape, <1>1 DEF Current
<1> QED BY <1>1, <1>2, <1>3, StampedNames DEF JobOK, Current, Docs, Threads

LEMMA JobChange ==
  ASSUME job \in [Threads -> Jobs], \A q \in Threads : JobOK(job[q]),
         NEW p \in Threads, NEW j \in Jobs, JobOK(j), job' = [job EXCEPT ![p] = j]
  PROVE  /\ job' \in [Threads -> Jobs] /\ \A q \in Threads : JobOK(job'[q])
         /\ job'[p] = j
         /\ \A q \in Threads : q # p => job'[q] = job[q]
  OBVIOUS

\* The type invariant speaks of files of any kind; none is refused so late.
LEMMA JobTypes ==
  ASSUME job \in [Threads -> Jobs], \A c \in Clients : job[c] \notin ReadJob
  PROVE  /\ job \in [Threads -> {Idle} \cup IngestJob \cup ReadJob]
         /\ \A c \in Clients : job[c] \in {Idle} \cup IngestJob
<1>1. Docs \subseteq File
  BY DEF Docs, File, Kinds
<1>2. \A s \in Seq(Docs) : s \in Seq(File)
  BY <1>1
<1>3. DocJob \subseteq IngestJob
  BY <1>2 DEF DocJob, IngestJob
<1> QED BY <1>3 DEF Jobs, Threads

Funds == {"uploads", "drops", "faults", "edits"}

LEMMA BudgetSpent ==
  ASSUME IsBudget(budget), NEW what \in Funds, NEW n \in Nat, budget' = [budget EXCEPT ![what] = n]
  PROVE  /\ IsBudget(budget')
         /\ budget'.among = budget.among /\ budget'.shelf = budget.shelf
<1>1. DOMAIN budget = {"shelf", "among", "uploads", "drops", "faults", "edits"}
  BY DEF IsBudget
<1>2. budget'.among = budget.among /\ budget'.shelf = budget.shelf /\ DOMAIN budget' = DOMAIN budget
  BY <1>1 DEF Funds
<1>3. /\ budget'.uploads = budget.uploads \/ budget'.uploads = n
      /\ budget'.drops = budget.drops \/ budget'.drops = n
      /\ budget'.faults = budget.faults \/ budget'.faults = n
      /\ budget'.edits = budget.edits \/ budget'.edits = n
  BY <1>1
<1> QED BY <1>1, <1>2, <1>3 DEF IsBudget

LEMMA Spending ==
  ASSUME IsBudget(budget), NEW what \in Funds, Spend(what)
  PROVE  IsBudget(budget')
<1>1. budget[what] \in Nat
  BY DEF IsBudget, Funds
<1>2. budget[what] - 1 \in Nat
  BY <1>1 DEF Spend
<1> QED BY <1>2, BudgetSpent DEF Spend

\* A file is added, or one is written over.
LEMMA DiskGains ==
  ASSUME disk \in [Names -> Entry \cup {NoFile}], NEW n \in Names, NEW b \in Body, clock \in 0..MaxClock,
         disk' = [disk EXCEPT ![n] = Stored(b, clock)]
  PROVE  /\ disk' \in [Names -> Entry \cup {NoFile}]
         /\ disk'[n] = Stored(b, clock) /\ \A m \in Names : m # n => disk'[m] = disk[m]
  BY Files

LEMMA TypesOfRequests ==
  ASSUME IngestShape, NEW c \in Clients, Upload(c) \/ ImportZip(c)
  PROVE  IngestShape'
<1>0. c \in Threads /\ job \in [Threads -> Jobs]
  BY DEF Threads, IngestShape
<1>1. AtHand \subseteq Docs
  BY DEF AtHand, Docs, Kinds, IngestShape, IsBudget
<1>2. ASSUME NEW files \in Seq(Docs), files # << >>, Begin(c, files), IsBudget(budget')
      PROVE  IngestShape'
  <2>1. PICK j : j = Ingesting(files)
    OBVIOUS
  <2>2. j \in Jobs /\ JobOK(j) /\ j \notin ReadJob
    BY <1>2, <2>1 DEF Ingesting, Jobs, DocJob, JobOK, ReadJob
  <2>3. job' = [job EXCEPT ![c] = j]
    BY <1>2, <2>1 DEF Begin
  <2>4. /\ job' \in [Threads -> Jobs] /\ \A q \in Threads : JobOK(job'[q])
        /\ job'[c] = j /\ \A q \in Threads : q # c => job'[q] = job[q]
    BY <1>0, <2>2, <2>3, JobChange DEF IngestShape
  <2> QED BY <1>2, <2>2, <2>4 DEF Begin, IngestShape, watched, history, Threads
<1>3. CASE Upload(c)
  <2>1. PICK f \in AtHand : Begin(c, <<f>>)
    BY <1>3 DEF Upload
  <2>2. <<f>> \in Seq(Docs) /\ <<f>> # << >>
    BY <1>1
  <2>3. IsBudget(budget')
    BY <1>3, Spending DEF Upload, IngestShape, Funds
  <2> QED BY <1>2, <2>1, <2>2, <2>3
<1>4. CASE ImportZip(c)
  <2>1. PICK f, g \in AtHand : Begin(c, <<f, g>>)
    BY <1>4 DEF ImportZip
  <2>2. <<f, g>> \in Seq(Docs) /\ <<f, g>> # << >>
    BY <1>1
  <2>3. PICK n \in Nat : n = budget.uploads - 2
    BY <1>4 DEF ImportZip, IngestShape, IsBudget
  <2>4. budget' = [budget EXCEPT !["uploads"] = n]
    BY <1>4, <2>3 DEF ImportZip
  <2>5. IsBudget(budget')
    BY <2>4, BudgetSpent DEF IngestShape, Funds
  <2> QED BY <1>2, <2>1, <2>2, <2>5
<1> QED BY <1>3, <1>4

LEMMA TypesOfIngesting ==
  ASSUME IngestShape, NEW p \in Threads, Ingest(p)
  PROVE  IngestShape'
<1>0. job \in [Threads -> Jobs] /\ job[p] \in Jobs
  BY DEF IngestShape
<1>1. job[p].at \in {"look", "save", "convert", "record"}
  BY DEF Ingest, Look, Save, Convert, Record, WriteFails
<1>2. job[p] \in DocJob
  BY <1>1, InHand
<1>3. PICK j \in Jobs : j = Rest(p) /\ JobOK(j) /\ j.at \in {"idle", "look"}
  BY <1>2, RestShape
<1>4. \A q \in Clients : q \in Threads
  BY DEF Threads
<1>5. ASSUME NEW k \in Jobs, JobOK(k), k.at # "read", job' = [job EXCEPT ![p] = k]
      PROVE  /\ job' \in [Threads -> Jobs] /\ \A q \in Threads : JobOK(job'[q])
             /\ \A c \in Clients : job'[c] \notin ReadJob
  <2>1. k \notin ReadJob
    BY <1>5, JobShape
  <2> QED BY <1>0, <1>4, <1>5, <2>1, JobChange DEF IngestShape
<1>6. CASE Look(p)
  <2>1. CASE job' = [job EXCEPT ![p] = Rest(p)] /\ UNCHANGED contested
    BY <1>3, <1>5, <1>6, <2>1 DEF Look, IngestShape, watched
  <2>2. CASE Readable(Current(p).data) /\ job' = [job EXCEPT ![p].at = "save"] /\ contested' \subseteq Data
    <3>1. PICK k : k = [job[p] EXCEPT !.at = "save"]
      OBVIOUS
    <3>2. k = [at |-> "save", todo |-> job[p].todo, into |-> job[p].into]
      BY <1>2, <3>1, JobGoesOn
    <3>3. k \in DocJob /\ JobOK(k)
      BY <1>2, <2>2, <3>2, JobShape DEF DocJob, JobOK, Current
    <3>4. job' = [job EXCEPT ![p] = k]
      BY <2>2, <3>1
    <3> QED BY <1>5, <1>6, <2>2, <3>2, <3>3, <3>4 DEF Look, IngestShape, watched, Jobs
  <2>3. Current(p).data \in Data /\ contested \subseteq Data
    BY <1>1, InHand DEF IngestShape
  <2> QED BY <1>6, <2>1, <2>2, <2>3 DEF Look
<1>7. CASE Save(p)
  <2> DEFINE n == StampedName(Current(p))
  <2>1. n \in Stamped /\ n \in Names /\ n[3] = Current(p).kind /\ Current(p).data \in Data
    BY <1>1, InHand, StampedNames DEF IngestShape
  <2>2. disk' \in [Names -> Entry \cup {NoFile}]
    BY <1>7, <2>1, DiskGains DEF Save, IngestShape, Body
  <2>3. PICK k : k = [job[p] EXCEPT !.at = AfterSave(Current(p)), !.into = n]
    OBVIOUS
  <2>4. k = [at |-> AfterSave(Current(p)), todo |-> job[p].todo, into |-> n]
    BY <1>2, <2>3, JobGoesOn
  <2>5. k \in DocJob /\ JobOK(k) /\ k.at # "read"
    <3>1. Readable(Head(job[p].todo).data) /\ Current(p).kind \in {"table", "json"}
      BY <1>7, InHand DEF Save, Current
    <3> QED BY <1>2, <2>1, <2>4, <3>1, JobShape DEF DocJob, JobOK, AfterSave
  <2>6. job' = [job EXCEPT ![p] = k]
    BY <1>7, <2>3 DEF Save
  <2>7. whole' \subseteq Data /\ clashed' \in BOOLEAN
    BY <1>7, <2>1 DEF Save, IngestShape
  <2> QED BY <1>5, <1>7, <2>2, <2>5, <2>6, <2>7 DEF Save, IngestShape, watched, Jobs
<1>8. CASE Convert(p)
  <2> DEFINE n == SidecarOf(job[p].into)
  <2>1. n \in Names /\ Current(p).data \in Data /\ Readable(Current(p).data)
    BY <1>8, InHand, StampedNames DEF Convert
  <2>2. Holding(Converted[Current(p).data]) \in Body
    BY <2>1 DEF Body, Result, Readable
  <2>3. disk' \in [Names -> Entry \cup {NoFile}]
    BY <1>8, <2>1, <2>2, DiskGains DEF Convert, IngestShape
  <2>4. PICK k : k = [job[p] EXCEPT !.at = "record"]
    OBVIOUS
  <2>5. k = [at |-> "record", todo |-> job[p].todo, into |-> job[p].into]
    BY <1>2, <2>4, JobGoesOn
  <2>6. k \in DocJob /\ JobOK(k) /\ k.at # "read"
    BY <1>2, <2>1, <2>5, JobShape DEF DocJob, JobOK, Current
  <2>7. job' = [job EXCEPT ![p] = k]
    BY <1>8, <2>4 DEF Convert
  <2>8. whole' \subseteq Data /\ clashed' \in BOOLEAN
    BY <1>8, <2>1 DEF Convert, IngestShape
  <2> QED BY <1>5, <1>8, <2>3, <2>6, <2>7, <2>8 DEF Convert, IngestShape, watched, Jobs
<1>9. CASE Record(p)
  <2>1. recorded' \subseteq Data /\ twice' \subseteq Data
    BY <1>1, <1>9, InHand DEF Record, IngestShape
  <2> QED BY <1>3, <1>5, <1>9, <2>1 DEF Record, IngestShape, watched
<1>10. CASE WriteFails(p)
  <2>1. PICK torn \in SUBSET Target(p) : TornBy({p}, torn) /\ disk' = Tear(disk, torn)
    BY <1>10 DEF WriteFails
  <2>2. disk' \in [Names -> Entry \cup {NoFile}] /\ clashed' \in BOOLEAN
    BY <2>1, Files DEF Tear, TornBy, IngestShape, Body
  <2>3. IsBudget(budget')
    BY <1>10, Spending DEF WriteFails, IngestShape, Funds
  <2>4. DroppedAs(Current(p)) \in DropNames
    BY <1>1, InHand DEF DroppedAs, DropNames, Kinds
  <2> QED BY <1>3, <1>5, <1>10, <2>2, <2>3, <2>4 DEF WriteFails, IngestShape
<1> QED BY <1>6, <1>7, <1>8, <1>9, <1>10 DEF Ingest

Watching ==
  \/ \E w \in DropNames : Drop(w) \/ FinishCopy(w) \/ TakeAway(w) \/ TakeUp(w)
  \/ Scan \/ Read

LEMMA TypesOfWatching ==
  ASSUME IngestShape, Watching
  PROVE  IngestShape'
<1>0. /\ folder \in [DropNames -> Arrival \cup {NoFile}] /\ job \in [Threads -> Jobs]
      /\ Watcher \in Threads /\ Watcher \notin Clients
      /\ \A q \in Clients : q \in Threads /\ q # Watcher
  BY ThreadsAssumption DEF IngestShape, Threads
<1>1. ASSUME NEW k \in Jobs, JobOK(k), job' = [job EXCEPT ![Watcher] = k]
      PROVE  /\ job' \in [Threads -> Jobs] /\ \A q \in Threads : JobOK(job'[q])
             /\ \A c \in Clients : job'[c] \notin ReadJob
  BY <1>0, <1>1, JobChange DEF IngestShape
<1>2. ASSUME NEW w \in DropNames, Drop(w)
      PROVE  IngestShape'
  <2>1. PICK d \in budget.among :
          \E now \in {d, Half[d]} : folder' = [folder EXCEPT ![w] = [now |-> now, then |-> d]]
    BY <1>2 DEF Drop
  <2>a. PICK now \in {d, Half[d]} : folder' = [folder EXCEPT ![w] = [now |-> now, then |-> d]]
    BY <2>1
  <2>2. d \in Data /\ now \in Data
    BY <2>a, DataAssumption DEF IngestShape, IsBudget
  <2>3. folder' \in [DropNames -> Arrival \cup {NoFile}]
    BY <1>0, <2>2, <2>a DEF Arrival
  <2>4. IsBudget(budget')
    BY <1>2, Spending DEF Drop, IngestShape, Funds
  <2> QED BY <1>2, <2>3, <2>4 DEF Drop, IngestShape, history
<1>3. ASSUME NEW w \in DropNames, FinishCopy(w)
      PROVE  IngestShape'
  <2>1. folder[w] \in Arrival
    BY <1>0, <1>3 DEF FinishCopy
  <2>2. PICK a \in Arrival : a = [folder[w] EXCEPT !.now = folder[w].then]
    BY <2>1 DEF Arrival
  <2>3. folder' = [folder EXCEPT ![w] = a]
    BY <1>3, <2>2 DEF FinishCopy
  <2>4. folder' \in [DropNames -> Arrival \cup {NoFile}]
    BY <1>0, <2>2, <2>3
  <2> QED BY <1>3, <2>4 DEF FinishCopy, IngestShape, history
<1>4. ASSUME NEW w \in DropNames, TakeAway(w)
      PROVE  IngestShape'
  <2>1. folder' \in [DropNames -> Arrival \cup {NoFile}]
    BY <1>0, <1>4 DEF TakeAway
  <2> QED BY <1>4, <2>1 DEF TakeAway, IngestShape, history
<1>5. ASSUME NEW w \in DropNames, TakeUp(w)
      PROVE  IngestShape'
  <2>0. PICK k : k = [at |-> "read", from |-> w]
    OBVIOUS
  <2>1. k \in Jobs /\ JobOK(k)
    BY <2>0 DEF Jobs, ReadJob, JobOK
  <2>2. CASE StillThere(w)
    BY <1>1, <1>5, <2>0, <2>1, <2>2 DEF TakeUp, IngestShape, history
  <2>3. CASE ~StillThere(w)
    BY <1>5, <2>3 DEF TakeUp, IngestShape, history
  <2> QED BY <2>2, <2>3
<1>6. CASE Scan
  BY <1>6 DEF Scan, IngestShape, history, InFolder
<1>7. CASE Read
  <2> DEFINE w == job[Watcher].from
             taken == ~(folder[w] = NoFile \/ ~OfKnownKind(w) \/ ~Fits(folder[w].now))
  <2>1. w \in DropNames
    BY <1>0, <1>7, JobShape DEF Read
  <2>2. CASE ~taken
    <3>1. Idle \in Jobs /\ JobOK(Idle)
      BY DEF Jobs, JobOK, Idle
    <3> QED BY <1>1, <1>7, <2>2, <3>1 DEF Read, IngestShape, history, watched
  <2>3. CASE taken
    <3>1. PICK f : f = [stem |-> w.stem, kind |-> w.kind, data |-> folder[w].now]
      OBVIOUS
    <3>2. f \in Docs
      <4>1. folder[w] \in Arrival
        BY <1>0, <2>1, <2>3
      <4> QED BY <2>1, <2>3, <3>1, <4>1 DEF Docs, DropNames, Kinds, OfKnownKind, Arrival
    <3>3. <<f>> \in Seq(Docs) /\ <<f>> # << >>
      BY <3>2
    <3>4. PICK k : k = Ingesting(<<f>>)
      OBVIOUS
    <3>5. k \in Jobs /\ JobOK(k)
      BY <3>3, <3>4 DEF Ingesting, Jobs, DocJob, JobOK
    <3>6. job' = [job EXCEPT ![Watcher] = k]
      BY <1>7, <2>3, <3>1, <3>4 DEF Read
    <3> QED BY <1>1, <1>7, <3>5, <3>6 DEF Read, IngestShape, history, watched
  <2> QED BY <2>2, <2>3
<1> QED BY <1>2, <1>3, <1>4, <1>5, <1>6, <1>7 DEF Watching

LEMMA TypesOfTick == IngestShape /\ Tick => IngestShape'
<1>1. IngestShape /\ Tick => clock' \in 0..MaxClock
  BY BoundsAssumption DEF IngestShape, Tick
<1>2. IngestShape /\ Tick => disk' \in [Names -> Entry \cup {NoFile}]
  BY DEF IngestShape, Tick
<1> QED BY <1>1, <1>2 DEF IngestShape, Tick, watched, history

LEMMA TypesOfRestart ==
  ASSUME IngestShape, Restart
  PROVE  IngestShape'
<1>1. PICK torn \in SUBSET UNION {Target(p) : p \in Threads}, before \in 0..clock :
        TornBy(Threads, torn) /\ disk' = Sweep(Tear(disk, torn), before)
  BY DEF Restart
<1>2. Tear(disk, torn) \in [Names -> Entry \cup {NoFile}] /\ clashed' \in BOOLEAN
  BY <1>1, Files DEF Tear, TornBy, IngestShape, Body
<1>3. disk' \in [Names -> Entry \cup {NoFile}]
  BY <1>1, <1>2 DEF Sweep
<1>4. Idle \in Jobs /\ JobOK(Idle) /\ Idle \notin ReadJob
  BY DEF Jobs, JobOK, Idle, ReadJob
<1>5. /\ job' \in [Threads -> Jobs] /\ \A p \in Threads : JobOK(job'[p])
      /\ \A c \in Clients : job'[c] \notin ReadJob
  BY <1>4 DEF Restart, Threads
<1>6. IsBudget(budget')
  BY Spending DEF Restart, IngestShape, Funds
<1> QED BY <1>2, <1>3, <1>5, <1>6 DEF Restart, IngestShape, InFolder

LEMMA TypesOfIngestion ==
  ASSUME IngestShape, Ingestion
  PROVE  IngestShape'
BY TypesOfRequests, TypesOfIngesting, TypesOfWatching, TypesOfTick DEF Ingestion, Watching

-----------------------------------------------------------------------------
(* The requests on artifacts.                                              *)

LEMMA EditShape ==
  ASSUME NEW r, EditOK(r)
  PROVE  /\ r.at \in {"idle", "check", "write", "found", "unlink"} \cup Renaming \cup Copying
         /\ r.at = "idle" => r = Idle
         /\ r.at \in {"check", "write", "found"} => WillOK(r) /\ Touched(r) = DOMAIN r.will
         /\ r.at = "found" => r.cur \in DOMAIN r.will
         /\ r.at \in Renaming \cup Copying =>
              /\ r = Moving(r.at, r.from, r.to) /\ Touched(r) = {r.from, r.to}
              /\ r.from \in Names /\ r.to \in Given /\ r.to \in Names /\ r.from # r.to
         /\ r.at = "unlink" => r.todo \subseteq Names /\ Touched(r) = r.todo
         /\ Touched(r) \subseteq Names
         /\ r.at = "idle" => Touched(r) = {}
<1>1. CASE r = Idle
  BY <1>1 DEF Idle, Touched, Renaming, Copying
<1>2. CASE r.at \in {"check", "write"} /\ WillOK(r)
  BY <1>2 DEF Touched, Renaming, Copying, WillOK
<1>3. CASE r.at = "found" /\ WillOK(r) /\ r.cur \in DOMAIN r.will
  BY <1>3 DEF Touched, Renaming, Copying, WillOK
<1>4. CASE /\ r.at \in Renaming \cup Copying /\ r = Moving(r.at, r.from, r.to)
           /\ r.from \in Names /\ r.to \in Given /\ r.from # r.to
  <2>1. Touched(r) = {r.from, r.to} /\ r.at \notin {"idle", "check", "write", "found", "unlink"}
    BY <1>4 DEF Touched, Renaming, Copying
  <2>2. r.to \in Names
    BY <1>4 DEF Names
  <2> QED BY <1>4, <2>1, <2>2
<1>5. CASE r.at = "unlink" /\ r.todo \subseteq Names
  BY <1>5 DEF Touched, Renaming, Copying
<1> QED BY <1>1, <1>2, <1>3, <1>4, <1>5 DEF EditOK

LEMMA EditChange ==
  ASSUME edit = [e \in Editors |-> edit[e]], \A d \in Editors : EditOK(edit[d]),
         NEW e \in Editors, NEW r, EditOK(r), edit' = [edit EXCEPT ![e] = r]
  PROVE  /\ edit' = [d \in Editors |-> edit'[d]] /\ \A d \in Editors : EditOK(edit'[d])
         /\ edit'[e] = r
         /\ \A d \in Editors : d # e => edit'[d] = edit[d]
  OBVIOUS

\* A request as it comes: what it meets is blurred, what it means is noted.
Opened(e, r) ==
  /\ edit[e] = Idle /\ edit' = [edit EXCEPT ![e] = r] /\ EditOK(r)
  /\ r.at \in {"idle", "check", "write", "move", "copy", "unlink"}
  /\ blurred \subseteq blurred' /\ blurred' \subseteq Names
  /\ \A d \in Editors : Touched(edit[d]) \cap Touched(r) # {}
                          => Touched(edit[d]) \cup Touched(r) \subseteq blurred'
  /\ r.at \in {"move", "copy"} => r.to \notin OnDisk
  /\ r.at \in {"check", "write"} => \A n \in DOMAIN r.will : n \in OnDisk \/ HasRow(n)
  /\ meant' \in [Names -> [tags : SUBSET Tags, note : Texts]]
  /\ \A n \in Names : n \notin OnDisk \/ n \notin Touched(r) => meant'[n] = meant[n]
  /\ \A n \in Touched(r) : n \in OnDisk /\ Annotated(n) => Underway(r, n)'
  /\ IsBudget(budget')
  /\ UNCHANGED <<disk, recorded, watched, job, clock, history, rows, haunted, borrowed>>

LEMMA Asks ==
  ASSUME Shape, NEW e \in Editors, Free(e), NEW r, EditOK(r), Ask(e, r)
  PROVE  /\ edit[e] = Idle /\ edit' = [edit EXCEPT ![e] = r]
         /\ blurred \subseteq blurred' /\ blurred' \subseteq Names
         /\ \A d \in Editors : Touched(edit[d]) \cap Touched(r) # {}
                                 => Touched(edit[d]) \cup Touched(r) \subseteq blurred'
         /\ IsBudget(budget')
         /\ UNCHANGED <<disk, recorded, watched, job, clock, history, rows, haunted, borrowed>>
<1>1. IsBudget(budget')
  BY Spending DEF Ask, Shape, IngestShape, Funds
<1>2. Touched(r) \subseteq Names /\ \A d \in Editors : Touched(edit[d]) \subseteq Names
  BY EditShape DEF Shape
<1>3. \A n : n \in blurred' <=>
        \/ n \in blurred
        \/ \E d \in Editors : /\ Touched(edit[d]) \cap Touched(r) # {}
                              /\ n \in Touched(edit[d]) \cup Touched(r)
  <2> DEFINE met == {ns \in {Touched(edit[d]) : d \in Editors} : ns \cap Touched(r) # {}}
             own == IF met = {} THEN {} ELSE Touched(r)
  <2>1. blurred' = blurred \cup (UNION met) \cup own
    BY DEF Ask
  <2>2. \A n : n \in UNION met <=>
          \E d \in Editors : Touched(edit[d]) \cap Touched(r) # {} /\ n \in Touched(edit[d])
    OBVIOUS
  <2>3. \A n : n \in own <=>
          /\ \E d \in Editors : Touched(edit[d]) \cap Touched(r) # {}
          /\ n \in Touched(r)
    <3>1. met # {} <=> \E d \in Editors : Touched(edit[d]) \cap Touched(r) # {}
      OBVIOUS
    <3> HIDE DEF met
    <3> QED BY <3>1
  <2>4. \A n : n \in blurred' <=> n \in blurred \/ n \in UNION met \/ n \in own
    <3> HIDE DEF met, own
    <3> QED BY <2>1, Zenon
  <2> HIDE DEF met, own
  <2> QED BY <2>2, <2>3, <2>4
<1>4. blurred \subseteq Names
  BY DEF Shape, ATypeOK
<1>5. blurred \subseteq blurred' /\ blurred' \subseteq Names
  BY <1>2, <1>3, <1>4
<1>6. \A d \in Editors : Touched(edit[d]) \cap Touched(r) # {}
                         => Touched(edit[d]) \cup Touched(r) \subseteq blurred'
  BY <1>3
<1> QED BY <1>1, <1>5, <1>6 DEF Ask, Free

Meaning == [tags : SUBSET Tags, note : Texts]

LEMMA Meanings ==
  ASSUME Shape, NEW ns \in SUBSET Names, NEW text \in Texts, MeanNote(ns, text)
  PROVE  /\ meant' \in [Names -> Meaning]
         /\ \A n \in Names : n \notin OnDisk \/ n \notin ns => meant'[n] = meant[n]
         /\ \A n \in ns \cap OnDisk : meant'[n] = [tags |-> meant[n].tags, note |-> text]
<1>1. \A n \in Names : meant[n] \in Meaning
  BY DEF Shape, ATypeOK, Meaning, Texts
<1>2. \A m \in Meaning : [m EXCEPT !.note = text] = [tags |-> m.tags, note |-> text]
  BY DEF Meaning
<1> QED BY <1>1, <1>2 DEF MeanNote, Meaning

\* The tags of some files become those F says.
LEMMA TagMeanings ==
  ASSUME Shape, NEW ns \in SUBSET Names, NEW F \in [Names -> SUBSET Tags],
         meant' = [n \in Names |-> IF n \in ns \cap OnDisk THEN [meant[n] EXCEPT !.tags = F[n]] ELSE meant[n]]
  PROVE  /\ meant' \in [Names -> Meaning]
         /\ \A n \in Names : n \notin OnDisk \/ n \notin ns => meant'[n] = meant[n]
         /\ \A n \in ns \cap OnDisk : meant'[n] = [tags |-> F[n], note |-> meant[n].note]
<1>1. \A n \in Names : meant[n] \in Meaning
  BY DEF Shape, ATypeOK, Meaning, Texts
<1>2. \A m \in Meaning : \A ts : [m EXCEPT !.tags = ts] = [tags |-> ts, note |-> m.note]
  BY DEF Meaning
<1> QED BY <1>1, <1>2 DEF Meaning

\* What the routes read is what is in the rows.
LEMMA RowsRead ==
  ASSUME ATypeOK
  PROVE  /\ \A n \in Names : TagsOf(n) \in SUBSET Tags /\ NoteOf(n) \in Texts
         /\ \A n \in Names : ~HasRow(n) => TagsOf(n) = {} /\ NoteOf(n) = NoNote
         /\ \A v : Row(v) # NoRow /\ Row(v).value = v
<1>1. \A v : Row(v) # NoRow /\ Row(v).value = v
  BY DEF Row, NoRow
<1> QED BY <1>1 DEF ATypeOK, TagsOf, NoteOf, HasRow, TagRows, NoteRows, Texts

LEMMA SelectedNames == \A n \in Listed : n \in Names /\ (n \in OnDisk \/ HasRow(n))
BY DEF Listed, OnDisk

\* A request that writes a row for each file, and what it is meant to do.
LEMMA OpensAnnotating ==
  ASSUME Shape, NEW e \in Editors, Free(e), NEW field \in {"tags", "note"}, NEW b \in BOOLEAN,
         NEW ns \in SUBSET Names, \A n \in ns : n \in OnDisk \/ HasRow(n),
         NEW will \in [ns -> IF field = "tags" THEN SUBSET Tags ELSE Texts],
         Ask(e, Annotating(field, b, will)),
         meant' \in [Names -> Meaning],
         \A n \in Names : n \notin OnDisk \/ n \notin ns => meant'[n] = meant[n],
         \A n \in ns \cap OnDisk : Annotated(n) =>
           IF field = "tags" THEN meant'[n] = [tags |-> will[n], note |-> meant[n].note]
           ELSE meant'[n] = [tags |-> meant[n].tags, note |-> will[n]]
  PROVE  \E r : Opened(e, r)
<1>1. PICK r : r = Annotating(field, b, will)
  OBVIOUS
<1>2. /\ r.at = (IF b THEN "check" ELSE "write") /\ r.field = field /\ r.checked = b /\ r.will = will
      /\ DOMAIN r.will = ns
  BY <1>1 DEF Annotating
<1>3. EditOK(r)
  <2>1. WillOK(r)
    BY <1>2 DEF WillOK
  <2>2. r = Annotating(r.field, r.at = "check", r.will)
    BY <1>1, <1>2, Zenon DEF Annotating
  <2> QED BY <1>2, <2>1, <2>2 DEF EditOK
<1>4. Touched(r) = ns
  BY <1>2, <1>3, EditShape
<1>5. Ask(e, r)
  BY <1>1
<1>6. ASSUME NEW n \in ns, n \in OnDisk, Annotated(n)
      PROVE  Underway(r, n)'
  <2>1. UNCHANGED rows
    BY <1>5 DEF Ask
  <2>2. NoteOf(n)' = NoteOf(n) /\ TagsOf(n)' = TagsOf(n)
    BY <2>1 DEF NoteOf, TagsOf, rows
  <2>3. ByWill(r, n)'
    <3>1. CASE field = "tags"
      <4>1. meant'[n] = [tags |-> will[n], note |-> meant[n].note]
        BY <1>6, <3>1
      <4> QED BY <1>2, <1>6, <2>2, <3>1, <4>1 DEF ByWill, Annotated
    <3>2. CASE field = "note"
      <4>1. meant'[n] = [tags |-> meant[n].tags, note |-> will[n]]
        BY <1>6, <3>2
      <4> QED BY <1>2, <1>6, <2>2, <3>2, <4>1 DEF ByWill, Annotated
    <3> QED BY <3>1, <3>2
  <2> QED BY <1>2, <2>3 DEF Underway
<1>7. /\ edit[e] = Idle /\ edit' = [edit EXCEPT ![e] = r]
      /\ blurred \subseteq blurred' /\ blurred' \subseteq Names
      /\ \A d \in Editors : Touched(edit[d]) \cap Touched(r) # {}
                              => Touched(edit[d]) \cup Touched(r) \subseteq blurred'
      /\ IsBudget(budget')
      /\ UNCHANGED <<disk, recorded, watched, job, clock, history, rows, haunted, borrowed>>
  BY <1>3, <1>5, Asks
<1> QED BY <1>2, <1>3, <1>4, <1>6, <1>7 DEF Opened, Meaning

LEMMA OpensTagging ==
  ASSUME Shape, NEW e \in Editors, Free(e), NEW b \in BOOLEAN,
         NEW ns \in SUBSET Names, \A n \in ns : n \in OnDisk \/ HasRow(n),
         NEW will \in [ns -> SUBSET Tags], Ask(e, Annotating("tags", b, will)),
         meant' \in [Names -> Meaning],
         \A n \in Names : n \notin OnDisk \/ n \notin ns => meant'[n] = meant[n],
         \A n \in ns \cap OnDisk : Annotated(n) => meant'[n] = [tags |-> will[n], note |-> meant[n].note]
  PROVE  \E r : Opened(e, r)
<1>1. PICK field \in {"tags", "note"} : field = "tags"
  OBVIOUS
<1>2. will \in [ns -> IF field = "tags" THEN SUBSET Tags ELSE Texts] /\ Ask(e, Annotating(field, b, will))
  BY <1>1
<1>3. \A n \in ns \cap OnDisk : Annotated(n) =>
        IF field = "tags" THEN meant'[n] = [tags |-> will[n], note |-> meant[n].note]
        ELSE meant'[n] = [tags |-> meant[n].tags, note |-> will[n]]
  BY <1>1
<1> QED BY <1>2, <1>3, OpensAnnotating

LEMMA OpensNoting ==
  ASSUME Shape, NEW e \in Editors, Free(e), NEW b \in BOOLEAN,
         NEW ns \in SUBSET Names, \A n \in ns : n \in OnDisk \/ HasRow(n),
         NEW will \in [ns -> Texts], Ask(e, Annotating("note", b, will)),
         meant' \in [Names -> Meaning],
         \A n \in Names : n \notin OnDisk \/ n \notin ns => meant'[n] = meant[n],
         \A n \in ns \cap OnDisk : Annotated(n) => meant'[n] = [tags |-> meant[n].tags, note |-> will[n]]
  PROVE  \E r : Opened(e, r)
<1>1. PICK field \in {"tags", "note"} : field = "note"
  OBVIOUS
<1>2. will \in [ns -> IF field = "tags" THEN SUBSET Tags ELSE Texts] /\ Ask(e, Annotating(field, b, will))
  BY <1>1
<1>3. \A n \in ns \cap OnDisk : Annotated(n) =>
        IF field = "tags" THEN meant'[n] = [tags |-> will[n], note |-> meant[n].note]
        ELSE meant'[n] = [tags |-> meant[n].tags, note |-> will[n]]
  BY <1>1
<1> QED BY <1>2, <1>3, OpensAnnotating

\* A request that leaves what is meant as it is.
LEMMA OpensOther ==
  ASSUME Shape, NEW e \in Editors, Free(e), UNCHANGED meant, NEW r, EditOK(r),
         r.at \in {"idle", "move", "copy", "unlink"}, r.at \in {"move", "copy"} => r.to \notin OnDisk,
         Ask(e, r)
  PROVE  Opened(e, r)
<1>1. meant' \in [Names -> [tags : SUBSET Tags, note : Texts]]
  BY DEF Shape, ATypeOK, Texts
<1>2. UNCHANGED rows
  BY DEF Ask
<1>3. \A n : Annotated(n) => Annotated(n)'
  BY <1>2 DEF Annotated, TagsOf, NoteOf, rows
<1>4. r.at \notin {"check", "write", "found", "movetags", "movenote", "copytags", "copynote"}
  OBVIOUS
<1>5. \A n : Underway(r, n)' <=> Annotated(n)'
  BY <1>4 DEF Underway
<1> QED BY <1>1, <1>3, <1>4, <1>5, Asks DEF Opened

LEMMA OpensOne ==
  ASSUME Shape, NEW e \in Editors, Free(e), SetTags(e) \/ SetNote(e) \/ BulkClearNotes(e)
  PROVE  \E r : Opened(e, r)
<1>1. CASE SetTags(e)
  <2>1. PICK n \in Listed, ts \in SUBSET Tags :
          /\ Ask(e, Annotating("tags", TRUE, [m \in {n} |-> ts]))
          /\ meant' = [m \in Names |-> IF m \in {n} \cap OnDisk THEN [meant[m] EXCEPT !.tags = ts] ELSE meant[m]]
    BY <1>1 DEF SetTags, MeanTags
  <2>2. PICK F \in [Names -> SUBSET Tags] : F = [m \in Names |-> ts]
    BY <2>1
  <2>3. meant' = [m \in Names |-> IF m \in {n} \cap OnDisk THEN [meant[m] EXCEPT !.tags = F[m]] ELSE meant[m]]
    BY <2>1, <2>2
  <2>4. {n} \in SUBSET Names /\ \A m \in {n} : m \in OnDisk \/ HasRow(m)
    BY SelectedNames
  <2>5. /\ meant' \in [Names -> Meaning]
        /\ \A m \in Names : m \notin OnDisk \/ m \notin {n} => meant'[m] = meant[m]
        /\ \A m \in {n} \cap OnDisk : meant'[m] = [tags |-> F[m], note |-> meant[m].note]
    BY <2>3, <2>4, TagMeanings
  <2>6. PICK will \in [{n} -> SUBSET Tags] : will = [m \in {n} |-> ts]
    OBVIOUS
  <2>7. \A m \in {n} \cap OnDisk : will[m] = F[m]
    BY <2>2, <2>4, <2>6
  <2>8. Ask(e, Annotating("tags", TRUE, will))
    BY <2>1, <2>6
  <2>9. PICK b \in BOOLEAN, ns \in SUBSET Names : b = TRUE /\ ns = {n}
    BY <2>4
  <2>10. \A m \in ns \cap OnDisk : meant'[m] = [tags |-> will[m], note |-> meant[m].note]
    BY <2>5, <2>7, <2>9
  <2>11. Ask(e, Annotating("tags", b, will)) /\ will \in [ns -> SUBSET Tags]
    BY <2>6, <2>8, <2>9
  <2>12. /\ \A m \in ns : m \in OnDisk \/ HasRow(m)
         /\ \A m \in Names : m \notin OnDisk \/ m \notin ns => meant'[m] = meant[m]
    BY <2>4, <2>5, <2>9
  <2> QED BY <2>5, <2>10, <2>11, <2>12, OpensTagging
<1>2. ASSUME NEW ns \in SUBSET Listed, NEW t \in Texts, MeanNote(ns, t),
             Ask(e, Annotating("note", TRUE, [m \in ns |-> t]))
      PROVE  \E r : Opened(e, r)
  <2>1. ns \in SUBSET Names /\ \A m \in ns : m \in OnDisk \/ HasRow(m)
    BY SelectedNames
  <2>2. PICK will \in [ns -> Texts] : will = [m \in ns |-> t]
    OBVIOUS
  <2>3. Ask(e, Annotating("note", TRUE, will))
    BY <1>2, <2>2
  <2>4. \A m \in ns : will[m] = t
    BY <2>2
  <2>5. /\ meant' \in [Names -> Meaning]
        /\ \A m \in Names : m \notin OnDisk \/ m \notin ns => meant'[m] = meant[m]
        /\ \A m \in ns \cap OnDisk : meant'[m] = [tags |-> meant[m].tags, note |-> t]
    BY <1>2, <2>1, Meanings
  <2>6. \A m \in ns \cap OnDisk : meant'[m] = [tags |-> meant[m].tags, note |-> will[m]]
    BY <2>4, <2>5
  <2>7. PICK b \in BOOLEAN : b = TRUE
    OBVIOUS
  <2>8. Ask(e, Annotating("note", b, will))
    BY <2>3, <2>7
  <2> QED BY <2>1, <2>5, <2>6, <2>8, OpensNoting
<1>3. CASE SetNote(e)
  <2>1. PICK n \in Listed, t \in Texts :
          Ask(e, Annotating("note", TRUE, [m \in {n} |-> t])) /\ MeanNote({n}, t)
    BY <1>3 DEF SetNote, Texts
  <2>2. {n} \in SUBSET Listed
    OBVIOUS
  <2> QED BY <1>2, <2>1, <2>2
<1>4. CASE BulkClearNotes(e)
  <2>1. PICK ns \in Selections : Ask(e, Annotating("note", TRUE, [m \in ns |-> NoNote])) /\ MeanNote(ns, NoNote)
    BY <1>4 DEF BulkClearNotes
  <2>2. ns \in SUBSET Listed /\ NoNote \in Texts
    BY DEF Selections, Texts
  <2> QED BY <1>2, <2>1, <2>2
<1> QED BY <1>1, <1>3, <1>4

\* The rows become the tags there were, with some dropped and some added; so
\* does what is meant, where the rows show it.
LEMMA OpensRetagging ==
  ASSUME Shape, NEW e \in Editors, Free(e), NEW b \in BOOLEAN,
         NEW add \in SUBSET Tags, NEW drop \in SUBSET Tags,
         NEW ns \in SUBSET Names, \A n \in ns : n \in OnDisk \/ HasRow(n)
  PROVE  /\ Ask(e, Annotating("tags", b, [m \in ns |-> Retagged(m, add, drop)]))
         /\ meant' = [n \in Names |-> IF n \in ns \cap OnDisk
                                      THEN [meant[n] EXCEPT !.tags = (meant[n].tags \ drop) \cup add]
                                      ELSE meant[n]]
         => \E r : Opened(e, r)
<1>0. SUFFICES ASSUME Ask(e, Annotating("tags", b, [m \in ns |-> Retagged(m, add, drop)])),
                      meant' = [n \in Names |-> IF n \in ns \cap OnDisk
                                  THEN [meant[n] EXCEPT !.tags = (meant[n].tags \ drop) \cup add]
                                  ELSE meant[n]]
               PROVE  \E r : Opened(e, r)
  OBVIOUS
<1>1. \A n \in Names : TagsOf(n) \in SUBSET Tags /\ meant[n].tags \in SUBSET Tags
  BY RowsRead DEF Shape, ATypeOK
<1>2. PICK F \in [Names -> SUBSET Tags] : F = [n \in Names |-> (meant[n].tags \ drop) \cup add]
  BY <1>1
<1>3. PICK will \in [ns -> SUBSET Tags] : will = [m \in ns |-> Retagged(m, add, drop)]
  BY <1>1 DEF Retagged
<1>4. meant' = [n \in Names |-> IF n \in ns \cap OnDisk THEN [meant[n] EXCEPT !.tags = F[n]] ELSE meant[n]]
  BY <1>0, <1>2
<1>5. /\ meant' \in [Names -> Meaning]
      /\ \A n \in Names : n \notin OnDisk \/ n \notin ns => meant'[n] = meant[n]
      /\ \A n \in ns \cap OnDisk : meant'[n] = [tags |-> F[n], note |-> meant[n].note]
  BY <1>4, TagMeanings
<1>6. \A n \in ns \cap OnDisk : Annotated(n) => will[n] = F[n]
  BY <1>2, <1>3 DEF Annotated, Retagged
<1>7. Ask(e, Annotating("tags", b, will))
  BY <1>0, <1>3
<1>8. \A n \in ns \cap OnDisk : Annotated(n) => meant'[n] = [tags |-> will[n], note |-> meant[n].note]
  BY <1>5, <1>6
<1>9. /\ meant' \in [Names -> Meaning]
      /\ \A n \in Names : n \notin OnDisk \/ n \notin ns => meant'[n] = meant[n]
  BY <1>5
<1> QED BY <1>7, <1>8, <1>9, OpensTagging

LEMMA OpensMany ==
  ASSUME Shape, NEW e \in Editors, Free(e), BulkTag(e) \/ BulkUntag(e) \/ RenameTag(e)
  PROVE  \E r : Opened(e, r)
<1>0. \A ns \in Selections : ns \in SUBSET Names /\ \A n \in ns : n \in OnDisk \/ HasRow(n)
  BY SelectedNames DEF Selections
<1>1. CASE BulkTag(e)
  <2>1. PICK ns \in Selections, t \in Tags :
          /\ Ask(e, Annotating("tags", TRUE, [m \in ns |-> Retagged(m, {t}, {})]))
          /\ meant' = [n \in Names |-> IF n \in ns \cap OnDisk
                                       THEN [meant[n] EXCEPT !.tags = meant[n].tags \cup {t}] ELSE meant[n]]
    BY <1>1 DEF BulkTag, MeanTags
  <2>2. \A n : (meant[n].tags \ {}) \cup {t} = meant[n].tags \cup {t}
    OBVIOUS
  <2>3. meant' = [n \in Names |-> IF n \in ns \cap OnDisk
                                  THEN [meant[n] EXCEPT !.tags = (meant[n].tags \ {}) \cup {t}] ELSE meant[n]]
    BY <2>1, <2>2
  <2>4. PICK b \in BOOLEAN, add, drop \in SUBSET Tags : b = TRUE /\ add = {t} /\ drop = {}
    OBVIOUS
  <2>5. Ask(e, Annotating("tags", b, [m \in ns |-> Retagged(m, add, drop)]))
    BY <2>1, <2>4
  <2>6. meant' = [n \in Names |-> IF n \in ns \cap OnDisk
                                  THEN [meant[n] EXCEPT !.tags = (meant[n].tags \ drop) \cup add] ELSE meant[n]]
    BY <2>3, <2>4
  <2> QED BY <1>0, <2>5, <2>6, OpensRetagging
<1>2. CASE BulkUntag(e)
  <2>1. PICK ns \in Selections, t \in Tags :
          /\ Ask(e, Annotating("tags", TRUE, [m \in ns |-> Retagged(m, {}, {t})]))
          /\ meant' = [n \in Names |-> IF n \in ns \cap OnDisk
                                       THEN [meant[n] EXCEPT !.tags = meant[n].tags \ {t}] ELSE meant[n]]
    BY <1>2 DEF BulkUntag, MeanTags
  <2>2. \A n : (meant[n].tags \ {t}) \cup {} = meant[n].tags \ {t}
    OBVIOUS
  <2>3. meant' = [n \in Names |-> IF n \in ns \cap OnDisk
                                  THEN [meant[n] EXCEPT !.tags = (meant[n].tags \ {t}) \cup {}] ELSE meant[n]]
    BY <2>1, <2>2
  <2>4. PICK b \in BOOLEAN, add, drop \in SUBSET Tags : b = TRUE /\ add = {} /\ drop = {t}
    OBVIOUS
  <2>5. Ask(e, Annotating("tags", b, [m \in ns |-> Retagged(m, add, drop)]))
    BY <2>1, <2>4
  <2>6. meant' = [n \in Names |-> IF n \in ns \cap OnDisk
                                  THEN [meant[n] EXCEPT !.tags = (meant[n].tags \ drop) \cup add] ELSE meant[n]]
    BY <2>3, <2>4
  <2> QED BY <1>0, <2>5, <2>6, OpensRetagging
<1>3. CASE RenameTag(e)
  <2> DEFINE Rows(old) == {n \in Names : old \in TagsOf(n)}
  <2>1. PICK old, new \in Tags :
          /\ Ask(e, IF Rows(old) = {} THEN Idle
                    ELSE Annotating("tags", FALSE, [m \in Rows(old) |-> Retagged(m, {new}, {old})]))
          /\ meant' = [n \in Names |-> IF n \in Rows(old) \cap OnDisk
                         THEN [meant[n] EXCEPT !.tags = (meant[n].tags \ {old}) \cup {new}] ELSE meant[n]]
    BY <1>3 DEF RenameTag, MeanTags
  <2>2. CASE Rows(old) = {}
    <3>1. Ask(e, Idle)
      BY <2>1, <2>2
    <3>2. UNCHANGED meant
      <4>1. \A n \in Names : n \notin Rows(old)
        BY <2>2
      <4> HIDE DEF Rows
      <4>2. meant' = [n \in Names |-> meant[n]]
        BY <2>1, <4>1
      <4> QED BY <4>2 DEF Shape, ATypeOK
    <3>3. EditOK(Idle) /\ Idle.at = "idle"
      BY DEF EditOK, Idle
    <3> QED BY <3>1, <3>2, <3>3, OpensOther
  <2>3. CASE Rows(old) # {}
    <3>1. PICK ns \in SUBSET Names : ns = Rows(old)
      OBVIOUS
    <3>2. \A n \in ns : HasRow(n)
      BY <3>1, RowsRead DEF Shape
    <3>3. Ask(e, Annotating("tags", FALSE, [m \in ns |-> Retagged(m, {new}, {old})]))
      BY <2>1, <2>3, <3>1
    <3>4. meant' = [n \in Names |-> IF n \in ns \cap OnDisk
                      THEN [meant[n] EXCEPT !.tags = (meant[n].tags \ {old}) \cup {new}] ELSE meant[n]]
      BY <2>1, <3>1
    <3>5. {new} \in SUBSET Tags /\ {old} \in SUBSET Tags
      OBVIOUS
    <3> QED BY <3>2, <3>3, <3>4, <3>5, OpensRetagging
  <2> QED BY <2>2, <2>3
<1> QED BY <1>1, <1>2, <1>3

LEMMA OpensMoving ==
  ASSUME Shape, NEW e \in Editors, Free(e), Rename(e) \/ Duplicate(e) \/ BulkDelete(e) \/ Purge(e)
  PROVE  \E r : Opened(e, r)
<1>1. ASSUME NEW place \in {"move", "copy"}, NEW from \in OnDisk, NEW to \in Given,
             from # to, ~Taken(to), Ask(e, Moving(place, from, to)), UNCHANGED meant
      PROVE  \E r : Opened(e, r)
  <2>1. PICK r : r = Moving(place, from, to)
    OBVIOUS
  <2>2. r.at = place /\ r.from = from /\ r.to = to
    BY <2>1 DEF Moving
  <2>3. EditOK(r)
    BY <1>1, <2>1, <2>2 DEF EditOK, Renaming, Copying, OnDisk
  <2>4. Ask(e, r) /\ r.to \notin OnDisk
    BY <1>1, <2>1, <2>2 DEF Taken
  <2> QED BY <1>1, <2>2, <2>3, <2>4, OpensOther
<1>2. ASSUME NEW ns \in SUBSET Names, Ask(e, Removing(ns)), UNCHANGED meant
      PROVE  \E r : Opened(e, r)
  <2>1. PICK r : r = Removing(ns)
    OBVIOUS
  <2>2. r.at = "unlink" /\ r.todo = ns
    BY <2>1 DEF Removing
  <2>3. EditOK(r)
    BY <2>1, <2>2 DEF EditOK
  <2>4. Ask(e, r)
    BY <1>2, <2>1
  <2> QED BY <1>2, <2>2, <2>3, <2>4, OpensOther
<1>3. CASE Rename(e)
  BY <1>1, <1>3 DEF Rename
<1>4. CASE Duplicate(e)
  BY <1>1, <1>4 DEF Duplicate
<1>5. CASE BulkDelete(e)
  <2>1. PICK ns \in Selections : Ask(e, Removing(ns)) /\ UNCHANGED meant
    BY <1>5 DEF BulkDelete
  <2>2. ns \in SUBSET Names
    BY SelectedNames DEF Selections
  <2> QED BY <1>2, <2>1, <2>2
<1>6. CASE Purge(e)
  <2>1. PICK before \in 0..clock + 1 :
          Ask(e, Removing({n \in OnDisk : disk[n].time < before})) /\ UNCHANGED meant
    BY <1>6 DEF Purge
  <2>2. {n \in OnDisk : disk[n].time < before} \in SUBSET Names
    BY DEF OnDisk
  <2> QED BY <1>2, <2>1, <2>2
<1> QED BY <1>3, <1>4, <1>5, <1>6

LEMMA Opens ==
  ASSUME Shape, NEW e \in Editors, Edit(e)
  PROVE  \E r : Opened(e, r)
BY OpensOne, OpensMany, OpensMoving DEF Edit

-----------------------------------------------------------------------------
(* The steps of a request.                                                 *)

LEMMA NextFiles ==
  ASSUME Shape, NEW e \in Editors, edit[e].at \in {"check", "write", "found"},
         NEW n \in DOMAIN edit[e].will, NextFile(e, n)
  PROVE  \E r : /\ edit' = [edit EXCEPT ![e] = r] /\ EditOK(r)
                /\ r.at \in {"idle", "check", "write"}
                /\ Touched(r) = Touched(edit[e]) \ {n}
                /\ r.at # "idle" => /\ r.field = edit[e].field /\ DOMAIN r.will = DOMAIN edit[e].will \ {n}
                                    /\ \A m \in DOMAIN r.will : r.will[m] = edit[e].will[m]
<1>1. PICK j : j = edit[e]
  OBVIOUS
<1>2. EditOK(j) /\ j.at \in {"check", "write", "found"} /\ n \in DOMAIN j.will
  BY <1>1 DEF Shape
<1>3. WillOK(j) /\ Touched(j) = DOMAIN j.will
  BY <1>2, EditShape
<1>4. j.checked \in BOOLEAN
  <2>1. CASE j.at = "found"
    <3>1. PICK f, w, n1 : j = [at |-> "found", field |-> f, checked |-> TRUE, will |-> w, cur |-> n1]
      BY <1>2, <2>1 DEF EditOK, Renaming, Copying, Idle
    <3>2. [at |-> "found", field |-> f, checked |-> TRUE, will |-> w, cur |-> n1].checked = TRUE
      OBVIOUS
    <3> QED BY <3>1, <3>2
  <2>2. CASE j.at # "found"
    <3>1. PICK b \in BOOLEAN : b = (j.at = "check")
      OBVIOUS
    <3>2. PICK f, w : j = Annotating(f, b, w)
      BY <1>2, <2>2, <3>1 DEF EditOK, Renaming, Copying, Idle
    <3>3. Annotating(f, b, w).checked = b
      BY DEF Annotating
    <3> QED BY <3>2, <3>3, Zenon
  <2> QED BY <2>1, <2>2
<1>5. CASE DOMAIN j.will = {n}
  <2>1. edit' = [edit EXCEPT ![e] = Idle]
    BY <1>1, <1>5 DEF NextFile, Answered
  <2>2. EditOK(Idle) /\ Idle.at = "idle"
    BY DEF EditOK, Idle
  <2>3. Touched(Idle) = {}
    BY <2>2, EditShape
  <2> QED BY <1>1, <1>3, <1>5, <2>1, <2>2, <2>3
<1>6. CASE DOMAIN j.will # {n}
  <2>1. PICK will : will = Without(j.will, n)
    OBVIOUS
  <2>2. DOMAIN will = DOMAIN j.will \ {n} /\ \A m \in DOMAIN will : will[m] = j.will[m]
    BY <2>1 DEF Without
  <2>3. will \in [DOMAIN will -> IF j.field = "tags" THEN SUBSET Tags ELSE Texts]
    <3>1. \A m \in DOMAIN will : will[m] \in IF j.field = "tags" THEN SUBSET Tags ELSE Texts
      BY <1>3, <2>2 DEF WillOK
    <3>2. will = [m \in DOMAIN will |-> will[m]]
      BY <2>1 DEF Without
    <3> QED BY <3>1, <3>2
  <2>4. PICK r : r = Annotating(j.field, j.checked, will)
    OBVIOUS
  <2>5. /\ r.at = (IF j.checked THEN "check" ELSE "write") /\ r.field = j.field
        /\ r.checked = j.checked /\ r.will = will
    BY <2>4 DEF Annotating
  <2>6. WillOK(r)
    BY <1>3, <2>2, <2>3, <2>5 DEF WillOK
  <2>7. r = Annotating(r.field, r.at = "check", r.will)
    BY <1>4, <2>4, <2>5, Zenon DEF Annotating
  <2>8. EditOK(r)
    BY <1>4, <2>5, <2>6, <2>7 DEF EditOK
  <2>9. Touched(r) = DOMAIN r.will
    BY <1>4, <2>5, <2>8, EditShape
  <2>10. edit' = [edit EXCEPT ![e] = r]
    BY <1>1, <1>6, <2>1, <2>4 DEF NextFile
  <2> QED BY <1>1, <1>3, <1>4, <2>2, <2>5, <2>8, <2>9, <2>10
<1> QED BY <1>5, <1>6

LEMMA GoesOn ==
  ASSUME Shape, NEW e \in Editors, edit[e].at \in Renaming \cup Copying, NEW place \in Renaming \cup Copying,
         GoOn(e, place)
  PROVE  \E r : /\ edit' = [edit EXCEPT ![e] = r] /\ EditOK(r)
                /\ r.at = place /\ r.from = edit[e].from /\ r.to = edit[e].to
                /\ Touched(r) = Touched(edit[e])
<1>1. PICK from, to, here : edit[e] = Moving(here, from, to)
  BY EditShape DEF Shape
<1>2. PICK r : r = [edit[e] EXCEPT !.at = place]
  OBVIOUS
<1>3. r = Moving(place, from, to)
  BY <1>1, <1>2 DEF Moving
<1>4. /\ r.at = place /\ r.from = from /\ r.to = to
      /\ edit[e].from = from /\ edit[e].to = to
  BY <1>1, <1>3 DEF Moving
<1>5. from \in Names /\ to \in Given /\ from # to /\ Touched(edit[e]) = {from, to}
  BY <1>4, EditShape DEF Shape
<1>6. EditOK(r)
  BY <1>3, <1>4, <1>5 DEF EditOK
<1>7. Touched(r) = {from, to}
  BY <1>4, <1>6, EditShape
<1>8. edit' = [edit EXCEPT ![e] = r]
  BY <1>2 DEF GoOn
<1> QED BY <1>4, <1>5, <1>6, <1>7, <1>8

LEMMA Answers ==
  ASSUME NEW e \in Editors, Answered(e)
  PROVE  edit' = [edit EXCEPT ![e] = Idle] /\ EditOK(Idle) /\ Idle.at = "idle" /\ Touched(Idle) = {}
<1>1. EditOK(Idle) /\ Idle.at = "idle"
  BY DEF EditOK, Idle
<1> QED BY <1>1, EditShape DEF Answered

\* A step of a request after its first.
Advanced(e, r) ==
  /\ edit' = [edit EXCEPT ![e] = r] /\ EditOK(r)
  /\ Touched(r) \subseteq Touched(edit[e]) /\ r.at \notin {"move", "copy"}
  /\ blurred \subseteq blurred' /\ borrowed \subseteq borrowed'
  /\ UNCHANGED <<recorded, watched, job, clock, budget, history>>
  /\ disk' \in [Names -> Entry \cup {NoFile}]
  /\ \A n \in Names : \/ disk'[n] \in {disk[n], NoFile}
                      \/ /\ edit[e].at \in {"move", "copy"} /\ n = edit[e].to
                         /\ n \in Stamped => n \in borrowed'
  /\ ATypeOK'

LEMMA AdvancesRows ==
  ASSUME Shape, NEW e \in Editors, NEW r, edit' = [edit EXCEPT ![e] = r], EditOK(r),
         Touched(r) \subseteq Touched(edit[e]), r.at \notin {"move", "copy"},
         UNCHANGED <<ivars, meant, blurred, haunted, borrowed>>,
         tags' \in [Names -> TagRows \cup {NoRow}], notes' \in [Names -> NoteRows \cup {NoRow}]
  PROVE  Advanced(e, r)
<1>1. ATypeOK'
  BY DEF Shape, ATypeOK
<1>2. disk \in [Names -> Entry \cup {NoFile}] /\ UNCHANGED disk
  BY DEF Shape, IngestShape, ivars
<1> QED BY <1>1, <1>2 DEF Advanced, ivars, watched, history

LEMMA Writes ==
  ASSUME Shape, NEW e \in Editors, edit[e].at \in {"write", "found"}, NEW n \in DOMAIN edit[e].will, WriteRow(e, n)
  PROVE  /\ n \in Names
         /\ tags' \in [Names -> TagRows \cup {NoRow}] /\ notes' \in [Names -> NoteRows \cup {NoRow}]
         /\ edit[e].field = "tags" =>
              /\ tags' = [tags EXCEPT ![n] = Row(edit[e].will[n])] /\ UNCHANGED notes
         /\ edit[e].field # "tags" =>
              /\ notes' = [notes EXCEPT ![n] = Row(edit[e].will[n])] /\ UNCHANGED tags
<1>1. WillOK(edit[e])
  BY EditShape DEF Shape
<1>2. n \in Names /\ edit[e].will[n] \in IF edit[e].field = "tags" THEN SUBSET Tags ELSE Texts
  BY <1>1 DEF WillOK
<1>3. tags \in [Names -> TagRows \cup {NoRow}] /\ notes \in [Names -> NoteRows \cup {NoRow}]
  BY DEF Shape, ATypeOK
<1>4. CASE edit[e].field = "tags"
  <2>1. Row(edit[e].will[n]) \in TagRows
    BY <1>2, <1>4 DEF TagRows
  <2> QED BY <1>2, <1>3, <1>4, <2>1 DEF WriteRow
<1>5. CASE edit[e].field # "tags"
  <2>1. Row(edit[e].will[n]) \in NoteRows
    BY <1>2, <1>5 DEF NoteRows, Texts
  <2> QED BY <1>2, <1>3, <1>5, <2>1 DEF WriteRow
<1> QED BY <1>4, <1>5

LEMMA AdvancesAnnotating ==
  ASSUME Shape, NEW e \in Editors, Check(e) \/ WriteFound(e) \/ WriteUnchecked(e)
  PROVE  \E r : Advanced(e, r)
<1>0. EditOK(edit[e]) /\ tags \in [Names -> TagRows \cup {NoRow}] /\ notes \in [Names -> NoteRows \cup {NoRow}]
  BY DEF Shape, ATypeOK
<1>1. CASE Check(e)
  <2>0. PICK n \in DOMAIN edit[e].will :
         IF n \in OnDisk
         THEN edit' = [edit EXCEPT ![e] = [at |-> "found", field |-> edit[e].field,
                                           checked |-> TRUE, will |-> edit[e].will, cur |-> n]]
         ELSE NextFile(e, n)
    BY <1>1 DEF Check
  <2>1. UNCHANGED <<ivars, meant, blurred, haunted, borrowed>> /\ UNCHANGED <<tags, notes>> /\ edit[e].at = "check"
    BY <1>1 DEF Check, rows
  <2>2. CASE n \in OnDisk
    <3>1. PICK r : r = [at |-> "found", field |-> edit[e].field, checked |-> TRUE, will |-> edit[e].will, cur |-> n]
      OBVIOUS
    <3>2. r.at = "found" /\ r.field = edit[e].field /\ r.will = edit[e].will /\ r.cur = n
      BY <3>1
    <3>3. WillOK(r)
      BY <1>0, <2>1, <3>2, EditShape DEF WillOK
    <3>4. EditOK(r)
      BY <3>1, <3>2, <3>3 DEF EditOK
    <3>5. Touched(r) = Touched(edit[e])
      BY <1>0, <2>1, <3>2, <3>4, EditShape
    <3>6. edit' = [edit EXCEPT ![e] = r]
      BY <2>0, <2>2, <3>1
    <3> QED BY <1>0, <2>1, <3>2, <3>4, <3>5, <3>6, AdvancesRows
  <2>3. CASE n \notin OnDisk
    <3>1. PICK r : /\ edit' = [edit EXCEPT ![e] = r] /\ EditOK(r) /\ r.at \in {"idle", "check", "write"}
                   /\ Touched(r) = Touched(edit[e]) \ {n}
      BY <2>0, <2>1, <2>3, NextFiles
    <3> QED BY <1>0, <2>1, <3>1, AdvancesRows
  <2> QED BY <2>2, <2>3
<1>2. ASSUME edit[e].at \in {"write", "found"}, NEW n \in DOMAIN edit[e].will, WriteRow(e, n)
      PROVE  \E r : Advanced(e, r)
  <2>1. NextFile(e, n) /\ UNCHANGED <<ivars, meant, blurred, haunted, borrowed>>
    BY <1>2 DEF WriteRow
  <2>2. PICK r : /\ edit' = [edit EXCEPT ![e] = r] /\ EditOK(r) /\ r.at \in {"idle", "check", "write"}
                 /\ Touched(r) = Touched(edit[e]) \ {n}
    BY <1>2, <2>1, NextFiles
  <2>3. tags' \in [Names -> TagRows \cup {NoRow}] /\ notes' \in [Names -> NoteRows \cup {NoRow}]
    BY <1>2, Writes
  <2> QED BY <2>1, <2>2, <2>3, AdvancesRows
<1>3. CASE WriteFound(e)
  BY <1>0, <1>2, <1>3, EditShape DEF WriteFound
<1>4. CASE WriteUnchecked(e)
  BY <1>2, <1>4 DEF WriteUnchecked
<1> QED BY <1>1, <1>3, <1>4

LEMMA AdvancesRekeying ==
  ASSUME Shape, NEW e \in Editors, MoveTags(e) \/ MoveNote(e) \/ CopyTags(e) \/ CopyNote(e)
  PROVE  \E r : Advanced(e, r)
<1>0. /\ tags \in [Names -> TagRows \cup {NoRow}] /\ notes \in [Names -> NoteRows \cup {NoRow}]
      /\ edit[e].at \in Renaming \cup Copying
      /\ edit[e].from \in Names /\ edit[e].to \in Names
  <2>1. edit[e].at \in Renaming \cup Copying
    BY DEF MoveTags, MoveNote, CopyTags, CopyNote, Renaming, Copying
  <2> QED BY <2>1, EditShape DEF Shape, ATypeOK
<1>1. UNCHANGED <<ivars, meant, blurred, haunted, borrowed>>
  BY DEF MoveTags, MoveNote, CopyTags, CopyNote
<1>2. tags' \in [Names -> TagRows \cup {NoRow}] /\ notes' \in [Names -> NoteRows \cup {NoRow}]
  <2>1. CASE MoveTags(e)
    <3>1. \A from, to \in Names : Rekeyed(tags, from, to) \in [Names -> TagRows \cup {NoRow}]
      BY <1>0 DEF Rekeyed
    <3>2. tags' \in {tags, Rekeyed(tags, edit[e].from, edit[e].to)} /\ UNCHANGED notes
      BY <2>1 DEF MoveTags
    <3> QED BY <1>0, <3>1, <3>2
  <2>2. CASE MoveNote(e)
    <3>1. \A from, to \in Names : Rekeyed(notes, from, to) \in [Names -> NoteRows \cup {NoRow}]
      BY <1>0 DEF Rekeyed
    <3>2. notes' \in {notes, Rekeyed(notes, edit[e].from, edit[e].to)} /\ UNCHANGED tags
      BY <2>2 DEF MoveNote, MovedNote
    <3> QED BY <1>0, <3>1, <3>2
  <2>3. CASE CopyTags(e)
    <3>1. \A from, to \in Names : [tags EXCEPT ![to] = tags[from]] \in [Names -> TagRows \cup {NoRow}]
      BY <1>0
    <3>2. tags' \in {tags, [tags EXCEPT ![edit[e].to] = tags[edit[e].from]]} /\ UNCHANGED notes
      BY <2>3 DEF CopyTags
    <3> QED BY <1>0, <3>1, <3>2
  <2>4. CASE CopyNote(e)
    <3>1. \A from, to \in Names : [notes EXCEPT ![to] = notes[from]] \in [Names -> NoteRows \cup {NoRow}]
      BY <1>0
    <3>2. notes' \in {notes, [notes EXCEPT ![edit[e].to] = notes[edit[e].from]]} /\ UNCHANGED tags
      BY <2>4 DEF CopyNote
    <3> QED BY <1>0, <3>1, <3>2
  <2> QED BY <2>1, <2>2, <2>3, <2>4
<1>3. Answered(e) \/ GoOn(e, "movenote") \/ GoOn(e, "copynote")
  BY DEF MoveTags, MoveNote, CopyTags, CopyNote
<1>4. \E r : /\ edit' = [edit EXCEPT ![e] = r] /\ EditOK(r)
             /\ Touched(r) \subseteq Touched(edit[e]) /\ r.at \notin {"move", "copy"}
  <2>1. CASE Answered(e)
    BY <2>1, Answers
  <2>2. CASE GoOn(e, "movenote")
    BY <1>0, <2>2, GoesOn DEF Renaming
  <2>3. CASE GoOn(e, "copynote")
    BY <1>0, <2>3, GoesOn DEF Copying
  <2> QED BY <1>3, <2>1, <2>2, <2>3
<1> QED BY <1>1, <1>2, <1>4, AdvancesRows

LEMMA AdvancesFiles ==
  ASSUME Shape, NEW e \in Editors, Move(e) \/ Copy(e) \/ Unlink(e)
  PROVE  \E r : Advanced(e, r)
<1> DEFINE from == edit[e].from
           to == edit[e].to
<1>0. /\ disk \in [Names -> Entry \cup {NoFile}] /\ ATypeOK /\ EditOK(edit[e])
      /\ meant \in [Names -> Meaning] /\ Bare \in Meaning
      /\ UNCHANGED <<recorded, watched, job, clock, budget, history, rows>>
  BY DEF Shape, IngestShape, ATypeOK, Move, Copy, Unlink, Bare, Meaning, Texts
<1>1. ASSUME Move(e) \/ Copy(e)
      PROVE  \E r : Advanced(e, r)
  <2>1. edit[e].at \in {"move", "copy"} /\ edit[e].at \in Renaming \cup Copying
    BY <1>1 DEF Move, Copy, Renaming, Copying
  <2>2. from \in Names /\ to \in Names /\ from # to
    BY <1>0, <2>1, EditShape
  <2>3. CASE from \in OnDisk
    <3>1. TakesOver(from, to) /\ (GoOn(e, "movetags") \/ GoOn(e, "copytags"))
      BY <1>1, <2>3 DEF Move, Copy
    <3>2. /\ blurred \subseteq blurred' /\ blurred' \subseteq Names /\ haunted' \subseteq Names
          /\ borrowed \subseteq borrowed' /\ borrowed' \subseteq Stamped /\ (to \in Stamped => to \in borrowed')
      BY <1>0, <2>2, <3>1 DEF TakesOver, Along, ATypeOK
    <3>3. /\ disk' \in [Names -> Entry \cup {NoFile}]
          /\ \A n \in Names : n = to \/ disk'[n] \in {disk[n], NoFile}
          /\ meant' \in [Names -> Meaning]
      <4>1. CASE Move(e)
        BY <1>0, <2>2, <2>3, <4>1 DEF Move
      <4>2. CASE Copy(e)
        BY <1>0, <2>2, <2>3, <4>2 DEF Copy
      <4> QED BY <1>1, <4>1, <4>2
    <3>4. \E r : /\ edit' = [edit EXCEPT ![e] = r] /\ EditOK(r)
                 /\ Touched(r) \subseteq Touched(edit[e]) /\ r.at \notin {"move", "copy"}
      BY <2>1, <3>1, GoesOn DEF Renaming, Copying
    <3>5. ATypeOK'
      BY <1>0, <3>2, <3>3 DEF ATypeOK, Meaning, Texts, rows
    <3> QED BY <1>0, <2>1, <3>2, <3>3, <3>4, <3>5 DEF Advanced
  <2>4. CASE from \notin OnDisk
    <3>1. Answered(e) /\ UNCHANGED <<disk, meant, haunted, blurred, borrowed>>
      BY <1>1, <2>4 DEF Move, Copy
    <3>2. ATypeOK'
      BY <1>0, <3>1 DEF ATypeOK, rows
    <3> QED BY <1>0, <3>1, <3>2, Answers DEF Advanced
  <2> QED BY <2>3, <2>4
<1>2. CASE Unlink(e)
  <2>1. PICK n \in edit[e].todo :
          /\ disk' = [disk EXCEPT ![n] = NoFile]
          /\ meant' = [meant EXCEPT ![n] = Bare]
          /\ IF edit[e].todo = {n} THEN Answered(e)
             ELSE edit' = [edit EXCEPT ![e] = Removing(edit[e].todo \ {n})]
    BY <1>2 DEF Unlink
  <2>2. n \in Names /\ edit[e].at = "unlink" /\ edit[e].todo \subseteq Names /\ Touched(edit[e]) = edit[e].todo
    BY <1>0, <1>2, EditShape DEF Unlink
  <2>3. UNCHANGED <<blurred, haunted, borrowed>>
    BY <1>2 DEF Unlink
  <2>4. /\ disk' \in [Names -> Entry \cup {NoFile}] /\ \A m \in Names : disk'[m] \in {disk[m], NoFile}
        /\ meant' \in [Names -> Meaning]
    BY <1>0, <2>1, <2>2
  <2>5. ATypeOK'
    BY <1>0, <2>3, <2>4 DEF ATypeOK, Meaning, Texts, rows
  <2>6. CASE edit[e].todo = {n}
    <3>1. Answered(e)
      BY <2>1, <2>6
    <3> QED BY <1>0, <2>3, <2>4, <2>5, <3>1, Answers DEF Advanced
  <2>7. CASE edit[e].todo # {n}
    <3>1. PICK r : r = Removing(edit[e].todo \ {n})
      OBVIOUS
    <3>2. r.at = "unlink" /\ r.todo = edit[e].todo \ {n}
      BY <3>1 DEF Removing
    <3>3. EditOK(r)
      BY <2>2, <3>1, <3>2 DEF EditOK
    <3>4. Touched(r) = r.todo
      BY <3>2, <3>3, EditShape
    <3>5. edit' = [edit EXCEPT ![e] = r]
      BY <2>1, <2>7, <3>1
    <3> QED BY <1>0, <2>2, <2>3, <2>4, <2>5, <3>2, <3>3, <3>4, <3>5 DEF Advanced
  <2> QED BY <2>6, <2>7
<1> QED BY <1>1, <1>2

LEMMA Advances ==
  ASSUME Shape, NEW e \in Editors, Finish(e)
  PROVE  \E r : Advanced(e, r)
BY AdvancesAnnotating, AdvancesRekeying, AdvancesFiles DEF Finish

-----------------------------------------------------------------------------
(* The shape is kept.                                                      *)

LEMMA ShapeAtFirst == Init => Shape
<1> SUFFICES ASSUME Init PROVE Shape
  OBVIOUS
<1>1. IsBudget(budget)
  BY BoundsAssumption DEF Init, IngestInit
<1>2. disk \in [Names -> Entry \cup {NoFile}]
  <2>1. \A n \in DOMAIN budget.shelf : Holding(budget.shelf[n]) \in Body
    BY <1>1 DEF IsBudget, IsShelf, Body
  <2>2. 0 \in 0..MaxClock
    BY BoundsAssumption
  <2>3. \A n \in DOMAIN budget.shelf : Stored(Holding(budget.shelf[n]), 0) \in Entry
    BY <2>1, <2>2, Files
  <2> QED BY <2>3 DEF Init, IngestInit
<1>3. Idle \in Jobs /\ JobOK(Idle) /\ Idle \notin ReadJob
  BY DEF Jobs, JobOK, Idle, ReadJob
<1>4. IngestShape
  <2>1. clock \in 0..MaxClock
    BY BoundsAssumption DEF Init, IngestInit
  <2> QED BY <1>1, <1>2, <1>3, <2>1 DEF Init, IngestInit, IngestShape, Threads
<1>5. ATypeOK
  BY DEF Init, ATypeOK, Bare
<1>6. edit = [e \in Editors |-> edit[e]] /\ \A e \in Editors : EditOK(edit[e])
  BY DEF Init, EditOK
<1> QED BY <1>4, <1>5, <1>6 DEF Shape

LEMMA ShapeWhileEditing ==
  ASSUME Shape, NEW e \in Editors, Edit(e) \/ Finish(e)
  PROVE  Shape'
<1>0. edit = [d \in Editors |-> edit[d]] /\ \A d \in Editors : EditOK(edit[d])
  BY DEF Shape
<1>1. CASE Edit(e)
  <2>1. PICK r : Opened(e, r)
    BY <1>1, Opens
  <2>2. edit' = [d \in Editors |-> edit'[d]] /\ \A d \in Editors : EditOK(edit'[d])
    BY <1>0, <2>1, EditChange DEF Opened
  <2>3. IngestShape'
    BY <2>1 DEF Opened, Shape, IngestShape, watched, history
  <2>4. ATypeOK'
    BY <2>1 DEF Opened, Shape, ATypeOK, rows, Texts
  <2> QED BY <2>2, <2>3, <2>4 DEF Shape
<1>2. CASE Finish(e)
  <2>1. PICK r : Advanced(e, r)
    BY <1>2, Advances
  <2>2. edit' = [d \in Editors |-> edit'[d]] /\ \A d \in Editors : EditOK(edit'[d])
    BY <1>0, <2>1, EditChange DEF Advanced
  <2>3. IngestShape'
    BY <2>1 DEF Advanced, Shape, IngestShape, watched, history
  <2> QED BY <2>1, <2>2, <2>3 DEF Shape, Advanced
<1> QED BY <1>1, <1>2

LEMMA ShapeWhileIngesting ==
  ASSUME Shape, Ingestion, ComeUnderRows, MeetRequests, UNCHANGED <<rows, edit, meant, borrowed>>
  PROVE  Shape'
<1>1. IngestShape'
  BY TypesOfIngestion DEF Shape
<1>2. InFlight \subseteq Names
  BY EditShape DEF Shape, InFlight
<1>3. ATypeOK'
  BY <1>2 DEF Shape, ATypeOK, ComeUnderRows, MeetRequests, rows
<1> QED BY <1>1, <1>3 DEF Shape

LEMMA ShapeAfterDeath ==
  ASSUME Shape, Die
  PROVE  Shape'
<1>1. IngestShape'
  BY TypesOfRestart DEF Shape, Die
<1>2. InFlight \subseteq Names
  BY EditShape DEF Shape, InFlight
<1>3. Bare \in Meaning
  BY DEF Bare, Meaning, Texts
<1>4. meant' \in [Names -> Meaning]
  BY <1>3 DEF Die, Shape, ATypeOK, Meaning, Texts
<1>5. blurred' \subseteq Names /\ haunted' \subseteq Names /\ borrowed' \subseteq Stamped
  BY <1>2 DEF Die, ComeUnderRows, Shape, ATypeOK
<1>6. ATypeOK'
  BY <1>4, <1>5 DEF Die, Shape, ATypeOK, Meaning, Texts, rows
<1>7. edit' = [e \in Editors |-> edit'[e]] /\ \A e \in Editors : EditOK(edit'[e])
  BY DEF Die, EditOK
<1> QED BY <1>1, <1>6, <1>7 DEF Shape

LEMMA ShapeUntouched == Shape /\ UNCHANGED vars => Shape'
BY DEF Shape, IngestShape, ATypeOK, vars, ivars, evars, rows, watched, history

LEMMA ShapeStays ==
  ASSUME Shape, [Next]_vars
  PROVE  Shape'
BY ShapeWhileEditing, ShapeWhileIngesting, ShapeAfterDeath, ShapeUntouched DEF Next

-----------------------------------------------------------------------------
(* How a file comes through ingestion.                                     *)

LEMMA JobSteps ==
  ASSUME IngestShape, NEW p \in Threads, Ingest(p)
  PROVE  /\ job[p] \in DocJob /\ job'[p] \in Jobs
         /\ \A q \in Threads \ {p} : job'[q] = job[q]
         /\ \/ /\ job' = [job EXCEPT ![p] = Rest(p)] /\ job'[p] = Rest(p) /\ job'[p].at \in {"idle", "look"}
               /\ \/ Look(p) /\ (Known(p) \/ ~Readable(Current(p).data))
                  \/ Record(p) \/ WriteFails(p)
            \/ /\ job'[p] \in DocJob /\ job'[p].todo = job[p].todo
               /\ \/ Look(p) /\ job'[p].at = "save" /\ ~Known(p) /\ Readable(Current(p).data)
                  \/ /\ Save(p) /\ job'[p].at = AfterSave(Current(p))
                     /\ job'[p].into = StampedName(Current(p))
                  \/ Convert(p) /\ job'[p].at = "record" /\ job'[p].into = job[p].into
<1>1. job[p].at \in {"look", "save", "convert", "record"}
  BY DEF Ingest, Look, Save, Convert, Record, WriteFails
<1>2. job[p] \in DocJob /\ job \in [Threads -> Jobs] /\ job' \in [Threads -> Jobs]
  BY <1>1, InHand, TypesOfIngesting DEF IngestShape
<1>3. ASSUME job' = [job EXCEPT ![p] = Rest(p)]
      PROVE  /\ \A q \in Threads \ {p} : job'[q] = job[q]
             /\ job'[p] = Rest(p) /\ job'[p].at \in {"idle", "look"}
  BY <1>2, <1>3, RestShape
<1>4. ASSUME NEW k, job' = [job EXCEPT ![p] = k]
      PROVE  job'[p] = k /\ \A q \in Threads \ {p} : job'[q] = job[q]
  BY <1>2, <1>4
<1>5. CASE /\ job' = [job EXCEPT ![p] = Rest(p)]
           /\ \/ Look(p) /\ (Known(p) \/ ~Readable(Current(p).data))
              \/ Record(p) \/ WriteFails(p)
  BY <1>2, <1>3, <1>5
<1>6. CASE Look(p) /\ ~(Known(p) \/ ~Readable(Current(p).data))
  <2>1. PICK k : k = [job[p] EXCEPT !.at = "save"]
    OBVIOUS
  <2>2. k = [at |-> "save", todo |-> job[p].todo, into |-> job[p].into]
    BY <1>2, <2>1, JobGoesOn
  <2>3. job' = [job EXCEPT ![p] = k]
    BY <1>6, <2>1 DEF Look
  <2>4. k.at = "save" /\ k.todo = job[p].todo /\ k \in DocJob
    BY <1>2, <2>2, JobShape DEF DocJob
  <2> QED BY <1>2, <1>4, <1>6, <2>3, <2>4
<1>7. CASE Save(p)
  <2>1. PICK k : k = [job[p] EXCEPT !.at = AfterSave(Current(p)), !.into = StampedName(Current(p))]
    OBVIOUS
  <2>2. k = [at |-> AfterSave(Current(p)), todo |-> job[p].todo, into |-> StampedName(Current(p))]
    BY <1>2, <2>1, JobGoesOn
  <2>3. job' = [job EXCEPT ![p] = k]
    BY <1>7, <2>1 DEF Save
  <2>4. AfterSave(Current(p)) \in {"convert", "record"} /\ StampedName(Current(p)) \in Stamped
    BY <1>1, InHand DEF AfterSave
  <2>5. /\ k.at = AfterSave(Current(p)) /\ k.todo = job[p].todo /\ k.into = StampedName(Current(p))
        /\ k \in DocJob
    BY <1>2, <2>2, <2>4, JobShape DEF DocJob
  <2> QED BY <1>2, <1>4, <1>7, <2>3, <2>5
<1>8. CASE Convert(p)
  <2>1. PICK k : k = [job[p] EXCEPT !.at = "record"]
    OBVIOUS
  <2>2. k = [at |-> "record", todo |-> job[p].todo, into |-> job[p].into]
    BY <1>2, <2>1, JobGoesOn
  <2>3. job' = [job EXCEPT ![p] = k]
    BY <1>8, <2>1 DEF Convert
  <2>4. k.at = "record" /\ k.todo = job[p].todo /\ k.into = job[p].into /\ k \in DocJob
    BY <1>2, <2>2, JobShape DEF DocJob
  <2> QED BY <1>2, <1>4, <1>8, <2>3, <2>4
<1>9. /\ Record(p) => job' = [job EXCEPT ![p] = Rest(p)]
      /\ WriteFails(p) => job' = [job EXCEPT ![p] = Rest(p)]
      /\ Look(p) /\ (Known(p) \/ ~Readable(Current(p).data)) => job' = [job EXCEPT ![p] = Rest(p)]
  BY DEF Record, WriteFails, Look
<1> QED BY <1>5, <1>6, <1>7, <1>8, <1>9 DEF Ingest

\* Steps of ingestion that write no file and no record.
Quiet ==
  \/ \E c \in Clients : Upload(c) \/ ImportZip(c)
  \/ Watching \/ Tick

LEMMA QuietSteps ==
  ASSUME IngestShape, Quiet
  PROVE  /\ UNCHANGED <<disk, recorded, history>>
         /\ \A q \in Threads : \/ job'[q] = job[q]
                               \/ job'[q].at \in {"idle", "read", "look"} /\ job[q].at \in {"idle", "read"}
<1>0. job \in [Threads -> Jobs] /\ Watcher \in Threads /\ \A c \in Clients : c \in Threads
  BY DEF IngestShape, Threads
<1>1. Idle.at = "idle" /\ \A files : Ingesting(files).at = "look"
  BY DEF Idle, Ingesting
<1>2. ASSUME NEW c \in Clients, Upload(c) \/ ImportZip(c)
      PROVE  /\ UNCHANGED <<disk, recorded, history>>
             /\ \A q \in Threads : \/ job'[q] = job[q]
                                   \/ job'[q].at \in {"idle", "read", "look"} /\ job[q].at \in {"idle", "read"}
  <2>1. PICK files : Begin(c, files)
    BY <1>2 DEF Upload, ImportZip
  <2>2. job[c] = Idle
    BY <1>2 DEF Upload, ImportZip
  <2> QED BY <1>0, <1>1, <2>1, <2>2 DEF Begin
<1>3. ASSUME NEW w \in DropNames, Drop(w) \/ FinishCopy(w) \/ TakeAway(w) \/ TakeUp(w)
      PROVE  /\ UNCHANGED <<disk, recorded, history>>
             /\ \A q \in Threads : \/ job'[q] = job[q]
                                   \/ job'[q].at \in {"idle", "read", "look"} /\ job[q].at \in {"idle", "read"}
  <2>1. CASE TakeUp(w)
    <3>1. PICK k : k = [at |-> "read", from |-> w]
      OBVIOUS
    <3>2. k.at = "read"
      BY <3>1
    <3>3. job' \in {job, [job EXCEPT ![Watcher] = k]}
      BY <2>1, <3>1 DEF TakeUp
    <3> QED BY <1>0, <1>1, <2>1, <3>2, <3>3 DEF TakeUp
  <2>2. CASE ~TakeUp(w)
    BY <1>3, <2>2 DEF Drop, FinishCopy, TakeAway
  <2> QED BY <2>1, <2>2
<1>4. CASE Scan \/ Tick
  BY <1>4 DEF Scan, Tick
<1>5. CASE Read
  <2> DEFINE w == job[Watcher].from
             f == [stem |-> w.stem, kind |-> w.kind, data |-> folder[w].now]
  <2>1. PICK files : files = <<f>>
    OBVIOUS
  <2>2. job' = [job EXCEPT ![Watcher] = Idle] \/ job' = [job EXCEPT ![Watcher] = Ingesting(files)]
    BY <1>5, <2>1 DEF Read
  <2>3. job[Watcher].at = "read" /\ UNCHANGED <<disk, recorded, history>>
    BY <1>5 DEF Read
  <2> QED BY <1>0, <1>1, <2>2, <2>3
<1> QED BY <1>2, <1>3, <1>4, <1>5 DEF Quiet, Watching

LEMMA IngestionSteps == Ingestion <=> Quiet \/ \E p \in Threads : Ingest(p)
BY DEF Ingestion, Quiet, Watching

-----------------------------------------------------------------------------
(* What is refused was kept.                                               *)

LEMMA KeptWhileIngesting ==
  ASSUME IngestShape, Kept, NEW p \in Threads, Ingest(p)
  PROVE  Kept'
<1>1. job[p].at \in {"look", "save", "convert", "record"}
  BY DEF Ingest, Look, Save, Convert, Record, WriteFails
<1>2. whole \subseteq whole' /\ (recorded' # recorded => Record(p))
  BY DEF Ingest, Look, Save, Convert, Record, WriteFails
<1>3. \A q \in Threads \ {p} : job'[q].at = "record" => Current(q).data' \in whole'
  BY <1>2, JobSteps DEF Kept, Current
<1>4. job'[p].at = "record" => Current(p).data' \in whole'
  <2>1. CASE Save(p) /\ job'[p].at = AfterSave(Current(p)) /\ job'[p].todo = job[p].todo
    BY <2>1 DEF Save, AfterSave, Current
  <2>2. CASE Convert(p) /\ job'[p].todo = job[p].todo
    BY <2>2 DEF Convert, Current
  <2> QED BY <2>1, <2>2, JobSteps
<1>5. RefusedOnlyIfKept'
  <2>1. CASE Record(p)
    BY <1>2, <2>1 DEF Record, Kept, RefusedOnlyIfKept
  <2>2. CASE ~Record(p)
    BY <1>2, <2>2 DEF Kept, RefusedOnlyIfKept
  <2> QED BY <2>1, <2>2
<1> QED BY <1>3, <1>4, <1>5 DEF Kept

LEMMA KeptOtherwise ==
  ASSUME Kept, UNCHANGED <<recorded, whole>>,
         \A p \in Threads : job'[p] = job[p] \/ job'[p].at # "record"
  PROVE  Kept'
BY DEF Kept, RefusedOnlyIfKept, Current

-----------------------------------------------------------------------------
(* Nothing is recorded twice unless two threads had it in hand.            *)

LEMMA OnceWhileIngesting ==
  ASSUME IngestShape, Once, NEW p \in Threads, Ingest(p)
  PROVE  Once'
<1>1. \A q \in Threads \ {p} : WorkedOnBy(q)' = WorkedOnBy(q)
  BY JobSteps DEF WorkedOnBy, Current
<1>2. CASE /\ Look(p) /\ job'[p].at = "save" /\ ~Known(p) /\ Readable(Current(p).data)
           /\ job'[p].todo = job[p].todo
  <2>1. WorkedOnBy(p)' = {Current(p).data} /\ Current(p).data \notin recorded
    BY <1>2 DEF WorkedOnBy, Current, Known
  <2>2. /\ contested' = contested \cup ({Current(p).data} \cap UNION {WorkedOnBy(q) : q \in Threads \ {p}})
        /\ UNCHANGED <<recorded, twice>>
    BY <1>2 DEF Look
  <2>3. contested \subseteq contested' /\ \A q \in Threads \ {p} : {Current(p).data} \cap WorkedOnBy(q) \subseteq contested'
    BY <2>2
  <2> QED BY <1>1, <2>1, <2>2, <2>3 DEF Once, NotTwice
<1>3. CASE (Save(p) \/ Convert(p)) /\ job'[p].todo = job[p].todo
  <2>1. WorkedOnBy(p) = {Current(p).data}
    BY <1>3 DEF WorkedOnBy, Save, Convert
  <2>2. WorkedOnBy(p)' \subseteq WorkedOnBy(p)
    <3>1. job'[p].todo = job[p].todo
      BY <1>3, JobSteps DEF Save, Look, Convert, Record, WriteFails
    <3> QED BY <2>1, <3>1 DEF WorkedOnBy, Current
  <2>3. UNCHANGED <<recorded, twice, contested>>
    BY <1>3 DEF Save, Convert
  <2> QED BY <1>1, <2>2, <2>3 DEF Once, NotTwice
<1>4. CASE job'[p].at \in {"idle", "look"} /\ (Record(p) \/ UNCHANGED <<recorded, twice, contested>>)
  <2>1. WorkedOnBy(p)' = {}
    BY <1>4 DEF WorkedOnBy
  <2>2. CASE UNCHANGED <<recorded, twice, contested>>
    BY <1>1, <2>1, <2>2 DEF Once, NotTwice
  <2>3. CASE Record(p)
    <3>1. WorkedOnBy(p) = {Current(p).data}
      BY <2>3 DEF WorkedOnBy, Record
    <3>2. /\ recorded' = recorded \cup WorkedOnBy(p) /\ contested' = contested
          /\ twice' = twice \cup (recorded \cap WorkedOnBy(p))
      BY <2>3, <3>1 DEF Record
    <3> QED BY <1>1, <2>1, <3>2 DEF Once, NotTwice
  <2> QED BY <1>4, <2>2, <2>3
<1>5. /\ Look(p) /\ job'[p] = Rest(p) /\ (Known(p) \/ ~Readable(Current(p).data)) => UNCHANGED <<recorded, twice, contested>>
      /\ WriteFails(p) => UNCHANGED <<recorded, twice, contested>>
  BY DEF Look, WriteFails
<1> QED BY <1>2, <1>3, <1>4, <1>5, JobSteps

LEMMA OnceOtherwise ==
  ASSUME Once, UNCHANGED <<recorded, twice, contested>>,
         \A p \in Threads : job'[p] = job[p] \/ job'[p].at \in {"idle", "read", "look"}
  PROVE  Once'
<1>1. \A p \in Threads : WorkedOnBy(p)' \subseteq WorkedOnBy(p)
  BY DEF WorkedOnBy, Current
<1> QED BY <1>1 DEF Once, NotTwice

-----------------------------------------------------------------------------
(* The watcher takes in what it has taken up.                              *)

LEMMA InHandOf ==
  ASSUME NEW j \in Jobs, NEW w
  PROVE  \/ j = [at |-> "read", from |-> w]
         \/ j \in IngestJob /\ DroppedAs(Head(j.todo)) = w
         <=>
         \/ j.at = "read" /\ j.from = w
         \/ j \in DocJob /\ DroppedAs(Head(j.todo)) = w
<1>1. j \in IngestJob <=> j \in DocJob
  <2>1. j \in IngestJob => j.at \in {"look", "save", "convert", "record"}
    BY DEF IngestJob
  <2>2. j \in DocJob => j \in IngestJob
    <3>1. Docs \subseteq File
      BY DEF Docs, File, Kinds
    <3>2. \A s \in Seq(Docs) : s \in Seq(File)
      BY <3>1
    <3> QED BY <3>2 DEF DocJob, IngestJob
  <2> QED BY <2>1, <2>2, JobShape
<1>2. j = [at |-> "read", from |-> w] => j.at = "read" /\ j.from = w
  OBVIOUS
<1>3. j.at = "read" /\ j.from = w => j = [at |-> "read", from |-> w]
  <2>1. j.at = "read" => \E v : j = [at |-> "read", from |-> v]
    BY JobShape DEF ReadJob
  <2> QED BY <2>1
<1> QED BY <1>1, <1>2, <1>3

LEMMA TakenUpOtherwise ==
  ASSUME TakenUp, UNCHANGED <<folder, seen, missed>>, job'[Watcher] = job[Watcher], recorded \subseteq recorded'
  PROVE  TakenUp'
<1>1. (\A w : HasInHand(w)' <=> HasInHand(w)) /\ Current(Watcher)' = Current(Watcher) /\ InFolder' = InFolder
  BY DEF HasInHand, Current, InFolder
<1> QED BY <1>1 DEF TakenUp, TakenUpMeansIngested

LEMMA TakenUpWhileIngesting ==
  ASSUME IngestShape, TakenUp, Ingest(Watcher)
  PROVE  TakenUp'
<1> DEFINE w == DroppedAs(Current(Watcher))
<1>0. Watcher \in Threads /\ job[Watcher] \in DocJob /\ job[Watcher] \in Jobs /\ job[Watcher].at # "read"
  <2>1. Watcher \in Threads
    BY DEF Threads
  <2> QED BY <2>1, JobSteps, JobShape DEF Jobs, Ingest, Look, Save, Convert, Record, WriteFails
<1>1. /\ Len(job[Watcher].todo) = 1 /\ w \in seen
      /\ w \in InFolder \ missed => Current(Watcher).data = folder[w].now
  BY <1>0 DEF TakenUp
<1>2. UNCHANGED <<folder, seen>> /\ missed \subseteq missed' /\ InFolder' = InFolder /\ recorded \subseteq recorded'
  BY DEF Ingest, Look, Save, Convert, Record, WriteFails, watched, InFolder
<1>3. \A v : HasInHand(v) <=> v = w
  BY <1>0, InHandOf DEF HasInHand, Current
<1>4. CASE job'[Watcher] \in DocJob /\ job'[Watcher].todo = job[Watcher].todo
  <2>1. \A v : HasInHand(v)' <=> v = w
    <3>1. job'[Watcher] \in Jobs /\ job'[Watcher].at # "read"
      BY <1>4, JobShape DEF Jobs
    <3> QED BY <1>4, <3>1, InHandOf DEF HasInHand, Current
  <2>2. Current(Watcher)' = Current(Watcher)
    BY <1>4 DEF Current
  <2>3. job'[Watcher].at # "read"
    BY <1>4, JobShape DEF Jobs
  <2> QED BY <1>1, <1>2, <1>3, <1>4, <2>1, <2>2, <2>3 DEF TakenUp, TakenUpMeansIngested
<1>5. CASE /\ job'[Watcher] = Rest(Watcher)
           /\ \/ Look(Watcher) /\ (Known(Watcher) \/ ~Readable(Current(Watcher).data))
              \/ Record(Watcher) \/ WriteFails(Watcher)
  <2>1. job'[Watcher] = Idle
    BY <1>1, <1>5 DEF Rest
  <2>2. job'[Watcher] \notin DocJob /\ job'[Watcher].at # "read"
    BY <2>1 DEF Idle, DocJob
  <2>3. w \in InFolder \ missed' /\ Readable(folder[w].now) => folder[w].now \in recorded'
    <3>1. CASE Look(Watcher) /\ (Known(Watcher) \/ ~Readable(Current(Watcher).data))
      BY <1>1, <1>2, <3>1 DEF Known
    <3>2. CASE Record(Watcher)
      BY <1>1, <1>2, <3>2 DEF Record
    <3>3. CASE WriteFails(Watcher)
      BY <3>3 DEF WriteFails
    <3> QED BY <1>5, <3>1, <3>2, <3>3
  <2>4. TakenUpMeansIngested'
    <3>1. ASSUME NEW v \in (seen \cap InFolder) \ missed', v # w,
                 v.kind # "other", folder[v].now \notin TooLarge, Readable(folder[v].now)
          PROVE  folder[v].now \in recorded'
      BY <1>2, <1>3, <3>1 DEF TakenUp, TakenUpMeansIngested
    <3> QED BY <1>2, <2>3, <3>1 DEF TakenUpMeansIngested
  <2> QED BY <2>2, <2>4 DEF TakenUp
<1> QED BY <1>0, <1>4, <1>5, JobSteps

LEMMA TakenUpWith ==
  ASSUME TakenUpMeansIngested', job'[Watcher].at # "read", Len(job'[Watcher].todo) = 1,
         NEW f, Current(Watcher)' = f, NEW w, DroppedAs(f) = w, w \in seen', f.data = folder'[w].now
  PROVE  TakenUp'
BY DEF TakenUp

LEMMA TakenUpWhileWatching ==
  ASSUME IngestShape, TakenUp, Watching
  PROVE  TakenUp'
<1>0. /\ folder \in [DropNames -> Arrival \cup {NoFile}] /\ job \in [Threads -> Jobs]
      /\ Watcher \in Threads /\ job[Watcher] \in Jobs
  BY DEF IngestShape, Threads
<1>1. ASSUME NEW w \in DropNames, Drop(w) \/ TakeAway(w) \/ FinishCopy(w),
             ~Drop(w) /\ ~TakeAway(w) => job[Watcher] # [at |-> "read", from |-> w]
      PROVE  TakenUp'
  <2>1. UNCHANGED <<recorded, seen, job>> /\ missed \subseteq missed'
    BY <1>1 DEF Drop, TakeAway, FinishCopy
  <2>2. \A v : HasInHand(v)' <=> HasInHand(v)
    BY <2>1 DEF HasInHand, Current
  <2>3. Current(Watcher)' = Current(Watcher)
    BY <2>1 DEF Current
  <2>4. \A v \in DropNames : v # w => folder'[v] = folder[v]
    BY <1>0, <1>1 DEF Drop, TakeAway, FinishCopy
  <2>5. w \notin InFolder' \/ w \notin seen \/ w \in missed'
    BY <1>0, <1>1 DEF Drop, TakeAway, FinishCopy, InFolder
  <2>6. \A v \in DropNames : v \in (seen \cap InFolder') \ missed' => /\ v \in (seen \cap InFolder) \ missed
                                                                   /\ folder'[v] = folder[v]
    BY <2>1, <2>4, <2>5 DEF InFolder
  <2>7. InFolder' \subseteq DropNames
    BY DEF InFolder
  <2> QED BY <2>1, <2>2, <2>3, <2>6, <2>7 DEF TakenUp, TakenUpMeansIngested
<1>2. ASSUME NEW w \in DropNames, FinishCopy(w), job[Watcher] = [at |-> "read", from |-> w]
      PROVE  TakenUp'
  <2>1. UNCHANGED <<recorded, seen, job, missed>> /\ job[Watcher].at = "read"
    BY <1>2 DEF FinishCopy
  <2>2. \A v : (HasInHand(v)' <=> HasInHand(v)) /\ HasInHand(w)
    BY <1>2, <2>1 DEF HasInHand, Current
  <2>3. \A v \in DropNames : v # w => folder'[v] = folder[v]
    BY <1>0, <1>2 DEF FinishCopy
  <2>4. job[Watcher] \notin DocJob
    BY <2>1 DEF DocJob
  <2>5. \A v \in InFolder' : v # w => v \in InFolder /\ folder'[v] = folder[v]
    BY <2>3 DEF InFolder
  <2> QED BY <2>1, <2>2, <2>4, <2>5 DEF TakenUp, TakenUpMeansIngested
<1>3. ASSUME NEW w \in DropNames, TakeUp(w), StillThere(w)
      PROVE  TakenUp'
  <2>1. /\ UNCHANGED <<recorded, folder, missed>> /\ seen' = seen \cup {w} /\ job[Watcher] = Idle
        /\ job'[Watcher] = [at |-> "read", from |-> w]
    BY <1>0, <1>3 DEF TakeUp
  <2>2. job'[Watcher].at = "read" /\ job'[Watcher].from = w /\ job'[Watcher] \notin DocJob
    BY <2>1 DEF DocJob
  <2>3. \A v : ~HasInHand(v)
    BY <2>1 DEF HasInHand, Idle, IngestJob
  <2>4. HasInHand(w)' /\ InFolder' = InFolder
    BY <2>1 DEF HasInHand, InFolder
  <2>5. TakenUpMeansIngested'
    BY <2>1, <2>3, <2>4 DEF TakenUp, TakenUpMeansIngested
  <2> QED BY <2>1, <2>2, <2>5 DEF TakenUp
<1>4. CASE Scan \/ \E w \in DropNames : TakeUp(w) /\ ~StillThere(w)
  <2>1. UNCHANGED <<folder, seen, missed, job, recorded>>
    BY <1>4 DEF Scan, TakeUp
  <2> QED BY <2>1, TakenUpOtherwise
<1>5. CASE Read
  <2>0. PICK w \in DropNames : w = job[Watcher].from
    BY <1>0, <1>5, JobShape DEF Read
  <2> DEFINE turned == folder[w] = NoFile \/ ~OfKnownKind(w) \/ ~Fits(folder[w].now)
  <2>1. /\ UNCHANGED <<recorded, folder, missed, seen>> /\ job[Watcher].at = "read" /\ w \in DropNames /\ w \in seen
        /\ InFolder' = InFolder /\ job[Watcher] \notin DocJob
    BY <1>0, <1>5, <2>0 DEF Read, watched, TakenUp, InFolder, DocJob
  <2>2. \A v : HasInHand(v) <=> v = w
    BY <1>0, <2>0, <2>1, InHandOf DEF HasInHand, Current
  <2>3. CASE turned
    <3>1. job'[Watcher] = Idle
      BY <1>0, <1>5, <2>0, <2>3 DEF Read
    <3>2. job'[Watcher].at # "read" /\ job'[Watcher] \notin DocJob
      BY <3>1 DEF Idle, DocJob
    <3>3. w \notin InFolder \/ w.kind = "other" \/ folder[w].now \in TooLarge
      BY <2>3 DEF InFolder, OfKnownKind, Fits
    <3>4. TakenUpMeansIngested'
      BY <2>1, <2>2, <3>3 DEF TakenUp, TakenUpMeansIngested
    <3> QED BY <3>2, <3>4 DEF TakenUp
  <2>4. CASE ~turned
    <3>0. PICK f : f = [stem |-> w.stem, kind |-> w.kind, data |-> folder[w].now]
      OBVIOUS
    <3>1. PICK k : k = Ingesting(<<f>>)
      OBVIOUS
    <3>2. job'[Watcher] = k
      BY <1>0, <1>5, <2>0, <2>4, <3>0, <3>1 DEF Read
    <3>3. k.at = "look" /\ k.todo = <<f>>
      BY <3>1 DEF Ingesting
    <3>4. Len(job'[Watcher].todo) = 1 /\ Current(Watcher)' = f
      BY <3>2, <3>3 DEF Current
    <3>5. DroppedAs(f) = w /\ f.data = folder[w].now
      BY <3>0 DEF DroppedAs, DropNames
    <3>6. job'[Watcher].at # "read" /\ job'[Watcher] \in DocJob
      <4>1. job'[Watcher] \in Jobs
        <5>1. IngestShape'
          BY TypesOfWatching
        <5> QED BY <1>0, <5>1 DEF IngestShape
      <4> QED BY <3>2, <3>3, <4>1, JobShape
    <3>7. HasInHand(w)'
      <4>1. job'[Watcher] \in Jobs
        BY <3>6 DEF Jobs
      <4> QED BY <3>4, <3>5, <3>6, <4>1, InHandOf DEF HasInHand, Current
    <3>8. TakenUpMeansIngested'
      BY <2>1, <2>2, <3>7 DEF TakenUp, TakenUpMeansIngested
    <3>9. w \in seen' /\ f.data = folder'[w].now
      BY <2>1, <3>5
    <3> QED BY <3>4, <3>5, <3>6, <3>8, <3>9, TakenUpWith
  <2> QED BY <2>3, <2>4
<1>6. ASSUME NEW w \in DropNames, Drop(w) \/ FinishCopy(w) \/ TakeAway(w) \/ TakeUp(w)
      PROVE  TakenUp'
  <2>1. CASE FinishCopy(w)
    BY <1>1, <1>2, <2>1
  <2>2. CASE TakeUp(w)
    BY <1>3, <1>4, <2>2
  <2>3. CASE Drop(w) \/ TakeAway(w)
    BY <1>1, <2>3
  <2> QED BY <1>6, <2>1, <2>2, <2>3
<1> QED BY <1>4, <1>5, <1>6 DEF Watching

LEMMA TakenUpAfterDeath ==
  ASSUME Restart
  PROVE  TakenUp'
<1>1. job'[Watcher] = Idle /\ missed' = InFolder /\ InFolder' = InFolder
  BY DEF Restart, Threads, InFolder
<1>2. job'[Watcher].at # "read" /\ job'[Watcher] \notin DocJob
  BY <1>1 DEF Idle, DocJob
<1> QED BY <1>1, <1>2 DEF TakenUp, TakenUpMeansIngested

-----------------------------------------------------------------------------
(* A conversion is of the table beside it.                                 *)

LEMMA Triples ==
  /\ \A m \in Stamped : SidecarOf(m)[3] = "json"
  /\ \A m, n \in Stamped : m[3] = "table" /\ SidecarOf(m) = n => m \in Namesakes(n)
  /\ \A m, n \in Stamped : m[3] = n[3] /\ SidecarOf(m) = SidecarOf(n) => m = n
  /\ \A n \in Stamped : SidecarOf(n) \in Namesakes(n) /\ n \in Namesakes(n)
<1>1. \A m \in Stamped : m = <<m[1], m[2], m[3]>> /\ m[3] \in {"table", "json"}
  BY DEF Stamped
<1>2. \A m : SidecarOf(m)[1] = m[1] /\ SidecarOf(m)[2] = m[2] /\ SidecarOf(m)[3] = "json"
  BY DEF SidecarOf
<1>3. ASSUME NEW m \in Stamped, NEW n \in Stamped, m[3] = "table", SidecarOf(m) = n
      PROVE  m \in Namesakes(n)
  <2>1. n[1] = m[1] /\ n[2] = m[2]
    BY <1>2, <1>3
  <2>2. m = <<n[1], n[2], "table">>
    BY <1>1, <1>3, <2>1
  <2> QED BY <2>2 DEF Namesakes
<1>4. ASSUME NEW m \in Stamped, NEW n \in Stamped, m[3] = n[3], SidecarOf(m) = SidecarOf(n)
      PROVE  m = n
  <2>1. n[1] = m[1] /\ n[2] = m[2]
    BY <1>2, <1>4
  <2> QED BY <1>1, <1>4, <2>1
<1> QED BY <1>2, <1>3, <1>4, StampedNames

\* What ingestion does to the disk: it adds files under stamped names.
LEMMA Targets ==
  ASSUME IngestShape, NEW p \in Threads
  PROVE  Target(p) \subseteq Stamped
<1>1. CASE job[p].at = "save"
  BY <1>1, InHand DEF Target
<1>2. CASE job[p].at = "convert"
  BY <1>2, InHand, StampedNames DEF Target
<1> QED BY <1>1, <1>2 DEF Target

LEMMA Tears ==
  ASSUME IngestShape, NEW ps \in SUBSET Threads, NEW torn, TornBy(ps, torn)
  PROVE  /\ torn \subseteq Stamped /\ (clashed => clashed')
         /\ \A n \in Names : \/ Tear(disk, torn)[n] = disk[n]
                             \/ /\ n \in Stamped /\ (n \in OnDisk => clashed')
                                /\ Tear(disk, torn)[n] = Stored(Torn, clock)
<1>1. torn \subseteq Stamped
  BY Targets DEF TornBy
<1>2. torn \cap OnDisk # {} => clashed'
  BY DEF TornBy
<1> QED BY <1>1, <1>2 DEF TornBy, Tear

LEMMA IngestionAdds ==
  ASSUME IngestShape, Ingestion
  PROVE  /\ clashed => clashed'
         /\ \A n \in Names : disk'[n] # disk[n] =>
              n \in Stamped /\ disk'[n] # NoFile /\ (n \in OnDisk => clashed')
<1>0. disk \in [Names -> Entry \cup {NoFile}]
  BY DEF IngestShape
<1>1. CASE Quiet
  BY <1>1, QuietSteps DEF history
<1>2. ASSUME NEW p \in Threads, Ingest(p)
      PROVE  /\ clashed => clashed'
             /\ \A n \in Names : disk'[n] # disk[n] =>
                  n \in Stamped /\ disk'[n] # NoFile /\ (n \in OnDisk => clashed')
  <2>1. CASE Look(p) \/ Record(p)
    BY <2>1 DEF Look, Record
  <2>2. CASE Save(p)
    <3> DEFINE n == StampedName(Current(p))
    <3>1. n \in Stamped /\ n \in Namesakes(n)
      BY <2>2, InHand, StampedNames DEF Save
    <3>2. disk' = [disk EXCEPT ![n] = Stored(Holding(Current(p).data), clock)] /\ clashed' = (clashed \/ Meets(n))
      BY <2>2 DEF Save
    <3>3. n \in OnDisk => clashed'
      BY <3>1, <3>2 DEF Meets
    <3> QED BY <1>0, <3>1, <3>2, <3>3, Files
  <2>3. CASE Convert(p)
    <3> DEFINE n == SidecarOf(job[p].into)
    <3>1. n \in Stamped
      BY <2>3, InHand, StampedNames DEF Convert
    <3>2. /\ disk' = [disk EXCEPT ![n] = Stored(Holding(Converted[Current(p).data]), clock)]
          /\ clashed' = (clashed \/ n \in OnDisk)
      BY <2>3 DEF Convert
    <3> QED BY <1>0, <3>1, <3>2, Files
  <2>4. CASE WriteFails(p)
    <3>1. PICK torn \in SUBSET Target(p) : TornBy({p}, torn) /\ disk' = Tear(disk, torn)
      BY <2>4 DEF WriteFails
    <3>2. PICK ps \in SUBSET Threads : ps = {p}
      OBVIOUS
    <3>3. TornBy(ps, torn)
      BY <3>1, <3>2
    <3>4. PICK d : d = Tear(disk, torn) /\ disk' = d
      BY <3>1
    <3>5. /\ clashed => clashed'
          /\ \A n \in Names : d[n] # disk[n] =>
               n \in Stamped /\ (n \in OnDisk => clashed') /\ d[n] = Stored(Torn, clock)
      BY <3>3, <3>4, Tears
    <3>6. Stored(Torn, clock) # NoFile
      BY Files
    <3> QED BY <3>4, <3>5, <3>6
  <2> QED BY <1>2, <2>1, <2>2, <2>3, <2>4 DEF Ingest
<1> QED BY <1>1, <1>2, IngestionSteps

LEMMA BelongWhileSaving ==
  ASSUME IngestShape, Belong, NEW p \in Threads, Save(p), UNCHANGED borrowed
  PROVE  Belong'
<1> SUFFICES ASSUME ~clashed' PROVE Belong'
  BY DEF Belong, ConversionsBelong
<1>0. PICK n \in Stamped : n = StampedName(Current(p)) /\ n[3] = Current(p).kind
  BY InHand, StampedNames DEF Save, IngestShape
<1>1. /\ disk' = [disk EXCEPT ![n] = Stored(Holding(Current(p).data), clock)]
      /\ ~clashed /\ ~Meets(n)
  BY <1>0 DEF Save, IngestShape
<1>2. /\ disk'[n].body = Holding(Current(p).data) /\ n \in Names
      /\ \A m \in Names : m # n => disk'[m] = disk[m]
  BY <1>0, <1>1, Files, StampedNames DEF IngestShape
<1>3. \A m \in Stamped : m \in Namesakes(n) => disk[m] = NoFile
  BY <1>1, StampedNames DEF Meets, OnDisk
<1>4. ConversionsBelong'
  <2>1. ASSUME NEW m \in Stamped, m[3] = "table", OnDiskWhole(m)', OnDiskWhole(SidecarOf(m))'
        PROVE  m # n /\ SidecarOf(m) # n
    <3>1. m \in Names /\ SidecarOf(m) \in Names /\ SidecarOf(m) \in Stamped /\ SidecarOf(m)[3] = "json"
      BY StampedNames, Triples
    <3>2. CASE m = n
      <4>1. SidecarOf(m) \in Namesakes(n) /\ SidecarOf(m) # n
        BY <2>1, <3>1, <3>2, Triples
      <4> QED BY <1>2, <1>3, <2>1, <3>1, <4>1 DEF OnDiskWhole
    <3>3. CASE SidecarOf(m) = n
      <4>1. m \in Namesakes(n) /\ m # n
        BY <2>1, <3>1, <3>3, Triples
      <4> QED BY <1>2, <1>3, <2>1, <3>1, <4>1 DEF OnDiskWhole
    <3> QED BY <3>2, <3>3
  <2>2. \A m \in Stamped : m \in Names /\ SidecarOf(m) \in Names
    BY StampedNames
  <2>3. \A m : OwnNames(m)' <=> OwnNames(m)
    BY DEF OwnNames
  <2> QED BY <1>1, <1>2, <2>1, <2>2, <2>3 DEF ConversionsBelong, OnDiskWhole, Belong
<1>5. \A q \in Threads \ {p} : job'[q] = job[q] /\ Current(q)' = Current(q)
  BY JobSteps DEF Current, Ingest
<1>6. \A q \in Threads \ {p} : job[q].at = "convert" => job[q].into \in Stamped /\ job[q].into # n
  BY <1>1, InHand, Triples DEF Meets
<1>7. job'[p].at = "convert" => job'[p].into = n /\ Current(p)' = Current(p)
  BY <1>0, JobSteps DEF Save, Look, Convert, Record, WriteFails, Current, Ingest
<1>8. ASSUME NEW q \in Threads, job'[q].at = "convert"
      PROVE  /\ job'[q].into \notin borrowed' /\ OnDiskWhole(job[q].into)'
                  => disk'[job'[q].into].body = Holding(Current(q).data)'
             /\ \A r \in Threads : r # q /\ job'[r].at = "convert" => job'[r].into # job'[q].into
  <2>1. CASE q = p
    BY <1>2, <1>5, <1>6, <1>7, <1>8, <2>1
  <2>2. CASE q # p
    <3>1. job[q].into \in Names /\ job[q].into # n /\ job'[q] = job[q] /\ job[q].at = "convert"
      BY <1>5, <1>6, <1>8, <2>2, StampedNames
    <3>2. job'[q].into \notin borrowed' /\ OnDiskWhole(job[q].into)'
            => disk'[job'[q].into].body = Holding(Current(q).data)'
      BY <1>1, <1>2, <1>5, <2>2, <3>1 DEF OnDiskWhole, Belong
    <3>3. \A r \in Threads : r # q /\ job'[r].at = "convert" => job'[r].into # job'[q].into
      BY <1>1, <1>5, <1>6, <1>7, <2>2, <3>1 DEF Belong
    <3> QED BY <3>2, <3>3
  <2> QED BY <2>1, <2>2
<1> QED BY <1>4, <1>8 DEF Belong

LEMMA BelongWhileConverting ==
  ASSUME IngestShape, Belong, NEW p \in Threads, Convert(p), UNCHANGED borrowed
  PROVE  Belong'
<1> SUFFICES ASSUME ~clashed' PROVE Belong'
  BY DEF Belong, ConversionsBelong
<1>0. PICK t \in Stamped : t = job[p].into /\ t[3] = "table" /\ SidecarOf(t) \in Stamped
  BY InHand, StampedNames DEF Convert
<1>1. PICK n \in Stamped : n = SidecarOf(t) /\ n[3] = "json"
  BY <1>0, Triples
<1>2. /\ disk' = [disk EXCEPT ![n] = Stored(Holding(Converted[Current(p).data]), clock)]
      /\ ~clashed /\ n \notin OnDisk /\ job[p].at = "convert"
  BY <1>0, <1>1 DEF Convert, IngestShape
<1>3. /\ disk'[n].body = Holding(Converted[Current(p).data]) /\ n \in Names
      /\ \A m \in Names : m # n => disk'[m] = disk[m]
  BY <1>2, Files, StampedNames DEF IngestShape
<1>4. t \notin borrowed /\ OnDiskWhole(t) => disk[t].body = Holding(Current(p).data)
  BY <1>0, <1>2 DEF Belong
<1>5. ConversionsBelong'
  <2>1. ASSUME NEW m \in Stamped, m[3] = "table", OwnNames(m)', OnDiskWhole(m)', OnDiskWhole(SidecarOf(m))'
        PROVE  disk'[SidecarOf(m)].body = Holding(Converted[disk'[m].body.data])
    <3>1. m \in Names /\ SidecarOf(m) \in Names /\ m # n /\ m \notin borrowed /\ OwnNames(m)
      BY <1>1, <2>1, StampedNames DEF OwnNames
    <3>2. CASE SidecarOf(m) = n
      <4>1. m = t
        BY <1>0, <1>1, <2>1, <3>2, Triples
      <4>2. disk'[m].body = Holding(Current(p).data)
        BY <1>3, <1>4, <2>1, <3>1, <4>1 DEF OnDiskWhole
      <4> QED BY <1>3, <3>2, <4>2, Files
    <3>3. CASE SidecarOf(m) # n
      BY <1>2, <1>3, <2>1, <3>1, <3>3 DEF Belong, ConversionsBelong, OnDiskWhole
    <3> QED BY <3>2, <3>3
  <2> QED BY <2>1 DEF ConversionsBelong
<1>6. job'[p].at # "convert" /\ \A q \in Threads \ {p} : job'[q] = job[q] /\ Current(q)' = Current(q)
  BY JobSteps DEF Save, Look, Convert, Record, WriteFails, Current, Ingest
<1>7. ASSUME NEW q \in Threads, job'[q].at = "convert"
      PROVE  /\ job'[q].into \notin borrowed' /\ OnDiskWhole(job[q].into)'
                  => disk'[job'[q].into].body = Holding(Current(q).data)'
             /\ \A r \in Threads : r # q /\ job'[r].at = "convert" => job'[r].into # job'[q].into
  <2>1. q # p /\ job'[q] = job[q] /\ Current(q)' = Current(q) /\ job[q].at = "convert"
    BY <1>6, <1>7
  <2>2. job[q].into \in Stamped /\ job[q].into # n /\ job[q].into \in Names
    BY <1>1, <2>1, InHand, StampedNames
  <2>3. \A r \in Threads : r # q /\ job'[r].at = "convert" => job'[r].into # job'[q].into
    BY <1>2, <1>6, <2>1 DEF Belong
  <2> QED BY <1>2, <1>3, <2>1, <2>2, <2>3 DEF Belong, OnDiskWhole
<1> QED BY <1>5, <1>7 DEF Belong

\* Files that are there stay as they are or go, what comes is torn.
LEMMA BelongOtherwise ==
  ASSUME IngestShape, Belong, clashed => clashed', borrowed \subseteq borrowed',
         \A n \in Stamped \ borrowed' : disk'[n] \in {disk[n], NoFile} \/ disk'[n].body = Torn,
         \A q \in Threads : job'[q] = job[q] \/ job'[q].at # "convert"
  PROVE  Belong'
<1> SUFFICES ASSUME ~clashed' PROVE Belong'
  BY DEF Belong, ConversionsBelong
<1>1. \A n \in Stamped \ borrowed' : OnDiskWhole(n)' => OnDiskWhole(n) /\ disk'[n] = disk[n]
  BY DEF OnDiskWhole
<1>2. ConversionsBelong'
  <2>1. ASSUME NEW n \in Stamped, n[3] = "table", OwnNames(n)', OnDiskWhole(n)', OnDiskWhole(SidecarOf(n))'
        PROVE  disk'[SidecarOf(n)].body = Holding(Converted[disk'[n].body.data])
    <3>1. SidecarOf(n) \in Stamped /\ n \notin borrowed' /\ SidecarOf(n) \notin borrowed' /\ OwnNames(n)
      BY <2>1, StampedNames DEF OwnNames
    <3>2. /\ OnDiskWhole(n) /\ disk'[n] = disk[n]
          /\ OnDiskWhole(SidecarOf(n)) /\ disk'[SidecarOf(n)] = disk[SidecarOf(n)]
      BY <1>1, <2>1, <3>1
    <3> QED BY <2>1, <3>1, <3>2 DEF Belong, ConversionsBelong
  <2> QED BY <2>1 DEF ConversionsBelong
<1>3. ASSUME NEW q \in Threads, job'[q].at = "convert"
      PROVE  /\ job'[q].into \notin borrowed' /\ OnDiskWhole(job[q].into)'
                  => disk'[job'[q].into].body = Holding(Current(q).data)'
             /\ \A r \in Threads : r # q /\ job'[r].at = "convert" => job'[r].into # job'[q].into
  <2>1. job'[q] = job[q] /\ Current(q)' = Current(q)
    BY <1>3 DEF Current
  <2>2. job[q].into \in Stamped
    BY <1>3, <2>1, InHand
  <2>3. \A r \in Threads : r # q /\ job'[r].at = "convert" => job'[r].into # job'[q].into
    BY <1>3, <2>1 DEF Belong
  <2> QED BY <1>1, <1>3, <2>1, <2>2, <2>3 DEF Belong, OnDiskWhole
<1> QED BY <1>2, <1>3 DEF Belong

LEMMA BelongWhileIngesting ==
  ASSUME IngestShape, Belong, Ingestion, UNCHANGED borrowed
  PROVE  Belong'
<1>1. CASE Quiet
  <2>1. UNCHANGED <<disk, clashed>>
    BY <1>1, QuietSteps DEF history
  <2>2. \A q \in Threads : job'[q] = job[q] \/ job'[q].at # "convert"
    BY <1>1, QuietSteps
  <2> QED BY <2>1, <2>2, BelongOtherwise
<1>2. ASSUME NEW p \in Threads, Ingest(p), ~Save(p), ~Convert(p)
      PROVE  Belong'
  <2>1. \A q \in Threads : job'[q] = job[q] \/ job'[q].at # "convert"
    BY <1>2, JobSteps
  <2>2. CASE Look(p) \/ Record(p)
    <3>1. UNCHANGED <<disk, clashed>>
      BY <2>2 DEF Look, Record
    <3> QED BY <2>1, <3>1, BelongOtherwise
  <2>3. CASE WriteFails(p)
    <3>1. PICK torn \in SUBSET Target(p) : TornBy({p}, torn) /\ disk' = Tear(disk, torn)
      BY <2>3 DEF WriteFails
    <3>2. {p} \in SUBSET Threads
      OBVIOUS
    <3>4. clashed => clashed'
      BY <3>1 DEF TornBy
    <3>5. \A n \in Stamped : disk'[n] = disk[n] \/ disk'[n].body = Torn
      BY <3>1, <3>2, Tears, Files, StampedNames
    <3> QED BY <2>1, <3>4, <3>5, BelongOtherwise
  <2> QED BY <1>2, <2>2, <2>3 DEF Ingest
<1> QED BY <1>1, <1>2, IngestionSteps, BelongWhileSaving, BelongWhileConverting

\* A death: files are torn, swept, or stay as they are.
LEMMA Deaths ==
  ASSUME IngestShape, Restart
  PROVE  /\ clashed => clashed'
         /\ \A n \in Names : \/ disk'[n] \in {disk[n], NoFile}
                             \/ n \in Stamped /\ (n \in OnDisk => clashed') /\ disk'[n].body = Torn
<1>1. PICK torn \in SUBSET UNION {Target(p) : p \in Threads}, before \in 0..clock :
        TornBy(Threads, torn) /\ disk' = Sweep(Tear(disk, torn), before)
  BY DEF Restart
<1>2. PICK d : d = Tear(disk, torn)
  OBVIOUS
<1>3. \A n \in Names : disk'[n] \in {d[n], NoFile}
  BY <1>1, <1>2 DEF Sweep
<1>4. /\ clashed => clashed'
      /\ \A n \in Names : \/ d[n] = disk[n]
                          \/ n \in Stamped /\ (n \in OnDisk => clashed') /\ d[n].body = Torn
  <2>1. PICK ps \in SUBSET Threads : ps = Threads
    OBVIOUS
  <2>2. TornBy(ps, torn)
    BY <1>1, <2>1
  <2>3. Stored(Torn, clock).body = Torn
    BY Files
  <2> QED BY <1>2, <2>2, <2>3, Tears
<1> QED BY <1>3, <1>4

LEMMA BelongAfterDeath ==
  ASSUME IngestShape, Belong, Restart, UNCHANGED borrowed
  PROVE  Belong'
<1>1. \A q \in Threads : job'[q].at # "convert"
  BY DEF Restart, Idle
<1>2. \A n \in Stamped : disk'[n] \in {disk[n], NoFile} \/ disk'[n].body = Torn
  BY Deaths, StampedNames
<1>3. clashed => clashed'
  BY Deaths
<1> QED BY <1>1, <1>2, <1>3, BelongOtherwise

LEMMA StampedWhileEditing ==
  ASSUME Shape, NEW e \in Editors, Edit(e) \/ Finish(e)
  PROVE  /\ UNCHANGED <<job, clashed>> /\ borrowed \subseteq borrowed'
         /\ \A n \in Stamped \ borrowed' : disk'[n] \in {disk[n], NoFile}
<1>1. CASE Edit(e)
  <2>1. PICK r : Opened(e, r)
    BY <1>1, Opens
  <2> QED BY <2>1 DEF Opened, history
<1>2. CASE Finish(e)
  <2>1. PICK r : Advanced(e, r)
    BY <1>2, Advances
  <2> QED BY <2>1, StampedNames DEF Advanced, history
<1> QED BY <1>1, <1>2

LEMMA BelongWhileEditing ==
  ASSUME Shape, Belong, NEW e \in Editors, Edit(e) \/ Finish(e)
  PROVE  Belong'
BY StampedWhileEditing, BelongOtherwise DEF Shape

LEMMA RawOtherwise ==
  ASSUME Raw, borrowed \subseteq borrowed',
         \A n \in Stamped \ borrowed' : disk'[n] \in {disk[n], NoFile} \/ disk'[n].body = Torn
  PROVE  Raw'
BY DEF Raw, OnDiskWhole

LEMMA RawWhileIngesting ==
  ASSUME IngestShape, Raw, Ingestion, UNCHANGED borrowed
  PROVE  Raw'
<1>0. disk \in [Names -> Entry \cup {NoFile}]
  BY DEF IngestShape
<1>1. CASE Quiet
  BY <1>1, QuietSteps, RawOtherwise
<1>2. ASSUME NEW p \in Threads, Ingest(p)
      PROVE  Raw'
  <2>1. CASE Look(p) \/ Record(p)
    BY <2>1, RawOtherwise DEF Look, Record
  <2>2. CASE Save(p)
    <3>1. PICK f : f = Current(p)
      OBVIOUS
    <3>2. PICK n : n = StampedName(f)
      OBVIOUS
    <3>3. n \in Names /\ f.data \in Data /\ Readable(f.data)
      BY <2>2, <3>1, <3>2, InHand, StampedNames DEF Save
    <3>4. disk' = [disk EXCEPT ![n] = Stored(Holding(f.data), clock)]
      BY <2>2, <3>1, <3>2 DEF Save
    <3>5. disk'[n].body.data = f.data /\ \A m \in Stamped : m # n => disk'[m] = disk[m]
      BY <1>0, <3>3, <3>4, StampedNames, Files
    <3> QED BY <3>3, <3>5 DEF Raw, OnDiskWhole, Readable
  <2>3. CASE Convert(p)
    <3>1. PICK n : n = SidecarOf(job[p].into)
      OBVIOUS
    <3>2. n[3] = "json"
      BY <3>1 DEF SidecarOf
    <3>3. \A m \in Stamped : m # n => disk'[m] = disk[m]
      BY <1>0, <2>3, <3>1, StampedNames DEF Convert
    <3> QED BY <3>2, <3>3 DEF Raw, OnDiskWhole
  <2>4. CASE WriteFails(p)
    <3>1. PICK torn \in SUBSET Target(p) : TornBy({p}, torn) /\ disk' = Tear(disk, torn)
      BY <2>4 DEF WriteFails
    <3>2. PICK ps \in SUBSET Threads : ps = {p}
      OBVIOUS
    <3>3. TornBy(ps, torn) /\ Stored(Torn, clock).body = Torn
      BY <3>1, <3>2, Files
    <3>4. \A n \in Names : disk'[n] = disk[n] \/ disk'[n].body = Torn
      BY <3>1, <3>3, Tears
    <3>5. \A n \in Stamped : disk'[n] = disk[n] \/ disk'[n].body = Torn
      BY <3>4, StampedNames
    <3> QED BY <3>5, RawOtherwise
  <2> QED BY <1>2, <2>1, <2>2, <2>3, <2>4 DEF Ingest
<1> QED BY <1>1, <1>2, IngestionSteps

LEMMA RawAfterDeath ==
  ASSUME IngestShape, Raw, Restart, UNCHANGED borrowed
  PROVE  Raw'
<1>1. \A n \in Stamped : disk'[n] \in {disk[n], NoFile} \/ disk'[n].body = Torn
  BY Deaths, StampedNames
<1> QED BY <1>1, RawOtherwise

-----------------------------------------------------------------------------
(* Nothing is written over.                                                *)

LEMMA ApartWhileEditing ==
  ASSUME Shape, Apart, NEW e \in Editors, Edit(e)
  PROVE  Apart'
<1>1. PICK r : Opened(e, r)
  BY Opens
<1>2. /\ edit'[e] = r /\ \A d \in Editors : d # e => edit'[d] = edit[d]
      /\ blurred \subseteq blurred' /\ OnDisk' = OnDisk
  BY <1>1, EditChange DEF Opened, Shape, OnDisk
<1>3. ASSUME NEW c \in Editors, NEW d \in Editors, c # d, Touched(edit'[c]) \cap Touched(edit'[d]) # {}
      PROVE  Touched(edit'[c]) \cup Touched(edit'[d]) \subseteq blurred'
  <2>1. CASE c # e /\ d # e
    BY <1>2, <1>3, <2>1 DEF Apart
  <2>2. CASE c = e
    <3>1. edit'[d] = edit[d] /\ edit'[c] = r
      BY <1>2, <1>3, <2>2
    <3>2. Touched(edit[d]) \cap Touched(r) # {}
      BY <1>3, <3>1
    <3> QED BY <1>1, <3>1, <3>2 DEF Opened
  <2>3. CASE d = e
    <3>1. edit'[c] = edit[c] /\ edit'[d] = r
      BY <1>2, <1>3, <2>3
    <3>2. Touched(edit[c]) \cap Touched(r) # {}
      BY <1>3, <3>1
    <3> QED BY <1>1, <3>1, <3>2 DEF Opened
  <2> QED BY <2>1, <2>2, <2>3
<1>4. ASSUME NEW d \in Editors, edit'[d].at \in {"move", "copy"}, edit'[d].to \in OnDisk'
      PROVE  edit'[d].to \in blurred'
  <2>1. CASE d = e
    BY <1>1, <1>2, <1>4, <2>1 DEF Opened
  <2>2. CASE d # e
    BY <1>2, <1>4, <2>2 DEF Apart
  <2> QED BY <2>1, <2>2
<1> QED BY <1>3, <1>4 DEF Apart

LEMMA ApartWhileFinishing ==
  ASSUME Shape, Apart, NEW e \in Editors, Finish(e)
  PROVE  Apart'
<1>1. PICK r : Advanced(e, r)
  BY Advances
<1>2. /\ edit'[e] = r /\ \A d \in Editors : d # e => edit'[d] = edit[d]
      /\ blurred \subseteq blurred'
      /\ \A d \in Editors : Touched(edit'[d]) \subseteq Touched(edit[d])
  BY <1>1, EditChange DEF Advanced, Shape
<1>3. \A c, d \in Editors : c # d /\ Touched(edit'[c]) \cap Touched(edit'[d]) # {}
                            => Touched(edit'[c]) \cup Touched(edit'[d]) \subseteq blurred'
  <2>1. ASSUME NEW c \in Editors, NEW d \in Editors, c # d, Touched(edit'[c]) \cap Touched(edit'[d]) # {}
        PROVE  Touched(edit'[c]) \cup Touched(edit'[d]) \subseteq blurred'
    <3>1. Touched(edit[c]) \cap Touched(edit[d]) # {}
      BY <1>2, <2>1
    <3>2. Touched(edit[c]) \cup Touched(edit[d]) \subseteq blurred
      BY <2>1, <3>1 DEF Apart
    <3> QED BY <1>2, <3>2
  <2> QED BY <2>1
<1>4. ASSUME NEW d \in Editors, edit'[d].at \in {"move", "copy"}, edit'[d].to \in OnDisk'
      PROVE  edit'[d].to \in blurred'
  <2>1. d # e /\ edit'[d] = edit[d]
    BY <1>1, <1>2, <1>4 DEF Advanced
  <2>2. edit[d].to \in Names /\ edit[d].to \in Touched(edit[d])
    BY <1>4, <2>1, EditShape DEF Shape, Renaming, Copying
  <2>3. CASE edit[d].to \in OnDisk
    BY <1>2, <1>4, <2>1, <2>3 DEF Apart
  <2>4. CASE edit[d].to \notin OnDisk
    <3>1. edit[e].at \in {"move", "copy"} /\ edit[d].to = edit[e].to
      BY <1>1, <1>4, <2>1, <2>2, <2>4 DEF Advanced, OnDisk
    <3>2. edit[e].to \in Touched(edit[e])
      BY <3>1, EditShape DEF Shape, Renaming, Copying
    <3>3. Touched(edit[d]) \cap Touched(edit[e]) # {}
      BY <2>2, <3>1, <3>2
    <3>4. Touched(edit[d]) \cup Touched(edit[e]) \subseteq blurred
      BY <2>1, <3>3 DEF Apart
    <3> QED BY <1>2, <2>1, <2>2, <3>4
  <2> QED BY <2>3, <2>4
<1> QED BY <1>3, <1>4 DEF Apart

LEMMA ApartWhileIngesting ==
  ASSUME Shape, Apart, Ingestion, MeetRequests, UNCHANGED edit
  PROVE  Apart'
<1>1. ASSUME NEW e \in Editors, edit[e].at \in {"move", "copy"}, edit[e].to \in OnDisk'
      PROVE  edit[e].to \in blurred'
  <2>1. edit[e].to \in Names /\ edit[e].to \in Touched(edit[e])
    BY <1>1, EditShape DEF Shape, Renaming, Copying
  <2>2. edit[e].to \in InFlight
    BY <2>1 DEF InFlight
  <2>3. edit[e].to \in OnDisk \/ disk'[edit[e].to] # disk[edit[e].to]
    BY <1>1 DEF OnDisk
  <2> QED BY <1>1, <2>2, <2>3 DEF Apart, MeetRequests
<1>2. blurred \subseteq blurred'
  BY DEF MeetRequests
<1> QED BY <1>1, <1>2 DEF Apart

LEMMA ApartAfterDeath ==
  ASSUME Die
  PROVE  Apart'
<1>1. \A e \in Editors : edit'[e] = Idle
  BY DEF Die
<1>2. Idle.at \notin {"move", "copy"} /\ Touched(Idle) = {}
  BY DEF Idle, Touched
<1> QED BY <1>1, <1>2 DEF Apart

LEMMA NotOverwriting ==
  ASSUME Shape, Apart, [Next]_vars, NEW n \in OnDisk
  PROVE  disk'[n] \in {NoFile, disk[n]} \/ clashed' \/ n \in blurred'
<1>0. n \in Names
  BY DEF OnDisk
<1>1. ASSUME NEW e \in Editors, Edit(e)
      PROVE  disk'[n] = disk[n]
  BY <1>1, Opens DEF Opened
<1>2. ASSUME NEW e \in Editors, Finish(e)
      PROVE  disk'[n] \in {NoFile, disk[n]} \/ n \in blurred'
  <2>1. PICK r : Advanced(e, r)
    BY <1>2, Advances
  <2> QED BY <1>0, <2>1 DEF Advanced, Apart
<1>3. CASE Ingestion
  BY <1>0, <1>3, IngestionAdds DEF Shape
<1>4. CASE Die
  BY <1>0, <1>4, Deaths DEF Shape, Die
<1>5. CASE UNCHANGED vars
  BY <1>5 DEF vars, ivars
<1> QED BY <1>1, <1>2, <1>3, <1>4, <1>5 DEF Next

-----------------------------------------------------------------------------
(* Tags and notes follow their artifact.                                   *)

LEMMA UnderwayCases ==
  ASSUME NEW r, NEW n, EditOK(r)
  PROVE  /\ r.at \in {"check", "write", "found"} => (Underway(r, n) <=> ByWill(r, n))
         /\ r.at \in {"movetags", "copytags"} /\ n = r.to => (Underway(r, n) <=> TagsToCome(r))
         /\ r.at \in {"movenote", "copynote"} /\ n = r.to => (Underway(r, n) <=> NoteToCome(r))
         /\ r.at \in {"movetags", "movenote"} /\ n # r.to => (Underway(r, n) <=> Left(n))
         /\ r.at \in {"idle", "move", "copy", "unlink"} => (Underway(r, n) <=> Annotated(n))
         /\ r.at \in {"copytags", "copynote"} /\ n # r.to => (Underway(r, n) <=> Annotated(n))
BY DEF Underway

LEMMA UnderwayNext ==
  ASSUME NEW r, NEW n, EditOK(r)
  PROVE  /\ r.at \in {"check", "write", "found"} => (Underway(r, n)' <=> ByWill(r, n)')
         /\ r.at \in {"movetags", "copytags"} /\ n = r.to => (Underway(r, n)' <=> TagsToCome(r)')
         /\ r.at \in {"movenote", "copynote"} /\ n = r.to => (Underway(r, n)' <=> NoteToCome(r)')
         /\ r.at \in {"movetags", "movenote"} /\ n # r.to => (Underway(r, n)' <=> Left(n)')
         /\ r.at \in {"idle", "move", "copy", "unlink"} => (Underway(r, n)' <=> Annotated(n)')
         /\ r.at \in {"copytags", "copynote"} /\ n # r.to => (Underway(r, n)' <=> Annotated(n)')
BY DEF Underway

LEMMA RowsSame ==
  ASSUME NEW n, tags'[n] = tags[n], notes'[n] = notes[n]
  PROVE  /\ TagsOf(n)' = TagsOf(n) /\ NoteOf(n)' = NoteOf(n) /\ (HasRow(n)' <=> HasRow(n))
         /\ meant'[n] = meant[n] => (Annotated(n)' <=> Annotated(n)) /\ (Left(n)' <=> Left(n))
<1>1. TagsOf(n)' = TagsOf(n) /\ NoteOf(n)' = NoteOf(n) /\ (HasRow(n)' <=> HasRow(n))
  BY DEF TagsOf, NoteOf, HasRow
<1> QED BY <1>1 DEF Annotated, Left

LEMMA UnderwaySame ==
  ASSUME NEW r, EditOK(r), NEW n \in Touched(r), Underway(r, n),
         meant'[n] = meant[n], tags'[n] = tags[n], notes'[n] = notes[n],
         r.at \in Renaming \cup Copying => tags'[r.from] = tags[r.from] /\ notes'[r.from] = notes[r.from]
  PROVE  Underway(r, n)'
<1>1. /\ TagsOf(n)' = TagsOf(n) /\ NoteOf(n)' = NoteOf(n) /\ (HasRow(n)' <=> HasRow(n))
      /\ (Annotated(n)' <=> Annotated(n)) /\ (Left(n)' <=> Left(n))
  BY RowsSame
<1>2. r.at \in {"idle", "check", "write", "found", "unlink"} \cup Renaming \cup Copying
  BY EditShape
<1>3. CASE r.at \in {"check", "write", "found"}
  BY <1>1, <1>3, UnderwayCases, UnderwayNext DEF ByWill
<1>4. CASE r.at \in {"movetags", "copytags"} /\ n = r.to
  <2>1. TagsOf(r.from)' = TagsOf(r.from) /\ NoteOf(r.from)' = NoteOf(r.from)
    BY <1>4, RowsSame DEF Renaming, Copying
  <2> QED BY <1>1, <1>4, <2>1, UnderwayCases, UnderwayNext DEF TagsToCome
<1>5. CASE r.at \in {"movenote", "copynote"} /\ n = r.to
  <2>1. NoteOf(r.from)' = NoteOf(r.from)
    BY <1>5, RowsSame DEF Renaming, Copying
  <2> QED BY <1>1, <1>5, <2>1, UnderwayCases, UnderwayNext DEF NoteToCome
<1>6. CASE r.at \in {"movetags", "movenote", "copytags", "copynote"} /\ n # r.to
  BY <1>1, <1>6, UnderwayCases, UnderwayNext
<1>7. CASE r.at \in {"idle", "move", "copy", "unlink"}
  BY <1>1, <1>7, UnderwayCases, UnderwayNext
<1> QED BY <1>2, <1>3, <1>4, <1>5, <1>6, <1>7 DEF Renaming, Copying

LEMMA WasUnderway ==
  ASSUME Follows, ~clashed, NEW n \in Names, Sure(n)
  PROVE  /\ n \notin InFlight => Annotated(n)
         /\ \A e \in Editors : n \in Touched(edit[e]) => Underway(edit[e], n)
BY DEF Follows

\* A request goes on with what it touches, and leaves the rest alone.
LEMMA FollowsStep ==
  ASSUME Shape, Apart, Follows, NEW e \in Editors,
         NEW r, EditOK(r), edit' = [edit EXCEPT ![e] = r], Touched(r) \subseteq Touched(edit[e]),
         blurred \subseteq blurred', UNCHANGED clashed,
         \A n \in Names \ Touched(edit[e]) :
           /\ disk'[n] = disk[n] /\ meant'[n] = meant[n] /\ tags'[n] = tags[n] /\ notes'[n] = notes[n]
           /\ n \in haunted => n \in haunted',
         \A n \in Touched(edit[e]) : disk'[n] = NoFile => meant'[n] = Bare,
         r.at \in {"check", "write", "found"} =>
           \A n \in DOMAIN r.will : disk'[n] # NoFile \/ n \in blurred' \/ HasRow(n)',
         ~clashed => \A n \in Touched(edit[e]) : Sure(n)' =>
           /\ n \in Touched(r) => Underway(r, n)'
           /\ n \notin Touched(r) => Annotated(n)'
  PROVE  Follows'
<1>1. /\ edit'[e] = r /\ \A d \in Editors : d # e => edit'[d] = edit[d]
      /\ \A d \in Editors : Touched(edit[d]) \subseteq Names /\ EditOK(edit[d])
  BY EditChange, EditShape DEF Shape
<1>2. \A n \in Names \ OnDisk' : meant'[n] = Bare
  BY DEF Follows, OnDisk
<1>3. ASSUME NEW d \in Editors, d # e, NEW n \in Touched(edit[d]), n \in Touched(edit[e])
      PROVE  n \in blurred'
  <2>1. Touched(edit[d]) \cap Touched(edit[e]) # {}
    BY <1>3
  <2> QED BY <1>3, <2>1 DEF Apart
<1>4. ASSUME NEW d \in Editors, edit'[d].at \in {"check", "write", "found"}, NEW n \in DOMAIN edit'[d].will
      PROVE  n \in OnDisk' \/ n \in blurred' \/ HasRow(n)'
  <2>1. CASE d = e
    <3>1. n \in Names
      BY <1>1, <1>4, <2>1, EditShape
    <3> QED BY <1>1, <1>4, <2>1, <3>1 DEF OnDisk
  <2>2. CASE d # e
    <3>1. edit'[d] = edit[d] /\ n \in Touched(edit[d]) /\ n \in Names
      BY <1>1, <1>4, <2>2, EditShape
    <3>2. n \in OnDisk \/ n \in blurred \/ HasRow(n)
      BY <1>4, <3>1 DEF Follows
    <3>3. CASE n \in Touched(edit[e])
      BY <1>3, <2>2, <3>1, <3>3
    <3>4. CASE n \notin Touched(edit[e])
      BY <3>1, <3>2, <3>4, RowsSame DEF OnDisk
    <3> QED BY <3>3, <3>4
  <2> QED BY <2>1, <2>2
<1>5. ASSUME ~clashed, NEW n \in Names, Sure(n)'
      PROVE  /\ n \notin InFlight' => Annotated(n)'
             /\ \A d \in Editors : n \in Touched(edit'[d]) => Underway(edit[d], n)'
  <2>0. n \notin blurred /\ n \notin blurred' /\ n \in OnDisk' /\ n \notin haunted'
    BY <1>5 DEF Sure
  <2>1. CASE n \in Touched(edit[e])
    <3>1. ASSUME NEW d \in Editors, n \in Touched(edit'[d])
          PROVE  d = e
      BY <1>1, <1>3, <2>0, <2>1, <3>1
    <3>2. n \in Touched(r) => n \in InFlight'
      BY <1>1 DEF InFlight
    <3>3. /\ n \in Touched(r) => Underway(r, n)'
          /\ n \notin Touched(r) => Annotated(n)'
      BY <1>5, <2>1
    <3>4. ASSUME NEW d \in Editors, n \in Touched(edit'[d])
          PROVE  Underway(edit[d], n)'
      <4>1. edit'[d] = r
        BY <1>1, <3>1, <3>4
      <4> QED BY <3>3, <3>4, <4>1 DEF Underway, ByWill, TagsToCome, NoteToCome, Left, Annotated
    <3> QED BY <3>2, <3>3, <3>4
  <2>2. CASE n \notin Touched(edit[e])
    <3>0. /\ disk'[n] = disk[n] /\ meant'[n] = meant[n] /\ tags'[n] = tags[n] /\ notes'[n] = notes[n]
          /\ Sure(n)
      BY <1>5, <2>0, <2>2 DEF Sure, OnDisk
    <3>1. n \notin InFlight' => n \notin InFlight
      BY <1>1, <2>2 DEF InFlight
    <3>2. n \notin InFlight' => Annotated(n)'
      BY <1>5, <3>0, <3>1, WasUnderway, RowsSame
    <3>3. ASSUME NEW d \in Editors, n \in Touched(edit'[d])
          PROVE  Underway(edit[d], n)'
      <4>1. d # e /\ edit'[d] = edit[d]
        BY <1>1, <2>2, <3>3
      <4>2. PICK j : j = edit[d]
        OBVIOUS
      <4>3. EditOK(j) /\ n \in Touched(j) /\ Underway(j, n)
        BY <1>1, <1>5, <3>0, <3>3, <4>1, <4>2, WasUnderway
      <4>4. j.at \in Renaming \cup Copying => tags'[j.from] = tags[j.from] /\ notes'[j.from] = notes[j.from]
        <5>1. j.at \in Renaming \cup Copying => j.from \in Names /\ j.from \in Touched(j)
          BY <4>3, EditShape
        <5>2. Touched(edit[d]) \cap Touched(edit[e]) # {} => n \in blurred
          BY <4>1, <4>2, <4>3 DEF Apart
        <5> QED BY <2>0, <4>2, <5>1, <5>2
      <4>5. Underway(j, n)'
        BY <3>0, <4>3, <4>4, UnderwaySame
      <4>6. edit'[d] = j
        BY <4>1, <4>2
      <4> QED BY <4>5, <4>6 DEF Underway, ByWill, TagsToCome, NoteToCome, Left, Annotated
    <3> QED BY <3>2, <3>3
  <2> QED BY <2>1, <2>2
<1> QED BY <1>2, <1>4, <1>5 DEF Follows

\* A step that writes rows only.
LEMMA FollowsRows ==
  ASSUME Shape, Apart, Follows, NEW e \in Editors,
         NEW r, EditOK(r), edit' = [edit EXCEPT ![e] = r], Touched(r) \subseteq Touched(edit[e]),
         UNCHANGED <<ivars, meant, blurred, haunted, borrowed>>,
         \A n \in Names \ Touched(edit[e]) : tags'[n] = tags[n] /\ notes'[n] = notes[n],
         r.at \in {"check", "write", "found"} =>
           \A n \in DOMAIN r.will : n \in OnDisk \/ n \in blurred \/ HasRow(n)',
         \A n \in Touched(edit[e]) : Sure(n) /\ Underway(edit[e], n) =>
           /\ n \in Touched(r) => Underway(r, n)'
           /\ n \notin Touched(r) => Annotated(n)'
  PROVE  Follows'
<1>1. UNCHANGED <<disk, clashed, meant, blurred, haunted, borrowed>> /\ OnDisk' = OnDisk
  BY DEF ivars, history, OnDisk
<1>2. Touched(edit[e]) \subseteq Names
  BY EditShape DEF Shape
<1>3. \A n \in Touched(edit[e]) : disk'[n] = NoFile => meant'[n] = Bare
  BY <1>1, <1>2 DEF Follows, OnDisk
<1>4. \A n \in Names : Sure(n)' <=> Sure(n)
  BY <1>1 DEF Sure
<1>5. ~clashed => \A n \in Touched(edit[e]) : Sure(n)' =>
        /\ n \in Touched(r) => Underway(r, n)'
        /\ n \notin Touched(r) => Annotated(n)'
  BY <1>2, <1>4, WasUnderway
<1>6. \A n \in Names \ Touched(edit[e]) :
        /\ disk'[n] = disk[n] /\ meant'[n] = meant[n] /\ tags'[n] = tags[n] /\ notes'[n] = notes[n]
        /\ n \in haunted => n \in haunted'
  BY <1>1
<1>7. r.at \in {"check", "write", "found"} =>
        \A n \in DOMAIN r.will : disk'[n] # NoFile \/ n \in blurred' \/ HasRow(n)'
  BY <1>1 DEF OnDisk
<1>8. blurred \subseteq blurred' /\ UNCHANGED clashed
  BY <1>1
<1> QED BY <1>3, <1>5, <1>6, <1>7, <1>8, FollowsStep

LEMMA FollowsCheck ==
  ASSUME Shape, Apart, Follows, NEW e \in Editors, Check(e)
  PROVE  Follows'
<1>0. PICK n \in DOMAIN edit[e].will :
       IF n \in OnDisk
       THEN edit' = [edit EXCEPT ![e] = [at |-> "found", field |-> edit[e].field,
                                         checked |-> TRUE, will |-> edit[e].will, cur |-> n]]
       ELSE NextFile(e, n)
  BY DEF Check
<1>1. /\ UNCHANGED <<ivars, meant, blurred, haunted, borrowed>> /\ UNCHANGED <<tags, notes>>
      /\ edit[e].at = "check" /\ EditOK(edit[e]) /\ Touched(edit[e]) = DOMAIN edit[e].will
      /\ Touched(edit[e]) \subseteq Names
  BY EditShape DEF Check, rows, Shape
<1>2. \A m \in Names : /\ TagsOf(m)' = TagsOf(m) /\ NoteOf(m)' = NoteOf(m) /\ (HasRow(m)' <=> HasRow(m))
                       /\ meant'[m] = meant[m] /\ tags'[m] = tags[m] /\ notes'[m] = notes[m]
  BY <1>1, RowsSame
<1>3. \A m \in DOMAIN edit[e].will : m \in OnDisk \/ m \in blurred \/ HasRow(m)'
  BY <1>1, <1>2 DEF Follows
<1>4. ASSUME NEW r, EditOK(r), r.at \in {"check", "write", "found"}, r.field = edit[e].field,
             NEW m \in Names, r.will[m] = edit[e].will[m], Underway(edit[e], m)
      PROVE  Underway(r, m)'
  <2>1. ByWill(edit[e], m)
    BY <1>1, <1>4, UnderwayCases
  <2>2. ByWill(r, m)'
    BY <1>2, <1>4, <2>1 DEF ByWill
  <2> QED BY <1>4, <2>2, UnderwayNext
<1>5. CASE n \in OnDisk
  <2>1. PICK r : r = [at |-> "found", field |-> edit[e].field, checked |-> TRUE, will |-> edit[e].will, cur |-> n]
    OBVIOUS
  <2>2. r.at = "found" /\ r.field = edit[e].field /\ r.will = edit[e].will /\ r.cur = n
    BY <2>1
  <2>3. WillOK(r)
    BY <1>1, <2>2, EditShape DEF WillOK
  <2>4. EditOK(r)
    BY <2>1, <2>2, <2>3 DEF EditOK
  <2>5. Touched(r) = Touched(edit[e])
    BY <1>1, <2>2, <2>4, EditShape
  <2>6. edit' = [edit EXCEPT ![e] = r]
    BY <1>0, <1>5, <2>1
  <2>7. \A m \in Touched(edit[e]) : Underway(edit[e], m) => Underway(r, m)'
    BY <1>1, <1>4, <2>2, <2>4
  <2>8. \A m \in DOMAIN r.will : m \in OnDisk \/ m \in blurred \/ HasRow(m)'
    BY <1>3, <2>2
  <2>9. /\ \A m \in Names \ Touched(edit[e]) : tags'[m] = tags[m] /\ notes'[m] = notes[m]
        /\ UNCHANGED <<ivars, meant, blurred, haunted, borrowed>>
    BY <1>1
  <2> QED BY <2>4, <2>5, <2>6, <2>7, <2>8, <2>9, FollowsRows
<1>6. CASE n \notin OnDisk
  <2>1. PICK r : /\ edit' = [edit EXCEPT ![e] = r] /\ EditOK(r)
                 /\ r.at \in {"idle", "check", "write"}
                 /\ Touched(r) = Touched(edit[e]) \ {n}
                 /\ r.at # "idle" => /\ r.field = edit[e].field /\ DOMAIN r.will = DOMAIN edit[e].will \ {n}
                                     /\ \A m \in DOMAIN r.will : r.will[m] = edit[e].will[m]
    BY <1>0, <1>1, <1>6, NextFiles
  <2>2. r.at = "idle" => Touched(r) = {}
    BY <2>1, EditShape
  <2>3. \A m \in Touched(edit[e]) : Sure(m) /\ Underway(edit[e], m) =>
          /\ m \in Touched(r) => Underway(r, m)'
          /\ m \notin Touched(r) => Annotated(m)'
    <3>1. \A m \in Touched(r) : r.at # "idle" /\ m \in DOMAIN r.will
      BY <1>1, <2>1, <2>2
    <3>2. \A m \in Touched(r) : Underway(edit[e], m) => Underway(r, m)'
      BY <1>1, <1>4, <2>1, <3>1
    <3>3. ~Sure(n)
      BY <1>6 DEF Sure
    <3> QED BY <2>1, <3>2, <3>3
  <2>4. r.at \in {"check", "write", "found"} => \A m \in DOMAIN r.will : m \in OnDisk \/ m \in blurred \/ HasRow(m)'
    BY <1>3, <2>1
  <2>5. /\ \A m \in Names \ Touched(edit[e]) : tags'[m] = tags[m] /\ notes'[m] = notes[m]
        /\ UNCHANGED <<ivars, meant, blurred, haunted, borrowed>> /\ Touched(r) \subseteq Touched(edit[e])
    BY <1>1, <2>1
  <2> QED BY <2>1, <2>3, <2>4, <2>5, FollowsRows
<1> QED BY <1>5, <1>6

LEMMA FollowsWrite ==
  ASSUME Shape, Apart, Follows, NEW e \in Editors,
         edit[e].at \in {"write", "found"}, NEW n \in DOMAIN edit[e].will, WriteRow(e, n)
  PROVE  Follows'
<1>1. /\ UNCHANGED <<ivars, meant, blurred, haunted, borrowed>> /\ UNCHANGED meant
      /\ EditOK(edit[e]) /\ Touched(edit[e]) = DOMAIN edit[e].will
      /\ Touched(edit[e]) \subseteq Names
  BY EditShape DEF WriteRow, Shape
<1>2. PICK r : /\ edit' = [edit EXCEPT ![e] = r] /\ EditOK(r)
               /\ r.at \in {"idle", "check", "write"}
               /\ Touched(r) = Touched(edit[e]) \ {n}
               /\ r.at # "idle" => /\ r.field = edit[e].field /\ DOMAIN r.will = DOMAIN edit[e].will \ {n}
                                   /\ \A m \in DOMAIN r.will : r.will[m] = edit[e].will[m]
  BY NextFiles DEF WriteRow
<1>3. /\ n \in Names
      /\ edit[e].field = "tags" => /\ tags' = [tags EXCEPT ![n] = Row(edit[e].will[n])] /\ UNCHANGED notes
      /\ edit[e].field # "tags" => /\ notes' = [notes EXCEPT ![n] = Row(edit[e].will[n])] /\ UNCHANGED tags
  BY Writes
<1>4. \A m \in Names \ {n} : tags'[m] = tags[m] /\ notes'[m] = notes[m]
  <2>1. tags \in [Names -> TagRows \cup {NoRow}] /\ notes \in [Names -> NoteRows \cup {NoRow}]
    BY DEF Shape, ATypeOK
  <2>2. CASE edit[e].field = "tags"
    BY <1>3, <2>1, <2>2
  <2>3. CASE edit[e].field # "tags"
    BY <1>3, <2>1, <2>3
  <2> QED BY <2>2, <2>3
<1>5. \A m \in Names \ {n} : TagsOf(m)' = TagsOf(m) /\ NoteOf(m)' = NoteOf(m) /\ (HasRow(m)' <=> HasRow(m))
  BY <1>4, RowsSame
<1>6. \A m \in Touched(r) : Underway(edit[e], m) => Underway(r, m)'
  <2>1. ASSUME NEW m \in Touched(r), Underway(edit[e], m)
        PROVE  Underway(r, m)'
    <3>1. r.at \in {"check", "write"} /\ m \in DOMAIN r.will /\ m \in Names /\ m # n
      BY <1>1, <1>2, <2>1, EditShape
    <3>2. ByWill(edit[e], m)
      BY <1>1, <2>1, UnderwayCases
    <3>3. ByWill(r, m)'
      BY <1>1, <1>2, <1>5, <3>1, <3>2 DEF ByWill
    <3> QED BY <1>2, <3>1, <3>3, UnderwayNext
  <2> QED BY <2>1
<1>7. Underway(edit[e], n) => Annotated(n)'
  <2>1. Underway(edit[e], n) => ByWill(edit[e], n)
    BY <1>1, UnderwayCases
  <2>2. CASE edit[e].field = "tags"
    <3>1. tags'[n] = Row(edit[e].will[n]) /\ notes'[n] = notes[n]
      BY <1>3, <2>2 DEF Shape, ATypeOK
    <3>2. TagsOf(n)' = edit[e].will[n] /\ NoteOf(n)' = NoteOf(n)
      BY <3>1, RowsRead DEF TagsOf, NoteOf, Shape
    <3> QED BY <1>1, <2>1, <2>2, <3>2 DEF ByWill, Annotated
  <2>3. CASE edit[e].field # "tags"
    <3>1. notes'[n] = Row(edit[e].will[n]) /\ tags'[n] = tags[n]
      BY <1>3, <2>3 DEF Shape, ATypeOK
    <3>2. NoteOf(n)' = edit[e].will[n] /\ TagsOf(n)' = TagsOf(n)
      BY <3>1, RowsRead DEF TagsOf, NoteOf, Shape
    <3> QED BY <1>1, <2>1, <2>3, <3>2 DEF ByWill, Annotated
  <2> QED BY <2>2, <2>3
<1>8. r.at \in {"check", "write", "found"} => \A m \in DOMAIN r.will : m \in OnDisk \/ m \in blurred \/ HasRow(m)'
  BY <1>1, <1>2, <1>5 DEF Follows
<1>9. \A m \in Touched(edit[e]) : Sure(m) /\ Underway(edit[e], m) =>
        /\ m \in Touched(r) => Underway(r, m)'
        /\ m \notin Touched(r) => Annotated(m)'
  BY <1>2, <1>6, <1>7
<1>10. /\ \A m \in Names \ Touched(edit[e]) : tags'[m] = tags[m] /\ notes'[m] = notes[m]
       /\ Touched(r) \subseteq Touched(edit[e])
  BY <1>1, <1>2, <1>4
<1> QED BY <1>1, <1>2, <1>8, <1>9, <1>10, FollowsRows

LEMMA FollowsMoveTags ==
  ASSUME Shape, Apart, Follows, NEW e \in Editors, MoveTags(e)
  PROVE  Follows'
<1>0. PICK from \in Names, to \in Names : /\ from = edit[e].from /\ to = edit[e].to /\ from # to
                                          /\ Touched(edit[e]) = {from, to}
  BY EditShape DEF MoveTags, Shape, Renaming
<1>1. /\ UNCHANGED <<ivars, meant, blurred, haunted, borrowed>> /\ UNCHANGED <<notes, meant>>
      /\ edit[e].at = "movetags" /\ EditOK(edit[e]) /\ tags \in [Names -> TagRows \cup {NoRow}]
  BY DEF MoveTags, Shape, ATypeOK
<1>2. /\ Underway(edit[e], to) => TagsToCome(edit[e])
      /\ Underway(edit[e], from) => Left(from)
  BY <1>0, <1>1, UnderwayCases
<1>3. CASE Conflict(tags, from, to)
  <2>1. Answered(e) /\ UNCHANGED tags
    BY <1>0, <1>3 DEF MoveTags
  <2>2. ~Underway(edit[e], to) /\ ~Underway(edit[e], from)
    BY <1>0, <1>2, <1>3 DEF Conflict, TagsToCome, Left, HasRow
  <2> QED BY <1>0, <1>1, <2>1, <2>2, Answers, FollowsRows
<1>4. CASE ~Conflict(tags, from, to)
  <2>1. tags' = Rekeyed(tags, from, to) /\ GoOn(e, "movenote")
    BY <1>0, <1>4 DEF MoveTags
  <2>2. PICK r : /\ edit' = [edit EXCEPT ![e] = r] /\ EditOK(r)
                 /\ r.at = "movenote" /\ r.from = from /\ r.to = to
                 /\ Touched(r) = Touched(edit[e])
    BY <1>0, <1>1, <2>1, GoesOn DEF Renaming
  <2>3. \A n \in Names \ {from, to} : tags'[n] = tags[n]
    BY <1>1, <2>1 DEF Rekeyed
  <2>4. TagsToCome(edit[e]) => NoteToCome(r)'
    <3>1. ASSUME TagsToCome(edit[e])
          PROVE  notes'[to] = NoRow /\ TagsOf(to)' = meant'[to].tags /\ NoteOf(from)' = meant'[to].note
      <4>1. /\ tags[to] = NoRow /\ notes[to] = NoRow
            /\ TagsOf(from) = meant[to].tags /\ NoteOf(from) = meant[to].note
        BY <1>0, <3>1 DEF TagsToCome, HasRow
      <4>2. tags'[to] = tags[from]
        BY <1>0, <1>1, <2>1, <4>1 DEF Rekeyed
      <4> QED BY <1>1, <4>1, <4>2 DEF TagsOf, NoteOf
    <3> QED BY <2>2, <3>1 DEF NoteToCome
  <2>5. Left(from) => Left(from)'
    BY <1>0, <1>1, <2>1 DEF Left, HasRow, Rekeyed
  <2>6. \A n \in Touched(edit[e]) : Underway(edit[e], n) => Underway(r, n)'
    BY <1>0, <1>2, <2>2, <2>4, <2>5, UnderwayNext
  <2>7. \A n \in Names \ Touched(edit[e]) : tags'[n] = tags[n] /\ notes'[n] = notes[n]
    BY <1>0, <1>1, <2>3
  <2> QED BY <1>1, <2>2, <2>6, <2>7, FollowsRows
<1> QED BY <1>3, <1>4

LEMMA FollowsMoveNote ==
  ASSUME Shape, Apart, Follows, NEW e \in Editors, MoveNote(e)
  PROVE  Follows'
<1>0. PICK from \in Names, to \in Names : /\ from = edit[e].from /\ to = edit[e].to /\ from # to
                                          /\ Touched(edit[e]) = {from, to}
  BY EditShape DEF MoveNote, Shape, Renaming
<1>1. /\ UNCHANGED <<ivars, meant, blurred, haunted, borrowed>> /\ UNCHANGED <<tags, meant>> /\ Answered(e)
      /\ edit[e].at = "movenote" /\ EditOK(edit[e]) /\ notes \in [Names -> NoteRows \cup {NoRow}]
      /\ notes' = IF Conflict(notes, from, to) THEN notes ELSE Rekeyed(notes, from, to)
  BY <1>0 DEF MoveNote, MovedNote, Shape, ATypeOK
<1>2. /\ Underway(edit[e], to) => NoteToCome(edit[e])
      /\ Underway(edit[e], from) => Left(from)
  BY <1>0, <1>1, UnderwayCases
<1>3. \A n \in Names \ {from, to} : notes'[n] = notes[n]
  BY <1>1 DEF Rekeyed
<1>4. Underway(edit[e], to) => Annotated(to)'
  <2>1. ASSUME NoteToCome(edit[e])
        PROVE  TagsOf(to)' = meant'[to].tags /\ NoteOf(to)' = meant'[to].note
    <3>1. notes[to] = NoRow /\ TagsOf(to) = meant[to].tags /\ NoteOf(from) = meant[to].note
      BY <1>0, <2>1 DEF NoteToCome
    <3>2. notes'[to] = notes[from]
      BY <1>0, <1>1, <3>1 DEF Rekeyed, Conflict
    <3> QED BY <1>1, <3>1, <3>2 DEF TagsOf, NoteOf
  <2> QED BY <1>2, <2>1 DEF Annotated
<1>5. Underway(edit[e], from) => Annotated(from)'
  <2>1. ASSUME Left(from)
        PROVE  TagsOf(from)' = meant'[from].tags /\ NoteOf(from)' = meant'[from].note
    <3>1. tags[from] = NoRow /\ notes[from] = NoRow /\ meant[from] = Bare
      BY <2>1 DEF Left, HasRow
    <3>2. notes'[from] = NoRow
      BY <1>1, <3>1 DEF Rekeyed
    <3> QED BY <1>1, <3>1, <3>2 DEF TagsOf, NoteOf, Bare
  <2> QED BY <1>2, <2>1 DEF Annotated
<1>6. \A n \in Names \ Touched(edit[e]) : tags'[n] = tags[n] /\ notes'[n] = notes[n]
  BY <1>0, <1>1, <1>3
<1>7. \A n \in Touched(edit[e]) : Underway(edit[e], n) => Annotated(n)'
  BY <1>0, <1>4, <1>5
<1>8. PICK r : r = Idle /\ edit' = [edit EXCEPT ![e] = r] /\ EditOK(r) /\ r.at = "idle" /\ Touched(r) = {}
  BY <1>1, Answers
<1>9. Touched(r) \subseteq Touched(edit[e])
  BY <1>8
<1> QED BY <1>1, <1>6, <1>7, <1>8, <1>9, FollowsRows

LEMMA FollowsCopyRows ==
  ASSUME Shape, Apart, Follows, NEW e \in Editors, CopyTags(e) \/ CopyNote(e)
  PROVE  Follows'
<1>0. PICK from \in Names, to \in Names : /\ from = edit[e].from /\ to = edit[e].to /\ from # to
                                          /\ Touched(edit[e]) = {from, to}
  BY EditShape DEF CopyTags, CopyNote, Shape, Copying
<1>1. /\ UNCHANGED <<ivars, meant, blurred, haunted, borrowed>> /\ UNCHANGED meant /\ EditOK(edit[e])
      /\ tags \in [Names -> TagRows \cup {NoRow}] /\ notes \in [Names -> NoteRows \cup {NoRow}]
  BY DEF CopyTags, CopyNote, Shape, ATypeOK
<1>2. CASE CopyTags(e)
  <2>1. /\ UNCHANGED notes /\ GoOn(e, "copynote") /\ edit[e].at = "copytags"
        /\ tags' = IF TagsOf(from) = {} THEN tags ELSE [tags EXCEPT ![to] = tags[from]]
    BY <1>0, <1>2 DEF CopyTags
  <2>2. PICK r : /\ edit' = [edit EXCEPT ![e] = r] /\ EditOK(r)
                 /\ r.at = "copynote" /\ r.from = from /\ r.to = to
                 /\ Touched(r) = Touched(edit[e])
    BY <1>0, <1>1, <2>1, GoesOn DEF Copying
  <2>3. \A n \in Names \ {to} : tags'[n] = tags[n]
    BY <1>1, <2>1
  <2>4. TagsToCome(edit[e]) => NoteToCome(r)'
    <3>1. ASSUME TagsToCome(edit[e])
          PROVE  notes'[to] = NoRow /\ TagsOf(to)' = meant'[to].tags /\ NoteOf(from)' = meant'[to].note
      <4>1. /\ tags[to] = NoRow /\ notes[to] = NoRow
            /\ TagsOf(from) = meant[to].tags /\ NoteOf(from) = meant[to].note
        BY <1>0, <3>1 DEF TagsToCome, HasRow
      <4>2. CASE TagsOf(from) = {}
        BY <1>1, <2>1, <4>1, <4>2 DEF TagsOf, NoteOf
      <4>3. CASE TagsOf(from) # {}
        <5>1. tags'[to] = tags[from]
          BY <1>1, <2>1, <4>3
        <5> QED BY <1>1, <2>1, <4>1, <5>1 DEF TagsOf, NoteOf
      <4> QED BY <4>2, <4>3
    <3> QED BY <2>2, <3>1 DEF NoteToCome
  <2>5. Annotated(from) => Annotated(from)'
    BY <1>0, <1>1, <2>1, <2>3, RowsSame
  <2>6. \A n \in Touched(edit[e]) : Underway(edit[e], n) => Underway(r, n)'
    BY <1>0, <1>1, <2>1, <2>2, <2>4, <2>5, UnderwayCases, UnderwayNext
  <2>7. \A n \in Names \ Touched(edit[e]) : tags'[n] = tags[n] /\ notes'[n] = notes[n]
    BY <1>0, <2>1, <2>3
  <2> QED BY <1>1, <2>2, <2>6, <2>7, FollowsRows
<1>3. CASE CopyNote(e)
  <2>1. /\ UNCHANGED tags /\ Answered(e) /\ edit[e].at = "copynote"
        /\ notes' = IF NoteOf(from) = NoNote THEN notes ELSE [notes EXCEPT ![to] = notes[from]]
    BY <1>0, <1>3 DEF CopyNote
  <2>2. PICK r : r = Idle /\ edit' = [edit EXCEPT ![e] = r] /\ EditOK(r) /\ r.at = "idle" /\ Touched(r) = {}
    BY <2>1, Answers
  <2>3. \A n \in Names \ {to} : notes'[n] = notes[n]
    BY <1>1, <2>1
  <2>4. NoteToCome(edit[e]) => Annotated(to)'
    <3>1. ASSUME NoteToCome(edit[e])
          PROVE  TagsOf(to)' = meant'[to].tags /\ NoteOf(to)' = meant'[to].note
      <4>1. notes[to] = NoRow /\ TagsOf(to) = meant[to].tags /\ NoteOf(from) = meant[to].note
        BY <1>0, <3>1 DEF NoteToCome
      <4>2. CASE NoteOf(from) = NoNote
        BY <1>1, <2>1, <4>1, <4>2 DEF TagsOf, NoteOf
      <4>3. CASE NoteOf(from) # NoNote
        <5>1. notes'[to] = notes[from]
          BY <1>1, <2>1, <4>3
        <5> QED BY <1>1, <2>1, <4>1, <5>1 DEF TagsOf, NoteOf
      <4> QED BY <4>2, <4>3
    <3> QED BY <3>1 DEF Annotated
  <2>5. Annotated(from) => Annotated(from)'
    BY <1>0, <1>1, <2>1, <2>3, RowsSame
  <2>6. \A n \in Touched(edit[e]) : Underway(edit[e], n) => Annotated(n)'
    BY <1>0, <1>1, <2>1, <2>4, <2>5, UnderwayCases
  <2>7. \A n \in Names \ Touched(edit[e]) : tags'[n] = tags[n] /\ notes'[n] = notes[n]
    BY <1>0, <2>1, <2>3
  <2>8. Touched(r) \subseteq Touched(edit[e])
    BY <2>2
  <2> QED BY <1>1, <2>2, <2>6, <2>7, <2>8, FollowsRows
<1> QED BY <1>2, <1>3

\* What a name that a file comes to under takes with it.
LEMMA TakesOverSure ==
  ASSUME Shape, NEW from \in Names, NEW to \in Names, from # to, from \in OnDisk,
         TakesOver(from, to)
  PROVE  /\ blurred \subseteq blurred'
         /\ to \notin haunted' /\ to \notin blurred' => ~HasRow(to) /\ Sure(from)
         /\ \A n \in Names \ {to} : n \in haunted <=> n \in haunted'
BY DEF TakesOver, Along, Sure

LEMMA FollowsMove ==
  ASSUME Shape, Apart, Follows, NEW e \in Editors, Move(e)
  PROVE  Follows'
<1>0. PICK from \in Names, to \in Names : /\ from = edit[e].from /\ to = edit[e].to /\ from # to
                                          /\ Touched(edit[e]) = {from, to}
  BY EditShape DEF Move, Shape, Renaming
<1>1. /\ UNCHANGED <<recorded, watched, job, clock, budget, history, rows>> /\ edit[e].at = "move"
      /\ UNCHANGED <<tags, notes, clashed>> /\ EditOK(edit[e])
      /\ disk \in [Names -> Entry \cup {NoFile}] /\ meant \in [Names -> Meaning]
  BY DEF Move, Shape, IngestShape, ATypeOK, rows, history, Meaning, Texts
<1>2. CASE from \in OnDisk
  <2>1. /\ disk' = [disk EXCEPT ![to] = disk[from], ![from] = NoFile]
        /\ meant' = [meant EXCEPT ![to] = meant[from], ![from] = Bare]
        /\ TakesOver(from, to) /\ GoOn(e, "movetags")
    BY <1>0, <1>2 DEF Move
  <2>2. PICK r : /\ edit' = [edit EXCEPT ![e] = r] /\ EditOK(r)
                 /\ r.at = "movetags" /\ r.from = from /\ r.to = to
                 /\ Touched(r) = Touched(edit[e])
    BY <1>0, <1>1, <2>1, GoesOn DEF Renaming
  <2>3. /\ disk'[from] = NoFile /\ disk'[to] = disk[from]
        /\ meant'[from] = Bare /\ meant'[to] = meant[from]
        /\ \A n \in Names \ {from, to} : disk'[n] = disk[n] /\ meant'[n] = meant[n]
    BY <1>0, <1>1, <2>1
  <2>4. /\ blurred \subseteq blurred'
        /\ to \notin haunted' /\ to \notin blurred' => ~HasRow(to) /\ Sure(from)
        /\ \A n \in Names \ {to} : n \in haunted <=> n \in haunted'
    BY <1>0, <1>2, <2>1, TakesOverSure
  <2>5. ~clashed /\ Sure(to)' => Underway(r, to)'
    <3>1. ASSUME ~clashed, Sure(to)'
          PROVE  ~HasRow(to) /\ Sure(from) /\ Annotated(from)
      <4>1. ~HasRow(to) /\ Sure(from)
        BY <2>4, <3>1 DEF Sure
      <4>2. Underway(edit[e], from)
        BY <1>0, <3>1, <4>1, WasUnderway
      <4>3. Annotated(from)
        BY <1>1, <4>2, UnderwayCases
      <4> QED BY <4>1, <4>3
    <3>2. /\ (HasRow(to)' <=> HasRow(to)) /\ TagsOf(from)' = TagsOf(from) /\ NoteOf(from)' = NoteOf(from)
      BY <1>1, RowsSame
    <3>3. ~clashed /\ Sure(to)' => TagsToCome(r)'
      BY <2>2, <2>3, <3>1, <3>2 DEF TagsToCome, Annotated
    <3> QED BY <2>2, <3>3, UnderwayNext
  <2>6. ~Sure(from)'
    BY <2>3 DEF Sure, OnDisk
  <2>7. disk'[to] # NoFile
    BY <1>2, <2>3 DEF OnDisk
  <2>8. ~clashed => \A n \in Touched(edit[e]) : Sure(n)' =>
          /\ n \in Touched(r) => Underway(r, n)'
          /\ n \notin Touched(r) => Annotated(n)'
    BY <1>0, <2>2, <2>5, <2>6
  <2>9. \A n \in Names \ Touched(edit[e]) :
          /\ disk'[n] = disk[n] /\ meant'[n] = meant[n] /\ tags'[n] = tags[n] /\ notes'[n] = notes[n]
          /\ n \in haunted => n \in haunted'
    BY <1>0, <1>1, <2>3, <2>4
  <2>10. \A n \in Touched(edit[e]) : disk'[n] = NoFile => meant'[n] = Bare
    BY <1>0, <2>3, <2>7
  <2> QED BY <1>1, <2>2, <2>4, <2>8, <2>9, <2>10, FollowsStep
<1>3. CASE from \notin OnDisk
  <2>1. Answered(e) /\ UNCHANGED <<disk, meant, haunted, blurred, borrowed>>
    BY <1>0, <1>3 DEF Move
  <2>2. UNCHANGED <<ivars, meant, blurred, haunted, borrowed>>
    BY <1>1, <2>1 DEF ivars, watched, history
  <2>3. PICK r : r = Idle /\ edit' = [edit EXCEPT ![e] = r] /\ EditOK(r) /\ r.at = "idle" /\ Touched(r) = {}
    BY <2>1, Answers
  <2>4. \A n \in Touched(edit[e]) : Underway(edit[e], n) => Annotated(n)'
    BY <1>1, <2>1, RowsSame, UnderwayCases
  <2>5. Touched(r) \subseteq Touched(edit[e])
    BY <2>3
  <2> QED BY <1>1, <2>2, <2>3, <2>4, <2>5, FollowsRows
<1> QED BY <1>2, <1>3

LEMMA FollowsCopy ==
  ASSUME Shape, Apart, Follows, NEW e \in Editors, Copy(e)
  PROVE  Follows'
<1>0. PICK from \in Names, to \in Names : /\ from = edit[e].from /\ to = edit[e].to /\ from # to
                                          /\ Touched(edit[e]) = {from, to}
  BY EditShape DEF Copy, Shape, Copying
<1>1. /\ UNCHANGED <<recorded, watched, job, clock, budget, history, rows>> /\ edit[e].at = "copy"
      /\ UNCHANGED <<tags, notes, clashed>> /\ EditOK(edit[e])
      /\ disk \in [Names -> Entry \cup {NoFile}] /\ meant \in [Names -> Meaning]
  BY DEF Copy, Shape, IngestShape, ATypeOK, rows, history, Meaning, Texts
<1>2. CASE from \in OnDisk
  <2>1. /\ disk' = [disk EXCEPT ![to] = disk[from]]
        /\ meant' = [meant EXCEPT ![to] = meant[from]]
        /\ TakesOver(from, to) /\ GoOn(e, "copytags")
    BY <1>0, <1>2 DEF Copy
  <2>2. PICK r : /\ edit' = [edit EXCEPT ![e] = r] /\ EditOK(r)
                 /\ r.at = "copytags" /\ r.from = from /\ r.to = to
                 /\ Touched(r) = Touched(edit[e])
    BY <1>0, <1>1, <2>1, GoesOn DEF Copying
  <2>3. /\ disk'[to] = disk[from] /\ meant'[to] = meant[from]
        /\ \A n \in Names \ {to} : disk'[n] = disk[n] /\ meant'[n] = meant[n]
    BY <1>0, <1>1, <2>1
  <2>4. /\ blurred \subseteq blurred'
        /\ to \notin haunted' /\ to \notin blurred' => ~HasRow(to) /\ Sure(from)
        /\ \A n \in Names \ {to} : n \in haunted <=> n \in haunted'
    BY <1>0, <1>2, <2>1, TakesOverSure
  <2>5. ~clashed /\ Sure(from) => Annotated(from)
    BY <1>0, <1>1, WasUnderway, UnderwayCases
  <2>6. /\ (HasRow(to)' <=> HasRow(to)) /\ TagsOf(from)' = TagsOf(from) /\ NoteOf(from)' = NoteOf(from)
        /\ (Annotated(from)' <=> Annotated(from))
    BY <1>0, <1>1, <2>3, RowsSame
  <2>7. ~clashed /\ Sure(to)' => Underway(r, to)'
    <3>1. ~clashed /\ Sure(to)' => ~HasRow(to) /\ Annotated(from)
      BY <2>4, <2>5 DEF Sure
    <3>2. ~clashed /\ Sure(to)' => TagsToCome(r)'
      BY <2>2, <2>3, <2>6, <3>1 DEF TagsToCome, Annotated
    <3> QED BY <2>2, <3>2, UnderwayNext
  <2>8. ~clashed /\ Sure(from)' => Underway(r, from)'
    <3>1. Sure(from)' => Sure(from)
      BY <1>0, <1>2, <2>4 DEF Sure
    <3> QED BY <1>0, <2>2, <2>5, <2>6, <3>1, UnderwayNext
  <2>9. ~clashed => \A n \in Touched(edit[e]) : Sure(n)' =>
          /\ n \in Touched(r) => Underway(r, n)'
          /\ n \notin Touched(r) => Annotated(n)'
    BY <1>0, <2>2, <2>7, <2>8
  <2>10. \A n \in Names \ Touched(edit[e]) :
          /\ disk'[n] = disk[n] /\ meant'[n] = meant[n] /\ tags'[n] = tags[n] /\ notes'[n] = notes[n]
          /\ n \in haunted => n \in haunted'
    BY <1>0, <1>1, <2>3, <2>4
  <2>11. \A n \in Touched(edit[e]) : disk'[n] = NoFile => meant'[n] = Bare
    BY <1>0, <1>2, <2>3 DEF OnDisk
  <2> QED BY <1>1, <2>2, <2>4, <2>9, <2>10, <2>11, FollowsStep
<1>3. CASE from \notin OnDisk
  <2>1. Answered(e) /\ UNCHANGED <<disk, meant, haunted, blurred, borrowed>>
    BY <1>0, <1>3 DEF Copy
  <2>2. UNCHANGED <<ivars, meant, blurred, haunted, borrowed>>
    BY <1>1, <2>1 DEF ivars, watched, history
  <2>3. PICK r : r = Idle /\ edit' = [edit EXCEPT ![e] = r] /\ EditOK(r) /\ r.at = "idle" /\ Touched(r) = {}
    BY <2>1, Answers
  <2>4. \A n \in Touched(edit[e]) : Underway(edit[e], n) => Annotated(n)'
    BY <1>1, <2>1, RowsSame, UnderwayCases
  <2>5. Touched(r) \subseteq Touched(edit[e])
    BY <2>3
  <2> QED BY <1>1, <2>2, <2>3, <2>4, <2>5, FollowsRows
<1> QED BY <1>2, <1>3

LEMMA FollowsUnlink ==
  ASSUME Shape, Apart, Follows, NEW e \in Editors, Unlink(e)
  PROVE  Follows'
<1>0. PICK n \in edit[e].todo :
        /\ disk' = [disk EXCEPT ![n] = NoFile]
        /\ meant' = [meant EXCEPT ![n] = Bare]
        /\ IF edit[e].todo = {n} THEN Answered(e)
           ELSE edit' = [edit EXCEPT ![e] = Removing(edit[e].todo \ {n})]
  BY DEF Unlink
<1>1. /\ UNCHANGED <<tags, notes, clashed, blurred, haunted>>
      /\ edit[e].at = "unlink" /\ EditOK(edit[e]) /\ edit[e].todo \subseteq Names
      /\ Touched(edit[e]) = edit[e].todo
      /\ disk \in [Names -> Entry \cup {NoFile}] /\ meant \in [Names -> Meaning]
  BY EditShape DEF Unlink, Shape, IngestShape, ATypeOK, rows, history, Meaning, Texts
<1>2. /\ n \in Names /\ disk'[n] = NoFile /\ meant'[n] = Bare
      /\ \A m \in Names \ {n} : disk'[m] = disk[m] /\ meant'[m] = meant[m]
  BY <1>0, <1>1
<1>3. PICK r : /\ edit' = [edit EXCEPT ![e] = r] /\ EditOK(r) /\ r.at \in {"idle", "unlink"}
               /\ Touched(r) = Touched(edit[e]) \ {n}
  <2>1. CASE edit[e].todo = {n}
    BY <1>0, <1>1, <2>1, Answers
  <2>2. CASE edit[e].todo # {n}
    <3>1. PICK r : r = Removing(edit[e].todo \ {n})
      OBVIOUS
    <3>2. r.at = "unlink" /\ r.todo = edit[e].todo \ {n}
      BY <3>1 DEF Removing
    <3>3. EditOK(r)
      BY <1>1, <3>1, <3>2 DEF EditOK
    <3>4. Touched(r) = r.todo
      BY <3>2, <3>3, EditShape
    <3>5. edit' = [edit EXCEPT ![e] = r]
      BY <1>0, <2>2, <3>1
    <3> QED BY <1>1, <3>2, <3>3, <3>4, <3>5
  <2> QED BY <2>1, <2>2
<1>4. ~Sure(n)'
  BY <1>2 DEF Sure, OnDisk
<1>5. ASSUME ~clashed, NEW m \in Touched(r), Sure(m)'
      PROVE  Underway(r, m)'
  <2>1. m \in Names /\ m # n /\ m \in Touched(edit[e])
    BY <1>1, <1>3
  <2>2. Sure(m)
    BY <1>1, <1>2, <1>5, <2>1 DEF Sure, OnDisk
  <2>3. Annotated(m)
    BY <1>1, <1>5, <2>1, <2>2, WasUnderway, UnderwayCases
  <2>4. Annotated(m)'
    BY <1>1, <1>2, <2>1, <2>3, RowsSame
  <2> QED BY <1>3, <2>4, UnderwayNext
<1>6. ~clashed => \A m \in Touched(edit[e]) : Sure(m)' =>
        /\ m \in Touched(r) => Underway(r, m)'
        /\ m \notin Touched(r) => Annotated(m)'
  BY <1>3, <1>4, <1>5
<1>7. \A m \in Names \ Touched(edit[e]) :
        /\ disk'[m] = disk[m] /\ meant'[m] = meant[m] /\ tags'[m] = tags[m] /\ notes'[m] = notes[m]
        /\ m \in haunted => m \in haunted'
  BY <1>1, <1>2
<1>8. \A m \in Touched(edit[e]) : disk'[m] = NoFile => meant'[m] = Bare
  BY <1>1, <1>2 DEF Follows, OnDisk
<1>9. blurred \subseteq blurred' /\ UNCHANGED clashed /\ Touched(r) \subseteq Touched(edit[e])
  BY <1>1, <1>3
<1> QED BY <1>3, <1>6, <1>7, <1>8, <1>9, FollowsStep

LEMMA FollowsWhileFinishing ==
  ASSUME Shape, Apart, Follows, NEW e \in Editors, Finish(e)
  PROVE  Follows'
<1>1. WriteFound(e) => Follows'
  BY FollowsWrite, EditShape DEF WriteFound, Shape
<1>2. WriteUnchecked(e) => Follows'
  BY FollowsWrite DEF WriteUnchecked
<1> QED BY <1>1, <1>2, FollowsCheck, FollowsMove, FollowsMoveTags, FollowsMoveNote,
           FollowsCopy, FollowsCopyRows, FollowsUnlink DEF Finish

LEMMA FollowsWhileOpening ==
  ASSUME Shape, Follows, NEW e \in Editors, Edit(e)
  PROVE  Follows'
<1>1. PICK r : Opened(e, r)
  BY Opens
<1>2. /\ edit'[e] = r /\ \A d \in Editors : d # e => edit'[d] = edit[d]
      /\ edit[e] = Idle /\ EditOK(r) /\ blurred \subseteq blurred'
      /\ UNCHANGED <<disk, tags, notes, clashed, haunted>> /\ OnDisk' = OnDisk
      /\ \A d \in Editors : EditOK(edit[d]) /\ Touched(edit[d]) \subseteq Names
      /\ Touched(edit[e]) = {}
  BY <1>1, EditChange, EditShape DEF Opened, Shape, OnDisk, rows, history, Idle
<1>3. \A n \in Names \ OnDisk' : meant'[n] = Bare
  BY <1>1, <1>2 DEF Opened, Follows
<1>4. \A n \in Names : HasRow(n)' <=> HasRow(n)
  BY <1>2 DEF HasRow
<1>5. ASSUME NEW d \in Editors, edit'[d].at \in {"check", "write", "found"}, NEW n \in DOMAIN edit'[d].will
      PROVE  n \in OnDisk' \/ n \in blurred' \/ HasRow(n)'
  <2>0. n \in Names
    BY <1>2, <1>5, EditShape
  <2>1. CASE d = e
    BY <1>1, <1>2, <1>4, <1>5, <2>0, <2>1 DEF Opened
  <2>2. CASE d # e
    BY <1>2, <1>4, <1>5, <2>0, <2>2 DEF Follows
  <2> QED BY <2>1, <2>2
<1>6. ASSUME ~clashed, NEW n \in Names, Sure(n)'
      PROVE  /\ n \notin InFlight' => Annotated(n)'
             /\ \A d \in Editors : n \in Touched(edit'[d]) => Underway(edit[d], n)'
  <2>0. Sure(n) /\ n \in OnDisk /\ n \notin blurred'
    BY <1>2, <1>6 DEF Sure
  <2>1. CASE n \in Touched(r)
    <3>1. \A d \in Editors : n \notin Touched(edit[d])
      BY <1>1, <2>0, <2>1 DEF Opened
    <3>2. n \notin InFlight /\ n \in InFlight'
      BY <1>2, <2>1, <3>1 DEF InFlight
    <3>3. Underway(r, n)'
      BY <1>1, <1>6, <2>0, <2>1, <3>2, WasUnderway DEF Opened
    <3>4. ASSUME NEW d \in Editors, n \in Touched(edit'[d])
          PROVE  Underway(edit[d], n)'
      <4>1. edit'[d] = r
        BY <1>2, <3>1, <3>4
      <4> QED BY <3>3, <4>1 DEF Underway, ByWill, TagsToCome, NoteToCome, Left, Annotated
    <3> QED BY <3>2, <3>4
  <2>2. CASE n \notin Touched(r)
    <3>0. meant'[n] = meant[n] /\ tags'[n] = tags[n] /\ notes'[n] = notes[n]
      BY <1>1, <1>2, <2>2 DEF Opened
    <3>1. n \notin InFlight' => n \notin InFlight
      BY <1>2 DEF InFlight
    <3>2. n \notin InFlight' => Annotated(n)'
      BY <1>6, <2>0, <3>0, <3>1, WasUnderway, RowsSame
    <3>3. ASSUME NEW d \in Editors, n \in Touched(edit'[d])
          PROVE  Underway(edit[d], n)'
      <4>1. d # e /\ edit'[d] = edit[d]
        BY <1>2, <2>2, <3>3
      <4>2. PICK j : j = edit[d]
        OBVIOUS
      <4>3. EditOK(j) /\ n \in Touched(j) /\ Underway(j, n)
        BY <1>2, <1>6, <2>0, <3>3, <4>1, <4>2, WasUnderway
      <4>4. Underway(j, n)'
        BY <1>2, <3>0, <4>3, UnderwaySame
      <4>5. edit'[d] = j
        BY <4>1, <4>2
      <4> QED BY <4>4, <4>5 DEF Underway, ByWill, TagsToCome, NoteToCome, Left, Annotated
    <3> QED BY <3>2, <3>3
  <2> QED BY <2>1, <2>2
<1> QED BY <1>2, <1>3, <1>5, <1>6 DEF Follows

LEMMA FollowsWhileIngesting ==
  ASSUME Shape, Follows, Ingestion, ComeUnderRows, MeetRequests, UNCHANGED <<rows, edit, meant>>
  PROVE  Follows'
<1>1. /\ clashed => clashed'
      /\ \A n \in Names : disk'[n] # disk[n] => n \in Stamped /\ disk'[n] # NoFile
  BY IngestionAdds DEF Shape
<1>2. /\ OnDisk \subseteq OnDisk' /\ UNCHANGED <<tags, notes, meant, edit>>
      /\ haunted \subseteq haunted' /\ blurred \subseteq blurred'
  BY <1>1 DEF OnDisk, rows, ComeUnderRows, MeetRequests
<1>3. /\ \A n \in Names \ OnDisk' : meant'[n] = Bare
      /\ \A e \in Editors : edit'[e].at \in {"check", "write", "found"} =>
           \A n \in DOMAIN edit'[e].will : n \in OnDisk' \/ n \in blurred' \/ HasRow(n)'
  BY <1>2 DEF Follows, HasRow
<1>4. InFlight' = InFlight /\ \A n : Annotated(n)' <=> Annotated(n)
  BY <1>2 DEF InFlight, Annotated, TagsOf, NoteOf
<1>5. \A e \in Editors, n \in Names : Underway(edit[e], n)' <=> Underway(edit[e], n)
  BY <1>2 DEF Underway, ByWill, TagsToCome, NoteToCome, Left, Annotated, TagsOf, NoteOf, HasRow
<1>6. ASSUME ~clashed', NEW n \in Names, Sure(n)'
      PROVE  /\ n \notin InFlight => Annotated(n)
             /\ \A e \in Editors : n \in Touched(edit[e]) => Underway(edit[e], n)
  <2>1. CASE n \in OnDisk
    <3>1. Sure(n) /\ ~clashed
      BY <1>1, <1>2, <1>6, <2>1 DEF Sure
    <3> QED BY <3>1, WasUnderway
  <2>2. CASE n \notin OnDisk
    <3>1. /\ disk[n] = NoFile /\ disk'[n] # NoFile /\ ~HasRow(n) /\ n \notin blurred'
          /\ meant[n] = Bare
      BY <1>1, <1>2, <1>6, <2>2 DEF Sure, OnDisk, ComeUnderRows, Follows
    <3>2. Left(n) /\ Annotated(n)
      BY <3>1, RowsRead DEF Left, Annotated, Bare, Shape
    <3>3. \A e \in Editors : n \notin Touched(edit[e])
      BY <3>1 DEF MeetRequests, InFlight
    <3> QED BY <3>2, <3>3
  <2> QED BY <2>1, <2>2
<1>7. ASSUME ~clashed', NEW n \in Names, Sure(n)'
      PROVE  /\ n \notin InFlight' => Annotated(n)'
             /\ \A e \in Editors : n \in Touched(edit'[e]) => Underway(edit[e], n)'
  BY <1>2, <1>4, <1>5, <1>6, <1>7
<1> QED BY <1>3, <1>7 DEF Follows

LEMMA FollowsAfterDeath ==
  ASSUME Shape, Follows, Die
  PROVE  Follows'
<1>1. clashed => clashed'
  BY Deaths DEF Shape, Die
<1>2. /\ UNCHANGED <<tags, notes>> /\ \A e \in Editors : edit'[e] = Idle
      /\ blurred' = blurred \cup InFlight /\ haunted \subseteq haunted'
      /\ \A n \in Names : meant'[n] = IF disk'[n] = NoFile THEN Bare ELSE meant[n]
  BY DEF Die, rows, ComeUnderRows
<1>3. Idle.at \notin {"check", "write", "found"} /\ Touched(Idle) = {}
  BY DEF Idle, Touched
<1>4. \A n \in Names \ OnDisk' : meant'[n] = Bare
  BY <1>2 DEF OnDisk
<1>5. ASSUME ~clashed', NEW n \in Names, Sure(n)'
      PROVE  Annotated(n)'
  <2>1. n \notin blurred /\ n \notin InFlight /\ n \notin haunted' /\ disk'[n] # NoFile /\ meant'[n] = meant[n]
    BY <1>2, <1>5 DEF Sure, OnDisk
  <2>2. CASE n \in OnDisk
    <3>1. Sure(n) /\ ~clashed
      BY <1>1, <1>2, <1>5, <2>1, <2>2 DEF Sure
    <3>2. Annotated(n)
      BY <2>1, <3>1, WasUnderway
    <3> QED BY <1>2, <2>1, <3>2, RowsSame
  <2>3. CASE n \notin OnDisk
    <3>1. ~HasRow(n) /\ meant[n] = Bare
      BY <2>1, <2>3 DEF Die, ComeUnderRows, OnDisk, Follows
    <3>2. Annotated(n)
      BY <3>1, RowsRead DEF Annotated, Bare, Shape
    <3> QED BY <1>2, <2>1, <3>2, RowsSame
  <2> QED BY <2>2, <2>3
<1>6. \A e \in Editors : edit'[e].at \notin {"check", "write", "found"} /\ Touched(edit'[e]) = {}
  BY <1>2, <1>3
<1> QED BY <1>4, <1>5, <1>6 DEF Follows

-----------------------------------------------------------------------------
(* The invariant.                                                          *)

LEMMA AtFirst == Init => IInv
<1> SUFFICES ASSUME Init PROVE IInv
  OBVIOUS
<1>1. /\ recorded = {} /\ twice = {} /\ seen = {} /\ ~clashed
      /\ \A p \in Threads : job[p] = Idle
      /\ \A e \in Editors : edit[e] = Idle
  BY DEF Init, IngestInit
<1>2. Idle.at = "idle" /\ Idle \notin DocJob /\ Touched(Idle) = {} /\ Watcher \in Threads
  BY DEF Idle, DocJob, Touched, Threads
<1>3. Shape
  BY ShapeAtFirst
<1>4. Kept
  BY <1>1, <1>2 DEF Kept, RefusedOnlyIfKept
<1>5. Once
  BY <1>1, <1>2 DEF Once, NotTwice, WorkedOnBy
<1>6. TakenUp
  BY <1>1, <1>2 DEF TakenUp, TakenUpMeansIngested
<1>7. Belong /\ Raw
  <2>1. \A n \in Stamped : disk[n] = NoFile
    BY <1>3, StampedNames DEF Init, IngestInit, Shape, IngestShape, IsBudget, IsShelf
  <2> QED BY <1>1, <1>2, <2>1 DEF Belong, ConversionsBelong, Raw, OnDiskWhole
<1>8. Apart
  BY <1>1, <1>2 DEF Apart
<1>9. Follows
  <2>1. \A n \in Names : tags[n] = NoRow /\ notes[n] = NoRow /\ meant[n] = Bare
    BY DEF Init
  <2>2. \A n \in Names : Annotated(n)
    BY <2>1 DEF Annotated, TagsOf, NoteOf, Bare
  <2> QED BY <1>1, <1>2, <2>1, <2>2 DEF Follows
<1> QED BY <1>3, <1>4, <1>5, <1>6, <1>7, <1>8, <1>9 DEF IInv

LEMMA InvariantWhileEditing ==
  ASSUME IInv, NEW e \in Editors, Edit(e) \/ Finish(e)
  PROVE  IInv'
<1>1. UNCHANGED <<recorded, watched, job, history>>
  BY Opens, Advances DEF IInv, Opened, Advanced
<1>2. Kept'
  BY <1>1, KeptOtherwise DEF IInv, history
<1>3. Once'
  BY <1>1, OnceOtherwise DEF IInv, history
<1>4. TakenUp'
  BY <1>1, TakenUpOtherwise DEF IInv, watched
<1>5. Raw'
  BY StampedWhileEditing, RawOtherwise DEF IInv
<1> QED BY <1>2, <1>3, <1>4, <1>5, ShapeWhileEditing, BelongWhileEditing, ApartWhileEditing, ApartWhileFinishing,
           FollowsWhileOpening, FollowsWhileFinishing DEF IInv

LEMMA RestOfTakenUp ==
  ASSUME IngestShape, TakenUp, Ingestion
  PROVE  TakenUp'
<1>1. ASSUME NEW c \in Clients, Upload(c) \/ ImportZip(c)
      PROVE  TakenUp'
  <2>1. UNCHANGED <<recorded, watched>> /\ \E files : job' = [job EXCEPT ![c] = Ingesting(files)]
    BY <1>1 DEF Upload, ImportZip, Begin
  <2>2. job'[Watcher] = job[Watcher]
    BY <2>1, ThreadsAssumption
  <2> QED BY <2>1, <2>2, TakenUpOtherwise DEF watched
<1>2. ASSUME NEW p \in Threads \ {Watcher}, Ingest(p)
      PROVE  TakenUp'
  <2>1. UNCHANGED <<folder, seen, missed>> /\ recorded \subseteq recorded'
    BY <1>2 DEF Ingest, Look, Save, Convert, Record, WriteFails, watched
  <2>2. job'[Watcher] = job[Watcher]
    BY <1>2, JobSteps DEF Threads
  <2> QED BY <2>1, <2>2, TakenUpOtherwise
<1>3. CASE Tick
  BY <1>3, TakenUpOtherwise DEF Tick, watched
<1> QED BY <1>1, <1>2, <1>3, TakenUpWhileIngesting, TakenUpWhileWatching, IngestionSteps DEF Quiet

LEMMA InvariantWhileIngesting ==
  ASSUME IInv, Ingestion, ComeUnderRows, MeetRequests, UNCHANGED <<rows, edit, meant, borrowed>>
  PROVE  IInv'
<1>0. IngestShape
  BY DEF IInv, Shape
<1>1. Kept' /\ Once'
  <2>1. CASE Quiet
    <3>1. UNCHANGED <<recorded, whole, twice, contested>>
      BY <1>0, <2>1, QuietSteps DEF history
    <3>2. \A p \in Threads : job'[p] = job[p] \/ job'[p].at \in {"idle", "read", "look"}
      BY <1>0, <2>1, QuietSteps
    <3> QED BY <3>1, <3>2, KeptOtherwise, OnceOtherwise DEF IInv
  <2>2. ASSUME NEW p \in Threads, Ingest(p)
        PROVE  Kept' /\ Once'
    BY <1>0, <2>2, KeptWhileIngesting, OnceWhileIngesting DEF IInv
  <2> QED BY <2>1, <2>2, IngestionSteps
<1>2. TakenUp'
  BY <1>0, RestOfTakenUp DEF IInv
<1>3. Belong' /\ Raw'
  BY <1>0, BelongWhileIngesting, RawWhileIngesting DEF IInv
<1>4. Apart'
  BY ApartWhileIngesting DEF IInv
<1>5. Follows'
  BY FollowsWhileIngesting DEF IInv
<1>6. Shape'
  BY ShapeWhileIngesting DEF IInv
<1> QED BY <1>1, <1>2, <1>3, <1>4, <1>5, <1>6 DEF IInv

LEMMA InvariantAfterDeath ==
  ASSUME IInv, Die
  PROVE  IInv'
<1>0. IngestShape /\ Restart /\ UNCHANGED borrowed
  BY DEF IInv, Shape, Die
<1>1. UNCHANGED <<recorded, whole, twice, contested>> /\ \A p \in Threads : job'[p].at = "idle"
  BY <1>0 DEF Restart, Idle
<1>2. Kept' /\ Once'
  BY <1>1, KeptOtherwise, OnceOtherwise DEF IInv
<1>3. TakenUp' /\ Belong' /\ Raw' /\ Apart'
  BY <1>0, TakenUpAfterDeath, BelongAfterDeath, RawAfterDeath, ApartAfterDeath DEF IInv
<1>4. Shape' /\ Follows'
  BY ShapeAfterDeath, FollowsAfterDeath DEF IInv
<1> QED BY <1>2, <1>3, <1>4 DEF IInv

LEMMA InvariantUntouched ==
  ASSUME IInv, UNCHANGED vars
  PROVE  IInv'
<1>1. /\ UNCHANGED <<disk, recorded, folder, seen, missed, job, clashed, whole, twice, contested>>
      /\ UNCHANGED <<tags, notes, edit, meant, blurred, haunted, borrowed>>
  BY DEF vars, ivars, evars, rows, watched, history
<1>2. Shape'
  BY ShapeUntouched DEF IInv
<1>3. Kept' /\ Once' /\ TakenUp'
  BY <1>1, KeptOtherwise, OnceOtherwise, TakenUpOtherwise DEF IInv
<1>4. Belong' /\ Raw'
  BY <1>1, BelongOtherwise, RawOtherwise DEF IInv, Shape
<1>5. Apart'
  BY <1>1 DEF IInv, Apart, OnDisk
<1>6. Follows'
  BY <1>1 DEF IInv, Follows, Sure, OnDisk, InFlight, Annotated, Underway, ByWill, TagsToCome, NoteToCome,
              Left, HasRow, TagsOf, NoteOf
<1> QED BY <1>2, <1>3, <1>4, <1>5, <1>6 DEF IInv

LEMMA InvariantStep == IInv /\ [Next]_vars => IInv'
BY InvariantWhileEditing, InvariantWhileIngesting, InvariantAfterDeath, InvariantUntouched DEF Next

\* The inductive invariant: whatever the threads, the editors and the watcher do,
\* and wherever the process dies, every part of IInv holds (ingest_*_bytes of
\* webapp/ingestion.py, webapp/watcher.py and the artifact routes of webapp/main.py).
THEOREM ArtifactsInvariant == Spec => []IInv
BY AtFirst, InvariantStep, PTL DEF Spec

-----------------------------------------------------------------------------
(* Tables: what the loop of cleanse_records comes to, by induction on the  *)
(* records.  The library's theorems of induction have an operator for a    *)
(* parameter; the least element of a set needs none.                       *)

Before == {p \in Nat \X Nat : p[1] < p[2]}

LEMMA Least ==
  ASSUME NEW S \in SUBSET Nat, S # {}
  PROVE  \E x \in S : \A y \in S : x <= y
<1>1. IsWellFoundedOn(Before, Nat)
  <2>1. OpToRel(<, Nat) = Before
    BY DEF OpToRel, Before
  <2> QED BY <2>1, NatLessThanWellFounded
<1>2. PICK x \in S : \A y \in S : ~(<<y, x>> \in Before)
  BY <1>1, WFMin
<1>3. \A y \in S : x \in Nat /\ y \in Nat /\ ~(y < x)
  BY <1>2 DEF Before
<1>4. \A y \in S : x <= y
  BY <1>3
<1> QED BY <1>4

LEMMA Induction ==
  ASSUME NEW S \in SUBSET Nat, 0 \in S, \A n \in S : n + 1 \in S
  PROVE  S = Nat
<1> SUFFICES ASSUME Nat \ S # {} PROVE FALSE
  OBVIOUS
<1>1. PICK T \in SUBSET Nat : T = Nat \ S
  OBVIOUS
<1>2. PICK x \in T : \A y \in T : x <= y
  BY <1>1, Least
<1>3. x # 0 /\ x - 1 \in Nat /\ x - 1 + 1 = x /\ ~(x <= x - 1)
  BY <1>1, <1>2
<1>4. x - 1 \in S
  BY <1>1, <1>2, <1>3
<1> QED BY <1>1, <1>3, <1>4

\* The turns are what their definition says: a function that does so exists.
LEMMA Unrolled ==
  ASSUME NEW table, Len(table) \in Nat
  PROVE  /\ Turns(table)[0] = NoRows
         /\ \A i \in 1..Len(table) : Turns(table)[i] = CleanOne(Turns(table)[i - 1], table[i])
<1> DEFINE Q == {n \in Nat : \E f : f = [i \in 0..n |-> IF i = 0 THEN NoRows ELSE CleanOne(f[i - 1], table[i])]}
<1>1. 0 \in Q
  <2>1. PICK f : f = [i \in 0..0 |-> NoRows]
    OBVIOUS
  <2>2. f = [i \in 0..0 |-> IF i = 0 THEN NoRows ELSE CleanOne(f[i - 1], table[i])]
    BY <2>1
  <2> QED BY <2>2
<1>2. ASSUME NEW n \in Q PROVE n + 1 \in Q
  <2>1. PICK f : f = [i \in 0..n |-> IF i = 0 THEN NoRows ELSE CleanOne(f[i - 1], table[i])]
    BY <1>2
  <2>2. PICK g : g = [i \in 0..n+1 |-> IF i <= n THEN f[i] ELSE CleanOne(f[n], table[n + 1])]
    OBVIOUS
  <2>3. \A i \in 0..n+1 : g[i] = IF i = 0 THEN NoRows ELSE CleanOne(g[i - 1], table[i])
    BY <2>1, <2>2
  <2>4. g = [i \in 0..n+1 |-> IF i = 0 THEN NoRows ELSE CleanOne(g[i - 1], table[i])]
    BY <2>2, <2>3
  <2>5. n + 1 \in Nat
    OBVIOUS
  <2> QED BY <2>4, <2>5
<1>3. Len(table) \in Q
  <2>1. PICK q \in SUBSET Nat : q = Q
    OBVIOUS
  <2>2. q = Nat
    BY <1>1, <1>2, <2>1, Induction
  <2> QED BY <2>1, <2>2
<1>4. \E f : f = [i \in 0..Len(table) |-> IF i = 0 THEN NoRows ELSE CleanOne(f[i - 1], table[i])]
  BY <1>3
<1>5. Turns(table) = [i \in 0..Len(table) |-> IF i = 0 THEN NoRows ELSE CleanOne(Turns(table)[i - 1], table[i])]
  BY <1>4 DEF Turns
<1>6. PICK t : t = Turns(table)
  OBVIOUS
<1>7. t = [i \in 0..Len(table) |-> IF i = 0 THEN NoRows ELSE CleanOne(t[i - 1], table[i])]
  BY <1>5, <1>6
<1> QED BY <1>6, <1>7

\* A row whose headers differ is blank before as after.
LEMMA BlankAlike ==
  ASSUME NEW row, row \in Seq(ToSet(row)),
         \A i, j \in DOMAIN row : Trim[row[i].key] = Trim[row[j].key] => i = j
  PROVE  AllBlank(row) <=> BlankRow(CleanRow(row))
<1> DEFINE LastOf(h) == CHOOSE i \in Column(row, h) : \A j \in Column(row, h) : j <= i
<1>1. \A i \in DOMAIN row : i \in Nat
  OBVIOUS
<1>2. ASSUME NEW i \in DOMAIN row
      PROVE  LastOf(Trim[row[i].key]) = i
  <2>1. Column(row, Trim[row[i].key]) = {i}
    BY DEF Column
  <2> QED BY <1>1, <2>1
<1>3. \A i \in DOMAIN row : /\ Trim[row[i].key] \in DOMAIN CleanRow(row)
                            /\ CleanRow(row)[Trim[row[i].key]] = CleanCell(row[i].value)
  BY <1>2 DEF CleanRow
<1>4. \A h \in DOMAIN CleanRow(row) : \E i \in DOMAIN row : h = Trim[row[i].key]
  BY DEF CleanRow
<1> QED BY <1>3, <1>4 DEF AllBlank, BlankRow

LEMMA First ==
  ASSUME NEW table, IsTable(table), NEW i \in DOMAIN table
  PROVE  LET m == FirstAs(table, CleanRow(table[i]))
         IN /\ m \in DOMAIN table /\ m \in Nat /\ m <= i
            /\ CleanRow(table[m]) = CleanRow(table[i])
<1>1. DOMAIN table = 1..Len(table) /\ Len(table) \in Nat
  BY DEF IsTable
<1>2. PICK r : r = CleanRow(table[i])
  OBVIOUS
<1>3. PICK S \in SUBSET Nat : S = {j \in DOMAIN table : CleanRow(table[j]) = r}
  <2>1. PICK D \in SUBSET Nat : D = DOMAIN table
    BY <1>1
  <2>2. {j \in D : CleanRow(table[j]) = r} \in SUBSET Nat
    OBVIOUS
  <2> QED BY <2>1, <2>2
<1>4. \E x \in S : \A y \in S : x <= y
  BY <1>2, <1>3, Least
<1>5. \E m \in DOMAIN table : CleanRow(table[m]) = r /\ \A j \in DOMAIN table : CleanRow(table[j]) = r => m <= j
  BY <1>3, <1>4
<1>6. /\ FirstAs(table, r) \in DOMAIN table /\ CleanRow(table[FirstAs(table, r)]) = r
      /\ \A j \in DOMAIN table : CleanRow(table[j]) = r => FirstAs(table, r) <= j
  BY <1>5 DEF FirstAs
<1> QED BY <1>1, <1>2, <1>6

\* What has come of the first n records: IsCleanCopy, of so much of the table.
Came(table, n) == {CleanRow(table[i]) : i \in 1..n}
CleanSoFar(acc, table, n) ==
  /\ acc = [rows |-> acc.rows, blank |-> acc.blank, duplicate |-> acc.duplicate]
  /\ acc.rows \in Seq(Came(table, n)) /\ acc.blank \in Nat /\ acc.duplicate \in Nat
  /\ n = Len(acc.rows) + acc.blank + acc.duplicate
  /\ \A i, j \in DOMAIN acc.rows : acc.rows[i] = acc.rows[j] => i = j
  /\ HeadersApart(table) =>
       /\ ToSet(acc.rows) = {r \in Came(table, n) : ~BlankRow(r)}
       /\ \A i, j \in DOMAIN acc.rows : i < j => FirstAs(table, acc.rows[i]) < FirstAs(table, acc.rows[j])

LEMMA SoFar ==
  ASSUME NEW table, NEW n \in Nat, NEW rs \in Seq(Came(table, n)), NEW b \in Nat, NEW d \in Nat,
         n = Len(rs) + b + d, \A i, j \in DOMAIN rs : rs[i] = rs[j] => i = j,
         HeadersApart(table) =>
           /\ ToSet(rs) = {r \in Came(table, n) : ~BlankRow(r)}
           /\ \A i, j \in DOMAIN rs : i < j => FirstAs(table, rs[i]) < FirstAs(table, rs[j])
  PROVE  CleanSoFar([rows |-> rs, blank |-> b, duplicate |-> d], table, n)
<1>1. PICK k : k = [rows |-> rs, blank |-> b, duplicate |-> d]
  OBVIOUS
<1>2. k.rows = rs /\ k.blank = b /\ k.duplicate = d
  BY <1>1
<1> QED BY <1>1, <1>2 DEF CleanSoFar

LEMMA OneTurn ==
  ASSUME NEW table, IsTable(table), NEW n \in Nat, n + 1 \in DOMAIN table,
         NEW acc, CleanSoFar(acc, table, n)
  PROVE  CleanSoFar(CleanOne(acc, table[n + 1]), table, n + 1)
<1>0. DOMAIN table = 1..Len(table) /\ Len(table) \in Nat
  BY DEF IsTable
<1>1. PICK row : row = table[n + 1]
  OBVIOUS
<1>2. PICK c : c = CleanRow(row)
  OBVIOUS
<1>3. PICK rs, b, d : /\ acc = [rows |-> rs, blank |-> b, duplicate |-> d]
                      /\ rs \in Seq(Came(table, n)) /\ b \in Nat /\ d \in Nat /\ n = Len(rs) + b + d
  BY DEF CleanSoFar
<1>4. Came(table, n + 1) = Came(table, n) \cup {c}
  BY <1>1, <1>2 DEF Came
<1>5. /\ \A i, j \in DOMAIN rs : rs[i] = rs[j] => i = j
      /\ HeadersApart(table) =>
           /\ ToSet(rs) = {r \in Came(table, n) : ~BlankRow(r)}
           /\ \A i, j \in DOMAIN rs : i < j => FirstAs(table, rs[i]) < FirstAs(table, rs[j])
  BY <1>3 DEF CleanSoFar
<1>6. HeadersApart(table) => (AllBlank(row) <=> BlankRow(c))
  <2>1. row \in ToSet(table)
    BY <1>1 DEF ToSet
  <2>2. row \in Seq(ToSet(row))
    BY <2>1 DEF IsTable
  <2>3. HeadersApart(table) => \A i, j \in DOMAIN row : Trim[row[i].key] = Trim[row[j].key] => i = j
    BY <2>1 DEF HeadersApart
  <2> QED BY <1>2, <2>2, <2>3, BlankAlike
<1>7. rs \in Seq(Came(table, n + 1))
  BY <1>3, <1>4
<1>8. CASE AllBlank(row)
  <2>1. CleanOne(acc, row) = [rows |-> rs, blank |-> b + 1, duplicate |-> d]
    BY <1>3, <1>8 DEF CleanOne
  <2>2. HeadersApart(table) => ToSet(rs) = {r \in Came(table, n + 1) : ~BlankRow(r)}
    BY <1>4, <1>5, <1>6, <1>8
  <2>10. PICK m \in Nat, k \in Nat, l \in Nat : m = n + 1 /\ k = b + 1 /\ l = d
    BY <1>3
  <2>11. rs \in Seq(Came(table, m)) /\ m = Len(rs) + k + l
    BY <1>1, <1>3, <1>5, <1>7, <2>1, <2>2, <2>10
  <2>12. CleanSoFar([rows |-> rs, blank |-> k, duplicate |-> l], table, m)
    BY <1>1, <1>3, <1>5, <1>7, <2>1, <2>2, <2>10, <2>11, SoFar
  <2> QED BY <1>1, <2>1, <2>10, <2>12
<1>9. CASE ~AllBlank(row) /\ IsDuplicate(acc, row)
  <2>1. CleanOne(acc, row) = [rows |-> rs, blank |-> b, duplicate |-> d + 1]
    BY <1>3, <1>9 DEF CleanOne
  <2>2. c \in ToSet(rs)
    BY <1>2, <1>3, <1>9 DEF IsDuplicate
  <2>3. HeadersApart(table) => ToSet(rs) = {r \in Came(table, n + 1) : ~BlankRow(r)}
    BY <1>4, <1>5, <2>2
  <2>10. PICK m \in Nat, k \in Nat, l \in Nat : m = n + 1 /\ k = b /\ l = d + 1
    BY <1>3
  <2>11. rs \in Seq(Came(table, m)) /\ m = Len(rs) + k + l
    BY <1>1, <1>3, <1>5, <1>7, <2>1, <2>3, <2>10
  <2>12. CleanSoFar([rows |-> rs, blank |-> k, duplicate |-> l], table, m)
    BY <1>1, <1>3, <1>5, <1>7, <2>1, <2>3, <2>10, <2>11, SoFar
  <2> QED BY <1>1, <2>1, <2>10, <2>12
<1>10. CASE ~AllBlank(row) /\ ~IsDuplicate(acc, row)
  <2>0. PICK ss : ss = Append(rs, c)
    OBVIOUS
  <2>1. CleanOne(acc, row) = [rows |-> ss, blank |-> b, duplicate |-> d]
    BY <1>2, <1>3, <1>10, <2>0 DEF CleanOne
  <2>2. c \notin ToSet(rs)
    BY <1>2, <1>3, <1>10 DEF IsDuplicate
  <2>3. /\ ss \in Seq(Came(table, n + 1)) /\ Len(ss) = Len(rs) + 1 /\ DOMAIN ss = 1..Len(rs) + 1
        /\ ss[Len(rs) + 1] = c /\ \A i \in DOMAIN rs : ss[i] = rs[i]
        /\ DOMAIN rs = 1..Len(rs) /\ Len(rs) \in Nat
    BY <1>3, <1>4, <1>7, <2>0
  <2>4. ToSet(ss) = ToSet(rs) \cup {c}
    BY <2>3 DEF ToSet
  <2>5. \A i, j \in DOMAIN ss : ss[i] = ss[j] => i = j
    <3>1. \A i \in DOMAIN rs : rs[i] # c
      BY <2>2 DEF ToSet
    <3> QED BY <1>5, <2>3, <3>1
  <2>6. HeadersApart(table) => ToSet(ss) = {r \in Came(table, n + 1) : ~BlankRow(r)}
    BY <1>4, <1>5, <1>6, <1>10, <2>4
  <2>7. ASSUME HeadersApart(table), NEW i \in DOMAIN ss, NEW j \in DOMAIN ss, i < j
        PROVE  FirstAs(table, ss[i]) < FirstAs(table, ss[j])
    <3>1. CASE j \in DOMAIN rs
      BY <1>5, <2>3, <2>7, <3>1
    <3>2. CASE j \notin DOMAIN rs
      <4>1. i \in DOMAIN rs /\ ss[i] = rs[i] /\ ss[j] = c
        BY <2>3, <2>7, <3>2
      <4>2. rs[i] \in Came(table, n)
        BY <1>3, <4>1
      <4>3. PICK k \in 1..n : rs[i] = CleanRow(table[k])
        BY <4>2 DEF Came
      <4>4. FirstAs(table, rs[i]) \in Nat /\ FirstAs(table, rs[i]) <= n
        <5>1. k \in DOMAIN table
          BY <1>0
        <5>2. FirstAs(table, rs[i]) \in Nat /\ FirstAs(table, rs[i]) <= k
          BY <4>3, <5>1, First
        <5> QED BY <5>2
      <4>5. FirstAs(table, c) \in DOMAIN table /\ CleanRow(table[FirstAs(table, c)]) = c
        BY <1>1, <1>2, First
      <4>6. ~(FirstAs(table, c) \in 1..n)
        <5>1. FirstAs(table, c) \in 1..n => c \in Came(table, n)
          BY <4>5 DEF Came
        <5> QED BY <1>5, <1>6, <1>10, <2>2, <2>7, <5>1
      <4> QED BY <1>0, <4>1, <4>4, <4>5, <4>6
    <3> QED BY <3>1, <3>2
  <2>8. n + 1 = Len(ss) + b + d
    BY <1>3, <2>3
  <2>10. PICK m \in Nat, k \in Nat, l \in Nat : m = n + 1 /\ k = b /\ l = d
    BY <1>3
  <2>11. ss \in Seq(Came(table, m)) /\ m = Len(ss) + k + l
    BY <1>1, <1>3, <2>1, <2>3, <2>5, <2>6, <2>7, <2>8, <2>10
  <2>12. CleanSoFar([rows |-> ss, blank |-> k, duplicate |-> l], table, m)
    BY <1>1, <1>3, <2>1, <2>3, <2>5, <2>6, <2>7, <2>8, <2>10, <2>11, SoFar
  <2> QED BY <1>1, <2>1, <2>10, <2>12
<1> QED BY <1>1, <1>8, <1>9, <1>10

\* cleanse_records, for every table: it keeps one of each of the rows that are not
\* blank, in the order of their first occurrence, and counts the others.
THEOREM CleanseCleans ==
  ASSUME NEW table, IsTable(table)
  PROVE  IsCleanCopy(Cleanse(table), table)
<1>0. DOMAIN table = 1..Len(table) /\ Len(table) \in Nat
  BY DEF IsTable
<1>1. CleanSoFar(Turns(table)[0], table, 0)
  <2>1. Turns(table)[0] = NoRows
    BY <1>0, Unrolled
  <2>2. Came(table, 0) = {}
    BY DEF Came
  <2>3. CleanSoFar(NoRows, table, 0)
    <3>1. PICK e : e = << >>
      OBVIOUS
    <3>2. NoRows = [rows |-> e, blank |-> 0, duplicate |-> 0] /\ DOMAIN e = {} /\ Len(e) = 0 /\ e \in Seq(Came(table, 0))
      BY <3>1 DEF NoRows
    <3>3. ToSet(e) = {}
      BY <3>2 DEF ToSet
    <3> QED BY <2>2, <3>2, <3>3 DEF CleanSoFar
  <2> QED BY <2>1, <2>3
<1>2. PICK S \in SUBSET Nat : S = {n \in Nat : n <= Len(table) => CleanSoFar(Turns(table)[n], table, n)}
  OBVIOUS
<1>3. ASSUME NEW n \in S PROVE n + 1 \in S
  <2>1. CASE n + 1 <= Len(table)
    <3>1. CleanSoFar(Turns(table)[n], table, n) /\ n + 1 \in DOMAIN table
      BY <1>0, <1>2, <2>1
    <3>2. Turns(table)[n + 1] = CleanOne(Turns(table)[n], table[n + 1])
      BY <1>0, <3>1, Unrolled
    <3>3. CleanSoFar(Turns(table)[n + 1], table, n + 1)
      BY <3>1, <3>2, OneTurn
    <3> QED BY <1>2, <3>3
  <2>2. CASE ~(n + 1 <= Len(table))
    BY <1>2, <2>2
  <2> QED BY <2>1, <2>2
<1>4. CleanSoFar(Cleanse(table), table, Len(table))
  <2>1. S = Nat
    BY <1>1, <1>2, <1>3, Induction
  <2> QED BY <1>0, <1>2, <2>1 DEF Cleanse
<1> QED BY <1>0, <1>4 DEF CleanSoFar, IsCleanCopy, Came

-----------------------------------------------------------------------------
(* What follows from it.                                                   *)

LEMMA Types == Shape => TypeOK /\ ATypeOK
BY JobTypes DEF Shape, IngestShape, TypeOK

\* The state stays of its type: artifacts/, ingested_files, the watched folder,
\* the jobs of webapp/ingestion.py, and the rows of artifact_tags and artifact_notes.
THEOREM ArtifactsTypesHold == Spec => [](TypeOK /\ ATypeOK)
<1>1. IInv => TypeOK /\ ATypeOK
  BY Types DEF IInv
<1> QED BY <1>1, ArtifactsInvariant, PTL

\* A hash in ingested_files stands for a file that was stored whole, conversion and
\* all: record_ingested_hash comes last in every ingest_*_bytes.
THEOREM RefusedWasKept == Spec => []RefusedOnlyIfKept
<1>1. IInv => RefusedOnlyIfKept
  BY DEF IInv, Kept
<1> QED BY <1>1, ArtifactsInvariant, PTL

\* Between find_ingested_hash and record_ingested_hash there is no lock, and only a
\* second thread in that gap makes a content go on record twice.
THEOREM RecordedOnce == Spec => []NotTwice
<1>1. IInv => NotTwice
  BY DEF IInv, Once
<1> QED BY <1>1, ArtifactsInvariant, PTL

\* What FilesystemWatcher has marked as seen and is done with is on record, but for
\* the files it passes over for one of the reasons noted in missed.
THEOREM TakenUpIsIngested == Spec => []TakenUpMeansIngested
<1>1. IInv => TakenUpMeansIngested
  BY DEF IInv, TakenUp
<1> QED BY <1>1, ArtifactsInvariant, PTL

\* A JSON file beside a table under its name is the conversion of that table, through
\* torn writes, deletes, sweeps, restarts, renames and copies, unless a user gave one
\* of the two names to a file, or files came under a name in use (save_artifact).
THEOREM ConversionsFollow == Spec => []ConversionsBelong
<1>1. IInv => ConversionsBelong
  BY DEF IInv, Belong
<1> QED BY <1>1, ArtifactsInvariant, PTL

\* And so the JSON file beside an uploaded table is its clean copy, for every table:
\* ingest_csv_bytes and ingest_xlsx_bytes write what cleanse_records made of it.
THEOREM TablesComeOutClean == Spec => []TablesAreClean
<1>1. ASSUME IInv PROVE TablesAreClean
  <2> SUFFICES ASSUME ~clashed, NEW n \in Stamped, n[3] = "table", OwnNames(n),
                      OnDiskWhole(n), OnDiskWhole(SidecarOf(n)),
                      disk[n].body.data \notin Pdfs
               PROVE  IsCleanCopy(disk[SidecarOf(n)].body.data, Table(disk[n].body.data))
    BY DEF TablesAreClean
  <2>1. PICK d : d = disk[n].body.data
    OBVIOUS
  <2>2. d \in Data \ Pdfs /\ Converted[d] # Unreadable
    BY <1>1, <2>1 DEF IInv, Raw, Readable, OwnNames
  <2>3. disk[SidecarOf(n)].body.data = Converted[d]
    BY <1>1, <2>1, Files DEF IInv, Belong, ConversionsBelong
  <2>4. IsTable(Table(d)) /\ Converted[d] = Cleanse(Table(d))
    BY <2>2, TableAssumption
  <2>5. IsCleanCopy(Converted[d], Table(d))
    BY <2>4, CleanseCleans
  <2> QED BY <2>1, <2>3, <2>5
<1> QED BY <1>1, ArtifactsInvariant, PTL

\* No step of any request or of the watcher writes over an artifact: the 409 of the
\* rename and duplicate routes, and the millisecond in the name of an upload, with
\* the exceptions of the property.
THEOREM NothingOverwritten == Spec => NothingIsOverwritten
<1>1. IInv /\ [Next]_vars =>
        [\A n \in OnDisk : disk'[n] \in {NoFile, disk[n]} \/ clashed' \/ n \in blurred']_vars
  BY NotOverwriting DEF IInv
<1> QED BY <1>1, ArtifactsInvariant, PTL DEF Spec, NothingIsOverwritten

\* The tags and the note of an artifact are what users gave it, through any sequence
\* of the tag, note, rename, duplicate, delete and purge routes: the rows keyed by
\* file name go where the file goes.
THEOREM AnnotationsHold == Spec => []AnnotationsFollow
<1>1. ASSUME IInv PROVE AnnotationsFollow
  <2>1. ASSUME ~clashed, NEW n \in Settled \ haunted
        PROVE  Annotated(n)
    BY <1>1, <2>1 DEF IInv, Follows, Sure, Settled, OnDisk
  <2> QED BY <2>1 DEF AnnotationsFollow
<1> QED BY <1>1, ArtifactsInvariant, PTL
=============================================================================
