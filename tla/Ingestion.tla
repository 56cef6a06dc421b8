----------------------------- MODULE Ingestion -----------------------------
(***************************************************************************)
(* webapp/ingestion.py, webapp/watcher.py and the ingest routes of         *)
(* webapp/main.py: files that are uploaded, fetched, unzipped or dropped   *)
(* into watched_input/ end up in artifacts/ with their conversion beside   *)
(* them, and the hash of each is recorded so that it is not taken twice.   *)
(*                                                                         *)
(* One file is ingested in steps under no common lock, by a thread that    *)
(* serves a request or by the watcher's own:                               *)
(*                                                                         *)
(*     look -> save -> convert -> record          (a JSON file: no convert) *)
(*                                                                         *)
(* A step that writes may fail (the next file of a zip is tried all the    *)
(* same), and the process may die between or inside any two of them.       *)
(***************************************************************************)
EXTENDS Tables

CONSTANTS
  Clients,      \* threads that serve an ingest request
  Watcher,      \* the thread of FilesystemWatcher
  Stems,        \* file names without their extension
  Data,         \* contents of files; equal contents, equal hashes
  Half,         \* Half[d]: what is there of d while it is still being copied
  Pdfs,         \* contents that are turned into text and hold no records
  Table(_),     \* the records in the other contents
  Converted,    \* Converted[d]: the records or the text made of d
  Unreadable,   \* stands for the conversion of what cannot be parsed
  TooLarge,     \* contents beyond MAX_UPLOAD_BYTES
  Given,        \* artifact names users choose; they may look like stamped ones
  Budgets,      \* bound: what the environment may do, one of these per behaviour
  MaxClock      \* bound: milliseconds that pass

\* "table" and "pdf" leave a conversion, "json" does not, "other" is refused.
Kinds == {"table", "json", "other"}
File == [stem : Stems, kind : Kinds, data : Data]

\* An uploaded file is stored as <<millisecond, stem, kind>>, its conversion
\* under the same with the suffix replaced.
Stamped == {<<t, s, k>> : t \in 0..MaxClock, s \in Stems, k \in {"table", "json"}}
Names == Stamped \cup Given

\* Where a behaviour starts (the artifacts of earlier days, by name) and what
\* the environment may do in it: the contents that occur, and how often.
IsShelf(s) == DOMAIN s \subseteq Given \ Stamped /\ s \in [DOMAIN s -> Data]
IsBudget(b) ==
  /\ DOMAIN b = {"shelf", "among", "uploads", "drops", "faults", "edits"}
  /\ IsShelf(b.shelf) /\ b.among \subseteq Data
  /\ b.uploads \in Nat /\ b.drops \in Nat /\ b.faults \in Nat /\ b.edits \in Nat

ASSUME ThreadsAssumption == Watcher \notin Clients
ASSUME DataAssumption == /\ Half \in [Data -> Data]
                         /\ TooLarge \subseteq Data
                         /\ Unreadable \notin Data
ASSUME TableAssumption == \A d \in Data \ Pdfs :
  Converted[d] # Unreadable => IsTable(Table(d)) /\ Converted[d] = Cleanse(Table(d))
ASSUME BoundsAssumption == (\A b \in Budgets : IsBudget(b)) /\ MaxClock \in Nat

VARIABLES
  disk,       \* artifacts/
  recorded,   \* hashes in ingested_files
  folder,     \* watched_input/, by name
  seen,       \* names the watcher has taken up
  scan,       \* names its pass has still to come to
  job,        \* what each thread is doing
  clock,
  budget,     \* what the environment may still do
  whole,      \* contents once stored whole, conversion and all (history)
  twice,      \* contents recorded again when they were on record (history)
  contested,  \* contents two threads have worked on at once (history)
  clashed,    \* a file came under a name, or beside one, that is in use (history)
  missed      \* names the watcher passes over for a reason of its own (history)

ivars == <<disk, recorded, folder, seen, scan, job, clock, budget,
           whole, twice, contested, clashed, missed>>
watched == <<folder, seen, scan, missed>>
history == <<whole, twice, contested, clashed>>

Threads == Clients \cup {Watcher}
DropNames == [stem : Stems, kind : Kinds]

NoFile == [kind |-> "none"]
Torn == [kind |-> "torn"]
Holding(d) == [kind |-> "whole", data |-> d]
Result == {Converted[d] : d \in Data} \ {Unreadable}
Body == {Torn} \cup {Holding(d) : d \in Data \cup Result}
Stored(b, t) == [body |-> b, time |-> t]
Entry == [body : Body, time : 0..MaxClock]

\* A file in the folder, and what it will hold once it is copied.
Arrival == [now : Data, then : Data]

Idle == [at |-> "idle"]
NoName == <<"none">>
Ingesting(files) == [at |-> "look", todo |-> files, into |-> NoName]
IngestJob == [at : {"look", "save", "convert", "record"}, todo : Seq(File) \ {<< >>},
              into : Stamped \cup {NoName}]
ReadJob == [at : {"read"}, from : DropNames]

OnDisk == {n \in Names : disk[n] # NoFile}
Readable(d) == Converted[d] # Unreadable
Current(p) == Head(job[p].todo)

TypeOK ==
  /\ disk \in [Names -> Entry \cup {NoFile}]
  /\ recorded \subseteq Data /\ whole \subseteq Data
  /\ twice \subseteq Data /\ contested \subseteq Data /\ clashed \in BOOLEAN
  /\ folder \in [DropNames -> Arrival \cup {NoFile}]
  /\ seen \subseteq DropNames /\ scan \subseteq DropNames /\ missed \subseteq DropNames
  /\ job \in [Threads -> {Idle} \cup IngestJob \cup ReadJob]
  /\ \A c \in Clients : job[c] \in {Idle} \cup IngestJob
  /\ clock \in 0..MaxClock
  /\ IsBudget(budget)

\* An installation with some artifacts of earlier days on its disk.
IngestInit ==
  /\ budget \in Budgets
  /\ disk = [n \in Names |-> IF n \in DOMAIN budget.shelf THEN Stored(Holding(budget.shelf[n]), 0)
                             ELSE NoFile]
  /\ recorded = {} /\ whole = {} /\ twice = {} /\ contested = {} /\ clashed = FALSE
  /\ folder = [w \in DropNames |-> NoFile]
  /\ seen = {} /\ scan = {} /\ missed = {}
  /\ job = [p \in Threads |-> Idle]
  /\ clock = 0

Spend(what) == budget[what] > 0 /\ budget' = [budget EXCEPT ![what] = @ - 1]

-----------------------------------------------------------------------------
(* Requests.                                                               *)

Fits(d) == d \notin TooLarge

\* Files a user has at hand, of the kinds the routes are for.
AtHand == [stem : Stems, kind : Kinds \ {"other"}, data : budget.among]

Begin(c, files) ==
  /\ job' = [job EXCEPT ![c] = Ingesting(files)]
  /\ UNCHANGED <<disk, recorded, watched, clock, history>>

Upload(c) == /\ job[c] = Idle /\ Spend("uploads")
             /\ \E f \in AtHand : Fits(f.data) /\ Begin(c, <<f>>)

\* The members of a zip, one after the other; what is not of a known kind is
\* passed over.
ImportZip(c) == /\ job[c] = Idle /\ budget.uploads > 1
                /\ budget' = [budget EXCEPT !.uploads = @ - 2]
                /\ \E f, g \in AtHand : f # g /\ Begin(c, <<f, g>>)

-----------------------------------------------------------------------------
(* Ingesting one file.                                                     *)

\* What a thread does when it is through with its file.
Rest(p) == IF Len(job[p].todo) > 1 THEN Ingesting(Tail(job[p].todo)) ELSE Idle

WorkedOnBy(p) == IF job[p].at \in {"save", "convert", "record"} THEN {Current(p).data} ELSE {}

\* Seeded fault: the hash is looked up only for what a user uploads.
KnownToUsers(p) == p # Watcher /\ Current(p).data \in recorded

Known(p) == Current(p).data \in recorded

Look(p) ==
  /\ job[p].at = "look"
  /\ IF Known(p) \/ ~Readable(Current(p).data)
       THEN job' = [job EXCEPT ![p] = Rest(p)] /\ UNCHANGED contested
       ELSE /\ job' = [job EXCEPT ![p].at = "save"]
            /\ contested' = contested \cup
                 ({Current(p).data} \cap UNION {WorkedOnBy(q) : q \in Threads \ {p}})
  /\ UNCHANGED <<disk, recorded, watched, clock, budget, whole, twice, clashed>>

StampedName(f) == <<clock, f.stem, f.kind>>
SidecarOf(n) == <<n[1], n[2], "json">>

\* A file and its conversion differ in the suffix only.
Namesakes(n) == {<<n[1], n[2], k>> : k \in {"table", "json"}}

\* Another file has the name already, or will have when its conversion is written.
Meets(n) == \/ Namesakes(n) \cap OnDisk # {}
            \/ \E q \in Threads : job[q].at = "convert" /\ job[q].into \in Namesakes(n)

\* Seeded fault: the hash goes on record before the conversion is written.
RecordFirst(f) == "record"

AfterSave(f) == IF f.kind = "table" THEN "convert" ELSE "record"

Save(p) ==
  /\ job[p].at = "save"
  /\ LET f == Current(p)
         n == StampedName(f)
     IN /\ disk' = [disk EXCEPT ![n] = Stored(Holding(f.data), clock)]
        /\ clashed' = (clashed \/ Meets(n))
        /\ job' = [job EXCEPT ![p].at = AfterSave(f), ![p].into = n]
        /\ whole' = IF f.kind = "table" THEN whole ELSE whole \cup {f.data}
  /\ UNCHANGED <<recorded, watched, clock, budget, twice, contested>>

Convert(p) ==
  /\ job[p].at = "convert"
  /\ LET n == SidecarOf(job[p].into)
     IN /\ disk' = [disk EXCEPT ![n] = Stored(Holding(Converted[Current(p).data]), clock)]
        /\ clashed' = (clashed \/ n \in OnDisk)
  /\ job' = [job EXCEPT ![p].at = "record"]
  /\ whole' = whole \cup {Current(p).data}
  /\ UNCHANGED <<recorded, watched, clock, budget, twice, contested>>

Record(p) ==
  /\ job[p].at = "record"
  /\ recorded' = recorded \cup {Current(p).data}
  /\ twice' = twice \cup (recorded \cap {Current(p).data})
  /\ job' = [job EXCEPT ![p] = Rest(p)]
  /\ UNCHANGED <<disk, watched, clock, budget, whole, contested, clashed>>

-----------------------------------------------------------------------------
(* The watched folder.                                                     *)

\* A file appears, whole at once or by and by.
Drop(w) ==
  /\ folder[w] = NoFile /\ Spend("drops")
  /\ \E d \in budget.among : \E now \in {d, Half[d]} :
       folder' = [folder EXCEPT ![w] = [now |-> now, then |-> d]]
  /\ missed' = missed \cup (seen \cap {w})
  /\ UNCHANGED <<disk, recorded, seen, scan, job, clock, history>>

FinishCopy(w) ==
  /\ folder[w] # NoFile /\ folder[w].now # folder[w].then
  /\ folder' = [folder EXCEPT ![w].now = folder[w].then]
  /\ missed' = IF job[Watcher] = [at |-> "read", from |-> w] THEN missed ELSE missed \cup (seen \cap {w})
  /\ UNCHANGED <<disk, recorded, seen, scan, job, clock, budget, history>>

TakeAway(w) ==
  /\ folder[w] # NoFile
  /\ folder' = [folder EXCEPT ![w] = NoFile]
  /\ UNCHANGED <<disk, recorded, seen, scan, missed, job, clock, budget, history>>

InFolder == {w \in DropNames : folder[w] # NoFile}

\* A pass lists the folder first; only names not seen before get a turn.
Scan ==
  /\ job[Watcher] = Idle /\ scan = {}
  /\ InFolder \ seen # {}
  /\ scan' = InFolder \ seen
  /\ UNCHANGED <<disk, recorded, folder, seen, missed, job, clock, budget, history>>

StillThere(w) == folder[w] # NoFile

\* Names come in no particular order here.
TakeUp(w) ==
  /\ job[Watcher] = Idle /\ w \in scan
  /\ scan' = scan \ {w}
  /\ IF StillThere(w)
       THEN seen' = seen \cup {w} /\ job' = [job EXCEPT ![Watcher] = [at |-> "read", from |-> w]]
       ELSE UNCHANGED <<seen, job>>
  /\ UNCHANGED <<disk, recorded, folder, missed, clock, budget, history>>

\* Seeded fault: the folder takes what one can fetch by URL and no more.
NotOfRecords(w) == w.kind # "json"

OfKnownKind(w) == w.kind # "other"

\* What is gone, too large or of no known kind leaves a line in the watcher's
\* log and nothing else.
Read ==
  /\ job[Watcher].at = "read"
  /\ LET w == job[Watcher].from
     IN job' = [job EXCEPT ![Watcher] =
                  IF folder[w] = NoFile \/ ~OfKnownKind(w) \/ ~Fits(folder[w].now) THEN Idle
                  ELSE Ingesting(<<[stem |-> w.stem, kind |-> w.kind, data |-> folder[w].now]>>)]
  /\ UNCHANGED <<disk, recorded, watched, clock, budget, history>>

-----------------------------------------------------------------------------
(* Time, failures and restarts.                                            *)

Tick ==
  /\ clock < MaxClock
  /\ clock' = clock + 1
  /\ UNCHANGED <<disk, recorded, watched, job, budget, history>>

\* The file a thread is writing, if any.  It may be left torn, or not be there.
Target(p) == CASE job[p].at = "save" -> {StampedName(Current(p))}
               [] job[p].at = "convert" -> {SidecarOf(job[p].into)}
               [] OTHER -> {}

TornBy(ps, names) ==
  /\ names \subseteq UNION {Target(p) : p \in ps}
  /\ clashed' = (clashed \/ names \cap OnDisk # {})

DroppedAs(f) == [stem |-> f.stem, kind |-> f.kind]

Tear(d, names) == [n \in Names |-> IF n \in names THEN Stored(Torn, clock) ELSE d[n]]

WriteFails(p) ==
  /\ job[p].at \in {"save", "convert"}
  /\ Spend("faults")
  /\ \E torn \in SUBSET Target(p) : TornBy({p}, torn) /\ disk' = Tear(disk, torn)
  /\ job' = [job EXCEPT ![p] = Rest(p)]
  /\ missed' = IF p = Watcher THEN missed \cup {DroppedAs(Current(p))} ELSE missed
  /\ UNCHANGED <<recorded, folder, seen, scan, clock, whole, twice, contested>>

\* The process dies and comes up again: what lies in the folder counts as seen,
\* and artifacts older than a week are swept.
Sweep(d, before) == [n \in Names |-> IF d[n] # NoFile /\ d[n].time < before THEN NoFile ELSE d[n]]

Restart ==
  /\ Spend("faults")
  /\ \E torn \in SUBSET UNION {Target(p) : p \in Threads}, before \in 0..clock :
       TornBy(Threads, torn) /\ disk' = Sweep(Tear(disk, torn), before)
  /\ job' = [p \in Threads |-> Idle]
  /\ seen' = InFolder /\ scan' = {} /\ missed' = InFolder
  /\ UNCHANGED <<recorded, folder, clock, whole, twice, contested>>

-----------------------------------------------------------------------------
(* What ingestion promises.                                                *)

\* A hash is on record only if the file it stands for has once been stored
\* whole, conversion and all: wherever the process died and whichever write
\* failed, a file that did not make it can be uploaded again.
RefusedOnlyIfKept == recorded \subseteq whole

\* No content is ingested a second time unless two threads had it in hand at
\* once: deletes, failures and restarts do not make ingest_*_bytes forget.
NotTwice == twice \subseteq contested

\* A file in the watched folder that the watcher is through with is on record,
\* if it is one that can be ingested at all.  It is not if the name had been
\* seen before (already at the last start, or for an earlier file), if it was
\* still being copied when it was read, or if storing it failed.
HasInHand(w) ==
  \/ job[Watcher] = [at |-> "read", from |-> w]
  \/ job[Watcher] \in IngestJob /\ DroppedAs(Current(Watcher)) = w
TakenUpMeansIngested ==
  \A w \in (seen \cap InFolder) \ missed :
    w.kind # "other" /\ folder[w].now \notin TooLarge /\ Readable(folder[w].now) /\ ~HasInHand(w)
    => folder[w].now \in recorded
=============================================================================
