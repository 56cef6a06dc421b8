----------------------------- MODULE Artifacts -----------------------------
(***************************************************************************)
(* The artifact routes of webapp/main.py over webapp/ingestion.py and the  *)
(* tables artifact_tags and artifact_notes of engine/state_store.py.  Tags *)
(* and notes are rows keyed by the name of a file, so what happens to the  *)
(* file has to be done again to its rows, in steps of their own:           *)
(*                                                                         *)
(*   tag, note, their bulk forms:  check -> write          (file by file)  *)
(*   rename a tag:                 write                    (row by row)   *)
(*   rename:                       move -> movetags -> movenote            *)
(*   duplicate:                    copy -> copytags -> copynote            *)
(*   delete, purge:                unlink      (the rows are left behind)  *)
(***************************************************************************)
EXTENDS Ingestion

CONSTANTS
  Editors,  \* threads that serve the other artifact routes
  Tags,
  Notes,    \* texts of notes
  NoNote    \* the empty text

ASSUME EditorsAssumption == Editors \cap Threads = {}
ASSUME NotesAssumption == NoNote \notin Notes

VARIABLES
  tags,     \* rows of artifact_tags
  notes,    \* rows of artifact_notes
  edit,     \* the request each editor has in flight
  meant,    \* tags and note users have given each artifact (history)
  blurred,  \* names two requests worked on at once, or a death cut off (history)
  haunted,  \* names taken over with the rows of an artifact long gone (history)
  borrowed  \* stamped names users gave to files of their own (history)

rows == <<tags, notes>>
evars == <<rows, edit, meant, blurred, haunted, borrowed>>
vars == <<ivars, evars>>

NoRow == [kind |-> "no row"]
Row(v) == [kind |-> "row", value |-> v]
Bare == [tags |-> {}, note |-> NoNote]
TagRows == {Row(ts) : ts \in SUBSET Tags}
NoteRows == {Row(t) : t \in Notes \cup {NoNote}}

\* What the routes read: no row, no tags; no row, no note.
TagsOf(n) == IF tags[n] = NoRow THEN {} ELSE tags[n].value
NoteOf(n) == IF notes[n] = NoRow THEN NoNote ELSE notes[n].value

\* will: the row each file is still to be given; cur: the file that was found.
Annotating(field, checked, will) ==
  [at |-> IF checked THEN "check" ELSE "write", field |-> field, checked |-> checked, will |-> will]
Moving(place, from, to) == [at |-> place, from |-> from, to |-> to]
Removing(todo) == [at |-> "unlink", todo |-> todo]

\* The names a request works on.
Touched(r) == CASE r.at \in {"check", "write", "found"} -> DOMAIN r.will
                [] r.at \in {"move", "movetags", "movenote", "copy", "copytags", "copynote"} -> {r.from, r.to}
                [] r.at = "unlink" -> r.todo
                [] OTHER -> {}
InFlight == UNION {Touched(edit[e]) : e \in Editors}
HasRow(n) == tags[n] # NoRow \/ notes[n] # NoRow

\* The names on the page of a user, which may be out of date.
Listed == OnDisk \cup {n \in Names : HasRow(n)}
Selections == (SUBSET Listed) \ {{}}

Init ==
  /\ IngestInit
  /\ tags = [n \in Names |-> NoRow] /\ notes = [n \in Names |-> NoRow]
  /\ edit = [e \in Editors |-> Idle]
  /\ meant = [n \in Names |-> Bare]
  /\ blurred = {} /\ haunted = {} /\ borrowed = {}

-----------------------------------------------------------------------------
(* Requests, up to their first write.  What a request means is noted at    *)
(* once: the files it speaks of that are there.                            *)

Free(e) == edit[e] = Idle /\ budget.edits > 0

Ask(e, r) ==
  /\ Spend("edits")
  /\ edit' = [edit EXCEPT ![e] = r]
  /\ LET others == {Touched(edit[d]) : d \in Editors}
         met == {ns \in others : ns \cap Touched(r) # {}}
     IN blurred' = blurred \cup (UNION met) \cup (IF met = {} THEN {} ELSE Touched(r))
  /\ UNCHANGED <<disk, recorded, watched, job, clock, history, rows, haunted, borrowed>>

MeanTags(ns, Of(_)) ==
  meant' = [n \in Names |-> IF n \in ns \cap OnDisk THEN [meant[n] EXCEPT !.tags = Of(@)] ELSE meant[n]]
MeanNote(ns, text) ==
  meant' = [n \in Names |-> IF n \in ns \cap OnDisk THEN [meant[n] EXCEPT !.note = text] ELSE meant[n]]

SetTags(e) ==
  \E n \in Listed, ts \in SUBSET Tags :
    /\ Ask(e, Annotating("tags", TRUE, [m \in {n} |-> ts]))
    /\ MeanTags({n}, LAMBDA old : ts)

SetNote(e) ==
  \E n \in Listed, t \in Notes \cup {NoNote} :
    /\ Ask(e, Annotating("note", TRUE, [m \in {n} |-> t]))
    /\ MeanNote({n}, t)

BulkClearNotes(e) ==
  \E ns \in Selections :
    /\ Ask(e, Annotating("note", TRUE, [m \in ns |-> NoNote]))
    /\ MeanNote(ns, NoNote)

\* The rows are read once, before the first is written.
Retagged(n, add, drop) == (TagsOf(n) \ drop) \cup add

BulkTag(e) ==
  \E ns \in Selections, t \in Tags :
    /\ Ask(e, Annotating("tags", TRUE, [m \in ns |-> Retagged(m, {t}, {})]))
    /\ MeanTags(ns, LAMBDA old : old \cup {t})

BulkUntag(e) ==
  \E ns \in Selections, t \in Tags :
    /\ Ask(e, Annotating("tags", TRUE, [m \in ns |-> Retagged(m, {}, {t})]))
    /\ MeanTags(ns, LAMBDA old : old \ {t})

\* Every row with the tag, whether its file is there or not.
RenameTag(e) ==
  \E old, new \in Tags :
    /\ old # new
    /\ LET ns == {n \in Names : old \in TagsOf(n)}
       IN /\ Ask(e, IF ns = {} THEN Idle
                    ELSE Annotating("tags", FALSE, [m \in ns |-> Retagged(m, {new}, {old})]))
          /\ MeanTags(ns, LAMBDA ts : (ts \ {old}) \cup {new})

\* Seeded fault: nobody looks whether the new name is taken.
NeverTaken(to) == FALSE

Taken(to) == to \in OnDisk

Rename(e) ==
  \E from \in OnDisk, to \in Given :
    /\ from # to /\ ~Taken(to)
    /\ Ask(e, Moving("move", from, to))
    /\ UNCHANGED meant

Duplicate(e) ==
  \E from \in OnDisk, to \in Given :
    /\ from # to /\ ~Taken(to)
    /\ Ask(e, Moving("copy", from, to))
    /\ UNCHANGED meant

BulkDelete(e) ==
  \E ns \in Selections : Ask(e, Removing(ns)) /\ UNCHANGED meant

Purge(e) ==
  \E before \in 0..clock + 1 :
    LET old == {n \in OnDisk : disk[n].time < before}
    IN old # {} /\ Ask(e, Removing(old)) /\ UNCHANGED meant

-----------------------------------------------------------------------------
(* The rest of a request.                                                  *)

Answered(e) == edit' = [edit EXCEPT ![e] = Idle]
GoOn(e, place) == edit' = [edit EXCEPT ![e].at = place]
Without(f, n) == [m \in DOMAIN f \ {n} |-> f[m]]

\* Through with one file: the next, or the answer.
NextFile(e, n) ==
  LET r == edit[e]
  IN IF DOMAIN r.will = {n} THEN Answered(e)
     ELSE edit' = [edit EXCEPT ![e] = Annotating(r.field, r.checked, Without(r.will, n))]

\* A file that is not there is passed over.
Check(e) ==
  /\ edit[e].at = "check"
  /\ \E n \in DOMAIN edit[e].will :
       IF n \in OnDisk
         THEN edit' = [edit EXCEPT ![e] = [at |-> "found", field |-> edit[e].field,
                                           checked |-> TRUE, will |-> edit[e].will, cur |-> n]]
         ELSE NextFile(e, n)
  /\ UNCHANGED <<ivars, rows, meant, blurred, haunted, borrowed>>

WriteRow(e, n) ==
  /\ IF edit[e].field = "tags"
       THEN tags' = [tags EXCEPT ![n] = Row(edit[e].will[n])] /\ UNCHANGED notes
       ELSE notes' = [notes EXCEPT ![n] = Row(edit[e].will[n])] /\ UNCHANGED tags
  /\ NextFile(e, n)
  /\ UNCHANGED <<ivars, meant, blurred, haunted, borrowed>>

WriteFound(e) == edit[e].at = "found" /\ WriteRow(e, edit[e].cur)
WriteUnchecked(e) == edit[e].at = "write" /\ \E n \in DOMAIN edit[e].will : WriteRow(e, n)

\* The excuses go with the file.
Along(set, from, to) == IF from \in set THEN set \cup {to} ELSE set \ {to}

TakesOver(from, to) ==
  /\ haunted' = IF HasRow(to) THEN haunted \cup {to}
                ELSE Along(haunted, from, to)
  /\ blurred' = IF from \in blurred THEN blurred \cup {to} ELSE blurred
  /\ borrowed' = borrowed \cup ({to} \cap Stamped)

\* The new name was free when the handler looked.
Move(e) ==
  /\ edit[e].at = "move"
  /\ LET from == edit[e].from
         to == edit[e].to
     IN IF from \in OnDisk
          THEN /\ disk' = [disk EXCEPT ![to] = disk[from], ![from] = NoFile]
               /\ meant' = [meant EXCEPT ![to] = meant[from], ![from] = Bare]
               /\ TakesOver(from, to)
               /\ GoOn(e, "movetags")
          ELSE Answered(e) /\ UNCHANGED <<disk, meant, haunted, blurred, borrowed>>
  /\ UNCHANGED <<recorded, watched, job, clock, budget, history, rows>>

\* UPDATE ... SET filename = new WHERE filename = old: a primary key.
Conflict(f, from, to) == f[from] # NoRow /\ f[to] # NoRow
Rekeyed(f, from, to) == IF f[from] = NoRow THEN f
                        ELSE [f EXCEPT ![to] = f[from], ![from] = NoRow]

MoveTags(e) ==
  /\ edit[e].at = "movetags"
  /\ LET from == edit[e].from
         to == edit[e].to
     IN IF Conflict(tags, from, to)
          THEN Answered(e) /\ UNCHANGED tags
          ELSE tags' = Rekeyed(tags, from, to) /\ GoOn(e, "movenote")
  /\ UNCHANGED <<ivars, notes, meant, blurred, haunted, borrowed>>

\* Seeded fault: the note stays under the old name.
NoteStays(from, to) == notes

MovedNote(from, to) == Rekeyed(notes, from, to)

MoveNote(e) ==
  /\ edit[e].at = "movenote"
  /\ LET from == edit[e].from
         to == edit[e].to
     IN IF Conflict(notes, from, to) THEN UNCHANGED notes ELSE notes' = MovedNote(from, to)
  /\ Answered(e)
  /\ UNCHANGED <<ivars, tags, meant, blurred, haunted, borrowed>>

Copy(e) ==
  /\ edit[e].at = "copy"
  /\ LET from == edit[e].from
         to == edit[e].to
     IN IF from \in OnDisk
          THEN /\ disk' = [disk EXCEPT ![to] = disk[from]]
               /\ meant' = [meant EXCEPT ![to] = meant[from]]
               /\ TakesOver(from, to)
               /\ GoOn(e, "copytags")
          ELSE Answered(e) /\ UNCHANGED <<disk, meant, haunted, blurred, borrowed>>
  /\ UNCHANGED <<recorded, watched, job, clock, budget, history, rows>>

CopyTags(e) ==
  /\ edit[e].at = "copytags"
  /\ tags' = IF TagsOf(edit[e].from) = {} THEN tags
             ELSE [tags EXCEPT ![edit[e].to] = tags[edit[e].from]]
  /\ GoOn(e, "copynote")
  /\ UNCHANGED <<ivars, notes, meant, blurred, haunted, borrowed>>

CopyNote(e) ==
  /\ edit[e].at = "copynote"
  /\ notes' = IF NoteOf(edit[e].from) = NoNote THEN notes
              ELSE [notes EXCEPT ![edit[e].to] = notes[edit[e].from]]
  /\ Answered(e)
  /\ UNCHANGED <<ivars, tags, meant, blurred, haunted, borrowed>>

\* One file of the selection; one that is gone is passed over.
Unlink(e) ==
  /\ edit[e].at = "unlink"
  /\ \E n \in edit[e].todo :
       /\ disk' = [disk EXCEPT ![n] = NoFile]
       /\ meant' = [meant EXCEPT ![n] = Bare]
       /\ IF edit[e].todo = {n} THEN Answered(e)
          ELSE edit' = [edit EXCEPT ![e] = Removing(edit[e].todo \ {n})]
  /\ UNCHANGED <<recorded, watched, job, clock, budget, history, rows, blurred, haunted, borrowed>>

Edit(e) ==
  /\ Free(e)
  /\ \/ SetTags(e) \/ SetNote(e) \/ BulkClearNotes(e)
     \/ BulkTag(e) \/ BulkUntag(e) \/ RenameTag(e)
     \/ Rename(e) \/ Duplicate(e) \/ BulkDelete(e) \/ Purge(e)

Finish(e) ==
  \/ Check(e) \/ WriteFound(e) \/ WriteUnchecked(e)
  \/ Move(e) \/ MoveTags(e) \/ MoveNote(e) \/ Copy(e) \/ CopyTags(e) \/ CopyNote(e) \/ Unlink(e)

-----------------------------------------------------------------------------

\* An upload is a request too, and so is what the watcher does: it may come under
\* a name that a rename is about to take.
MeetRequests == blurred' = blurred \cup {n \in InFlight : disk'[n] # disk[n]}

\* A new file finds the rows that were left under its name.
ComeUnderRows ==
  haunted' = haunted \cup {n \in Names : disk[n] = NoFile /\ disk'[n] # NoFile /\ HasRow(n)}

\* Nothing of an artifact is in the requests a death cuts off.
Die ==
  /\ Restart
  /\ edit' = [e \in Editors |-> Idle]
  /\ blurred' = blurred \cup InFlight
  /\ meant' = [n \in Names |-> IF disk'[n] = NoFile THEN Bare ELSE meant[n]]
  /\ ComeUnderRows
  /\ UNCHANGED <<rows, borrowed>>

Ingest(p) == Look(p) \/ Save(p) \/ Convert(p) \/ Record(p) \/ WriteFails(p)

Ingestion ==
  \/ \E c \in Clients : Upload(c) \/ ImportZip(c)
  \/ \E p \in Threads : Ingest(p)
  \/ \E w \in DropNames : Drop(w) \/ FinishCopy(w) \/ TakeAway(w) \/ TakeUp(w)
  \/ Scan \/ Read \/ Tick

Next ==
  \/ /\ Ingestion
     /\ ComeUnderRows /\ MeetRequests
     /\ UNCHANGED <<rows, edit, meant, borrowed>>
  \/ \E e \in Editors : Edit(e) \/ Finish(e)
  \/ Die

Spec == Init /\ [][Next]_vars

-----------------------------------------------------------------------------
(* What the tags and the notes of an artifact promise.                     *)

ATypeOK ==
  /\ tags \in [Names -> TagRows \cup {NoRow}]
  /\ notes \in [Names -> NoteRows \cup {NoRow}]
  /\ meant \in [Names -> [tags : SUBSET Tags, note : Notes \cup {NoNote}]]
  /\ blurred \subseteq Names /\ haunted \subseteq Names /\ borrowed \subseteq Stamped

\* A table that is on the disk in its clean form is: no two rows alike, none of
\* them blank, and every other row of the upload there in its place.  A file that
\* a user put under one of the two names is another matter.
OnDiskWhole(n) == disk[n] # NoFile /\ disk[n].body # Torn
OwnNames(n) == {n, SidecarOf(n)} \cap borrowed = {}
TablesAreClean ==
  ~clashed => \A n \in Stamped :
    /\ n[3] = "table" /\ OwnNames(n)
    /\ OnDiskWhole(n) /\ OnDiskWhole(SidecarOf(n)) /\ disk[n].body.data \notin Pdfs
    => IsCleanCopy(disk[SidecarOf(n)].body.data, Table(disk[n].body.data))

Settled == (OnDisk \ InFlight) \ blurred

Annotated(n) == TagsOf(n) = meant[n].tags /\ NoteOf(n) = meant[n].note

\* An artifact shows the tags and the note that users gave it, through every
\* sequence of tagging, renaming, duplicating, deleting and ingesting, unless
\* two requests worked on it at once, a death cut one off, or it took over the
\* name of an artifact whose rows were left behind.
AnnotationsFollow == ~clashed => \A n \in Settled \ haunted : Annotated(n)

\* The route's own claim, without the last excuse: tags given to an artifact are
\* on it whatever it has been renamed to.
TaggingSurvivesRename == ~clashed => \A n \in Settled : meant[n].tags \subseteq TagsOf(n)

\* No artifact is written over: renames and copies go to free names, uploads to
\* names of their own, unless two requests aim at one name at once or an upload
\* comes under a name that is in use: one stem twice within a millisecond, or a
\* stamped name that a user gave to another file.
NothingIsOverwritten ==
  [][\A n \in OnDisk : disk'[n] \in {NoFile, disk[n]} \/ clashed' \/ n \in blurred']_vars
=============================================================================
