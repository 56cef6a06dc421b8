--------------------------- MODULE PipelineStore ---------------------------
(***************************************************************************)
(* webapp/pipelines.py and its routes in webapp/main.py: saved pipelines   *)
(* are YAML files pipelines/<slug>.yaml, the definitions they replaced are *)
(* files of pipelines/_versions/<slug>/, and what else is keyed by a slug  *)
(* (the tags of a pipeline, the schedules that launch it) lives in the     *)
(* state store.                                                            *)
(*                                                                         *)
(* A request is a sequence of file and database steps under no common      *)
(* lock: FastAPI serves each in a thread of its own, and the process may   *)
(* die between any two of them.                                            *)
(*                                                                         *)
(*   save, restore, branch, copy, clone, import:                           *)
(*       archive -> truncate -> fill                                       *)
(*   rename to another slug:                                               *)
(*       truncate -> fill -> unlink -> move -> tags -> untag -> repoint    *)
(*   rename within the slug:  truncate -> fill                             *)
(*   delete (from unlink):    untag                                        *)
(*   set tags, add schedule:  keep                                         *)
(***************************************************************************)
EXTENDS Naturals, Sequences

CONSTANTS
  Clients,      \* requests that may be in flight at once
  Slugs,        \* file names
  Names,        \* pipeline names
  SlugOf,       \* _slugify: the slug of each name
  Schedules,    \* rows of the schedules table
  MaxBodies,    \* bound: definitions composed by users
  MaxRequests,  \* bound: requests
  MaxCrashes    \* bound: deaths of the process

ASSUME NamingAssumption == SlugOf \in [Names -> Slugs]
ASSUME BoundsAssumption ==
  MaxBodies \in Nat /\ MaxRequests \in Nat /\ MaxCrashes \in Nat

VARIABLES
  file,    \* pipelines/<slug>.yaml
  dirs,    \* the slugs with a directory pipelines/_versions/<slug>/
  hist,    \* its archived versions, oldest first
  tagged,  \* slugs with tags in pipeline_tags
  target,  \* the pipeline each schedule launches
  req,     \* the request each client has in flight
  asked,   \* how many requests have come
  made,    \* how many definitions users have composed
  owed,    \* definitions written whole and not given up since (history)
  raced,   \* two requests in flight have touched one slug (history)
  crashes

files == <<file, dirs, hist>>
rows == <<tagged, target>>
history == <<asked, made, owed, crashes>>
vars == <<files, rows, req, raced, history>>

\* What a definition holds besides its name is a number, in the order they
\* are composed; 0 stands for a definition with no steps.
Definition == [name : Names, body : 0..MaxBodies]

NoFile == [kind |-> "none"]
Torn == [kind |-> "torn"]             \* created or truncated, not yet written
Whole(d) == [kind |-> "whole", def |-> d]
Content == {Torn} \cup {Whole(d) : d \in Definition}

NoTarget == "no target"

Idle == [at |-> "idle"]
Places == {"archive", "truncate", "fill", "unlink", "move", "tags", "untag",
           "repoint", "keep"}
Request == [at : Places, op : {"save", "restore", "rename", "inplace", "delete", "tag", "schedule"},
            from : Slugs, to : Slugs,
            new : {NoFile} \cup {Whole(d) : d \in Definition}]

Init ==
  /\ file = [s \in Slugs |-> NoFile]
  /\ dirs = {}
  /\ hist = [s \in Slugs |-> << >>]
  /\ tagged = {}
  /\ target = [k \in Schedules |-> NoTarget]
  /\ req = [c \in Clients |-> Idle]
  /\ asked = 0 /\ made = 0 /\ owed = {} /\ raced = FALSE /\ crashes = 0

IsWhole(f) == f.kind = "whole"
Bodies(f) == IF IsWhole(f) THEN {f.def.body} ELSE {}
Versions(s) == {hist[s][i] : i \in 1..Len(hist[s])}

\* A definition that can be saved again: validate_pipeline wants a name and
\* steps, and the code that copies one reads both.
Usable(f) == IsWhole(f) /\ f.def.body # 0

\* A torn file loads as {}; a rename puts a name into it and nothing else.
Loaded(f, n) == IF IsWhole(f) THEN f.def ELSE [name |-> n, body |-> 0]

-----------------------------------------------------------------------------
(* What a request in flight does to the bookkeeping.                       *)

Touched(r) == IF r = Idle THEN {} ELSE {r.from, r.to}

Serve(c, r) ==
  /\ req' = [req EXCEPT ![c] = r]
  /\ raced' = (raced \/ \E d \in Clients \ {c} : Touched(req[d]) \cap Touched(r) # {})

\* A request comes in; once it is answered, r is Idle.
Ask(c, r) ==
  /\ req[c] = Idle /\ asked < MaxRequests
  /\ asked' = asked + 1
  /\ Serve(c, r)

GoOn(c, place) == Serve(c, [req[c] EXCEPT !.at = place])
Answer(c) == Serve(c, Idle)

\* Seeded fault: the old definition is archived only after the new one is
\* written, if at all.
WriteFirst == "truncate"

\* The step a save begins with.
SaveBegins == "archive"

\* Seeded fault: a rename keeps the old name inside the definition.
OldName(d, n) == d

Renamed(d, n) == [d EXCEPT !.name = n]

\* Seeded fault: the schedules go on pointing at the old slug.
NotRepointed(old, new) == target

Repointed(old, new) == [k \in Schedules |-> IF target[k] = old THEN new ELSE target[k]]

MovedDirs(old, new) == (dirs \ {old}) \cup {new}

KeepNewest(h, keep) == SubSeq(h, Len(h) - keep + 1, Len(h))

-----------------------------------------------------------------------------
(* The handlers, up to their first write.                                  *)

\* A new definition under a name of the user's, from the builder or as a member
\* of an import.
Compose(c, n) ==
  /\ made < MaxBodies
  /\ Ask(c, [at |-> SaveBegins, op |-> "save", from |-> SlugOf[n], to |-> SlugOf[n],
             new |-> Whole([name |-> n, body |-> made + 1])])
  /\ made' = made + 1
  /\ UNCHANGED <<files, rows, owed, crashes>>

Save(c) == \E n \in Names : Compose(c, n)

\* A template is cloned under its own name, or the first "name (2)" whose slug
\* was free when the handler looked.
CloneTemplate(c) == \E n \in Names : file[SlugOf[n]] = NoFile /\ Compose(c, n)

\* An archived version is saved again, under the slug of the name it holds.
Restore(c) ==
  /\ \E s \in Slugs : \E v \in Versions(s) :
       /\ Usable(v)
       /\ Ask(c, [at |-> SaveBegins, op |-> "restore", from |-> s, to |-> SlugOf[v.def.name],
                   new |-> v])
  /\ UNCHANGED <<files, rows, made, owed, crashes>>

\* Copies, under a name whose slug was free when the handler looked: of a
\* pipeline, and of a version.
CopyAs(c, s, f, n) ==
  /\ Usable(f) /\ file[SlugOf[n]] = NoFile
  /\ Ask(c, [at |-> SaveBegins, op |-> "save", from |-> s, to |-> SlugOf[n],
             new |-> Whole(Renamed(f.def, n))])
  /\ UNCHANGED <<files, rows, made, owed, crashes>>

Duplicate(c) == \E s \in Slugs, n \in Names : CopyAs(c, s, file[s], n)
Branch(c) == \E s \in Slugs, n \in Names : \E v \in Versions(s) : CopyAs(c, s, v, n)

Rename(c) ==
  /\ \E s \in Slugs, n \in Names :
       LET t == SlugOf[n]
       IN  /\ file[s] # NoFile
           /\ t # s => file[t] = NoFile
           /\ Ask(c, [at |-> "truncate", op |-> IF t = s THEN "inplace" ELSE "rename",
                      from |-> s, to |-> t,
                      new |-> Whole(Renamed(Loaded(file[s], n), n))])
  /\ UNCHANGED <<files, rows, made, owed, crashes>>

Delete(c) ==
  /\ \E s \in Slugs :
       /\ file[s] # NoFile
       /\ file' = [file EXCEPT ![s] = NoFile]
       /\ owed' = owed \ Bodies(file[s])
       /\ Ask(c, [at |-> "untag", op |-> "delete", from |-> s, to |-> s, new |-> NoFile])
  /\ UNCHANGED <<dirs, hist, rows, made, crashes>>

PruneVersions(c) ==
  /\ \E s \in dirs : \E keep \in 0..Len(hist[s]) :
       /\ hist' = [hist EXCEPT ![s] = KeepNewest(hist[s], keep)]
       /\ owed' = owed \ UNION {Bodies(hist[s][i]) : i \in 1..(Len(hist[s]) - keep)}
  /\ Ask(c, Idle)
  /\ UNCHANGED <<file, dirs, rows, made, crashes>>

\* Tags and schedules are accepted for a pipeline that exists when they look.
Attach(c, what) ==
  /\ \E s \in Slugs :
       /\ file[s] # NoFile
       /\ Ask(c, [at |-> "keep", op |-> what, from |-> s, to |-> s, new |-> NoFile])
  /\ UNCHANGED <<files, rows, made, owed, crashes>>

Tag(c) == Attach(c, "tag")
\* (A free row is a bound of the model.)
Schedule(c) == NoTarget \in {target[k] : k \in Schedules} /\ Attach(c, "schedule")

-----------------------------------------------------------------------------
(* The steps that follow.                                                  *)

\* _archive_current_version: nothing to keep if there is no file.
Archive(c) ==
  /\ req[c].at = "archive"
  /\ LET s == req[c].to
     IN  IF file[s] = NoFile
         THEN UNCHANGED <<dirs, hist>>
         ELSE /\ dirs' = dirs \cup {s}
              /\ hist' = [hist EXCEPT ![s] = Append(@, file[s])]
  /\ GoOn(c, "truncate")
  /\ UNCHANGED <<file, rows, history>>

\* write_text opens the file, which creates or empties it, ...
Truncate(c) ==
  /\ req[c].at = "truncate"
  /\ file' = [file EXCEPT ![req[c].to] = Torn]
  /\ owed' = IF req[c].op = "inplace" THEN owed \ Bodies(file[req[c].to]) ELSE owed
  /\ GoOn(c, "fill")
  /\ UNCHANGED <<dirs, hist, rows, asked, made, crashes>>

\* ... and then writes; a file unlinked in between stays unlinked.
Fill(c) ==
  /\ req[c].at = "fill"
  /\ IF file[req[c].to] = NoFile
     THEN UNCHANGED <<file, owed>>
     ELSE /\ file' = [file EXCEPT ![req[c].to] = req[c].new]
          /\ owed' = owed \cup Bodies(req[c].new)
  /\ IF req[c].op = "rename" THEN GoOn(c, "unlink") ELSE Answer(c)
  /\ UNCHANGED <<dirs, hist, rows, asked, made, crashes>>

\* A second rename may have taken the file already: the answer is a 404.
Unlink(c) ==
  /\ req[c].at = "unlink"
  /\ file' = [file EXCEPT ![req[c].from] = NoFile]
  /\ IF file[req[c].from] = NoFile THEN Answer(c) ELSE GoOn(c, "move")
  /\ UNCHANGED <<dirs, hist, rows, history>>

\* A directory cannot be renamed onto one that holds files: the handler dies.
MoveHistory(c) ==
  /\ req[c].at = "move"
  /\ LET old == req[c].from
         new == req[c].to
     IN  CASE old \notin dirs -> GoOn(c, "tags") /\ UNCHANGED <<dirs, hist>>
           [] old \in dirs /\ hist[new] # << >> -> Answer(c) /\ UNCHANGED <<dirs, hist>>
           [] OTHER -> /\ dirs' = MovedDirs(old, new)
                       /\ hist' = [hist EXCEPT ![new] = hist[old], ![old] = << >>]
                       /\ GoOn(c, "tags")
  /\ UNCHANGED <<file, rows, history>>

MoveTags(c) ==
  /\ req[c].at = "tags"
  /\ IF req[c].from \in tagged
     THEN tagged' = tagged \cup {req[c].to} /\ GoOn(c, "untag")
     ELSE UNCHANGED tagged /\ GoOn(c, "repoint")
  /\ UNCHANGED <<files, target, history>>

DropTags(c) ==
  /\ req[c].at = "untag"
  /\ tagged' = tagged \ {req[c].from}
  /\ IF req[c].op = "rename" THEN GoOn(c, "repoint") ELSE Answer(c)
  /\ UNCHANGED <<files, target, history>>

Repoint(c) ==
  /\ req[c].at = "repoint"
  /\ target' = Repointed(req[c].from, req[c].to)
  /\ Answer(c)
  /\ UNCHANGED <<files, tagged, history>>

\* The row is replaced; an empty list of tags is as good as none.
SetTags(c) ==
  /\ req[c].at = "keep" /\ req[c].op = "tag"
  /\ tagged' \in {tagged \cup {req[c].from}, tagged \ {req[c].from}}
  /\ Answer(c)
  /\ UNCHANGED <<files, target, history>>

InsertSchedule(c) ==
  /\ req[c].at = "keep" /\ req[c].op = "schedule"
  /\ \E k \in Schedules : target[k] = NoTarget /\ target' = [target EXCEPT ![k] = req[c].from]
  /\ Answer(c)
  /\ UNCHANGED <<files, tagged, history>>

\* The process dies: what is on disk and in the database stays.
Crash ==
  /\ crashes < MaxCrashes
  /\ crashes' = crashes + 1
  /\ req' = [c \in Clients |-> Idle]
  /\ UNCHANGED <<files, rows, asked, made, owed, raced>>

Handler(c) == \/ Save(c) \/ CloneTemplate(c) \/ Restore(c) \/ Duplicate(c) \/ Branch(c)
              \/ Rename(c) \/ Delete(c) \/ PruneVersions(c) \/ Tag(c) \/ Schedule(c)
Step(c) == \/ Archive(c) \/ Truncate(c) \/ Fill(c)
           \/ Unlink(c) \/ MoveHistory(c) \/ MoveTags(c) \/ DropTags(c) \/ Repoint(c)
           \/ SetTags(c) \/ InsertSchedule(c)

Next == (\E c \in Clients : Handler(c) \/ Step(c)) \/ Crash

Spec == Init /\ [][Next]_vars

-----------------------------------------------------------------------------
(* Properties.                                                             *)

TypeOK ==
  /\ file \in [Slugs -> {NoFile} \cup Content]
  /\ dirs \subseteq Slugs
  /\ hist \in [Slugs -> Seq(Content)] /\ \A s \in Slugs : hist[s] # << >> => s \in dirs
  /\ tagged \subseteq Slugs /\ target \in [Schedules -> {NoTarget} \cup Slugs]
  /\ req \in [Clients -> {Idle} \cup Request]
  /\ asked \in 0..MaxRequests /\ made \in 0..MaxBodies /\ owed \subseteq 0..MaxBodies
  /\ raced \in BOOLEAN /\ crashes \in 0..MaxCrashes

\* A file is found under the slug of the name it holds: the list of pipelines
\* shows names, and every later request goes to the slug.  However requests
\* race and wherever the process dies.
FiledUnderItsName ==
  \A s \in Slugs : IsWhole(file[s]) => SlugOf[file[s].def.name] = s

\* A definition that was once saved whole can be read again, as a pipeline or
\* as a version of one, until the user deletes or prunes it, even while a
\* request is half done or was cut short by the death of the process: a save
\* archives first, a rename unlinks last.  (A rename within the slug rewrites
\* the only copy in place, so that definition is not counted on until it is
\* written again.)  Requests that work on one slug at the same time are
\* excepted: nothing serialises them, and two saves that both archive before
\* either writes lose the first.
NothingIsLost ==
  ~raced =>
    owed \subseteq UNION {Bodies(file[s]) \cup UNION {Bodies(v) : v \in Versions(s)} : s \in Slugs}

\* A rename that answers 200 has left nothing under the old slug: no file, no
\* version, no tag, and no schedule that would launch a pipeline that is gone.
RenameTakesEverything ==
  [][\A c \in Clients :
       Repoint(c) /\ ~raced =>
         LET old == req[c].from
         IN  /\ file'[old] = NoFile /\ hist'[old] = << >> /\ old \notin tagged'
             /\ \A k \in Schedules : target'[k] # old]_vars
=============================================================================
