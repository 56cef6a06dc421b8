----------------------------- MODULE AutoBackup -----------------------------
(***************************************************************************)
(* webapp/auto_backup.py and the /api/backup/auto routes of                *)
(* webapp/main.py: snapshots of the state store, one file per second in    *)
(* backups/, written by a timer or on request, pruned to the newest few,   *)
(* purged by age, deleted one by one, and pinned in the state store's      *)
(* table protected_backups.                                                *)
(*                                                                         *)
(*   a backup:  begin -> open -> fill -> pins -> list -> unlink* -> stamp  *)
(*   a purge:                            pins -> list -> unlink*           *)
(*   a delete:                                           remove -> clear   *)
(*   pinning:                    (file by file)          check -> row      *)
(*                                                                         *)
(* The timer and the requests run in threads of their own and share one    *)
(* lock that is held for the settings and last_backup_at only.             *)
(***************************************************************************)
EXTENDS Naturals, FiniteSets

CONSTANTS
  Callers,    \* threads that serve requests
  Timer,      \* the thread of AutoBackup
  Intervals,  \* interval_hours a user may set, here in ticks of the clock
  Keeps,      \* keep_count a user may set
  Usual,      \* the settings of a fresh process: [on, interval, keep]
  MaxClock,   \* bound: seconds that pass
  MaxAsks,    \* bound: requests
  MaxFaults   \* bound: failed writes and deaths of the process

Settings == [on : BOOLEAN, interval : Intervals, keep : Keeps]

ASSUME ThreadsAssumption == Timer \notin Callers
ASSUME SettingsAssumption ==
  Intervals \subseteq Nat \ {0} /\ Keeps \subseteq Nat \ {0} /\ Usual \in Settings /\ ~Usual.on
ASSUME BoundsAssumption == MaxClock \in Nat /\ MaxAsks \in Nat /\ MaxFaults \in Nat

VARIABLES
  file,    \* backups/backup_<second>.json
  protected,  \* protected_backups
  set,     \* the timer's settings, in memory only
  last,    \* last_backup_at, in memory only
  job,     \* what each thread is doing
  clock,
  asked,   \* how many requests have come
  faults,
  written, \* seconds whose snapshot was once written whole (history)
  safe,    \* a newest snapshot is whole and nobody has meddled with it (history)
  kept     \* pinned while nothing was being pruned or purged (history)

bounds == <<clock, asked, faults>>
noted == <<written, safe, kept>>
bvars == <<file, protected, set, last, job, bounds, noted>>

Threads == Callers \cup {Timer}
Seconds == 0..MaxClock
Never == MaxClock + 1

NoFile == "none"
Torn == "torn"      \* created or truncated, not yet written
Whole == "whole"

\* op: whose job it is; now: its second, or the cutoff of a purge.
NoJob == [at |-> "idle"]
Backup == [at : {"begin", "open", "fill", "pins", "list", "unlink"}, op : {"backup"},
           now : Seconds, keep : Keeps, pins : SUBSET Seconds, todo : SUBSET Seconds]
PurgeJob == [at : {"pins", "list", "unlink"}, op : {"purge"}, now : 1..Never, keep : Keeps,
            pins : SUBSET Seconds, todo : SUBSET Seconds]
Deleting == [at : {"remove", "clear"}, op : {"delete"}, name : Seconds]
PinJob == [at : {"check"}, op : {"pin", "unpin"}, todo : SUBSET Seconds]
             \cup [at : {"row"}, op : {"pin", "unpin"}, todo : SUBSET Seconds, name : Seconds]

\* The timer: in on_failure after its backup failed, and no more.
Failing == [at |-> "failed", op |-> "none"]
Ended == [at |-> "ended", op |-> "none"]

\* What is left of a selection to pin or unpin.
Rest(op, names) == IF names = {} THEN NoJob ELSE [at |-> "check", op |-> op, todo |-> names]

Start(place, op) == [at |-> place, op |-> op, now |-> clock, keep |-> set.keep, pins |-> {}, todo |-> {}]

BackupTypeOK ==
  /\ file \in [Seconds -> {NoFile, Torn, Whole}]
  /\ protected \subseteq Seconds /\ written \subseteq Seconds /\ kept \subseteq Seconds
  /\ set \in Settings /\ last \in Seconds \cup {Never} /\ safe \in BOOLEAN
  /\ job \in [Threads -> {NoJob, Failing, Ended} \cup Backup \cup PurgeJob \cup Deleting \cup PinJob]
  /\ clock \in Seconds /\ asked \in 0..MaxAsks /\ faults \in 0..MaxFaults

BackupInit ==
  /\ file = [n \in Seconds |-> NoFile] /\ protected = {}
  /\ set = Usual /\ last = Never
  /\ job = [p \in Threads |-> NoJob]
  /\ clock = 0 /\ asked = 0 /\ faults = 0
  /\ written = {} /\ safe = FALSE /\ kept = {}

There == {n \in Seconds : file[n] # NoFile}
BackingUp(p) == job[p].at # "idle" /\ job[p].op = "backup"
Alone(p) == \A q \in Threads \ {p} : ~BackingUp(q)

-----------------------------------------------------------------------------
(* Requests.                                                               *)

Ask(c, r) ==
  /\ job[c] = NoJob /\ asked < MaxAsks
  /\ asked' = asked + 1
  /\ job' = [job EXCEPT ![c] = r]
  /\ UNCHANGED <<file, protected, last, clock, faults, noted>>

RunNow(c) == Ask(c, Start("begin", "backup")) /\ UNCHANGED set

Configure(c) ==
  /\ set' \in Settings
  /\ Ask(c, NoJob)

PurgeOlderThan(c) ==
  \E cutoff \in 1..(clock + 1) : Ask(c, [Start("pins", "purge") EXCEPT !.now = cutoff]) /\ UNCHANGED set

\* The route looks whether the file is there before it goes on.
Delete(c) == \E n \in There : Ask(c, [at |-> "remove", op |-> "delete", name |-> n]) /\ UNCHANGED set

Protect(c) ==
  \E n \in There, op \in {"pin", "unpin"} :
    Ask(c, [at |-> "row", op |-> op, todo |-> {n}, name |-> n]) /\ UNCHANGED set

BulkProtect(c) ==
  \E ns \in (SUBSET There) \ {{}}, op \in {"pin", "unpin"} :
    Ask(c, [at |-> "check", op |-> op, todo |-> ns]) /\ UNCHANGED set

-----------------------------------------------------------------------------
(* A backup.                                                               *)

Due == last = Never \/ clock - last >= set.interval

\* The timer looks at its settings and the clock.
Wake ==
  /\ job[Timer] = NoJob /\ set.on /\ Due
  /\ job' = [job EXCEPT ![Timer] = Start("begin", "backup")]
  /\ UNCHANGED <<file, protected, set, last, bounds, noted>>

\* The second the snapshot is named for.
Begin(p) ==
  /\ job[p].at = "begin"
  /\ job' = [job EXCEPT ![p] = Start("open", "backup")]
  /\ safe' = (safe /\ Alone(p))
  /\ UNCHANGED <<file, protected, set, last, bounds, written, kept>>

Open(p) ==
  /\ job[p].at = "open"
  /\ file' = [file EXCEPT ![job[p].now] = Torn]
  /\ safe' = (safe /\ file[job[p].now] = NoFile)
  /\ job' = [job EXCEPT ![p].at = "fill"]
  /\ UNCHANGED <<protected, set, last, bounds, written, kept>>

Fill(p) ==
  /\ job[p].at = "fill"
  /\ file' = [file EXCEPT ![job[p].now] = Whole]
  /\ written' = written \cup {job[p].now}
  /\ safe' = (Alone(p) /\ \A n \in There : n <= job[p].now)
  /\ job' = [job EXCEPT ![p].at = "pins"]
  /\ UNCHANGED <<protected, set, last, bounds, kept>>

-----------------------------------------------------------------------------
(* Pruning and purging.                                                    *)

\* Seeded fault: nobody asks which snapshots are pinned.
NoPins == {}

Pins == protected

ReadProtected(p) ==
  /\ job[p].at = "pins"
  /\ job' = [job EXCEPT ![p].at = "list", ![p].pins = Pins, ![p].keep = set.keep]
  /\ UNCHANGED <<file, protected, set, last, bounds, noted>>

\* Seeded fault: the names are sorted the other way round.
Older(n) == {m \in There : m < n}

Newer(n) == {m \in There : m > n}

\* All but the newest keep names, or all of before the cutoff.
Stale(j) ==
  {n \in There : IF j.op = "backup" THEN Cardinality(Newer(n)) >= j.keep ELSE n < j.now} \ j.pins

List(p) ==
  /\ job[p].at = "list"
  /\ job' = [job EXCEPT ![p].at = "unlink", ![p].todo = Stale(job[p])]
  /\ UNCHANGED <<file, protected, set, last, bounds, noted>>

\* A prune goes from the newest to the oldest, a purge as the directory is listed.
InTurn(j, n) == n \in j.todo /\ (j.op = "backup" => \A m \in j.todo : m <= n)

Unlink(p) ==
  /\ job[p].at = "unlink"
  /\ \E n \in There :
       /\ InTurn(job[p], n)
       /\ file' = [file EXCEPT ![n] = NoFile]
       /\ job' = [job EXCEPT ![p].todo = @ \ {n}]
       /\ safe' = (safe /\ job[p].op = "backup")
  /\ UNCHANGED <<protected, set, last, bounds, written, kept>>

\* Seeded fault: no exception of a backup is caught in the timer's loop.
Gone(p) == IF p = Timer THEN [at |-> "gone", op |-> "none"] ELSE NoJob

\* _tick catches it and calls on_failure; a request answers with the error.
Back(p) == IF p = Timer THEN Failing ELSE NoJob

\* last_backup_at stays as it is, so that the timer tries again.
GiveUp(p) ==
  /\ job' = [job EXCEPT ![p] = Back(p)]
  /\ UNCHANGED last

\* Another thread has removed the file already.
UnlinkMissing(p) ==
  /\ job[p].at = "unlink"
  /\ \E n \in Seconds \ There : InTurn(job[p], n)
  /\ GiveUp(p)
  /\ UNCHANGED <<file, protected, set, bounds, noted>>

\* The disk or the store refuses, before the file is opened or once it is, or
\* when the pins are read.
WriteFails(p) ==
  /\ job[p].at \in {"open", "fill", "pins"} /\ faults < MaxFaults
  /\ faults' = faults + 1
  /\ GiveUp(p)
  /\ UNCHANGED <<file, protected, set, clock, asked, noted>>

\* on_failure writes a notification to the store, and the loop goes on ...
Reported(p) ==
  /\ job[p] = Failing
  /\ job' = [job EXCEPT ![p] = NoJob]
  /\ UNCHANGED <<file, protected, set, last, bounds, noted>>

\* ... or the store refuses that as well: on_failure is called outside of any
\* try, so its exception leaves _tick and _loop, and the thread is no more.
ReportRaises(p) ==
  /\ job[p] = Failing
  /\ job' = [job EXCEPT ![p] = Ended]
  /\ UNCHANGED <<file, protected, set, last, bounds, noted>>

Stamp(p) ==
  /\ job[p].at = "unlink" /\ job[p].todo = {}
  /\ last' = IF job[p].op = "backup" THEN job[p].now ELSE last
  /\ job' = [job EXCEPT ![p] = NoJob]
  /\ UNCHANGED <<file, protected, set, bounds, noted>>

-----------------------------------------------------------------------------
(* Deleting and pinning.                                                   *)

Remove(c) ==
  /\ job[c].at = "remove"
  /\ LET n == job[c].name
         gone == file[n] = NoFile
     IN /\ file' = [file EXCEPT ![n] = NoFile]
        /\ safe' = (safe /\ gone)
        /\ kept' = kept \ {n}
        /\ job' = [job EXCEPT ![c] = IF gone THEN NoJob ELSE [@ EXCEPT !.at = "clear"]]
  /\ UNCHANGED <<protected, set, last, bounds, written>>

Clear(c) ==
  /\ job[c].at = "clear"
  /\ protected' = protected \ {job[c].name}
  /\ kept' = kept \ {job[c].name}
  /\ job' = [job EXCEPT ![c] = NoJob]
  /\ UNCHANGED <<file, set, last, bounds, written, safe>>

\* The next file of the selection; one that is gone by now is skipped.
Check(c) ==
  /\ job[c].at = "check"
  /\ \E n \in job[c].todo :
       job' = [job EXCEPT ![c] =
                 IF n \in There THEN [at |-> "row", op |-> @.op, todo |-> @.todo \ {n}, name |-> n]
                 ELSE Rest(@.op, @.todo \ {n})]
  /\ UNCHANGED <<file, protected, set, last, bounds, noted>>

Sweeping == \E p \in Threads : job[p].at \in {"list", "unlink"}

SetProtected(c) ==
  /\ job[c].at = "row"
  /\ LET n == job[c].name
         pin == job[c].op = "pin"
     IN /\ protected' = IF pin THEN protected \cup {n} ELSE protected \ {n}
        /\ kept' = IF pin /\ n \in There /\ ~Sweeping THEN kept \cup {n}
                   ELSE IF pin THEN kept ELSE kept \ {n}
  /\ job' = [job EXCEPT ![c] = Rest(@.op, @.todo)]
  /\ UNCHANGED <<file, set, last, bounds, written, safe>>

-----------------------------------------------------------------------------
(* The environment, and the specification.                                 *)

Tick ==
  /\ clock < MaxClock
  /\ clock' = clock + 1
  /\ UNCHANGED <<file, protected, set, last, job, asked, faults, noted>>

\* The process dies and is started again: files and pins stay.
Crash ==
  /\ faults < MaxFaults
  /\ faults' = faults + 1
  /\ job' = [p \in Threads |-> NoJob]
  /\ set' = Usual /\ last' = Never
  /\ UNCHANGED <<file, protected, clock, asked, noted>>

BackupStep(p) ==
  \/ Begin(p) \/ Open(p) \/ Fill(p) \/ ReadProtected(p) \/ List(p)
  \/ Unlink(p) \/ UnlinkMissing(p) \/ Reported(p) \/ Stamp(p)

Request(c) ==
  \/ RunNow(c) \/ Configure(c) \/ PurgeOlderThan(c)
  \/ Delete(c) \/ Protect(c) \/ BulkProtect(c)

BackupNext ==
  \/ Wake \/ Tick \/ Crash
  \/ \E p \in Threads : BackupStep(p) \/ WriteFails(p) \/ ReportRaises(p)
  \/ \E c \in Callers : Request(c) \/ Remove(c) \/ Clear(c) \/ Check(c) \/ SetProtected(c)

BackupSpec == BackupInit /\ [][BackupNext]_bvars

\* The timer's loop is entered every poll_interval seconds and its thread is
\* scheduled; nothing is assumed of the requests.
LiveSpec == BackupSpec /\ WF_bvars(Wake) /\ WF_bvars(BackupStep(Timer))

-----------------------------------------------------------------------------
(* Properties.                                                             *)

\* run_now writes, then prunes: once the newest snapshot has been written
\* whole with no other backup under way, a whole snapshot is there to be restored, whatever
\* later backups are cut short, killed or pruned, until a second backup
\* overlaps or the user deletes or purges.
SafeMeansRestorable == safe => \E n \in Seconds : file[n] = Whole

\* set_auto_backup_protected: a snapshot that was pinned while nobody was
\* pruning or purging survives both for as long as it is pinned.
PinnedSurvives == \A n \in kept : file[n] # NoFile

\* _tick: last_backup_at, that the next backup is counted from, is the second
\* of a snapshot that was written whole and never of an attempt that failed.
LastIsTrue == last # Never => last \in written

\* "A write failure here must not kill the background thread's loop" (_tick): a
\* backup that is due is made, or the user turns the timer off, although writes
\* fail, other backups overlap and the process dies.  The one exception is a
\* failure whose notification fails as well: that ends the thread.
DueBackupsHappen == (set.on /\ Due) ~> (~set.on \/ ~Due \/ job[Timer] = Ended)
=============================================================================
