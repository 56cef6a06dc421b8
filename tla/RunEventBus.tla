---------------------------- MODULE RunEventBus ----------------------------
(***************************************************************************)
(* webapp/events.py: the in-memory publish/subscribe bus behind the live   *)
(* view of a run.  Every stream has an append-only event list; a reader of *)
(* stream() holds its own index into that list, so that a second reader,   *)
(* or the same one after a reconnect, replays what it has not seen.        *)
(*                                                                         *)
(* One lock (a threading.Condition) guards the dictionaries, so every      *)
(* method is one action; stream() is a generator that releases the lock at *)
(* each yield and each wait, so a reader is a small process of its own:    *)
(*                                                                         *)
(*   off --Open--> check --> yield --> check ...                           *)
(*                   |-----> wait  --notified--> check                     *)
(*                   |         '-----timeout---> timedOut  (generator over)*)
(*                   |-----> gone   (no such stream)       (generator over)*)
(*                   '-----> ended  (closed and drained)   (generator over)*)
(***************************************************************************)
EXTENDS Naturals, Sequences

CONSTANTS
  Readers,      \* live calls of stream(), one per open SSE connection
  Kinds,        \* kinds of events the publishers use
  MaxStreams,   \* bound: streams one process allots
  MaxEvents,    \* bound: events published to one stream
  MaxLives      \* bound: lives of the server process

ASSUME BoundsAssumption ==
  MaxStreams \in Nat \ {0} /\ MaxEvents \in Nat /\ MaxLives \in Nat \ {0}

StreamIds == 1..MaxStreams

VARIABLES
  life,       \* which life of the process this is (not a variable of the code)
  nextId,     \* the next value of the itertools counter
  known,      \* the keys of _events, which are the keys of _done
  log,        \* _events; a pruned stream's list stays here as history
  done,       \* the streams whose _done is True
  expired,    \* closed streams whose _closed_at is beyond the retention time
  closedLen,  \* length of a stream's list when it was first closed (history)
  gen,        \* the state of each generator
  out         \* the pairs each generator has yielded

busVars == <<life, nextId, known, log, done, expired, closedLen>>
vars == <<busVars, gen, out>>

Event == [life : 1..MaxLives, id : StreamIds, n : 1..MaxEvents, kind : Kinds]
Item == [index : Nat, event : Event]

Phases == {"off", "check", "yield", "wait", "timedOut", "gone", "ended"}
Off == [at |-> "off", id |-> 1, start |-> 0, index |-> 0]

\* The event at 0-based position i of a stream's list.
At(id, i) == log[id][i + 1]

\* Seeded fault: the list or the flag changes and nobody is notified.
NobodyNotified == gen

\* notify_all(): every waiter, of whatever stream, gets to look again.
Notified == [r \in Readers |-> IF gen[r].at = "wait"
                               THEN [gen[r] EXCEPT !.at = "check"]
                               ELSE gen[r]]

Init ==
  /\ life = 1
  /\ nextId = 1
  /\ known = {}
  /\ log = [id \in StreamIds |-> << >>]
  /\ done = {}
  /\ expired = {}
  /\ closedLen = [id \in StreamIds |-> 0]
  /\ gen = [r \in Readers |-> Off]
  /\ out = [r \in Readers |-> << >>]

-----------------------------------------------------------------------------
(* The bus.                                                                *)

\* create(): sweep what has expired, then allot the next id.
Create ==
  /\ nextId \in StreamIds
  /\ known' = (known \ expired) \cup {nextId}
  /\ done' = done \ expired
  /\ expired' = {}
  /\ nextId' = nextId + 1
  /\ UNCHANGED <<life, log, closedLen, gen, out>>

\* publish(): nothing for a stream the bus no longer has; a closed stream
\* still takes events (a timed-out module goes on emitting).
Publish(id, kind) ==
  /\ id \in known
  /\ Len(log[id]) < MaxEvents
  /\ log' = [log EXCEPT ![id] = Append(@, [life |-> life, id |-> id,
                                           n |-> Len(@) + 1, kind |-> kind])]
  /\ gen' = Notified
  /\ UNCHANGED <<life, nextId, known, done, expired, closedLen, out>>

\* close(): marks the stream done and restarts its retention time.
Close(id) ==
  /\ id \in known
  /\ done' = done \cup {id}
  /\ expired' = expired \ {id}
  /\ closedLen' = [closedLen EXCEPT ![id] = IF id \in done THEN @ ELSE Len(log[id])]
  /\ gen' = Notified
  /\ UNCHANGED <<life, nextId, known, log, out>>

\* The clock passes _closed_at + _RETENTION_SECONDS.
RetentionPasses(id) ==
  /\ id \in done \ expired
  /\ expired' = expired \cup {id}
  /\ UNCHANGED <<life, nextId, known, log, done, closedLen, gen, out>>

\* The server process dies and starts again: the bus is in memory only, and
\* the new one allots ids from 1.
Restart ==
  /\ life < MaxLives
  /\ life' = life + 1
  /\ nextId' = 1
  /\ known' = {}
  /\ log' = [id \in StreamIds |-> << >>]
  /\ done' = {}
  /\ expired' = {}
  /\ closedLen' = [id \in StreamIds |-> 0]
  /\ gen' = [r \in Readers |-> Off]
  /\ out' = [r \in Readers |-> << >>]

-----------------------------------------------------------------------------
(* A generator.                                                            *)

Open(r, id, from) ==
  /\ gen[r].at = "off"
  /\ gen' = [gen EXCEPT ![r] = [at |-> "check", id |-> id, start |-> from, index |-> from]]
  /\ out' = [out EXCEPT ![r] = << >>]
  /\ UNCHANGED busVars

\* Seeded fault: the closed flag is looked at before the list.
ClosedFlagFirst(g) ==
  CASE g.id \notin known -> "gone"
    [] g.id \in done -> "ended"
    [] g.id \in known \ done /\ g.index < Len(log[g.id]) -> "yield"
    [] OTHER -> "wait"

\* What the loop body, under the lock, decides for a generator.
LoopBody(g) ==
  CASE g.id \notin known -> "gone"
    [] g.id \in known /\ g.index < Len(log[g.id]) -> "yield"
    [] g.id \in done /\ g.index >= Len(log[g.id]) -> "ended"
    [] OTHER -> "wait"

Check(r) ==
  /\ gen[r].at = "check"
  /\ gen' = [gen EXCEPT ![r].at = LoopBody(gen[r])]
  /\ UNCHANGED <<busVars, out>>

\* The yield, outside the lock; the event was picked under it, and the entry
\* of a list never changes, so it is read here.
Yield(r) ==
  LET g == gen[r]
  IN /\ g.at = "yield"
     /\ out' = [out EXCEPT ![r] = Append(@, [index |-> g.index, event |-> At(g.id, g.index)])]
     /\ gen' = [gen EXCEPT ![r].at = "check", ![r].index = @ + 1]
     /\ UNCHANGED busVars

\* Condition.wait() gives up: decided before the lock is taken again, so an
\* event published from here on no longer keeps the generator alive.
Timeout(r) ==
  /\ gen[r].at = "wait"
  /\ gen' = [gen EXCEPT ![r].at = "timedOut"]
  /\ UNCHANGED <<busVars, out>>

\* The response is over or the connection is gone; the generator is dropped.
Drop(r) ==
  /\ gen[r].at # "off"
  /\ gen' = [gen EXCEPT ![r] = Off]
  /\ out' = [out EXCEPT ![r] = << >>]
  /\ UNCHANGED busVars

BusStep ==
  \/ Create
  \/ \E id \in StreamIds, kind \in Kinds : Publish(id, kind)
  \/ \E id \in StreamIds : Close(id)
  \/ \E id \in StreamIds : RetentionPasses(id)
  \/ Restart

ReaderStep(r) ==
  \/ \E id \in StreamIds, from \in 0..MaxEvents : Open(r, id, from)
  \/ Check(r)
  \/ Yield(r)
  \/ Timeout(r)
  \/ Drop(r)

Next == BusStep \/ \E r \in Readers : ReaderStep(r)

Spec == Init /\ [][Next]_vars

-----------------------------------------------------------------------------
(* Properties.                                                             *)

\* Every variable has its type; done, expired and known are nested as the
\* three dictionaries of the bus are.
TypeOK ==
  /\ life \in 1..MaxLives
  /\ nextId \in 1..(MaxStreams + 1)
  /\ known \subseteq StreamIds
  /\ log \in [StreamIds -> Seq(Event)]
  /\ done \subseteq known
  /\ expired \subseteq done
  /\ closedLen \in [StreamIds -> Nat]
  /\ gen \in [Readers -> [at : Phases, id : StreamIds, start : Nat, index : Nat]]
  /\ out \in [Readers -> Seq(Item)]

\* No lost wake-up: a generator asleep in wait() has read its whole stream,
\* and the stream is there and open.  Whatever ends that (publish, close) must
\* notify.  (A sweep cannot end it: an open stream never expires.)
NoLostWakeup ==
  \A r \in Readers : gen[r].at = "wait" =>
    LET id == gen[r].id
    IN id \in known \ done /\ gen[r].index >= Len(log[id])

\* What a generator has yielded and its client has not taken yet is a gap-free,
\* duplicate-free, in-order piece of the list, up to where the generator is and
\* not from before where the caller asked (stream()'s docstring).
YieldedInOrder ==
  \A r \in Readers : gen[r].at # "off" =>
    /\ gen[r].start + Len(out[r]) <= gen[r].index
    /\ \A i \in 1..Len(out[r]) :
         /\ out[r][i].index + Len(out[r]) = gen[r].index + i - 1
         /\ out[r][i].index < Len(log[gen[r].id])
         /\ out[r][i].event = At(gen[r].id, out[r][i].index)

\* "Stops once the stream is closed and fully drained": a generator that ended
\* of itself has yielded everything published before close(), also when late
\* events or a sweep of the stream come in between.
CleanEndIsDrained ==
  \A r \in Readers : gen[r].at = "ended" =>
    gen[r].id \notin known \ done /\ gen[r].index >= closedLen[gen[r].id]

\* The lazy sweep in create() never takes a stream whose run is still going
\* (only the end of the process does).
LiveStreamSurvives ==
  [][\A id \in known \ done : life' = life => id \in known']_vars

=============================================================================
