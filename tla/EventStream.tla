---------------------------- MODULE EventStream ----------------------------
(***************************************************************************)
(* A run watched live: the worker thread that publishes a run's events     *)
(* (main.py, _run_in_background), the SSE endpoint (main.py,               *)
(* /api/stream/{id}) on top of the bus, and the page's EventSource with    *)
(* subscribeToStream (app.js) at the other end.  The browser reconnects by *)
(* itself, sending the last id it received; the page stops at the run's    *)
(* closing event or after GiveUpAfter errors with no message in between.   *)
(*                                                                         *)
(* Each client owns one generator of the bus, and out[c], what the         *)
(* generator has yielded, is the data on its way to that client.           *)
(***************************************************************************)
EXTENDS RunEventBus

CONSTANTS
  GiveUpAfter,  \* consecutiveErrors at which the page stops (5 in app.js)
  MaxDrops      \* bound: connections the network loses

ASSUME StreamAssumption ==
  /\ GiveUpAfter \in Nat \ {0}
  /\ MaxDrops \in Nat
  /\ Kinds = {"step", "end"}

Clients == Readers

VARIABLES
  worker,   \* worker[id]: the thread behind stream id
  page,     \* page[c]: "idle", "open", or how the watch was finished
  watch,    \* watch[c]: the stream id the launch request returned
  born,     \* born[c]: the life of the server in which it was returned
  shown,    \* shown[c]: the messages onmessage handled, in order
  errors,   \* consecutiveErrors
  drops     \* connections lost so far

clientVars == <<page, watch, born, shown, errors, drops>>
allVars == <<vars, worker, clientVars>>

WorkerStates == {"none", "running", "told", "over"}
PageStates == {"idle", "open", "sawEnd", "lost"}

SInit ==
  /\ Init
  /\ worker = [id \in StreamIds |-> "none"]
  /\ page = [c \in Clients |-> "idle"]
  /\ watch = [c \in Clients |-> 1]
  /\ born = [c \in Clients |-> 1]
  /\ shown = [c \in Clients |-> << >>]
  /\ errors = [c \in Clients |-> 0]
  /\ drops = 0

-----------------------------------------------------------------------------
(* The server's side.                                                      *)

\* _launch_steps: a stream and a worker thread for one run.
Launch ==
  /\ Create
  /\ worker' = [worker EXCEPT ![nextId] = "running"]
  /\ UNCHANGED clientVars

\* handle_event of anything but the closing event.  A module abandoned on a
\* timeout keeps its context and may emit at any time, even after the run.
StepEvent(id) ==
  /\ Publish(id, "step")
  /\ UNCHANGED <<worker, clientVars>>

\* run_completed or run_failed: the last event of orchestrator.run.
EndEvent(id) ==
  /\ worker[id] = "running"
  /\ Publish(id, "end")
  /\ worker' = [worker EXCEPT ![id] = "told"]
  /\ UNCHANGED clientVars

\* The worker's finally clause; without a closing event before it when
\* orchestrator.run raised outside its own handlers.
WorkerExits(id) ==
  /\ worker[id] \in {"running", "told"}
  /\ Close(id)
  /\ worker' = [worker EXCEPT ![id] = "over"]
  /\ UNCHANGED clientVars

\* _prune_expired_locked's clock.
RetentionOver(id) == RetentionPasses(id) /\ UNCHANGED <<worker, clientVars>>

\* The server dies: every open connection fails, so the page counts an error.
ServerRestart ==
  /\ Restart
  /\ worker' = [id \in StreamIds |-> "none"]
  /\ errors' = [c \in Clients |-> IF gen[c].at # "off" THEN errors[c] + 1 ELSE errors[c]]
  /\ page' = [c \in Clients |-> IF page[c] = "open" /\ errors'[c] >= GiveUpAfter
                                THEN "lost" ELSE page[c]]
  /\ UNCHANGED <<watch, born, shown, drops>>

GeneratorStep(c) ==
  /\ Check(c) \/ Yield(c) \/ Timeout(c)
  /\ UNCHANGED <<worker, clientVars>>

-----------------------------------------------------------------------------
(* The browser's side.                                                     *)

\* The launch response arrives with the stream id: subscribeToStream.
Subscribe(c) ==
  /\ page[c] = "idle"
  /\ \E id \in 1..(nextId - 1) : watch' = [watch EXCEPT ![c] = id]
  /\ page' = [page EXCEPT ![c] = "open"]
  /\ born' = [born EXCEPT ![c] = life]
  /\ UNCHANGED <<vars, worker, shown, errors, drops>>

\* Seeded fault: the reconnection resumes at the last id, not after it.
FromLastId(c) == IF shown[c] = << >> THEN 0 ELSE shown[c][Len(shown[c])].index

\* Where stream_events starts the generator: after Last-Event-ID, or at 0.
FromIndex(c) == IF shown[c] = << >> THEN 0 ELSE shown[c][Len(shown[c])].index + 1

\* The first connection, or the browser's automatic reconnection.
Connect(c) ==
  /\ page[c] = "open"
  /\ Open(c, watch[c], FromIndex(c))
  /\ UNCHANGED <<worker, clientVars>>

\* onmessage; on the closing event finish() closes the source.
Receive(c) ==
  /\ page[c] = "open"
  /\ out[c] # << >>
  /\ shown' = [shown EXCEPT ![c] = Append(@, Head(out[c]))]
  /\ errors' = [errors EXCEPT ![c] = 0]
  /\ IF Head(out[c]).event.kind = "end"
     THEN /\ page' = [page EXCEPT ![c] = "sawEnd"]
          /\ gen' = [gen EXCEPT ![c] = Off]
          /\ out' = [out EXCEPT ![c] = << >>]
     ELSE /\ out' = [out EXCEPT ![c] = Tail(@)]
          /\ UNCHANGED <<page, gen>>
  /\ UNCHANGED <<busVars, worker, watch, born, drops>>

\* Seeded fault: onerror leaves everything to the browser's own retries.
RetryForEver(c) ==
  /\ page[c] = "open"
  /\ UNCHANGED <<worker, page, watch, born, shown, errors>>

\* Seeded fault: the page gives up after the fifth error, not at it.
GivesUpLate(c) ==
  /\ page[c] = "open"
  /\ errors' = [errors EXCEPT ![c] = @ + 1]
  /\ page' = [page EXCEPT ![c] = IF errors[c] >= GiveUpAfter THEN "lost" ELSE @]
  /\ UNCHANGED <<worker, watch, born, shown>>

\* onerror: counts, and finishes the watch at the fifth in a row.
OnError(c) ==
  /\ page[c] = "open"
  /\ errors' = [errors EXCEPT ![c] = @ + 1]
  /\ page' = [page EXCEPT ![c] = IF errors[c] + 1 >= GiveUpAfter THEN "lost" ELSE @]
  /\ UNCHANGED <<worker, watch, born, shown>>

\* The server finished the response and the client has read all of it; an
\* EventSource sees that as an error and reconnects.
ResponseEnds(c) ==
  /\ gen[c].at \in {"timedOut", "gone", "ended"}
  /\ out[c] = << >>
  /\ Drop(c)
  /\ OnError(c)
  /\ UNCHANGED drops

\* The network loses the connection with whatever was on its way.
ConnectionLost(c) ==
  /\ drops < MaxDrops
  /\ Drop(c)
  /\ OnError(c)
  /\ drops' = drops + 1

ClientStep(c) == Subscribe(c) \/ Connect(c) \/ Receive(c) \/ ResponseEnds(c)

SNext ==
  \/ Launch
  \/ \E id \in StreamIds : StepEvent(id)
  \/ \E id \in StreamIds : EndEvent(id)
  \/ \E id \in StreamIds : WorkerExits(id)
  \/ \E id \in StreamIds : RetentionOver(id)
  \/ ServerRestart
  \/ \E c \in Clients : GeneratorStep(c)
  \/ \E c \in Clients : Subscribe(c)
  \/ \E c \in Clients : Connect(c)
  \/ \E c \in Clients : Receive(c)
  \/ \E c \in Clients : ResponseEnds(c)
  \/ \E c \in Clients : ConnectionLost(c)

\* The server thread of a connection and the browser keep going; nothing is
\* assumed of the runs, the clock, the network or the process.
SFairness ==
  \A c \in Clients :
    /\ WF_allVars(GeneratorStep(c))
    /\ WF_allVars(Connect(c))
    /\ WF_allVars(Receive(c))
    /\ WF_allVars(ResponseEnds(c))

SSpec == SInit /\ [][SNext]_allVars
FairSSpec == SSpec /\ SFairness

-----------------------------------------------------------------------------
(* Properties.                                                             *)

\* Every variable of the bus, the worker's and the page's has its type, only a
\* closed stream counts down its retention, and a page that has counted
\* GiveUpAfter errors has given up.
STypeOK ==
  /\ TypeOK
  /\ worker \in [StreamIds -> WorkerStates]
  /\ page \in [Clients -> PageStates]
  /\ watch \in [Clients -> StreamIds]
  /\ born \in [Clients -> 1..MaxLives]
  /\ shown \in [Clients -> Seq(Item)]
  /\ errors \in [Clients -> 0..GiveUpAfter]
  /\ \A c \in Clients : page[c] = "open" => errors[c] < GiveUpAfter
  /\ drops \in 0..MaxDrops

SameLife(c) == born[c] = life

\* Whatever is lost or repeated on the way, the page is shown the run's own
\* log from its first event, with no gap, no repetition and no reordering
\* (stream_events: a reconnect "resumes exactly where it left off instead of
\* replaying from scratch or losing events").
ShownIsThePrefix ==
  \A c \in Clients : page[c] # "idle" /\ SameLife(c) =>
    \A i \in 1..Len(shown[c]) :
      /\ i <= Len(log[watch[c]])
      /\ shown[c][i] = [index |-> i - 1, event |-> log[watch[c]][i]]

\* Every watch comes to an end: the closing event, or giving up, but never a
\* page that waits for ever.
EveryWatchEnds == \A c \in Clients : page[c] = "open" ~> page[c] \in {"sawEnd", "lost"}

EndPublished(id) == \E i \in 1..Len(log[id]) : log[id][i].kind = "end"

\* A published closing event reaches a page with patience left (for the drops
\* still to come and one response that has already timed out), unless the
\* stream is swept or the process dies first.
EndReachesThePage ==
  \A c \in Clients :
    (/\ page[c] = "open" /\ SameLife(c)
     /\ EndPublished(watch[c])
     /\ errors[c] + (MaxDrops - drops) + 1 < GiveUpAfter)
      ~> (page[c] = "sawEnd" \/ ~SameLife(c) \/ watch[c] \notin known)

\* The abstract feed, with the events of shown as the view.
IsEnd(e) == e.kind = "end"
Feed == INSTANCE RunFeed WITH
          Watchers <- Clients,
          Runs     <- StreamIds,
          Events   <- Event,
          Closing  <- IsEnd,
          feed     <- log,
          watched  <- watch,
          view     <- [c \in Clients |-> [i \in 1..Len(shown[c]) |-> shown[c][i].event]],
          state    <- [c \in Clients |-> IF page[c] \in {"sawEnd", "lost"} THEN "done" ELSE page[c]]

\* In one life of the server, drops, timeouts and reconnections are invisible:
\* the whole machinery implements the feed.
ImplementsFeed == Feed!Spec
=============================================================================
