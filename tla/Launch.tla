------------------------------- MODULE Launch -------------------------------
(***************************************************************************)
(* What a launch passes before and after its run: the rate limiter         *)
(* (webapp/ratelimit.py) with the override of its limits that is kept in   *)
(* the state store, the gate of _ensure_modules_runnable, and the result   *)
(* cache of single-module runs (webapp/cache.py and the store's            *)
(* result_cache).                                                          *)
(*                                                                         *)
(*   a card:      hit -> gate -> look -> a run, or the replay of a result  *)
(*   a pipeline:  hit -> gate                                              *)
(*   the limits:  row -> max -> window                                     *)
(*                                                                         *)
(* The runs themselves are in Orchestrator and the gate is taken apart in  *)
(* CircuitBreaker: here a module is blocked or not, and a card's run ends  *)
(* well or not. Schedules pass the gate only, so that they meet nothing of *)
(* this. All requests come from one address, the limiter's "effectively    *)
(* one bucket".                                                            *)
(***************************************************************************)
EXTENDS Naturals, FiniteSets, Sequences

CONSTANTS
  Clients,   \* threads that serve requests
  Modules,
  Inputs,
  Limits,    \* [max, window] a user may set
  Default,   \* the limit of a fresh store
  MaxAge,    \* how long a cached result is good for
  MaxClock,  \* bound: how far the clock goes
  MaxAsks,   \* bound: requests, and with them runs
  MaxTurns   \* bound: blocks of a module, and deaths of the process

ASSUME LimitsAssumption ==
  Limits \subseteq [max : Nat \ {0}, window : Nat \ {0}] /\ Default \in Limits
ASSUME BoundsAssumption ==
  MaxAge \in Nat /\ MaxClock \in Nat /\ MaxAsks \in Nat /\ MaxTurns \in Nat

VARIABLES
  live,     \* max_requests and window_seconds of the limiter, in memory
  stored,   \* the row of rate_limit_override, or NoLimit
  hits,     \* the limiter's deque
  cached,   \* result_cache: by key, the run whose output it is and when
  blocked,  \* modules with an open breaker, or switched off
  job,      \* what each request is at
  running,  \* background threads of cards: [run, card]
  clock, asked, turns,
  admitted, \* stamps of the hits this process let pass (history)
  latest,   \* the latest stamp the limiter has handled (history)
  orderly,  \* stamps came in order, the window never grew (history)
  raced,    \* clients whose change of the limits overlapped another (history)
  clear,    \* the last change of the limits overlapped none (history)
  ended,    \* cards' runs that ended well: [run, card, since] (history)
  replayed  \* the last replay (history)

limiter == <<live, stored, hits>>
bounds == <<clock, asked, turns>>
window == <<admitted, latest, orderly>>
updates == <<raced, clear>>
results == <<cached, ended, replayed>>
vars == <<limiter, blocked, job, running, bounds, window, updates, results>>

Times == 0..MaxClock
Runs == 1..MaxAsks
NoLimit == [max |-> 0, window |-> 0]
Nothing == [at |-> "nothing"]
Idle == [at |-> "idle"]

Cards == [module : Modules, inputs : Inputs]
NoCard == [module |-> "none", inputs |-> "none"]

\* make_cache_key, a hash of tier, name and inputs, and the row it finds.
Key(card) == <<card.module, card.inputs>>
Entry(card) == cached[Key(card)]
Effective(row) == IF row = NoLimit THEN Default ELSE row
Updating == {c \in Clients : job[c].at \in {"max", "window"}}

Launches == [at : {"hit", "gate", "look"}, now : Times, modules : SUBSET Modules,
             card : Cards \cup {NoCard}, force : BOOLEAN, run : Runs]
Updates == [at : {"max", "window"}, limit : Limits]

TypeOK ==
  /\ live \in [max : Nat, window : Nat] /\ stored \in Limits \cup {NoLimit}
  /\ hits \in Seq(Times) /\ admitted \in Seq(Times)
  /\ cached \in [Modules \X Inputs -> {Nothing} \cup [run : Runs, at : Times]]
  /\ blocked \subseteq Modules
  /\ job \in [Clients -> {Idle} \cup Launches \cup Updates]
  /\ running \subseteq [run : Runs, card : Cards]
  /\ ended \subseteq [run : Runs, card : Cards, since : Times]
  /\ clock \in Times /\ asked \in 0..MaxAsks /\ turns \in 0..MaxTurns
  /\ latest \in Times /\ orderly \in BOOLEAN /\ raced \subseteq Clients /\ clear \in BOOLEAN

Init ==
  /\ live = Default /\ stored = NoLimit /\ hits = <<>>
  /\ cached = [k \in Modules \X Inputs |-> Nothing] /\ running = {} /\ ended = {} /\ replayed = Nothing
  /\ blocked = {} /\ job = [c \in Clients |-> Idle]
  /\ clock = 0 /\ asked = 0 /\ turns = 0
  /\ admitted = <<>> /\ latest = 0 /\ orderly = TRUE
  /\ raced = {} /\ clear = TRUE

-----------------------------------------------------------------------------
(* A request comes.                                                        *)

Ask(c, j) ==
  /\ job[c] = Idle /\ asked < MaxAsks
  /\ asked' = asked + 1
  /\ job' = [job EXCEPT ![c] = j]
  /\ UNCHANGED <<limiter, blocked, running, clock, turns, window, updates, results>>

\* allow() reads the clock before it takes its lock.
Launching(modules, card, force) ==
  [at |-> "hit", now |-> clock, modules |-> modules, card |-> card, force |-> force, run |-> asked + 1]

RunModule(c) ==
  \E card \in Cards, force \in BOOLEAN : Ask(c, Launching({card.module}, card, force))

\* run_pipeline, run_saved_pipeline, the webhook, save and launch, rerun.
RunPipeline(c) ==
  \E modules \in (SUBSET Modules) \ {{}} : Ask(c, Launching(modules, NoCard, TRUE))

\* set_rate_limit, and clear_rate_limit with NoLimit: the row first.
ChangeLimit(c) ==
  /\ \E row \in Limits \cup {NoLimit} :
       /\ stored' = row
       /\ job' = [job EXCEPT ![c] = [at |-> "max", limit |-> Effective(row)]]
  /\ job[c] = Idle /\ asked < MaxAsks
  /\ asked' = asked + 1
  /\ raced' = IF Updating = {} THEN raced \ {c} ELSE raced \cup Updating \cup {c}
  /\ UNCHANGED <<live, hits, blocked, running, clock, turns, window, clear, results>>

SetMax(c) ==
  /\ job[c].at = "max"
  /\ live' = [live EXCEPT !.max = job[c].limit.max]
  /\ job' = [job EXCEPT ![c].at = "window"]
  /\ UNCHANGED <<stored, hits, blocked, running, bounds, window, updates, results>>

SetWindow(c) ==
  /\ job[c].at = "window"
  /\ live' = [live EXCEPT !.window = job[c].limit.window]
  /\ job' = [job EXCEPT ![c] = Idle]
  /\ orderly' = (orderly /\ live'.window <= live.window)
  /\ clear' = (c \notin raced)
  /\ UNCHANGED <<stored, hits, blocked, running, bounds, admitted, latest, raced, results>>

-----------------------------------------------------------------------------
(* RateLimiter.allow, under its lock.                                      *)

\* The stamps are read before the lock is taken: now may be less than h.
Expired(h, now) == now > h /\ now - h > live.window

\* What is left when the expired hits at the front have been popped.
Recent(now) ==
  LET from == CHOOSE i \in 1..(Len(hits) + 1) :
                /\ \A j \in 1..(i - 1) : Expired(hits[j], now)
                /\ i <= Len(hits) => ~Expired(hits[i], now)
  IN SubSeq(hits, from, Len(hits))

\* Seeded fault: a refused request counts as a hit.
Counted(recent, now) == Append(recent, now)

Refused(recent, now) == recent

Allow(c) ==
  /\ job[c].at = "hit"
  /\ LET now == job[c].now
         recent == Recent(now)
         pass == Len(recent) < live.max
     IN /\ hits' = IF pass THEN Append(recent, now) ELSE Refused(recent, now)
        /\ job' = [job EXCEPT ![c] = IF pass THEN [@ EXCEPT !.at = "gate"] ELSE Idle]
        /\ admitted' = IF pass THEN Append(admitted, now) ELSE admitted
        /\ latest' = IF now > latest THEN now ELSE latest
        /\ orderly' = (orderly /\ now >= latest)
  /\ UNCHANGED <<live, stored, blocked, running, bounds, updates, results>>

-----------------------------------------------------------------------------
(* The gate, the cache and the run.                                        *)

\* Any module of it that is blocked refuses the launch (409).
Runnable(c) == job[c].modules \cap blocked = {}

Gate(c) ==
  /\ job[c].at = "gate"
  /\ job' = [job EXCEPT ![c] = IF Runnable(c) /\ @.card # NoCard THEN [@ EXCEPT !.at = "look"] ELSE Idle]
  /\ UNCHANGED <<limiter, blocked, running, bounds, window, updates, results>>

\* Seeded fault: a result never grows old.
Anytime(entry) == entry # Nothing

Fresh(entry) == entry # Nothing /\ clock - entry.at <= MaxAge

Hit(c) == ~job[c].force /\ Fresh(Entry(job[c].card))

Replay(c) ==
  /\ job[c].at = "look" /\ Hit(c)
  /\ replayed' = [card |-> job[c].card, run |-> Entry(job[c].card).run, on |-> clock]
  /\ job' = [job EXCEPT ![c] = Idle]
  /\ UNCHANGED <<limiter, blocked, running, bounds, window, updates, cached, ended>>

LaunchCard(c) ==
  /\ job[c].at = "look" /\ ~Hit(c)
  /\ running' = running \cup {[run |-> job[c].run, card |-> job[c].card]}
  /\ job' = [job EXCEPT ![c] = Idle]
  /\ UNCHANGED <<limiter, blocked, bounds, window, updates, results>>

\* The step's event is published, the breaker told, and its output cached.
Cache(r) ==
  /\ r \in running
  /\ running' = running \ {r}
  /\ cached' = [cached EXCEPT ![Key(r.card)] = [run |-> r.run, at |-> clock]]
  /\ ended' = ended \cup {[run |-> r.run, card |-> r.card, since |-> clock]}
  /\ UNCHANGED <<limiter, blocked, job, bounds, window, updates, replayed>>

FailRun(r) ==
  /\ r \in running
  /\ running' = running \ {r}
  /\ UNCHANGED <<limiter, blocked, job, bounds, window, updates, results>>

-----------------------------------------------------------------------------
(* The environment, and the specification.                                 *)

Tick ==
  /\ clock < MaxClock
  /\ clock' = clock + 1
  /\ UNCHANGED <<limiter, blocked, job, running, asked, turns, window, updates, results>>

\* A breaker opens or is reset, a module is switched off or on.
Turn(m) ==
  /\ turns < MaxTurns
  /\ turns' = turns + 1
  /\ blocked' = IF m \in blocked THEN blocked \ {m} ELSE blocked \cup {m}
  /\ UNCHANGED <<limiter, job, running, clock, asked, window, updates, results>>

\* Seeded fault: the row is read by nobody at startup.
DefaultAlways == Default

AtStartup == Effective(stored)

\* The process dies and is started again.
Restart ==
  /\ turns < MaxTurns
  /\ turns' = turns + 1
  /\ live' = AtStartup /\ hits' = <<>>
  /\ job' = [c \in Clients |-> Idle] /\ running' = {}
  /\ admitted' = <<>> /\ latest' = clock /\ orderly' = TRUE
  /\ raced' = {} /\ clear' = TRUE
  /\ UNCHANGED <<stored, blocked, clock, asked, results>>

Next ==
  \/ Tick \/ Restart
  \/ \E m \in Modules : Turn(m)
  \/ \E c \in Clients :
       \/ RunModule(c) \/ RunPipeline(c) \/ Allow(c)
       \/ Gate(c) \/ Replay(c) \/ LaunchCard(c)
       \/ ChangeLimit(c) \/ SetMax(c) \/ SetWindow(c)
  \/ \E r \in running : Cache(r) \/ FailRun(r)

Spec == Init /\ [][Next]_vars

-----------------------------------------------------------------------------
(* Properties.                                                             *)

InWindow(now) ==
  LET counts == {i \in DOMAIN admitted : ~Expired(admitted[i], now)}
  IN Cardinality(counts)

\* RateLimiter.allow: "a sliding window over the last window_seconds". A
\* request is let through exactly if fewer than max_requests of those let
\* through before it lie in the window that ends with it: refused ones do not
\* count, a hit at the window's edge does. As long as the requests reach the
\* lock in the order in which they read the clock, and the window is not
\* widened (hits already dropped do not come back).
AdmitsExactly ==
  [][\A c \in Clients :
       Allow(c) /\ orderly' =>
         (job'[c] # Idle <=> InWindow(job[c].now) < live.max)]_vars

\* get_rate_limit: "whatever is currently enforced" is the stored override, or
\* the default where there is none, after every change and every restart, but
\* where two changes overlapped: their three assignments can mix.
LimitIsOnRecord == Updating = {} /\ clear => live = Effective(stored)

\* get_cached_result: what is replayed for a card is the output of a run of
\* that very module on those very inputs that ended well at most max_age_seconds
\* ago, in this process or an earlier one.
ReplayIsARecentSuccess ==
  replayed # Nothing =>
    \E e \in ended :
      e.run = replayed.run /\ e.card = replayed.card /\ replayed.on - e.since <= MaxAge
=============================================================================
