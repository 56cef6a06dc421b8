--------------------------- MODULE Launch_proofs ---------------------------
(***************************************************************************)
(* Proofs about Launch, for any requests, modules, limits and times: the   *)
(* limiter lets through exactly what a sliding window does, its limits are *)
(* the ones on record, and what is replayed is a recent success.           *)
(*                                                                         *)
(* The deque holds fewer hits than the window's definition counts over:    *)
(* Window says that it is a suffix of all hits let through, and that those *)
(* popped are expired for good, which they are while stamps come in order  *)
(* and the window does not grow. A change of the limits takes three steps: *)
(* Changing says that one that overlaps no other carries the limits on     *)
(* record. Recorded ties the cache to the runs that ended well.            *)
(***************************************************************************)
EXTENDS Launch, FiniteSetTheorems, NaturalsInduction, WellFoundedInduction, TLAPS

Jobs == {Idle} \cup Launches \cup Updates

Sorted ==
  /\ \A i, j \in 1..Len(admitted) : i <= j => admitted[i] <= admitted[j]
  /\ \A i \in 1..Len(admitted) : admitted[i] <= latest

\* The first k hits that were let through have been popped.
Popped(k) ==
  /\ Len(hits) = Len(admitted) - k
  /\ \A i \in 1..Len(hits) : hits[i] = admitted[k + i]
  /\ \A i \in 1..k : Expired(admitted[i], latest)

Window == orderly => Sorted /\ \E k \in 0..Len(admitted) : Popped(k)

Changing ==
  /\ LimitIsOnRecord
  /\ \A c \in Updating \ raced :
       /\ Updating = {c} /\ job[c].limit = Effective(stored)
       /\ job[c].at = "window" => live.max = job[c].limit.max

Recorded ==
  /\ \A k \in Modules \X Inputs : cached[k] # Nothing =>
       \E e \in ended : e.run = cached[k].run /\ Key(e.card) = k /\ e.since = cached[k].at
  /\ \A c \in Clients : job[c].at = "look" => job[c].card \in Cards
  /\ ReplayIsARecentSuccess

IInv == TypeOK /\ Window /\ Changing /\ Recorded

-----------------------------------------------------------------------------
(* The deque.                                                              *)

\* A set of numbers has a least one.
LEMMA Least ==
  ASSUME NEW T \in SUBSET Nat, T # {}
  PROVE  \E m \in T : \A k \in T : m <= k
<1>1. PICK m \in T : \A k \in Nat : <<k, m>> \in OpToRel(<, Nat) => ~(k \in T)
  BY WFMin, NatLessThanWellFounded, Zenon
<1>2. \A k \in Nat : k < m => <<k, m>> \in OpToRel(<, Nat)
  BY DEF OpToRel
<1>3. \A k \in Nat : k < m => k \notin T
  BY <1>1, <1>2, Zenon
<1> QED BY <1>3

\* The loop of popleft takes the first n hits and stops at one in the window.
Pops(n, now) ==
  /\ \A i \in 1..n : Expired(hits[i], now)
  /\ n < Len(hits) => ~Expired(hits[n + 1], now)

LEMMA RecentShape ==
  ASSUME hits \in Seq(Times), NEW now \in Times
  PROVE  \E n \in 0..Len(hits) :
           /\ Pops(n, now)
           /\ Recent(now) \in Seq(Times)
           /\ Len(Recent(now)) = Len(hits) - n
           /\ \A i \in 1..(Len(hits) - n) : Recent(now)[i] = hits[n + i]
<1> DEFINE last == Len(hits)
           Stop(i) == /\ \A j \in 1..(i - 1) : Expired(hits[j], now)
                      /\ i <= last => ~Expired(hits[i], now)
           T == {i \in 1..(last + 1) : i <= last => ~Expired(hits[i], now)}
<1>0. last \in Nat
  OBVIOUS
<1> HIDE DEF last
<1>1. \E i \in 1..(last + 1) : Stop(i)
  <2>1. T \in SUBSET Nat /\ last + 1 \in T
    BY <1>0
  <2>2. PICK m \in T : \A k \in T : m <= k
    BY <2>1, Least
  <2>3. \A j \in 1..(m - 1) : j \notin T
    BY <1>0, <2>2
  <2>4. \A j \in 1..(m - 1) : j \in 1..(last + 1)
    BY <1>0
  <2>5. \A j \in 1..(m - 1) : Expired(hits[j], now)
    BY <2>3, <2>4
  <2> QED BY <2>5
<1>2. PICK from : from = CHOOSE i \in 1..(last + 1) : Stop(i)
  OBVIOUS
<1>3. from \in 1..(last + 1) /\ Stop(from)
  BY <1>1, <1>2
<1>4. Recent(now) = SubSeq(hits, from, last)
  BY <1>2 DEF Recent, last
<1>5. PICK n \in 0..last : n = from - 1
  BY <1>0, <1>3
<1>6. Pops(n, now)
  BY <1>0, <1>3, <1>5 DEF Pops, last
<1>7. /\ Recent(now) \in Seq(Times) /\ Len(Recent(now)) = last - n
      /\ \A i \in 1..(last - n) : Recent(now)[i] = hits[n + i]
  <2>1. from \in 1..(last + 1) /\ n + 1 = from
    BY <1>0, <1>3, <1>5
  <2>2. Len(SubSeq(hits, from, last)) = last - n
    BY <1>0, <1>5, <2>1 DEF last
  <2>3. \A i \in 1..(last - n) : SubSeq(hits, from, last)[i] = hits[n + i]
    BY <1>0, <1>5, <2>1 DEF last
  <2>4. SubSeq(hits, from, last) \in Seq(Times)
    BY <1>0, <2>1 DEF last
  <2> QED BY <1>4, <2>2, <2>3, <2>4
<1> QED BY <1>6, <1>7 DEF last

-----------------------------------------------------------------------------
(* Types.                                                                  *)

LEMMA Limiting ==
  ASSUME NEW row \in Limits \cup {NoLimit}
  PROVE  Effective(row) \in Limits /\ Limits \subseteq [max : Nat, window : Nat]
  BY LimitsAssumption DEF Effective

LEMMA JobShape ==
  ASSUME NEW j \in Jobs
  PROVE  /\ j.at \in {"hit", "gate", "look"} => j \in Launches
         /\ j.at \in {"max", "window"} => j \in Updates
         /\ j \in Launches => /\ j.at \in {"hit", "gate", "look"} /\ j.now \in Times
                              /\ j.card \in Cards \cup {NoCard} /\ j.run \in Runs
                              /\ [j EXCEPT !.at = "gate"] \in Launches
                              /\ [j EXCEPT !.at = "look"] \in Launches
         /\ j \in Updates => /\ j.at \in {"max", "window"} /\ j.limit \in Limits
                             /\ [j EXCEPT !.at = "window"] \in Updates
  BY DEF Jobs, Idle, Launches, Updates

LEMMA OnlyJob ==
  ASSUME TypeOK, NEW c \in Clients, NEW r, job' = [job EXCEPT ![c] = r]
  PROVE  job'[c] = r /\ \A d \in Clients \ {c} : job'[d] = job[d]
  BY DEF TypeOK

\* What a launch or a change of the limits goes on with is a job.
LEMMA JobTypes ==
  ASSUME TypeOK, NEW c \in Clients, NEW r \in Jobs, job' = [job EXCEPT ![c] = r]
  PROVE  job' \in [Clients -> {Idle} \cup Launches \cup Updates]
  BY DEF TypeOK, Jobs

LEMMA RequestTypes ==
  ASSUME TypeOK, NEW c \in Clients, RunModule(c) \/ RunPipeline(c)
  PROVE  /\ TypeOK'
         /\ \E r \in Launches : r.at = "hit" /\ job' = [job EXCEPT ![c] = r]
         /\ job[c] = Idle
         /\ UNCHANGED <<limiter, blocked, running, clock, turns, window, updates, results>>
<1>1. PICK ms \in SUBSET Modules, card \in Cards \cup {NoCard}, force \in BOOLEAN :
        Ask(c, Launching(ms, card, force))
  <2>1. CASE RunModule(c)
    <3>1. PICK card \in Cards, force \in BOOLEAN : Ask(c, Launching({card.module}, card, force))
      BY <2>1 DEF RunModule
    <3>2. {card.module} \in SUBSET Modules
      BY DEF Cards
    <3> QED BY <3>1, <3>2
  <2>2. CASE RunPipeline(c)
    BY <2>2 DEF RunPipeline
  <2> QED BY <2>1, <2>2
<1>2. PICK r : r = Launching(ms, card, force)
  OBVIOUS
<1>3. asked < MaxAsks /\ asked' = asked + 1 /\ job[c] = Idle /\ job' = [job EXCEPT ![c] = r]
  BY <1>1, <1>2 DEF Ask
<1>4. asked + 1 \in Runs /\ asked' \in 0..MaxAsks
  BY <1>3, BoundsAssumption DEF TypeOK, Runs
<1>5. r \in Launches /\ r.at = "hit"
  BY <1>2, <1>4 DEF Launching, Launches, TypeOK
<1>6. job' \in [Clients -> {Idle} \cup Launches \cup Updates]
  BY <1>3, <1>5, JobTypes DEF Jobs
<1>7. UNCHANGED <<limiter, blocked, running, clock, turns, window, updates, results>>
  BY <1>1 DEF Ask
<1>8. TypeOK'
  BY <1>4, <1>6, <1>7 DEF TypeOK, limiter, window, updates, results
<1> QED BY <1>3, <1>5, <1>7, <1>8

LEMMA AllowTypes ==
  ASSUME TypeOK, NEW c \in Clients, Allow(c)
  PROVE  TypeOK'
<1> DEFINE j == job[c]
           pass == Len(Recent(j.now)) < live.max
<1>1. j \in Launches /\ j.now \in Times
  BY JobShape DEF TypeOK, Allow, Jobs
<1>2. Recent(j.now) \in Seq(Times)
  BY <1>1, RecentShape DEF TypeOK
<1>3. hits' \in Seq(Times)
  BY <1>1, <1>2 DEF Allow, Refused
<1>4. PICK r : r = IF pass THEN [j EXCEPT !.at = "gate"] ELSE Idle
  OBVIOUS
<1>5. r \in Jobs /\ job' = [job EXCEPT ![c] = r]
  BY <1>1, <1>4, JobShape DEF Allow, Jobs
<1>6. job' \in [Clients -> {Idle} \cup Launches \cup Updates]
  BY <1>5, JobTypes
<1>7. admitted' \in Seq(Times)
  BY <1>1 DEF Allow, TypeOK
<1>8. latest' \in Times
  BY <1>1 DEF Allow, TypeOK
<1>9. orderly' \in BOOLEAN
  BY ZenonT(30) DEF Allow
<1>10. UNCHANGED <<live, stored, blocked, running, bounds, updates, results>>
  BY DEF Allow
<1> QED BY <1>3, <1>6, <1>7, <1>8, <1>9, <1>10 DEF TypeOK, bounds, updates, results

LEMMA CardTypes ==
  ASSUME TypeOK, Recorded, NEW c \in Clients, Gate(c) \/ Replay(c) \/ LaunchCard(c)
  PROVE  TypeOK'
<1> DEFINE j == job[c]
<1>1. j \in Launches /\ j.run \in Runs /\ j.card \in Cards \cup {NoCard}
  BY JobShape DEF TypeOK, Gate, Replay, LaunchCard, Jobs
<1>2. CASE Gate(c)
  <2>1. PICK r : r = IF Runnable(c) /\ j.card # NoCard THEN [j EXCEPT !.at = "look"] ELSE Idle
    OBVIOUS
  <2>2. r \in Jobs /\ job' = [job EXCEPT ![c] = r]
    BY <1>1, <1>2, <2>1, JobShape DEF Gate, Jobs
  <2>3. job' \in [Clients -> {Idle} \cup Launches \cup Updates]
    BY <2>2, JobTypes
  <2> QED BY <1>2, <2>3 DEF Gate, TypeOK, limiter, bounds, window, updates, results
<1>3. CASE Replay(c) \/ LaunchCard(c)
  <2>1. job' = [job EXCEPT ![c] = Idle]
    BY <1>3 DEF Replay, LaunchCard
  <2>2. job' \in [Clients -> {Idle} \cup Launches \cup Updates]
    BY <2>1, JobTypes DEF Jobs
  <2>3. CASE Replay(c)
    BY <2>2, <2>3 DEF Replay, TypeOK, limiter, bounds, window, updates
  <2>4. CASE LaunchCard(c)
    <3>1. j.card \in Cards
      BY <2>4 DEF LaunchCard, Recorded
    <3> QED BY <1>1, <2>2, <2>4, <3>1 DEF LaunchCard, TypeOK, limiter, bounds, window, updates, results
  <2> QED BY <1>3, <2>3, <2>4
<1> QED BY <1>2, <1>3

LEMMA ChangeTypes ==
  ASSUME TypeOK, NEW c \in Clients, ChangeLimit(c) \/ SetMax(c) \/ SetWindow(c)
  PROVE  TypeOK'
<1> DEFINE j == job[c]
<1>0. j \in Jobs /\ Limits \subseteq [max : Nat, window : Nat]
  BY LimitsAssumption DEF TypeOK, Jobs
<1>1. CASE ChangeLimit(c)
  <2>1. PICK row \in Limits \cup {NoLimit} :
          stored' = row /\ job' = [job EXCEPT ![c] = [at |-> "max", limit |-> Effective(row)]]
    BY <1>1 DEF ChangeLimit
  <2>2. PICK r : r = [at |-> "max", limit |-> Effective(row)]
    OBVIOUS
  <2>3. r \in Jobs
    BY <2>2, Limiting DEF Updates, Jobs
  <2>4. job' = [job EXCEPT ![c] = r]
    BY <2>1, <2>2
  <2>5. job' \in [Clients -> {Idle} \cup Launches \cup Updates]
    BY <2>3, <2>4, JobTypes
  <2>6. asked' \in 0..MaxAsks
    BY <1>1, BoundsAssumption DEF ChangeLimit, TypeOK
  <2>7. raced' \subseteq Clients
    BY <1>1 DEF ChangeLimit, TypeOK, Updating
  <2>8. stored' \in Limits \cup {NoLimit}
    BY <2>1
  <2>9. UNCHANGED <<live, hits, blocked, running, clock, turns, window, clear, results>>
    BY <1>1 DEF ChangeLimit
  <2> QED BY <2>5, <2>6, <2>7, <2>8, <2>9 DEF TypeOK, window, results
<1>2. CASE SetMax(c)
  <2>1. j \in Updates /\ j.limit \in Limits
    BY <1>0, <1>2, JobShape DEF SetMax
  <2>2. PICK r : r = [j EXCEPT !.at = "window"]
    OBVIOUS
  <2>3. r \in Jobs
    BY <2>1, <2>2, JobShape DEF Jobs
  <2>4. job' = [job EXCEPT ![c] = r]
    BY <1>2, <2>2 DEF SetMax
  <2>5. job' \in [Clients -> {Idle} \cup Launches \cup Updates]
    BY <2>3, <2>4, JobTypes
  <2>6. live' \in [max : Nat, window : Nat]
    BY <1>0, <1>2, <2>1 DEF SetMax, TypeOK
  <2> QED BY <1>2, <2>5, <2>6 DEF SetMax, TypeOK, bounds, window, updates, results
<1>3. CASE SetWindow(c)
  <2>1. j \in Updates /\ j.limit \in Limits
    BY <1>0, <1>3, JobShape DEF SetWindow
  <2>2. job' = [job EXCEPT ![c] = Idle]
    BY <1>3 DEF SetWindow
  <2>3. job' \in [Clients -> {Idle} \cup Launches \cup Updates]
    BY <2>2, JobTypes DEF Jobs
  <2>4. live' \in [max : Nat, window : Nat]
    BY <1>0, <1>3, <2>1 DEF SetWindow, TypeOK
  <2>5. orderly' \in BOOLEAN /\ clear' \in BOOLEAN
    BY <1>3, ZenonT(30) DEF SetWindow
  <2>6. UNCHANGED <<stored, hits, blocked, running, bounds, admitted, latest, raced, results>>
    BY <1>3 DEF SetWindow
  <2> QED BY <2>3, <2>4, <2>5, <2>6 DEF TypeOK, bounds, results
<1> QED BY <1>1, <1>2, <1>3

LEMMA RunTypes ==
  ASSUME TypeOK, NEW r \in running, Cache(r) \/ FailRun(r)
  PROVE  TypeOK'
<1>1. r \in [run : Runs, card : Cards] /\ clock \in Times /\ Key(r.card) \in Modules \X Inputs
  BY DEF TypeOK, Cards, Key
<1>2. CASE Cache(r)
  <2>1. [run |-> r.run, at |-> clock] \in [run : Runs, at : Times]
    BY <1>1
  <2>2. cached' \in [Modules \X Inputs -> {Nothing} \cup [run : Runs, at : Times]]
    BY <1>1, <1>2, <2>1 DEF Cache, TypeOK
  <2>3. [run |-> r.run, card |-> r.card, since |-> clock] \in [run : Runs, card : Cards, since : Times]
    BY <1>1
  <2> QED BY <1>2, <2>2, <2>3 DEF Cache, TypeOK, limiter, bounds, window, updates
<1>3. CASE FailRun(r)
  BY <1>3 DEF FailRun, TypeOK, limiter, bounds, window, updates, results
<1> QED BY <1>2, <1>3

LEMMA TypeNext ==
  ASSUME TypeOK, Recorded, [Next]_vars
  PROVE  TypeOK'
<1>1. CASE Tick
  <2>1. clock' \in Times
    BY <1>1, BoundsAssumption DEF Tick, TypeOK, Times
  <2> QED BY <1>1, <2>1 DEF Tick, TypeOK, limiter, window, updates, results
<1>2. CASE Restart
  <2>1. turns' \in 0..MaxTurns
    BY <1>2, BoundsAssumption DEF Restart, TypeOK
  <2>2. live' \in [max : Nat, window : Nat]
    BY <1>2, Limiting DEF Restart, TypeOK, AtStartup
  <2>3. job' \in [Clients -> {Idle} \cup Launches \cup Updates]
    BY <1>2 DEF Restart
  <2>4. hits' \in Seq(Times) /\ admitted' \in Seq(Times) /\ latest' \in Times
    BY <1>2 DEF Restart, TypeOK
  <2>5. orderly' \in BOOLEAN /\ clear' \in BOOLEAN /\ raced' \subseteq Clients /\ running' = {}
    BY <1>2 DEF Restart
  <2> QED BY <1>2, <2>1, <2>2, <2>3, <2>4, <2>5 DEF Restart, TypeOK, results
<1>3. ASSUME NEW m \in Modules, Turn(m)
      PROVE  TypeOK'
  <2>1. turns' \in 0..MaxTurns
    BY <1>3, BoundsAssumption DEF Turn, TypeOK
  <2> QED BY <1>3, <2>1 DEF Turn, TypeOK, limiter, window, updates, results
<1>4. CASE UNCHANGED vars
  BY <1>4 DEF vars, TypeOK, limiter, bounds, window, updates, results
<1> QED BY <1>1, <1>2, <1>3, <1>4, RequestTypes, AllowTypes, CardTypes, ChangeTypes, RunTypes DEF Next

-----------------------------------------------------------------------------
(* The cache.                                                              *)

LEMMA RecordedStays ==
  ASSUME Recorded, NEW c \in Clients, NEW r, job' = [job EXCEPT ![c] = r], TypeOK,
         r.at = "look" => r.card \in Cards, UNCHANGED results
  PROVE  Recorded'
<1>1. job'[c] = r /\ \A d \in Clients \ {c} : job'[d] = job[d]
  BY OnlyJob
<1>2. \A d \in Clients : job'[d].at = "look" => job'[d].card \in Cards
  BY <1>1 DEF Recorded
<1> QED BY <1>2 DEF Recorded, ReplayIsARecentSuccess, results

LEMMA RecordedNext ==
  ASSUME TypeOK, Recorded, [Next]_vars
  PROVE  Recorded'
<1>1. CASE Tick \/ UNCHANGED vars
  BY <1>1 DEF Tick, vars, bounds, results, Recorded, ReplayIsARecentSuccess
<1>2. CASE Restart
  BY <1>2 DEF Restart, results, Recorded, ReplayIsARecentSuccess, Idle
<1>3. ASSUME NEW m \in Modules, Turn(m)
      PROVE  Recorded'
  BY <1>3 DEF Turn, results, Recorded, ReplayIsARecentSuccess
<1>4. ASSUME NEW c \in Clients, RunModule(c) \/ RunPipeline(c)
      PROVE  Recorded'
  <2>1. PICK r \in Launches : r.at = "hit" /\ job' = [job EXCEPT ![c] = r]
    BY <1>4, RequestTypes
  <2>2. UNCHANGED results
    BY <1>4, RequestTypes
  <2> QED BY <2>1, <2>2, RecordedStays
<1>5. ASSUME NEW c \in Clients, Allow(c) \/ Gate(c) \/ LaunchCard(c)
      PROVE  Recorded'
  <2>1. job[c] \in Launches
    BY <1>5, JobShape DEF TypeOK, Allow, Gate, LaunchCard, Jobs
  <2>2. PICK r : /\ job' = [job EXCEPT ![c] = r]
                 /\ \/ r = Idle \/ r = [job[c] EXCEPT !.at = "gate"]
                    \/ r = [job[c] EXCEPT !.at = "look"] /\ job[c].card # NoCard
    BY <1>5 DEF Allow, Gate, LaunchCard
  <2>3. r.at = "look" => r.card \in Cards
    BY <2>1, <2>2, JobShape DEF Launches, Idle
  <2>4. UNCHANGED results
    BY <1>5 DEF Allow, Gate, LaunchCard
  <2> QED BY <2>2, <2>3, <2>4, RecordedStays
<1>6. ASSUME NEW c \in Clients, ChangeLimit(c) \/ SetMax(c) \/ SetWindow(c)
      PROVE  Recorded'
  <2>1. job[c].at \in {"max", "window"} => job[c] \in Updates
    BY JobShape DEF TypeOK, Jobs
  <2>2. PICK r : /\ job' = [job EXCEPT ![c] = r]
                 /\ \/ r = Idle \/ r.at = "max"
                    \/ r = [job[c] EXCEPT !.at = "window"] /\ job[c].at = "max"
    <3>1. CASE ChangeLimit(c)
      <4>1. PICK row \in Limits \cup {NoLimit} :
              job' = [job EXCEPT ![c] = [at |-> "max", limit |-> Effective(row)]]
        BY <3>1 DEF ChangeLimit
      <4>2. PICK x : x = [at |-> "max", limit |-> Effective(row)]
        OBVIOUS
      <4>3. job' = [job EXCEPT ![c] = x] /\ x.at = "max"
        BY <4>1, <4>2
      <4> QED BY <4>3
    <3>2. CASE SetMax(c) \/ SetWindow(c)
      BY <3>2 DEF SetMax, SetWindow
    <3> QED BY <1>6, <3>1, <3>2
  <2>3. r.at # "look"
    BY <2>1, <2>2 DEF Updates, Idle
  <2>4. UNCHANGED results
    BY <1>6 DEF ChangeLimit, SetMax, SetWindow
  <2> QED BY <2>2, <2>3, <2>4, RecordedStays
<1>7. ASSUME NEW c \in Clients, Replay(c)
      PROVE  Recorded'
  <2>1. PICK card \in Cards : card = job[c].card
    BY <1>7 DEF Replay, Recorded
  <2>2. PICK entry : entry = cached[Key(card)]
    OBVIOUS
  <2>3. /\ entry # Nothing /\ clock - entry.at <= MaxAge
        /\ replayed' = [card |-> card, run |-> entry.run, on |-> clock]
        /\ job' = [job EXCEPT ![c] = Idle] /\ UNCHANGED <<cached, ended>>
    BY <1>7, <2>1, <2>2 DEF Replay, Hit, Fresh, Entry
  <2>4. Key(card) \in Modules \X Inputs
    BY DEF Key, Cards
  <2>5. PICK e \in ended : e.run = entry.run /\ Key(e.card) = Key(card) /\ e.since = entry.at
    BY <2>2, <2>3, <2>4 DEF Recorded
  <2>6. e.card = card
    BY <2>5 DEF TypeOK, Cards, Key
  <2>7. ReplayIsARecentSuccess'
    BY <2>3, <2>5, <2>6 DEF ReplayIsARecentSuccess
  <2>8. job'[c] = Idle /\ \A d \in Clients \ {c} : job'[d] = job[d]
    BY <2>3, OnlyJob
  <2>9. \A d \in Clients : job'[d].at = "look" => job'[d].card \in Cards
    BY <2>8 DEF Recorded, Idle
  <2> QED BY <2>3, <2>7, <2>9 DEF Recorded
<1>8. ASSUME NEW r \in running, Cache(r)
      PROVE  Recorded'
  <2>1. PICK e : e = [run |-> r.run, card |-> r.card, since |-> clock]
    OBVIOUS
  <2>2. /\ cached' = [cached EXCEPT ![Key(r.card)] = [run |-> r.run, at |-> clock]]
        /\ ended' = ended \cup {e} /\ UNCHANGED <<job, replayed>>
    BY <1>8, <2>1 DEF Cache
  <2>3. ASSUME NEW k \in Modules \X Inputs, cached'[k] # Nothing
        PROVE  \E x \in ended' : x.run = cached'[k].run /\ Key(x.card) = k /\ x.since = cached'[k].at
    <3>1. cached \in [Modules \X Inputs -> {Nothing} \cup [run : Runs, at : Times]]
      BY DEF TypeOK
    <3>2. CASE k = Key(r.card)
      <4>1. cached'[k] = [run |-> r.run, at |-> clock]
        BY <2>2, <3>1, <3>2
      <4>2. e.run = cached'[k].run /\ Key(e.card) = k /\ e.since = cached'[k].at
        BY <2>1, <3>2, <4>1
      <4> QED BY <2>2, <4>2
    <3>3. CASE k # Key(r.card)
      <4>1. cached'[k] = cached[k]
        BY <2>2, <3>1, <3>3
      <4> QED BY <2>2, <2>3, <4>1 DEF Recorded
    <3> QED BY <3>2, <3>3
  <2>4. ReplayIsARecentSuccess'
    BY <2>2 DEF Recorded, ReplayIsARecentSuccess
  <2> QED BY <2>2, <2>3, <2>4 DEF Recorded
<1>9. ASSUME NEW r \in running, FailRun(r)
      PROVE  Recorded'
  BY <1>9 DEF FailRun, results, Recorded, ReplayIsARecentSuccess
<1> QED BY <1>1, <1>2, <1>3, <1>4, <1>5, <1>6, <1>7, <1>8, <1>9 DEF Next

-----------------------------------------------------------------------------
(* The limits.                                                             *)

\* Nothing here is a change of the limits.
LEMMA ChangingStays ==
  ASSUME TypeOK, Changing, NEW c \in Clients, NEW r, job' = [job EXCEPT ![c] = r],
         job[c].at \notin {"max", "window"}, r.at \notin {"max", "window"},
         UNCHANGED <<live, stored, updates>>
  PROVE  Changing'
<1>1. job'[c] = r /\ \A d \in Clients \ {c} : job'[d] = job[d]
  BY OnlyJob
<1>2. Updating' = Updating /\ c \notin Updating
  BY <1>1 DEF Updating
<1>3. \A d \in Updating : job'[d] = job[d]
  BY <1>1, <1>2 DEF Updating
<1> QED BY <1>2, <1>3 DEF Changing, LimitIsOnRecord, Effective, updates, Updating

LEMMA ChangingByChanges ==
  ASSUME TypeOK, Changing, NEW c \in Clients, ChangeLimit(c) \/ SetMax(c) \/ SetWindow(c)
  PROVE  Changing'
<1> DEFINE j == job[c]
<1>0. j \in Jobs /\ live \in [max : Nat, window : Nat]
  BY DEF TypeOK, Jobs
<1>1. CASE ChangeLimit(c)
  <2>1. PICK row \in Limits \cup {NoLimit} :
          stored' = row /\ job' = [job EXCEPT ![c] = [at |-> "max", limit |-> Effective(row)]]
    BY <1>1 DEF ChangeLimit
  <2>2. PICK r : r = [at |-> "max", limit |-> Effective(row)]
    OBVIOUS
  <2>3. job' = [job EXCEPT ![c] = r] /\ r.at = "max" /\ r.limit = Effective(row)
    BY <2>1, <2>2
  <2>4. job'[c] = r /\ \A d \in Clients \ {c} : job'[d] = job[d]
    BY <2>3, OnlyJob
  <2>5. c \notin Updating
    BY <1>1 DEF ChangeLimit, Updating, Idle
  <2>6. Updating' = Updating \cup {c}
    BY <2>3, <2>4 DEF Updating
  <2>7. raced' = IF Updating = {} THEN raced \ {c} ELSE raced \cup Updating \cup {c}
    BY <1>1 DEF ChangeLimit
  <2>8. CASE Updating = {}
    <3>1. Updating' = {c} /\ job'[c].limit = Effective(stored') /\ job'[c].at = "max"
      BY <2>1, <2>3, <2>4, <2>6, <2>8
    <3> QED BY <3>1 DEF Changing, LimitIsOnRecord, Effective
  <2>9. CASE Updating # {}
    <3>1. Updating' \ raced' = {} /\ Updating' # {}
      BY <2>6, <2>7, <2>9
    <3> QED BY <3>1 DEF Changing, LimitIsOnRecord
  <2> QED BY <2>8, <2>9
<1>2. CASE SetMax(c)
  <2>1. j \in Updates /\ j.limit \in Limits
    BY <1>0, <1>2, JobShape DEF SetMax
  <2>2. PICK r : r = [j EXCEPT !.at = "window"]
    OBVIOUS
  <2>3. job' = [job EXCEPT ![c] = r] /\ r.at = "window" /\ r.limit = j.limit
    BY <1>2, <2>1, <2>2 DEF SetMax, Updates
  <2>4. job'[c] = r /\ \A d \in Clients \ {c} : job'[d] = job[d]
    BY <2>3, OnlyJob
  <2>5. Updating' = Updating /\ c \in Updating
    BY <1>2, <2>3, <2>4 DEF Updating, SetMax
  <2>6. live'.max = j.limit.max /\ UNCHANGED <<stored, updates>>
    BY <1>0, <1>2 DEF SetMax
  <2>7. ASSUME NEW d \in Updating' \ raced'
        PROVE  /\ Updating' = {d} /\ job'[d].limit = Effective(stored)'
               /\ job'[d].at = "window" => live'.max = job'[d].limit.max
    <3>1. Updating = {d} /\ job[d].limit = Effective(stored)
      BY <2>5, <2>6 DEF Changing, updates
    <3>2. d = c
      BY <2>5, <3>1
    <3> QED BY <2>3, <2>4, <2>5, <2>6, <3>1, <3>2 DEF Effective
  <2>8. Updating' # {}
    BY <2>5
  <2> QED BY <2>7, <2>8 DEF Changing, LimitIsOnRecord
<1>3. CASE SetWindow(c)
  <2>1. j \in Updates /\ j.limit \in [max : Nat, window : Nat]
    <3>1. j \in Updates /\ j.limit \in Limits
      BY <1>0, <1>3, JobShape DEF SetWindow
    <3>2. Limits \subseteq [max : Nat, window : Nat]
      BY LimitsAssumption
    <3> QED BY <3>1, <3>2
  <2>2. PICK r : r = Idle
    OBVIOUS
  <2>3. job' = [job EXCEPT ![c] = r] /\ r.at = "idle"
    BY <1>3, <2>2 DEF SetWindow, Idle
  <2>4. job'[c] = r /\ \A d \in Clients \ {c} : job'[d] = job[d]
    BY <2>3, OnlyJob
  <2>5. Updating' = Updating \ {c} /\ c \in Updating
    BY <1>3, <2>3, <2>4 DEF Updating, SetWindow
  <2>6. live' = [live EXCEPT !.window = j.limit.window] /\ UNCHANGED <<stored, raced>> /\ clear' = (c \notin raced)
    BY <1>3 DEF SetWindow
  <2>7. CASE c \in raced
    <3>1. \A d \in Updating' \ raced' : Updating = {d}
      BY <2>5, <2>6 DEF Changing
    <3>2. Updating' \ raced' = {}
      BY <2>5, <2>6, <2>7, <3>1
    <3> QED BY <2>6, <2>7, <3>2 DEF Changing, LimitIsOnRecord
  <2>8. CASE c \notin raced
    <3>1. Updating = {c} /\ j.limit = Effective(stored) /\ live.max = j.limit.max
      BY <1>3, <2>5, <2>8 DEF Changing, SetWindow
    <3>2. live' = j.limit
      BY <1>0, <2>1, <2>6, <3>1
    <3>3. Updating' = {}
      BY <2>5, <3>1
    <3> QED BY <2>6, <3>1, <3>2, <3>3 DEF Changing, LimitIsOnRecord, Effective
  <2> QED BY <2>7, <2>8
<1> QED BY <1>1, <1>2, <1>3

LEMMA ChangingNext ==
  ASSUME TypeOK, Changing, [Next]_vars
  PROVE  Changing'
<1>1. CASE Tick \/ UNCHANGED vars
  BY <1>1 DEF Tick, vars, limiter, bounds, updates, Changing, LimitIsOnRecord, Effective, Updating
<1>2. CASE Restart
  BY <1>2 DEF Restart, AtStartup, Changing, LimitIsOnRecord, Effective, Updating, Idle
<1>3. ASSUME NEW m \in Modules, Turn(m)
      PROVE  Changing'
  BY <1>3 DEF Turn, limiter, updates, Changing, LimitIsOnRecord, Effective, Updating
<1>4. ASSUME NEW c \in Clients, RunModule(c) \/ RunPipeline(c)
      PROVE  Changing'
  <2>1. PICK r \in Launches : r.at = "hit" /\ job' = [job EXCEPT ![c] = r]
    BY <1>4, RequestTypes
  <2>2. UNCHANGED <<live, stored, updates>> /\ job[c] = Idle
    BY <1>4, RequestTypes DEF limiter
  <2>3. job[c].at \notin {"max", "window"} /\ r.at \notin {"max", "window"}
    BY <2>1, <2>2 DEF Idle
  <2> QED BY <2>1, <2>2, <2>3, ChangingStays
<1>5. ASSUME NEW c \in Clients, Allow(c) \/ Gate(c) \/ Replay(c) \/ LaunchCard(c)
      PROVE  Changing'
  <2>1. job[c] \in Launches
    BY <1>5, JobShape DEF TypeOK, Allow, Gate, Replay, LaunchCard, Jobs
  <2>2. PICK r : /\ job' = [job EXCEPT ![c] = r]
                 /\ r = Idle \/ r = [job[c] EXCEPT !.at = "gate"] \/ r = [job[c] EXCEPT !.at = "look"]
    BY <1>5 DEF Allow, Gate, Replay, LaunchCard
  <2>3. r.at \notin {"max", "window"} /\ job[c].at \notin {"max", "window"}
    BY <2>1, <2>2 DEF Launches, Idle
  <2>4. UNCHANGED <<live, stored, updates>>
    BY <1>5 DEF Allow, Gate, Replay, LaunchCard, limiter
  <2> QED BY <2>2, <2>3, <2>4, ChangingStays
<1>6. ASSUME NEW r \in running, Cache(r) \/ FailRun(r)
      PROVE  Changing'
  BY <1>6 DEF Cache, FailRun, limiter, updates, Changing, LimitIsOnRecord, Effective, Updating
<1> QED BY <1>1, <1>2, <1>3, <1>4, <1>5, <1>6, ChangingByChanges DEF Next

-----------------------------------------------------------------------------
(* The window.                                                             *)

\* Once expired, a hit stays so while the clock goes on and the window does
\* not grow, and so are all older hits.
LEMMA StaysExpired ==
  ASSUME NEW h \in Nat, NEW g \in Nat, g <= h, NEW now \in Nat, NEW then \in Nat, now <= then,
         live.window \in Nat, Expired(h, now)
  PROVE  Expired(g, then)
  BY DEF Expired

LEMMA AllowKeepsWindow ==
  ASSUME TypeOK, Window, NEW c \in Clients, Allow(c), orderly'
  PROVE  /\ Window'
         /\ job'[c] # Idle <=> InWindow(job[c].now) < live.max
<1>1. PICK now \in Times : now = job[c].now
  BY JobShape DEF TypeOK, Allow, Jobs
<1>2. /\ orderly /\ now >= latest /\ live.window \in Nat /\ live.max \in Nat
      /\ hits \in Seq(Times) /\ admitted \in Seq(Times) /\ latest \in Nat /\ now \in Nat
      /\ Times \subseteq Nat
  <2>1. Times \subseteq Nat
    BY BoundsAssumption DEF Times
  <2>2. /\ live \in [max : Nat, window : Nat] /\ hits \in Seq(Times)
        /\ admitted \in Seq(Times) /\ latest \in Times
    BY DEF TypeOK
  <2>3. orderly /\ now >= latest
    BY <1>1 DEF Allow
  <2> QED BY <2>1, <2>2, <2>3
<1>3. PICK k \in 0..Len(admitted) : Sorted /\ Popped(k)
  BY <1>2 DEF Window
<1>4. PICK n \in 0..Len(hits) :
        /\ Pops(n, now)
        /\ Recent(now) \in Seq(Times)
        /\ Len(Recent(now)) = Len(hits) - n
        /\ \A i \in 1..(Len(hits) - n) : Recent(now)[i] = hits[n + i]
  BY <1>1, <1>2, RecentShape
<1>5. PICK recent \in Seq(Times) : recent = Recent(now)
  BY <1>4
<1>6. PICK L \in Nat : L = Len(admitted)
  BY <1>2
<1>7. PICK m \in 0..L : m = k + n
  BY <1>3, <1>4, <1>6 DEF Popped
\* recent holds what was let through after the first m.
<1>8. Len(recent) = L - m /\ \A i \in 1..(L - m) : recent[i] = admitted[m + i]
  <2>1. Len(hits) = L - k /\ L - m = Len(hits) - n
    BY <1>3, <1>6, <1>7 DEF Popped
  <2>2. ASSUME NEW i \in 1..(L - m)
        PROVE  recent[i] = admitted[m + i]
    <3>1. recent[i] = hits[n + i]
      BY <1>4, <1>5, <2>1
    <3>2. hits[n + i] = admitted[k + (n + i)]
      BY <1>3, <1>4, <2>1 DEF Popped
    <3>3. k + (n + i) = m + i
      BY <1>3, <1>4, <1>7
    <3> QED BY <3>1, <3>2, <3>3
  <2> QED BY <1>4, <1>5, <2>1, <2>2
<1>9. \A i \in 1..L : admitted[i] \in Nat
  <2>1. \A i \in 1..Len(admitted) : admitted[i] \in Times
    BY <1>2
  <2> QED BY <1>2, <1>6, <2>1
\* The first m have expired, the others have not.
<1>10. \A i \in 1..m : Expired(admitted[i], now)
  <2>1. ASSUME NEW i \in 1..k
        PROVE  Expired(admitted[i], now)
    <3>1. i \in 1..L /\ admitted[i] \in Nat
      BY <1>3, <1>6, <1>9
    <3> QED BY <1>2, <1>3, <3>1, StaysExpired DEF Popped
  <2>2. ASSUME NEW i \in (k + 1)..m
        PROVE  Expired(admitted[i], now)
    <3>1. PICK x \in 1..n : i = k + x
      <4>1. i - k \in 1..n /\ i = k + (i - k)
        BY <1>3, <1>4, <1>7
      <4> QED BY <4>1
    <3>2. hits[x] = admitted[i] /\ Expired(hits[x], now)
      BY <1>3, <1>4, <3>1 DEF Popped, Pops
    <3> QED BY <3>2
  <2> QED BY <1>3, <1>6, <1>7, <2>1, <2>2
<1>11. \A i \in (m + 1)..L : ~Expired(admitted[i], now)
  <2>1. CASE m = L
    BY <1>6, <2>1
  <2>2. CASE m < L
    <3>1. n < Len(hits) /\ n + 1 \in 1..Len(hits) /\ k + (n + 1) = m + 1
      BY <1>3, <1>4, <1>6, <1>7, <2>2 DEF Popped
    <3>2. hits[n + 1] = admitted[m + 1] /\ ~Expired(hits[n + 1], now)
      <4>1. hits[n + 1] = admitted[k + (n + 1)]
        BY <1>3, <3>1 DEF Popped
      <4> QED BY <1>4, <3>1, <4>1 DEF Pops
    <3>3. ASSUME NEW i \in (m + 1)..L
          PROVE  ~Expired(admitted[i], now)
      <4>1. admitted[m + 1] <= admitted[i] /\ admitted[i] \in Nat /\ admitted[m + 1] \in Nat
        BY <1>3, <1>6, <1>7, <1>9, <2>2 DEF Sorted
      <4> QED BY <1>2, <3>2, <4>1, StaysExpired
    <3> QED BY <3>3
  <2> QED BY <1>7, <2>1, <2>2
\* So that the definition of the window counts what is left in the deque.
<1>12. InWindow(now) = Len(recent)
  <2>1. {i \in DOMAIN admitted : ~Expired(admitted[i], now)} = (m + 1)..L
    <3>1. DOMAIN admitted = 1..L
      BY <1>2, <1>6
    <3>2. \A i \in 1..L : i \in 1..m \/ i \in (m + 1)..L
      BY <1>7
    <3>3. (m + 1)..L \subseteq 1..L
      BY <1>7
    <3> QED BY <1>10, <1>11, <3>1, <3>2, <3>3
  <2>2. Cardinality((m + 1)..L) = IF m + 1 > L THEN 0 ELSE L - (m + 1) + 1
    BY <1>7, FS_Interval
  <2>3. Cardinality((m + 1)..L) = L - m
    BY <1>7, <2>2
  <2> QED BY <1>8, <2>1, <2>3 DEF InWindow
<1>13. PICK pass \in BOOLEAN : pass <=> Len(recent) < live.max
  OBVIOUS
<1>14. /\ job' = [job EXCEPT ![c] = IF pass THEN [@ EXCEPT !.at = "gate"] ELSE Idle]
       /\ hits' = IF pass THEN Append(recent, now) ELSE recent
       /\ admitted' = IF pass THEN Append(admitted, now) ELSE admitted
  BY <1>1, <1>5, <1>13 DEF Allow, Refused
<1>15. latest' = now /\ live' = live
  BY <1>1, <1>2 DEF Allow
<1>16. job'[c] # Idle <=> pass
  <2>1. [job[c] EXCEPT !.at = "gate"] # Idle
    <3>1. job[c] \in Launches
      BY JobShape DEF TypeOK, Allow, Jobs
    <3> QED BY <3>1 DEF Launches, Idle
  <2>2. job'[c] = IF pass THEN [job[c] EXCEPT !.at = "gate"] ELSE Idle
    BY <1>14 DEF TypeOK
  <2> QED BY <2>1, <2>2
<1>17. Sorted' /\ Popped(m)'
  <2>1. \A i \in 1..L : admitted[i] <= now
    BY <1>2, <1>3, <1>6, <1>9 DEF Sorted
  <2>2. \A i \in 1..m : now > admitted[i] /\ now - admitted[i] > live'.window
    BY <1>10, <1>15 DEF Expired
  <2>3. CASE pass
    <3>1. /\ Len(admitted') = L + 1 /\ admitted'[L + 1] = now
          /\ \A i \in 1..L : admitted'[i] = admitted[i]
      BY <1>2, <1>6, <1>14, <2>3
    <3>2. /\ Len(hits') = L - m + 1 /\ hits'[L - m + 1] = now
          /\ \A i \in 1..(L - m) : hits'[i] = recent[i]
      BY <1>5, <1>7, <1>8, <1>14, <2>3
    <3>3. Sorted'
      <4>1. ASSUME NEW i \in 1..(L + 1), NEW j \in 1..(L + 1), i <= j
            PROVE  admitted'[i] <= admitted'[j]
        <5>1. CASE j = L + 1
          BY <1>2, <1>6, <2>1, <3>1, <5>1
        <5>2. CASE j # L + 1
          <6>1. i \in 1..L /\ j \in 1..L
            BY <1>6, <4>1, <5>2
          <6> QED BY <1>3, <1>6, <3>1, <4>1, <6>1 DEF Sorted
        <5> QED BY <5>1, <5>2
      <4>2. ASSUME NEW i \in 1..(L + 1)
            PROVE  admitted'[i] <= now
        BY <1>2, <1>6, <2>1, <3>1
      <4> QED BY <1>15, <3>1, <4>1, <4>2 DEF Sorted
    <3>4. Popped(m)'
      <4>1. Len(hits') = Len(admitted') - m
        BY <1>6, <1>7, <3>1, <3>2
      <4>2. ASSUME NEW i \in 1..(L - m + 1)
            PROVE  hits'[i] = admitted'[m + i]
        <5>1. CASE i = L - m + 1
          <6>1. m + i = L + 1
            BY <1>6, <1>7, <5>1
          <6> QED BY <3>1, <3>2, <5>1, <6>1
        <5>2. CASE i # L - m + 1
          <6>1. i \in 1..(L - m) /\ m + i \in 1..L
            BY <1>6, <1>7, <5>2
          <6> QED BY <1>8, <3>1, <3>2, <6>1
        <5> QED BY <5>1, <5>2
      <4>3. \A i \in 1..m : latest' > admitted'[i] /\ latest' - admitted'[i] > live'.window
        <5>1. ASSUME NEW i \in 1..m
              PROVE  admitted'[i] = admitted[i]
          BY <1>6, <1>7, <3>1
        <5> QED BY <1>15, <2>2, <5>1
      <4> QED BY <3>2, <4>1, <4>2, <4>3 DEF Popped, Expired
    <3> QED BY <3>3, <3>4
  <2>4. CASE ~pass
    <3>1. admitted' = admitted /\ hits' = recent
      BY <1>14, <2>4
    <3>2. Sorted'
      BY <1>3, <1>6, <1>15, <2>1, <3>1 DEF Sorted
    <3>3. Popped(m)'
      BY <1>6, <1>8, <1>15, <2>2, <3>1 DEF Popped, Expired
    <3> QED BY <3>2, <3>3
  <2> QED BY <2>3, <2>4
<1>18. m \in 0..Len(admitted')
  BY <1>2, <1>6, <1>7, <1>14
<1>19. Window'
  BY <1>17, <1>18 DEF Window
<1>20. InWindow(job[c].now) < live.max <=> pass
  BY <1>1, <1>12, <1>13
<1> QED BY <1>16, <1>19, <1>20

\* A window that does not grow brings nothing back.
LEMMA WindowStays ==
  ASSUME TypeOK, Window, live'.window <= live.window, live'.window \in Nat,
         UNCHANGED <<hits, admitted, latest>>, orderly' => orderly
  PROVE  Window'
<1> SUFFICES ASSUME orderly'
             PROVE  Sorted' /\ \E k \in 0..Len(admitted') : Popped(k)'
  BY DEF Window
<1>1. PICK k \in 0..Len(admitted) : Sorted /\ Popped(k)
  BY DEF Window
<1>2. ASSUME NEW i \in 1..k
      PROVE  latest > admitted[i] /\ latest - admitted[i] > live'.window
  <2>1. Expired(admitted[i], latest)
    BY <1>1 DEF Popped
  <2>2. admitted[i] \in Nat /\ latest \in Nat /\ live.window \in Nat
    <3>1. admitted \in Seq(Times) /\ latest \in Times /\ i \in 1..Len(admitted)
      BY <1>1 DEF TypeOK
    <3>2. Times \subseteq Nat
      BY BoundsAssumption DEF Times
    <3>3. admitted[i] \in Times
      BY <3>1
    <3> QED BY <3>1, <3>2, <3>3 DEF TypeOK
  <2> QED BY <2>1, <2>2 DEF Expired
<1>3. Popped(k)'
  BY <1>1, <1>2 DEF Popped, Expired
<1>4. Sorted'
  BY <1>1 DEF Sorted
<1> QED BY <1>1, <1>3, <1>4

LEMMA WindowNext ==
  ASSUME TypeOK, Window, [Next]_vars
  PROVE  Window'
<1>0. live \in [max : Nat, window : Nat] /\ live.window <= live.window
  BY DEF TypeOK
<1>1. CASE Tick \/ UNCHANGED vars
  BY <1>0, <1>1, WindowStays DEF Tick, vars, limiter, window
<1>2. CASE Restart
  <2>1. hits' = <<>> /\ admitted' = <<>>
    BY <1>2 DEF Restart
  <2>2. Sorted' /\ Popped(0)' /\ 0 \in 0..Len(admitted')
    BY <2>1 DEF Sorted, Popped
  <2> QED BY <2>2 DEF Window
<1>3. ASSUME NEW m \in Modules, Turn(m)
      PROVE  Window'
  BY <1>0, <1>3, WindowStays DEF Turn, limiter, window
<1>4. ASSUME NEW c \in Clients, RunModule(c) \/ RunPipeline(c)
      PROVE  Window'
  <2>1. UNCHANGED <<limiter, window>>
    BY <1>4, RequestTypes
  <2> QED BY <1>0, <2>1, WindowStays DEF limiter, window
<1>5. ASSUME NEW c \in Clients, Gate(c) \/ Replay(c) \/ LaunchCard(c) \/ ChangeLimit(c)
      PROVE  Window'
  BY <1>0, <1>5, WindowStays DEF Gate, Replay, LaunchCard, ChangeLimit, limiter, window
<1>6. ASSUME NEW c \in Clients, SetMax(c)
      PROVE  Window'
  <2>1. live'.window = live.window
    BY <1>0, <1>6 DEF SetMax
  <2> QED BY <1>0, <1>6, <2>1, WindowStays DEF SetMax, window
<1>7. ASSUME NEW c \in Clients, SetWindow(c)
      PROVE  Window'
  <2>1. TypeOK'
    BY <1>7, ChangeTypes
  <2>2. CASE orderly'
    <3>1. orderly /\ live'.window <= live.window
      BY <1>7, <2>2 DEF SetWindow
    <3> QED BY <1>7, <2>1, <3>1, WindowStays DEF SetWindow, TypeOK
  <2>3. CASE ~orderly'
    BY <2>3 DEF Window
  <2> QED BY <2>2, <2>3
<1>8. ASSUME NEW c \in Clients, Allow(c)
      PROVE  Window'
  <2>1. CASE orderly'
    BY <1>8, <2>1, AllowKeepsWindow
  <2>2. CASE ~orderly'
    BY <2>2 DEF Window
  <2> QED BY <2>1, <2>2
<1>9. ASSUME NEW r \in running, Cache(r) \/ FailRun(r)
      PROVE  Window'
  BY <1>0, <1>9, WindowStays DEF Cache, FailRun, limiter, window
<1> QED BY <1>1, <1>2, <1>3, <1>4, <1>5, <1>6, <1>7, <1>8, <1>9 DEF Next

-----------------------------------------------------------------------------
(* The theorems.                                                           *)

\* The inductive invariant holds of every run of the program.
THEOREM Invariant == Spec => []IInv
<1>1. Init => IInv
  <2> SUFFICES ASSUME Init
               PROVE  IInv
    OBVIOUS
  <2>1. TypeOK
    <3>1. clock \in Times /\ asked \in 0..MaxAsks /\ turns \in 0..MaxTurns /\ latest \in Times
      BY BoundsAssumption DEF Init, Times
    <3>2. live \in [max : Nat, window : Nat] /\ stored \in Limits \cup {NoLimit}
      BY LimitsAssumption DEF Init
    <3>3. hits \in Seq(Times) /\ admitted \in Seq(Times)
      BY DEF Init
    <3>4. /\ cached \in [Modules \X Inputs -> {Nothing} \cup [run : Runs, at : Times]]
          /\ job \in [Clients -> {Idle} \cup Launches \cup Updates]
      BY DEF Init
    <3>5. /\ blocked \subseteq Modules /\ running \subseteq [run : Runs, card : Cards]
          /\ ended \subseteq [run : Runs, card : Cards, since : Times] /\ raced \subseteq Clients
          /\ orderly \in BOOLEAN /\ clear \in BOOLEAN
      BY DEF Init
    <3> QED BY <3>1, <3>2, <3>3, <3>4, <3>5 DEF TypeOK
  <2>2. Window
    <3>1. Sorted /\ Popped(0) /\ 0 \in 0..Len(admitted)
      BY DEF Init, Sorted, Popped
    <3> QED BY <3>1 DEF Window
  <2>3. Changing
    BY DEF Init, Changing, LimitIsOnRecord, Updating, Idle, Effective
  <2>4. Recorded
    BY DEF Init, Recorded, ReplayIsARecentSuccess, Idle
  <2> QED BY <2>1, <2>2, <2>3, <2>4 DEF IInv
<1>2. IInv /\ [Next]_vars => IInv'
  BY TypeNext, WindowNext, ChangingNext, RecordedNext DEF IInv
<1> QED BY <1>1, <1>2, PTL DEF Spec

\* The limiter, the cache, the requests and the histories keep their types.
THEOREM TypeCorrect == Spec => []TypeOK
<1>1. IInv => TypeOK
  BY DEF IInv
<1> QED BY <1>1, Invariant, PTL

\* After every change of the limits that overlapped no other, and after every
\* restart, what is enforced is what is stored.
THEOREM LimitsAreStored == Spec => []LimitIsOnRecord
<1>1. IInv => LimitIsOnRecord
  BY DEF IInv, Changing
<1> QED BY <1>1, Invariant, PTL

\* Only a recent success of the same module on the same inputs is replayed.
THEOREM ReplaysAreTrue == Spec => []ReplayIsARecentSuccess
<1>1. IInv => ReplayIsARecentSuccess
  BY DEF IInv, Recorded
<1> QED BY <1>1, Invariant, PTL

\* The deque decides as the sliding window over all hits let through would.
THEOREM WindowIsExact == Spec => AdmitsExactly
<1>1. IInv /\ [Next]_vars =>
        [\A c \in Clients :
           Allow(c) /\ orderly' =>
             (job'[c] # Idle <=> InWindow(job[c].now) < live.max)]_vars
  BY AllowKeepsWindow DEF IInv
<1> QED BY <1>1, Invariant, PTL DEF Spec, AdmitsExactly
=============================================================================
