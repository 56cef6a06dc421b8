------------------------- MODULE RunEventBus_proofs -------------------------
(***************************************************************************)
(* Proofs about RunEventBus and EventStream, for every set of readers,     *)
(* every set of kinds and all values of the bounds: first the bus by       *)
(* itself, then the bus inside the system of runs, pages and connections   *)
(* (whose steps are steps of the bus or leave it alone), last that this    *)
(* system implements RunFeed within one life of the server.                *)
(***************************************************************************)
EXTENDS EventStream, TLAPS

\* What the properties need beside themselves: ids are allotted upwards,
\* a stream never shrinks below its length at close, and a generator between
\* its look under the lock and its yield has something to yield.
Allotted == known \subseteq 1..(nextId - 1)

ClosedWithin == \A id \in StreamIds : closedLen[id] <= Len(log[id])

YieldReady ==
  \A r \in Readers : gen[r].at = "yield" => gen[r].index < Len(log[gen[r].id])

EndedIsAllotted ==
  \A r \in Readers : gen[r].at = "ended" => gen[r].id < nextId

IInv ==
  /\ TypeOK
  /\ Allotted
  /\ ClosedWithin
  /\ YieldReady
  /\ EndedIsAllotted
  /\ NoLostWakeup
  /\ YieldedInOrder
  /\ CleanEndIsDrained

LEMMA InitIInv == Init => IInv
<1> SUFFICES ASSUME Init PROVE IInv
  OBVIOUS
<1> USE BoundsAssumption DEF Init, StreamIds
<1>1. TypeOK
  BY DEF TypeOK, Off, Phases, Event, Item
<1>2. Allotted /\ ClosedWithin
  BY DEF Allotted, ClosedWithin
<1>3. YieldReady /\ EndedIsAllotted /\ NoLostWakeup /\ YieldedInOrder /\ CleanEndIsDrained
  BY DEF YieldReady, EndedIsAllotted, NoLostWakeup, YieldedInOrder, CleanEndIsDrained, Off
<1> QED
  BY <1>1, <1>2, <1>3 DEF IInv

\* What a generator has yielded are positions and events.
LEMMA OutItems ==
  ASSUME TypeOK, NEW r \in Readers, NEW j \in 1..Len(out[r])
  PROVE  out[r][j] \in Item /\ out[r][j].index \in Nat /\ out[r][j].event \in Event
<1>1. out[r] \in Seq(Item)
  BY DEF TypeOK
<1>2. out[r][j] \in Item
  BY <1>1
<1> QED
  BY <1>2 DEF Item

LEMMA CreateIInv == IInv /\ Create => IInv'
<1> SUFFICES ASSUME IInv, Create PROVE IInv'
  OBVIOUS
<1> USE BoundsAssumption DEF IInv, Create, StreamIds
<1>1. TypeOK'
  BY DEF TypeOK
<1>2. Allotted'
  BY DEF TypeOK, Allotted
<1>3. (ClosedWithin /\ YieldReady /\ YieldedInOrder)'
  BY DEF ClosedWithin, YieldReady, YieldedInOrder, At
<1>4. EndedIsAllotted'
  BY DEF TypeOK, EndedIsAllotted
<1>5. NoLostWakeup'
  BY DEF TypeOK, NoLostWakeup
<1>6. CleanEndIsDrained'
  BY DEF TypeOK, CleanEndIsDrained, EndedIsAllotted
<1> QED
  BY <1>1, <1>2, <1>3, <1>4, <1>5, <1>6

\* Publishing keeps what is already in every list where it is.
LEMMA PublishGrows ==
  ASSUME IInv, NEW i \in StreamIds, NEW k \in Kinds, Publish(i, k)
  PROVE  /\ log' \in [StreamIds -> Seq(Event)]
         /\ \A id \in StreamIds : Len(log[id]) <= Len(log'[id])
         /\ \A id \in StreamIds : \A j \in 1..Len(log[id]) : log'[id][j] = log[id][j]
<1> DEFINE e == [life |-> life, id |-> i, n |-> Len(log[i]) + 1, kind |-> k]
<1>1. log \in [StreamIds -> Seq(Event)] /\ life \in 1..MaxLives /\ Len(log[i]) \in Nat
  BY DEF IInv, TypeOK
<1>2. Len(log[i]) + 1 \in 1..MaxEvents
  BY <1>1, BoundsAssumption DEF Publish
<1>3. e \in Event
  BY <1>1, <1>2 DEF Event
<1>4. log' = [log EXCEPT ![i] = Append(log[i], e)]
  BY <1>1 DEF Publish
<1> HIDE DEF e
<1>5. Append(log[i], e) \in Seq(Event) /\ Len(Append(log[i], e)) = Len(log[i]) + 1
  BY <1>1, <1>3
<1>6. \A j \in 1..Len(log[i]) : Append(log[i], e)[j] = log[i][j]
  BY <1>1, <1>3
<1> QED
  BY <1>1, <1>4, <1>5, <1>6

\* After notify_all() a reader is where it was, except that nobody waits.
LEMMA NotifiedReaders ==
  ASSUME TypeOK, gen' = Notified
  PROVE  /\ gen' \in [Readers -> [at : Phases, id : StreamIds, start : Nat, index : Nat]]
         /\ \A r \in Readers : /\ gen'[r].id = gen[r].id
                               /\ gen'[r].start = gen[r].start
                               /\ gen'[r].index = gen[r].index
                               /\ gen'[r].at # "wait"
                               /\ gen'[r].at = gen[r].at
                                    \/ (gen[r].at = "wait" /\ gen'[r].at = "check")
  BY DEF TypeOK, Notified, Phases

LEMMA PublishIInv ==
  ASSUME IInv, NEW i \in StreamIds, NEW k \in Kinds, Publish(i, k)
  PROVE  IInv'
<1>1. /\ log' \in [StreamIds -> Seq(Event)]
      /\ \A id \in StreamIds : Len(log[id]) <= Len(log'[id])
      /\ \A id \in StreamIds : \A j \in 1..Len(log[id]) : log'[id][j] = log[id][j]
  BY PublishGrows
<1>2. /\ gen' \in [Readers -> [at : Phases, id : StreamIds, start : Nat, index : Nat]]
      /\ \A r \in Readers : /\ gen'[r].id = gen[r].id
                            /\ gen'[r].start = gen[r].start
                            /\ gen'[r].index = gen[r].index
                            /\ gen'[r].at # "wait"
                            /\ gen'[r].at = gen[r].at
                                 \/ (gen[r].at = "wait" /\ gen'[r].at = "check")
  BY NotifiedReaders DEF Publish, IInv
<1>3. UNCHANGED <<life, nextId, known, done, expired, closedLen, out>>
  BY DEF Publish
<1>4. \A id \in StreamIds : Len(log[id]) \in Nat /\ Len(log'[id]) \in Nat
  BY <1>1 DEF IInv, TypeOK
<1>5. TypeOK'
  BY <1>1, <1>2, <1>3 DEF IInv, TypeOK
<1>6. Allotted'
  BY <1>3 DEF IInv, Allotted
<1>7. ClosedWithin'
  BY <1>1, <1>3, <1>4 DEF IInv, TypeOK, ClosedWithin
<1>8. YieldReady'
  <2> SUFFICES ASSUME NEW r \in Readers, gen'[r].at = "yield"
               PROVE  gen'[r].index < Len(log'[gen'[r].id])
    BY DEF YieldReady
  <2>1. gen[r].at = "yield" /\ gen[r].id \in StreamIds /\ gen[r].index \in Nat
    BY <1>2 DEF IInv, TypeOK
  <2>2. gen[r].index < Len(log[gen[r].id])
    BY <2>1 DEF IInv, YieldReady
  <2> QED
    BY <1>1, <1>2, <1>4, <2>1, <2>2
<1>9. (EndedIsAllotted /\ NoLostWakeup /\ CleanEndIsDrained)'
  BY <1>2, <1>3 DEF IInv, EndedIsAllotted, NoLostWakeup, CleanEndIsDrained
<1>10. YieldedInOrder'
  <2> SUFFICES ASSUME NEW r \in Readers, gen'[r].at # "off"
               PROVE  /\ gen'[r].start + Len(out'[r]) <= gen'[r].index
                      /\ \A j \in 1..Len(out'[r]) :
                           /\ out'[r][j].index + Len(out'[r]) = gen'[r].index + j - 1
                           /\ out'[r][j].index < Len(log'[gen'[r].id])
                           /\ out'[r][j].event = log'[gen'[r].id][out'[r][j].index + 1]
    BY DEF YieldedInOrder, At
  <2>1. gen[r].at # "off" /\ gen[r].id \in StreamIds /\ gen[r].start \in Nat
    BY <1>2 DEF IInv, TypeOK
  <2>2. gen[r].start + Len(out[r]) <= gen[r].index
    BY <2>1 DEF IInv, YieldedInOrder
  <2>3. ASSUME NEW j \in 1..Len(out[r])
        PROVE  /\ out[r][j].index + Len(out[r]) = gen[r].index + j - 1
               /\ out[r][j].index < Len(log'[gen[r].id])
               /\ out[r][j].event = log'[gen[r].id][out[r][j].index + 1]
    <3>1. /\ out[r][j].index + Len(out[r]) = gen[r].index + j - 1
          /\ out[r][j].index < Len(log[gen[r].id])
          /\ out[r][j].event = log[gen[r].id][out[r][j].index + 1]
      BY <2>1 DEF IInv, YieldedInOrder, At
    <3>2. out[r][j].index \in Nat
      BY OutItems DEF IInv
    <3>3. out[r][j].index + 1 \in 1..Len(log[gen[r].id])
      BY <2>1, <1>4, <3>1, <3>2
    <3>4. out[r][j].index < Len(log'[gen[r].id])
      BY <2>1, <1>1, <1>4, <3>1, <3>2
    <3>5. log'[gen[r].id][out[r][j].index + 1] = log[gen[r].id][out[r][j].index + 1]
      BY <2>1, <1>1, <3>3
    <3> QED
      BY <3>1, <3>4, <3>5
  <2> QED
    BY <1>2, <1>3, <2>2, <2>3
<1> QED
  BY <1>5, <1>6, <1>7, <1>8, <1>9, <1>10 DEF IInv

LEMMA CloseIInv ==
  ASSUME IInv, NEW i \in StreamIds, Close(i)
  PROVE  IInv'
<1>1. /\ gen' \in [Readers -> [at : Phases, id : StreamIds, start : Nat, index : Nat]]
      /\ \A r \in Readers : /\ gen'[r].id = gen[r].id
                            /\ gen'[r].start = gen[r].start
                            /\ gen'[r].index = gen[r].index
                            /\ gen'[r].at # "wait"
                            /\ gen'[r].at = gen[r].at
                                 \/ (gen[r].at = "wait" /\ gen'[r].at = "check")
  BY NotifiedReaders DEF Close, IInv
<1>2. \A id \in StreamIds : Len(log[id]) \in Nat
  BY DEF IInv, TypeOK
<1>3. /\ closedLen' \in [StreamIds -> Nat]
      /\ \A id \in StreamIds : closedLen'[id] = closedLen[id] \/ (id = i /\ closedLen'[id] = Len(log[i]))
      /\ i \in done => closedLen'[i] = closedLen[i]
  BY <1>2 DEF IInv, TypeOK, Close
<1>4. TypeOK'
  BY <1>1, <1>3 DEF IInv, TypeOK, Close
<1>5. (Allotted /\ EndedIsAllotted)'
  BY <1>1 DEF IInv, TypeOK, Allotted, EndedIsAllotted, Close
<1>6. ClosedWithin'
  BY <1>2, <1>3 DEF IInv, TypeOK, ClosedWithin, Close
<1>7. (YieldReady /\ NoLostWakeup)'
  BY <1>1 DEF IInv, TypeOK, YieldReady, NoLostWakeup, Close
<1>8. YieldedInOrder'
  <2> SUFFICES ASSUME NEW r \in Readers, gen'[r].at # "off"
               PROVE  /\ gen'[r].start + Len(out'[r]) <= gen'[r].index
                      /\ \A j \in 1..Len(out'[r]) :
                           /\ out'[r][j].index + Len(out'[r]) = gen'[r].index + j - 1
                           /\ out'[r][j].index < Len(log'[gen'[r].id])
                           /\ out'[r][j].event = log'[gen'[r].id][out'[r][j].index + 1]
    BY DEF YieldedInOrder, At
  <2>1. gen[r].at # "off"
    BY <1>1
  <2>2. /\ gen[r].start + Len(out[r]) <= gen[r].index
        /\ \A j \in 1..Len(out[r]) :
             /\ out[r][j].index + Len(out[r]) = gen[r].index + j - 1
             /\ out[r][j].index < Len(log[gen[r].id])
             /\ out[r][j].event = log[gen[r].id][out[r][j].index + 1]
    BY <2>1 DEF IInv, YieldedInOrder, At
  <2>3. out' = out /\ log' = log
    BY DEF Close
  <2> QED
    BY <1>1, <2>2, <2>3
<1>9. CleanEndIsDrained'
  <2> SUFFICES ASSUME NEW r \in Readers, gen'[r].at = "ended"
               PROVE  gen'[r].id \notin known' \ done' /\ gen'[r].index >= closedLen'[gen'[r].id]
    BY DEF CleanEndIsDrained
  <2>1. gen[r].at = "ended" /\ gen[r].id \in StreamIds
    BY <1>1 DEF IInv, TypeOK
  <2>2. gen[r].id \notin known \ done /\ gen[r].index >= closedLen[gen[r].id]
    BY <2>1 DEF IInv, CleanEndIsDrained
  <2>3. gen[r].id = i => i \in done
    BY <2>2 DEF Close
  <2> QED
    BY <1>1, <1>3, <2>1, <2>2, <2>3 DEF Close
<1> QED
  BY <1>4, <1>5, <1>6, <1>7, <1>8, <1>9 DEF IInv

LEMMA RetentionIInv ==
  ASSUME IInv, NEW i \in StreamIds, RetentionPasses(i)
  PROVE  IInv'
<1> USE DEF IInv, RetentionPasses
<1>1. TypeOK'
  BY DEF TypeOK
<1>2. (Allotted /\ ClosedWithin /\ YieldReady /\ EndedIsAllotted)'
  BY DEF Allotted, ClosedWithin, YieldReady, EndedIsAllotted
<1>3. (NoLostWakeup /\ YieldedInOrder /\ CleanEndIsDrained)'
  BY DEF NoLostWakeup, YieldedInOrder, CleanEndIsDrained, At
<1> QED
  BY <1>1, <1>2, <1>3

LEMMA RestartIInv == IInv /\ Restart => IInv'
<1> SUFFICES ASSUME IInv, Restart PROVE IInv'
  OBVIOUS
<1> USE BoundsAssumption DEF IInv, Restart, StreamIds
<1>1. TypeOK'
  BY DEF TypeOK, Off, Phases, Event, Item
<1>2. (Allotted /\ ClosedWithin)'
  BY DEF Allotted, ClosedWithin
<1>3. (YieldReady /\ EndedIsAllotted /\ NoLostWakeup /\ YieldedInOrder /\ CleanEndIsDrained)'
  BY DEF YieldReady, EndedIsAllotted, NoLostWakeup, YieldedInOrder, CleanEndIsDrained, Off
<1> QED
  BY <1>1, <1>2, <1>3

-----------------------------------------------------------------------------
(* The steps of one reader leave the bus and the other readers alone.      *)

LEMMA ReaderFrame ==
  ASSUME IInv, UNCHANGED busVars, NEW r \in Readers,
         NEW g \in [at : Phases, id : StreamIds, start : Nat, index : Nat],
         NEW o \in Seq(Item),
         gen' = [gen EXCEPT ![r] = g], out' = [out EXCEPT ![r] = o],
         g.at = "yield" => g.index < Len(log[g.id]),
         g.at = "ended" => /\ g.id < nextId
                           /\ g.id \notin known \ done
                           /\ g.index >= closedLen[g.id],
         g.at = "wait" => g.id \in known \ done /\ g.index >= Len(log[g.id]),
         g.at # "off" => /\ g.start + Len(o) <= g.index
                         /\ \A i \in 1..Len(o) : /\ o[i].index + Len(o) = g.index + i - 1
                                                 /\ o[i].index < Len(log[g.id])
                                                 /\ o[i].event = At(g.id, o[i].index)
  PROVE  IInv'
<1>1. TypeOK'
  BY DEF IInv, TypeOK, busVars
<1>2. /\ gen'[r] = g /\ out'[r] = o
      /\ \A q \in Readers \ {r} : gen'[q] = gen[q] /\ out'[q] = out[q]
  BY DEF IInv, TypeOK
<1>3. (Allotted /\ ClosedWithin)'
  BY DEF IInv, Allotted, ClosedWithin, busVars
<1>4. (YieldReady /\ EndedIsAllotted /\ NoLostWakeup /\ CleanEndIsDrained)'
  BY <1>2 DEF IInv, YieldReady, EndedIsAllotted, NoLostWakeup, CleanEndIsDrained, busVars
<1>5. YieldedInOrder'
  <2> SUFFICES ASSUME NEW q \in Readers, gen'[q].at # "off"
               PROVE  /\ gen'[q].start + Len(out'[q]) <= gen'[q].index
                      /\ \A i \in 1..Len(out'[q]) :
                           /\ out'[q][i].index + Len(out'[q]) = gen'[q].index + i - 1
                           /\ out'[q][i].index < Len(log[gen'[q].id])
                           /\ out'[q][i].event = At(gen'[q].id, out'[q][i].index)
    BY DEF YieldedInOrder, At, busVars
  <2>1. CASE q = r
    BY <1>2, <2>1
  <2>2. CASE q # r
    BY <1>2, <2>2 DEF IInv, YieldedInOrder
  <2> QED
    BY <2>1, <2>2
<1> QED
  BY <1>1, <1>3, <1>4, <1>5 DEF IInv

LEMMA OpenIInv ==
  ASSUME IInv, NEW r \in Readers, NEW i \in StreamIds, NEW from \in Nat, Open(r, i, from)
  PROVE  IInv'
<1> DEFINE g == [at |-> "check", id |-> i, start |-> from, index |-> from]
<1>1. g \in [at : Phases, id : StreamIds, start : Nat, index : Nat]
  BY DEF Phases
<1>2. gen' = [gen EXCEPT ![r] = g] /\ out' = [out EXCEPT ![r] = << >>] /\ UNCHANGED busVars
  BY DEF Open
<1>3. << >> \in Seq(Item) /\ from + Len(<< >>) <= from /\ 1..Len(<< >>) = {}
  OBVIOUS
<1>4. g.at = "check" /\ g.start = from /\ g.index = from
  OBVIOUS
<1> HIDE DEF g
<1> QED
  BY <1>1, <1>2, <1>3, <1>4, ReaderFrame

LEMMA CheckIInv ==
  ASSUME IInv, NEW r \in Readers, Check(r)
  PROVE  IInv'
<1> DEFINE g == [gen[r] EXCEPT !.at = LoopBody(gen[r])]
<1>1. gen[r] \in [at : Phases, id : StreamIds, start : Nat, index : Nat] /\ out[r] \in Seq(Item)
  BY DEF IInv, TypeOK
<1>2. Len(log[gen[r].id]) \in Nat /\ closedLen[gen[r].id] \in Nat
  BY <1>1 DEF IInv, TypeOK
<1>3. LoopBody(gen[r]) \in {"gone", "yield", "ended", "wait"}
  BY DEF LoopBody
<1>4. g \in [at : Phases, id : StreamIds, start : Nat, index : Nat]
  BY <1>1, <1>3 DEF Phases
<1>5. g.id = gen[r].id /\ g.start = gen[r].start /\ g.index = gen[r].index
      /\ g.at = LoopBody(gen[r])
  BY <1>1
<1>6. gen' = [gen EXCEPT ![r] = g] /\ out' = [out EXCEPT ![r] = out[r]] /\ UNCHANGED busVars
  BY DEF Check, IInv, TypeOK
<1>7. LoopBody(gen[r]) = "yield" => gen[r].index < Len(log[gen[r].id])
  BY DEF LoopBody
<1>8. LoopBody(gen[r]) = "wait" =>
        gen[r].id \in known \ done /\ gen[r].index >= Len(log[gen[r].id])
  BY <1>1, <1>2 DEF LoopBody, IInv, TypeOK
<1>9. LoopBody(gen[r]) = "ended" =>
        /\ gen[r].id < nextId
        /\ gen[r].id \notin known \ done
        /\ gen[r].index >= closedLen[gen[r].id]
  <2> SUFFICES ASSUME LoopBody(gen[r]) = "ended"
               PROVE  /\ gen[r].id < nextId
                      /\ gen[r].id \notin known \ done
                      /\ gen[r].index >= closedLen[gen[r].id]
    OBVIOUS
  <2>1. gen[r].id \in done /\ gen[r].index >= Len(log[gen[r].id])
    BY DEF LoopBody
  <2>2. closedLen[gen[r].id] <= Len(log[gen[r].id])
    BY <1>1 DEF IInv, ClosedWithin
  <2>3. gen[r].id < nextId
    BY <1>1, <2>1 DEF IInv, TypeOK, Allotted, StreamIds
  <2> QED
    BY <1>1, <1>2, <2>1, <2>2, <2>3
<1>10. /\ gen[r].start + Len(out[r]) <= gen[r].index
       /\ \A i \in 1..Len(out[r]) : /\ out[r][i].index + Len(out[r]) = gen[r].index + i - 1
                                    /\ out[r][i].index < Len(log[gen[r].id])
                                    /\ out[r][i].event = At(gen[r].id, out[r][i].index)
  BY DEF Check, IInv, YieldedInOrder
<1> HIDE DEF g
<1> QED
  BY <1>1, <1>4, <1>5, <1>6, <1>7, <1>8, <1>9, <1>10, ReaderFrame

LEMMA YieldIInv ==
  ASSUME IInv, NEW r \in Readers, Yield(r)
  PROVE  IInv'
<1> DEFINE item == [index |-> gen[r].index, event |-> At(gen[r].id, gen[r].index)]
           g == [gen[r] EXCEPT !.at = "check", !.index = gen[r].index + 1]
           o == Append(out[r], item)
<1>1. gen[r] \in [at : Phases, id : StreamIds, start : Nat, index : Nat] /\ out[r] \in Seq(Item)
  BY DEF IInv, TypeOK
<1>2. log[gen[r].id] \in Seq(Event) /\ gen[r].index < Len(log[gen[r].id])
  BY <1>1 DEF IInv, TypeOK, YieldReady, Yield
<1>3. gen[r].index + 1 \in 1..Len(log[gen[r].id])
  BY <1>1, <1>2
<1>4. At(gen[r].id, gen[r].index) \in Event
  BY <1>2, <1>3 DEF At
<1>5. item \in Item /\ item.index = gen[r].index /\ item.event = At(gen[r].id, gen[r].index)
  BY <1>1, <1>4 DEF Item
<1>6. g \in [at : Phases, id : StreamIds, start : Nat, index : Nat]
  <2>1. gen[r].index + 1 \in Nat /\ "check" \in Phases
    BY <1>1 DEF Phases
  <2> QED
    BY <1>1, <2>1
<1>7. g.at = "check" /\ g.id = gen[r].id /\ g.start = gen[r].start /\ g.index = gen[r].index + 1
  BY <1>1
<1>8. gen' = [gen EXCEPT ![r] = g] /\ out' = [out EXCEPT ![r] = o] /\ UNCHANGED busVars
  BY DEF Yield, IInv, TypeOK
<1>9. /\ gen[r].start + Len(out[r]) <= gen[r].index
      /\ \A i \in 1..Len(out[r]) : /\ out[r][i].index + Len(out[r]) = gen[r].index + i - 1
                                   /\ out[r][i].index < Len(log[gen[r].id])
                                   /\ out[r][i].event = At(gen[r].id, out[r][i].index)
  BY DEF Yield, IInv, YieldedInOrder
<1> HIDE DEF item, g
<1>10. /\ o \in Seq(Item) /\ Len(o) = Len(out[r]) + 1
       /\ o[Len(out[r]) + 1] = item
       /\ \A i \in 1..Len(out[r]) : o[i] = out[r][i]
  BY <1>1, <1>5
<1> HIDE DEF o
<1>11. /\ g.start + Len(o) <= g.index
       /\ \A i \in 1..Len(o) : /\ o[i].index + Len(o) = g.index + i - 1
                               /\ o[i].index < Len(log[g.id])
                               /\ o[i].event = At(g.id, o[i].index)
  <2>1. Len(out[r]) \in Nat /\ gen[r].start \in Nat /\ gen[r].index \in Nat
    BY <1>1
  <2>2. Len(o) = Len(out[r]) + 1 /\ g.index = gen[r].index + 1 /\ g.start = gen[r].start
    BY <1>7, <1>10
  <2>3. g.start + Len(o) <= g.index
    <3>1. gen[r].start + Len(out[r]) <= gen[r].index
      BY <1>9
    <3> QED
      BY <2>1, <2>2, <3>1
  <2>4. ASSUME NEW i \in 1..Len(o)
        PROVE  /\ o[i].index + Len(o) = g.index + i - 1
               /\ o[i].index < Len(log[g.id])
               /\ o[i].event = At(g.id, o[i].index)
    <3>1. CASE i = Len(out[r]) + 1
      <4>1. o[i] = item
        BY <1>10, <3>1
      <4>2. o[i].index = gen[r].index /\ o[i].event = At(gen[r].id, gen[r].index)
        BY <1>5, <4>1
      <4>3. g.id = gen[r].id
        BY <1>7
      <4>4. o[i].index + Len(o) = g.index + i - 1
        <5>1. PICK len \in Nat, y \in Nat : len = Len(out[r]) /\ y = gen[r].index
          BY <2>1
        <5>2. y + (len + 1) = (y + 1) + (len + 1) - 1
          OBVIOUS
        <5>3. o[i].index = y /\ Len(o) = len + 1 /\ g.index = y + 1 /\ i = len + 1
          BY <2>2, <3>1, <4>2, <5>1
        <5> QED
          BY <5>2, <5>3
      <4> QED
        BY <1>2, <4>2, <4>3, <4>4
    <3>2. CASE i \in 1..Len(out[r])
      <4>1. /\ out[r][i].index + Len(out[r]) = gen[r].index + i - 1
            /\ out[r][i].index < Len(log[gen[r].id])
            /\ out[r][i].event = At(gen[r].id, out[r][i].index)
        BY <1>9, <3>2
      <4>2. out[r][i].index \in Nat
        BY <3>2, OutItems DEF IInv
      <4>3. o[i] = out[r][i] /\ g.id = gen[r].id
        BY <1>7, <1>10, <3>2
      <4>4. o[i].index = out[r][i].index /\ i \in Nat
        BY <2>1, <3>2, <4>3
      <4>5. out[r][i].index + (Len(out[r]) + 1) = (gen[r].index + 1) + i - 1
        <5>1. PICK x \in Nat, len \in Nat, y \in Nat :
                x = out[r][i].index /\ len = Len(out[r]) /\ y = gen[r].index
          BY <2>1, <4>2
        <5>2. x + len = y + i - 1
          BY <4>1, <5>1
        <5>3. x + (len + 1) = (y + 1) + i - 1
          BY <4>4, <5>2
        <5> QED
          BY <5>1, <5>3
      <4>6. o[i].index + Len(o) = g.index + i - 1
        BY <2>2, <4>4, <4>5
      <4> QED
        BY <4>1, <4>3, <4>6
    <3>3. i = Len(out[r]) + 1 \/ i \in 1..Len(out[r])
      BY <2>1, <2>2
    <3> QED
      BY <3>1, <3>2, <3>3
  <2> QED
    BY <2>3, <2>4
<1> QED
  BY <1>6, <1>7, <1>8, <1>10, <1>11, ReaderFrame

LEMMA TimeoutIInv ==
  ASSUME IInv, NEW r \in Readers, Timeout(r)
  PROVE  IInv'
<1> DEFINE g == [gen[r] EXCEPT !.at = "timedOut"]
<1>1. gen[r] \in [at : Phases, id : StreamIds, start : Nat, index : Nat] /\ out[r] \in Seq(Item)
  BY DEF IInv, TypeOK
<1>2. g \in [at : Phases, id : StreamIds, start : Nat, index : Nat]
  BY <1>1 DEF Phases
<1>3. g.at = "timedOut" /\ g.id = gen[r].id /\ g.start = gen[r].start /\ g.index = gen[r].index
  BY <1>1
<1>4. gen' = [gen EXCEPT ![r] = g] /\ out' = [out EXCEPT ![r] = out[r]] /\ UNCHANGED busVars
  BY DEF Timeout, IInv, TypeOK
<1>5. /\ gen[r].start + Len(out[r]) <= gen[r].index
      /\ \A i \in 1..Len(out[r]) : /\ out[r][i].index + Len(out[r]) = gen[r].index + i - 1
                                   /\ out[r][i].index < Len(log[gen[r].id])
                                   /\ out[r][i].event = At(gen[r].id, out[r][i].index)
  BY DEF Timeout, IInv, YieldedInOrder
<1> HIDE DEF g
<1> QED
  BY <1>1, <1>2, <1>3, <1>4, <1>5, ReaderFrame

LEMMA DropIInv ==
  ASSUME IInv, NEW r \in Readers, Drop(r)
  PROVE  IInv'
<1>1. Off \in [at : Phases, id : StreamIds, start : Nat, index : Nat] /\ Off.at = "off"
  BY BoundsAssumption DEF Off, Phases, StreamIds
<1>2. gen' = [gen EXCEPT ![r] = Off] /\ out' = [out EXCEPT ![r] = << >>] /\ UNCHANGED busVars
  BY DEF Drop
<1>3. << >> \in Seq(Item)
  OBVIOUS
<1> QED
  BY <1>1, <1>2, <1>3, ReaderFrame

LEMMA StutterIInv == IInv /\ UNCHANGED vars => IInv'
<1> SUFFICES ASSUME IInv, UNCHANGED vars PROVE IInv'
  OBVIOUS
<1> USE DEF vars, busVars, IInv
<1>1. (TypeOK /\ Allotted /\ ClosedWithin /\ YieldReady /\ EndedIsAllotted)'
  BY DEF TypeOK, Allotted, ClosedWithin, YieldReady, EndedIsAllotted
<1>2. (NoLostWakeup /\ YieldedInOrder /\ CleanEndIsDrained)'
  BY DEF NoLostWakeup, YieldedInOrder, CleanEndIsDrained, At
<1> QED
  BY <1>1, <1>2

LEMMA StepIInv == IInv /\ [Next]_vars => IInv'
<1> SUFFICES ASSUME IInv, [Next]_vars PROVE IInv'
  OBVIOUS
<1>1. CASE Create
  BY <1>1, CreateIInv
<1>2. ASSUME NEW i \in StreamIds, NEW k \in Kinds, Publish(i, k) PROVE IInv'
  BY <1>2, PublishIInv
<1>3. ASSUME NEW i \in StreamIds, Close(i) PROVE IInv'
  BY <1>3, CloseIInv
<1>4. ASSUME NEW i \in StreamIds, RetentionPasses(i) PROVE IInv'
  BY <1>4, RetentionIInv
<1>5. CASE Restart
  BY <1>5, RestartIInv
<1>6. ASSUME NEW r \in Readers, ReaderStep(r) PROVE IInv'
  <2>1. ASSUME NEW i \in StreamIds, NEW from \in 0..MaxEvents, Open(r, i, from) PROVE IInv'
    <3>1. from \in Nat
      BY BoundsAssumption
    <3> QED
      BY <2>1, <3>1, OpenIInv
  <2>2. CASE Check(r)
    BY <2>2, CheckIInv
  <2>3. CASE Yield(r)
    BY <2>3, YieldIInv
  <2>4. CASE Timeout(r)
    BY <2>4, TimeoutIInv
  <2>5. CASE Drop(r)
    BY <2>5, DropIInv
  <2> QED
    BY <1>6, <2>1, <2>2, <2>3, <2>4, <2>5 DEF ReaderStep
<1>7. CASE UNCHANGED vars
  BY <1>7, StutterIInv
<1> QED
  BY <1>1, <1>2, <1>3, <1>4, <1>5, <1>6, <1>7 DEF Next, BusStep

-----------------------------------------------------------------------------

THEOREM Invariant == Spec => []IInv
  BY InitIInv, StepIInv, PTL DEF Spec

\* The bus keeps its types and the nesting of its three dictionaries.
THEOREM TypeCorrect == Spec => []TypeOK
<1>1. IInv => TypeOK
  BY DEF IInv
<1> QED
  BY <1>1, Invariant, PTL

\* events.py, stream(): no reader sleeps beside an unread event or a closed
\* stream, however publishers, sweeps and readers interleave.
THEOREM NoWakeupIsLost == Spec => []NoLostWakeup
<1>1. IInv => NoLostWakeup
  BY DEF IInv
<1> QED
  BY <1>1, Invariant, PTL

\* events.py, stream(): what a reader yields is the gap-free, duplicate-free
\* continuation of the list from the index it asked for.
THEOREM ReplayIsExact == Spec => []YieldedInOrder
<1>1. IInv => YieldedInOrder
  BY DEF IInv
<1> QED
  BY <1>1, Invariant, PTL

\* events.py, stream(): a reader that stops by itself on a closed stream has
\* yielded all that was published before close().
THEOREM CleanEndMeansDrained == Spec => []CleanEndIsDrained
<1>1. IInv => CleanEndIsDrained
  BY DEF IInv
<1> QED
  BY <1>1, Invariant, PTL

\* events.py, _prune_expired_locked(): the sweep takes closed streams only.
THEOREM SweepSparesLiveStreams == Spec => LiveStreamSurvives
<1>1. IInv /\ [Next]_vars => [\A id \in known \ done : life' = life => id \in known']_vars
  <2> SUFFICES ASSUME IInv, [Next]_vars, NEW id \in known \ done, life' = life
               PROVE  id \in known'
    OBVIOUS
  <2>1. expired \subseteq done /\ life \in Nat
    BY DEF IInv, TypeOK
  <2>2. CASE Create
    BY <2>1, <2>2 DEF Create
  <2>3. CASE Restart
    BY <2>1, <2>3 DEF Restart
  <2>4. CASE UNCHANGED known
    BY <2>4
  <2> QED
    BY <2>2, <2>3, <2>4 DEF Next, BusStep, ReaderStep, vars, busVars, Publish, Close,
                RetentionPasses, Open, Check, Yield, Timeout, Drop
<1> QED
  BY <1>1, Invariant, PTL DEF Spec, LiveStreamSurvives

-----------------------------------------------------------------------------
(* The stream: the bus with its publishers, its endpoint and its pages.    *)

\* A connection belongs to an open page and to the stream that page watches; in
\* the life the watch began in it has yielded what the page has been shown and
\* what is on its way to it.
Watching ==
  \A c \in Clients :
    /\ born[c] <= life
    /\ page[c] = "idle" => shown[c] = << >> /\ errors[c] = 0
    /\ gen[c].at = "off" => out[c] = << >>
    /\ gen[c].at # "off" => page[c] = "open" /\ gen[c].id = watch[c]
    /\ gen[c].at # "off" /\ SameLife(c) => gen[c].index = Len(shown[c]) + Len(out[c])

SInv ==
  /\ IInv
  /\ STypeOK
  /\ Watching
  /\ ShownIsThePrefix

LEMMA InitSInv == SInit => SInv
<1> SUFFICES ASSUME SInit PROVE SInv
  OBVIOUS
<1>1. IInv
  BY InitIInv DEF SInit
<1>2. STypeOK
  BY <1>1, BoundsAssumption, StreamAssumption
     DEF SInit, Init, STypeOK, IInv, WorkerStates, PageStates, StreamIds, Clients
<1>3. Watching
  <2> SUFFICES ASSUME NEW c \in Clients
               PROVE  born[c] <= life /\ shown[c] = << >> /\ errors[c] = 0 /\ out[c] = << >> /\ gen[c].at = "off"
    BY DEF Watching
  <2>1. born[c] = 1 /\ life = 1 /\ shown[c] = << >> /\ errors[c] = 0
    BY DEF SInit, Init
  <2>2. out[c] = << >> /\ gen[c] = Off
    BY DEF SInit, Init, Clients
  <2> QED
    BY <2>1, <2>2 DEF Off
<1>4. ShownIsThePrefix
  BY DEF SInit, ShownIsThePrefix
<1> QED
  BY <1>1, <1>2, <1>3, <1>4 DEF SInv

\* The lists only grow, so what a page has been shown is still their beginning.
LEMMA PrefixStays ==
  ASSUME SInv, life' = life, UNCHANGED <<watch, born, shown>>,
         \A c \in Clients : page'[c] # "idle" => page[c] # "idle",
         \A id \in StreamIds : Len(log[id]) <= Len(log'[id]),
         \A id \in StreamIds : \A j \in 1..Len(log[id]) : log'[id][j] = log[id][j],
         \A id \in StreamIds : Len(log'[id]) \in Nat
  PROVE  ShownIsThePrefix'
<1> SUFFICES ASSUME NEW c \in Clients, page'[c] # "idle", born'[c] = life', NEW i \in 1..Len(shown'[c])
             PROVE  /\ i <= Len(log'[watch'[c]])
                    /\ shown'[c][i] = [index |-> i - 1, event |-> log'[watch'[c]][i]]
  BY DEF ShownIsThePrefix, SameLife
<1>1. watch[c] \in StreamIds /\ shown[c] \in Seq(Item) /\ Len(log[watch[c]]) \in Nat
  BY DEF SInv, STypeOK, TypeOK
<1>2. i \in Nat /\ 1 <= i
  BY <1>1
<1>3. /\ i <= Len(log[watch[c]])
      /\ shown[c][i] = [index |-> i - 1, event |-> log[watch[c]][i]]
  BY DEF SInv, ShownIsThePrefix, SameLife
<1>4. log'[watch[c]][i] = log[watch[c]][i]
  BY <1>1, <1>2, <1>3
<1> QED
  BY <1>1, <1>2, <1>3, <1>4

\* Steps that leave pages and connections where they are.
LEMMA WatchingStays ==
  ASSUME SInv, life' = life, UNCHANGED <<watch, born, shown, errors, page, out>>,
         \A c \in Clients : /\ gen'[c].id = gen[c].id /\ gen'[c].index = gen[c].index
                            /\ gen'[c].at = "off" <=> gen[c].at = "off"
  PROVE  Watching'
  BY DEF SInv, Watching, SameLife

\* The bus's own actions, with what EventStream adds to them.
LEMMA ServerSInv ==
  ASSUME SInv, Launch \/ \E id \in StreamIds : StepEvent(id) \/ EndEvent(id)
                                             \/ WorkerExits(id) \/ RetentionOver(id)
  PROVE  SInv'
<1>1. IInv'
  <2>1. CASE Launch
    BY <2>1, CreateIInv DEF Launch, SInv
  <2>2. ASSUME NEW id \in StreamIds, StepEvent(id) \/ EndEvent(id) PROVE IInv'
    <3>1. \E k \in Kinds : Publish(id, k)
      BY <2>2, StreamAssumption DEF StepEvent, EndEvent
    <3> QED
      BY <3>1, PublishIInv DEF SInv
  <2>3. ASSUME NEW id \in StreamIds, WorkerExits(id) PROVE IInv'
    BY <2>3, CloseIInv DEF WorkerExits, SInv
  <2>4. ASSUME NEW id \in StreamIds, RetentionOver(id) PROVE IInv'
    BY <2>4, RetentionIInv DEF RetentionOver, SInv
  <2> QED
    BY <2>1, <2>2, <2>3, <2>4
<1>2. UNCHANGED clientVars /\ UNCHANGED <<life, out>>
  BY DEF Launch, StepEvent, EndEvent, WorkerExits, RetentionOver,
         Create, Publish, Close, RetentionPasses
<1>3. worker' \in [StreamIds -> WorkerStates]
  BY DEF Launch, StepEvent, EndEvent, WorkerExits, RetentionOver,
         Create, SInv, STypeOK, WorkerStates
<1>4. STypeOK'
  BY <1>1, <1>2, <1>3 DEF SInv, STypeOK, IInv, clientVars
<1>5. \A c \in Clients : /\ gen'[c].id = gen[c].id /\ gen'[c].index = gen[c].index
                         /\ gen'[c].at = "off" <=> gen[c].at = "off"
  <2>1. CASE gen' = Notified
    BY <2>1, NotifiedReaders DEF SInv, IInv, Clients
  <2>2. CASE gen' = gen
    BY <2>2
  <2> QED
    BY <2>1, <2>2 DEF Launch, StepEvent, EndEvent, WorkerExits, RetentionOver,
         Create, Publish, Close, RetentionPasses
<1>6. Watching'
  BY <1>2, <1>5, WatchingStays DEF clientVars
<1>7. /\ \A id \in StreamIds : Len(log[id]) <= Len(log'[id])
      /\ \A id \in StreamIds : \A j \in 1..Len(log[id]) : log'[id][j] = log[id][j]
  <2>1. ASSUME NEW id \in StreamIds, StepEvent(id) \/ EndEvent(id)
        PROVE  \E k \in Kinds : Publish(id, k)
    BY <2>1, StreamAssumption DEF StepEvent, EndEvent
  <2>2. CASE log' = log
    BY <2>2 DEF SInv, IInv, TypeOK
  <2>3. CASE \E id \in StreamIds : StepEvent(id) \/ EndEvent(id)
    BY <2>1, <2>3, PublishGrows DEF SInv
  <2> QED
    BY <2>2, <2>3 DEF Launch, WorkerExits, RetentionOver, Create, Close, RetentionPasses
<1>8. \A id \in StreamIds : Len(log'[id]) \in Nat
  BY <1>1 DEF IInv, TypeOK
<1>9. ShownIsThePrefix'
  BY <1>2, <1>7, <1>8, PrefixStays DEF clientVars
<1> QED
  BY <1>1, <1>4, <1>6, <1>9 DEF SInv

\* After a restart no page is in the life its watch began in, except those that
\* begin one then.
LEMMA RestartSInv == SInv /\ ServerRestart => SInv'
<1> SUFFICES ASSUME SInv, ServerRestart PROVE SInv'
  OBVIOUS
<1>1. IInv'
  BY RestartIInv DEF SInv, ServerRestart
<1>2. /\ life \in Nat /\ life' = life + 1
      /\ UNCHANGED <<watch, born, shown, drops>>
      /\ gen' = [r \in Readers |-> Off] /\ out' = [r \in Readers |-> << >>]
  BY DEF ServerRestart, Restart, SInv, IInv, TypeOK
<1>3. /\ worker' \in [StreamIds -> WorkerStates]
      /\ page' \in [Clients -> PageStates]
      /\ \A c \in Clients : page'[c] = "idle" <=> page[c] = "idle"
  BY DEF ServerRestart, SInv, STypeOK, WorkerStates, PageStates
<1>4. /\ errors' \in [Clients -> 0..GiveUpAfter]
      /\ \A c \in Clients : page'[c] = "open" => errors'[c] < GiveUpAfter
      /\ \A c \in Clients : page'[c] = "idle" => errors'[c] = 0
  <2> SUFFICES ASSUME NEW c \in Clients
               PROVE  /\ errors'[c] \in 0..GiveUpAfter
                      /\ page'[c] = "open" => errors'[c] < GiveUpAfter
                      /\ page'[c] = "idle" => errors'[c] = 0
    BY DEF ServerRestart
  <2>1. /\ errors[c] \in 0..GiveUpAfter /\ GiveUpAfter \in Nat
        /\ page[c] = "open" => errors[c] < GiveUpAfter
        /\ gen[c].at # "off" => page[c] = "open"
        /\ page[c] = "idle" => errors[c] = 0
    BY StreamAssumption DEF SInv, STypeOK, Watching
  <2>2. errors'[c] = IF gen[c].at # "off" THEN errors[c] + 1 ELSE errors[c]
    BY DEF ServerRestart
  <2>3. page'[c] = IF page[c] = "open" /\ errors'[c] >= GiveUpAfter THEN "lost" ELSE page[c]
    BY DEF ServerRestart
  <2> QED
    BY <2>1, <2>2, <2>3
<1>5. STypeOK'
  BY <1>1, <1>2, <1>3, <1>4 DEF SInv, STypeOK, IInv
<1>6. \A c \in Clients : born'[c] <= life' /\ born'[c] # life'
  BY <1>2 DEF SInv, STypeOK, Watching
<1>7. Watching'
  BY <1>2, <1>3, <1>4, <1>6 DEF SInv, Watching, Off, Clients
<1>8. ShownIsThePrefix'
  BY <1>6 DEF ShownIsThePrefix, SameLife
<1> QED
  BY <1>1, <1>5, <1>7, <1>8 DEF SInv

\* Steps of one connection: what the page shows stays.
LEMMA GeneratorSInv ==
  ASSUME SInv, NEW c \in Clients, GeneratorStep(c)
  PROVE  SInv'
<1>1. IInv'
  BY CheckIInv, YieldIInv, TimeoutIInv DEF GeneratorStep, SInv, Clients
<1>2. UNCHANGED <<worker, page, watch, born, shown, errors, drops>> /\ UNCHANGED busVars
  BY DEF GeneratorStep, clientVars, Check, Yield, Timeout
<1>3. STypeOK'
  BY <1>1, <1>2 DEF SInv, STypeOK, IInv
<1>4. /\ gen \in [Readers -> [at : Phases, id : StreamIds, start : Nat, index : Nat]]
      /\ out \in [Readers -> Seq(Item)]
  BY DEF SInv, IInv, TypeOK
<1>5. /\ gen[c].at # "off" /\ gen'[c].at # "off" /\ gen'[c].id = gen[c].id
      /\ gen'[c].index + Len(out[c]) = gen[c].index + Len(out'[c])
  <2>1. CASE Check(c)
    BY <1>4, <2>1 DEF Check, LoopBody, Clients
  <2>2. CASE Timeout(c)
    BY <1>4, <2>2 DEF Timeout, Clients
  <2>3. CASE Yield(c)
    <3>1. /\ gen'[c].at = "check" /\ gen'[c].id = gen[c].id /\ gen'[c].index = gen[c].index + 1
          /\ gen[c].at = "yield" /\ gen[c].index \in Nat
      BY <1>4, <2>3 DEF Yield, Clients
    <3>2. Len(out'[c]) = Len(out[c]) + 1 /\ Len(out[c]) \in Nat
      BY <1>4, <2>3 DEF Yield, Clients
    <3> QED
      BY <3>1, <3>2
  <2> QED
    BY <2>1, <2>2, <2>3 DEF GeneratorStep
<1>6. \A q \in Clients \ {c} : gen'[q] = gen[q] /\ out'[q] = out[q]
  BY <1>4 DEF GeneratorStep, Check, Yield, Timeout, Clients
<1>7. Watching'
  <2> SUFFICES ASSUME NEW q \in Clients
               PROVE  /\ born[q] <= life
                      /\ page[q] = "idle" => shown[q] = << >> /\ errors[q] = 0
                      /\ gen'[q].at = "off" => out'[q] = << >>
                      /\ gen'[q].at # "off" => page[q] = "open" /\ gen'[q].id = watch[q]
                      /\ gen'[q].at # "off" /\ born[q] = life
                           => gen'[q].index = Len(shown[q]) + Len(out'[q])
    BY <1>2 DEF Watching, SameLife, busVars
  <2>1. CASE q = c
    <3>1. /\ born[c] <= life
          /\ page[c] = "open" /\ gen[c].id = watch[c]
          /\ born[c] = life => gen[c].index = Len(shown[c]) + Len(out[c])
      BY <1>5 DEF SInv, Watching, SameLife
    <3>2. Len(out[c]) \in Nat /\ gen[c].index \in Nat
      BY <1>4 DEF Clients
    <3>3. /\ gen' \in [Readers -> [at : Phases, id : StreamIds, start : Nat, index : Nat]]
          /\ out' \in [Readers -> Seq(Item)]
      BY <1>1 DEF IInv, TypeOK
    <3>4. Len(out'[c]) \in Nat /\ gen'[c].index \in Nat
      BY <3>3 DEF Clients
    <3>5. Len(shown[c]) \in Nat
      BY DEF SInv, STypeOK
    <3>6. born[c] = life => gen'[c].index = Len(shown[c]) + Len(out'[c])
      <4>1. PICK n \in Nat, m \in Nat, x \in Nat, y \in Nat, k \in Nat :
              /\ n = gen[c].index /\ m = gen'[c].index
              /\ x = Len(out[c]) /\ y = Len(out'[c]) /\ k = Len(shown[c])
        BY <3>2, <3>4, <3>5
      <4>2. m + x = n + y
        BY <1>5, <4>1
      <4>3. born[c] = life => n = k + x
        BY <3>1, <4>1
      <4>4. born[c] = life => m = k + y
        BY <4>2, <4>3
      <4> QED
        BY <4>1, <4>4
    <3> QED
      BY <1>5, <2>1, <3>1, <3>6
  <2>2. CASE q # c
    BY <1>6, <2>2 DEF SInv, Watching, SameLife
  <2> QED
    BY <2>1, <2>2
<1>8. ShownIsThePrefix'
  BY <1>2 DEF SInv, ShownIsThePrefix, SameLife, busVars
<1> QED
  BY <1>1, <1>3, <1>7, <1>8 DEF SInv

LEMMA SubscribeSInv ==
  ASSUME SInv, NEW c \in Clients, Subscribe(c)
  PROVE  SInv'
<1>1. UNCHANGED vars /\ UNCHANGED <<worker, shown, errors, drops>>
  BY DEF Subscribe
<1>2. IInv'
  BY <1>1, StutterIInv DEF SInv
<1>3. PICK id \in 1..(nextId - 1) : watch' = [watch EXCEPT ![c] = id]
  BY DEF Subscribe
<1>4. id \in StreamIds /\ life \in 1..MaxLives
  BY BoundsAssumption DEF SInv, IInv, TypeOK, StreamIds
<1>5. /\ page[c] = "idle" /\ shown[c] = << >> /\ gen[c].at = "off"
      /\ page' = [page EXCEPT ![c] = "open"] /\ born' = [born EXCEPT ![c] = life]
  BY DEF Subscribe, SInv, Watching
<1>6. errors[c] < GiveUpAfter
  <2>1. errors[c] = 0
    BY <1>5 DEF SInv, Watching
  <2> QED
    BY <2>1, StreamAssumption
<1>7. STypeOK'
  <2>1. watch' \in [Clients -> StreamIds] /\ born' \in [Clients -> 1..MaxLives]
    BY <1>3, <1>4, <1>5 DEF SInv, STypeOK
  <2>2. page' \in [Clients -> PageStates]
    BY <1>5 DEF SInv, STypeOK, PageStates
  <2>3. \A q \in Clients : page'[q] = "open" => errors[q] < GiveUpAfter
    BY <1>5, <1>6 DEF SInv, STypeOK
  <2> QED
    BY <1>1, <1>2, <2>1, <2>2, <2>3 DEF SInv, STypeOK, IInv
<1>8. Watching'
  <2>1. \A q \in Clients \ {c} : page'[q] = page[q] /\ born'[q] = born[q] /\ watch'[q] = watch[q]
    BY <1>3, <1>5 DEF SInv, STypeOK
  <2>2. page'[c] = "open" /\ born'[c] = life /\ life <= life
    BY <1>4, <1>5 DEF SInv, STypeOK
  <2> SUFFICES ASSUME NEW q \in Clients
               PROVE  /\ born'[q] <= life
                      /\ page'[q] = "idle" => shown[q] = << >> /\ errors[q] = 0
                      /\ gen[q].at = "off" => out[q] = << >>
                      /\ gen[q].at # "off" => page'[q] = "open" /\ gen[q].id = watch'[q]
                      /\ gen[q].at # "off" /\ born'[q] = life
                           => gen[q].index = Len(shown[q]) + Len(out[q])
    BY <1>1 DEF Watching, SameLife, vars, busVars
  <2>3. CASE q = c
    BY <1>5, <2>2, <2>3 DEF SInv, Watching
  <2>4. CASE q # c
    BY <2>1, <2>4 DEF SInv, Watching, SameLife
  <2> QED
    BY <2>3, <2>4
<1>9. ShownIsThePrefix'
  <2>1. \A q \in Clients \ {c} : page'[q] = page[q] /\ born'[q] = born[q] /\ watch'[q] = watch[q]
    BY <1>3, <1>5 DEF SInv, STypeOK
  <2> SUFFICES ASSUME NEW q \in Clients, page'[q] # "idle", born'[q] = life,
                      NEW i \in 1..Len(shown[q])
               PROVE  /\ i <= Len(log[watch'[q]])
                      /\ shown[q][i] = [index |-> i - 1, event |-> log[watch'[q]][i]]
    BY <1>1 DEF ShownIsThePrefix, SameLife, vars, busVars
  <2>2. q # c
    BY <1>5
  <2> QED
    BY <2>1, <2>2 DEF SInv, ShownIsThePrefix, SameLife
<1> QED
  BY <1>2, <1>7, <1>8, <1>9 DEF SInv

\* In the life of its watch a page asks for what it has not been shown.
LEMMA ResumesAfterTheLast ==
  ASSUME SInv, NEW c \in Clients, page[c] # "idle"
  PROVE  FromIndex(c) \in Nat /\ (SameLife(c) => FromIndex(c) = Len(shown[c]))
<1>1. shown[c] \in Seq(Item)
  BY DEF SInv, STypeOK
<1>2. CASE shown[c] = << >>
  BY <1>2 DEF FromIndex
<1>3. CASE shown[c] # << >>
  <2>1. Len(shown[c]) \in 1..Len(shown[c]) /\ Len(shown[c]) \in Nat
    BY <1>1, <1>3
  <2>2. shown[c][Len(shown[c])] \in Item
    BY <1>1, <2>1
  <2>3. shown[c][Len(shown[c])].index \in Nat
    BY <2>2 DEF Item
  <2>4. FromIndex(c) = shown[c][Len(shown[c])].index + 1
    BY <1>3 DEF FromIndex
  <2>5. SameLife(c) => shown[c][Len(shown[c])].index = Len(shown[c]) - 1
    <3> SUFFICES ASSUME SameLife(c) PROVE shown[c][Len(shown[c])].index = Len(shown[c]) - 1
      OBVIOUS
    <3>1. shown[c][Len(shown[c])] = [index |-> Len(shown[c]) - 1, event |-> log[watch[c]][Len(shown[c])]]
      BY <2>1 DEF SInv, ShownIsThePrefix
    <3> QED
      BY <3>1
  <2> QED
    BY <2>1, <2>3, <2>4, <2>5
<1> QED
  BY <1>2, <1>3

LEMMA ConnectSInv ==
  ASSUME SInv, NEW c \in Clients, Connect(c)
  PROVE  SInv'
<1>1. page[c] = "open" /\ watch[c] \in StreamIds /\ Open(c, watch[c], FromIndex(c))
  BY DEF Connect, SInv, STypeOK
<1>2. FromIndex(c) \in Nat /\ (SameLife(c) => FromIndex(c) = Len(shown[c]))
  BY <1>1, ResumesAfterTheLast
<1>3. IInv'
  BY <1>1, <1>2, OpenIInv DEF SInv, Clients
<1>4. UNCHANGED <<worker, page, watch, born, shown, errors, drops>> /\ UNCHANGED busVars
  BY DEF Connect, clientVars, Open
<1>5. STypeOK'
  BY <1>3, <1>4 DEF SInv, STypeOK, IInv
<1>6. /\ gen'[c] = [at |-> "check", id |-> watch[c], start |-> FromIndex(c), index |-> FromIndex(c)]
      /\ out'[c] = << >>
      /\ \A q \in Clients \ {c} : gen'[q] = gen[q] /\ out'[q] = out[q]
  BY <1>1 DEF Open, SInv, IInv, TypeOK, Clients
<1>7. gen'[c].at = "check" /\ gen'[c].id = watch[c] /\ gen'[c].index = FromIndex(c)
  BY <1>6
<1>8. SameLife(c) => gen'[c].index = Len(shown[c]) + Len(out'[c])
  <2>1. Len(shown[c]) \in Nat /\ Len(out'[c]) = 0
    BY <1>6 DEF SInv, STypeOK
  <2> QED
    BY <1>2, <1>7, <2>1
<1>9. Watching'
  <2> SUFFICES ASSUME NEW q \in Clients
               PROVE  /\ born[q] <= life
                      /\ page[q] = "idle" => shown[q] = << >> /\ errors[q] = 0
                      /\ gen'[q].at = "off" => out'[q] = << >>
                      /\ gen'[q].at # "off" => page[q] = "open" /\ gen'[q].id = watch[q]
                      /\ gen'[q].at # "off" /\ born[q] = life
                           => gen'[q].index = Len(shown[q]) + Len(out'[q])
    BY <1>4 DEF Watching, SameLife, busVars
  <2>1. CASE q = c
    BY <1>1, <1>7, <1>8, <2>1 DEF SInv, Watching, SameLife
  <2>2. CASE q # c
    BY <1>6, <2>2 DEF SInv, Watching, SameLife
  <2> QED
    BY <2>1, <2>2
<1>10. ShownIsThePrefix'
  BY <1>4 DEF SInv, ShownIsThePrefix, SameLife, busVars
<1> QED
  BY <1>3, <1>5, <1>9, <1>10 DEF SInv

\* A connection that is over: what was on its way is lost, what was shown stays.
LEMMA DropSInv ==
  ASSUME SInv, NEW c \in Clients, Drop(c), OnError(c), drops' \in 0..MaxDrops
  PROVE  SInv'
<1>1. IInv'
  BY DropIInv DEF SInv, Clients
<1>2. UNCHANGED <<worker, watch, born, shown>> /\ UNCHANGED busVars
  BY DEF OnError, Drop
<1>3. /\ page[c] = "open" /\ errors[c] < GiveUpAfter /\ errors[c] \in 0..GiveUpAfter
      /\ GiveUpAfter \in Nat
      /\ errors' = [errors EXCEPT ![c] = errors[c] + 1]
      /\ page' = [page EXCEPT ![c] = IF errors[c] + 1 >= GiveUpAfter THEN "lost" ELSE page[c]]
  BY StreamAssumption DEF OnError, SInv, STypeOK
<1>4. errors' \in [Clients -> 0..GiveUpAfter]
  <2>1. errors[c] + 1 \in 0..GiveUpAfter
    BY <1>3
  <2> QED
    BY <1>3, <2>1 DEF SInv, STypeOK
<1>5. page' \in [Clients -> PageStates]
  BY <1>3 DEF SInv, STypeOK, PageStates
<1>6. /\ page'[c] # "idle" /\ (page'[c] = "open" => errors'[c] < GiveUpAfter)
      /\ \A q \in Clients \ {c} : page'[q] = page[q] /\ errors'[q] = errors[q]
  BY <1>3 DEF SInv, STypeOK
<1>7. STypeOK'
  BY <1>1, <1>2, <1>4, <1>5, <1>6 DEF SInv, STypeOK, IInv
<1>8. /\ gen'[c] = Off /\ out'[c] = << >>
      /\ \A q \in Clients \ {c} : gen'[q] = gen[q] /\ out'[q] = out[q]
  BY DEF Drop, SInv, IInv, TypeOK, Clients
<1>9. Watching'
  <2> SUFFICES ASSUME NEW q \in Clients
               PROVE  /\ born[q] <= life
                      /\ page'[q] = "idle" => shown[q] = << >> /\ errors'[q] = 0
                      /\ gen'[q].at = "off" => out'[q] = << >>
                      /\ gen'[q].at # "off" => page'[q] = "open" /\ gen'[q].id = watch[q]
                      /\ gen'[q].at # "off" /\ born[q] = life
                           => gen'[q].index = Len(shown[q]) + Len(out'[q])
    BY <1>2 DEF Watching, SameLife, busVars
  <2>1. CASE q = c
    <3>1. gen'[c].at = "off" /\ out'[c] = << >>
      BY <1>8 DEF Off
    <3>2. born[c] <= life
      BY DEF SInv, Watching
    <3> QED
      BY <1>6, <2>1, <3>1, <3>2
  <2>2. CASE q # c
    BY <1>6, <1>8, <2>2 DEF SInv, Watching, SameLife
  <2> QED
    BY <2>1, <2>2
<1>10. ShownIsThePrefix'
  BY <1>2, <1>3, <1>6 DEF SInv, ShownIsThePrefix, SameLife, busVars
<1> QED
  BY <1>1, <1>7, <1>9, <1>10 DEF SInv

\* What a page is handed next is, in the life of its watch, the next event.
LEMMA NextMessage ==
  ASSUME SInv, NEW c \in Clients, page[c] = "open", out[c] # << >>
  PROVE  /\ Head(out[c]) \in Item
         /\ SameLife(c) =>
              /\ Len(shown[c]) + 1 <= Len(log[watch[c]])
              /\ Head(out[c]) = [index |-> Len(shown[c]), event |-> log[watch[c]][Len(shown[c]) + 1]]
<1>1. out[c] \in Seq(Item) /\ shown[c] \in Seq(Item)
  BY DEF SInv, STypeOK, IInv, TypeOK, Clients
<1>2. Len(out[c]) \in Nat /\ 1 \in 1..Len(out[c]) /\ Head(out[c]) = out[c][1] /\ Len(shown[c]) \in Nat
  BY <1>1
<1>3. Head(out[c]) \in Item
  BY <1>1, <1>2
<1>4. gen[c].at # "off"
  BY DEF SInv, Watching
<1>5. gen[c].id = watch[c] /\ gen[c].index \in Nat /\ watch[c] \in StreamIds
      /\ Len(log[watch[c]]) \in Nat
  BY <1>4 DEF SInv, STypeOK, Watching, IInv, TypeOK, Clients
<1>6. /\ out[c][1].index + Len(out[c]) = gen[c].index + 1 - 1
      /\ out[c][1].index < Len(log[gen[c].id])
      /\ out[c][1].event = log[gen[c].id][out[c][1].index + 1]
  BY <1>2, <1>4 DEF SInv, IInv, YieldedInOrder, At, Clients
<1>7. ASSUME SameLife(c)
      PROVE  out[c][1].index = Len(shown[c])
  <2>1. PICK x \in Nat, len \in Nat, y \in Nat, k \in Nat :
          x = out[c][1].index /\ len = Len(out[c]) /\ y = gen[c].index /\ k = Len(shown[c])
    <3>1. out[c][1].index \in Nat
      BY <1>2, <1>3 DEF Item
    <3> QED
      BY <1>2, <1>5, <3>1
  <2>2. x + len = y + 1 - 1
    BY <1>6, <2>1
  <2>3. y = k + len
    BY <1>4, <1>7, <2>1 DEF SInv, Watching
  <2>4. x = k
    BY <2>2, <2>3
  <2> QED
    BY <2>1, <2>4
<1>8. ASSUME SameLife(c)
      PROVE  /\ Len(shown[c]) + 1 <= Len(log[watch[c]])
             /\ Head(out[c]) = [index |-> Len(shown[c]), event |-> log[watch[c]][Len(shown[c]) + 1]]
  <2>1. out[c][1].index = Len(shown[c])
    BY <1>7, <1>8
  <2>2. Len(shown[c]) < Len(log[watch[c]])
    BY <1>5, <1>6, <2>1
  <2>3. out[c][1].event = log[watch[c]][Len(shown[c]) + 1]
    BY <1>5, <1>6, <2>1
  <2>4. Head(out[c]) = [index |-> Head(out[c]).index, event |-> Head(out[c]).event]
    BY <1>3 DEF Item
  <2> QED
    BY <1>2, <1>5, <2>1, <2>2, <2>3, <2>4
<1> QED
  BY <1>3, <1>8

LEMMA ReceiveSInv ==
  ASSUME SInv, NEW c \in Clients, Receive(c)
  PROVE  SInv'
<1> DEFINE item == Head(out[c])
           over == item.event.kind = "end"
           g == IF over THEN Off ELSE gen[c]
           o == IF over THEN << >> ELSE Tail(out[c])
<1>1. page[c] = "open" /\ out[c] # << >> /\ UNCHANGED busVars
      /\ UNCHANGED <<worker, watch, born, drops>>
  BY DEF Receive
<1>2. /\ out[c] \in Seq(Item) /\ shown[c] \in Seq(Item)
      /\ gen[c] \in [at : Phases, id : StreamIds, start : Nat, index : Nat]
  BY DEF SInv, STypeOK, IInv, TypeOK, Clients
<1>3. /\ item \in Item
      /\ SameLife(c) =>
           /\ Len(shown[c]) + 1 <= Len(log[watch[c]])
           /\ item = [index |-> Len(shown[c]), event |-> log[watch[c]][Len(shown[c]) + 1]]
  BY <1>1, NextMessage
<1>4. /\ gen' = [gen EXCEPT ![c] = g] /\ out' = [out EXCEPT ![c] = o]
      /\ shown' = [shown EXCEPT ![c] = Append(shown[c], item)]
      /\ errors' = [errors EXCEPT ![c] = 0]
      /\ page' = [page EXCEPT ![c] = IF over THEN "sawEnd" ELSE page[c]]
  BY DEF Receive, SInv, STypeOK, IInv, TypeOK, Clients
<1> HIDE DEF item
<1>5. /\ gen[c].at # "off" /\ gen[c].id = watch[c]
      /\ SameLife(c) => gen[c].index = Len(shown[c]) + Len(out[c])
  BY <1>1 DEF SInv, Watching
<1>6. /\ o \in Seq(Item) /\ g \in [at : Phases, id : StreamIds, start : Nat, index : Nat]
      /\ ~over => /\ Len(o) + 1 = Len(out[c])
                  /\ \A i \in 1..Len(o) : o[i] = out[c][i + 1] /\ i + 1 \in 1..Len(out[c])
  <2>1. CASE over
    BY <2>1, BoundsAssumption DEF Off, Phases, StreamIds
  <2>2. CASE ~over
    BY <1>1, <1>2, <2>2
  <2> QED
    BY <2>1, <2>2
<1>7. IInv'
  <2>1. g.at \in {"off", gen[c].at} /\ (g.at # "off" => ~over /\ g = gen[c])
    BY <1>5 DEF Off
  <2>2. ASSUME ~over
        PROVE  /\ gen[c].start + Len(o) <= gen[c].index
               /\ \A i \in 1..Len(o) : /\ o[i].index + Len(o) = gen[c].index + i - 1
                                       /\ o[i].index < Len(log[gen[c].id])
                                       /\ o[i].event = At(gen[c].id, o[i].index)
    <3>1. /\ gen[c].start + Len(out[c]) <= gen[c].index
          /\ \A i \in 1..Len(out[c]) : /\ out[c][i].index + Len(out[c]) = gen[c].index + i - 1
                                       /\ out[c][i].index < Len(log[gen[c].id])
                                       /\ out[c][i].event = At(gen[c].id, out[c][i].index)
      BY <1>5 DEF SInv, IInv, YieldedInOrder, Clients
    <3>2. PICK n \in Nat, start \in Nat, y \in Nat :
            n = Len(o) /\ start = gen[c].start /\ y = gen[c].index /\ Len(out[c]) = n + 1
      <4>1. Len(o) + 1 = Len(out[c])
        BY <1>6, <2>2
      <4>2. Len(o) \in Nat /\ Len(out[c]) \in Nat
        BY <1>2, <1>6
      <4> HIDE DEF o
      <4> QED
        BY <1>2, <4>1, <4>2
    <3>3. start + n <= y
      BY <3>1, <3>2
    <3>4. ASSUME NEW i \in 1..Len(o)
          PROVE  /\ o[i].index + Len(o) = gen[c].index + i - 1
                 /\ o[i].index < Len(log[gen[c].id])
                 /\ o[i].event = At(gen[c].id, o[i].index)
      <4>1. o[i] = out[c][i + 1] /\ i + 1 \in 1..Len(out[c]) /\ i \in Nat
        BY <1>6, <2>2, <3>2
      <4>2. PICK x \in Nat : x = out[c][i + 1].index
        BY <1>2, <4>1, OutItems DEF SInv, IInv, Clients
      <4>3. x + (n + 1) = y + (i + 1) - 1
        BY <3>1, <3>2, <4>1, <4>2
      <4>4. x + n = y + i - 1
        BY <4>1, <4>3
      <4> QED
        BY <3>1, <3>2, <4>1, <4>2, <4>4
    <3> QED
      BY <3>2, <3>3, <3>4
  <2>3. g.at = "yield" => g.index < Len(log[g.id])
    BY <2>1 DEF SInv, IInv, YieldReady, Clients
  <2>4. g.at = "ended" => /\ g.id < nextId
                          /\ g.id \notin known \ done
                          /\ g.index >= closedLen[g.id]
    BY <2>1 DEF SInv, IInv, EndedIsAllotted, CleanEndIsDrained, Clients
  <2>5. g.at = "wait" => g.id \in known \ done /\ g.index >= Len(log[g.id])
    BY <2>1 DEF SInv, IInv, NoLostWakeup, Clients
  <2>6. IInv
    BY DEF SInv
  <2>7. c \in Readers
    BY DEF Clients
  <2> HIDE DEF g, o, over
  <2> QED
    BY <1>1, <1>4, <1>6, <2>1, <2>2, <2>3, <2>4, <2>5, <2>6, <2>7, ReaderFrame
<1> HIDE DEF over, g, o
<1>8. STypeOK'
  <2>1. Append(shown[c], item) \in Seq(Item)
    BY <1>2, <1>3
  <2>2. shown' \in [Clients -> Seq(Item)]
    BY <1>4, <2>1 DEF SInv, STypeOK
  <2>3. page' \in [Clients -> PageStates] /\ errors' \in [Clients -> 0..GiveUpAfter]
    BY <1>4, StreamAssumption DEF SInv, STypeOK, PageStates
  <2>4. \A q \in Clients : page'[q] = "open" => errors'[q] < GiveUpAfter
    <3> SUFFICES ASSUME NEW q \in Clients, page'[q] = "open"
                 PROVE  errors'[q] < GiveUpAfter
      OBVIOUS
    <3>1. CASE q = c
      BY <1>4, <3>1, StreamAssumption DEF SInv, STypeOK
    <3>2. CASE q # c
      BY <1>4, <3>2 DEF SInv, STypeOK
    <3> QED
      BY <3>1, <3>2
  <2> QED
    BY <1>1, <1>7, <2>2, <2>3, <2>4 DEF SInv, STypeOK, IInv
<1>9. /\ gen'[c] = g /\ out'[c] = o
      /\ shown'[c] = Append(shown[c], item)
      /\ page'[c] = IF over THEN "sawEnd" ELSE "open"
      /\ \A q \in Clients \ {c} : /\ gen'[q] = gen[q] /\ out'[q] = out[q] /\ shown'[q] = shown[q]
                                  /\ page'[q] = page[q] /\ errors'[q] = errors[q]
  BY <1>1, <1>4 DEF SInv, STypeOK, IInv, TypeOK, Clients
<1>10. /\ Len(shown'[c]) = Len(shown[c]) + 1
       /\ \A i \in 1..Len(shown[c]) : shown'[c][i] = shown[c][i]
       /\ shown'[c][Len(shown[c]) + 1] = item
       /\ Len(shown[c]) \in Nat
  BY <1>2, <1>3, <1>9
<1>11. Watching'
  <2> SUFFICES ASSUME NEW q \in Clients
               PROVE  /\ born[q] <= life
                      /\ page'[q] = "idle" => shown'[q] = << >> /\ errors'[q] = 0
                      /\ gen'[q].at = "off" => out'[q] = << >>
                      /\ gen'[q].at # "off" => page'[q] = "open" /\ gen'[q].id = watch[q]
                      /\ gen'[q].at # "off" /\ born[q] = life
                           => gen'[q].index = Len(shown'[q]) + Len(out'[q])
    BY <1>1 DEF Watching, SameLife, busVars
  <2>1. CASE q = c /\ over
    <3>1. g = Off /\ o = << >>
      BY <2>1 DEF g, o
    <3>2. gen'[c].at = "off" /\ out'[c] = << >> /\ page'[c] = "sawEnd"
      BY <1>9, <2>1, <3>1 DEF Off
    <3>3. born[c] <= life
      BY DEF SInv, Watching
    <3> QED
      BY <2>1, <3>2, <3>3
  <2>2. CASE q = c /\ ~over
    <3>1. g = gen[c]
      BY <2>2 DEF g
    <3>2. SameLife(c) => gen[c].index = Len(shown'[c]) + Len(o)
      <4>1. PICK y \in Nat, k \in Nat, n \in Nat :
              y = gen[c].index /\ k = Len(shown[c]) /\ n = Len(o) /\ Len(out[c]) = n + 1
        BY <1>2, <1>6, <2>2
      <4>2. SameLife(c) => y = k + (n + 1)
        BY <1>5, <4>1
      <4>3. SameLife(c) => y = (k + 1) + n
        BY <4>2
      <4> QED
        BY <1>10, <4>1, <4>3
    <3> QED
      BY <1>5, <1>9, <2>2, <3>1, <3>2 DEF SInv, Watching, SameLife
  <2>3. CASE q # c
    BY <1>9, <2>3 DEF SInv, Watching, SameLife
  <2> QED
    BY <2>1, <2>2, <2>3
<1>12. ShownIsThePrefix'
  <2> SUFFICES ASSUME NEW q \in Clients, page'[q] # "idle", born[q] = life,
                      NEW i \in 1..Len(shown'[q])
               PROVE  /\ i <= Len(log[watch[q]])
                      /\ shown'[q][i] = [index |-> i - 1, event |-> log[watch[q]][i]]
    BY <1>1 DEF ShownIsThePrefix, SameLife, busVars
  <2>1. CASE q # c
    BY <1>9, <2>1 DEF SInv, ShownIsThePrefix, SameLife
  <2>2. CASE q = c /\ i \in 1..Len(shown[c])
    BY <1>1, <1>10, <2>2 DEF SInv, ShownIsThePrefix, SameLife
  <2>3. CASE q = c /\ i = Len(shown[c]) + 1
    <3>1. SameLife(c) /\ i - 1 = Len(shown[c])
      BY <1>10, <2>3 DEF SameLife
    <3> QED
      BY <1>3, <1>10, <2>3, <3>1
  <2> QED
    BY <1>10, <2>1, <2>2, <2>3
<1> QED
  BY <1>7, <1>8, <1>11, <1>12 DEF SInv

LEMMA StepSInv == SInv /\ [SNext]_allVars => SInv'
<1> SUFFICES ASSUME SInv, [SNext]_allVars PROVE SInv'
  OBVIOUS
<1>1. CASE Launch \/ \E id \in StreamIds : StepEvent(id) \/ EndEvent(id)
                                             \/ WorkerExits(id) \/ RetentionOver(id)
  BY <1>1, ServerSInv
<1>2. CASE ServerRestart
  BY <1>2, RestartSInv
<1>3. ASSUME NEW c \in Clients, GeneratorStep(c) \/ ClientStep(c) \/ ConnectionLost(c)
      PROVE  SInv'
  <2>1. drops \in 0..MaxDrops /\ MaxDrops \in Nat
    BY StreamAssumption DEF SInv, STypeOK
  <2>2. CASE ResponseEnds(c)
    BY <2>1, <2>2, DropSInv DEF ResponseEnds
  <2>3. CASE ConnectionLost(c)
    <3>1. drops' \in 0..MaxDrops
      BY <2>1, <2>3 DEF ConnectionLost
    <3> QED
      BY <2>3, <3>1, DropSInv DEF ConnectionLost
  <2> QED
    BY <1>3, <2>2, <2>3, GeneratorSInv, SubscribeSInv, ConnectSInv, ReceiveSInv DEF ClientStep
<1>4. CASE UNCHANGED allVars
  <2>1. IInv'
    BY <1>4, StutterIInv DEF SInv, allVars
  <2> QED
    BY <1>4, <2>1 DEF SInv, STypeOK, IInv, Watching, ShownIsThePrefix, SameLife,
                      allVars, clientVars, vars, busVars
<1> QED
  BY <1>1, <1>2, <1>3, <1>4 DEF SNext, ClientStep

THEOREM StreamInvariant == SSpec => []SInv
  BY InitSInv, StepSInv, PTL DEF SSpec

\* Bus, worker and page keep their types, and a page gives up in time.
THEOREM StreamTypes == SSpec => []STypeOK
<1>1. SInv => STypeOK
  BY DEF SInv
<1> QED
  BY <1>1, StreamInvariant, PTL

\* The bus wakes its readers also with pages taking from them, connections
\* that are lost and a process that dies.
THEOREM StreamWakesUp == SSpec => []NoLostWakeup
<1>1. SInv => NoLostWakeup
  BY DEF SInv, IInv
<1> QED
  BY <1>1, StreamInvariant, PTL

\* main.py, stream_events, with app.js, subscribeToStream: a page is shown the
\* beginning of its run's log whatever is lost or repeated on the way.
THEOREM PageShowsThePrefix == SSpec => []ShownIsThePrefix
<1>1. SInv => ShownIsThePrefix
  BY DEF SInv
<1> QED
  BY <1>1, StreamInvariant, PTL

-----------------------------------------------------------------------------
(* The refinement, in one life of the server.                              *)

View == [c \in Clients |-> [i \in 1..Len(shown[c]) |-> shown[c][i].event]]
State == [c \in Clients |-> IF page[c] \in {"sawEnd", "lost"} THEN "done" ELSE page[c]]

LEMMA FeedInit == SInit => Feed!Init
<1> SUFFICES ASSUME SInit PROVE Feed!Init
  OBVIOUS
<1>1. log = [r \in StreamIds |-> << >>]
  BY DEF SInit, Init
<1>2. watch \in [Clients -> StreamIds]
  BY BoundsAssumption DEF SInit, StreamIds
<1>3. \A c \in Clients : [i \in 1..Len(shown[c]) |-> shown[c][i].event] = << >>
  BY DEF SInit
<1>4. \A c \in Clients : (IF page[c] \in {"sawEnd", "lost"} THEN "done" ELSE page[c]) = "idle"
  BY DEF SInit
<1> QED
  BY <1>1, <1>2, <1>3, <1>4 DEF Feed!Init

\* In the only life there is, every watch began in it.
LEMMA OneLife == SInv /\ MaxLives = 1 => \A c \in Clients : SameLife(c)
  BY DEF SInv, STypeOK, IInv, TypeOK, SameLife

\* Events published are reports of the feed.
LEMMA PublishReports ==
  ASSUME SInv, NEW id \in StreamIds, NEW k \in Kinds, Publish(id, k), UNCHANGED clientVars
  PROVE  Feed!Report(id)
<1> DEFINE e == [life |-> life, id |-> id, n |-> Len(log[id]) + 1, kind |-> k]
<1>1. life \in 1..MaxLives /\ Len(log[id]) \in Nat /\ Len(log[id]) < MaxEvents /\ MaxEvents \in Nat
  BY BoundsAssumption DEF SInv, IInv, TypeOK, Publish
<1>2. e \in Event
  BY <1>1 DEF Event
<1>3. log' = [log EXCEPT ![id] = Append(log[id], e)]
  BY DEF Publish, SInv, IInv, TypeOK
<1>4. watch' = watch /\ View' = View /\ State' = State
  BY DEF clientVars, View, State
<1> QED
  BY <1>2, <1>3, <1>4 DEF Feed!Report, View, State

\* A subscription is the beginning of a watch.
LEMMA SubscribeWatches ==
  ASSUME SInv, NEW c \in Clients, Subscribe(c)
  PROVE  \E id \in StreamIds : Feed!Watch(c, id)
<1>1. PICK id \in 1..(nextId - 1) : watch' = [watch EXCEPT ![c] = id]
  BY DEF Subscribe
<1>2. id \in StreamIds
  BY BoundsAssumption DEF SInv, IInv, TypeOK, StreamIds
<1>3. page[c] = "idle" /\ page' = [page EXCEPT ![c] = "open"] /\ log' = log /\ shown' = shown
  BY DEF Subscribe, vars, busVars
<1>4. State[c] = "idle" /\ State' = [State EXCEPT ![c] = "open"]
  BY <1>3 DEF State, SInv, STypeOK
<1>5. View' = View
  BY <1>3 DEF View
<1> QED
  BY <1>1, <1>2, <1>3, <1>4, <1>5 DEF Feed!Watch, View, State

\* A message handled is the next event of the feed seen.
LEMMA ReceiveSees ==
  ASSUME SInv, MaxLives = 1, NEW c \in Clients, Receive(c)
  PROVE  Feed!See(c)
<1> DEFINE item == Head(out[c])
           r == watch[c]
           k == Len(shown[c]) + 1
<1>1. page[c] = "open" /\ out[c] # << >> /\ log' = log /\ watch' = watch
  BY DEF Receive, busVars
<1>2. /\ item \in Item /\ k <= Len(log[r])
      /\ item = [index |-> Len(shown[c]), event |-> log[r][k]]
  BY <1>1, OneLife, NextMessage
<1>3. item.event = log[r][k]
  BY <1>2
<1>4. shown[c] \in Seq(Item) /\ Len(shown[c]) \in Nat
  BY DEF SInv, STypeOK
<1>5. /\ shown' = [shown EXCEPT ![c] = Append(shown[c], item)]
      /\ page' = [page EXCEPT ![c] = IF item.event.kind = "end" THEN "sawEnd" ELSE page[c]]
  BY DEF Receive, SInv, STypeOK
<1> HIDE DEF item
<1>6. View[c] = [i \in 1..Len(shown[c]) |-> shown[c][i].event]
  BY DEF View
<1>7. Len(View[c]) = Len(shown[c])
  BY <1>4, <1>6
<1>8. View' = [View EXCEPT ![c] = Append(View[c], log[r][k])]
  <2>1. \A q \in Clients \ {c} : shown'[q] = shown[q]
    BY <1>5 DEF SInv, STypeOK
  <2>2. shown'[c] = Append(shown[c], item)
    BY <1>5 DEF SInv, STypeOK
  <2>3. View'[c] = Append(View[c], log[r][k])
    <3>1. /\ Len(shown'[c]) = k
          /\ \A i \in 1..Len(shown[c]) : shown'[c][i] = shown[c][i]
          /\ shown'[c][k] = item
      BY <1>2, <1>4, <2>2
    <3>2. View'[c] = [i \in 1..k |-> shown'[c][i].event]
      BY <3>1 DEF View
    <3>3. \A i \in 1..k : View'[c][i] = IF i = k THEN log[r][k] ELSE View[c][i]
      BY <1>3, <1>4, <1>6, <3>1, <3>2
    <3>4. Append(View[c], log[r][k]) = [i \in 1..k |-> IF i = k THEN log[r][k] ELSE View[c][i]]
      BY <1>4, <1>6, <1>7
    <3> QED
      BY <3>2, <3>3, <3>4
  <2> QED
    BY <2>1, <2>3 DEF View
<1>9. /\ State[c] = "open"
      /\ State' = [State EXCEPT ![c] = IF IsEnd(log[r][k]) THEN "done" ELSE "open"]
  BY <1>1, <1>3, <1>5 DEF State, IsEnd, SInv, STypeOK
<1> QED
  BY <1>1, <1>2, <1>7, <1>8, <1>9 DEF Feed!See, View, State, IsEnd

\* An error is one more of them, or the end of the watch.
LEMMA ErrorGivesUp ==
  ASSUME SInv, NEW c \in Clients, OnError(c), log' = log
  PROVE  Feed!GiveUp(c) \/ UNCHANGED Feed!vars
<1>1. page[c] = "open" /\ watch' = watch /\ shown' = shown
      /\ page' = [page EXCEPT ![c] = IF errors[c] + 1 >= GiveUpAfter THEN "lost" ELSE page[c]]
  BY DEF OnError, SInv, STypeOK
<1>2. View' = View
  BY <1>1 DEF View
<1>3. CASE errors[c] + 1 >= GiveUpAfter
  <2>1. State[c] = "open" /\ State' = [State EXCEPT ![c] = "done"]
    BY <1>1, <1>3 DEF State, SInv, STypeOK
  <2> QED
    BY <1>1, <1>2, <2>1 DEF Feed!GiveUp, View, State
<1>4. CASE ~(errors[c] + 1 >= GiveUpAfter)
  <2>1. page' = page
    BY <1>1, <1>4 DEF SInv, STypeOK
  <2>2. State' = State
    BY <2>1 DEF State
  <2> QED
    BY <1>1, <1>2, <2>2 DEF Feed!vars, View, State
<1> QED
  BY <1>3, <1>4

LEMMA FeedStep == SInv /\ MaxLives = 1 /\ [SNext]_allVars => [Feed!Next]_(Feed!vars)
<1> SUFFICES ASSUME SInv, MaxLives = 1, [SNext]_allVars
             PROVE  Feed!Next \/ UNCHANGED Feed!vars
  OBVIOUS
<1>1. CASE log' = log /\ UNCHANGED clientVars
  <2>1. View' = View /\ State' = State /\ watch' = watch
    BY <1>1 DEF View, State, clientVars
  <2> QED
    BY <1>1, <2>1 DEF Feed!vars, View, State
<1>2. ASSUME NEW id \in StreamIds, StepEvent(id) \/ EndEvent(id)
      PROVE  Feed!Next
  <2>1. \E k \in Kinds : Publish(id, k)
    BY <1>2, StreamAssumption DEF StepEvent, EndEvent
  <2>2. UNCHANGED clientVars
    BY <1>2 DEF StepEvent, EndEvent
  <2> QED
    BY <2>1, <2>2, PublishReports DEF Feed!Next
<1>3. ASSUME NEW c \in Clients, Subscribe(c)
      PROVE  Feed!Next
  BY <1>3, SubscribeWatches DEF Feed!Next
<1>4. ASSUME NEW c \in Clients, Receive(c)
      PROVE  Feed!Next
  BY <1>4, ReceiveSees DEF Feed!Next
<1>5. ASSUME NEW c \in Clients, ResponseEnds(c) \/ ConnectionLost(c)
      PROVE  Feed!Next \/ UNCHANGED Feed!vars
  <2>1. OnError(c) /\ log' = log
    BY <1>5 DEF ResponseEnds, ConnectionLost, Drop, busVars
  <2> QED
    BY <2>1, ErrorGivesUp DEF Feed!Next
<1>6. ~ServerRestart
  BY BoundsAssumption DEF ServerRestart, Restart, SInv, IInv, TypeOK
<1>7. CASE Launch \/ (\E id \in StreamIds : WorkerExits(id) \/ RetentionOver(id))
             \/ (\E c \in Clients : GeneratorStep(c) \/ Connect(c)) \/ UNCHANGED allVars
  <2>1. log' = log /\ UNCHANGED clientVars
    BY <1>7 DEF Launch, Create, WorkerExits, Close, RetentionOver, RetentionPasses, GeneratorStep,
                Check, Yield, Timeout, Connect, Open, allVars, vars, busVars
  <2> QED
    BY <1>1, <2>1
<1> QED
  BY <1>2, <1>3, <1>4, <1>5, <1>6, <1>7 DEF SNext

\* In one life of the server, drops, timeouts, retries and late events are not to
\* be seen: bus, endpoint and page together implement the feed of RunFeed.
THEOREM FeedImplemented ==
  ASSUME MaxLives = 1
  PROVE  SSpec => ImplementsFeed
<1>1. SInv /\ [SNext]_allVars => [Feed!Next]_(Feed!vars)
  BY FeedStep
<1> QED
  BY <1>1, FeedInit, StreamInvariant, PTL DEF SSpec, ImplementsFeed, Feed!Spec
=============================================================================
