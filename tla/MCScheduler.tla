---------------------------- MODULE MCScheduler ----------------------------
(* Instances of Scheduler: an interval beside a one-time schedule (with a   *)
(* second of its kind to be cloned into), and the calendar cadences.        *)
EXTENDS Scheduler, TLC

CONSTANTS i1, o1, o2, d1, w1

Cad(type) == [type |-> type, every |-> 2, at |-> 1, day |-> 1]
MixedCadence == (i1 :> Cad("interval")) @@ (o1 :> Cad("once")) @@ (o2 :> Cad("once"))
\* At most two rows at a time, of any two of the three schedules.
Room == \E id \in Ids : sched[id] = Absent
OncePair == Permutations({o1, o2})
CalendarCadence == (d1 :> Cad("daily")) @@ (w1 :> Cad("weekly"))
=============================================================================
