------------------------------ MODULE RunFeed ------------------------------
(***************************************************************************)
(* What a person watching a run is promised, without connections, indices, *)
(* generators or retries: the run keeps one log; a watcher's view is       *)
(* extended by the next event of that log and by nothing else; the watch   *)
(* is over once the run's closing event has been seen, or when the watcher *)
(* gives up.  EventStream implements this.                                 *)
(***************************************************************************)
EXTENDS Naturals, Sequences

CONSTANTS
  Watchers,
  Runs,
  Events,       \* what can be in a log
  Closing(_)    \* is this the run's closing event?

VARIABLES
  feed,     \* feed[r]: the events run r has reported so far
  watched,  \* watched[w]: the run w watches (meaningless before it starts)
  view,     \* view[w]: the events w has been shown
  state     \* state[w]: "idle", "open" or "done"

vars == <<feed, watched, view, state>>

Init ==
  /\ feed = [r \in Runs |-> << >>]
  /\ watched \in [Watchers -> Runs]
  /\ view = [w \in Watchers |-> << >>]
  /\ state = [w \in Watchers |-> "idle"]

Report(r) ==
  /\ \E e \in Events : feed' = [feed EXCEPT ![r] = Append(@, e)]
  /\ UNCHANGED <<watched, view, state>>

Watch(w, r) ==
  /\ state[w] = "idle"
  /\ state' = [state EXCEPT ![w] = "open"]
  /\ watched' = [watched EXCEPT ![w] = r]
  /\ UNCHANGED <<feed, view>>

See(w) ==
  LET r == watched[w]
      k == Len(view[w]) + 1
  IN /\ state[w] = "open"
     /\ k <= Len(feed[r])
     /\ view' = [view EXCEPT ![w] = Append(@, feed[r][k])]
     /\ state' = [state EXCEPT ![w] = IF Closing(feed[r][k]) THEN "done" ELSE "open"]
     /\ UNCHANGED <<feed, watched>>

GiveUp(w) ==
  /\ state[w] = "open"
  /\ state' = [state EXCEPT ![w] = "done"]
  /\ UNCHANGED <<feed, watched, view>>

Next ==
  \/ \E r \in Runs : Report(r)
  \/ \E w \in Watchers :
       \/ \E r \in Runs : Watch(w, r)
       \/ See(w)
       \/ GiveUp(w)

Spec == Init /\ [][Next]_vars
=============================================================================
