--------------------------- MODULE MCOrchestrator ---------------------------
(* Small pipelines for Orchestrator: chains, conditions, retries, groups.  *)
EXTENDS Orchestrator, TLC

Plain(out) == [cond |-> NoKey, static |-> {}, mapped |-> {}, output |-> out, retries |-> 0, timed |-> TRUE]
One(step) == [par |-> FALSE, branches |-> <<step>>]
Group(steps_) == [par |-> TRUE, branches |-> steps_]

\* a (with a retry) -> b, b only if there is an a.
Chain == << One([Plain("a") EXCEPT !.retries = 1, !.static = {"x"}]),
            One([Plain("b") EXCEPT !.cond = "a", !.mapped = {<<"x", "a">>}]),
            One([Plain("a") EXCEPT !.mapped = {<<"y", "b">>}]) >>

\* A group of two (one retried, one conditional), then a step on its result.
Fan == << One(Plain("a")),
          Group(<< [Plain("b") EXCEPT !.retries = 1, !.mapped = {<<"x", "a">>}],
                   [Plain("c") EXCEPT !.cond = "a"] >>),
          One([Plain("a") EXCEPT !.mapped = {<<"y", "b">>}, !.timed = FALSE]) >>

\* Two branches that write the same key.
Rivals == << Group(<< Plain("a"), [Plain("a") EXCEPT !.cond = "c"], Plain("a") >>), One(Plain("b")) >>

TheKeys == {"a", "b", "c", "x", "y"}
Ordinary == {Chain, Fan, Rivals}
=============================================================================
