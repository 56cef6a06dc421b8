---------------------------- MODULE MCRunHistory ----------------------------
(* Small instances of RunHistory.                                          *)
EXTENDS RunHistory, TLC

Alike == Permutations(Workers) \cup Permutations(Clients)
=============================================================================
