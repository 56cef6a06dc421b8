------------------------------ MODULE MCLaunch ------------------------------
(* A small instance of Launch: two requests at a time, two modules. *)
EXTENDS Launch, TLC

OneASecond == [max |-> 1, window |-> 1]
TwoInTwo == [max |-> 2, window |-> 2]
BothLimits == {OneASecond, TwoInTwo}
AlikeClients == Permutations(Clients)
=============================================================================
