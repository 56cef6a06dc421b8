---------------------------- MODULE MCAutoBackup ----------------------------
(* A small instance of AutoBackup: the timer and one request at a time. *)
EXTENDS AutoBackup

Off == [on |-> FALSE, interval |-> 1, keep |-> 1]
=============================================================================
