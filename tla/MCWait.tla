------------------------------- MODULE MCWait -------------------------------
EXTENDS Wait

(* No timeout, one shorter than the poll interval, and longer ones that fire *)
(* within a sleep, as it ends and within a look.                             *)
MCTimeouts == {0, 2, 4, 5, 6, 7, 9}
=============================================================================
