----------------------------- MODULE MCKillOne -----------------------------
(* TLC: killOne on a kernel of a few processes.                             *)
EXTENDS KillOne

(* One poll of 25 ms before the hard kill, one after it;                     *)
(* and --force.                                                              *)
MCOptions ==
    [Force : BOOLEAN, Timeout : {25}, HardWait : {25}, NoConsoleWait : {500}]

=============================================================================
