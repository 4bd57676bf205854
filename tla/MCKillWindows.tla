--------------------------- MODULE MCKillWindows ---------------------------
(* TLC: two targets, in consoles of their own, in a shared one or in none.   *)
EXTENDS KillWindows

(* One poll before the hard kill and one after it; and --force. *)
MCOptions ==
    [Force : BOOLEAN, Timeout : {25}, HardWait : {25}, NoConsoleWait : {25}]

(* The second target shares the console of the first, has its own or none.   *)
MCConsoles == [p \in 1..MaxPid |-> IF p = 1 THEN {1} ELSE {0, 1, 2}]

(* On a terminal, with stderr in a file, and both in a pipe or a file.       *)
MCStreams == [out : {"console"}, err : {"console", "pipe"}] \cup [out : {"pipe"}, err : {"pipe"}]

=============================================================================
