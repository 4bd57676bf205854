---------------------------- MODULE MCTerminate ----------------------------
(***************************************************************************)
(* TLC: Run alone, its callbacks answering anything, with DefaultOptions   *)
(* and the --force and --timeout values that change its course.            *)
(***************************************************************************)
EXTENDS Terminate

(* DefaultOptions, then --force, --timeout 0, a timeout no poll interval     *)
(* divides, and the negative timeout the flag package accepts.               *)
MCOptions ==
    [Force : BOOLEAN, Timeout : {3000, 180, 0, -1}, HardWait : {1000},
     NoConsoleWait : {500}]

(* Run has returned and the program goes on to its next target. *)
Returned == stage = "done" /\ UNCHANGED vars

MCSpec == Init /\ [][Next \/ Returned]_vars /\ WF_vars(Next)

=============================================================================
