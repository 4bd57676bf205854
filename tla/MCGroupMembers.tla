--------------------------- MODULE MCGroupMembers ---------------------------
(* TLC: GroupMembers on each platform, with a bound that shows its case.     *)
EXTENDS GroupMembers

(* On Windows a stale parent number needs a tick more than a process group. *)
MCTicks   == [linux |-> 2, windows |-> 3]
TreeTicks == [darwin |-> 2]

=============================================================================
