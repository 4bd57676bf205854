------------------------------- MODULE Kernel -------------------------------
(***************************************************************************)
(* The operating system portpin runs on, as src/ uses it: processes known  *)
(* by PID and start time (/proc/PID/stat), and one socket bound to the     *)
(* endpoint portpin is asked to free (/proc/net/tcp, /proc/PID/fd).        *)
(*                                                                         *)
(* The kernel and the processes on it are not under src/.  Everything they *)
(* may do between two system calls of portpin is an action here: processes *)
(* fork (and share the socket with the child), exit, are reaped, and their *)
(* PIDs are handed out again; sockets are closed and bound anew.           *)
(***************************************************************************)
EXTENDS Integers

CONSTANTS
    MaxPid,     \* PIDs are 1..MaxPid
    MaxStart,   \* bound on start times, so on the processes ever created
    Booted      \* the PIDs in use when portpin starts

ASSUME KernelAssumption ==
    /\ MaxPid \in Nat
    /\ MaxStart \in Nat
    /\ Booted \subseteq 1..MaxPid

VARIABLES
    table,      \* PID -> the process that has it
    holders,    \* start times of the processes with an fd of the socket
    nextStart   \* the start time of the next process: no two share one

kernelVars == <<table, holders, nextStart>>

Pid     == 1..MaxPid
Process == [start : Nat, state : {"none", "alive", "zombie"}]
NoProcess == [start |-> 0, state |-> "none"]

KernelTypeOK ==
    /\ table \in [Pid -> Process]
    /\ holders \subseteq Nat
    /\ nextStart \in Nat

Exists(p) == table[p].state # "none"
Alive(p)  == table[p].state = "alive"

(* The processes that have the socket open.  Only a live process does. *)
Holders == {p \in Pid : Alive(p) /\ table[p].start \in holders}

-----------------------------------------------------------------------------

KernelInit ==
    /\ table = [p \in Pid |-> IF p \in Booted THEN [start |-> p, state |-> "alive"]
                              ELSE NoProcess]
    /\ holders \in SUBSET Booted
    /\ nextStart = MaxPid + 1

(* p forks a process that gets the free PID q, and shares the socket or not. *)
Fork(p, q, shares) ==
    /\ Alive(p)
    /\ ~Exists(q)
    /\ nextStart <= MaxStart
    /\ shares => p \in Holders
    /\ table' = [table EXCEPT ![q] = [start |-> nextStart, state |-> "alive"]]
    /\ holders' = IF shares THEN holders \cup {nextStart} ELSE holders
    /\ nextStart' = nextStart + 1

(* p binds the endpoint, which no socket holds. *)
Listen(p) ==
    /\ Alive(p)
    /\ Holders = {}
    /\ holders' = {table[p].start}
    /\ UNCHANGED <<table, nextStart>>

CloseSocket(p) ==
    /\ p \in Holders
    /\ holders' = holders \ {table[p].start}
    /\ UNCHANGED <<table, nextStart>>

(* p exits, on its own or because it was signalled, and is a zombie.        *)
Exit(p) ==
    /\ Alive(p)
    /\ table' = [table EXCEPT ![p].state = "zombie"]
    /\ holders' = holders \ {table[p].start}
    /\ UNCHANGED nextStart

(* The parent reaps p and the PID is free for reuse.                        *)
Reap(p) ==
    /\ table[p].state = "zombie"
    /\ table' = [table EXCEPT ![p] = NoProcess]
    /\ UNCHANGED <<holders, nextStart>>

Environment ==
    \E p \in Pid :
        \/ \E q \in Pid, shares \in BOOLEAN : Fork(p, q, shares)
        \/ Listen(p)
        \/ CloseSocket(p)
        \/ Exit(p)
        \/ Reap(p)

=============================================================================
