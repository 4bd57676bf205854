-------------------------------- MODULE Hold --------------------------------
(***************************************************************************)
(* What internal/pin promises of its controllers on every platform         *)
(* (pin.go:1-51): a controller holds the process that discovery read, if   *)
(* it read one, and holds it for good, and its signals reach that process. *)
(* Where the kernel offers no handle to signal                             *)
(* through, one signal may reach a younger process that got the number     *)
(* just then, and it is the last one that the controller delivers.         *)
(*                                                                         *)
(* PinLinux, PinDarwin and KillWindows are shown to implement it.          *)
(***************************************************************************)
EXTENDS Integers

CONSTANTS
    Pids,       \* the numbers of processes
    Starts,     \* the start times of processes
    Signals     \* the signals a controller sends

VARIABLES
    leaky,      \* signals go by number and not through a handle
    known,      \* PID -> the start time that discovery read of it, or 0
    held,       \* PID -> the start time of the process its controller holds, or 0
    delivered   \* the signals that reached a process

vars == <<leaky, known, held, delivered>>

Init ==
    /\ leaky \in BOOLEAN
    /\ known \in [Pids -> Starts]
    /\ held = [p \in Pids |-> 0]
    /\ delivered = {}

(* Every signal of p's controller so far reached the process it holds. *)
Exact(p) == \A d \in delivered : d.pid = p => d.start = held[p]

(* Discovery reads the start time of the process that has the number. *)
Read(p) ==
    /\ held[p] = 0 /\ known[p] = 0
    /\ \E s \in Starts : known' = [known EXCEPT ![p] = s]
    /\ UNCHANGED <<leaky, held, delivered>>

(* Pin returns a controller. *)
Take(p) ==
    /\ held[p] = 0
    /\ \E s \in Starts \ {0} :
          /\ known[p] \in {0, s}
          /\ held' = [held EXCEPT ![p] = s]
          /\ known' = [known EXCEPT ![p] = s]
    /\ UNCHANGED <<leaky, delivered>>

Deliver(p, s, sig) ==
    delivered' = delivered \cup {[pid |-> p, start |-> s, sig |-> sig]}

Signal(p, sig) ==
    /\ held[p] # 0
    /\ Exact(p)
    /\ Deliver(p, held[p], sig)
    /\ UNCHANGED <<leaky, known, held>>

(* The number was reused between the last check and the signal. *)
Miss(p, sig) ==
    /\ leaky
    /\ held[p] # 0
    /\ Exact(p)
    /\ \E s \in Starts : s > held[p] /\ Deliver(p, s, sig)
    /\ UNCHANGED <<leaky, known, held>>

Next ==
    \E p \in Pids :
        \/ Read(p) \/ Take(p)
        \/ \E sig \in Signals : Signal(p, sig) \/ Miss(p, sig)

Spec == Init /\ [][Next]_vars

=============================================================================
