-------------------------------- MODULE Wait --------------------------------
(***************************************************************************)
(* cmd/portpin/wait.go: waitFor, behind "portpin wait".  A timer that      *)
(* starts once, a look at the port by discovery, and a sleep of one poll   *)
(* interval between looks, while the processes bind and release the port.  *)
(* Time passes in ticks; looks take time, and a ready select does not.     *)
(***************************************************************************)
EXTENDS Integers

CONSTANTS
    Timeouts,   \* the values of --timeout, 0 to wait forever
    Poll,       \* waitPoll
    SlowLook    \* bound on the ticks a look may take

ASSUME WaitAssumption ==
    /\ Timeouts \subseteq Nat
    /\ Poll \in Nat \ {0} /\ SlowLook \in Nat

VARIABLES
    busy, timeout,   \* the options
    port,            \* what the sockets on the port are
    pc,              \* "look", "looked", "select" or "done"
    left,            \* ticks until the timer fires
    nap,             \* ticks until time.After(poll) fires
    looking,         \* ticks the current look has taken
    answer,          \* what the look found
    result,          \* what waitFor returned
    late,            \* history: ticks since the timer fired
    stable           \* history: ticks the port has been in the wanted state

waitVars == <<busy, timeout, pc, left, nap, looking, answer, result>>
vars == <<waitVars, port, late, stable>>

(* Bounds of the histories, beyond what the properties allow. *)
MaxLate == SlowLook + 1
MaxStable == Poll + 2 * SlowLook + 1

Ports == {"free", "held", "time_wait"}

(* reached: busy asks for a socket beyond TIME_WAIT, free for none at all. *)
Reached(p) == IF busy THEN p = "held" ELSE p = "free"

TypeOK ==
    /\ busy \in BOOLEAN /\ timeout \in Timeouts
    /\ port \in Ports
    /\ pc \in {"look", "looked", "select", "done"}
    /\ left \in 0..timeout
    /\ nap \in 0..Poll
    /\ looking \in 0..SlowLook
    /\ answer \in Ports
    /\ result \in {"none", "true", "false", "error"}
    /\ late \in 0..MaxLate
    /\ stable \in 0..MaxStable

Init ==
    /\ busy \in BOOLEAN /\ timeout \in Timeouts
    /\ port \in Ports
    /\ pc = "look"
    /\ left = timeout
    /\ nap = 0
    /\ looking = 0
    /\ answer = port
    /\ result = "none"
    /\ late = 0
    /\ stable = 0

-----------------------------------------------------------------------------

(* The processes and the kernel. *)
Moves == {<<"free", "held">>, <<"held", "free">>, <<"held", "time_wait">>,
          <<"time_wait", "free">>, <<"time_wait", "held">>}

PortChanges ==
    /\ pc # "done"
    /\ \E p \in Ports : <<port, p>> \in Moves /\ port' = p
    /\ stable' = 0
    /\ UNCHANGED <<waitVars, late>>

-----------------------------------------------------------------------------

TimerFired == timeout > 0 /\ left = 0
NapOver == nap = 0

SleepExpires == pc = "select" /\ NapOver /\ TimerFired   \* mutant: the sleep ignores the timer

ExpiryReady == pc = "select" /\ TimerFired

Elapse(n) == IF n > 0 THEN n - 1 ELSE 0

AtMost(n, max) == IF n < max THEN n ELSE max

(* A tick.  The select of waitFor takes none once a channel is ready. *)
Tick ==
    /\ \/ pc \in {"look", "looked"} /\ looking < SlowLook /\ looking' = looking + 1
       \/ pc = "select" /\ ~ExpiryReady /\ ~NapOver /\ UNCHANGED looking
    /\ left' = Elapse(left)
    /\ nap' = IF pc = "select" THEN nap - 1 ELSE nap
    /\ late' = IF TimerFired THEN AtMost(late + 1, MaxLate) ELSE 0
    /\ stable' = IF Reached(port) THEN AtMost(stable + 1, MaxStable) ELSE 0
    /\ UNCHANGED <<busy, timeout, port, pc, answer, result>>

(* Resolve reads the sockets somewhere within the look. *)
Resolve ==
    /\ pc = "look"
    /\ answer' = port
    /\ pc' = "looked"
    /\ UNCHANGED <<busy, timeout, port, left, nap, looking, result, late, stable>>

ResolveFails ==
    /\ pc = "look"
    /\ result' = "error"
    /\ pc' = "done"
    /\ UNCHANGED <<busy, timeout, port, left, nap, looking, answer, late, stable>>

ReturnTrue ==
    /\ pc = "looked"
    /\ Reached(answer)
    /\ result' = "true"
    /\ pc' = "done"
    /\ UNCHANGED <<busy, timeout, port, left, nap, looking, answer, late, stable>>

(* The select evaluates time.After(poll). *)
Sleep ==
    /\ pc = "looked"
    /\ ~Reached(answer)
    /\ nap' = Poll
    /\ pc' = "select"
    /\ UNCHANGED <<busy, timeout, port, left, looking, answer, result, late, stable>>

Expire ==
    /\ ExpiryReady
    /\ result' = "false"
    /\ pc' = "done"
    /\ UNCHANGED <<busy, timeout, port, left, nap, looking, answer, late, stable>>

RestartTimer ==   \* mutant: the timer is made inside the loop
    /\ pc = "select"
    /\ NapOver
    /\ pc' = "look"
    /\ looking' = 0
    /\ left' = timeout
    /\ UNCHANGED <<busy, timeout, port, nap, answer, result, late, stable>>

SleepTwice ==   \* mutant: another sleep instead of a look
    /\ pc = "select"
    /\ NapOver
    /\ nap' = Poll
    /\ UNCHANGED <<busy, timeout, port, pc, left, looking, answer, result, late, stable>>

(* Both channels may be ready at once; the choice is then arbitrary. *)
Wake ==
    /\ pc = "select"
    /\ NapOver
    /\ pc' = "look"
    /\ looking' = 0
    /\ UNCHANGED <<busy, timeout, port, left, nap, answer, result, late, stable>>

WaitFor == Tick \/ Resolve \/ ResolveFails \/ ReturnTrue \/ Sleep \/ Expire \/ Wake

Done == pc = "done" /\ UNCHANGED vars

Next == WaitFor \/ PortChanges \/ Done

(* The runtime runs waitFor and its timers; of the processes nothing is      *)
(* assumed.                                                                  *)
Spec == Init /\ [][Next]_vars /\ WF_vars(WaitFor)

-----------------------------------------------------------------------------

(* A state of the port that lasts for a poll interval and the look on either *)
(* side is never missed, nor is a timeout reported against it (wait.go:100). *)
LastingStateSeen ==
    result \in {"none", "false"} => stable <= Poll + 2 * SlowLook

(* The timeout is reported at most one look late: it interrupts the sleep,   *)
(* and a look that began as the timer fired is the last (wait.go:105-119).   *)
PromptTimeout == late <= SlowLook

(* waitFor returns if there is a timeout, and without one if the port ends   *)
(* up in the wanted state for good (wait.go:100-101).                          *)
Returns == (timeout > 0 \/ <>[]Reached(port)) => <>(pc = "done")

=============================================================================
