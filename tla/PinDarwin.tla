----------------------------- MODULE PinDarwin -----------------------------
(***************************************************************************)
(* internal/pin on macOS (pin_darwin.go).  The kernel has no handle to     *)
(* signal through: a kqueue reports the exit of the process, the start     *)
(* time is read again, and kill(2) goes by number.  Pin is the sandwich of *)
(* PinLinux around EV_ADD.  One system call to a step.                     *)
(***************************************************************************)
EXTENDS Kernel

CONSTANT Refusals   \* errors a system call may return for reasons of its own

VARIABLES
    kctl,       \* PID -> the controller for it
    delivered   \* history: the signals that reached a process

darwinVars == <<kctl, delivered>>

(***************************************************************************)
(* step as in PinLinux: "watched" when the kqueue has an event filter,     *)
(* "live" when signal has found no exit event, "same" when the start time  *)
(* is still the pinned one.  kq is whether the kqueue is open, knote the   *)
(* start time of the process its filter is on.                             *)
(***************************************************************************)
KSteps == {"idle", "found", "before", "watched", "pinned", "live", "same",
           "failed", "closed"}
KErrors == {"nil", "ProcessGone", "IdentityChanged", "Permission", "other"}
KSignals == {"TERM", "KILL"}

DarwinController ==
    [step : KSteps, meta : Nat, before : Nat, kq : BOOLEAN, knote : Nat,
     exited : BOOLEAN, err : KErrors]

KUnused == [step |-> "idle", meta |-> 0, before |-> 0, kq |-> FALSE, knote |-> 0,
            exited |-> FALSE, err |-> "nil"]

DarwinTypeOK == kctl \in [Pid -> DarwinController]

DarwinInit ==
    /\ kctl = [p \in Pid |-> KUnused]
    /\ delivered = {}

-----------------------------------------------------------------------------

(* What sysctl tells of p: the start time, or 0 of a zombie.                 *)
StartTimes(p) == {table[p].start} \cup (IF table[p].state = "zombie" THEN {0} ELSE {})

(* discovery's readProcMeta *)
KReadMeta(p) ==
    /\ kctl[p].step = "idle"
    /\ \E s \in StartTimes(p) :
          kctl' = [kctl EXCEPT ![p].step = "found", ![p].meta = s]
    /\ UNCHANGED <<kernelVars, delivered>>

KLeakyFails(p, e) ==   \* mutant: the kqueue is not closed
    kctl' = [kctl EXCEPT ![p].step = "failed", ![p].err = e]

KPinFails(p, e) ==
    kctl' = [kctl EXCEPT ![p].step = "failed", ![p].before = 0, ![p].kq = FALSE,
                         ![p].knote = 0, ![p].err = e]

(* Pin: before, err := startTime(meta.PID). *)
KReadBefore(p) ==
    /\ kctl[p].step = "found"
    /\ \/ ~Exists(p) /\ KPinFails(p, "ProcessGone")
       \/ "other" \in Refusals /\ KPinFails(p, "other")
       \/ /\ Exists(p)
          /\ \E s \in StartTimes(p) :
                \/ kctl[p].meta \notin {0, s} /\ KPinFails(p, "IdentityChanged")
                \/ /\ kctl[p].meta \in {0, s}
                   /\ kctl' = [kctl EXCEPT ![p].step = "before", ![p].before = s]
    /\ UNCHANGED <<kernelVars, delivered>>

(* Pin: Kqueue, which may fail, and Kevent with EV_ADD.  Of a zombie the     *)
(* kernel reports ESRCH, or its exit.                                        *)
Watch(p) ==
    /\ kctl[p].step = "before"
    /\ \/ table[p].state # "alive" /\ KPinFails(p, "ProcessGone")
       \/ \E e \in Refusals : KPinFails(p, e)
       \/ /\ Exists(p)
          /\ kctl' = [kctl EXCEPT ![p].step = "watched", ![p].kq = TRUE,
                                  ![p].knote = table[p].start]
    /\ UNCHANGED <<kernelVars, delivered>>

KAnyAfter(p, s) == TRUE   \* mutant: the second read is not compared

KAfterMatches(p, s) == s = kctl[p].before

(* Pin: after, err := startTime(meta.PID), and the controller. *)
KReadAfter(p) ==
    /\ kctl[p].step = "watched"
    /\ \/ ~Exists(p) /\ KPinFails(p, "ProcessGone")
       \/ "other" \in Refusals /\ KPinFails(p, "other")
       \/ /\ Exists(p)
          /\ \E s \in StartTimes(p) :
                \/ ~KAfterMatches(p, s) /\ KPinFails(p, "IdentityChanged")
                \/ /\ KAfterMatches(p, s)
                   /\ kctl' = [kctl EXCEPT ![p].step = "pinned", ![p].meta = s]
    /\ UNCHANGED <<kernelVars, delivered>>

-----------------------------------------------------------------------------

KReturns(p, e) == kctl' = [kctl EXCEPT ![p].step = "pinned", ![p].err = e]

(* The process that the filter is on has exited: the event stays queued. *)
ExitQueued(p) == ~(Alive(p) /\ table[p].start = kctl[p].knote)

(* signal: exitSeen latches the event.  A call of kevent that fails has seen *)
(* none.                                                                     *)
CheckExit(p) ==
    /\ kctl[p].step = "pinned"
    /\ \/ /\ kctl[p].exited \/ ExitQueued(p)
          /\ kctl' = [kctl EXCEPT ![p].exited = TRUE, ![p].err = "ProcessGone"]
       \/ /\ ~kctl[p].exited /\ (~ExitQueued(p) \/ "other" \in Refusals)
          /\ kctl' = [kctl EXCEPT ![p].step = "live", ![p].err = "nil"]
    /\ UNCHANGED <<kernelVars, delivered>>

AnyStart(p, s) == TRUE   \* mutant: kill(2) without a look at the start time

StillSame(p, s) == s = kctl[p].meta

(* signal: now, err := startTime(c.meta.PID). *)
CheckStart(p) ==
    /\ kctl[p].step = "live"
    /\ \/ ~Exists(p) /\ KReturns(p, "ProcessGone")
       \/ "other" \in Refusals /\ KReturns(p, "other")
       \/ /\ Exists(p)
          /\ \E s \in StartTimes(p) :
                \/ ~StillSame(p, s) /\ KReturns(p, "IdentityChanged")
                \/ StillSame(p, s) /\ kctl' = [kctl EXCEPT ![p].step = "same"]
    /\ UNCHANGED <<kernelVars, delivered>>

(* signal: kill(2), whoever has the number by now. *)
Kill(p, sig) ==
    /\ kctl[p].step = "same"
    /\ \/ /\ Exists(p)
          /\ delivered' = delivered \cup {[pid |-> p, start |-> table[p].start, sig |-> sig]}
          /\ KReturns(p, "nil")
       \/ ~Exists(p) /\ KReturns(p, "ProcessGone") /\ UNCHANGED delivered
       \/ (\E e \in Refusals : KReturns(p, e)) /\ UNCHANGED delivered
    /\ UNCHANGED kernelVars

(* signal on a controller that Close has run on. *)
KSignalClosed(p) ==
    /\ kctl[p].step = "closed"
    /\ kctl' = [kctl EXCEPT ![p].err = "ProcessGone"]
    /\ UNCHANGED <<kernelVars, delivered>>

NumberLifecycle(p) ==   \* mutant: the state of whoever has the number
    CASE ~Exists(p)                 -> {"Gone"}
      [] table[p].state = "zombie"  -> {"Zombie"}
      [] OTHER                      -> {"Alive"}

LifecycleOf(p, s) ==
    CASE table[p].state = "zombie" /\ s \in {0, kctl[p].meta} -> "Zombie"
      [] s # kctl[p].meta                                     -> "Gone"
      [] OTHER                                                -> "Alive"

(* Lifecycle: what it may answer.  Unlike on Linux, another process with the *)
(* number is Gone, but for a zombie whose start time reads 0.                *)
KLifecycle(p) ==
    IF Exists(p) THEN {LifecycleOf(p, s) : s \in StartTimes(p)} ELSE {"Gone"}

(* Close.  A second one does nothing. *)
KClose(p) ==
    /\ kctl[p].step = "pinned"
    /\ kctl' = [kctl EXCEPT ![p].step = "closed", ![p].kq = FALSE, ![p].knote = 0]
    /\ UNCHANGED <<kernelVars, delivered>>

DarwinNext ==
    \/ Environment /\ UNCHANGED darwinVars
    \/ \E p \in Pid :
          \/ KReadMeta(p) \/ KReadBefore(p) \/ Watch(p) \/ KReadAfter(p)
          \/ CheckExit(p) \/ CheckStart(p) \/ KSignalClosed(p) \/ KClose(p)
          \/ \E sig \in KSignals : Kill(p, sig)

-----------------------------------------------------------------------------

(* A controller says for good that its process has exited only if that       *)
(* process has: the event filter is on no other (pin_darwin.go:61-93).       *)
(* Otherwise portpin would report a live target as gone without a signal.    *)
ExitIsOwn == \A p \in Pid : kctl[p].exited => ~(Alive(p) /\ table[p].start = kctl[p].meta)

(* The kqueue is open in a controller that Pin returned and nowhere else:    *)
(* every error return after Kqueue closes it (pin_darwin.go:61-80).          *)
KqueueOwned ==
    \A p \in Pid : kctl[p].kq <=> kctl[p].step \in {"watched", "pinned", "live", "same"}

(* What Lifecycle does not call alive it never calls alive again, whoever    *)
(* gets the number later: a stranger is not taken for the target, come back  *)
(* (pin_darwin.go:117-130).                                                  *)
GoneIsFinal ==
    [][\A p \in Pid :
          kctl[p].step = "pinned" /\ "Alive" \notin KLifecycle(p)
              => "Alive" \notin KLifecycle(p)'
      ]_<<kernelVars, darwinVars>>

=============================================================================
