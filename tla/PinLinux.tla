------------------------------ MODULE PinLinux ------------------------------
(***************************************************************************)
(* internal/pin on Linux (pin_linux.go): a controller per process portpin  *)
(* means to signal.  Pin is a sandwich, read the start time, open a pidfd, *)
(* read the start time again; a signal goes through the pidfd, or, on a    *)
(* kernel without pidfd_open, by PID right after the start time was read   *)
(* once more.  Every system call is a step of its own, so processes exit   *)
(* and PIDs are reused between any two of them.                            *)
(***************************************************************************)
EXTENDS Kernel

CONSTANTS
    Pidfds,     \* whether kernels have pidfd_open (5.3 and later) or not
    Refusals    \* errors a system call may return for reasons of its own

ASSUME PinAssumption ==
    /\ Pidfds \subseteq BOOLEAN
    /\ Refusals \subseteq {"Permission", "other"}

VARIABLES
    hasPidfd,   \* the kernel has pidfd_open
    ctl,        \* PID -> the controller for it
    delivered   \* history: the signals that reached a process

pinVars == <<ctl, delivered>>
sysVars == <<kernelVars, hasPidfd, pinVars>>

Signals == {"TERM", "KILL"}
Errors  == {"nil", "ProcessGone", "IdentityChanged", "Permission", "other"}

(***************************************************************************)
(* A controller's step is where Pin or signal stands: "idle" before        *)
(* discovery named the process, "found" with meta as discovery read it,    *)
(* "before" and "opened" inside Pin, "pinned" once Pin returned it,        *)
(* "verified" between the re-read and the raw kill of the fallback,        *)
(* "failed" when Pin returned an error, and "closed".  fd is the process   *)
(* the pidfd refers to, by start time, and 0 when none is open.            *)
(***************************************************************************)
Steps == {"idle", "found", "before", "opened", "pinned", "verified", "failed",
          "closed"}

Controller == [step : Steps, meta : Nat, before : Nat, fd : Nat, err : Errors]

Unused == [step |-> "idle", meta |-> 0, before |-> 0, fd |-> 0, err |-> "nil"]

PinTypeOK ==
    /\ KernelTypeOK
    /\ hasPidfd \in BOOLEAN
    /\ ctl \in [Pid -> Controller]
    /\ delivered \subseteq [pid : Pid, start : Nat, sig : Signals]

-----------------------------------------------------------------------------

PinInit ==
    /\ KernelInit
    /\ hasPidfd \in Pidfds
    /\ ctl = [p \in Pid |-> Unused]
    /\ delivered = {}

SentinelStartTime(p) == IF Exists(p) THEN table[p].start ELSE -1   \* mutant

(* discover.ReadStartTime: the start time of whoever has the PID now.       *)
ReadStartTime(p) == table[p].start

(* discovery's readProcMeta: StartTime stays 0 when stat cannot be read.    *)
ReadMeta(p) ==
    /\ ctl[p].step = "idle"
    /\ ctl' = [ctl EXCEPT ![p].step = "found", ![p].meta = ReadStartTime(p)]
    /\ UNCHANGED <<kernelVars, delivered>>

LeakyPinFails(p, e) ==   \* mutant: the pidfd is not closed
    ctl' = [ctl EXCEPT ![p].step = "failed", ![p].err = e]

(* Pin returns the error e, closing the pidfd if it had one.                *)
PinFails(p, e) ==
    ctl' = [ctl EXCEPT ![p].step = "failed", ![p].fd = 0, ![p].err = e]

AnyMeta(p) == TRUE   \* mutant: discovery's start time is not compared

(* Discovery read this start time, or none. *)
MetaMatches(p) == ctl[p].meta \in {0, ReadStartTime(p)}

(* Pin: before, err := ReadStartTime(meta.PID).                             *)
ReadBefore(p) ==
    /\ ctl[p].step = "found"
    /\ \/ ~Exists(p) /\ PinFails(p, "ProcessGone")
       \/ "other" \in Refusals /\ PinFails(p, "other")
       \/ Exists(p) /\ ~MetaMatches(p) /\ PinFails(p, "IdentityChanged")
       \/ /\ Exists(p) /\ MetaMatches(p)
          /\ ctl' = [ctl EXCEPT ![p].step = "before",
                                ![p].before = ReadStartTime(p)]
    /\ UNCHANGED <<kernelVars, delivered>>

(* Pin: PidfdOpen, with ENOSYS when the kernel has none.                    *)
PidfdOpen(p) ==
    /\ ctl[p].step = "before"
    /\ \/ ~hasPidfd /\ ctl' = [ctl EXCEPT ![p].step = "opened"]
       \/ hasPidfd /\ ~Exists(p) /\ PinFails(p, "ProcessGone")
       \/ hasPidfd /\ \E e \in Refusals : PinFails(p, e)
       \/ /\ hasPidfd /\ Exists(p)
          /\ ctl' = [ctl EXCEPT ![p].step = "opened", ![p].fd = table[p].start]
    /\ UNCHANGED <<kernelVars, delivered>>

AnyAfter(p) == TRUE   \* mutant: the second read is not compared

(* The second read agrees with the first. *)
AfterMatches(p) == ReadStartTime(p) = ctl[p].before

(* Pin: after, err := ReadStartTime(meta.PID), and the controller.          *)
ReadAfter(p) ==
    /\ ctl[p].step = "opened"
    /\ \/ ~Exists(p) /\ PinFails(p, "ProcessGone")
       \/ "other" \in Refusals /\ PinFails(p, "other")
       \/ Exists(p) /\ ~AfterMatches(p) /\ PinFails(p, "IdentityChanged")
       \/ /\ Exists(p) /\ AfterMatches(p)
          /\ ctl' = [ctl EXCEPT ![p].step = "pinned", ![p].meta = ReadStartTime(p)]
    /\ UNCHANGED <<kernelVars, delivered>>

-----------------------------------------------------------------------------

(* A call of signal on controller p returns e.                              *)
SignalReturns(p, e) == ctl' = [ctl EXCEPT ![p].step = "pinned", ![p].err = e]

(* The signal reaches the process that has PID p now.                       *)
Reaches(p, sig) ==
    delivered' = delivered \cup {[pid |-> p, start |-> table[p].start, sig |-> sig]}

(* The process the pidfd refers to has not been reaped. *)
Refers(p) == Exists(p) /\ table[p].start = ctl[p].fd

SendByNumber(p, sig, e) ==   \* mutant: kill(2) although there is a pidfd
    /\ ctl[p].step = "pinned"
    /\ ctl[p].fd # 0
    /\ \/ e = "nil" /\ Exists(p) /\ Reaches(p, sig)
       \/ e = "ProcessGone" /\ ~Exists(p) /\ UNCHANGED delivered
       \/ e \in Refusals /\ UNCHANGED delivered
    /\ SignalReturns(p, e)
    /\ UNCHANGED kernelVars

(* signal, with a pidfd: pidfd_send_signal finds the very process or none.  *)
SendPidfd(p, sig, e) ==
    /\ ctl[p].step = "pinned"
    /\ ctl[p].fd # 0
    /\ \/ e = "nil" /\ Refers(p) /\ Reaches(p, sig)
       \/ e = "ProcessGone" /\ ~Refers(p) /\ UNCHANGED delivered
       \/ e \in Refusals /\ UNCHANGED delivered
    /\ SignalReturns(p, e)
    /\ UNCHANGED kernelVars

AnyIdentity(p) == Exists(p)   \* mutant: the fallback compares nothing

(* The process with PID p is still the pinned one. *)
StillPinned(p) == Exists(p) /\ ReadStartTime(p) = ctl[p].meta

(* signal, fallback: the start time is read again and differs, or cannot.   *)
VerifyFails(p, e) ==
    /\ ctl[p].step = "pinned"
    /\ ctl[p].fd = 0
    /\ \/ e = "ProcessGone" /\ ~Exists(p)
       \/ e = "other" /\ e \in Refusals
       \/ e = "IdentityChanged" /\ Exists(p) /\ ~StillPinned(p)
    /\ SignalReturns(p, e)
    /\ UNCHANGED <<kernelVars, delivered>>

(* signal, fallback: the start time is still the pinned one.                *)
Verify(p) ==
    /\ ctl[p].step = "pinned"
    /\ ctl[p].fd = 0
    /\ StillPinned(p)
    /\ ctl' = [ctl EXCEPT ![p].step = "verified"]
    /\ UNCHANGED <<kernelVars, delivered>>

(* signal, fallback: kill(2) by number, whoever has the number by now.      *)
RawKill(p, sig, e) ==
    /\ ctl[p].step = "verified"
    /\ \/ e = "nil" /\ Exists(p) /\ Reaches(p, sig)
       \/ e = "ProcessGone" /\ ~Exists(p) /\ UNCHANGED delivered
       \/ e \in Refusals /\ UNCHANGED delivered
    /\ SignalReturns(p, e)
    /\ UNCHANGED kernelVars

(* signal on a controller that Close has run on. *)
SignalClosed(p) ==
    /\ ctl[p].step = "closed"
    /\ ctl' = [ctl EXCEPT ![p].err = "ProcessGone"]
    /\ UNCHANGED <<kernelVars, delivered>>

(* Lifecycle reads /proc/PID/stat by number and compares no start time.     *)
Lifecycle(p) ==
    CASE ~Exists(p)                 -> "Gone"
      [] table[p].state = "zombie"  -> "Zombie"
      [] OTHER                      -> "Alive"

LeakyClose(S) ==   \* mutant: valid is cleared, the pidfd stays open
    /\ ctl' = [p \in Pid |-> IF p \in S /\ ctl[p].step = "pinned"
                             THEN [ctl[p] EXCEPT !.step = "closed"] ELSE ctl[p]]
    /\ UNCHANGED <<kernelVars, delivered>>

(* Close, on every controller of S that Pin returned.                       *)
Close(S) ==
    /\ ctl' = [p \in Pid |-> IF p \in S /\ ctl[p].step = "pinned"
                             THEN [ctl[p] EXCEPT !.step = "closed", !.fd = 0]
                             ELSE ctl[p]]
    /\ UNCHANGED <<kernelVars, delivered>>

PinNext ==
    /\ \/ Environment /\ UNCHANGED pinVars
       \/ \E p \in Pid :
             \/ ReadMeta(p) \/ ReadBefore(p) \/ PidfdOpen(p) \/ ReadAfter(p)
             \/ Verify(p) \/ SignalClosed(p)
             \/ \E e \in Errors :
                   \/ VerifyFails(p, e)
                   \/ \E sig \in Signals : SendPidfd(p, sig, e) \/ RawKill(p, sig, e)
       \/ \E S \in SUBSET Pid : Close(S)
    /\ UNCHANGED hasPidfd

PinSpec == PinInit /\ [][PinNext]_sysVars

-----------------------------------------------------------------------------

(* The sandwich (pin_linux.go:46-49): the pidfd of a pinned controller is    *)
(* the process whose start time Pin verified, however many processes had the *)
(* PID while Pin ran.                                                        *)
PinnedIdentity ==
    \A p \in Pid : hasPidfd /\ ctl[p].step = "pinned" => ctl[p].fd = ctl[p].meta

(* A start time discovery read is never replaced: Pin returns a controller   *)
(* for the process discovery named or none (pin_linux.go:63-65, 92-99).      *)
DiscoveredIdentityKept ==
    [][\A p \in Pid : ctl[p].meta # 0 => ctl'[p].meta = ctl[p].meta]_sysVars

(* With a pidfd, a signal reaches the pinned process or nobody               *)
(* (README.md:29-35).                                                        *)
OnlyPinnedSignalled ==
    hasPidfd => \A d \in delivered : d.start = ctl[d.pid].meta

(* A controller that reported its process gone or replaced reaches nobody    *)
(* afterwards, with a pidfd or without: the process cannot come back and its *)
(* start time is never used again (pin_linux.go:118-153).                    *)
GoneStaysGone ==
    [][\A d \in delivered' \ delivered :
          ctl[d.pid].err \notin {"ProcessGone", "IdentityChanged"}]_sysVars

(* A pidfd is open only inside Pin and in a controller it returned; every    *)
(* error return of Pin after PidfdOpen closes it (pin_linux.go:82-97).       *)
DescriptorOwned ==
    \A p \in Pid : ctl[p].fd # 0 => ctl[p].step \in {"opened", "pinned"}

=============================================================================
