-------------------------------- MODULE Pins --------------------------------
(***************************************************************************)
(* The controllers of internal/pin on the Unix kernels, one at a time:     *)
(* PinLinux with and without pidfd_open, and PinDarwin, each shown to keep *)
(* the promise of Hold.                                                    *)
(***************************************************************************)
EXTENDS PinLinux

CONSTANT Systems   \* the operating systems

ASSUME SystemsAssumption == Systems \subseteq {"linux", "darwin"}

VARIABLES
    system,     \* the one portpin was built for
    kctl        \* the controllers of macOS

D == INSTANCE PinDarwin

unixVars == <<sysVars, system, kctl>>

UnixTypeOK ==
    /\ PinTypeOK
    /\ system \in Systems
    /\ D!DarwinTypeOK

UnixInit ==
    /\ PinInit
    /\ system \in Systems
    /\ system = "darwin" => ~hasPidfd
    /\ D!DarwinInit

UnixNext ==
    \/ system = "linux" /\ PinNext /\ UNCHANGED <<system, kctl>>
    \/ system = "darwin" /\ D!DarwinNext /\ UNCHANGED <<system, hasPidfd, ctl>>

UnixSpec == UnixInit /\ [][UnixNext]_unixVars

-----------------------------------------------------------------------------

(* The start time discovery read, and Pin if discovery read none. *)
Known(p) == IF system = "linux" THEN ctl[p].meta ELSE kctl[p].meta

(* The process a controller holds once Pin has returned it. *)
Held(p) ==
    IF system = "linux"
    THEN IF ctl[p].step \in {"pinned", "verified", "closed"} THEN ctl[p].meta ELSE 0
    ELSE IF kctl[p].step \in {"pinned", "live", "same", "closed"} THEN kctl[p].meta ELSE 0

(* The signals of the controllers that know whom they hold.  On macOS Pin    *)
(* takes a zombie whose start time reads 0 each time, and its controller     *)
(* would go on by number with that.                                          *)
Sent == {d \in delivered : Held(d.pid) # 0}

H == INSTANCE Hold WITH
    Pids   <- Pid,
    Starts <- 0..(MaxPid + MaxStart),
    leaky  <- ~hasPidfd,
    known  <- [p \in Pid |-> Known(p)],
    held   <- [p \in Pid |-> Held(p)],
    delivered <- Sent

(* On either system the controllers keep the promise of Hold: with a pidfd   *)
(* every signal reaches the pinned process, and without one at most the last *)
(* signal of a controller misses it (pin_linux.go:132-153,                   *)
(* pin_darwin.go:95-112), the start time that Pin read not being 0.          *)
KeepsHold == H!Spec

(* Pidfds and kqueues are open only inside Pin and in controllers that it    *)
(* returned, whatever fails (pin_linux.go:82-97, pin_darwin.go:61-80).       *)
HandlesOwned == DescriptorOwned /\ D!KqueueOwned

(* What a controller found gone stays gone: on Linux it signals nobody       *)
(* afterwards, on macOS Lifecycle, once it finds it no longer alive, never   *)
(* finds it alive again                                                      *)
(* (pin_linux.go:118-153, pin_darwin.go:117-130).                            *)
NeverRevived == GoneStaysGone /\ D!GoneIsFinal

(* The exit event that latches on macOS is of the pinned process             *)
(* (pin_darwin.go:61-93).                                                    *)
ExitIsOwn == D!ExitIsOwn

=============================================================================
