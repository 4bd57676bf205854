----------------------------- MODULE KillWindows -----------------------------
(***************************************************************************)
(* The kill loop of runKill on Windows: killOne for one target after the   *)
(* other, with the controllers of PinWindows and the escalation of         *)
(* Terminate, inside consoleOutputWorkaround, which holds the output back  *)
(* because Graceful makes the console handles of portpin stale.            *)
(***************************************************************************)
EXTENDS PinWindows

CONSTANTS
    Options,   \* of Terminate
    Homes,     \* the consoles portpin may be started in, 0 for none
    Streams    \* what stdout and stderr may be

ASSUME HomesAssumption ==
    /\ Homes \subseteq Nat
    /\ Streams \subseteq [out : {"console", "pipe"}, err : {"console", "pipe"}]

VARIABLES
    opts, stage, polls, spent, budget, seen, asked, res,   \* of Terminate
    pc,        \* where the loop stands
    target,    \* the process killOne is at, in 1..MaxPid; 0 before the first
    std,       \* what stdout and stderr are: "console" or "pipe"
    home,      \* the console portpin was started in, its parent's, or 0
    guard,     \* the guard: "off", "active" or "finished"
    restored,  \* what RestoreConsole returned: "none" before, "ok" or "failed"
    lines      \* target -> where the line of its outcome is

T == INSTANCE Terminate

runVars  == <<opts, stage, polls, spent, budget, seen, asked, res>>
outVars  == <<std, home, guard, restored, lines>>
progVars == <<pc, target>>
vars == <<osVars, pinVars, runVars, progVars, outVars>>

TypeOK ==
    /\ PinTypeOK
    /\ T!TypeOK
    /\ pc \in {"begin", "next", "pin", "run", "finish", "done"}
    /\ target \in 0..MaxPid
    /\ std \in Streams
    /\ home \in Homes
    /\ guard \in {"off", "active", "finished"}
    /\ restored \in {"none", "ok", "failed"}
    /\ lines \in [Pid -> {"none", "out", "err", "shown", "misplaced", "lost"}]

(* A program with a console handle was started in a console. *)
Init ==
    /\ PinInit
    /\ T!Init
    /\ pc = "begin"
    /\ target = 0
    /\ std \in Streams
    /\ home \in Homes
    /\ ("console" \in {std.out, std.err} => home # 0)
    /\ att = home
    /\ guard = "off"
    /\ restored = "none"
    /\ lines = [p \in Pid |-> "none"]

-----------------------------------------------------------------------------

(* beginConsoleOutputWorkaround: isConsole(os.Stdout). *)
OnConsole == std.out = "console"

(* Both pipes, or none. *)
BeginGuard ==
    /\ pc = "begin"
    /\ \/ OnConsole /\ guard' = "active"
       \/ (~OnConsole \/ "other" \in Refusals) /\ guard' = "off"
    /\ pc' = "next"
    /\ UNCHANGED <<osVars, pinVars, runVars, target, std, home, restored, lines>>

RetryGone ==   \* mutant: a target that was gone is tried again
    /\ pc = "next"
    /\ \/ target > 0 /\ wctl[target].err = "ProcessGone" /\ pc' = "pin" /\ UNCHANGED target
       \/ target < MaxPid /\ target' = target + 1 /\ pc' = "pin"
       \/ target = MaxPid /\ pc' = "finish" /\ UNCHANGED target
    /\ UNCHANGED <<osVars, pinVars, runVars, outVars>>

(* runKill's loop: the next target, or the report and the deferred finish. *)
NextTarget ==
    /\ pc = "next"
    /\ \/ target < MaxPid /\ target' = target + 1 /\ pc' = "pin"
       \/ target = MaxPid /\ pc' = "finish" /\ UNCHANGED target
    /\ UNCHANGED <<osVars, pinVars, runVars, outVars>>

(* printOutcome writes to stdout or stderr, or into their buffers.  A write  *)
(* through the handle of a console that was left is lost.                    *)
PrintOutcome(p, o) ==
    LET stream == IF o \in {"released", "zombie"} THEN "out" ELSE "err" IN
    lines' = [lines EXCEPT ![p] =
        IF guard = "active" THEN stream
        ELSE IF std[stream] = "console" /\ detached THEN "lost" ELSE "shown"]

(* pinFailure *)
PinFailure(e) ==
    CASE e = "ProcessGone"     -> "released"
      [] e = "IdentityChanged" -> "identity-changed"
      [] e = "Permission"      -> "permission-denied"
      [] OTHER                 -> "error"

(* killOne: pinProcess. *)
PinTarget ==
    /\ pc = "pin"
    /\ Pin(target)
    /\ \/ /\ wctl'[target].step = "pinned"
          /\ pc' = "run" /\ UNCHANGED lines
       \/ /\ wctl'[target].step = "failed"
          /\ PrintOutcome(target, PinFailure(wctl'[target].err))
          /\ pc' = "next"
    /\ UNCHANGED <<osVars, runVars, target, std, home, guard, restored>>

Running == pc = "run" /\ gstep = "out"

(* The sockets of a process that has exited are closed. *)
Probe(r) ==
    /\ Running
    /\ r = "held" => Alive(target)
    /\ r = "err" => "other" \in Refusals
    /\ T!FirstProbe(r) \/ T!Poll(r) \/ T!PollHard(r)
    /\ UNCHANGED <<osVars, pinVars, progVars, outVars>>

(* Run calls Graceful, which verifies first and returns if it cannot. *)
CallGraceful ==
    /\ Running
    /\ stage = "graceful"
    /\ \E e \in VerifyResults :
          \/ e = "nil" /\ BeginGraceful(target) /\ UNCHANGED runVars
          \/ e # "nil" /\ T!Graceful(e) /\ UNCHANGED pinVars
    /\ UNCHANGED <<osVars, progVars, outVars>>

InGraceful ==
    /\ GracefulFrees \/ Attach(target) \/ InstallHandler \/ Raise(target) \/ Sleep
       \/ GracefulLeaves
    /\ UNCHANGED <<osVars, runVars, progVars, outVars>>

GracefulReturns ==
    /\ EndGraceful
    /\ T!Graceful(gret)
    /\ UNCHANGED <<osVars, progVars, outVars>>

CallHard ==
    /\ Running
    /\ \E e \in Errors : Hard(target, e) /\ T!Hard(e)
    /\ UNCHANGED <<osVars, progVars, outVars>>

Evaluate ==
    /\ Running
    /\ \/ T!CheckReleased(Lifecycle(target))
       \/ T!CheckHeld(Lifecycle(target))
       \/ T!HardExpired
    /\ UNCHANGED <<osVars, pinVars, progVars, outVars>>

(* The next Run starts from the beginning. *)
FreshRun ==
    /\ stage' = "probe" /\ polls' = 0 /\ spent' = 0 /\ budget' = opts.Timeout
    /\ seen' = "unknown" /\ asked' = FALSE
    /\ res' = [outcome |-> "none", gracefulSent |-> FALSE, usedHardKill |-> FALSE]
    /\ UNCHANGED opts

(* killOne returns, closing the controller, and runKill prints. *)
EndTarget ==
    /\ Running
    /\ stage = "done"
    /\ Close(target)
    /\ PrintOutcome(target, res.outcome)
    /\ FreshRun
    /\ pc' = "next"
    /\ UNCHANGED <<osVars, target, std, home, guard, restored>>

Flushed(stream) ==   \* mutant: the restored console is not written to
    IF std[stream] = "console" /\ detached THEN "lost" ELSE "shown"

(* finish: both buffers go to the console that was restored, whatever the    *)
(* streams are, and to the streams without one.                              *)
Replayed(stream) ==
    IF restored' = "ok"
    THEN IF att' = home /\ std[stream] = "console" THEN "shown" ELSE "misplaced"
    ELSE IF std[stream] = "console" /\ detached THEN "lost" ELSE "shown"

(* finish, with the RestoreConsole that it needs after a detachment.         *)
FinishGuard ==
    /\ pc = "finish"
    /\ IF guard = "active"
       THEN /\ \/ ~detached /\ UNCHANGED <<consoleVars, restored>>
               \/ /\ detached /\ restored' \in {"ok", "failed"}
                  /\ RestoreConsole(home, restored')
            /\ lines' = [p \in Pid |-> IF lines[p] \in {"out", "err"} THEN Replayed(lines[p])
                                       ELSE lines[p]]
            /\ guard' = "finished"
       ELSE UNCHANGED <<consoleVars, restored, lines, guard>>
    /\ pc' = "done"
    /\ UNCHANGED <<osVars, wctl, gstep, gret, delivered, stuck, runVars, target, std, home>>

Portpin ==
    /\ ~dead
    /\ \/ BeginGuard \/ NextTarget \/ PinTarget
       \/ \E r \in T!Probes : Probe(r)
       \/ CallGraceful \/ InGraceful \/ GracefulReturns \/ CallHard \/ Evaluate
       \/ EndTarget \/ FinishGuard

(* The system's thread that dispatches control events, and the other processes. *)
Events ==
    /\ Dispatch
    /\ UNCHANGED <<osVars, wctl, gstep, gret, delivered, stuck, runVars, progVars, outVars>>

(* Where portpin looks at its own state only.  Such a step commutes with     *)
(* those of the other processes, which wait for it.                          *)
Local ==
    \/ pc \in {"begin", "next"}
    \/ pc = "run" /\ gstep \in {"free", "handle", "leave", "unhandle"}
    \/ Running /\ stage = "done"

Others ==
    /\ pc # "done" /\ ~dead /\ ~Local
    /\ OtherProcesses
    /\ UNCHANGED <<pinVars, runVars, progVars, outVars>>

Ended == (dead \/ pc = "done") /\ UNCHANGED vars

Next == Portpin \/ Events \/ Others \/ Ended

(* The scheduler runs portpin and the thread that dispatches its events. *)
Spec == Init /\ [][Next]_vars /\ WF_vars(Portpin) /\ WF_vars(Events)

-----------------------------------------------------------------------------

(* portpin outlives the Ctrl-Break it raises, however many targets it stops  *)
(* and wherever a Graceful fails: the handler is in place when the event is  *)
(* dispatched (pin_windows.go:252-269).                                      *)
SurvivesOwnBreak == ~dead

(* Out of Graceful portpin is attached to no console of a target and claims  *)
(* no Ctrl-C of its user, whichever of its calls failed, except for what a   *)
(* deferred call was refused: Graceful discards those errors, and a handler  *)
(* it could not remove stays (pin_windows.go:238-245).                       *)
ConsoleLetGo ==
    gstep = "out" => /\ handler > 0 => "handler" \in stuck
                     /\ att \in {0, home} \/ "console" \in stuck

(* When the loop is over every process handle is closed, whatever failed.    *)
HandlesClosed == pc = "done" => \A p \in Pid : wctl[p].handle = 0

(* With stdout on a console no outcome is lost: it is not written through a  *)
(* handle that Graceful made stale, unless there was no pipe to hold it back *)
(* or no console to go back to.  With stderr on the console as well every    *)
(* outcome is on portpin's own, unless Graceful could not leave a target's   *)
(* (main.go:238-247, 328-367; src/README.md:277-281).                        *)
OutcomeShown ==
    pc = "done" /\ guard = "finished" /\ restored # "failed" =>
        /\ \A p \in Pid : lines[p] # "lost"
        /\ std.err = "console" /\ "console" \notin stuck =>
               \A p \in Pid : lines[p] = "shown"

(* A stop reaches a process other than the target as a Ctrl-Break only, and  *)
(* only in the console of the target: the event is for a whole console, so   *)
(* portpin must be in no other when it raises it (pin_windows.go:221-260).   *)
BreakConfined ==
    [][\A d \in delivered' \ delivered : d.pid # target =>
           d.sig = "BREAK" /\ procs[d.pid].console = procs[target].console]_vars

(* The stops that reached the process they were meant for; the others that   *)
(* share its console get the Ctrl-Break of no controller of their own.       *)
Aimed ==
    {[pid |-> d.pid, start |-> d.start, sig |-> d.sig] :
        d \in {e \in delivered : e.pid = e.by}}

H == INSTANCE Hold WITH
    Pids   <- Pid,
    Starts <- 0..(MaxPid + MaxStart),
    leaky  <- FALSE,
    known  <- [p \in Pid |-> wctl[p].meta],
    held   <- [p \in Pid |-> IF wctl[p].step \in {"pinned", "closed"} THEN wctl[p].meta
                             ELSE 0],
    delivered <- Aimed

(* The controllers of Windows keep the promise of Hold, and never miss:      *)
(* whoever has the number when Pin opens it, the process discovery named is  *)
(* pinned, and what reaches the target's number reaches that process         *)
(* (pin_windows.go:93-99, 273-289).  Who else hears a Ctrl-Break is          *)
(* BreakConfined's.                                                          *)
KeepsHold == H!Spec

(* Whatever the other processes do, portpin ends. *)
Terminates == <>(pc = "done")

-----------------------------------------------------------------------------

(* pin.go:21-22: ErrPermission means that policy or missing privileges       *)
(* blocked the operation.  Where nothing is refused, no outcome says so.     *)
DeniedByPolicy ==
    res.outcome = "permission-denied" => "Permission" \in Refusals

=============================================================================
