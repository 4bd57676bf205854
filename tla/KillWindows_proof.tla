-------------------------- MODULE KillWindows_proof --------------------------
(***************************************************************************)
(* Theorems about KillWindows, for every number of targets and processes,  *)
(* every assignment of consoles and whatever errors the system returns:    *)
(* the controllers of Windows keep the promise of Hold, a stop is heard in *)
(* the console of its target only, the loop closes its handles and lets go *)
(* of the consoles, portpin outlives its own Ctrl-Break, and no outcome is *)
(* lost.                                                                   *)
(***************************************************************************)
EXTENDS KillWindows, TLAPS

AllStarts == 0..(MaxPid + MaxStart)

Process == [start : AllStarts, state : {"none", "alive", "exited"}, console : Nat]

Controller ==
    [step : {"found", "pinned", "failed", "closed"}, meta : AllStarts,
     handle : AllStarts, err : Errors]

Typed ==
    /\ procs \in [Pid -> Process]
    /\ nextStart \in 1..(MaxPid + MaxStart + 1)
    /\ wctl \in [Pid -> Controller]
    /\ pc \in {"begin", "next", "pin", "run", "finish", "done"}
    /\ target \in 0..MaxPid
    /\ gstep \in GracefulSteps

(***************************************************************************)
(* The targets before the current one are done with, those after it are as *)
(* discovery left them, and only the current one's controller is in use.   *)
(***************************************************************************)
Turn(p) ==
    IF p < target \/ (p = target /\ pc \in {"next", "finish", "done"})
    THEN wctl[p].step \in {"failed", "closed"}
    ELSE wctl[p].step = IF p = target /\ pc = "run" THEN "pinned" ELSE "found"

Turns ==
    /\ \A p \in Pid : Turn(p)
    /\ pc = "begin" => target = 0
    /\ pc \in {"pin", "run"} => target \in Pid
    /\ pc \in {"finish", "done"} => target = MaxPid
    /\ gstep # "out" => pc = "run"

(***************************************************************************)
(* The handle keeps the number: a pinned controller is for the process     *)
(* that has it, and what its number received went to a process that was    *)
(* pinned.                                                                 *)
(***************************************************************************)
Kept(p) ==
    /\ procs[p].state # "none" => procs[p].start > 0
    /\ IF wctl[p].step = "pinned"
       THEN /\ procs[p].state # "none"
            /\ wctl[p].meta = procs[p].start
            /\ wctl[p].handle = procs[p].start
       ELSE wctl[p].handle = 0

Faithful ==
    \A d \in delivered : d.pid = d.by =>
        /\ d.pid \in Pid
        /\ wctl[d.pid].step \in {"pinned", "closed"}
        /\ d.start = wctl[d.pid].meta

WinInv ==
    /\ Typed
    /\ Turns
    /\ \A p \in Pid : Kept(p)
    /\ Faithful

-----------------------------------------------------------------------------

LEMMA PidsAreStarts == Pid \subseteq AllStarts /\ 0 \in AllStarts
<1>1. MaxPid \in Nat /\ MaxStart \in Nat
    BY WindowsAssumption
<1> QED BY ONLY <1>1 DEF Pid, AllStarts

LEMMA WinInvInit == Init => WinInv
<1> SUFFICES ASSUME Init
             PROVE  WinInv
    OBVIOUS
<1> USE WindowsAssumption DEF Init, PinInit
<1>1. procs \in [Pid -> Process] /\ \A p \in Pid : procs[p].start = p
  <2>1. PICK con \in [Pid -> UNION {Consoles[p] : p \in Pid}] :
            /\ \A p \in Pid : con[p] \in Consoles[p]
            /\ procs = [p \in Pid |-> [start |-> p, state |-> "alive", console |-> con[p]]]
      OBVIOUS
  <2>2. ASSUME NEW p \in Pid PROVE procs[p] \in Process /\ procs[p].start = p
    <3>1. procs[p] = [start |-> p, state |-> "alive", console |-> con[p]]
        BY <2>1
    <3>2. p \in AllStarts
        BY PidsAreStarts
    <3>3. con[p] \in Consoles[p] /\ Consoles[p] \subseteq Nat
        BY <2>1 DEF Pid
    <3> QED BY ONLY <3>1, <3>2, <3>3 DEF Process
  <2> QED BY <2>1, <2>2
<1>2. wctl \in [Pid -> Controller] /\ \A p \in Pid : wctl[p].step = "found" /\ wctl[p].handle = 0
  <2>1. PICK read \in {{}, Pid} :
            wctl = [p \in Pid |-> [Unused EXCEPT !.meta = IF p \in read THEN p ELSE 0]]
      OBVIOUS
  <2>2. \A p \in Pid : wctl[p] = [step |-> "found", meta |-> IF p \in read THEN p ELSE 0,
                                 handle |-> 0, err |-> "nil"]
      BY <2>1 DEF Unused
  <2>3. ASSUME NEW p \in Pid PROVE wctl[p] \in Controller
    <3>1. (IF p \in read THEN p ELSE 0) \in AllStarts /\ 0 \in AllStarts
        BY PidsAreStarts
    <3>2. wctl[p] = [step |-> "found", meta |-> IF p \in read THEN p ELSE 0,
                     handle |-> 0, err |-> "nil"]
        BY <2>2
    <3> QED BY ONLY <3>1, <3>2 DEF Controller, Errors
  <2>4. wctl = [p \in Pid |-> wctl[p]]
      BY <2>1
  <2>5. ASSUME NEW p \in Pid PROVE wctl[p].step = "found" /\ wctl[p].handle = 0
    <3>1. wctl[p] = [step |-> "found", meta |-> IF p \in read THEN p ELSE 0,
                     handle |-> 0, err |-> "nil"]
        BY <2>2
    <3> QED BY ONLY <3>1
  <2> QED BY ONLY <2>3, <2>4, <2>5
<1>3. Typed
    BY <1>1, <1>2 DEF Typed, GracefulSteps
<1>4. Turns
    BY <1>2 DEF Turns, Turn, Pid
<1> QED BY <1>1, <1>2, <1>3, <1>4 DEF WinInv, Kept, Faithful, Pid

-----------------------------------------------------------------------------

(***************************************************************************)
(* The steps, by what they change of the processes and the controllers.    *)
(***************************************************************************)
LEMMA OthersKeep ==
    ASSUME WinInv, OtherProcesses, UNCHANGED <<pinVars, progVars>>
    PROVE  WinInv'
<1> USE WindowsAssumption DEF WinInv, pinVars, progVars
<1>1. PICK p \in Pid : Create(p) \/ ExitProcess(p) \/ FreeNumber(p)
    BY DEF OtherProcesses
<1>2. CASE Create(p)
  <2>1. PICK c \in Consoles[p] :
            procs' = [procs EXCEPT ![p] = [start |-> nextStart, state |-> "alive", console |-> c]]
      BY <1>2 DEF Create
  <2>2. c \in Nat /\ nextStart' = nextStart + 1 /\ nextStart \in 1..MaxStart
      BY <1>2, <2>1 DEF Create, Pid, Typed
  <2>3. \A q \in Pid : Kept(q)'
      BY <1>2, <2>1, <2>2 DEF Create, Kept, Typed
  <2>4. procs' \in [Pid -> Process]
      BY <2>1, <2>2 DEF Typed, Process, AllStarts
  <2>6. Typed'
      BY <2>2, <2>4 DEF Typed
  <2>5. Turns' /\ Faithful'
      BY DEF Turns, Turn, Faithful
  <2> QED BY <2>3, <2>5, <2>6
<1>3. CASE ExitProcess(p) \/ FreeNumber(p)
  <2>1. UNCHANGED nextStart /\ procs' \in [Pid -> Process]
      BY <1>3 DEF ExitProcess, FreeNumber, NoProcess, Typed, Process, AllStarts
  <2>2. \A q \in Pid : Kept(q)'
      BY <1>3 DEF ExitProcess, Alive, FreeNumber, NoProcess, Kept, Typed, Process, Controller
  <2>3. Typed' /\ Turns' /\ Faithful'
      BY <2>1 DEF Typed, Turns, Turn, Faithful
  <2> QED BY <2>2, <2>3
<1> QED BY <1>1, <1>2, <1>3

(* Pin pins the process that has the number, or fails. *)
LEMMA PinChanges ==
    ASSUME WinInv, NEW p \in Pid, Pin(p), wctl[p].step = "found"
    PROVE  /\ UNCHANGED <<gstep, delivered>>
           /\ wctl' \in [Pid -> Controller]
           /\ \A q \in Pid \ {p} : wctl'[q] = wctl[q]
           /\ \/ /\ wctl'[p].step = "failed" /\ wctl'[p].meta = wctl[p].meta
                 /\ wctl'[p].handle = wctl[p].handle
              \/ /\ wctl'[p].step = "pinned" /\ procs[p].state # "none"
                 /\ wctl[p].meta \in {0, procs[p].start}
                 /\ wctl'[p].meta = procs[p].start /\ wctl'[p].handle = procs[p].start
<1> USE WindowsAssumption DEF WinInv, Typed
<1>1. ASSUME NEW e \in Errors, PinFails(p, e)
      PROVE  /\ wctl' \in [Pid -> Controller]
             /\ \A q \in Pid \ {p} : wctl'[q] = wctl[q]
             /\ wctl'[p].step = "failed" /\ wctl'[p].meta = wctl[p].meta
             /\ wctl'[p].handle = wctl[p].handle
    BY <1>1 DEF PinFails, Controller
<1>2. CASE \E e \in Errors : PinFails(p, e)
    BY <1>1, <1>2 DEF Pin
<1>3. CASE /\ procs[p].state # "none" /\ Discovered(p)
           /\ wctl' = [wctl EXCEPT ![p] = [step |-> "pinned", meta |-> procs[p].start,
                                           handle |-> Handle(p), err |-> "nil"]]
    BY <1>3 DEF Pin, Discovered, Handle, Controller, Process, Errors
<1> QED BY <1>2, <1>3 DEF Pin, Mismatch, Errors

(* A stop of the target's controller, whoever hears it, or nobody is reached. *)
LEMMA SignalKeeps ==
    ASSUME WinInv, NEW ps \in SUBSET Pid, NEW sig \in Signals,
           Reaches(ps, target, sig) \/ UNCHANGED delivered,
           pc = "run", UNCHANGED <<osVars, wctl, progVars>>, gstep' \in GracefulSteps
    PROVE  WinInv'
<1> USE DEF WinInv, Typed, osVars, progVars
<1>1. target \in Pid /\ wctl[target].step = "pinned" /\ wctl[target].meta = procs[target].start
    BY DEF Turns, Turn, Kept
<1>2. Faithful'
    BY <1>1 DEF Faithful, Reaches
<1> QED BY <1>2 DEF Turns, Turn, Kept

LEMMA WinInvStep == WinInv /\ [Next]_vars => WinInv'
<1> USE DEF WinInv
<1> SUFFICES ASSUME WinInv, [Next]_vars
             PROVE  WinInv'
    OBVIOUS
<1>1. CASE BeginGuard
    BY <1>1 DEF BeginGuard, osVars, pinVars, Typed, Turns, Turn, Kept, Faithful, Pid
<1>2. CASE NextTarget
    BY <1>2, WindowsAssumption
    DEF NextTarget, osVars, pinVars, Typed, Turns, Turn, Kept, Faithful, Pid
<1>3. CASE PinTarget
  <2>1. target \in Pid /\ pc = "pin" /\ Pin(target) /\ wctl[target].step = "found"
      BY <1>3 DEF PinTarget, Turns, Turn, Pid
  <2>2. Typed'
    <3>1. wctl' \in [Pid -> Controller] /\ UNCHANGED gstep
        BY <2>1, PinChanges
    <3>2. UNCHANGED <<procs, nextStart, target>> /\ pc' \in {"run", "next"}
        BY <1>3 DEF PinTarget, osVars
    <3> QED BY <3>1, <3>2 DEF Typed
  <2>3. Turns'
      BY <1>3, <2>1, PinChanges DEF PinTarget, Typed, Turns, Turn, Pid
  <2>4. \A p \in Pid : Kept(p)'
      BY <1>3, <2>1, PinChanges DEF PinTarget, osVars, Kept
  <2>5. Faithful'
      BY <1>3, <2>1, PinChanges DEF Faithful
  <2> QED BY <2>2, <2>3, <2>4, <2>5
<1>4. ASSUME NEW r \in T!Probes, Probe(r) PROVE WinInv'
    BY <1>4 DEF Probe, osVars, pinVars, progVars, Typed, Turns, Turn, Kept, Faithful
<1>5. CASE CallGraceful \/ InGraceful \/ GracefulReturns \/ CallHard
  <2>1. /\ pc = "run" /\ UNCHANGED <<osVars, wctl, progVars>> /\ gstep' \in GracefulSteps
        /\ \/ Reaches(Sharers, target, "BREAK") \/ Reaches({target}, target, "KILL")
           \/ UNCHANGED delivered
      BY <1>5 DEF CallGraceful, InGraceful, GracefulReturns, CallHard, Running, BeginGraceful,
         GracefulFrees, FreeConsole, Attach, InstallHandler, Raise, Sleep, GracefulLeaves,
         LeaveConsole, EndGraceful, GracefulFails, Hard, pinVars, Turns, Typed, GracefulSteps
  <2>2. target \in Pid /\ Sharers \in SUBSET Pid /\ {target} \in SUBSET Pid
      BY <2>1 DEF Turns, Sharers
  <2> QED BY <2>1, <2>2, SignalKeeps DEF Signals
<1>6. CASE Evaluate
    BY <1>6 DEF Evaluate, osVars, pinVars, progVars, Typed, Turns, Turn, Kept, Faithful
<1>7. CASE EndTarget
  <2>1. /\ target \in Pid /\ pc = "run" /\ gstep = "out" /\ pc' = "next"
        /\ UNCHANGED <<procs, nextStart, target, gstep, delivered>>
        /\ wctl' = [wctl EXCEPT ![target].step = "closed", ![target].handle = 0]
      BY <1>7 DEF EndTarget, Running, Close, osVars, Turns
  <2>2. /\ wctl' \in [Pid -> Controller]
        /\ \A p \in Pid \ {target} : wctl'[p] = wctl[p]
        /\ wctl'[target].step = "closed" /\ wctl'[target].handle = 0
        /\ wctl'[target].meta = wctl[target].meta
    <3>1. wctl \in [Pid -> Controller] /\ 0 \in AllStarts
        BY WindowsAssumption DEF Typed, AllStarts
    <3> QED BY <2>1, <3>1 DEF Controller
  <2>3. Typed' /\ Faithful'
      BY <2>1, <2>2 DEF Typed, Faithful
  <2>4. Turns'
      BY <2>1, <2>2 DEF Typed, Turns, Turn, Pid
  <2>5. \A p \in Pid : Kept(p)'
      BY <2>1, <2>2 DEF Kept
  <2> QED BY <2>3, <2>4, <2>5
<1>8. CASE FinishGuard
    BY <1>8 DEF FinishGuard, osVars, Typed, Turns, Turn, Kept, Faithful, Pid
<1>9. CASE Events
    BY <1>9 DEF Events, osVars, progVars, Typed, Turns, Turn, Kept, Faithful
<1>10. CASE Others
    BY <1>10, OthersKeep DEF Others
<1>11. CASE UNCHANGED vars
    BY <1>11 DEF vars, osVars, pinVars, progVars, Typed, Turns, Turn, Kept, Faithful
<1> QED BY <1>1, <1>2, <1>3, <1>4, <1>5, <1>6, <1>7, <1>8, <1>9, <1>10, <1>11
        DEF Next, Portpin, Ended

(* In every state of the loop the targets are where their turn put them, and *)
(* the handle of the current one is of the process that discovery read.      *)
THEOREM WinInvariant == Spec => []WinInv
BY WinInvInit, WinInvStep, PTL DEF Spec

(***************************************************************************)
(* When the loop is over every process handle is closed, whatever failed.  *)
(***************************************************************************)
THEOREM HandlesAreClosed == Spec => []HandlesClosed
<1>1. WinInv => HandlesClosed
    BY DEF WinInv, Typed, Turns, Turn, Kept, HandlesClosed, Pid
<1> QED BY <1>1, WinInvariant, PTL

-----------------------------------------------------------------------------

(***************************************************************************)
(* Graceful, by its position: what it is attached to and whether a deferred*)
(* call of it failed to leave it; and the handler, which is in place from  *)
(* before the event is queued until it is dispatched.                      *)
(***************************************************************************)
Attached ==
    /\ handler \in Nat
    /\ gstep = "out" => att \in {0, home} \/ "console" \in stuck
    /\ gstep = "unhandle" => att = 0 \/ "console" \in stuck
    /\ "handler" \notin stuck =>
           handler \in IF gstep \in {"out", "free", "attach", "handle"} THEN {0} ELSE {0, 1}

Guarded ==
    /\ ~dead
    /\ handler \in Nat
    /\ pending => gstep = "sleep"
    /\ gstep \in {"raise", "sleep"} => handler > 0

LEMMA AttachedStep == WinInv /\ Attached /\ [Next]_vars => Attached'
<1> SUFFICES ASSUME WinInv, Attached, [Next]_vars
             PROVE  Attached'
    OBVIOUS
<1> USE DEF Attached, consoleVars, pinVars, outVars
<1>1. CASE BeginGuard \/ NextTarget \/ CallHard \/ Evaluate \/ Others \/ UNCHANGED vars
    BY <1>1 DEF BeginGuard, NextTarget, CallHard, Hard, Evaluate, Others, vars
<1>2. ASSUME NEW r \in T!Probes, Probe(r) PROVE Attached'
    BY <1>2 DEF Probe
<1>3. CASE PinTarget
    BY <1>3 DEF PinTarget, Pin
<1>4. CASE CallGraceful
    BY <1>4 DEF CallGraceful, BeginGraceful
<1>5. CASE InGraceful
    BY <1>5 DEF InGraceful, GracefulFrees, FreeConsole, Attach, InstallHandler, Raise, Sleep,
       GracefulLeaves, LeaveConsole, GracefulFails
<1>6. CASE GracefulReturns
    BY <1>6 DEF GracefulReturns, EndGraceful, RemoveHandler
<1>7. CASE EndTarget
    BY <1>7 DEF EndTarget, Close
<1>8. CASE FinishGuard
  <2>1. gstep = "out"
      BY <1>8 DEF FinishGuard, WinInv, Turns
  <2> QED BY <1>8, <2>1 DEF FinishGuard, RestoreConsole
<1>9. CASE Events
    BY <1>9 DEF Events, Dispatch
<1> QED BY <1>1, <1>2, <1>3, <1>4, <1>5, <1>6, <1>7, <1>8, <1>9 DEF Next, Portpin, Ended

LEMMA AttachedInvariant == Spec => []Attached
<1>1. Init => Attached
    BY DEF Init, PinInit, Attached
<1> QED BY <1>1, AttachedStep, WinInvariant, PTL DEF Spec

(***************************************************************************)
(* Out of Graceful portpin is attached to no console of a target and       *)
(* claims no Ctrl-C of its user, whichever of its calls failed, except for *)
(* what a deferred call was refused.                                       *)
(***************************************************************************)
THEOREM ConsoleIsLetGo == Spec => []ConsoleLetGo
<1>1. Attached => ConsoleLetGo
    BY DEF Attached, ConsoleLetGo
<1> QED BY <1>1, AttachedInvariant, PTL

LEMMA GuardedStep ==
    ASSUME Prompt
    PROVE  WinInv /\ Guarded /\ [Next]_vars => Guarded'
<1> SUFFICES ASSUME WinInv, Guarded, [Next]_vars
             PROVE  Guarded'
    OBVIOUS
<1> USE DEF Guarded, consoleVars, pinVars, outVars
<1>1. CASE BeginGuard \/ NextTarget \/ CallHard \/ Evaluate \/ Others \/ UNCHANGED vars
    BY <1>1 DEF BeginGuard, NextTarget, CallHard, Hard, Evaluate, Others, vars
<1>2. ASSUME NEW r \in T!Probes, Probe(r) PROVE Guarded'
    BY <1>2 DEF Probe
<1>3. CASE PinTarget
    BY <1>3 DEF PinTarget, Pin
<1>4. CASE CallGraceful
    BY <1>4 DEF CallGraceful, BeginGraceful
<1>5. CASE InGraceful
    BY <1>5 DEF InGraceful, GracefulFrees, FreeConsole, Attach, InstallHandler, Raise, Sleep,
       Slept, GracefulLeaves, LeaveConsole, GracefulFails
<1>6. CASE GracefulReturns
    BY <1>6 DEF GracefulReturns, EndGraceful, RemoveHandler
<1>7. CASE EndTarget
    BY <1>7 DEF EndTarget, Close
<1>8. CASE FinishGuard
    BY <1>8 DEF FinishGuard, RestoreConsole
<1>9. CASE Events
    BY <1>9 DEF Events, Dispatch, Claimed
<1> QED BY <1>1, <1>2, <1>3, <1>4, <1>5, <1>6, <1>7, <1>8, <1>9 DEF Next, Portpin, Ended

(***************************************************************************)
(* Where an event is dispatched within the 300 ms that Graceful sleeps,    *)
(* portpin outlives the Ctrl-Break it raises, however many targets it      *)
(* stops and wherever a Graceful fails.                                    *)
(***************************************************************************)
THEOREM OwnBreakSurvived ==
    ASSUME Prompt
    PROVE  Spec => []SurvivesOwnBreak
<1>1. Init => Guarded
    BY DEF Init, PinInit, Guarded
<1>2. Guarded => SurvivesOwnBreak
    BY DEF Guarded, SurvivesOwnBreak
<1>3. WinInv /\ Guarded /\ [Next]_vars => Guarded'
    BY GuardedStep
<1> QED BY <1>1, <1>2, <1>3, WinInvariant, PTL DEF Spec

-----------------------------------------------------------------------------

(***************************************************************************)
(* From AttachConsole to the broadcast portpin is in the console that the  *)
(* target was created in: the handle keeps the target's number, so its     *)
(* entry stays.                                                            *)
(***************************************************************************)
Inside == gstep \in {"handle", "raise"} => att = procs[target].console

LEMMA InsideStep == WinInv /\ Inside /\ [Next]_vars => Inside'
<1> SUFFICES ASSUME WinInv, Inside, [Next]_vars
             PROVE  Inside'
    OBVIOUS
<1> USE DEF Inside, osVars, consoleVars, pinVars, progVars
<1>1. CASE BeginGuard \/ NextTarget \/ PinTarget \/ EndTarget \/ FinishGuard
  <2>1. gstep = "out" /\ UNCHANGED gstep
      BY <1>1 DEF BeginGuard, NextTarget, PinTarget, Pin, EndTarget, Close, Running, FinishGuard,
         WinInv, Turns
  <2> QED BY <2>1
<1>2. ASSUME NEW r \in T!Probes, Probe(r) PROVE Inside'
    BY <1>2 DEF Probe
<1>3. CASE CallGraceful \/ CallHard \/ Evaluate \/ UNCHANGED vars
    BY <1>3 DEF CallGraceful, BeginGraceful, CallHard, Hard, Evaluate, vars
<1>4. CASE InGraceful
    BY <1>4 DEF InGraceful, GracefulFrees, Attach, Attachable, JoinConsole, InstallHandler, Raise,
       Sleep, GracefulLeaves, GracefulFails
<1>5. CASE GracefulReturns
    BY <1>5 DEF GracefulReturns, EndGraceful
<1>6. CASE Events
    BY <1>6 DEF Events, Dispatch
<1>7. CASE Others
  <2>1. CASE gstep = "out"
      BY <1>7, <2>1 DEF Others
  <2>2. CASE gstep # "out"
    <3>1. target \in Pid /\ procs[target].state # "none" /\ wctl[target].handle # 0
        BY <2>2, WindowsAssumption DEF WinInv, Typed, Turns, Turn, Kept, Pid
    <3>2. procs'[target].console = procs[target].console
        BY <1>7, <3>1 DEF Others, OtherProcesses, Create, ExitProcess, FreeNumber, WinInv, Typed,
           Process
    <3> QED BY <1>7, <3>2 DEF Others
  <2> QED BY <2>1, <2>2
<1> QED BY <1>1, <1>2, <1>3, <1>4, <1>5, <1>6, <1>7 DEF Next, Portpin, Ended

LEMMA ConfinedStep ==
    ASSUME WinInv, Inside, [Next]_vars, NEW d \in delivered' \ delivered, d.pid # target
    PROVE  d.sig = "BREAK" /\ procs[d.pid].console = procs[target].console
<1>1. CASE Raise(target)
    BY <1>1 DEF Inside, Raise, Reaches, Sharers
<1>2. CASE CallHard
    BY <1>2 DEF CallHard, Hard, Reaches
<1>3. ASSUME ~Raise(target), ~CallHard PROVE UNCHANGED delivered
  <2>1. ASSUME NEW r \in T!Probes, Probe(r) PROVE UNCHANGED delivered
      BY <2>1 DEF Probe, pinVars
  <2> QED BY <1>3, <2>1
      DEF Next, Portpin, Ended, BeginGuard, NextTarget, PinTarget, Pin, CallGraceful,
          BeginGraceful, InGraceful, GracefulFrees, Attach, InstallHandler, Sleep, GracefulLeaves,
          GracefulReturns, EndGraceful, Evaluate, EndTarget, Close, FinishGuard, Events, Others,
          pinVars, vars
<1> QED BY <1>1, <1>2, <1>3

(***************************************************************************)
(* Besides its target a stop reaches only processes in the console of the  *)
(* target, and those only as a Ctrl-Break.                                 *)
(***************************************************************************)
THEOREM BreakStaysConfined == Spec => BreakConfined
<1>1. Init => Inside
    BY DEF Init, PinInit, Inside
<1>2. WinInv /\ Inside /\ [Next]_vars =>
          [\A d \in delivered' \ delivered : d.pid # target =>
              d.sig = "BREAK" /\ procs[d.pid].console = procs[target].console]_vars
    BY ConfinedStep
<1> QED BY <1>1, <1>2, InsideStep, WinInvariant, PTL DEF Spec, BreakConfined

-----------------------------------------------------------------------------

(***************************************************************************)
(* While the guard is up the outcome of every target that was done with    *)
(* waits in a buffer; when it has finished it has replayed them all.       *)
(***************************************************************************)
Outputs == [out : {"console", "pipe"}, err : {"console", "pipe"}]

Places == {"none", "out", "err", "shown", "misplaced", "lost"}

Replays ==
    /\ \A p \in Pid : lines[p] \in {"shown", "misplaced"}
    /\ std.err = "console" /\ "console" \notin stuck => \A p \in Pid : lines[p] = "shown"

Buffered ==
    /\ lines \in [Pid -> Places]
    /\ std \in Outputs
    /\ pc = "begin" => guard = "off"
    /\ guard = "finished" => pc = "done"
    /\ guard = "active" =>
           /\ pc # "done"
           /\ OnConsole
           /\ \A p \in Pid :
                  p < target \/ (p = target /\ pc \in {"next", "finish"})
                      => lines[p] \in {"out", "err"}
    /\ guard # "finished" => restored = "none"
    /\ guard = "finished" /\ restored # "failed" => Replays

LEMMA BufferedStep == WinInv /\ Attached /\ Buffered /\ [Next]_vars => Buffered'
<1> SUFFICES ASSUME WinInv, Attached, Buffered, [Next]_vars
             PROVE  Buffered'
    OBVIOUS
<1> USE DEF Buffered, Places, Outputs, OnConsole, Replays, outVars, progVars
<1>1. CASE BeginGuard
    BY <1>1, WindowsAssumption DEF BeginGuard, pinVars, WinInv, Turns, Typed, Pid
<1>2. CASE NextTarget
    BY <1>2, WindowsAssumption DEF NextTarget, pinVars, WinInv, Typed, Pid
<1>3. ASSUME PinTarget \/ EndTarget PROVE Buffered'
  <2>1. /\ pc \in {"pin", "run"} /\ target \in Pid
        /\ UNCHANGED <<std, guard, restored, target>>
      BY <1>3 DEF PinTarget, EndTarget, Running, WinInv, Turns
  <2>2. guard \notin {"finished"} /\ pc' \in {"run", "next"}
      BY <1>3, <2>1 DEF PinTarget, EndTarget
  <2>3. \/ UNCHANGED lines /\ pc = "pin" /\ pc' = "run"
        \/ \E o : PrintOutcome(target, o)
      BY <1>3 DEF PinTarget, EndTarget
  <2>4. CASE UNCHANGED lines /\ pc = "pin" /\ pc' = "run"
      BY <2>1, <2>2, <2>4 DEF WinInv, Typed, Pid
  <2>5. CASE \E o : PrintOutcome(target, o)
    <3>1. PICK l \in {"out", "err", "shown", "lost"} :
              /\ lines' = [lines EXCEPT ![target] = l]
              /\ guard = "active" => l \in {"out", "err"}
        BY <2>5 DEF PrintOutcome
    <3> QED BY <2>1, <2>2, <3>1, WindowsAssumption DEF WinInv, Typed, Pid
  <2> QED BY <2>3, <2>4, <2>5
<1>4. ASSUME UNCHANGED <<outVars, progVars>>, pc = "run" \/ UNCHANGED stuck
      PROVE  Buffered'
    BY <1>4
<1>5. CASE \E r \in T!Probes : Probe(r)
    BY <1>4, <1>5 DEF Probe, Running
<1>6. CASE CallGraceful \/ InGraceful \/ GracefulReturns \/ CallHard \/ Evaluate
  <2>1. gstep # "out" => pc = "run"
      BY DEF WinInv, Turns
  <2>2. pc = "run"
      BY <1>6, <2>1 DEF CallGraceful, InGraceful, GracefulReturns, CallHard, Evaluate, Running,
         GracefulFrees, Attach, InstallHandler, Raise, Sleep, GracefulLeaves, EndGraceful
  <2> QED BY <1>4, <1>6, <2>2
          DEF CallGraceful, InGraceful, GracefulReturns, CallHard, Evaluate
<1>7. CASE FinishGuard
  <2>1. pc = "finish" /\ pc' = "done" /\ target' = target /\ std' = std /\ target = MaxPid
      BY <1>7 DEF FinishGuard, WinInv, Turns
  <2>2. CASE guard = "active"
    <3>1. /\ guard' = "finished"
          /\ lines' = [p \in Pid |-> IF lines[p] \in {"out", "err"} THEN Replayed(lines[p])
                                     ELSE lines[p]]
        BY <1>7, <2>2 DEF FinishGuard
    <3>2. \/ ~detached /\ restored' = "none"
          \/ restored' = "failed"
          \/ restored' = "ok" /\ (att' = home \/ "console" \in stuck)
      <4>1. gstep = "out"
          BY <2>1 DEF WinInv, Turns
      <4>2. att \in {0, home} \/ "console" \in stuck
          BY <4>1 DEF Attached
      <4> QED BY <1>7, <2>2, <4>2 DEF FinishGuard, RestoreConsole
    <3>3. \A p \in Pid : lines[p] \in {"out", "err"}
        BY <2>1, <2>2, WindowsAssumption DEF Pid
    <3>4. std.out = "console" /\ UNCHANGED stuck
        BY <1>7, <2>2 DEF FinishGuard
    <3>5. \A p \in Pid : lines'[p] = Replayed(lines[p])
        BY <3>1, <3>3
    <3>6. \A p \in Pid : lines'[p] \in {"shown", "misplaced", "lost"}
        BY <3>5 DEF Replayed
    <3>7. restored' # "failed" => Replays'
        BY <2>1, <3>2, <3>3, <3>4, <3>5 DEF Replayed
    <3> QED BY <2>1, <3>1, <3>6, <3>7
  <2>3. CASE guard # "active"
      BY <1>7, <2>1, <2>3 DEF FinishGuard
  <2> QED BY <2>2, <2>3
<1>8. CASE Events \/ Others \/ UNCHANGED vars
    BY <1>4, <1>8 DEF Events, Others, pinVars, vars
<1> QED BY <1>1, <1>2, <1>3, <1>5, <1>6, <1>7, <1>8 DEF Next, Portpin, Ended

(***************************************************************************)
(* With stdout on a console no outcome is lost, unless there was no pipe   *)
(* to hold it back or no console to go back to; with stderr on it as well  *)
(* each is on portpin's own console, unless Graceful could not leave a     *)
(* target's.                                                               *)
(***************************************************************************)
THEOREM OutcomesShown == Spec => []OutcomeShown
<1>1. Init => Buffered
    BY HomesAssumption DEF Init, Buffered, Places, Outputs
<1>2. Buffered => OutcomeShown
    BY DEF Buffered, Replays, OutcomeShown
<1> QED BY <1>1, <1>2, AttachedInvariant, BufferedStep, WinInvariant, PTL DEF Spec

-----------------------------------------------------------------------------

(***************************************************************************)
(* The controllers of Windows implement Hold without a leak.               *)
(***************************************************************************)
LEMMA HoldInit == Init => H!Init
<1> SUFFICES ASSUME Init
             PROVE  H!Init
    OBVIOUS
<1>1. WinInv /\ Aimed = {}
    BY WinInvInit DEF Init, PinInit, Aimed
<1>2. \A p \in Pid : wctl[p].step = "found" /\ wctl[p].meta \in AllStarts
  <2>1. pc = "begin" /\ target = 0
      BY DEF Init
  <2> QED BY <1>1, <2>1 DEF WinInv, Typed, Turns, Turn, Pid, Controller
<1> QED BY <1>1, <1>2 DEF H!Init, AllStarts

(* A step that changes no controller's hold and reaches no target. *)
LEMMA HoldStutter ==
    ASSUME UNCHANGED Aimed,
           \A p \in Pid : /\ wctl'[p].meta = wctl[p].meta
                          /\ wctl'[p].step \in {"pinned", "closed"}
                                <=> wctl[p].step \in {"pinned", "closed"}
    PROVE  UNCHANGED H!vars
BY DEF H!vars

(* Who hears a stop besides its target is none of Hold's business. *)
LEMMA AimedAt ==
    ASSUME NEW ps \in SUBSET Pid, NEW p \in Pid, NEW sig, Reaches(ps, p, sig)
    PROVE  \/ UNCHANGED Aimed
           \/ Aimed' = Aimed \cup {[pid |-> p, start |-> procs[p].start, sig |-> sig]}
<1> DEFINE new == {[pid |-> q, start |-> procs[q].start, sig |-> sig, by |-> p] : q \in ps}
           Plain(d) == [pid |-> d.pid, start |-> d.start, sig |-> d.sig]
<1>1. delivered' = delivered \cup new
    BY DEF Reaches
<1>2. \A d \in new : d.pid = d.by => Plain(d) = [pid |-> p, start |-> procs[p].start, sig |-> sig]
    OBVIOUS
<1>3. p \in ps => \E d \in new : d.pid = d.by
  <2>1. ASSUME p \in ps
        PROVE  [pid |-> p, start |-> procs[p].start, sig |-> sig, by |-> p] \in new
      BY <2>1
  <2> HIDE DEF new
  <2> QED BY <2>1
<1>4. p \notin ps => \A d \in new : d.pid # d.by
    OBVIOUS
<1>5. Aimed = {Plain(d) : d \in {e \in delivered : e.pid = e.by}}
    BY DEF Aimed
<1>6. Aimed' = {Plain(d) : d \in {e \in delivered \cup new : e.pid = e.by}}
    BY <1>1 DEF Aimed
<1> HIDE DEF new, Plain
<1>7. CASE p \in ps
    BY <1>2, <1>3, <1>5, <1>6, <1>7
<1>8. CASE p \notin ps
    BY <1>4, <1>5, <1>6, <1>8
<1> QED BY <1>7, <1>8

LEMMA HoldSignal ==
    ASSUME WinInv, pc = "run", UNCHANGED wctl, NEW sig \in Signals, NEW ps \in SUBSET Pid,
           Reaches(ps, target, sig)
    PROVE  H!Next \/ UNCHANGED H!vars
<1>1. /\ target \in Pid /\ wctl[target].step = "pinned"
      /\ wctl[target].meta = procs[target].start /\ procs[target].start > 0
    BY WindowsAssumption DEF WinInv, Typed, Turns, Turn, Kept, Pid
<1>2. CASE UNCHANGED Aimed
    BY <1>2, HoldStutter
<1>3. CASE Aimed' = Aimed \cup {[pid |-> target, start |-> procs[target].start, sig |-> sig]}
  <2>1. \A d \in Aimed : d.pid = target => d.start = procs[target].start
      BY <1>1 DEF Aimed, WinInv, Faithful
  <2>2. H!Signal(target, sig)
      BY <1>1, <1>3, <2>1 DEF H!Signal, H!Exact, H!Deliver
  <2> QED BY <1>1, <2>2 DEF H!Next
<1> QED BY <1>1, <1>2, <1>3, AimedAt

LEMMA HoldTake ==
    ASSUME NEW p \in Pid, NEW s \in AllStarts \ {0}, UNCHANGED Aimed,
           wctl[p].step = "found", wctl[p].meta \in {0, s},
           wctl'[p].step = "pinned", wctl'[p].meta = s,
           \A q \in Pid \ {p} : wctl'[q] = wctl[q]
    PROVE  H!Next
<1>1. [q \in Pid |-> wctl'[q].meta] = [[q \in Pid |-> wctl[q].meta] EXCEPT ![p] = s]
    OBVIOUS
<1>2. [q \in Pid |-> IF wctl'[q].step \in {"pinned", "closed"} THEN wctl'[q].meta ELSE 0]
      = [[q \in Pid |-> IF wctl[q].step \in {"pinned", "closed"} THEN wctl[q].meta ELSE 0]
             EXCEPT ![p] = s]
    OBVIOUS
<1>3. H!Take(p)
    BY <1>1, <1>2 DEF H!Take, AllStarts
<1> QED BY <1>3 DEF H!Next

LEMMA HoldStep == WinInv /\ [Next]_vars => [H!Next]_(H!vars)
<1> SUFFICES ASSUME WinInv, [Next]_vars
             PROVE  H!Next \/ UNCHANGED H!vars
    OBVIOUS
<1>a. UNCHANGED delivered => UNCHANGED Aimed
    BY DEF Aimed
<1>1. ASSUME UNCHANGED <<wctl, delivered>> PROVE UNCHANGED H!vars
    BY <1>a, <1>1, HoldStutter
<1>2. CASE PinTarget
  <2>1. target \in Pid /\ Pin(target) /\ wctl[target].step = "found"
      BY <1>2, WindowsAssumption DEF PinTarget, WinInv, Typed, Turns, Turn, Pid
  <2>2. CASE wctl'[target].step = "failed"
    <3>1. wctl'[target].meta = wctl[target].meta
        BY <2>1, <2>2, PinChanges
    <3> QED BY <1>a, <2>1, <2>2, <3>1, PinChanges, HoldStutter
  <2>3. CASE wctl'[target].step # "failed"
    <3>1. /\ wctl'[target].step = "pinned" /\ wctl'[target].meta = procs[target].start
          /\ wctl[target].meta \in {0, procs[target].start} /\ procs[target].start > 0
          /\ procs[target].start \in AllStarts /\ UNCHANGED delivered
        BY <2>1, <2>3, PinChanges DEF WinInv, Kept, Typed, Process
    <3>2. \A q \in Pid \ {target} : wctl'[q] = wctl[q]
        BY <2>1, PinChanges
    <3> QED BY ONLY <1>a, <2>1, <3>1, <3>2, HoldTake
  <2> QED BY <2>2, <2>3
<1>3. CASE EndTarget
  <2>1. /\ target \in Pid /\ wctl[target].step = "pinned" /\ UNCHANGED delivered
        /\ wctl' = [wctl EXCEPT ![target].step = "closed", ![target].handle = 0]
      BY <1>3, WindowsAssumption
      DEF EndTarget, Running, Close, WinInv, Typed, Turns, Turn, Pid
  <2>2. wctl \in [Pid -> Controller]
      BY DEF WinInv, Typed
  <2>3. \A p \in Pid : /\ wctl'[p].meta = wctl[p].meta
                       /\ wctl'[p].step \in {"pinned", "closed"}
                             <=> wctl[p].step \in {"pinned", "closed"}
      BY <2>1, <2>2 DEF Controller
  <2> QED BY <1>a, <2>1, <2>3, HoldStutter
<1>4. CASE CallGraceful \/ InGraceful \/ GracefulReturns \/ CallHard
  <2>1. /\ pc = "run" /\ UNCHANGED wctl
        /\ \/ Reaches(Sharers, target, "BREAK") \/ Reaches({target}, target, "KILL")
           \/ UNCHANGED delivered
      BY <1>4 DEF CallGraceful, InGraceful, GracefulReturns, CallHard, Running, BeginGraceful,
         GracefulFrees, FreeConsole, Attach, InstallHandler, Raise, Sleep, GracefulLeaves,
         LeaveConsole, EndGraceful, GracefulFails, Hard, pinVars, WinInv, Turns
  <2>2. Sharers \in SUBSET Pid /\ {target} \in SUBSET Pid
      BY <2>1 DEF WinInv, Turns, Sharers
  <2> QED BY <1>1, <2>1, <2>2, HoldSignal DEF Signals
<1>5. CASE BeginGuard \/ NextTarget \/ Evaluate \/ FinishGuard \/ Events \/ Others
           \/ UNCHANGED vars
    BY <1>1, <1>5 DEF BeginGuard, NextTarget, Evaluate, FinishGuard, Events, Others, pinVars, vars
<1>6. CASE \E r \in T!Probes : Probe(r)
    BY <1>1, <1>6 DEF Probe, pinVars
<1> QED BY <1>2, <1>3, <1>4, <1>5, <1>6 DEF Next, Portpin, Ended

(***************************************************************************)
(* Whoever has the number when Pin opens it, the process that discovery    *)
(* named is pinned, or none, and what reaches the target's number reaches  *)
(* that process.                                                           *)
(***************************************************************************)
THEOREM WindowsKeepsHold == Spec => KeepsHold
<1>1. Spec => H!Init /\ [][H!Next]_(H!vars)
    BY HoldInit, HoldStep, WinInvariant, PTL DEF Spec
<1> QED BY <1>1, PTL DEF KeepsHold, H!Spec

=============================================================================
