----------------------------- MODULE PinWindows -----------------------------
(***************************************************************************)
(* internal/pin on Windows (pin_windows.go).  The handle that Pin opens    *)
(* reserves the number of the process.  Graceful has no signal to send: it *)
(* joins the console of the target and raises a Ctrl-Break there, which    *)
(* comes back to portpin itself on a thread of the system.  One system     *)
(* call to a step.                                                         *)
(***************************************************************************)
EXTENDS Integers

CONSTANTS
    MaxPid,     \* process numbers are 1..MaxPid
    MaxStart,   \* bound on creation times, so on the processes ever created
    Consoles,   \* the consoles: number -> those its process may be created in
    Refusals,   \* errors a system call may return for reasons of its own
    Prompt      \* a control event is dispatched within 300 ms

ASSUME WindowsAssumption ==
    /\ MaxPid \in Nat /\ MaxStart \in Nat
    /\ \A p \in 1..MaxPid : Consoles[p] \subseteq Nat   \* 0 is none
    /\ Refusals \subseteq {"Permission", "other"}
    /\ Prompt \in BOOLEAN

VARIABLES
    procs,      \* number -> the process that has it
    nextStart,  \* the creation time of the next process
    wctl,       \* number -> the controller for it
    att,        \* the console portpin is attached to, or 0
    handler,    \* how often the handler that claims Ctrl-C and Ctrl-Break is installed
    pending,    \* a Ctrl-Break for portpin is queued and not dispatched
    detached,   \* consoleDetached
    dead,       \* portpin was ended by its own Ctrl-Break
    gstep,      \* where Graceful stands, "out" of it
    gret,       \* what Graceful will return once its deferred calls are made
    delivered,  \* history: the stops that reached a process, and whose they were
    stuck       \* history: what the deferred calls failed to undo

osVars == <<procs, nextStart>>
consoleVars == <<att, handler, pending, detached, dead>>
pinVars == <<wctl, consoleVars, gstep, gret, delivered, stuck>>

Pid == 1..MaxPid
Signals == {"BREAK", "KILL"}
Errors == {"nil", "NoConsole", "ProcessGone", "IdentityChanged", "Permission", "other"}

(* An exited process keeps its number while somebody has a handle to it, and *)
(* here the name of the console it was created in and left.                  *)
NoProcess == [start |-> 0, state |-> "none", console |-> 0]

(* meta is what discovery read, 0 if nothing, and from Pin on what Pin read; *)
(* handle is the process the handle refers to, 0 when it is closed.          *)
Unused == [step |-> "found", meta |-> 0, handle |-> 0, err |-> "nil"]

GracefulSteps == {"out", "free", "attach", "handle", "raise", "sleep", "leave", "unhandle"}

PinTypeOK ==
    /\ procs \in [Pid -> [start : 0..MaxStart, state : {"none", "alive", "exited"},
                          console : Nat]]
    /\ nextStart \in Nat
    /\ wctl \in [Pid -> [step : {"found", "pinned", "failed", "closed"}, meta : 0..MaxStart,
                         handle : 0..MaxStart, err : Errors]]
    /\ att \in Nat
    /\ handler \in Nat
    /\ {pending, detached, dead} \subseteq BOOLEAN
    /\ gstep \in GracefulSteps
    /\ gret \in Errors
    /\ delivered \subseteq [pid : Pid, start : 1..MaxStart, sig : Signals, by : Pid]
    /\ stuck \subseteq {"console", "handler"}

(* Every number is in use; discovery could read all creation times, or none. *)
PinInit ==
    /\ \E con \in [Pid -> UNION {Consoles[p] : p \in Pid}] :
          /\ \A p \in Pid : con[p] \in Consoles[p]
          /\ procs = [p \in Pid |-> [start |-> p, state |-> "alive", console |-> con[p]]]
    /\ nextStart = MaxPid + 1
    /\ \E read \in {{}, Pid} :
          wctl = [p \in Pid |-> [Unused EXCEPT !.meta = IF p \in read THEN p ELSE 0]]
    /\ handler = 0 /\ pending = FALSE /\ detached = FALSE /\ dead = FALSE
    /\ gstep = "out" /\ gret = "nil"
    /\ delivered = {} /\ stuck = {}

-----------------------------------------------------------------------------

(* The other processes, and the thread that dispatches control events.       *)

Alive(p) == procs[p].state = "alive"

Create(p) ==
    /\ procs[p].state = "none"
    /\ nextStart <= MaxStart
    /\ \E c \in Consoles[p] :
          procs' = [procs EXCEPT ![p] = [start |-> nextStart, state |-> "alive", console |-> c]]
    /\ nextStart' = nextStart + 1

ExitProcess(p) ==
    /\ Alive(p)
    /\ procs' = [procs EXCEPT ![p].state = "exited"]
    /\ UNCHANGED nextStart

(* The last handle to p is closed: portpin has none, and nobody else. *)
FreeNumber(p) ==
    /\ procs[p].state = "exited"
    /\ wctl[p].handle = 0
    /\ procs' = [procs EXCEPT ![p] = NoProcess]
    /\ UNCHANGED nextStart

OtherProcesses == \E p \in Pid : Create(p) \/ ExitProcess(p) \/ FreeNumber(p)

(* ctrlHandlerRoutine returns TRUE; without a handler the process is ended. *)
Claimed(h) == h > 0

Dispatch ==
    /\ pending
    /\ pending' = FALSE
    /\ dead' = ~Claimed(handler)
    /\ UNCHANGED <<att, handler, detached>>

-----------------------------------------------------------------------------

PinFails(p, e) == wctl' = [wctl EXCEPT ![p].step = "failed", ![p].err = e]

LeakyMismatch(p) ==   \* mutant: the handle is not closed
    wctl' = [wctl EXCEPT ![p].step = "failed", ![p].handle = procs[p].start,
                         ![p].err = "IdentityChanged"]

Mismatch(p) == PinFails(p, "IdentityChanged")

OnlyNumber(p) == 0   \* mutant: the handle is closed and the number kept

Handle(p) == procs[p].start

AnyProcess(p) == TRUE   \* mutant: the creation time is not compared

(* Discovery read this creation time, or none. *)
Discovered(p) == wctl[p].meta \in {0, procs[p].start}

(* Pin: OpenProcess and GetProcessTimes.  Between the two the handle keeps   *)
(* the process, so they are one step.                                        *)
Pin(p) ==
    /\ \/ procs[p].state = "none" /\ PinFails(p, "ProcessGone")
       \/ \E e \in Refusals : PinFails(p, e)
       \/ procs[p].state # "none" /\ ~Discovered(p) /\ Mismatch(p)
       \/ /\ procs[p].state # "none" /\ Discovered(p)
          /\ wctl' = [wctl EXCEPT ![p] = [step |-> "pinned", meta |-> procs[p].start,
                                          handle |-> Handle(p), err |-> "nil"]]
    /\ UNCHANGED <<consoleVars, gstep, gret, delivered, stuck>>

(* verify: the creation time through the handle is the pinned one. *)
VerifyResults == {"nil"} \cup (Refusals \cap {"other"})

(* Graceful: verify.  Its console is this Graceful's to let go of.           *)
BeginGraceful(p) ==
    /\ gstep = "out"
    /\ wctl[p].step = "pinned"
    /\ gret' = "nil"
    /\ gstep' = "free"
    /\ stuck' = stuck \ {"console"}
    /\ UNCHANGED <<wctl, consoleVars, delivered>>

(* freeConsole latches consoleDetached when it succeeds.  It fails where     *)
(* there is no console, and the callers discard its error.                   *)
FreeConsole ==
    /\ \/ att # 0 /\ att' = 0 /\ detached' = TRUE
       \/ (att = 0 \/ "other" \in Refusals) /\ UNCHANGED <<att, detached>>
    /\ UNCHANGED <<handler, pending, dead>>

GracefulFrees ==
    /\ gstep = "free"
    /\ FreeConsole
    /\ gstep' = "attach"
    /\ UNCHANGED <<wctl, gret, delivered, stuck>>

(* An error return of Graceful: the deferred calls run. *)
GracefulFails(e) == gstep' = "leave" /\ gret' = e

AlreadyAttached(p) ==   \* mutant: a denial is taken for success, as RestoreConsole does
    att # 0 \/ (Alive(p) /\ procs[p].console # 0)

(* AttachConsole by number does not find an exited process, and is denied    *)
(* where portpin is attached to a console already.                           *)
Attachable(p) == att = 0 /\ Alive(p) /\ procs[p].console # 0

JoinConsole(p) == IF att # 0 THEN att ELSE procs[p].console

Attach(p) ==
    /\ gstep = "attach"
    /\ \/ /\ Attachable(p)
          /\ att' = JoinConsole(p)
          /\ gstep' = "handle" /\ UNCHANGED gret
       \/ /\ ~Attachable(p) \/ Refusals # {}
          /\ GracefulFails("NoConsole") /\ UNCHANGED att
    /\ UNCHANGED <<wctl, handler, pending, detached, dead, delivered, stuck>>

(* setConsoleCtrlHandler(true) puts the handler on a list once more. *)
InstallHandler ==
    /\ gstep = "handle"
    /\ \/ handler' = handler + 1 /\ gstep' = "raise" /\ UNCHANGED gret
       \/ "other" \in Refusals /\ GracefulFails("other") /\ UNCHANGED handler
    /\ UNCHANGED <<wctl, att, pending, detached, dead, delivered, stuck>>

(* A stop of p's controller reaches the processes in ps. *)
Reaches(ps, p, sig) ==
    delivered' = delivered \cup
        {[pid |-> q, start |-> procs[q].start, sig |-> sig, by |-> p] : q \in ps}

(* GenerateConsoleCtrlEvent for group 0 queues the event for every process   *)
(* that is attached to the console of portpin, and for portpin.              *)
Sharers == {q \in Pid : Alive(q) /\ procs[q].console = att}

Raise(p) ==
    /\ gstep = "raise"
    /\ \/ pending' = TRUE /\ Reaches(Sharers, p, "BREAK") /\ gstep' = "sleep" /\ UNCHANGED gret
       \/ "other" \in Refusals /\ GracefulFails("other") /\ UNCHANGED <<pending, delivered>>
    /\ UNCHANGED <<wctl, att, handler, detached, dead, stuck>>

NoSleep == TRUE   \* mutant: Graceful returns at once

(* 300 ms are enough for the dispatch. *)
Slept == Prompt => ~pending

Sleep ==
    /\ gstep = "sleep"
    /\ Slept
    /\ gstep' = "leave"
    /\ UNCHANGED <<wctl, consoleVars, gret, delivered, stuck>>

StayAttached == UNCHANGED <<att, handler, pending, detached, dead, stuck>>   \* mutant

(* The deferred freeConsole, whose error is discarded.                       *)
LeaveConsole ==
    /\ FreeConsole
    /\ stuck' = stuck \cup (IF att' # 0 THEN {"console"} ELSE {})

GracefulLeaves ==
    /\ gstep = "leave"
    /\ LeaveConsole
    /\ gstep' = "unhandle"
    /\ UNCHANGED <<wctl, gret, delivered>>

KeepHandler == UNCHANGED <<handler, stuck>>   \* mutant: the handler is not removed

(* The deferred setConsoleCtrlHandler(false) removes the handler once, or    *)
(* fails, which is discarded.                                                *)
RemoveHandler ==
    \/ handler > 0 /\ handler' = handler - 1 /\ UNCHANGED stuck
    \/ handler = 0 /\ UNCHANGED <<handler, stuck>>
    \/ /\ handler > 0 /\ "other" \in Refusals
       /\ UNCHANGED handler /\ stuck' = stuck \cup {"handler"}

(* Graceful returns gret. *)
EndGraceful ==
    /\ gstep = "unhandle"
    /\ RemoveHandler
    /\ gstep' = "out"
    /\ gret' = "nil"
    /\ UNCHANGED <<wctl, att, pending, detached, dead, delivered>>

(* Hard: verify and TerminateProcess, which is denied on an exited process.  *)
Hard(p, e) ==
    /\ wctl[p].step = "pinned"
    /\ \/ e = "nil" /\ Alive(p) /\ Reaches({p}, p, "KILL")
       \/ e = "Permission" /\ ~Alive(p) /\ UNCHANGED delivered
       \/ e \in Refusals /\ UNCHANGED delivered
    /\ UNCHANGED <<wctl, consoleVars, gstep, gret, stuck>>

(* Lifecycle: WaitForSingleObject on the handle. *)
Lifecycle(p) == IF Alive(p) THEN "Alive" ELSE "Gone"

Close(p) ==
    /\ wctl' = [wctl EXCEPT ![p].step = "closed", ![p].handle = 0]
    /\ UNCHANGED <<consoleVars, gstep, gret, delivered, stuck>>

(* RestoreConsole: c is the parent's console, if the parent is running.      *)
(* Where portpin is attached to a console still, AttachConsole is denied,    *)
(* which is taken for success, and CONOUT$ is that console.                  *)
RestoreConsole(c, r) ==
    /\ att' \in (IF att # 0 THEN {att} ELSE {0, c})
    /\ r = "ok" => att' # 0
    /\ r = "failed" => att' = 0 \/ "other" \in Refusals
    /\ UNCHANGED <<handler, pending, detached, dead>>

=============================================================================
