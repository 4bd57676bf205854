------------------------------ MODULE KillOne ------------------------------
(***************************************************************************)
(* cmd/portpin/main.go: killOne, with the discovery that names its target. *)
(* Composes the kernel and the controllers of PinLinux with the escalation *)
(* of Terminate and the group controller of internal/pin/group.go.  Every  *)
(* system call of portpin is a step, and the processes of the kernel run   *)
(* between any two of them.                                                *)
(***************************************************************************)
EXTENDS PinLinux

CONSTANTS
    Options,      \* of Terminate
    ProbeFails    \* a probe's discovery may fail

ASSUME KillOneAssumption == ProbeFails \in BOOLEAN

VARIABLES
    opts, stage, polls, spent, budget, seen, asked, res,   \* of Terminate
    pc,        \* where the program stands
    target,    \* b.Proc.PID, 0 before discovery
    group,     \* the PIDs of GroupMembers' result still to be pinned
    pids,      \* the PIDs of the pinned members, and of the probe
    todo,      \* each: the members the pass has still to call
    errs,      \* each: primaryErr and otherErr
    witnessed  \* history: start times a probe saw holding the endpoint

T == INSTANCE Terminate

runVars  == <<opts, stage, polls, spent, budget, seen, asked, res>>
progVars == <<pc, target, group, pids, todo, errs>>
vars == <<sysVars, runVars, progVars, witnessed>>

PCs == {"scan", "meta", "table", "pin", "members", "run", "pass", "done"}

NoErrs == [primary |-> "nil", other |-> "nil"]

TypeOK ==
    /\ PinTypeOK
    /\ T!TypeOK
    /\ pc \in PCs
    /\ target \in 0..MaxPid
    /\ group \subseteq Pid
    /\ pids \subseteq Pid
    /\ todo \subseteq Pid
    /\ errs \in [primary : Errors, other : Errors]
    /\ witnessed \subseteq Nat

Init ==
    /\ PinInit
    /\ T!Init
    /\ pc = "scan"
    /\ target = 0
    /\ group = {}
    /\ pids = {}
    /\ todo = {}
    /\ errs = NoErrs
    /\ witnessed = {}

-----------------------------------------------------------------------------

(***************************************************************************)
(* Discovery.  scanOwners walks /proc once and keeps, for the inode, the   *)
(* last PID it found with it, so one holder of a shared socket is reported *)
(* and the others are not.                                                 *)
(***************************************************************************)
Reported == {p \in Holders : \A q \in Holders : q <= p}

(* runKill: Resolve finds nothing and the program ends. *)
NothingHeld ==
    /\ pc = "scan"
    /\ Reported = {}
    /\ pc' = "done"
    /\ UNCHANGED <<sysVars, runVars, target, group, pids, todo, errs, witnessed>>

(* runKill: Resolve, up to the owner of the endpoint's inode. *)
ScanOwner ==
    /\ pc = "scan"
    /\ target' \in Reported
    /\ pc' = "meta"
    /\ UNCHANGED <<sysVars, runVars, group, pids, todo, errs, witnessed>>

(* Resolve: readProcMeta reads /proc/PID/stat by the owner's number. *)
ReadOwnerMeta ==
    /\ pc = "meta"
    /\ ReadMeta(target)
    /\ pc' = "table"
    /\ UNCHANGED <<runVars, target, group, pids, todo, errs, witnessed>>

(***************************************************************************)
(* processGroups: ProcTable reads /proc one PID at a time, in the order of *)
(* the listing, and GroupMembers selects.  Which processes belong to a     *)
(* group is the subject of GroupMembers alone; here it is any of the       *)
(* processes that were read, and none without --group.                     *)
(***************************************************************************)
ReadTableEntry(p) ==
    /\ pc = "table"
    /\ Exists(p) /\ \A q \in group : q < p
    /\ ReadMeta(p)
    /\ group' = group \cup {p}
    /\ UNCHANGED <<runVars, pc, target, pids, todo, errs, witnessed>>

GroupKnown ==
    /\ pc = "table"
    /\ pc' = "pin"
    /\ UNCHANGED <<sysVars, runVars, target, group, pids, todo, errs, witnessed>>

-----------------------------------------------------------------------------

(* One system call of Pin. *)
PinStep(p) == ReadBefore(p) \/ PidfdOpen(p) \/ ReadAfter(p)

Pinned(p) == ctl[p].step = "pinned"
Failed(p) == ctl[p].step = "failed"

(* pinFailure: the outcome of a target that could not be pinned. *)
PinFailure(e) ==
    /\ res' = [res EXCEPT !.outcome =
                  CASE e = "ProcessGone"     -> "released"
                    [] e = "IdentityChanged" -> "identity-changed"
                    [] e = "Permission"      -> "permission-denied"
                    [] OTHER                 -> "error"]
    /\ stage' = "done"
    /\ UNCHANGED <<opts, polls, spent, budget, seen, asked>>

(* killOne: pinProcess, on the owner. *)
PinTarget ==
    /\ pc = "pin"
    /\ ~Pinned(target) /\ ~Failed(target)
    /\ PinStep(target)
    /\ UNCHANGED <<runVars, progVars, witnessed>>

TargetNotPinned ==
    /\ pc = "pin"
    /\ Failed(target)
    /\ PinFailure(ctl[target].err)
    /\ pc' = "done"
    /\ UNCHANGED <<sysVars, target, group, pids, todo, errs, witnessed>>

RefreshedTargetPinned ==   \* mutant: the pinned metadata is read again
    /\ pc = "pin"
    /\ Pinned(target)
    /\ ctl' = [ctl EXCEPT ![target].meta = ReadStartTime(target)]
    /\ pids' = {target}
    /\ pc' = IF group = {} THEN "run" ELSE "members"
    /\ UNCHANGED <<kernelVars, delivered, runVars, target, group, todo, errs, witnessed>>

TargetPinned ==
    /\ pc = "pin"
    /\ Pinned(target)
    /\ pids' = {target}
    /\ pc' = IF group = {} THEN "run" ELSE "members"
    /\ UNCHANGED <<sysVars, runVars, target, group, todo, errs, witnessed>>

(* Members of one depth are in the order of their PIDs (group.go:204); those *)
(* of several depths are the subject of GroupMembers.                        *)
First(S) == {p \in S : \A q \in S : p <= q}

(* PinGroup: pinFn(m), one member after the other. *)
PinMember(m) ==
    /\ pc = "members"
    /\ m \in First(group)
    /\ PinStep(m)
    /\ UNCHANGED <<runVars, progVars, witnessed>>

(* PinGroup: pinFn has returned for m; gone and changed members are skipped. *)
MemberPinned(m) ==
    /\ pc = "members"
    /\ m \in group
    /\ \/ Pinned(m) /\ pids' = pids \cup {m}
       \/ Failed(m) /\ ctl[m].err \in {"ProcessGone", "IdentityChanged"} /\ UNCHANGED pids
    /\ group' = group \ {m}
    /\ pc' = IF group' = {} THEN "run" ELSE "members"
    /\ UNCHANGED <<sysVars, runVars, target, todo, errs, witnessed>>

(* PinGroup: any other error closes what was pinned; killOne closes c. *)
MemberNotPinned(m) ==
    /\ pc = "members"
    /\ m \in group
    /\ Failed(m) /\ ctl[m].err \in {"Permission", "other"}
    /\ PinFailure(ctl[m].err)
    /\ Close(pids)
    /\ pc' = "done"
    /\ UNCHANGED <<target, group, pids, todo, errs, witnessed>>

-----------------------------------------------------------------------------

(***************************************************************************)
(* terminate.Run, its probe bound to discovery.  The probe asks whether    *)
(* the endpoint's reported owner is one of the pinned PIDs.                *)
(***************************************************************************)
AnyOwnerAnswer(r) ==   \* mutant: the owner's PID is not compared
    \/ r = "held" /\ Reported # {}
    \/ r = "free" /\ Reported = {}
    \/ r = "err" /\ ProbeFails

ProbeAnswer(r) ==
    \/ r = "held" /\ Reported \cap pids # {}
    \/ r = "free" /\ Reported \cap pids = {}
    \/ r = "err" /\ ProbeFails

Probe(r) ==
    /\ pc = "run"
    /\ ProbeAnswer(r)
    /\ T!FirstProbe(r) \/ T!Poll(r) \/ T!PollHard(r)
    /\ witnessed' = IF r = "held" THEN witnessed \cup {table[p].start : p \in Reported}
                    ELSE witnessed
    /\ UNCHANGED <<sysVars, progVars>>

(* Run calls c.Graceful or c.Hard: each begins its pass over the members. *)
StartPass ==
    /\ pc = "run"
    /\ stage \in {"graceful", "hard"}
    /\ pc' = "pass"
    /\ todo' = pids
    /\ UNCHANGED <<sysVars, runVars, target, group, pids, errs, witnessed>>

Sig == IF stage = "graceful" THEN "TERM" ELSE "KILL"

Ignorable == {"ProcessGone", "IdentityChanged"}

CalledUntilError(m, e) ==   \* mutant: the pass stops at the first error
    /\ errs' = [errs EXCEPT
          !.primary = IF m = target THEN e ELSE @,
          !.other = IF m # target /\ @ = "nil" /\ e \notin Ignorable THEN e ELSE @]
    /\ todo' = IF e = "nil" THEN todo \ {m} ELSE {}

CalledAgain(m, e) ==   \* mutant: the pass never moves on
    /\ errs' = [errs EXCEPT !.primary = IF m = target THEN e ELSE @]
    /\ UNCHANGED todo

(* each: the call on member m returned e. *)
Called(m, e) ==
    /\ errs' = [errs EXCEPT
          !.primary = IF m = target THEN e ELSE @,
          !.other = IF m # target /\ @ = "nil" /\ e \notin Ignorable THEN e ELSE @]
    /\ todo' = todo \ {m}

(* each: signal on member m, in one system call with a pidfd, two without. *)
CallMember(m) ==
    /\ pc = "pass"
    /\ m \in First(todo)
    /\ \/ Verify(m) /\ UNCHANGED <<todo, errs>>
       \/ \E e \in Errors :
             /\ SendPidfd(m, Sig, e) \/ VerifyFails(m, e) \/ RawKill(m, Sig, e)
             /\ Called(m, e)
    /\ UNCHANGED <<runVars, pc, target, group, pids, witnessed>>

PrimaryResult == errs.primary   \* mutant: the other members' errors are lost

(* each: what the pass returns, and its locals go. *)
EachResult ==
    IF errs.other # "nil" /\ errs.primary \in {"nil", "ProcessGone"}
    THEN errs.other ELSE errs.primary

EndPass ==
    /\ pc = "pass"
    /\ todo = {}
    /\ T!Graceful(EachResult) \/ T!Hard(EachResult)
    /\ pc' = "run"
    /\ errs' = NoErrs
    /\ UNCHANGED <<sysVars, target, group, pids, todo, witnessed>>

(* Run reads the primary's lifecycle, or its last wait expires. *)
Evaluate ==
    /\ pc = "run"
    /\ \/ T!CheckReleased(Lifecycle(target))
       \/ T!CheckHeld(Lifecycle(target))
       \/ T!HardExpired
    /\ UNCHANGED <<sysVars, progVars, witnessed>>

(* killOne: the deferred c.Close. *)
CloseAll ==
    /\ pc = "run"
    /\ stage = "done"
    /\ Close(pids)
    /\ pc' = "done"
    /\ UNCHANGED <<runVars, target, group, pids, todo, errs, witnessed>>

-----------------------------------------------------------------------------

Portpin ==
    /\ \/ NothingHeld \/ ScanOwner \/ ReadOwnerMeta \/ GroupKnown
       \/ PinTarget \/ TargetNotPinned \/ TargetPinned
       \/ \E m \in Pid : \/ ReadTableEntry(m) \/ PinMember(m)
                         \/ MemberPinned(m) \/ MemberNotPinned(m)
       \/ \E r \in T!Probes : Probe(r)
       \/ StartPass \/ (\E m \in Pid : CallMember(m)) \/ EndPass
       \/ Evaluate \/ CloseAll
    /\ UNCHANGED hasPidfd

(* Where portpin looks at its own state only, or closes its descriptors.     *)
(* Such a step commutes with those of the other processes, which wait for it.*)
Local ==
    \/ pc = "pin" /\ Failed(target)
    \/ pc = "members" /\ \E m \in group : Pinned(m) \/ Failed(m)
    \/ pc = "run" /\ stage \in {"graceful", "hard", "done"}
    \/ pc = "pass" /\ todo = {}

(* The other processes, as long as portpin runs. *)
Others ==
    /\ pc # "done" /\ ~Local
    /\ Environment
    /\ UNCHANGED <<hasPidfd, pinVars, runVars, progVars, witnessed>>

Done == pc = "done" /\ UNCHANGED vars

Next == Portpin \/ Others \/ Done

(* The scheduler runs portpin; nothing is assumed of the other processes. *)
Spec == Init /\ [][Next]_vars /\ WF_vars(Portpin)

-----------------------------------------------------------------------------

(* The controllers killOne drives are used as PinLinux says, so everything   *)
(* that holds of PinLinux holds of them.                                     *)
ImplementsPin == PinSpec

(* portpin means to stop the target and no other process. *)
Alone == pids \subseteq {target}

(* Without --group, a process is signalled only when a probe found that very *)
(* process holding the endpoint after it was pinned, however stale discovery *)
(* was: the first probe of Run stands between a wrong owner and the signal.  *)
(* In the fallback a PID reused before kill(2) is the one exception.         *)
OnlyHoldersSignalled ==
    Alone /\ hasPidfd => \A d \in delivered : d.start \in witnessed

(* When killOne returns, no descriptor it opened is left open, whichever of  *)
(* its members failed to be pinned (main.go:385-399, group.go:28-35).        *)
NoDescriptorLeaks ==
    pc = "done" => \A p \in Pid : ctl[p].fd = 0

(* A timeout is reported only after every pinned member that still exists    *)
(* was sent the hard kill: each never stops at a member that fails.          *)
TimeoutMeansEvicted ==
    res.outcome = "timeout" =>
        \A p \in pids : Exists(p) /\ table[p].start = ctl[p].meta =>
            [pid |-> p, start |-> ctl[p].meta, sig |-> "KILL"] \in delivered

(* A member portpin may not open or signal is never passed over: the outcome *)
(* is a failure (group.go:28-35, 51-66; terminate.go:131-152, 181-196).      *)
DenialNeverSilent ==
    pc = "done" /\ (\E p \in Pid : ctl[p].err \in {"Permission", "other"}) =>
        res.outcome \in {"permission-denied", "identity-changed", "error"}

(* An outcome of identity-changed means that nobody was signalled, as        *)
(* printOutcome says (main.go:592): so it is with pidfds, for a process and  *)
(* for a group, since only Pin then finds another process, and not in the    *)
(* fallback, where a call between two signals may.                           *)
AbortMeansUntouched ==
    hasPidfd => (res.outcome = "identity-changed" => delivered = {})

(* Whatever the other processes do, portpin ends. *)
Terminates == <>(pc = "done")

-----------------------------------------------------------------------------

(* What the README says of killOne and the code does not do.                 *)

(* terminate.go:170-172, README.md:227: a zombie holds no sockets, so the    *)
(* outcome zombie means a free port even if the last probe found it held.    *)
ZombieMeansLetGo ==
    [][res.outcome # "zombie" /\ res'.outcome = "zombie" /\ seen = "held" =>
          pids \cap Holders = {}]_vars

=============================================================================
