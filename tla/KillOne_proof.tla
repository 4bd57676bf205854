--------------------------- MODULE KillOne_proof ---------------------------
(***************************************************************************)
(* Theorems about KillOne, for every number of processes, every option and *)
(* every group.  What Pins_proof shows of the controllers carries over     *)
(* because killOne uses them only as PinLinux lets it.                     *)
(***************************************************************************)
EXTENDS KillOne, Pins_proof

(***************************************************************************)
(* Where the program stands, what its variables point to.                  *)
(***************************************************************************)
Placed ==
    /\ pc \in PCs
    /\ target \in 0..MaxPid
    /\ group \subseteq Pid
    /\ pids \subseteq Pid
    /\ todo \subseteq Pid
    /\ pc \notin {"scan", "done"} => target \in Pid

LEMMA ReportedIsPid == Reported \subseteq Pid
BY DEF Reported, Holders

LEMMA PlacedStep == Placed /\ [Next]_vars => Placed'
<1> USE DEF Placed, PCs, Pid, progVars
<1> SUFFICES ASSUME Placed, [Next]_vars
             PROVE  Placed'
    OBVIOUS
<1>1. CASE NothingHeld
    BY <1>1 DEF NothingHeld
<1>2. CASE ScanOwner
    BY <1>2, ReportedIsPid DEF ScanOwner
<1>3. CASE ReadOwnerMeta \/ GroupKnown \/ PinTarget \/ TargetNotPinned
    BY <1>3 DEF ReadOwnerMeta, GroupKnown, PinTarget, TargetNotPinned
<1>4. CASE TargetPinned
    BY <1>4 DEF TargetPinned
<1>5. ASSUME NEW m \in Pid,
             ReadTableEntry(m) \/ PinMember(m) \/ MemberPinned(m) \/ MemberNotPinned(m)
      PROVE  Placed'
    BY <1>5 DEF ReadTableEntry, PinMember, MemberPinned, MemberNotPinned
<1>6. ASSUME NEW r \in T!Probes, Probe(r) PROVE Placed'
    BY <1>6 DEF Probe
<1>7. CASE StartPass
    BY <1>7 DEF StartPass
<1>8. ASSUME NEW m \in Pid, CallMember(m) PROVE Placed'
    BY <1>8 DEF CallMember, Called
<1>9. CASE EndPass \/ Evaluate \/ CloseAll
    BY <1>9 DEF EndPass, Evaluate, CloseAll
<1>10. CASE Others
    BY <1>10 DEF Others
<1>11. CASE UNCHANGED vars
    BY <1>11 DEF vars
<1> QED BY <1>1, <1>2, <1>3, <1>4, <1>5, <1>6, <1>7, <1>8, <1>9, <1>10, <1>11
        DEF Next, Portpin, Done

(* The target, once there is one, is a PID of the system, at every position. *)
THEOREM PlacedAlways == Spec => []Placed
<1>1. Init => Placed
    BY KernelAssumption DEF Init, Placed, PCs
<1> QED BY <1>1, PlacedStep, PTL DEF Spec

-----------------------------------------------------------------------------

(* Every step of killOne is a step of its controllers or of the kernel, or   *)
(* leaves both alone.                                                        *)
LEMMA KillOneStep == Placed /\ [Next]_vars => [PinNext]_sysVars
<1> SUFFICES ASSUME Placed, [Next]_vars
             PROVE  PinNext \/ UNCHANGED sysVars
    OBVIOUS
<1> USE DEF Placed, Pid
<1>0. UNCHANGED hasPidfd
    BY DEF Next, Portpin, Others, Done, vars, sysVars
<1>1. CASE NothingHeld \/ ScanOwner \/ GroupKnown \/ TargetNotPinned \/ TargetPinned
    BY <1>1 DEF NothingHeld, ScanOwner, GroupKnown, TargetNotPinned, TargetPinned
<1>2. CASE ReadOwnerMeta
    BY <1>0, <1>2 DEF ReadOwnerMeta, PinNext
<1>3. CASE PinTarget
    BY <1>0, <1>3 DEF PinTarget, PinStep, PinNext
<1>4. ASSUME NEW m \in Pid, ReadTableEntry(m) PROVE PinNext
    BY <1>0, <1>4 DEF ReadTableEntry, PinNext
<1>5. ASSUME NEW m \in Pid, PinMember(m) PROVE PinNext
    BY <1>0, <1>5 DEF PinMember, PinStep, PinNext
<1>6. ASSUME NEW m \in Pid, MemberPinned(m) PROVE UNCHANGED sysVars
    BY <1>6 DEF MemberPinned
<1>7. ASSUME NEW m \in Pid, MemberNotPinned(m) PROVE PinNext
    BY <1>0, <1>7 DEF MemberNotPinned, PinNext
<1>8. ASSUME NEW r \in T!Probes, Probe(r) PROVE UNCHANGED sysVars
    BY <1>8 DEF Probe
<1>9. CASE StartPass \/ EndPass \/ Evaluate
    BY <1>9 DEF StartPass, EndPass, Evaluate
<1>10. ASSUME NEW m \in Pid, CallMember(m) PROVE PinNext
  <2>1. Sig \in Signals
      BY DEF Sig, Signals
  <2> QED BY <1>0, <1>10, <2>1 DEF CallMember, PinNext
<1>11. CASE CloseAll
    BY <1>0, <1>11 DEF CloseAll, PinNext
<1>12. CASE Others
    BY <1>0, <1>12 DEF Others, PinNext
<1>13. CASE UNCHANGED vars
    BY <1>13 DEF vars
<1> QED BY <1>1, <1>2, <1>3, <1>4, <1>5, <1>6, <1>7, <1>8, <1>9, <1>10, <1>11, <1>12, <1>13
        DEF Next, Portpin, Done

(***************************************************************************)
(* killOne drives its controllers as PinLinux says.                        *)
(***************************************************************************)
THEOREM KillOneImplementsPin == Spec => ImplementsPin
<1>1. Init => PinInit
    BY DEF Init
<1> QED BY <1>1, KillOneStep, PlacedAlways, PTL DEF Spec, ImplementsPin, PinSpec

(***************************************************************************)
(* On a kernel with pidfd_open every signal killOne sends reaches a        *)
(* process it pinned, or nobody.                                           *)
(***************************************************************************)
THEOREM KillOneSignalsPinned == Spec => []OnlyPinnedSignalled
BY KillOneImplementsPin, NoStrangerSignalled, PTL DEF ImplementsPin

-----------------------------------------------------------------------------

(***************************************************************************)
(* What the steps that call the kernel change, summed up for the proofs    *)
(* of the invariants below.                                                *)
(***************************************************************************)
LEMMA PinStepChanges ==
    ASSUME PinInv, NEW p \in Pid, PinStep(p)
    PROVE  /\ UNCHANGED <<kernelVars, delivered>>
           /\ \A q \in Pid \ {p} : ctl'[q] = ctl[q]
           /\ ctl[p].step \in {"found", "before", "opened"}
           /\ \/ ctl'[p].step \in {"before", "opened", "pinned"} /\ ctl'[p].err = ctl[p].err
              \/ ctl'[p].step = "failed"
<1>1. ctl \in [Pid -> Controller]
    BY DEF PinInv, PinTypeOK
<1>2. ASSUME NEW e, PinFails(p, e)
      PROVE  ctl'[p].step = "failed" /\ \A q \in Pid \ {p} : ctl'[q] = ctl[q]
    BY <1>1, <1>2 DEF PinFails, Controller
<1>3. CASE ReadBefore(p)
    BY <1>1, <1>2, <1>3 DEF ReadBefore, Controller
<1>4. CASE PidfdOpen(p)
    BY <1>1, <1>2, <1>4 DEF PidfdOpen, Controller
<1>5. CASE ReadAfter(p)
    BY <1>1, <1>2, <1>5 DEF ReadAfter, Controller
<1> QED BY <1>3, <1>4, <1>5 DEF PinStep

Denials == {"Permission", "other"}

(* The process that m's controller holds is no longer in the table. *)
Gone(m) == ~(Exists(m) /\ table[m].start = ctl[m].meta)

(* A call of signal on m returned e. *)
Answered(m, e) ==
    /\ ctl'[m].step = "pinned" /\ ctl'[m].err = e
    /\ Called(m, e)
    /\ hasPidfd => e # "IdentityChanged"
    /\ \/ /\ e = "nil" /\ Exists(m) /\ Reaches(m, Sig)
          /\ hasPidfd => table[m].start = ctl[m].meta
       \/ e \in Denials /\ UNCHANGED delivered
       \/ e \in Vanished /\ Gone(m) /\ UNCHANGED delivered

LEMMA CallChanges ==
    ASSUME PinInv, NEW m \in Pid, CallMember(m)
    PROVE  /\ UNCHANGED kernelVars
           /\ \A q \in Pid \ {m} : ctl'[q] = ctl[q]
           /\ ctl'[m].meta = ctl[m].meta
           /\ \/ /\ ctl'[m].step = "verified" /\ ctl'[m].err = ctl[m].err
                 /\ UNCHANGED <<todo, errs, delivered>>
              \/ \E e \in Errors : Answered(m, e)
<1> USE DEF CallMember
<1>1. ctl \in [Pid -> Controller] /\ Sound(m) /\ (Exists(m) <=> table[m].start > 0)
    BY DEF PinInv, PinTypeOK, StartsFresh
<1>2. CASE Verify(m) /\ UNCHANGED <<todo, errs>>
    BY <1>1, <1>2 DEF Verify, Controller
<1>3. ASSUME NEW e \in Errors, Called(m, e),
             SendPidfd(m, Sig, e) \/ VerifyFails(m, e) \/ RawKill(m, Sig, e)
      PROVE  /\ UNCHANGED kernelVars
             /\ \A q \in Pid \ {m} : ctl'[q] = ctl[q]
             /\ ctl'[m].meta = ctl[m].meta
             /\ Answered(m, e)
  <2>1. SignalReturns(m, e) /\ UNCHANGED kernelVars
      BY <1>3 DEF SendPidfd, VerifyFails, RawKill
  <2>2. /\ \A q \in Pid \ {m} : ctl'[q] = ctl[q]
        /\ ctl'[m].meta = ctl[m].meta /\ ctl'[m].step = "pinned" /\ ctl'[m].err = e
      BY <1>1, <2>1 DEF SignalReturns, Controller
  <2>3. CASE SendPidfd(m, Sig, e)
    <3>1. hasPidfd /\ ctl[m].fd = ctl[m].meta
        BY <1>1, <2>3 DEF SendPidfd, Sound
    <3>2. (e = "nil" => Refers(m) /\ Reaches(m, Sig)) /\ (e # "nil" => UNCHANGED delivered)
        BY <2>3, PinAssumption DEF SendPidfd
    <3>3. e # "nil" => e \in Denials \/ (e = "ProcessGone" /\ ~Refers(m))
        BY <2>3, PinAssumption DEF SendPidfd, Denials
    <3> QED BY <1>3, <2>1, <2>2, <3>1, <3>2, <3>3 DEF Answered, Refers, Gone, Vanished, Denials
  <2>4. CASE VerifyFails(m, e)
    <3>1. ~hasPidfd
        BY <1>1, <2>4 DEF VerifyFails, Sound, Controller
    <3>2. e = "other" \/ (e \in Vanished /\ Gone(m))
        BY <2>4 DEF VerifyFails, StillPinned, ReadStartTime, Gone, Vanished
    <3> QED BY <1>3, <2>1, <2>2, <2>4, <3>1, <3>2 DEF Answered, VerifyFails, Denials
  <2>5. CASE RawKill(m, Sig, e)
    <3>1. ~hasPidfd
        BY <1>1, <2>5 DEF RawKill, Sound
    <3>2. /\ e = "nil" => Exists(m) /\ Reaches(m, Sig)
          /\ e # "nil" => UNCHANGED delivered
          /\ e # "nil" => e \in Denials \/ (e = "ProcessGone" /\ ~Exists(m))
        BY <2>5, PinAssumption DEF RawKill, Denials
    <3> QED BY <1>3, <2>1, <2>2, <3>1, <3>2 DEF Answered, Gone, Vanished
  <2> QED BY <1>3, <2>1, <2>2, <2>3, <2>4, <2>5
<1> QED BY <1>2, <1>3

-----------------------------------------------------------------------------

(***************************************************************************)
(* Run and the program around it: Run has an outcome exactly when it has   *)
(* returned, it starts when everything is pinned, and a pass is one of its *)
(* two calls on the controllers.                                           *)
(***************************************************************************)
RunTyped ==
    /\ stage \in T!Stages
    /\ res \in [outcome : T!Outcomes \cup {"none"}, gracefulSent : BOOLEAN,
                usedHardKill : BOOLEAN]
    /\ stage = "done" <=> res.outcome # "none"

RunOK ==
    /\ RunTyped
    /\ errs \in [primary : Errors, other : Errors]
    /\ pc \in {"scan", "meta", "table", "pin", "members"} => stage = "probe"
    /\ pc = "pass" => stage \in {"graceful", "hard"}

(* A step of Run. *)
Advance ==
    \/ \E r \in T!Probes : T!FirstProbe(r) \/ T!Poll(r) \/ T!PollHard(r)
    \/ \E e \in Errors : T!Graceful(e) \/ T!Hard(e)
    \/ \E lc \in T!Lifecycles : T!CheckReleased(lc) \/ T!CheckHeld(lc)
    \/ T!HardExpired

LEMMA AdvanceTyped == RunTyped /\ Advance => RunTyped'
<1> USE DEF RunTyped, T!Stages, T!Outcomes, T!Return
<1> SUFFICES ASSUME RunTyped, Advance
             PROVE  RunTyped'
    OBVIOUS
<1>1. ASSUME NEW e PROVE T!ErrorOutcome(e) \in T!Outcomes
    BY DEF T!ErrorOutcome
<1>2. ASSUME NEW r \in T!Probes, T!FirstProbe(r) PROVE RunTyped'
    BY <1>2 DEF T!FirstProbe
<1>3. ASSUME NEW r \in T!Probes, T!Poll(r) PROVE RunTyped'
    BY <1>3 DEF T!Poll, T!PollOnce
<1>4. ASSUME NEW r \in T!Probes, T!PollHard(r) PROVE RunTyped'
    BY <1>4 DEF T!PollHard, T!PollOnce
<1>5. ASSUME NEW e \in Errors, T!Graceful(e) PROVE RunTyped'
    BY <1>1, <1>5 DEF T!Graceful, T!StartWait
<1>6. ASSUME NEW e \in Errors, T!Hard(e) PROVE RunTyped'
    BY <1>1, <1>6 DEF T!Hard, T!StartWait
<1>7. ASSUME NEW lc, T!CheckReleased(lc) \/ T!CheckHeld(lc) PROVE RunTyped'
    BY <1>7 DEF T!CheckReleased, T!CheckHeld
<1>8. CASE T!HardExpired
    BY <1>8 DEF T!HardExpired
<1> QED BY <1>2, <1>3, <1>4, <1>5, <1>6, <1>7, <1>8 DEF Advance

(* Where Run advances in killOne, and what else stays. *)
LEMMA EachResultTyped ==
    ASSUME errs \in [primary : Errors, other : Errors]
    PROVE  EachResult \in Errors
BY DEF EachResult

LEMMA LifecycleTyped == ASSUME NEW p PROVE Lifecycle(p) \in T!Lifecycles
BY DEF Lifecycle, T!Lifecycles

LEMMA RunOKStep == RunOK /\ [Next]_vars => RunOK'
<1> USE DEF RunOK, progVars, runVars
<1> SUFFICES ASSUME RunOK, [Next]_vars
             PROVE  RunOK'
    OBVIOUS
<1>0. ASSUME UNCHANGED <<stage, res>> PROVE RunTyped'
    BY <1>0 DEF RunTyped
<1>1. CASE NothingHeld \/ ScanOwner \/ ReadOwnerMeta \/ GroupKnown \/ PinTarget \/ TargetPinned
    BY <1>0, <1>1 DEF NothingHeld, ScanOwner, ReadOwnerMeta, GroupKnown, PinTarget, TargetPinned
<1>2. ASSUME NEW e, PinFailure(e) PROVE RunTyped' /\ stage' = "done"
    BY <1>2 DEF PinFailure, RunTyped, T!Outcomes, T!Stages
<1>3. CASE TargetNotPinned
    BY <1>2, <1>3 DEF TargetNotPinned
<1>4. ASSUME NEW m \in Pid, ReadTableEntry(m) \/ PinMember(m) \/ MemberPinned(m) PROVE RunOK'
    BY <1>0, <1>4 DEF ReadTableEntry, PinMember, MemberPinned
<1>5. ASSUME NEW m \in Pid, MemberNotPinned(m) PROVE RunOK'
    BY <1>2, <1>5 DEF MemberNotPinned
<1>6. ASSUME NEW r \in T!Probes, Probe(r) PROVE RunOK'
    BY <1>6, AdvanceTyped DEF Probe, Advance
<1>7. CASE StartPass
    BY <1>0, <1>7 DEF StartPass
<1>8. ASSUME NEW m \in Pid, CallMember(m) PROVE RunOK'
  <2>1. ASSUME NEW e \in Errors, Called(m, e) PROVE errs' \in [primary : Errors, other : Errors]
      BY <2>1 DEF Called
  <2> QED BY <1>0, <1>8, <2>1 DEF CallMember
<1>9. CASE EndPass
    BY <1>9, AdvanceTyped, EachResultTyped DEF EndPass, Advance, NoErrs, Errors
<1>10. CASE Evaluate
    BY <1>10, AdvanceTyped, LifecycleTyped DEF Evaluate, Advance
<1>11. CASE CloseAll
    BY <1>0, <1>11 DEF CloseAll
<1>12. CASE Others
    BY <1>0, <1>12 DEF Others
<1>13. CASE UNCHANGED vars
    BY <1>0, <1>13 DEF vars
<1> QED BY <1>1, <1>3, <1>4, <1>5, <1>6, <1>7, <1>8, <1>9, <1>10, <1>11, <1>12, <1>13
        DEF Next, Portpin, Done

-----------------------------------------------------------------------------

(***************************************************************************)
(* What the place of the program says of its controllers: which processes  *)
(* are known, being pinned, pinned, or given up.  Members are pinned and   *)
(* called in order, so one at most is half done.                           *)
(***************************************************************************)
InPin == {"found", "before", "opened", "pinned", "failed"}

Positions ==
    /\ pc \in {"scan", "meta"} => group = {} /\ \A p \in Pid : ctl[p].step = "idle"
    /\ pc \in {"scan", "meta", "table", "pin"} => pids = {}
    /\ pc \in {"table", "pin"} =>
          /\ target \notin group
          /\ ctl[target].step \in IF pc = "pin" THEN InPin ELSE {"found"}
          /\ \A p \in Pid \ {target} : ctl[p].step = IF p \in group THEN "found" ELSE "idle"
    /\ pc = "members" =>
          /\ target \in pids /\ group \cap pids = {}
          /\ \A p \in pids : ctl[p].step = "pinned"
          /\ \A p \in group : /\ ctl[p].step \in InPin
                              /\ ctl[p].step # "found" => p \in First(group)
          /\ \A p \in Pid \ (group \cup pids) : ctl[p].step \in {"idle", "failed"}
    /\ pc \in {"run", "pass"} =>
          /\ target \in pids
          /\ \A p \in pids : \/ ctl[p].step = "pinned"
                             \/ pc = "pass" /\ ctl[p].step = "verified" /\ p \in First(todo)
          /\ \A p \in Pid \ pids : ctl[p].step \in {"idle", "failed"}
    /\ pc = "pass" => todo \subseteq pids
    /\ pc = "done" => \A p \in Pid : ctl[p].step \in {"idle", "found", "failed", "closed"}

LEMMA OneIsFirst ==
    ASSUME NEW S \in SUBSET Pid, NEW p \in First(S), NEW q \in First(S)
    PROVE  p = q
BY KernelAssumption DEF First, Pid

LEMMA PositionsStep == PinInv /\ Placed /\ Positions /\ [Next]_vars => Positions'
<1> USE DEF Positions, Placed, progVars, runVars, InPin
<1> SUFFICES ASSUME PinInv, Placed, Positions, [Next]_vars
             PROVE  Positions'
    OBVIOUS
<1>0. ctl \in [Pid -> Controller]
    BY DEF PinInv, PinTypeOK
<1>1. CASE NothingHeld \/ ScanOwner
    BY <1>1 DEF NothingHeld, ScanOwner, sysVars, pinVars
<1>2. CASE ReadOwnerMeta
    BY <1>0, <1>2 DEF ReadOwnerMeta, ReadMeta, Controller
<1>3. ASSUME NEW m \in Pid, ReadTableEntry(m) PROVE Positions'
    BY <1>0, <1>3 DEF ReadTableEntry, ReadMeta, Controller
<1>4. CASE GroupKnown
    BY <1>4 DEF GroupKnown, sysVars, pinVars
<1>5. CASE PinTarget
    BY <1>5, PinStepChanges DEF PinTarget
<1>6. CASE TargetNotPinned
    BY <1>6 DEF TargetNotPinned, Failed, sysVars, pinVars
<1>7. CASE TargetPinned
    BY <1>7 DEF TargetPinned, Pinned, sysVars, pinVars
<1>8. ASSUME NEW m \in Pid, PinMember(m) PROVE Positions'
    BY <1>8, PinStepChanges DEF PinMember, First
<1>9. ASSUME NEW m \in Pid, MemberPinned(m) PROVE Positions'
  <2>1. m \in First(group) /\ UNCHANGED ctl
      BY <1>9 DEF MemberPinned, Pinned, Failed, sysVars, pinVars
  <2>2. \A p \in group : p # m => ctl[p].step = "found"
      BY <1>9, <2>1, OneIsFirst DEF MemberPinned
  <2> QED BY <1>9, <2>1, <2>2 DEF MemberPinned, Pinned, Failed
<1>10. ASSUME NEW m \in Pid, MemberNotPinned(m) PROVE Positions'
  <2>1. m \in First(group)
      BY <1>10 DEF MemberNotPinned, Failed
  <2>2. \A p \in group : p # m => ctl[p].step = "found"
      BY <1>10, <2>1, OneIsFirst DEF MemberNotPinned
  <2>3. \A p \in Pid : \/ p \in pids /\ ctl'[p].step = "closed"
                       \/ p \notin pids /\ ctl'[p] = ctl[p]
      BY <1>0, <1>10 DEF MemberNotPinned, Close, Controller
  <2> QED BY <1>10, <2>2, <2>3 DEF MemberNotPinned, Failed
<1>11. ASSUME NEW r \in T!Probes, Probe(r) PROVE Positions'
    BY <1>11 DEF Probe, sysVars, pinVars
<1>12. CASE StartPass
    BY <1>12 DEF StartPass, sysVars, pinVars
<1>13. ASSUME NEW m \in Pid, CallMember(m) PROVE Positions'
  <2>1. /\ pc = "pass" /\ UNCHANGED <<pc, target, group, pids>> /\ m \in First(todo)
        /\ \A p \in pids \ {m} : ctl[p].step = "pinned"
      BY <1>13, OneIsFirst DEF CallMember, First
  <2>2. CASE ctl'[m].step = "verified" /\ UNCHANGED todo
      BY <1>13, <2>1, <2>2, CallChanges DEF First
  <2>3. ASSUME NEW e \in Errors, Answered(m, e) PROVE Positions'
    <3>1. \A p \in pids : ctl'[p].step = "pinned"
        BY <1>13, <2>1, <2>3, CallChanges DEF Answered
    <3>2. \A p \in Pid \ pids : ctl'[p] = ctl[p]
        BY <1>13, <2>1, CallChanges DEF First
    <3>3. todo' \subseteq pids
        BY <2>1, <2>3 DEF Answered, Called
    <3> QED BY <2>1, <3>1, <3>2, <3>3
  <2> QED BY <1>13, <2>2, <2>3, CallChanges
<1>14. CASE EndPass
    BY <1>14 DEF EndPass, First, sysVars, pinVars
<1>15. CASE Evaluate
    BY <1>15 DEF Evaluate, sysVars, pinVars
<1>16. CASE CloseAll
  <2>1. \A p \in Pid : \/ p \in pids /\ ctl'[p].step = "closed"
                       \/ p \notin pids /\ ctl'[p] = ctl[p]
      BY <1>0, <1>16 DEF CloseAll, Close, Controller
  <2> QED BY <1>16, <2>1 DEF CloseAll
<1>17. CASE Others \/ UNCHANGED vars
    BY <1>17 DEF Others, vars, sysVars, pinVars
<1> QED BY <1>1, <1>2, <1>3, <1>4, <1>5, <1>6, <1>7, <1>8, <1>9, <1>10, <1>11, <1>12, <1>13,
           <1>14, <1>15, <1>16, <1>17 DEF Next, Portpin, Done

(***************************************************************************)
(* The invariant on which everything about killOne rests.                  *)
(***************************************************************************)
KillInv == PinInv /\ Placed /\ RunOK /\ Positions

LEMMA KillInvInit == Init => KillInv
<1> SUFFICES ASSUME Init
             PROVE  KillInv
    OBVIOUS
<1> USE DEF Init
<1>1. PinInv
    BY PinInvInit
<1>2. Placed
    BY KernelAssumption DEF Placed, PCs
<1>3. RunOK
    BY DEF RunOK, RunTyped, T!Init, T!Stages, NoErrs, Errors
<1>4. Positions
    BY DEF Positions, PinInit, Unused
<1> QED BY <1>1, <1>2, <1>3, <1>4 DEF KillInv

LEMMA KillInvStep == KillInv /\ [Next]_vars => KillInv'
BY KillOneStep, PinInvStep, PlacedStep, RunOKStep, PositionsStep DEF KillInv

(* In every state of killOne the controllers, the run of terminate.Run and   *)
(* the positions of the passes over the members fit together.                *)
THEOREM KillInvariant == Spec => []KillInv
BY KillInvInit, KillInvStep, PTL DEF Spec

(***************************************************************************)
(* When killOne returns, no descriptor it opened is left open.             *)
(***************************************************************************)
THEOREM NoLeaks == Spec => []NoDescriptorLeaks
<1>1. KillInv => NoDescriptorLeaks
    BY DEF KillInv, Positions, PinInv, Sound, NoDescriptorLeaks
<1> QED BY <1>1, KillInvariant, PTL

-----------------------------------------------------------------------------

(***************************************************************************)
(* A denial stays on the books until it is in the outcome: of the target   *)
(* or a member that could not be pinned until killOne gives up, and of a   *)
(* member called in the errors that each collects.                         *)
(***************************************************************************)
Failures == {"permission-denied", "identity-changed", "error"}

Denied(p) == ctl[p].err \in Denials

Reckoned(p) ==
    IF p = target THEN errs.primary = ctl[p].err ELSE errs.other \in Denials

OnTheBooks(p) ==
    \/ pc = "pin" /\ p = target /\ ctl[p].step = "failed"
    \/ pc = "members" /\ p \in group /\ ctl[p].step = "failed"
    \/ pc = "pass" /\ p \in pids \ todo /\ Reckoned(p)
    \/ res.outcome \in Failures

DenialsKept ==
    /\ errs.other \in {"nil"} \cup Denials
    /\ pc # "pass" => errs = NoErrs
    /\ \A p \in Pid : Denied(p) => OnTheBooks(p)

(* While Run is not done, only a pass may know of a denial. *)
LEMMA RunningUndenied ==
    ASSUME KillInv, DenialsKept, pc \in {"scan", "meta", "table", "run"}, stage # "done"
    PROVE  \A p \in Pid : ~Denied(p)
BY DEF KillInv, RunOK, RunTyped, DenialsKept, OnTheBooks, Failures

(* A pass in which a member was denied fails. *)
LEMMA PassFails ==
    ASSUME KillInv, DenialsKept, pc = "pass", todo = {}, NEW p \in Pid, Denied(p)
    PROVE  EachResult \in {"IdentityChanged"} \cup Denials
<1>1. Reckoned(p)
    BY DEF KillInv, RunOK, RunTyped, DenialsKept, OnTheBooks, Failures
<1>2. errs.primary \in Errors
    BY DEF KillInv, RunOK
<1> QED BY <1>1, <1>2 DEF Denied, Reckoned, EachResult, Errors, Denials

LEMMA DenialsStep == KillInv /\ DenialsKept /\ [Next]_vars => DenialsKept'
<1> USE DEF DenialsKept, progVars, runVars
<1> SUFFICES ASSUME KillInv, DenialsKept, [Next]_vars
             PROVE  DenialsKept'
    OBVIOUS
<1> DEFINE Books == \A p \in Pid : Denied(p)' => OnTheBooks(p)'
<1>0. ctl \in [Pid -> Controller] /\ RunTyped
    BY DEF KillInv, PinInv, PinTypeOK, RunOK
<1>a. pc \in {"scan", "meta", "table", "pin", "members"} => stage = "probe" /\ res.outcome = "none"
    BY DEF KillInv, RunOK, RunTyped
<1>1. CASE NothingHeld \/ ScanOwner \/ GroupKnown
    BY <1>1, <1>a, RunningUndenied
    DEF NothingHeld, ScanOwner, GroupKnown, sysVars, pinVars, Denied
<1>2. ASSUME NEW m \in Pid, ReadMeta(m)
      PROVE  \A p \in Pid : Denied(p)' = Denied(p)
    BY <1>0, <1>2 DEF ReadMeta, Denied, Controller
<1>3. CASE ReadOwnerMeta
    BY <1>2, <1>3, <1>a, RunningUndenied DEF ReadOwnerMeta, KillInv, Placed
<1>4. ASSUME NEW m \in Pid, ReadTableEntry(m) PROVE DenialsKept'
    BY <1>2, <1>4, <1>a, RunningUndenied DEF ReadTableEntry
<1>5. CASE PinTarget
  <2>1. target \in Pid /\ PinStep(target)
      BY <1>5 DEF PinTarget, KillInv, Placed
  <2>2. Books
      BY <1>5, <2>1, <1>a, PinStepChanges
      DEF PinTarget, KillInv, Denied, OnTheBooks, Failures
  <2> QED BY <1>5, <2>2 DEF PinTarget
<1>6. CASE TargetNotPinned
  <2>1. \A p \in Pid : Denied(p) => p = target
      BY <1>6, <1>a DEF TargetNotPinned, OnTheBooks, Failures
  <2>2. Denied(target) => res'.outcome \in Failures
      BY <1>0, <1>6 DEF TargetNotPinned, PinFailure, Denied, Denials, Failures, RunTyped
  <2> QED BY <1>6, <2>1, <2>2 DEF TargetNotPinned, Denied, OnTheBooks, sysVars, pinVars
<1>7. CASE TargetPinned
    BY <1>7, <1>a DEF TargetPinned, Pinned, Denied, OnTheBooks, Failures, sysVars, pinVars
<1>8. ASSUME NEW m \in Pid, PinMember(m) PROVE DenialsKept'
  <2>1. m \in group /\ PinStep(m)
      BY <1>8 DEF PinMember, First
  <2>2. Books
      BY <1>8, <2>1, <1>a, PinStepChanges
      DEF PinMember, KillInv, Denied, OnTheBooks, Failures
  <2> QED BY <1>8, <2>2 DEF PinMember
<1>9. ASSUME NEW m \in Pid, MemberPinned(m) PROVE DenialsKept'
  <2>1. ~Denied(m) /\ UNCHANGED ctl
      BY <1>9, <1>a DEF MemberPinned, Pinned, Failed, Denied, Denials, OnTheBooks, Failures,
                        sysVars, pinVars
  <2>2. Books
      BY <1>9, <2>1, <1>a DEF MemberPinned, Denied, OnTheBooks, Failures
  <2> QED BY <1>9, <2>2 DEF MemberPinned
<1>10. ASSUME NEW m \in Pid, MemberNotPinned(m) PROVE DenialsKept'
  <2>1. res'.outcome \in Failures
      BY <1>0, <1>10 DEF MemberNotPinned, PinFailure, Failures, RunTyped
  <2> QED BY <1>10, <2>1 DEF MemberNotPinned, OnTheBooks
<1>11. ASSUME NEW r \in T!Probes, Probe(r) PROVE DenialsKept'
  <2>1. stage # "done"
      BY <1>11 DEF Probe, T!FirstProbe, T!Poll, T!PollHard, T!PollOnce
  <2> QED BY <1>11, <2>1, RunningUndenied DEF Probe, Denied, sysVars, pinVars
<1>12. CASE StartPass
    BY <1>12, RunningUndenied DEF StartPass, Denied, sysVars, pinVars, NoErrs
<1>13. ASSUME NEW m \in Pid, CallMember(m) PROVE DenialsKept'
  <2>1. /\ pc = "pass" /\ m \in todo /\ todo \subseteq pids /\ UNCHANGED <<pc, target, pids, res>>
        /\ res.outcome \notin Failures
      BY <1>13 DEF CallMember, First, KillInv, Positions, RunOK, RunTyped, Failures
  <2>2. CASE ctl'[m].err = ctl[m].err /\ UNCHANGED <<todo, errs>>
      BY <1>13, <2>1, <2>2, CallChanges DEF KillInv, Denied, OnTheBooks, Reckoned
  <2>3. ASSUME NEW e \in Errors, Answered(m, e) PROVE DenialsKept'
    <3>1. /\ errs' = [primary |-> IF m = target THEN e ELSE errs.primary,
                      other |-> IF m # target /\ errs.other = "nil" /\ e \notin Ignorable
                                THEN e ELSE errs.other]
          /\ todo' = todo \ {m}
        BY <2>3 DEF Answered, Called, KillInv, RunOK
    <3>2. errs'.other \in {"nil"} \cup Denials
        BY <3>1 DEF Ignorable, Errors, Denials
    <3>3. Denied(m)' => OnTheBooks(m)'
        BY <2>1, <2>3, <3>1 DEF Answered, Denied, Denials, OnTheBooks, Reckoned, Ignorable
    <3>4. ASSUME NEW p \in Pid \ {m}, Denied(p)' PROVE OnTheBooks(p)'
        BY <1>13, <2>1, <3>1, <3>4, CallChanges
        DEF KillInv, Denied, Denials, OnTheBooks, Reckoned
    <3> QED BY <2>1, <3>2, <3>3, <3>4
  <2> QED BY <1>13, <2>2, <2>3, CallChanges DEF KillInv
<1>14. CASE EndPass
  <2>1. ASSUME NEW p \in Pid, Denied(p) PROVE res'.outcome \in Failures
    <3>1. EachResult \in {"IdentityChanged"} \cup Denials
        BY <1>14, <2>1, PassFails DEF EndPass
    <3>2. T!ErrorOutcome(EachResult) \in Failures
        BY DEF T!ErrorOutcome, Failures
    <3>3. res'.outcome = T!ErrorOutcome(EachResult)
        BY <1>0, <1>14, <3>1
        DEF EndPass, T!Graceful, T!Hard, T!Return, RunTyped, Denials
    <3> QED BY <3>2, <3>3
  <2> QED BY <1>14, <2>1 DEF EndPass, NoErrs, Denied, OnTheBooks, sysVars, pinVars
<1>15. CASE Evaluate
  <2>1. stage # "done"
      BY <1>15 DEF Evaluate, T!CheckReleased, T!CheckHeld, T!HardExpired
  <2> QED BY <1>15, <2>1, RunningUndenied DEF Evaluate, Denied, sysVars, pinVars
<1>16. CASE CloseAll
  <2>1. \A p \in Pid : ctl'[p].err = ctl[p].err
      BY <1>0, <1>16, CloseChanges DEF CloseAll, KillInv, Placed
  <2> QED BY <1>16, <2>1 DEF CloseAll, Denied, OnTheBooks
<1>17. CASE Others \/ UNCHANGED vars
    BY <1>17 DEF Others, vars, sysVars, pinVars, Denied, OnTheBooks, Reckoned
<1> QED BY <1>1, <1>3, <1>4, <1>5, <1>6, <1>7, <1>8, <1>9, <1>10, <1>11, <1>12, <1>13,
           <1>14, <1>15, <1>16, <1>17 DEF Next, Portpin, Done

(***************************************************************************)
(* A process that portpin was denied is never passed over.                 *)
(***************************************************************************)
THEOREM DenialsShow == Spec => []DenialNeverSilent
<1>1. Init => DenialsKept
    BY DEF Init, DenialsKept, NoErrs, PinInit, Unused, Denied, Denials
<1>2. DenialsKept => DenialNeverSilent
    BY DEF DenialsKept, DenialNeverSilent, OnTheBooks, Denied, Denials, Failures
<1> QED BY <1>1, <1>2, DenialsStep, KillInvariant, PTL DEF Spec

-----------------------------------------------------------------------------

(* A process that is gone from the table does not come back. *)
LEMMA GoneStays ==
    ASSUME PinInv, Environment, UNCHANGED ctl, NEW p \in Pid, Gone(p)
    PROVE  Gone(p)'
BY EnvironmentMoves
DEF PinInv, PinTypeOK, KernelTypeOK, Process, Controller, StartsFresh, Gone, Exists

(* Whatever killOne does, a process that is gone stays gone once its         *)
(* controller is pinned.                                                     *)
LEMMA GoneForever ==
    ASSUME KillInv, [Next]_vars, pc \in {"run", "pass"}, NEW p \in pids
    PROVE  ctl'[p].meta = ctl[p].meta /\ (Gone(p) => Gone(p)')
<1> USE DEF progVars, runVars, Gone, Exists
<1>0. p \in Pid /\ ctl \in [Pid -> Controller]
    BY DEF KillInv, Placed, PinInv, PinTypeOK
<1>1. CASE Others
    BY <1>0, <1>1, GoneStays DEF Others, KillInv, pinVars
<1>2. ASSUME NEW m \in Pid, CallMember(m) PROVE ctl'[p].meta = ctl[p].meta /\ UNCHANGED table
    BY <1>0, <1>2, CallChanges DEF KillInv, kernelVars
<1>3. CASE CloseAll
    BY <1>0, <1>3, CloseChanges DEF CloseAll, Close, KillInv, Placed, kernelVars
<1>4. CASE UNCHANGED <<table, ctl>>
    BY <1>4
<1>5. UNCHANGED <<table, ctl>> \/ Others \/ CloseAll \/ \E m \in Pid : CallMember(m)
    BY DEF Next, Portpin, Done, NothingHeld, ScanOwner, ReadOwnerMeta, GroupKnown, PinTarget,
           TargetNotPinned, TargetPinned, ReadTableEntry, PinMember, MemberPinned,
           MemberNotPinned, Probe, StartPass, EndPass, Evaluate, vars, sysVars, kernelVars, pinVars
<1> QED BY <1>1, <1>2, <1>3, <1>4, <1>5

(* Only a call of a pass delivers a signal. *)
LEMMA OnlyCallsDeliver ==
    ASSUME KillInv, [Next]_vars, delivered' # delivered
    PROVE  \E m \in Pid, e \in Errors :
              /\ CallMember(m) /\ Answered(m, e) /\ e = "nil" /\ Exists(m)
              /\ delivered' = delivered \cup
                     {[pid |-> m, start |-> table[m].start, sig |-> Sig]}
              /\ hasPidfd => table[m].start = ctl[m].meta
<1>1. PICK m \in Pid : CallMember(m)
  <2>1. CASE PinTarget
      BY <2>1, PinStepChanges DEF PinTarget, KillInv, Placed
  <2>2. ASSUME NEW m \in Pid, PinMember(m) PROVE FALSE
      BY <2>2, PinStepChanges DEF PinMember, KillInv
  <2> QED BY <2>1, <2>2
      DEF Next, Portpin, Others, Done, NothingHeld, ScanOwner, ReadOwnerMeta, ReadMeta,
          GroupKnown, TargetNotPinned, TargetPinned, ReadTableEntry, MemberPinned,
          MemberNotPinned, Close, Probe, StartPass, EndPass, Evaluate, CloseAll, vars,
          sysVars, kernelVars, pinVars
<1>2. PICK e \in Errors : Answered(m, e)
    BY <1>1, CallChanges DEF KillInv
<1> QED BY <1>1, <1>2 DEF Answered, Reaches, Denials, Vanished

-----------------------------------------------------------------------------

(***************************************************************************)
(* Until the first probe nobody is signalled, and after it, with one       *)
(* process and a pidfd, either that process was seen holding the endpoint  *)
(* or it is gone, and its successor was seen.                              *)
(***************************************************************************)
SilentBefore ==
    pc \in {"scan", "meta", "table", "pin", "members"} \/ stage = "probe" => delivered = {}

TargetSeen ==
    Alone /\ hasPidfd /\ pc \in {"run", "pass"} /\ stage \notin {"probe", "done"} =>
        ctl[target].meta \in witnessed \/ Gone(target)

Witness == SilentBefore /\ TargetSeen /\ OnlyHoldersSignalled

LEMMA SilentStep == KillInv /\ SilentBefore /\ [Next]_vars => SilentBefore'
<1> SUFFICES ASSUME KillInv, SilentBefore, [Next]_vars
             PROVE  SilentBefore'
    OBVIOUS
<1>1. CASE delivered' # delivered
  <2>1. pc' = "pass" /\ stage' # "probe"
      BY <1>1, OnlyCallsDeliver DEF CallMember, KillInv, RunOK, runVars
  <2> QED BY <2>1 DEF SilentBefore
<1>2. ASSUME delivered' = delivered, pc' \in {"scan", "meta", "table", "pin", "members"}
      PROVE  pc \in {"scan", "meta", "table", "pin", "members"}
    BY <1>2 DEF Next, Portpin, Others, Done, NothingHeld, ScanOwner, ReadOwnerMeta, GroupKnown,
       PinTarget, TargetNotPinned, TargetPinned, ReadTableEntry, PinMember, MemberPinned,
       MemberNotPinned, Probe, StartPass, CallMember, EndPass, Evaluate, CloseAll, vars, progVars
<1>3. ASSUME stage' = "probe" PROVE stage = "probe"
    BY <1>3 DEF Next, Portpin, Others, Done, NothingHeld, ScanOwner, ReadOwnerMeta, GroupKnown,
       PinTarget, TargetNotPinned, TargetPinned, ReadTableEntry, PinMember, MemberPinned,
       MemberNotPinned, PinFailure, Probe, StartPass, CallMember, EndPass, Evaluate, CloseAll,
       vars, runVars, T!FirstProbe, T!Poll, T!PollHard, T!PollOnce, T!Graceful, T!Hard,
       T!CheckReleased, T!CheckHeld, T!HardExpired, T!Return, T!StartWait
<1> QED BY <1>1, <1>2, <1>3 DEF SilentBefore

LEMMA TargetSeenStep ==
    KillInv /\ KillInv' /\ SilentBefore /\ TargetSeen /\ [Next]_vars => TargetSeen'
<1> USE DEF progVars, runVars
<1> SUFFICES ASSUME KillInv, KillInv', TargetSeen, [Next]_vars,
                    Alone', hasPidfd', pc' \in {"run", "pass"}, stage' \notin {"probe", "done"}
             PROVE  (ctl[target].meta \in witnessed \/ Gone(target))'
    BY DEF TargetSeen
<1>1. CASE \E r \in T!Probes : Probe(r) /\ stage = "probe"
  <2>1. PICK r \in T!Probes : Probe(r) /\ T!FirstProbe(r)
      BY <1>1 DEF Probe, T!Poll, T!PollHard, T!PollOnce
  <2>2. r = "held" /\ target' = target /\ UNCHANGED <<table, ctl>>
      BY <2>1 DEF Probe, T!FirstProbe, T!Return, sysVars, kernelVars, pinVars
  <2>3. target \in Reported
      BY <2>1, <2>2 DEF Probe, ProbeAnswer, Alone
  <2>4. table[target].start \in witnessed'
      BY <2>1, <2>2, <2>3 DEF Probe
  <2> QED BY <2>2, <2>4 DEF Gone, Exists
<1>2. CASE ~\E r \in T!Probes : Probe(r) /\ stage = "probe"
  <2>1. /\ pc \in {"run", "pass"} /\ stage \notin {"probe", "done"}
        /\ UNCHANGED <<pids, target, hasPidfd>> /\ witnessed \subseteq witnessed'
      BY <1>2 DEF KillInv, RunOK, Next, Portpin, Others, Done, NothingHeld, ScanOwner,
         ReadOwnerMeta, GroupKnown, PinTarget, TargetNotPinned, TargetPinned, ReadTableEntry,
         PinMember, MemberPinned, MemberNotPinned, PinFailure, Probe, StartPass, CallMember,
         EndPass, Evaluate, CloseAll, vars, sysVars, T!FirstProbe, T!Poll, T!PollHard,
         T!PollOnce, T!Graceful, T!Hard, T!CheckReleased, T!CheckHeld, T!HardExpired,
         T!Return, T!StartWait
  <2>2. ctl[target].meta \in witnessed \/ Gone(target)
      BY <2>1 DEF TargetSeen, Alone
  <2>3. target \in pids
      BY <2>1 DEF KillInv, Positions
  <2> QED BY <2>1, <2>2, <2>3, GoneForever DEF Gone, Exists
<1> QED BY <1>1, <1>2

LEMMA HoldersStep ==
    KillInv /\ KillInv' /\ Witness /\ [Next]_vars => OnlyHoldersSignalled'
<1> USE DEF progVars, runVars
<1> SUFFICES ASSUME KillInv, KillInv', Witness, [Next]_vars, Alone', hasPidfd',
                    NEW d \in delivered'
             PROVE  d.start \in witnessed'
    BY DEF OnlyHoldersSignalled
<1>1. hasPidfd
    BY DEF Next, Portpin, Others, Done, vars, sysVars
<1>2. CASE d \notin delivered
  <2>1. PICK m \in Pid : /\ CallMember(m) /\ Exists(m)
                         /\ d.start = table[m].start /\ d.start = ctl[m].meta
      BY <1>1, <1>2, OnlyCallsDeliver
  <2>2. m \in pids /\ UNCHANGED <<pids, target, witnessed>> /\ pc = "pass"
      BY <2>1 DEF CallMember, First, KillInv, Positions
  <2>3. m = target /\ Alone
      BY <2>2 DEF Alone
  <2>4. ~Gone(m)
      BY <2>1 DEF Gone
  <2>5. stage \notin {"probe", "done"}
      BY <2>2 DEF KillInv, RunOK
  <2> QED BY <1>1, <2>1, <2>2, <2>3, <2>4, <2>5 DEF Witness, TargetSeen
<1>3. CASE d \in delivered
  <2>1. pc \in {"run", "pass", "done"}
      BY <1>3 DEF Witness, SilentBefore, KillInv, Placed, PCs
  <2>2. UNCHANGED <<pids, target>> /\ witnessed \subseteq witnessed'
      BY <2>1 DEF Next, Portpin, Others, Done, NothingHeld, ScanOwner, ReadOwnerMeta,
         GroupKnown, PinTarget, TargetNotPinned, TargetPinned, ReadTableEntry, PinMember,
         MemberPinned, MemberNotPinned, Probe, StartPass, CallMember, EndPass, Evaluate,
         CloseAll, vars
  <2> QED BY <1>1, <1>3, <2>2 DEF Witness, OnlyHoldersSignalled, Alone
<1> QED BY <1>2, <1>3

(***************************************************************************)
(* Without --group and with a pidfd, a process is signalled only when a    *)
(* probe saw it hold the endpoint after it was pinned.                     *)
(***************************************************************************)
THEOREM HoldersOnly == Spec => []OnlyHoldersSignalled
<1>1. Init => Witness
    BY DEF Init, PinInit, Witness, SilentBefore, TargetSeen, OnlyHoldersSignalled
<1>2. KillInv /\ KillInv' /\ Witness /\ [Next]_vars => Witness'
    BY SilentStep, TargetSeenStep, HoldersStep DEF Witness
<1>3. Witness => OnlyHoldersSignalled
    BY DEF Witness
<1> QED BY <1>1, <1>2, <1>3, KillInvariant, PTL DEF Spec

-----------------------------------------------------------------------------

(***************************************************************************)
(* Through a pidfd no call finds another process, so a pass never returns  *)
(* IdentityChanged and only a Pin can end in that outcome.                 *)
(***************************************************************************)
PassIdentity == hasPidfd => errs.primary # "IdentityChanged" /\ errs.other # "IdentityChanged"

LEMMA PassIdentityStep == KillInv /\ PassIdentity /\ [Next]_vars => PassIdentity'
<1> USE DEF PassIdentity
<1> SUFFICES ASSUME KillInv, PassIdentity, [Next]_vars
             PROVE  PassIdentity'
    OBVIOUS
<1>0. hasPidfd' = hasPidfd
    BY DEF Next, Portpin, Others, Done, vars, sysVars
<1>1. ASSUME NEW m \in Pid, CallMember(m) PROVE PassIdentity'
  <2>1. ASSUME NEW e \in Errors, Answered(m, e) PROVE PassIdentity'
      BY <1>0, <2>1 DEF Answered, Called, KillInv, RunOK
  <2> QED BY <1>0, <1>1, <2>1, CallChanges DEF KillInv
<1>2. CASE EndPass
    BY <1>2 DEF EndPass, NoErrs
<1>3. CASE UNCHANGED errs
    BY <1>0, <1>3
<1>4. UNCHANGED errs \/ EndPass \/ \E m \in Pid : CallMember(m)
    BY DEF Next, Portpin, Others, Done, NothingHeld, ScanOwner, ReadOwnerMeta, GroupKnown,
       PinTarget, TargetNotPinned, TargetPinned, ReadTableEntry, PinMember, MemberPinned,
       MemberNotPinned, Probe, StartPass, Evaluate, CloseAll, vars, progVars
<1> QED BY <1>1, <1>2, <1>3, <1>4

LEMMA AbortStep ==
    KillInv /\ KillInv' /\ SilentBefore /\ PassIdentity /\ AbortMeansUntouched /\ [Next]_vars
        => AbortMeansUntouched'
<1> USE DEF AbortMeansUntouched, progVars, runVars
<1> SUFFICES ASSUME KillInv, KillInv', SilentBefore, PassIdentity, AbortMeansUntouched,
                    [Next]_vars, hasPidfd', res'.outcome = "identity-changed"
             PROVE  delivered' = {}
    OBVIOUS
<1>0. hasPidfd /\ RunTyped
    BY DEF Next, Portpin, Others, Done, vars, sysVars, KillInv, RunOK
<1>1. delivered' = delivered
  <2>1. SUFFICES ASSUME delivered' # delivered
                 PROVE  FALSE
      OBVIOUS
  <2>2. pc = "pass" /\ UNCHANGED res
      BY <2>1, OnlyCallsDeliver DEF CallMember
  <2> QED BY <2>2 DEF KillInv, RunOK, RunTyped
<1>2. CASE res.outcome = "identity-changed"
    BY <1>0, <1>1, <1>2
<1>3. CASE res.outcome # "identity-changed"
  <2>1. ~EndPass
    <3>1. EachResult # "IdentityChanged"
        BY <1>0 DEF PassIdentity, EachResult
    <3> QED BY <1>0, <1>3, <3>1
            DEF EndPass, T!Graceful, T!Hard, T!Return, T!ErrorOutcome, RunTyped
  <2>2. ~Evaluate /\ ~\E r \in T!Probes : Probe(r)
      BY <1>0, <1>3 DEF Evaluate, Probe, T!FirstProbe, T!Poll, T!PollHard, T!PollOnce,
                        T!CheckReleased, T!CheckHeld, T!HardExpired, T!Return, RunTyped
  <2>3. TargetNotPinned \/ \E m \in Pid : MemberNotPinned(m)
      BY <1>3, <2>1, <2>2 DEF Next, Portpin, Others, Done, NothingHeld, ScanOwner,
         ReadOwnerMeta, GroupKnown, PinTarget, TargetPinned, ReadTableEntry, PinMember,
         MemberPinned, StartPass, CallMember, CloseAll, vars
  <2>4. delivered = {}
      BY <2>3 DEF TargetNotPinned, MemberNotPinned, SilentBefore
  <2> QED BY <1>1, <2>4
<1> QED BY <1>2, <1>3

(***************************************************************************)
(* With pidfds, the outcome identity-changed means that nobody was         *)
(* signalled.                                                              *)
(***************************************************************************)
THEOREM AbortsUntouched == Spec => []AbortMeansUntouched
<1>1. Init => SilentBefore /\ PassIdentity /\ AbortMeansUntouched
    BY DEF Init, PinInit, SilentBefore, PassIdentity, AbortMeansUntouched, NoErrs
<1> QED BY <1>1, SilentStep, PassIdentityStep, AbortStep, KillInvariant, PTL DEF Spec

-----------------------------------------------------------------------------

(***************************************************************************)
(* The hard pass leaves no member behind: by the time it ends, each was    *)
(* killed, is gone, or was denied, and a denial ends Run.                  *)
(***************************************************************************)
Evicted(p) ==
    \/ [pid |-> p, start |-> ctl[p].meta, sig |-> "KILL"] \in delivered
    \/ Gone(p)

HardDone ==
    pc = "pass" /\ stage = "hard" => \A p \in pids \ todo : Evicted(p) \/ Denied(p)

AllEvicted ==
    (pc = "run" /\ stage = "hardPoll") \/ res.outcome = "timeout" => \A p \in pids : Evicted(p)

LEMMA EvictedStays ==
    ASSUME KillInv, [Next]_vars, pc \in {"run", "pass"}, NEW p \in pids, Evicted(p)
    PROVE  Evicted(p)'
<1>1. delivered \subseteq delivered'
    BY OnlyCallsDeliver
<1>2. ctl'[p].meta = ctl[p].meta /\ (Gone(p) => Gone(p)')
    BY GoneForever
<1> QED BY <1>1, <1>2 DEF Evicted

(* A call of the hard pass evicts the member or is denied. *)
LEMMA CallEvicts ==
    ASSUME KillInv, stage = "hard", NEW m \in Pid, CallMember(m), NEW e \in Errors,
           Answered(m, e)
    PROVE  Evicted(m)' \/ Denied(m)'
<1>1. ctl'[m].meta = ctl[m].meta /\ UNCHANGED table /\ Sig = "KILL"
    BY CallChanges DEF KillInv, kernelVars, Sig
<1>2. CASE e = "nil" /\ Reaches(m, Sig)
    BY <1>1, <1>2 DEF Reaches, Evicted, Gone, Exists
<1>3. CASE e \in Denials
    BY <1>3 DEF Answered, Denied
<1>4. CASE Gone(m)
    BY <1>1, <1>4 DEF Evicted, Gone, Exists
<1> QED BY <1>2, <1>3, <1>4 DEF Answered

LEMMA HardDoneStep == KillInv /\ HardDone /\ [Next]_vars => HardDone'
<1> SUFFICES ASSUME KillInv, HardDone, [Next]_vars, pc' = "pass", stage' = "hard",
                    NEW p \in pids' \ todo'
             PROVE  Evicted(p)' \/ Denied(p)'
    BY DEF HardDone
<1> USE DEF progVars, runVars
<1>1. CASE StartPass
    BY <1>1 DEF StartPass
<1>2. ASSUME NEW m \in Pid, CallMember(m) PROVE Evicted(p)' \/ Denied(p)'
  <2>1. /\ pc = "pass" /\ stage = "hard" /\ m \in todo /\ p \in pids /\ p \in Pid
      BY <1>2 DEF CallMember, First, KillInv, Placed
  <2>2. CASE p = m
    <3>1. PICK e \in Errors : Answered(m, e)
        BY <1>2, <2>1, <2>2, CallChanges DEF KillInv
    <3> QED BY <1>2, <2>1, <2>2, <3>1, CallEvicts
  <2>3. CASE p # m
    <3>1. p \notin todo
        BY <1>2, <2>3, CallChanges DEF KillInv, Answered, Called
    <3>2. ctl'[p] = ctl[p]
        BY <1>2, <2>1, <2>3, CallChanges DEF KillInv
    <3> QED BY <2>1, <3>1, <3>2, EvictedStays DEF HardDone, Denied
  <2> QED BY <2>2, <2>3
<1>3. CASE Others \/ UNCHANGED vars
  <2>1. UNCHANGED <<pc, stage, pids, todo, ctl>>
      BY <1>3 DEF Others, vars, sysVars, pinVars
  <2> QED BY <2>1, EvictedStays DEF HardDone, Denied
<1> QED BY <1>1, <1>2, <1>3
        DEF Next, Portpin, Done, NothingHeld, ScanOwner, ReadOwnerMeta, GroupKnown, PinTarget,
            TargetNotPinned, TargetPinned, ReadTableEntry, PinMember, MemberPinned,
            MemberNotPinned, Probe, EndPass, Evaluate, CloseAll

LEMMA AllEvictedStep ==
    KillInv /\ KillInv' /\ DenialsKept /\ HardDone /\ AllEvicted /\ [Next]_vars => AllEvicted'
<1> USE DEF progVars, runVars
<1> SUFFICES ASSUME KillInv, KillInv', DenialsKept, HardDone, AllEvicted, [Next]_vars,
                    (pc' = "run" /\ stage' = "hardPoll") \/ res'.outcome = "timeout",
                    NEW p \in pids'
             PROVE  Evicted(p)'
    BY DEF AllEvicted
<1>0. RunTyped
    BY DEF KillInv, RunOK
<1>1. CASE EndPass
  <2>1. stage = "hard" /\ EachResult \in {"nil", "ProcessGone"} /\ pids' = pids /\ UNCHANGED ctl
      BY <1>0, <1>1 DEF EndPass, T!Graceful, T!Hard, T!Return, T!StartWait, T!ErrorOutcome,
                        RunTyped, sysVars, pinVars
  <2>2. p \in Pid /\ ~Denied(p)
      BY <1>1, <2>1, PassFails DEF EndPass, KillInv, Placed, Denials
  <2>3. Evicted(p)
      BY <1>1, <2>1, <2>2 DEF EndPass, HardDone
  <2> QED BY <1>1, <2>1, <2>3, EvictedStays DEF EndPass
<1>2. CASE ~EndPass /\ pc = "done"
    BY <1>2, <1>0 DEF Next, Portpin, Others, Done, NothingHeld, ScanOwner, ReadOwnerMeta,
       GroupKnown, PinTarget, TargetNotPinned, TargetPinned, ReadTableEntry, PinMember,
       MemberPinned, MemberNotPinned, Probe, StartPass, CallMember, Evaluate, CloseAll, vars,
       sysVars, kernelVars, pinVars, AllEvicted, Evicted, Gone, Exists
<1>3. CASE ~EndPass /\ pc # "done"
  <2> DEFINE Before == /\ pc \in {"run", "pass"} /\ pids' = pids
                       /\ (pc = "run" /\ stage = "hardPoll") \/ res.outcome = "timeout"
  <2>1. Before
    <3>1. ASSUME NEW e, PinFailure(e) PROVE res'.outcome # "timeout"
        BY <1>0, <3>1 DEF PinFailure, RunTyped
    <3>2. ASSUME pc \in {"scan", "meta", "table", "pin", "members"}, UNCHANGED <<stage, res>>
          PROVE  FALSE
        BY <3>2 DEF KillInv, RunOK, RunTyped
    <3>3. CASE TargetNotPinned \/ \E m \in Pid : MemberNotPinned(m)
        BY <3>1, <3>3 DEF TargetNotPinned, MemberNotPinned
    <3>4. ASSUME NEW r \in T!Probes, Probe(r) PROVE Before
        BY <1>0, <3>4 DEF Probe, T!FirstProbe, T!Poll, T!PollHard, T!PollOnce, T!Return, RunTyped
    <3>5. CASE Evaluate
        BY <1>0, <3>5 DEF Evaluate, T!CheckReleased, T!CheckHeld, T!HardExpired, T!Return,
                          RunTyped
    <3>6. CASE StartPass \/ CloseAll \/ Others \/ (UNCHANGED vars)
              \/ \E m \in Pid : CallMember(m)
        BY <1>0, <1>3, <3>2, <3>6 DEF KillInv, Placed, PCs, RunOK, RunTyped, StartPass, CloseAll, Others,
                          vars, CallMember
    <3> QED BY <1>3, <3>2, <3>3, <3>4, <3>5, <3>6
            DEF Next, Portpin, Done, NothingHeld, ScanOwner, ReadOwnerMeta, GroupKnown,
                PinTarget, TargetPinned, ReadTableEntry, PinMember, MemberPinned
  <2> QED BY <2>1, EvictedStays DEF AllEvicted
<1> QED BY <1>1, <1>2, <1>3

(***************************************************************************)
(* A timeout is reported only after every pinned member that still exists  *)
(* was sent the hard kill.                                                 *)
(***************************************************************************)
THEOREM TimeoutEvicts == Spec => []TimeoutMeansEvicted
<1>1. Init => DenialsKept /\ HardDone /\ AllEvicted
    BY DEF Init, T!Init, PinInit, Unused, DenialsKept, NoErrs, Denied, Denials, HardDone,
           AllEvicted
<1>2. AllEvicted => TimeoutMeansEvicted
    BY DEF AllEvicted, TimeoutMeansEvicted, Evicted, Gone
<1> QED BY <1>1, <1>2, DenialsStep, HardDoneStep, AllEvictedStep, KillInvariant, PTL DEF Spec

=============================================================================
