----------------------------- MODULE Pins_proof -----------------------------
(***************************************************************************)
(* Theorems about the controllers of Unix, for every number of PIDs and    *)
(* processes, with a pidfd and without, whatever errors the system calls   *)
(* return.  First PinLinux, alone, as KillOne uses it; then Pins: the      *)
(* controllers of Linux and of macOS keep the promise of Hold.             *)
(***************************************************************************)
EXTENDS Pins, TLAPS

(***************************************************************************)
(* The kernel gives every process a start time of its own.                 *)
(***************************************************************************)
StartsFresh ==
    /\ nextStart > 0
    /\ \A p \in Pid :
          /\ table[p].start < nextStart
          /\ Exists(p) <=> table[p].start > 0
          /\ ctl[p].meta < nextStart
          /\ ctl[p].before < nextStart
          /\ ctl[p].fd < nextStart

Vanished == {"ProcessGone", "IdentityChanged"}

(***************************************************************************)
(* What a controller's step tells of its fields and of the process.  The   *)
(* sandwich is in the third conjunct: a pidfd opened on another process    *)
(* than the one whose start time was read means that this start time is    *)
(* gone from the table, for good, so the second read cannot agree.         *)
(***************************************************************************)
Sound(p) ==
    LET c == ctl[p] IN
    /\ c.step \in {"idle", "found", "before"} => c.fd = 0
    /\ c.step \in {"idle", "found", "before", "opened"} => c.err = "nil"
    /\ c.step = "opened" => IF hasPidfd
                            THEN c.fd > 0 /\ (c.fd # c.before => table[p].start # c.before)
                            ELSE c.fd = 0
    /\ c.step = "idle" => c.meta = 0
    /\ c.step \in {"before", "opened"} => c.before > 0 /\ c.meta \in {0, c.before}
    /\ c.step = "pinned" => c.meta > 0 /\ c.fd = IF hasPidfd THEN c.meta ELSE 0
    /\ c.step = "pinned" /\ c.err \in Vanished => table[p].start # c.meta
    /\ c.step = "verified" => ~hasPidfd /\ c.fd = 0 /\ c.meta > 0 /\ c.err \notin Vanished
    /\ c.step \in {"failed", "closed"} => c.fd = 0

(* Once a controller has delivered a signal its metadata is final. *)
Faithful ==
    hasPidfd => \A d \in delivered : /\ ctl[d.pid].step \in {"pinned", "closed"}
                                     /\ d.start = ctl[d.pid].meta

PinInv ==
    /\ PinTypeOK
    /\ StartsFresh
    /\ \A p \in Pid : Sound(p)
    /\ Faithful

-----------------------------------------------------------------------------

LEMMA PinInvInit == PinInit => PinInv
<1> SUFFICES ASSUME PinInit
             PROVE  PinInv
    OBVIOUS
<1> USE KernelAssumption DEF PinInit, KernelInit, Pid
<1>1. table \in [Pid -> Process]
    BY DEF Process, NoProcess
<1>2. ctl \in [Pid -> Controller]
    BY DEF Controller, Unused, Steps, Errors
<1>3. PinTypeOK
    BY <1>1, <1>2, PinAssumption DEF PinTypeOK, KernelTypeOK
<1>4. StartsFresh
    BY DEF StartsFresh, Exists, NoProcess, Unused
<1>5. ASSUME NEW p \in Pid PROVE Sound(p)
    BY DEF Sound, Unused
<1> QED BY <1>3, <1>4, <1>5 DEF PinInv, Faithful

(* What the other processes can do to the table. *)
LEMMA EnvironmentMoves ==
    ASSUME KernelTypeOK, Environment
    PROVE  /\ KernelTypeOK'
           /\ \/ nextStart' = nextStart
              \/ nextStart' = nextStart + 1 /\ nextStart <= MaxStart
           /\ \A p \in Pid :
                 \/ /\ table'[p].start = table[p].start
                    /\ Exists(p)' <=> Exists(p)
                    /\ Alive(p)' => Alive(p)
                 \/ table'[p].start = 0 /\ ~Exists(p)'
                 \/ table'[p].start = nextStart /\ Exists(p)' /\ nextStart' = nextStart + 1
<1> USE DEF KernelTypeOK, Process, Exists, Alive, Holders
<1>1. ASSUME NEW p \in Pid, NEW q \in Pid, NEW shares \in BOOLEAN, Fork(p, q, shares)
      PROVE  /\ KernelTypeOK'
             /\ nextStart' = nextStart + 1 /\ nextStart <= MaxStart
             /\ \A r \in Pid : IF r = q THEN table'[r].start = nextStart /\ Exists(r)'
                               ELSE table'[r] = table[r]
    BY <1>1 DEF Fork
<1>2. ASSUME NEW p \in Pid, Listen(p) \/ CloseSocket(p)
      PROVE  KernelTypeOK' /\ UNCHANGED <<table, nextStart>>
    BY <1>2 DEF Listen, CloseSocket
<1>3. ASSUME NEW p \in Pid, Exit(p)
      PROVE  /\ KernelTypeOK'
             /\ nextStart' = nextStart
             /\ \A r \in Pid : /\ table'[r].start = table[r].start
                               /\ Exists(r)' <=> Exists(r)
                               /\ Alive(r)' => Alive(r)
    BY <1>3 DEF Exit
<1>4. ASSUME NEW p \in Pid, Reap(p)
      PROVE  /\ KernelTypeOK'
             /\ nextStart' = nextStart
             /\ \A r \in Pid : IF r = p THEN table'[r].start = 0 /\ ~Exists(r)'
                               ELSE table'[r] = table[r]
    BY <1>4 DEF Reap, NoProcess
<1> QED BY <1>1, <1>2, <1>3, <1>4 DEF Environment

LEMMA EnvironmentKeeps ==
    PinInv /\ Environment /\ UNCHANGED pinVars /\ UNCHANGED hasPidfd => PinInv'
<1> SUFFICES ASSUME PinInv, Environment, UNCHANGED pinVars, UNCHANGED hasPidfd
             PROVE  PinInv'
    OBVIOUS
<1> USE DEF PinInv
<1>1. PinTypeOK'
    BY EnvironmentMoves DEF PinTypeOK, pinVars
<1>2. StartsFresh'
    BY EnvironmentMoves DEF StartsFresh, PinTypeOK, KernelTypeOK, Process, Controller, pinVars
<1>3. ASSUME NEW p \in Pid PROVE Sound(p)'
    BY EnvironmentMoves DEF Sound, StartsFresh, PinTypeOK, KernelTypeOK, Process, Controller,
       pinVars
<1>4. Faithful'
    BY DEF Faithful, pinVars
<1> QED BY <1>1, <1>2, <1>3, <1>4

-----------------------------------------------------------------------------

(* The calls of Pin on p leave the kernel, the signals and the other         *)
(* controllers alone.                                                        *)
LEMMA PinCallKeeps ==
    ASSUME PinInv, UNCHANGED hasPidfd, NEW p \in Pid, UNCHANGED <<kernelVars, delivered>>,
           NEW c \in Controller, ctl' = [ctl EXCEPT ![p] = c], Sound(p)',
           c.meta < nextStart, c.before < nextStart, c.fd < nextStart,
           ctl[p].step \notin {"pinned", "closed"}
    PROVE  PinInv'
<1> USE DEF PinInv, kernelVars
<1>1. PinTypeOK'
    BY DEF PinTypeOK, KernelTypeOK
<1>2. StartsFresh'
    BY DEF StartsFresh, PinTypeOK, Exists
<1>3. ASSUME NEW q \in Pid PROVE Sound(q)'
    BY DEF Sound, PinTypeOK
<1>4. Faithful'
    BY DEF Faithful, PinTypeOK
<1> QED BY <1>1, <1>2, <1>3, <1>4

LEMMA ReadMetaKeeps ==
    ASSUME PinInv, UNCHANGED hasPidfd, NEW p \in Pid, ReadMeta(p)
    PROVE  PinInv'
<1> DEFINE c == [ctl[p] EXCEPT !.step = "found", !.meta = table[p].start]
<1>1. ctl' = [ctl EXCEPT ![p] = c] /\ c \in Controller
    BY DEF ReadMeta, ReadStartTime, PinInv, PinTypeOK, KernelTypeOK, Controller, Process, Steps
<1>2. c.meta < nextStart /\ c.before < nextStart /\ c.fd < nextStart
    BY DEF PinInv, StartsFresh, PinTypeOK, Controller
<1>3. Sound(p)'
    BY <1>1 DEF ReadMeta, PinInv, Sound, PinTypeOK, Controller
<1> QED BY <1>1, <1>2, <1>3, PinCallKeeps DEF ReadMeta

LEMMA PinFailsKeeps ==
    ASSUME PinInv, UNCHANGED hasPidfd, NEW p \in Pid, NEW e \in Errors, PinFails(p, e),
           UNCHANGED <<kernelVars, delivered>>,
           ctl[p].step \in {"found", "before", "opened"}
    PROVE  PinInv'
<1> DEFINE c == [ctl[p] EXCEPT !.step = "failed", !.fd = 0, !.err = e]
<1>1. ctl' = [ctl EXCEPT ![p] = c] /\ c \in Controller
    BY DEF PinFails, PinInv, PinTypeOK, Controller, Steps
<1>2. c.meta < nextStart /\ c.before < nextStart /\ c.fd < nextStart
    BY DEF PinInv, StartsFresh, PinTypeOK, Controller
<1>3. Sound(p)'
    BY <1>1 DEF PinInv, Sound, PinTypeOK, Controller
<1> QED BY <1>1, <1>2, <1>3, PinCallKeeps

LEMMA ReadBeforeKeeps ==
    ASSUME PinInv, UNCHANGED hasPidfd, NEW p \in Pid, ReadBefore(p)
    PROVE  PinInv'
<1>1. CASE \E e \in Errors : PinFails(p, e)
    BY <1>1, PinFailsKeeps DEF ReadBefore
<1>2. CASE /\ Exists(p) /\ MetaMatches(p)
           /\ ctl' = [ctl EXCEPT ![p].step = "before", ![p].before = ReadStartTime(p)]
  <2> DEFINE c == [ctl[p] EXCEPT !.step = "before", !.before = table[p].start]
  <2>1. ctl' = [ctl EXCEPT ![p] = c] /\ c \in Controller
      BY <1>2 DEF ReadStartTime, PinInv, PinTypeOK, KernelTypeOK, Controller, Process, Steps
  <2>2. c.meta < nextStart /\ c.before < nextStart /\ c.fd < nextStart
      BY DEF PinInv, StartsFresh, PinTypeOK, Controller
  <2>3. Sound(p)'
      BY <1>2, <2>1 DEF ReadBefore, MetaMatches, ReadStartTime, PinInv, Sound, StartsFresh,
                        PinTypeOK, Controller
  <2> QED BY <2>1, <2>2, <2>3, PinCallKeeps DEF ReadBefore
<1> QED BY <1>1, <1>2 DEF ReadBefore, Errors

LEMMA PidfdOpenKeeps ==
    ASSUME PinInv, UNCHANGED hasPidfd, NEW p \in Pid, PidfdOpen(p)
    PROVE  PinInv'
<1>1. CASE \E e \in Errors : PinFails(p, e)
    BY <1>1, PinFailsKeeps DEF PidfdOpen
<1>2. CASE ~hasPidfd /\ ctl' = [ctl EXCEPT ![p].step = "opened"]
  <2> DEFINE c == [ctl[p] EXCEPT !.step = "opened"]
  <2>1. ctl' = [ctl EXCEPT ![p] = c] /\ c \in Controller
      BY <1>2 DEF PinInv, PinTypeOK, Controller, Steps
  <2>2. c.meta < nextStart /\ c.before < nextStart /\ c.fd < nextStart
      BY DEF PinInv, StartsFresh, PinTypeOK, Controller
  <2>3. Sound(p)'
      BY <1>2, <2>1 DEF PidfdOpen, PinInv, Sound, PinTypeOK, Controller
  <2> QED BY <2>1, <2>2, <2>3, PinCallKeeps DEF PidfdOpen
<1>3. CASE /\ hasPidfd /\ Exists(p)
           /\ ctl' = [ctl EXCEPT ![p].step = "opened", ![p].fd = table[p].start]
  <2> DEFINE c == [ctl[p] EXCEPT !.step = "opened", !.fd = table[p].start]
  <2>1. ctl' = [ctl EXCEPT ![p] = c] /\ c \in Controller
      BY <1>3 DEF PinInv, PinTypeOK, KernelTypeOK, Controller, Process, Steps
  <2>2. c.meta < nextStart /\ c.before < nextStart /\ c.fd < nextStart
      BY DEF PinInv, StartsFresh, PinTypeOK, Controller
  <2>3. Sound(p)'
      BY <1>3, <2>1 DEF PidfdOpen, PinInv, Sound, StartsFresh, PinTypeOK, Controller, kernelVars
  <2> QED BY <2>1, <2>2, <2>3, PinCallKeeps DEF PidfdOpen
<1> QED BY <1>1, <1>2, <1>3, PinAssumption DEF PidfdOpen, Errors

LEMMA ReadAfterKeeps ==
    ASSUME PinInv, UNCHANGED hasPidfd, NEW p \in Pid, ReadAfter(p)
    PROVE  PinInv'
<1>1. CASE \E e \in Errors : PinFails(p, e)
    BY <1>1, PinFailsKeeps DEF ReadAfter
<1>2. CASE /\ Exists(p) /\ AfterMatches(p)
           /\ ctl' = [ctl EXCEPT ![p].step = "pinned", ![p].meta = ReadStartTime(p)]
  <2> DEFINE c == [ctl[p] EXCEPT !.step = "pinned", !.meta = table[p].start]
  <2>1. ctl' = [ctl EXCEPT ![p] = c] /\ c \in Controller
      BY <1>2 DEF ReadStartTime, PinInv, PinTypeOK, KernelTypeOK, Controller, Process, Steps
  <2>2. c.meta < nextStart /\ c.before < nextStart /\ c.fd < nextStart
      BY DEF PinInv, StartsFresh, PinTypeOK, Controller
  <2>3. Sound(p)'
      BY <1>2, <2>1 DEF ReadAfter, AfterMatches, ReadStartTime, PinInv, Sound, StartsFresh,
                        PinTypeOK, Controller, Vanished
  <2> QED BY <2>1, <2>2, <2>3, PinCallKeeps DEF ReadAfter
<1> QED BY <1>1, <1>2 DEF ReadAfter, Errors

-----------------------------------------------------------------------------

(* A call of signal on a pinned controller changes its step and error only;  *)
(* what it delivers, if anything, went to the pinned process or the kernel   *)
(* has no pidfd.                                                             *)
LEMMA SignalCallKeeps ==
    ASSUME PinInv, UNCHANGED hasPidfd, NEW p \in Pid, UNCHANGED kernelVars,
           NEW s \in Steps, NEW e \in Errors,
           ctl' = [ctl EXCEPT ![p].step = s, ![p].err = e], Sound(p)',
           ctl[p].step \in {"pinned", "verified", "closed"},
           hasPidfd => s \in {"pinned", "closed"},
           NEW sig \in Signals,
           \/ UNCHANGED delivered
           \/ Reaches(p, sig) /\ (hasPidfd => table[p].start = ctl[p].meta)
    PROVE  PinInv'
<1> USE DEF PinInv, kernelVars
<1>1. PinTypeOK'
  <2>1. ctl' \in [Pid -> Controller]
      BY DEF PinTypeOK, Controller
  <2>2. delivered' \subseteq [pid : Pid, start : Nat, sig : Signals]
      BY DEF PinTypeOK, KernelTypeOK, Process, Reaches
  <2> QED BY <2>1, <2>2 DEF PinTypeOK, KernelTypeOK
<1>2. StartsFresh'
    BY DEF StartsFresh, PinTypeOK, Exists, Controller
<1>3. ASSUME NEW q \in Pid PROVE Sound(q)'
    BY DEF Sound, PinTypeOK
<1>4. Faithful'
    BY DEF Faithful, PinTypeOK, Controller, Reaches
<1> QED BY <1>1, <1>2, <1>3, <1>4

LEMMA SendPidfdKeeps ==
    ASSUME PinInv, UNCHANGED hasPidfd, NEW p \in Pid, NEW sig \in Signals, NEW e \in Errors, SendPidfd(p, sig, e)
    PROVE  PinInv'
<1>1. ctl' = [ctl EXCEPT ![p].step = "pinned", ![p].err = e]
    BY DEF SendPidfd, SignalReturns
<1>2. hasPidfd /\ ctl[p].meta > 0 /\ ctl[p].fd = ctl[p].meta
    BY DEF SendPidfd, PinInv, Sound
<1>3. Sound(p)'
    BY <1>1, <1>2, PinAssumption
    DEF SendPidfd, Refers, PinInv, Sound, StartsFresh, PinTypeOK, Controller, Vanished, kernelVars
<1>4. UNCHANGED delivered \/ (Reaches(p, sig) /\ table[p].start = ctl[p].meta)
    BY <1>2 DEF SendPidfd, Refers
<1> QED BY <1>1, <1>3, <1>4, SignalCallKeeps DEF SendPidfd, Steps

LEMMA VerifyFailsKeeps ==
    ASSUME PinInv, UNCHANGED hasPidfd, NEW p \in Pid, NEW e \in Errors, VerifyFails(p, e)
    PROVE  PinInv'
<1>1. ctl' = [ctl EXCEPT ![p].step = "pinned", ![p].err = e]
    BY DEF VerifyFails, SignalReturns
<1>2. ~hasPidfd /\ ctl[p].meta > 0
    BY DEF VerifyFails, PinInv, Sound, PinTypeOK, Controller
<1>3. Sound(p)'
    BY <1>1, <1>2, PinAssumption
    DEF VerifyFails, StillPinned, ReadStartTime, PinInv, Sound, StartsFresh, PinTypeOK,
        Controller, Vanished, kernelVars
<1> QED BY <1>1, <1>2, <1>3, SignalCallKeeps DEF VerifyFails, Steps, Signals

LEMMA VerifyKeeps ==
    ASSUME PinInv, UNCHANGED hasPidfd, NEW p \in Pid, Verify(p)
    PROVE  PinInv'
<1>1. ctl' = [ctl EXCEPT ![p].step = "verified", ![p].err = ctl[p].err]
    BY DEF Verify, PinInv, PinTypeOK, Controller
<1>2. ~hasPidfd /\ ctl[p].meta > 0
    BY DEF Verify, PinInv, Sound, PinTypeOK, Controller
<1>3. Sound(p)'
    BY <1>1, <1>2 DEF Verify, StillPinned, ReadStartTime, PinInv, Sound, PinTypeOK, Controller
<1> QED BY <1>1, <1>2, <1>3, SignalCallKeeps
        DEF Verify, Steps, Signals, PinInv, PinTypeOK, Controller

LEMMA RawKillKeeps ==
    ASSUME PinInv, UNCHANGED hasPidfd, NEW p \in Pid, NEW sig \in Signals, NEW e \in Errors, RawKill(p, sig, e)
    PROVE  PinInv'
<1>1. ctl' = [ctl EXCEPT ![p].step = "pinned", ![p].err = e]
    BY DEF RawKill, SignalReturns
<1>2. ~hasPidfd /\ ctl[p].meta > 0 /\ ctl[p].fd = 0
    BY DEF RawKill, PinInv, Sound
<1>3. Sound(p)'
    BY <1>1, <1>2, PinAssumption
    DEF RawKill, PinInv, Sound, StartsFresh, PinTypeOK, Controller, Vanished, kernelVars
<1> QED BY <1>1, <1>2, <1>3, SignalCallKeeps DEF RawKill, Steps

LEMMA SignalClosedKeeps ==
    ASSUME PinInv, UNCHANGED hasPidfd, NEW p \in Pid, SignalClosed(p)
    PROVE  PinInv'
<1>1. ctl' = [ctl EXCEPT ![p].step = "closed", ![p].err = "ProcessGone"]
    BY DEF SignalClosed, PinInv, PinTypeOK, Controller
<1>2. Sound(p)'
    BY <1>1 DEF SignalClosed, PinInv, Sound, PinTypeOK, Controller
<1> QED BY <1>1, <1>2, SignalCallKeeps DEF SignalClosed, Steps, Signals, Errors

(* What Close does to one controller.                                        *)
LEMMA CloseChanges ==
    ASSUME ctl \in [Pid -> Controller], NEW S \in SUBSET Pid, Close(S), NEW q \in Pid
    PROVE  /\ ctl'[q] \in Controller
           /\ \/ ctl'[q] = ctl[q]
              \/ /\ ctl[q].step = "pinned" /\ ctl'[q].step = "closed"
                 /\ ctl'[q].fd = 0 /\ ctl'[q].meta = ctl[q].meta
                 /\ ctl'[q].before = ctl[q].before /\ ctl'[q].err = ctl[q].err
<1> DEFINE c == [ctl[q] EXCEPT !.step = "closed", !.fd = 0]
<1>1. ctl'[q] = IF q \in S /\ ctl[q].step = "pinned" THEN c ELSE ctl[q]
    BY DEF Close
<1>2. ctl[q] \in Controller
    OBVIOUS
<1>3. /\ c \in Controller
      /\ c.step = "closed" /\ c.fd = 0 /\ c.meta = ctl[q].meta
      /\ c.before = ctl[q].before /\ c.err = ctl[q].err
    BY ONLY <1>2 DEF Controller, Steps
<1> HIDE DEF c
<1> QED BY <1>1, <1>2, <1>3

LEMMA CloseKeeps ==
    ASSUME PinInv, UNCHANGED hasPidfd, NEW S \in SUBSET Pid, Close(S)
    PROVE  PinInv'
<1>1. ctl \in [Pid -> Controller] /\ UNCHANGED <<table, holders, nextStart, delivered>>
    BY DEF PinInv, PinTypeOK, Close, kernelVars
<1>2. DOMAIN ctl' = Pid /\ ctl' = [q \in Pid |-> ctl'[q]]
    BY DEF Close
<1>3. PinTypeOK'
    BY <1>1, <1>2, CloseChanges DEF PinInv, PinTypeOK, KernelTypeOK
<1>4. StartsFresh'
    BY <1>1, CloseChanges DEF PinInv, StartsFresh, PinTypeOK, KernelTypeOK, Exists, Controller
<1>5. ASSUME NEW q \in Pid PROVE Sound(q)'
    BY <1>1, CloseChanges DEF PinInv, Sound
<1>6. Faithful'
    BY <1>1, CloseChanges DEF PinInv, Faithful, PinTypeOK
<1> QED BY <1>3, <1>4, <1>5, <1>6 DEF PinInv

LEMMA PinInvStep == PinInv /\ [PinNext]_sysVars => PinInv'
<1> SUFFICES ASSUME PinInv, [PinNext]_sysVars
             PROVE  PinInv'
    OBVIOUS
<1>1. CASE UNCHANGED sysVars
    BY <1>1 DEF sysVars, kernelVars, pinVars, PinInv, PinTypeOK, KernelTypeOK, StartsFresh,
       Exists, Sound, Faithful
<1> QED BY <1>1, EnvironmentKeeps, ReadMetaKeeps, ReadBeforeKeeps, PidfdOpenKeeps,
           ReadAfterKeeps, SendPidfdKeeps, VerifyFailsKeeps, VerifyKeeps, RawKillKeeps,
           SignalClosedKeeps, CloseKeeps DEF PinNext

-----------------------------------------------------------------------------

(* The inductive invariant, and the types of the kernel and the controllers. *)
THEOREM PinInvariant == PinSpec => []PinInv
BY PinInvInit, PinInvStep, PTL DEF PinSpec

(* Kernel and controllers keep their types.                                  *)
THEOREM PinTypeCorrect == PinSpec => []PinTypeOK
<1>1. PinInv => PinTypeOK
    BY DEF PinInv
<1> QED BY <1>1, PinInvariant, PTL

(* The pidfd of a pinned controller is the process whose start time Pin      *)
(* verified.                                                                 *)
THEOREM SandwichHolds == PinSpec => []PinnedIdentity
<1>1. PinInv => PinnedIdentity
    BY DEF PinInv, PinnedIdentity, Sound
<1> QED BY <1>1, PinInvariant, PTL

(* On a kernel with pidfd_open, a signal reaches the pinned process or       *)
(* nobody, however often its PID is reused.                                  *)
THEOREM NoStrangerSignalled == PinSpec => []OnlyPinnedSignalled
<1>1. PinInv => OnlyPinnedSignalled
    BY DEF PinInv, Faithful, OnlyPinnedSignalled
<1> QED BY <1>1, PinInvariant, PTL

(* Pin leaves no pidfd open on any of its error returns.                     *)
THEOREM NoDescriptorLost == PinSpec => []DescriptorOwned
<1>1. PinInv => DescriptorOwned
    BY DEF PinInv, DescriptorOwned, Sound, PinTypeOK, Controller, Steps
<1> QED BY <1>1, PinInvariant, PTL

(* Pin returns a controller for the process discovery named, or none.        *)
THEOREM IdentityKept == PinSpec => DiscoveredIdentityKept
<1>1. PinInv /\ [PinNext]_sysVars =>
          [\A p \in Pid : ctl[p].meta # 0 => ctl'[p].meta = ctl[p].meta]_sysVars
  <2> SUFFICES ASSUME PinInv, PinNext, NEW q \in Pid, ctl[q].meta # 0
               PROVE  ctl'[q].meta = ctl[q].meta
      OBVIOUS
  <2> USE DEF PinInv, PinTypeOK, Controller
  <2>1. CASE UNCHANGED pinVars
      BY <2>1 DEF pinVars
  <2>2. ASSUME NEW p \in Pid, ReadMeta(p) PROVE ctl'[q].meta = ctl[q].meta
      BY <2>2 DEF ReadMeta, Sound
  <2>3. ASSUME NEW p \in Pid, ReadBefore(p) \/ PidfdOpen(p) PROVE ctl'[q].meta = ctl[q].meta
      BY <2>3 DEF ReadBefore, PidfdOpen, PinFails
  <2>4. ASSUME NEW p \in Pid, ReadAfter(p) PROVE ctl'[q].meta = ctl[q].meta
      BY <2>4 DEF ReadAfter, AfterMatches, PinFails, Sound
  <2>5. ASSUME NEW p \in Pid, NEW e \in Errors, NEW sig \in Signals,
               SendPidfd(p, sig, e) \/ VerifyFails(p, e) \/ RawKill(p, sig, e)
        PROVE  ctl'[q].meta = ctl[q].meta
      BY <2>5 DEF SendPidfd, VerifyFails, RawKill, SignalReturns
  <2>6. ASSUME NEW p \in Pid, Verify(p) \/ SignalClosed(p) PROVE ctl'[q].meta = ctl[q].meta
      BY <2>6 DEF Verify, SignalClosed
  <2>7. ASSUME NEW S \in SUBSET Pid, Close(S) PROVE ctl'[q].meta = ctl[q].meta
      BY <2>7 DEF Close
  <2>8. "TERM" \in Signals
      BY DEF Signals
  <2> QED BY <2>1, <2>2, <2>3, <2>4, <2>5, <2>6, <2>7, <2>8 DEF PinNext
<1> QED BY <1>1, PinInvariant, PTL DEF PinSpec, DiscoveredIdentityKept

(* A call that delivers a signal is of a controller that has not reported    *)
(* its process gone or replaced.                                             *)
LEMMA VanishedSignalsNobody ==
    ASSUME PinInv, PinNext, NEW d \in delivered' \ delivered
    PROVE  ctl[d.pid].err \notin Vanished
<1>1. PICK p \in Pid, sig \in Signals, e \in Errors :
          /\ SendPidfd(p, sig, e) \/ RawKill(p, sig, e)
          /\ Reaches(p, sig)
  <2>1. delivered' # delivered
      OBVIOUS
  <2>2. \E p \in Pid, sig \in Signals, e \in Errors :
            SendPidfd(p, sig, e) \/ RawKill(p, sig, e)
      BY <2>1 DEF PinNext, pinVars, ReadMeta, ReadBefore, PidfdOpen, ReadAfter, Verify,
                  SignalClosed, VerifyFails, Close
  <2>3. ASSUME NEW p \in Pid, NEW sig \in Signals, NEW e \in Errors,
               SendPidfd(p, sig, e) \/ RawKill(p, sig, e)
        PROVE  Reaches(p, sig)
      BY <2>1, <2>3 DEF SendPidfd, RawKill
  <2> QED BY <2>2, <2>3
<1>2. d.pid = p
    BY <1>1 DEF Reaches
<1>3. CASE SendPidfd(p, sig, e)
  <2>1. Refers(p) \/ UNCHANGED delivered
      BY <1>3, PinAssumption DEF SendPidfd
  <2> QED BY <1>2, <1>3, <2>1 DEF SendPidfd, Refers, PinInv, Sound
<1>4. CASE RawKill(p, sig, e)
    BY <1>2, <1>4 DEF RawKill, PinInv, Sound
<1> QED BY <1>1, <1>3, <1>4

(* A controller that reported its process gone or replaced never delivers    *)
(* a signal again, with a pidfd or without.                                  *)
THEOREM GoneForGood == PinSpec => GoneStaysGone
<1>1. PinInv /\ [PinNext]_sysVars =>
          [\A d \in delivered' \ delivered :
              ctl[d.pid].err \notin {"ProcessGone", "IdentityChanged"}]_sysVars
    BY VanishedSignalsNobody DEF Vanished
<1> QED BY <1>1, PinInvariant, PTL DEF PinSpec, GoneStaysGone

-----------------------------------------------------------------------------

Times == 0..(MaxPid + MaxStart)

Bounded == nextStart <= MaxPid + MaxStart + 1

(* No process that came after the pinned one has a younger start time. *)
Aged(p, meta) == table[p].start = 0 \/ table[p].start >= meta

(***************************************************************************)
(* The signals of a controller reached the process it holds, or there is   *)
(* no pidfd and the last one reached a younger process.  The number is     *)
(* then never the held process's again, so that the check before kill(2),  *)
(* which comes to step, cannot succeed any more.                           *)
(***************************************************************************)
Landed(d, meta, checked) ==
    \/ d.start = meta
    \/ ~hasPidfd /\ d.start > meta /\ ~checked /\ table[d.pid].start # meta

LinuxHeld == {"pinned", "verified", "closed"}

LinuxLanded ==
    \A d \in delivered :
        /\ ctl[d.pid].step \in LinuxHeld
        /\ ctl[d.pid].meta > 0
        /\ Landed(d, ctl[d.pid].meta, ctl[d.pid].step = "verified")

LinuxAged == \A p \in Pid : ctl[p].step \in {"pinned", "verified"} => Aged(p, ctl[p].meta)

LinuxInv ==
    /\ PinInv
    /\ LinuxAged
    /\ LinuxLanded
    /\ kctl = [p \in Pid |-> D!KUnused]

(***************************************************************************)
(* macOS.  What a controller's step tells of its fields and of the process *)
(* is as on Linux: an event filter on another process than the one whose   *)
(* start time was read means that this start time is gone for good.  Of a  *)
(* controller of start time 0, which Pin took of a zombie, nothing is      *)
(* known.                                                                  *)
(***************************************************************************)
KHeld == {"pinned", "live", "same", "closed"}

KSound(p) ==
    LET c == kctl[p] IN
    /\ c.kq <=> c.step \in {"watched", "pinned", "live", "same"}
    /\ c.step = "idle" => c.meta = 0
    /\ c.step \in {"before", "watched"} => c.meta \in {0, c.before}
    /\ c.step = "watched" /\ c.before > 0 /\ c.knote # c.before => table[p].start # c.before
    /\ c.step \in {"pinned", "live", "same"} /\ c.meta > 0 => c.knote = c.meta /\ Aged(p, c.meta)
    /\ c.exited => /\ c.step \in {"pinned", "closed"}
                   /\ ~(Alive(p) /\ table[p].start = c.meta)
    /\ c.meta < nextStart /\ c.before < nextStart

KLanded ==
    \A d \in delivered :
        /\ kctl[d.pid].step \in KHeld
        /\ kctl[d.pid].meta > 0
              => Landed(d, kctl[d.pid].meta, kctl[d.pid].step = "same")

DarwinInv ==
    /\ PinTypeOK
    /\ D!DarwinTypeOK
    /\ ~hasPidfd
    /\ ctl = [p \in Pid |-> Unused]
    /\ nextStart > 0
    /\ \A p \in Pid : table[p].start < nextStart /\ (Exists(p) <=> table[p].start > 0)
    /\ \A p \in Pid : KSound(p)
    /\ KLanded

-----------------------------------------------------------------------------

(* What the steps of Hold look like in terms of its mapping. *)

LEMMA SentStays ==
    ASSUME PinTypeOK, UNCHANGED delivered, \A q \in Pid : Held(q)' = Held(q)
    PROVE  UNCHANGED Sent
BY DEF PinTypeOK, Sent

LEMMA HoldStutters ==
    ASSUME PinTypeOK, UNCHANGED <<hasPidfd, delivered>>,
           \A p \in Pid : Held(p)' = Held(p) /\ Known(p)' = Known(p)
    PROVE  UNCHANGED H!vars
BY SentStays DEF H!vars

LEMMA HoldReads ==
    ASSUME NEW p \in Pid, PinTypeOK, UNCHANGED <<hasPidfd, delivered>>,
           Held(p) = 0, Known(p) = 0, Known(p)' \in Times,
           \A q \in Pid : Held(q)' = Held(q) /\ (q # p => Known(q)' = Known(q))
    PROVE  H!Next
<1>1. H!Read(p)
    BY SentStays DEF H!Read, Times
<1> QED BY <1>1 DEF H!Next

LEMMA HoldTakes ==
    ASSUME NEW p \in Pid, PinTypeOK, UNCHANGED <<hasPidfd, delivered>>,
           Held(p) = 0, Held(p)' \in Times \ {0}, Known(p)' = Held(p)', Known(p) \in {0, Held(p)'},
           \A q \in Pid \ {p} : Held(q)' = Held(q) /\ Known(q)' = Known(q),
           \A d \in delivered : d.pid # p
    PROVE  H!Next
<1>0. UNCHANGED Sent
    BY DEF PinTypeOK, Sent
<1>1. PICK s : s = Held(p)'
    OBVIOUS
<1>2. \A q \in Pid : Held(q)' = IF q = p THEN s ELSE Held(q)
    BY <1>1
<1>3. [q \in Pid |-> Held(q)]' = [[q \in Pid |-> Held(q)] EXCEPT ![p] = s]
    BY <1>2
<1>4. [q \in Pid |-> Known(q)]' = [[q \in Pid |-> Known(q)] EXCEPT ![p] = s]
    BY <1>1
<1>5. H!Take(p)
    BY <1>0, <1>1, <1>3, <1>4 DEF H!Take, Times
<1> QED BY <1>5 DEF H!Next

LEMMA HoldSignals ==
    ASSUME NEW p \in Pid, NEW sig \in Signals, PinTypeOK, UNCHANGED hasPidfd, Held(p) # 0,
           \A d \in delivered : d.pid = p => d.start = Held(p),
           NEW s \in Times, s = Held(p) \/ (~hasPidfd /\ s > Held(p)),
           delivered' = delivered \cup {[pid |-> p, start |-> s, sig |-> sig]},
           \A q \in Pid : Held(q)' = Held(q) /\ Known(q)' = Known(q)
    PROVE  H!Next
<1>0. Sent' = Sent \cup {[pid |-> p, start |-> s, sig |-> sig]}
    BY DEF PinTypeOK, Sent
<1>1. H!Exact(p)
    BY DEF H!Exact, Sent
<1>2. UNCHANGED <<[q \in Pid |-> Held(q)], [q \in Pid |-> Known(q)], ~hasPidfd>>
    OBVIOUS
<1>3. CASE s = Held(p)
  <2>1. H!Signal(p, sig)
      BY <1>0, <1>1, <1>2, <1>3 DEF H!Signal, H!Deliver
  <2> QED BY <2>1 DEF H!Next
<1>4. CASE ~hasPidfd /\ s > Held(p)
  <2>1. H!Miss(p, sig)
      BY <1>0, <1>1, <1>2, <1>4 DEF H!Miss, H!Deliver, Times
  <2> QED BY <2>1 DEF H!Next
<1> QED BY <1>3, <1>4

-----------------------------------------------------------------------------

(* Linux. *)

LEMMA LinuxInit ==
    ASSUME UnixInit, system = "linux" PROVE LinuxInv
<1>1. PinInv
    BY PinInvInit DEF UnixInit
<1>2. \A p \in Pid : ctl[p].step = "idle"
    BY DEF UnixInit, PinInit, Unused
<1>3. delivered = {}
    BY DEF UnixInit, PinInit
<1>4. kctl = [p \in Pid |-> D!KUnused]
    BY DEF UnixInit, D!DarwinInit, D!Pid, Pid
<1> QED BY <1>1, <1>2, <1>3, <1>4 DEF LinuxInv, LinuxAged, LinuxLanded

(* The other processes and the kernel. *)
LEMMA LinuxOthers ==
    ASSUME LinuxInv, system = "linux", Environment, UNCHANGED <<pinVars, hasPidfd, system, kctl>>
    PROVE  LinuxAged' /\ LinuxLanded' /\ UNCHANGED H!vars
<1> USE EnvironmentMoves DEF LinuxInv, PinInv, PinTypeOK, KernelTypeOK, StartsFresh, pinVars
<1>1. LinuxAged'
    BY DEF LinuxAged, Aged, Process, Controller
<1>2. LinuxLanded'
  <2> SUFFICES ASSUME NEW d \in delivered
               PROVE  /\ ctl[d.pid].step \in LinuxHeld
                      /\ ctl[d.pid].meta > 0
                      /\ Landed(d, ctl[d.pid].meta, ctl[d.pid].step = "verified")'
      BY DEF LinuxLanded
  <2>1. d.pid \in Pid
      OBVIOUS
  <2>2. ctl[d.pid].meta \in Nat /\ ctl[d.pid].meta > 0 /\ ctl[d.pid].meta < nextStart
      BY <2>1 DEF LinuxLanded, Controller
  <2>3. table[d.pid].start # ctl[d.pid].meta => table'[d.pid].start # ctl[d.pid].meta
      BY <2>1, <2>2
  <2> QED BY <2>2, <2>3 DEF LinuxLanded, Landed
<1>3. UNCHANGED H!vars
    BY HoldStutters DEF Held, Known
<1> QED BY <1>1, <1>2, <1>3

(* A call that delivers nothing and leaves no controller with the process    *)
(* checked that was not.                                                     *)
LEMMA LinuxQuiet ==
    ASSUME LinuxInv, system = "linux", UNCHANGED <<kernelVars, delivered, hasPidfd, system, kctl>>,
           \A p \in Pid : /\ ctl'[p].meta = ctl[p].meta
                          /\ ctl'[p].step \in LinuxHeld <=> ctl[p].step \in LinuxHeld
                          /\ ctl[p].step = "closed" => ctl'[p].step = "closed"
                          /\ ctl'[p].step = "verified" => table[p].start = ctl[p].meta \/ ctl[p].step = "verified"
    PROVE  LinuxAged' /\ LinuxLanded' /\ UNCHANGED H!vars
<1> USE DEF LinuxInv, PinInv, PinTypeOK, KernelTypeOK, kernelVars
<1>1. LinuxAged'
    BY DEF LinuxAged, Aged, LinuxHeld
<1>2. LinuxLanded'
    BY DEF LinuxLanded, Landed, LinuxHeld
<1>3. UNCHANGED H!vars
    BY HoldStutters DEF Held, Known, LinuxHeld
<1> QED BY <1>1, <1>2, <1>3

LEMMA LinuxReads ==
    ASSUME LinuxInv, Bounded, system = "linux", NEW p \in Pid, ReadMeta(p),
           UNCHANGED <<hasPidfd, system, kctl>>
    PROVE  LinuxAged' /\ LinuxLanded' /\ H!Next
<1> USE DEF LinuxInv, PinInv, PinTypeOK, KernelTypeOK, ReadMeta, ReadStartTime, kernelVars
<1>1. LinuxAged'
    BY DEF LinuxAged, Aged
<1>2. LinuxLanded'
    BY DEF LinuxLanded, Landed, LinuxHeld
<1>3. table[p].start \in Times
    BY KernelAssumption DEF StartsFresh, Process, Bounded, Times
<1>4. H!Next
    BY <1>3, HoldReads DEF Held, Known, Sound, Controller
<1> QED BY <1>1, <1>2, <1>4

LEMMA LinuxPins ==
    ASSUME LinuxInv, Bounded, system = "linux", NEW p \in Pid, ReadAfter(p),
           UNCHANGED <<hasPidfd, system, kctl>>
    PROVE  LinuxAged' /\ LinuxLanded' /\ [H!Next]_(H!vars)
<1> USE DEF LinuxInv, PinInv, PinTypeOK, KernelTypeOK, Controller
<1>1. CASE \E e \in Errors : PinFails(p, e)
  <2>1. UNCHANGED <<kernelVars, delivered>> /\ ctl[p].step = "opened"
      BY DEF ReadAfter
  <2> QED BY <1>1, <2>1, LinuxQuiet DEF PinFails, LinuxHeld
<1>2. CASE /\ Exists(p) /\ AfterMatches(p)
           /\ ctl' = [ctl EXCEPT ![p].step = "pinned", ![p].meta = ReadStartTime(p)]
  <2> USE <1>2 DEF ReadAfter, ReadStartTime, kernelVars
  <2>1. LinuxAged'
      BY DEF LinuxAged, Aged
  <2>2. LinuxLanded'
      BY DEF LinuxLanded, Landed, LinuxHeld
  <2>3. table[p].start \in Times \ {0}
      BY KernelAssumption DEF StartsFresh, Process, Bounded, Times
  <2>4. ctl[p].meta \in {0, table[p].start}
      BY DEF AfterMatches, Sound
  <2>5. \A d \in delivered : d.pid # p
      BY DEF LinuxLanded, LinuxHeld
  <2>6. H!Next
      BY <2>3, <2>4, <2>5, HoldTakes DEF Held, Known
  <2> QED BY <2>1, <2>2, <2>6
<1> QED BY <1>1, <1>2 DEF ReadAfter, Errors

LEMMA LinuxSends ==
    ASSUME LinuxInv, Bounded, system = "linux", NEW p \in Pid, NEW sig \in Signals,
           NEW e \in Errors, SendPidfd(p, sig, e), UNCHANGED <<hasPidfd, system, kctl>>
    PROVE  LinuxAged' /\ LinuxLanded' /\ [H!Next]_(H!vars)
<1> USE DEF LinuxInv, PinInv, PinTypeOK, KernelTypeOK, Controller
<1>1. CASE UNCHANGED delivered
    BY <1>1, LinuxQuiet DEF SendPidfd, SignalReturns, LinuxHeld
<1>2. CASE Refers(p) /\ Reaches(p, sig)
  <2>1. hasPidfd /\ ctl[p].meta > 0 /\ table[p].start = ctl[p].meta
      BY <1>2 DEF SendPidfd, Sound, Refers
  <2> USE <1>2, <2>1 DEF SendPidfd, SignalReturns, Reaches, kernelVars
  <2>2. LinuxAged'
      BY DEF LinuxAged, Aged
  <2>3. LinuxLanded'
      BY DEF LinuxLanded, Landed, LinuxHeld
  <2>4. table[p].start \in Times
      BY KernelAssumption DEF StartsFresh, Process, Bounded, Times
  <2>5. H!Next
    <3>1. \A d \in delivered : d.pid = p => d.start = Held(p)
        BY DEF LinuxLanded, Landed, Held, LinuxHeld
    <3> QED BY <2>4, <3>1, HoldSignals DEF Held, Known, LinuxHeld
  <2> QED BY <2>2, <2>3, <2>5
<1> QED BY <1>1, <1>2, PinAssumption DEF SendPidfd

LEMMA LinuxKills ==
    ASSUME LinuxInv, Bounded, system = "linux", NEW p \in Pid, NEW sig \in Signals,
           NEW e \in Errors, RawKill(p, sig, e), UNCHANGED <<hasPidfd, system, kctl>>
    PROVE  LinuxAged' /\ LinuxLanded' /\ [H!Next]_(H!vars)
<1> USE DEF LinuxInv, PinInv, PinTypeOK, KernelTypeOK, Controller
<1>1. CASE UNCHANGED delivered
    BY <1>1, LinuxQuiet DEF RawKill, SignalReturns, LinuxHeld
<1>2. CASE Exists(p) /\ Reaches(p, sig)
  <2>1. ~hasPidfd /\ ctl[p].meta > 0 /\ ctl[p].step = "verified"
      BY DEF RawKill, Sound
  <2>2. table[p].start >= ctl[p].meta
      BY <1>2, <2>1 DEF LinuxAged, Aged, StartsFresh, Process
  <2> USE <1>2, <2>1, <2>2 DEF RawKill, SignalReturns, Reaches, kernelVars
  <2>3. LinuxAged'
      BY DEF LinuxAged, Aged
  <2>4. LinuxLanded'
    <3>1. \A d \in delivered : d.pid = p => d.start = ctl[p].meta
        BY DEF LinuxLanded, Landed
    <3>2. ASSUME NEW d \in delivered', d.pid = p
          PROVE  d.start = ctl[p].meta \/ (d.start > ctl[p].meta /\ table[p].start # ctl[p].meta)
      <4>1. table[p].start \in Nat /\ ctl[p].meta \in Nat
          BY DEF Process
      <4>2. d \in delivered \/ d.start = table[p].start
          OBVIOUS
      <4>3. CASE d.start = table[p].start
          BY ONLY <2>2, <4>1, <4>3
      <4> QED BY <3>1, <3>2, <4>2, <4>3
    <3>3. ctl'[p].step = "pinned" /\ ctl'[p].meta = ctl[p].meta
        OBVIOUS
    <3>4. \A d \in delivered' : d.pid # p => d \in delivered /\ ctl'[d.pid] = ctl[d.pid]
        OBVIOUS
    <3>5. UNCHANGED <<table, hasPidfd>>
        OBVIOUS
    <3> QED BY ONLY <2>1, LinuxLanded, <3>2, <3>3, <3>4, <3>5 DEF LinuxLanded, Landed, LinuxHeld
  <2>5. table[p].start \in Times
      BY KernelAssumption DEF StartsFresh, Process, Bounded, Times
  <2>6. H!Next
    <3>1. \A d \in delivered : d.pid = p => d.start = Held(p)
        BY DEF LinuxLanded, Landed, Held, LinuxHeld
    <3>2. table[p].start \in Nat /\ ctl[p].meta \in Nat /\ Held(p) = ctl[p].meta
        BY DEF Held, Process
    <3>3. table[p].start = Held(p) \/ (~hasPidfd /\ table[p].start > Held(p))
        BY ONLY <2>1, <2>2, <3>2
    <3>4. \A q \in Pid : Held(q)' = Held(q) /\ Known(q)' = Known(q)
        BY DEF Held, Known
    <3>5. UNCHANGED hasPidfd /\ Held(p) # 0
        BY <3>2
    <3>6. delivered' = delivered \cup {[pid |-> p, start |-> table[p].start, sig |-> sig]}
        OBVIOUS
    <3>7. PinTypeOK
        OBVIOUS
    <3> QED BY ONLY <2>5, <3>1, <3>3, <3>4, <3>5, <3>6, <3>7, HoldSignals
  <2> QED BY <2>3, <2>4, <2>6
<1> QED BY <1>1, <1>2 DEF RawKill

LEMMA LinuxStep ==
    ASSUME LinuxInv, Bounded, system = "linux", PinNext, UNCHANGED <<system, kctl>>
    PROVE  LinuxInv' /\ Bounded' /\ [H!Next]_(H!vars)
<1> USE DEF LinuxInv
<1>1. PinInv'
    BY PinInvStep
<1>2. UNCHANGED hasPidfd
    BY DEF PinNext
<1>3. kctl' = [p \in Pid |-> D!KUnused]'
    BY DEF D!KUnused
<1> DEFINE Goal == LinuxAged' /\ LinuxLanded' /\ [H!Next]_(H!vars)
<1>4. Goal
  <2>1. CASE Environment /\ UNCHANGED pinVars
      BY <1>2, <2>1, LinuxOthers
  <2>2. ASSUME NEW p \in Pid, ReadMeta(p) PROVE Goal
      BY <1>2, <2>2, LinuxReads
  <2>3. ASSUME NEW p \in Pid, ReadBefore(p) \/ PidfdOpen(p) \/ Verify(p) \/ SignalClosed(p)
        PROVE  Goal
      BY <1>2, <2>3, LinuxQuiet
      DEF ReadBefore, PidfdOpen, Verify, StillPinned, ReadStartTime, SignalClosed, PinFails,
          LinuxHeld, PinInv, PinTypeOK, Controller
  <2>4. ASSUME NEW p \in Pid, ReadAfter(p) PROVE Goal
      BY <1>2, <2>4, LinuxPins
  <2>5. ASSUME NEW p \in Pid, NEW e \in Errors, VerifyFails(p, e) PROVE Goal
      BY <1>2, <2>5, LinuxQuiet DEF VerifyFails, SignalReturns, LinuxHeld, PinInv, PinTypeOK,
         Controller
  <2>6. ASSUME NEW p \in Pid, NEW e \in Errors, NEW sig \in Signals,
               SendPidfd(p, sig, e) \/ RawKill(p, sig, e)
        PROVE  Goal
      BY <1>2, <2>6, LinuxSends, LinuxKills
  <2>7. ASSUME NEW S \in SUBSET Pid, Close(S) PROVE Goal
    <3>1. ctl \in [Pid -> Controller] /\ UNCHANGED <<kernelVars, delivered>>
        BY <2>7 DEF PinInv, PinTypeOK, Close
    <3>2. \A p \in Pid : \/ ctl'[p] = ctl[p]
                         \/ /\ ctl[p].step = "pinned" /\ ctl'[p].step = "closed"
                            /\ ctl'[p].meta = ctl[p].meta
        BY <2>7, <3>1, CloseChanges
    <3> HIDE DEF LinuxInv
    <3> QED BY <1>2, <3>1, <3>2, LinuxQuiet DEF LinuxHeld
  <2> QED BY <2>1, <2>2, <2>3, <2>4, <2>5, <2>6, <2>7 DEF PinNext
<1>5. Bounded'
  <2>1. CASE Environment
      BY <2>1, EnvironmentMoves, KernelAssumption DEF Bounded, PinInv, PinTypeOK, KernelTypeOK
  <2>2. CASE UNCHANGED kernelVars
      BY <2>2 DEF Bounded, kernelVars
  <2>3. Environment \/ UNCHANGED kernelVars
    <3>1. ASSUME NEW p \in Pid, ReadMeta(p) \/ ReadBefore(p) \/ PidfdOpen(p) \/ ReadAfter(p)
          PROVE  UNCHANGED kernelVars
        BY ONLY <3>1 DEF ReadMeta, ReadBefore, PidfdOpen, ReadAfter
    <3>2. ASSUME NEW p \in Pid, NEW e \in Errors, NEW sig \in Signals,
                 \/ Verify(p) \/ SignalClosed(p) \/ VerifyFails(p, e)
                 \/ SendPidfd(p, sig, e) \/ RawKill(p, sig, e)
          PROVE  UNCHANGED kernelVars
        BY ONLY <3>2 DEF Verify, SignalClosed, VerifyFails, SendPidfd, RawKill
    <3>3. ASSUME NEW S \in SUBSET Pid, Close(S) PROVE UNCHANGED kernelVars
        BY ONLY <3>3 DEF Close
    <3>4. "nil" \in Errors /\ "TERM" \in Signals
        BY DEF Errors, Signals
    <3> HIDE DEF LinuxInv
    <3> QED BY <3>1, <3>2, <3>3, <3>4 DEF PinNext
  <2> QED BY <2>1, <2>2, <2>3
<1> QED BY <1>1, <1>3, <1>4, <1>5

-----------------------------------------------------------------------------

(* macOS. *)

LEMMA DarwinInit ==
    ASSUME UnixInit, system = "darwin" PROVE DarwinInv
<1>1. PinInv /\ ctl = [p \in Pid |-> Unused] /\ delivered = {}
    BY PinInvInit DEF UnixInit, PinInit
<1>2. kctl = [p \in Pid |-> D!KUnused]
    BY DEF UnixInit, D!DarwinInit, D!Pid, Pid
<1>3. D!DarwinTypeOK
    BY <1>2 DEF D!DarwinTypeOK, D!KUnused, D!DarwinController, D!KSteps, D!KErrors, D!Pid, Pid
<1>4. ASSUME NEW p \in Pid PROVE KSound(p)
    BY <1>1, <1>2 DEF KSound, D!KUnused, KHeld, PinInv, StartsFresh
<1> QED BY <1>1, <1>3, <1>4 DEF DarwinInv, KLanded, PinInv, StartsFresh, UnixInit

LEMMA SameEnvironment == D!Environment => Environment
BY DEF D!Environment, Environment, D!Pid, Pid, D!Fork, Fork, D!Listen, Listen, D!CloseSocket,
       CloseSocket, D!Exit, Exit, D!Reap, Reap, D!NoProcess, NoProcess, D!Holders, Holders,
       D!Alive, Alive, D!Exists, Exists

LEMMA DarwinOthers ==
    ASSUME DarwinInv, Bounded, system = "darwin", D!Environment, UNCHANGED D!darwinVars,
           UNCHANGED <<hasPidfd, system, ctl>>
    PROVE  DarwinInv' /\ Bounded' /\ UNCHANGED H!vars
<1> USE DEF DarwinInv, PinTypeOK, KernelTypeOK, D!darwinVars
<1>1. Environment
    BY SameEnvironment
<1>2. /\ KernelTypeOK'
      /\ nextStart' = nextStart \/ (nextStart' = nextStart + 1 /\ nextStart <= MaxStart)
      /\ \A p \in Pid :
            \/ /\ table'[p].start = table[p].start
               /\ Exists(p)' <=> Exists(p)
               /\ Alive(p)' => Alive(p)
            \/ table'[p].start = 0 /\ ~Exists(p)'
            \/ table'[p].start = nextStart /\ Exists(p)' /\ nextStart' = nextStart + 1
    BY <1>1, EnvironmentMoves
<1>3. PinTypeOK' /\ D!DarwinTypeOK'
    BY <1>2 DEF D!DarwinTypeOK
<1>4. nextStart' > 0 /\ \A p \in Pid : table'[p].start < nextStart' /\ (Exists(p)' <=> table'[p].start > 0)
    BY <1>2 DEF Process
<1>5. ASSUME NEW p \in Pid PROVE KSound(p)'
  <2>1. kctl[p].meta \in Nat /\ kctl[p].before \in Nat /\ nextStart \in Nat /\ kctl' = kctl
      BY DEF D!DarwinTypeOK, D!Pid, Pid, D!DarwinController
  <2>2. KSound(p) /\ kctl[p].meta < nextStart /\ kctl[p].before < nextStart
      BY DEF KSound
  <2>3. nextStart' \in Nat /\ nextStart' >= nextStart
      BY <1>2, <2>1
  <2>4. kctl[p].meta < nextStart' /\ kctl[p].before < nextStart'
      BY ONLY <2>1, <2>2, <2>3
  <2>5. \/ table'[p].start = table[p].start /\ (Alive(p)' => Alive(p))
        \/ table'[p].start = 0 /\ ~Alive(p)'
        \/ table'[p].start = nextStart
      BY <1>2 DEF Alive, Exists
  <2>6. kctl[p].before > 0 /\ table[p].start # kctl[p].before
            => table'[p].start # kctl[p].before
      BY ONLY <2>1, <2>2, <2>5
  <2>7. Aged(p, kctl[p].meta) => Aged(p, kctl[p].meta)'
      BY ONLY <2>1, <2>2, <2>5 DEF Aged
  <2>8. ~(Alive(p) /\ table[p].start = kctl[p].meta)
            => ~(Alive(p)' /\ table'[p].start = kctl[p].meta)
      BY ONLY <2>1, <2>2, <2>5
  <2> QED BY ONLY <2>1, <2>2, <2>4, <2>6, <2>7, <2>8 DEF KSound
<1>6. KLanded'
  <2> SUFFICES ASSUME NEW d \in delivered
               PROVE  /\ kctl[d.pid].step \in KHeld
                      /\ kctl[d.pid].meta > 0
                            => Landed(d, kctl[d.pid].meta, kctl[d.pid].step = "same")'
      BY DEF KLanded
  <2>1. d.pid \in Pid /\ kctl[d.pid] \in D!DarwinController
      BY DEF D!DarwinTypeOK, D!Pid, Pid
  <2>2. kctl[d.pid].meta \in Nat /\ kctl[d.pid].meta < nextStart
      BY <2>1 DEF KSound, D!DarwinController
  <2>3. kctl[d.pid].meta > 0 /\ table[d.pid].start # kctl[d.pid].meta
            => table'[d.pid].start # kctl[d.pid].meta
      BY <1>2, <2>1, <2>2
  <2> QED BY <2>2, <2>3 DEF KLanded, Landed
<1>7. Bounded'
    BY <1>2, KernelAssumption DEF Bounded
<1>8. UNCHANGED H!vars
    BY HoldStutters DEF Held, Known
<1> QED BY <1>3, <1>4, <1>5, <1>6, <1>7, <1>8

(* A call for p that leaves the kernel and the signals alone, and after      *)
(* which what is known of p is sound and p is held if it was.                *)
LEMMA DarwinCall ==
    ASSUME DarwinInv, system = "darwin", NEW p \in Pid, NEW c \in D!DarwinController,
           UNCHANGED <<kernelVars, delivered, hasPidfd, system, ctl>>,
           kctl' = [kctl EXCEPT ![p] = c], KSound(p)',
           kctl[p].step \in KHeld => c.step \in KHeld /\ c.meta = kctl[p].meta,
           c.step = "same" /\ c.meta > 0 => table[p].start = c.meta
    PROVE  DarwinInv'
<1> USE DEF DarwinInv, PinTypeOK, KernelTypeOK, kernelVars
<1>1. D!DarwinTypeOK'
    BY DEF D!DarwinTypeOK, D!Pid, Pid
<1>2. ASSUME NEW q \in Pid PROVE KSound(q)'
    BY DEF KSound, Aged, Alive, D!DarwinTypeOK, D!Pid, Pid
<1>3. ASSUME NEW q \in Pid PROVE (Exists(q)' <=> Exists(q))
    BY DEF Exists
<1>4. KLanded'
    BY DEF KLanded, Landed, D!DarwinTypeOK, D!Pid, Pid
<1> QED BY <1>1, <1>2, <1>3, <1>4

LEMMA DarwinQuiet ==
    ASSUME DarwinInv, system = "darwin", NEW p \in Pid, NEW c \in D!DarwinController,
           UNCHANGED <<kernelVars, delivered, hasPidfd, system, ctl>>,
           kctl' = [kctl EXCEPT ![p] = c], KSound(p)',
           c.meta = kctl[p].meta, kctl[p].step \in KHeld <=> c.step \in KHeld,
           c.step = "same" /\ c.meta > 0 => table[p].start = c.meta
    PROVE  DarwinInv' /\ [H!Next]_(H!vars)
<1>1. UNCHANGED H!vars
    BY HoldStutters DEF Held, Known, KHeld, DarwinInv, D!DarwinTypeOK, D!Pid, Pid
<1> QED BY <1>1, DarwinCall

(* What the error returns of Pin and of signal do to what is known of p.     *)
LEMMA DarwinReturns ==
    ASSUME DarwinInv, system = "darwin", NEW p \in Pid, NEW e \in D!KErrors,
           UNCHANGED <<kernelVars, delivered, hasPidfd, system, ctl>>,
           \/ D!KPinFails(p, e) /\ kctl[p].step \in {"found", "before", "watched"}
           \/ D!KReturns(p, e) /\ kctl[p].step \in {"pinned", "live", "same"}
    PROVE  DarwinInv' /\ [H!Next]_(H!vars)
<1> USE DEF DarwinInv, D!DarwinTypeOK, D!Pid, Pid, D!DarwinController, D!KSteps, D!KErrors, kernelVars
<1>1. CASE D!KPinFails(p, e) /\ kctl[p].step \in {"found", "before", "watched"}
  <2> DEFINE c == [kctl[p] EXCEPT !.step = "failed", !.before = 0, !.kq = FALSE, !.knote = 0,
                           !.err = e]
  <2>1. kctl' = [kctl EXCEPT ![p] = c] /\ c \in D!DarwinController
    <3>1. kctl[p] \in D!DarwinController
        OBVIOUS
    <3>2. c \in D!DarwinController
        BY ONLY <3>1, e \in D!KErrors DEF D!DarwinController, D!KSteps
    <3>3. kctl' = [kctl EXCEPT ![p] = c]
        BY <1>1 DEF D!KPinFails
    <3> QED BY <3>2, <3>3
  <2>2. KSound(p)'
      BY <1>1, <2>1 DEF KSound, KHeld
  <2> QED BY <1>1, <2>1, <2>2, DarwinQuiet DEF KHeld
<1>2. CASE D!KReturns(p, e) /\ kctl[p].step \in {"pinned", "live", "same"}
  <2> DEFINE c == [kctl[p] EXCEPT !.step = "pinned", !.err = e]
  <2>1. kctl' = [kctl EXCEPT ![p] = c] /\ c \in D!DarwinController
      BY <1>2 DEF D!KReturns
  <2>2. KSound(p)'
      BY <1>2, <2>1 DEF KSound, KHeld, Aged, Alive
  <2> QED BY <1>2, <2>1, <2>2, DarwinQuiet DEF KHeld
<1> QED BY <1>1, <1>2

(* What a read of the start time may tell. *)
LEMMA TimesRead ==
    ASSUME DarwinInv, Bounded, NEW p \in Pid, NEW s \in D!StartTimes(p)
    PROVE  s \in {0, table[p].start} /\ s \in Times /\ s \in Nat /\ s < nextStart
<1>1. s \in {0, table[p].start}
    BY DEF D!StartTimes
<1>2. /\ table[p].start \in Nat /\ table[p].start < nextStart
      /\ nextStart \in Nat /\ nextStart > 0
    BY DEF DarwinInv, PinTypeOK, KernelTypeOK, Process
<1>3. 0 \in Times /\ table[p].start \in Times
    BY <1>2, KernelAssumption DEF Bounded, Times
<1> QED BY <1>1, <1>2, <1>3

LEMMA DarwinReads ==
    ASSUME DarwinInv, Bounded, system = "darwin", NEW p \in Pid, D!KReadMeta(p),
           UNCHANGED <<hasPidfd, system, ctl>>
    PROVE  DarwinInv' /\ [H!Next]_(H!vars)
<1>0. PICK s \in D!StartTimes(p) : kctl' = [kctl EXCEPT ![p].step = "found", ![p].meta = s]
    BY DEF D!KReadMeta
<1> DEFINE c == [kctl[p] EXCEPT !.step = "found", !.meta = s]
<1>1. /\ kctl \in [Pid -> D!DarwinController] /\ KSound(p) /\ PinTypeOK
      /\ s \in Times /\ s \in Nat /\ s < nextStart
    BY TimesRead DEF DarwinInv, D!DarwinTypeOK, D!Pid, Pid
<1>2. UNCHANGED <<kernelVars, delivered>> /\ kctl[p].step = "idle"
    BY DEF D!KReadMeta, kernelVars, D!kernelVars
<1>3. kctl' = [kctl EXCEPT ![p] = c] /\ c \in D!DarwinController
    BY <1>0, <1>1 DEF D!DarwinController, D!KSteps
<1>4. KSound(p)'
    BY <1>1, <1>2, <1>3 DEF KSound, KHeld, D!DarwinController, kernelVars
<1>5. c.step = "found"
    BY <1>1 DEF D!DarwinController
<1>6. DarwinInv'
    BY <1>2, <1>3, <1>4, <1>5, DarwinCall DEF KHeld
<1>7. H!Next
    BY <1>0, <1>1, <1>2, HoldReads DEF Held, Known, KSound
<1> QED BY <1>6, <1>7

LEMMA DarwinPins ==
    ASSUME DarwinInv, Bounded, system = "darwin", NEW p \in Pid, D!KReadAfter(p),
           UNCHANGED <<hasPidfd, system, ctl>>
    PROVE  DarwinInv' /\ [H!Next]_(H!vars)
<1>0. /\ kctl[p].step = "watched" /\ UNCHANGED <<kernelVars, delivered>>
      /\ PinTypeOK /\ KSound(p) /\ kctl \in [Pid -> D!DarwinController] /\ KLanded
    BY DEF D!KReadAfter, D!kernelVars, kernelVars, DarwinInv, D!DarwinTypeOK, D!Pid, Pid
<1>1. CASE \E e \in D!KErrors : D!KPinFails(p, e)
    BY <1>0, <1>1, DarwinReturns
<1>2. ASSUME NEW s \in D!StartTimes(p), s = kctl[p].before,
             kctl' = [kctl EXCEPT ![p].step = "pinned", ![p].meta = s]
      PROVE  DarwinInv' /\ [H!Next]_(H!vars)
  <2> DEFINE c == [kctl[p] EXCEPT !.step = "pinned", !.meta = s]
  <2>1. s \in {0, table[p].start} /\ s \in Times /\ s \in Nat /\ s < nextStart
      BY TimesRead
  <2>2. kctl[p] \in D!DarwinController /\ kctl' = [kctl EXCEPT ![p] = c]
      BY <1>0, <1>2
  <2>3. /\ c \in D!DarwinController /\ c.step = "pinned" /\ c.meta = s
        /\ c.before = kctl[p].before /\ c.kq = kctl[p].kq /\ c.knote = kctl[p].knote
        /\ c.exited = kctl[p].exited
      BY ONLY <2>1, <2>2 DEF D!DarwinController, D!KSteps
  <2>4. kctl'[p] = c /\ \A q \in Pid \ {p} : kctl'[q] = kctl[q]
      BY ONLY <1>0, <2>2
  <2> HIDE DEF c
  <2>5. ~kctl[p].exited /\ kctl[p].meta \in {0, s} /\ kctl[p].kq
        /\ (s > 0 => kctl[p].knote = s)
      BY ONLY <1>0, <1>2, <2>1, <2>2 DEF KSound, D!DarwinController
  <2>6. KSound(p)'
      BY ONLY <1>0, <1>2, <2>1, <2>3, <2>4, <2>5 DEF KSound, Aged, kernelVars
  <2>7. kctl[p].step \notin KHeld /\ c.step \in KHeld
      BY ONLY <1>0, <2>3 DEF KHeld
  <2>8. DarwinInv'
      BY <1>0, <2>2, <2>3, <2>6, <2>7, DarwinCall
  <2>9. \A d \in delivered : d.pid # p
      BY ONLY <1>0, <2>7 DEF KLanded
  <2>10. /\ Held(p) = 0 /\ Known(p) = kctl[p].meta /\ Held(p)' = s /\ Known(p)' = s
         /\ \A q \in Pid \ {p} : Held(q)' = Held(q) /\ Known(q)' = Known(q)
      BY <1>0, <2>3, <2>4 DEF Held, Known
  <2>11. CASE s = 0
    <3>1. \A q \in Pid : Held(q)' = Held(q) /\ Known(q)' = Known(q)
        BY ONLY <2>5, <2>10, <2>11
    <3> QED BY <1>0, <2>8, <3>1, HoldStutters
  <2>12. CASE s # 0
    <3>1. H!Next
        BY <1>0, <2>1, <2>5, <2>9, <2>10, <2>12, HoldTakes
    <3> QED BY <2>8, <3>1
  <2> QED BY <2>11, <2>12
<1> QED BY <1>1, <1>2 DEF D!KReadAfter, D!KAfterMatches, D!KErrors

LEMMA DarwinKills ==
    ASSUME DarwinInv, Bounded, system = "darwin", NEW p \in Pid, NEW sig \in D!KSignals,
           D!Kill(p, sig), UNCHANGED <<hasPidfd, system, ctl>>
    PROVE  DarwinInv' /\ [H!Next]_(H!vars)
<1> USE DEF DarwinInv, D!DarwinTypeOK, D!Pid, Pid, PinTypeOK, KernelTypeOK, kernelVars, D!kernelVars
<1>1. CASE UNCHANGED delivered
    BY <1>1, PinAssumption, DarwinReturns DEF D!Kill, D!KErrors
<1>2. CASE /\ D!Exists(p) /\ D!KReturns(p, "nil")
           /\ delivered' = delivered \cup {[pid |-> p, start |-> table[p].start, sig |-> sig]}
  <2> DEFINE m == kctl[p].meta
  <2>1. kctl[p].step = "same" /\ m \in Nat /\ UNCHANGED kernelVars
      BY DEF D!Kill, KSound, KHeld, D!DarwinController
  <2>2. table[p].start \in Times /\ table[p].start > 0 /\ table[p].start \in Nat /\ table[p].start >= m
    <3>1. table[p].start \in Nat /\ table[p].start < nextStart /\ (m > 0 => Aged(p, m))
        BY <2>1 DEF Process, KSound
    <3>2. Exists(p) /\ table[p].start > 0
        BY <1>2 DEF D!Exists, Exists
    <3>3. table[p].start \in Times
        BY <3>1, KernelAssumption DEF Bounded, Times
    <3> QED BY <2>1, <3>1, <3>2, <3>3 DEF Aged
  <2> DEFINE c == [kctl[p] EXCEPT !.step = "pinned", !.err = "nil"]
  <2>3. kctl' = [kctl EXCEPT ![p] = c] /\ c \in D!DarwinController
    <3>1. kctl[p] \in D!DarwinController
        OBVIOUS
    <3>2. c \in D!DarwinController
        BY ONLY <3>1 DEF D!DarwinController, D!KSteps, D!KErrors
    <3>3. kctl' = [kctl EXCEPT ![p] = c]
        BY <1>2 DEF D!KReturns, D!DarwinController
    <3> QED BY <3>2, <3>3
  <2>4. m > 0 => \A d \in delivered : d.pid = p => d.start = m
      BY <2>1 DEF KLanded, Landed
  <2>5. PinTypeOK' /\ D!DarwinTypeOK'
      BY <1>2, <2>1, <2>2, <2>3 DEF D!KSignals, Signals
  <2>6. ASSUME NEW q \in Pid PROVE KSound(q)' /\ (Exists(q)' <=> Exists(q))
      BY <2>1, <2>3 DEF KSound, KHeld, Aged, Alive, Exists
  <2>7. KLanded'
    <3>1. ASSUME NEW d \in delivered', d.pid = p, m > 0
          PROVE  Landed(d, m, FALSE)'
      <4>1. d \in delivered \/ d.start = table[p].start
          BY <1>2
      <4>2. d.start = m \/ (d.start > m /\ table[p].start # m)
          BY <2>1, <2>2, <2>4, <3>1, <4>1
      <4>3. ~hasPidfd' /\ m' = m /\ table'[p] = table[p]
          BY <2>1, <2>3
      <4> QED BY <3>1, <4>2, <4>3 DEF Landed
    <3>2. \A d \in delivered' : d.pid # p => d \in delivered /\ kctl'[d.pid] = kctl[d.pid]
        BY <1>2, <2>3
    <3>3. kctl'[p].step = "pinned" /\ kctl'[p].meta = m
        BY <2>3
    <3> QED BY <2>1, <3>1, <3>2, <3>3 DEF KLanded, Landed, KHeld
  <2>8. CASE m = 0
    <3>1. Held(p) = 0 /\ \A q \in Pid : Held(q)' = Held(q) /\ Known(q)' = Known(q)
        BY <2>1, <2>3, <2>8 DEF Held, Known
    <3>2. UNCHANGED Sent
        BY <1>2, <3>1 DEF Sent
    <3>3. UNCHANGED H!vars
        BY <3>1, <3>2 DEF H!vars
    <3> QED BY <2>1, <2>5, <2>6, <2>7, <3>3
  <2>9. CASE m > 0
    <3>1. Held(p) = m /\ \A q \in Pid : Held(q)' = Held(q) /\ Known(q)' = Known(q)
        BY <2>1, <2>3 DEF Held, Known
    <3>2. table[p].start = m \/ (~hasPidfd /\ table[p].start > m)
        BY <2>1, <2>2
    <3>3. sig \in Signals
        BY DEF D!KSignals, Signals
    <3>4. PinTypeOK
        OBVIOUS
    <3>5. H!Next
        BY <1>2, <2>1, <2>2, <2>4, <2>9, <3>1, <3>2, <3>3, <3>4, HoldSignals
    <3> QED BY <2>1, <2>5, <2>6, <2>7, <3>5
  <2> QED BY <2>1, <2>8, <2>9
<1> QED BY <1>1, <1>2 DEF D!Kill

LEMMA DarwinStep ==
    ASSUME DarwinInv, Bounded, system = "darwin", D!DarwinNext,
           UNCHANGED <<hasPidfd, system, ctl>>
    PROVE  DarwinInv' /\ Bounded' /\ [H!Next]_(H!vars)
<1>1. CASE D!Environment /\ UNCHANGED D!darwinVars
    BY <1>1, DarwinOthers
<1>2. ASSUME NEW p \in Pid,
             \/ D!KReadMeta(p) \/ D!KReadBefore(p) \/ D!Watch(p) \/ D!KReadAfter(p)
             \/ D!CheckExit(p) \/ D!CheckStart(p) \/ D!KSignalClosed(p) \/ D!KClose(p)
             \/ \E sig \in D!KSignals : D!Kill(p, sig)
      PROVE  DarwinInv' /\ Bounded' /\ [H!Next]_(H!vars)
  <2>1. UNCHANGED kernelVars
      BY <1>2 DEF D!KReadMeta, D!KReadBefore, D!Watch, D!KReadAfter, D!CheckExit, D!CheckStart,
                  D!KSignalClosed, D!KClose, D!Kill, D!kernelVars, kernelVars
  <2>2. Bounded'
      BY <2>1 DEF Bounded, kernelVars
  <2>3. /\ kctl \in [Pid -> D!DarwinController] /\ KSound(p)
        /\ table[p].start \in Nat /\ table[p].start < nextStart
        /\ Exists(p) => table[p].start > 0
      BY DEF DarwinInv, D!DarwinTypeOK, D!Pid, Pid, PinTypeOK, KernelTypeOK, Process
  <2>4. CASE D!KReadBefore(p)
    <3> USE <2>4 DEF D!KReadBefore
    <3>1. CASE \E e \in D!KErrors : D!KPinFails(p, e)
        BY <2>1, <2>2, <3>1, DarwinReturns
    <3>2. ASSUME NEW s \in D!StartTimes(p), kctl[p].meta \in {0, s},
                 kctl' = [kctl EXCEPT ![p].step = "before", ![p].before = s]
          PROVE  DarwinInv' /\ Bounded' /\ [H!Next]_(H!vars)
      <4> DEFINE c == [kctl[p] EXCEPT !.step = "before", !.before = s]
      <4>0. s \in Nat /\ s < nextStart
          BY TimesRead
      <4>1. kctl' = [kctl EXCEPT ![p] = c] /\ c \in D!DarwinController
          BY <2>3, <3>2, <4>0 DEF D!DarwinController, D!KSteps
      <4>2. KSound(p)'
        <5>1. kctl[p] \in D!DarwinController /\ KSound(p) /\ kctl[p].step = "found"
            BY <2>3
        <5>2. /\ c.step = "before" /\ c.meta = kctl[p].meta /\ c.before = s
              /\ c.kq = kctl[p].kq /\ c.exited = kctl[p].exited
            BY ONLY <5>1 DEF D!DarwinController
        <5>3. kctl'[p] = c /\ nextStart' = nextStart
            BY <2>1, <2>3, <4>1 DEF kernelVars
        <5> HIDE DEF c
        <5> QED BY ONLY <3>2, <4>0, <5>1, <5>2, <5>3 DEF KSound
      <4>3. c.step = "before" /\ c.meta = kctl[p].meta /\ kctl[p].step = "found"
            /\ UNCHANGED delivered
          BY <2>3 DEF D!DarwinController
      <4> HIDE <2>4 DEF c, D!KReadBefore
      <4> QED BY <2>1, <2>2, <4>1, <4>2, <4>3, DarwinQuiet DEF KHeld
    <3> QED BY <3>1, <3>2 DEF D!KErrors
  <2>5. CASE D!Watch(p)
    <3> USE <2>5 DEF D!Watch
    <3>1. CASE \E e \in D!KErrors : D!KPinFails(p, e)
        BY <2>1, <2>2, <3>1, DarwinReturns
    <3>2. CASE kctl' = [kctl EXCEPT ![p].step = "watched", ![p].kq = TRUE,
                                    ![p].knote = table[p].start]
      <4> DEFINE c == [kctl[p] EXCEPT !.step = "watched", !.kq = TRUE, !.knote = table[p].start]
      <4>1. kctl' = [kctl EXCEPT ![p] = c] /\ c \in D!DarwinController
        <5>1. kctl[p] \in D!DarwinController /\ table[p].start \in Nat
            BY <2>3
        <5>2. c \in D!DarwinController
            BY ONLY <5>1 DEF D!DarwinController, D!KSteps
        <5>3. kctl' = [kctl EXCEPT ![p] = c]
            BY <2>3, <3>2 DEF D!DarwinController
        <5> QED BY <5>2, <5>3
      <4>2. KSound(p)'
          BY <2>1, <2>3, <4>1 DEF KSound, KHeld, D!DarwinController, kernelVars
      <4>3. c.step = "watched" /\ c.meta = kctl[p].meta /\ kctl[p].step = "before"
            /\ UNCHANGED delivered
          BY <2>3 DEF D!DarwinController
      <4> HIDE <2>5 DEF c, D!Watch
      <4> QED BY <2>1, <2>2, <4>1, <4>2, <4>3, DarwinQuiet DEF KHeld
    <3> QED BY <3>1, <3>2, PinAssumption DEF D!KErrors
  <2>6. CASE D!CheckExit(p)
    <3> USE <2>6 DEF D!CheckExit
    <3>1. CASE /\ kctl[p].exited \/ D!ExitQueued(p)
               /\ kctl' = [kctl EXCEPT ![p].exited = TRUE, ![p].err = "ProcessGone"]
      <4> DEFINE c == [kctl[p] EXCEPT !.exited = TRUE, !.err = "ProcessGone"]
      <4>1. kctl' = [kctl EXCEPT ![p] = c] /\ c \in D!DarwinController
        <5>1. kctl[p] \in D!DarwinController
            BY <2>3
        <5>2. c \in D!DarwinController
            BY ONLY <5>1 DEF D!DarwinController, D!KErrors
        <5>3. kctl' = [kctl EXCEPT ![p] = c]
            BY <2>3, <3>1 DEF D!DarwinController
        <5> QED BY <5>2, <5>3
      <4>2. KSound(p)'
        <5>1. kctl[p] \in D!DarwinController /\ KSound(p) /\ kctl[p].step = "pinned"
            BY <2>3
        <5>2. /\ c.step = "pinned" /\ c.meta = kctl[p].meta /\ c.before = kctl[p].before
              /\ c.kq = kctl[p].kq /\ c.knote = kctl[p].knote /\ c.exited
            BY ONLY <5>1 DEF D!DarwinController
        <5>3. kctl'[p] = c /\ nextStart' = nextStart /\ table' = table
            BY <2>1, <2>3, <4>1 DEF kernelVars
        <5>4. kctl[p].meta \in Nat
            BY ONLY <5>1 DEF D!DarwinController
        <5>5. Alive(p) => table[p].start > 0 /\ table[p].start \in Nat
            BY <2>3 DEF Alive, Exists
        <5>6. ~(Alive(p) /\ table[p].start = kctl[p].meta)
          <6>1. CASE kctl[p].exited
              BY ONLY <5>1, <6>1 DEF KSound
          <6>2. CASE ~(Alive(p) /\ table[p].start = kctl[p].knote)
              BY ONLY <5>1, <5>4, <5>5, <6>2 DEF KSound
          <6> QED BY <3>1, <6>1, <6>2 DEF D!ExitQueued, D!Alive, Alive
        <5> HIDE DEF c
        <5> QED BY ONLY <5>1, <5>2, <5>3, <5>6 DEF KSound, Aged, Alive
      <4>3. c.step = "pinned" /\ c.meta = kctl[p].meta /\ kctl[p].step = "pinned"
            /\ UNCHANGED delivered
          BY <2>3 DEF D!DarwinController
      <4> HIDE <2>6 DEF c, D!CheckExit
      <4> QED BY <2>1, <2>2, <4>1, <4>2, <4>3, DarwinQuiet DEF KHeld
    <3>2. CASE ~kctl[p].exited /\ kctl' = [kctl EXCEPT ![p].step = "live", ![p].err = "nil"]
      <4> DEFINE c == [kctl[p] EXCEPT !.step = "live", !.err = "nil"]
      <4>1. kctl' = [kctl EXCEPT ![p] = c] /\ c \in D!DarwinController
        <5>1. kctl[p] \in D!DarwinController
            BY <2>3
        <5>2. c \in D!DarwinController
            BY ONLY <5>1 DEF D!DarwinController, D!KSteps, D!KErrors
        <5>3. kctl' = [kctl EXCEPT ![p] = c]
            BY <2>3, <3>2 DEF D!DarwinController
        <5> QED BY <5>2, <5>3
      <4>2. KSound(p)'
          BY <2>1, <2>3, <3>2, <4>1 DEF KSound, KHeld, Aged, D!DarwinController, kernelVars
      <4>3. c.step = "live" /\ c.meta = kctl[p].meta /\ kctl[p].step = "pinned"
            /\ UNCHANGED delivered
          BY <2>3 DEF D!DarwinController
      <4> HIDE <2>6 DEF c, D!CheckExit
      <4> QED BY <2>1, <2>2, <4>1, <4>2, <4>3, DarwinQuiet DEF KHeld
    <3> QED BY <3>1, <3>2
  <2>7. CASE D!CheckStart(p)
    <3> USE <2>7 DEF D!CheckStart
    <3>1. CASE \E e \in D!KErrors : D!KReturns(p, e)
        BY <2>1, <2>2, <3>1, DarwinReturns
    <3>2. ASSUME NEW s \in D!StartTimes(p), D!StillSame(p, s),
                 kctl' = [kctl EXCEPT ![p].step = "same"]
          PROVE  DarwinInv' /\ Bounded' /\ [H!Next]_(H!vars)
      <4> DEFINE c == [kctl[p] EXCEPT !.step = "same"]
      <4>1. kctl' = [kctl EXCEPT ![p] = c] /\ c \in D!DarwinController
          BY <2>3, <3>2 DEF D!DarwinController, D!KSteps
      <4>2. KSound(p)'
          BY <2>1, <2>3, <4>1 DEF KSound, KHeld, Aged, D!DarwinController, kernelVars
      <4>3. c.step = "same" /\ c.meta = kctl[p].meta /\ kctl[p].step = "live"
            /\ (c.meta > 0 => table[p].start = c.meta) /\ UNCHANGED delivered
          BY <2>3, <3>2, TimesRead DEF D!DarwinController, D!StillSame
      <4> HIDE <2>7 DEF c, D!CheckStart
      <4> QED BY <2>1, <2>2, <4>1, <4>2, <4>3, DarwinQuiet DEF KHeld
    <3> QED BY <3>1, <3>2 DEF D!KErrors
  <2>8. CASE D!KSignalClosed(p)
    <3> DEFINE c == [kctl[p] EXCEPT !.err = "ProcessGone"]
    <3>1. kctl' = [kctl EXCEPT ![p] = c] /\ c \in D!DarwinController
        BY <2>3, <2>8 DEF D!KSignalClosed, D!DarwinController, D!KErrors
    <3>2. KSound(p)'
        BY <2>1, <2>3, <2>8, <3>1
        DEF D!KSignalClosed, KSound, KHeld, Aged, Alive, D!DarwinController, kernelVars
    <3>3. c.step = "closed" /\ c.meta = kctl[p].meta /\ kctl[p].step = "closed"
          /\ UNCHANGED delivered
        BY <2>3, <2>8 DEF D!KSignalClosed, D!DarwinController
    <3> HIDE DEF c
    <3> QED BY <2>1, <2>2, <3>1, <3>2, <3>3, DarwinQuiet DEF KHeld
  <2>9. CASE D!KClose(p)
    <3> DEFINE c == [kctl[p] EXCEPT !.step = "closed", !.kq = FALSE, !.knote = 0]
    <3>1. kctl' = [kctl EXCEPT ![p] = c] /\ c \in D!DarwinController
        BY <2>3, <2>9 DEF D!KClose, D!DarwinController, D!KSteps
    <3>2. KSound(p)'
        BY <2>1, <2>3, <2>9, <3>1
        DEF D!KClose, KSound, KHeld, Aged, Alive, D!DarwinController, kernelVars
    <3>3. c.step = "closed" /\ c.meta = kctl[p].meta /\ kctl[p].step = "pinned"
          /\ UNCHANGED delivered
        BY <2>3, <2>9 DEF D!KClose, D!DarwinController
    <3> HIDE DEF c
    <3> QED BY <2>1, <2>2, <3>1, <3>2, <3>3, DarwinQuiet DEF KHeld
  <2> QED BY <1>2, <2>2, <2>4, <2>5, <2>6, <2>7, <2>8, <2>9, DarwinReads, DarwinPins, DarwinKills
<1> QED BY <1>1, <1>2 DEF D!DarwinNext, D!Pid, Pid

-----------------------------------------------------------------------------

(* Either system. *)

PinsInv ==
    /\ Bounded
    /\ system \in Systems
    /\ system = "linux" => LinuxInv
    /\ system = "darwin" => DarwinInv

LEMMA PinsInvTypes == PinsInv => KernelTypeOK
BY SystemsAssumption DEF PinsInv, LinuxInv, DarwinInv, PinInv, PinTypeOK

LEMMA PinsInvInit == UnixInit => PinsInv
<1> SUFFICES ASSUME UnixInit PROVE PinsInv
    OBVIOUS
<1>1. Bounded
    BY KernelAssumption DEF UnixInit, PinInit, KernelInit, Bounded
<1> QED BY <1>1, LinuxInit, DarwinInit DEF PinsInv, UnixInit

LEMMA PinsStep == PinsInv /\ [UnixNext]_unixVars => PinsInv' /\ [H!Next]_(H!vars)
<1> SUFFICES ASSUME PinsInv, [UnixNext]_unixVars PROVE PinsInv' /\ [H!Next]_(H!vars)
    OBVIOUS
<1>1. CASE system = "linux" /\ PinNext /\ UNCHANGED <<system, kctl>>
    BY <1>1, LinuxStep DEF PinsInv
<1>2. CASE system = "darwin" /\ D!DarwinNext /\ UNCHANGED <<system, hasPidfd, ctl>>
    BY <1>2, DarwinStep DEF PinsInv
<1>3. CASE UNCHANGED unixVars
  <2> USE <1>3 DEF unixVars, sysVars, kernelVars, pinVars, PinsInv
  <2>1. ASSUME NEW p \in Pid PROVE UNCHANGED <<Held(p), Known(p)>>
      BY DEF Held, Known
  <2>2. UNCHANGED H!vars
    <3>1. PinTypeOK
        BY SystemsAssumption DEF LinuxInv, DarwinInv, PinInv
    <3>2. UNCHANGED <<hasPidfd, delivered>>
        OBVIOUS
    <3> QED BY ONLY <2>1, <3>1, <3>2, HoldStutters
  <2>3. Bounded' /\ system' \in Systems
      BY DEF Bounded
  <2>4. system = "linux" => LinuxInv'
    <3>1. PinInv /\ [PinNext]_sysVars => PinInv'
        BY PinInvStep
    <3> QED BY <3>1 DEF LinuxInv, LinuxAged, Aged, LinuxLanded, Landed, D!KUnused
  <2>5. system = "darwin" => DarwinInv'
      BY DEF DarwinInv, PinTypeOK, KernelTypeOK, D!DarwinTypeOK, KSound, Aged, Alive, Exists,
             KLanded, Landed
  <2> QED BY <2>2, <2>3, <2>4, <2>5
<1> QED BY <1>1, <1>2, <1>3 DEF UnixNext

(* In every state the controllers of the system at hand satisfy their part   *)
(* of the induction.                                                         *)
THEOREM PinsInvariant == UnixSpec => []PinsInv
BY PinsInvInit, PinsStep, PTL DEF UnixSpec

LEMMA UnusedController == ASSUME NEW p \in Pid, system = "darwin", DarwinInv PROVE ctl[p] = Unused
BY DEF DarwinInv

LEMMA UnusedKController == ASSUME NEW p \in Pid, system = "linux", LinuxInv PROVE kctl[p] = D!KUnused
BY DEF LinuxInv

LEMMA KUnusedTyped == D!KUnused \in D!DarwinController
BY DEF D!KUnused, D!DarwinController, D!KSteps, D!KErrors

(* The controllers of both systems keep their types, and a run of portpin    *)
(* is on one system.                                                         *)
THEOREM PinsTypeCorrect == UnixSpec => []UnixTypeOK
<1>1. PinsInv => UnixTypeOK
  <2> SUFFICES ASSUME PinsInv PROVE UnixTypeOK
      OBVIOUS
  <2>1. CASE system = "linux"
      BY <2>1, KUnusedTyped
      DEF PinsInv, LinuxInv, PinInv, UnixTypeOK, D!DarwinTypeOK, D!Pid, Pid
  <2>2. CASE system = "darwin"
      BY <2>2 DEF PinsInv, DarwinInv, UnixTypeOK
  <2> QED BY <2>1, <2>2, SystemsAssumption DEF PinsInv
<1> QED BY <1>1, PinsInvariant, PTL

(* With a pidfd a signal reaches the pinned process or nobody.               *)
THEOREM NoStrangerOnEither == UnixSpec => []OnlyPinnedSignalled
<1>1. PinsInv => OnlyPinnedSignalled
    BY SystemsAssumption DEF PinsInv, LinuxInv, PinInv, Faithful, DarwinInv, OnlyPinnedSignalled
<1> QED BY <1>1, PinsInvariant, PTL

(* Pin leaves no pidfd and no kqueue open on any of its error returns.       *)
THEOREM NoHandleLost == UnixSpec => []HandlesOwned
<1>1. PinsInv => HandlesOwned
  <2> SUFFICES ASSUME PinsInv PROVE DescriptorOwned /\ D!KqueueOwned
      BY DEF HandlesOwned
  <2>1. CASE system = "linux"
    <3>1. DescriptorOwned
        BY <2>1 DEF PinsInv, LinuxInv, PinInv, DescriptorOwned, Sound, PinTypeOK, Controller, Steps
    <3>2. D!KqueueOwned
        BY <2>1, UnusedKController DEF PinsInv, D!KqueueOwned, D!KUnused, D!Pid, Pid
    <3> QED BY <3>1, <3>2
  <2>2. CASE system = "darwin"
    <3>1. DescriptorOwned
        BY <2>2, UnusedController DEF PinsInv, DescriptorOwned, Unused
    <3>2. D!KqueueOwned
        BY <2>2 DEF PinsInv, DarwinInv, KSound, D!KqueueOwned, D!Pid, Pid
    <3> QED BY <3>1, <3>2
  <2> QED BY <2>1, <2>2, SystemsAssumption DEF PinsInv
<1> QED BY <1>1, PinsInvariant, PTL

(* The exit event that latches is of the pinned process.                     *)
THEOREM ExitEventIsOwn == UnixSpec => []ExitIsOwn
<1>1. PinsInv => D!ExitIsOwn
  <2> SUFFICES ASSUME PinsInv, NEW p \in Pid
               PROVE  kctl[p].exited => ~(D!Alive(p) /\ table[p].start = kctl[p].meta)
      BY DEF D!ExitIsOwn, D!Pid, Pid
  <2>1. CASE system = "linux"
      BY <2>1, UnusedKController DEF PinsInv, D!KUnused
  <2>2. CASE system = "darwin"
      BY <2>2 DEF PinsInv, DarwinInv, KSound, D!Alive, Alive
  <2> QED BY <2>1, <2>2, SystemsAssumption DEF PinsInv
<1> QED BY <1>1, PinsInvariant, PTL DEF ExitIsOwn

(* Lifecycle answers Alive for the process with the start time of the        *)
(* controller only, while it runs: whatever reads 0 is a zombie.             *)
LEMMA FoundAlive ==
    ASSUME KernelTypeOK, NEW p \in Pid
    PROVE  "Alive" \in D!KLifecycle(p) <=> D!Alive(p) /\ table[p].start = kctl[p].meta
<1>1. table[p].state \in {"none", "alive", "zombie"}
    BY DEF KernelTypeOK, Process
<1>2. CASE table[p].state = "none"
    BY <1>2 DEF D!KLifecycle, D!Exists, D!Alive
<1>3. CASE table[p].state = "zombie"
  <2>1. \A s \in D!StartTimes(p) : D!LifecycleOf(p, s) # "Alive"
    <3> SUFFICES ASSUME NEW s PROVE D!LifecycleOf(p, s) # "Alive"
        OBVIOUS
    <3>1. CASE s \in {0, kctl[p].meta}
        BY <1>3, <3>1 DEF D!LifecycleOf
    <3>2. CASE s \notin {0, kctl[p].meta}
        BY <1>3, <3>2 DEF D!LifecycleOf
    <3> QED BY <3>1, <3>2
  <2> QED BY <1>3, <2>1 DEF D!KLifecycle, D!Exists, D!Alive
<1>4. CASE table[p].state = "alive"
  <2>1. D!KLifecycle(p) = {D!LifecycleOf(p, table[p].start)}
      BY <1>4 DEF D!KLifecycle, D!StartTimes, D!Exists
  <2>2. D!LifecycleOf(p, table[p].start)
            = IF table[p].start # kctl[p].meta THEN "Gone" ELSE "Alive"
      BY <1>4 DEF D!LifecycleOf
  <2> QED BY <1>4, <2>1, <2>2 DEF D!Alive
<1> QED BY <1>1, <1>2, <1>3, <1>4

(* What the Lifecycle of macOS does not find alive it never finds alive      *)
(* again: no later process has the start time.                               *)
LEMMA GoneIsNotFound ==
    ASSUME DarwinInv, D!Environment, NEW p \in Pid, UNCHANGED kctl,
           ~(D!Alive(p) /\ table[p].start = kctl[p].meta)
    PROVE  ~(D!Alive(p)' /\ table'[p].start = kctl'[p].meta)
<1>1. Environment /\ KernelTypeOK
    BY SameEnvironment DEF DarwinInv, PinTypeOK
<1>2. kctl[p].meta \in Nat /\ kctl[p].meta < nextStart /\ nextStart \in Nat
    BY <1>1 DEF DarwinInv, D!DarwinTypeOK, D!Pid, Pid, D!DarwinController, KSound, KernelTypeOK
<1>3. \/ table'[p].start = table[p].start /\ (Alive(p)' => Alive(p))
      \/ ~Exists(p)'
      \/ table'[p].start = nextStart
    BY <1>1, EnvironmentMoves
<1> QED BY <1>2, <1>3 DEF D!Alive, Alive, Exists

(* What a controller found gone stays gone, on either system.                *)
THEOREM NeverRevivedHolds == UnixSpec => NeverRevived
<1>1. PinsInv /\ [UnixNext]_unixVars =>
          [\A d \in delivered' \ delivered :
              ctl[d.pid].err \notin {"ProcessGone", "IdentityChanged"}]_sysVars
  <2> SUFFICES ASSUME PinsInv, UnixNext, NEW d \in delivered' \ delivered
               PROVE  ctl[d.pid].err \notin Vanished
      BY DEF Vanished, unixVars, sysVars, kernelVars, pinVars
  <2>1. CASE system = "linux" /\ PinNext
      BY <2>1, VanishedSignalsNobody DEF PinsInv, LinuxInv
  <2>2. CASE system = "darwin" /\ D!DarwinNext /\ UNCHANGED system
    <3>1. d.pid \in Pid
      <4>1. PinsInv'
          BY PinsStep
      <4> QED BY <2>2, <4>1 DEF PinsInv, DarwinInv, PinTypeOK
    <3> QED BY <2>2, <3>1, UnusedController DEF PinsInv, Unused, Vanished
  <2> QED BY <2>1, <2>2 DEF UnixNext
<1> DEFINE FoundIs == KernelTypeOK =>
        \A p \in Pid : ("Alive" \in D!KLifecycle(p) <=> D!Alive(p) /\ table[p].start = kctl[p].meta)
<1>a. FoundIs /\ (PinsInv => KernelTypeOK)
    BY FoundAlive, PinsInvTypes
<1>b. FoundIs /\ FoundIs' /\ (PinsInv => KernelTypeOK) /\ (PinsInv => KernelTypeOK)'
    BY <1>a, PTL
<1>2. PinsInv /\ [UnixNext]_unixVars =>
          [\A p \in D!Pid :
              kctl[p].step = "pinned" /\ "Alive" \notin D!KLifecycle(p)
                  => "Alive" \notin D!KLifecycle(p)'
          ]_<<D!kernelVars, D!darwinVars>>
  <2> DEFINE Found(p) == D!Alive(p) /\ table[p].start = kctl[p].meta
  <2> SUFFICES ASSUME PinsInv, UnixNext
               PROVE  \A p \in Pid :
                          kctl[p].step = "pinned" /\ "Alive" \notin D!KLifecycle(p)
                              => "Alive" \notin D!KLifecycle(p)'
      BY DEF D!Pid, Pid, unixVars, sysVars, kernelVars, pinVars, D!kernelVars, D!darwinVars
  <2>a. KernelTypeOK /\ KernelTypeOK'
      BY PinsStep, <1>b
  <2> SUFFICES ASSUME NEW p \in Pid, kctl[p].step = "pinned", ~Found(p)
               PROVE  ~Found(p)'
      BY <1>b, <2>a
  <2>1. CASE system = "linux"
      BY <2>1, UnusedKController DEF PinsInv, D!KUnused
  <2>2. CASE system = "darwin" /\ D!DarwinNext /\ UNCHANGED system
    <3>1. CASE D!Environment /\ UNCHANGED D!darwinVars
        BY <2>2, <3>1, GoneIsNotFound DEF PinsInv, D!darwinVars
    <3>2. CASE UNCHANGED table /\ kctl'[p].meta = kctl[p].meta
        BY <3>2 DEF D!Alive
    <3>3. kctl \in [D!Pid -> D!DarwinController]
        BY <2>2 DEF PinsInv, DarwinInv, D!DarwinTypeOK
    <3>4. ASSUME NEW q \in D!Pid,
                 \/ D!KReadMeta(q) \/ D!KReadBefore(q) \/ D!Watch(q) \/ D!KReadAfter(q)
                 \/ D!CheckExit(q) \/ D!CheckStart(q) \/ D!KSignalClosed(q) \/ D!KClose(q)
                 \/ \E sig \in D!KSignals : D!Kill(q, sig)
          PROVE  UNCHANGED table /\ kctl'[p].meta = kctl[p].meta
      <4> USE <2>2, <3>3 DEF D!kernelVars, D!KPinFails, D!KReturns, D!Pid, Pid
      <4>1. CASE D!KReadMeta(q) \/ D!KReadBefore(q) \/ D!Watch(q) \/ D!KReadAfter(q)
        <5>1. kctl[q].step # "pinned" /\ UNCHANGED table
            BY <4>1 DEF D!KReadMeta, D!KReadBefore, D!Watch, D!KReadAfter
        <5>2. kctl'[p] = kctl[p]
            BY <4>1, <5>1 DEF D!KReadMeta, D!KReadBefore, D!Watch, D!KReadAfter
        <5> QED BY <5>1, <5>2
      <4>2. CASE D!CheckExit(q) \/ D!CheckStart(q)
        <5>1. CASE q # p
            BY <4>2, <5>1 DEF D!CheckExit, D!CheckStart
        <5>2. CASE q = p
          <6>1. UNCHANGED table /\ \/ kctl' = [kctl EXCEPT ![p] = [kctl[p] EXCEPT !.step = "live",
                                                                       !.err = "nil"]]
                                   \/ kctl' = [kctl EXCEPT ![p] = [kctl[p] EXCEPT !.exited = TRUE,
                                                                       !.err = "ProcessGone"]]
              BY <4>2, <5>2 DEF D!CheckExit, D!CheckStart, D!DarwinController
          <6> QED BY <6>1 DEF D!DarwinController
        <5> QED BY <5>1, <5>2
      <4>3. CASE D!KSignalClosed(q) \/ D!KClose(q)
        <5>1. CASE q # p
            BY <4>3, <5>1 DEF D!KSignalClosed, D!KClose
        <5>2. CASE q = p
          <6>1. kctl' = [kctl EXCEPT ![p] = [kctl[p] EXCEPT !.step = "closed", !.kq = FALSE,
                                                            !.knote = 0]]
                /\ UNCHANGED table
              BY <4>3, <5>2 DEF D!KSignalClosed, D!KClose, D!DarwinController
          <6> QED BY <6>1 DEF D!DarwinController
        <5> QED BY <5>1, <5>2
      <4>4. ASSUME NEW sig \in D!KSignals, D!Kill(q, sig)
            PROVE  UNCHANGED table /\ kctl'[p].meta = kctl[p].meta
        <5>1. UNCHANGED table /\ kctl[q].step = "same"
            BY <4>4 DEF D!Kill
        <5>2. kctl'[p] = kctl[p]
            BY <4>4, <5>1 DEF D!Kill
        <5> QED BY <5>1, <5>2
      <4> QED BY <3>4, <4>1, <4>2, <4>3, <4>4
    <3> QED BY <2>2, <3>1, <3>2, <3>4 DEF D!DarwinNext
  <2> QED BY <2>1, <2>2 DEF UnixNext
<1>3. UnixSpec => GoneStaysGone
    BY <1>1, PinsInvariant, PTL DEF UnixSpec, GoneStaysGone
<1>4. UnixSpec => D!GoneIsFinal
    BY <1>2, PinsInvariant, PTL DEF UnixSpec, D!GoneIsFinal
<1> QED BY <1>3, <1>4 DEF NeverRevived

(* The controllers of Linux, with a pidfd and without, and of macOS          *)
(* implement Hold.                                                           *)
THEOREM HoldIsKept == UnixSpec => KeepsHold
<1>1. UnixInit => H!Init
  <2> SUFFICES ASSUME UnixInit PROVE H!Init
      OBVIOUS
  <2>1. \A p \in Pid : Held(p) = 0 /\ Known(p) = 0
    <3>1. ctl = [p \in Pid |-> Unused] /\ kctl = [p \in Pid |-> D!KUnused]
        BY DEF UnixInit, PinInit, D!DarwinInit, D!Pid, Pid
    <3> QED BY <3>1 DEF Held, Known, Unused, D!KUnused
  <2>2. delivered = {} /\ hasPidfd \in BOOLEAN /\ 0 \in Times
      BY PinAssumption, KernelAssumption DEF UnixInit, PinInit, Times
  <2>3. Sent = {}
      BY <2>2 DEF Sent
  <2> QED BY <2>1, <2>2, <2>3 DEF H!Init, Times
<1>2. PinsInv /\ [UnixNext]_unixVars => [H!Next]_(H!vars)
    BY PinsStep
<1> QED BY <1>1, <1>2, PinsInvariant, PTL DEF UnixSpec, H!Spec, KeepsHold

=============================================================================
