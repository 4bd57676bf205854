----------------------------- MODULE Wait_proof -----------------------------
(***************************************************************************)
(* Theorems about Wait, for every timeout, poll interval and duration of a *)
(* look.                                                                   *)
(***************************************************************************)
EXTENDS Wait, TLAPS

(***************************************************************************)
(* How far the timer can have run over.  A look that it fires in, or that  *)
(* began as it fired, accounts for all of it; a sleep that ended with the  *)
(* timer for none.                                                         *)
(***************************************************************************)
Punctual ==
    /\ pc \in {"look", "looked"} => late <= looking
    /\ pc = "select" /\ nap = 0 => late = 0
    /\ late <= SlowLook

(***************************************************************************)
(* How long the port can have been as wanted without waitFor knowing: not  *)
(* before the last look at it, and for as long as the sleep and the looks  *)
(* around it have taken since.                                             *)
(***************************************************************************)
Unseen ==
    /\ ~Reached(port) => stable = 0
    /\ pc = "look" => stable <= SlowLook + Poll + looking
    /\ pc = "looked" =>
          stable <= IF Reached(answer) THEN SlowLook + Poll + looking ELSE looking
    /\ pc = "select" => ~Reached(answer) /\ stable <= SlowLook + Poll - nap
    /\ result \in {"none", "false"} => stable <= Poll + 2 * SlowLook
    /\ pc # "done" <=> result = "none"

WaitInv == TypeOK /\ Punctual /\ Unseen

-----------------------------------------------------------------------------

LEMMA WaitInvInit == Init => WaitInv
BY WaitAssumption
DEF Init, WaitInv, TypeOK, Punctual, Unseen, Ports, MaxLate, MaxStable

LEMMA TickKeeps == WaitInv /\ Tick => WaitInv'
<1> SUFFICES ASSUME WaitInv, Tick
             PROVE  WaitInv'
    OBVIOUS
<1> USE WaitAssumption DEF WaitInv, TypeOK, MaxLate, MaxStable, AtMost, Elapse
<1>1. TypeOK'
    BY DEF Tick, ExpiryReady, NapOver
<1>2. Punctual'
    BY DEF Tick, Punctual, ExpiryReady, TimerFired, NapOver
<1>3. Unseen'
    BY DEF Tick, Unseen, Reached, NapOver
<1> QED BY <1>1, <1>2, <1>3

LEMMA LookKeeps == WaitInv /\ (Resolve \/ ResolveFails \/ ReturnTrue) => WaitInv'
<1> SUFFICES ASSUME WaitInv, Resolve \/ ResolveFails \/ ReturnTrue
             PROVE  WaitInv'
    OBVIOUS
<1> USE WaitAssumption DEF WaitInv, TypeOK, MaxLate, MaxStable
<1>1. CASE Resolve
    BY <1>1 DEF Resolve, Punctual, Unseen, Reached
<1>2. CASE ResolveFails
    BY <1>2 DEF ResolveFails, Punctual, Unseen, Reached
<1>3. CASE ReturnTrue
    BY <1>3 DEF ReturnTrue, Punctual, Unseen, Reached
<1> QED BY <1>1, <1>2, <1>3

LEMMA SelectKeeps == WaitInv /\ (Sleep \/ Expire \/ Wake) => WaitInv'
<1> SUFFICES ASSUME WaitInv, Sleep \/ Expire \/ Wake
             PROVE  WaitInv'
    OBVIOUS
<1> USE WaitAssumption DEF WaitInv, TypeOK, MaxLate, MaxStable
<1>1. CASE Sleep
    BY <1>1 DEF Sleep, Punctual, Unseen, Reached
<1>2. CASE Expire
    BY <1>2 DEF Expire, ExpiryReady, Punctual, Unseen, Reached
<1>3. CASE Wake
    BY <1>3 DEF Wake, NapOver, Punctual, Unseen, Reached
<1> QED BY <1>1, <1>2, <1>3

LEMMA PortKeeps == WaitInv /\ PortChanges => WaitInv'
BY WaitAssumption
DEF PortChanges, waitVars, WaitInv, TypeOK, MaxLate, MaxStable, Punctual, Unseen, Reached

LEMMA WaitInvStep == WaitInv /\ [Next]_vars => WaitInv'
<1> SUFFICES ASSUME WaitInv, [Next]_vars
             PROVE  WaitInv'
    OBVIOUS
<1>1. CASE UNCHANGED vars
    BY <1>1 DEF vars, waitVars, WaitInv, TypeOK, Punctual, Unseen, Reached
<1> QED BY <1>1, TickKeeps, LookKeeps, SelectKeeps, PortKeeps DEF Next, WaitFor, Done

-----------------------------------------------------------------------------

(* In every state the timer, the sleep or look in progress and the history   *)
(* of the port agree.                                                        *)
THEOREM WaitInvariant == Spec => []WaitInv
BY WaitInvInit, WaitInvStep, PTL DEF Spec

(* The timer, the sleep and the looks stay within their bounds.              *)
THEOREM WaitTypeCorrect == Spec => []TypeOK
<1>1. WaitInv => TypeOK
    BY DEF WaitInv
<1> QED BY <1>1, WaitInvariant, PTL

(* waitFor reports the timeout at most one look after the timer fired.       *)
THEOREM TimeoutIsPrompt == Spec => []PromptTimeout
<1>1. WaitInv => PromptTimeout
    BY DEF WaitInv, Punctual, PromptTimeout
<1> QED BY <1>1, WaitInvariant, PTL

(* waitFor neither misses nor contradicts a state that lasts for a poll      *)
(* interval and the looks around it.                                         *)
THEOREM LastingIsSeen == Spec => []LastingStateSeen
<1>1. WaitInv => LastingStateSeen
    BY DEF WaitInv, Unseen, LastingStateSeen
<1> QED BY <1>1, WaitInvariant, PTL

=============================================================================
