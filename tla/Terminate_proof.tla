-------------------------- MODULE Terminate_proof --------------------------
(***************************************************************************)
(* Theorems about Terminate, for every set of options: its types, the      *)
(* bound on its waits, and that it implements Teardown.                    *)
(***************************************************************************)
EXTENDS Terminate, TLAPS

LEMMA ScheduleFact ==
    ASSUME NEW i \in Nat
    PROVE  PollSchedule(i) \in {25, 50, 100}
BY DEF PollSchedule

LEMMA OptionTypes ==
    ASSUME NEW o \in Options
    PROVE  o.Timeout \in Int /\ o.HardWait \in Int /\ o.NoConsoleWait \in Int
<1>1. o \in [Force : BOOLEAN, Timeout : Int, HardWait : Int, NoConsoleWait : Int]
    BY OptionsAssumption
<1> QED BY <1>1

LEMMA TypeInit == Init => TypeOK
<1> SUFFICES ASSUME Init
             PROVE  TypeOK
    OBVIOUS
<1>1. budget \in Int
    BY OptionTypes DEF Init
<1>2. res \in [outcome : Outcomes \cup {"none"}, gracefulSent : BOOLEAN,
               usedHardKill : BOOLEAN]
    BY DEF Init
<1> QED BY <1>1, <1>2 DEF Init, TypeOK, Stages

LEMMA TypeStep == TypeOK /\ [Next]_vars => TypeOK'
<1> USE DEF Stages, Probes, Errors, Outcomes, Lifecycles
<1> SUFFICES ASSUME TypeOK, [Next]_vars
             PROVE  TypeOK'
    OBVIOUS
<1>0. opts.Timeout \in Int /\ opts.HardWait \in Int /\ opts.NoConsoleWait \in Int
    BY OptionTypes DEF TypeOK
<1>1. ASSUME NEW r \in Probes, FirstProbe(r) PROVE TypeOK'
    BY <1>1 DEF TypeOK, FirstProbe, Return, NoWait
<1>2. ASSUME NEW r \in Probes, Poll(r) PROVE TypeOK'
    BY <1>2, ScheduleFact DEF TypeOK, Poll, PollOnce, Return
<1>3. ASSUME NEW r \in Probes, PollHard(r) PROVE TypeOK'
    BY <1>3, ScheduleFact DEF TypeOK, PollHard, PollOnce, Return
<1>4. ASSUME NEW e \in Errors, Graceful(e) PROVE TypeOK'
  <2>1. GracePeriod(e) \in Int
      BY <1>0 DEF GracePeriod
  <2>2. ErrorOutcome(e) \in Outcomes
      BY DEF ErrorOutcome
  <2>3. budget' \in Int /\ spent' \in Nat /\ polls' \in Nat
      BY <1>4, <2>1 DEF TypeOK, Graceful, StartWait, NoWait
  <2>4. res' \in [outcome : Outcomes \cup {"none"}, gracefulSent : BOOLEAN,
                  usedHardKill : BOOLEAN]
      BY <1>4, <2>2 DEF TypeOK, Graceful, Return
  <2> QED BY <1>4, <2>3, <2>4 DEF TypeOK, Graceful, StartWait, Return
<1>5. ASSUME NEW e \in Errors, Hard(e) PROVE TypeOK'
  <2>1. ErrorOutcome(e) \in Outcomes
      BY DEF ErrorOutcome
  <2>2. budget' \in Int /\ spent' \in Nat /\ polls' \in Nat
      BY <1>0, <1>5 DEF TypeOK, Hard, StartWait, NoWait
  <2>3. res' \in [outcome : Outcomes \cup {"none"}, gracefulSent : BOOLEAN,
                  usedHardKill : BOOLEAN]
      BY <1>5, <2>1 DEF TypeOK, Hard, Return
  <2> QED BY <1>5, <2>2, <2>3 DEF TypeOK, Hard, StartWait, Return
<1>6. ASSUME NEW lc \in Lifecycles, CheckReleased(lc) PROVE TypeOK'
    BY <1>6 DEF TypeOK, CheckReleased, Return, NoWait
<1>7. ASSUME NEW lc \in Lifecycles, CheckHeld(lc) PROVE TypeOK'
    BY <1>7 DEF TypeOK, CheckHeld, Return, NoWait
<1>8. CASE HardExpired
    BY <1>8 DEF TypeOK, HardExpired, Return, NoWait
<1>9. CASE UNCHANGED vars
    BY <1>9 DEF TypeOK, vars
<1> QED BY <1>1, <1>2, <1>3, <1>4, <1>5, <1>6, <1>7, <1>8, <1>9 DEF Next

(* The variables of Run keep their types. *)
THEOREM TypeCorrect == Spec => []TypeOK
BY TypeInit, TypeStep, PTL DEF Spec

-----------------------------------------------------------------------------

(***************************************************************************)
(* A wait overruns its budget by less than one interval, and a budget of   *)
(* zero or less is no wait: waitForRelease sleeps only while spent <       *)
(* budget.  Inductive with the types.                                      *)
(***************************************************************************)
THEOREM WaitIsBounded == Spec => []WaitBounded
<1>1. Init => WaitBounded
    BY DEF Init, WaitBounded
<1>2. TypeOK /\ WaitBounded /\ [Next]_vars => WaitBounded'
  <2> SUFFICES ASSUME TypeOK, WaitBounded, [Next]_vars
               PROVE  WaitBounded'
      OBVIOUS
  <2>1. ASSUME NEW loop, NEW r, PollOnce(loop, r)
        PROVE  budget' > 0 /\ spent' < budget' + 100
      BY <2>1, ScheduleFact DEF TypeOK, PollOnce
  <2>2. ASSUME NEW r \in Probes, FirstProbe(r) PROVE WaitBounded'
      BY <2>2 DEF WaitBounded, FirstProbe, NoWait
  <2>3. ASSUME NEW r \in Probes, Poll(r) \/ PollHard(r) PROVE WaitBounded'
      BY <2>1, <2>3 DEF WaitBounded, Poll, PollHard
  <2>4. ASSUME NEW e \in Errors, Graceful(e) \/ Hard(e) PROVE WaitBounded'
    <3>1. CASE Graceful(e)
        BY <3>1 DEF WaitBounded, Graceful, StartWait, NoWait
    <3>2. CASE Hard(e)
      <4>1. StartWait("hardPoll", opts.HardWait) \/ NoWait
          BY <3>2, Zenon DEF Hard
      <4> QED BY <4>1 DEF WaitBounded, StartWait, NoWait
    <3> QED BY <2>4, <3>1, <3>2
  <2>5. ASSUME NEW lc \in Lifecycles, CheckReleased(lc) \/ CheckHeld(lc)
        PROVE  WaitBounded'
      BY <2>5 DEF WaitBounded, CheckReleased, CheckHeld, NoWait
  <2>6. CASE HardExpired
      BY <2>6 DEF WaitBounded, HardExpired, NoWait
  <2>7. CASE UNCHANGED vars
      BY <2>7 DEF WaitBounded, vars
  <2> QED BY <2>2, <2>3, <2>4, <2>5, <2>6, <2>7 DEF Next
<1> QED BY <1>1, <1>2, TypeCorrect, PTL DEF Spec

-----------------------------------------------------------------------------

(***************************************************************************)
(* What Run knows at each of its stages: which calls it made and what the  *)
(* latest probe said.  The refinement needs it because the code tests      *)
(* neither again: that the endpoint was just seen held is why it is at     *)
(* stage "hard", not a condition of Hard.                                  *)
(***************************************************************************)
StageKnows ==
    /\ stage = "done" <=> res.outcome # "none"
    /\ stage = "probe" => seen = "unknown" /\ ~asked /\ ~res.usedHardKill
    /\ stage = "graceful" => seen = "held" /\ ~asked /\ ~res.usedHardKill
    /\ stage = "poll" => seen = "held" /\ asked /\ ~res.usedHardKill
    /\ stage = "freed" => seen = "free" /\ asked /\ ~res.usedHardKill
    /\ stage = "hard" => seen = "held" /\ ~res.usedHardKill
    /\ stage = "hardPoll" => seen = "held" /\ res.usedHardKill

LEMMA StageKnowsInit == Init => StageKnows
BY DEF Init, StageKnows

LEMMA StageKnowsStep == TypeOK /\ StageKnows /\ [Next]_vars => StageKnows'
<1> USE DEF Probes, Errors, Outcomes, Lifecycles, StageKnows
<1> SUFFICES ASSUME TypeOK, StageKnows, [Next]_vars
             PROVE  StageKnows'
    OBVIOUS
<1>0. res \in [outcome : Outcomes \cup {"none"}, gracefulSent : BOOLEAN,
               usedHardKill : BOOLEAN]
    BY DEF TypeOK
<1>1. ASSUME NEW r \in Probes, FirstProbe(r) PROVE StageKnows'
    BY <1>0, <1>1 DEF FirstProbe, Return
<1>2. ASSUME NEW r \in Probes, Poll(r) PROVE StageKnows'
    BY <1>0, <1>2 DEF Poll, PollOnce, Return
<1>3. ASSUME NEW r \in Probes, PollHard(r) PROVE StageKnows'
    BY <1>0, <1>3 DEF PollHard, PollOnce, Return
<1>4. ASSUME NEW e \in Errors, Graceful(e) PROVE StageKnows'
    BY <1>0, <1>4 DEF Graceful, ErrorOutcome, StartWait, Return
<1>5. ASSUME NEW e \in Errors, Hard(e) PROVE StageKnows'
    BY <1>0, <1>5 DEF Hard, ErrorOutcome, StartWait, Return
<1>6. ASSUME NEW lc \in Lifecycles, CheckReleased(lc) PROVE StageKnows'
    BY <1>0, <1>6 DEF CheckReleased, Return
<1>7. ASSUME NEW lc \in Lifecycles, CheckHeld(lc) PROVE StageKnows'
    BY <1>0, <1>7 DEF CheckHeld, Return
<1>8. CASE HardExpired
    BY <1>0, <1>8 DEF HardExpired, Return
<1>9. CASE UNCHANGED vars
    BY <1>9 DEF vars
<1> QED BY <1>1, <1>2, <1>3, <1>4, <1>5, <1>6, <1>7, <1>8, <1>9 DEF Next

-----------------------------------------------------------------------------

(* Every step of Run is a step of the abstract teardown. *)
LEMMA RunStep ==
    TypeOK /\ StageKnows /\ [Next]_vars => [Abstract!Next]_(Abstract!vars)
<1> USE DEF Abstract!Next, Abstract!Settle, Abstract!Justified,
            Abstract!Sightings, Abstract!Stops, Probes, StageKnows
<1> SUFFICES ASSUME TypeOK, StageKnows, [Next]_vars
             PROVE  Abstract!Next \/ UNCHANGED Abstract!vars
    OBVIOUS
<1>0. /\ res \in [outcome : Outcomes \cup {"none"}, gracefulSent : BOOLEAN,
                  usedHardKill : BOOLEAN]
      /\ asked \in BOOLEAN
    BY DEF TypeOK
<1>1. ASSUME NEW r \in Probes, FirstProbe(r) PROVE Abstract!Look
    BY <1>0, <1>1 DEF FirstProbe, Return, Abstract!Look, Outcomes
<1>2. ASSUME NEW r \in Probes, Poll(r) PROVE Abstract!Look
    BY <1>0, <1>2 DEF Poll, PollOnce, Return, Abstract!Look
<1>3. ASSUME NEW r \in Probes, PollHard(r) PROVE Abstract!Look
    BY <1>0, <1>3 DEF PollHard, PollOnce, Return, Abstract!Look
<1>4. ASSUME NEW e \in Errors, Graceful(e) PROVE Abstract!Try("graceful")
    BY <1>0, <1>4 DEF Graceful, ErrorOutcome, StartWait, Return, Errors, Abstract!Try
<1>5. ASSUME NEW e \in Errors, Hard(e) PROVE Abstract!Try("hard")
    BY <1>0, <1>5 DEF Hard, ErrorOutcome, StartWait, Return, Errors, Abstract!Try
<1>6. ASSUME NEW lc \in Lifecycles, CheckReleased(lc) PROVE Abstract!Conclude
    BY <1>0, <1>6 DEF CheckReleased, Return, Abstract!Conclude
<1>7. ASSUME NEW lc \in Lifecycles, CheckHeld(lc)
      PROVE  Abstract!Conclude \/ UNCHANGED Abstract!vars
    BY <1>0, <1>7 DEF CheckHeld, Return, Abstract!Conclude, Abstract!vars
<1>8. CASE HardExpired
    BY <1>0, <1>8 DEF HardExpired, Return, Abstract!Conclude
<1>9. CASE UNCHANGED vars
    BY <1>9 DEF vars, Abstract!vars
<1> QED BY <1>1, <1>2, <1>3, <1>4, <1>5, <1>6, <1>7, <1>8, <1>9 DEF Next

(***************************************************************************)
(* Run implements the abstract teardown: it signals only after a look that *)
(* found the endpoint held, and every outcome is justified.                *)
(***************************************************************************)
THEOREM RunImplementsTeardown == Spec => ImplementsTeardown
<1>1. Init => Abstract!Init
    BY DEF Init, Abstract!Init
<1> QED BY <1>1, TypeCorrect, StageKnowsInit, StageKnowsStep, RunStep, PTL
        DEF Spec, ImplementsTeardown, Abstract!Spec

-----------------------------------------------------------------------------

(***************************************************************************)
(* What a signalled target has been given by the time Run is at a stage.   *)
(***************************************************************************)
Patient ==
    /\ stage \in {"probe", "graceful"} => ~res.gracefulSent
    /\ stage = "poll" /\ res.gracefulSent => budget = opts.Timeout
    /\ stage = "hard" /\ res.gracefulSent => spent >= opts.Timeout

LEMMA PatientStep == TypeOK /\ Patient /\ [Next]_vars => Patient'
<1> USE DEF Patient
<1> SUFFICES ASSUME TypeOK, Patient, [Next]_vars
             PROVE  Patient'
    OBVIOUS
<1>0. res \in [outcome : Outcomes \cup {"none"}, gracefulSent : BOOLEAN,
               usedHardKill : BOOLEAN]
    BY DEF TypeOK
<1>1. ASSUME NEW r \in Probes, FirstProbe(r) PROVE Patient'
    BY <1>0, <1>1 DEF FirstProbe, Return
<1>2. ASSUME NEW r \in Probes, Poll(r) \/ PollHard(r) PROVE Patient'
    BY <1>0, <1>2 DEF Poll, PollHard, PollOnce, Return
<1>3. ASSUME NEW e \in Errors, Graceful(e) PROVE Patient'
    BY <1>0, <1>3 DEF Graceful, GracePeriod, StartWait, Return
<1>4. ASSUME NEW e \in Errors, Hard(e) PROVE Patient'
    BY <1>0, <1>4 DEF Hard, StartWait, Return
<1>5. ASSUME NEW lc \in Lifecycles, CheckReleased(lc) PROVE Patient'
    BY <1>0, <1>5 DEF CheckReleased, Return
<1>6. ASSUME NEW lc \in Lifecycles, CheckHeld(lc) PROVE Patient'
    BY <1>0, <1>6 DEF CheckHeld, Return, NoWait
<1>7. CASE HardExpired
    BY <1>0, <1>7 DEF HardExpired, Return
<1>8. CASE UNCHANGED vars
    BY <1>8 DEF vars
<1> QED BY <1>1, <1>2, <1>3, <1>4, <1>5, <1>6, <1>7, <1>8 DEF Next

(***************************************************************************)
(* The hard kill comes only after a look that found the endpoint held and, *)
(* for a target that took the graceful signal, after the whole Timeout.    *)
(***************************************************************************)
THEOREM PatienceKept == Spec => HardKillIsPatient
<1>1. Init => Patient
    BY DEF Init, Patient
<1>2. TypeOK /\ StageKnows /\ Patient /\ [Next]_vars =>
          [~res.usedHardKill /\ res'.usedHardKill =>
              seen = "held" /\ (res.gracefulSent => spent >= opts.Timeout)]_vars
  <2> SUFFICES ASSUME TypeOK, StageKnows, Patient, Next,
                      ~res.usedHardKill, res'.usedHardKill
               PROVE  seen = "held" /\ (res.gracefulSent => spent >= opts.Timeout)
      OBVIOUS
  <2>0. res \in [outcome : Outcomes \cup {"none"}, gracefulSent : BOOLEAN,
                 usedHardKill : BOOLEAN]
      BY DEF TypeOK
  <2>1. \E e \in Errors : Hard(e)
      BY <2>0 DEF Next, FirstProbe, Poll, PollHard, PollOnce, Graceful, CheckReleased,
                  CheckHeld, HardExpired, Return
  <2> QED BY <2>1 DEF Hard, StageKnows, Patient
<1> QED BY <1>1, <1>2, TypeCorrect, StageKnowsInit, StageKnowsStep, PatientStep, PTL
        DEF Spec, HardKillIsPatient

=============================================================================
