------------------------------ MODULE Terminate ------------------------------
(***************************************************************************)
(* internal/terminate: Run, the escalation that turns one pinned process   *)
(* into a released endpoint.                                               *)
(*                                                                         *)
(* The code is a sequential function over two callbacks, the PortProbe and *)
(* the pin.Controller.  One action here is the code from one callback's    *)
(* return to the next, and takes what the callback returned as its         *)
(* parameter; alone, the module lets every call return anything, and       *)
(* KillOne binds the parameters to a kernel.  Times are milliseconds.      *)
(***************************************************************************)
EXTENDS Integers

CONSTANT Options   \* the values of Options that Run may be called with

ASSUME OptionsAssumption ==
    Options \subseteq [Force : BOOLEAN, Timeout : Int, HardWait : Int,
                       NoConsoleWait : Int]

VARIABLES
    opts,    \* Run: opts, Timeout being any int the caller was given
    stage,   \* where Run stands
    polls,   \* waitForRelease: i
    spent,   \* waitForRelease: spent
    budget,  \* waitForRelease: budget, the gracePeriod or HardWait
    seen,    \* what the latest probe answered
    asked,   \* history: Graceful was called
    res      \* Run: res, with outcome "none" until Run returns

vars == <<opts, stage, polls, spent, budget, seen, asked, res>>

Stages == {"probe", "graceful", "poll", "freed", "hard", "hardPoll", "done"}

Probes     == {"held", "free", "err"}
Errors     == {"nil", "NoConsole", "ProcessGone", "IdentityChanged",
               "Permission", "other"}
Lifecycles == {"Alive", "Zombie", "Gone", "err"}
Outcomes   == {"released", "zombie", "timeout", "identity-changed",
               "permission-denied", "error"}

TypeOK ==
    /\ opts \in Options
    /\ stage \in Stages
    /\ polls \in Nat
    /\ spent \in Nat
    /\ budget \in Int
    /\ seen \in Probes \cup {"unknown"}
    /\ asked \in BOOLEAN
    /\ res \in [outcome : Outcomes \cup {"none"}, gracefulSent : BOOLEAN,
                usedHardKill : BOOLEAN]

-----------------------------------------------------------------------------

UncappedSchedule(i) == IF i = 0 THEN 25 ELSE 50 * i   \* mutant

PollSchedule(i) == CASE i = 0 -> 25 [] i = 1 -> 50 [] OTHER -> 100

SwappedErrorOutcome(e) ==   \* mutant: two cases swapped
    CASE e = "IdentityChanged" -> "permission-denied"
      [] e = "Permission"      -> "identity-changed"
      [] OTHER                 -> "error"

(* The outcome of an error that ends Run. *)
ErrorOutcome(e) ==
    CASE e = "IdentityChanged" -> "identity-changed"
      [] e = "Permission"      -> "permission-denied"
      [] OTHER                 -> "error"

ImpatientGracePeriod(e) ==   \* mutant: the short period for a signalled target
    IF e = "ProcessGone" THEN opts.Timeout ELSE opts.NoConsoleWait

(* The gracePeriod after a Graceful that Run goes on from. *)
GracePeriod(e) == IF e = "NoConsole" THEN opts.NoConsoleWait ELSE opts.Timeout

Init ==
    /\ opts \in Options
    /\ stage = "probe"
    /\ polls = 0
    /\ spent = 0
    /\ budget = opts.Timeout
    /\ seen = "unknown"
    /\ asked = FALSE
    /\ res = [outcome |-> "none", gracefulSent |-> FALSE, usedHardKill |-> FALSE]

(* Run returns r with outcome o. *)
Return(o, r) == stage' = "done" /\ res' = [r EXCEPT !.outcome = o]

(* waitForRelease(probe, b, sleep) is entered. *)
StartWait(loop, b) == stage' = loop /\ budget' = b /\ polls' = 0 /\ spent' = 0

NoWait == UNCHANGED <<polls, spent, budget>>

(* The probe before stage 1. *)
FirstProbe(r) ==
    /\ stage = "probe"
    /\ seen' = r
    /\ \/ r = "err" /\ Return("error", res)
       \/ r = "free" /\ Return("released", res)
       \/ /\ r = "held"
          /\ stage' = IF opts.Force THEN "hard" ELSE "graceful"
          /\ UNCHANGED res
    /\ UNCHANGED <<opts, asked>> /\ NoWait

(* Stage 1. A target that is already gone is polled like any other. *)
Graceful(e) ==
    /\ stage = "graceful"
    /\ asked' = TRUE
    /\ \/ /\ e \in {"nil", "NoConsole", "ProcessGone"}
          /\ res' = [res EXCEPT !.gracefulSent = (e = "nil")]
          /\ StartWait("poll", GracePeriod(e))
       \/ /\ e \in {"IdentityChanged", "Permission", "other"}
          /\ Return(ErrorOutcome(e), res)
          /\ NoWait
    /\ UNCHANGED <<opts, seen>>

SleepFirst(loop, r) ==   \* mutant: the first sleep comes before the test of spent
    /\ stage = loop
    /\ polls = 0 \/ spent < budget
    /\ spent' = spent + PollSchedule(polls)
    /\ polls' = polls + 1
    /\ seen' = r
    /\ UNCHANGED <<opts, budget, asked>>

(* One iteration of waitForRelease: sleep, then probe. *)
PollOnce(loop, r) ==
    /\ stage = loop
    /\ spent < budget
    /\ spent' = spent + PollSchedule(polls)
    /\ polls' = polls + 1
    /\ seen' = r
    /\ UNCHANGED <<opts, budget, asked>>

(* Stage 2. *)
Poll(r) ==
    /\ PollOnce("poll", r)
    /\ \/ r = "err" /\ Return("error", res)
       \/ r = "free" /\ stage' = "freed" /\ UNCHANGED res
       \/ r = "held" /\ UNCHANGED <<stage, res>>

(* Stage 3, the endpoint was released. *)
CheckReleased(lc) ==
    /\ stage = "freed"
    /\ Return(IF lc = "Zombie" THEN "zombie" ELSE "released", res)
    /\ UNCHANGED <<opts, seen, asked>> /\ NoWait

CheckHeldAgain(lc) ==   \* mutant: a zombie is waited for
    /\ stage = "poll"
    /\ spent >= budget
    /\ \/ lc = "Zombie" /\ StartWait("poll", budget) /\ UNCHANGED res
       \/ lc # "Zombie" /\ stage' = "hard" /\ UNCHANGED res /\ NoWait
    /\ UNCHANGED <<opts, seen, asked>>

(* Stage 3, the budget is spent and the endpoint still held. *)
CheckHeld(lc) ==
    /\ stage = "poll"
    /\ spent >= budget
    /\ \/ lc = "Zombie" /\ Return("zombie", res)
       \/ lc # "Zombie" /\ stage' = "hard" /\ UNCHANGED res
    /\ UNCHANGED <<opts, seen, asked>> /\ NoWait

(* Stage 4. *)
Hard(e) ==
    /\ stage = "hard"
    /\ LET r == [res EXCEPT !.usedHardKill = TRUE] IN
       \/ e \in {"nil", "ProcessGone"} /\ res' = r /\ StartWait("hardPoll", opts.HardWait)
       \/ e \notin {"nil", "ProcessGone"} /\ Return(ErrorOutcome(e), r) /\ NoWait
    /\ UNCHANGED <<opts, seen, asked>>

PollHard(r) ==
    /\ PollOnce("hardPoll", r)
    /\ \/ r = "err" /\ Return("error", res)
       \/ r = "free" /\ Return("released", res)
       \/ r = "held" /\ UNCHANGED <<stage, res>>

HardExpiredReleased ==   \* mutant: what the last wait found is not tested
    /\ stage = "hardPoll"
    /\ spent >= budget
    /\ Return("released", res)
    /\ UNCHANGED <<opts, seen, asked>> /\ NoWait

HardExpired ==
    /\ stage = "hardPoll"
    /\ spent >= budget
    /\ Return("timeout", res)
    /\ UNCHANGED <<opts, seen, asked>> /\ NoWait

Next ==
    \/ \E r \in Probes : FirstProbe(r) \/ Poll(r) \/ PollHard(r)
    \/ \E e \in Errors : Graceful(e) \/ Hard(e)
    \/ \E lc \in Lifecycles : CheckReleased(lc) \/ CheckHeld(lc)
    \/ HardExpired

(* Run is one goroutine and every callback returns, so a next step is taken. *)
Spec == Init /\ [][Next]_vars /\ WF_vars(Next)

-----------------------------------------------------------------------------

(* Properties of waitForRelease (lines 211-227) and of the stages of Run.    *)

(* A wait overruns its budget by less than one interval of the schedule, and *)
(* a budget of zero or less is no wait at all: waitForRelease's loop tests   *)
(* spent before it sleeps.                                                   *)
WaitBounded == spent > 0 => budget > 0 /\ spent < budget + 100

(* A process that took the graceful signal is never evicted before it had    *)
(* the whole Timeout, and never when the last look found the endpoint free   *)
(* or failed.                                                                *)
HardKillIsPatient ==
    [][~res.usedHardKill /\ res'.usedHardKill =>
          /\ seen = "held"
          /\ res.gracefulSent => spent >= opts.Timeout]_vars

(* Run returns, whatever its callbacks answer. *)
Terminates == <>(stage = "done")

(* Run implements the abstract teardown: every call and every outcome of the *)
(* code is one the abstract specification allows.                            *)
Abstract == INSTANCE Teardown WITH
    tries   <- (IF asked THEN {"graceful"} ELSE {})
                \cup (IF res.usedHardKill THEN {"hard"} ELSE {}),
    outcome <- res.outcome

ImplementsTeardown == Abstract!Spec

=============================================================================
