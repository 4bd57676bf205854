------------------------------ MODULE Teardown ------------------------------
(***************************************************************************)
(* What internal/terminate promises about one pinned process, whatever the *)
(* order of its stages, its budgets or its polling: it looks at the        *)
(* endpoint, it may ask the process to stop and then evict it, never       *)
(* without having just seen the endpoint held, and it concludes with an    *)
(* outcome that what it saw and what it tried justify.                     *)
(*                                                                         *)
(* Terminate is the detailed specification that implements this one.       *)
(***************************************************************************)

VARIABLES
    seen,     \* what the latest look at the endpoint answered
    tries,    \* the stops attempted so far: "graceful", "hard"
    outcome   \* "none" until the teardown concludes

vars == <<seen, tries, outcome>>

Sightings == {"held", "free", "err"}
Stops     == {"graceful", "hard"}
Outcomes  == {"released", "zombie", "timeout", "identity-changed",
              "permission-denied", "error"}

TypeOK ==
    /\ seen \in Sightings \cup {"unknown"}
    /\ tries \subseteq Stops
    /\ outcome \in Outcomes \cup {"none"}

(***************************************************************************)
(* The outcomes that a sighting s and a set t of attempted stops justify.  *)
(***************************************************************************)
Justified(o, s, t) ==
    \/ o = "released" /\ s = "free"
    \/ o = "zombie" /\ s \in {"held", "free"} /\ t = {"graceful"}
    \/ o = "timeout" /\ s = "held" /\ "hard" \in t
    \/ o \in {"identity-changed", "permission-denied"} /\ s = "held" /\ t # {}
    \/ o = "error" /\ (s = "err" \/ t # {})

-----------------------------------------------------------------------------

Init ==
    /\ seen = "unknown"
    /\ tries = {}
    /\ outcome = "none"

Settle == outcome' = "none" \/ Justified(outcome', seen', tries')

(* Ask the resolver whether the endpoint is still held. *)
Look ==
    /\ outcome = "none"
    /\ seen' \in Sightings
    /\ UNCHANGED tries
    /\ Settle

(* Signal the process: each kind once, and nothing after the hard kill. *)
Try(k) ==
    /\ outcome = "none"
    /\ seen = "held"
    /\ k \notin tries
    /\ "hard" \notin tries
    /\ tries' = tries \cup {k}
    /\ UNCHANGED seen
    /\ Settle

(* Conclude from what is already known. *)
Conclude ==
    /\ outcome = "none"
    /\ outcome' # "none"
    /\ UNCHANGED <<seen, tries>>
    /\ Settle

Next == Look \/ (\E k \in Stops : Try(k)) \/ Conclude

Spec == Init /\ [][Next]_vars

-----------------------------------------------------------------------------

(* Every outcome is justified by what was last seen and what was tried. *)
Honest == outcome # "none" => Justified(outcome, seen, tries)

=============================================================================
