------------------------------ MODULE RunKill ------------------------------
(***************************************************************************)
(* cmd/portpin/main.go: runKill, from discovery to the exit code.  killOne *)
(* is what its outcome says of the sockets (KillOne models it); the        *)
(* members of a group are any processes (GroupMembers selects them).       *)
(***************************************************************************)
EXTENDS Integers, FiniteSets, Sequences

CONSTANTS
    Visible,    \* the processes whose descriptors portpin may read
    Hidden,     \* the processes of other users
    Endpoints   \* the endpoints that match the target

ASSUME RunKillAssumption == Visible \cap Hidden = {} /\ IsFiniteSet(Visible)

Owners == Visible \cup Hidden
TW == "TIME_WAIT"

VARIABLES
    flags,      \* --dry-run, --yes, --group
    sock,       \* who holds what: pairs of an endpoint and an owner
    bindings,   \* the rows of discovery: such pairs, and those of TIME_WAIT
    targets,    \* uniqueProcesses: the processes to kill, each with one endpoint
    advised,    \* the targets with an advisory
    groups,     \* target -> GroupMembers' result
    pc,         \* where runKill stands
    results,    \* the outcomes of the loop so far
    exit,       \* the exit code
    signalled,  \* history: the processes that were signalled
    consent     \* history: the user confirmed

progVars == <<flags, bindings, targets, advised, groups, pc, results, exit>>
vars == <<progVars, sock, signalled, consent>>

Outcomes == {"released", "zombie", "timeout", "identity-changed", "permission-denied", "error"}

PCs == {"discover", "advise", "group", "decide", "confirm", "kill", "done"}

TypeOK ==
    /\ flags \in [dry : BOOLEAN, yes : BOOLEAN, group : BOOLEAN]
    /\ sock \subseteq Endpoints \X Owners
    /\ bindings \subseteq Endpoints \X (Owners \cup {TW})
    /\ \A i \in DOMAIN targets : targets[i] \in [pid : Visible, ep : Endpoints]
    /\ advised \subseteq Visible
    /\ \A p \in DOMAIN groups : groups[p] \subseteq Visible
    /\ pc \in PCs
    /\ \A i \in DOMAIN results : results[i] \in Outcomes
    /\ exit \in 0..6
    /\ signalled \subseteq Visible
    /\ consent \in BOOLEAN

Init ==
    /\ flags \in [dry : BOOLEAN, yes : BOOLEAN, group : BOOLEAN]
    /\ sock \in SUBSET (Endpoints \X Owners)
    /\ bindings = {} /\ targets = <<>> /\ results = <<>>
    /\ advised = {} /\ groups = <<>>
    /\ pc = "discover"
    /\ exit = 0
    /\ signalled = {} /\ consent = FALSE

(* A process releases an endpoint by itself while the user thinks. *)
Release ==
    /\ pc = "confirm"
    /\ \E s \in sock : sock' = sock \ {s}
    /\ UNCHANGED <<progVars, signalled, consent>>

-----------------------------------------------------------------------------

Return(code) == pc' = "done" /\ exit' = code

Owned(bs) == {b \in bs : b[2] \in Visible}

Rows(bs) == {[pid |-> b[2], ep |-> b[1]] : b \in Owned(bs)}

EveryRow(bs) ==   \* mutant: one target per socket
    {ts \in [1..Cardinality(Rows(bs)) -> Rows(bs)] : {ts[i] : i \in DOMAIN ts} = Rows(bs)}

(* uniqueProcesses: one binding of every owner, the first in the rows' order. *)
UniqueProcesses(bs) ==
    LET procs == {b.pid : b \in Rows(bs)}
    IN {ts \in [1..Cardinality(procs) -> Rows(bs)] : {ts[i].pid : i \in DOMAIN ts} = procs}

(* Resolve, and the exits when there is nobody to kill. *)
Discover ==
    /\ pc = "discover"
    /\ \E tw \in {{}, Endpoints} :
          LET bs == sock \cup (tw \X {TW}) IN
          /\ bindings' = bs
          /\ IF Owned(bs) # {}
             THEN targets' \in UniqueProcesses(bs) /\ pc' = "advise" /\ UNCHANGED exit
             ELSE /\ UNCHANGED targets
                  /\ Return(IF bs = {} THEN 0 ELSE IF sock = {} THEN 2 ELSE 5)
    /\ UNCHANGED <<flags, sock, advised, groups, results, signalled, consent>>

DiscoverFails ==
    /\ pc = "discover"
    /\ Return(1)
    /\ UNCHANGED <<flags, sock, bindings, targets, advised, groups, results, signalled, consent>>

Targets == {targets[i].pid : i \in DOMAIN targets}

Advise ==
    /\ pc = "advise"
    /\ advised' \in SUBSET Targets
    /\ pc' = IF flags.group THEN "group" ELSE "decide"
    /\ UNCHANGED <<flags, sock, bindings, targets, groups, results, exit, signalled, consent>>

(* processGroups: the group of every target, before anything is signalled. *)
FindGroups ==
    /\ pc = "group"
    /\ groups' \in {g \in [Targets -> SUBSET Visible] : \A p \in Targets : p \in g[p]}
    /\ pc' = "decide"
    /\ UNCHANGED <<flags, sock, bindings, targets, advised, results, exit, signalled, consent>>

LateRefusal ==   \* mutant: a target's group is found as its turn comes
    /\ pc \in {"group", "kill"}
    /\ \E code \in {1, 6} : Return(code)
    /\ UNCHANGED <<flags, sock, bindings, targets, advised, groups, results, signalled, consent>>

(* groupFailure: a refusal, or a process table that could not be read. *)
RefuseGroup ==
    /\ pc = "group"
    /\ \E code \in {1, 6} : Return(code)
    /\ UNCHANGED <<flags, sock, bindings, targets, advised, groups, results, signalled, consent>>

NoGroupConfirm == Len(targets) > 1 \/ advised # {}   \* mutant: the groups do not count

NeedConfirm ==
    \/ Len(targets) > 1
    \/ advised # {}
    \/ \E p \in DOMAIN groups : Cardinality(groups[p]) > 1

Decide ==
    /\ pc = "decide"
    /\ IF flags.dry THEN Return(0)
       ELSE /\ pc' = IF NeedConfirm /\ ~flags.yes THEN "confirm" ELSE "kill"
            /\ UNCHANGED exit
    /\ UNCHANGED <<flags, sock, bindings, targets, advised, groups, results, signalled, consent>>

Confirm ==
    /\ pc = "confirm"
    /\ \/ pc' = "kill" /\ consent' = TRUE /\ UNCHANGED exit
       \/ Return(1) /\ UNCHANGED consent
    /\ UNCHANGED <<flags, sock, bindings, targets, advised, groups, results, signalled>>

-----------------------------------------------------------------------------

ExitCode(o) ==
    CASE o \in {"released", "zombie"} -> 0
      [] o = "timeout" -> 4
      [] o = "identity-changed" -> 3
      [] o = "permission-denied" -> 5
      [] OTHER -> 1

LastCode(code) == code   \* mutant: the last target's code
Worst(code) == IF code > exit THEN code ELSE exit

Target == targets[Len(results) + 1]
Group == IF Target.pid \in DOMAIN groups THEN groups[Target.pid] ELSE {Target.pid}

(* killOne: it may end before it signals; the signalled exit, or close the   *)
(* target's endpoint only, or the target alone exits.                        *)
Losses(touched) ==
    {{}, sock \cap (Endpoints \X touched), sock \cap ({Target.ep} \X touched),
     sock \cap (Endpoints \X (touched \cap {Target.pid}))}

(* Of a zombie's group, a member may still hold the endpoint. *)
Killed(o, touched, lost) ==
    LET held == (sock \ lost) \cap ({Target.ep} \X Group) # {} IN
    /\ o = "released" => ~held
    /\ o = "timeout" => held /\ touched = Group
    /\ o = "zombie" =>
          touched = Group /\ (sock \ lost) \cap (Endpoints \X {Target.pid}) = {}

(* The loop: killOne on the next target. *)
KillNext ==
    /\ pc = "kill"
    /\ Len(results) < Len(targets)
    /\ \E o \in Outcomes, touched \in {{}, Group} : \E lost \in Losses(touched) :
          /\ Killed(o, touched, lost)
          /\ sock' = sock \ lost
          /\ signalled' = signalled \cup touched
          /\ results' = Append(results, o)
          /\ exit' = Worst(ExitCode(o))
    /\ UNCHANGED <<flags, bindings, targets, advised, groups, pc, consent>>

Finish ==
    /\ pc = "kill"
    /\ Len(results) = Len(targets)
    /\ pc' = "done"
    /\ UNCHANGED <<flags, sock, bindings, targets, advised, groups, results, exit, signalled, consent>>

RunKill ==
    \/ Discover \/ DiscoverFails \/ Advise \/ FindGroups \/ RefuseGroup
    \/ Decide \/ Confirm \/ KillNext \/ Finish

Done == pc = "done" /\ UNCHANGED vars

Next == RunKill \/ Release \/ Done

Spec == Init /\ [][Next]_vars

-----------------------------------------------------------------------------

(* Without --yes and without an answer at the prompt, portpin signals at     *)
(* most one process, one without an advisory; with --dry-run, none, and none *)
(* when a group is refused, were it the last target's (main.go:191-236,      *)
(* README.md:242).                                                           *)
ConsentFirst ==
    signalled # {} =>
        /\ ~flags.dry
        /\ exit # 6
        /\ flags.yes \/ consent \/ (Cardinality(signalled) = 1 /\ advised = {})

(* Every process that discovery found on the endpoints is tried, each once,  *)
(* whatever became of those before it, and exit 0 hides no failed one        *)
(* (main.go:187-189, 254-276).                                               *)
EachHolderTriedOnce ==
    pc = "done" /\ results # <<>> =>
        /\ Len(results) = Cardinality({b[2] : b \in Owned(bindings)})
        /\ Targets = {b[2] : b \in Owned(bindings)}
        /\ exit = 0 => \A i \in DOMAIN results : results[i] \in {"released", "zombie"}

=============================================================================
