---------------------------- MODULE RunKill_proof ----------------------------
(***************************************************************************)
(* Theorems about RunKill, for every number of processes and endpoints,    *)
(* whoever holds what, whatever the groups and the outcomes of killOne:    *)
(* without consent at most one process is signalled, and every holder that *)
(* was found is tried once.                                                *)
(***************************************************************************)
EXTENDS RunKill, FiniteSetTheorems, SequenceTheorems, TLAPS

Holders == {b[2] : b \in Owned(bindings)}

Row == [pid : Visible, ep : Endpoints]

(***************************************************************************)
(* targets, once it is filled, lists every holder once.                    *)
(***************************************************************************)
Listed ==
    /\ targets \in Seq(Row)
    /\ Len(targets) = Cardinality(Holders)
    /\ Targets = Holders

(***************************************************************************)
(* Until the loop nothing was signalled and the exit code is 0; in it and  *)
(* after it, the results are those of the first targets.                   *)
(***************************************************************************)
Progress ==
    /\ bindings \subseteq Endpoints \X (Owners \cup {TW})
    /\ sock \subseteq Endpoints \X Owners
    /\ results \in Seq(Outcomes)
    /\ exit \in 0..6
    /\ pc \in PCs
    /\ targets \in Seq(Row)
    /\ pc \in PCs \ {"discover", "done"} => Listed
    /\ pc \notin {"kill", "done"} => exit = 0 /\ results = <<>>
    /\ pc = "kill" => Len(results) <= Len(targets)
    /\ pc = "done" /\ results # <<>> => Listed /\ Len(results) = Len(targets)
    /\ results # <<>> /\ exit = 0 =>
           \A i \in DOMAIN results : results[i] \in {"released", "zombie"}

(***************************************************************************)
(* The loop is entered, and a process signalled, only past the question    *)
(* that NeedConfirm asks for; where it asks for none, the loop's only      *)
(* target is alone in its group.                                           *)
(***************************************************************************)
Allowed ==
    /\ ~flags.dry
    /\ exit <= 5
    /\ flags.yes \/ consent \/ ~NeedConfirm

Consented ==
    /\ signalled \subseteq Visible
    /\ \/ groups = <<>>
       \/ groups \in [Targets -> SUBSET Visible] /\ \A p \in Targets : p \in groups[p]
    /\ pc \notin {"kill", "done"} => signalled = {}
    /\ pc \in {"discover", "advise", "group"} => groups = <<>>
    /\ pc = "confirm" => ~flags.dry
    /\ pc = "kill" \/ signalled # {} => Allowed
    /\ signalled # {} /\ ~flags.yes /\ ~consent =>
           Len(targets) = 1 /\ signalled = {targets[1].pid}

-----------------------------------------------------------------------------

LEMMA RowsArePids ==
    ASSUME NEW bs
    PROVE  {r.pid : r \in Rows(bs)} = {b[2] : b \in Owned(bs)}
<1>1. ASSUME NEW b \in Owned(bs) PROVE [pid |-> b[2], ep |-> b[1]].pid = b[2]
    OBVIOUS
<1> QED BY <1>1 DEF Rows

(* Discovery's choice of targets lists every owner, once. *)
LEMMA UniqueProcessesList ==
    ASSUME NEW bs, bs \subseteq Endpoints \X (Owners \cup {TW}), NEW ts \in UniqueProcesses(bs)
    PROVE  /\ ts \in Seq(Row)
           /\ Len(ts) = Cardinality({b[2] : b \in Owned(bs)})
           /\ {ts[i].pid : i \in DOMAIN ts} = {b[2] : b \in Owned(bs)}
<1> DEFINE ps == {b[2] : b \in Owned(bs)}
<1>1. ps \subseteq Visible
    BY DEF Owned
<1>2. Cardinality(ps) \in Nat
    BY <1>1, RunKillAssumption, FS_Subset, FS_CardinalityType
<1>3. /\ ts \in [1..Cardinality(ps) -> Rows(bs)]
      /\ {ts[i].pid : i \in DOMAIN ts} = ps
    BY RowsArePids DEF UniqueProcesses
<1>4. Rows(bs) \subseteq Row
  <2> SUFFICES ASSUME NEW b \in Owned(bs)
               PROVE  [pid |-> b[2], ep |-> b[1]] \in Row
      BY DEF Rows
  <2>1. b[2] \in Visible /\ b[1] \in Endpoints
      BY DEF Owned
  <2> QED BY <2>1 DEF Row
<1>5. ts \in [1..Cardinality(ps) -> Row]
    BY <1>3, <1>4
<1>6. ts \in Seq(Row)
    BY <1>2, <1>5, SeqDef
<1>7. Len(ts) = Cardinality(ps)
  <2>1. DOMAIN ts = 1..Len(ts) /\ Len(ts) \in Nat
      BY <1>6, LenProperties
  <2>2. 1..Len(ts) = 1..Cardinality(ps)
      BY <1>5, <2>1
  <2>3. Cardinality(1..Len(ts)) = Cardinality(1..Cardinality(ps))
      BY <2>2
  <2> QED BY <1>2, <2>1, <2>2
<1> QED BY <1>3, <1>6, <1>7

(* A group of at most one process is its target. *)
LEMMA AloneInGroup ==
    ASSUME NEW g \in SUBSET Visible, NEW p \in g, ~(Cardinality(g) > 1)
    PROVE  g = {p}
<1>1. IsFiniteSet(g) /\ Cardinality(g) \in Nat
    BY RunKillAssumption, FS_Subset, FS_CardinalityType
<1>2. IsFiniteSet({p}) /\ Cardinality({p}) = 1
    BY FS_Singleton
<1>3. Cardinality(g) # 0
    BY <1>1, FS_EmptySet
<1>4. Cardinality(g) = Cardinality({p})
    BY <1>1, <1>2, <1>3
<1> QED BY <1>1, <1>4, FS_Subset, {p} \in SUBSET g

-----------------------------------------------------------------------------

LEMMA ProgressStep == Progress /\ [Next]_vars => Progress'
<1> SUFFICES ASSUME Progress, [Next]_vars
             PROVE  Progress'
    OBVIOUS
<1> USE DEF Progress, PCs
<1>1. CASE Discover
  <2>1. PICK tw \in {{}, Endpoints} :
            /\ bindings' = sock \cup (tw \X {TW})
            /\ \/ targets' \in UniqueProcesses(bindings') /\ pc' = "advise" /\ UNCHANGED exit
               \/ UNCHANGED targets /\ pc' = "done" /\ exit' \in {0, 2, 5}
      BY <1>1 DEF Discover, Return
  <2>2. /\ UNCHANGED <<sock, results>> /\ results = <<>> /\ exit = 0
      BY <1>1 DEF Discover
  <2>3. bindings' \subseteq Endpoints \X (Owners \cup {TW})
      BY <2>1
  <2>4. CASE targets' \in UniqueProcesses(bindings') /\ pc' = "advise" /\ UNCHANGED exit
      BY <2>2, <2>3, <2>4, UniqueProcessesList DEF Listed, Holders, Targets
  <2>5. CASE UNCHANGED targets /\ pc' = "done" /\ exit' \in {0, 2, 5}
      BY <2>2, <2>3, <2>5
  <2> QED BY <2>1, <2>4, <2>5
<1>2. CASE DiscoverFails \/ RefuseGroup
    BY <1>2 DEF DiscoverFails, RefuseGroup, Return, Listed, Holders, Targets
<1>3. CASE Advise \/ FindGroups \/ Release
    BY <1>3 DEF Advise, FindGroups, Release, progVars, Listed, Holders, Targets
<1>4. CASE Decide \/ Confirm
  <2>1. /\ UNCHANGED <<sock, bindings, targets, results>> /\ results = <<>> /\ Listed
        /\ \/ pc' \in {"confirm", "kill"} /\ exit' = 0
           \/ pc' = "done" /\ exit' \in {0, 1}
      BY <1>4 DEF Decide, Confirm, Return
  <2>2. Len(results) = 0 /\ Len(targets) \in Nat
    <3>1. Len(targets) \in Nat
        BY LenProperties
    <3> QED BY <2>1, <3>1, EmptySeq
  <2>3. Listed'
      BY <2>1 DEF Listed, Holders, Targets
  <2>4. Len(results') <= Len(targets')
      BY <2>1, <2>2
  <2> QED BY <2>1, <2>3, <2>4
<1>5. CASE KillNext
  <2>1. PICK o \in Outcomes, touched \in {{}, Group} : \E lost \in Losses(touched) :
            /\ sock' = sock \ lost
            /\ results' = Append(results, o)
            /\ exit' = Worst(ExitCode(o))
      BY <1>5 DEF KillNext
  <2>2. /\ UNCHANGED <<bindings, targets, pc>> /\ pc = "kill"
        /\ Len(results) < Len(targets)
      BY <1>5 DEF KillNext
  <2>3. /\ results' \in Seq(Outcomes) /\ Len(results') = Len(results) + 1
        /\ DOMAIN results' = 1..(Len(results) + 1)
        /\ \A i \in 1..Len(results) : results'[i] = results[i]
        /\ results'[Len(results) + 1] = o
      BY <2>1
  <2>4. Listed'
      BY <2>2 DEF Listed, Holders, Targets
  <2>5. /\ exit' \in 0..6
        /\ exit' = 0 => exit = 0 /\ o \in {"released", "zombie"}
      BY <2>1 DEF Worst, ExitCode, Outcomes
  <2>6. Len(results') <= Len(targets')
      BY <2>2, <2>3
  <2>7. exit' = 0 => \A i \in DOMAIN results' : results'[i] \in {"released", "zombie"}
      BY <2>3, <2>5
  <2> QED BY <2>1, <2>2, <2>3, <2>4, <2>5, <2>6, <2>7
<1>6. CASE Finish
    BY <1>6 DEF Finish, Listed, Holders, Targets
<1>7. CASE UNCHANGED vars
    BY <1>7 DEF vars, progVars, Listed, Holders, Targets
<1> QED BY <1>1, <1>2, <1>3, <1>4, <1>5, <1>6, <1>7 DEF Next, RunKill, Done

LEMMA ProgressInit == Init => Progress
BY DEF Init, Progress, PCs

(* In every state of runKill the list of targets names every holder once,    *)
(* and the results are those of the first of them.                           *)
THEOREM ProgressInvariant == Spec => []Progress
BY ProgressInit, ProgressStep, PTL DEF Spec

(***************************************************************************)
(* Every process that discovery found on the endpoints is tried, each      *)
(* once, whatever became of those before it, and exit 0 hides no failed    *)
(* one.                                                                    *)
(***************************************************************************)
THEOREM HoldersTriedOnce == Spec => []EachHolderTriedOnce
<1>1. Progress => EachHolderTriedOnce
    BY DEF Progress, Listed, Holders, EachHolderTriedOnce
<1> QED BY <1>1, ProgressInvariant, PTL

-----------------------------------------------------------------------------

(* Of a loop that asked nobody there is one target, and it alone is reached. *)
LEMMA UnaskedReachesOne ==
    ASSUME Progress, Consented, pc = "kill", ~NeedConfirm, Len(results) < Len(targets)
    PROVE  Len(targets) = 1 /\ Group = {targets[1].pid} /\ targets[1].pid \in Visible
<1>1. Len(targets) = 1 /\ Len(results) = 0
  <2>1. targets \in Seq(Row) /\ results \in Seq(Outcomes)
      BY DEF Progress
  <2>3. Len(targets) \in Nat /\ Len(results) \in Nat
      BY <2>1, LenProperties
  <2>2. ~(Len(targets) > 1)
      BY DEF NeedConfirm
  <2>4. Len(results) < Len(targets)
      OBVIOUS
  <2> QED BY ONLY <2>2, <2>3, <2>4
<1>2. targets[1] \in Row /\ Target = targets[1]
    BY <1>1, ElementOfSeq DEF Progress, Target
<1>3. targets[1].pid \in Visible
    BY <1>2 DEF Row
<1>4. CASE targets[1].pid \in DOMAIN groups
  <2>1. /\ groups[targets[1].pid] \in SUBSET Visible
        /\ targets[1].pid \in groups[targets[1].pid]
      BY <1>4 DEF Consented
  <2>2. ~(Cardinality(groups[targets[1].pid]) > 1)
      BY <1>4 DEF NeedConfirm
  <2> QED BY <1>1, <1>2, <1>3, <1>4, <2>1, <2>2, AloneInGroup DEF Group
<1> QED BY <1>1, <1>2, <1>3, <1>4 DEF Group

LEMMA ConsentedStep == Progress /\ Progress' /\ Consented /\ [Next]_vars => Consented'
<1> SUFFICES ASSUME Progress, Progress', Consented, [Next]_vars
             PROVE  Consented'
    OBVIOUS
<1> USE DEF Consented, Allowed
<1>1. CASE Discover
  <2>1. /\ groups' = <<>> /\ signalled' = {} /\ pc' \in {"advise", "done"}
      BY <1>1 DEF Discover, Return
  <2> QED BY <2>1
<1>2. CASE DiscoverFails \/ RefuseGroup
    BY <1>2 DEF DiscoverFails, RefuseGroup, Return
<1>3. CASE Advise \/ FindGroups \/ Release
    BY <1>3 DEF Advise, FindGroups, Release, progVars, Targets
<1>4. CASE Decide \/ Confirm
  <2>1. /\ UNCHANGED <<flags, targets, advised, groups, signalled>>
        /\ signalled = {} /\ ~(pc \in {"kill", "done"})
        /\ pc' = "confirm" => ~flags.dry
        /\ pc' = "kill" => ~flags.dry /\ (NeedConfirm /\ ~flags.yes => consent')
        /\ pc' = "kill" => exit' = 0
        /\ pc' \in {"confirm", "kill", "done"}
      BY <1>4 DEF Decide, Confirm, Return, Progress
  <2>2. UNCHANGED <<NeedConfirm, Targets>>
      BY <2>1 DEF NeedConfirm, Targets
  <2> QED BY <2>1, <2>2
<1>5. CASE KillNext
  <2>1. PICK o \in Outcomes, touched \in {{}, Group} :
            signalled' = signalled \cup touched /\ exit' = Worst(ExitCode(o))
      BY <1>5 DEF KillNext
  <2>2. /\ UNCHANGED <<flags, targets, advised, groups, pc, consent>> /\ pc = "kill"
        /\ Len(results) < Len(targets)
      BY <1>5 DEF KillNext
  <2>3. Group \subseteq Visible
    <3>1. Len(results) + 1 \in 1..Len(targets)
        BY <2>2 DEF Progress
    <3>2. Target \in Row
        BY <3>1, ElementOfSeq DEF Target, Progress
    <3>3. Target.pid \in Visible
        BY <3>2 DEF Row
    <3> QED BY <3>3 DEF Group
  <2>4. exit' <= 5
      BY <2>1, <2>2 DEF Worst, ExitCode, Progress
  <2>5. Allowed' /\ UNCHANGED <<NeedConfirm, Targets>>
      BY <2>2, <2>4 DEF NeedConfirm, Targets
  <2>6. ASSUME signalled' # {}, ~flags.yes, ~consent
        PROVE  Len(targets) = 1 /\ signalled' = {targets[1].pid}
    <3>1. Len(targets) = 1 /\ Group = {targets[1].pid}
        BY <2>2, <2>6, UnaskedReachesOne
    <3> QED BY <2>1, <2>6, <3>1
  <2> QED BY <2>1, <2>2, <2>3, <2>5, <2>6
<1>6. CASE Finish
    BY <1>6 DEF Finish, NeedConfirm, Targets
<1>7. CASE UNCHANGED vars
    BY <1>7 DEF vars, progVars, NeedConfirm, Targets
<1> QED BY <1>1, <1>2, <1>3, <1>4, <1>5, <1>6, <1>7 DEF Next, RunKill, Done

(***************************************************************************)
(* Without --yes and without an answer at the prompt, portpin signals at   *)
(* most one process, one without an advisory; with --dry-run, none, and    *)
(* none when a group is refused.                                           *)
(***************************************************************************)
THEOREM ConsentComesFirst == Spec => []ConsentFirst
<1>1. Init => Consented
    BY DEF Init, Consented
<1>2. Progress /\ Consented => ConsentFirst
  <2> SUFFICES ASSUME Progress, Consented, signalled # {}
               PROVE  /\ ~flags.dry /\ exit # 6
                      /\ \/ flags.yes \/ consent
                         \/ Cardinality(signalled) = 1 /\ advised = {}
      BY DEF ConsentFirst
  <2>1. Allowed
      BY DEF Consented
  <2>2. ~flags.dry /\ exit # 6
      BY <2>1 DEF Allowed, Progress
  <2>3. CASE ~flags.yes /\ ~consent
    <3>1. advised = {}
        BY <2>1, <2>3 DEF Allowed, NeedConfirm
    <3>2. signalled = {targets[1].pid}
        BY <2>3 DEF Consented
    <3>3. Cardinality(signalled) = 1
        BY <3>2, FS_Singleton
    <3> QED BY <2>2, <3>1, <3>3
  <2> QED BY <2>2, <2>3
<1> QED BY <1>1, <1>2, ProgressInvariant, ConsentedStep, PTL DEF Spec

=============================================================================
