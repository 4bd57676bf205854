---------------------------- MODULE GroupMembers ----------------------------
(***************************************************************************)
(* internal/discover/group.go: GroupMembers, which selects the processes   *)
(* that --group stops, on the process table that ProcTable reads while the *)
(* processes fork, exit, regroup and have their PIDs reused.               *)
(***************************************************************************)
EXTENDS Integers, FiniteSets

CONSTANTS
    MaxPid,     \* PIDs are 1..MaxPid; 1 is init, or Windows' System
    Ticks,      \* the platforms, each with its bound on start times
    Quiet       \* no process exits or regroups while the table is read

ASSUME GroupAssumption ==
    /\ DOMAIN Ticks \subseteq {"linux", "darwin", "windows"}
    /\ MaxPid \in Nat \ {0} /\ \A s \in DOMAIN Ticks : Ticks[s] \in Nat \ {0}
    /\ Quiet \in BOOLEAN

VARIABLES
    platform, \* what portpin was built for
    table,    \* the processes: PID -> entry, or NoEntry
    clock,    \* the tick the next process may start in
    top,      \* the highest PID in use so far
    pc,       \* "idle", "reading", "read", "done"
    target,   \* [pid, start] of the discovered owner
    self,     \* os.Getpid
    rows,     \* what ProcTable has read: PID -> row, or NoRow
    unread,   \* the PIDs of the listing that are still to be read
    listed,   \* history: PID -> the start time of the process that gave the row
    group     \* what GroupMembers returned: its error, or the members

sysVars == <<table, clock, top>>
readVars == <<target, self, rows, unread, listed>>
vars == <<platform, sysVars, pc, readVars, group>>

MaxStart == Ticks[platform]
Posix == platform # "windows"
Pid == 1..MaxPid

(* "line" is history: the identities of the process and its forebears.     *)
(* "open" is whether portpin may read its creation time.                   *)
Entries == [start : 1..MaxStart, ppid : 0..MaxPid, pgid : 0..MaxPid, sid : 0..MaxPid,
            climb : BOOLEAN, open : BOOLEAN, line : SUBSET (Pid \X (1..MaxStart))]
NoEntry == [start |-> 0]

Rows == [start : 0..MaxStart, ppid : 0..MaxPid, pgid : 0..MaxPid, leader : BOOLEAN, climb : BOOLEAN]
NoRow == [start |-> -1]

Live == {p \in Pid : table[p] # NoEntry}

(* step, taken n times from a: its value at n. *)
Iterate(step, a) ==
    LET after[n \in 0..MaxPid] == IF n = 0 THEN a ELSE step[after[n-1]]
    IN  after

TypeOK ==
    /\ platform \in DOMAIN Ticks
    /\ table \in [Pid -> Entries \cup {NoEntry}]
    /\ clock \in 1..MaxStart
    /\ top \in Pid
    /\ pc \in {"idle", "reading", "read", "done"}
    /\ target \in [pid : 0..MaxPid, start : 0..MaxStart]
    /\ self \in 0..MaxPid
    /\ rows \in [Pid -> Rows \cup {NoRow}]
    /\ unread \subseteq Pid
    /\ listed \in [Pid -> 0..MaxStart]
    /\ group.err \in {"none", "nil", "DaemonGroup", "ProtectedProcess", "OwnGroup"}
    /\ group.members \subseteq Pid

Init ==
    /\ platform \in DOMAIN Ticks
    /\ table = [p \in Pid |->
          IF p = 1 THEN [start |-> 1, ppid |-> 0, pgid |-> IF Posix THEN 1 ELSE 0,
                         sid |-> IF Posix THEN 1 ELSE 0, climb |-> FALSE, open |-> TRUE,
                         line |-> {<<1, 1>>}]
          ELSE NoEntry]
    /\ clock = 1
    /\ top = 1
    /\ pc = "idle"
    /\ target = [pid |-> 0, start |-> 0]
    /\ self = 0
    /\ rows = [p \in Pid |-> NoRow]
    /\ unread = {}
    /\ listed = [p \in Pid |-> 0]
    /\ group = [err |-> "none", members |-> {}]

-----------------------------------------------------------------------------

(* The processes.  PIDs are allocated upwards and then reused, but neither   *)
(* within a tick, nor on POSIX while a group or a session has the number.    *)
Reusable(q) ==
    /\ table[q] = NoEntry
    /\ Posix => \A r \in Live : q \notin {table[r].pgid, table[r].sid}

Image(c, o) ==
    IF Posix THEN ~c /\ o
    ELSE ~o => ~c /\ \A r \in Live : table[r].open   \* bound: one unreadable process

Fork(p, q) ==
    /\ p \in Live \ {self} /\ Reusable(q)
    /\ \E tick \in {clock, clock + 1}, c, o \in BOOLEAN :
          /\ q = top + 1 \/ (q <= top /\ tick > clock)
          /\ tick <= MaxStart
          /\ Image(c, o)
          /\ table' = [table EXCEPT ![q] =
                [start |-> tick, ppid |-> p, pgid |-> table[p].pgid, sid |-> table[p].sid,
                 climb |-> c, open |-> o, line |-> table[p].line \cup {<<q, tick>>}]]
          /\ clock' = tick
          /\ top' = IF q > top THEN q ELSE top

(* POSIX gives the children of p to init; on Windows they keep its number. *)
Exit(p) ==
    /\ p \in Live \ {1, self}
    /\ table' = [q \in Pid |->
          IF q = p THEN NoEntry
          ELSE IF Posix /\ q \in Live /\ table[q].ppid = p THEN [table[q] EXCEPT !.ppid = 1]
          ELSE table[q]]
    /\ UNCHANGED <<clock, top>>

SetPgid(p) ==
    /\ Posix /\ p \in Live \ {1}
    /\ table[p].sid # p
    /\ \E g \in {p} \cup {table[q].pgid : q \in {r \in Live : table[r].sid = table[p].sid}} :
          g # table[p].pgid /\ table' = [table EXCEPT ![p].pgid = g]
    /\ UNCHANGED <<clock, top>>

SetSid(p) ==
    /\ Posix /\ p \in Live \ {1}
    /\ \A q \in Live : table[q].pgid # p
    /\ table' = [table EXCEPT ![p].pgid = p, ![p].sid = p]
    /\ UNCHANGED <<clock, top>>

Processes ==
    /\ pc \in {"idle", "reading"}
    /\ \E p \in Pid :
          \/ \E q \in Pid : Fork(p, q)
          \/ (Quiet => pc = "idle") /\ (Exit(p) \/ SetPgid(p) \/ SetSid(p))
    /\ UNCHANGED <<pc, readVars, group>>

-----------------------------------------------------------------------------

(***************************************************************************)
(* ProcTable.  Linux lists /proc and then reads one stat after another;    *)
(* the sysctl of macOS is one snapshot; on Windows the snapshot holds      *)
(* everything but creation times and command lines, read by PID afterwards. *)
(***************************************************************************)
StartOf(p) == IF table[p].open THEN table[p].start ELSE 0

Row(p, start) ==
    [start |-> start, ppid |-> table[p].ppid, pgid |-> table[p].pgid,
     leader |-> Posix /\ table[p].sid = p, climb |-> table[p].climb]

(* The owner was discovered, and processGroups takes the listing. *)
List(t, s) ==
    /\ pc = "idle"
    /\ t \in Live /\ s \in Live \ {1}
    /\ \A c \in Live : table[c].ppid # s
    /\ target' = [pid |-> t, start |-> StartOf(t)]
    /\ self' = s
    /\ unread' = IF platform = "darwin" THEN {} ELSE Live
    /\ rows' = [p \in Pid |->
          IF p \notin Live \/ platform = "linux" THEN NoRow
          ELSE Row(p, IF Posix THEN StartOf(p) ELSE 0)]
    /\ listed' = [p \in Pid |-> table[p].start]
    /\ pc' = IF unread' = {} THEN "read" ELSE "reading"
    /\ UNCHANGED <<sysVars, group>>

(* On Windows the name is the snapshot's and the command line that of        *)
(* whoever has the number now: of another process it may say anything.       *)
Programs(p) == IF table[p].start = listed[p] THEN {rows[p].climb} ELSE BOOLEAN

Read(p) ==
    /\ p \in unread /\ \A q \in unread : p <= q
    /\ unread' = unread \ {p}
    /\ \/ p \notin Live /\ UNCHANGED rows
       \/ p \in Live /\ Posix /\ rows' = [rows EXCEPT ![p] = Row(p, StartOf(p))]
       \/ /\ p \in Live /\ ~Posix
          /\ \E c \in Programs(p) :
                rows' = [rows EXCEPT ![p].start = StartOf(p), ![p].climb = c]
    /\ listed' = IF Posix THEN [listed EXCEPT ![p] = table[p].start] ELSE listed
    /\ pc' = IF unread' = {} THEN "read" ELSE "reading"
    /\ UNCHANGED <<sysVars, target, self, group>>

-----------------------------------------------------------------------------

(* GroupMembers, on the rows that were read. *)

Listed == {p \in Pid : rows[p] # NoRow}

Protected(p) == p = 1 \/ rows[p].ppid = 0
Detached(p) == rows[p].leader \/ rows[p].ppid = 1

TargetListed ==
    target.pid \in Listed /\ target.start \in {0, rows[target.pid].start}

(* The parents of portpin by number, as far as they are listed: n of them. *)
WithParents == [chain \in SUBSET (0..MaxPid) |->
    chain \cup ({rows[p].ppid : p \in chain \cap Listed} \ {0})]

Chain == Iterate(WithParents, {self})

SelfChain == Chain[MaxPid]

NoStartCheck(p, r) ==   \* mutant: the start times are not compared
    /\ p \in Listed /\ p # r
    /\ p \notin SelfChain
    /\ rows[p].climb
    /\ rows[p].start # 0

(* climbable: a program on the list, started for one command. *)
Climbable(p) == rows[p].climb

(* Whether the climb goes on from r to its parent p. *)
Climbs(p, r) ==
    /\ p \in Listed /\ p # r
    /\ p \notin SelfChain
    /\ Climbable(p)
    /\ rows[p].start # 0 /\ rows[p].start <= rows[r].start

Pgid == rows[target.pid].pgid

(* The climb after n parents; without process groups only. *)
ToParent == [r \in Pid |->
    IF Pgid = 0 /\ Climbs(rows[r].ppid, r) THEN rows[r].ppid ELSE r]

Climb == Iterate(ToParent, target.pid)

Root == Climb[MaxPid]

DaemonLed ==
    Pgid # 0 /\ Pgid \in Listed /\ Pgid # target.pid /\ Detached(Pgid)

WholeGroup == {Root} \cup {p \in Listed : Pgid # 0 /\ rows[p].pgid = Pgid}   \* mutant: daemons too

(* What is in before the walk: the root, and the target's process group. *)
Seed ==
    {Root} \cup {p \in Listed :
        /\ Pgid # 0 /\ rows[p].pgid = Pgid
        /\ p = target.pid \/ ~Detached(p) \/ Protected(p)}

AnyChild(p, c) == rows[c].ppid = p /\ c # p /\ rows[c].start # 0   \* mutant: stale children too
LaterChild(p, c) ==   \* mutant: a child of the same tick is missed
    rows[c].ppid = p /\ c # p /\ rows[c].start # 0 /\ rows[c].start > rows[p].start

ChildRow(p, c) ==
    rows[c].ppid = p /\ c # p /\ rows[c].start # 0 /\ rows[c].start >= rows[p].start

(* The walk from the root enters no process that is in already. *)
WithChildren == [seen \in SUBSET Pid |->
    seen \cup {c \in Listed \ Seed : \E p \in seen : ChildRow(p, c)}]

Reached == Iterate(WithChildren, {Root})
Walk == Reached[MaxPid]

Members == Seed \cup Walk

(* The members above p, going by the parents' numbers, and their number. *)
UpIn(in) == [q \in 0..MaxPid |->
    IF q # 0 /\ rows[q].ppid \in in THEN rows[q].ppid ELSE 0]

Above(p, in) == Iterate(UpIn(in), p)

Depth(p, in) == Cardinality({n \in 1..Cardinality(in) : Above(p, in)[n] # 0})

ByNumber(p, q, in) == p < q   \* mutant: depth is not compared

(* The order in which the members are pinned and signalled. *)
Before(p, q, in) ==
    \/ Depth(p, in) < Depth(q, in)
    \/ Depth(p, in) = Depth(q, in) /\ p < q

OwnProcess == self \in Members   \* mutant: only portpin itself is refused
OwnGroup == Members \cap SelfChain # {}

(* GroupMembers; the order of its members is Before. *)
Selected ==
    IF ~TargetListed THEN [err |-> "nil", members |-> {target.pid}]
    ELSE IF DaemonLed THEN [err |-> "DaemonGroup", members |-> {}]
    ELSE IF \E p \in Members : Protected(p) THEN [err |-> "ProtectedProcess", members |-> {}]
    ELSE IF OwnGroup THEN [err |-> "OwnGroup", members |-> {}]
    ELSE [err |-> "nil", members |-> Members]

Select ==
    /\ pc = "read"
    /\ pc' = "done"
    /\ group' = Selected
    /\ UNCHANGED <<sysVars, readVars>>

(* The program is over, or was never started. *)
Done == pc \in {"idle", "done"} /\ UNCHANGED vars

Next ==
    /\ \/ Processes
       \/ \E t, s \in Pid : List(t, s)
       \/ \E p \in Pid : Read(p)
       \/ Select
       \/ Done
    /\ UNCHANGED platform

Spec == Init /\ [][Next]_vars

-----------------------------------------------------------------------------

(* p is the process that forked c, by the history and not by a number. *)
ParentOf(p, c) ==
    /\ {p, c} \subseteq Live /\ p # c
    /\ table[c].ppid = p /\ <<p, table[p].start>> \in table[c].line

Forebears(c) == {p \in Live : <<p, table[p].start>> \in table[c].line}

(* Unbroken descent: q is p, or was forked by one that descends from p. *)
WithForkers == [line \in SUBSET Pid |->
    line \cup {r \in Live : \E c \in line : ParentOf(r, c)}]

Ancestry(q) == Iterate(WithForkers, {q})

Descends(p, q) == p \in Ancestry(q)[MaxPid]

(* A group was returned for a target that Pin can open: one whose creation   *)
(* time is denied fails there, and none of its group is pinned.              *)
Accepted == group.err = "nil" /\ TargetListed /\ target.start # 0

(* Every member belongs to the target's job: it shares the process group of  *)
(* the target, or was forked, directly or not, by the target or by a         *)
(* supervisor that started the target.  No number left by a dead parent      *)
(* brings in a stranger (README.md:160-174).                                 *)
GenuineKin ==
    Accepted =>
        \A m \in group.members \ {target.pid} :
            \/ Posix /\ table[m].pgid = table[target.pid].pgid
            \/ \E r \in Forebears(target.pid) \cap Forebears(m) :
                  r = target.pid \/ table[r].climb

(* A group that is accepted holds neither init, nor portpin, nor any process *)
(* portpin descends from (README.md:180-182).                                *)
NeverOwnAncestor ==
    Accepted => \A m \in group.members : m # 1 /\ ~Descends(m, self)

(* A parent is signalled before its children, so that a supervisor cannot    *)
(* start a replacement (README.md:189-190).  On Windows the number of a dead *)
(* parent of the root, reused by a child of the root, makes a cycle that the *)
(* depths do not tell apart, and there the order is lost.                    *)
ParentsFirst ==
    Accepted /\ Posix => \A p, c \in group.members : ParentOf(p, c) => Before(p, c, group.members)

(* A daemon is not stopped because it kept the process group of the job: the *)
(* members that lead a session descend from the target, and init is the      *)
(* parent of none but the target (README.md:162-164).                        *)
DaemonsSpared ==
    Accepted /\ Posix =>
        \A m \in group.members \ {target.pid} :
            /\ table[m].ppid # 1
            /\ table[m].sid = m => Descends(target.pid, m)

(* The climb to the supervisor ends: no parent is reached a second time,     *)
(* although numbers of dead parents may form cycles (group.go:160-167).      *)
ClimbEnds ==
    pc = "read" /\ TargetListed /\ Pgid = 0 => ~Climbs(rows[Root].ppid, Root)

(* Every descendant of the target is a member (README.md:164, 172-173).      *)
WholeTree ==
    Accepted => \A q \in Listed :
        Descends(target.pid, q) /\ rows[q].start # 0 => q \in group.members

(* The tree is whole on Windows, where the walk starts from the target or    *)
(* above it and nothing is in before the walk, but for what is below a       *)
(* process whose creation time portpin may not read (group.go:186).          *)
TreeWithoutGroups ==
    ~Posix /\ Accepted => \A q \in Listed :
        /\ Descends(target.pid, q)
        /\ \A r \in Listed : Descends(target.pid, r) /\ Descends(r, q) => rows[r].start # 0
        => q \in group.members

=============================================================================
