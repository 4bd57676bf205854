------------------------- MODULE GroupMembers_proof -------------------------
(***************************************************************************)
(* Theorems about GroupMembers, for every number of PIDs, every platform   *)
(* and however coarse its start times are.  The invariant relates a row to *)
(* the process that has, or had, its PID; the properties of the selection  *)
(* follow from it, because what the code computes by loops over parents    *)
(* and children is taken apart step by step.                               *)
(***************************************************************************)
EXTENDS GroupMembers, FiniteSetTheorems, WellFoundedInduction, TLAPS

(***************************************************************************)
(* Iteration.  A recursive function is a CHOOSE; that it exists, and then  *)
(* takes its steps, is shown here once, by induction in the form of least  *)
(* counterexamples.                                                        *)
(***************************************************************************)
LEMMA LeastElement ==
    ASSUME NEW T, T \subseteq Nat, T # {}
    PROVE  \E x \in T : \A y \in T : x <= y
<1>1. PICK x \in T : \A y \in T : ~ (<<y, x>> \in OpToRel(<, Nat))
    BY NatLessThanWellFounded, WFMin
<1>2. ASSUME NEW y \in T PROVE x <= y
  <2>1. <<y, x>> \in Nat \X Nat /\ ~ (<<y, x>> \in OpToRel(<, Nat))
      BY <1>1
  <2> QED BY <2>1 DEF OpToRel
<1> QED BY <1>2

(* Induction up to N, over the members of a set. *)
LEMMA IntervalInduction ==
    ASSUME NEW N \in Nat, NEW T, 0 \in T,
           \A n \in 1..N : n - 1 \in T => n \in T
    PROVE  \A n \in 0..N : n \in T
<1> DEFINE U == {n \in 0..N : n \notin T}
<1>1. SUFFICES ASSUME U # {} PROVE FALSE
    OBVIOUS
<1>2. U \subseteq Nat
    OBVIOUS
<1>3. PICK x \in U : \A y \in U : x <= y
  <2> HIDE DEF U
  <2> QED BY <1>1, <1>2, LeastElement
<1>4. x \in 1..N /\ x - 1 \in 0..N /\ x - 1 \in T
    BY <1>3
<1> QED BY <1>4

(* f is step, taken up to N times from a, with values in S. *)
Iterates(f, N, S, step, a) ==
    f \in [0..N -> S] /\ f[0] = a /\ \A n \in 1..N : f[n] = step[f[n-1]]

(* One more step. *)
LEMMA Extended ==
    ASSUME NEW m \in Nat, m # 0, NEW S, NEW step \in [S -> S], NEW a \in S,
           NEW e, Iterates(e, m - 1, S, step, a)
    PROVE  \E g : Iterates(g, m, S, step, a)
<1> DEFINE g == [n \in 0..m |-> IF n = m THEN step[e[m-1]] ELSE e[n]]
<1>1. g \in [0..m -> S] /\ g[0] = a
    BY DEF Iterates
<1>2. \A n \in 1..m : g[n] = step[g[n-1]]
    BY DEF Iterates
<1> HIDE DEF g
<1>3. Iterates(g, m, S, step, a)
    BY <1>1, <1>2 DEF Iterates
<1> QED BY <1>3

LEMMA Iteration ==
    ASSUME NEW N \in Nat, NEW S, NEW step \in [S -> S], NEW a \in S
    PROVE  \E f : Iterates(f, N, S, step, a)
<1> DEFINE T == {m \in Nat : \E f : Iterates(f, m, S, step, a)}
<1>1. 0 \in T
  <2>1. Iterates([n \in 0..0 |-> a], 0, S, step, a)
      BY DEF Iterates
  <2> QED BY <2>1
<1>2. ASSUME NEW m \in 1..N, m - 1 \in T PROVE m \in T
  <2>1. PICK e : Iterates(e, m - 1, S, step, a)
      BY <1>2
  <2>2. \E g : Iterates(g, m, S, step, a)
      BY <2>1, Extended
  <2> QED BY <2>2
<1>3. N \in T
  <2> HIDE DEF T
  <2> QED BY <1>1, <1>2, IntervalInduction
<1> QED BY <1>3

(* Iterate of the model is an iteration. *)
LEMMA IterateIs ==
    ASSUME MaxPid \in Nat, NEW S, NEW step \in [S -> S], NEW a \in S
    PROVE  Iterates(Iterate(step, a), MaxPid, S, step, a)
<1> DEFINE Rec(f) == f = [n \in 0..MaxPid |-> IF n = 0 THEN a ELSE step[f[n-1]]]
           It == Iterate(step, a)
<1>1. PICK f : Iterates(f, MaxPid, S, step, a)
    BY Iteration
<1>2. Rec(f)
  <2>1. \A n \in 0..MaxPid : f[n] = IF n = 0 THEN a ELSE step[f[n-1]]
      BY <1>1 DEF Iterates
  <2> QED BY <1>1, <2>1 DEF Iterates
<1>3. Rec(It)
  <2>1. It = CHOOSE g : Rec(g)
      BY DEF Iterate
  <2> HIDE DEF Rec, It
  <2> QED BY <1>2, <2>1, Zenon
<1>4. \A n \in 0..MaxPid : It[n] = IF n = 0 THEN a ELSE step[It[n-1]]
  <2> TAKE n \in 0..MaxPid
  <2> HIDE DEF It
  <2> QED BY <1>3, Zenon
<1>5. DOMAIN It = 0..MaxPid /\ It = [n \in 0..MaxPid |-> It[n]]
  <2> HIDE DEF It
  <2> QED BY <1>3
<1> HIDE DEF It, Rec
<1>6. It[0] = a /\ \A n \in 1..MaxPid : It[n] = step[It[n-1]]
    BY <1>4
<1>7. \A n \in 0..MaxPid : It[n] \in S
  <2> DEFINE T == {n \in 0..MaxPid : It[n] \in S}
  <2>1. 0 \in T
      BY <1>6
  <2>2. ASSUME NEW n \in 1..MaxPid, n - 1 \in T PROVE n \in T
      BY <1>6, <2>2
  <2>3. \A n \in 0..MaxPid : n \in T
    <3> HIDE DEF T
    <3> QED BY <2>1, <2>2, IntervalInduction
  <2> QED BY <2>3
<1>8. Iterates(It, MaxPid, S, step, a)
    BY <1>5, <1>6, <1>7 DEF Iterates
<1> QED BY <1>8 DEF It

(* What is selected depends on the rows alone: later moves do not change it. *)
LEMMA SelectionStays ==
    UNCHANGED <<platform, rows, target, self>> =>
        Selected' = Selected /\ TargetListed' = TargetListed
<1> SUFFICES ASSUME UNCHANGED <<platform, rows, target, self>>
             PROVE  Selected' = Selected /\ TargetListed' = TargetListed
    OBVIOUS
<1>1. Listed' = Listed /\ TargetListed' = TargetListed /\ Pgid' = Pgid
    BY DEF Listed, NoRow, TargetListed, Pgid
<1>2. SelfChain' = SelfChain
    BY <1>1 DEF SelfChain, Chain, WithParents, Listed
<1>3. Root' = Root
    BY <1>1, <1>2 DEF Root, Climb, ToParent, Climbs, Climbable
<1>4. Seed' = Seed
    BY <1>1, <1>3 DEF Seed, Detached, Protected
<1>5. Walk' = Walk
    BY <1>1, <1>3, <1>4 DEF Walk, Reached, WithChildren, ChildRow
<1>6. DaemonLed' = DaemonLed /\ OwnGroup' = OwnGroup /\ Members' = Members
    BY <1>1, <1>2, <1>4, <1>5 DEF DaemonLed, OwnGroup, Members, Detached
<1>7. (\E p \in Members : Protected(p))' = \E p \in Members : Protected(p)
    BY <1>6 DEF Protected
<1> QED BY <1>1, <1>6, <1>7 DEF Selected

-----------------------------------------------------------------------------

(***************************************************************************)
(* The inductive invariant.  First the processes, whatever portpin does.   *)
(***************************************************************************)
InUse == \A p \in Live : p <= top /\ table[p].start <= clock /\ table[p].ppid <= top

InitIsFirst ==
    1 \in Live /\ table[1].ppid = 0 /\ table[1].start = 1 /\ table[1].line = {<<1, 1>>}

(* A line names init and the process, and nothing that is yet to come. *)
LinesSound ==
    \A c \in Live :
        /\ <<1, 1>> \in table[c].line /\ <<c, table[c].start>> \in table[c].line
        /\ \A x \in table[c].line : x[1] <= top /\ x[2] <= table[c].start

(* A process that has the number of c's parent and is no younger than c is   *)
(* the parent, and of two that started in one tick it has the lower PID.     *)
OlderIsParent ==
    \A p, c \in Live : table[c].ppid = p /\ table[p].start <= table[c].start =>
        table[p].line \subseteq table[c].line /\ (table[p].start = table[c].start => p < c)

Platforms ==
    \A c \in Live :
        IF Posix
        THEN /\ ~table[c].climb /\ table[c].open /\ table[c].pgid # 0
             /\ c # 1 => table[c].ppid \in Live /\ table[table[c].ppid].start <= table[c].start
        ELSE table[c].pgid = 0

TableInv == InUse /\ InitIsFirst /\ LinesSound /\ OlderIsParent /\ Platforms

(* The control of one run of GroupMembers. *)
ControlInv ==
    /\ pc # "reading" => unread = {}
    /\ pc # "idle" => self \in Live \ {1} /\ target.pid \in Pid
    /\ pc # "done" => group.err = "none"
    /\ pc = "done" => group = Selected

(* The rows of portpin's own forebears lead up to the next of them. *)
OwnRows ==
    pc # "idle" => \A c \in Live : <<c, table[c].start>> \in table[self].line =>
        \/ platform = "linux" /\ c \in unread
        \/ c \in Listed /\ (rows[c].ppid = table[c].ppid \/ (Posix /\ table[c].ppid = 1))

(* The creation time that the row of p has, or will get if nothing changes;  *)
(* it is that of a later process if the PID was reused since the listing.    *)
Stamp(p) == IF p \in unread THEN table[p].start ELSE rows[p].start
Reused(p) == \A q \in Listed : listed[q] < Stamp(p)

WindowsRows ==
    ~Posix /\ pc # "idle" =>
        /\ unread \subseteq Listed
        /\ \A p \in Listed :
              /\ p <= top /\ listed[p] <= clock /\ Stamp(p) <= clock /\ rows[p].pgid = 0
              /\ p \in unread => rows[p].start = 0
              /\ Stamp(p) \in {0, listed[p]} \/ Reused(p)
        /\ \A p, c \in Listed :
              /\ p # c /\ Reused(p) /\ Reused(c) => Stamp(p) # Stamp(c)
              /\ p # c /\ rows[c].ppid = p /\ listed[p] = listed[c] => p < c

PosixRows == Posix => \A p \in Listed : ~rows[p].climb

(* With Quiet a row is what its process is, once its start time is read. *)
QuietRows ==
    Quiet /\ pc # "idle" =>
        /\ target.pid \in Live /\ target.start = StartOf(target.pid)
        /\ \A p \in Listed :
              p \in Live /\ rows[p] = Row(p, IF Posix \/ p \notin unread THEN StartOf(p) ELSE 0)
        /\ ~Posix => \A p, c \in Live : ParentOf(p, c) /\ c \in Listed => p \in Listed
        /\ ~Posix => \A p \in Listed : listed[p] = table[p].start

GroupInv == TableInv /\ ControlInv /\ OwnRows /\ WindowsRows /\ PosixRows /\ QuietRows

-----------------------------------------------------------------------------

(* TypeOK, field by field. *)
LEMMA Fields ==
    ASSUME TypeOK, NEW p \in Live
    PROVE  /\ p \in Pid /\ table[p].start \in 1..MaxStart
           /\ table[p].ppid \in 0..MaxPid /\ table[p].pgid \in 0..MaxPid /\ table[p].sid \in 0..MaxPid
           /\ table[p].climb \in BOOLEAN /\ table[p].open \in BOOLEAN
           /\ table[p].line \in SUBSET (Pid \X (1..MaxStart))
<1>1. p \in Pid /\ table[p] \in Entries
    BY DEF TypeOK, Live
<1> QED BY <1>1 DEF Entries

(* The ranges of the counters, and which PIDs are in use. *)
LEMMA Bounds ==
    ASSUME TypeOK
    PROVE  /\ MaxPid \in Nat \ {0} /\ MaxStart \in Nat \ {0}
           /\ clock \in Nat /\ top \in Nat /\ top <= MaxPid /\ clock <= MaxStart /\ self \in 0..MaxPid
           /\ \A p \in Pid : p \in Nat /\ (p \in Live <=> table[p].start # 0)
<1>1. MaxPid \in Nat \ {0} /\ MaxStart \in Nat \ {0}
    BY GroupAssumption DEF TypeOK, MaxStart
<1>2. clock \in 1..MaxStart /\ top \in Pid /\ self \in 0..MaxPid
    BY DEF TypeOK
<1>3. ASSUME NEW p \in Pid PROVE p \in Nat /\ (p \in Live <=> table[p].start # 0)
  <2>1. CASE p \in Live
      BY <2>1, <1>1, Fields DEF Pid
  <2>2. CASE p \notin Live
      BY <2>2, <1>1 DEF Live, NoEntry, Pid
  <2> QED BY <2>1, <2>2
<1> QED BY <1>1, <1>2, <1>3 DEF Pid

(* What a fork does to the table. *)
Forked(p, q, tick) ==
    /\ p \in Live /\ q \in Pid \ Live /\ p # self
    /\ tick \in {clock, clock + 1} /\ tick <= MaxStart
    /\ q = top + 1 \/ (q <= top /\ tick > clock)
    /\ clock' = tick /\ top' = IF q > top THEN q ELSE top
    /\ Live' = Live \cup {q}
    /\ \A r \in Pid \ {q} : table'[r] = table[r]
    /\ table'[q].start = tick /\ table'[q].ppid = p /\ table'[q].pgid = table[p].pgid
    /\ table'[q].line = table[p].line \cup {<<q, tick>>}
    /\ Posix => ~table'[q].climb /\ table'[q].open

LEMMA ForkIs ==
    ASSUME TypeOK, NEW p \in Pid, NEW q \in Pid, Fork(p, q), UNCHANGED platform
    PROVE  (\E tick : Forked(p, q, tick)) /\ table' \in [Pid -> Entries \cup {NoEntry}]'
           /\ clock' \in 1..MaxStart /\ top' \in Pid
<1>1. PICK tick \in {clock, clock + 1}, c \in BOOLEAN, o \in BOOLEAN :
          /\ q = top + 1 \/ (q <= top /\ tick > clock)
          /\ tick <= MaxStart
          /\ Image(c, o)
          /\ table' = [table EXCEPT ![q] =
                [start |-> tick, ppid |-> p, pgid |-> table[p].pgid, sid |-> table[p].sid,
                 climb |-> c, open |-> o, line |-> table[p].line \cup {<<q, tick>>}]]
          /\ clock' = tick
          /\ top' = IF q > top THEN q ELSE top
    BY DEF Fork
<1>2. p \in Live /\ p # self /\ q \notin Live
    BY DEF Fork, Reusable, Live
<1> DEFINE e == [start |-> tick, ppid |-> p, pgid |-> table[p].pgid, sid |-> table[p].sid,
                 climb |-> c, open |-> o, line |-> table[p].line \cup {<<q, tick>>}]
<1>3. tick \in 1..MaxStart
    BY <1>1, Bounds DEF TypeOK
<1>4. e \in Entries
  <2>1. <<q, tick>> \in Pid \X (1..MaxStart)
      BY <1>3
  <2>2. e.line \in SUBSET (Pid \X (1..MaxStart))
      BY <2>1, <1>2, Fields
  <2>3. p \in 0..MaxPid
      BY Bounds DEF Pid
  <2> QED BY <1>2, <1>3, <2>2, <2>3, Fields DEF Entries
<1>5. e.start = tick /\ e.ppid = p /\ e.pgid = table[p].pgid /\ e.climb = c /\ e.open = o
      /\ e.line = table[p].line \cup {<<q, tick>>}
    OBVIOUS
<1> HIDE DEF e
<1>6. table' = [table EXCEPT ![q] = e]
    BY <1>1 DEF e
<1>7. table'[q] = e /\ \A r \in Pid \ {q} : table'[r] = table[r]
    BY <1>6 DEF TypeOK
<1>8. table' \in [Pid -> Entries \cup {NoEntry}]
    BY <1>4, <1>6 DEF TypeOK
<1>9. e # NoEntry
    BY <1>3, <1>5 DEF NoEntry
<1>10. Live' = Live \cup {q}
  <2>1. NoEntry' = NoEntry
      BY DEF NoEntry
  <2> QED BY <1>7, <1>9, <2>1 DEF Live
<1>11. Posix => ~c /\ o
    BY <1>1 DEF Image
<1>12. top' \in Pid
    BY <1>1 DEF TypeOK
<1>13. [Pid -> Entries \cup {NoEntry}]' = [Pid -> Entries \cup {NoEntry}]
    BY DEF Entries, NoEntry, MaxStart
<1>14. (1..MaxStart)' = 1..MaxStart
    BY DEF MaxStart
<1> QED BY <1>1, <1>2, <1>3, <1>5, <1>7, <1>8, <1>10, <1>11, <1>12, <1>13, <1>14 DEF Forked

(* What an exit or a change of process group leaves: fewer processes, with   *)
(* the identities and the histories they had.                                *)
Kept ==
    /\ Live' \subseteq Live /\ UNCHANGED <<clock, top>>
    /\ 1 \in Live => 1 \in Live' /\ table'[1].ppid = table[1].ppid
    /\ self \in Live => self \in Live'
    /\ \A c \in Live' :
          /\ table'[c].start = table[c].start /\ table'[c].line = table[c].line
          /\ table'[c].open = table[c].open /\ table'[c].climb = table[c].climb
          /\ table'[c].pgid = table[c].pgid \/ (Posix /\ table'[c].pgid # 0)
          /\ \/ /\ table'[c].ppid = table[c].ppid
                /\ Posix /\ table[c].ppid \in Live => table[c].ppid \in Live'
             \/ Posix /\ c # 1 /\ table'[c].ppid = 1

(* An exit, with the orphans given to init, leaves what Kept says. *)
LEMMA ExitIs ==
    ASSUME TypeOK, NEW p \in Pid, Exit(p), UNCHANGED platform,
           1 \in Live => table[1].ppid = 0
    PROVE  Kept /\ table' \in [Pid -> Entries \cup {NoEntry}]'
<1>1. p \in Live /\ p # 1 /\ p # self /\ UNCHANGED <<clock, top>>
    BY DEF Exit
<1> DEFINE Orphan(q) == Posix /\ q \in Live /\ table[q].ppid = p
           moved(q) == [table[q] EXCEPT !.ppid = 1]
<1>2. \A q \in Pid : table'[q] =
          IF q = p THEN NoEntry ELSE IF Orphan(q) THEN moved(q) ELSE table[q]
    BY DEF Exit
<1>3. DOMAIN table' = Pid /\ table' = [q \in Pid |-> table'[q]]
    BY DEF Exit
<1>4. ASSUME NEW q \in Live
      PROVE  /\ moved(q) \in Entries /\ moved(q) # NoEntry /\ moved(q).ppid = 1
             /\ moved(q).start = table[q].start /\ moved(q).line = table[q].line
             /\ moved(q).open = table[q].open /\ moved(q).climb = table[q].climb
             /\ moved(q).pgid = table[q].pgid
  <2>1. table[q] \in Entries
      BY DEF TypeOK, Live
  <2>2. 1 \in 0..MaxPid /\ 0 \notin 1..MaxStart
      BY Bounds
  <2>3. moved(q) = [start |-> table[q].start, ppid |-> 1, pgid |-> table[q].pgid, sid |-> table[q].sid,
                    climb |-> table[q].climb, open |-> table[q].open, line |-> table[q].line]
      BY <2>1 DEF Entries
  <2> DEFINE e == moved(q)
  <2>4. e.start = table[q].start /\ e.ppid = 1 /\ e.pgid = table[q].pgid /\ e.line = table[q].line
        /\ e.open = table[q].open /\ e.climb = table[q].climb
      BY <2>3
  <2>5. e \in Entries
      BY <2>2, <2>3, Fields DEF Entries
  <2>6. e # NoEntry
    <3> HIDE DEF e
    <3> QED BY <2>2, <2>4, Fields DEF NoEntry
  <2> QED BY <2>4, <2>5, <2>6
<1> HIDE DEF moved
<1>5. \A q \in Live : q \in Pid /\ table[q] \in Entries /\ table[q] # NoEntry
    BY DEF TypeOK, Live
<1>6. table' \in [Pid -> Entries \cup {NoEntry}]
  <2>1. ASSUME NEW q \in Pid PROVE table'[q] \in Entries \cup {NoEntry}
      BY <1>2, <1>4 DEF TypeOK
  <2> QED BY <1>3, <2>1
<1>7. NoEntry' = NoEntry /\ Entries' = Entries
    BY DEF Entries, NoEntry, MaxStart
<1>8. Live' = Live \ {p}
  <2>1. ASSUME NEW q \in Pid PROVE table'[q] # NoEntry <=> q \in Live /\ q # p
      BY <1>2, <1>4 DEF Live
  <2> QED BY <1>5, <1>7, <2>1 DEF Live
<1>9. p # 0
    BY Bounds DEF Pid
<1>10. ASSUME NEW c \in Live'
       PROVE  /\ table'[c].start = table[c].start /\ table'[c].line = table[c].line
              /\ table'[c].open = table[c].open /\ table'[c].climb = table[c].climb
              /\ table'[c].pgid = table[c].pgid
              /\ \/ /\ table'[c].ppid = table[c].ppid
                    /\ Posix => table[c].ppid # p
                 \/ Posix /\ c # 1 /\ table'[c].ppid = 1
  <2>1. c \in Live /\ c # p
      BY <1>8
  <2>2. CASE Orphan(c)
    <3>1. table'[c] = moved(c) /\ c # 1
        BY <2>1, <2>2, <1>2, <1>5, <1>9
    <3> QED BY <3>1, <2>1, <2>2, <1>4
  <2>3. CASE ~Orphan(c)
    <3>1. table'[c] = table[c]
        BY <2>1, <2>3, <1>2, <1>5
    <3> QED BY <3>1, <2>1, <2>3
  <2> QED BY <2>2, <2>3
<1>11. 1 \in Live => 1 \in Live' /\ table'[1].ppid = table[1].ppid
    BY <1>1, <1>8, <1>10
<1> QED BY <1>1, <1>6, <1>7, <1>8, <1>10, <1>11 DEF Kept

(* So does a change of session or process group. *)
LEMMA RegroupIs ==
    ASSUME TypeOK, NEW p \in Pid, SetPgid(p) \/ SetSid(p), UNCHANGED platform,
           \A c \in Live : Posix => table[c].pgid # 0
    PROVE  Kept /\ table' \in [Pid -> Entries \cup {NoEntry}]'
<1>1. p \in Live /\ Posix /\ UNCHANGED <<clock, top>>
    BY DEF SetPgid, SetSid
<1>2. table[p] \in Entries
    BY <1>1 DEF TypeOK, Live
<1>3. PICK g \in 0..MaxPid, s \in 0..MaxPid : g # 0 /\
          table' = [table EXCEPT ![p] = [start |-> table[p].start, ppid |-> table[p].ppid, pgid |-> g,
              sid |-> s, climb |-> table[p].climb, open |-> table[p].open, line |-> table[p].line]]
  <2>1. CASE SetPgid(p)
    <3>1. PICK g \in {p} \cup {table[q].pgid : q \in {r \in Live : table[r].sid = table[p].sid}} :
              table' = [table EXCEPT ![p].pgid = g]
        BY <2>1 DEF SetPgid
    <3>2. g \in 0..MaxPid /\ g # 0
        BY <3>1, <1>1, Bounds, Fields DEF Pid
    <3>3. [table[p] EXCEPT !.pgid = g] = [start |-> table[p].start, ppid |-> table[p].ppid, pgid |-> g,
              sid |-> table[p].sid, climb |-> table[p].climb, open |-> table[p].open, line |-> table[p].line]
        BY <1>2 DEF Entries
    <3>4. table' = [table EXCEPT ![p] = [table[p] EXCEPT !.pgid = g]]
        BY <3>1 DEF TypeOK
    <3> QED BY <3>2, <3>3, <3>4, <1>1, Fields
  <2>2. CASE SetSid(p)
    <3>1. table' = [table EXCEPT ![p].pgid = p, ![p].sid = p]
        BY <2>2 DEF SetSid
    <3>2. p \in 0..MaxPid /\ p # 0
        BY Bounds DEF Pid
    <3> DEFINE f == [table[p] EXCEPT !.pgid = p]
               e == [start |-> table[p].start, ppid |-> table[p].ppid, pgid |-> p,
                     sid |-> table[p].sid, climb |-> table[p].climb, open |-> table[p].open,
                     line |-> table[p].line]
    <3>3. f = e
        BY <1>2 DEF Entries
    <3>5. [e EXCEPT !.sid = p] =
              [start |-> table[p].start, ppid |-> table[p].ppid, pgid |-> p,
               sid |-> p, climb |-> table[p].climb, open |-> table[p].open, line |-> table[p].line]
        OBVIOUS
    <3> HIDE DEF e
    <3>4. table' = [table EXCEPT ![p] = [f EXCEPT !.sid = p]]
        BY <3>1 DEF TypeOK
    <3> QED BY <3>2, <3>3, <3>4, <3>5, <1>1, Fields
  <2> QED BY <2>1, <2>2
<1> DEFINE e == [start |-> table[p].start, ppid |-> table[p].ppid, pgid |-> g,
              sid |-> s, climb |-> table[p].climb, open |-> table[p].open, line |-> table[p].line]
<1>4. e \in Entries
    BY <1>1, Fields DEF Entries
<1>5. e.start = table[p].start /\ e.ppid = table[p].ppid /\ e.pgid = g /\ e.line = table[p].line
      /\ e.open = table[p].open /\ e.climb = table[p].climb
    OBVIOUS
<1>6. table' = [table EXCEPT ![p] = e]
    BY <1>3
<1> HIDE DEF e
<1>7. table'[p] = e /\ \A r \in Pid \ {p} : table'[r] = table[r]
    BY <1>6 DEF TypeOK
<1>8. e # NoEntry
    BY <1>1, <1>5, Fields, Bounds DEF NoEntry
<1>9. NoEntry' = NoEntry /\ Entries' = Entries
    BY DEF Entries, NoEntry, MaxStart
<1>10. table' \in [Pid -> Entries \cup {NoEntry}]
    BY <1>4, <1>6 DEF TypeOK
<1>11. Live' = Live
    BY <1>1, <1>7, <1>8, <1>9 DEF Live
<1>12. ASSUME NEW c \in Live
       PROVE  /\ table'[c].start = table[c].start /\ table'[c].line = table[c].line
              /\ table'[c].open = table[c].open /\ table'[c].climb = table[c].climb
              /\ table'[c].pgid = table[c].pgid \/ table'[c].pgid # 0
              /\ table'[c].ppid = table[c].ppid
  <2>1. c \in Pid
      BY DEF Live
  <2> QED BY <2>1, <1>3, <1>5, <1>7
<1> QED BY <1>1, <1>9, <1>10, <1>11, <1>12 DEF Kept

LEMMA TableInit ==
    ASSUME Init PROVE TypeOK /\ TableInv
<1>1. MaxPid \in Nat \ {0} /\ MaxStart \in Nat \ {0}
    BY GroupAssumption DEF Init, MaxStart
<1>2. 1 \in Pid /\ 1 \in 1..MaxStart /\ 0 \in 0..MaxPid /\ 1 \in 0..MaxPid
    BY <1>1 DEF Pid
<1> DEFINE g == IF Posix THEN 1 ELSE 0
           e == [start |-> 1, ppid |-> 0, pgid |-> g, sid |-> g, climb |-> FALSE, open |-> TRUE,
                 line |-> {<<1, 1>>}]
<1>3. {<<1, 1>>} \in SUBSET (Pid \X (1..MaxStart))
    BY <1>2
<1>4. e \in Entries
    BY <1>2, <1>3 DEF Entries
<1>5. e.start = 1 /\ e.ppid = 0 /\ e.line = {<<1, 1>>} /\ e.climb = FALSE /\ e.open = TRUE /\ e.pgid = g
    OBVIOUS
<1>6. table = [p \in Pid |-> IF p = 1 THEN e ELSE NoEntry]
    BY DEF Init
<1>7. e # NoEntry
    BY DEF NoEntry
<1> HIDE DEF e
<1>8. Live = {1} /\ table[1] = e
    BY <1>2, <1>6, <1>7 DEF Live
<1>9. TypeOK
  <2>1. table \in [Pid -> Entries \cup {NoEntry}]
      BY <1>4, <1>6
  <2>2. target \in [pid : 0..MaxPid, start : 0..MaxStart]
      BY <1>1 DEF Init
  <2>3. rows \in [Pid -> Rows \cup {NoRow}] /\ listed \in [Pid -> 0..MaxStart]
      BY <1>1 DEF Init
  <2>4. group.err = "none" /\ group.members = {}
      BY DEF Init
  <2> QED BY <1>2, <2>1, <2>2, <2>3, <2>4 DEF Init, TypeOK
<1>10. clock = 1 /\ top = 1
    BY DEF Init
<1>11. Platforms
    BY <1>5, <1>8 DEF Platforms
<1>12. LinesSound
    BY <1>5, <1>8, <1>10 DEF LinesSound
<1>13. OlderIsParent
    BY <1>5, <1>8 DEF OlderIsParent
<1> QED BY <1>5, <1>8, <1>9, <1>10, <1>11, <1>12, <1>13 DEF TableInv, InUse, InitIsFirst

(* The invariant of the processes, over a fork and over the rest. *)
LEMMA TableFork ==
    ASSUME TypeOK, TableInv, NEW p, NEW q, NEW tick, Forked(p, q, tick), UNCHANGED platform
    PROVE  TableInv'
<1> USE DEF TableInv
<1>1. /\ p \in Live /\ q \in Pid /\ q \notin Live /\ tick \in Nat /\ clock <= tick
      /\ top <= top' /\ q <= top' /\ clock' = tick /\ q # 1 /\ p # q /\ tick # 0
      /\ q = top + 1 \/ (q <= top /\ clock < tick)
  <2>1. p \in Live /\ q \in Pid /\ q \notin Live /\ tick \in {clock, clock + 1} /\ clock' = tick
        /\ top' = (IF q > top THEN q ELSE top) /\ (q = top + 1 \/ (q <= top /\ tick > clock))
      BY DEF Forked
  <2>2. clock \in Nat \ {0} /\ q \in Nat
      BY <2>1, Bounds DEF TypeOK
  <2>3. 1 \in Live
      BY DEF InitIsFirst
  <2> QED BY <2>1, <2>2, <2>3, Bounds
<1>2. /\ Live' = Live \cup {q} /\ \A r \in Live : table'[r] = table[r]
      /\ table'[q].start = tick /\ table'[q].ppid = p /\ table'[q].pgid = table[p].pgid
      /\ table'[q].line = table[p].line \cup {<<q, tick>>}
      /\ Posix => ~table'[q].climb /\ table'[q].open
  <2>1. \A r \in Live : r \in Pid \ {q}
      BY <1>1 DEF Live
  <2> QED BY <2>1 DEF Forked
<1>3. \A r \in Live : /\ r \in Nat /\ r # 0 /\ table[r].start \in Nat /\ table[r].ppid \in Nat
                      /\ r <= top /\ table[r].start <= clock /\ table[r].ppid <= top
    BY Fields, Bounds DEF InUse, Pid
<1>4. clock \in Nat /\ top \in Nat /\ top' \in Nat /\ q \in Nat
  <2>1. q \in Nat
      BY <1>1, Bounds
  <2> QED BY <2>1, Bounds DEF Forked
<1>5. InUse'
    BY <1>1, <1>2, <1>3, <1>4 DEF InUse
<1>6. InitIsFirst'
    BY <1>2 DEF InitIsFirst
<1>7. LinesSound'
  <2>1. ASSUME NEW c \in Live
        PROVE  /\ <<1, 1>> \in table'[c].line /\ <<c, table'[c].start>> \in table'[c].line
               /\ \A x \in table'[c].line : x[1] <= top' /\ x[2] <= table'[c].start
    <3>1. \A x \in table[c].line : x[1] <= top /\ x[1] \in Nat
        BY Fields, Bounds DEF LinesSound
    <3> QED BY <1>1, <1>2, <1>4, <3>1 DEF LinesSound
  <2>2. ASSUME NEW x \in table'[q].line PROVE x[1] <= top' /\ x[2] <= tick
    <3>1. CASE x \in table[p].line
      <4>1. x[1] <= top /\ x[1] \in Nat /\ x[2] \in Nat /\ x[2] <= table[p].start
        <5>1. x \in Pid \X (1..MaxStart)
            BY <3>1, <1>1, Fields
        <5>2. x[1] \in Pid /\ x[2] \in 1..MaxStart
            BY <5>1
        <5>3. x[1] <= top /\ x[2] <= table[p].start
            BY <3>1, <1>1 DEF LinesSound
        <5> QED BY <5>2, <5>3, Bounds
      <4> QED BY <4>1, <1>1, <1>3, <1>4
    <3>2. CASE x = <<q, tick>>
        BY <3>2, <1>1
    <3> QED BY <3>1, <3>2, <1>2
  <2>3. <<1, 1>> \in table'[q].line /\ <<q, table'[q].start>> \in table'[q].line
      BY <1>1, <1>2 DEF LinesSound
  <2> QED BY <1>2, <2>1, <2>2, <2>3 DEF LinesSound
<1>8. OlderIsParent'
  <2>1. ASSUME NEW a \in Live', NEW c \in Live',
               table'[c].ppid = a, table'[a].start <= table'[c].start
        PROVE  table'[a].line \subseteq table'[c].line /\ (table'[a].start = table'[c].start => a < c)
    <3>1. CASE a \in Live /\ c \in Live
        BY <3>1, <2>1, <1>2 DEF OlderIsParent
    <3>2. CASE a \in Live /\ c = q
      <4>1. a = p /\ table'[a] = table[p] /\ table'[c].start = tick
            /\ table'[c].line = table[p].line \cup {<<q, tick>>}
          BY <3>2, <2>1, <1>2
      <4>2. table[p].start = tick => p < q
          BY <1>1, <1>3, <1>4
      <4> QED BY <3>2, <4>1, <4>2
    <3>3. CASE a = q /\ c \in Live
        BY <3>3, <2>1, <1>1, <1>2, <1>3, <1>4
    <3>4. CASE a = q /\ c = q
        BY <3>4, <2>1, <1>1, <1>2
    <3> QED BY <3>1, <3>2, <3>3, <3>4, <1>2
  <2> QED BY <2>1 DEF OlderIsParent
<1>9. Platforms'
  <2>1. Posix' = Posix
      BY DEF Posix
  <2>2. ASSUME Posix, NEW c \in Live'
        PROVE  /\ ~table'[c].climb /\ table'[c].open /\ table'[c].pgid # 0
               /\ c # 1 => table'[c].ppid \in Live' /\ table'[table'[c].ppid].start <= table'[c].start
    <3>1. CASE c \in Live
        BY <3>1, <2>2, <1>2 DEF Platforms
    <3>2. CASE c = q
        BY <3>2, <2>2, <1>1, <1>2, <1>3, <1>4 DEF Platforms
    <3> QED BY <3>1, <3>2, <1>2
  <2>3. ASSUME ~Posix, NEW c \in Live' PROVE table'[c].pgid = 0
      BY <2>3, <1>1, <1>2 DEF Platforms
  <2> QED BY <2>1, <2>2, <2>3 DEF Platforms
<1> QED BY <1>5, <1>6, <1>7, <1>8, <1>9

LEMMA TableKept ==
    ASSUME TypeOK, TableInv, Kept, UNCHANGED platform
    PROVE  TableInv'
<1> USE DEF TableInv
<1>1. Live' \subseteq Live /\ clock' = clock /\ top' = top /\ 1 \in Live /\ 1 \in Live'
      /\ table'[1].ppid = table[1].ppid
    BY DEF Kept, InitIsFirst
<1>2. \A c \in Live' :
          /\ table'[c].start = table[c].start /\ table'[c].line = table[c].line
          /\ table'[c].open = table[c].open /\ table'[c].climb = table[c].climb
          /\ table'[c].pgid = table[c].pgid \/ (Posix /\ table'[c].pgid # 0)
          /\ \/ /\ table'[c].ppid = table[c].ppid
                /\ Posix /\ table[c].ppid \in Live => table[c].ppid \in Live'
             \/ Posix /\ c # 1 /\ table'[c].ppid = 1
    BY DEF Kept
<1>3. \A c \in Live : /\ c \in Nat /\ c # 0 /\ c <= top /\ table[c].start \in Nat
                      /\ 1 <= table[c].start
    BY Fields, Bounds DEF InUse, Pid
<1>4. InUse'
    BY <1>1, <1>2, <1>3 DEF InUse
<1>5. InitIsFirst'
    BY <1>1, <1>2 DEF InitIsFirst
<1>6. LinesSound'
    BY <1>1, <1>2 DEF LinesSound
<1>7. OlderIsParent'
  <2>1. ASSUME NEW a \in Live', NEW c \in Live',
               table'[c].ppid = a, table'[a].start <= table'[c].start
        PROVE  table'[a].line \subseteq table'[c].line /\ (table'[a].start = table'[c].start => a < c)
    <3>1. a \in Live /\ c \in Live /\ table[a].start <= table[c].start
        BY <1>1, <1>2, <2>1
    <3>2. CASE table[c].ppid = a
        BY <3>1, <3>2, <1>2 DEF OlderIsParent
    <3>3. CASE a = 1 /\ c # 1
      <4>1. table[1].line \subseteq table[c].line
          BY <3>1 DEF InitIsFirst, LinesSound
      <4> QED BY <3>1, <3>3, <4>1, <1>2, <1>3
    <3> QED BY <3>2, <3>3, <2>1, <1>2
  <2> QED BY <2>1 DEF OlderIsParent
<1>8. Platforms'
  <2>1. Posix' = Posix
      BY DEF Posix
  <2>2. ASSUME Posix, NEW c \in Live'
        PROVE  /\ ~table'[c].climb /\ table'[c].open /\ table'[c].pgid # 0
               /\ c # 1 => table'[c].ppid \in Live' /\ table'[table'[c].ppid].start <= table'[c].start
    <3>1. ~table'[c].climb /\ table'[c].open /\ table'[c].pgid # 0
        BY <2>2, <1>1, <1>2 DEF Platforms
    <3>2. ASSUME c # 1
          PROVE  table'[c].ppid \in Live' /\ table'[table'[c].ppid].start <= table'[c].start
      <4>1. CASE table'[c].ppid = 1
          BY <4>1, <1>1, <1>2, <1>3 DEF InitIsFirst
      <4>2. CASE table'[c].ppid = table[c].ppid /\ (table[c].ppid \in Live => table[c].ppid \in Live')
          BY <4>2, <2>2, <3>2, <1>1, <1>2 DEF Platforms
      <4> QED BY <4>1, <4>2, <2>2, <1>2
    <3> QED BY <3>1, <3>2
  <2>3. ASSUME ~Posix, NEW c \in Live' PROVE table'[c].pgid = 0
      BY <2>3, <1>1, <1>2 DEF Platforms
  <2> QED BY <2>1, <2>2, <2>3 DEF Platforms
<1> QED BY <1>4, <1>5, <1>6, <1>7, <1>8

-----------------------------------------------------------------------------

(* What portpin can read of a process. *)
LEMMA StartIs ==
    ASSUME TypeOK, NEW p \in Live
    PROVE  StartOf(p) \in 0..MaxStart /\ StartOf(p) \in {0, table[p].start} /\ 0 \in 0..MaxStart
    BY Fields, Bounds DEF StartOf

LEMMA RowIs ==
    ASSUME TypeOK, NEW p \in Live, NEW s \in 0..MaxStart
    PROVE  /\ Row(p, s) \in Rows /\ Row(p, s) # NoRow
           /\ Row(p, s).start = s /\ Row(p, s).ppid = table[p].ppid /\ Row(p, s).pgid = table[p].pgid
           /\ Row(p, s).climb = table[p].climb /\ Row(p, s).leader = (Posix /\ table[p].sid = p)
<1> DEFINE r == Row(p, s)
<1>1. r.start = s /\ r.ppid = table[p].ppid /\ r.pgid = table[p].pgid
      /\ r.climb = table[p].climb /\ r.leader = (Posix /\ table[p].sid = p)
    BY DEF Row
<1>2. r \in Rows
    BY Fields DEF Row, Rows
<1>3. s # -1 /\ 0 \in 0..MaxStart
    BY Bounds
<1>4. r # NoRow
  <2> HIDE DEF r
  <2> QED BY <1>1, <1>3 DEF NoRow
<1> QED BY <1>1, <1>2, <1>4

LEMMA RowFields ==
    ASSUME TypeOK, NEW p \in Listed
    PROVE  /\ p \in Pid /\ rows[p] \in Rows /\ rows[p].start \in 0..MaxStart /\ rows[p].ppid \in 0..MaxPid
           /\ rows[p].pgid \in 0..MaxPid /\ rows[p].leader \in BOOLEAN /\ rows[p].climb \in BOOLEAN
<1>1. p \in Pid /\ rows[p] \in Rows
    BY DEF TypeOK, Listed
<1> QED BY <1>1 DEF Rows

(* What the listing sets. *)
ListStep ==
    /\ UNCHANGED <<table, clock, top, group>>
    /\ self' \in Live \ {1} /\ pc' \in {"reading", "read"} /\ (pc' = "read" => unread' = {})
    /\ target'.pid \in Live /\ target'.start = StartOf(target'.pid)
    /\ unread' = IF platform = "darwin" THEN {} ELSE Live
    /\ Listed' = IF platform = "linux" THEN {} ELSE Live
    /\ \A p \in Listed' : rows'[p] = Row(p, IF Posix THEN StartOf(p) ELSE 0)
    /\ \A p \in Pid : listed'[p] = table[p].start

LEMMA ListIs ==
    ASSUME TypeOK, TableInv, NEW t \in Pid, NEW s \in Pid, List(t, s), UNCHANGED platform
    PROVE  ListStep /\ TypeOK'
<1>1. Live \subseteq Pid /\ t \in Live /\ s \in Live \ {1} /\ self' = s
    BY DEF List, Live
<1>2. ASSUME NEW p \in Live
      PROVE  /\ Row(p, IF Posix THEN StartOf(p) ELSE 0) \in Rows
             /\ Row(p, IF Posix THEN StartOf(p) ELSE 0) # NoRow
    BY StartIs, RowIs
<1>3. rows' = [p \in Pid |-> IF p \notin Live \/ platform = "linux" THEN NoRow
                             ELSE Row(p, IF Posix THEN StartOf(p) ELSE 0)]
    BY DEF List
<1>4. Listed' = IF platform = "linux" THEN {} ELSE Live
  <2>1. NoRow' = NoRow
      BY DEF NoRow
  <2>2. Listed' = {p \in Pid : rows'[p] # NoRow}
      BY <2>1 DEF Listed
  <2> QED BY <1>1, <1>2, <1>3, <2>2
<1>5. \A p \in Listed' : rows'[p] = Row(p, IF Posix THEN StartOf(p) ELSE 0)
    BY <1>1, <1>3, <1>4
<1>6. UNCHANGED <<table, clock, top, group>>
    BY DEF List, sysVars
<1>7. target'.pid = t /\ target'.start = StartOf(t) /\ target' \in [pid : 0..MaxPid, start : 0..MaxStart]
  <2>1. t \in 0..MaxPid /\ StartOf(t) \in 0..MaxStart
      BY <1>1, StartIs, Bounds DEF Pid
  <2> QED BY <2>1 DEF List
<1>8. unread' = IF platform = "darwin" THEN {} ELSE Live
    BY DEF List
<1>9. pc' = IF unread' = {} THEN "read" ELSE "reading"
    BY DEF List
<1>10. listed' = [p \in Pid |-> table[p].start]
    BY DEF List
<1>11. StartOf(target'.pid) = StartOf(t)
    BY <1>7
<1>12. \A p \in Pid : table[p].start \in 0..MaxStart
  <2>1. ASSUME NEW p \in Pid PROVE table[p].start \in 0..MaxStart
    <3>1. CASE p \in Live
        BY <3>1, Fields, Bounds
    <3>2. CASE p \notin Live
        BY <3>2, Bounds
    <3> QED BY <3>1, <3>2
  <2> QED BY <2>1
<1>13. TypeOK'
  <2>1. UNCHANGED <<MaxStart, Entries, NoEntry, Rows, NoRow>>
      BY DEF MaxStart, Entries, NoEntry, Rows, NoRow
  <2>2. rows' \in [Pid -> Rows \cup {NoRow}]
      BY <1>2, <1>3
  <2>3. listed' \in [Pid -> 0..MaxStart]
      BY <1>10, <1>12
  <2>4. unread' \subseteq Pid /\ pc' \in {"idle", "reading", "read", "done"}
      BY <1>1, <1>8, <1>9
  <2>6. self' \in 0..MaxPid
      BY <1>1, Bounds DEF Pid
  <2>5. target' \in [pid : 0..MaxPid, start : 0..MaxStart]
      BY <1>7
  <2> QED BY <1>6, <2>1, <2>2, <2>3, <2>4, <2>5, <2>6 DEF TypeOK
<1> QED BY <1>1, <1>4, <1>5, <1>6, <1>7, <1>8, <1>9, <1>10, <1>11, <1>13 DEF ListStep

(* What the reading of one process sets. *)
ReadStep(p) ==
    /\ UNCHANGED <<table, clock, top, target, self, group>>
    /\ pc' \in {"reading", "read"} /\ (pc' = "read" => unread' = {})
    /\ p \in unread /\ unread' = unread \ {p}
    /\ Listed' = Listed \cup ({p} \cap Live)
    /\ \A r \in Pid \ {p} : rows'[r] = rows[r] /\ listed'[r] = listed[r]
    /\ p \notin Live => rows'[p] = rows[p]
    /\ Posix /\ p \in Live => rows'[p] = Row(p, StartOf(p))
    /\ ~Posix => listed' = listed
    /\ ~Posix /\ p \in Live => /\ listed[p] = table[p].start
                                    => rows'[p] = [rows[p] EXCEPT !.start = StartOf(p)]
                               /\ rows'[p].start = StartOf(p)
                               /\ rows'[p].ppid = rows[p].ppid /\ rows'[p].pgid = rows[p].pgid

LEMMA ReadIs ==
    ASSUME TypeOK, NEW p \in Pid, Read(p), UNCHANGED platform, ~Posix => unread \subseteq Listed
    PROVE  ReadStep(p) /\ TypeOK'
<1>1. p \in unread /\ unread' = unread \ {p} /\ pc' = (IF unread' = {} THEN "read" ELSE "reading")
      /\ UNCHANGED <<table, clock, top, target, self, group>>
    BY DEF Read, sysVars
<1>2. PICK c \in Programs(p) :
          p \in Live /\ ~Posix =>
              rows' = [rows EXCEPT ![p].start = StartOf(p), ![p].climb = c]
  <2>1. Programs(p) # {}
      BY DEF Programs
  <2> QED BY <2>1 DEF Read
<1> DEFINE e == IF Posix THEN Row(p, StartOf(p))
                ELSE [rows[p] EXCEPT !.start = StartOf(p), !.climb = c]
<1>3. ASSUME p \in Live, ~Posix
      PROVE  /\ e \in Rows /\ e # NoRow /\ e.start = StartOf(p) /\ e.ppid = rows[p].ppid
             /\ e.pgid = rows[p].pgid
             /\ rows' = [rows EXCEPT ![p] = e]
  <2>1. p \in Listed
      BY <1>1, <1>3
  <2>2. StartOf(p) \in 0..MaxStart /\ StartOf(p) # -1
      BY <1>3, StartIs, Bounds
  <2>3. rows[p] \in Rows
      BY <2>1, RowFields
  <2>4. e = [start |-> StartOf(p), ppid |-> rows[p].ppid, pgid |-> rows[p].pgid,
             leader |-> rows[p].leader, climb |-> c]
      BY <2>3, <1>3 DEF Rows
  <2>5. e \in Rows
    <3>1. c \in BOOLEAN
        BY <2>1, RowFields DEF Programs
    <3> QED BY <2>1, <2>2, <2>4, <3>1, RowFields DEF Rows
  <2>6. e.start = StartOf(p) /\ e.ppid = rows[p].ppid /\ e.pgid = rows[p].pgid
      BY <2>4
  <2>7. e # NoRow
    <3> HIDE DEF e
    <3> QED BY <2>2, <2>6 DEF NoRow
  <2>8. rows' = [rows EXCEPT ![p].start = StartOf(p), ![p].climb = c]
      BY <1>2, <1>3
  <2>9. rows' = [rows EXCEPT ![p] = e]
      BY <2>8, <1>3 DEF TypeOK
  <2> QED BY <2>5, <2>6, <2>7, <2>9
<1>4. ASSUME p \in Live, Posix
      PROVE  e \in Rows /\ e # NoRow /\ e = Row(p, StartOf(p)) /\ rows' = [rows EXCEPT ![p] = e]
  <2>1. rows' = [rows EXCEPT ![p] = Row(p, StartOf(p))]
      BY <1>4 DEF Read
  <2>2. e = Row(p, StartOf(p))
      BY <1>4
  <2> QED BY <1>4, <2>1, <2>2, StartIs, RowIs
<1>5. ASSUME p \in Live, ~Posix, listed[p] = table[p].start
      PROVE  e = [rows[p] EXCEPT !.start = StartOf(p)]
  <2>1. p \in Listed /\ rows[p] \in Rows
      BY <1>1, <1>5, RowFields
  <2>2. c = rows[p].climb
      BY <1>5 DEF Programs
  <2> QED BY <1>5, <2>1, <2>2 DEF Rows
<1> HIDE DEF e
<1>6. p \in Live => e \in Rows /\ e # NoRow /\ rows' = [rows EXCEPT ![p] = e]
    BY <1>3, <1>4
<1>7. p \in Live => Listed' = Listed \cup {p} /\ rows'[p] = e
                    /\ \A r \in Pid \ {p} : rows'[r] = rows[r]
  <2>1. NoRow' = NoRow
      BY DEF NoRow
  <2>2. p \in Live => rows'[p] = e /\ \A r \in Pid \ {p} : rows'[r] = rows[r]
      BY <1>6 DEF TypeOK
  <2> QED BY <2>1, <2>2, <1>6 DEF Listed
<1>8. rows' \in [Pid -> Rows \cup {NoRow}]
    BY <1>6 DEF TypeOK, Read
<1>9. /\ listed' \in [Pid -> 0..MaxStart] /\ (~Posix => listed' = listed)
      /\ \A r \in Pid \ {p} : listed'[r] = listed[r]
  <2>1. table[p].start \in 0..MaxStart
    <3>1. CASE p \in Live
        BY <3>1, Fields, Bounds
    <3>2. CASE p \notin Live
        BY <3>2, Bounds
    <3> QED BY <3>1, <3>2
  <2> QED BY <2>1 DEF Read, TypeOK
<1>10. TypeOK'
  <2>1. UNCHANGED <<MaxStart, Entries, NoEntry, Rows, NoRow>>
      BY DEF MaxStart, Entries, NoEntry, Rows, NoRow
  <2> QED BY <1>1, <1>8, <1>9, <2>1 DEF TypeOK
<1>11. p \notin Live => rows' = rows /\ Listed' = Listed
  <2>1. p \notin Live => rows' = rows
      BY DEF Read
  <2> QED BY <2>1 DEF Listed, NoRow
<1>12. Listed' = Listed \cup ({p} \cap Live)
    BY <1>7, <1>11
<1>13. \A r \in Pid \ {p} : rows'[r] = rows[r]
    BY <1>7, <1>11
<1> QED BY <1>1, <1>3, <1>4, <1>5, <1>7, <1>9, <1>10, <1>11, <1>12, <1>13 DEF ReadStep

(* The rows of the own forebears, over each kind of step. *)
LEMMA OwnRowsStep ==
    ASSUME TypeOK, TableInv, ControlInv, OwnRows, UNCHANGED platform,
           \/ \E p, q, tick : Forked(p, q, tick) /\ UNCHANGED <<pc, readVars, group>>
           \/ Kept /\ UNCHANGED <<pc, readVars, group>>
           \/ ListStep
           \/ \E p \in Pid : ReadStep(p) /\ (~Posix => unread \subseteq Listed)
    PROVE  OwnRows'
<1> USE DEF TableInv
<1> DEFINE Leads(c) == \/ platform = "linux" /\ c \in unread
                       \/ c \in Listed /\ (rows[c].ppid = table[c].ppid \/ (Posix /\ table[c].ppid = 1))
<1>1. SUFFICES ASSUME pc' # "idle", NEW c \in Live', <<c, table'[c].start>> \in table'[self'].line
               PROVE  Leads(c)'
    BY DEF OwnRows
<1>2. platform' = platform /\ Posix' = Posix
    BY DEF Posix
<1>3. ASSUME UNCHANGED <<pc, readVars, group>>
      PROVE  /\ pc # "idle" /\ self \in Live /\ UNCHANGED <<self, rows, unread>> /\ Listed' = Listed
    BY <1>1, <1>3 DEF readVars, ControlInv, Listed, NoRow
<1>4. CASE \E p, q, tick : Forked(p, q, tick) /\ UNCHANGED <<pc, readVars, group>>
  <2>1. PICK p, q, tick : Forked(p, q, tick) /\ UNCHANGED <<pc, readVars, group>>
      BY <1>4
  <2>2. Live' = Live \cup {q} /\ q \notin Live /\ \A r \in Live : table'[r] = table[r]
      BY <2>1 DEF Forked, Live
  <2>3. c # q
    <3>1. SUFFICES ASSUME c = q PROVE FALSE
        OBVIOUS
    <3>2. table'[q].start = tick /\ (q = top + 1 \/ tick > clock) /\ tick \in {clock, clock + 1}
        BY <2>1 DEF Forked
    <3>3. <<q, tick>> \in table[self].line
        BY <3>1, <3>2, <2>1, <2>2, <1>1, <1>3
    <3>4. q <= top /\ tick <= table[self].start /\ table[self].start <= clock
        BY <3>3, <2>1, <1>3 DEF LinesSound, InUse
    <3>5. q \in Nat /\ tick \in Nat /\ table[self].start \in Nat
        BY <2>1, <1>3, Bounds, Fields DEF Forked
    <3> QED BY <3>2, <3>4, <3>5, Bounds
  <2>4. c \in Live /\ <<c, table[c].start>> \in table[self].line
      BY <1>1, <1>3, <2>1, <2>2, <2>3
  <2>5. Leads(c)
      BY <1>3, <2>1, <2>4 DEF OwnRows
  <2> QED BY <1>2, <1>3, <2>1, <2>2, <2>4, <2>5
<1>5. CASE Kept /\ UNCHANGED <<pc, readVars, group>>
  <2>1. c \in Live /\ self' \in Live' /\ <<c, table[c].start>> \in table[self].line
    <3>1. self \in Live' /\ self' = self
        BY <1>3, <1>5 DEF Kept
    <3> QED BY <1>1, <1>5, <3>1 DEF Kept
  <2>2. Leads(c)
      BY <1>3, <1>5, <2>1 DEF OwnRows
  <2>3. table'[c].ppid = table[c].ppid \/ (Posix /\ table'[c].ppid = 1)
      BY <1>1, <1>5 DEF Kept
  <2> QED BY <1>2, <1>3, <1>5, <2>2, <2>3
<1>6. CASE ListStep
  <2>1. Live' = Live /\ table' = table
      BY <1>6 DEF ListStep, Live, NoEntry
  <2>2. c \in Live
      BY <1>1, <2>1
  <2>3. CASE platform = "linux"
      BY <2>2, <2>3, <1>2, <1>6 DEF ListStep
  <2>4. CASE platform # "linux"
    <3>1. c \in Listed' /\ rows'[c] = Row(c, IF Posix THEN StartOf(c) ELSE 0)
        BY <2>2, <2>4, <1>6 DEF ListStep
    <3>2. rows'[c].ppid = table[c].ppid
        BY <3>1 DEF Row
    <3> QED BY <3>1, <3>2, <2>1
  <2> QED BY <2>3, <2>4
<1>7. CASE \E p \in Pid : ReadStep(p) /\ (~Posix => unread \subseteq Listed)
  <2>1. PICK p \in Pid : ReadStep(p) /\ (~Posix => unread \subseteq Listed)
      BY <1>7
  <2>2. Live' = Live /\ table' = table /\ self' = self /\ p \in unread /\ unread' = unread \ {p}
        /\ Listed' = Listed \cup ({p} \cap Live) /\ pc = "reading"
      BY <2>1 DEF ReadStep, Live, NoEntry, ControlInv
  <2>3. c \in Live /\ c \in Pid /\ Leads(c)
      BY <1>1, <2>2 DEF OwnRows, Live
  <2>4. CASE c = p
    <3>1. c \in Listed'
        BY <2>2, <2>3, <2>4
    <3>2. CASE Posix
      <4>1. rows'[c] = Row(c, StartOf(c))
          BY <2>1, <2>3, <2>4, <3>2 DEF ReadStep
      <4>2. rows'[c].ppid = table[c].ppid
          BY <4>1 DEF Row
      <4> QED BY <3>1, <4>2, <2>2
    <3>3. CASE ~Posix
      <4>1. rows'[c].ppid = rows[c].ppid
          BY <2>1, <2>3, <2>4, <3>3 DEF ReadStep
      <4>2. platform # "linux"
          BY <3>3 DEF Posix
      <4> QED BY <3>1, <4>1, <4>2, <2>2, <2>3, <1>2
    <3> QED BY <3>2, <3>3
  <2>5. CASE c # p
    <3>1. rows'[c] = rows[c]
        BY <2>1, <2>3, <2>5 DEF ReadStep
    <3> QED BY <3>1, <2>2, <2>3, <2>5, <1>2
  <2> QED BY <2>4, <2>5
<1> QED BY <1>4, <1>5, <1>6, <1>7

(* The rows, when only the processes change. *)
LEMMA RowsStay ==
    ASSUME UNCHANGED <<pc, readVars, group>>, UNCHANGED platform
    PROVE  UNCHANGED <<pc, target, self, rows, unread, listed, group, Listed>> /\ Posix' = Posix
    BY DEF readVars, Listed, NoRow, Posix

(***************************************************************************)
(* The rows on Windows, over each kind of step.  A number with a new owner *)
(* got it after the snapshot, in a tick of its own.                        *)
(***************************************************************************)
LEMMA WindowsRowsFork ==
    ASSUME TypeOK, TableInv, WindowsRows, UNCHANGED platform,
           NEW p, NEW q, NEW tick, Forked(p, q, tick), UNCHANGED <<pc, readVars, group>>
    PROVE  WindowsRows'
<1>1. SUFFICES ASSUME ~Posix, pc # "idle" PROVE WindowsRows'
    BY RowsStay DEF WindowsRows
<1>2. /\ unread \subseteq Listed
      /\ \A r \in Listed :
            /\ r \in Pid /\ r \in Nat /\ listed[r] \in Nat /\ Stamp(r) \in Nat
            /\ r <= top /\ listed[r] <= clock /\ Stamp(r) <= clock /\ rows[r].pgid = 0
            /\ r \in unread => rows[r].start = 0
            /\ Stamp(r) \in {0, listed[r]} \/ Reused(r)
      /\ \A r, c \in Listed :
            /\ r # c /\ Reused(r) /\ Reused(c) => Stamp(r) # Stamp(c)
            /\ r # c /\ rows[c].ppid = r /\ listed[r] = listed[c] => r < c
  <2>1. ASSUME NEW r \in Listed PROVE r \in Pid /\ r \in Nat /\ listed[r] \in Nat /\ Stamp(r) \in Nat
    <3>1. r \in Pid /\ rows[r].start \in Nat
        BY RowFields, Bounds
    <3>2. r \in Nat /\ listed[r] \in Nat
        BY <3>1, Bounds DEF TypeOK
    <3>3. table[r].start \in Nat
        BY <3>1, Bounds, Fields
    <3> QED BY <3>1, <3>2, <3>3 DEF Stamp
  <2> QED BY <1>1, <2>1 DEF WindowsRows
<1>3. UNCHANGED <<target, self, rows, unread, listed, Listed>>
    BY RowsStay
<1>4. tick \in Nat /\ clock \in Nat /\ top \in Nat /\ q \in Nat /\ clock <= tick /\ clock' = tick
      /\ top <= top' /\ top' \in Nat /\ (q = top + 1 \/ clock < tick)
  <2>1. q \in Nat /\ clock \in Nat /\ top \in Nat
      BY Bounds DEF Forked
  <2> QED BY <2>1 DEF Forked
<1>5. ASSUME NEW r \in Listed
      PROVE  /\ r \in unread /\ r = q => Stamp(r)' = tick /\ clock < tick
             /\ ~ (r \in unread /\ r = q) => Stamp(r)' = Stamp(r)
  <2>1. r \in unread /\ r = q => table'[r].start = tick /\ r # top + 1
      BY <1>2, <1>4 DEF Forked
  <2>2. r # q => table'[r] = table[r]
      BY <1>2 DEF Forked
  <2> QED BY <2>1, <2>2, <1>3, <1>4 DEF Stamp
<1>6. ASSUME NEW r \in Listed
      PROVE  /\ r \in unread /\ r = q => Reused(r)'
             /\ ~ (r \in unread /\ r = q) => Reused(r)' = Reused(r)
  <2>1. CASE r \in unread /\ r = q
    <3>1. \A c \in Listed : listed[c] < Stamp(r)'
        BY <2>1, <1>2, <1>4, <1>5
    <3> QED BY <2>1, <3>1, <1>3 DEF Reused
  <2>2. CASE ~ (r \in unread /\ r = q)
      BY <2>2, <1>3, <1>5 DEF Reused
  <2> QED BY <2>1, <2>2
<1>7. ASSUME NEW r \in Listed
      PROVE  /\ r <= top' /\ listed[r] <= tick /\ Stamp(r)' <= tick
             /\ Stamp(r)' \in {0, listed[r]} \/ Reused(r)'
  <2> HIDE DEF Stamp, Reused
  <2> QED BY <1>2, <1>4, <1>5, <1>6
<1>8. ASSUME NEW r \in Listed, NEW c \in Listed, r # c, Reused(r)', Reused(c)'
      PROVE  Stamp(r)' # Stamp(c)'
  <2> HIDE DEF Stamp, Reused
  <2>1. CASE r \in unread /\ r = q
      BY <2>1, <1>8, <1>2, <1>4, <1>5
  <2>2. CASE c \in unread /\ c = q
      BY <2>2, <1>8, <1>2, <1>4, <1>5
  <2>3. CASE ~ (r \in unread /\ r = q) /\ ~ (c \in unread /\ c = q)
      BY <2>3, <1>8, <1>2, <1>5, <1>6
  <2> QED BY <2>1, <2>2, <2>3
<1> QED BY <1>2, <1>3, <1>4, <1>7, <1>8 DEF WindowsRows

LEMMA WindowsRowsKept ==
    ASSUME TypeOK, TypeOK', WindowsRows, UNCHANGED platform, Kept, UNCHANGED <<pc, readVars, group>>
    PROVE  WindowsRows'
<1>1. SUFFICES ASSUME ~Posix, pc # "idle" PROVE WindowsRows'
    BY RowsStay DEF WindowsRows
<1>2. UNCHANGED <<target, self, rows, unread, listed, Listed, clock, top>>
    BY RowsStay DEF Kept
<1>3. ASSUME NEW r \in Listed PROVE Stamp(r)' = Stamp(r) \/ Stamp(r)' = 0
  <2>1. r \in Pid /\ r \in Pid'
      BY RowFields DEF Pid
  <2>2. CASE r \in Live'
    <3>1. table'[r].start = table[r].start
        BY <2>2 DEF Kept
    <3> QED BY <3>1, <1>2 DEF Stamp
  <2>3. CASE r \notin Live'
    <3>1. table'[r] = NoEntry'
        BY <2>1, <2>3 DEF Live
    <3>2. table'[r].start = 0
        BY <3>1 DEF NoEntry
    <3> QED BY <3>2, <1>2 DEF Stamp
  <2> QED BY <2>2, <2>3
<1>4. \A r \in Listed : listed[r] \in Nat
    BY RowFields, Bounds DEF TypeOK
<1>5. ASSUME NEW r \in Listed PROVE Reused(r)' => Stamp(r)' = Stamp(r) /\ Reused(r)
  <2>1. Stamp(r)' = 0 => ~ (listed[r] < Stamp(r)')
      BY <1>4
  <2>2. Reused(r)' => listed[r] < Stamp(r)'
      BY <1>2 DEF Reused
  <2>3. Stamp(r)' = Stamp(r) => Reused(r)' = Reused(r)
      BY <1>2 DEF Reused
  <2> HIDE DEF Reused, Stamp
  <2> QED BY <2>1, <2>2, <2>3, <1>3
<1>6. ASSUME NEW r \in Listed PROVE Stamp(r)' = Stamp(r) => Reused(r)' = Reused(r)
    BY <1>2, <1>6 DEF Reused
<1>7. clock \in Nat
    BY Bounds
<1> HIDE DEF Reused, Stamp
<1>8. ASSUME NEW r \in Listed
      PROVE  Stamp(r)' <= clock /\ (Stamp(r)' \in {0, listed[r]} \/ Reused(r)')
    BY <1>1, <1>3, <1>6, <1>7 DEF WindowsRows
<1>9. ASSUME NEW r \in Listed, NEW c \in Listed, r # c, Reused(r)', Reused(c)'
      PROVE  Stamp(r)' # Stamp(c)'
    BY <1>1, <1>5, <1>9 DEF WindowsRows
<1> QED BY <1>1, <1>2, <1>8, <1>9 DEF WindowsRows

LEMMA WindowsRowsList ==
    ASSUME TypeOK, TableInv, UNCHANGED platform, ListStep
    PROVE  WindowsRows'
<1>1. SUFFICES ASSUME ~Posix PROVE WindowsRows'
    BY DEF WindowsRows, Posix
<1>2. /\ Listed' \subseteq Live /\ unread' \subseteq Live /\ UNCHANGED <<table, clock, top>>
      /\ (platform # "darwin" /\ platform # "linux" => Listed' = Live /\ unread' = Live)
    BY DEF ListStep
<1>3. Listed' = Live /\ unread' = Live
    BY <1>1, <1>2, GroupAssumption DEF Posix, TypeOK
<1>4. ASSUME NEW r \in Live
      PROVE  /\ rows'[r].start = 0 /\ rows'[r].ppid = table[r].ppid /\ rows'[r].pgid = 0
             /\ listed'[r] = table[r].start /\ table[r].start \in Nat
             /\ Stamp(r)' = table[r].start /\ r \in Nat /\ r <= top /\ table[r].start <= clock
  <2>1. rows'[r] = Row(r, 0)
      BY <1>1, <1>3 DEF ListStep
  <2>2. rows'[r].start = 0 /\ rows'[r].ppid = table[r].ppid /\ rows'[r].pgid = table[r].pgid
      BY <2>1 DEF Row
  <2>3. table[r].pgid = 0 /\ r <= top /\ table[r].start <= clock
      BY <1>1 DEF TableInv, Platforms, InUse
  <2>4. listed'[r] = table[r].start /\ r \in Nat /\ table[r].start \in Nat
      BY Fields, Bounds DEF ListStep
  <2>5. Stamp(r)' = table[r].start
      BY <1>2, <1>3 DEF Stamp
  <2> QED BY <2>2, <2>3, <2>4, <2>5
<1>5. ASSUME NEW r \in Live PROVE ~Reused(r)'
    BY <1>3, <1>4 DEF Reused
<1>6. ASSUME NEW r \in Live, NEW c \in Live, rows'[c].ppid = r, listed'[r] = listed'[c] PROVE r < c
  <2>1. table[c].ppid = r /\ table[r].start = table[c].start
      BY <1>4, <1>6
  <2>2. table[r].start <= table[c].start
      BY <2>1, <1>4
  <2> QED BY <2>1, <2>2 DEF TableInv, OlderIsParent
<1> HIDE DEF Stamp, Reused
<1> QED BY <1>2, <1>3, <1>4, <1>5, <1>6 DEF WindowsRows

LEMMA WindowsRowsRead ==
    ASSUME TypeOK, WindowsRows, UNCHANGED platform, pc # "idle", NEW p \in Pid, ReadStep(p)
    PROVE  WindowsRows'
<1>1. SUFFICES ASSUME ~Posix PROVE WindowsRows'
    BY DEF WindowsRows, Posix
<1>2. /\ UNCHANGED <<table, clock, top, listed>> /\ unread' = unread \ {p} /\ p \in unread
      /\ p \in Listed /\ Listed' = Listed
      /\ \A r \in Listed \ {p} : rows'[r] = rows[r]
      /\ rows'[p].ppid = rows[p].ppid /\ rows'[p].pgid = rows[p].pgid
      /\ p \in Live => rows'[p].start = StartOf(p)
      /\ p \notin Live => rows'[p].start = rows[p].start
  <2>1. unread \subseteq Listed
      BY <1>1 DEF WindowsRows
  <2>2. Listed \subseteq Pid
      BY DEF Listed
  <2> QED BY <1>1, <2>1, <2>2 DEF ReadStep
<1>3. Stamp(p)' \in {0, Stamp(p)}
  <2>1. Stamp(p)' = rows'[p].start /\ Stamp(p) = table[p].start
      BY <1>2 DEF Stamp
  <2>2. CASE p \in Live
      BY <2>1, <2>2, <1>2, StartIs
  <2>3. CASE p \notin Live
      BY <2>1, <2>3, <1>1, <1>2 DEF WindowsRows
  <2> QED BY <2>2, <2>3
<1>4. \A r \in Listed \ {p} : Stamp(r)' = Stamp(r)
    BY <1>2 DEF Stamp
<1>5. \A r \in Listed : listed[r] \in Nat
    BY RowFields, Bounds DEF TypeOK
<1>6. ASSUME NEW r \in Listed PROVE Reused(r)' => Stamp(r)' = Stamp(r) /\ Reused(r)
  <2>1. Stamp(r)' = 0 => ~ (listed[r] < Stamp(r)')
      BY <1>5
  <2>2. Reused(r)' => listed[r] < Stamp(r)'
      BY <1>2 DEF Reused
  <2>3. Stamp(r)' = Stamp(r) => Reused(r)' = Reused(r)
      BY <1>2 DEF Reused
  <2> HIDE DEF Reused, Stamp
  <2> QED BY <2>1, <2>2, <2>3, <1>3, <1>4
<1>7. ASSUME NEW r \in Listed PROVE Stamp(r)' = Stamp(r) => Reused(r)' = Reused(r)
    BY <1>2 DEF Reused
<1>8. clock \in Nat
    BY Bounds
<1> HIDE DEF Reused, Stamp
<1>9. ASSUME NEW r \in Listed
      PROVE  Stamp(r)' <= clock /\ (Stamp(r)' \in {0, listed[r]} \/ Reused(r)')
    BY <1>1, <1>3, <1>4, <1>7, <1>8 DEF WindowsRows
<1>10. ASSUME NEW r \in Listed, NEW c \in Listed, r # c, Reused(r)', Reused(c)'
      PROVE  Stamp(r)' # Stamp(c)'
    BY <1>1, <1>6, <1>10 DEF WindowsRows
<1>11. ASSUME NEW r \in Listed, r \in unread'
       PROVE  rows'[r].start = 0
    BY <1>1, <1>2, <1>11 DEF WindowsRows
<1>12. \A r \in Listed : rows'[r].ppid = rows[r].ppid /\ rows'[r].pgid = rows[r].pgid
    BY <1>2
<1>13. ASSUME NEW r \in Listed, NEW c \in Listed, r # c, rows[c].ppid = r, listed[r] = listed[c]
       PROVE  r < c
    BY <1>1, <1>13 DEF WindowsRows
<1>14. ASSUME NEW r \in Listed PROVE r <= top /\ listed[r] <= clock /\ rows[r].pgid = 0
    BY <1>1 DEF WindowsRows
<1>15. unread' \subseteq Listed'
    BY <1>1, <1>2 DEF WindowsRows
<1> QED BY <1>2, <1>9, <1>10, <1>11, <1>12, <1>13, <1>14, <1>15 DEF WindowsRows

LEMMA PosixRowsStep ==
    ASSUME TypeOK, TableInv, PosixRows, UNCHANGED platform,
           ListStep \/ \E p \in Pid : ReadStep(p)
    PROVE  PosixRows'
<1>1. SUFFICES ASSUME Posix, NEW c \in Listed' PROVE ~rows'[c].climb
    BY DEF PosixRows, Posix
<1>2. ASSUME NEW p \in Live PROVE ~Row(p, StartOf(p)).climb
    BY <1>1 DEF Row, TableInv, Platforms
<1>3. CASE ListStep
  <2>1. c \in Live /\ rows'[c] = Row(c, StartOf(c))
      BY <1>1, <1>3 DEF ListStep
  <2> QED BY <2>1, <1>2
<1>4. CASE \E p \in Pid : ReadStep(p)
  <2>1. PICK p \in Pid : ReadStep(p)
      BY <1>4
  <2>2. CASE c \in Listed /\ rows'[c] = rows[c]
      BY <2>2, <1>1 DEF PosixRows
  <2>3. CASE c = p /\ p \in Live
      BY <2>3, <2>1, <1>1, <1>2 DEF ReadStep
  <2>4. c \in Pid
      BY <1>1 DEF Listed, Pid
  <2> QED BY <2>1, <2>2, <2>3, <2>4, <1>1 DEF ReadStep
<1> QED BY <1>3, <1>4

(* The row that p is to have, with Quiet. *)
QuietRow(p) == Row(p, IF Posix \/ p \notin unread THEN StartOf(p) ELSE 0)

(* With Quiet, the rows over each kind of step. *)
LEMMA QuietRowsFork ==
    ASSUME TypeOK, TableInv, QuietRows, UNCHANGED platform,
           NEW p, NEW q, NEW tick, Forked(p, q, tick), UNCHANGED <<pc, readVars, group>>
    PROVE  QuietRows'
<1>1. SUFFICES ASSUME Quiet, pc # "idle" PROVE QuietRows'
    BY RowsStay DEF QuietRows
<1>2. UNCHANGED <<target, self, rows, unread, listed, Listed, Posix>>
    BY RowsStay
<1>3. /\ target.pid \in Live /\ target.start = StartOf(target.pid)
      /\ \A r \in Listed : r \in Live /\ rows[r] = QuietRow(r)
      /\ ~Posix => \A r, c \in Live : ParentOf(r, c) /\ c \in Listed => r \in Listed
    BY <1>1 DEF QuietRows, QuietRow
<1>4. Live' = Live \cup {q} /\ q \notin Live /\ \A r \in Live : r # q /\ table'[r] = table[r]
    BY DEF Forked, Live
<1>5. \A r \in Live : StartOf(r)' = StartOf(r)
    BY <1>4 DEF StartOf
<1>6. target' = target /\ target'.pid \in Live' /\ target'.start = StartOf(target.pid)'
    BY <1>2, <1>3, <1>4, <1>5
<1>8. ASSUME NEW r \in Listed PROVE QuietRow(r)' = QuietRow(r)
    BY <1>2, <1>3, <1>4, <1>5 DEF QuietRow, Row
<1>9. ASSUME ~Posix, NEW r \in Live', NEW c \in Live', ParentOf(r, c)', c \in Listed PROVE r \in Listed
  <2>1. c \in Live /\ table'[c] = table[c] /\ c # q
      BY <1>3, <1>4, <1>9
  <2>2. r # q
    <3>1. SUFFICES ASSUME r = q PROVE FALSE
        OBVIOUS
    <3>2. table'[q].start = tick /\ (q = top + 1 \/ tick > clock) /\ tick \in {clock, clock + 1} /\ q \in Pid
        BY DEF Forked
    <3>3. <<q, tick>> \in table[c].line
        BY <3>1, <3>2, <2>1, <1>9 DEF ParentOf
    <3>4. q <= top /\ tick <= table[c].start /\ table[c].start <= clock
        BY <3>3, <2>1 DEF TableInv, LinesSound, InUse
    <3>5. q \in Nat /\ tick \in Nat /\ table[c].start \in Nat
        BY <3>2, <2>1, Bounds, Fields
    <3> QED BY <3>2, <3>4, <3>5, Bounds
  <2>3. r \in Live /\ table'[r] = table[r]
      BY <1>4, <2>2
  <2>4. ParentOf(r, c)
      BY <2>1, <2>3, <1>9 DEF ParentOf
  <2> QED BY <2>1, <2>3, <2>4, <1>3, <1>9
<1>10. \A r \in Listed' : r \in Live' /\ rows'[r] = QuietRow(r)'
  <2> HIDE DEF QuietRow
  <2> QED BY <1>2, <1>3, <1>4, <1>8
<1>11. \A r \in Listed' : r \in Live' /\ rows'[r] = Row(r, IF Posix \/ r \notin unread THEN StartOf(r) ELSE 0)'
    BY <1>10 DEF QuietRow
<1>12. ~Posix => \A r \in Listed' : listed'[r] = table'[r].start
  <2>1. ~Posix => \A r \in Listed : listed[r] = table[r].start
      BY <1>1 DEF QuietRows
  <2> QED BY <2>1, <1>2, <1>3, <1>4
<1> QED BY <1>2, <1>6, <1>9, <1>11, <1>12 DEF QuietRows, StartOf

LEMMA QuietRowsList ==
    ASSUME TypeOK, UNCHANGED platform, ListStep
    PROVE  QuietRows'
<1>1. UNCHANGED <<table, Live, Posix>>
    BY DEF ListStep, Live, NoEntry, Posix
<1>2. target'.pid \in Live' /\ target'.start = StartOf(target'.pid)
    BY <1>1 DEF ListStep
<1>3. ASSUME NEW r \in Listed'
      PROVE  r \in Live' /\ rows'[r] = Row(r, IF Posix \/ r \notin unread' THEN StartOf(r) ELSE 0)
  <2>1. r \in Live /\ rows'[r] = Row(r, IF Posix THEN StartOf(r) ELSE 0)
        /\ (~Posix => unread' = Live)
      BY DEF ListStep, Posix
  <2> QED BY <2>1, <1>1
<1>4. ~Posix => \A r \in Live' : r \in Listed'
    BY <1>1 DEF ListStep, Posix
<1>5. ~Posix => \A r \in Listed' : listed'[r] = table'[r].start
  <2>1. Listed' \subseteq Pid
      BY DEF Listed, Pid
  <2> QED BY <1>1, <2>1 DEF ListStep
<1> QED BY <1>1, <1>2, <1>3, <1>4, <1>5 DEF QuietRows, StartOf, Row

LEMMA QuietRowsRead ==
    ASSUME TypeOK, QuietRows, WindowsRows, UNCHANGED platform, pc # "idle", NEW p \in Pid, ReadStep(p)
    PROVE  QuietRows'
<1>1. SUFFICES ASSUME Quiet PROVE QuietRows'
    BY DEF QuietRows
<1>2. UNCHANGED <<table, Live, Posix, target>> /\ unread' = unread \ {p} /\ p \in unread
    BY DEF ReadStep, Live, NoEntry, Posix
<1>3. /\ target.pid \in Live /\ target.start = StartOf(target.pid)
      /\ \A r \in Listed : r \in Live /\ rows[r] = QuietRow(r)
      /\ ~Posix => \A r, c \in Live : ParentOf(r, c) /\ c \in Listed => r \in Listed
    BY <1>1 DEF QuietRows, QuietRow
<1>4. ~Posix => p \in Listed /\ Listed' = Listed
    BY <1>2, <1>3 DEF WindowsRows, ReadStep
<1>6. ~Posix => listed' = listed /\ \A r \in Listed : listed[r] = table[r].start
    BY <1>1 DEF QuietRows, ReadStep
<1>5. ASSUME NEW r \in Listed'
      PROVE  r \in Live /\ rows'[r] = Row(r, IF Posix \/ r \notin unread' THEN StartOf(r) ELSE 0)
  <2>1. r \in Pid
      BY DEF Listed, Pid
  <2>2. CASE r # p
    <3>1. r \in Listed /\ rows'[r] = rows[r]
        BY <2>1, <2>2 DEF ReadStep
    <3> QED BY <3>1, <2>2, <1>2, <1>3 DEF QuietRow
  <2>3. CASE r = p /\ Posix
    <3>1. r \in Live
        BY <2>3, <1>3 DEF ReadStep
    <3> QED BY <3>1, <2>3 DEF ReadStep
  <2>4. CASE r = p /\ ~Posix
    <3>1. r \in Listed /\ r \in Live /\ rows[r] = Row(r, 0)
        BY <2>4, <1>2, <1>3, <1>4 DEF QuietRow
    <3>2. rows'[r] = [rows[r] EXCEPT !.start = StartOf(r)]
        BY <1>6, <3>1, <2>4 DEF ReadStep
    <3>3. [Row(r, 0) EXCEPT !.start = StartOf(r)] = Row(r, StartOf(r))
        BY DEF Row
    <3> QED BY <3>1, <3>2, <3>3, <2>4, <1>2
  <2> QED BY <2>2, <2>3, <2>4
<1> QED BY <1>1, <1>2, <1>3, <1>4, <1>5, <1>6 DEF QuietRows, StartOf, Row, ParentOf

-----------------------------------------------------------------------------

(* What the selection computes: each of its iterations, step by step. *)

LEMMA ClimbIs ==
    ASSUME TypeOK, target.pid \in Pid
    PROVE  /\ Root \in Pid /\ Iterates(Climb, MaxPid, Pid, ToParent, target.pid)
           /\ ToParent \in [Pid -> Pid]
<1>1. ToParent \in [Pid -> Pid]
  <2>1. ASSUME NEW r \in Pid
        PROVE  (IF Pgid = 0 /\ Climbs(rows[r].ppid, r) THEN rows[r].ppid ELSE r) \in Pid
      BY DEF Climbs, Listed
  <2> QED BY <2>1 DEF ToParent
<1>2. Iterates(Climb, MaxPid, Pid, ToParent, target.pid)
    BY <1>1, Bounds, IterateIs DEF Climb
<1>3. Climb \in [0..MaxPid -> Pid] /\ MaxPid \in 0..MaxPid
    BY <1>2, Bounds DEF Iterates
<1> QED BY <1>1, <1>2, <1>3 DEF Root

LEMMA ReachedIs ==
    ASSUME TypeOK, target.pid \in Pid
    PROVE  /\ Iterates(Reached, MaxPid, SUBSET Pid, WithChildren, {Root})
           /\ WithChildren \in [SUBSET Pid -> SUBSET Pid]
           /\ Walk \subseteq Pid
<1>1. WithChildren \in [SUBSET Pid -> SUBSET Pid]
  <2>1. ASSUME NEW seen \in SUBSET Pid
        PROVE  seen \cup {c \in Listed \ Seed : \E p \in seen : ChildRow(p, c)} \in SUBSET Pid
      BY DEF Listed
  <2> QED BY <2>1 DEF WithChildren
<1>2. Iterates(Reached, MaxPid, SUBSET Pid, WithChildren, {Root})
  <2>1. {Root} \in SUBSET Pid
      BY ClimbIs
  <2> QED BY <1>1, <2>1, Bounds, IterateIs DEF Reached
<1>3. Reached \in [0..MaxPid -> SUBSET Pid] /\ MaxPid \in 0..MaxPid
    BY <1>2, Bounds DEF Iterates
<1> QED BY <1>1, <1>2, <1>3 DEF Walk

LEMMA SelectedTypes ==
    ASSUME TypeOK, target.pid \in Pid
    PROVE  /\ Selected.err \in {"nil", "DaemonGroup", "ProtectedProcess", "OwnGroup"}
           /\ Selected.members \subseteq Pid
<1>1. Members \subseteq Pid
    BY ClimbIs, ReachedIs DEF Members, Seed, Listed
<1> HIDE DEF Members
<1> QED BY <1>1 DEF Selected

LEMMA GroupInit ==
    ASSUME Init PROVE TypeOK /\ GroupInv
<1>1. TypeOK /\ TableInv
    BY TableInit
<1>2. pc = "idle" /\ unread = {} /\ group.err = "none" /\ rows = [p \in Pid |-> NoRow]
    BY DEF Init
<1>3. Listed = {}
    BY <1>2 DEF Listed
<1> QED BY <1>1, <1>2, <1>3
        DEF GroupInv, ControlInv, OwnRows, WindowsRows, PosixRows, QuietRows

(* The control, over each kind of step. *)
LEMMA ControlStep ==
    ASSUME TypeOK, TableInv, ControlInv, UNCHANGED platform,
           \/ \E p, q, tick : Forked(p, q, tick) /\ pc # "done" /\ UNCHANGED <<pc, readVars, group>>
           \/ Kept /\ pc # "done" /\ UNCHANGED <<pc, readVars, group>>
           \/ ListStep /\ pc = "idle"
           \/ \E p \in Pid : ReadStep(p)
    PROVE  ControlInv'
<1>1. CASE \E p, q, tick : Forked(p, q, tick) /\ pc # "done" /\ UNCHANGED <<pc, readVars, group>>
  <2>1. Live \subseteq Live'
      BY <1>1 DEF Forked
  <2> QED BY <1>1, <2>1 DEF ControlInv, readVars
<1>2. CASE Kept /\ pc # "done" /\ UNCHANGED <<pc, readVars, group>>
    BY <1>2 DEF Kept, ControlInv, readVars
<1>3. CASE ListStep /\ pc = "idle"
  <2>1. Live' = Live /\ Pid' = Pid /\ Live \subseteq Pid
      BY <1>3 DEF ListStep, Live, NoEntry, Pid
  <2> QED BY <1>3, <2>1 DEF ListStep, ControlInv
<1>4. CASE \E p \in Pid : ReadStep(p)
  <2>1. Live' = Live /\ pc = "reading"
      BY <1>4 DEF ReadStep, Live, NoEntry, ControlInv
  <2> QED BY <1>4, <2>1 DEF ReadStep, ControlInv
<1> QED BY <1>1, <1>2, <1>3, <1>4

(* The invariants that the selection leaves alone. *)
LEMMA GroupStays ==
    ASSUME TypeOK, GroupInv, UNCHANGED <<platform, sysVars, readVars>>,
           pc # "idle" \/ pc' = pc
    PROVE  TableInv' /\ PosixRows' /\ OwnRows' /\ WindowsRows' /\ QuietRows'
<1>1. UNCHANGED <<table, clock, top, target, self, rows, unread, listed, platform>>
    BY DEF sysVars, readVars
<1>2. UNCHANGED <<Live, Posix, Listed>>
    BY <1>1 DEF Live, NoEntry, Posix, Listed, NoRow
<1>3. TableInv'
    BY <1>1, <1>2 DEF GroupInv, TableInv, InUse, InitIsFirst, LinesSound, OlderIsParent, Platforms
<1>4. PosixRows'
    BY <1>1, <1>2 DEF GroupInv, PosixRows
<1>5. OwnRows'
    BY <1>1, <1>2 DEF GroupInv, OwnRows
<1>6. WindowsRows'
  <2>1. \A p \in Pid : Stamp(p)' = Stamp(p) /\ Reused(p)' = Reused(p)
      BY <1>1, <1>2 DEF Stamp, Reused
  <2>2. Listed \subseteq Pid
      BY DEF Listed
  <2> QED BY <1>1, <1>2, <2>1, <2>2 DEF GroupInv, WindowsRows
<1>7. QuietRows'
    BY <1>1, <1>2 DEF GroupInv, QuietRows, StartOf, Row, ParentOf
<1> QED BY <1>3, <1>4, <1>5, <1>6, <1>7

LEMMA GroupNext ==
    ASSUME TypeOK, GroupInv, [Next]_vars
    PROVE  TypeOK' /\ GroupInv'
<1>1. /\ TableInv /\ ControlInv /\ OwnRows /\ WindowsRows /\ PosixRows /\ QuietRows
      /\ (~Posix => unread = {} \/ unread \subseteq Listed)
    BY DEF GroupInv, WindowsRows, ControlInv
<1>2. ASSUME Next, Processes PROVE TypeOK' /\ GroupInv'
  <2>1. UNCHANGED platform /\ UNCHANGED <<pc, readVars, group>> /\ pc \in {"idle", "reading"}
      BY <1>2 DEF Next, Processes
  <2>2. UNCHANGED <<pc, target, self, rows, unread, listed, group, Listed>> /\ Posix' = Posix
      BY <2>1, RowsStay
  <2>3. ASSUME table' \in [Pid -> Entries \cup {NoEntry}]', clock' \in 1..MaxStart, top' \in Pid
        PROVE  TypeOK'
    <3>1. UNCHANGED <<MaxStart, Entries, NoEntry, Rows, NoRow>>
        BY <2>1 DEF MaxStart, Entries, NoEntry, Rows, NoRow
    <3> QED BY <2>1, <2>2, <2>3, <3>1 DEF TypeOK
  <2>4. ASSUME NEW p \in Pid, NEW q \in Pid, Fork(p, q) PROVE TypeOK' /\ GroupInv'
    <3>1. /\ \E tick : Forked(p, q, tick)
          /\ table' \in [Pid -> Entries \cup {NoEntry}]' /\ clock' \in 1..MaxStart /\ top' \in Pid
        BY <2>1, <2>4, ForkIs
    <3>2. PICK tick : Forked(p, q, tick)
        BY <3>1
    <3>3. TypeOK'
        BY <2>3, <3>1
    <3>4. TableInv'
        BY <1>1, <2>1, <3>2, TableFork
    <3>5. ControlInv'
        BY <1>1, <2>1, <3>2, ControlStep
    <3>6. OwnRows'
        BY <1>1, <2>1, <3>2, OwnRowsStep
    <3>7. WindowsRows'
        BY <1>1, <2>1, <3>2, WindowsRowsFork
    <3>8. QuietRows'
        BY <1>1, <2>1, <3>2, QuietRowsFork
    <3>9. PosixRows'
        BY <1>1, <2>2 DEF PosixRows
    <3> QED BY <3>3, <3>4, <3>5, <3>6, <3>7, <3>8, <3>9 DEF GroupInv
  <2>5. ASSUME NEW p \in Pid, Quiet => pc = "idle", Exit(p) \/ SetPgid(p) \/ SetSid(p)
        PROVE  TypeOK' /\ GroupInv'
    <3>1. Kept /\ table' \in [Pid -> Entries \cup {NoEntry}]'
      <4>1. 1 \in Live => table[1].ppid = 0
          BY <1>1 DEF TableInv, InitIsFirst
      <4>2. \A c \in Live : Posix => table[c].pgid # 0
          BY <1>1 DEF TableInv, Platforms
      <4> QED BY <2>1, <2>5, <4>1, <4>2, ExitIs, RegroupIs
    <3>2. TypeOK'
        BY <2>3, <3>1 DEF Kept, TypeOK
    <3>3. TableInv'
        BY <1>1, <2>1, <3>1, TableKept
    <3>4. ControlInv'
        BY <1>1, <2>1, <3>1, ControlStep
    <3>5. OwnRows'
        BY <1>1, <2>1, <3>1, OwnRowsStep
    <3>6. WindowsRows'
        BY <1>1, <2>1, <3>1, <3>2, WindowsRowsKept
    <3>7. QuietRows'
        BY <2>2, <2>5 DEF QuietRows
    <3>8. PosixRows'
        BY <1>1, <2>2 DEF PosixRows
    <3> QED BY <3>2, <3>3, <3>4, <3>5, <3>6, <3>7, <3>8 DEF GroupInv
  <2> QED BY <1>2, <2>4, <2>5 DEF Processes
<1>3. ASSUME Next, NEW t \in Pid, NEW s \in Pid, List(t, s) PROVE TypeOK' /\ GroupInv'
  <2>1. UNCHANGED platform /\ pc = "idle"
      BY <1>3 DEF Next, List
  <2>2. ListStep /\ TypeOK'
      BY <1>1, <1>3, <2>1, ListIs
  <2>3. TableInv'
    <3>1. UNCHANGED <<table, clock, top, Live, Posix>>
        BY <2>1, <2>2 DEF ListStep, Live, NoEntry, Posix
    <3> QED BY <1>1, <3>1 DEF TableInv, InUse, InitIsFirst, LinesSound, OlderIsParent, Platforms
  <2>4. ControlInv' /\ OwnRows'
      BY <1>1, <2>1, <2>2, ControlStep, OwnRowsStep
  <2>5. WindowsRows' /\ PosixRows' /\ QuietRows'
      BY <1>1, <2>1, <2>2, WindowsRowsList, PosixRowsStep, QuietRowsList
  <2> QED BY <2>2, <2>3, <2>4, <2>5 DEF GroupInv
<1>4. ASSUME Next, NEW p \in Pid, Read(p) PROVE TypeOK' /\ GroupInv'
  <2>1. UNCHANGED platform /\ pc = "reading" /\ (~Posix => unread \subseteq Listed)
      BY <1>1, <1>4 DEF Next, Read, ControlInv, WindowsRows
  <2>2. ReadStep(p) /\ TypeOK'
      BY <1>4, <2>1, ReadIs
  <2>3. TableInv'
    <3>1. UNCHANGED <<table, clock, top, Live, Posix>>
        BY <2>1, <2>2 DEF ReadStep, Live, NoEntry, Posix
    <3> QED BY <1>1, <3>1 DEF TableInv, InUse, InitIsFirst, LinesSound, OlderIsParent, Platforms
  <2>4. ControlInv' /\ OwnRows'
      BY <1>1, <2>1, <2>2, ControlStep, OwnRowsStep
  <2>5. WindowsRows' /\ PosixRows' /\ QuietRows'
      BY <1>1, <2>1, <2>2, WindowsRowsRead, PosixRowsStep, QuietRowsRead
  <2> QED BY <2>2, <2>3, <2>4, <2>5 DEF GroupInv
<1>5. ASSUME Next, Select PROVE TypeOK' /\ GroupInv'
  <2>1. UNCHANGED <<platform, sysVars, readVars>> /\ pc = "read" /\ pc' = "done" /\ group' = Selected
      BY <1>5 DEF Next, Select
  <2>2. TableInv' /\ PosixRows' /\ OwnRows' /\ WindowsRows' /\ QuietRows'
      BY <2>1, GroupStays
  <2>3. Selected' = Selected
      BY <2>1, SelectionStays DEF readVars
  <2>4. ControlInv'
    <3>1. UNCHANGED <<Live, Pid, self, target, unread>>
        BY <2>1 DEF sysVars, readVars, Live, NoEntry, Pid
    <3> QED BY <1>1, <2>1, <2>3, <3>1 DEF ControlInv
  <2>5. TypeOK'
    <3>1. UNCHANGED <<MaxStart, Entries, NoEntry, Rows, NoRow, table, clock, top, target, self, rows,
                      unread, listed>>
        BY <2>1 DEF MaxStart, Entries, NoEntry, Rows, NoRow, sysVars, readVars
    <3>2. Selected.err \in {"nil", "DaemonGroup", "ProtectedProcess", "OwnGroup"}
          /\ Selected.members \subseteq Pid
        BY <1>1, <2>1, SelectedTypes DEF ControlInv
    <3> QED BY <2>1, <3>1, <3>2 DEF TypeOK
  <2> QED BY <2>2, <2>4, <2>5 DEF GroupInv
<1>6. ASSUME UNCHANGED vars PROVE TypeOK' /\ GroupInv'
  <2>1. UNCHANGED <<platform, table, clock, top, pc, target, self, rows, unread, listed, group>>
        /\ UNCHANGED <<sysVars, readVars>>
      BY <1>6 DEF vars, sysVars, readVars
  <2>2. TableInv' /\ PosixRows' /\ OwnRows' /\ WindowsRows' /\ QuietRows'
      BY <2>1, GroupStays
  <2>3. Selected' = Selected /\ Live' = Live
      BY <2>1, SelectionStays DEF Live, NoEntry
  <2>4. ControlInv'
      BY <1>1, <2>1, <2>3 DEF ControlInv
  <2>5. UNCHANGED <<MaxStart, Entries, NoEntry, Rows, NoRow>>
      BY <2>1 DEF MaxStart, Entries, NoEntry, Rows, NoRow
  <2>6. TypeOK'
      BY <2>1, <2>5 DEF TypeOK
  <2> QED BY <2>2, <2>4, <2>6 DEF GroupInv
<1> QED BY <1>2, <1>3, <1>4, <1>5, <1>6 DEF Next, Done

(* In every state the rows that portpin has read and the processes agree as  *)
(* far as the order of their reading allows.                                 *)
THEOREM GroupInvariant == Spec => [](TypeOK /\ GroupInv)
<1>1. Init => TypeOK /\ GroupInv
    BY GroupInit
<1>2. TypeOK /\ GroupInv /\ [Next]_vars => (TypeOK /\ GroupInv)'
    BY GroupNext
<1> QED BY <1>1, <1>2, PTL DEF Spec

(* The table of the processes and the rows keep their types.                 *)
THEOREM GroupTypeCorrect == Spec => []TypeOK
BY GroupInvariant, PTL

(* A group that was accepted: the selection it came from. *)
LEMMA AcceptedIs ==
    ASSUME TypeOK, GroupInv, Accepted
    PROVE  /\ pc = "done" /\ unread = {} /\ self \in Live \ {1}
           /\ target.pid \in Pid /\ target.pid \in Listed /\ target.start # 0
           /\ target.start = rows[target.pid].start
           /\ group.members = Members
           /\ \A p \in Members : ~Protected(p)
           /\ Members \cap SelfChain = {}
<1>1. pc = "done" /\ group = Selected /\ unread = {} /\ self \in Live \ {1} /\ target.pid \in Pid
    BY DEF Accepted, GroupInv, ControlInv
<1>2. TargetListed /\ Selected.err = "nil" /\ target.start # 0
    BY <1>1 DEF Accepted
<1>3. Selected.members = Members /\ ~(\E p \in Members : Protected(p)) /\ ~OwnGroup
  <2> HIDE DEF Members, OwnGroup, DaemonLed, TargetListed, Protected
  <2> QED BY <1>2 DEF Selected
<1> QED BY <1>1, <1>2, <1>3 DEF TargetListed, OwnGroup

(* The loops over the forebears: those by number, and those by the history. *)
LEMMA ChainIs ==
    ASSUME TypeOK
    PROVE  /\ Iterates(Chain, MaxPid, SUBSET (0..MaxPid), WithParents, {self})
           /\ WithParents \in [SUBSET (0..MaxPid) -> SUBSET (0..MaxPid)]
<1>1. WithParents \in [SUBSET (0..MaxPid) -> SUBSET (0..MaxPid)]
  <2>1. ASSUME NEW chain \in SUBSET (0..MaxPid)
        PROVE  chain \cup ({rows[p].ppid : p \in chain \cap Listed} \ {0}) \in SUBSET (0..MaxPid)
      BY RowFields
  <2> QED BY <2>1 DEF WithParents
<1> QED BY <1>1, Bounds, IterateIs DEF Chain

LEMMA AncestryIs ==
    ASSUME TypeOK, NEW q \in Pid
    PROVE  /\ Iterates(Ancestry(q), MaxPid, SUBSET Pid, WithForkers, {q})
           /\ WithForkers \in [SUBSET Pid -> SUBSET Pid]
<1>1. WithForkers \in [SUBSET Pid -> SUBSET Pid]
  <2>1. ASSUME NEW line \in SUBSET Pid
        PROVE  line \cup {r \in Live : \E c \in line : ParentOf(r, c)} \in SUBSET Pid
      BY DEF Live
  <2> QED BY <2>1 DEF WithForkers
<1> QED BY <1>1, Bounds, IterateIs DEF Ancestry

(* A parent that was found by the history has its line in that of its child. *)
LEMMA ParentLine ==
    ASSUME TypeOK, TableInv, NEW p, NEW c, ParentOf(p, c)
    PROVE  /\ p \in Live /\ c \in Live /\ p # c /\ table[c].ppid = p
           /\ table[p].line \subseteq table[c].line /\ table[p].start <= table[c].start
<1>1. p \in Live /\ c \in Live /\ p # c /\ table[c].ppid = p /\ <<p, table[p].start>> \in table[c].line
    BY DEF ParentOf
<1>2. table[p].start <= table[c].start
    BY <1>1 DEF TableInv, LinesSound
<1> QED BY <1>1, <1>2 DEF TableInv, OlderIsParent

(* An accepted group never holds init, portpin or a process that portpin     *)
(* descends from, whatever is forked, exits or regroups while it reads: the  *)
(* rows of the own forebears lead from each to the next, so that SelfChain   *)
(* holds every one that is listed (group.go:149-159).                        *)
THEOREM OwnAncestorsAreSafe == Spec => []NeverOwnAncestor
<1>1. ASSUME TypeOK, GroupInv PROVE NeverOwnAncestor
  <2>1. SUFFICES ASSUME Accepted, NEW m \in group.members PROVE m # 1 /\ ~Descends(m, self)
      BY DEF NeverOwnAncestor
  <2>2. /\ pc = "done" /\ unread = {} /\ self \in Live /\ group.members = Members
        /\ ~Protected(m) /\ m \notin SelfChain
      BY <1>1, <2>1, AcceptedIs
  <2>3. self \in Pid /\ 0 \in 0..MaxPid /\ MaxPid \in 0..MaxPid /\ MaxPid \in Nat
      BY <1>1, <2>2, Bounds DEF Live
  <2>4. Iterates(Chain, MaxPid, SUBSET (0..MaxPid), WithParents, {self})
      BY <1>1, ChainIs
  <2>5. Iterates(Ancestry(self), MaxPid, SUBSET Pid, WithForkers, {self})
      BY <1>1, <2>3, AncestryIs
  <2>6. TableInv /\ OwnRows
      BY <1>1 DEF GroupInv
  <2> DEFINE Own == {c \in Live : table[c].line \subseteq table[self].line}
             T == {n \in 0..MaxPid : Ancestry(self)[n] \subseteq Own /\ Ancestry(self)[n] \subseteq Chain[n] \cup {1}}
  <2>7. 0 \in T
    <3>1. Ancestry(self)[0] = {self} /\ Chain[0] = {self}
        BY <2>4, <2>5 DEF Iterates
    <3> QED BY <3>1, <2>2, <2>3
  <2>8. ASSUME NEW n \in 1..MaxPid, n - 1 \in T PROVE n \in T
    <3> DEFINE line == Ancestry(self)[n-1]
               chain == Chain[n-1]
    <3>1. line \in SUBSET Pid /\ chain \in SUBSET (0..MaxPid)
        BY <2>3, <2>4, <2>5 DEF Iterates
    <3>2. Ancestry(self)[n] = WithForkers[line] /\ Chain[n] = WithParents[chain]
        BY <2>4, <2>5 DEF Iterates
    <3>3. /\ Ancestry(self)[n] = line \cup {r \in Live : \E c \in line : ParentOf(r, c)}
          /\ Chain[n] = chain \cup ({rows[p].ppid : p \in chain \cap Listed} \ {0})
        BY <3>1, <3>2 DEF WithForkers, WithParents
    <3>4. line \subseteq Own /\ line \subseteq chain \cup {1}
        BY <2>8
    <3> HIDE DEF line, chain
    <3>5. ASSUME NEW r \in Live, NEW c \in line, ParentOf(r, c)
          PROVE  r \in Own /\ r \in Chain[n] \cup {1}
      <4>1. c \in Live /\ table[c].ppid = r /\ table[r].line \subseteq table[c].line /\ r # 0
          BY <1>1, <2>6, <3>5, ParentLine, Bounds DEF Live, Pid
      <4>2. r \in Own
          BY <3>4, <4>1
      <4>3. <<c, table[c].start>> \in table[self].line
          BY <2>6, <3>4, <4>1 DEF TableInv, LinesSound
      <4>4. c \in Listed /\ (rows[c].ppid = r \/ r = 1)
          BY <2>2, <2>6, <4>1, <4>3 DEF OwnRows
      <4>5. c # 1
          BY <2>6, <4>1 DEF TableInv, InitIsFirst
      <4>6. c \in chain
          BY <3>4, <4>5
      <4> QED BY <4>1, <4>2, <4>4, <4>6, <3>3
    <3> QED BY <3>3, <3>4, <3>5
  <2>9. \A n \in 0..MaxPid : n \in T
    <3> HIDE DEF T
    <3> QED BY <2>3, <2>7, <2>8, IntervalInduction
  <2>10. Ancestry(self)[MaxPid] \subseteq SelfChain \cup {1}
      BY <2>3, <2>9 DEF SelfChain
  <2>11. m # 1
      BY <2>2 DEF Protected
  <2> QED BY <2>2, <2>10, <2>11 DEF Descends
<1> QED BY <1>1, GroupInvariant, PTL

-----------------------------------------------------------------------------

(***************************************************************************)
(* Counting: what only grows, or only goes down, within a finite set comes *)
(* to an end after as many steps as the set has members.                   *)
(***************************************************************************)
LEMMA Smaller ==
    ASSUME NEW S, IsFiniteSet(S), NEW A \in SUBSET S, NEW B \in SUBSET A, NEW x \in A \ B
    PROVE  Cardinality(A) \in Nat /\ Cardinality(B) \in Nat /\ Cardinality(B) < Cardinality(A)
<1>1. IsFiniteSet(A)
    BY FS_Subset
<1>2. IsFiniteSet(B) /\ Cardinality(B) <= Cardinality(A) /\ (Cardinality(A) = Cardinality(B) => A = B)
    BY <1>1, FS_Subset
<1>3. Cardinality(A) \in Nat /\ Cardinality(B) \in Nat
    BY <1>1, <1>2, FS_CardinalityType
<1> QED BY <1>2, <1>3

(* No iteration goes down more often than there is room below. *)
LEMMA NoDescent ==
    ASSUME NEW S, IsFiniteSet(S), NEW N \in Nat, Cardinality(S) <= N, NEW f \in [0..N -> S],
           NEW below \in [S -> SUBSET S],
           \A x \in S : x \notin below[x] /\ \A y \in below[x] : below[y] \subseteq below[x]
    PROVE  ~ \A n \in 1..N : f[n] \in below[f[n-1]]
<1>1. SUFFICES ASSUME \A n \in 1..N : f[n] \in below[f[n-1]] PROVE FALSE
    OBVIOUS
<1>2. Cardinality(S) \in Nat
    BY FS_CardinalityType
<1> DEFINE size(n) == Cardinality(below[f[n]])
           T == {n \in 0..N : size(n) < N - n}
<1>3. ASSUME NEW x \in S PROVE Cardinality(below[x]) \in Nat /\ Cardinality(below[x]) < Cardinality(S)
    BY Smaller
<1>4. 0 \in T
    BY <1>2, <1>3
<1>5. ASSUME NEW n \in 1..N, n - 1 \in T PROVE n \in T
  <2>1. f[n] \in S /\ f[n-1] \in S /\ f[n] \in below[f[n-1]] /\ f[n] \notin below[f[n]]
        /\ below[f[n]] \subseteq below[f[n-1]] /\ below[f[n-1]] \subseteq S
      BY <1>1
  <2>2. size(n) < size(n-1) /\ size(n) \in Nat /\ size(n-1) \in Nat
      BY <2>1, Smaller
  <2>3. size(n-1) < N - (n-1)
      BY <1>5
  <2> HIDE DEF size
  <2> QED BY <2>2, <2>3
<1>6. \A n \in 0..N : n \in T
  <2> HIDE DEF T
  <2> QED BY <1>4, <1>5, IntervalInduction
<1>7. size(N) < 0 /\ size(N) \in Nat
    BY <1>3, <1>6
<1> QED BY <1>7

(* What an iteration has reached stays, if no step takes anything away. *)
LEMMA Growth ==
    ASSUME MaxPid \in Nat, NEW S, NEW step \in [SUBSET S -> SUBSET S], \A x \in SUBSET S : x \subseteq step[x],
           NEW a \in SUBSET S, NEW f, Iterates(f, MaxPid, SUBSET S, step, a)
    PROVE  \A m \in 0..MaxPid : \A n \in 0..m : f[n] \subseteq f[m]
<1> DEFINE T == {m \in 0..MaxPid : \A n \in 0..m : f[n] \subseteq f[m]}
<1>1. 0 \in T
    OBVIOUS
<1>2. ASSUME NEW m \in 1..MaxPid, m - 1 \in T PROVE m \in T
  <2>1. f[m] = step[f[m-1]] /\ f[m-1] \in SUBSET S
      BY DEF Iterates
  <2>2. f[m-1] \subseteq f[m]
      BY <2>1
  <2>3. ASSUME NEW n \in 0..m PROVE f[n] \subseteq f[m]
    <3>1. CASE n = m
        BY <3>1
    <3>2. CASE n # m
      <4>1. n \in 0..(m-1)
          BY <3>2
      <4> QED BY <4>1, <2>2, <1>2
    <3> QED BY <3>1, <3>2
  <2> QED BY <2>3
<1>3. \A m \in 0..MaxPid : m \in T
  <2> HIDE DEF T
  <2> QED BY <1>1, <1>2, IntervalInduction
<1> QED BY <1>3

(* A growing set of PIDs has stopped growing after MaxPid steps. *)
LEMMA Saturation ==
    ASSUME MaxPid \in Nat, NEW step \in [SUBSET Pid -> SUBSET Pid], \A x \in SUBSET Pid : x \subseteq step[x],
           NEW a \in SUBSET Pid, a # {}, NEW f, Iterates(f, MaxPid, SUBSET Pid, step, a)
    PROVE  step[f[MaxPid]] = f[MaxPid]
<1>1. IsFiniteSet(Pid) /\ Cardinality(Pid) = MaxPid
  <2>1. IsFiniteSet(1..MaxPid) /\ Cardinality(1..MaxPid) = MaxPid
      BY FS_Interval
  <2> QED BY <2>1 DEF Pid
<1>2. f \in [0..MaxPid -> SUBSET Pid] /\ f[0] = a /\ \A n \in 1..MaxPid : f[n] = step[f[n-1]]
    BY DEF Iterates
<1> DEFINE size(n) == Cardinality(f[n])
           T == {n \in 0..MaxPid : step[f[n]] = f[n] \/ size(n) > n}
<1>3. ASSUME NEW n \in 0..MaxPid
      PROVE  IsFiniteSet(f[n]) /\ size(n) \in Nat /\ size(n) <= MaxPid
  <2>1. f[n] \in SUBSET Pid
      BY <1>2
  <2>2. IsFiniteSet(f[n]) /\ Cardinality(f[n]) <= MaxPid
      BY <1>1, <2>1, FS_Subset
  <2> QED BY <2>2, FS_CardinalityType
<1>4. 0 \in T
  <2>1. size(0) # 0
      BY <1>2, <1>3, FS_EmptySet
  <2>2. 0 \in 0..MaxPid
      OBVIOUS
  <2>3. size(0) > 0
    <3>1. size(0) \in Nat
        BY <1>3, <2>2
    <3> HIDE DEF size
    <3> QED BY <2>1, <3>1
  <2> QED BY <2>2, <2>3
<1>5. ASSUME NEW n \in 1..MaxPid, n - 1 \in T PROVE n \in T
  <2>1. f[n] = step[f[n-1]] /\ f[n-1] \in SUBSET Pid /\ f[n-1] \subseteq f[n] /\ f[n] \in SUBSET Pid
        /\ n - 1 \in 0..MaxPid /\ n \in 0..MaxPid
      BY <1>2
  <2>2. CASE step[f[n-1]] = f[n-1]
      BY <2>1, <2>2
  <2>3. CASE step[f[n-1]] # f[n-1] /\ size(n-1) > n-1
    <3>1. PICK x \in f[n] : x \notin f[n-1]
        BY <2>1, <2>3
    <3>2. size(n-1) < size(n) /\ size(n-1) \in Nat /\ size(n) \in Nat
        BY <1>1, <2>1, <3>1, Smaller
    <3>3. size(n) > n
      <4>1. size(n-1) > n-1
          BY <2>3
      <4> HIDE DEF size
      <4> QED BY <3>2, <4>1
    <3> QED BY <2>1, <3>3
  <2> QED BY <2>2, <2>3, <1>5
<1>6. \A n \in 0..MaxPid : n \in T
  <2> HIDE DEF T
  <2> QED BY <1>4, <1>5, IntervalInduction
<1>7. step[f[MaxPid]] = f[MaxPid] \/ size(MaxPid) > MaxPid
    BY <1>6
<1>8. size(MaxPid) \in Nat /\ size(MaxPid) <= MaxPid
    BY <1>3
<1> HIDE DEF size
<1> QED BY <1>7, <1>8

-----------------------------------------------------------------------------

(* c is below r: it started before r, or in the same tick with a lower PID. *)
Lower(r) == {c \in Listed : rows[c].start < rows[r].start \/ (rows[c].start = rows[r].start /\ c < r)}

(* Lower is an order, so nothing is below itself. *)
LEMMA LowerIsOrder ==
    ASSUME TypeOK
    PROVE  /\ IsFiniteSet(Listed) /\ Cardinality(Listed) <= MaxPid
           /\ \A r \in Listed : r \notin Lower(r) /\ \A c \in Lower(r) : Lower(c) \subseteq Lower(r)
<1>1. IsFiniteSet(1..MaxPid) /\ Cardinality(1..MaxPid) = MaxPid
    BY Bounds, FS_Interval
<1>2. Listed \in SUBSET (1..MaxPid)
    BY DEF Listed, Pid
<1>3. IsFiniteSet(Listed) /\ Cardinality(Listed) <= MaxPid
    BY <1>1, <1>2, FS_Subset
<1>4. \A r \in Listed : r \in Nat /\ rows[r].start \in Nat
    BY RowFields, Bounds
<1> QED BY <1>3, <1>4 DEF Lower

(* The climb stays in the table, and each of its steps is a step down. *)
LEMMA ClimbsDown ==
    ASSUME TypeOK, GroupInv, unread = {}, NEW p, NEW r \in Listed, Climbs(p, r), rows[r].ppid = p, pc # "idle"
    PROVE  p \in Lower(r)
<1>1. p \in Listed /\ p # r /\ rows[p].start # 0 /\ rows[p].start <= rows[r].start /\ rows[p].climb
    BY DEF Climbs, Climbable
<1>2. p \in Nat /\ r \in Nat /\ rows[p].start \in Nat /\ rows[r].start \in Nat
      /\ listed[p] \in Nat /\ listed[r] \in Nat
    BY <1>1, RowFields, Bounds DEF TypeOK
<1>3. ~Posix
    BY <1>1 DEF GroupInv, PosixRows
<1>4. Stamp(p) = rows[p].start /\ Stamp(r) = rows[r].start
    BY DEF Stamp
<1>5. ASSUME rows[p].start = rows[r].start PROVE p < r
  <2>1. /\ Stamp(p) \in {0, listed[p]} \/ Reused(p)
        /\ Stamp(r) \in {0, listed[r]} \/ Reused(r)
        /\ Reused(p) /\ Reused(r) => Stamp(p) # Stamp(r)
        /\ listed[p] = listed[r] => p < r
      BY <1>1, <1>3 DEF GroupInv, WindowsRows
  <2>2. (Reused(p) => listed[p] < Stamp(p) /\ listed[r] < Stamp(p))
        /\ (Reused(r) => listed[p] < Stamp(r) /\ listed[r] < Stamp(r))
      BY <1>1 DEF Reused
  <2>3. listed[p] = listed[r]
    <3> HIDE DEF Reused, Stamp
    <3> QED BY <1>1, <1>2, <1>4, <1>5, <2>1, <2>2
  <2> QED BY <2>1, <2>3
<1> QED BY <1>1, <1>2, <1>5 DEF Lower

(* The climb to the supervisor ends, whatever numbers the dead leave behind: *)
(* every step goes to a process that is older, or as old with a lower PID    *)
(* (group.go:160-169).                                                       *)
THEOREM ClimbTerminates == Spec => []ClimbEnds
<1>1. ASSUME TypeOK, GroupInv PROVE ClimbEnds
  <2>1. SUFFICES ASSUME pc = "read", TargetListed, Pgid = 0, Climbs(rows[Root].ppid, Root) PROVE FALSE
      BY DEF ClimbEnds
  <2>2. target.pid \in Listed /\ target.pid \in Pid /\ unread = {} /\ Listed \subseteq Pid
      BY <1>1, <2>1 DEF TargetListed, GroupInv, ControlInv, Listed
  <2>3. Iterates(Climb, MaxPid, Pid, ToParent, target.pid) /\ MaxPid \in Nat
      BY <1>1, <2>2, ClimbIs, Bounds
  <2> DEFINE On(r) == Climbs(rows[r].ppid, r)
  <2>4. ASSUME NEW n \in 1..MaxPid
        PROVE  Climb[n] = IF On(Climb[n-1]) THEN rows[Climb[n-1]].ppid ELSE Climb[n-1]
    <3>1. Climb[n] = ToParent[Climb[n-1]] /\ Climb[n-1] \in Pid
        BY <2>3 DEF Iterates
    <3> QED BY <3>1, <2>1 DEF ToParent
  <2> HIDE DEF On
  <2> DEFINE T == {k \in 0..MaxPid : On(Climb[MaxPid - k])}
  <2>5. 0 \in T
      BY <2>1, <2>3 DEF Root, On
  <2>6. ASSUME NEW k \in 1..MaxPid, k - 1 \in T PROVE k \in T
    <3>1. MaxPid - (k - 1) \in 1..MaxPid /\ (MaxPid - (k - 1)) - 1 = MaxPid - k
        BY <2>3
    <3>2. On(Climb[MaxPid - (k - 1)])
        BY <2>6
    <3> QED BY <3>1, <3>2, <2>4
  <2>7. \A k \in 0..MaxPid : k \in T
    <3> HIDE DEF T
    <3> QED BY <2>3, <2>5, <2>6, IntervalInduction
  <2>8. ASSUME NEW n \in 0..MaxPid PROVE On(Climb[n])
    <3>1. MaxPid - n \in 0..MaxPid /\ MaxPid - (MaxPid - n) = n
        BY <2>3
    <3>2. MaxPid - n \in T
        BY <2>7, <3>1
    <3> HIDE DEF On
    <3> QED BY <3>1, <3>2
  <2> DEFINE U == {n \in 0..MaxPid : Climb[n] \in Listed}
  <2>9. 0 \in U
      BY <2>2, <2>3 DEF Iterates
  <2>10. ASSUME NEW n \in 1..MaxPid, n - 1 \in U PROVE n \in U
    <3>1. Climb[n] = rows[Climb[n-1]].ppid /\ On(Climb[n-1])
        BY <2>4, <2>8
    <3> QED BY <3>1 DEF On, Climbs
  <2>11. \A n \in 0..MaxPid : n \in U
    <3> HIDE DEF U
    <3> QED BY <2>3, <2>9, <2>10, IntervalInduction
  <2> DEFINE f == [n \in 0..MaxPid |-> Climb[n]]
             below == [r \in Listed |-> Lower(r)]
  <2>12. f \in [0..MaxPid -> Listed] /\ below \in [Listed -> SUBSET Listed]
      BY <2>11 DEF Lower
  <2>13. ASSUME NEW n \in 1..MaxPid PROVE f[n] \in below[f[n-1]]
    <3>1. n - 1 \in 0..MaxPid /\ n \in 0..MaxPid
        BY <2>3
    <3>2. Climb[n-1] \in Listed
        BY <2>11, <3>1
    <3>3. Climb[n] = rows[Climb[n-1]].ppid /\ Climbs(rows[Climb[n-1]].ppid, Climb[n-1])
        BY <2>4, <2>8, <3>1 DEF On
    <3>4. Climb[n] \in Lower(Climb[n-1])
        BY <1>1, <2>1, <2>2, <3>2, <3>3, ClimbsDown
    <3> QED BY <3>1, <3>2, <3>4
  <2>14. \A x \in Listed : x \notin below[x] /\ \A y \in below[x] : below[y] \subseteq below[x]
    <3>1. \A x \in Listed : Lower(x) \subseteq Listed
        BY DEF Lower
    <3> QED BY <1>1, <3>1, LowerIsOrder
  <2> HIDE DEF f, below
  <2> QED BY <1>1, <2>3, <2>12, <2>13, <2>14, LowerIsOrder, NoDescent
<1> QED BY <1>1, GroupInvariant, PTL

-----------------------------------------------------------------------------

(***************************************************************************)
(* With Quiet the rows are the processes, when the members are selected.   *)
(***************************************************************************)
LEMMA QuietFacts ==
    ASSUME TypeOK, GroupInv, Accepted, Quiet
    PROVE  /\ target.pid \in Live /\ target.pid \in Listed /\ rows[target.pid].start # 0
           /\ \A p \in Listed :
                 /\ p \in Live /\ rows[p].ppid = table[p].ppid /\ rows[p].pgid = table[p].pgid
                 /\ rows[p].climb = table[p].climb /\ rows[p].leader = (Posix /\ table[p].sid = p)
                 /\ rows[p].start \in {0, table[p].start}
                 /\ rows[p].start \in Nat /\ table[p].start \in Nat
<1>1. pc = "done" /\ unread = {} /\ target.pid \in Listed /\ rows[target.pid].start # 0
    BY AcceptedIs
<1>2. /\ target.pid \in Live
      /\ \A p \in Listed : p \in Live /\ rows[p] = Row(p, StartOf(p))
    BY <1>1 DEF GroupInv, QuietRows
<1>3. ASSUME NEW p \in Listed
      PROVE  /\ p \in Live /\ rows[p].ppid = table[p].ppid /\ rows[p].pgid = table[p].pgid
             /\ rows[p].climb = table[p].climb /\ rows[p].leader = (Posix /\ table[p].sid = p)
             /\ rows[p].start \in {0, table[p].start}
             /\ rows[p].start \in Nat /\ table[p].start \in Nat
    BY <1>2, StartIs, RowIs, RowFields, Fields, Bounds
<1> QED BY <1>1, <1>2, <1>3

(* A child by its row, and no older than the parent, was forked by it. *)
LEMMA ChildIsForked ==
    ASSUME TypeOK, GroupInv, Accepted, Quiet, NEW p \in Listed, NEW c \in Listed,
           rows[c].ppid = p, c # p, rows[c].start # 0, rows[p].start # 0,
           rows[p].start <= rows[c].start
    PROVE  ParentOf(p, c) /\ table[p].line \subseteq table[c].line
<1>1. /\ p \in Live /\ c \in Live /\ table[c].ppid = p
      /\ table[p].start = rows[p].start /\ table[c].start = rows[c].start
    BY QuietFacts
<1>2. table[p].line \subseteq table[c].line /\ <<p, table[p].start>> \in table[p].line
    BY <1>1 DEF GroupInv, TableInv, OlderIsParent, LinesSound
<1> QED BY <1>1, <1>2 DEF ParentOf

(* The root is the target, or a supervisor among its forebears. *)
LEMMA RootIs ==
    ASSUME TypeOK, GroupInv, Accepted, Quiet
    PROVE  /\ Root \in Listed /\ rows[Root].start # 0
           /\ table[Root].line \subseteq table[target.pid].line
           /\ Root = target.pid \/ (rows[Root].climb /\ Pgid = 0)
<1>1. /\ Iterates(Climb, MaxPid, Pid, ToParent, target.pid)
      /\ MaxPid \in Nat /\ target.pid \in Listed /\ rows[target.pid].start # 0
    BY AcceptedIs, ClimbIs, QuietFacts, Bounds
<1> DEFINE Good(r) == /\ r \in Listed /\ rows[r].start # 0
                      /\ table[r].line \subseteq table[target.pid].line
                      /\ r = target.pid \/ (rows[r].climb /\ Pgid = 0)
           T == {n \in 0..MaxPid : Good(Climb[n])}
<1>2. 0 \in T
    BY <1>1 DEF Iterates
<1>3. ASSUME NEW n \in 1..MaxPid, n - 1 \in T PROVE n \in T
  <2> DEFINE r == Climb[n-1]
             p == rows[r].ppid
  <2>1. Good(r) /\ r \in Pid
      BY <1>1, <1>3 DEF Iterates
  <2>2. Climb[n] = IF Pgid = 0 /\ Climbs(p, r) THEN p ELSE r
    <3>1. Climb[n] = ToParent[r]
        BY <1>1 DEF Iterates
    <3> QED BY <3>1, <2>1 DEF ToParent
  <2> HIDE DEF r
  <2>3. ASSUME Pgid = 0, Climbs(p, r) PROVE Good(p)
    <3>1. p \in Listed /\ p # r /\ rows[p].climb /\ rows[p].start # 0 /\ rows[p].start <= rows[r].start
        BY <2>3 DEF Climbs, Climbable
    <3>2. table[p].line \subseteq table[r].line
        BY <2>1, <3>1, ChildIsForked
    <3> QED BY <2>1, <2>3, <3>1, <3>2
  <2> HIDE DEF Good, p
  <2> QED BY <2>1, <2>2, <2>3
<1>4. \A n \in 0..MaxPid : n \in T
  <2> HIDE DEF T
  <2> QED BY <1>1, <1>2, <1>3, IntervalInduction
<1>5. Good(Climb[MaxPid])
    BY <1>1, <1>4
<1> QED BY <1>5 DEF Root

(* The walk, one step at a time. *)
LEMMA WalkStep ==
    ASSUME TypeOK, target.pid \in Pid, NEW n \in 1..MaxPid
    PROVE  /\ Reached[n-1] \subseteq Pid /\ Reached[n-1] \subseteq Reached[n]
           /\ \A c \in Reached[n] : \/ c \in Reached[n-1]
                                    \/ c \in Listed \ Seed /\ \E p \in Reached[n-1] : ChildRow(p, c)
<1>1. Reached[n] = WithChildren[Reached[n-1]] /\ Reached[n-1] \in SUBSET Pid
  <2>1. Iterates(Reached, MaxPid, SUBSET Pid, WithChildren, {Root})
      BY ReachedIs
  <2>2. n - 1 \in 0..MaxPid
      BY Bounds
  <2> QED BY <2>1, <2>2 DEF Iterates
<1>2. Reached[n] = Reached[n-1] \cup {c \in Listed \ Seed : \E p \in Reached[n-1] : ChildRow(p, c)}
    BY <1>1 DEF WithChildren
<1> QED BY <1>1, <1>2

LEMMA WalkGrows ==
    ASSUME TypeOK, target.pid \in Pid, NEW n \in 0..MaxPid
    PROVE  Reached[n] \subseteq Walk
<1>1. /\ Iterates(Reached, MaxPid, SUBSET Pid, WithChildren, {Root}) /\ {Root} \in SUBSET Pid
      /\ WithChildren \in [SUBSET Pid -> SUBSET Pid] /\ MaxPid \in Nat /\ MaxPid \in 0..MaxPid
    BY ReachedIs, ClimbIs, Bounds
<1>2. \A x \in SUBSET Pid : x \subseteq WithChildren[x]
    BY DEF WithChildren
<1> QED BY <1>1, <1>2, Growth DEF Walk

(* The walk ends with nothing left to enter. *)
LEMMA WalkClosed ==
    ASSUME TypeOK, target.pid \in Pid, NEW p \in Walk, NEW c \in Listed \ Seed, ChildRow(p, c)
    PROVE  c \in Walk
<1>1. /\ Iterates(Reached, MaxPid, SUBSET Pid, WithChildren, {Root}) /\ {Root} \in SUBSET Pid
      /\ WithChildren \in [SUBSET Pid -> SUBSET Pid] /\ MaxPid \in Nat /\ Walk \in SUBSET Pid
    BY ReachedIs, ClimbIs, Bounds
<1>2. \A x \in SUBSET Pid : x \subseteq WithChildren[x]
    BY DEF WithChildren
<1>3. WithChildren[Walk] = Walk
    BY <1>1, <1>2, Saturation DEF Walk
<1>4. WithChildren[Walk] = Walk \cup {x \in Listed \ Seed : \E y \in Walk : ChildRow(y, x)}
    BY <1>1 DEF WithChildren
<1> QED BY <1>3, <1>4

(* The walk enters descendants of the root only, all with a start time. *)
LEMMA WalkIs ==
    ASSUME TypeOK, GroupInv, Accepted, Quiet, NEW n \in 0..MaxPid
    PROVE  \A c \in Reached[n] : /\ c \in Listed /\ rows[c].start # 0
                                 /\ table[Root].line \subseteq table[c].line
<1>1. target.pid \in Pid /\ MaxPid \in Nat /\ Reached[0] = {Root}
    BY AcceptedIs, ReachedIs, Bounds DEF Iterates
<1> DEFINE Good == {c \in Listed : rows[c].start # 0 /\ table[Root].line \subseteq table[c].line}
           T == {k \in 0..MaxPid : Reached[k] \subseteq Good}
<1>2. 0 \in T
    BY <1>1, RootIs
<1>3. ASSUME NEW k \in 1..MaxPid, k - 1 \in T PROVE k \in T
  <2>1. ASSUME NEW c \in Listed, NEW p \in Reached[k-1], ChildRow(p, c) PROVE c \in Good
    <3>1. p \in Good
        BY <1>3
    <3>2. p \in Listed /\ rows[p].start # 0 /\ rows[c].start # 0 /\ c # p /\ rows[c].ppid = p
          /\ rows[c].start >= rows[p].start /\ rows[p].start \in Nat /\ rows[c].start \in Nat
        BY <3>1, <2>1, QuietFacts DEF ChildRow
    <3>3. table[p].line \subseteq table[c].line
        BY <3>2, ChildIsForked
    <3> QED BY <3>1, <3>2, <3>3
  <2> HIDE DEF Good
  <2> QED BY <1>1, <1>3, <2>1, WalkStep
<1>4. \A k \in 0..MaxPid : k \in T
  <2> HIDE DEF T
  <2> QED BY <1>1, <1>2, <1>3, IntervalInduction
<1> QED BY <1>4

(* If the processes hold still while portpin looks, a member shares the      *)
(* process group of the target, or was forked by the target or by the        *)
(* supervisor above it (group.go:172-199): the start times admit no child of *)
(* a dead process whose number has a new owner.                              *)
THEOREM MembersAreKin ==
    ASSUME Quiet
    PROVE  Spec => []GenuineKin
<1>1. ASSUME TypeOK, GroupInv PROVE GenuineKin
  <2>1. SUFFICES ASSUME Accepted, NEW m \in group.members \ {target.pid}
                 PROVE  \/ Posix /\ table[m].pgid = table[target.pid].pgid
                        \/ \E r \in Forebears(target.pid) \cap Forebears(m) :
                              r = target.pid \/ table[r].climb
      BY DEF GenuineKin
  <2>2. m \in Members /\ target.pid \in Pid /\ MaxPid \in 0..MaxPid
      BY <1>1, <2>1, AcceptedIs, Bounds
  <2>3. /\ Root \in Live /\ (Root = target.pid \/ table[Root].climb)
        /\ table[Root].line \subseteq table[target.pid].line
        /\ <<Root, table[Root].start>> \in table[Root].line
    <3>1. Root \in Listed /\ table[Root].line \subseteq table[target.pid].line
          /\ (Root = target.pid \/ rows[Root].climb)
        BY <1>1, <2>1, RootIs
    <3>2. Root \in Live /\ rows[Root].climb = table[Root].climb
        BY <1>1, <2>1, <3>1, QuietFacts
    <3> QED BY <1>1, <3>1, <3>2 DEF GroupInv, TableInv, LinesSound
  <2>4. CASE table[Root].line \subseteq table[m].line
    <3>1. Root \in Forebears(target.pid) \cap Forebears(m)
        BY <2>3, <2>4 DEF Forebears
    <3> QED BY <2>3, <3>1
  <2>5. CASE m = Root
      BY <2>4, <2>5
  <2>6. CASE m \in Walk
      BY <1>1, <2>1, <2>2, <2>4, <2>6, WalkIs DEF Walk
  <2>7. CASE m \in Listed /\ Pgid # 0 /\ rows[m].pgid = Pgid
    <3>1. m \in Live /\ table[m].pgid = table[target.pid].pgid /\ table[m].pgid # 0
        BY <1>1, <2>1, <2>7, QuietFacts DEF Pgid
    <3> QED BY <1>1, <3>1 DEF GroupInv, TableInv, Platforms
  <2> QED BY <2>2, <2>5, <2>6, <2>7 DEF Members, Seed
<1> QED BY <1>1, GroupInvariant, PTL

-----------------------------------------------------------------------------

(* Descent, one generation at a time. *)
LEMMA AncestryStep ==
    ASSUME TypeOK, NEW q \in Pid, NEW n \in 1..MaxPid
    PROVE  /\ Ancestry(q)[0] = {q} /\ Ancestry(q)[n-1] \subseteq Pid /\ Ancestry(q)[n] \subseteq Pid
           /\ Ancestry(q)[n] = Ancestry(q)[n-1] \cup {r \in Live : \E c \in Ancestry(q)[n-1] : ParentOf(r, c)}
<1>1. /\ Ancestry(q)[n] = WithForkers[Ancestry(q)[n-1]] /\ Ancestry(q)[n-1] \in SUBSET Pid
      /\ Ancestry(q)[0] = {q}
  <2>1. Iterates(Ancestry(q), MaxPid, SUBSET Pid, WithForkers, {q})
      BY AncestryIs
  <2>2. n - 1 \in 0..MaxPid
      BY Bounds
  <2> QED BY <2>1, <2>2 DEF Iterates
<1>2. Ancestry(q)[n] = Ancestry(q)[n-1] \cup {r \in Live : \E c \in Ancestry(q)[n-1] : ParentOf(r, c)}
    BY <1>1 DEF WithForkers
<1> QED BY <1>1, <1>2 DEF Live

(* More generations hold all that fewer hold. *)
LEMMA AncestryGrows ==
    ASSUME TypeOK, NEW q \in Pid, NEW m \in 0..MaxPid, NEW n \in 0..m
    PROVE  Ancestry(q)[n] \subseteq Ancestry(q)[m]
<1>1. /\ Iterates(Ancestry(q), MaxPid, SUBSET Pid, WithForkers, {q})
      /\ WithForkers \in [SUBSET Pid -> SUBSET Pid] /\ MaxPid \in Nat
    BY AncestryIs, Bounds
<1>2. \A x \in SUBSET Pid : x \subseteq WithForkers[x]
    BY DEF WithForkers
<1> QED BY <1>1, <1>2, Growth

(* The forebears of the parent of c are those of c, one generation later. *)
LEMMA AncestryOfParent ==
    ASSUME TypeOK, NEW p \in Pid, NEW c \in Pid, ParentOf(p, c)
    PROVE  \A n \in 1..MaxPid : Ancestry(p)[n-1] \subseteq Ancestry(c)[n]
<1>1. MaxPid \in Nat /\ p \in Live
    BY Bounds DEF ParentOf
<1> DEFINE T == {n \in 0..MaxPid : n # 0 => Ancestry(p)[n-1] \subseteq Ancestry(c)[n]}
<1>2. 0 \in T
    BY <1>1
<1>3. ASSUME NEW n \in 1..MaxPid, n - 1 \in T PROVE n \in T
  <2>1. CASE n = 1
    <3>1. Ancestry(p)[0] = {p} /\ c \in Ancestry(c)[0]
        BY <2>1, AncestryStep
    <3>2. p \in Ancestry(c)[1]
        BY <2>1, <3>1, <1>1, AncestryStep
    <3> QED BY <2>1, <3>1, <3>2
  <2>2. CASE n # 1
    <3> DEFINE k == n - 1
    <3>1. k \in 1..MaxPid /\ Ancestry(p)[k-1] \subseteq Ancestry(c)[k]
        BY <1>3, <2>2
    <3>2. Ancestry(p)[k] = Ancestry(p)[k-1] \cup {r \in Live : \E x \in Ancestry(p)[k-1] : ParentOf(r, x)}
        BY <3>1, AncestryStep
    <3>3. Ancestry(c)[n] = Ancestry(c)[k] \cup {r \in Live : \E x \in Ancestry(c)[k] : ParentOf(r, x)}
        BY AncestryStep
    <3> HIDE DEF k
    <3>4. Ancestry(p)[k] \subseteq Ancestry(c)[n]
        BY <3>1, <3>2, <3>3
    <3> QED BY <3>4 DEF k
  <2> QED BY <2>1, <2>2
<1>4. \A n \in 0..MaxPid : n \in T
  <2> HIDE DEF T
  <2> QED BY <1>1, <1>2, <1>3, IntervalInduction
<1> QED BY <1>4

(* Who is a forebear of q is q itself, or a forebear of its parent. *)
LEMMA AncestryFromParent ==
    ASSUME TypeOK, NEW q \in Pid
    PROVE  \A n \in 1..MaxPid : \A x \in Ancestry(q)[n] :
               x = q \/ \E p \in Pid : ParentOf(p, q) /\ x \in Ancestry(p)[n-1]
<1>1. MaxPid \in Nat
    BY Bounds
<1> DEFINE From(n, x) == x = q \/ \E p \in Pid : ParentOf(p, q) /\ x \in Ancestry(p)[n-1]
           T == {n \in 0..MaxPid : n # 0 => \A x \in Ancestry(q)[n] : From(n, x)}
<1>2. 0 \in T
    BY <1>1
<1>3. ASSUME NEW n \in 1..MaxPid, n - 1 \in T PROVE n \in T
  <2>1. SUFFICES ASSUME NEW x \in Ancestry(q)[n] PROVE From(n, x)
      OBVIOUS
  <2>2. CASE n = 1
    <3>1. x = q \/ (x \in Live /\ ParentOf(x, q))
        BY <2>1, <2>2, AncestryStep
    <3>2. CASE x \in Live /\ ParentOf(x, q)
      <4>1. x \in Pid /\ x \in Ancestry(x)[n-1]
          BY <2>2, <3>2, AncestryStep DEF Live
      <4> QED BY <3>2, <4>1
    <3> QED BY <3>1, <3>2
  <2>3. CASE n # 1
    <3> DEFINE k == n - 1
    <3>1. k \in 1..MaxPid /\ n - 1 = k /\ \A y \in Ancestry(q)[k] : From(k, y)
        BY <1>3, <2>3
    <3>2. x \in Ancestry(q)[k] \/ (x \in Live /\ \E c \in Ancestry(q)[k] : ParentOf(x, c))
        BY <2>1, AncestryStep
    <3> HIDE DEF k
    <3>3. ASSUME NEW p \in Pid
          PROVE  Ancestry(p)[k-1] \subseteq Ancestry(p)[k]
                 /\ \A c \in Ancestry(p)[k-1] : \A y \in Live : ParentOf(y, c) => y \in Ancestry(p)[k]
        BY <3>1, AncestryStep
    <3>4. CASE x \in Ancestry(q)[k]
        BY <3>1, <3>3, <3>4
    <3>5. CASE x \in Live /\ \E c \in Ancestry(q)[k] : ParentOf(x, c)
      <4>1. PICK c \in Ancestry(q)[k] : ParentOf(x, c)
          BY <3>5
      <4>2. CASE c = q
        <5>1. x \in Pid /\ x \in Ancestry(x)[0] /\ k \in 0..MaxPid /\ 0 \in 0..k
            BY <3>1, <3>5, AncestryStep DEF Live
        <5>2. x \in Ancestry(x)[k]
            BY <5>1, AncestryGrows
        <5> QED BY <3>1, <4>1, <4>2, <5>1, <5>2
      <4>3. CASE c # q
        <5>1. PICK p \in Pid : ParentOf(p, q) /\ c \in Ancestry(p)[k-1]
            BY <3>1, <4>3
        <5>2. x \in Ancestry(p)[k]
            BY <3>3, <3>5, <4>1, <5>1
        <5> QED BY <3>1, <5>1, <5>2
      <4> QED BY <4>2, <4>3
    <3> QED BY <3>2, <3>4, <3>5
  <2> QED BY <2>2, <2>3
<1>4. \A n \in 0..MaxPid : n \in T
  <2> HIDE DEF T
  <2> QED BY <1>1, <1>2, <1>3, IntervalInduction
<1> QED BY <1>4

(* Who descends from the parent, descends from all the parent descends from. *)
LEMMA DescentThroughParent ==
    ASSUME TypeOK, NEW p \in Pid, NEW c \in Pid, ParentOf(p, c), NEW r, Descends(r, p)
    PROVE  Descends(r, c)
<1>1. /\ MaxPid \in Nat /\ MaxPid \in 1..MaxPid /\ p \in Live
      /\ Iterates(Ancestry(c), MaxPid, SUBSET Pid, WithForkers, {c})
      /\ WithForkers \in [SUBSET Pid -> SUBSET Pid]
  <2>1. MaxPid \in Nat /\ MaxPid \in 1..MaxPid
      BY Bounds
  <2>2. p \in Live
      BY DEF ParentOf
  <2> QED BY <2>1, <2>2, AncestryIs
<1>2. \A x \in SUBSET Pid : x \subseteq WithForkers[x]
    BY DEF WithForkers
<1>3. WithForkers[Ancestry(c)[MaxPid]] = Ancestry(c)[MaxPid] /\ Ancestry(c)[MaxPid] \in SUBSET Pid
  <2>1. {c} \in SUBSET Pid /\ {c} # {}
      OBVIOUS
  <2>2. WithForkers[Ancestry(c)[MaxPid]] = Ancestry(c)[MaxPid]
      BY <1>1, <1>2, <2>1, Saturation
  <2> QED BY <1>1, <2>2, AncestryStep
<1> DEFINE A == Ancestry(c)[MaxPid]
<1>4. \A x \in A : \A y \in Live : ParentOf(y, x) => y \in A
  <2>1. A = A \cup {y \in Live : \E x \in A : ParentOf(y, x)}
      BY <1>3 DEF WithForkers
  <2> HIDE DEF A
  <2> QED BY <2>1
<1>5. c \in A
  <2>1. c \in Ancestry(c)[0]
      BY <1>1, AncestryStep
  <2> QED BY <1>1, <2>1, AncestryGrows
<1> HIDE DEF A
<1> DEFINE T == {n \in 0..MaxPid : Ancestry(p)[n] \subseteq A}
<1>6. 0 \in T
    BY <1>1, <1>4, <1>5, AncestryStep
<1>7. ASSUME NEW n \in 1..MaxPid, n - 1 \in T PROVE n \in T
    BY <1>4, <1>7, AncestryStep
<1>8. \A n \in 0..MaxPid : n \in T
  <2> HIDE DEF T
  <2> QED BY <1>1, <1>6, <1>7, IntervalInduction
<1> QED BY <1>1, <1>8 DEF Descends, A

(* If the processes hold still, no member but the target is a child of init, *)
(* and one that leads a session descends from the target (group.go:172-181). *)
THEOREM OnlyOwnDaemons ==
    ASSUME Quiet
    PROVE  Spec => []DaemonsSpared
<1>1. ASSUME TypeOK, GroupInv PROVE DaemonsSpared
  <2>1. SUFFICES ASSUME Accepted, Posix, NEW m \in group.members \ {target.pid}
                 PROVE  table[m].ppid # 1 /\ (table[m].sid = m => Descends(target.pid, m))
      BY DEF DaemonsSpared
  <2>2. /\ m \in Members /\ target.pid \in Pid /\ MaxPid \in Nat
        /\ \A p \in Members : ~Protected(p)
        /\ \A p \in Listed : /\ p \in Live /\ rows[p].ppid = table[p].ppid
                             /\ rows[p].leader = (Posix /\ table[p].sid = p)
      BY <1>1, <2>1, AcceptedIs, QuietFacts, Bounds
  <2>3. Root = target.pid
      BY <1>1, <2>1, RootIs DEF GroupInv, PosixRows
  <2>4. CASE m \in Seed
    <3>1. m \in Listed /\ ~Detached(m)
        BY <2>1, <2>2, <2>3, <2>4 DEF Seed
    <3> QED BY <2>1, <2>2, <3>1 DEF Detached
  <2>5. CASE m \in Walk
    <3> DEFINE T == {n \in 0..MaxPid : \A c \in Reached[n] : target.pid \in Ancestry(c)[n]}
    <3>1. Reached[0] = {target.pid}
        BY <1>1, <2>2, <2>3, ReachedIs DEF Iterates
    <3>2. 0 \in T
        BY <1>1, <2>2, <3>1, AncestryStep, Bounds
    <3>3. ASSUME NEW p, NEW c \in Listed, NEW n \in 0..MaxPid, p \in Reached[n], ChildRow(p, c)
          PROVE  ParentOf(p, c)
      <4>1. p \in Listed /\ rows[p].start # 0 /\ rows[p].start \in Nat
          BY <1>1, <2>1, <3>3, WalkIs, QuietFacts
      <4>2. rows[c].start \in Nat
          BY <1>1, <2>1, QuietFacts
      <4> QED BY <1>1, <2>1, <3>3, <4>1, <4>2, ChildIsForked DEF ChildRow
    <3>4. ASSUME NEW n \in 1..MaxPid, n - 1 \in T PROVE n \in T
      <4>1. SUFFICES ASSUME NEW c \in Reached[n] PROVE target.pid \in Ancestry(c)[n]
          OBVIOUS
      <4>2. \/ c \in Reached[n-1]
            \/ c \in Listed /\ \E p \in Reached[n-1] : ChildRow(p, c)
          BY <1>1, <2>2, WalkStep
      <4>3. CASE c \in Reached[n-1]
        <5>1. target.pid \in Ancestry(c)[n-1] /\ c \in Pid /\ n - 1 \in 0..n /\ n \in 0..MaxPid
            BY <1>1, <2>2, <3>4, <4>3, WalkStep
        <5> QED BY <1>1, <5>1, AncestryGrows
      <4>4. CASE c \in Listed /\ \E p \in Reached[n-1] : ChildRow(p, c)
        <5>1. PICK p \in Reached[n-1] : ChildRow(p, c)
            BY <4>4
        <5>2. n - 1 \in 0..MaxPid
            BY <2>2
        <5>3. ParentOf(p, c)
            BY <3>3, <4>4, <5>1, <5>2
        <5>4. p \in Pid /\ c \in Pid
            BY <5>3 DEF ParentOf, Live
        <5>5. target.pid \in Ancestry(p)[n-1]
            BY <3>4
        <5> QED BY <1>1, <5>3, <5>4, <5>5, AncestryOfParent
      <4> QED BY <4>2, <4>3, <4>4
    <3>5. \A n \in 0..MaxPid : n \in T
      <4> HIDE DEF T
      <4> QED BY <2>2, <3>2, <3>4, IntervalInduction
    <3>6. Descends(target.pid, m)
        BY <2>2, <2>5, <3>5 DEF Descends, Walk
    <3>7. m \in Listed /\ rows[m].ppid # 1
      <4>1. m \in Reached[MaxPid] /\ MaxPid \in 0..MaxPid
          BY <2>2, <2>5 DEF Walk
      <4>2. m \in Listed /\ rows[m].start # 0
          BY <1>1, <2>1, <4>1, WalkIs
      <4>3. ASSUME rows[m].ppid = 1 PROVE FALSE
        <5> DEFINE U == {n \in 0..MaxPid : m \notin Reached[n] \/ \E p \in Walk : rows[m].ppid = p}
        <5>1. 0 \in U
            BY <2>1, <2>2, <3>1
        <5>2. ASSUME NEW n \in 1..MaxPid, n - 1 \in U PROVE n \in U
          <6>1. CASE m \in Reached[n-1]
              BY <5>2, <6>1
          <6>2. CASE m \notin Reached[n-1] /\ m \in Reached[n]
            <7>1. PICK p \in Reached[n-1] : ChildRow(p, m)
                BY <1>1, <2>2, <6>2, WalkStep
            <7>2. Reached[n-1] \subseteq Walk
                BY <1>1, <2>2, WalkGrows
            <7> QED BY <7>1, <7>2 DEF ChildRow
          <6> QED BY <6>1, <6>2
        <5>3. \A n \in 0..MaxPid : n \in U
          <6> HIDE DEF U
          <6> QED BY <2>2, <5>1, <5>2, IntervalInduction
        <5>4. 1 \in Walk
            BY <4>1, <4>3, <5>3
        <5> QED BY <2>2, <5>4 DEF Members, Protected
      <4> QED BY <4>2, <4>3
    <3> QED BY <2>1, <2>2, <3>6, <3>7
  <2> QED BY <2>2, <2>4, <2>5 DEF Members
<1> QED BY <1>1, GroupInvariant, PTL

(* The target is walked: from the root down the parents that were climbed. *)
LEMMA TargetWalked ==
    ASSUME TypeOK, GroupInv, Accepted, Quiet, Pgid = 0
    PROVE  target.pid \in Walk
<1>1. /\ target.pid \in Pid /\ target.pid \in Listed /\ rows[target.pid].start # 0
      /\ MaxPid \in Nat /\ Iterates(Climb, MaxPid, Pid, ToParent, target.pid)
    BY AcceptedIs, ClimbIs, Bounds
<1>2. Root \in Walk
  <2>1. Reached[0] = {Root} /\ 0 \in 0..MaxPid
      BY <1>1, ReachedIs DEF Iterates
  <2> QED BY <1>1, <2>1, WalkGrows
<1>3. Seed = {Root}
    BY <1>1 DEF Seed
<1>4. ASSUME NEW n \in 1..MaxPid
      PROVE  LET r == Climb[n-1] IN
             r \in Pid /\ (Climb[n] = r \/ (Climbs(rows[r].ppid, r) /\ Climb[n] = rows[r].ppid))
  <2>1. Climb[n] = ToParent[Climb[n-1]] /\ Climb[n-1] \in Pid
      BY <1>1 DEF Iterates
  <2> QED BY <2>1 DEF ToParent
<1> DEFINE Good(r) == r \in Listed /\ rows[r].start # 0
           U == {n \in 0..MaxPid : Good(Climb[n])}
<1>5. 0 \in U
    BY <1>1 DEF Iterates
<1>6. ASSUME NEW n \in 1..MaxPid, n - 1 \in U PROVE n \in U
    BY <1>4, <1>6 DEF Climbs
<1>7. \A n \in 0..MaxPid : n \in U
  <2> HIDE DEF U
  <2> QED BY <1>1, <1>5, <1>6, IntervalInduction
<1> DEFINE T == {k \in 0..MaxPid : Climb[MaxPid - k] \in Walk}
<1>8. 0 \in T
    BY <1>1, <1>2 DEF Root
<1>9. ASSUME NEW k \in 1..MaxPid, k - 1 \in T PROVE k \in T
  <2> DEFINE n == MaxPid - (k - 1)
             r == Climb[n-1]
  <2>1. n \in 1..MaxPid /\ n - 1 = MaxPid - k /\ n - 1 \in 0..MaxPid /\ Climb[n] \in Walk
      BY <1>1, <1>9
  <2>2. r \in Pid /\ (Climb[n] = r \/ (Climbs(rows[r].ppid, r) /\ Climb[n] = rows[r].ppid))
      BY <1>4, <2>1
  <2>3. Good(r)
      BY <1>7, <2>1
  <2> HIDE DEF r, n
  <2>4. CASE Climbs(rows[r].ppid, r) /\ Climb[n] = rows[r].ppid
    <3> DEFINE p == rows[r].ppid
    <3>1. p \in Listed /\ p # r /\ rows[p].start <= rows[r].start /\ rows[r].start # 0 /\ p \in Walk
        BY <2>1, <2>3, <2>4 DEF Climbs
    <3>2. rows[p].start \in Nat /\ rows[r].start \in Nat
        BY <2>3, <3>1, QuietFacts
    <3>3. ChildRow(p, r)
        BY <3>1, <3>2 DEF ChildRow
    <3>4. r \in Walk
        BY <1>1, <1>2, <1>3, <2>3, <3>1, <3>3, WalkClosed
    <3> QED BY <2>1, <3>4 DEF r
  <2>5. CASE Climb[n] = r
      BY <2>1, <2>5 DEF r
  <2> QED BY <2>2, <2>4, <2>5
<1>10. \A k \in 0..MaxPid : k \in T
  <2> HIDE DEF T
  <2> QED BY <1>1, <1>8, <1>9, IntervalInduction
<1>11. Climb[0] \in Walk
  <2>1. MaxPid \in 0..MaxPid /\ MaxPid - MaxPid = 0
      BY <1>1
  <2> QED BY <1>10, <2>1
<1> QED BY <1>1, <1>11 DEF Iterates

(* If the processes hold still, the group on Windows holds every descendant  *)
(* of the target that readable creation times lead to (group.go:183-199).    *)
THEOREM ReadableTreeIsWhole ==
    ASSUME Quiet
    PROVE  Spec => []TreeWithoutGroups
<1>1. ASSUME TypeOK, GroupInv PROVE TreeWithoutGroups
  <2> DEFINE Readable(q) == \A r \in Listed : Descends(target.pid, r) /\ Descends(r, q) => rows[r].start # 0
  <2>1. SUFFICES ASSUME ~Posix, Accepted, NEW q \in Listed, Descends(target.pid, q), Readable(q)
                 PROVE  q \in group.members
      BY DEF TreeWithoutGroups
  <2>2. /\ target.pid \in Pid /\ target.pid \in Listed /\ MaxPid \in Nat /\ group.members = Members
        /\ pc = "done" /\ unread = {} /\ rows[target.pid].start # 0 /\ Listed \subseteq Pid
      BY <1>1, <2>1, AcceptedIs, Bounds DEF Listed
  <2>3. Pgid = 0
      BY <1>1, <2>1, <2>2 DEF GroupInv, WindowsRows, Pgid
  <2>4. Root \in Walk /\ Seed = {Root} /\ target.pid \in Walk
    <3>1. Reached[0] = {Root} /\ 0 \in 0..MaxPid
        BY <1>1, <2>2, ReachedIs DEF Iterates
    <3> QED BY <1>1, <2>1, <2>2, <2>3, <3>1, WalkGrows, TargetWalked DEF Seed
  <2> HIDE DEF Readable
  <2> DEFINE T == {n \in 0..MaxPid : \A x \in Listed :
                      target.pid \in Ancestry(x)[n] /\ Readable(x) => x \in Walk}
  <2>5. 0 \in T
    <3>1. ASSUME NEW x \in Listed PROVE Ancestry(x)[0] = {x}
        BY <1>1, <2>2, AncestryIs DEF Iterates
    <3> QED BY <2>2, <2>4, <3>1
  <2>6. ASSUME NEW n \in 1..MaxPid, n - 1 \in T PROVE n \in T
    <3>1. SUFFICES ASSUME NEW x \in Listed, target.pid \in Ancestry(x)[n], Readable(x) PROVE x \in Walk
        OBVIOUS
    <3>2. CASE target.pid = x
        BY <2>4, <3>2
    <3>3. CASE target.pid # x
      <4>1. PICK p \in Pid : ParentOf(p, x) /\ target.pid \in Ancestry(p)[n-1]
          BY <1>1, <2>2, <3>1, <3>3, AncestryFromParent
      <4>2. p \in Live /\ x \in Live /\ p # x /\ table[x].ppid = p /\ table[p].start <= table[x].start
          BY <1>1, <4>1, ParentLine DEF GroupInv
      <4>3. p \in Listed
          BY <1>1, <2>1, <2>2, <4>1, <4>2 DEF GroupInv, QuietRows
      <4>4. Readable(p)
        <5>1. ASSUME NEW r \in Listed, Descends(target.pid, r), Descends(r, p) PROVE rows[r].start # 0
          <6>1. Descends(r, x)
              BY <1>1, <2>2, <4>1, <5>1, DescentThroughParent
          <6> QED BY <3>1, <5>1, <6>1 DEF Readable
        <5> QED BY <5>1 DEF Readable
      <4>5. p \in Walk
          BY <2>6, <4>1, <4>3, <4>4
      <4>6. rows[x].start # 0
        <5>1. n \in 0..MaxPid /\ MaxPid \in 0..MaxPid /\ 0 \in 0..MaxPid /\ x \in Pid
            BY <2>2
        <5>2. Ancestry(x)[n] \subseteq Ancestry(x)[MaxPid] /\ Ancestry(x)[0] \subseteq Ancestry(x)[MaxPid]
            BY <1>1, <2>2, <5>1, AncestryGrows
        <5>3. x \in Ancestry(x)[0]
            BY <1>1, <5>1, AncestryIs DEF Iterates
        <5>4. Descends(target.pid, x) /\ Descends(x, x)
            BY <3>1, <5>2, <5>3 DEF Descends
        <5> QED BY <3>1, <5>4 DEF Readable
      <4>7. ChildRow(p, x)
        <5>1. /\ rows[x].ppid = table[x].ppid /\ rows[x].start = table[x].start
              /\ rows[p].start \in {0, table[p].start} /\ table[p].start \in Nat /\ table[x].start \in Nat
            BY <1>1, <2>1, <4>3, <4>6, QuietFacts
        <5> QED BY <4>2, <4>6, <5>1 DEF ChildRow
      <4>8. CASE x \in Seed
          BY <2>4, <4>8
      <4>9. CASE x \notin Seed
          BY <1>1, <2>2, <4>5, <4>7, <4>9, WalkClosed
      <4> QED BY <4>8, <4>9
    <3> QED BY <3>2, <3>3
  <2>7. \A n \in 0..MaxPid : n \in T
    <3> HIDE DEF T
    <3> QED BY <2>2, <2>5, <2>6, IntervalInduction
  <2>8. q \in Walk
      BY <2>1, <2>2, <2>7 DEF Descends
  <2> QED BY <2>2, <2>8 DEF Members
<1> QED BY <1>1, GroupInvariant, PTL

-----------------------------------------------------------------------------

(* The members above p, one at a time. *)
LEMMA AboveIs ==
    ASSUME TypeOK, NEW in \in SUBSET Pid, NEW p \in Pid
    PROVE  /\ Iterates(Above(p, in), MaxPid, 0..MaxPid, UpIn(in), p)
           /\ \A n \in 1..MaxPid : LET q == Above(p, in)[n-1] IN
                Above(p, in)[n] = IF q # 0 /\ rows[q].ppid \in in THEN rows[q].ppid ELSE 0
<1>1. MaxPid \in Nat /\ p \in 0..MaxPid /\ in \subseteq 0..MaxPid /\ 0 \in 0..MaxPid
    BY Bounds DEF Pid
<1>2. UpIn(in) \in [0..MaxPid -> 0..MaxPid]
    BY <1>1 DEF UpIn
<1>3. Iterates(Above(p, in), MaxPid, 0..MaxPid, UpIn(in), p)
    BY <1>1, <1>2, IterateIs DEF Above
<1>4. ASSUME NEW n \in 1..MaxPid
      PROVE  LET q == Above(p, in)[n-1] IN
             Above(p, in)[n] = IF q # 0 /\ rows[q].ppid \in in THEN rows[q].ppid ELSE 0
  <2>1. Above(p, in)[n] = UpIn(in)[Above(p, in)[n-1]] /\ Above(p, in)[n-1] \in 0..MaxPid
      BY <1>1, <1>3 DEF Iterates
  <2> QED BY <2>1 DEF UpIn
<1> QED BY <1>3, <1>4

(* If the processes hold still, a parent comes before its children on Linux  *)
(* and macOS: the numbers of parents form no cycle there, so that the depth  *)
(* of a child is one more than its parent's (group.go:230-250).              *)
THEOREM ParentsAreFirst ==
    ASSUME Quiet
    PROVE  Spec => []ParentsFirst
<1>1. ASSUME TypeOK, GroupInv PROVE ParentsFirst
  <2> DEFINE in == group.members
  <2>1. SUFFICES ASSUME Accepted, Posix, NEW p \in in, NEW c \in in, ParentOf(p, c)
                 PROVE  Depth(p, in) < Depth(c, in)
      BY DEF ParentsFirst, Before
  <2>2. /\ in = Members /\ target.pid \in Pid /\ MaxPid \in Nat /\ MaxPid \in 0..MaxPid
        /\ \A m \in in : ~Protected(m)
      BY <1>1, <2>1, AcceptedIs, Bounds
  <2>3. in \subseteq Listed
    <3>1. Root \in Listed /\ Walk \subseteq Listed
        BY <1>1, <2>1, <2>2, RootIs, WalkIs DEF Walk
    <3> QED BY <2>2, <3>1 DEF Members, Seed
  <2>4. Listed \subseteq Pid /\ IsFiniteSet(Listed) /\ Cardinality(Listed) <= MaxPid
        /\ \A r \in Listed : r \notin Lower(r) /\ \A x \in Lower(r) : Lower(x) \subseteq Lower(r)
      BY <1>1, LowerIsOrder DEF Listed
  <2> DEFINE N == Cardinality(in)
  <2>5. IsFiniteSet(in) /\ N \in Nat /\ N <= MaxPid /\ in \in SUBSET Pid /\ in # {}
    <3>1. IsFiniteSet(in) /\ Cardinality(in) <= Cardinality(Listed)
        BY <2>3, <2>4, FS_Subset
    <3>2. Cardinality(in) \in Nat /\ Cardinality(Listed) \in Nat
        BY <2>4, <3>1, FS_CardinalityType
    <3> QED BY <2>1, <2>2, <2>3, <2>4, <3>1, <3>2
  <2>6. ASSUME NEW r \in in, rows[r].ppid \in in PROVE rows[r].ppid \in Lower(r)
    <3> DEFINE a == rows[r].ppid
    <3>1. /\ a \in Listed /\ r \in Listed /\ a \in Live /\ r \in Live /\ table[r].ppid = a
          /\ rows[a].start = table[a].start /\ rows[r].start = table[r].start
          /\ table[a].start \in Nat /\ table[r].start \in Nat
      <4>1. a \in Listed /\ r \in Listed
          BY <2>3, <2>6
      <4>2. a \in Live /\ r \in Live /\ table[r].ppid = a
            /\ table[a].start \in Nat /\ table[r].start \in Nat
          BY <1>1, <2>1, <4>1, QuietFacts
      <4>3. table[a].open /\ table[r].open
          BY <1>1, <2>1, <4>2 DEF GroupInv, TableInv, Platforms
      <4>4. rows[a].start = table[a].start /\ rows[r].start = table[r].start
        <5>1. pc = "done" /\ Quiet
            BY <1>1, <2>1, AcceptedIs
        <5>2. rows[a] = Row(a, StartOf(a)) /\ rows[r] = Row(r, StartOf(r))
            BY <1>1, <2>1, <4>1, <5>1 DEF GroupInv, QuietRows
        <5>3. Row(a, StartOf(a)).start = table[a].start /\ Row(r, StartOf(r)).start = table[r].start
            BY <4>3 DEF Row, StartOf
        <5> QED BY <5>2, <5>3
      <4> QED BY <4>1, <4>2, <4>4
    <3>2. r # 1
        BY <2>2 DEF Protected
    <3>3. table[a].start <= table[r].start /\ (table[a].start = table[r].start => a < r)
        BY <1>1, <2>1, <3>1, <3>2 DEF GroupInv, TableInv, Platforms, OlderIsParent
    <3> QED BY <3>1, <3>3 DEF Lower
  <2>7. ASSUME NEW q \in in PROVE Above(q, in)[N] = 0
    <3> DEFINE up == Above(q, in)
    <3>1. /\ Iterates(up, MaxPid, 0..MaxPid, UpIn(in), q)
          /\ \A n \in 1..MaxPid : up[n] = IF up[n-1] # 0 /\ rows[up[n-1]].ppid \in in
                                          THEN rows[up[n-1]].ppid ELSE 0
        BY <1>1, <2>5, AboveIs
    <3> HIDE DEF up, in, N
    <3>2. SUFFICES ASSUME up[N] # 0 PROVE FALSE
        BY DEF up
    <3>3. 0 \notin in /\ N \in Nat /\ N <= MaxPid /\ up[0] = q
        BY <2>5, <3>1, Bounds DEF Iterates, Pid
    <3> DEFINE T == {k \in 0..N : up[N - k] # 0}
    <3>4. 0 \in T
        BY <3>2, <3>3
    <3>5. ASSUME NEW k \in 1..N, k - 1 \in T PROVE k \in T
      <4>1. N - (k - 1) \in 1..MaxPid /\ (N - (k - 1)) - 1 = N - k /\ up[N - (k - 1)] # 0
          BY <2>2, <3>3, <3>5
      <4> QED BY <3>1, <4>1
    <3>6. \A k \in 0..N : k \in T
      <4> HIDE DEF T
      <4> QED BY <3>3, <3>4, <3>5, IntervalInduction
    <3>7. ASSUME NEW n \in 0..N PROVE up[n] # 0
      <4>1. N - n \in 0..N /\ N - (N - n) = n
          BY <3>3
      <4>2. N - n \in T
          BY <3>6, <4>1
      <4> QED BY <4>1, <4>2
    <3>8. ASSUME NEW n \in 1..N PROVE n - 1 \in 0..N /\ up[n] = rows[up[n-1]].ppid /\ rows[up[n-1]].ppid \in in
      <4>1. n \in 1..MaxPid /\ n \in 0..N
          BY <2>2, <3>3
      <4>2. up[n] # 0
          BY <3>7, <4>1
      <4> QED BY <3>1, <3>3, <4>1, <4>2
    <3>9. ASSUME NEW n \in 0..N PROVE up[n] \in in
      <4>1. CASE n = 0
          BY <3>3, <4>1
      <4>2. CASE n # 0
          BY <3>8, <4>2
      <4> QED BY <4>1, <4>2
    <3> DEFINE f == [n \in 0..N |-> up[n]]
               below == [r \in in |-> Lower(r) \cap in]
    <3>10. f \in [0..N -> in] /\ below \in [in -> SUBSET in]
        BY <3>9
    <3>11. ASSUME NEW n \in 1..N PROVE f[n] \in below[f[n-1]]
      <4>1. n \in 0..N /\ n - 1 \in 0..N /\ up[n-1] \in in /\ up[n] \in in /\ up[n] = rows[up[n-1]].ppid
          BY <3>3, <3>8, <3>9
      <4>2. up[n] \in Lower(up[n-1])
          BY <2>6, <4>1
      <4> QED BY <4>1, <4>2
    <3>12. \A x \in in : x \notin below[x] /\ \A y \in below[x] : below[y] \subseteq below[x]
        BY <2>3, <2>4
    <3>13. Cardinality(in) <= N /\ N \in Nat /\ IsFiniteSet(in)
        BY <2>5 DEF N
    <3> HIDE DEF f, below
    <3> QED BY <3>10, <3>11, <3>12, <3>13, NoDescent
  <2> DEFINE D(q) == {n \in 1..N : Above(q, in)[n] # 0}
  <2>8. p \in Pid /\ c \in Pid /\ p # 0 /\ rows[c].ppid = p
    <3>1. p \in Listed /\ c \in Listed /\ table[c].ppid = p
        BY <2>1, <2>3 DEF ParentOf
    <3>2. rows[c].ppid = p /\ p \in Pid /\ c \in Pid
        BY <1>1, <2>1, <2>4, <3>1, QuietFacts
    <3> QED BY <3>2, Bounds DEF Pid
  <2>9. /\ Above(c, in)[0] = c /\ Above(p, in)[0] = p
        /\ \A q \in {p, c} : \A n \in 1..MaxPid : Above(q, in)[n] =
              IF Above(q, in)[n-1] # 0 /\ rows[Above(q, in)[n-1]].ppid \in in
              THEN rows[Above(q, in)[n-1]].ppid ELSE 0
    <3> HIDE DEF in
    <3>1. ASSUME NEW q \in {p, c}
          PROVE  /\ Above(q, in)[0] = q
                 /\ \A n \in 1..MaxPid : Above(q, in)[n] =
                        IF Above(q, in)[n-1] # 0 /\ rows[Above(q, in)[n-1]].ppid \in in
                        THEN rows[Above(q, in)[n-1]].ppid ELSE 0
      <4>1. q \in Pid
          BY <2>8
      <4> DEFINE up == Above(q, in)
      <4>2. /\ Iterates(up, MaxPid, 0..MaxPid, UpIn(in), q)
            /\ \A n \in 1..MaxPid : up[n] = IF up[n-1] # 0 /\ rows[up[n-1]].ppid \in in
                                            THEN rows[up[n-1]].ppid ELSE 0
          BY <1>1, <2>5, <4>1, AboveIs
      <4>3. up[0] = q
        <5> HIDE DEF up
        <5> QED BY <4>2 DEF Iterates
      <4> QED BY <4>2, <4>3
    <3> QED BY <3>1
  <2> HIDE DEF in, N
  <2>10. N \in Nat \ {0} /\ N <= MaxPid /\ c # 0
    <3>1. N # 0
        BY <2>5, FS_EmptySet DEF N
    <3> QED BY <2>5, <2>8, <3>1 DEF Pid
  <2> DEFINE T == {n \in 0..MaxPid : n # 0 => Above(c, in)[n] = Above(p, in)[n-1]}
  <2>11. 0 \in T
      BY <2>2
  <2>12. ASSUME NEW n \in 1..MaxPid, n - 1 \in T PROVE n \in T
    <3>1. CASE n = 1
        BY <2>1, <2>8, <2>9, <2>10, <3>1
    <3>2. CASE n # 1
      <4>1. n - 1 \in 1..MaxPid /\ Above(c, in)[n-1] = Above(p, in)[(n-1)-1]
          BY <2>12, <3>2
      <4> QED BY <2>9, <4>1
    <3> QED BY <3>1, <3>2
  <2>13. \A n \in 0..MaxPid : n \in T
    <3> HIDE DEF T
    <3> QED BY <2>2, <2>11, <2>12, IntervalInduction
  <2>14. Above(p, in)[N] = 0
      BY <2>1, <2>7
  <2>15. 1 \in D(c) /\ \A n \in D(p) : n + 1 \in D(c)
    <3>1. ASSUME NEW n \in 1..N PROVE Above(c, in)[n] = Above(p, in)[n-1]
      <4>1. n \in 0..MaxPid /\ n # 0
          BY <2>2, <2>10
      <4> QED BY <2>13, <4>1
    <3>2. 1 \in D(c)
      <4>1. 1 \in 1..N
          BY <2>10
      <4> QED BY <2>8, <2>9, <3>1, <4>1
    <3>3. ASSUME NEW n \in D(p) PROVE n + 1 \in D(c)
      <4>1. n \in 1..N /\ n # N /\ Above(p, in)[n] # 0
          BY <2>14
      <4>2. n + 1 \in 1..N /\ (n + 1) - 1 = n
          BY <2>10, <4>1
      <4> QED BY <3>1, <4>1, <4>2
    <3> QED BY <3>2, <3>3
  <2>16. IsFiniteSet(D(c)) /\ D(p) \subseteq Nat \ {0} /\ D(c) \subseteq Nat
    <3>1. IsFiniteSet(1..N)
        BY <2>10, FS_Interval
    <3>2. D(c) \in SUBSET (1..N)
        OBVIOUS
    <3> QED BY <2>10, <3>1, <3>2, FS_Subset
  <2> HIDE DEF D
  <2>17. Cardinality(D(p)) < Cardinality(D(c))
    <3> DEFINE g == [n \in D(p) |-> n + 1]
               E == D(c) \ {1}
    <3>1. g \in Injection(D(p), E)
        BY <2>15, <2>16 DEF Injection, IsInjective
    <3>2. IsFiniteSet(E) /\ Cardinality(E) = Cardinality(D(c)) - 1
        BY <2>15, <2>16, FS_RemoveElement
    <3>3. IsFiniteSet(D(p)) /\ Cardinality(D(p)) <= Cardinality(E)
        BY <3>1, <3>2, FS_Injection
    <3>4. Cardinality(D(p)) \in Nat /\ Cardinality(D(c)) \in Nat
        BY <2>16, <3>3, FS_CardinalityType
    <3> QED BY <3>2, <3>3, <3>4
  <2> QED BY <2>17 DEF Depth, D, N
<1> QED BY <1>1, GroupInvariant, PTL

=============================================================================
