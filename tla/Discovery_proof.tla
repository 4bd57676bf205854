--------------------------- MODULE Discovery_proof ---------------------------
(***************************************************************************)
(* Theorems about Discovery, for every number of sockets and processes,    *)
(* every assignment of them, and however the sockets move while the call   *)
(* runs: on each platform a port is not called free that was held          *)
(* throughout, owners are true, a benign race is no permission barrier,    *)
(* and Windows gives up only on a table that kept growing.                 *)
(***************************************************************************)
EXTENDS Discovery, FiniteSetTheorems, TLAPS

(***************************************************************************)
(* The sockets, and what the histories say of them.                        *)
(***************************************************************************)
BoundStates == {"listen", "established"}

Settled(s) == s \in before /\ Bound(s)

Wanted(s) == Settled(s) /\ Matches(AsRow(s))

World ==
    /\ platform \in {"linux", "darwin", "windows"}
    /\ socket \in [Sockets -> [st : States, at : Places, owners : SUBSET Procs]]
    /\ before \subseteq Sockets
    /\ \A s \in before : socket[s].st # "unborn"
    /\ kept \subseteq before \X Procs
    /\ \A h \in kept : Bound(h[1]) /\ h[2] \in socket[h[1]].owners
    /\ \A s \in Sockets : \A p \in socket[s].owners : <<s, p>> \in ever
    /\ \A s \in Sockets :
           /\ platform # "windows" /\ ~Bound(s) => socket[s].owners = {}
           /\ platform = "windows" => /\ Bound(s) => socket[s].owners # {}
                                      /\ \A p, q \in socket[s].owners : p = q
    /\ Listed \subseteq recent

Control ==
    /\ platform = "linux" => pc \in LinuxPCs \cup {"done"}
    /\ platform = "darwin" => pc \in DarwinPCs \cup {"done"}
    /\ platform = "windows" => pc \in WindowsPCs \cup {"done"}
    /\ pc # "done" => result = "none"
    /\ missed6 \in BOOLEAN

(***************************************************************************)
(* Linux.  What has been bound from the beginning is in the rows as soon   *)
(* as its table was read, and stays among the candidates; what somebody    *)
(* kept open has an owner as soon as the walk has passed him.              *)
(***************************************************************************)
TableRows(rs) == rs \subseteq Rows /\ \A r \in rs : r.pid = 0

Awaited(h) == h[1] \in scanning /\ h[2] \in unwalked

LinuxInv ==
    /\ owner \in [Sockets -> Visible \cup {0}]
    /\ \A s \in Sockets : owner[s] # 0 => <<s, owner[s]>> \in ever
    /\ rereading => pc \in LinuxPCs \ {"walk"}
    /\ pc \in LinuxPCs => TableRows(rows) /\ TableRows(found)
    /\ pc \in {"netlink6", "proc6"} =>
           \A s \in Sockets : Settled(s) /\ ~socket[s].at.v6 => AsRow(s) \in rows
    /\ pc = "listing" =>
           \A s \in Sockets : Settled(s) /\ (missed6 => ~socket[s].at.v6) => AsRow(s) \in rows
    /\ (pc = "walk" \/ rereading) /\ ~missed6 =>
           \A s \in Sockets : Wanted(s) => AsRow(s) \in found
    /\ pc = "walk" \/ rereading =>
           \A h \in kept : h[2] \in Visible /\ h[1] \in Inodes(found)
               => owner[h[1]] # 0 \/ (pc = "walk" /\ Awaited(h))
    /\ rereading => \A r \in rows : r.sock \in recent

(***************************************************************************)
(* macOS.  The rows of netstat are as many as the sockets; those of lsof   *)
(* include what has been kept open by whom it has visited.                 *)
(***************************************************************************)
OneToASocket(rs) ==
    /\ TableRows(rs)
    /\ \A q, r \in rs : q.sock = r.sock => q = r
    /\ \A r \in rs : socket[r.sock].st # "unborn" /\ socket[r.sock].at = r.at

OpenFiles ==
    /\ IsFiniteSet(opened)
    /\ opened \subseteq Rows
    /\ \A r \in opened :
           r.st \in BoundStates /\ r.pid \in Visible /\ <<r.sock, r.pid>> \in ever
    /\ pc \in {"netstat", "lsof", "recheck"} =>
           \A h \in kept : h[2] \in Visible \ unlisted => Row(h[1], h[2]) \in opened

DarwinInv ==
    /\ OpenFiles
    /\ pc \in {"lsof", "recheck"} => OneToASocket(rows)
    /\ pc = "lsof" => \A s \in Sockets : Settled(s) => AsRow(s) \in rows
    /\ OneToASocket(orphans)
    /\ pc = "recheck" =>
           /\ \A s \in Sockets : Wanted(s) =>
                  AsRow(s) \in orphans \/ \E o \in opened : Key(o) = Key(AsRow(s)) /\ Matches(o)
           /\ \A b \in orphans : b.st \in BoundStates /\ Distinct(b.sock) =>
                  \A p \in Visible : <<b.sock, p>> \notin kept
           /\ unlisted = {}

(***************************************************************************)
(* Windows.  The rows come with their PIDs; and a table that did not fit   *)
(* into the room asked for has at least as many new sockets as attempts.   *)
(***************************************************************************)
Shown(s) == \E r \in rows : r.sock = s /\ r.st = socket[s].st /\ r.at = socket[s].at

Born == {s \in Sockets : socket[s].st # "unborn"} \ before

Grown ==
    pc = "fetch4" =>
        /\ room \in Nat /\ attempt \in Nat
        /\ attempt > 0 =>
               /\ attempt <= Cardinality(Born) + 1
               /\ Cardinality(WinTable(FALSE)) - room <= Cardinality(Born) + 1 - attempt

WindowsInv ==
    /\ pc \in WindowsPCs =>
           /\ rows \subseteq Rows
           /\ \A r \in rows :
                  /\ r.st \in BoundStates => r.pid # 0
                  /\ r.pid # 0 => <<r.sock, r.pid>> \in ever
                  /\ \A p \in Procs : <<r.sock, p>> \in kept => r.pid = p
    /\ pc = "fetch6" => \A s \in Sockets : Settled(s) /\ ~socket[s].at.v6 => Shown(s)
    /\ pc = "rows" =>
           \A s \in Sockets : Settled(s) /\ (missed6 => ~socket[s].at.v6) => Shown(s)
    /\ Grown

(***************************************************************************)
(* The answer: it is complete, as far as the tables were read, and true.   *)
(***************************************************************************)
Complete ==
    result = "ok" /\ ~missed6 =>
        \A s \in Sockets : Wanted(s) => \E b \in found : b.st \in BoundStates

Answer ==
    pc = "done" => Complete /\ OwnersTrue /\ NoFalseBarrier /\ UnsettledMeansGrowing

DiscoveryInv == World /\ Control /\ LinuxInv /\ DarwinInv /\ WindowsInv /\ Answer

-----------------------------------------------------------------------------

(* Naturals have a least element in every set, and the model's Least is it. *)
LEMMA LeastIsIn ==
    ASSUME NEW T, T \subseteq Nat, T # {}
    PROVE  Least(T) \in T /\ \A q \in T : Least(T) <= q
<1>1. PICK x \in T : \A y \in T : ~ (<<y, x>> \in OpToRel(<, Nat))
    BY NatLessThanWellFounded, WFMin
<1>2. ASSUME NEW y \in T PROVE x <= y
  <2>1. ~ (<<y, x>> \in OpToRel(<, Nat))
      BY <1>1
  <2>2. <<y, x>> \in Nat \X Nat
      OBVIOUS
  <2>3. ~(y < x)
      BY <2>1, <2>2 DEF OpToRel
  <2> QED BY <2>2, <2>3
<1>3. \E p \in T : \A q \in T : p <= q
    BY <1>2
<1> QED BY <1>3 DEF Least

SocketType == [st : States, at : Places, owners : SUBSET Procs]

(***************************************************************************)
(* A move of the system changes one socket: a socket that is not unborn    *)
(* keeps its place, and enters no state in which it could be bound again.  *)
(***************************************************************************)
Turns(s, k) ==
    /\ socket[s].st # "unborn" =>
           /\ k.st # "unborn" /\ k.at = socket[s].at
           /\ k.st \in BoundStates => k.st = socket[s].st
           /\ k.st \in {"fin", "time_wait"} => InTable(s)
    /\ \A p \in k.owners : p \in socket[s].owners \/ k.st \in BoundStates
    /\ platform # "windows" /\ k.st \notin BoundStates => k.owners = {}
    /\ platform = "windows" => /\ k.st \in BoundStates => k.owners # {}
                               /\ \A p, q \in k.owners : p = q

LEMMA OneSocketTurns ==
    ASSUME World, Move
    PROVE  \E s \in Sockets, k \in SocketType :
               socket' = [socket EXCEPT ![s] = k] /\ Turns(s, k)
<1> USE DEF World, Turns, SocketType, Bound, BoundStates, InTable
<1>1. PICK s \in Sockets : Drain(s) \/ \E p \in Procs : Bind(s, p) \/ Share(s, p) \/ Close(s, p)
    BY DEF Move
<1>2. socket[s] \in SocketType
    OBVIOUS
<1>3. ASSUME NEW st \in States, NEW owners \in SUBSET Procs, Set(s, st, owners),
             Turns(s, [st |-> st, at |-> socket[s].at, owners |-> owners])
      PROVE  \E k \in SocketType : socket' = [socket EXCEPT ![s] = k] /\ Turns(s, k)
  <2>1. /\ [st |-> st, at |-> socket[s].at, owners |-> owners] \in SocketType
        /\ socket' = [socket EXCEPT ![s] = [st |-> st, at |-> socket[s].at, owners |-> owners]]
      BY ONLY <1>2, <1>3 DEF SocketType, Set
  <2>2. ASSUME NEW k, k = [st |-> st, at |-> socket[s].at, owners |-> owners]
        PROVE  socket' = [socket EXCEPT ![s] = k] /\ Turns(s, k)
      BY ONLY <1>3, <2>1, <2>2
  <2> HIDE DEF SocketType, Turns
  <2> QED BY ONLY <2>1, <2>2
<1>4. CASE Drain(s)
  <2>1. PICK st \in {"gone", "fin", "time_wait"} :
            /\ Set(s, st, {})
            /\ socket[s].st # "unborn"
            /\ st \in {"fin", "time_wait"} => InTable(s)
      BY <1>2, <1>4 DEF Drain, States
  <2>2. Turns(s, [st |-> st, at |-> socket[s].at, owners |-> {}])
      BY <2>1
  <2>3. st \in States
      BY DEF States
  <2> QED BY <1>3, <2>1, <2>2, <2>3
<1>5. ASSUME NEW p \in Procs, Bind(s, p)
      PROVE  \E k \in SocketType : socket' = [socket EXCEPT ![s] = k] /\ Turns(s, k)
  <2>1. PICK st \in BoundStates, at \in Places :
            /\ socket[s].st = "unborn"
            /\ socket' = [socket EXCEPT ![s] = [st |-> st, at |-> at, owners |-> {p}]]
      BY <1>5 DEF Bind
  <2>2. [st |-> st, at |-> at, owners |-> {p}] \in SocketType
      BY DEF States
  <2> QED BY <2>1, <2>2
<1>6. ASSUME NEW p \in Procs, Share(s, p)
      PROVE  \E k \in SocketType : socket' = [socket EXCEPT ![s] = k] /\ Turns(s, k)
  <2>1. Turns(s, [st |-> socket[s].st, at |-> socket[s].at, owners |-> socket[s].owners \cup {p}])
      BY <1>2, <1>6 DEF Share
  <2> QED BY <1>2, <1>3, <1>6, <2>1 DEF Share
<1>7. ASSUME NEW p \in Procs, Close(s, p)
      PROVE  \E k \in SocketType : socket' = [socket EXCEPT ![s] = k] /\ Turns(s, k)
  <2>1. CASE platform # "windows"
    <3>1. Turns(s, [st |-> socket[s].st, at |-> socket[s].at, owners |-> socket[s].owners \ {p}])
        BY <1>2, <1>7, <2>1 DEF Close, Holds
    <3> QED BY <1>2, <1>3, <1>7, <2>1, <3>1 DEF Close
  <2>2. CASE platform = "windows" /\ socket[s].st = "listen"
    <3>1. Turns(s, [st |-> "gone", at |-> socket[s].at, owners |-> {}])
        BY <1>2, <2>2
    <3>2. "gone" \in States
        BY DEF States
    <3> QED BY <1>3, <1>7, <2>2, <3>1, <3>2 DEF Close
  <2>3. CASE platform = "windows" /\ socket[s].st # "listen"
    <3>1. Turns(s, [st |-> "fin", at |-> socket[s].at, owners |-> {p}])
        BY <1>2, <1>7, <2>3 DEF Close, Holds
    <3>2. "fin" \in States
        BY DEF States
    <3> QED BY <1>3, <1>7, <2>3, <3>1, <3>2 DEF Close
  <2> QED BY <2>1, <2>2, <2>3
<1> QED BY <1>1, <1>4, <1>5, <1>6, <1>7

(* What such a move leaves of what was known of a socket. *)
LEMMA MovesKeep ==
    ASSUME World, Move, UNCHANGED before
    PROVE  \A s \in Sockets :
               /\ socket[s].st # "unborn" => socket'[s].st # "unborn" /\ socket'[s].at = socket[s].at
               /\ socket[s].st # "unborn" /\ Bound(s)' => Bound(s) /\ socket'[s].st = socket[s].st
               /\ socket[s].st # "unborn" /\ InTable(s)' => InTable(s)
               /\ Settled(s)' => /\ Settled(s)
                                 /\ socket'[s].st = socket[s].st /\ socket'[s].at = socket[s].at
<1>1. PICK s \in Sockets, k \in SocketType : socket' = [socket EXCEPT ![s] = k] /\ Turns(s, k)
    BY OneSocketTurns
<1> QED BY <1>1 DEF World, Turns, Settled, Bound, InTable, BoundStates

LEMMA WorldMoves ==
    ASSUME World, SystemMoves
    PROVE  World'
<1> USE DEF World
<1>1. PICK s \in Sockets, k \in SocketType : socket' = [socket EXCEPT ![s] = k] /\ Turns(s, k)
    BY OneSocketTurns DEF SystemMoves
<1>2. /\ UNCHANGED <<before, platform>> /\ kept' = kept \cap Holdings'
      /\ ever' = ever \cup Holdings' /\ recent' = recent \cup Listed'
    BY DEF SystemMoves, Move, callVars
<1>3. socket' \in [Sockets -> SocketType] /\ socket \in [Sockets -> SocketType]
    BY <1>1 DEF SocketType
<1>4. \A t \in before : socket'[t].st # "unborn"
    BY <1>1, <1>3 DEF Turns
<1>5. \A h \in kept' : Bound(h[1])' /\ h[2] \in socket'[h[1]].owners
    BY <1>2 DEF Holdings, Holds
<1>6. ASSUME NEW t \in Sockets, NEW p \in socket'[t].owners
      PROVE  <<t, p>> \in ever'
  <2>1. CASE p \in socket[t].owners
      BY <1>2, <2>1
  <2>2. CASE p \notin socket[t].owners
    <3>1. Bound(t)'
        BY <1>1, <1>3, <2>2 DEF Turns, Bound, BoundStates
    <3>2. p \in Procs
        BY <1>3 DEF SocketType
    <3> QED BY <1>2, <3>1, <3>2 DEF Holdings, Holds
  <2> QED BY <2>1, <2>2
<1>7. \A t \in Sockets :
          /\ platform # "windows" /\ ~Bound(t)' => socket'[t].owners = {}
          /\ platform = "windows" => /\ Bound(t)' => socket'[t].owners # {}
                                     /\ \A p, q \in socket'[t].owners : p = q
    BY <1>1, <1>3 DEF Turns, Bound, BoundStates
<1> QED BY <1>2, <1>3, <1>4, <1>5, <1>6, <1>7 DEF SocketType

(* Steps of portpin move no socket. *)
LEMMA WantedStays ==
    ASSUME UNCHANGED <<callVars, socket>>, NEW s
    PROVE  /\ AsRow(s)' = AsRow(s)
           /\ Settled(s)' <=> Settled(s)
           /\ Wanted(s)' <=> Wanted(s)
           /\ Bound(s)' <=> Bound(s)
BY DEF AsRow, Row, Wanted, Settled, Bound, Matches, MatchesAddress, callVars

LEMMA WantedMoves ==
    ASSUME World, SystemMoves, NEW s \in Sockets, Settled(s)'
    PROVE  /\ Settled(s) /\ AsRow(s)' = AsRow(s) /\ socket'[s].at = socket[s].at
           /\ Wanted(s)' => Wanted(s)
<1>1. Move /\ UNCHANGED callVars
    BY DEF SystemMoves
<1>2. Settled(s) /\ socket'[s].st = socket[s].st /\ socket'[s].at = socket[s].at
    BY <1>1, MovesKeep DEF callVars
<1>3. AsRow(s)' = AsRow(s)
    BY <1>2 DEF AsRow, Row
<1>4. (Matches(AsRow(s)))' => Matches(AsRow(s))
    BY <1>1, <1>3 DEF Matches, MatchesAddress, callVars
<1> QED BY <1>2, <1>3, <1>4 DEF Wanted

LEMMA WorldStays ==
    ASSUME World, UNCHANGED <<callVars, kept, ever, recent, platform, socket>>
    PROVE  World'
BY DEF World, callVars, Bound, Listed, InTable

LEMMA TableIs ==
    ASSUME World, NEW v6 \in BOOLEAN
    PROVE  /\ TableRows(TableOf(v6))
           /\ \A s \in Sockets : InTable(s) /\ socket[s].at.v6 = v6 => AsRow(s) \in TableOf(v6)
           /\ \A r \in TableOf(v6) :
                  r.sock \in Listed /\ r = AsRow(r.sock) /\ socket[r.sock].at.v6 = v6
<1>1. ASSUME NEW s \in Sockets PROVE AsRow(s) \in Rows
    BY DEF World, AsRow, Row, Rows
<1> QED BY <1>1 DEF TableRows, TableOf, AsRow, Row, Listed

-----------------------------------------------------------------------------

LEMMA LinuxMoves ==
    ASSUME World, LinuxInv, SystemMoves, UNCHANGED linuxVars, pc # "done"
    PROVE  LinuxInv'
<1>1. /\ UNCHANGED <<pc, rows, found, missed6, owner, scanning, unwalked, rereading>>
      /\ kept' \subseteq kept /\ ever \subseteq ever' /\ recent \subseteq recent'
    BY DEF SystemMoves, linuxVars
<1>2. \A s \in Sockets : Settled(s)' =>
          /\ Settled(s) /\ AsRow(s)' = AsRow(s) /\ socket'[s].at = socket[s].at
          /\ Wanted(s)' => Wanted(s)
    BY WantedMoves
<1>3. (TableRows(rows) => TableRows(rows)') /\ (TableRows(found) => TableRows(found)')
    BY <1>1 DEF TableRows, Rows
<1>4. Inodes(found)' = Inodes(found)
    BY <1>1 DEF Inodes, HasInode
<1>5. \A s \in Sockets : Wanted(s)' => Settled(s)'
    BY DEF Wanted
<1> QED BY <1>1, <1>2, <1>3, <1>4, <1>5 DEF LinuxInv, Awaited

(* The reading of a table. *)
LEMMA LinuxReads ==
    ASSUME World, LinuxInv, pc \in LinuxPCs, missed6 \in BOOLEAN,
           Netlink4 \/ Netlink6 \/ NetlinkSkips6 \/ NetlinkFails \/ Proc4 \/ Proc6
    PROVE  LinuxInv' /\ pc' \in LinuxPCs /\ UNCHANGED result
<1>1. /\ UNCHANGED <<linuxVars, callVars, historyVars, platform, socket, found, result>>
      /\ pc \in {"netlink4", "netlink6", "proc4", "proc6"}
      /\ pc' \in {"netlink6", "proc4", "proc6", "listing"}
      /\ missed6' \in {missed6, TRUE}
    BY DEF Netlink4, Netlink6, NetlinkSkips6, NetlinkFails, Proc4, Proc6, Proceed, Reading
<1>2. \A s \in Sockets : /\ AsRow(s)' = AsRow(s)
                         /\ Settled(s)' <=> Settled(s)
                         /\ Wanted(s)' <=> Wanted(s)
    BY <1>1, WantedStays
<1>3. TableRows(rows') /\ (rereading => \A r \in rows' : r.sock \in recent)
    BY TableIs DEF World, LinuxInv, TableRows, Netlink4, Netlink6, NetlinkSkips6, NetlinkFails,
       Proc4, Proc6
<1>4. \A s \in Sockets : Settled(s) => InTable(s) /\ socket[s].at.v6 \in BOOLEAN
    BY PlacesAssumption DEF World, Settled, InTable
<1>5. pc' \in {"netlink6", "proc6"} =>
          \A s \in Sockets : Settled(s) /\ ~socket[s].at.v6 => AsRow(s) \in rows'
    BY <1>4, TableIs DEF Netlink4, Netlink6, NetlinkSkips6, NetlinkFails, Proc4, Proc6, Proceed
<1>6. pc' = "listing" =>
          \A s \in Sockets : Settled(s) /\ (missed6' => ~socket[s].at.v6) => AsRow(s) \in rows'
    BY <1>4, TableIs
    DEF LinuxInv, Netlink4, Netlink6, NetlinkSkips6, NetlinkFails, Proc4, Proc6, Proceed
<1>7. TableRows(rows)' /\ TableRows(found)'
    BY <1>1, <1>3 DEF LinuxInv, TableRows, Rows
<1>8. Inodes(found)' = Inodes(found)
    BY <1>1 DEF Inodes, HasInode
<1>9. rereading /\ ~missed6' => \A s \in Sockets : Wanted(s) => AsRow(s) \in found
  <2>1. ~missed6' => ~missed6
      BY <1>1
  <2>2. rereading /\ ~missed6 => \A s \in Sockets : Wanted(s) => AsRow(s) \in found
      BY ONLY LinuxInv DEF LinuxInv
  <2> QED BY ONLY <2>1, <2>2
<1>10. /\ UNCHANGED <<owner, rereading, found, kept, ever, recent>>
       /\ pc' \in LinuxPCs \ {"walk"} /\ pc # "walk"
    BY <1>1 DEF linuxVars, historyVars, LinuxPCs
<1>11. rereading => \A h \in kept : h[2] \in Visible /\ h[1] \in Inodes(found) => owner[h[1]] # 0
    BY <1>10 DEF LinuxInv
<1>12. /\ owner' \in [Sockets -> Visible \cup {0}]
       /\ \A s \in Sockets : owner'[s] # 0 => <<s, owner'[s]>> \in ever'
       /\ rereading' => pc' \in LinuxPCs \ {"walk"}
    BY <1>10 DEF LinuxInv
<1>13. (pc' = "walk" \/ rereading') /\ ~missed6' => \A s \in Sockets : Wanted(s)' => AsRow(s)' \in found'
    BY <1>1, <1>2, <1>9, <1>10
<1>14. pc' = "walk" \/ rereading' =>
           \A h \in kept' : h[2] \in Visible /\ h[1] \in Inodes(found)' => owner'[h[1]] # 0
    BY <1>8, <1>10, <1>11
<1>15. /\ rereading' => \A r \in rows' : r.sock \in recent'
       /\ pc' \in {"netlink6", "proc6"} =>
              \A s \in Sockets : Settled(s)' /\ ~socket'[s].at.v6 => AsRow(s)' \in rows'
       /\ pc' = "listing" =>
              \A s \in Sockets : Settled(s)' /\ (missed6' => ~socket'[s].at.v6) => AsRow(s)' \in rows'
    BY <1>1, <1>2, <1>3, <1>5, <1>6, <1>10
<1>16. LinuxInv'
    BY ONLY <1>7, <1>12, <1>13, <1>14, <1>15 DEF LinuxInv
<1> QED BY <1>1, <1>10, <1>16

-----------------------------------------------------------------------------

(***************************************************************************)
(* What the answer is made of on Linux: the bindings fs are those of bs,   *)
(* with the owners the walk found.                                         *)
(***************************************************************************)
Alike(b, f) ==
    /\ f.sock = b.sock /\ f.st = b.st /\ f.at = b.at
    /\ f.pid = IF HasInode(b) THEN owner[b.sock] ELSE 0

OwnersAttached(bs, fs) ==
    /\ \A b \in bs : \E f \in fs : Alike(b, f)
    /\ \A f \in fs : \E b \in bs : Alike(b, f)

LEMMA WithOwnersAttaches ==
    ASSUME NEW bs, TableRows(bs)
    PROVE  OwnersAttached(bs, WithOwners(bs))
<1> DEFINE with(b) == [b EXCEPT !.pid = IF HasInode(b) THEN owner[b.sock] ELSE 0]
<1>1. ASSUME NEW b \in bs
      PROVE  /\ with(b).sock = b.sock /\ with(b).st = b.st /\ with(b).at = b.at
             /\ with(b).pid = IF HasInode(b) THEN owner[b.sock] ELSE 0
    BY DEF TableRows, Rows
<1>2. WithOwners(bs) = {with(b) : b \in bs}
    BY Zenon DEF WithOwners
<1> HIDE DEF with
<1>3. \A b \in bs : Alike(b, with(b))
    BY <1>1 DEF Alike
<1> QED BY <1>2, <1>3 DEF OwnersAttached

(* A row of a socket that is bound is one with an inode. *)
LEMMA BoundHasInode ==
    ASSUME NEW s \in Sockets, Bound(s)
    PROVE  HasInode(AsRow(s)) /\ AsRow(s).sock = s /\ AsRow(s).st \in BoundStates
BY DEF Bound, HasInode, AsRow, Row, BoundStates

LEMMA LinuxAnswers ==
    ASSUME World, LinuxInv, platform = "linux", Outside,
           NEW bs, NEW fs, Return(fs), OwnersAttached(bs, fs),
           ~missed6 => \A s \in Sockets : Wanted(s) => AsRow(s) \in bs,
           \A h \in kept : h[2] \in Visible /\ h[1] \in Inodes(bs) => owner[h[1]] # 0,
           \A b \in bs : b.sock \in Sockets,
           \A b \in bs : HasInode(b) /\ owner[b.sock] = 0 => b.sock \in recent
    PROVE  Answer'
<1>1. /\ found' = fs /\ result' = "ok"
      /\ UNCHANGED <<callVars, historyVars, platform, socket, moves, missed6>>
    BY DEF Return, Outside
<1>2. \A s \in Sockets : /\ AsRow(s)' = AsRow(s)
                         /\ Wanted(s)' <=> Wanted(s)
                         /\ (Matches(AsRow(s)))' <=> Matches(AsRow(s))
    BY <1>1, WantedStays DEF Matches, MatchesAddress, callVars
<1>3. Complete'
  <2> SUFFICES ASSUME ~missed6', NEW s \in Sockets, Wanted(s)'
               PROVE  \E b \in found' : b.st \in BoundStates
      BY DEF Complete
  <2>1. AsRow(s) \in bs /\ AsRow(s).st \in BoundStates
      BY <1>1, <1>2, BoundHasInode DEF Wanted, Settled
  <2> QED BY <1>1, <2>1 DEF OwnersAttached, Alike
<1>4. \A f \in Owned(fs) : <<f.sock, f.pid>> \in ever
    BY DEF Owned, OwnersAttached, Alike, LinuxInv
<1>5. ASSUME NEW s \in Sockets, NEW p \in Procs, SoleHolder(s, p), Matches(AsRow(s)), ~missed6
      PROVE  \E f \in fs : f.at = socket[s].at /\ f.pid = p
  <2>1. <<s, p>> \in kept /\ p \in Visible /\ \A q \in Visible \ {p} : <<s, q>> \notin ever
      BY <1>5 DEF SoleHolder
  <2>2. Settled(s) /\ Wanted(s)
      BY <1>5, <2>1 DEF World, Settled, Wanted
  <2>3. AsRow(s) \in bs /\ s \in Inodes(bs) /\ HasInode(AsRow(s))
      BY <1>5, <2>2, BoundHasInode DEF Settled, Inodes
  <2>4. owner[s] # 0
      BY <2>1, <2>3
  <2>5. owner[s] = p
      BY <2>1, <2>4 DEF LinuxInv
  <2>6. AsRow(s).at = socket[s].at /\ AsRow(s).sock = s
      BY DEF AsRow, Row
  <2> QED BY <2>3, <2>5, <2>6 DEF OwnersAttached, Alike
<1>6. OwnersTrue'
  <2>1. \A s \in Sockets, p \in Procs : SoleHolder(s, p)' <=> SoleHolder(s, p)
      BY <1>1 DEF SoleHolder, historyVars
  <2>2. \A b \in Owned(found)' : <<b.sock, b.pid>> \in ever'
      BY <1>1, <1>4 DEF Owned, historyVars
  <2>3. ASSUME NEW s \in Sockets, NEW p \in Procs, SoleHolder(s, p)', (Matches(AsRow(s)))', ~missed6'
        PROVE  \E b \in found' : b.at = socket'[s].at /\ b.pid = p
      BY <1>1, <1>2, <1>5, <2>1, <2>3
  <2> QED BY <2>2, <2>3 DEF OwnersTrue
<1>7. NoFalseBarrier'
  <2> SUFFICES ASSUME NEW f \in found', f.pid = 0, f.st \in BoundStates
               PROVE  f.sock \in recent' /\ \A p \in Visible : <<f.sock, p>> \notin kept'
      BY DEF NoFalseBarrier, BoundStates
  <2>1. PICK b \in bs : Alike(b, f)
      BY <1>1 DEF OwnersAttached
  <2>2. HasInode(b) /\ owner[b.sock] = 0 /\ b.sock = f.sock
      BY <2>1 DEF Alike, HasInode, BoundStates
  <2>3. b.sock \in Inodes(bs)
      BY <2>2 DEF Inodes
  <2> QED BY <1>1, <2>2, <2>3 DEF historyVars
<1>8. UnsettledMeansGrowing'
    BY <1>1 DEF UnsettledMeansGrowing
<1> QED BY <1>3, <1>6, <1>7, <1>8 DEF Answer

(* Past its return a call knows nothing. *)
LEMMA LinuxForgets ==
    ASSUME LinuxLocalsGo, pc' = "done"
    PROVE  LinuxInv'
BY DEF LinuxLocalsGo, LinuxInv, LinuxPCs

LEMMA LinuxReturns ==
    ASSUME World, LinuxInv, platform = "linux", Outside,
           NEW bs, Return(WithOwners(bs)), bs \subseteq found, TableRows(found),
           ~missed6 => \A s \in Sockets : Wanted(s) => AsRow(s) \in bs,
           \A h \in kept : h[2] \in Visible /\ h[1] \in Inodes(found) => owner[h[1]] # 0,
           \A b \in bs : HasInode(b) /\ owner[b.sock] = 0 => b.sock \in recent
    PROVE  Answer'
<1>1. TableRows(bs) /\ Inodes(bs) \subseteq Inodes(found) /\ \A b \in bs : b.sock \in Sockets
    BY DEF TableRows, Inodes, Rows
<1>2. OwnersAttached(bs, WithOwners(bs))
    BY <1>1, WithOwnersAttaches
<1> QED BY ONLY <1>1, <1>2, LinuxAnswers, World, LinuxInv, platform = "linux", Outside,
        Return(WithOwners(bs)),
        ~missed6 => \A s \in Sockets : Wanted(s) => AsRow(s) \in bs,
        \A h \in kept : h[2] \in Visible /\ h[1] \in Inodes(found) => owner[h[1]] # 0,
        \A b \in bs : HasInode(b) /\ owner[b.sock] = 0 => b.sock \in recent

LEMMA FailsAnswer ==
    ASSUME pc' = "done", result' = "error"
    PROVE  Answer'
BY DEF Answer, Complete, OwnersTrue, NoFalseBarrier, UnsettledMeansGrowing, Answered

LEMMA CandidatesKeep ==
    ASSUME World, LinuxInv, platform = "linux", Candidates
    PROVE  LinuxInv' /\ (pc' = "done" => Answer')
<1> DEFINE cands == Matching(rows)
<1>1. /\ pc = "listing" /\ ~rereading /\ Outside /\ TableRows(cands)
      /\ ~missed6 => \A s \in Sockets : Wanted(s) => AsRow(s) \in cands
    BY DEF Candidates, LinuxInv, LinuxPCs, TableRows, Matching, Wanted
<1>2. CASE Inodes(cands) = {}
  <2>1. Return(cands) /\ LinuxLocalsGo
      BY <1>2 DEF Candidates
  <2>2. \A b \in cands : ~HasInode(b) /\ b.sock \in Sockets /\ b.pid = 0
      BY <1>1, <1>2 DEF Inodes, TableRows, Rows
  <2>3. OwnersAttached(cands, cands)
      BY <2>2 DEF OwnersAttached, Alike
  <2> HIDE DEF cands
  <2>4. Answer'
      BY ONLY World, LinuxInv, platform = "linux", <1>1, <1>2, <2>1, <2>2, <2>3, LinuxAnswers
  <2> QED BY <2>1, <2>4, LinuxForgets DEF Return
<1>3. CASE Inodes(cands) # {}
  <2>1. /\ scanning' = Inodes(cands) /\ unwalked' = Visible /\ pc' = "walk"
        /\ found' = cands /\ rows' = {} /\ UNCHANGED <<owner, rereading>>
        /\ UNCHANGED <<callVars, historyVars, platform, socket, missed6>>
      BY <1>3 DEF Candidates, Walk, Outside
  <2>2. \A s \in Sockets : AsRow(s)' = AsRow(s) /\ (Wanted(s)' <=> Wanted(s))
      BY <2>1, WantedStays
  <2>3. TableRows(rows)' /\ TableRows(found)'
      BY <1>1, <2>1 DEF TableRows, Rows
  <2>4. Inodes(found)' = Inodes(cands)
      BY <2>1 DEF Inodes, HasInode
  <2> HIDE DEF cands
  <2>5. /\ owner' \in [Sockets -> Visible \cup {0}]
        /\ \A s \in Sockets : owner'[s] # 0 => <<s, owner'[s]>> \in ever'
      BY <2>1 DEF LinuxInv, historyVars
  <2>6. ~missed6' => \A s \in Sockets : Wanted(s)' => AsRow(s)' \in found'
      BY ONLY <1>1, <2>1, <2>2
  <2> QED BY ONLY <1>1, <2>1, <2>3, <2>4, <2>5, <2>6 DEF LinuxInv, Awaited
<1> QED BY <1>2, <1>3

LEMMA LiveInodesKeep ==
    ASSUME World, LinuxInv, platform = "linux", LiveInodes
    PROVE  LinuxInv' /\ pc' = "done" /\ Answer'
<1> DEFINE bs == Kept(Inodes(rows))
<1>1. /\ pc = "listing" /\ rereading /\ Outside /\ Return(WithOwners(bs)) /\ LinuxLocalsGo
      /\ TableRows(found) /\ bs \subseteq found
    BY DEF LiveInodes, LinuxInv, LinuxPCs, Kept
<1>2. ASSUME ~missed6, NEW s \in Sockets, Wanted(s)
      PROVE  AsRow(s) \in bs
  <2>1. AsRow(s) \in found /\ AsRow(s) \in rows
      BY <1>1, <1>2 DEF LinuxInv, Wanted
  <2>2. s \in Inodes(rows)
      BY <1>2, <2>1, BoundHasInode DEF Wanted, Settled, Inodes
  <2> QED BY <1>2, <2>1, <2>2, BoundHasInode DEF Kept, Wanted, Settled
<1>3. \A h \in kept : h[2] \in Visible /\ h[1] \in Inodes(found) => owner[h[1]] # 0
    BY <1>1 DEF LinuxInv
<1>4. \A b \in bs : HasInode(b) /\ owner[b.sock] = 0 => b.sock \in recent
    BY <1>1 DEF LinuxInv, Kept, Inodes
<1> HIDE DEF bs
<1>5. Answer'
    BY <1>1, <1>2, <1>3, <1>4, LinuxReturns
<1> QED BY <1>1, <1>5, LinuxForgets DEF Return

LEMMA AllOwnedKeeps ==
    ASSUME World, LinuxInv, platform = "linux", AllOwned
    PROVE  LinuxInv' /\ pc' = "done" /\ Answer'
<1>1. /\ pc = "walk" /\ unwalked = {} /\ Outside /\ Return(WithOwners(found)) /\ LinuxLocalsGo
      /\ Ownerless = {} /\ TableRows(found)
    BY DEF AllOwned, LinuxInv, LinuxPCs
<1>2. ~missed6 => \A s \in Sockets : Wanted(s) => AsRow(s) \in found
    BY <1>1 DEF LinuxInv
<1>3. \A h \in kept : h[2] \in Visible /\ h[1] \in Inodes(found) => owner[h[1]] # 0
    BY <1>1 DEF LinuxInv, Awaited
<1>4. \A b \in found : HasInode(b) /\ owner[b.sock] = 0 => b.sock \in recent
    BY <1>1 DEF Ownerless, Inodes
<1>5. Answer'
    BY <1>1, <1>2, <1>3, <1>4, LinuxReturns
<1> QED BY <1>1, <1>5, LinuxForgets DEF Return

LEMMA WalkProcessKeeps ==
    ASSUME World, LinuxInv, NEW p \in Visible, WalkProcess(p)
    PROVE  LinuxInv' /\ UNCHANGED pc
<1>1. /\ pc = "walk" /\ unwalked' = unwalked \ {p}
      /\ \A s \in Sockets : owner'[s] = IF s \in scanning /\ p \in socket[s].owners
                                        THEN p ELSE owner[s]
      /\ owner' \in [Sockets -> Visible \cup {0}]
      /\ UNCHANGED <<scanning, rereading, pc, rows, found, missed6, callVars, historyVars, socket>>
    BY DEF WalkProcess, resolverVars, LinuxInv
<1>2. \A s \in Sockets : AsRow(s)' = AsRow(s) /\ (Wanted(s)' <=> Wanted(s))
    BY <1>1, WantedStays
<1>3. TableRows(rows)' /\ TableRows(found)' /\ Inodes(found)' = Inodes(found)
    BY <1>1 DEF LinuxInv, LinuxPCs, TableRows, Rows, Inodes, HasInode
<1>4. \A s \in Sockets : owner'[s] # 0 => <<s, owner'[s]>> \in ever'
    BY <1>1 DEF LinuxInv, World, historyVars
<1>5. ASSUME NEW h \in kept, h[2] \in Visible, h[1] \in Inodes(found)
      PROVE  owner'[h[1]] # 0 \/ (h[1] \in scanning /\ h[2] \in unwalked')
  <2>1. h[1] \in Sockets /\ h[2] \in socket[h[1]].owners /\ p # 0 /\ 0 \notin Visible
      BY SocketsAssumption DEF World
  <2>2. owner[h[1]] # 0 \/ (h[1] \in scanning /\ h[2] \in unwalked)
      BY <1>1, <1>5 DEF LinuxInv, Awaited
  <2> QED BY <1>1, <2>1, <2>2
<1>6. ~missed6' => \A s \in Sockets : Wanted(s)' => AsRow(s)' \in found'
    BY <1>1, <1>2 DEF LinuxInv
<1>7. ~rereading'
    BY <1>1 DEF LinuxInv
<1>8. \A h \in kept' : h[2] \in Visible /\ h[1] \in Inodes(found)'
          => owner'[h[1]] # 0 \/ Awaited(h)'
    BY <1>1, <1>3, <1>5 DEF Awaited, historyVars
<1> QED BY <1>1, <1>3, <1>4, <1>6, <1>7, <1>8 DEF LinuxInv

LEMMA RetryKeeps ==
    ASSUME World, LinuxInv, Retry
    PROVE  LinuxInv' /\ UNCHANGED pc
<1>1. /\ pc = "walk" /\ pc' = "walk" /\ scanning' = Ownerless /\ unwalked' = Visible
      /\ UNCHANGED <<owner, rereading, rows, found, missed6, callVars, historyVars, socket>>
    BY DEF Retry, Walk, Outside
<1>2. \A s \in Sockets : AsRow(s)' = AsRow(s) /\ (Wanted(s)' <=> Wanted(s))
    BY <1>1, WantedStays
<1>3. TableRows(rows)' /\ TableRows(found)' /\ Inodes(found)' = Inodes(found)
    BY <1>1 DEF LinuxInv, LinuxPCs, TableRows, Rows, Inodes, HasInode
<1>4. \A h \in kept' : h[2] \in Visible /\ h[1] \in Inodes(found)'
          => owner'[h[1]] # 0 \/ Awaited(h)'
    BY <1>1, <1>3 DEF Awaited, Ownerless, historyVars
<1>5. ~missed6' => \A s \in Sockets : Wanted(s)' => AsRow(s)' \in found'
    BY <1>1, <1>2 DEF LinuxInv
<1>6. /\ owner' \in [Sockets -> Visible \cup {0}]
      /\ \A s \in Sockets : owner'[s] # 0 => <<s, owner'[s]>> \in ever'
      /\ ~rereading'
    BY <1>1 DEF LinuxInv, historyVars
<1> QED BY ONLY <1>1, <1>3, <1>4, <1>5, <1>6 DEF LinuxInv

LEMMA RereadKeeps ==
    ASSUME World, LinuxInv, Reread
    PROVE  LinuxInv' /\ World' /\ pc' = "netlink4" /\ UNCHANGED result
<1>1. /\ pc = "walk" /\ pc' = "netlink4" /\ unwalked = {} /\ rereading' /\ rows' = {}
      /\ recent' = Listed
      /\ UNCHANGED <<owner, found, result, missed6, callVars, kept, ever, socket, platform>>
    BY DEF Reread, Proceed
<1>2. \A s \in Sockets : AsRow(s)' = AsRow(s) /\ (Wanted(s)' <=> Wanted(s))
    BY <1>1, WantedStays
<1>3. TableRows(rows)' /\ TableRows(found)' /\ Inodes(found)' = Inodes(found)
    BY <1>1 DEF LinuxInv, LinuxPCs, TableRows, Rows, Inodes, HasInode
<1>4. \A h \in kept' : h[2] \in Visible /\ h[1] \in Inodes(found)' => owner'[h[1]] # 0
    BY <1>1, <1>3 DEF LinuxInv, Awaited
<1>5. ~missed6' => \A s \in Sockets : Wanted(s)' => AsRow(s)' \in found'
    BY <1>1, <1>2 DEF LinuxInv
<1>6. /\ owner' \in [Sockets -> Visible \cup {0}]
      /\ \A s \in Sockets : owner'[s] # 0 => <<s, owner'[s]>> \in ever'
      /\ pc' \in LinuxPCs \ {"walk"} /\ \A r \in rows' : r.sock \in recent'
    BY <1>1 DEF LinuxInv, LinuxPCs
<1>7. World'
    BY <1>1 DEF World, callVars, Bound, Listed, InTable
<1>8. LinuxInv'
    BY ONLY <1>1, <1>3, <1>4, <1>5, <1>6 DEF LinuxInv
<1> QED BY <1>1, <1>7, <1>8

-----------------------------------------------------------------------------

(***************************************************************************)
(* Rows that are one to a socket can be counted by their sockets.          *)
(***************************************************************************)
LEMMA OneToOne ==
    ASSUME NEW rs, \A r \in rs : r.sock \in Sockets, \A q, r \in rs : q.sock = r.sock => q = r
    PROVE  IsFiniteSet(rs) /\ Cardinality(rs) = Cardinality({r.sock : r \in rs})
<1> DEFINE T == {r.sock : r \in rs}
           g == [s \in T |-> CHOOSE r \in rs : r.sock = s]
<1>1. IsFiniteSet(T)
    BY SocketsAssumption, FS_Subset
<1>2. \A s \in T : g[s] \in rs /\ g[s].sock = s
    OBVIOUS
<1>3. g \in [T -> rs]
    BY <1>2
<1>4. \A s, t \in T : g[s] = g[t] => s = t
    BY <1>2
<1>5. ASSUME NEW r \in rs PROVE \E s \in T : g[s] = r
  <2>1. r.sock \in T
      OBVIOUS
  <2>2. g[r.sock] \in rs /\ g[r.sock].sock = r.sock
      BY <1>2, <2>1
  <2>3. g[r.sock] = r
      BY <2>2
  <2> QED BY <2>1, <2>3
<1> HIDE DEF g, T
<1>6. g \in Bijection(T, rs)
    BY <1>3, <1>4, <1>5 DEF Bijection, Injection, IsInjective, Surjection
<1>7. ExistsBijection(T, rs)
    BY <1>6 DEF ExistsBijection
<1> QED BY <1>1, <1>7, FS_Bijection DEF T

(***************************************************************************)
(* Tally counts; what has no row with a key has a tally of 0 of it.        *)
(***************************************************************************)
Same(rs, k) == {x \in rs : Key(x) = k}

LEMMA TallyCounts ==
    ASSUME NEW rs, IsFiniteSet(rs), NEW k
    PROVE  /\ Tally(rs, k) \in Nat
           /\ Tally(rs, k) = 0 <=> \A x \in rs : Key(x) # k
           /\ \A qs : qs \subseteq rs => IsFiniteSet(qs) /\ Tally(qs, k) <= Tally(rs, k)
<1>1. Tally(rs, k) = Cardinality(Same(rs, k)) /\ Same(rs, k) \subseteq rs
    BY DEF Tally, Same
<1>2. IsFiniteSet(Same(rs, k)) /\ Cardinality(Same(rs, k)) \in Nat
    BY <1>1, FS_Subset, FS_CardinalityType
<1>3. Cardinality(Same(rs, k)) = 0 <=> Same(rs, k) = {}
    BY <1>2, FS_EmptySet
<1>4. Same(rs, k) = {} <=> \A x \in rs : Key(x) # k
    BY DEF Same
<1>5. ASSUME NEW qs, qs \subseteq rs
      PROVE  IsFiniteSet(qs) /\ Tally(qs, k) <= Tally(rs, k)
  <2>1. Same(qs, k) \in SUBSET Same(rs, k) /\ Tally(qs, k) = Cardinality(Same(qs, k))
      BY <1>5 DEF Same, Tally
  <2> QED BY <1>1, <1>2, <1>5, <2>1, FS_Subset
<1> QED BY <1>1, <1>2, <1>3, <1>4, <1>5

(* The rows of a table up to r; r is one of them. *)
UpTo(table, r) == {x \in table : x.sock <= r.sock}

LEMMA Ranks ==
    ASSUME NEW table, IsFiniteSet(table), \A x \in table : x.sock \in Nat, NEW r \in table
    PROVE  /\ r \in UpTo(table, r) /\ UpTo(table, r) \subseteq table
           /\ Tally(UpTo(table, r), Key(r)) \in Nat
           /\ Tally(UpTo(table, r), Key(r)) >= 1
<1>1. r \in UpTo(table, r) /\ UpTo(table, r) \subseteq table
    BY DEF UpTo
<1>2. IsFiniteSet(UpTo(table, r))
    BY <1>1, FS_Subset
<1> QED BY <1>1, <1>2, TallyCounts

(* A row is passed over only if a row with its key is owned. *)
LEMMA UnownedUnlessMatched ==
    ASSUME NEW table, IsFiniteSet(table), \A x \in table : x.sock \in Nat,
           NEW owned, IsFiniteSet(owned), NEW r \in table,
           r \notin UnownedRows(table, owned)
    PROVE  \E o \in owned : Key(o) = Key(r)
<1>1. ~(Tally(UpTo(table, r), Key(r)) > Tally(owned, Key(r)))
    BY DEF UnownedRows, UpTo
<1>2. Tally(owned, Key(r)) \in Nat /\ (Tally(owned, Key(r)) = 0 <=> \A o \in owned : Key(o) # Key(r))
    BY TallyCounts
<1> QED BY <1>1, <1>2, Ranks

(* A row that has its key to itself is passed over if any with it is owned. *)
LEMMA SingleIsMatched ==
    ASSUME NEW table, IsFiniteSet(table), \A x \in table : x.sock \in Nat,
           NEW owned, IsFiniteSet(owned), NEW r \in UnownedRows(table, owned),
           \A x \in table : Key(x) = Key(r) => x = r
    PROVE  \A o \in owned : Key(o) # Key(r)
<1>1. r \in table /\ Tally(UpTo(table, r), Key(r)) > Tally(owned, Key(r))
    BY DEF UnownedRows, UpTo
<1>2. Same(UpTo(table, r), Key(r)) = {r}
    BY <1>1, Ranks DEF Same
<1>3. Tally(UpTo(table, r), Key(r)) = 1
    BY <1>2, FS_Singleton DEF Tally, Same
<1>4. Tally(owned, Key(r)) \in Nat /\ (Tally(owned, Key(r)) = 0 <=> \A o \in owned : Key(o) # Key(r))
    BY TallyCounts
<1> QED BY <1>1, <1>3, <1>4

(***************************************************************************)
(* Where the fresh table has a row with a key, one with that key is left   *)
(* of the old one: of its rows with the key, the first is not among those  *)
(* without a fresh one, so that these are fewer, and the last is kept.     *)
(***************************************************************************)
LEMMA OneIsLeft ==
    ASSUME NEW table, IsFiniteSet(table), \A x \in table : x.sock \in Nat,
           \A q, x \in table : q.sock = x.sock => q = x,
           NEW fresh, IsFiniteSet(fresh), NEW r \in table,
           \E f \in fresh : Key(f) = Key(r)
    PROVE  \E b \in UnownedRows(table, UnownedRows(table, fresh)) : Key(b) = Key(r)
<1> DEFINE k == Key(r)
           gone == UnownedRows(table, fresh)
           socks == {x.sock : x \in Same(table, k)}
           rank(x) == Tally(UpTo(table, x), k)
<1>1. IsFiniteSet(gone) /\ gone \subseteq table /\ IsFiniteSet(Same(table, k)) /\ r \in Same(table, k)
    BY FS_Subset DEF UnownedRows, Same
<1>2. Tally(table, k) \in Nat /\ Tally(gone, k) \in Nat
    BY <1>1, TallyCounts
<1>3. Tally(gone, k) < Tally(table, k)
  <2>1. PICK x \in Same(table, k) : \A y \in Same(table, k) : x.sock <= y.sock
    <3>1. socks \subseteq Nat /\ socks # {}
        BY <1>1 DEF Same
    <3>2. Least(socks) \in socks /\ \A q \in socks : Least(socks) <= q
        BY <3>1, LeastIsIn
    <3>3. PICK x \in Same(table, k) : x.sock = Least(socks)
        BY <3>2
    <3>4. \A y \in Same(table, k) : y.sock \in socks
        OBVIOUS
    <3> HIDE DEF socks
    <3> QED BY <3>2, <3>3, <3>4
  <2>2. x \in table /\ Key(x) = k
      BY DEF Same
  <2>3. Same(UpTo(table, x), k) = {x}
      BY <2>1, <2>2 DEF Same, UpTo
  <2>4. Tally(UpTo(table, x), Key(x)) = 1
    <3>1. Cardinality({x}) = 1
        BY FS_Singleton
    <3>2. Tally(UpTo(table, x), k) = Cardinality(Same(UpTo(table, x), k))
        BY DEF Tally, Same
    <3>3. Tally(UpTo(table, x), k) = 1
        BY ONLY <2>3, <3>1, <3>2
    <3> QED BY ONLY <2>2, <3>3
  <2>5. Tally(fresh, k) \in Nat /\ Tally(fresh, k) # 0
      BY TallyCounts
  <2>6. x \notin gone
      BY <2>2, <2>4, <2>5 DEF UnownedRows, UpTo
  <2>7. Same(gone, k) \in SUBSET (Same(table, k) \ {x})
      BY <1>1, <2>6 DEF Same
  <2>8. /\ IsFiniteSet(Same(table, k) \ {x})
        /\ Cardinality(Same(table, k) \ {x}) = Cardinality(Same(table, k)) - 1
      BY <1>1, FS_RemoveElement
  <2>9. Cardinality(Same(gone, k)) <= Cardinality(Same(table, k)) - 1
      BY <2>7, <2>8, FS_Subset
  <2>10. Tally(gone, k) = Cardinality(Same(gone, k)) /\ Tally(table, k) = Cardinality(Same(table, k))
      BY DEF Tally, Same
  <2> QED BY <1>2, <2>9, <2>10
<1>4. PICK x \in Same(table, k) : \A y \in Same(table, k) : y.sock <= x.sock
  <2> DEFINE above == {Tally(table, k) - rank(y) : y \in Same(table, k)}
  <2>1. ASSUME NEW y \in Same(table, k)
        PROVE  rank(y) \in Nat /\ Tally(table, k) - rank(y) \in Nat
    <3>1. y \in table /\ Key(y) = k
        BY DEF Same
    <3>2. rank(y) \in Nat /\ UpTo(table, y) \subseteq table
        BY <3>1, Ranks
    <3>3. rank(y) <= Tally(table, k)
        BY <3>2, TallyCounts
    <3> QED BY <1>2, <3>2, <3>3
  <2>2. PICK x \in Same(table, k) :
            \A y \in Same(table, k) : Tally(table, k) - rank(x) <= Tally(table, k) - rank(y)
    <3>1. above \subseteq Nat /\ above # {}
        BY <1>1, <2>1
    <3>2. Least(above) \in above /\ \A q \in above : Least(above) <= q
        BY <3>1, LeastIsIn
    <3> HIDE DEF rank
    <3>3. PICK x \in Same(table, k) : Tally(table, k) - rank(x) = Least(above)
        BY <3>2
    <3>4. \A y \in Same(table, k) : Tally(table, k) - rank(y) \in above
        OBVIOUS
    <3> HIDE DEF above
    <3> QED BY <3>2, <3>3, <3>4
  <2>3. ASSUME NEW y \in Same(table, k), ~(y.sock <= x.sock)
        PROVE  FALSE
    <3>1. x \in table /\ y \in table /\ Key(x) = k /\ Key(y) = k /\ x.sock \in Nat /\ y.sock \in Nat
        BY DEF Same
    <3>2. Same(UpTo(table, x), k) \in SUBSET Same(UpTo(table, y), k)
        BY <2>3, <3>1 DEF Same, UpTo
    <3>3. y \in Same(UpTo(table, y), k) /\ y \notin Same(UpTo(table, x), k)
        BY <2>3, <3>1 DEF Same, UpTo
    <3>4. IsFiniteSet(Same(UpTo(table, y), k))
        BY FS_Subset DEF Same, UpTo
    <3>5. /\ rank(x) <= rank(y) /\ rank(x) # rank(y)
          /\ rank(x) \in Nat /\ rank(y) \in Nat
        BY <2>1, <3>2, <3>3, <3>4, FS_Subset DEF Tally, Same
    <3>6. Tally(table, k) - rank(x) <= Tally(table, k) - rank(y)
        BY <2>2
    <3> HIDE DEF rank, k
    <3> QED BY <1>2, <3>5, <3>6
  <2> QED BY <2>3
<1>5. x \in table /\ Key(x) = k
    BY DEF Same
<1>6. Same(UpTo(table, x), k) = Same(table, k)
    BY <1>4 DEF Same, UpTo
<1>7. Tally(UpTo(table, x), Key(x)) = Tally(table, k)
    BY <1>5, <1>6 DEF Tally, Same
<1>8. x \in UnownedRows(table, gone)
    BY <1>3, <1>5, <1>7 DEF UnownedRows, UpTo
<1> QED BY <1>5, <1>8

-----------------------------------------------------------------------------

(* What a key tells of a row: all that the filter asks for. *)
LEMMA KeyTells ==
    ASSUME NEW o \in Rows, NEW r \in Rows, Key(o) = Key(r)
    PROVE  /\ Matches(o) <=> Matches(r)
           /\ o.at.ip = r.at.ip
           /\ o.st = "listen" <=> r.st = "listen"
           /\ r.st # "listen" => o.sock = r.sock
<1>1. o.at.ip = r.at.ip /\ o.at.port = r.at.port
    BY DEF Key
<1>2. (IF o.st = "listen" THEN 0 ELSE o.sock) = (IF r.st = "listen" THEN 0 ELSE r.sock)
    BY DEF Key
<1>3. o.sock # 0 /\ r.sock # 0
    BY SocketsAssumption DEF Rows
<1>4. (o.st = "listen" <=> r.st = "listen") /\ (r.st # "listen" => o.sock = r.sock)
    BY <1>2, <1>3
<1>5. MatchesAddress(query.ip, o.at) <=> MatchesAddress(query.ip, r.at)
    BY <1>1 DEF MatchesAddress
<1> QED BY <1>1, <1>4, <1>5 DEF Matches

LEMMA OneToASocketIs ==
    ASSUME NEW rs, OneToASocket(rs)
    PROVE  /\ IsFiniteSet(rs)
           /\ \A x \in rs : x.sock \in Sockets /\ x.sock \in Nat
           /\ \A q, x \in rs : q.sock = x.sock => q = x
<1>1. /\ \A x \in rs : x.sock \in Sockets /\ x.sock \in Nat
      /\ \A q, x \in rs : q.sock = x.sock => q = x
    BY SocketsAssumption DEF OneToASocket, TableRows, Rows
<1> QED BY <1>1, OneToOne

(* A table lists the endpoints that are not shared under keys of their own. *)
LEMMA DistinctKeys ==
    ASSUME NEW rs, OneToASocket(rs), NEW b \in Rows, Distinct(b.sock),
           socket[b.sock].at = b.at, NEW x \in rs, Key(x) = Key(b)
    PROVE  x.sock = b.sock
<1>1. x \in Rows /\ socket[x.sock].st # "unborn" /\ socket[x.sock].at = x.at
    BY DEF OneToASocket, TableRows
<1>2. x.at.ip = b.at.ip /\ x.sock \in Sockets
    BY <1>1, KeyTells DEF Rows
<1> QED BY <1>1, <1>2 DEF Distinct

LEMMA BothIs ==
    ASSUME World
    PROVE  /\ OneToASocket(Both)
           /\ \A s \in Sockets : InTable(s) => AsRow(s) \in Both
           /\ \A r \in Both : r.sock \in Listed
<1>1. \A r \in Both : r.sock \in Listed /\ r = AsRow(r.sock)
    BY TableIs DEF Both
<1>2. TableRows(Both)
    BY TableIs DEF Both, TableRows
<1>3. \A r \in Both : socket[r.sock].st # "unborn" /\ socket[r.sock].at = r.at
    BY <1>1 DEF Listed, InTable, Bound, AsRow, Row
<1>4. \A s \in Sockets : InTable(s) => AsRow(s) \in Both
  <2> SUFFICES ASSUME NEW s \in Sockets, InTable(s) PROVE AsRow(s) \in Both
      OBVIOUS
  <2>1. socket[s].at.v6 \in BOOLEAN
      BY PlacesAssumption DEF World
  <2>2. AsRow(s) \in TableOf(socket[s].at.v6)
      BY <2>1, TableIs
  <2> QED BY <2>1, <2>2 DEF Both
<1> QED BY <1>1, <1>2, <1>3, <1>4 DEF OneToASocket

LEMMA DarwinAnswers ==
    ASSUME World, OpenFiles, platform = "darwin", pc \in DarwinPCs, unlisted = {},
           UNCHANGED <<callVars, historyVars, platform, socket, moves, missed6>>,
           NEW bs, Return(Matching(opened) \cup bs), TableRows(bs),
           \A s \in Sockets : Wanted(s) => \E b \in Matching(opened) \cup bs : b.st \in BoundStates,
           \A b \in bs : b.st \in BoundStates /\ Distinct(b.sock) =>
               b.sock \in recent /\ \A p \in Visible : <<b.sock, p>> \notin kept
    PROVE  Answer'
<1>1. found' = Matching(opened) \cup bs /\ result' = "ok"
    BY DEF Return
<1>2. \A s \in Sockets : /\ AsRow(s)' = AsRow(s)
                         /\ Wanted(s)' <=> Wanted(s)
                         /\ (Matches(AsRow(s)))' <=> Matches(AsRow(s))
    BY WantedStays DEF Matches, MatchesAddress, callVars
<1>3. Complete'
    BY <1>1, <1>2 DEF Complete
<1>4. /\ \A b \in bs : b.pid = 0
      /\ \A b \in Matching(opened) : b \in opened /\ b.pid # 0 /\ <<b.sock, b.pid>> \in ever
    BY SocketsAssumption DEF TableRows, Matching, OpenFiles
<1>5. ASSUME NEW s \in Sockets, NEW p \in Procs, SoleHolder(s, p), Matches(AsRow(s))
      PROVE  \E f \in Matching(opened) : f.at = socket[s].at /\ f.pid = p
  <2>1. <<s, p>> \in kept /\ p \in Visible
      BY <1>5 DEF SoleHolder
  <2>2. Row(s, p) \in opened
      BY <2>1 DEF OpenFiles, DarwinPCs
  <2>3. Matches(Row(s, p)) /\ Row(s, p).at = socket[s].at /\ Row(s, p).pid = p
      BY <1>5 DEF Matches, AsRow, Row
  <2> QED BY <2>2, <2>3 DEF Matching
<1>6. OwnersTrue'
  <2>1. \A s \in Sockets, p \in Procs : SoleHolder(s, p)' <=> SoleHolder(s, p)
      BY DEF SoleHolder, historyVars
  <2>2. \A b \in Owned(found)' : <<b.sock, b.pid>> \in ever'
      BY <1>1, <1>4 DEF Owned, historyVars
  <2>3. ASSUME NEW s \in Sockets, NEW p \in Procs, SoleHolder(s, p)', (Matches(AsRow(s)))'
        PROVE  \E b \in found' : b.at = socket'[s].at /\ b.pid = p
      BY <1>1, <1>2, <1>5, <2>1, <2>3
  <2> QED BY <2>2, <2>3 DEF OwnersTrue
<1>7. NoFalseBarrier'
  <2> SUFFICES ASSUME NEW f \in found', f.pid = 0, f.st \in BoundStates, Distinct(f.sock)'
               PROVE  f.sock \in recent' /\ \A p \in Visible : <<f.sock, p>> \notin kept'
      BY DEF NoFalseBarrier, BoundStates
  <2>1. f \in bs /\ Distinct(f.sock)
      BY <1>1, <1>4 DEF Distinct
  <2> QED BY <2>1 DEF historyVars
<1>8. UnsettledMeansGrowing'
    BY <1>1 DEF UnsettledMeansGrowing
<1> QED BY <1>3, <1>6, <1>7, <1>8 DEF Answer

(* Past its return a call knows nothing. *)
LEMMA DarwinForgets ==
    ASSUME DarwinLocalsGo, pc' = "done"
    PROVE  DarwinInv'
BY FS_EmptySet DEF DarwinLocalsGo, DarwinInv, OpenFiles, OneToASocket, TableRows

(* An orphan is missing, or accounted for by a row of lsof. *)
LEMMA OrphansSeenHave ==
    ASSUME World, DarwinInv, pc = "lsof", NEW s \in Sockets, Wanted(s)
    PROVE  AsRow(s) \in OrphansSeen \/ \E o \in opened : Key(o) = Key(AsRow(s)) /\ Matches(o)
<1>1. AsRow(s) \in rows /\ Matches(AsRow(s)) /\ OneToASocket(rows) /\ IsFiniteSet(opened)
      /\ opened \subseteq Rows
    BY DEF DarwinInv, Wanted, OpenFiles
<1>2. AsRow(s) \in Rows
    BY <1>1 DEF OneToASocket, TableRows
<1>3. CASE AsRow(s) \in UnownedRows(rows, opened)
    BY <1>1, <1>3 DEF OrphansSeen, Matching
<1>4. CASE AsRow(s) \notin UnownedRows(rows, opened)
  <2>1. PICK o \in opened : Key(o) = Key(AsRow(s))
      BY <1>1, <1>4, OneToASocketIs, UnownedUnlessMatched
  <2>2. Matches(o)
      BY <1>1, <1>2, <2>1, KeyTells
  <2> QED BY <2>1, <2>2
<1> QED BY <1>3, <1>4

LEMMA OrphansSeenIs ==
    ASSUME OneToASocket(rows)
    PROVE  OneToASocket(OrphansSeen)
<1>1. OrphansSeen \subseteq rows
    BY DEF OrphansSeen, Matching, UnownedRows
<1> QED BY <1>1 DEF OneToASocket, TableRows

LEMMA CollectKeeps ==
    ASSUME World, DarwinInv, platform = "darwin", Collect
    PROVE  DarwinInv' /\ pc' = "done" /\ Answer'
<1>1. /\ pc = "lsof" /\ unlisted = {} /\ AllTimeWait(OrphansSeen)
      /\ Return(Matching(opened) \cup OrphansSeen) /\ DarwinLocalsGo
      /\ UNCHANGED <<callVars, historyVars, platform, socket, moves, missed6>>
    BY DEF Collect
<1>2. OpenFiles /\ TableRows(OrphansSeen) /\ pc \in DarwinPCs
    BY <1>1, OrphansSeenIs DEF DarwinInv, OneToASocket, DarwinPCs
<1>3. \A b \in OrphansSeen : b.st \notin BoundStates
    BY <1>1 DEF AllTimeWait, BoundStates
<1>4. ASSUME NEW s \in Sockets, Wanted(s)
      PROVE  \E b \in Matching(opened) \cup OrphansSeen : b.st \in BoundStates
  <2>1. AsRow(s).st \in BoundStates
      BY <1>4, BoundHasInode DEF Wanted, Settled
  <2>2. PICK o \in opened : Matches(o)
      BY <1>1, <1>3, <1>4, <2>1, OrphansSeenHave
  <2>3. o.st \in BoundStates /\ o \in Matching(opened)
      BY <1>2, <2>2 DEF OpenFiles, Matching
  <2> QED BY <2>3
<1>5. Answer'
    BY <1>1, <1>2, <1>3, <1>4, DarwinAnswers
<1> QED BY <1>1, <1>5, DarwinForgets DEF Return

(* With a key of its own an orphan is nobody's that lsof could look at. *)
LEMMA OrphansAreNobodys ==
    ASSUME World, DarwinInv, pc = "lsof", unlisted = {}, NEW b \in OrphansSeen,
           b.st \in BoundStates, Distinct(b.sock), NEW p \in Visible
    PROVE  <<b.sock, p>> \notin kept
<1> SUFFICES ASSUME <<b.sock, p>> \in kept PROVE FALSE
    OBVIOUS
<1>1. /\ OneToASocket(rows) /\ b \in UnownedRows(rows, opened) /\ b \in rows
      /\ IsFiniteSet(opened)
    BY DEF DarwinInv, OpenFiles, OrphansSeen, Matching, UnownedRows
<1>2. b \in Rows /\ b.sock \in Sockets /\ socket[b.sock].at = b.at
    BY <1>1 DEF OneToASocket, TableRows, Rows
<1>3. Row(b.sock, p) \in opened /\ AsRow(b.sock) \in rows
    BY <1>2 DEF DarwinInv, OpenFiles, World, Settled
<1>4. AsRow(b.sock) = b
    BY <1>1, <1>3 DEF OneToASocket, AsRow, Row
<1>5. Key(Row(b.sock, p)) = Key(AsRow(b.sock))
    BY DEF Key, AsRow, Row
<1>6. \A x \in rows : Key(x) = Key(b) => x = b
    BY <1>1, <1>2, DistinctKeys, OneToASocketIs
<1>7. \A o \in opened : Key(o) # Key(b)
    BY <1>1, <1>6, OneToASocketIs, SingleIsMatched
<1> QED BY <1>3, <1>4, <1>5, <1>7

LEMMA RecheckKeeps ==
    ASSUME World, DarwinInv, Recheck
    PROVE  DarwinInv' /\ World' /\ pc' = "recheck" /\ UNCHANGED result
<1>1. /\ pc = "lsof" /\ unlisted = {} /\ orphans' = OrphansSeen /\ pc' = "recheck"
      /\ recent' = Listed
      /\ UNCHANGED <<opened, unlisted, rows, result, callVars, kept, ever, socket, platform>>
    BY DEF Recheck, Proceed
<1>2. World'
    BY <1>1 DEF World, callVars, Bound, Listed, InTable
<1>3. \A s \in Sockets : /\ AsRow(s)' = AsRow(s)
                         /\ Wanted(s)' <=> Wanted(s)
    BY <1>1, WantedStays
<1>4. \A o : Matches(o)' <=> Matches(o)
    BY <1>1 DEF Matches, MatchesAddress, callVars
<1>5. OpenFiles'
    BY <1>1 DEF DarwinInv, OpenFiles, Row
<1>6. OneToASocket(rows)' /\ OneToASocket(orphans)'
  <2>1. OneToASocket(rows) /\ OneToASocket(OrphansSeen)
      BY <1>1, OrphansSeenIs DEF DarwinInv
  <2> QED BY <1>1, <2>1 DEF OneToASocket, TableRows, Rows
<1>7. \A s \in Sockets : Wanted(s)' =>
          \/ AsRow(s)' \in orphans'
          \/ \E o \in opened' : Key(o) = Key(AsRow(s)') /\ Matches(o)'
    BY <1>1, <1>3, <1>4, OrphansSeenHave
<1>8. \A b \in orphans' : b.st \in BoundStates /\ Distinct(b.sock)' =>
          \A p \in Visible : <<b.sock, p>> \notin kept'
    BY <1>1, OrphansAreNobodys DEF Distinct
<1>9. \A s \in Sockets : Key(AsRow(s))' = Key(AsRow(s)')
    BY DEF Key
<1> QED BY <1>1, <1>2, <1>5, <1>6, <1>7, <1>8, <1>9 DEF DarwinInv

LEMMA CollectFreshKeeps ==
    ASSUME World, DarwinInv, platform = "darwin", CollectFresh
    PROVE  DarwinInv' /\ pc' = "done" /\ Answer'
<1> DEFINE left == StillThere(Both)
<1>1. /\ pc = "recheck" /\ unlisted = {}
      /\ Return(Matching(opened) \cup left) /\ DarwinLocalsGo
      /\ UNCHANGED <<callVars, historyVars, platform, socket, moves, missed6>>
    BY DEF CollectFresh, DarwinInv
<1>2. /\ OneToASocket(orphans) /\ IsFiniteSet(orphans)
      /\ \A x \in orphans : x \in Rows /\ x.sock \in Nat /\ socket[x.sock].at = x.at
      /\ \A q, x \in orphans : q.sock = x.sock => q = x
    BY OneToASocketIs DEF DarwinInv, OneToASocket, TableRows
<1>3. OneToASocket(Both) /\ IsFiniteSet(Both)
    BY BothIs, OneToASocketIs
<1>4. left \subseteq orphans
    BY DEF StillThere, UnownedRows
<1>5. TableRows(left) /\ OpenFiles /\ pc \in DarwinPCs
    BY <1>1, <1>2, <1>4 DEF OneToASocket, TableRows, DarwinInv, DarwinPCs
<1>6. ASSUME NEW s \in Sockets, Wanted(s)
      PROVE  \E b \in Matching(opened) \cup left : b.st \in BoundStates
  <2>1. AsRow(s).st \in BoundStates /\ AsRow(s) \in Both
      BY <1>6, BoundHasInode, BothIs DEF Wanted, Settled, InTable
  <2>2. CASE AsRow(s) \in orphans
    <3>1. PICK b \in left : Key(b) = Key(AsRow(s))
        BY <1>2, <1>3, <2>1, <2>2, OneIsLeft DEF StillThere
    <3>2. b \in orphans /\ b \in Rows /\ AsRow(s) \in Rows
        BY <1>2, <1>4, <2>2
    <3>3. b.st = "listen" \/ b.sock = AsRow(s).sock
        BY <3>1, <3>2, KeyTells
    <3>4. b.st \in BoundStates
        BY <1>2, <2>1, <2>2, <3>2, <3>3 DEF BoundStates
    <3> QED BY <3>4
  <2>3. ASSUME NEW o \in opened, Matches(o)
        PROVE  \E b \in Matching(opened) : b.st \in BoundStates
      BY <2>3 DEF DarwinInv, OpenFiles, Matching
  <2> QED BY <1>1, <1>6, <2>2, <2>3 DEF DarwinInv
<1>7. ASSUME NEW b \in left, b.st \in BoundStates, Distinct(b.sock)
      PROVE  b.sock \in recent /\ \A p \in Visible : <<b.sock, p>> \notin kept
  <2> DEFINE missing == UnownedRows(orphans, Both)
  <2>1. b \in orphans /\ b \in Rows /\ socket[b.sock].at = b.at
      BY <1>2, <1>4
  <2>2. \A x \in orphans : Key(x) = Key(b) => x = b
      BY <1>2, <1>7, <2>1, DistinctKeys
  <2>3. missing \subseteq orphans /\ IsFiniteSet(missing)
      BY <1>2, FS_Subset DEF UnownedRows
  <2>4. b \in UnownedRows(orphans, missing)
      BY DEF StillThere
  <2>5. b \notin missing
    <3> HIDE DEF missing
    <3>1. \A o \in missing : Key(o) # Key(b)
        BY <1>2, <2>2, <2>3, <2>4, SingleIsMatched
    <3> QED BY <3>1
  <2>6. PICK f \in Both : Key(f) = Key(b)
      BY <1>2, <1>3, <2>1, <2>5, UnownedUnlessMatched
  <2>7. f.sock = b.sock /\ f.sock \in Listed
      BY <1>3, <1>7, <2>1, <2>6, DistinctKeys, BothIs
  <2> QED BY <1>1, <1>7, <2>1, <2>7 DEF World, DarwinInv
<1> HIDE DEF left
<1>8. Answer'
    BY <1>1, <1>5, <1>6, <1>7, DarwinAnswers
<1> QED BY <1>1, <1>8, DarwinForgets DEF Return

LEMMA NetstatKeeps ==
    ASSUME World, DarwinInv, Netstat
    PROVE  DarwinInv' /\ pc' = "lsof" /\ UNCHANGED result
<1>1. /\ pc = "netstat" /\ pc' = "lsof" /\ rows' = Both
      /\ UNCHANGED <<opened, unlisted, orphans, result, callVars, kept, ever, socket>>
    BY DEF Netstat, Proceed, darwinVars, historyVars
<1>2. \A s \in Sockets : AsRow(s)' = AsRow(s) /\ (Settled(s)' <=> Settled(s))
    BY <1>1, WantedStays
<1>3. OpenFiles'
    BY <1>1 DEF DarwinInv, OpenFiles, Row
<1>4. OneToASocket(rows)' /\ OneToASocket(orphans)'
  <2>1. OneToASocket(Both) /\ OneToASocket(orphans)
      BY BothIs DEF DarwinInv
  <2> QED BY <1>1, <2>1 DEF OneToASocket, TableRows, Rows
<1>5. \A s \in Sockets : Settled(s)' => AsRow(s)' \in rows'
    BY <1>1, <1>2, BothIs DEF Settled, InTable
<1> QED BY <1>1, <1>3, <1>4, <1>5 DEF DarwinInv

LEMMA LsofKeeps ==
    ASSUME World, DarwinInv, NEW p \in Visible, Lsof(p)
    PROVE  DarwinInv' /\ pc = "lsof" /\ UNCHANGED <<pc, result>>
<1> DEFINE new == {Row(s, p) : s \in {t \in Sockets : Holds(t, p)}}
<1>1. /\ pc = "lsof" /\ unlisted' = unlisted \ {p} /\ opened' = opened \cup new
      /\ UNCHANGED <<pc, rows, orphans, result, callVars, kept, ever, socket>>
    BY DEF Lsof, resolverVars, historyVars
<1>2. \A s \in Sockets : AsRow(s)' = AsRow(s) /\ (Settled(s)' <=> Settled(s))
    BY <1>1, WantedStays
<1>3. \A r \in new : /\ r \in Rows /\ r.sock \in Sockets /\ r = Row(r.sock, p)
                     /\ Holds(r.sock, p) /\ r.st = socket[r.sock].st /\ r.pid = p
    BY DEF Row, Rows, World, Procs
<1>4. IsFiniteSet(new)
    BY <1>3, OneToOne
<1>5. \A r \in new : r.st \in BoundStates /\ <<r.sock, p>> \in ever
    BY <1>3 DEF Holds, Bound, BoundStates, World
<1>6. ASSUME NEW h \in kept, h[2] = p
      PROVE  Row(h[1], h[2]) \in new
    BY <1>6 DEF World, Holds
<1> HIDE DEF new
<1>7. IsFiniteSet(opened') /\ opened' \subseteq Rows'
    BY <1>1, <1>3, <1>4, FS_Union DEF DarwinInv, OpenFiles, Rows
<1>8. \A r \in opened' : r.st \in BoundStates /\ r.pid \in Visible /\ <<r.sock, r.pid>> \in ever'
    BY <1>1, <1>3, <1>5 DEF DarwinInv, OpenFiles
<1>9. \A h \in kept' : h[2] \in Visible \ unlisted' => Row(h[1], h[2])' \in opened'
    BY <1>1, <1>6 DEF DarwinInv, OpenFiles, Row
<1>10. OpenFiles'
    BY <1>7, <1>8, <1>9 DEF OpenFiles
<1>11. OneToASocket(rows)' /\ OneToASocket(orphans)'
    BY <1>1 DEF DarwinInv, OneToASocket, TableRows, Rows
<1>12. \A s \in Sockets : Settled(s)' => AsRow(s)' \in rows'
    BY <1>1, <1>2 DEF DarwinInv
<1> QED BY <1>1, <1>10, <1>11, <1>12 DEF DarwinInv

LEMMA DarwinMoves ==
    ASSUME World, DarwinInv, SystemMoves, UNCHANGED darwinVars
    PROVE  DarwinInv'
<1>1. /\ UNCHANGED <<pc, rows, opened, unlisted, orphans, callVars, before>>
      /\ kept' \subseteq kept /\ ever \subseteq ever' /\ Move
    BY DEF SystemMoves, darwinVars, callVars
<1>2. \A s \in Sockets : Settled(s)' =>
          Settled(s) /\ AsRow(s)' = AsRow(s) /\ (Wanted(s)' => Wanted(s))
    BY WantedMoves
<1>3. \A s \in Sockets : socket[s].st # "unborn" =>
          socket'[s].st # "unborn" /\ socket'[s].at = socket[s].at
    BY <1>1, MovesKeep
<1>4. \A o : Matches(o)' <=> Matches(o)
    BY <1>1 DEF Matches, MatchesAddress, callVars
<1>5. ASSUME NEW rs, OneToASocket(rs)
      PROVE  OneToASocket(rs)'
    BY <1>3, <1>5 DEF OneToASocket, TableRows, Rows
<1>6. \A h \in kept' : Row(h[1], h[2])' = Row(h[1], h[2])
  <2>1. World'
      BY WorldMoves
  <2>2. \A h \in kept' : h[1] \in Sockets /\ Settled(h[1])'
      BY <2>1 DEF World, Settled
  <2>3. \A h \in kept' : AsRow(h[1])' = AsRow(h[1])
      BY <1>2, <2>2
  <2>4. \A h \in kept' : socket'[h[1]].st = socket[h[1]].st /\ socket'[h[1]].at = socket[h[1]].at
      BY <2>3 DEF AsRow, Row
  <2> QED BY <2>4 DEF Row
<1>7. OpenFiles'
    BY <1>1, <1>6 DEF DarwinInv, OpenFiles, Rows
<1>8. ASSUME NEW b \in orphans, Distinct(b.sock)'
      PROVE  Distinct(b.sock)
  <2>1. b.sock \in Sockets /\ socket[b.sock].st # "unborn"
      BY DEF DarwinInv, OneToASocket, TableRows, Rows
  <2> QED BY <1>3, <1>8, <2>1 DEF Distinct
<1>9. pc = "recheck" => \A s \in Sockets : Wanted(s)' =>
          AsRow(s)' \in orphans \/ \E o \in opened : Key(o) = Key(AsRow(s)') /\ Matches(o)'
    BY <1>2, <1>4 DEF DarwinInv, Wanted
<1>10. \A s \in Sockets : Key(AsRow(s))' = Key(AsRow(s)')
    BY DEF Key
<1>11. (pc' \in {"lsof", "recheck"} => OneToASocket(rows)') /\ OneToASocket(orphans)'
    BY <1>1, <1>5 DEF DarwinInv
<1> QED BY <1>1, <1>2, <1>7, <1>8, <1>9, <1>10, <1>11 DEF DarwinInv

-----------------------------------------------------------------------------

(***************************************************************************)
(* A table of Windows has a row for each socket, which names its owner.    *)
(***************************************************************************)
TableSockets(v6) == {s \in Sockets : InTable(s) /\ socket[s].at.v6 = v6}

OwnerShown(r) ==
    /\ r.st \in BoundStates => r.pid # 0
    /\ r.pid # 0 => <<r.sock, r.pid>> \in ever
    /\ \A p \in Procs : <<r.sock, p>> \in kept => r.pid = p

LEMMA WinTableIs ==
    ASSUME World, platform = "windows", NEW v6 \in BOOLEAN
    PROVE  /\ WinTable(v6) \subseteq Rows
           /\ \A r \in WinTable(v6) : OwnerShown(r)
           /\ \A s \in TableSockets(v6) : \E r \in WinTable(v6) :
                  r.sock = s /\ r.st = socket[s].st /\ r.at = socket[s].at
           /\ Cardinality(WinTable(v6)) = Cardinality(TableSockets(v6))
           /\ IsFiniteSet(TableSockets(v6))
<1> DEFINE pid(s) == IF socket[s].owners = {} THEN 0 ELSE Least(socket[s].owners)
           row(s) == Row(s, pid(s))
<1>1. WinTable(v6) = {row(s) : s \in TableSockets(v6)}
    BY DEF WinTable, TableSockets
<1>2. ASSUME NEW s \in Sockets
      PROVE  /\ socket[s].owners = {} => pid(s) = 0
             /\ \A p \in socket[s].owners : pid(s) = p /\ p \in Procs /\ p # 0
  <2>1. socket[s].owners \subseteq Nat /\ \A p, q \in socket[s].owners : p = q
      BY SocketsAssumption DEF World, Procs
  <2>2. socket[s].owners # {} => Least(socket[s].owners) \in socket[s].owners
      BY <2>1, LeastIsIn
  <2> QED BY <2>1, <2>2, SocketsAssumption DEF World, Procs
<1> HIDE DEF pid
<1>3. \A s \in Sockets : /\ row(s).sock = s /\ row(s).pid = pid(s)
                         /\ row(s).st = socket[s].st /\ row(s).at = socket[s].at
    BY DEF Row
<1>4. ASSUME NEW s \in Sockets PROVE row(s) \in Rows
  <2>1. pid(s) \in Procs \cup {0}
      BY <1>2
  <2> QED BY <2>1 DEF World, Row, Rows
<1> HIDE DEF row
<1>5. ASSUME NEW s \in Sockets PROVE OwnerShown(row(s))
  <2>1. socket[s].st \in BoundStates => socket[s].owners # {}
      BY DEF World, Bound, BoundStates
  <2>2. \A p \in Procs : <<s, p>> \in kept => p \in socket[s].owners
      BY DEF World
  <2>3. \A p \in socket[s].owners : <<s, p>> \in ever
      BY DEF World
  <2> QED BY <1>2, <1>3, <2>1, <2>2, <2>3 DEF OwnerShown
<1>6. TableSockets(v6) \subseteq Sockets /\ IsFiniteSet(TableSockets(v6))
    BY SocketsAssumption, FS_Subset DEF TableSockets
<1>7. Cardinality(WinTable(v6)) = Cardinality(TableSockets(v6))
  <2>1. /\ \A r \in WinTable(v6) : r.sock \in Sockets
        /\ \A q, r \in WinTable(v6) : q.sock = r.sock => q = r
      BY <1>1, <1>3, <1>6
  <2>2. {r.sock : r \in WinTable(v6)} = TableSockets(v6)
      BY <1>1, <1>3, <1>6
  <2> QED BY <2>1, <2>2, OneToOne
<1> QED BY <1>1, <1>3, <1>4, <1>5, <1>6, <1>7

LEMMA BornIs ==
    IsFiniteSet(Born) /\ Cardinality(Born) \in Nat
BY SocketsAssumption, FS_Subset, FS_CardinalityType DEF Born

LEMMA WinTableCounts ==
    ASSUME World, platform = "windows"
    PROVE  Cardinality(WinTable(FALSE)) \in Nat
BY WinTableIs, FS_CardinalityType

LEMMA WinTableSize ==
    World /\ platform = "windows" =>
        Cardinality(WinTable(FALSE)) = Cardinality(TableSockets(FALSE))
BY WinTableIs

LEMMA WinTableNat ==
    World /\ platform = "windows" => Cardinality(WinTable(FALSE)) \in Nat
BY WinTableCounts

(* A table grows by no more rows than sockets are born. *)
LEMMA TableGrows ==
    ASSUME World, World', platform = "windows", platform' = "windows", Move, UNCHANGED before
    PROVE  /\ Cardinality(Born) <= Cardinality(Born')
           /\ Cardinality(WinTable(FALSE)') - Cardinality(WinTable(FALSE))
                  <= Cardinality(Born') - Cardinality(Born)
<1> DEFINE T == TableSockets(FALSE)
           N == Born' \ Born
<1>1. \A s \in Sockets : socket[s].st # "unborn" =>
          /\ socket'[s].st # "unborn" /\ socket'[s].at = socket[s].at
          /\ InTable(s)' => InTable(s)
    BY MovesKeep
<1>2. Born \in SUBSET Born'
    BY <1>1 DEF Born
<1>3. TableSockets(FALSE)' \in SUBSET (T \cup N)
  <2> SUFFICES ASSUME NEW s \in Sockets, InTable(s)', socket'[s].at.v6 = FALSE, s \notin T
               PROVE  s \in Born' /\ s \notin Born
      BY DEF TableSockets
  <2>1. socket'[s].st # "unborn"
      BY DEF InTable, Bound
  <2>2. socket[s].st = "unborn"
      BY <1>1 DEF TableSockets
  <2> QED BY <2>1, <2>2 DEF Born, World
<1>4. IsFiniteSet(Born') /\ Cardinality(Born') \in Nat /\ IsFiniteSet(T)
      /\ IsFiniteSet(Born) /\ Cardinality(Born) \in Nat
    BY SocketsAssumption, FS_Subset, FS_CardinalityType DEF Born, TableSockets
<1> HIDE DEF T
<1>5. IsFiniteSet(N) /\ Cardinality(N) = Cardinality(Born') - Cardinality(Born)
  <2>1. Born' \cap Born = Born
      BY <1>2
  <2> QED BY <1>4, <2>1, FS_Difference
<1> HIDE DEF N
<1>6. /\ IsFiniteSet(T \cup N)
      /\ Cardinality(T \cup N) = Cardinality(T) + Cardinality(N) - Cardinality(T \cap N)
      /\ Cardinality(T \cap N) \in Nat
      /\ Cardinality(T) \in Nat /\ Cardinality(N) \in Nat
    BY <1>4, <1>5, FS_Union, FS_Intersection, FS_CardinalityType
<1>7. IsFiniteSet(TableSockets(FALSE)') /\ Cardinality(TableSockets(FALSE)') <= Cardinality(T \cup N)
    BY <1>3, <1>6, FS_Subset
<1>8. Cardinality(TableSockets(FALSE)') \in Nat
    BY <1>7, FS_CardinalityType
<1>9. Cardinality(WinTable(FALSE)) = Cardinality(T)
    BY WinTableIs DEF T
<1>10. Cardinality(WinTable(FALSE)') = Cardinality(TableSockets(FALSE)')
  <2>1. (World /\ platform = "windows" =>
             Cardinality(WinTable(FALSE)) = Cardinality(TableSockets(FALSE)))'
      BY WinTableSize, PTL
  <2> QED BY <2>1
<1>11. Cardinality(Born) <= Cardinality(Born')
    BY <1>2, <1>4, FS_Subset
<1>12. Cardinality(T \cup N) <= Cardinality(T) + Cardinality(N) /\ Cardinality(T \cup N) \in Int
    BY ONLY <1>6
<1>13. ASSUME NEW w, NEW x, NEW t \in Nat, NEW u \in Nat, NEW b \in Nat, NEW c \in Nat,
              NEW v \in Nat, NEW n \in Int,
              w = t, x = u, u <= n, n <= t + v, v = c - b
       PROVE  x - w <= c - b
    BY <1>13
<1> QED BY ONLY <1>4, <1>5, <1>6, <1>8, <1>9, <1>10, <1>7, <1>11, <1>12, <1>13

(* The rows read on Windows keep what they say of their sockets. *)
LEMMA WindowsMoves ==
    ASSUME World, Control, WindowsInv, SystemMoves, UNCHANGED room
    PROVE  WindowsInv'
<1>1. /\ UNCHANGED <<platform, pc, rows, attempt, missed6, callVars, before>>
      /\ kept' \subseteq kept /\ ever \subseteq ever' /\ Move
    BY DEF SystemMoves, Move, callVars
<1>2. \A s \in Sockets : Settled(s)' =>
          /\ Settled(s)
          /\ socket'[s].st = socket[s].st /\ socket'[s].at = socket[s].at
    BY <1>1, MovesKeep
<1>3. \A s \in Sockets : Settled(s)' => (Shown(s) => Shown(s)')
    BY <1>1, <1>2 DEF Shown
<1>4. /\ pc' = "fetch6" => \A s \in Sockets : Settled(s)' /\ ~socket'[s].at.v6 => Shown(s)'
      /\ pc' = "rows" =>
             \A s \in Sockets : Settled(s)' /\ (missed6' => ~socket'[s].at.v6) => Shown(s)'
    BY <1>1, <1>2, <1>3 DEF WindowsInv
<1>5. pc' \in WindowsPCs =>
          /\ rows' \subseteq Rows'
          /\ \A r \in rows' :
                 /\ r.st \in BoundStates => r.pid # 0
                 /\ r.pid # 0 => <<r.sock, r.pid>> \in ever'
                 /\ \A p \in Procs : <<r.sock, p>> \in kept' => r.pid = p
    BY <1>1 DEF WindowsInv, Rows
<1>6. Grown'
  <2> SUFFICES ASSUME pc' = "fetch4"
               PROVE  /\ room' \in Nat /\ attempt' \in Nat
                      /\ attempt' > 0 =>
                             /\ attempt' <= Cardinality(Born') + 1
                             /\ Cardinality(WinTable(FALSE)') - room'
                                    <= Cardinality(Born') + 1 - attempt'
      BY DEF Grown
  <2>1. platform = "windows" /\ platform' = "windows"
      BY <1>1 DEF World, Control, LinuxPCs, DarwinPCs
  <2>2. World'
      BY WorldMoves
  <2>3. /\ Cardinality(Born) <= Cardinality(Born')
        /\ Cardinality(WinTable(FALSE)') - Cardinality(WinTable(FALSE))
               <= Cardinality(Born') - Cardinality(Born)
      BY <1>1, <2>1, <2>2, TableGrows DEF callVars
  <2>4. /\ room' = room /\ attempt' = attempt /\ room \in Nat /\ attempt \in Nat
        /\ attempt > 0 =>
               /\ attempt <= Cardinality(Born) + 1
               /\ Cardinality(WinTable(FALSE)) - room <= Cardinality(Born) + 1 - attempt
      BY <1>1 DEF WindowsInv, Grown
  <2>5. Cardinality(Born) \in Nat /\ Cardinality(WinTable(FALSE)) \in Nat
      BY <2>1, BornIs, WinTableCounts
  <2>6. Cardinality(Born') \in Nat /\ Cardinality(WinTable(FALSE)') \in Nat
    <3>1. (Cardinality(Born) \in Nat)'
        BY SocketsAssumption, FS_Subset, FS_CardinalityType DEF Born
    <3>2. (World /\ platform = "windows" => Cardinality(WinTable(FALSE)) \in Nat)'
        BY WinTableNat, PTL
    <3> QED BY <2>1, <2>2, <3>1, <3>2
  <2>7. ASSUME NEW a \in Nat, NEW r \in Nat, NEW b \in Nat, NEW w \in Nat,
               NEW c \in Nat, NEW x \in Nat,
               a <= b + 1, w - r <= b + 1 - a, b <= c, x - w <= c - b
        PROVE  a <= c + 1 /\ x - r <= c + 1 - a
      BY <2>7
  <2> QED BY <2>3, <2>4, <2>5, <2>6, <2>7
<1> QED BY ONLY <1>4, <1>5, <1>6 DEF WindowsInv

(* A fetch into too small a buffer finds a socket born since the last one. *)
LEMMA TooSmallMeansBorn ==
    ASSUME World, platform = "windows", WindowsInv, pc = "fetch4", ~FitsBuffer(FALSE)
    PROVE  /\ attempt \in Nat /\ room \in Nat
           /\ Cardinality(Born) \in Nat /\ Cardinality(WinTable(FALSE)) \in Nat
           /\ attempt <= Cardinality(Born)
<1>1. /\ room \in Nat /\ attempt \in Nat
      /\ attempt > 0 =>
             Cardinality(WinTable(FALSE)) - room <= Cardinality(Born) + 1 - attempt
    BY DEF WindowsInv, Grown
<1>2. Cardinality(Born) \in Nat /\ Cardinality(WinTable(FALSE)) \in Nat
    BY BornIs, WinTableCounts
<1>3. ~(Cardinality(WinTable(FALSE)) <= room)
    BY DEF FitsBuffer
<1>4. ASSUME NEW a \in Nat, NEW r \in Nat, NEW b \in Nat, NEW w \in Nat,
             a > 0 => w - r <= b + 1 - a, ~(w <= r)
      PROVE  a <= b
    BY <1>4
<1> QED BY <1>1, <1>2, <1>3, <1>4

LEMMA GrowKeeps ==
    ASSUME World, platform = "windows", WindowsInv, NEW v6 \in BOOLEAN, Grow(v6)
    PROVE  WindowsInv' /\ pc \in WindowsPCs /\ UNCHANGED <<pc, result>>
<1>1. /\ pc = (IF v6 THEN "fetch6" ELSE "fetch4") /\ ~FitsBuffer(v6)
      /\ attempt' = attempt + 1 /\ room' = Cardinality(WinTable(v6))
      /\ UNCHANGED <<callVars, kept, ever, platform, socket, rows, pc, result, missed6>>
    BY DEF Grow, FetchOf, historyVars
<1>2. \A s \in Sockets : /\ Settled(s)' <=> Settled(s)
                         /\ Shown(s)' <=> Shown(s)
    BY <1>1, WantedStays DEF Shown
<1>3. Grown'
  <2> SUFFICES ASSUME pc' = "fetch4"
               PROVE  /\ room' \in Nat /\ attempt' \in Nat
                      /\ attempt' > 0 =>
                             /\ attempt' <= Cardinality(Born') + 1
                             /\ Cardinality(WinTable(FALSE)') - room'
                                    <= Cardinality(Born') + 1 - attempt'
      BY DEF Grown
  <2>1. pc = "fetch4" /\ v6 = FALSE
      BY <1>1
  <2>2. Born' = Born /\ WinTable(FALSE)' = WinTable(FALSE)
      BY <1>1 DEF Born, WinTable, Row, InTable, Bound, callVars
  <2>3. /\ attempt \in Nat /\ room \in Nat
        /\ Cardinality(Born) \in Nat /\ Cardinality(WinTable(FALSE)) \in Nat
        /\ attempt <= Cardinality(Born)
      BY <1>1, <2>1, TooSmallMeansBorn
  <2>4. attempt' = attempt + 1 /\ room' = Cardinality(WinTable(FALSE))
      BY <1>1, <2>1
  <2>5. ASSUME NEW a \in Nat, NEW b \in Nat, NEW w \in Nat, a <= b
        PROVE  a + 1 \in Nat /\ a + 1 <= b + 1 /\ w - w <= b + 1 - (a + 1)
      BY <2>5
  <2> QED BY <2>2, <2>3, <2>4, <2>5
<1>4. /\ pc' = "fetch6" => \A s \in Sockets : Settled(s)' /\ ~socket'[s].at.v6 => Shown(s)'
      /\ pc' = "rows" =>
             \A s \in Sockets : Settled(s)' /\ (missed6' => ~socket'[s].at.v6) => Shown(s)'
    BY <1>1, <1>2 DEF WindowsInv
<1>5. pc' \in WindowsPCs =>
          /\ rows' \subseteq Rows'
          /\ \A r \in rows' :
                 /\ r.st \in BoundStates => r.pid # 0
                 /\ r.pid # 0 => <<r.sock, r.pid>> \in ever'
                 /\ \A p \in Procs : <<r.sock, p>> \in kept' => r.pid = p
    BY <1>1 DEF WindowsInv, Rows
<1>6. WindowsInv'
    BY ONLY <1>3, <1>4, <1>5 DEF WindowsInv
<1> QED BY <1>1, <1>6 DEF WindowsPCs

(* What is read, or left out, on the way from one table to the next. *)
LEMMA NextTableKeeps ==
    ASSUME World, platform = "windows", WindowsInv, NEW v6 \in BOOLEAN, FetchOf(v6),
           NextTable(v6), UNCHANGED <<callVars, historyVars, platform, socket, moves>>,
           \/ rows' = rows \cup WinTable(v6) /\ UNCHANGED missed6
           \/ v6 /\ rows' = rows /\ missed6' = TRUE
    PROVE  WindowsInv' /\ pc' \in WindowsPCs /\ pc \in WindowsPCs /\ UNCHANGED result
<1>1. /\ pc = (IF v6 THEN "fetch6" ELSE "fetch4") /\ pc' = (IF v6 THEN "rows" ELSE "fetch6")
      /\ result' = result
      /\ UNCHANGED <<kept, ever>>
    BY DEF FetchOf, NextTable, Proceed, historyVars
<1>2. \A s \in Sockets : Settled(s)' <=> Settled(s)
    BY WantedStays
<1>3. /\ rows \subseteq Rows
      /\ \A r \in rows : OwnerShown(r)
      /\ rows \subseteq rows' /\ rows' \subseteq rows \cup WinTable(v6)
    BY <1>1 DEF WindowsInv, OwnerShown, WindowsPCs
<1>4. WinTable(v6) \subseteq Rows /\ \A r \in WinTable(v6) : OwnerShown(r)
    BY WinTableIs
<1>5. /\ rows' \subseteq Rows'
      /\ \A r \in rows' :
             /\ r.st \in BoundStates => r.pid # 0
             /\ r.pid # 0 => <<r.sock, r.pid>> \in ever'
             /\ \A p \in Procs : <<r.sock, p>> \in kept' => r.pid = p
    BY <1>1, <1>3, <1>4 DEF OwnerShown, Rows
<1>6. \A s \in Sockets : Shown(s) => Shown(s)'
    BY <1>3 DEF Shown
<1>7. ASSUME rows' = rows \cup WinTable(v6), NEW s \in Sockets, Settled(s), socket[s].at.v6 = v6
      PROVE  Shown(s)'
  <2>1. s \in TableSockets(v6)
      BY <1>7 DEF Settled, TableSockets, InTable
  <2>2. PICK r \in WinTable(v6) : r.sock = s /\ r.st = socket[s].st /\ r.at = socket[s].at
      BY <2>1, WinTableIs
  <2> QED BY <1>7, <2>2 DEF Shown
<1>8. \A s \in Sockets : socket[s].at.v6 \in BOOLEAN
    BY PlacesAssumption DEF World
<1>9. pc' = "fetch6" => \A s \in Sockets : Settled(s)' /\ ~socket'[s].at.v6 => Shown(s)'
    BY <1>1, <1>2, <1>7, <1>8
<1>10. pc' = "rows" => \A s \in Sockets : Settled(s)' /\ (missed6' => ~socket'[s].at.v6) => Shown(s)'
  <2> SUFFICES ASSUME pc' = "rows", NEW s \in Sockets, Settled(s), missed6' => ~socket[s].at.v6
               PROVE  Shown(s)'
      BY <1>2
  <2>1. v6 /\ (~socket[s].at.v6 => Shown(s))
      BY <1>1 DEF WindowsInv
  <2>2. CASE ~socket[s].at.v6
      BY <1>6, <2>1, <2>2
  <2>3. CASE socket[s].at.v6
      BY <1>7, <1>8, <2>1, <2>3
  <2> QED BY <2>2, <2>3
<1>11. Grown' /\ pc' \in WindowsPCs /\ pc \in WindowsPCs
    BY <1>1 DEF Grown, WindowsPCs
<1>12. WindowsInv'
    BY ONLY <1>5, <1>9, <1>10, <1>11 DEF WindowsInv
<1> QED BY <1>1, <1>11, <1>12

(* fetchTable gives up: its error is the call's, or IPv6 is left out. *)
LEMMA FetchFailsKeeps ==
    ASSUME World, platform = "windows", WindowsInv, NEW v6 \in BOOLEAN,
           NEW e \in {"error", "unsettled"}, FetchFails(v6, e)
    PROVE  /\ WindowsInv' /\ pc \in WindowsPCs
           /\ \/ pc' \in WindowsPCs /\ UNCHANGED result
              \/ pc' = "done" /\ Answer'
<1>1. CASE v6
    BY <1>1, NextTableKeeps DEF FetchFails
<1>2. CASE ~v6
  <2>1. /\ pc = "fetch4" /\ pc' = "done" /\ result' = e
        /\ UNCHANGED <<callVars, socket>>
        /\ e = "unsettled" => ~FitsBuffer(FALSE) /\ attempt + 1 = Attempts
      BY <1>2 DEF FetchFails, FetchOf, Fail
  <2>2. WindowsInv'
      BY <2>1 DEF WindowsInv, Grown, WindowsPCs
  <2>3. UnsettledMeansGrowing'
    <3> SUFFICES ASSUME e = "unsettled"
                 PROVE  Cardinality(Born') >= Attempts - 1
        BY <2>1 DEF UnsettledMeansGrowing, Born
    <3>1. attempt \in Nat /\ Cardinality(Born) \in Nat /\ attempt <= Cardinality(Born)
        BY <2>1, TooSmallMeansBorn
    <3>2. Born' = Born /\ attempt + 1 = Attempts
        BY <2>1 DEF Born, callVars
    <3> QED BY <3>1, <3>2, FetchAssumption
  <2>4. Complete' /\ OwnersTrue' /\ NoFalseBarrier'
      BY <2>1 DEF Complete, OwnersTrue, NoFalseBarrier, Answered
  <2> QED BY <2>1, <2>2, <2>3, <2>4 DEF Answer, WindowsPCs
<1> QED BY <1>1, <1>2

LEMMA WinCollectKeeps ==
    ASSUME World, Control, platform = "windows", WindowsInv, WinCollect
    PROVE  WindowsInv' /\ pc \in WindowsPCs /\ pc' = "done" /\ Answer'
<1> DEFINE fs == {WithProc(r) : r \in Matching(rows)}
<1>1. /\ pc = "rows" /\ pc' = "done" /\ result' = "ok" /\ found' = fs
      /\ UNCHANGED <<callVars, historyVars, platform, socket, moves, missed6>>
    BY DEF WinCollect, Return
<1>2. WindowsInv' /\ pc \in WindowsPCs
    BY <1>1 DEF WindowsInv, Grown, WindowsPCs
<1>3. /\ \A r \in rows : r \in Rows /\ OwnerShown(r)
      /\ \A s \in Sockets : Settled(s) /\ ~missed6 => Shown(s)
    BY <1>1, <1>2 DEF WindowsInv, OwnerShown
<1>4. \A r \in Rows : /\ WithProc(r).sock = r.sock /\ WithProc(r).st = r.st /\ WithProc(r).at = r.at
                      /\ WithProc(r).pid = IF r.st = "time_wait" THEN 0 ELSE r.pid
    BY DEF WithProc, Rows
<1>5. \A s \in Sockets : /\ AsRow(s)' = AsRow(s)
                         /\ Wanted(s)' <=> Wanted(s)
                         /\ (Matches(AsRow(s)))' <=> Matches(AsRow(s))
    BY <1>1, WantedStays DEF Matches, MatchesAddress, callVars
<1>6. ASSUME NEW s \in Sockets, Wanted(s), ~missed6
      PROVE  \E r \in Matching(rows) : r.sock = s /\ r.st \in BoundStates /\ r.at = socket[s].at
  <2>1. PICK r \in rows : r.sock = s /\ r.st = socket[s].st /\ r.at = socket[s].at
      BY <1>3, <1>6 DEF Wanted, Shown
  <2>2. Matches(r) /\ r.st \in BoundStates
      BY <1>6, <2>1 DEF Wanted, Settled, Bound, BoundStates, Matches, AsRow, Row
  <2> QED BY <2>1, <2>2 DEF Matching
<1>7. \A f \in fs : \E r \in rows : r \in Rows /\ OwnerShown(r) /\ f = WithProc(r)
    BY <1>3 DEF Matching
<1>8. \A r \in Matching(rows) : WithProc(r) \in fs /\ r \in Rows /\ OwnerShown(r)
    BY <1>3 DEF Matching
<1> HIDE DEF fs
<1>9. Complete'
  <2> SUFFICES ASSUME ~missed6', NEW s \in Sockets, Wanted(s)'
               PROVE  \E b \in found' : b.st \in BoundStates
      BY DEF Complete
  <2>1. PICK r \in Matching(rows) : r.st \in BoundStates
      BY <1>1, <1>5, <1>6
  <2> QED BY <1>1, <1>4, <1>8, <2>1
<1>10. OwnersTrue'
  <2>1. \A s \in Sockets, p \in Procs : SoleHolder(s, p)' <=> SoleHolder(s, p)
      BY <1>1 DEF SoleHolder, historyVars
  <2>2. \A b \in Owned(found)' : <<b.sock, b.pid>> \in ever'
    <3> SUFFICES ASSUME NEW f \in fs, f.pid # 0
                 PROVE  <<f.sock, f.pid>> \in ever
        BY <1>1 DEF Owned, historyVars
    <3>1. PICK r \in Rows : OwnerShown(r) /\ f = WithProc(r)
        BY <1>7
    <3>2. r.pid # 0 /\ f.pid = r.pid /\ f.sock = r.sock
        BY <1>4, <3>1
    <3> QED BY <3>1, <3>2 DEF OwnerShown
  <2>3. ASSUME NEW s \in Sockets, NEW p \in Procs, SoleHolder(s, p), Matches(AsRow(s)), ~missed6
        PROVE  \E b \in fs : b.at = socket[s].at /\ b.pid = p
    <3>1. <<s, p>> \in kept /\ Wanted(s)
        BY <2>3 DEF SoleHolder, World, Wanted, Settled
    <3>2. PICK r \in Matching(rows) : r.sock = s /\ r.st \in BoundStates /\ r.at = socket[s].at
        BY <1>6, <2>3, <3>1
    <3>3. r.pid = p /\ r.st # "time_wait"
        BY <1>8, <3>1, <3>2 DEF OwnerShown, BoundStates
    <3> QED BY <1>4, <1>8, <3>2, <3>3
  <2>4. ASSUME NEW s \in Sockets, NEW p \in Procs, SoleHolder(s, p)', (Matches(AsRow(s)))', ~missed6'
        PROVE  \E b \in found' : b.at = socket'[s].at /\ b.pid = p
      BY <1>1, <1>5, <2>1, <2>3, <2>4
  <2> QED BY <2>2, <2>4 DEF OwnersTrue
<1>11. NoFalseBarrier'
  <2>1. ASSUME NEW f \in fs, f.st \in BoundStates
        PROVE  f.pid # 0
    <3>1. PICK r \in Rows : OwnerShown(r) /\ f = WithProc(r)
        BY <1>7
    <3>2. r.st \in BoundStates /\ (r.st # "time_wait" => f.pid = r.pid)
        BY <1>4, <2>1, <3>1
    <3> QED BY <3>1, <3>2 DEF OwnerShown, BoundStates
  <2> QED BY <1>1, <2>1 DEF NoFalseBarrier, BoundStates
<1>12. UnsettledMeansGrowing'
    BY <1>1 DEF UnsettledMeansGrowing
<1> QED BY <1>1, <1>2, <1>9, <1>10, <1>11, <1>12 DEF Answer

-----------------------------------------------------------------------------

(***************************************************************************)
(* One step of a resolver: it goes on, or returns with a true answer.      *)
(***************************************************************************)
GoesOn(PCs) ==
    /\ World'
    /\ missed6' \in BOOLEAN
    /\ UNCHANGED <<platform, socket, ever>>
    /\ pc \in PCs
    /\ \/ pc' \in PCs /\ UNCHANGED result
       \/ pc' = "done" /\ Answer'

LEMMA OnLinux ==
    ASSUME World, Control, LinuxStep
    PROVE  platform = "linux" /\ pc \in LinuxPCs
<1>1. pc \in LinuxPCs
    BY DEF LinuxStep, Netlink4, Netlink6, NetlinkSkips6, NetlinkFails, Proc4, Proc6, ProcFails,
       Candidates, LiveInodes, WalkProcess, AllOwned, Retry, Reread, LinuxPCs
<1> QED BY <1>1 DEF World, Control, LinuxPCs, DarwinPCs, WindowsPCs

LEMMA LinuxStepKeeps ==
    ASSUME World, Control, LinuxInv, LinuxStep
    PROVE  LinuxInv' /\ GoesOn(LinuxPCs)
<1>1. platform = "linux" /\ pc \in LinuxPCs /\ missed6 \in BOOLEAN
    BY OnLinux DEF Control
<1>2. CASE Netlink4 \/ Netlink6 \/ NetlinkSkips6 \/ NetlinkFails \/ Proc4 \/ Proc6
  <2>1. /\ UNCHANGED <<callVars, historyVars, platform, socket>>
        /\ missed6' \in {missed6, TRUE}
      BY <1>2 DEF Netlink4, Netlink6, NetlinkSkips6, NetlinkFails, Proc4, Proc6, Reading
  <2>2. World'
      BY <2>1, WorldStays DEF historyVars
  <2>3. LinuxInv' /\ pc' \in LinuxPCs /\ UNCHANGED result
      BY ONLY World, LinuxInv, <1>1, <1>2, LinuxReads
  <2> QED BY <1>1, <2>1, <2>2, <2>3 DEF GoesOn, historyVars
<1>3. ASSUME Outside PROVE World' /\ missed6' \in BOOLEAN /\ UNCHANGED <<platform, socket, ever>>
    BY <1>1, <1>3, WorldStays DEF Outside, historyVars
<1>4. CASE ProcFails
  <2>1. Outside /\ LinuxLocalsGo /\ pc' = "done" /\ result' = "error"
      BY <1>4 DEF ProcFails, Fail
  <2> QED BY <1>1, <1>3, <2>1, LinuxForgets, FailsAnswer DEF GoesOn
<1>5. CASE Candidates
  <2>1. Outside /\ (pc' = "done" \/ (pc' = "walk" /\ UNCHANGED result))
      BY <1>5 DEF Candidates, Return, Walk
  <2>2. LinuxInv' /\ (pc' = "done" => Answer')
      BY <1>1, <1>5, CandidatesKeep
  <2> QED BY <1>1, <1>3, <2>1, <2>2 DEF GoesOn, LinuxPCs
<1>6. CASE LiveInodes
    BY <1>1, <1>3, <1>6, LiveInodesKeep DEF GoesOn, LiveInodes
<1>7. CASE \E p \in Visible : WalkProcess(p)
  <2>1. PICK p \in Visible : WalkProcess(p)
      BY <1>7
  <2>2. LinuxInv' /\ UNCHANGED pc
      BY <2>1, WalkProcessKeeps
  <2>3. UNCHANGED <<callVars, historyVars, platform, socket, missed6, result>>
      BY <2>1 DEF WalkProcess, resolverVars
  <2>4. World'
      BY <2>3, WorldStays DEF historyVars
  <2> QED BY <1>1, <2>2, <2>3, <2>4 DEF GoesOn, historyVars
<1>8. CASE AllOwned
    BY <1>1, <1>3, <1>8, AllOwnedKeeps DEF GoesOn, AllOwned
<1>9. CASE Retry
  <2>1. LinuxInv' /\ UNCHANGED pc
      BY <1>9, RetryKeeps
  <2> QED BY <1>1, <1>3, <1>9, <2>1 DEF GoesOn, Retry
<1>10. CASE Reread
  <2>1. LinuxInv' /\ World' /\ pc' = "netlink4" /\ UNCHANGED result
      BY <1>10, RereadKeeps
  <2>2. UNCHANGED <<platform, socket, ever, missed6>>
      BY <1>10 DEF Reread
  <2> QED BY <1>1, <2>1, <2>2 DEF GoesOn, LinuxPCs
<1> QED BY <1>2, <1>4, <1>5, <1>6, <1>7, <1>8, <1>9, <1>10 DEF LinuxStep

LEMMA DarwinStepKeeps ==
    ASSUME World, Control, DarwinInv, DarwinStep
    PROVE  DarwinInv' /\ GoesOn(DarwinPCs)
<1>1. pc \in DarwinPCs /\ missed6 \in BOOLEAN
    BY DEF DarwinStep, Netstat, ToolFails, Lsof, Collect, Recheck, CollectFresh, DarwinPCs, Control
<1>2. platform = "darwin"
    BY <1>1 DEF World, Control, LinuxPCs, DarwinPCs, WindowsPCs
<1>3. ASSUME UNCHANGED <<callVars, historyVars, platform, socket, missed6>>
      PROVE  World' /\ missed6' \in BOOLEAN /\ UNCHANGED <<platform, socket, ever>>
    BY <1>1, <1>3, WorldStays DEF historyVars
<1>4. CASE Netstat
  <2>1. DarwinInv' /\ pc' = "lsof" /\ UNCHANGED result
      BY <1>4, NetstatKeeps
  <2>2. UNCHANGED <<callVars, historyVars, platform, socket, missed6>>
      BY <1>4 DEF Netstat
  <2> QED BY <1>1, <1>3, <2>1, <2>2 DEF GoesOn, DarwinPCs
<1>5. CASE ToolFails
  <2>1. /\ DarwinLocalsGo /\ pc' = "done" /\ result' = "error"
        /\ UNCHANGED <<callVars, historyVars, platform, socket, missed6>>
      BY <1>5 DEF ToolFails, Fail
  <2> QED BY <1>1, <1>3, <2>1, DarwinForgets, FailsAnswer DEF GoesOn
<1>6. CASE \E p \in Visible : Lsof(p)
  <2>1. PICK p \in Visible : Lsof(p)
      BY <1>6
  <2>2. DarwinInv' /\ UNCHANGED <<pc, result>>
      BY <2>1, LsofKeeps
  <2>3. UNCHANGED <<callVars, historyVars, platform, socket, missed6>>
      BY <2>1 DEF Lsof, resolverVars
  <2> QED BY <1>1, <1>3, <2>2, <2>3 DEF GoesOn
<1>7. CASE Collect
  <2>1. UNCHANGED <<callVars, historyVars, platform, socket, missed6>>
      BY <1>7 DEF Collect
  <2> QED BY <1>1, <1>2, <1>3, <1>7, <2>1, CollectKeeps DEF GoesOn
<1>8. CASE Recheck
  <2>1. DarwinInv' /\ World' /\ pc' = "recheck" /\ UNCHANGED result
      BY <1>8, RecheckKeeps
  <2>2. UNCHANGED <<platform, socket, ever, missed6>>
      BY <1>8 DEF Recheck
  <2> QED BY <1>1, <2>1, <2>2 DEF GoesOn, DarwinPCs
<1>9. CASE CollectFresh
  <2>1. UNCHANGED <<callVars, historyVars, platform, socket, missed6>>
      BY <1>9 DEF CollectFresh
  <2> QED BY <1>1, <1>2, <1>3, <1>9, <2>1, CollectFreshKeeps DEF GoesOn
<1> QED BY <1>4, <1>5, <1>6, <1>7, <1>8, <1>9 DEF DarwinStep

LEMMA WindowsStepKeeps ==
    ASSUME World, Control, WindowsInv, WindowsStep
    PROVE  WindowsInv' /\ GoesOn(WindowsPCs)
<1>1. pc \in WindowsPCs /\ missed6 \in BOOLEAN
    BY DEF WindowsStep, Fetch, Grow, FetchFails, FetchOf, WinCollect, WindowsPCs, Control
<1>2. platform = "windows"
    BY <1>1 DEF World, Control, LinuxPCs, DarwinPCs, WindowsPCs
<1>3. ASSUME UNCHANGED <<callVars, historyVars, platform, socket>>
      PROVE  World' /\ UNCHANGED <<platform, socket, ever>>
    BY <1>3, WorldStays DEF historyVars
<1>4. ASSUME NEW v6 \in BOOLEAN, Fetch(v6) PROVE WindowsInv' /\ GoesOn(WindowsPCs)
  <2>1. /\ FetchOf(v6) /\ NextTable(v6) /\ rows' = rows \cup WinTable(v6)
        /\ UNCHANGED <<callVars, historyVars, platform, socket, moves, missed6>>
      BY <1>4 DEF Fetch
  <2>2. WindowsInv' /\ pc' \in WindowsPCs /\ UNCHANGED result
      BY <1>2, <2>1, NextTableKeeps
  <2> QED BY <1>1, <1>3, <2>1, <2>2 DEF GoesOn
<1>5. ASSUME NEW v6 \in BOOLEAN, Grow(v6) PROVE WindowsInv' /\ GoesOn(WindowsPCs)
  <2>1. UNCHANGED <<callVars, historyVars, platform, socket, missed6>>
      BY <1>5 DEF Grow
  <2> QED BY <1>1, <1>2, <1>3, <1>5, <2>1, GrowKeeps DEF GoesOn
<1>6. ASSUME NEW v6 \in BOOLEAN, NEW e \in {"error", "unsettled"}, FetchFails(v6, e)
      PROVE  WindowsInv' /\ GoesOn(WindowsPCs)
  <2>1. UNCHANGED <<callVars, historyVars, platform, socket>> /\ missed6' \in {missed6, TRUE}
    <3>1. UNCHANGED <<callVars, historyVars, platform, socket>>
        BY <1>6 DEF FetchFails
    <3>2. CASE v6
        BY <1>6, <3>2 DEF FetchFails
    <3>3. CASE ~v6
        BY <1>6, <3>3 DEF FetchFails
    <3> QED BY <3>1, <3>2, <3>3
  <2>2. /\ WindowsInv' /\ pc \in WindowsPCs
        /\ \/ pc' \in WindowsPCs /\ UNCHANGED result
           \/ pc' = "done" /\ Answer'
      BY ONLY World, WindowsInv, <1>2, <1>6, FetchFailsKeeps
  <2>3. missed6' \in BOOLEAN
      BY <1>1, <2>1
  <2> QED BY <1>1, <1>3, <2>1, <2>2, <2>3 DEF GoesOn
<1>7. CASE WinCollect
  <2>1. UNCHANGED <<callVars, historyVars, platform, socket, missed6>>
      BY <1>7 DEF WinCollect
  <2> QED BY <1>1, <1>2, <1>3, <1>7, <2>1, WinCollectKeeps DEF GoesOn
<1> QED BY <1>4, <1>5, <1>6, <1>7 DEF WindowsStep

(* A resolver that is not built for the platform does nothing. *)
LEMMA IdleLinux ==
    ASSUME LinuxInv, UNCHANGED <<linuxVars, ever>>, pc \notin LinuxPCs, pc' \notin LinuxPCs
    PROVE  LinuxInv'
BY DEF LinuxInv, linuxVars, LinuxPCs

LEMMA IdleDarwin ==
    ASSUME DarwinInv, UNCHANGED <<darwinVars, socket, ever>>, pc' \notin DarwinPCs
    PROVE  DarwinInv'
<1>1. UNCHANGED <<opened, unlisted, orphans>>
    BY DEF darwinVars
<1> QED BY <1>1 DEF DarwinInv, OpenFiles, OneToASocket, TableRows, Rows, DarwinPCs

LEMMA IdleWindows ==
    ASSUME pc' \notin WindowsPCs
    PROVE  WindowsInv'
BY DEF WindowsInv, Grown, WindowsPCs

LEMMA GoingOnControls ==
    ASSUME World, Control, NEW PCs \in {LinuxPCs, DarwinPCs, WindowsPCs}, GoesOn(PCs)
    PROVE  Control' /\ Answer'
<1>1. "done" \notin LinuxPCs /\ "done" \notin DarwinPCs /\ "done" \notin WindowsPCs
    BY DEF LinuxPCs, DarwinPCs, WindowsPCs
<1>2. Answer'
    BY <1>1 DEF GoesOn, Answer
<1>3. pc \in PCs /\ "done" \notin PCs
    BY <1>1 DEF GoesOn
<1>4. /\ platform = "linux" => PCs = LinuxPCs
      /\ platform = "darwin" => PCs = DarwinPCs
      /\ platform = "windows" => PCs = WindowsPCs
    BY <1>3 DEF Control, LinuxPCs, DarwinPCs, WindowsPCs
<1>5. pc' \in PCs \cup {"done"} /\ (pc' # "done" => result' = "none")
    BY <1>3 DEF GoesOn, Control
<1> QED BY <1>2, <1>4, <1>5 DEF Control, GoesOn

LEMMA DiscoveryStep == DiscoveryInv /\ [Next]_vars => DiscoveryInv'
<1> SUFFICES ASSUME DiscoveryInv, [Next]_vars PROVE DiscoveryInv'
    OBVIOUS
<1> USE DEF DiscoveryInv
<1>1. /\ LinuxPCs \cap (DarwinPCs \cup WindowsPCs \cup {"done"}) = {}
      /\ DarwinPCs \cap (WindowsPCs \cup {"done"}) = {}
      /\ "done" \notin WindowsPCs
    BY DEF LinuxPCs, DarwinPCs, WindowsPCs
<1>2. CASE LinuxStep /\ UNCHANGED <<darwinVars, room>>
  <2>1. LinuxInv' /\ GoesOn(LinuxPCs)
      BY <1>2, LinuxStepKeeps
  <2>2. pc' \in LinuxPCs \cup {"done"} /\ World' /\ UNCHANGED <<darwinVars, socket, ever>>
      BY <1>2, <2>1 DEF GoesOn
  <2>3. Control' /\ Answer'
      BY <2>1, GoingOnControls
  <2> QED BY <1>1, <2>1, <2>2, <2>3, IdleDarwin, IdleWindows
<1>3. CASE DarwinStep /\ UNCHANGED <<linuxVars, room>>
  <2>1. DarwinInv' /\ GoesOn(DarwinPCs)
      BY <1>3, DarwinStepKeeps
  <2>2. /\ pc \in DarwinPCs /\ pc' \in DarwinPCs \cup {"done"} /\ World'
        /\ UNCHANGED <<linuxVars, ever>>
      BY <1>3, <2>1 DEF GoesOn
  <2>3. Control' /\ Answer'
      BY <2>1, GoingOnControls
  <2> QED BY <1>1, <2>1, <2>2, <2>3, IdleLinux, IdleWindows
<1>4. CASE WindowsStep /\ UNCHANGED <<linuxVars, darwinVars>>
  <2>1. WindowsInv' /\ GoesOn(WindowsPCs)
      BY <1>4, WindowsStepKeeps
  <2>2. /\ pc \in WindowsPCs /\ pc' \in WindowsPCs \cup {"done"} /\ World'
        /\ UNCHANGED <<linuxVars, darwinVars, socket, ever>>
      BY <1>4, <2>1 DEF GoesOn
  <2>3. Control' /\ Answer'
      BY <2>1, GoingOnControls
  <2> QED BY <1>1, <2>1, <2>2, <2>3, IdleLinux, IdleDarwin
<1>5. CASE SystemMoves /\ UNCHANGED <<linuxVars, darwinVars, room>>
  <2>1. pc # "done" /\ UNCHANGED <<pc, result, missed6, platform>>
      BY <1>5 DEF SystemMoves, Move
  <2>2. LinuxInv' /\ DarwinInv' /\ WindowsInv' /\ World'
      BY <1>5, <2>1, LinuxMoves, DarwinMoves, WindowsMoves, WorldMoves
  <2>3. Control' /\ Answer'
      BY <2>1 DEF Control, Answer
  <2> QED BY <2>2, <2>3
<1>6. CASE UNCHANGED vars
  <2>1. /\ UNCHANGED <<platform, socket, pc, rows, attempt, found, result, missed6, room>>
        /\ UNCHANGED <<callVars, historyVars, linuxVars, darwinVars>>
      BY <1>6 DEF vars, resolverVars
  <2>2. World' /\ Control'
      BY <2>1, WorldStays DEF Control, historyVars
  <2>3. LinuxInv'
      BY <2>1 DEF LinuxInv, TableRows, Rows, Inodes, HasInode, Awaited, Wanted, Settled, Bound,
         AsRow, Row, Matches, MatchesAddress, linuxVars, callVars, historyVars
  <2>4. DarwinInv'
      BY <2>1 DEF DarwinInv, OpenFiles, OneToASocket, TableRows, Rows, Wanted, Settled, Bound,
         AsRow, Row, Matches, MatchesAddress, Key, Distinct, darwinVars, callVars, historyVars
  <2>5. WindowsInv'
      BY <2>1 DEF WindowsInv, Grown, Shown, Born, WinTable, Rows, Settled, Bound, InTable, Row,
         callVars, historyVars
  <2>6. Answer'
      BY <2>1 DEF Answer, Complete, OwnersTrue, NoFalseBarrier, UnsettledMeansGrowing, Answered,
         Wanted, Settled, Bound, AsRow, Row, Matches, MatchesAddress, Owned, SoleHolder, Distinct,
         callVars, historyVars
  <2> QED BY <2>2, <2>3, <2>4, <2>5, <2>6
<1> QED BY <1>2, <1>3, <1>4, <1>5, <1>6 DEF Next, Resolve, Done

-----------------------------------------------------------------------------

LEMMA AtMostOneIs ==
    ASSUME NEW S, IsFiniteSet(S), Cardinality(S) <= 1
    PROVE  \A p, q \in S : p = q
<1>1. Cardinality(S) \in Nat
    BY FS_CardinalityType
<1>2. Cardinality(S) = 0 \/ Cardinality(S) = 1
    BY <1>1
<1>3. S = {} \/ \E x : S = {x}
    BY <1>2, FS_EmptySet, FS_Singleton
<1> QED BY <1>3

LEMMA WorldInit ==
    ASSUME Init
    PROVE  World
<1> USE DEF Bound
<1>1. /\ platform \in {"linux", "darwin", "windows"}
      /\ before = {s \in Sockets : socket[s].st # "unborn"}
      /\ kept = Holdings /\ ever = Holdings /\ recent = Listed
      /\ platform = "windows" => \A s \in Sockets : Bound(s) => socket[s].owners # {}
    BY DEF Init, ResolverInit, SocketsInit
<1>2. ASSUME NEW s \in Sockets
      PROVE  /\ socket[s].st \in States /\ socket[s].at \in Places
             /\ socket[s].owners \in SUBSET Procs
             /\ \A p, q \in socket[s].owners : p = q
             /\ ~Bound(s) => socket[s].owners = {}
             /\ socket[s] \in [st : States, at : Places, owners : SUBSET Procs]
  <2>1. CASE socket[s] = Unborn
      BY <2>1, PlacesAssumption DEF Unborn, NoPlace, States
  <2>2. CASE socket[s] # Unborn
    <3>1. /\ socket[s] \in [st : States \ {"unborn", "gone"}, at : Places, owners : SUBSET Procs]
          /\ Cardinality(socket[s].owners) <= 1
          /\ socket[s].st \in {"fin", "time_wait"} => socket[s].owners = {}
        BY <2>2 DEF Init, ResolverInit, SocketsInit
    <3>2. socket[s].owners \in SUBSET Procs /\ IsFiniteSet(Procs)
        BY <3>1, SocketsAssumption, FS_Union DEF Procs
    <3>3. \A p, q \in socket[s].owners : p = q
        BY <3>1, <3>2, FS_Subset, AtMostOneIs
    <3> QED BY <3>1, <3>3 DEF States
  <2> QED BY <2>1, <2>2
<1>3. socket \in [Sockets -> [st : States, at : Places, owners : SUBSET Procs]]
  <2>1. \E S : socket \in [Sockets -> S]
      BY DEF Init, ResolverInit, SocketsInit
  <2> QED BY <1>2, <2>1
<1>4. kept \subseteq before \X Procs
    BY <1>1 DEF Holdings, Holds
<1>5. \A s \in Sockets : \A p \in socket[s].owners : <<s, p>> \in ever
    BY <1>1, <1>2 DEF Holdings, Holds
<1>6. \A h \in kept : Bound(h[1]) /\ h[2] \in socket[h[1]].owners
    BY <1>1 DEF Holdings, Holds
<1> QED BY <1>1, <1>2, <1>3, <1>4, <1>5, <1>6 DEF World

LEMMA DiscoveryInit == Init => DiscoveryInv
<1> SUFFICES ASSUME Init PROVE DiscoveryInv
    OBVIOUS
<1>1. /\ rows = {} /\ attempt = 0 /\ found = {} /\ result = "none" /\ missed6 = FALSE
      /\ owner = [s \in Sockets |-> 0] /\ scanning = {} /\ unwalked = {} /\ rereading = FALSE
      /\ opened = {} /\ orphans = {} /\ unlisted = Visible /\ room = Room
    BY DEF Init, ResolverInit, LinuxInit, DarwinInit, WindowsInit
<1>2. /\ platform = "linux" => pc = "netlink4"
      /\ platform = "darwin" => pc = "netstat"
      /\ platform = "windows" => pc = "fetch4"
      /\ platform \in {"linux", "darwin", "windows"}
    BY DEF Init
<1>3. World
    BY WorldInit
<1>4. Control
    BY <1>1, <1>2 DEF Control, LinuxPCs, DarwinPCs, WindowsPCs
<1>5. LinuxInv
    BY <1>1, <1>2 DEF LinuxInv, TableRows
<1>6. DarwinInv
    BY <1>1, <1>2, FS_EmptySet DEF DarwinInv, OpenFiles, OneToASocket, TableRows
<1>7. WindowsInv
    BY <1>1, <1>2, FetchAssumption DEF WindowsInv, Grown
<1>8. Answer
    BY <1>2 DEF Answer
<1> QED BY <1>3, <1>4, <1>5, <1>6, <1>7, <1>8 DEF DiscoveryInv

(* In every state of a call the rows and bindings it has agree with what     *)
(* the sockets were since it began.                                          *)
THEOREM DiscoveryInvariant == Spec => []DiscoveryInv
BY DiscoveryInit, DiscoveryStep, PTL DEF Spec

(***************************************************************************)
(* A port is reported free only if none of its sockets was open from the   *)
(* beginning of the call to its end, and in TIME_WAIT only if no process   *)
(* had one open throughout, as far as the tables were read and the request *)
(* was not narrowed.                                                       *)
(***************************************************************************)
THEOREM FreeIsFree == Spec => []FreeMeansFree
<1>1. ASSUME DiscoveryInv, Answered, ~missed6
      PROVE  /\ Verdict = "free" => \A s \in before : Bound(s) => ~Matches(AsRow(s))
             /\ Verdict = "time_wait" /\ Bindings = found =>
                    \A h \in kept : ~Matches(AsRow(h[1]))
  <2>1. World /\ \A s \in Sockets : Wanted(s) => \E b \in found : b.st \in BoundStates
      BY <1>1 DEF DiscoveryInv, Answer, Answered, Complete
  <2>2. ASSUME Verdict = "free", NEW s \in before, Bound(s), Matches(AsRow(s))
        PROVE  FALSE
    <3>1. Bindings = {}
        BY <2>2 DEF Verdict
    <3>2. found = {}
        BY <3>1 DEF Bindings, Narrow
    <3>3. Wanted(s) /\ s \in Sockets
        BY <2>1, <2>2 DEF World, Wanted, Settled
    <3> QED BY <2>1, <3>2, <3>3
  <2>3. ASSUME Verdict = "time_wait", Bindings = found, NEW h \in kept, Matches(AsRow(h[1]))
        PROVE  FALSE
    <3>1. \A b \in found : b.st = "time_wait"
        BY <2>3 DEF Verdict, AllTimeWait
    <3>2. Wanted(h[1]) /\ h[1] \in Sockets
        BY <2>1, <2>3 DEF World, Wanted, Settled
    <3> QED BY <2>1, <3>1, <3>2 DEF BoundStates
  <2> QED BY <2>2, <2>3
<1>2. DiscoveryInv => FreeMeansFree
    BY <1>1 DEF FreeMeansFree
<1> QED BY <1>2, DiscoveryInvariant, PTL

(***************************************************************************)
(* Every named owner had the socket open during the call, and a process    *)
(* with sole possession of a socket throughout is named as its owner.      *)
(***************************************************************************)
THEOREM OwnersAreTrue == Spec => []OwnersTrue
<1>1. DiscoveryInv => OwnersTrue
    BY DEF DiscoveryInv, Answer, OwnersTrue, Answered
<1> QED BY <1>1, DiscoveryInvariant, PTL

(***************************************************************************)
(* An open socket is reported without an owner only if no process that     *)
(* portpin may inspect had it throughout, and never once it has left the   *)
(* tables.                                                                 *)
(***************************************************************************)
THEOREM NoBarrierInvented == Spec => []NoFalseBarrier
<1>1. DiscoveryInv => NoFalseBarrier
    BY DEF DiscoveryInv, Answer, NoFalseBarrier, Answered
<1> QED BY <1>1, DiscoveryInvariant, PTL

(***************************************************************************)
(* On Windows, fetchTable gives up only on a table that grew between all   *)
(* its attempts.                                                           *)
(***************************************************************************)
THEOREM GivesUpOnGrowth == Spec => []UnsettledMeansGrowing
<1>1. DiscoveryInv => UnsettledMeansGrowing
    BY DEF DiscoveryInv, Control, Answer, UnsettledMeansGrowing
<1> QED BY <1>1, DiscoveryInvariant, PTL

=============================================================================
