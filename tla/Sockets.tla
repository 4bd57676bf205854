------------------------------ MODULE Sockets ------------------------------
(***************************************************************************)
(* The sockets of the system as internal/discover finds them: the tables   *)
(* the kernel lists (netlink, /proc/net, netstat, IPHlpAPI) and the open   *)
(* files of processes (/proc/PID/fd, lsof).  The two are torn down one     *)
(* after the other (discover_linux.go:121-128).                            *)
(*                                                                         *)
(* Nothing here is under src/: between two reads of portpin processes bind *)
(* sockets, share them with their children and close them, and the kernel  *)
(* drains the connections they leave.                                      *)
(***************************************************************************)
EXTENDS Integers, FiniteSets

CONSTANTS
    Visible,    \* the PIDs whose open files portpin may read
    Hidden,     \* those of other users
    Sockets,    \* numbers of sockets, in the order of the tables
    Places,     \* the local endpoints they may have
    MaxMoves    \* bound on what happens while one call of Resolve runs

ASSUME SocketsAssumption ==
    /\ Visible \cup Hidden \subseteq Nat \ {0} /\ Visible \cap Hidden = {}
    /\ Sockets \subseteq Nat \ {0} /\ IsFiniteSet(Sockets)
    /\ IsFiniteSet(Visible) /\ IsFiniteSet(Hidden)
    /\ MaxMoves \in Nat

VARIABLES
    platform,   \* "linux", "darwin" or "windows"
    socket,     \* number -> [st, at, owners]
    moves

Procs == Visible \cup Hidden

(* Addresses after Unmap.  A place is in the table of its socket's family: *)
(* [v6 |-> TRUE, ip |-> "127.0.0.1", ...] is ::ffff:127.0.0.1.             *)
IPv4 == {"0.0.0.0", "127.0.0.1"}
Unspecified == {"0.0.0.0", "::"}
IPs == IPv4 \cup {"::", "::1"}

ASSUME PlacesAssumption ==
    Places # {} /\ Places \subseteq [v6 : BOOLEAN, ip : IPs, port : Nat]

States == {"unborn", "listen", "established", "fin", "time_wait", "gone"}

SocketsTypeOK ==
    /\ platform \in {"linux", "darwin", "windows"}
    /\ socket \in [Sockets -> [st : States, at : Places, owners : SUBSET Procs]]
    /\ moves \in 0..MaxMoves

(* Bound: processes may have it open.  Connections outlive that.           *)
Bound(s) == socket[s].st \in {"listen", "established"}
InTable(s) == Bound(s) \/ socket[s].st \in {"fin", "time_wait"}
Holds(s, p) == Bound(s) /\ p \in socket[s].owners

(* Only a concrete address is a connection's. *)
Fits(st, at) == st # "listen" => at.ip \notin Unspecified

NoPlace == CHOOSE at \in Places : TRUE
Unborn == [st |-> "unborn", at |-> NoPlace, owners |-> {}]

SocketsInit ==
    /\ socket \in [Sockets -> {Unborn} \cup
           {k \in [st : States \ {"unborn", "gone"}, at : Places, owners : SUBSET Procs] :
               /\ Fits(k.st, k.at)
               /\ Cardinality(k.owners) <= 1
               /\ k.st \in {"fin", "time_wait"} => k.owners = {}}]
    /\ platform = "windows" =>
           \A s \in Sockets : Bound(s) => socket[s].owners # {}
    /\ moves = 0

Set(s, st, owners) ==
    socket' = [socket EXCEPT ![s] = [st |-> st, at |-> socket[s].at, owners |-> owners]]

(* p listens at a place, or accepts or makes a connection. *)
Bind(s, p) ==
    /\ socket[s].st = "unborn"
    /\ \E st \in {"listen", "established"}, at \in Places :
           Fits(st, at) /\ socket' = [socket EXCEPT ![s] = [st |-> st, at |-> at, owners |-> {p}]]

(* A child inherits the descriptor.  Windows lists the one that made it.   *)
Share(s, p) ==
    /\ platform # "windows"
    /\ Bound(s) /\ socket[s].owners # {}
    /\ p \notin socket[s].owners
    /\ Set(s, socket[s].st, socket[s].owners \cup {p})

(* p closes it or exits, ahead of the kernel's removing it from the table. *)
(* Windows does both at once, and a connection it drains keeps its PID.    *)
Close(s, p) ==
    /\ Holds(s, p)
    /\ IF platform # "windows" THEN Set(s, socket[s].st, socket[s].owners \ {p})
       ELSE IF socket[s].st = "listen" THEN Set(s, "gone", {})
       ELSE Set(s, "fin", {p})

(* The kernel drains a socket nobody has open, and removes it. *)
Drain(s) ==
    /\ Bound(s) => socket[s].owners = {}
    /\ \E st \in CASE socket[s].st = "listen"      -> {"gone"}
                   [] socket[s].st = "established" -> {"fin", "time_wait", "gone"}
                   [] socket[s].st = "fin"         -> {"time_wait", "gone"}
                   [] socket[s].st = "time_wait"   -> {"gone"}
                   [] OTHER -> {} :
           Set(s, st, {})

Move ==
    /\ moves < MaxMoves
    /\ moves' = moves + 1
    /\ UNCHANGED platform
    /\ \E s \in Sockets : \/ Drain(s)
                          \/ \E p \in Procs : Bind(s, p) \/ Share(s, p) \/ Close(s, p)

=============================================================================
