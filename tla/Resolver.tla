------------------------------ MODULE Resolver ------------------------------
(***************************************************************************)
(* What the three resolvers of internal/discover share: the filter         *)
(* (internal/model/filter.go), the rows of a socket table, one call of     *)
(* Resolve or ListAll, and what runKill concludes from it.                 *)
(***************************************************************************)
EXTENDS Sockets

CONSTANT Queries    \* the calls: of ListAll, and of Resolve by filter

VARIABLES
    query,      \* the call
    pc,         \* where it stands; "done" once it has returned
    rows,       \* the rows of the tables read so far
    attempt,    \* of a bounded retry
    found,      \* the bindings, before NarrowToExactMatch
    result,     \* "none", "ok", "error", "unsettled"
    before,     \* history: the sockets there were when the call began
    kept,       \* history: <<socket, PID>> held ever since
    ever,       \* history: <<socket, PID>> held at some time in the call
    recent,     \* history: sockets in the tables since their last reading began
    missed6     \* history: an IPv6 table was left out

callVars == <<query, before>>
historyVars == <<kept, ever, recent>>
resolverVars == <<callVars, historyVars, pc, rows, attempt, found, result, missed6>>

(* A row or a binding: "sock" is its inode, history where the system gives  *)
(* none; pid 0 is a nil Proc.                                               *)
Rows == [sock : Sockets, st : States, at : Places, pid : Procs \cup {0}]
Row(s, p) == [sock |-> s, st |-> socket[s].st, at |-> socket[s].at, pid |-> p]

ListAll == [list |-> TRUE, ip |-> "nil", port |-> 0]
ResolveAt(ip, port) == [list |-> FALSE, ip |-> ip, port |-> port]

MatchesAddress(ip, at) ==
    \/ ip = "nil"
    \/ at.ip \in Unspecified /\ (at.ip = "::" \/ ip \in IPv4)
    \/ at.ip \notin Unspecified /\ ip = at.ip

(* Filter.Matches, and the match of ListAll. *)
Matches(r) ==
    IF query.list THEN r.st = "listen"
    ELSE r.at.port = query.port /\ MatchesAddress(query.ip, r.at)

Matching(rs) == {r \in rs : Matches(r)}

(* Filter.NarrowToExactMatch *)
Narrow(bs) ==
    LET exact == {b \in bs : b.at.ip = query.ip}
    IN  IF query.ip \in Unspecified \cup {"nil"} \/ exact = {} THEN bs ELSE exact

Bindings == Narrow(found)

(* runKill, up to the owners it goes on to stop. *)
AnyTimeWait(bs) == \E b \in bs : b.st = "time_wait"   \* mutant: one row is enough

AllTimeWait(bs) == \A b \in bs : b.st = "time_wait"

Owned(bs) == {b \in bs : b.pid # 0}

Verdict ==
    IF result # "ok" THEN "failure"
    ELSE IF Bindings = {} THEN "free"
    ELSE IF Owned(Bindings) # {} THEN "owned"
    ELSE IF AllTimeWait(Bindings) THEN "time_wait" ELSE "permission"

-----------------------------------------------------------------------------

Holdings == {h \in Sockets \X Procs : Holds(h[1], h[2])}
Listed == {s \in Sockets : InTable(s)}

ResolverTypeOK ==
    /\ SocketsTypeOK
    /\ query \in Queries
    /\ rows \subseteq Rows
    /\ attempt \in Nat
    /\ found \subseteq Rows
    /\ result \in {"none", "ok", "error", "unsettled"}
    /\ before \subseteq Sockets /\ recent \subseteq Sockets
    /\ kept \subseteq ever /\ ever \subseteq Sockets \X Procs
    /\ missed6 \in BOOLEAN

ResolverInit ==
    /\ SocketsInit
    /\ query \in Queries
    /\ rows = {} /\ attempt = 0
    /\ found = {} /\ result = "none"
    /\ before = {s \in Sockets : socket[s].st # "unborn"}
    /\ kept = Holdings /\ ever = Holdings /\ recent = Listed
    /\ missed6 = FALSE

(* Where the call looks at the rows it has read.  Such a step commutes with *)
(* whatever the system does, which therefore waits for it.                 *)
Local == {"listing", "rows"}

(* The system moves on while the call runs. *)
SystemMoves ==
    /\ pc \notin Local \cup {"done"}
    /\ Move
    /\ kept' = kept \cap Holdings'
    /\ ever' = ever \cup Holdings'
    /\ recent' = recent \cup Listed'
    /\ UNCHANGED <<callVars, pc, rows, attempt, found, result, missed6>>

TableOf(v6) == {Row(s, 0) : s \in {t \in Sockets : InTable(t) /\ socket[t].at.v6 = v6}}

(* The call returns, and its locals go. *)
Return(bs) == found' = bs /\ result' = "ok" /\ pc' = "done" /\ rows' = {} /\ attempt' = 0
Fail(e)    == found' = {} /\ result' = e /\ pc' = "done" /\ rows' = {} /\ attempt' = 0
Proceed(l) == pc' = l /\ UNCHANGED <<found, result>>

Least(ps) == CHOOSE p \in ps : \A q \in ps : p <= q

=============================================================================
