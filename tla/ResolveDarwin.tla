--------------------------- MODULE ResolveDarwin ---------------------------
(***************************************************************************)
(* internal/discover on macOS (discover_darwin.go, sockrow.go): netstat    *)
(* lists the sockets, lsof then lists the processes that have them open,   *)
(* and the rows are matched by endpoint, for neither gives an identity of  *)
(* the socket.  A netstat is one step, and so is lsof's look at a process. *)
(***************************************************************************)
EXTENDS Resolver

VARIABLES
    opened,     \* lsof's rows
    unlisted,   \* the PIDs that lsof has still to visit
    orphans     \* collect's rows without an owner

darwinVars == <<opened, unlisted, orphans>>

DarwinPCs == {"netstat", "lsof", "recheck"}

DarwinTypeOK ==
    /\ opened \subseteq Rows
    /\ unlisted \subseteq Visible
    /\ orphans \subseteq Rows

DarwinInit ==
    /\ opened = {} /\ orphans = {}
    /\ unlisted = Visible

DarwinLocalsGo ==
    /\ opened' = {} /\ orphans' = {}
    /\ unlisted' = Visible

(* keyOf.  A connection has its remote endpoint to itself. *)
Key(r) == <<r.at.ip, r.at.port, IF r.st = "listen" THEN 0 ELSE r.sock>>

Tally(rs, k) == Cardinality({x \in rs : Key(x) = k})

(* UnownedRows: of the rows with one key, as many are passed over as are   *)
(* owned, the first in the table before the others.                        *)
UnownedRows(table, owned) ==
    {r \in table : Tally({x \in table : x.sock <= r.sock}, Key(r)) > Tally(owned, Key(r))}

(* netstat lists both families. *)
Both == TableOf(FALSE) \cup TableOf(TRUE)

(* netstatRows *)
Netstat ==
    /\ pc = "netstat"
    /\ rows' = Both
    /\ Proceed("lsof")
    /\ UNCHANGED <<darwinVars, callVars, historyVars, platform, socket, moves, attempt, missed6>>

(* netstatRows or lsofRows; lsof's exit code 1 is no failure, but nothing found. *)
ToolFails ==
    /\ pc \in {"netstat", "lsof", "recheck"}
    /\ Fail("error")
    /\ DarwinLocalsGo
    /\ UNCHANGED <<callVars, historyVars, platform, socket, moves, missed6>>

(* lsofRows: a row for each socket that p has open. *)
Lsof(p) ==
    /\ pc = "lsof" /\ p \in unlisted /\ p = Least(unlisted)
    /\ unlisted' = unlisted \ {p}
    /\ opened' = opened \cup {Row(s, p) : s \in {t \in Sockets : Holds(t, p)}}
    /\ UNCHANGED <<orphans, resolverVars, platform, socket, moves>>

OrphansSeen == Matching(UnownedRows(rows, opened))

(* collect: every orphan is in TIME_WAIT. *)
Collect ==
    /\ pc = "lsof" /\ unlisted = {}
    /\ AllTimeWait(OrphansSeen)
    /\ Return(Matching(opened) \cup OrphansSeen)
    /\ DarwinLocalsGo
    /\ UNCHANGED <<callVars, historyVars, platform, socket, moves, missed6>>

(* collect: some orphan may have closed since, and netstat is asked again. *)
Recheck ==
    /\ pc = "lsof" /\ unlisted = {}
    /\ ~AllTimeWait(OrphansSeen)
    /\ orphans' = OrphansSeen
    /\ Proceed("recheck")
    /\ recent' = Listed
    /\ UNCHANGED <<opened, unlisted, callVars, kept, ever, platform, socket, moves, rows,
                   attempt, missed6>>

StillThere(fresh) == UnownedRows(orphans, UnownedRows(orphans, fresh))

CollectFresh ==
    /\ pc = "recheck"
    /\ Return(Matching(opened) \cup StillThere(Both))
    /\ DarwinLocalsGo
    /\ UNCHANGED <<callVars, historyVars, platform, socket, moves, missed6>>

DarwinStep ==
    \/ Netstat \/ ToolFails
    \/ \E p \in Visible : Lsof(p)
    \/ Collect \/ Recheck \/ CollectFresh

=============================================================================
