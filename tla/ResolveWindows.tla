--------------------------- MODULE ResolveWindows ---------------------------
(***************************************************************************)
(* internal/discover on Windows (discover_windows.go): IPHlpAPI lists the  *)
(* sockets of a family with their PIDs, into a buffer that is made as      *)
(* large as the call before found the table to be.  The call that finds it *)
(* too small always says by how much.                                      *)
(***************************************************************************)
EXTENDS Resolver

CONSTANTS
    Room,       \* the rows that the first buffer has room for
    Attempts    \* of fetchTable

ASSUME FetchAssumption == Room \in Nat /\ Attempts \in Nat \ {0}

VARIABLE room   \* the rows there is room for

WindowsPCs == {"fetch4", "fetch6", "rows"}

WindowsTypeOK == room \in Nat

WindowsInit == room = Room

(* TIME_WAIT rows are kernel-owned. *)
WinTable(v6) ==
    {Row(s, IF socket[s].owners = {} THEN 0 ELSE Least(socket[s].owners)) :
        s \in {t \in Sockets : InTable(t) /\ socket[t].at.v6 = v6}}

FetchOf(v6) == pc = IF v6 THEN "fetch6" ELSE "fetch4"

FitsBuffer(v6) == Cardinality(WinTable(v6)) <= room

(* all: the next table, into a buffer of its own. *)
NextTable(v6) ==
    /\ Proceed(IF v6 THEN "rows" ELSE "fetch6")
    /\ room' = Room
    /\ attempt' = 0

(* fetchTable: the call fills the buffer. *)
Fetch(v6) ==
    /\ FetchOf(v6)
    /\ FitsBuffer(v6)
    /\ rows' = rows \cup WinTable(v6)
    /\ NextTable(v6)
    /\ UNCHANGED <<callVars, historyVars, platform, socket, moves, missed6>>

TryAgain(v6) ==   \* mutant: the buffer stays as it is
    /\ FetchOf(v6)
    /\ ~FitsBuffer(v6)
    /\ attempt + 1 < Attempts
    /\ attempt' = attempt + 1
    /\ UNCHANGED <<room, callVars, historyVars, platform, socket, moves, rows, pc, found,
                   result, missed6>>

(* fetchTable: ERROR_INSUFFICIENT_BUFFER, with the size there should be.     *)
(* Left out: the doubling of the buffer for an API that reports none.        *)
Grow(v6) ==
    /\ FetchOf(v6)
    /\ ~FitsBuffer(v6)
    /\ attempt + 1 < Attempts
    /\ attempt' = attempt + 1
    /\ room' = Cardinality(WinTable(v6))
    /\ UNCHANGED <<callVars, historyVars, platform, socket, moves, rows, pc, found,
                   result, missed6>>

(* fetchTable returns an error, which is fatal for IPv4. *)
FetchFails(v6, e) ==
    /\ FetchOf(v6)
    /\ e = "unsettled" => ~FitsBuffer(v6) /\ attempt + 1 = Attempts
    /\ IF v6 THEN missed6' = TRUE /\ NextTable(v6) /\ UNCHANGED rows
             ELSE Fail(e) /\ UNCHANGED <<room, missed6>>
    /\ UNCHANGED <<callVars, historyVars, platform, socket, moves>>

(* collect: the matching bindings with their processes. *)
WithProc(r) == [r EXCEPT !.pid = IF r.st = "time_wait" THEN 0 ELSE r.pid]

WinCollect ==
    /\ pc = "rows"
    /\ Return({WithProc(r) : r \in Matching(rows)})
    /\ UNCHANGED <<room, callVars, historyVars, platform, socket, moves, missed6>>

WindowsStep ==
    \/ \E v6 \in BOOLEAN :
           \/ Fetch(v6) \/ Grow(v6)
           \/ \E e \in {"error", "unsettled"} : FetchFails(v6, e)
    \/ WinCollect

=============================================================================
