----------------------------- MODULE Discovery -----------------------------
(***************************************************************************)
(* One call of the resolver of the platform portpin was built for, while   *)
(* the sockets it looks for come and go.                                   *)
(***************************************************************************)
EXTENDS ResolveLinux, ResolveDarwin, ResolveWindows

vars == <<platform, socket, moves, resolverVars, linuxVars, darwinVars, room>>

TypeOK ==
    /\ ResolverTypeOK
    /\ pc \in {"done"} \cup LinuxPCs \cup DarwinPCs \cup WindowsPCs
    /\ LinuxTypeOK /\ DarwinTypeOK /\ WindowsTypeOK

Init ==
    /\ platform \in {"linux", "darwin", "windows"}
    /\ ResolverInit
    /\ LinuxInit /\ DarwinInit /\ WindowsInit
    /\ pc = CASE platform = "linux"   -> "netlink4"
              [] platform = "darwin"  -> "netstat"
              [] platform = "windows" -> "fetch4"

Resolve ==
    \/ LinuxStep /\ UNCHANGED <<darwinVars, room>>
    \/ DarwinStep /\ UNCHANGED <<linuxVars, room>>
    \/ WindowsStep /\ UNCHANGED <<linuxVars, darwinVars>>

Done == pc = "done" /\ UNCHANGED vars

Next ==
    \/ Resolve
    \/ SystemMoves /\ UNCHANGED <<linuxVars, darwinVars, room>>
    \/ Done

(* portpin runs; of the processes and the kernel nothing is assumed. *)
Spec == Init /\ [][Next]_vars /\ WF_vars(Resolve)

-----------------------------------------------------------------------------

Answered == pc = "done" /\ result = "ok"

AsRow(s) == Row(s, 0)

(* A port is reported free only if none of its sockets was open, or could  *)
(* be opened by a process, from the beginning of the call to its end, and  *)
(* in TIME_WAIT only if no process had one open throughout, as far as the  *)
(* request does not narrow it: the tables are read in parts and again, and *)
(* no part hides another (main.go:169-180, README.md:238).  An IPv6 table  *)
(* that could not be read is left out.                                     *)
FreeMeansFree ==
    Answered /\ ~missed6 =>
        /\ Verdict = "free" => \A s \in before : Bound(s) => ~Matches(AsRow(s))
        /\ Verdict = "time_wait" /\ Bindings = found =>
               \A h \in kept : ~Matches(AsRow(h[1]))

(* Every named owner had the socket open during the call, and a process    *)
(* with sole possession of a socket throughout is named as its owner, so   *)
(* that the probe sees a target that has not let go (main.go:402-413).     *)
SoleHolder(s, p) ==
    /\ <<s, p>> \in kept
    /\ p \in Visible \/ platform = "windows"
    /\ \A q \in Visible \ {p} : <<s, q>> \notin ever

OwnersTrue ==
    Answered =>
        /\ \A b \in Owned(found) : <<b.sock, b.pid>> \in ever
        /\ \A s \in Sockets, p \in Procs :
               SoleHolder(s, p) /\ Matches(AsRow(s)) /\ ~missed6 =>
                   \E b \in found : b.at = socket[s].at /\ b.pid = p

(* An open socket is reported without an owner only if no process that     *)
(* portpin may inspect had it throughout, and never once it has left the   *)
(* tables: a benign exit race is not taken for a permission problem        *)
(* (discover_linux.go:138-148).  On macOS, where rows are told apart by    *)
(* endpoint, of the sockets that do not share one.                         *)
Distinct(s) ==
    \A t \in Sockets \ {s} : socket[t].st = "unborn" \/ socket[t].at.ip # socket[s].at.ip

NoFalseBarrier ==
    Answered =>
        \A b \in found :
            /\ b.pid = 0 /\ b.st \in {"listen", "established"}
            /\ platform = "darwin" => Distinct(b.sock)
            => b.sock \in recent /\ \A p \in Visible : <<b.sock, p>> \notin kept

(* With exit code 2 there is nothing to signal (README.md:238), whatever   *)
(* the request was narrowed to.                                            *)
NothingToSignal ==
    Answered /\ Verdict = "time_wait" /\ ~missed6 =>
        \A h \in kept : h[2] \in Visible => ~Matches(AsRow(h[1]))

(* fetchTable gives up only on a table that grew between all its attempts  *)
(* (discover_windows.go:48-51).                                            *)
UnsettledMeansGrowing ==
    result = "unsettled" =>
        Cardinality({s \in Sockets : socket[s].st # "unborn"} \ before) >= Attempts - 1

(* A call returns, whatever the sockets do meanwhile (discover_linux.go:129, *)
(* discover_windows.go:69).                                                *)
Returns == <>(pc = "done")

=============================================================================
