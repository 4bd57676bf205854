---------------------------- MODULE ResolveLinux ----------------------------
(***************************************************************************)
(* internal/discover on Linux (discover_linux.go, netlink_linux.go): the   *)
(* tables by netlink, or by /proc/net when netlink fails, then walks of    *)
(* /proc for the processes with the inodes of interest, retried, and a     *)
(* second look at the tables for what closed meanwhile.  A dump of one     *)
(* family and the descriptors of one process are read in a step each.      *)
(***************************************************************************)
EXTENDS Resolver

CONSTANT Retries    \* attachOwnersRetries

VARIABLES
    owner,      \* inode -> the PID found with it, or 0
    scanning,   \* the inodes the walk of /proc looks for
    unwalked,   \* the PIDs that the walk has still to visit
    rereading   \* the tables are read by liveInodes

linuxVars == <<owner, scanning, unwalked, rereading>>

LinuxPCs == {"netlink4", "netlink6", "proc4", "proc6", "listing", "walk"}

LinuxTypeOK ==
    /\ owner \in [Sockets -> Visible \cup {0}]
    /\ scanning \subseteq Sockets
    /\ unwalked \subseteq Visible
    /\ rereading \in BOOLEAN

LinuxInit ==
    /\ owner = [s \in Sockets |-> 0]
    /\ scanning = {} /\ unwalked = {}
    /\ rereading = FALSE

(* What the reading of the tables leaves alone. *)
Reading == UNCHANGED <<linuxVars, callVars, historyVars, platform, socket, moves, attempt>>

(* What no step from the tables on to the return changes. *)
Outside == UNCHANGED <<callVars, historyVars, platform, socket, moves, missed6>>

LinuxLocalsGo ==
    /\ owner' = [s \in Sockets |-> 0]
    /\ scanning' = {} /\ unwalked' = {}
    /\ rereading' = FALSE

-----------------------------------------------------------------------------

(* netlinkRows: a dump of each family, over one netlink socket. *)
Netlink4 ==
    /\ pc = "netlink4"
    /\ rows' = TableOf(FALSE)
    /\ Proceed("netlink6")
    /\ UNCHANGED missed6 /\ Reading

Netlink6 ==
    /\ pc = "netlink6"
    /\ rows' = rows \cup TableOf(TRUE)
    /\ Proceed("listing")
    /\ UNCHANGED missed6 /\ Reading

(* An IPv6 dump that fails is left out. *)
NetlinkSkips6 ==
    /\ pc = "netlink6"
    /\ missed6' = TRUE
    /\ Proceed("listing")
    /\ UNCHANGED rows /\ Reading

(* No netlink socket, or an IPv4 dump of either protocol fails. *)
NetlinkFails ==
    /\ pc \in {"netlink4", "netlink6"}
    /\ rows' = {}
    /\ Proceed("proc4")
    /\ UNCHANGED missed6 /\ Reading

(* procRows *)
Proc4 ==
    /\ pc = "proc4"
    /\ rows' = TableOf(FALSE)
    /\ Proceed("proc6")
    /\ UNCHANGED missed6 /\ Reading

Proc6 ==
    /\ pc = "proc6"
    /\ rows' = rows \cup TableOf(TRUE)
    /\ Proceed("listing")
    /\ UNCHANGED missed6 /\ Reading

ProcFails ==
    /\ pc \in {"proc4", "proc6"}
    /\ Fail("error") /\ LinuxLocalsGo
    /\ Outside

-----------------------------------------------------------------------------

(* The kernel's own sockets have inode 0. *)
HasInode(r) == r.st \in {"listen", "established"}

Inodes(rs) == {r.sock : r \in {x \in rs : HasInode(x)}}

(* A walk of /proc begins.  Of the descriptors it cannot read it sees none. *)
Walk(inodes) ==
    /\ scanning' = inodes
    /\ unwalked' = Visible
    /\ pc' = "walk"

(* attachOwners, at its end: bs with the owners found. *)
WithOwners(bs) == {[b EXCEPT !.pid = IF HasInode(b) THEN owner[b.sock] ELSE 0] : b \in bs}

(* Resolve and ListAll: the candidates, and of them attachOwners' want. *)
Candidates ==
    /\ pc = "listing" /\ ~rereading
    /\ LET want == Inodes(Matching(rows))
       IN  IF want = {} THEN Return(Matching(rows)) /\ LinuxLocalsGo
           ELSE /\ Walk(want)
                /\ found' = Matching(rows)
                /\ rows' = {}
                /\ UNCHANGED <<result, attempt, owner, rereading>>
    /\ Outside

KeptAll(live) == found   \* mutant: a binding without an owner is kept

KeptOwned(live) == {b \in found : HasInode(b) => owner[b.sock] # 0}   \* mutant: or dropped

(* The candidates that have an owner, no inode, or an inode still live.    *)
Kept(live) == {b \in found : HasInode(b) => owner[b.sock] # 0 \/ b.sock \in live}

(* attachOwners with the inodes of liveInodes. *)
LiveInodes ==
    /\ pc = "listing" /\ rereading
    /\ Return(WithOwners(Kept(Inodes(rows)))) /\ LinuxLocalsGo
    /\ Outside

FirstOwnerOnly(p) ==   \* mutant: the walk overwrites what it did not find
    /\ pc = "walk" /\ p \in unwalked /\ p = Least(unwalked)
    /\ unwalked' = unwalked \ {p}
    /\ owner' = [s \in Sockets |-> IF p \in socket[s].owners THEN p ELSE 0]
    /\ UNCHANGED <<scanning, rereading, resolverVars, platform, socket, moves>>

(* scanOwners: one process, in the order of the listing.  The last one     *)
(* found with an inode stays.                                              *)
WalkProcess(p) ==
    /\ pc = "walk" /\ p \in unwalked /\ p = Least(unwalked)
    /\ unwalked' = unwalked \ {p}
    /\ owner' = [s \in Sockets |-> IF s \in scanning /\ p \in socket[s].owners
                                   THEN p ELSE owner[s]]
    /\ UNCHANGED <<scanning, rereading, resolverVars, platform, socket, moves>>

Ownerless == {s \in Inodes(found) : owner[s] = 0}

(* attachOwners: every inode has an owner. *)
AllOwned ==
    /\ pc = "walk" /\ unwalked = {}
    /\ Ownerless = {}
    /\ Return(WithOwners(found)) /\ LinuxLocalsGo
    /\ Outside

RetryAtWill ==   \* mutant: the attempts are not counted
    /\ pc = "walk" /\ unwalked = {}
    /\ Ownerless # {}
    /\ Walk(Ownerless)
    /\ UNCHANGED <<owner, rereading, rows, found, result, attempt>>
    /\ Outside

(* attachOwners: another walk, for the inodes without an owner. *)
Retry ==
    /\ pc = "walk" /\ unwalked = {}
    /\ Ownerless # {} /\ attempt < Retries
    /\ attempt' = attempt + 1
    /\ Walk(Ownerless)
    /\ UNCHANGED <<owner, rereading, rows, found, result>>
    /\ Outside

(* attachOwners: the retries are exhausted. *)
Reread ==
    /\ pc = "walk" /\ unwalked = {}
    /\ Ownerless # {} /\ attempt = Retries
    /\ rereading' = TRUE
    /\ rows' = {}
    /\ Proceed("netlink4")
    /\ recent' = Listed
    /\ UNCHANGED <<owner, scanning, unwalked, callVars, kept, ever, platform, socket,
                   moves, attempt, missed6>>

LinuxStep ==
    \/ Netlink4 \/ Netlink6 \/ NetlinkSkips6 \/ NetlinkFails
    \/ Proc4 \/ Proc6 \/ ProcFails
    \/ Candidates \/ LiveInodes
    \/ \E p \in Visible : WalkProcess(p)
    \/ AllOwned \/ Retry \/ Reread

=============================================================================
