---------------------------- MODULE MCDiscovery ----------------------------
(* TLC: two sockets, among them one of another user.                        *)
EXTENDS Discovery

At(v6, ip) == [v6 |-> v6, ip |-> ip, port |-> 1]

MCPlaces == {At(FALSE, "127.0.0.1"), At(FALSE, "0.0.0.0"), At(TRUE, "::")}
MCQueries == {ListAll, ResolveAt("nil", 1), ResolveAt("127.0.0.1", 1)}

=============================================================================
