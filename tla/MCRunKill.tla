----------------------------- MODULE MCRunKill -----------------------------
EXTENDS RunKill, TLC

CONSTANTS own1, own2, other, v4, v6

MCVisible == {own1, own2}
MCHidden == {other}
MCEndpoints == {v4, v6}

(* Processes of a kind, and endpoints, are interchangeable. *)
MCSymmetry == Permutations(MCVisible) \cup Permutations(MCEndpoints)
=============================================================================
