--------------------------- MODULE MCLinuxService ---------------------------
(* Two peers that make changes; three peers on two request slots that only   *)
(* read; and signals, which share no state with the requests: each in        *)
(* behaviours of their own.                                                  *)
EXTENDS LinuxService, TLC

CONSTANTS c1, c2, c3

ThreePeers == {c1, c2, c3}

ChangesReadsOrSignals == {{c1, c2, "changes"}, {c1, c2, c3}, {"signals"}}

Symmetry == Permutations({c1, c2})
=============================================================================
