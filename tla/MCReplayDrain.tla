--------------------------- MODULE MCReplayDrain ----------------------------
(* Small instances of ReplayDrain. *)
EXTENDS ReplayDrain, TLC

CONSTANTS r1, r2, s1, s2, w1, w2, w3, p1, p2

\* One manifest of two captures.
TwoMembers == r1 :> (1 :> 1 @@ 2 :> 1)
OwnSources == 1 :> s1 @@ 2 :> s2
=============================================================================
