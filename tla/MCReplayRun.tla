---------------------------- MODULE MCReplayRun -----------------------------
(* Small instances of ReplayRun. *)
EXTENDS ReplayRun, TLC

CONSTANTS r1, r2, s1, s2, w1, w2, w3, p1, p2

\* One manifest of one capture.
OneMember == r1 :> (1 :> 1)
\* One manifest of two captures.
TwoMembers == r1 :> (1 :> 1 @@ 2 :> 1)
\* Two manifests of the same two captures.
SameMembers == r1 :> (1 :> 1 @@ 2 :> 1) @@ r2 :> (1 :> 1 @@ 2 :> 1)
\* A manifest and a later one that has one more capture.
GrowingMembers == r1 :> (1 :> 1) @@ r2 :> (1 :> 1 @@ 2 :> 1)
\* Two manifests of one capture, exported before and after its identity changed.
ChangedIdentity == r1 :> (1 :> 1) @@ r2 :> (1 :> 2)

OneSource == 1 :> s1
OwnSources == 1 :> s1 @@ 2 :> s2
SharedSource == 1 :> s1 @@ 2 :> s1

AnyWorker == Permutations(Workers)
=============================================================================
