-------------------------- MODULE MCVerificationRun --------------------------
(* Small instances of VerificationRun. *)
EXTENDS VerificationRun, TLC

CONSTANTS u1, u2, k1, k2, w1, w2, t1, t2, t3, t4

Ask(u, k, s) == [owner |-> u, key |-> k, listings |-> s]

\* Three listings of one user: two overlapping requests in different orders, a key
\* used for another request, and a request for somebody else's listing.
Owners == [l \in Listings |-> u1]
Overlapping == {Ask(u1, k1, <<2, 3, 1>>), Ask(u1, k2, <<1, 2>>), Ask(u1, k1, <<2>>),
                Ask(u2, k1, <<1>>)}

Interchangeable == Permutations(Workers) \cup Permutations(Tokens)
=============================================================================
