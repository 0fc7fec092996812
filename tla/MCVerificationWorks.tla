------------------------- MODULE MCVerificationWorks -------------------------
(* Small instances of VerificationWorks. *)
EXTENDS VerificationWorks, TLC

CONSTANTS u1, k1, k2, w1, w2, t1, t2, t3

Ask(u, k, s) == [owner |-> u, key |-> k, listings |-> s]

\* Two listings of one user, asked for together and, with another key, one alone.
Owners == [l \in Listings |-> u1]
PairAndOne == {Ask(u1, k1, <<2, 1>>), Ask(u1, k2, <<1>>)}
=============================================================================
