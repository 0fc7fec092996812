---------------------- MODULE MCVerificationRunPostgres ----------------------
(* A small instance of VerificationRunPostgres. *)
EXTENDS VerificationRunPostgres, TLC

CONSTANTS u1, k1, w1, w2, t1, t2, t3

\* One listing, asked for once.
Owners == [l \in Listings |-> u1]
OnceAsked == {[owner |-> u1, key |-> k1, listings |-> <<1>>]}
=============================================================================
