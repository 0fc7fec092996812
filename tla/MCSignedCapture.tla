--------------------------- MODULE MCSignedCapture ---------------------------
(* A small instance of SignedCapture. *)
EXTENDS SignedCapture, TLC

CONSTANTS c1, c2, plain, ambiguous, corrected, bare, other

\* Two pages, of one aircraft unless the second is given other.
Urls == c1 :> 1 @@ c2 :> 2

\* Every kind of payload against every other that it can disturb, and one page whose
\* extraction is not the same twice; last, pages of two aircraft.
Gives == {c1 :> {ambiguous} @@ c2 :> {corrected},
          c1 :> {ambiguous} @@ c2 :> {plain},
          c1 :> {plain} @@ c2 :> {plain},
          c1 :> {bare} @@ c2 :> {plain},
          c1 :> {corrected} @@ c2 :> {corrected, plain},
          c1 :> {bare} @@ c2 :> {other}}
Tails2 == [p \in Payloads |-> IF p = other THEN 2 ELSE 1]
=============================================================================
