--------------------------- MODULE MCListingReview ---------------------------
(* A small instance of ListingReview. *)
EXTENDS ListingReview, TLC

CONSTANTS p1, p2

\* One product the catalog vouches for, and one it either knows or does not.
OneAttested == {[approved |-> {p1}, attested |-> {p1}], [approved |-> {p1, p2}, attested |-> {p1}]}
=============================================================================
