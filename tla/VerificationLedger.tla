-------------------------- MODULE VerificationLedger --------------------------
(***************************************************************************)
(* What durable verification promises its users, without workers, leases,  *)
(* expiry, servers that die and what they recover.  A run is asked for as  *)
(* a whole; its listings are settled one after another, in the order asked *)
(* for, each once, by a result; a run that is cancelled drops what is not  *)
(* in flight at once and may still settle, or drop, the one that is; a run *)
(* ends when nothing is left to do, and stays as it ended.                 *)
(***************************************************************************)
EXTENDS Naturals, Sequences

CONSTANTS RunIds, Listings, OwnerOf, Requests, Outcomes, None

VARIABLES
  present,  \* listings that exist
  request,  \* request[r]: what was asked for, or None
  phase,    \* phase[r] of the run
  result    \* result[r][l]: what became of listing l in run r

vars == <<present, request, phase, result>>

Phases  == {"absent", "open", "cancelling", "completed", "cancelled"}
Results == {"none", "todo", "cancelled"} \cup Outcomes

Init ==
  /\ present = Listings
  /\ request = [r \in RunIds |-> None]
  /\ phase = [r \in RunIds |-> "absent"]
  /\ result = [r \in RunIds |-> [l \in Listings |-> "none"]]

Asked(q) == {q.listings[i] : i \in DOMAIN q.listings}

Before(q, l, k) ==
  \E i, j \in DOMAIN q.listings : i < j /\ q.listings[i] = l /\ q.listings[j] = k

\* Listing l is the one run r has to settle next: those before it have their results, or
\* are gone.
Due(r, l) ==
  /\ result[r][l] = "todo"
  /\ \A k \in Listings : Before(request[r], k, l) => result[r][k] \in Outcomes \cup {"none"}

\* Runs that have nothing left to do may end, each in its way.
RunsMayEnd ==
  /\ phase' \in [RunIds -> Phases]
  /\ \A r \in RunIds : phase'[r] # phase[r] =>
       /\ \A l \in Listings : result'[r][l] # "todo"
       /\ \/ phase[r] = "open" /\ phase'[r] = "completed"
          \/ phase[r] = "cancelling" /\ phase'[r] = "cancelled"

\* All listings of a request, none of which is to be settled by another run.
Ask(r, q) ==
  /\ phase[r] = "absent"
  /\ \A l \in Asked(q) : /\ l \in present /\ OwnerOf[l] = q.owner
                         /\ \A s \in RunIds : result[s][l] # "todo"
  /\ \A s \in RunIds : request[s] # None =>
       <<request[s].owner, request[s].key>> # <<q.owner, q.key>>
  /\ request' = [request EXCEPT ![r] = q]
  /\ phase' = [phase EXCEPT ![r] = "open"]
  /\ result' = [result EXCEPT ![r] = [l \in Listings |-> IF l \in Asked(q) THEN "todo" ELSE "none"]]
  /\ UNCHANGED present

\* keep: the listing in flight, which goes on, or None.
Cancel(r, keep) ==
  /\ phase[r] = "open" /\ (keep # None => Due(r, keep))
  /\ phase' = [phase EXCEPT ![r] = IF keep = None THEN "cancelled" ELSE "cancelling"]
  /\ result' = [result EXCEPT ![r] = [l \in Listings |->
       IF result[r][l] = "todo" /\ l # keep THEN "cancelled" ELSE result[r][l]]]
  /\ UNCHANGED <<present, request>>

\* A deleted listing disappears from every run; none of them ends by that.
Delete(l) ==
  /\ l \in present /\ present' = present \ {l}
  /\ result' = [r \in RunIds |-> [result[r] EXCEPT ![l] = "none"]]
  /\ UNCHANGED <<request, phase>>

Settle(r, l, o) ==
  /\ Due(r, l) /\ phase[r] \in {"open", "cancelling"}
  /\ result' = [result EXCEPT ![r][l] = o] /\ RunsMayEnd
  /\ UNCHANGED <<present, request>>

\* What was in flight in cancelled runs is given up.
GiveUp ==
  /\ result' \in [RunIds -> [Listings -> Results]]
  /\ \A r \in RunIds, l \in Listings : result'[r][l] # result[r][l] =>
       result[r][l] = "todo" /\ phase[r] = "cancelling" /\ result'[r][l] = "cancelled"
  /\ RunsMayEnd
  /\ UNCHANGED <<present, request>>

Next ==
  \/ \E r \in RunIds, q \in Requests : Ask(r, q)
  \/ \E r \in RunIds, keep \in Listings \cup {None} : Cancel(r, keep)
  \/ \E l \in Listings : Delete(l)
  \/ \E r \in RunIds, l \in Listings, o \in Outcomes : Settle(r, l, o)
  \/ GiveUp

Spec == Init /\ [][Next]_vars
=============================================================================
