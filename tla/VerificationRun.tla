--------------------------- MODULE VerificationRun ---------------------------
(***************************************************************************)
(* Durable listing verification (src/listing/run.rs) and the background    *)
(* worker of the server that drives it (src/server.rs).  A user asks for an *)
(* ordered list of listings to be verified; workers, one per server        *)
(* process, lease one item at a time, verify its listing for as long as it *)
(* takes outside any transaction, and record what came out of it.  Workers *)
(* die, leases run out under workers that are still at it, runs are        *)
(* cancelled and listings deleted at any time.                             *)
(*                                                                         *)
(* Every database transaction is one action, which is what a write         *)
(* transaction of SQLite is.  VerificationRunPostgres takes the one of     *)
(* cancel_verification_run apart.                                          *)
(***************************************************************************)
EXTENDS Naturals, Sequences

CONSTANTS
  RunIds,     \* listing_verification_runs ids, given out in order
  Listings,   \* aircraft_sale_listings ids
  OwnerOf,    \* OwnerOf[l]: created_by_user_id
  Requests,   \* [owner, key, listings]: what users ask for, and with what key
  Workers,    \* server processes, one worker each
  Tokens,     \* lease tokens; every claim draws a new one
  Outcomes,   \* what a verification can end with, out of PossibleOutcomes
  None

ASSUME RunIdsAreIds == RunIds \subseteq Nat
ASSUME RequestsAreValid == \A q \in Requests :
  /\ q.listings \in Seq(Listings) /\ Len(q.listings) > 0
  /\ \A i, j \in DOMAIN q.listings : q.listings[i] = q.listings[j] => i = j
PossibleOutcomes == {"verified", "pending_review", "blocked", "failed"}
ASSUME OutcomesAreStatuses == Outcomes \subseteq PossibleOutcomes
ASSUME NoneIsNew == /\ None \notin Requests /\ None \notin Tokens /\ None \notin Listings
                    /\ None \notin RunIds /\ None \notin Outcomes

VARIABLES
  present,    \* listings that exist
  request,    \* request[r]: the row's owner, key and ordered listings, or None
  status,     \* status[r] of the run
  item,       \* item[r][l]: the item of run r for listing l
  pc,         \* where each worker is in its loop
  job         \* what each worker holds: its claim and, later, the outcome

runVars    == <<request, status>>
workerVars == <<pc, job>>
vars == <<present, runVars, item, workerVars>>

-----------------------------------------------------------------------------
RunStates == {"absent", "queued", "running", "cancelling", "completed", "cancelled"}
Ended     == Outcomes \cup {"cancelled"}

\* live: lease_expires_at_epoch_seconds is in the future.
ItemRow == [status : {"none", "queued", "running"} \cup Ended,
            token : Tokens \cup {None}, live : BOOLEAN]
Job == [run : RunIds \cup {None}, listing : Listings \cup {None},
        token : Tokens \cup {None}, outcome : Outcomes \cup {None}]

Unleased(s) == [status |-> s, token |-> None, live |-> FALSE]
NoJob == [run |-> None, listing |-> None, token |-> None, outcome |-> None]

\* idx_listing_verification_run_items_one_active_listing.
Active(r, l) == item[r][l].status \in {"queued", "running"}

\* Listing l comes before listing k in the order asked for (the item's position).
Before(q, l, k) ==
  \E i, j \in DOMAIN q.listings : i < j /\ q.listings[i] = l /\ q.listings[j] = k

\* The order in which items are claimed: by run, then by position.
Precedes(r, l, q, k) == r < q \/ (r = q /\ Before(request[r], l, k))

Holds(items, s) == \E l \in Listings : items[l].status = s

\* Mutant: a run between two items is complete.
RefreshedEarly(s, items) ==
  IF s \notin {"queued", "running", "cancelling"} THEN s
  ELSE IF Holds(items, "running") THEN (IF s = "cancelling" THEN s ELSE "running")
  ELSE IF s = "cancelling" THEN "cancelled" ELSE "completed"

\* refresh_run_status_sql, for one run.
Refreshed(s, items) ==
  IF s \notin {"queued", "running", "cancelling"} THEN s
  ELSE IF Holds(items, "running") THEN (IF s = "cancelling" THEN s ELSE "running")
  ELSE IF s = "cancelling" THEN "cancelled"
  ELSE IF Holds(items, "queued") THEN "queued" ELSE "completed"

\* Mutants: an expired item is queued again whatever became of its run; it keeps
\* its token; only cancelled runs are looked at.
RequeuedAlways(s, row) ==
  IF row.status = "running" /\ ~row.live THEN Unleased("queued") ELSE row
RequeuedWithToken(s, row) ==
  IF row.status = "running" /\ ~row.live THEN [row EXCEPT !.status = "queued"] ELSE row
ReclaimedOnceCancelled(s, row) ==
  IF row.status = "running" /\ ~row.live /\ s = "cancelling" THEN Unleased("cancelled") ELSE row

\* reclaim_cancelled_sql and reclaim_active_sql, for one item of a run in state s.
Reclaimed(s, row) ==
  IF row.status = "running" /\ ~row.live /\ s \in {"cancelling", "cancelled"}
  THEN Unleased("cancelled")
  ELSE IF row.status = "running" /\ ~row.live /\ s \in {"queued", "running"}
  THEN Unleased("queued")
  ELSE row

ReclaimedItems == [r \in RunIds |-> [l \in Listings |-> Reclaimed(status[r], item[r][l])]]
RefreshAll(items) == [r \in RunIds |-> Refreshed(status[r], items[r])]

-----------------------------------------------------------------------------
Init ==
  /\ present = Listings
  /\ request = [r \in RunIds |-> None]
  /\ status = [r \in RunIds |-> "absent"]
  /\ item = [r \in RunIds |-> [l \in Listings |-> Unleased("none")]]
  /\ pc = [w \in Workers |-> "down"]
  /\ job = [w \in Workers |-> NoJob]

-----------------------------------------------------------------------------
(* Users *)

Asked(q) == {q.listings[i] : i \in DOMAIN q.listings}

CreateWith(r, q) ==
  /\ request' = [request EXCEPT ![r] = q]
  /\ status' = [status EXCEPT ![r] = "queued"]
  /\ item' = [item EXCEPT ![r] =
                [l \in Listings |-> Unleased(IF l \in Asked(q) THEN "queued" ELSE "none")]]
  /\ UNCHANGED <<present, workerVars>>

\* The next free id; a known owner and key return the run that is there.
NextRun(r, q) ==
  /\ status[r] = "absent"
  /\ \A s \in RunIds : s < r => status[s] # "absent"
  /\ \A s \in RunIds : request[s] # None =>
       ~(request[s].owner = q.owner /\ request[s].key = q.key)

\* Mutant: only this user's runs are asked whether a listing is being verified.
CreateUnchecked(r, q) ==
  /\ NextRun(r, q)
  /\ \A l \in Asked(q) : l \in present /\ OwnerOf[l] = q.owner
  /\ CreateWith(r, q)

\* create_verification_run: all items or none.
Create(r, q) ==
  /\ NextRun(r, q)
  /\ \A l \in Asked(q) :
       /\ l \in present /\ OwnerOf[l] = q.owner
       /\ \A s \in RunIds : ~Active(s, l)
  /\ CreateWith(r, q)

WithoutQueued(items) ==
  [l \in Listings |-> IF items[l].status = "queued" THEN Unleased("cancelled") ELSE items[l]]

\* cancel_verification_run; it does nothing to a run that is already cancelled.
Cancel(r) ==
  /\ status[r] \in {"queued", "running"}
  /\ item' = [item EXCEPT ![r] = WithoutQueued(@)]
  /\ status' = [status EXCEPT ![r] =
                  IF Holds(item[r], "running") THEN "cancelling" ELSE "cancelled"]
  /\ UNCHANGED <<present, request, workerVars>>

\* The listing is deleted, and its items with it (ON DELETE CASCADE).  No run is
\* refreshed until the next claim, reclaim or finish.
DeleteListing(l) ==
  /\ l \in present
  /\ present' = present \ {l}
  /\ item' = [r \in RunIds |-> [item[r] EXCEPT ![l] = Unleased("none")]]
  /\ UNCHANGED <<runVars, workerVars>>

-----------------------------------------------------------------------------
(* Workers *)

Goto(w, label) == pc' = [pc EXCEPT ![w] = label]
SetJob(w, j) == job' = [job EXCEPT ![w] = j]

\* The server process starts.
Boot(w) ==
  /\ pc[w] = "down"
  /\ Goto(w, "startup")
  /\ UNCHANGED <<present, runVars, item, job>>

\* reclaim_expired_verification_run_leases; when it fails the worker goes on.
Startup(w) ==
  /\ pc[w] = "startup"
  /\ \/ /\ item' = ReclaimedItems
        /\ status' = RefreshAll(item')
     \/ UNCHANGED <<item, status>>
  /\ Goto(w, "claim")
  /\ UNCHANGED <<present, request, job>>

\* A token carries the time and a sequence number: nobody has it yet.
NewToken(t) ==
  /\ \A w \in Workers : job[w].token # t
  /\ \A r \in RunIds, l \in Listings : item[r][l].token # t

\* The run is open and none of its items is in flight.
Claimable(st, items, r, l) ==
  /\ items[r][l].status = "queued"
  /\ st[r] \in {"queued", "running"}
  /\ ~Holds(items[r], "running")

\* Mutant: items are claimed in any order.
AnyClaimable(st, items, r, l) == Claimable(st, items, r, l)

FirstClaimable(st, items, r, l) ==
  /\ Claimable(st, items, r, l)
  /\ \A q \in RunIds, k \in Listings :
       (Claimable(st, items, q, k) /\ <<q, k>> # <<r, l>>) => Precedes(r, l, q, k)

\* claim_next_verification_run_item: reclaim, refresh, claim, mark the run running.
Claim(w) ==
  LET items == ReclaimedItems
      st == RefreshAll(items)
  IN /\ pc[w] = "claim"
     /\ \/ \E r \in RunIds, l \in Listings, t \in Tokens :
             /\ FirstClaimable(st, items, r, l)
             /\ NewToken(t)
             /\ item' = [items EXCEPT ![r][l] =
                           [status |-> "running", token |-> t, live |-> TRUE]]
             /\ status' = [st EXCEPT ![r] = "running"]
             /\ SetJob(w, [run |-> r, listing |-> l, token |-> t, outcome |-> None])
             /\ Goto(w, "verify")
        \/ /\ \A r \in RunIds, l \in Listings : ~Claimable(st, items, r, l)
           /\ item' = items /\ status' = st
           /\ UNCHANGED workerVars
     /\ UNCHANGED <<present, request>>

\* verify_listing returns, with an outcome or an error, some time later.
Verify(w) ==
  /\ pc[w] = "verify"
  /\ \E o \in Outcomes : SetJob(w, [job[w] EXCEPT !.outcome = o])
  /\ Goto(w, "finish")
  /\ UNCHANGED <<present, runVars, item>>

\* Mutant: a result is accepted for whatever attempt is in flight.
HoldsAnyLease(w) == item[job[w].run][job[w].listing].status = "running"

\* The row still carries the token of this claim; its expiry is not looked at.
HoldsLease(w) ==
  LET row == item[job[w].run][job[w].listing]
  IN row.status = "running" /\ row.token = job[w].token

\* Mutant: a result that comes too late takes the place of the one recorded.
FinishAnyway(w) ==
  /\ pc[w] = "finish"
  /\ item[job[w].run][job[w].listing].status # "none"
  /\ item' = [item EXCEPT ![job[w].run][job[w].listing] = Unleased(job[w].outcome)]
  /\ status' = RefreshAll(item')
  /\ Goto(w, "claim") /\ SetJob(w, NoJob)
  /\ UNCHANGED <<present, request>>

\* complete_ and fail_verification_run_item.  Otherwise it is a lease conflict,
\* which the worker only logs.
Finish(w) ==
  /\ pc[w] = "finish"
  /\ \/ /\ HoldsLease(w)
        /\ item' = [item EXCEPT ![job[w].run][job[w].listing] = Unleased(job[w].outcome)]
        /\ status' = RefreshAll(item')
     \/ /\ ~HoldsLease(w)
        /\ UNCHANGED <<item, status>>
  /\ Goto(w, "claim") /\ SetJob(w, NoJob)
  /\ UNCHANGED <<present, request>>

\* The result cannot be stored; the worker logs that and goes on.
FinishFails(w) ==
  /\ pc[w] = "finish"
  /\ Goto(w, "claim") /\ SetJob(w, NoJob)
  /\ UNCHANGED <<present, runVars, item>>

\* The server process dies.
Crash(w) ==
  /\ pc[w] # "down"
  /\ Goto(w, "down") /\ SetJob(w, NoJob)
  /\ UNCHANGED <<present, runVars, item>>

\* VERIFICATION_RUN_LEASE_DURATION has passed since the claim; nothing renews it.
LeaseExpires(r, l) ==
  /\ item[r][l].live
  /\ item' = [item EXCEPT ![r][l].live = FALSE]
  /\ UNCHANGED <<present, runVars, workerVars>>

-----------------------------------------------------------------------------
WorkerStep(w) == Boot(w) \/ Startup(w) \/ Claim(w) \/ Verify(w) \/ Finish(w)

Users ==
  \/ \E r \in RunIds : Cancel(r) \/ \E q \in Requests : Create(r, q)
  \/ \E l \in Listings : DeleteListing(l)

Next ==
  \/ Users
  \/ \E w \in Workers : WorkerStep(w) \/ FinishFails(w) \/ Crash(w)
  \/ \E r \in RunIds, l \in Listings : LeaseExpires(r, l)

Spec == Init /\ [][Next]_vars

-----------------------------------------------------------------------------
(* Properties *)

\* Rows and locals stay within their domains, and a lease is on running rows only.
TypeOK ==
  /\ present \subseteq Listings
  /\ request \in [RunIds -> Requests \cup {None}]
  /\ status \in [RunIds -> RunStates]
  /\ item \in [RunIds -> [Listings -> ItemRow]]
  /\ pc \in [Workers -> {"down", "startup", "claim", "verify", "finish"}]
  /\ job \in [Workers -> Job]
  /\ \A r \in RunIds, l \in Listings :
       /\ item[r][l].status = "running" <=> item[r][l].token # None
       /\ item[r][l].live => item[r][l].status = "running"

\* A listing is queued or running for one run at a time, also when an expired
\* lease puts an item back.
OneActivePerListing ==
  \A r, s \in RunIds, l \in Listings : Active(r, l) /\ Active(s, l) => r = s

\* A run works through its listings one by one and in the order asked for: when
\* one is running or has a result, none before it is still to be done, although
\* requeued items come back at their place.
InRequestOrder ==
  \A r \in RunIds, l, k \in Listings :
    (/\ item[r][l].status \in {"running"} \cup Outcomes
     /\ item[r][k].status # "none"
     /\ Before(request[r], k, l)) => item[r][k].status \in Outcomes

\* The run's status, a summary kept in another table, says what its items say: a
\* run that ended has no item left to do, one being cancelled waits for nothing
\* but an item in flight, and items in flight belong to runs that know of them.
RunTellsItems ==
  \A r \in RunIds :
    /\ status[r] \in {"completed", "cancelled"} => \A l \in Listings : ~Active(r, l)
    /\ status[r] = "cancelling" => \A l \in Listings : item[r][l].status # "queued"
    /\ \A l \in Listings :
         item[r][l].status = "running" => status[r] \in {"running", "cancelling"}

\* An item ends once: neither a late worker, nor a reclaim, nor a cancellation
\* changes it, and a run that ended stays as it ended.
EndsOnce ==
  /\ \A r \in RunIds : status[r] \in {"completed", "cancelled"} => status'[r] = status[r]
  /\ \A r \in RunIds, l \in Listings :
       item[r][l].status \in Ended => item'[r][l].status \in {item[r][l].status, "none"}
EndIsFinal == [][EndsOnce]_vars

\* A result is recorded by the worker of the latest claim: one whose lease ran out
\* and whose item was handed on, or queued, or cancelled, records nothing.
RecordedByHolder ==
  \A r \in RunIds, l \in Listings :
    (item[r][l].status # item'[r][l].status /\ item'[r][l].status \in Outcomes) =>
      \E w \in Workers :
        /\ job[w].run = r /\ job[w].listing = l
        /\ job[w].token = item[r][l].token
        /\ job[w].outcome = item'[r][l].status
        /\ \A v \in Workers \ {w} : job[v].token # item[r][l].token
ResultIsHolders == [][RecordedByHolder]_vars

-----------------------------------------------------------------------------
(* What the invariants above rest on: the inductive invariant of the proofs. *)

\* A run has items only for listings it was asked for, and a row once it exists.
ItemsAsked ==
  \A r \in RunIds :
    /\ status[r] = "absent" => \A l \in Listings : item[r][l] = Unleased("none")
    /\ status[r] # "absent" => request[r] # None
    /\ \A l \in Listings : item[r][l].status # "none" =>
         request[r] # None /\ l \in Asked(request[r])

\* Only the items of a run that was cancelled are cancelled.
CancelledByRun ==
  \A r \in RunIds, l \in Listings :
    item[r][l].status = "cancelled" => status[r] \in {"cancelling", "cancelled"}

\* A worker has a job from its claim to its finish, under a token of its own that
\* is on no other item.
JobsOK ==
  \A w \in Workers :
    /\ pc[w] \in {"down", "startup", "claim"} => job[w] = NoJob
    /\ pc[w] \in {"verify", "finish"} =>
         job[w].run # None /\ job[w].listing # None /\ job[w].token # None
    /\ pc[w] = "finish" => job[w].outcome # None
    /\ \A v \in Workers : (job[w].token # None /\ job[v].token = job[w].token) => v = w

QueueInv ==
  /\ TypeOK /\ ItemsAsked /\ CancelledByRun /\ JobsOK
  /\ OneActivePerListing /\ InRequestOrder /\ RunTellsItems

-----------------------------------------------------------------------------
(* Runs implement VerificationLedger. *)

\* Users do not see whether a run, or an item, is being worked on.
PhaseOf(s)    == IF s \in {"queued", "running"} THEN "open" ELSE s
ResultOf(row) == IF row.status \in {"queued", "running"} THEN "todo" ELSE row.status

Ledger == INSTANCE VerificationLedger WITH
  phase <- [r \in RunIds |-> PhaseOf(status[r])],
  result <- [r \in RunIds |-> [l \in Listings |-> ResultOf(item[r][l])]]

\* Whatever workers, leases and servers do, users see a run settle its listings one by
\* one in the order they gave, each once, and end when there is nothing left to do.
ImplementsLedger == Ledger!Spec
=============================================================================
