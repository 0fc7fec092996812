----------------------- MODULE VerificationRunPostgres -----------------------
(***************************************************************************)
(* cancel_verification_run (src/listing/run.rs) on PostgreSQL.  The        *)
(* transaction runs at READ COMMITTED: each of its statements sees what    *)
(* was committed before that statement, and other transactions commit      *)
(* between two of them.  The first statement reads the run's status, the   *)
(* second locks and cancels the queued items, the third decides the status *)
(* of the run from the items it sees then.  All other transactions are     *)
(* still one step each: fewer interleavings than the server has, never     *)
(* more.  One cancellation is open at a time.                              *)
(***************************************************************************)
EXTENDS VerificationRun

VARIABLE cancel   \* the open cancellation: its run, its next statement, its row locks

pgVars == <<vars, cancel>>

NoCancel == [run |-> None, next |-> "read", locked |-> {}]

\* The status is read and found open.
CancelReads(r) ==
  /\ cancel = NoCancel
  /\ status[r] \in {"queued", "running"}
  /\ cancel' = [cancel EXCEPT !.run = r, !.next = "items"]
  /\ UNCHANGED vars

\* cancel_items: invisible to others until the commit, but locked.
CancelItems(r) ==
  /\ cancel.run = r /\ cancel.next = "items"
  /\ cancel' = [cancel EXCEPT !.next = "run",
                              !.locked = {l \in Listings : item[r][l].status = "queued"}]
  /\ UNCHANGED vars

\* cancel_run, on the items as they are now, and the commit.  A run that ended
\* meanwhile stays as it is.
CancelCommits(r) ==
  /\ cancel.run = r /\ cancel.next = "run"
  /\ item' = [item EXCEPT ![r] = [l \in Listings |->
                IF l \in cancel.locked THEN Unleased("cancelled") ELSE item[r][l]]]
  /\ status' = [status EXCEPT ![r] =
                  IF @ \notin {"queued", "running"} THEN @
                  ELSE IF Holds(item[r], "running") THEN "cancelling" ELSE "cancelled"]
  /\ cancel' = NoCancel
  /\ UNCHANGED <<present, request, workerVars>>

\* The other transactions wait for the locked rows; a creation takes the table lock,
\* which the update of cancel_items keeps from it.
Waits ==
  \/ cancel.run # None /\ \E l \in cancel.locked : item'[cancel.run][l] # item[cancel.run][l]
  \/ cancel.next = "run" /\ request' # request

Others ==
  /\ \/ \E r \in RunIds, q \in Requests : Create(r, q)
     \/ \E l \in Listings : DeleteListing(l)
     \/ \E w \in Workers : WorkerStep(w) \/ FinishFails(w) \/ Crash(w)
     \/ \E r \in RunIds, l \in Listings : LeaseExpires(r, l)
  /\ ~Waits
  /\ UNCHANGED cancel

PgInit == Init /\ cancel = NoCancel
PgNext == Others \/ \E r \in RunIds : CancelReads(r) \/ CancelItems(r) \/ CancelCommits(r)
PgSpec == PgInit /\ [][PgNext]_pgVars

-----------------------------------------------------------------------------
\* docs/database.md: cancellation changes queued items to cancelled, and a running
\* item ends before the run becomes cancelled.  It does not hold: an expired item
\* that is requeued between two statements stays queued in a cancelled run.
CancelledRunIsSettled ==
  \A r \in RunIds : status[r] = "cancelled" => \A l \in Listings : ~Active(r, l)
=============================================================================
