---------------------------- MODULE SignedCapture ----------------------------
(***************************************************************************)
(* The signed capture store (src/plugin.rs) and the part of the listing    *)
(* store it drives (src/listings.rs): the browser extension uploads one    *)
(* signed page, the server extracts a listing from it, binds the capture   *)
(* to a listing, projects the extraction onto that listing, classifies the *)
(* avionics occurrences and writes, last of all, an immutable              *)
(* materialization receipt.  Everything but the extraction is a sequence   *)
(* of small transactions: the process may die between any two of them, the *)
(* same page may be in two requests at once, and its owner may delete the  *)
(* listing meanwhile.  A retry picks up what the earlier request left.     *)
(*                                                                         *)
(* Every write transaction is one action; the reads a request makes before *)
(* its next write are part of one action too, and what they saw is kept in *)
(* the request.  All captures belong to one user.                          *)
(***************************************************************************)
EXTENDS Naturals, FiniteSets

CONSTANTS
  Captures,    \* signed pages: a page, its install and its hash
  UrlOf,       \* UrlOf[c]: source_url
  Payloads,    \* extraction checkpoints
  Extractions, \* what extracting each capture may give, as functions to SUBSET Payloads
  TailOf,      \* TailOf[p]: the registration FAA admission gives payload p
  Corrected,   \* payloads whose source identity the FAA registry corrects
  Ambiguous,   \* payloads that leave an avionics occurrence to a reviewer
  Bare,        \* payloads with no occurrence that is classified automatically
  Listings,    \* aircraft_sale_listings ids, given out in order
  Requests,    \* requests in flight
  MaxFaults,   \* bound on crashes, failed calls and deletions
  None,
  Unattached   \* a pending review with no plugin_submission_id

Tails == {TailOf[p] : p \in Payloads}

ASSUME ListingsAreIds == Listings \subseteq Nat
ASSUME ExtractionsGivePayloads == Extractions \subseteq [Captures -> SUBSET Payloads]
ASSUME FaultsAreCounted == MaxFaults \in Nat
ASSUME NoneIsNoId == /\ None \notin Captures /\ None \notin Listings
                     /\ None \notin Payloads /\ None # Unattached
                     /\ \A c \in Captures : UrlOf[c] # None
                     /\ None \notin [listing : Listings, tail : Tails]
ASSUME UnattachedIsNoCapture == Unattached \notin Captures

VARIABLES
  capture,    \* the plugin_submissions row of each capture
  listing,    \* the aircraft_sale_listings row of each id, its links and its review
  disposed,   \* disposed[c]: [payload, listing] of its occurrence dispositions
  decision,   \* decision[c]: the identity correction recorded for it, or None
  receipt,    \* receipt[c]: its materialization receipt, or None
  req,        \* what each request knows and does next
  deleting,   \* the listing a deletion has found deletable, or None
  faults,     \* faults so far
  extraction  \* the one of Extractions that is the case; never changes

vars == <<capture, listing, disposed, decision, receipt, req, deleting, faults, extraction>>

-----------------------------------------------------------------------------
States == {"unused", "incomplete", "gated", "pending_review", "quarantined",
           "ready", "deleted"}

\* "gated" is quarantined with SOURCE_IDENTITY_RECEIPT_PENDING as its error;
\* "ready" is ready and verified.
CaptureRow == [stored : BOOLEAN, payload : Payloads \cup {None}, failed : BOOLEAN,
               bound : Listings \cup {None}]
ListingRow == [state : States, url : {UrlOf[c] : c \in Captures} \cup {None},
               values : Payloads \cup {None}, links : Payloads \cup {None},
               review : Captures \cup {None, Unattached}]
Steps == {"idle", "extract", "choose", "insert", "rewrite", "links", "stage", "finalize",
          "result", "attach", "dispose", "decide", "settle", "receipt", "fail"}
Request == [pc : Steps, cap : Captures \cup {None}, row : CaptureRow,
            payload : Payloads \cup {None}, listing : Listings \cup {None},
            recovering : BOOLEAN]

NoRow == [stored |-> FALSE, payload |-> None, failed |-> FALSE, bound |-> None]
NoListing(s) == [state |-> s, url |-> None, values |-> None, links |-> None, review |-> None]
Idle  == [pc |-> "idle", cap |-> None, row |-> NoRow, payload |-> None, listing |-> None,
          recovering |-> FALSE]

Present(l)  == listing[l].state \notin {"unused", "deleted"}
Reviewed(l) == listing[l].review # None
Agrees(l, p) == listing[l].values = p /\ listing[l].links = p
Receipted(l) == \E c \in Captures : receipt[c] # None /\ receipt[c].listing = l

\* A recorded correction that still describes listing l with tail t.
Decided(l, t) == \E c \in Captures :
  /\ decision[c] = [listing |-> l, tail |-> t]
  /\ capture[c].bound = l /\ ~capture[c].failed

\* Mutant: nothing holds a listing behind the gate.
HeldNever(l, t) == FALSE

\* aircraft_source_identity_receipt_gate refuses a row with tail t to leave the gate.
Held(l, t) == listing[l].state = "gated" /\ ~Decided(l, t)
TailNow(l) == TailOf[listing[l].values]

\* Mutant: a receipt does not freeze its capture.
CanAlwaysWrite(c, row) == TRUE

\* plugin_submissions_replay_checkpoint_immutable.
CanWrite(c, row) == receipt[c] = None \/ row = capture[c]

Goto(r, step) == req' = [req EXCEPT ![r].pc = step]
End(r)   == req' = [req EXCEPT ![r] = Idle]
Fault    == faults < MaxFaults /\ faults' = faults + 1

\* What a request does with an error that left no durable mark: a recovery reports
\* it, a first materialization records it unless the capture has been bound.
Unwind(r) ==
  IF req[r].recovering \/ capture[req[r].cap].bound # None THEN End(r)
  ELSE req' = [req EXCEPT ![r] = [Idle EXCEPT !.pc = "fail", !.cap = req[r].cap,
                                                !.payload = req[r].payload]]

-----------------------------------------------------------------------------
\* A page is uploaded, or a stored capture reprocessed.
Submit(r, c) ==
  /\ req[r].pc = "idle" /\ capture[c].bound = None
  /\ req' = [req EXCEPT ![r] = [Idle EXCEPT !.pc = "extract", !.cap = c, !.row = capture[c]]]
  /\ UNCHANGED <<capture, listing, disposed, decision, receipt, deleting, faults, extraction>>

\* The provider's answer is a checkpoint: a first upload stores it, a reprocess
\* keeps it for the binding.
ExtractOk(r, p) ==
  LET c == req[r].cap
      fresh == [NoRow EXCEPT !.stored = TRUE, !.payload = p]
  IN
  /\ req[r].pc = "extract" /\ p \in extraction[c]
  /\ IF req[r].row.stored
     THEN /\ req' = [req EXCEPT ![r].pc = "choose", ![r].payload = p]
          /\ UNCHANGED capture
     ELSE IF capture[c].stored THEN End(r) /\ UNCHANGED capture
     ELSE /\ capture' = [capture EXCEPT ![c] = fresh]
          /\ req' = [req EXCEPT ![r].pc = "choose", ![r].payload = p, ![r].row = fresh]
  /\ UNCHANGED <<listing, disposed, decision, receipt, deleting, faults, extraction>>

\* The provider fails, or what it gave is refused before anything is written.
Refused(r) ==
  /\ req[r].pc \in {"extract", "choose"} /\ Fault
  /\ IF req[r].pc = "extract" THEN Goto(r, "fail") ELSE Unwind(r)
  /\ UNCHANGED <<capture, listing, disposed, decision, receipt, deleting, extraction>>

\* The failure is the capture's result.
RecordFailure(r) ==
  LET c == req[r].cap
      row == [capture[c] EXCEPT !.failed = TRUE, !.stored = TRUE,
                !.payload = IF req[r].payload = None THEN @ ELSE req[r].payload]
      inserts == ~req[r].row.stored /\ req[r].payload = None
  IN
  /\ req[r].pc = "fail" /\ End(r)
  /\ capture' = IF (inserts /\ capture[c].stored) \/ ~CanWrite(c, row) THEN capture
                ELSE [capture EXCEPT ![c] = row]
  /\ UNCHANGED <<listing, disposed, decision, receipt, deleting, faults, extraction>>

-----------------------------------------------------------------------------
\* The listing a capture that needs no correction joins: an unverified one of its
\* tail, or else a published one that says the same and has no receipt.
OfTail(p) == {l \in Listings : Present(l) /\ listing[l].state # "ready" /\ TailNow(l) = TailOf[p]}
Matching(p) == {l \in Listings : listing[l].state = "ready" /\ Agrees(l, p) /\ ~Receipted(l)}

ChooseListing(r) ==
  LET p == req[r].payload
      joins(l, step) == req' = [req EXCEPT ![r].pc = step, ![r].listing = l, ![r].row = NoRow]
  IN
  /\ req[r].pc = "choose"
  /\ IF p \in Corrected THEN Goto(r, "insert")
     ELSE IF OfTail(p) # {} THEN \E l \in OfTail(p) : joins(l, "rewrite")
     ELSE IF p \notin Ambiguous /\ Matching(p) # {} THEN \E l \in Matching(p) : joins(l, "result")
     ELSE Goto(r, "insert")
  /\ UNCHANGED <<capture, listing, disposed, decision, receipt, deleting, faults, extraction>>

\* Mutant: the capture is bound to the new listing only by its result.
InsertOnly(r) ==
  /\ req[r].pc = "insert"
  /\ \E l \in Listings :
       /\ listing[l].state = "unused"
       /\ \A k \in Listings : listing[k].state = "unused" => l <= k
       /\ listing' = [listing EXCEPT ![l] =
            [NoListing(IF req[r].payload \in Corrected THEN "gated" ELSE "incomplete")
               EXCEPT !.url = UrlOf[req[r].cap], !.values = req[r].payload]]
       /\ req' = [req EXCEPT ![r].pc = "links", ![r].listing = l, ![r].row = NoRow]
  /\ UNCHANGED <<capture, disposed, decision, receipt, deleting, faults, extraction>>

\* One transaction inserts the listing and binds the exact capture row to it.
InsertAndBind(r) ==
  LET c == req[r].cap
      p == req[r].payload
      bindable == /\ capture[c] = req[r].row
                  /\ \A l \in Listings : listing[l].url # UrlOf[c]
  IN
  /\ req[r].pc = "insert"
  /\ \/ /\ bindable
        /\ \E l \in Listings :
             /\ listing[l].state = "unused"
             /\ \A k \in Listings : listing[k].state = "unused" => l <= k
             /\ listing' = [listing EXCEPT ![l] =
                  [NoListing(IF p \in Corrected THEN "gated" ELSE "incomplete")
                     EXCEPT !.url = UrlOf[c], !.values = p]]
             /\ capture' = [capture EXCEPT ![c] =
                  [@ EXCEPT !.payload = p, !.failed = FALSE, !.bound = l]]
             /\ req' = [req EXCEPT ![r].pc = "links", ![r].listing = l, ![r].row = NoRow]
     \/ ~bindable /\ Unwind(r) /\ UNCHANGED <<capture, listing>>
  /\ UNCHANGED <<disposed, decision, receipt, deleting, faults, extraction>>

\* Mutant: every rewrite takes the listing back, as that of a corrected page does.
RewritePublished(r) ==
  LET c == req[r].cap
      p == req[r].payload
      l == req[r].listing
      taken == \E k \in Listings \ {l} : listing[k].url = UrlOf[c]
      aborts == Present(l) /\ (taken \/ (p \notin Corrected /\ Held(l, TailOf[p])))
  IN
  /\ req[r].pc = "rewrite"
  /\ IF aborts THEN Unwind(r) /\ UNCHANGED listing
     ELSE /\ Goto(r, "links")
          /\ listing' = IF ~Present(l) THEN listing ELSE [listing EXCEPT ![l] =
               [@ EXCEPT !.state = IF p \in Corrected THEN "gated" ELSE "incomplete",
                         !.url = UrlOf[c], !.values = p]]
  /\ UNCHANGED <<capture, disposed, decision, receipt, deleting, faults, extraction>>

\* A listing that is reused, or resumed by a recovery, gets the payload's values;
\* resuming a corrected capture keeps, or restores, the gate.
Rewrite(r) ==
  LET c == req[r].cap
      p == req[r].payload
      l == req[r].listing
      taken == \E k \in Listings \ {l} : listing[k].url = UrlOf[c]
      aborts == /\ Present(l)
                /\ taken \/ (p \notin Corrected /\ (listing[l].state = "ready" \/ Held(l, TailOf[p])))
  IN
  /\ req[r].pc = "rewrite"
  /\ IF aborts THEN Unwind(r) /\ UNCHANGED listing
     ELSE /\ Goto(r, "links")
          /\ listing' = IF ~Present(l) THEN listing ELSE [listing EXCEPT ![l] =
               [@ EXCEPT !.state = IF p \in Corrected THEN "gated" ELSE "incomplete",
                         !.url = UrlOf[c], !.values = p]]
  /\ UNCHANGED <<capture, disposed, decision, receipt, deleting, faults, extraction>>

\* quarantine_after_error, for a row the schema lets it write.
Quarantined(l) == IF Reviewed(l) THEN "pending_review" ELSE "quarantined"
Untouchable(l) == listing[l].state = "ready" \/ Held(l, TailNow(l))

\* The links of the listing are replaced in one transaction.
ReplaceLinks(r) ==
  LET p == req[r].payload
      l == req[r].listing
      fails == p \notin Corrected /\ ~Untouchable(l)
  IN
  /\ req[r].pc = "links"
  /\ \/ /\ Present(l) /\ listing[l].state # "ready"
        /\ listing' = [listing EXCEPT ![l].links = p] /\ Goto(r, "stage")
        /\ UNCHANGED faults
     \/ /\ Present(l) /\ listing[l].state # "ready" /\ Fault
        /\ IF p \notin Corrected /\ Untouchable(l) THEN Unwind(r) ELSE End(r)
        /\ listing' = IF fails THEN [listing EXCEPT ![l].state = Quarantined(l)] ELSE listing
     \/ /\ ~Present(l) /\ End(r) /\ UNCHANGED <<listing, faults>>
     \/ /\ listing[l].state = "ready"
        /\ IF p \in Corrected THEN End(r) ELSE Unwind(r)
        /\ UNCHANGED <<listing, faults>>
  /\ UNCHANGED <<capture, disposed, decision, receipt, deleting, extraction>>

\* The review of the listing becomes what this payload leaves open, even when the
\* listing has been published meanwhile.
StageReview(r) ==
  LET p == req[r].payload
      l == req[r].listing
      preserving == p \in Corrected
      cleared == IF listing[l].state = "pending_review" THEN "incomplete" ELSE listing[l].state
      after == IF req[r].recovering THEN "attach" ELSE "result"
      staged == IF p \in Ambiguous
                THEN [listing[l] EXCEPT !.review = Unattached,
                        !.state = IF preserving THEN @ ELSE "pending_review"]
                ELSE [listing[l] EXCEPT !.review = None, !.state = cleared]
      refused == \/ ~Present(l)
                 \/ preserving /\ listing[l].state # "gated"
                 \/ ~preserving /\ p \in Ambiguous /\ Held(l, TailNow(l))
      failed == [listing[l] EXCEPT !.review = None, !.state = cleared]
  IN
  /\ req[r].pc = "stage"
  /\ IF refused
     THEN /\ listing' = IF Present(l) THEN [listing EXCEPT ![l] = failed] ELSE listing
          /\ IF Present(l) /\ ~preserving /\ Held(l, TailNow(l)) THEN Unwind(r) ELSE End(r)
     ELSE /\ listing' = [listing EXCEPT ![l] = staged]
          /\ Goto(r, IF preserving THEN after ELSE "finalize")
  /\ UNCHANGED <<capture, disposed, decision, receipt, deleting, faults, extraction>>

\* finalize_listing_ingestion: published unless a review is open, or a check fails and
\* it is quarantined.  step: where the request goes on.
Finalize(r, step) ==
  LET l == req[r].listing
      to(s) == listing' = [listing EXCEPT ![l].state = s]
  IN
  \/ listing[l].state = "gated" /\ Unwind(r) /\ UNCHANGED <<listing, faults>>
  \/ /\ Present(l) /\ listing[l].state # "gated" /\ Reviewed(l)
     /\ to("pending_review") /\ Goto(r, step) /\ UNCHANGED faults
  \/ /\ Present(l) /\ listing[l].state # "gated" /\ ~Reviewed(l)
     /\ to("ready") /\ Goto(r, step) /\ UNCHANGED faults
  \/ /\ Present(l) /\ listing[l].state \notin {"gated", "ready"} /\ Fault
     /\ to(Quarantined(l)) /\ End(r)
  \/ ~Present(l) /\ End(r) /\ UNCHANGED <<listing, faults>>

FinalizeListing(r) ==
  /\ req[r].pc = "finalize"
  /\ Finalize(r, IF req[r].recovering THEN "attach" ELSE "result")
  /\ UNCHANGED <<capture, disposed, decision, receipt, deleting, extraction>>

-----------------------------------------------------------------------------
\* The first materialization writes its payload and its listing over whatever the
\* row says by now.
WriteResult(r) ==
  LET c == req[r].cap
      l == req[r].listing
      row == [capture[c] EXCEPT !.payload = req[r].payload, !.failed = FALSE, !.bound = l]
  IN
  /\ req[r].pc = "result"
  /\ IF Present(l) /\ CanWrite(c, row)
     THEN capture' = [capture EXCEPT ![c] = row] /\ Goto(r, "attach")
     ELSE End(r) /\ UNCHANGED capture
  /\ UNCHANGED <<listing, disposed, decision, receipt, deleting, faults, extraction>>

\* Mutant: the review is given the listing's id.
AttachSwapped(r) ==
  LET l == req[r].listing IN
  /\ req[r].pc = "attach" /\ Goto(r, "dispose")
  /\ listing' = IF Reviewed(l) THEN [listing EXCEPT ![l].review = l] ELSE listing
  /\ UNCHANGED <<capture, disposed, decision, receipt, deleting, faults, extraction>>

\* An open review learns which capture it is about.
AttachReview(r) ==
  LET l == req[r].listing IN
  /\ req[r].pc = "attach"
  /\ IF ~Reviewed(l) THEN Goto(r, "dispose") /\ UNCHANGED listing
     ELSE IF capture[req[r].cap].bound = l
     THEN Goto(r, "dispose") /\ listing' = [listing EXCEPT ![l].review = req[r].cap]
     ELSE End(r) /\ UNCHANGED listing
  /\ UNCHANGED <<capture, disposed, decision, receipt, deleting, faults, extraction>>

\* Every occurrence is linked, discarded or pending: what is not pending gets its
\* immutable disposition, once for a payload.
RecordDispositions(r) ==
  LET c == req[r].cap
      p == req[r].payload
      l == req[r].listing
      classified == /\ Present(l) /\ capture[c].bound = l /\ ~capture[c].failed
                    /\ capture[c].payload = p /\ listing[l].url = UrlOf[c]
                    /\ listing[l].review \in {None, Unattached, c}
                    /\ Reviewed(l) <=> p \in Ambiguous
                    /\ \A d \in disposed[c] : d.payload # p
      added == IF p \in Bare THEN {} ELSE {[payload |-> p, listing |-> l]}
  IN
  /\ req[r].pc = "dispose"
  /\ IF classified
     THEN /\ disposed' = [disposed EXCEPT ![c] = @ \cup added]
          /\ Goto(r, IF p \in Corrected THEN "decide" ELSE "receipt")
     ELSE End(r) /\ UNCHANGED disposed
  /\ UNCHANGED <<capture, listing, decision, receipt, deleting, faults, extraction>>

\* Mutant: the gate is released, and the decision left to a later step.
ReleaseFirst(r) ==
  LET l == req[r].listing IN
  /\ req[r].pc = "decide"
  /\ IF listing[l].state = "gated"
     THEN listing' = [listing EXCEPT ![l].state = "incomplete"] /\ Goto(r, "settle")
     ELSE End(r) /\ UNCHANGED listing
  /\ UNCHANGED <<capture, disposed, decision, receipt, deleting, faults, extraction>>

\* One transaction records the identity correction and releases the gate.
RecordCorrection(r) ==
  LET c == req[r].cap
      p == req[r].payload
      l == req[r].listing
      current == /\ listing[l].state = "gated" /\ TailNow(l) = TailOf[p]
                 /\ capture[c].bound = l /\ capture[c].payload = p /\ ~capture[c].failed
                 /\ decision[c] = None
  IN
  /\ req[r].pc = "decide"
  /\ IF current
     THEN /\ decision' = [decision EXCEPT ![c] = [listing |-> l, tail |-> TailOf[p]]]
          /\ listing' = [listing EXCEPT ![l].state =
               IF Reviewed(l) THEN "pending_review" ELSE "incomplete"]
          /\ Goto(r, "settle")
     ELSE End(r) /\ UNCHANGED <<listing, decision>>
  /\ UNCHANGED <<capture, disposed, receipt, deleting, faults, extraction>>

\* finalize_signed_source_listing_after_receipt.
SettleCorrection(r) ==
  LET c == req[r].cap
      l == req[r].listing
      settled == /\ decision[c] # None /\ decision[c].listing = l
                 /\ capture[c].bound = l /\ ~capture[c].failed
                 /\ TailNow(l) = decision[c].tail
  IN
  /\ req[r].pc = "settle"
  /\ \/ settled /\ Finalize(r, "receipt")
     \/ ~settled /\ End(r) /\ UNCHANGED <<listing, faults>>
  /\ UNCHANGED <<capture, disposed, decision, receipt, deleting, extraction>>

\* The receipt closes the capture.  A first materialization compares it with the row
\* as it is now, a recovery with the row it started from.
WriteReceipt(r) ==
  LET c == req[r].cap
      row == IF req[r].recovering THEN req[r].row ELSE capture[c]
      l == row.bound
      exact == /\ capture[c] = row /\ ~row.failed /\ l # None
               /\ listing[l].url = UrlOf[c] /\ ~Receipted(l)
  IN
  /\ req[r].pc = "receipt" /\ End(r)
  /\ receipt' = IF receipt[c] = None /\ exact
                THEN [receipt EXCEPT ![c] = [listing |-> l, payload |-> row.payload]]
                ELSE receipt
  /\ UNCHANGED <<capture, listing, disposed, decision, deleting, faults, extraction>>

-----------------------------------------------------------------------------
\* Where a request for a bound capture takes up its materialization: it builds the
\* projection again as long as no disposition says that this was done, and only the
\* gate tells it that a correction is still to be recorded.
Begun(c) == disposed[c] # {}
SameSource(c) == listing[capture[c].bound].url = UrlOf[c]

\* Mutants: a recovery that writes the receipt of a projection nobody completed; one
\* that takes every gated listing for one still to be projected.
ResumesUnclassified(c, step) ==
  LET l == capture[c].bound
      p == capture[c].payload
  IN
  \/ step = "decide" /\ listing[l].state = "gated" /\ p \in Corrected /\ Begun(c)
  \/ step = "rewrite" /\ listing[l].state = "gated" /\ p \in Corrected /\ ~Begun(c) /\ SameSource(c)
  \/ step = "receipt" /\ listing[l].state # "gated"

ResumesProjectionOnly(c, step) ==
  LET l == capture[c].bound
      p == capture[c].payload
  IN
  \/ step = "rewrite" /\ ~Begun(c) /\ SameSource(c) /\ listing[l].state # "ready"
  \/ step = "receipt" /\ listing[l].state # "gated" /\ Begun(c)

ResumesAt(c, step) ==
  LET l == capture[c].bound
      p == capture[c].payload
      gated == listing[l].state = "gated"
  IN
  \/ step = "decide" /\ gated /\ p \in Corrected /\ Begun(c)
  \/ step = "rewrite" /\ gated /\ p \in Corrected /\ ~Begun(c) /\ SameSource(c)
       /\ TailNow(l) = TailOf[p]
  \/ step = "rewrite" /\ ~gated /\ p \notin Corrected /\ ~Begun(c) /\ SameSource(c)
       /\ listing[l].state # "ready"
  \/ step = "attach" /\ listing[l].state = "ready" /\ p \notin Corrected \cup Ambiguous
       /\ ~Begun(c) /\ SameSource(c) /\ Agrees(l, p)
  \/ step = "receipt" /\ ~gated /\ Begun(c)

Recover(r, c) ==
  LET row == capture[c] IN
  /\ req[r].pc = "idle" /\ row.bound # None /\ ~row.failed /\ receipt[c] = None
  /\ \E step \in Steps :
       /\ ResumesAt(c, step)
       /\ req' = [req EXCEPT ![r] =
            [pc |-> step, cap |-> c, row |-> row, payload |-> row.payload,
             listing |-> row.bound, recovering |-> TRUE]]
  /\ UNCHANGED <<capture, listing, disposed, decision, receipt, deleting, faults, extraction>>

-----------------------------------------------------------------------------
\* The server stops in the middle of a request.
Crash(r) ==
  /\ req[r].pc # "idle" /\ Fault /\ End(r)
  /\ UNCHANGED <<capture, listing, disposed, decision, receipt, deleting, extraction>>

\* The owner deletes a listing: one request checks that it is unpublished and
\* unreceipted, and a transaction of its own deletes it.
CheckDelete(l) ==
  /\ deleting = None /\ Present(l) /\ listing[l].state # "ready" /\ Fault
  /\ ~Receipted(l) /\ deleting' = l
  /\ UNCHANGED <<capture, listing, disposed, decision, receipt, req, extraction>>

Delete ==
  LET l == deleting
      retained == \E c \in Captures :
        \/ receipt[c] # None /\ (receipt[c].listing = l \/ capture[c].bound = l)
        \/ decision[c] # None /\ decision[c].listing = l
  IN
  /\ deleting # None /\ deleting' = None
  /\ IF retained THEN UNCHANGED <<capture, listing, disposed>>
     ELSE /\ listing' = [listing EXCEPT ![l] = NoListing("deleted")]
          /\ capture' = [c \in Captures |->
               IF capture[c].bound = l THEN [capture[c] EXCEPT !.bound = None] ELSE capture[c]]
          /\ disposed' = [c \in Captures |-> {d \in disposed[c] : d.listing # l}]
  /\ UNCHANGED <<decision, receipt, req, faults, extraction>>

\* A reviewer resolves the open review (ListingReview).
ReviewPublishes(l) ==
  /\ listing[l].state = "pending_review" /\ Reviewed(l)
  /\ listing' = [listing EXCEPT ![l].state = "ready", ![l].review = None]
  /\ UNCHANGED <<capture, disposed, decision, receipt, req, deleting, faults, extraction>>

-----------------------------------------------------------------------------
Init ==
  /\ capture  = [c \in Captures |-> NoRow]
  /\ listing  = [l \in Listings |-> NoListing("unused")]
  /\ disposed = [c \in Captures |-> {}]
  /\ decision = [c \in Captures |-> None]
  /\ receipt  = [c \in Captures |-> None]
  /\ req      = [r \in Requests |-> Idle]
  /\ deleting = None
  /\ faults = 0
  /\ extraction \in Extractions

Continue(r) ==
  \/ \E p \in Payloads : ExtractOk(r, p)
  \/ RecordFailure(r) \/ ChooseListing(r) \/ InsertAndBind(r) \/ Rewrite(r)
  \/ ReplaceLinks(r) \/ StageReview(r) \/ FinalizeListing(r) \/ WriteResult(r)
  \/ AttachReview(r) \/ RecordDispositions(r) \/ RecordCorrection(r)
  \/ SettleCorrection(r) \/ WriteReceipt(r)

Next ==
  \/ \E r \in Requests : Continue(r) \/ Refused(r) \/ Crash(r)
  \/ \E r \in Requests, c \in Captures : Submit(r, c) \/ Recover(r, c)
  \/ \E l \in Listings : CheckDelete(l) \/ ReviewPublishes(l)
  \/ Delete

\* A request that is not killed ends; the owner of a page uploads it again and again.
Resubmit(c) == \E r \in Requests : Submit(r, c) \/ Recover(r, c)
Fairness ==
  /\ \A r \in Requests : WF_vars(Continue(r))
  /\ \A c \in Captures : SF_vars(Resubmit(c))

Spec == Init /\ [][Next]_vars
FairSpec == Spec /\ Fairness

-----------------------------------------------------------------------------
\* Every variable has its type; bounds hold.
TypeOK ==
  /\ capture \in [Captures -> CaptureRow]
  /\ listing \in [Listings -> ListingRow]
  /\ disposed \in [Captures -> SUBSET [payload : Payloads, listing : Listings]]
  /\ decision \in [Captures -> [listing : Listings, tail : Tails] \cup {None}]
  /\ receipt \in [Captures -> [listing : Listings, payload : Payloads] \cup {None}]
  /\ req \in [Requests -> Request]
  /\ deleting \in Listings \cup {None}
  /\ faults \in 0..MaxFaults
  /\ extraction \in [Captures -> SUBSET Payloads]

\* A receipt stays true: the capture it closes keeps the payload and the listing the
\* receipt names and no error, and the listing is still there, whatever late requests
\* and deletions are under way (record_materialization_receipt and the triggers).
ReceiptExact == \A c \in Captures : receipt[c] # None =>
  /\ Present(receipt[c].listing)
  /\ capture[c].stored /\ ~capture[c].failed
  /\ capture[c].payload = receipt[c].payload /\ capture[c].bound = receipt[c].listing

\* A listing shows an identity that differs from its page's only behind the gate or
\* with the immutable decision that says why: no request, retry or reviewer can get
\* it out of the gate before record_bound_source_serial_correction has committed.
CorrectionsAreDecided == \A l \in Listings :
  Present(l) /\ listing[l].state # "gated" /\ listing[l].values \in Corrected =>
    \E c \in Captures : decision[c] = [listing |-> l, tail |-> TailNow(l)]

\* The receipt is written last: as long as extracting the page gives the same payload
\* again and nobody deletes a listing, a capture with a receipt has had the very payload
\* the receipt names classified, and a corrected page has its decision and its
\* classification for the very listing the receipt names, although any number of
\* requests died on the way.  (Other pages may be classified on one listing and receipted
\* on another, when a third page takes over the first listing meanwhile.)
Reproducible(c) == \E p \in Payloads : extraction[c] = {p}
NothingDeleted  == \A l \in Listings : listing[l].state # "deleted"

CompletionIsLast == NothingDeleted =>
  \A c \in Captures : receipt[c] # None /\ Reproducible(c) =>
    LET l == receipt[c].listing
        p == receipt[c].payload
    IN
    /\ p \in Bare \/ \E k \in Listings : [payload |-> p, listing |-> k] \in disposed[c]
    /\ p \in Corrected =>
         /\ decision[c] # None /\ decision[c].listing = l
         /\ p \in Bare \/ [payload |-> p, listing |-> l] \in disposed[c]

\* A listing leaves the gate only for an identity that is decided, or deleted: a second
\* page of the same aircraft, which joins unverified listings of its tail, does not
\* release it (aircraft_source_identity_receipt_gate).
GateIsKept == [][\A l \in Listings :
  listing[l].state = "gated" /\ listing'[l].state \notin {"gated", "deleted"} =>
    \E c \in Captures : decision'[c] = [listing |-> l, tail |-> TailOf[listing'[l].values]]]_vars

\* What is published is kept, although a request may have chosen or begun the listing
\* long before it was published.  A step changes a published listing in three cases only:
\*  - a review of it is put up or dropped, and it keeps its values, links and URL;
\*  - a deletion that found it unpublished goes through;
\*  - a recovery of a corrected page, which found the listing gated, was overtaken by that
\*    page's own decision, which released it: the recovery writes the values and the URL
\*    of its page over the published ones and gates the listing again.
Overwrites(r, l) ==
  LET c == req[r].cap IN
  /\ req[r].pc = "rewrite" /\ req[r].recovering /\ req[r].listing = l
  /\ req[r].payload \in Corrected /\ decision[c] # None /\ decision[c].listing = l
  /\ listing'[l] = [listing[l] EXCEPT !.state = "gated", !.url = UrlOf[c],
                                      !.values = req[r].payload]

PublishedIsKept == [][\A l \in Listings : listing[l].state = "ready" =>
  \/ /\ listing'[l].state \in {"ready", "pending_review"}
     /\ listing'[l].values = listing[l].values
     /\ listing'[l].links = listing[l].links
     /\ listing'[l].url = listing[l].url
  \/ listing'[l].state = "deleted" /\ deleting = l
  \/ \E r \in Requests : Overwrites(r, l)]_vars

\* Uploading the page again completes its capture, unless the capture is in one of the
\* situations no upload leads out of:
\*  - it is unbound, and every time it joins a listing that is held behind the gate, or
\*    another listing claims its page;
\*  - a late failure was written over its binding, its listing's receipt belongs to
\*    another page, or its listing has moved to another page;
\*  - its listing is gated again after its decision, or gated for another page's sake;
\*  - its decision was recorded but nothing classified, which only a Bare payload allows;
\*  - its listing was published, by a reviewer or by another page, before its
\*    occurrences were classified, and no longer says what the capture says.
Stuck(c) ==
  LET l == capture[c].bound
      p == capture[c].payload
      joinsHeld == \E q \in extraction[c] \ Corrected, k \in Listings :
                     Held(k, TailOf[q]) /\ TailNow(k) = TailOf[q]
      claimed == \E k \in Listings : listing[k].url = UrlOf[c]
  IN
  \/ l = None /\ (joinsHeld \/ claimed)
  \/ /\ l # None
     /\ \/ capture[c].failed \/ Receipted(l) \/ ~SameSource(c)
        \/ listing[l].state = "gated" /\ (decision[c] # None \/ p \notin Corrected)
        \/ listing[l].state # "gated" /\ ~Begun(c) /\ p \in Corrected
        \/ listing[l].state = "ready" /\ ~Begun(c) /\ (p \in Ambiguous \/ ~Agrees(l, p))

Materializes == \A c \in Captures :
  []<>(Reproducible(c) => receipt[c] # None \/ Stuck(c))

-----------------------------------------------------------------------------
(* Captures and listings implement CaptureLedger. *)

\* Who looks at a listing sees only that it is not there, held back, not published or
\* published.
ShownAs(s) == CASE s = "unused" -> "absent" [] s = "deleted" -> "gone" [] s = "gated" -> "held"
                [] s = "ready" -> "published" [] OTHER -> "open"

Ledger == INSTANCE CaptureLedger WITH
  shown <- [l \in Listings |-> [state |-> ShownAs(listing[l].state), says |-> listing[l].values]],
  entry <- [c \in Captures |-> [payload |-> capture[c].payload, listing |-> capture[c].bound]]

\* The promise of the store, whatever requests, retries, crashes, reviewers and deletions
\* do: entering and binding, deciding and showing, deleting and freeing are one step each;
\* receipts and decisions are final, and keep their listing.
ImplementsLedger == Ledger!Spec
=============================================================================
