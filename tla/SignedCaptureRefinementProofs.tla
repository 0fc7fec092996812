-------------------- MODULE SignedCaptureRefinementProofs --------------------
(***************************************************************************)
(* Proof that SignedCapture implements CaptureLedger: every step enters,   *)
(* writes, holds, shows, publishes, decides, closes or removes exactly     *)
(* what the ledger allows, or leaves it alone.                             *)
(***************************************************************************)
EXTENDS SignedCaptureProofs

\* What the ledger shows of the state.
ShownRow(row) == [state |-> ShownAs(row.state), says |-> row.values]
EntryRow(row) == [payload |-> row.payload, listing |-> row.bound]
ShownView == [l \in Listings |-> [state |-> ShownAs(listing[l].state), says |-> listing[l].values]]
EntryView == [c \in Captures |-> [payload |-> capture[c].payload, listing |-> capture[c].bound]]

Refines == Ledger!Next \/ UNCHANGED Ledger!vars

\* The listing that is about to be deleted is there.
DeletingOK == deleting # None => Present(deleting)

RefinementInv == CaptureInv /\ DeletingOK

LEMMA ShownStates ==
  ASSUME NEW s \in States
  PROVE  /\ ShownAs(s) = "absent" <=> s = "unused"
         /\ ShownAs(s) = "gone" <=> s = "deleted"
         /\ ShownAs(s) = "held" <=> s = "gated"
         /\ ShownAs(s) = "published" <=> s = "ready"
         /\ ShownAs(s) = "open" <=> s \in {"incomplete", "pending_review", "quarantined"}
BY DEF ShownAs, States

LEMMA LedgerStutter ==
  ASSUME UNCHANGED <<ShownView, EntryView, decision, receipt>>
  PROVE  Refines
BY DEF Refines, Ledger!vars, ShownView, EntryView

LEMMA QuietRefines ==
  ASSUME UNCHANGED <<listing, capture, decision, receipt>>
  PROVE  Refines
BY LedgerStutter DEF ShownView, EntryView

\* What the views make of one row that is written.
LEMMA ShownChanges ==
  ASSUME CaptureInv, NEW l \in Listings, NEW row, listing' = [listing EXCEPT ![l] = row]
  PROVE  ShownView' = [ShownView EXCEPT ![l] = ShownRow(row)]
<1>1. \A k \in Listings : listing'[k] = IF k = l THEN row ELSE listing[k]
  BY DEF CaptureInv, TypeOK
<1> QED BY <1>1 DEF ShownView, ShownRow

LEMMA EntryChanges ==
  ASSUME CaptureInv, NEW c \in Captures, NEW row, capture' = [capture EXCEPT ![c] = row]
  PROVE  EntryView' = [EntryView EXCEPT ![c] = EntryRow(row)]
<1>1. \A d \in Captures : capture'[d] = IF d = c THEN row ELSE capture[d]
  BY DEF CaptureInv, TypeOK
<1> QED BY <1>1 DEF EntryView, EntryRow

-----------------------------------------------------------------------------
(* Steps that write one listing. *)

\* What may be made of a listing that is there.
ChangeOK(l, row) ==
  /\ Present(l) /\ row \in ListingRow /\ row.state \notin {"unused", "deleted"}
  /\ row.values \in Payloads
  /\ row.state = "gated" => \/ row.values \in Corrected
                            \/ listing[l].state = "gated" /\ row.values = listing[l].values
  /\ row.state = "ready" => listing[l].state # "gated" /\ row.values = listing[l].values
  /\ row.state \notin {"gated", "ready"} =>
       \/ listing[l].state # "gated" /\ row.values = listing[l].values
       \/ listing[l].state \notin {"gated", "ready"} /\ row.values \notin Corrected
       \/ listing[l].state = "gated" /\ \E c \in Captures :
            decision[c] = [listing |-> l, tail |-> TailOf[row.values]]

LEMMA ChangeRefines ==
  ASSUME CaptureInv, NEW l \in Listings, NEW row, listing' = [listing EXCEPT ![l] = row],
         ChangeOK(l, row), UNCHANGED <<capture, decision, receipt>>
  PROVE  Refines
<1>1. /\ listing[l] \in ListingRow /\ listing[l].state \in States /\ row.state \in States
      /\ listing[l].state \notin {"unused", "deleted"}
  BY DEF CaptureInv, TypeOK, ChangeOK, ListingRow, Present
<1>2. /\ ShownView' = [ShownView EXCEPT ![l] = ShownRow(row)]
      /\ ShownView[l] = ShownRow(listing[l])
      /\ UNCHANGED EntryView
  BY ShownChanges DEF ShownView, ShownRow, EntryView
<1>3. CASE row.state = "gated"
  <2>1. CASE listing[l].state = "gated" /\ row.values = listing[l].values
    <3>1. ShownRow(row) = ShownView[l]
      BY <1>2, <1>3, <2>1 DEF ShownRow
    <3>2. UNCHANGED ShownView
      BY <1>2, <3>1 DEF ShownView
    <3> QED BY <1>2, <3>2, LedgerStutter
  <2>2. CASE row.values \in Corrected
    <3>1. ShownRow(row) = [state |-> "held", says |-> row.values]
      BY <1>1, <1>3, ShownStates DEF ShownRow
    <3>2. ShownView[l].state \in {"held", "open", "published"}
      BY <1>1, <1>2, ShownStates DEF ShownRow, States
    <3>3. Ledger!Hold(l, row.values)
      BY <1>2, <2>2, <3>1, <3>2 DEF Ledger!Hold, Ledger!Live, ShownView, EntryView
    <3> QED BY <3>3 DEF Ledger!Next, Refines, ChangeOK
  <2> QED BY <1>3, <2>1, <2>2 DEF ChangeOK
<1>4. CASE row.state = "ready"
  <2>1. listing[l].state # "gated" /\ row.values = listing[l].values
    BY <1>4 DEF ChangeOK
  <2>2. CASE listing[l].state = "ready"
    <3>1. ShownRow(row) = ShownView[l]
      BY <1>2, <1>4, <2>1, <2>2 DEF ShownRow
    <3>2. UNCHANGED ShownView
      BY <1>2, <3>1 DEF ShownView
    <3> QED BY <1>2, <3>2, LedgerStutter
  <2>3. CASE listing[l].state # "ready"
    <3>1. /\ ShownRow(listing[l]) = [state |-> "open", says |-> row.values]
          /\ ShownRow(row) = [state |-> "published", says |-> row.values]
      BY <1>1, <1>4, <2>1, <2>3, ShownStates DEF ShownRow, States
    <3>2. /\ ShownView[l].state = "open"
          /\ ShownRow(row) = [ShownView[l] EXCEPT !.state = "published"]
      BY <1>2, <3>1
    <3>3. ShownView' = [ShownView EXCEPT ![l].state = "published"]
      BY <1>2, <3>2
    <3>4. Ledger!Publish(l)
      BY <1>2, <3>2, <3>3 DEF Ledger!Publish, ShownView, EntryView
    <3> QED BY <3>4 DEF Ledger!Next, Refines
  <2> QED BY <2>2, <2>3
<1>5. CASE row.state \notin {"gated", "ready"}
  <2>1. ShownRow(row) = [state |-> "open", says |-> row.values]
    BY <1>1, <1>5, ShownStates DEF ShownRow, ChangeOK, States
  <2>2. /\ ShownView[l].says = listing[l].values
        /\ ShownView[l].state = "held" <=> listing[l].state = "gated"
        /\ listing[l].state # "gated" => ShownView[l].state \in {"open", "published"}
        /\ listing[l].state \notin {"gated", "ready"} => ShownView[l].state = "open"
    BY <1>1, <1>2, ShownStates DEF ShownRow, States
  <2>3. \/ ShownView[l].state \in {"open", "published"} /\ row.values = ShownView[l].says
        \/ ShownView[l].state = "open" /\ row.values \notin Corrected
        \/ /\ ShownView[l].state = "held"
           /\ \E c \in Captures : decision[c] = [listing |-> l, tail |-> TailOf[row.values]]
    BY <1>5, <2>2 DEF ChangeOK
  <2>4. Ledger!Show(l, row.values)
    BY <1>2, <2>1, <2>3 DEF Ledger!Show, Ledger!Decided, ShownView, EntryView
  <2> QED BY <2>4 DEF Ledger!Next, Refines, ChangeOK
<1> QED BY <1>3, <1>4, <1>5

\* A listing keeps what it says, and leaves the gate only when that is decided.
LEMMA SameSayingRefines ==
  ASSUME CaptureInv, NEW l \in Listings, NEW row \in ListingRow, Present(l),
         listing' = [listing EXCEPT ![l] = row], UNCHANGED <<capture, decision, receipt>>,
         row.values = listing[l].values, row.state \notin {"unused", "deleted"},
         row.state = "gated" => listing[l].state = "gated",
         row.state = "ready" => listing[l].state # "gated",
         listing[l].state = "gated" => row.state = "gated" \/ ~Held(l, TailNow(l))
  PROVE  Refines
<1>1. listing[l].values \in Payloads
  BY PresentRow
<1>2. ~Held(l, TailNow(l)) =>
        \/ listing[l].state # "gated"
        \/ \E c \in Captures : decision[c] = [listing |-> l, tail |-> TailOf[row.values]]
  BY DEF Held, Decided, TailNow
<1>3. ChangeOK(l, row)
  BY <1>1, <1>2 DEF ChangeOK
<1> QED BY <1>3, ChangeRefines

\* ... as when only its state is written.
LEMMA StateRefines ==
  ASSUME CaptureInv, NEW l \in Listings, Present(l),
         NEW s \in States \ {"unused", "deleted", "gated"},
         listing' = [listing EXCEPT ![l].state = s], UNCHANGED <<capture, decision, receipt>>,
         listing[l].state = "gated" => s # "ready" /\ ~Held(l, TailNow(l))
  PROVE  Refines
<1> DEFINE row == [listing[l] EXCEPT !.state = s]
<1>1. row \in ListingRow /\ row.state = s /\ row.values = listing[l].values
  BY PresentRow DEF ListingRow
<1>2. listing' = [listing EXCEPT ![l] = row]
  OBVIOUS
<1> HIDE DEF row
<1> QED BY <1>1, <1>2, SameSayingRefines

LEMMA RewriteRefines ==
  ASSUME CaptureInv, NEW r \in Requests, Rewrite(r)
  PROVE  Refines
<1> DEFINE p == req[r].payload
           u == UrlOf[req[r].cap]
           l == req[r].listing
           row == [listing[l] EXCEPT !.state = IF p \in Corrected THEN "gated" ELSE "incomplete",
                                      !.url = u, !.values = p]
<1>1. /\ p \in Payloads /\ u \in {UrlOf[c] : c \in Captures} /\ l \in Listings
      /\ listing[l] \in ListingRow /\ UNCHANGED <<capture, decision, receipt>>
  BY DEF CaptureInv, TypeOK, Knows, RequestOK, Rewrite, Late
<1>2. CASE UNCHANGED listing
  BY <1>1, <1>2, QuietRefines
<1>3. CASE /\ Present(l) /\ listing' = [listing EXCEPT ![l] = row]
           /\ p \in Corrected \/ (listing[l].state # "ready" /\ ~Held(l, TailOf[p]))
  <2>1. /\ row \in ListingRow /\ row.values = p
        /\ row.state = IF p \in Corrected THEN "gated" ELSE "incomplete"
    BY <1>1 DEF ListingRow, States
  <2> HIDE DEF row, p, l
  <2>2. ChangeOK(l, row)
    BY <1>1, <1>3, <2>1 DEF ChangeOK, Held, Decided
  <2> QED BY <1>1, <1>3, <2>2, ChangeRefines
<1> QED BY <1>2, <1>3 DEF Rewrite

LEMMA ReplaceLinksRefines ==
  ASSUME CaptureInv, NEW r \in Requests, ReplaceLinks(r)
  PROVE  Refines
<1> DEFINE p == req[r].payload
           l == req[r].listing
           row == [listing[l] EXCEPT !.links = p]
<1>1. p \in Payloads /\ l \in Listings /\ UNCHANGED <<capture, decision, receipt>>
  BY DEF CaptureInv, Knows, RequestOK, ReplaceLinks, Late
<1>2. CASE UNCHANGED listing
  BY <1>1, <1>2, QuietRefines
<1>3. CASE /\ Present(l) /\ listing[l].state # "ready"
           /\ listing' = [listing EXCEPT ![l].links = p]
  <2>1. /\ row \in ListingRow /\ row.values = listing[l].values
        /\ row.state = listing[l].state
    BY <1>1, PresentRow DEF ListingRow
  <2>2. listing' = [listing EXCEPT ![l] = row]
    BY <1>3
  <2> HIDE DEF row, p, l
  <2> QED BY <1>1, <1>3, <2>1, <2>2, SameSayingRefines DEF Present
<1>4. CASE /\ Present(l) /\ ~Untouchable(l)
           /\ listing' = [listing EXCEPT ![l].state = Quarantined(l)]
  <2>1. /\ ~Held(l, TailNow(l)) /\ Quarantined(l) # "ready"
        /\ Quarantined(l) \in States \ {"unused", "deleted", "gated"}
    BY <1>1, <1>4, QuarantinedState DEF Untouchable, Quarantined
  <2> HIDE DEF l, p
  <2> QED BY <1>1, <1>4, <2>1, StateRefines
<1> QED BY <1>2, <1>3, <1>4 DEF ReplaceLinks

LEMMA FinalizeRefines ==
  ASSUME CaptureInv, NEW r \in Requests, NEW step, Finalize(r, step), req[r].listing \in Listings,
         UNCHANGED <<capture, decision, receipt>>
  PROVE  Refines
<1> DEFINE l == req[r].listing
<1>1. CASE UNCHANGED listing
  BY <1>1, QuietRefines
<1>2. ASSUME Present(l), listing[l].state # "gated",
             NEW s \in States \ {"unused", "deleted", "gated"},
             listing' = [listing EXCEPT ![l].state = s]
      PROVE  Refines
  <2> HIDE DEF l
  <2> QED BY <1>2, StateRefines DEF l
<1>3. Quarantined(l) \in States \ {"unused", "deleted", "gated"}
  BY QuarantinedState
<1> QED BY <1>1, <1>2, <1>3 DEF Finalize, States

LEMMA StageReviewRefines ==
  ASSUME CaptureInv, NEW r \in Requests, StageReview(r)
  PROVE  Refines
<1> DEFINE p == req[r].payload
           l == req[r].listing
           cleared == IF listing[l].state = "pending_review" THEN "incomplete"
                      ELSE listing[l].state
           rest == [listing[l] EXCEPT !.review = None, !.state = cleared]
           open == [listing[l] EXCEPT !.review = Unattached,
                      !.state = IF p \in Corrected THEN @ ELSE "pending_review"]
<1>1. l \in Listings /\ UNCHANGED <<capture, decision, receipt>>
  BY DEF CaptureInv, Knows, RequestOK, StageReview, Late
<1>2. CASE UNCHANGED listing
  BY <1>1, <1>2, QuietRefines
<1>3. CASE Present(l) /\ listing' = [listing EXCEPT ![l] = rest]
  <2>1. rest \in ListingRow /\ rest.values = listing[l].values /\ rest.state = cleared
    BY <1>1, PresentRow DEF ListingRow, States
  <2> HIDE DEF rest
  <2> QED BY <1>1, <1>3, <2>1, SameSayingRefines DEF Present
<1>4. CASE /\ Present(l) /\ listing' = [listing EXCEPT ![l] = open]
           /\ p \in Corrected => listing[l].state = "gated"
           /\ p \notin Corrected => ~Held(l, TailNow(l))
  <2>1. /\ open \in ListingRow /\ open.values = listing[l].values
        /\ open.state = IF p \in Corrected THEN listing[l].state ELSE "pending_review"
    BY <1>1, PresentRow DEF ListingRow, States
  <2> HIDE DEF open, p, l
  <2> QED BY <1>1, <1>4, <2>1, SameSayingRefines DEF Present
<1>5. \/ UNCHANGED listing
      \/ Present(l) /\ listing' = [listing EXCEPT ![l] = rest]
      \/ /\ Present(l) /\ listing' = [listing EXCEPT ![l] = open]
         /\ p \in Corrected => listing[l].state = "gated"
         /\ p \notin Corrected => ~Held(l, TailNow(l))
      \/ /\ Present(l) /\ listing' = [listing EXCEPT ![l] = rest]
  <2>1. CASE p \in Ambiguous
    BY <2>1 DEF StageReview
  <2>2. CASE p \notin Ambiguous
    BY <2>2 DEF StageReview
  <2> QED BY <2>1, <2>2
<1> QED BY <1>2, <1>3, <1>4, <1>5

LEMMA AttachReviewRefines ==
  ASSUME CaptureInv, NEW r \in Requests, AttachReview(r)
  PROVE  Refines
<1> DEFINE l == req[r].listing
           row == [listing[l] EXCEPT !.review = req[r].cap]
<1>1. req[r].cap \in Captures /\ l \in Listings /\ UNCHANGED <<capture, decision, receipt>>
  BY DEF CaptureInv, Knows, RequestOK, AttachReview, Late
<1>2. CASE UNCHANGED listing
  BY <1>1, <1>2, QuietRefines
<1>3. CASE Reviewed(l) /\ listing' = [listing EXCEPT ![l].review = req[r].cap]
  <2>1. row \in ListingRow /\ row.values = listing[l].values /\ row.state = listing[l].state
    BY <1>1, PresentRow DEF ListingRow
  <2>2. listing' = [listing EXCEPT ![l] = row] /\ Present(l)
    BY <1>1, <1>3, PresentRow
  <2> HIDE DEF row, l
  <2> QED BY <1>1, <2>1, <2>2, SameSayingRefines DEF Present
<1> QED BY <1>2, <1>3 DEF AttachReview

LEMMA ReviewPublishesRefines ==
  ASSUME CaptureInv, NEW l \in Listings, ReviewPublishes(l)
  PROVE  Refines
<1> DEFINE row == [listing[l] EXCEPT !.state = "ready", !.review = None]
<1>1. /\ row \in ListingRow /\ row.values = listing[l].values /\ row.state = "ready"
  BY PresentRow DEF ListingRow, States
<1>2. /\ listing' = [listing EXCEPT ![l] = row] /\ UNCHANGED <<capture, decision, receipt>>
      /\ Present(l) /\ listing[l].state = "pending_review"
  BY DEF ReviewPublishes, CaptureInv, TypeOK, Present
<1> HIDE DEF row
<1> QED BY <1>1, <1>2, SameSayingRefines

-----------------------------------------------------------------------------
(* Steps that write captures. *)

LEMMA WriteRefines ==
  ASSUME CaptureInv, NEW c \in Captures, NEW row \in CaptureRow,
         capture' = [capture EXCEPT ![c] = row], UNCHANGED <<listing, decision, receipt>>,
         receipt[c] = None,
         row.bound = capture[c].bound \/ (row.bound \in Listings /\ Present(row.bound))
  PROVE  Refines
<1>1. /\ EntryView' = [EntryView EXCEPT ![c] = [payload |-> row.payload, listing |-> row.bound]]
      /\ EntryView[c].listing = capture[c].bound
      /\ UNCHANGED ShownView
  BY EntryChanges DEF EntryRow, EntryView, ShownView
<1>2. row.payload \in Payloads \cup {None} /\ row.bound \in Listings \cup {None}
  BY DEF CaptureRow
<1>3. \A l \in Listings : Present(l) => ShownView[l].state \in {"held", "open", "published"}
  <2>1. \A l \in Listings : listing[l].state \in States
    BY DEF CaptureInv, TypeOK, ListingRow
  <2> QED BY <2>1, ShownStates DEF ShownView, Present, States
<1>4. Ledger!Write(c, row.payload, row.bound)
  BY <1>1, <1>3 DEF Ledger!Write, Ledger!Live, ShownView, EntryView
<1> QED BY <1>2, <1>4 DEF Refines, Ledger!Next

LEMMA ExtractOkRefines ==
  ASSUME CaptureInv, NEW r \in Requests, NEW p \in Payloads, ExtractOk(r, p)
  PROVE  Refines
<1> DEFINE c == req[r].cap
           fresh == [NoRow EXCEPT !.stored = TRUE, !.payload = p]
<1>1. c \in Captures /\ UNCHANGED <<listing, decision, receipt>>
  BY DEF CaptureInv, Knows, RequestOK, ExtractOk
<1>2. CASE UNCHANGED capture
  BY <1>1, <1>2, QuietRefines
<1>3. CASE ~capture[c].stored /\ capture' = [capture EXCEPT ![c] = fresh]
  <2>1. receipt[c] = None /\ capture[c].bound = None
    BY <1>1, <1>3, ReceiptedRow DEF CaptureInv, BoundOK
  <2>2. fresh \in CaptureRow /\ fresh.bound = None
    BY DEF CaptureRow, NoRow
  <2> HIDE DEF c, fresh
  <2> QED BY <1>1, <1>3, <2>1, <2>2, WriteRefines
<1> QED BY <1>2, <1>3 DEF ExtractOk

LEMMA RecordFailureRefines ==
  ASSUME CaptureInv, NEW r \in Requests, RecordFailure(r)
  PROVE  Refines
<1> DEFINE c == req[r].cap
           row == [capture[c] EXCEPT !.failed = TRUE, !.stored = TRUE,
                     !.payload = IF req[r].payload = None THEN @ ELSE req[r].payload]
<1>1. c \in Captures /\ UNCHANGED <<listing, decision, receipt>>
  BY DEF CaptureInv, Knows, RequestOK, RecordFailure
<1>2. CASE UNCHANGED capture
  BY <1>1, <1>2, QuietRefines
<1>3. CASE CanWrite(c, row) /\ capture' = [capture EXCEPT ![c] = row] /\ ~UNCHANGED capture
  <2>1. receipt[c] = None
    <3> HIDE DEF c, row
    <3> QED BY <1>1, <1>3 DEF CanWrite, CaptureInv, TypeOK
  <2>2. row \in CaptureRow /\ row.bound = capture[c].bound
    <3>1. capture[c] \in CaptureRow /\ req[r].payload \in Payloads \cup {None}
      BY <1>1 DEF CaptureInv, TypeOK, Request
    <3> HIDE DEF c
    <3> QED BY <3>1 DEF CaptureRow
  <2> HIDE DEF c, row
  <2> QED BY <1>1, <1>3, <2>1, <2>2, WriteRefines
<1> QED BY <1>2, <1>3 DEF RecordFailure

LEMMA WriteResultRefines ==
  ASSUME CaptureInv, NEW r \in Requests, WriteResult(r)
  PROVE  Refines
<1> DEFINE c == req[r].cap
           l == req[r].listing
           row == [capture[c] EXCEPT !.payload = req[r].payload, !.failed = FALSE, !.bound = l]
<1>1. /\ c \in Captures /\ l \in Listings /\ req[r].payload \in Payloads
      /\ UNCHANGED <<listing, decision, receipt>>
  BY DEF CaptureInv, Knows, RequestOK, WriteResult, Late
<1>2. CASE UNCHANGED capture
  BY <1>1, <1>2, QuietRefines
<1>3. CASE /\ Present(l) /\ CanWrite(c, row) /\ capture' = [capture EXCEPT ![c] = row]
           /\ ~UNCHANGED capture
  <2>1. receipt[c] = None
    <3> HIDE DEF c, row, l
    <3> QED BY <1>1, <1>3 DEF CanWrite, CaptureInv, TypeOK
  <2>2. row \in CaptureRow /\ row.bound = l
    <3>1. capture[c] \in CaptureRow
      BY <1>1 DEF CaptureInv, TypeOK
    <3> HIDE DEF c, l
    <3> QED BY <1>1, <3>1 DEF CaptureRow
  <2> HIDE DEF c, row, l
  <2> QED BY <1>1, <1>3, <2>1, <2>2, WriteRefines
<1> QED BY <1>2, <1>3 DEF WriteResult

-----------------------------------------------------------------------------
(* Steps of two parts. *)

LEMMA EnterOrDecide ==
  ASSUME NEW c \in Captures, NEW l \in Listings, NEW p \in Payloads,
         Ledger!Enter(c, l, p) \/ Ledger!Decide(c, l)
  PROVE  Refines
BY DEF Refines, Ledger!Next

LEMMA InsertAndBindRefines ==
  ASSUME CaptureInv, NEW r \in Requests, InsertAndBind(r)
  PROVE  Refines
<1> DEFINE c == req[r].cap
           p == req[r].payload
<1>1. /\ c \in Captures /\ p \in Payloads /\ req[r].row.bound = None
      /\ UNCHANGED <<decision, receipt>>
  BY DEF CaptureInv, Knows, RequestOK, InsertAndBind
<1>2. CASE UNCHANGED <<capture, listing>>
  BY <1>1, <1>2, QuietRefines
<1>3. ASSUME NEW l \in Listings, listing[l].state = "unused", capture[c] = req[r].row,
             listing' = [listing EXCEPT ![l] =
               [NoListing(IF p \in Corrected THEN "gated" ELSE "incomplete")
                  EXCEPT !.url = UrlOf[c], !.values = p]],
             capture' = [capture EXCEPT ![c] =
               [@ EXCEPT !.payload = p, !.failed = FALSE, !.bound = l]]
      PROVE  Refines
  <2> DEFINE row == [NoListing(IF p \in Corrected THEN "gated" ELSE "incomplete")
                       EXCEPT !.url = UrlOf[c], !.values = p]
             entry == [capture[c] EXCEPT !.payload = p, !.failed = FALSE, !.bound = l]
  <2>1. row.values = p /\ row.state = IF p \in Corrected THEN "gated" ELSE "incomplete"
    BY DEF NoListing
  <2>2. entry.payload = p /\ entry.bound = l
    BY <1>1 DEF CaptureInv, TypeOK, CaptureRow
  <2>3. capture' = [capture EXCEPT ![c] = entry] /\ listing' = [listing EXCEPT ![l] = row]
    BY <1>3
  <2> HIDE DEF row, entry, c, p
  <2>4. ShownRow(row) = [state |-> IF p \in Corrected THEN "held" ELSE "open", says |-> p]
    BY <2>1 DEF ShownRow, ShownAs
  <2>5. /\ ShownView' = [ShownView EXCEPT ![l] =
              [state |-> IF p \in Corrected THEN "held" ELSE "open", says |-> p]]
        /\ EntryView' = [EntryView EXCEPT ![c] = [payload |-> p, listing |-> l]]
    BY <1>1, <2>2, <2>3, <2>4, ShownChanges, EntryChanges DEF EntryRow
  <2>6. ShownView[l].state = "absent" /\ EntryView[c].listing = None /\ receipt[c] = None
    BY <1>1, <1>3, ReceiptedRow DEF ShownView, ShownAs, EntryView
  <2>7. PICK d \in Captures, q \in Payloads : d = c /\ q = p
    BY <1>1
  <2>8. Ledger!Enter(d, l, q)
    BY <1>1, <2>5, <2>6, <2>7 DEF Ledger!Enter, ShownView, EntryView
  <2> QED BY <1>3, <2>8, EnterOrDecide
<1> QED BY <1>2, <1>3 DEF InsertAndBind

LEMMA RecordCorrectionRefines ==
  ASSUME CaptureInv, NEW r \in Requests, RecordCorrection(r)
  PROVE  Refines
<1> DEFINE c == req[r].cap
           p == req[r].payload
           l == req[r].listing
           s == IF Reviewed(l) THEN "pending_review" ELSE "incomplete"
           row == [listing[l] EXCEPT !.state = s]
<1>1. c \in Captures /\ l \in Listings /\ p \in Payloads /\ UNCHANGED <<capture, receipt>>
  BY DEF CaptureInv, Knows, RequestOK, RecordCorrection, Late
<1>2. CASE UNCHANGED <<listing, decision>>
  BY <1>1, <1>2, QuietRefines
<1>3. CASE ~UNCHANGED <<listing, decision>>
  <2>1. /\ listing[l].state = "gated" /\ TailNow(l) = TailOf[p]
        /\ capture[c].bound = l /\ capture[c].payload = p /\ decision[c] = None
        /\ decision' = [decision EXCEPT ![c] = [listing |-> l, tail |-> TailOf[p]]]
        /\ listing' = [listing EXCEPT ![l] = row]
    BY <1>3 DEF RecordCorrection
  <2>2. ShownRow(row) = [state |-> "open", says |-> listing[l].values]
    BY <1>1, PresentRow DEF ListingRow, ShownRow, ShownAs
  <2>3. /\ ShownView[l] = [state |-> "held", says |-> listing[l].values]
        /\ EntryView[c] = [payload |-> p, listing |-> l]
    BY <1>1, <2>1 DEF ShownView, ShownAs, EntryView
  <2> HIDE DEF row, l, c, p
  <2>4. ShownRow(row) = [ShownView[l] EXCEPT !.state = "open"]
    BY <2>2, <2>3
  <2>5. ShownView' = [ShownView EXCEPT ![l].state = "open"] /\ UNCHANGED EntryView
    <3>1. ShownView' = [ShownView EXCEPT ![l] = ShownRow(row)]
      BY <1>1, <2>1, ShownChanges
    <3>2. ShownView' = [ShownView EXCEPT ![l].state = "open"]
      BY <2>4, <3>1
    <3> QED BY <1>1, <3>2 DEF EntryView
  <2>6. PICK d \in Captures, k \in Listings, q \in Payloads : d = c /\ k = l /\ q = p
    BY <1>1
  <2>7. Ledger!Decide(d, k)
    BY <1>1, <2>1, <2>3, <2>5, <2>6 DEF Ledger!Decide, ShownView, EntryView, TailNow
  <2> QED BY <2>6, <2>7, EnterOrDecide
<1> QED BY <1>2, <1>3

LEMMA WriteReceiptRefines ==
  ASSUME CaptureInv, NEW r \in Requests, WriteReceipt(r)
  PROVE  Refines
<1> DEFINE c == req[r].cap
           l == capture[c].bound
<1>1. c \in Captures /\ UNCHANGED <<capture, listing, decision>>
  BY DEF CaptureInv, Knows, RequestOK, WriteReceipt
<1>2. CASE UNCHANGED receipt
  BY <1>1, <1>2, QuietRefines
<1>3. CASE ~UNCHANGED receipt
  <2>1. /\ receipt[c] = None /\ ~Receipted(l) /\ l # None
        /\ listing[l].url = UrlOf[c]
        /\ receipt' = [receipt EXCEPT ![c] = [listing |-> l, payload |-> capture[c].payload]]
    BY <1>3 DEF WriteReceipt
  <2>2. l \in Listings
    BY <1>1, <2>1 DEF CaptureInv, TypeOK, CaptureRow
  <2>3. Present(l) /\ listing[l].state \in States
    BY <1>1, <2>1, <2>2, NoneIsNoId DEF CaptureInv, TypeOK, ListingRow, FilledOK, Present
  <2>4. /\ ShownView[l].state \in {"held", "open", "published"}
        /\ EntryView[c] = [payload |-> capture[c].payload, listing |-> l]
        /\ UNCHANGED <<ShownView, EntryView>>
    BY <1>1, <2>2, <2>3, ShownStates DEF ShownView, EntryView, Present, States
  <2>5. receipt' = [receipt EXCEPT ![c] = EntryView[c]] /\ EntryView[c].listing = l
    BY <2>1, <2>4
  <2> HIDE DEF l, c
  <2>6. Ledger!Close(c, l)
    BY <1>1, <2>1, <2>4, <2>5 DEF Ledger!Close, Ledger!Live, Ledger!Receipted, Receipted,
                                  ShownView, EntryView
  <2> QED BY <1>1, <2>2, <2>6 DEF Refines, Ledger!Next
<1> QED BY <1>2, <1>3

LEMMA DeleteRefines ==
  ASSUME CaptureInv, DeletingOK, Delete
  PROVE  Refines
<1>1. CASE UNCHANGED <<capture, listing>>
  BY <1>1, QuietRefines DEF Delete
<1>2. CASE ~UNCHANGED <<capture, listing>>
  <2> DEFINE gone == NoListing("deleted")
  <2>1. PICK l \in Listings : l = deleting /\ Present(l)
    BY DEF Delete, CaptureInv, TypeOK, DeletingOK
  <2>2. /\ ~Receipted(l) /\ \A c \in Captures : ~(decision[c] # None /\ decision[c].listing = l)
        /\ listing' = [listing EXCEPT ![l] = gone]
        /\ capture' = [c \in Captures |->
             IF capture[c].bound = l THEN [capture[c] EXCEPT !.bound = None] ELSE capture[c]]
        /\ UNCHANGED <<decision, receipt>>
    BY <1>2, <2>1 DEF Delete, Receipted
  <2>3. ShownRow(gone) = [state |-> "gone", says |-> None]
    BY DEF ShownRow, ShownAs, NoListing
  <2> HIDE DEF gone
  <2>4. ShownView' = [ShownView EXCEPT ![l] = [state |-> "gone", says |-> None]]
    BY <2>2, <2>3, ShownChanges
  <2>5. EntryView' = [c \in Captures |->
          IF EntryView[c].listing = l THEN [EntryView[c] EXCEPT !.listing = None] ELSE EntryView[c]]
    <3>1. ASSUME NEW c \in Captures
          PROVE  [payload |-> capture'[c].payload, listing |-> capture'[c].bound] =
                   IF EntryView[c].listing = l THEN [EntryView[c] EXCEPT !.listing = None]
                   ELSE EntryView[c]
      <4>1. capture[c] \in CaptureRow
        BY DEF CaptureInv, TypeOK
      <4> QED BY <2>2, <4>1 DEF EntryView, CaptureRow
    <3> QED BY <3>1 DEF EntryView
  <2>6. ShownView[l].state \in {"held", "open", "published"}
    <3>1. listing[l].state \in States
      BY DEF CaptureInv, TypeOK, ListingRow
    <3> QED BY <2>1, <3>1, ShownStates DEF ShownView, Present, States
  <2>7. Ledger!Remove(l)
    BY <2>2, <2>4, <2>5, <2>6 DEF Ledger!Remove, Ledger!Live, Ledger!Retained, Ledger!Receipted,
                                  Ledger!Gone, Receipted, ShownView, EntryView
  <2> QED BY <2>7 DEF Refines, Ledger!Next
<1> QED BY <1>1, <1>2

-----------------------------------------------------------------------------
(* The refinement. *)

LEMMA NextRefines ==
  ASSUME RefinementInv, [Next]_vars
  PROVE  Refines
<1>1. CaptureInv /\ DeletingOK
  BY DEF RefinementInv
<1>2. ASSUME NEW r \in Requests, FinalizeListing(r) \/ SettleCorrection(r)
      PROVE  Refines
  <2>1. req[r].listing \in Listings /\ UNCHANGED <<capture, decision, receipt>>
    BY <1>1, <1>2 DEF CaptureInv, Knows, RequestOK, FinalizeListing, SettleCorrection, Late
  <2>2. UNCHANGED listing \/ \E step : Finalize(r, step)
    BY <1>2 DEF FinalizeListing, SettleCorrection
  <2> QED BY <1>1, <2>1, <2>2, FinalizeRefines, QuietRefines
<1>3. ASSUME NEW r \in Requests,
             Refused(r) \/ ChooseListing(r) \/ RecordDispositions(r) \/ Crash(r)
      PROVE  Refines
  BY <1>3, QuietRefines DEF Refused, ChooseListing, RecordDispositions, Crash
<1>4. ASSUME NEW r \in Requests, NEW c \in Captures, Submit(r, c) \/ Recover(r, c)
      PROVE  Refines
  BY <1>4, QuietRefines DEF Submit, Recover
<1>5. ASSUME NEW l \in Listings, CheckDelete(l)
      PROVE  Refines
  BY <1>5, QuietRefines DEF CheckDelete
<1>6. CASE UNCHANGED vars
  BY <1>6, QuietRefines DEF vars
<1>7. ASSUME NEW r \in Requests, Continue(r)
      PROVE  Refines
  BY <1>1, <1>2, <1>3, <1>7, ExtractOkRefines, RecordFailureRefines, InsertAndBindRefines,
     RewriteRefines, ReplaceLinksRefines, StageReviewRefines, WriteResultRefines,
     AttachReviewRefines, RecordCorrectionRefines, WriteReceiptRefines DEF Continue
<1> QED BY <1>1, <1>3, <1>4, <1>5, <1>6, <1>7, ReviewPublishesRefines, DeleteRefines DEF Next

LEMMA InitRefines == Init => Ledger!Init
BY DEF Init, Ledger!Init, Ledger!Absent, NoRow, NoListing, ShownAs

LEMMA NextDeleting ==
  ASSUME CaptureInv, DeletingOK, [Next]_vars
  PROVE  DeletingOK'
<1> SUFFICES ASSUME deleting' # None
             PROVE  listing'[deleting'].state \notin {"unused", "deleted"}
  BY DEF DeletingOK, Present
<1>1. CASE UNCHANGED deleting
  <2>1. deleting \in Listings /\ Present(deleting)
    BY <1>1 DEF CaptureInv, TypeOK, DeletingOK
  <2>2. \/ listing'[deleting] = listing[deleting] \/ Moved(deleting, listing'[deleting])
        \/ Dropped(deleting, listing'[deleting])
    BY <2>1, NextListings DEF ListingsMove
  <2> QED BY <1>1, <2>1, <2>2 DEF Moved, Dropped, Present
<1>2. ASSUME NEW l \in Listings, CheckDelete(l)
      PROVE  listing'[deleting'].state \notin {"unused", "deleted"}
  BY <1>2 DEF CheckDelete, Present
<1>3. UNCHANGED deleting \/ Delete \/ \E l \in Listings : CheckDelete(l)
  BY OtherWriters
<1>4. Delete => deleting' = None
  BY DEF Delete
<1> QED BY <1>1, <1>2, <1>3, <1>4

\* What is to be deleted is there, in every reachable state.
LEMMA RefinementIsReady == Spec => []RefinementInv
<1>1. Init => RefinementInv
  BY InitInv DEF Init, RefinementInv, DeletingOK
<1>2. RefinementInv /\ [Next]_vars => RefinementInv'
  BY NextInv, NextDeleting DEF RefinementInv
<1> QED BY <1>1, <1>2, PTL DEF Spec

\* Whatever requests, retries, crashes, reviewers and deletions do, captures and listings
\* behave as CaptureLedger promises.
THEOREM CaptureRefinement == Spec => ImplementsLedger
<1>1. RefinementInv /\ [Next]_vars => [Ledger!Next]_(Ledger!vars)
  BY NextRefines DEF Refines
<1> QED BY <1>1, InitRefines, RefinementIsReady, PTL DEF Spec, Ledger!Spec, ImplementsLedger
=============================================================================
