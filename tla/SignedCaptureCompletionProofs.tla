-------------------- MODULE SignedCaptureCompletionProofs --------------------
(***************************************************************************)
(* Proof that the receipt of SignedCapture is written last.  Three facts   *)
(* carry it: everything a capture is given comes from its extraction, a    *)
(* corrected listing belongs to one capture for ever, and a request that   *)
(* is past classification leaves what it classified behind.                *)
(***************************************************************************)
EXTENDS SignedCaptureProofs

\* Payloads are what extracting the page gave, and only a corrected one is decided.
Given ==
  /\ \A c \in Captures : capture[c].payload \in extraction[c] \cup {None}
  /\ \A r \in Requests : req[r].pc # "idle" =>
       req[r].payload \in extraction[req[r].cap] \cup {None}
  /\ \A r \in Requests : req[r].pc = "decide" => req[r].payload \in Corrected
  /\ \A c \in Captures : \A d \in disposed[c] : d.payload \in extraction[c]

\* Capture c has, or may still get, a correction on listing l.
Works(r, c, l) == /\ req[r].pc \in Late /\ req[r].cap = c /\ req[r].listing = l
                  /\ req[r].payload \in Corrected
BoundTo(c, l)  == /\ capture[c].bound = l /\ capture[c].payload \in Corrected
                  /\ ~capture[c].failed \/ Reproducible(c)
Decides(c, l)  == decision[c] # None /\ decision[c].listing = l
Claims(c, l)   == BoundTo(c, l) \/ (\E r \in Requests : Works(r, c, l)) \/ Decides(c, l)

\* A listing is claimed by one capture, and only once it has been inserted.
OneClaim == \A l \in Listings : \A c \in Captures : Claims(c, l) =>
  /\ listing[l].state # "unused"
  /\ \A d \in Captures : Claims(d, l) => c = d

\* A page that is always corrected.
Sole(c) == \E p \in Corrected : extraction[c] = {p}

\* ... is worked on, classified and decided on the one listing it is bound to.
AtHome(c) ==
  /\ \A r \in Requests : req[r].pc \in Late /\ req[r].cap = c =>
       capture[c].bound = req[r].listing
  /\ \A d \in disposed[c] : d.listing = capture[c].bound
  /\ capture[c].bound # None =>
       listing[capture[c].bound].state = "gated" \/ Decides(c, capture[c].bound)
  /\ \A r \in Requests : req[r].pc = "receipt" /\ req[r].cap = c =>
       Decides(c, capture[c].bound)

\* A request past classification leaves what it classified behind.
Classified(r) ==
  req[r].pc \in {"decide", "settle", "receipt"} =>
    req[r].payload \in Bare \/ disposed[req[r].cap] # {}

\* Who is about to write over a listing with a corrected page recovers it, and found it
\* gated: it has only been released since by that page's own decision.
RetakesOwn(r) ==
  req[r].pc = "rewrite" /\ req[r].payload \in Corrected =>
    /\ req[r].recovering
    /\ \/ listing[req[r].listing].state \in {"gated", "deleted"}
       \/ Decides(req[r].cap, req[r].listing)

\* The inductive invariant.
CompletionInv ==
  /\ CaptureInv /\ Given /\ OneClaim
  /\ \A r \in Requests : RetakesOwn(r)
  /\ NothingDeleted =>
       /\ \A c \in Captures : Sole(c) => AtHome(c)
       /\ \A r \in Requests : Classified(r)
  /\ CompletionIsLast

-----------------------------------------------------------------------------
(* What a step makes of a request. *)

\* It goes on to a later step, fails, or is given its payload.
GoesOn(r) ==
  /\ req[r].pc # "idle" /\ req'[r].pc \notin {"idle", "rewrite"} /\ req'[r].cap = req[r].cap
  /\ \/ req'[r].payload = req[r].payload
     \/ req'[r].payload \in extraction[req[r].cap]
  /\ req'[r].pc \in Late =>
       /\ req[r].pc \in Late
       /\ req'[r].payload = req[r].payload /\ req'[r].listing = req[r].listing

\* It joins a listing, inserts one, or takes up a bound capture.
Joins(r) ==
  /\ req[r].pc = "choose" /\ req'[r].pc \in {"rewrite", "result"}
  /\ req'[r].cap = req[r].cap /\ req'[r].payload = req[r].payload
  /\ req[r].payload \notin Corrected
Inserts(r) ==
  LET c == req[r].cap
      l == req'[r].listing
  IN
  /\ req[r].pc = "insert" /\ req'[r].pc = "links"
  /\ req'[r].cap = c /\ req'[r].payload = req[r].payload
  /\ l \in Listings /\ listing[l].state = "unused"
  /\ listing'[l].state = IF req[r].payload \in Corrected THEN "gated" ELSE "incomplete"
  /\ capture[c].bound = None
  /\ capture'[c].bound = l /\ capture'[c].payload = req[r].payload
  /\ \A d \in Captures \ {c} : capture'[d] = capture[d]
Recovers(r) ==
  LET c == req'[r].cap IN
  /\ req'[r].pc \in {"rewrite", "attach", "decide", "receipt"}
  /\ c \in Captures /\ UNCHANGED <<capture, listing, disposed, decision>>
  /\ capture[c].bound # None /\ ~capture[c].failed
  /\ req'[r].payload = capture[c].payload /\ req'[r].listing = capture[c].bound
  /\ req'[r].pc \in {"decide", "receipt"} => Begun(c)
  /\ req'[r].pc = "decide" => capture[c].payload \in Corrected
  /\ req'[r].pc = "receipt" => listing[capture[c].bound].state # "gated"
  /\ req'[r].pc = "rewrite" /\ capture[c].payload \in Corrected =>
       req'[r].recovering /\ listing[capture[c].bound].state = "gated"
Submits(r) ==
  req'[r].pc = "extract" /\ req'[r].payload = None

RequestMove(r) ==
  \/ req'[r] = req[r] \/ req'[r].pc = "idle"
  \/ GoesOn(r) \/ Joins(r) \/ Inserts(r) \/ Recovers(r) \/ Submits(r)

LEMMA GotoMoves ==
  ASSUME CaptureInv, NEW r \in Requests, NEW step \in Steps \ {"idle", "rewrite"}, Goto(r, step),
         req[r].pc # "idle", step \in Late => req[r].pc \in Late
  PROVE  \A q \in Requests : RequestMove(q)
BY GotoFacts DEF CaptureInv, RequestMove, GoesOn

LEMMA EndMoves ==
  ASSUME CaptureInv, NEW r \in Requests, End(r)
  PROVE  \A q \in Requests : RequestMove(q)
BY EndFacts DEF CaptureInv, RequestMove

LEMMA UnwindMoves ==
  ASSUME CaptureInv, NEW r \in Requests, req[r].pc # "idle", Unwind(r)
  PROVE  \A q \in Requests : RequestMove(q)
<1>1. CASE End(r)
  BY <1>1, EndMoves
<1>2. CASE ~End(r)
  <2> DEFINE new == [Idle EXCEPT !.pc = "fail", !.cap = req[r].cap,
                                 !.payload = req[r].payload]
  <2>1. req' = [req EXCEPT ![r] = new]
    BY <1>2 DEF Unwind
  <2>2. new.pc = "fail" /\ new.cap = req[r].cap /\ new.payload = req[r].payload
    BY DEF Idle
  <2>3. req'[r] = new /\ \A q \in Requests \ {r} : req'[q] = req[q]
    BY <2>1 DEF CaptureInv, TypeOK
  <2> HIDE DEF new
  <2> QED BY <2>2, <2>3 DEF RequestMove, GoesOn, Late
<1> QED BY <1>1, <1>2

LEMMA FinalizeMoves ==
  ASSUME CaptureInv, NEW r \in Requests, NEW step \in Late \ {"rewrite"}, req[r].pc \in Late,
         Finalize(r, step)
  PROVE  \A q \in Requests : RequestMove(q)
<1>1. req[r].pc # "idle" /\ step \in Steps \ {"idle", "rewrite"}
  BY DEF Late, Steps
<1> QED BY <1>1, GotoMoves, EndMoves, UnwindMoves DEF Finalize

\* The steps that only move on, end or give up.
LEMMA PlainMoves ==
  ASSUME CaptureInv, NEW r \in Requests,
         \/ Refused(r) \/ RecordFailure(r) \/ Rewrite(r) \/ ReplaceLinks(r) \/ StageReview(r)
         \/ FinalizeListing(r) \/ WriteResult(r) \/ AttachReview(r) \/ RecordDispositions(r)
         \/ RecordCorrection(r) \/ SettleCorrection(r) \/ WriteReceipt(r) \/ Crash(r)
  PROVE  \A q \in Requests : RequestMove(q)
<1>1. CASE Refused(r)
  BY <1>1, GotoMoves, UnwindMoves DEF Refused, Steps, Late
<1>2. CASE RecordFailure(r) \/ WriteReceipt(r) \/ Crash(r)
  BY <1>2, EndMoves DEF RecordFailure, WriteReceipt, Crash
<1>3. CASE Rewrite(r)
  BY <1>3, GotoMoves, UnwindMoves DEF Rewrite, Steps, Late
<1>4. CASE ReplaceLinks(r)
  BY <1>4, GotoMoves, UnwindMoves, EndMoves DEF ReplaceLinks, Steps, Late
<1>5. CASE StageReview(r)
  <2> DEFINE step == IF req[r].payload \in Corrected
                     THEN IF req[r].recovering THEN "attach" ELSE "result"
                     ELSE "finalize"
  <2>1. step \in Steps \ {"idle", "rewrite"} /\ req[r].pc \in Late
    BY <1>5 DEF StageReview, Steps, Late
  <2>2. Goto(r, step) \/ End(r) \/ Unwind(r)
    BY <1>5 DEF StageReview
  <2>3. req[r].pc # "idle"
    BY <1>5 DEF StageReview
  <2> HIDE DEF step
  <2> QED BY <2>1, <2>2, <2>3, GotoMoves, UnwindMoves, EndMoves
<1>6. CASE FinalizeListing(r)
  <2> DEFINE step == IF req[r].recovering THEN "attach" ELSE "result"
  <2>1. step \in Late \ {"rewrite"} /\ req[r].pc \in Late /\ Finalize(r, step)
    BY <1>6 DEF FinalizeListing, Late
  <2> HIDE DEF step
  <2> QED BY <2>1, FinalizeMoves
<1>7. CASE WriteResult(r)
  BY <1>7, GotoMoves, EndMoves DEF WriteResult, Steps, Late
<1>8. CASE AttachReview(r)
  BY <1>8, GotoMoves, EndMoves DEF AttachReview, Steps, Late
<1>9. CASE RecordDispositions(r)
  <2> DEFINE step == IF req[r].payload \in Corrected THEN "decide" ELSE "receipt"
  <2>1. step \in Steps \ {"idle", "rewrite"} /\ req[r].pc \in Late /\ req[r].pc # "idle"
    BY <1>9 DEF RecordDispositions, Steps, Late
  <2>2. Goto(r, step) \/ End(r)
    BY <1>9 DEF RecordDispositions
  <2> HIDE DEF step
  <2> QED BY <2>1, <2>2, GotoMoves, EndMoves
<1>10. CASE RecordCorrection(r)
  BY <1>10, GotoMoves, EndMoves DEF RecordCorrection, Steps, Late
<1>11. CASE SettleCorrection(r)
  <2>1. req[r].pc \in Late /\ "receipt" \in Late \ {"rewrite"}
    BY <1>11 DEF SettleCorrection, Late
  <2> QED BY <1>11, <2>1, FinalizeMoves, EndMoves DEF SettleCorrection
<1> QED BY <1>1, <1>2, <1>3, <1>4, <1>5, <1>6, <1>7, <1>8, <1>9, <1>10, <1>11

\* A request is written as a whole.
LEMMA WholeMoves ==
  ASSUME CaptureInv, NEW r \in Requests, NEW new, req' = [req EXCEPT ![r] = new]
  PROVE  req'[r] = new /\ \A q \in Requests \ {r} : req'[q] = req[q]
BY DEF CaptureInv, TypeOK

LEMMA SubmitMoves ==
  ASSUME CaptureInv, NEW r \in Requests, NEW c \in Captures, Submit(r, c)
  PROVE  \A q \in Requests : RequestMove(q)
<1> DEFINE new == [Idle EXCEPT !.pc = "extract", !.cap = c, !.row = capture[c]]
<1>1. new.pc = "extract" /\ new.payload = None
  BY DEF Idle
<1>2. req' = [req EXCEPT ![r] = new]
  BY DEF Submit
<1> HIDE DEF new
<1> QED BY <1>1, <1>2, WholeMoves DEF RequestMove, Submits

LEMMA RecoverMoves ==
  ASSUME CaptureInv, NEW r \in Requests, NEW c \in Captures, Recover(r, c)
  PROVE  \A q \in Requests : RequestMove(q)
<1>1. PICK step \in Steps :
        /\ ResumesAt(c, step)
        /\ req' = [req EXCEPT ![r] =
             [pc |-> step, cap |-> c, row |-> capture[c], payload |-> capture[c].payload,
              listing |-> capture[c].bound, recovering |-> TRUE]]
  BY DEF Recover
<1> DEFINE new == [pc |-> step, cap |-> c, row |-> capture[c], payload |-> capture[c].payload,
                   listing |-> capture[c].bound, recovering |-> TRUE]
<1>2. /\ new.pc = step /\ new.cap = c /\ new.payload = capture[c].payload
      /\ new.listing = capture[c].bound /\ new.recovering
  OBVIOUS
<1>3. req' = [req EXCEPT ![r] = new]
  BY <1>1
<1> HIDE DEF new
<1>4. req'[r] = new /\ \A q \in Requests \ {r} : req'[q] = req[q]
  BY <1>3, WholeMoves
<1>5. /\ step \in {"rewrite", "attach", "decide", "receipt"}
      /\ step \in {"decide", "receipt"} => Begun(c)
      /\ step = "decide" => capture[c].payload \in Corrected
      /\ step = "receipt" => listing[capture[c].bound].state # "gated"
      /\ step = "rewrite" /\ capture[c].payload \in Corrected =>
           listing[capture[c].bound].state = "gated"
  BY <1>1 DEF ResumesAt
<1>6. Recovers(r)
  BY <1>2, <1>4, <1>5 DEF Recovers, Recover
<1> QED BY <1>4, <1>6 DEF RequestMove

LEMMA ExtractOkMoves ==
  ASSUME CaptureInv, NEW r \in Requests, NEW p \in Payloads, ExtractOk(r, p)
  PROVE  \A q \in Requests : RequestMove(q)
<1>1. CASE End(r)
  BY <1>1, EndMoves
<1>2. ASSUME NEW row, req' = [req EXCEPT ![r].pc = "choose", ![r].payload = p, ![r].row = row]
      PROVE  \A q \in Requests : RequestMove(q)
  <2> DEFINE new == [req[r] EXCEPT !.pc = "choose", !.payload = p, !.row = row]
  <2>1. new.pc = "choose" /\ new.cap = req[r].cap /\ new.payload = p
    BY DEF CaptureInv, TypeOK, Request
  <2>2. req' = [req EXCEPT ![r] = new]
    BY <1>2 DEF CaptureInv, TypeOK
  <2> HIDE DEF new
  <2> QED BY <2>1, <2>2, WholeMoves DEF RequestMove, GoesOn, ExtractOk, Late
<1>3. CASE req' = [req EXCEPT ![r].pc = "choose", ![r].payload = p]
  <2> DEFINE new == [req[r] EXCEPT !.pc = "choose", !.payload = p]
  <2>1. new.pc = "choose" /\ new.cap = req[r].cap /\ new.payload = p
    BY DEF CaptureInv, TypeOK, Request
  <2>2. req' = [req EXCEPT ![r] = new]
    BY <1>3 DEF CaptureInv, TypeOK
  <2> HIDE DEF new
  <2> QED BY <2>1, <2>2, WholeMoves DEF RequestMove, GoesOn, ExtractOk, Late
<1> QED BY <1>1, <1>2, <1>3 DEF ExtractOk

LEMMA ChooseListingMoves ==
  ASSUME CaptureInv, NEW r \in Requests, ChooseListing(r)
  PROVE  \A q \in Requests : RequestMove(q)
<1>1. CASE Goto(r, "insert")
  BY <1>1, GotoMoves DEF ChooseListing, Steps, Late
<1>2. ASSUME NEW l, NEW step \in {"rewrite", "result"}, req[r].payload \notin Corrected,
             req' = [req EXCEPT ![r].pc = step, ![r].listing = l, ![r].row = NoRow]
      PROVE  \A q \in Requests : RequestMove(q)
  <2> DEFINE new == [req[r] EXCEPT !.pc = step, !.listing = l, !.row = NoRow]
  <2>1. new.pc = step /\ new.cap = req[r].cap /\ new.payload = req[r].payload
    BY DEF CaptureInv, TypeOK, Request
  <2>2. req' = [req EXCEPT ![r] = new]
    BY <1>2 DEF CaptureInv, TypeOK
  <2> HIDE DEF new
  <2>3. req'[r] = new /\ \A q \in Requests \ {r} : req'[q] = req[q]
    BY <2>2, WholeMoves
  <2>4. req[r].pc = "choose"
    BY DEF ChooseListing
  <2>5. Joins(r)
    BY <1>2, <2>1, <2>3, <2>4 DEF Joins
  <2> QED BY <2>3, <2>5 DEF RequestMove
<1> QED BY <1>1, <1>2 DEF ChooseListing

\* The listing is inserted and bound, or the request gives up.
LEMMA InsertAndBindInserts ==
  ASSUME CaptureInv, NEW r \in Requests, InsertAndBind(r)
  PROVE  \/ Unwind(r) /\ UNCHANGED capture
         \/ Inserts(r) /\ \A q \in Requests \ {r} : req'[q] = req[q]
<1> DEFINE c == req[r].cap
           p == req[r].payload
<1>1. c \in Captures /\ req[r].row.bound = None
  BY DEF CaptureInv, Knows, RequestOK, InsertAndBind
<1>2. CASE Unwind(r) /\ UNCHANGED capture
  BY <1>2
<1>3. ASSUME NEW l \in Listings, listing[l].state = "unused", capture[c] = req[r].row,
             listing' = [listing EXCEPT ![l] =
               [NoListing(IF p \in Corrected THEN "gated" ELSE "incomplete")
                  EXCEPT !.url = UrlOf[c], !.values = p]],
             capture' = [capture EXCEPT ![c] =
               [@ EXCEPT !.payload = p, !.failed = FALSE, !.bound = l]],
             req' = [req EXCEPT ![r].pc = "links", ![r].listing = l, ![r].row = NoRow]
      PROVE  Inserts(r) /\ \A q \in Requests \ {r} : req'[q] = req[q]
  <2> DEFINE new == [req[r] EXCEPT !.pc = "links", !.listing = l, !.row = NoRow]
  <2>1. new.pc = "links" /\ new.cap = c /\ new.payload = p /\ new.listing = l
    BY DEF CaptureInv, TypeOK, Request
  <2>2. req'[r] = new /\ \A q \in Requests \ {r} : req'[q] = req[q]
    <3>1. req' = [req EXCEPT ![r] = new]
      BY <1>3 DEF CaptureInv, TypeOK
    <3> HIDE DEF new
    <3> QED BY <3>1, WholeMoves
  <2>3. /\ capture'[c].bound = l /\ capture'[c].payload = p
        /\ \A d \in Captures \ {c} : capture'[d] = capture[d]
    BY <1>1, <1>3 DEF CaptureInv, TypeOK, CaptureRow
  <2>4. listing'[l].state = IF p \in Corrected THEN "gated" ELSE "incomplete"
    BY <1>3 DEF CaptureInv, TypeOK, NoListing
  <2> HIDE DEF new
  <2>5. Inserts(r)
    BY <1>1, <1>3, <2>1, <2>2, <2>3, <2>4 DEF Inserts, InsertAndBind
  <2> QED BY <2>2, <2>5
<1> QED BY <1>2, <1>3 DEF InsertAndBind

LEMMA InsertAndBindMoves ==
  ASSUME CaptureInv, NEW r \in Requests, InsertAndBind(r)
  PROVE  \A q \in Requests : RequestMove(q)
<1>1. CASE Unwind(r)
  BY <1>1, UnwindMoves DEF InsertAndBind
<1>2. CASE Inserts(r) /\ \A q \in Requests \ {r} : req'[q] = req[q]
  BY <1>2 DEF RequestMove
<1> QED BY <1>1, <1>2, InsertAndBindInserts

LEMMA NextMoves ==
  ASSUME CaptureInv, [Next]_vars
  PROVE  \A r \in Requests : RequestMove(r)
<1>1. CASE UNCHANGED req
  BY <1>1 DEF RequestMove
<1>2. CASE Next /\ ~UNCHANGED req
  <2>1. ~Delete /\ \A l \in Listings : ~CheckDelete(l) /\ ~ReviewPublishes(l)
    BY <1>2 DEF Delete, CheckDelete, ReviewPublishes
  <2>2. \/ \E r \in Requests : Continue(r) \/ Refused(r) \/ Crash(r)
        \/ \E r \in Requests, c \in Captures : Submit(r, c) \/ Recover(r, c)
    BY <1>2, <2>1 DEF Next
  <2> QED BY <2>2, SubmitMoves, RecoverMoves, ExtractOkMoves, ChooseListingMoves,
             InsertAndBindMoves, PlainMoves DEF Continue
<1> QED BY <1>1, <1>2 DEF vars

-----------------------------------------------------------------------------
(* What a step makes of a capture's row. *)

\* It stays, is extracted, gets a failure, is bound to a new listing by a request that
\* inserts it or to the listing of a request with a result, or loses its deleted listing.
RowChange(c) ==
  \/ capture'[c] = capture[c]
  \/ /\ capture[c].bound = None /\ capture'[c].bound = None
     /\ capture'[c].payload \in extraction[c]
  \/ /\ capture'[c].bound = capture[c].bound /\ capture'[c].failed
     /\ \/ capture'[c].payload = capture[c].payload
        \/ \E r \in Requests : /\ req[r].pc = "fail" /\ req[r].cap = c
                               /\ capture'[c].payload = req[r].payload
  \/ \E r \in Requests : req[r].cap = c /\ Inserts(r)
  \/ \E r \in Requests : /\ req[r].pc = "result" /\ req[r].cap = c
                         /\ capture'[c].payload = req[r].payload
                         /\ capture'[c].bound = req[r].listing
  \/ /\ capture'[c].bound = None /\ capture'[c].payload = capture[c].payload
     /\ ~NothingDeleted'

LEMMA ExtractOkRow ==
  ASSUME CaptureInv, NEW r \in Requests, NEW p \in Payloads, ExtractOk(r, p)
  PROVE  \A c \in Captures : RowChange(c)
<1> DEFINE d == req[r].cap
           fresh == [NoRow EXCEPT !.stored = TRUE, !.payload = p]
<1>1. CASE UNCHANGED capture
  BY <1>1 DEF RowChange
<1>2. CASE ~capture[d].stored /\ capture' = [capture EXCEPT ![d] = fresh]
  <2>1. d \in Captures /\ p \in extraction[d]
    BY DEF CaptureInv, Knows, RequestOK, ExtractOk
  <2>2. capture[d].bound = None
    BY <1>2, <2>1 DEF CaptureInv, BoundOK
  <2>3. fresh.bound = None /\ fresh.payload = p
    BY DEF NoRow
  <2> HIDE DEF d, fresh
  <2>4. capture'[d] = fresh /\ \A c \in Captures \ {d} : capture'[c] = capture[c]
    BY <1>2, <2>1 DEF CaptureInv, TypeOK
  <2> QED BY <2>1, <2>2, <2>3, <2>4 DEF RowChange
<1> QED BY <1>1, <1>2 DEF ExtractOk

LEMMA RecordFailureRow ==
  ASSUME CaptureInv, NEW r \in Requests, RecordFailure(r)
  PROVE  \A c \in Captures : RowChange(c)
<1> DEFINE d == req[r].cap
           row == [capture[d] EXCEPT !.failed = TRUE, !.stored = TRUE,
                     !.payload = IF req[r].payload = None THEN @ ELSE req[r].payload]
<1>1. CASE UNCHANGED capture
  BY <1>1 DEF RowChange
<1>2. CASE capture' = [capture EXCEPT ![d] = row]
  <2>1. d \in Captures /\ req[r].pc = "fail" /\ req[r].cap = d
    BY DEF CaptureInv, Knows, RequestOK, RecordFailure
  <2>2. /\ row.bound = capture[d].bound /\ row.failed
        /\ row.payload = capture[d].payload \/ row.payload = req[r].payload
    BY <2>1 DEF CaptureInv, TypeOK, CaptureRow
  <2> HIDE DEF d, row
  <2>3. capture'[d] = row /\ \A c \in Captures \ {d} : capture'[c] = capture[c]
    BY <1>2, <2>1 DEF CaptureInv, TypeOK
  <2> QED BY <2>1, <2>2, <2>3 DEF RowChange
<1> QED BY <1>1, <1>2 DEF RecordFailure

LEMMA InsertAndBindRow ==
  ASSUME CaptureInv, NEW r \in Requests, InsertAndBind(r)
  PROVE  \A c \in Captures : RowChange(c)
<1>1. CASE UNCHANGED capture
  BY <1>1 DEF RowChange
<1>2. CASE Inserts(r)
  BY <1>2 DEF RowChange, Inserts
<1> QED BY <1>1, <1>2, InsertAndBindInserts

LEMMA WriteResultRow ==
  ASSUME CaptureInv, NEW r \in Requests, WriteResult(r)
  PROVE  \A c \in Captures : RowChange(c)
<1> DEFINE d == req[r].cap
           row == [capture[d] EXCEPT !.payload = req[r].payload, !.failed = FALSE,
                                      !.bound = req[r].listing]
<1>1. CASE UNCHANGED capture
  BY <1>1 DEF RowChange
<1>2. CASE capture' = [capture EXCEPT ![d] = row]
  <2>1. d \in Captures /\ req[r].pc = "result" /\ req[r].cap = d
    BY DEF CaptureInv, Knows, RequestOK, WriteResult
  <2>2. row.bound = req[r].listing /\ row.payload = req[r].payload
    BY <2>1 DEF CaptureInv, TypeOK, CaptureRow
  <2> HIDE DEF d, row
  <2>3. capture'[d] = row /\ \A c \in Captures \ {d} : capture'[c] = capture[c]
    BY <1>2, <2>1 DEF CaptureInv, TypeOK
  <2> QED BY <2>1, <2>2, <2>3 DEF RowChange
<1> QED BY <1>1, <1>2 DEF WriteResult

LEMMA DeleteRow ==
  ASSUME CaptureInv, Delete
  PROVE  \A c \in Captures : RowChange(c)
<1>1. CASE UNCHANGED capture
  BY <1>1 DEF RowChange
<1>2. CASE ~UNCHANGED capture
  <2>1. /\ deleting \in Listings
        /\ listing' = [listing EXCEPT ![deleting] = NoListing("deleted")]
        /\ capture' = [c \in Captures |->
             IF capture[c].bound = deleting THEN [capture[c] EXCEPT !.bound = None]
             ELSE capture[c]]
    BY <1>2 DEF Delete, CaptureInv, TypeOK
  <2>2. ~NothingDeleted'
    BY <2>1 DEF NothingDeleted, NoListing, CaptureInv, TypeOK
  <2>3. TAKE c \in Captures
  <2>4. capture[c] \in CaptureRow
    BY DEF CaptureInv, TypeOK
  <2> QED BY <2>1, <2>2, <2>4 DEF RowChange, CaptureRow
<1> QED BY <1>1, <1>2

LEMMA NextRowChange ==
  ASSUME CaptureInv, [Next]_vars
  PROVE  \A c \in Captures : RowChange(c)
<1>1. CASE UNCHANGED capture
  BY <1>1 DEF RowChange
<1>2. CASE ~UNCHANGED capture
  <2>1. \/ \E r \in Requests : \/ \E p \in Payloads : ExtractOk(r, p)
                              \/ RecordFailure(r) \/ InsertAndBind(r) \/ WriteResult(r)
        \/ Delete
    BY <1>2, RowWriters
  <2> QED BY <2>1, ExtractOkRow, RecordFailureRow, InsertAndBindRow, WriteResultRow, DeleteRow
<1> QED BY <1>1, <1>2

-----------------------------------------------------------------------------
(* What a step makes of the rest. *)

\* Extraction is reproducible or is not; a deleted listing stays deleted.
LEMMA NextStays ==
  ASSUME CaptureInv, [Next]_vars
  PROVE  /\ UNCHANGED extraction
         /\ NothingDeleted' => NothingDeleted
         /\ \A l \in Listings : listing[l].state # "unused" => listing'[l].state # "unused"
         /\ \A c \in Captures, l \in Listings : Decides(c, l) => Decides(c, l)'
<1>1. UNCHANGED extraction
  BY OtherWriters
<1>2. ASSUME NEW l \in Listings
      PROVE  /\ listing[l].state = "deleted" => listing'[l].state = "deleted"
             /\ listing[l].state # "unused" => listing'[l].state # "unused"
  <2>1. CASE listing'[l] = listing[l]
    BY <2>1
  <2>2. CASE Moved(l, listing'[l])
    BY <2>2 DEF Moved
  <2>3. CASE Dropped(l, listing'[l])
    BY <2>3 DEF Dropped, NoListing
  <2> QED BY <2>1, <2>2, <2>3, NextListings DEF ListingsMove
<1>3. NothingDeleted' => NothingDeleted
  BY <1>2 DEF NothingDeleted
<1> QED BY <1>1, <1>2, <1>3, DecisionsStay DEF Decides

\* A disposition is added by the request that classifies, for the listing its capture
\* is bound to; dispositions go only with a listing.
Disposes(r, c) ==
  /\ req[r].pc = "dispose" /\ req[r].cap = c /\ capture[c].bound = req[r].listing
  /\ capture'[c] = capture[c]
DispositionsMove(c) ==
  /\ \A d \in disposed'[c] :
       \/ d \in disposed[c]
       \/ \E r \in Requests : /\ Disposes(r, c)
                              /\ d = [payload |-> req[r].payload, listing |-> req[r].listing]
  /\ NothingDeleted' => disposed[c] \subseteq disposed'[c]

LEMMA NextDispositions ==
  ASSUME CaptureInv, [Next]_vars
  PROVE  \A c \in Captures : DispositionsMove(c)
<1>1. CASE UNCHANGED disposed
  BY <1>1 DEF DispositionsMove
<1>2. ASSUME NEW r \in Requests, RecordDispositions(r)
      PROVE  \A c \in Captures : DispositionsMove(c)
  <2> DEFINE e == req[r].cap
             added == IF req[r].payload \in Bare THEN {}
                      ELSE {[payload |-> req[r].payload, listing |-> req[r].listing]}
  <2>1. CASE UNCHANGED disposed
    BY <2>1, <1>1
  <2>2. CASE /\ capture[e].bound = req[r].listing
             /\ disposed' = [disposed EXCEPT ![e] = @ \cup added]
    <3>1. e \in Captures /\ Disposes(r, e)
      BY <1>2, <2>2 DEF RecordDispositions, Disposes, CaptureInv, Knows, RequestOK
    <3>2. \A d \in added : d = [payload |-> req[r].payload, listing |-> req[r].listing]
      OBVIOUS
    <3> HIDE DEF e, added
    <3>3. /\ disposed'[e] = disposed[e] \cup added
          /\ \A c \in Captures \ {e} : disposed'[c] = disposed[c]
      BY <2>2, <3>1 DEF CaptureInv, TypeOK
    <3> QED BY <3>1, <3>2, <3>3 DEF DispositionsMove
  <2> QED BY <1>2, <2>1, <2>2 DEF RecordDispositions
<1>3. ASSUME Delete, ~UNCHANGED disposed
      PROVE  \A c \in Captures : DispositionsMove(c)
  <2>1. /\ deleting \in Listings
        /\ listing' = [listing EXCEPT ![deleting] = NoListing("deleted")]
        /\ disposed' = [c \in Captures |-> {d \in disposed[c] : d.listing # deleting}]
    BY <1>3 DEF Delete, CaptureInv, TypeOK
  <2>2. ~NothingDeleted'
    BY <2>1 DEF NothingDeleted, NoListing, CaptureInv, TypeOK
  <2> QED BY <2>1, <2>2 DEF DispositionsMove
<1> QED BY <1>1, <1>2, <1>3, OtherWriters

\* A request changes only by steps of its own.
LEMMA MovedByItself ==
  ASSUME CaptureInv, [Next]_vars, NEW r \in Requests, req'[r] # req[r],
         req[r].pc \in Late, req'[r].pc \in {"decide", "settle", "receipt"}
  PROVE  RecordDispositions(r) \/ RecordCorrection(r) \/ SettleCorrection(r)
<1> DEFINE Own == Continue(r) \/ Refused(r) \/ Crash(r)
                    \/ \E c \in Captures : Submit(r, c) \/ Recover(r, c)
<1>1. ASSUME NEW q \in Requests \ {r}, NEW step, Goto(q, step) \/ End(q) \/ Unwind(q)
      PROVE  FALSE
  BY <1>1 DEF Goto, End, Unwind, CaptureInv, TypeOK
<1>2. ASSUME NEW q \in Requests \ {r},
             \/ Refused(q) \/ RecordFailure(q) \/ Rewrite(q) \/ ReplaceLinks(q)
             \/ StageReview(q) \/ WriteResult(q) \/ AttachReview(q)
             \/ RecordDispositions(q) \/ RecordCorrection(q) \/ WriteReceipt(q) \/ Crash(q)
      PROVE  FALSE
  BY <1>1, <1>2 DEF Refused, RecordFailure, Rewrite, ReplaceLinks, StageReview, WriteResult,
                    AttachReview, RecordDispositions, RecordCorrection, WriteReceipt, Crash
<1>3. ASSUME NEW q \in Requests \ {r}, FinalizeListing(q) \/ SettleCorrection(q)
      PROVE  FALSE
  BY <1>1, <1>3 DEF FinalizeListing, SettleCorrection, Finalize
<1>4. ASSUME NEW q \in Requests \ {r},
             \/ \E p \in Payloads : ExtractOk(q, p)
             \/ ChooseListing(q) \/ InsertAndBind(q)
             \/ \E c \in Captures : Submit(q, c) \/ Recover(q, c)
      PROVE  FALSE
  <2>1. ASSUME NEW p \in Payloads, ExtractOk(q, p)
        PROVE  FALSE
    BY <2>1, <1>1 DEF ExtractOk, CaptureInv, TypeOK
  <2>2. ASSUME ChooseListing(q)
        PROVE  FALSE
    BY <2>2, <1>1 DEF ChooseListing, CaptureInv, TypeOK
  <2>3. ASSUME InsertAndBind(q)
        PROVE  FALSE
    BY <2>3, <1>1, InsertAndBindInserts
  <2>4. ASSUME NEW c \in Captures, Submit(q, c) \/ Recover(q, c)
        PROVE  FALSE
    BY <2>4 DEF Submit, Recover, CaptureInv, TypeOK
  <2> QED BY <1>4, <2>1, <2>2, <2>3, <2>4
<1>5. ~Delete /\ (\A l \in Listings : ~CheckDelete(l) /\ ~ReviewPublishes(l)) /\ ~UNCHANGED vars
  BY DEF Delete, CheckDelete, ReviewPublishes, vars
<1>6. Own
  <2> HIDE DEF Own
  <2>1. PICK q \in Requests : Continue(q) \/ Refused(q) \/ Crash(q)
                              \/ \E c \in Captures : Submit(q, c) \/ Recover(q, c)
    BY <1>5 DEF Next
  <2>2. q = r
    BY <1>2, <1>3, <1>4, <2>1 DEF Continue
  <2> QED BY <2>1, <2>2 DEF Own
<1>7. ~Refused(r) /\ ~RecordFailure(r) /\ ~ChooseListing(r) /\ ~InsertAndBind(r)
      /\ (\A p \in Payloads : ~ExtractOk(r, p))
      /\ \A c \in Captures : ~Submit(r, c) /\ ~Recover(r, c)
  BY DEF Refused, RecordFailure, ChooseListing, InsertAndBind, ExtractOk, Submit, Recover, Late
<1>8. ASSUME NEW step \in Steps \ {"decide", "settle", "receipt"},
             Goto(r, step) \/ End(r) \/ Unwind(r)
      PROVE  FALSE
  BY <1>8, GotoFacts, EndFacts, UnwindFacts DEF CaptureInv
<1>9. ~Rewrite(r) /\ ~ReplaceLinks(r) /\ ~WriteResult(r) /\ ~AttachReview(r)
      /\ ~WriteReceipt(r) /\ ~Crash(r)
  BY <1>8 DEF Rewrite, ReplaceLinks, WriteResult, AttachReview, WriteReceipt, Crash, Steps
<1>10. ~StageReview(r)
  <2> DEFINE step == IF req[r].payload \in Corrected
                     THEN IF req[r].recovering THEN "attach" ELSE "result"
                     ELSE "finalize"
  <2>1. StageReview(r) => Goto(r, step) \/ End(r) \/ Unwind(r)
    BY DEF StageReview
  <2>2. step \in Steps \ {"decide", "settle", "receipt"}
    BY DEF Steps
  <2> HIDE DEF step
  <2> QED BY <2>1, <2>2, <1>8
<1>11. ~FinalizeListing(r)
  <2> DEFINE step == IF req[r].recovering THEN "attach" ELSE "result"
  <2>1. FinalizeListing(r) => Goto(r, step) \/ End(r) \/ Unwind(r)
    BY DEF FinalizeListing, Finalize
  <2>2. step \in Steps \ {"decide", "settle", "receipt"}
    BY DEF Steps
  <2> HIDE DEF step
  <2> QED BY <2>1, <2>2, <1>8
<1> QED BY <1>6, <1>7, <1>9, <1>10, <1>11 DEF Continue

\* A request gets past classification by classifying, and past the gate by a decision.
PastClassification(r) ==
  LET c == req[r].cap IN
  /\ req'[r].cap = c /\ req'[r].payload = req[r].payload /\ req'[r].listing = req[r].listing
  /\ \/ /\ req[r].pc = "dispose"
        /\ req[r].payload \in Bare \/ disposed'[c] # {}
        /\ IF req[r].payload \in Corrected THEN req'[r].pc = "decide" ELSE req'[r].pc = "receipt"
     \/ req[r].pc = "decide" /\ req'[r].pc = "settle"
     \/ /\ req[r].pc = "settle" /\ req'[r].pc = "receipt"
        /\ Decides(c, req[r].listing) /\ capture[c].bound = req[r].listing

LEMMA NextLate ==
  ASSUME CaptureInv, [Next]_vars, NEW r \in Requests,
         req'[r].pc \in {"decide", "settle", "receipt"}
  PROVE  req'[r] = req[r] \/ Recovers(r) \/ PastClassification(r)
<1> SUFFICES ASSUME req'[r] # req[r], ~Recovers(r)
             PROVE  PastClassification(r)
  OBVIOUS
<1>1. req[r].pc \in Late
  BY NextMoves DEF RequestMove, GoesOn, Joins, Inserts, Submits, Late
<1>2. CASE RecordDispositions(r)
  <2> DEFINE c == req[r].cap
             step == IF req[r].payload \in Corrected THEN "decide" ELSE "receipt"
             added == IF req[r].payload \in Bare THEN {}
                      ELSE {[payload |-> req[r].payload, listing |-> req[r].listing]}
  <2>1. ~End(r)
    BY EndFacts DEF CaptureInv
  <2>2. Goto(r, step) /\ disposed' = [disposed EXCEPT ![c] = @ \cup added]
    BY <1>2, <2>1 DEF RecordDispositions
  <2>3. c \in Captures /\ req[r].pc = "dispose"
    BY <1>2 DEF RecordDispositions, CaptureInv, Knows, RequestOK
  <2>4. req[r].payload \in Bare \/ disposed'[c] # {}
    BY <2>2, <2>3 DEF CaptureInv, TypeOK
  <2>5. step \in Steps
    BY DEF Steps
  <2>6. /\ req'[r].pc = step /\ req'[r].cap = c
        /\ req'[r].payload = req[r].payload /\ req'[r].listing = req[r].listing
    <3> HIDE DEF step, c
    <3> QED BY <2>2, <2>5, GotoFacts DEF CaptureInv, c
  <2> QED BY <2>3, <2>4, <2>6 DEF PastClassification
<1>3. CASE RecordCorrection(r)
  <2>1. ~End(r)
    BY EndFacts DEF CaptureInv
  <2>2. req[r].pc = "decide" /\ Goto(r, "settle") /\ "settle" \in Steps
    BY <1>3, <2>1 DEF RecordCorrection, Steps
  <2> QED BY <2>2, GotoFacts DEF CaptureInv, PastClassification
<1>4. CASE SettleCorrection(r)
  <2>1. ~End(r) /\ ~Unwind(r)
    BY EndFacts, UnwindFacts DEF CaptureInv
  <2>2. /\ req[r].pc = "settle" /\ Goto(r, "receipt") /\ "receipt" \in Steps
        /\ Decides(req[r].cap, req[r].listing) /\ capture[req[r].cap].bound = req[r].listing
    BY <1>4, <2>1 DEF SettleCorrection, Finalize, Steps, Decides
  <2> QED BY <2>2, GotoFacts DEF CaptureInv, PastClassification
<1> QED BY <1>1, <1>2, <1>3, <1>4, MovedByItself

-----------------------------------------------------------------------------
(* The invariant. *)

LEMMA NextGiven ==
  ASSUME CaptureInv, CaptureInv', Given, [Next]_vars
  PROVE  Given'
<1>1. UNCHANGED extraction
  BY NextStays
<1>2. ASSUME NEW c \in Captures
      PROVE  capture'[c].payload \in extraction[c] \cup {None}
  <2>1. RowChange(c)
    BY NextRowChange
  <2> QED BY <2>1 DEF RowChange, Inserts, Given
<1>3. ASSUME NEW r \in Requests, req'[r].pc # "idle"
      PROVE  req'[r].payload \in extraction[req'[r].cap] \cup {None}
  <2>1. RequestMove(r)
    BY NextMoves
  <2>2. CASE req'[r] = req[r] \/ GoesOn(r)
    BY <1>3, <2>2 DEF GoesOn, Given
  <2>3. CASE Joins(r) \/ Inserts(r)
    BY <2>3 DEF Joins, Inserts, Given
  <2>4. CASE Recovers(r) \/ Submits(r)
    BY <2>4 DEF Recovers, Submits, Given
  <2> QED BY <1>3, <2>1, <2>2, <2>3, <2>4 DEF RequestMove
<1>4. ASSUME NEW r \in Requests, req'[r].pc = "decide"
      PROVE  req'[r].payload \in Corrected
  BY <1>4, NextLate DEF Given, Recovers, PastClassification
<1>5. ASSUME NEW c \in Captures, NEW d \in disposed'[c]
      PROVE  d.payload \in extraction[c]
  <2>1. CASE d \in disposed[c]
    BY <2>1 DEF Given
  <2>2. ASSUME NEW r \in Requests, Disposes(r, c),
               d = [payload |-> req[r].payload, listing |-> req[r].listing]
        PROVE  d.payload \in extraction[c]
    <3>1. req[r].payload \in Payloads
      BY <2>2 DEF Disposes, CaptureInv, Knows, RequestOK, Late
    <3>2. req[r].payload \in extraction[c] \cup {None}
      BY <2>2 DEF Disposes, Given
    <3> QED BY <2>2, <3>1, <3>2, NoneIsNoId
  <2> QED BY <2>1, <2>2, NextDispositions DEF DispositionsMove
<1> QED BY <1>1, <1>2, <1>3, <1>4, <1>5 DEF Given

\* A claim is old, or comes with an insertion.
LEMMA ClaimsComeFrom ==
  ASSUME CaptureInv, CaptureInv', Given, Given', [Next]_vars,
         NEW c \in Captures, NEW l \in Listings, Claims(c, l)'
  PROVE  Claims(c, l) \/ \E r \in Requests : /\ Inserts(r) /\ req[r].cap = c
                                            /\ capture'[c].bound = l
<1>1. CASE BoundTo(c, l)'
  <2>1. RowChange(c) /\ UNCHANGED extraction
    BY NextRowChange, NextStays
  <2>2. /\ capture'[c].bound = l /\ capture'[c].payload \in Corrected
        /\ ~capture'[c].failed \/ Reproducible(c)
        /\ l # None
    BY <1>1, <2>1, NoneIsNoId DEF BoundTo, Reproducible
  <2>3. CASE capture'[c] = capture[c]
    BY <2>2, <2>3 DEF Claims, BoundTo
  <2>4. CASE capture'[c].bound = capture[c].bound /\ capture'[c].failed
    <3>1. capture[c].payload \in Payloads /\ capture'[c].payload \in Payloads
      BY <2>2, <2>4 DEF CaptureInv, BoundOK
    <3>2. capture[c].payload \in extraction[c] /\ capture'[c].payload \in extraction[c]
      BY <2>1, <3>1, NoneIsNoId DEF Given
    <3>3. capture[c].payload = capture'[c].payload
      BY <2>2, <2>4, <3>2 DEF Reproducible
    <3> QED BY <2>2, <2>4, <3>3 DEF Claims, BoundTo
  <2>5. ASSUME NEW r \in Requests, req[r].cap = c, Inserts(r)
        PROVE  \E q \in Requests : /\ Inserts(q) /\ req[q].cap = c
                                   /\ capture'[c].bound = l
    BY <2>2, <2>5
  <2>6. ASSUME NEW r \in Requests, req[r].pc = "result", req[r].cap = c,
               capture'[c].payload = req[r].payload, capture'[c].bound = req[r].listing
        PROVE  Claims(c, l)
    BY <2>2, <2>6 DEF Claims, Works, Late
  <2> QED BY <2>1, <2>2, <2>3, <2>4, <2>5, <2>6 DEF RowChange
<1>2. ASSUME NEW r \in Requests, Works(r, c, l)'
      PROVE  Claims(c, l) \/ (Inserts(r) /\ req[r].cap = c /\ capture'[c].bound = l)
  <2>1. RequestMove(r)
    BY NextMoves
  <2>2. /\ req'[r].pc \in Late /\ req'[r].cap = c /\ req'[r].listing = l
        /\ req'[r].payload \in Corrected
    BY <1>2 DEF Works
  <2>3. CASE req'[r] = req[r] \/ GoesOn(r)
    BY <2>2, <2>3 DEF GoesOn, Claims, Works
  <2>4. CASE Inserts(r)
    BY <2>2, <2>4 DEF Inserts
  <2>5. CASE Recovers(r)
    BY <2>2, <2>5 DEF Recovers, Claims, BoundTo
  <2>6. ~Joins(r) /\ ~Submits(r) /\ req'[r].pc # "idle"
    BY <2>2 DEF Joins, Submits, Late
  <2> QED BY <2>1, <2>3, <2>4, <2>5, <2>6 DEF RequestMove
<1>3. CASE Decides(c, l)'
  <2>1. CASE UNCHANGED decision
    BY <1>3, <2>1 DEF Claims, Decides
  <2>2. ASSUME NEW r \in Requests, RecordCorrection(r), ~Decides(c, l)
        PROVE  Works(r, c, l)
    <3>1. /\ req[r].pc = "decide" /\ req[r].pc \in Late /\ req[r].payload \in Corrected
          /\ req[r].cap \in Captures
      BY <2>2 DEF RecordCorrection, Late, Given, CaptureInv, Knows, RequestOK
    <3>2. \/ UNCHANGED decision
          \/ decision' = [decision EXCEPT ![req[r].cap] =
                            [listing |-> req[r].listing, tail |-> TailOf[req[r].payload]]]
      BY <2>2 DEF RecordCorrection
    <3>3. decision'[c] # None /\ decision'[c].listing = l
      BY <1>3 DEF Decides
    <3>4. decision'[c] # decision[c]
      BY <2>2, <3>3 DEF Decides
    <3>5. req[r].cap = c /\ req[r].listing = l
      BY <3>1, <3>2, <3>3, <3>4 DEF CaptureInv, TypeOK
    <3> QED BY <3>1, <3>5 DEF Works
  <2> QED BY <2>1, <2>2, Writers DEF Claims
<1> QED BY <1>1, <1>2, <1>3 DEF Claims

LEMMA NextOneClaim ==
  ASSUME CaptureInv, CaptureInv', Given, Given', OneClaim, [Next]_vars
  PROVE  OneClaim'
<1> SUFFICES ASSUME NEW l \in Listings, NEW c \in Captures, Claims(c, l)'
             PROVE  /\ listing'[l].state # "unused"
                    /\ \A d \in Captures : Claims(d, l)' => c = d
  BY DEF OneClaim
<1> DEFINE Inserted(d) == \E r \in Requests : /\ Inserts(r) /\ req[r].cap = d
                                             /\ capture'[d].bound = l
<1>1. \A d \in Captures : Claims(d, l)' => Claims(d, l) \/ Inserted(d)
  BY ClaimsComeFrom
<1>2. ASSUME NEW d \in Captures, Inserted(d)
      PROVE  /\ listing[l].state = "unused" /\ listing'[l].state # "unused"
             /\ \A e \in Captures : Inserted(e) => e = d
  <2>1. PICK r \in Requests : Inserts(r) /\ req[r].cap = d /\ capture'[d].bound = l
    BY <1>2
  <2>2. /\ listing[l].state = "unused" /\ listing'[l].state # "unused"
        /\ \A e \in Captures \ {d} : capture'[e] = capture[e]
    BY <2>1 DEF Inserts
  <2>3. ASSUME NEW e \in Captures \ {d}, Inserted(e)
        PROVE  FALSE
    <3>1. capture[e].bound = None /\ capture'[e].bound = l
      BY <2>3 DEF Inserts
    <3> QED BY <2>2, <3>1, NoneIsNoId
  <2> QED BY <2>2, <2>3
<1>3. \A d \in Captures : Claims(d, l) =>
        /\ listing[l].state # "unused" /\ listing'[l].state # "unused"
        /\ \A e \in Captures : Claims(e, l) => d = e
  BY NextStays DEF OneClaim
<1> HIDE DEF Inserted
<1> QED BY <1>1, <1>2, <1>3

\* A page that is always corrected has no other payload.
LEMMA SolePayloads ==
  ASSUME CaptureInv, Given, NEW c \in Captures, Sole(c)
  PROVE  /\ Reproducible(c)
         /\ \A r \in Requests : req[r].cap = c /\ req[r].pc \in {"choose", "insert"} \cup Late =>
              req[r].payload \in Corrected
         /\ capture[c].bound # None => capture[c].payload \in Corrected
<1>1. PICK q \in Corrected : extraction[c] = {q}
  BY DEF Sole
<1>2. extraction[c] \subseteq Payloads
  BY DEF CaptureInv, TypeOK
<1>3. ASSUME NEW r \in Requests, req[r].cap = c, req[r].pc \in {"choose", "insert"} \cup Late
      PROVE  req[r].payload = q
  <2>1. req[r].payload \in Payloads /\ req[r].pc # "idle"
    BY <1>3 DEF CaptureInv, Knows, RequestOK, Late
  <2> QED BY <1>1, <1>3, <2>1, NoneIsNoId DEF Given
<1>4. capture[c].bound # None => capture[c].payload = q
  BY <1>1, NoneIsNoId DEF CaptureInv, BoundOK, Given
<1> QED BY <1>1, <1>2, <1>3, <1>4 DEF Reproducible

\* Without deletions it keeps the listing it was bound to.
LEMMA NextBinding ==
  ASSUME CaptureInv, [Next]_vars, NEW c \in Captures, AtHome(c), NothingDeleted',
         capture[c].bound # None
  PROVE  capture'[c].bound = capture[c].bound
<1>1. RowChange(c)
  BY NextRowChange
<1>2. ASSUME NEW r \in Requests, req[r].pc = "result", req[r].cap = c,
             capture'[c].bound = req[r].listing
      PROVE  capture'[c].bound = capture[c].bound
  BY <1>2 DEF AtHome, Late
<1> QED BY <1>1, <1>2 DEF RowChange, Inserts

LEMMA NextAtHome ==
  ASSUME CaptureInv, CaptureInv', Given, Given', OneClaim', [Next]_vars,
         NEW c \in Captures, Sole(c), AtHome(c), NothingDeleted'
  PROVE  AtHome(c)'
<1>1. /\ UNCHANGED extraction /\ Sole(c)'
      /\ \A l \in Listings : Decides(c, l) => Decides(c, l)'
  BY NextStays DEF Sole
<1>2. /\ capture[c].bound # None => capture'[c].bound = capture[c].bound
      /\ capture[c].bound \in Listings \cup {None}
      /\ capture'[c].bound \in Listings \cup {None}
  BY NextBinding DEF CaptureInv, TypeOK, CaptureRow
<1>3. ASSUME NEW r \in Requests, req'[r].pc \in Late, req'[r].cap = c
      PROVE  capture'[c].bound = req'[r].listing
  <2>1. RequestMove(r)
    BY NextMoves
  <2>2. CASE req'[r] = req[r] \/ GoesOn(r)
    <3>1. req[r].pc \in Late /\ req[r].cap = c /\ req'[r].listing = req[r].listing
      BY <1>3, <2>2 DEF GoesOn
    <3>2. capture[c].bound = req[r].listing /\ req[r].listing \in Listings
      BY <3>1 DEF AtHome, CaptureInv, Knows, RequestOK
    <3> QED BY <1>2, <3>1, <3>2, NoneIsNoId
  <2>3. CASE Joins(r)
    BY <1>3, <2>3, SolePayloads DEF Joins
  <2>4. CASE Inserts(r)
    BY <1>3, <2>4 DEF Inserts
  <2>5. CASE Recovers(r)
    BY <1>3, <2>5 DEF Recovers
  <2>6. ~Submits(r) /\ req'[r].pc # "idle"
    BY <1>3 DEF Submits, Late
  <2> QED BY <2>1, <2>2, <2>3, <2>4, <2>5, <2>6 DEF RequestMove
<1>4. ASSUME NEW d \in disposed'[c]
      PROVE  d.listing = capture'[c].bound
  <2>1. CASE d \in disposed[c]
    <3>1. d.listing = capture[c].bound /\ d.listing \in Listings
      BY <2>1 DEF AtHome, CaptureInv, TypeOK
    <3> QED BY <1>2, <3>1, NoneIsNoId
  <2>2. ASSUME NEW r \in Requests, Disposes(r, c),
               d = [payload |-> req[r].payload, listing |-> req[r].listing]
        PROVE  d.listing = capture'[c].bound
    BY <2>2 DEF Disposes
  <2> QED BY <2>1, <2>2, NextDispositions DEF DispositionsMove
<1>5. ASSUME NEW l \in Listings, capture'[c].bound = l, listing'[l].state # "gated"
      PROVE  Decides(c, l)'
  <2>1. CASE capture[c].bound = None
    <3>1. l # None
      BY NoneIsNoId
    <3>2. PICK r \in Requests : req[r].cap = c /\ Inserts(r)
      <4>1. ASSUME NEW r \in Requests, req[r].pc = "result", req[r].cap = c,
                   capture'[c].bound = req[r].listing
            PROVE  FALSE
        BY <1>5, <2>1, <3>1, <4>1 DEF AtHome, Late
      <4>2. RowChange(c)
        BY NextRowChange
      <4> QED BY <1>5, <2>1, <3>1, <4>1, <4>2 DEF RowChange
    <3>3. req[r].payload \in Corrected
      BY <3>2, SolePayloads DEF Inserts
    <3> QED BY <1>5, <3>2, <3>3 DEF Inserts
  <2>2. CASE capture[c].bound # None /\ Decides(c, l)
    BY <1>1, <2>2
  <2>3. CASE capture[c].bound # None /\ ~Decides(c, l)
    <3>1. capture[c].bound = l /\ listing[l].state = "gated"
      BY <1>2, <1>5, <2>3 DEF AtHome
    <3>2. Moved(l, listing'[l])
      BY <1>5, <3>1, NextListings DEF ListingsMove, Dropped, NoListing, NothingDeleted
    <3>3. PICK d \in Captures : decision'[d] = [listing |-> l, tail |-> TailOf[listing'[l].values]]
      BY <1>5, <3>1, <3>2 DEF Moved
    <3>4. Decides(d, l)'
      <4>1. TailOf[listing'[l].values] \in Tails
        BY <3>2 DEF Moved, Tails
      <4> QED BY <3>3, <4>1, NoneIsNoId DEF Decides
    <3>5. BoundTo(c, l)'
      <4>1. capture'[c].payload \in Corrected
        <5>1. PICK q \in Corrected : extraction'[c] = {q}
          BY <1>1 DEF Sole
        <5>2. capture'[c].payload \in Payloads
          BY <1>5, NoneIsNoId DEF CaptureInv, BoundOK
        <5> QED BY <5>1, <5>2, NoneIsNoId DEF Given
      <4>2. Reproducible(c)'
        BY <1>1, SolePayloads DEF Reproducible
      <4> QED BY <1>5, <4>1, <4>2 DEF BoundTo
    <3>6. c = d
      BY <3>4, <3>5 DEF OneClaim, Claims
    <3> QED BY <3>4, <3>6
  <2> QED BY <2>1, <2>2, <2>3
<1>6. ASSUME NEW r \in Requests, req'[r].pc = "receipt", req'[r].cap = c
      PROVE  decision'[c] # None /\ decision'[c].listing = capture'[c].bound
  <2>1. CASE req'[r] = req[r]
    <3>1. Decides(c, capture[c].bound) /\ capture[c].bound = req[r].listing
      BY <1>6, <2>1 DEF AtHome, Late
    <3>2. req[r].listing \in Listings
      BY <1>6, <2>1 DEF CaptureInv, Knows, RequestOK, Late
    <3> QED BY <1>1, <1>2, <3>1, <3>2, NoneIsNoId DEF Decides
  <2>2. CASE Recovers(r)
    <3>1. /\ capture[c].bound \in Listings /\ capture'[c].bound = capture[c].bound
          /\ listing'[capture[c].bound].state # "gated"
      BY <1>2, <1>6, <2>2 DEF Recovers
    <3> QED BY <1>5, <3>1 DEF Decides
  <2>3. CASE PastClassification(r)
    <3>1. req[r].cap = c /\ req[r].pc \in {"dispose", "settle"}
      BY <1>6, <2>3 DEF PastClassification
    <3>2. req[r].payload \in Corrected
      BY <3>1, SolePayloads DEF Late
    <3>3. Decides(c, req[r].listing) /\ capture[c].bound = req[r].listing
      BY <1>6, <2>3, <3>1, <3>2 DEF PastClassification
    <3>4. req[r].listing \in Listings
      BY <3>1 DEF CaptureInv, Knows, RequestOK, Late
    <3> QED BY <1>1, <1>2, <3>3, <3>4, NoneIsNoId DEF Decides
  <2> QED BY <1>6, <2>1, <2>2, <2>3, NextLate
<1>7. capture'[c].bound # None =>
        \/ listing'[capture'[c].bound].state = "gated"
        \/ decision'[c] # None /\ decision'[c].listing = capture'[c].bound
  BY <1>2, <1>5 DEF Decides
<1> QED BY <1>3, <1>4, <1>6, <1>7 DEF AtHome, Decides

LEMMA NextClassified ==
  ASSUME CaptureInv, [Next]_vars, NothingDeleted',
         NEW r \in Requests, Classified(r), RequestOK(req'[r])
  PROVE  Classified(r)'
<1> SUFFICES ASSUME req'[r].pc \in {"decide", "settle", "receipt"}, req'[r].payload \notin Bare
             PROVE  disposed'[req'[r].cap] # {}
  BY DEF Classified
<1>1. \A c \in Captures : disposed[c] \subseteq disposed'[c]
  BY NextDispositions DEF DispositionsMove
<1>2. req'[r].cap \in Captures
  BY DEF RequestOK
<1>3. CASE req'[r] = req[r]
  BY <1>1, <1>2, <1>3 DEF Classified
<1>4. CASE Recovers(r)
  BY <1>1, <1>2, <1>4 DEF Recovers, Begun
<1>5. CASE PastClassification(r)
  BY <1>1, <1>2, <1>5 DEF PastClassification, Classified
<1> QED BY <1>3, <1>4, <1>5, NextLate

\* The receipt names what was classified and decided.
LEMMA NextIsLast ==
  ASSUME CompletionInv, [Next]_vars
  PROVE  CompletionIsLast'
<1> SUFFICES ASSUME NothingDeleted', NEW c \in Captures, receipt'[c] # None, Reproducible(c)'
             PROVE  LET l == receipt'[c].listing
                        p == receipt'[c].payload
                    IN
                    /\ p \in Bare \/ \E k \in Listings : [payload |-> p, listing |-> k] \in disposed'[c]
                    /\ p \in Corrected =>
                         /\ decision'[c] # None /\ decision'[c].listing = l
                         /\ p \in Bare \/ [payload |-> p, listing |-> l] \in disposed'[c]
  BY DEF CompletionIsLast
<1> DEFINE l == receipt'[c].listing
           p == receipt'[c].payload
<1>1. CaptureInv /\ Given /\ NothingDeleted /\ Reproducible(c) /\ UNCHANGED extraction
  BY NextStays DEF CompletionInv, Reproducible
<1>2. disposed[c] \subseteq disposed'[c] /\ (decision[c] # None => decision'[c] = decision[c])
  BY <1>1, NextDispositions, DecisionsStay DEF DispositionsMove
<1>3. CASE receipt'[c] = receipt[c]
  BY <1>1, <1>2, <1>3 DEF CompletionInv, CompletionIsLast
<1>4. CASE receipt'[c] # receipt[c]
  <2>1. PICK r \in Requests : WriteReceipt(r)
    BY <1>4, Writers, <1>1
  <2>2. /\ req[r].cap = c /\ req[r].pc = "receipt"
        /\ capture[c].bound \in Listings /\ capture[c].payload \in Payloads
        /\ l = capture[c].bound /\ p = capture[c].payload
    <3>1. req[r].cap \in Captures
      BY <1>1, <2>1 DEF CaptureInv, Knows, RequestOK, WriteReceipt
    <3>2. req[r].cap = c /\ req[r].pc = "receipt"
      BY <1>1, <1>4, <2>1, <3>1 DEF WriteReceipt, CaptureInv, TypeOK
    <3>3. /\ capture[c].bound \in Listings /\ BoundOK(capture[c])
          /\ receipt'[c] = [listing |-> capture[c].bound, payload |-> capture[c].payload]
      BY <1>1, <1>4, ReceiptsAreExact
    <3> QED BY <3>2, <3>3, NoneIsNoId DEF BoundOK
  <2>3. PICK q : extraction[c] = {q}
    BY <1>1 DEF Reproducible
  <2>4. p = q /\ req[r].payload = q
    <3>1. req[r].payload \in Payloads
      BY <1>1, <2>2 DEF CaptureInv, Knows, RequestOK, Late
    <3> QED BY <1>1, <2>2, <2>3, <3>1, NoneIsNoId DEF Given
  <2>5. CASE p \notin Bare
    <3>1. disposed[c] # {}
      BY <1>1, <2>2, <2>4, <2>5 DEF CompletionInv, Classified
    <3>2. PICK d : d \in disposed[c]
      BY <3>1
    <3>3. d \in [payload : Payloads, listing : Listings] /\ d.payload = q
      BY <1>1, <2>3, <3>2 DEF CaptureInv, TypeOK, Given
    <3>4. d.listing \in Listings /\ d = [payload |-> p, listing |-> d.listing] /\ d \in disposed'[c]
      BY <1>2, <2>4, <3>2, <3>3
    <3>5. p \in Corrected => d.listing = l
      BY <1>1, <2>2, <2>3, <2>4, <3>2 DEF CompletionInv, Sole, AtHome
    <3>6. p \in Corrected => decision'[c] # None /\ decision'[c].listing = l
      BY <1>1, <1>2, <2>2, <2>3, <2>4 DEF CompletionInv, Sole, AtHome, Decides
    <3> QED BY <3>4, <3>5, <3>6
  <2>6. CASE p \in Bare
    <3>1. p \in Corrected => decision'[c] # None /\ decision'[c].listing = l
      BY <1>1, <1>2, <2>2, <2>3, <2>4 DEF CompletionInv, Sole, AtHome, Decides
    <3> QED BY <2>6, <3>1
  <2> QED BY <2>5, <2>6
<1> QED BY <1>3, <1>4

\* A listing that a request would retake is released only by the request's own page.
LEMMA NextRetakes ==
  ASSUME CaptureInv, CaptureInv', OneClaim', [Next]_vars, NEW r \in Requests, RetakesOwn(r)
  PROVE  RetakesOwn(r)'
<1> SUFFICES ASSUME req'[r].pc = "rewrite", req'[r].payload \in Corrected
             PROVE  RetakesOwn(r)'
  BY DEF RetakesOwn
<1>1. PICK c \in Captures, l \in Listings : c = req'[r].cap /\ l = req'[r].listing
  BY DEF CaptureInv, Knows, RequestOK, Late
<1>2. SUFFICES /\ req'[r].recovering
               /\ listing'[l].state \in {"gated", "deleted"} \/ Decides(c, l)'
  BY <1>1 DEF RetakesOwn, Decides
<1>3. CASE req'[r] = req[r]
  <2>1. /\ req'[r].recovering
        /\ listing[l].state \in {"gated", "deleted"} \/ Decides(c, l)
    BY <1>1, <1>3 DEF RetakesOwn
  <2>2. CASE Decides(c, l)
    BY <2>1, <2>2, NextStays
  <2>3. CASE listing[l].state = "deleted"
    <3>1. ~Moved(l, listing'[l])
      BY <2>3 DEF Moved
    <3>2. Dropped(l, listing'[l]) => listing'[l].state = "deleted"
      BY DEF Dropped, NoListing
    <3> QED BY <2>1, <2>3, <3>1, <3>2, NextListings DEF ListingsMove
  <2>4. CASE listing[l].state = "gated" /\ listing'[l].state \notin {"gated", "deleted"}
    <3>1. Moved(l, listing'[l])
      BY <2>4, NextListings DEF ListingsMove, Dropped, NoListing
    <3>2. PICK d \in Captures :
            decision'[d] = [listing |-> l, tail |-> TailOf[listing'[l].values]]
      BY <2>4, <3>1 DEF Moved
    <3>3. decision'[d] # None
      BY <3>1, <3>2, NoneIsNoId DEF Moved, Tails
    <3>4. Claims(d, l)'
      BY <3>2, <3>3 DEF Claims, Decides
    <3>5. Claims(c, l)'
      BY <1>1 DEF Claims, Works, Late
    <3>6. c = d
      BY <3>4, <3>5 DEF OneClaim
    <3> QED BY <2>1, <3>2, <3>3, <3>6 DEF Decides
  <2> QED BY <2>1, <2>2, <2>3, <2>4
<1>4. CASE Recovers(r)
  BY <1>1, <1>4 DEF Recovers
<1>5. ~GoesOn(r) /\ ~Joins(r) /\ ~Inserts(r) /\ ~Submits(r)
  BY DEF GoesOn, Joins, Inserts, Submits
<1> QED BY <1>3, <1>4, <1>5, NextMoves DEF RequestMove

LEMMA InitCompletion == Init => CompletionInv
<1> SUFFICES ASSUME Init PROVE CompletionInv
  OBVIOUS
<1>1. /\ \A c \in Captures : /\ capture[c].bound = None /\ capture[c].payload = None
                             /\ disposed[c] = {} /\ decision[c] = None /\ receipt[c] = None
      /\ \A r \in Requests : req[r].pc = "idle"
  BY DEF Init, NoRow, Idle
<1>2. Given
  BY <1>1 DEF Given
<1>3. OneClaim
  BY <1>1, NoneIsNoId DEF OneClaim, Claims, BoundTo, Works, Decides, Late
<1>4. \A c \in Captures : AtHome(c)
  BY <1>1 DEF AtHome, Late
<1>5. \A r \in Requests : Classified(r)
  BY <1>1 DEF Classified
<1>6. CompletionIsLast
  BY <1>1 DEF CompletionIsLast
<1>7. \A r \in Requests : RetakesOwn(r)
  BY <1>1 DEF RetakesOwn
<1> QED BY <1>2, <1>3, <1>4, <1>5, <1>6, <1>7, InitInv DEF CompletionInv

LEMMA NextCompletion == CompletionInv /\ [Next]_vars => CompletionInv'
<1> SUFFICES ASSUME CompletionInv, [Next]_vars PROVE CompletionInv'
  OBVIOUS
<1>1. CaptureInv /\ Given /\ OneClaim /\ CaptureInv'
  BY NextInv DEF CompletionInv
<1>2. Given' /\ OneClaim'
  BY <1>1, NextGiven, NextOneClaim
<1>3. ASSUME NothingDeleted'
      PROVE  /\ \A c \in Captures : Sole(c)' => AtHome(c)'
             /\ \A r \in Requests : Classified(r)'
  <2>1. /\ NothingDeleted /\ \A c \in Captures : Sole(c)' => Sole(c)
        /\ \A r \in Requests : RequestOK(req'[r])
    BY <1>1, <1>3, NextStays DEF Sole, CaptureInv, Knows
  <2>2. /\ \A c \in Captures : Sole(c) => AtHome(c)
        /\ \A r \in Requests : Classified(r)
    BY <2>1 DEF CompletionInv
  <2> QED BY <1>1, <1>2, <1>3, <2>1, <2>2, NextAtHome, NextClassified
<1>4. \A r \in Requests : RetakesOwn(r)'
  BY <1>1, <1>2, NextRetakes DEF CompletionInv
<1> QED BY <1>1, <1>2, <1>3, <1>4, NextIsLast DEF CompletionInv

\* CompletionInv holds of every reachable state.
THEOREM CompletionIsConsistent == Spec => []CompletionInv
BY InitCompletion, NextCompletion, PTL DEF Spec

\* A reproducible page has a receipt only after its payload was classified, and a corrected
\* one only after it was decided and classified on the very listing, however many
\* requests for however many pages died, were repeated or ran at the same time.
THEOREM ReceiptIsLast == Spec => []CompletionIsLast
BY CompletionIsConsistent, PTL DEF CompletionInv

\* A listing has one claim: two captures never have a correction on the same listing,
\* and what a corrected page is bound to nobody else decides.
THEOREM ListingsHaveOneClaim == Spec => []OneClaim
BY CompletionIsConsistent, PTL DEF CompletionInv

\* What is published stays as it is, or is taken back to be reviewed, deleted by a deletion
\* that found it unpublished, or written over and gated by a recovery of a corrected page
\* that its own decision overtook: by nobody else, however long ago a request chose it.
THEOREM PublishedStays == Spec => PublishedIsKept
<1>1. ASSUME CompletionInv, [Next]_vars, NEW l \in Listings, listing[l].state = "ready"
      PROVE  \/ /\ listing'[l].state \in {"ready", "pending_review"}
                /\ listing'[l].values = listing[l].values
                /\ listing'[l].links = listing[l].links
                /\ listing'[l].url = listing[l].url
             \/ listing'[l].state = "deleted" /\ deleting = l
             \/ \E r \in Requests : Overwrites(r, l)
  <2>1. CASE listing'[l] = listing[l]
    BY <1>1, <2>1
  <2>2. CASE Dropped(l, listing'[l])
    BY <2>2 DEF Dropped, NoListing
  <2>3. ASSUME NEW r \in Requests, Retakes(r, l, listing'[l])
        PROVE  Overwrites(r, l)
    BY <1>1, <2>3 DEF Retakes, Overwrites, CompletionInv, RetakesOwn, Decides
  <2>4. CASE Moved(l, listing'[l])
    BY <1>1, <2>3, <2>4 DEF Moved
  <2> QED BY <1>1, <2>1, <2>2, <2>4, NextListings DEF CompletionInv, ListingsMove
<1>2. CompletionInv /\ [Next]_vars =>
        [\A l \in Listings : listing[l].state = "ready" =>
           \/ /\ listing'[l].state \in {"ready", "pending_review"}
              /\ listing'[l].values = listing[l].values
              /\ listing'[l].links = listing[l].links
              /\ listing'[l].url = listing[l].url
           \/ listing'[l].state = "deleted" /\ deleting = l
           \/ \E r \in Requests : Overwrites(r, l)]_vars
  BY <1>1
<1> QED BY <1>2, CompletionIsConsistent, PTL DEF Spec, PublishedIsKept
=============================================================================
