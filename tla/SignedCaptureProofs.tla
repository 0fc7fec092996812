------------------------- MODULE SignedCaptureProofs -------------------------
(***************************************************************************)
(* Proofs about SignedCapture.  A step is looked at three times: what it   *)
(* makes of the requests, of the capture rows, and of the listings; each   *)
(* view has one fact per action, and the invariant follows from the views. *)
(***************************************************************************)
EXTENDS SignedCapture, TLAPS

Late == {"rewrite", "links", "stage", "finalize", "result", "attach", "dispose", "decide",
         "settle", "receipt"}

\* What a request that got so far knows.
RequestOK(q) ==
  /\ q.pc # "idle" => q.cap \in Captures
  /\ q.pc \in {"choose", "insert"} \cup Late => q.payload \in Payloads
  /\ q.pc \in Late => q.listing \in Listings
  /\ q.pc \in {"extract", "choose", "insert"} => q.row.bound = None

\* ... and what it knows of its capture.
KnowsStored(q, rows) ==
  q.pc \in {"choose", "insert"} \cup Late \/ (q.pc = "extract" /\ q.row.stored) =>
    rows[q.cap].stored

\* A bound capture is stored and has been extracted.
BoundOK(row) == row.bound # None => row.stored /\ row.payload \in Payloads

\* A listing that is there says something; one that is not claims nothing.
FilledOK(row) == IF row.state \in {"unused", "deleted"}
                 THEN row.url = None /\ row.review = None
                 ELSE row.values \in Payloads

Knows == \A r \in Requests : RequestOK(req[r]) /\ KnowsStored(req[r], capture)

\* The inductive invariant.
CaptureInv == /\ TypeOK /\ Knows
              /\ \A c \in Captures : BoundOK(capture[c])
              /\ \A l \in Listings : FilledOK(listing[l])
              /\ ReceiptExact /\ CorrectionsAreDecided

-----------------------------------------------------------------------------
(* The requests. *)

\* A request goes on to a later step.
LEMMA GotoFacts ==
  ASSUME TypeOK, NEW r \in Requests, NEW step \in Steps, Goto(r, step)
  PROVE  /\ req' \in [Requests -> Request]
         /\ \A q \in Requests \ {r} : req'[q] = req[q]
         /\ req'[r].pc = step /\ req'[r].cap = req[r].cap /\ req'[r].row = req[r].row
         /\ req'[r].payload = req[r].payload /\ req'[r].listing = req[r].listing
BY DEF TypeOK, Goto, Request

\* A request ends.
LEMMA EndFacts ==
  ASSUME TypeOK, NEW r \in Requests, End(r)
  PROVE  /\ req' \in [Requests -> Request]
         /\ \A q \in Requests \ {r} : req'[q] = req[q]
         /\ req'[r].pc = "idle"
BY DEF TypeOK, End, Request, Idle, NoRow, CaptureRow, Steps

\* A request gives up.
LEMMA UnwindFacts ==
  ASSUME TypeOK, NEW r \in Requests, Unwind(r)
  PROVE  /\ req' \in [Requests -> Request]
         /\ \A q \in Requests \ {r} : req'[q] = req[q]
         /\ \/ req'[r].pc = "idle"
            \/ req'[r].pc = "fail" /\ req'[r].cap = req[r].cap
<1> DEFINE new == [Idle EXCEPT !.pc = "fail", !.cap = req[r].cap, !.payload = req[r].payload]
<1>1. new \in Request /\ new.pc = "fail" /\ new.cap = req[r].cap
  BY DEF TypeOK, Request, Idle, NoRow, CaptureRow, Steps
<1>2. CASE End(r)
  BY <1>2, EndFacts
<1>3. CASE req' = [req EXCEPT ![r] = new]
  <2> HIDE DEF new
  <2> QED BY <1>1, <1>3 DEF TypeOK
<1> QED BY <1>2, <1>3 DEF Unwind

-----------------------------------------------------------------------------
(* Who writes what. *)

\* Who writes a capture's row.
LEMMA RowWriters ==
  ASSUME [Next]_vars
  PROVE  \/ UNCHANGED capture
         \/ \E r \in Requests : \/ \E p \in Payloads : ExtractOk(r, p)
                                \/ RecordFailure(r) \/ InsertAndBind(r) \/ WriteResult(r)
         \/ Delete
<1> DEFINE Who == \/ UNCHANGED capture
                  \/ \E r \in Requests : \/ \E p \in Payloads : ExtractOk(r, p)
                                         \/ RecordFailure(r) \/ InsertAndBind(r) \/ WriteResult(r)
                  \/ Delete
<1>1. ASSUME NEW r \in Requests,
             ChooseListing(r) \/ Rewrite(r) \/ ReplaceLinks(r) \/ StageReview(r)
               \/ FinalizeListing(r)
      PROVE  UNCHANGED capture
  BY <1>1 DEF ChooseListing, Rewrite, ReplaceLinks, StageReview, FinalizeListing
<1>2. ASSUME NEW r \in Requests,
             AttachReview(r) \/ RecordDispositions(r) \/ RecordCorrection(r)
               \/ SettleCorrection(r) \/ WriteReceipt(r)
      PROVE  UNCHANGED capture
  BY <1>2 DEF AttachReview, RecordDispositions, RecordCorrection, SettleCorrection,
              WriteReceipt
<1>3. ASSUME NEW r \in Requests, Refused(r) \/ Crash(r)
      PROVE  UNCHANGED capture
  BY <1>3 DEF Refused, Crash
<1>4. ASSUME NEW r \in Requests, NEW c \in Captures, Submit(r, c) \/ Recover(r, c)
      PROVE  UNCHANGED capture
  BY <1>4 DEF Submit, Recover
<1>5. ASSUME NEW l \in Listings, CheckDelete(l) \/ ReviewPublishes(l)
      PROVE  UNCHANGED capture
  BY <1>5 DEF CheckDelete, ReviewPublishes
<1>6. CASE UNCHANGED vars
  BY <1>6 DEF vars
<1>7. ASSUME NEW r \in Requests, Continue(r)
      PROVE  Who
  BY <1>1, <1>2, <1>7 DEF Continue
<1> QED BY <1>3, <1>4, <1>5, <1>6, <1>7 DEF Next

\* Who writes a listing.
LEMMA ListingWriters ==
  ASSUME [Next]_vars
  PROVE  \/ UNCHANGED listing
         \/ \E r \in Requests : \/ InsertAndBind(r) \/ Rewrite(r) \/ ReplaceLinks(r) \/ StageReview(r)
                                \/ FinalizeListing(r) \/ AttachReview(r) \/ RecordCorrection(r)
                                \/ SettleCorrection(r)
         \/ \E l \in Listings : ReviewPublishes(l)
         \/ Delete
<1> DEFINE Who == \/ UNCHANGED listing
                  \/ \E r \in Requests :
                       \/ InsertAndBind(r) \/ Rewrite(r) \/ ReplaceLinks(r) \/ StageReview(r)
                       \/ FinalizeListing(r) \/ AttachReview(r) \/ RecordCorrection(r)
                       \/ SettleCorrection(r)
                  \/ \E l \in Listings : ReviewPublishes(l)
                  \/ Delete
<1>1. ASSUME NEW r \in Requests, NEW p \in Payloads, ExtractOk(r, p)
      PROVE  UNCHANGED listing
  BY <1>1 DEF ExtractOk
<1>2. ASSUME NEW r \in Requests,
             RecordFailure(r) \/ ChooseListing(r) \/ WriteResult(r)
               \/ RecordDispositions(r) \/ WriteReceipt(r)
      PROVE  UNCHANGED listing
  BY <1>2 DEF RecordFailure, ChooseListing, WriteResult, RecordDispositions, WriteReceipt
<1>3. ASSUME NEW r \in Requests, Refused(r) \/ Crash(r)
      PROVE  UNCHANGED listing
  BY <1>3 DEF Refused, Crash
<1>4. ASSUME NEW r \in Requests, NEW c \in Captures, Submit(r, c) \/ Recover(r, c)
      PROVE  UNCHANGED listing
  BY <1>4 DEF Submit, Recover
<1>5. ASSUME NEW l \in Listings, CheckDelete(l)
      PROVE  UNCHANGED listing
  BY <1>5 DEF CheckDelete
<1>6. CASE UNCHANGED vars
  BY <1>6 DEF vars
<1>7. ASSUME NEW r \in Requests, Continue(r)
      PROVE  Who
  BY <1>1, <1>2, <1>7 DEF Continue
<1> QED BY <1>3, <1>4, <1>5, <1>6, <1>7 DEF Next

\* Who writes a decision, a receipt, counts a fault.
LEMMA Writers ==
  ASSUME [Next]_vars
  PROVE  /\ UNCHANGED decision \/ \E r \in Requests : RecordCorrection(r)
         /\ UNCHANGED receipt \/ \E r \in Requests : WriteReceipt(r)
         /\ UNCHANGED faults \/ Fault
<1> DEFINE Who == /\ UNCHANGED decision \/ \E r \in Requests : RecordCorrection(r)
                  /\ UNCHANGED receipt \/ \E r \in Requests : WriteReceipt(r)
                  /\ UNCHANGED faults \/ Fault
<1>1. ASSUME NEW r \in Requests, NEW p \in Payloads, ExtractOk(r, p)
      PROVE  UNCHANGED <<decision, receipt, faults>>
  BY <1>1 DEF ExtractOk
<1>2. ASSUME NEW r \in Requests,
             RecordFailure(r) \/ ChooseListing(r) \/ InsertAndBind(r) \/ Rewrite(r) \/ StageReview(r)
               \/ WriteResult(r) \/ AttachReview(r) \/ RecordDispositions(r)
      PROVE  UNCHANGED <<decision, receipt, faults>>
  BY <1>2 DEF RecordFailure, ChooseListing, InsertAndBind, Rewrite, StageReview, WriteResult,
              AttachReview, RecordDispositions
<1>3. ASSUME NEW r \in Requests,
             ReplaceLinks(r) \/ FinalizeListing(r) \/ SettleCorrection(r) \/ Refused(r) \/ Crash(r)
      PROVE  UNCHANGED <<decision, receipt>> /\ (UNCHANGED faults \/ Fault)
  <2>1. CASE ReplaceLinks(r)
    BY <2>1 DEF ReplaceLinks
  <2>2. CASE FinalizeListing(r)
    BY <2>2 DEF FinalizeListing, Finalize
  <2>3. CASE SettleCorrection(r)
    BY <2>3 DEF SettleCorrection, Finalize
  <2>4. CASE Refused(r) \/ Crash(r)
    BY <2>4 DEF Refused, Crash
  <2> QED BY <1>3, <2>1, <2>2, <2>3, <2>4
<1>4. ASSUME NEW r \in Requests, RecordCorrection(r)
      PROVE  UNCHANGED <<receipt, faults>>
  BY <1>4 DEF RecordCorrection
<1>5. ASSUME NEW r \in Requests, WriteReceipt(r)
      PROVE  UNCHANGED <<decision, faults>>
  BY <1>5 DEF WriteReceipt
<1>6. ASSUME NEW r \in Requests, NEW c \in Captures, Submit(r, c) \/ Recover(r, c)
      PROVE  UNCHANGED <<decision, receipt, faults>>
  BY <1>6 DEF Submit, Recover
<1>7. ASSUME NEW l \in Listings, CheckDelete(l) \/ ReviewPublishes(l) \/ Delete
      PROVE  UNCHANGED <<decision, receipt>> /\ (UNCHANGED faults \/ Fault)
  BY <1>7 DEF CheckDelete, ReviewPublishes, Delete
<1>8. ASSUME Delete
      PROVE  UNCHANGED <<decision, receipt, faults>>
  BY <1>8 DEF Delete
<1>9. CASE UNCHANGED vars
  BY <1>9 DEF vars
<1>10. ASSUME NEW r \in Requests, Continue(r)
       PROVE  Who
  <2> HIDE DEF Who
  <2>1. CASE UNCHANGED <<decision, receipt>> /\ (UNCHANGED faults \/ Fault)
    BY <2>1 DEF Who
  <2>2. CASE RecordCorrection(r)
    BY <2>2, <1>4 DEF Who
  <2>3. CASE WriteReceipt(r)
    BY <2>3, <1>5 DEF Who
  <2> QED BY <2>1, <2>2, <2>3, <1>1, <1>2, <1>3, <1>10 DEF Continue
<1> QED BY <1>3, <1>6, <1>7, <1>8, <1>9, <1>10 DEF Next

\* Who writes the dispositions, the pending deletion and the extraction.
LEMMA OtherWriters ==
  ASSUME [Next]_vars
  PROVE  /\ UNCHANGED disposed \/ Delete \/ \E r \in Requests : RecordDispositions(r)
         /\ UNCHANGED deleting \/ Delete \/ \E l \in Listings : CheckDelete(l)
         /\ UNCHANGED extraction
<1> DEFINE Who == /\ UNCHANGED disposed \/ Delete \/ \E r \in Requests : RecordDispositions(r)
                  /\ UNCHANGED deleting \/ Delete \/ \E l \in Listings : CheckDelete(l)
                  /\ UNCHANGED extraction
<1>1. ASSUME NEW r \in Requests, NEW p \in Payloads, ExtractOk(r, p)
      PROVE  UNCHANGED <<disposed, deleting, extraction>>
  BY <1>1 DEF ExtractOk
<1>2. ASSUME NEW r \in Requests,
             RecordFailure(r) \/ ChooseListing(r) \/ InsertAndBind(r) \/ Rewrite(r)
               \/ ReplaceLinks(r) \/ StageReview(r)
      PROVE  UNCHANGED <<disposed, deleting, extraction>>
  BY <1>2 DEF RecordFailure, ChooseListing, InsertAndBind, Rewrite, ReplaceLinks, StageReview
<1>3. ASSUME NEW r \in Requests,
             FinalizeListing(r) \/ WriteResult(r) \/ AttachReview(r) \/ RecordCorrection(r)
               \/ SettleCorrection(r) \/ WriteReceipt(r)
      PROVE  UNCHANGED <<disposed, deleting, extraction>>
  BY <1>3 DEF FinalizeListing, WriteResult, AttachReview, RecordCorrection, SettleCorrection,
              WriteReceipt
<1>4. ASSUME NEW r \in Requests, Refused(r) \/ Crash(r)
      PROVE  UNCHANGED <<disposed, deleting, extraction>>
  BY <1>4 DEF Refused, Crash
<1>5. ASSUME NEW r \in Requests, RecordDispositions(r)
      PROVE  UNCHANGED <<deleting, extraction>>
  BY <1>5 DEF RecordDispositions
<1>6. ASSUME NEW r \in Requests, NEW c \in Captures, Submit(r, c) \/ Recover(r, c)
      PROVE  UNCHANGED <<disposed, deleting, extraction>>
  BY <1>6 DEF Submit, Recover
<1>7. ASSUME NEW l \in Listings, ReviewPublishes(l)
      PROVE  UNCHANGED <<disposed, deleting, extraction>>
  BY <1>7 DEF ReviewPublishes
<1>8. ASSUME NEW l \in Listings, CheckDelete(l)
      PROVE  UNCHANGED <<disposed, extraction>>
  BY <1>8 DEF CheckDelete
<1>9. ASSUME Delete
      PROVE  UNCHANGED extraction
  BY <1>9 DEF Delete
<1>10. CASE UNCHANGED vars
  BY <1>10 DEF vars
<1>11. ASSUME NEW r \in Requests, Continue(r)
       PROVE  Who
  <2> HIDE DEF Who
  <2>1. CASE UNCHANGED <<disposed, deleting, extraction>>
    BY <2>1 DEF Who
  <2>2. CASE RecordDispositions(r)
    BY <2>2, <1>5 DEF Who
  <2> QED BY <2>1, <2>2, <1>1, <1>2, <1>3, <1>11 DEF Continue
<1> QED BY <1>4, <1>6, <1>7, <1>8, <1>9, <1>10, <1>11 DEF Next

-----------------------------------------------------------------------------
(* The capture rows. *)

\* What a step may make of a capture's row: a receipt freezes it.
RowMoves(c) ==
  /\ capture'[c] \in CaptureRow /\ BoundOK(capture'[c])
  /\ capture[c].stored => capture'[c].stored
  /\ receipt[c] # None => capture'[c] = capture[c]

RowsMove == capture' \in [Captures -> CaptureRow] /\ \A c \in Captures : RowMoves(c)

LEMMA RowsUnchanged ==
  ASSUME CaptureInv, UNCHANGED capture
  PROVE  RowsMove
BY DEF CaptureInv, TypeOK, RowsMove, RowMoves

\* One row is written.
LEMMA OneRowMoves ==
  ASSUME CaptureInv, NEW c \in Captures, NEW row \in CaptureRow,
         capture' = [capture EXCEPT ![c] = row],
         BoundOK(row), row.stored, receipt[c] # None => row = capture[c]
  PROVE  RowsMove
BY DEF CaptureInv, TypeOK, RowsMove, RowMoves

\* A receipted capture is stored and bound.
LEMMA ReceiptedRow ==
  ASSUME CaptureInv, NEW c \in Captures, receipt[c] # None
  PROVE  capture[c].stored /\ capture[c].bound # None /\ ~capture[c].failed
BY NoneIsNoId DEF CaptureInv, TypeOK, ReceiptExact

LEMMA ExtractOkRows ==
  ASSUME CaptureInv, NEW r \in Requests, NEW p \in Payloads, ExtractOk(r, p)
  PROVE  RowsMove
<1> DEFINE c == req[r].cap
           row == [NoRow EXCEPT !.stored = TRUE, !.payload = p]
<1>1. c \in Captures
  BY DEF CaptureInv, Knows, RequestOK, ExtractOk
<1>2. /\ row \in CaptureRow /\ row.stored /\ row.bound = None
  BY DEF CaptureRow, NoRow
<1>3. CASE UNCHANGED capture
  BY <1>3, RowsUnchanged
<1>4. CASE ~capture[c].stored /\ capture' = [capture EXCEPT ![c] = row]
  <2>1. receipt[c] = None
    BY <1>1, <1>4, ReceiptedRow
  <2> HIDE DEF c, row
  <2> QED BY <1>1, <1>2, <1>4, <2>1, OneRowMoves DEF BoundOK
<1> QED BY <1>3, <1>4 DEF ExtractOk

LEMMA RecordFailureRows ==
  ASSUME CaptureInv, NEW r \in Requests, RecordFailure(r)
  PROVE  RowsMove
<1> DEFINE c == req[r].cap
           payload == IF req[r].payload = None THEN capture[c].payload ELSE req[r].payload
           row == [capture[c] EXCEPT !.failed = TRUE, !.stored = TRUE,
                     !.payload = IF req[r].payload = None THEN @ ELSE req[r].payload]
<1>1. c \in Captures
  BY DEF CaptureInv, Knows, RequestOK, RecordFailure
<1>2. /\ capture[c] \in CaptureRow /\ BoundOK(capture[c])
      /\ req[r].payload \in Payloads \cup {None}
  BY <1>1 DEF CaptureInv, TypeOK, Request
<1>3. /\ payload \in Payloads \cup {None}
      /\ capture[c].bound # None => payload \in Payloads
  BY <1>2 DEF BoundOK, CaptureRow
<1>4. row \in CaptureRow /\ row.stored /\ BoundOK(row)
  <2>1. row.stored /\ row.payload = payload /\ row.bound = capture[c].bound
    BY <1>2 DEF CaptureRow
  <2>2. row \in CaptureRow
    BY <1>2, <1>3 DEF CaptureRow
  <2> QED BY <1>3, <2>1, <2>2 DEF BoundOK
<1>5. CASE UNCHANGED capture
  BY <1>5, RowsUnchanged
<1>6. CASE CanWrite(c, row) /\ capture' = [capture EXCEPT ![c] = row]
  <2> HIDE DEF c, row
  <2> QED BY <1>1, <1>4, <1>6, OneRowMoves DEF CanWrite
<1> QED BY <1>5, <1>6 DEF RecordFailure

LEMMA InsertAndBindRows ==
  ASSUME CaptureInv, NEW r \in Requests, InsertAndBind(r)
  PROVE  RowsMove
<1> DEFINE c == req[r].cap
           p == req[r].payload
<1>1. c \in Captures /\ p \in Payloads /\ req[r].row.bound = None /\ capture[c].stored
  BY DEF CaptureInv, Knows, RequestOK, KnowsStored, InsertAndBind
<1>2. CASE UNCHANGED capture
  BY <1>2, RowsUnchanged
<1>3. ASSUME NEW l \in Listings, capture[c] = req[r].row,
             capture' = [capture EXCEPT ![c] = [@ EXCEPT !.payload = p, !.failed = FALSE,
                                                          !.bound = l]]
      PROVE  RowsMove
  <2> DEFINE row == [capture[c] EXCEPT !.payload = p, !.failed = FALSE, !.bound = l]
  <2>1. capture[c] \in CaptureRow
    BY <1>1 DEF CaptureInv, TypeOK
  <2>2. row \in CaptureRow /\ row.stored = capture[c].stored /\ row.payload = p
    BY <1>1, <2>1 DEF CaptureRow
  <2>3. row.stored /\ BoundOK(row)
    BY <1>1, <2>2 DEF BoundOK
  <2>4. receipt[c] = None
    BY <1>1, <1>3, ReceiptedRow
  <2>5. capture' = [capture EXCEPT ![c] = row]
    BY <1>3
  <2> HIDE DEF row, c
  <2> QED BY <1>1, <2>2, <2>3, <2>4, <2>5, OneRowMoves
<1> QED BY <1>2, <1>3 DEF InsertAndBind

LEMMA WriteResultRows ==
  ASSUME CaptureInv, NEW r \in Requests, WriteResult(r)
  PROVE  RowsMove
<1> DEFINE c == req[r].cap
           row == [capture[c] EXCEPT !.payload = req[r].payload, !.failed = FALSE,
                                      !.bound = req[r].listing]
<1>1. /\ c \in Captures /\ req[r].payload \in Payloads /\ req[r].listing \in Listings
      /\ capture[c].stored /\ capture[c] \in CaptureRow
  BY DEF CaptureInv, TypeOK, Knows, RequestOK, KnowsStored, WriteResult, Late
<1>2. row \in CaptureRow /\ row.stored = capture[c].stored /\ row.payload = req[r].payload
  BY <1>1 DEF CaptureRow
<1>3. row \in CaptureRow /\ row.stored /\ BoundOK(row)
  BY <1>1, <1>2 DEF BoundOK
<1>4. CASE UNCHANGED capture
  BY <1>4, RowsUnchanged
<1>5. CASE CanWrite(c, row) /\ capture' = [capture EXCEPT ![c] = row]
  <2> HIDE DEF c, row
  <2> QED BY <1>1, <1>3, <1>5, OneRowMoves DEF CanWrite
<1> QED BY <1>4, <1>5 DEF WriteResult

LEMMA DeleteRows ==
  ASSUME CaptureInv, Delete
  PROVE  RowsMove
<1> DEFINE unbound(c) == [capture[c] EXCEPT !.bound = None]
<1>1. CASE UNCHANGED capture
  BY <1>1, RowsUnchanged
<1>2. CASE ~UNCHANGED capture
  <2>1. /\ capture' = [c \in Captures |->
              IF capture[c].bound = deleting THEN unbound(c) ELSE capture[c]]
        /\ \A c \in Captures : receipt[c] # None => capture[c].bound # deleting
    BY <1>2 DEF Delete
  <2>2. ASSUME NEW c \in Captures
        PROVE  /\ capture[c] \in CaptureRow /\ BoundOK(capture[c])
               /\ unbound(c) \in CaptureRow /\ unbound(c).bound = None
               /\ unbound(c).stored = capture[c].stored
    BY DEF CaptureInv, TypeOK, CaptureRow
  <2> HIDE DEF unbound
  <2> QED BY <2>1, <2>2 DEF RowsMove, RowMoves, BoundOK
<1> QED BY <1>1, <1>2

LEMMA NextRows ==
  ASSUME CaptureInv, [Next]_vars
  PROVE  RowsMove
<1>1. CASE UNCHANGED capture
  BY <1>1, RowsUnchanged
<1>2. CASE ~UNCHANGED capture
  <2>1. \/ \E r \in Requests : \/ \E p \in Payloads : ExtractOk(r, p)
                              \/ RecordFailure(r) \/ InsertAndBind(r) \/ WriteResult(r)
        \/ Delete
    BY <1>2, RowWriters
  <2> QED BY <2>1, ExtractOkRows, RecordFailureRows, InsertAndBindRows, WriteResultRows,
             DeleteRows
<1> QED BY <1>1, <1>2

-----------------------------------------------------------------------------
(* The requests again: what they know stays true. *)

RequestsKnow == req' \in [Requests -> Request] /\ Knows'

LEMMA RequestsUnchanged ==
  ASSUME CaptureInv, RowsMove, UNCHANGED req
  PROVE  RequestsKnow
BY DEF CaptureInv, TypeOK, RowsMove, RowMoves, Knows, RequestOK, KnowsStored, RequestsKnow, Late

\* One request moves.
LEMMA OneRequestMoves ==
  ASSUME CaptureInv, RowsMove, NEW r \in Requests,
         req' \in [Requests -> Request], \A q \in Requests \ {r} : req'[q] = req[q],
         RequestOK(req'[r]), KnowsStored(req'[r], capture')
  PROVE  RequestsKnow
BY DEF CaptureInv, TypeOK, RowsMove, RowMoves, Knows, RequestOK, KnowsStored, RequestsKnow, Late

LEMMA EndKnows ==
  ASSUME CaptureInv, RowsMove, NEW r \in Requests, End(r)
  PROVE  RequestsKnow
BY EndFacts, OneRequestMoves DEF CaptureInv, RequestOK, KnowsStored, Late

LEMMA UnwindKnows ==
  ASSUME CaptureInv, RowsMove, NEW r \in Requests, req[r].pc # "idle", Unwind(r)
  PROVE  RequestsKnow
BY UnwindFacts, OneRequestMoves DEF CaptureInv, Knows, RequestOK, KnowsStored, Late

\* From a late step to a late step, and from any step to recording a failure.
LEMMA GotoKnows ==
  ASSUME CaptureInv, RowsMove, NEW r \in Requests, NEW step \in Steps, Goto(r, step),
         \/ req[r].pc \in Late /\ step \in Late
         \/ req[r].pc = "choose" /\ step = "insert"
         \/ req[r].pc # "idle" /\ step = "fail"
  PROVE  RequestsKnow
<1>1. RequestOK(req[r]) /\ KnowsStored(req[r], capture)
  BY DEF CaptureInv, Knows
<1>2. /\ req' \in [Requests -> Request]
      /\ \A q \in Requests \ {r} : req'[q] = req[q]
      /\ req'[r].pc = step /\ req'[r].cap = req[r].cap /\ req'[r].row = req[r].row
      /\ req'[r].payload = req[r].payload /\ req'[r].listing = req[r].listing
  BY GotoFacts DEF CaptureInv
<1>3. RequestOK(req'[r])
  BY <1>1, <1>2 DEF RequestOK, Late
<1>4. KnowsStored(req'[r], capture')
  BY <1>1, <1>2 DEF RequestOK, KnowsStored, Late, RowsMove, RowMoves
<1> QED BY <1>2, <1>3, <1>4, OneRequestMoves

\* A request is written as a whole.
LEMMA WholeKnows ==
  ASSUME CaptureInv, RowsMove, NEW r \in Requests, NEW q \in Request,
         req' = [req EXCEPT ![r] = q], RequestOK(q), KnowsStored(q, capture')
  PROVE  RequestsKnow
<1>1. /\ req' \in [Requests -> Request] /\ req'[r] = q
      /\ \A k \in Requests \ {r} : req'[k] = req[k]
  BY DEF CaptureInv, TypeOK
<1> QED BY <1>1, OneRequestMoves

LEMMA SubmitKnows ==
  ASSUME CaptureInv, RowsMove, NEW r \in Requests, NEW c \in Captures, Submit(r, c)
  PROVE  RequestsKnow
<1> DEFINE q == [Idle EXCEPT !.pc = "extract", !.cap = c, !.row = capture[c]]
<1>1. capture[c] \in CaptureRow
  BY DEF CaptureInv, TypeOK
<1>2. q \in Request /\ q.pc = "extract" /\ q.cap = c /\ q.row = capture[c]
  BY <1>1 DEF Request, Idle, Steps
<1>3. req' = [req EXCEPT ![r] = q] /\ capture[c].bound = None
  BY DEF Submit
<1> HIDE DEF q
<1> QED BY <1>2, <1>3, WholeKnows DEF RequestOK, KnowsStored, Late, RowsMove, RowMoves

LEMMA RecoverKnows ==
  ASSUME CaptureInv, RowsMove, NEW r \in Requests, NEW c \in Captures, Recover(r, c)
  PROVE  RequestsKnow
<1>1. PICK step \in Steps :
        /\ ResumesAt(c, step)
        /\ req' = [req EXCEPT ![r] =
             [pc |-> step, cap |-> c, row |-> capture[c], payload |-> capture[c].payload,
              listing |-> capture[c].bound, recovering |-> TRUE]]
  BY DEF Recover
<1> DEFINE q == [pc |-> step, cap |-> c, row |-> capture[c], payload |-> capture[c].payload,
                 listing |-> capture[c].bound, recovering |-> TRUE]
<1>2. /\ capture[c] \in CaptureRow /\ capture[c].bound \in Listings
      /\ capture[c].stored /\ capture[c].payload \in Payloads
  BY DEF CaptureInv, TypeOK, BoundOK, CaptureRow, Recover
<1>3. step \in {"decide", "rewrite", "attach", "receipt"}
  BY <1>1 DEF ResumesAt
<1>4. /\ q \in Request /\ q.pc = step /\ q.cap = c /\ q.listing \in Listings
      /\ q.payload \in Payloads
  BY <1>2 DEF Request
<1> HIDE DEF q
<1>5. RequestOK(q)
  BY <1>3, <1>4 DEF RequestOK, Late
<1>6. KnowsStored(q, capture')
  BY <1>2, <1>4 DEF KnowsStored, RowsMove, RowMoves
<1>7. req' = [req EXCEPT ![r] = q]
  BY <1>1 DEF q
<1> QED BY <1>4, <1>5, <1>6, <1>7, WholeKnows

LEMMA ExtractOkKnows ==
  ASSUME CaptureInv, RowsMove, NEW r \in Requests, NEW p \in Payloads, ExtractOk(r, p)
  PROVE  RequestsKnow
<1> DEFINE fresh == [NoRow EXCEPT !.stored = TRUE, !.payload = p]
           again == [req[r] EXCEPT !.pc = "choose", !.payload = p]
           first == [req[r] EXCEPT !.pc = "choose", !.payload = p, !.row = fresh]
<1>1. /\ req[r] \in Request /\ req[r].cap \in Captures /\ req[r].row.bound = None
      /\ req[r].row.stored => capture[req[r].cap].stored
  BY DEF CaptureInv, TypeOK, Knows, RequestOK, KnowsStored, ExtractOk
<1>2. fresh \in CaptureRow /\ fresh.bound = None /\ fresh.stored
  BY DEF CaptureRow, NoRow
<1>3. CASE End(r)
  BY <1>3, EndKnows
<1>4. CASE req[r].row.stored /\ req' = [req EXCEPT ![r].pc = "choose", ![r].payload = p]
  <2>1. /\ again \in Request /\ again.pc = "choose" /\ again.cap = req[r].cap
        /\ again.payload = p /\ again.row = req[r].row
    BY <1>1 DEF Request, Steps
  <2>2. req' = [req EXCEPT ![r] = again]
    BY <1>4 DEF CaptureInv, TypeOK
  <2>3. capture'[req[r].cap].stored
    BY <1>1, <1>4 DEF RowsMove, RowMoves
  <2> HIDE DEF again
  <2>4. RequestOK(again) /\ KnowsStored(again, capture')
    BY <1>1, <2>1, <2>3 DEF RequestOK, KnowsStored, Late
  <2> QED BY <2>1, <2>2, <2>4, WholeKnows
<1>5. CASE /\ capture' = [capture EXCEPT ![req[r].cap] = fresh]
           /\ req' = [req EXCEPT ![r].pc = "choose", ![r].payload = p, ![r].row = fresh]
  <2>1. /\ first \in Request /\ first.pc = "choose" /\ first.cap = req[r].cap
        /\ first.payload = p /\ first.row = fresh
    BY <1>1, <1>2 DEF Request, Steps
  <2>2. req' = [req EXCEPT ![r] = first]
    BY <1>5 DEF CaptureInv, TypeOK
  <2>3. capture'[req[r].cap].stored
    BY <1>1, <1>2, <1>5 DEF CaptureInv, TypeOK
  <2> HIDE DEF first, fresh
  <2>4. RequestOK(first) /\ KnowsStored(first, capture')
    BY <1>1, <1>2, <2>1, <2>3 DEF RequestOK, KnowsStored, Late
  <2> QED BY <2>1, <2>2, <2>4, WholeKnows
<1> QED BY <1>3, <1>4, <1>5 DEF ExtractOk

LEMMA ChooseListingKnows ==
  ASSUME CaptureInv, RowsMove, NEW r \in Requests, ChooseListing(r)
  PROVE  RequestsKnow
<1>1. /\ req[r] \in Request /\ req[r].cap \in Captures /\ req[r].payload \in Payloads
      /\ capture[req[r].cap].stored /\ req[r].pc = "choose"
  BY DEF CaptureInv, TypeOK, Knows, RequestOK, KnowsStored, ChooseListing
<1>2. CASE Goto(r, "insert")
  BY <1>1, <1>2, GotoKnows DEF Steps
<1>3. ASSUME NEW l \in Listings, NEW step \in {"rewrite", "result"},
             req' = [req EXCEPT ![r].pc = step, ![r].listing = l, ![r].row = NoRow]
      PROVE  RequestsKnow
  <2> DEFINE q == [req[r] EXCEPT !.pc = step, !.listing = l, !.row = NoRow]
  <2>1. /\ q \in Request /\ q.pc = step /\ q.cap = req[r].cap /\ q.payload = req[r].payload
        /\ q.listing = l
    BY <1>1 DEF Request, Steps, CaptureRow, NoRow
  <2>2. req' = [req EXCEPT ![r] = q]
    BY <1>3 DEF CaptureInv, TypeOK
  <2>3. capture'[req[r].cap].stored
    BY <1>1 DEF RowsMove, RowMoves
  <2> HIDE DEF q
  <2>4. RequestOK(q) /\ KnowsStored(q, capture')
    BY <1>1, <2>1, <2>3 DEF RequestOK, KnowsStored, Late
  <2> QED BY <2>1, <2>2, <2>4, WholeKnows
<1>4. \A l \in OfTail(req[r].payload) \cup Matching(req[r].payload) : l \in Listings
  BY DEF OfTail, Matching
<1> QED BY <1>2, <1>3, <1>4 DEF ChooseListing

LEMMA InsertAndBindKnows ==
  ASSUME CaptureInv, RowsMove, NEW r \in Requests, InsertAndBind(r)
  PROVE  RequestsKnow
<1>1. /\ req[r] \in Request /\ req[r].cap \in Captures /\ req[r].payload \in Payloads
      /\ capture[req[r].cap].stored /\ req[r].pc # "idle"
  BY DEF CaptureInv, TypeOK, Knows, RequestOK, KnowsStored, InsertAndBind
<1>2. CASE Unwind(r)
  BY <1>1, <1>2, UnwindKnows
<1>3. ASSUME NEW l \in Listings,
             req' = [req EXCEPT ![r].pc = "links", ![r].listing = l, ![r].row = NoRow]
      PROVE  RequestsKnow
  <2> DEFINE q == [req[r] EXCEPT !.pc = "links", !.listing = l, !.row = NoRow]
  <2>1. /\ q \in Request /\ q.pc = "links" /\ q.cap = req[r].cap /\ q.payload = req[r].payload
        /\ q.listing = l
    BY <1>1 DEF Request, Steps, CaptureRow, NoRow
  <2>2. req' = [req EXCEPT ![r] = q]
    BY <1>3 DEF CaptureInv, TypeOK
  <2>3. capture'[req[r].cap].stored
    BY <1>1 DEF RowsMove, RowMoves
  <2> HIDE DEF q
  <2>4. RequestOK(q) /\ KnowsStored(q, capture')
    BY <1>1, <2>1, <2>3 DEF RequestOK, KnowsStored, Late
  <2> QED BY <2>1, <2>2, <2>4, WholeKnows
<1> QED BY <1>2, <1>3 DEF InsertAndBind

LEMMA FinalizeKnows ==
  ASSUME CaptureInv, RowsMove, NEW r \in Requests, NEW step \in Late, req[r].pc \in Late,
         Finalize(r, step)
  PROVE  RequestsKnow
<1>1. req[r].pc # "idle" /\ step \in Steps
  BY DEF Late, Steps
<1> QED BY <1>1, GotoKnows, EndKnows, UnwindKnows DEF Finalize

\* The steps that only move on, end or give up.
LEMMA PlainKnows ==
  ASSUME CaptureInv, RowsMove, NEW r \in Requests,
         \/ Refused(r) \/ RecordFailure(r) \/ Rewrite(r) \/ ReplaceLinks(r) \/ StageReview(r)
         \/ FinalizeListing(r) \/ WriteResult(r) \/ AttachReview(r) \/ RecordDispositions(r)
         \/ RecordCorrection(r) \/ SettleCorrection(r) \/ WriteReceipt(r) \/ Crash(r)
  PROVE  RequestsKnow
<1>1. CASE Refused(r)
  BY <1>1, GotoKnows, UnwindKnows DEF Refused, Steps
<1>2. CASE RecordFailure(r) \/ WriteReceipt(r) \/ Crash(r)
  BY <1>2, EndKnows DEF RecordFailure, WriteReceipt, Crash
<1>3. CASE Rewrite(r)
  BY <1>3, GotoKnows, UnwindKnows DEF Rewrite, Steps, Late
<1>4. CASE ReplaceLinks(r)
  BY <1>4, GotoKnows, UnwindKnows, EndKnows DEF ReplaceLinks, Steps, Late
<1>5. CASE StageReview(r)
  <2> DEFINE step == IF req[r].payload \in Corrected
                     THEN IF req[r].recovering THEN "attach" ELSE "result"
                     ELSE "finalize"
  <2>1. step \in Steps /\ step \in Late /\ req[r].pc \in Late
    BY <1>5 DEF StageReview, Steps, Late
  <2>2. Goto(r, step) \/ End(r) \/ Unwind(r)
    BY <1>5 DEF StageReview
  <2>3. req[r].pc # "idle"
    BY <1>5 DEF StageReview
  <2> HIDE DEF step
  <2> QED BY <2>1, <2>2, <2>3, GotoKnows, UnwindKnows, EndKnows
<1>6. CASE FinalizeListing(r)
  <2> DEFINE step == IF req[r].recovering THEN "attach" ELSE "result"
  <2>1. step \in Late /\ req[r].pc \in Late /\ Finalize(r, step)
    BY <1>6 DEF FinalizeListing, Late
  <2> HIDE DEF step
  <2> QED BY <2>1, FinalizeKnows
<1>7. CASE WriteResult(r)
  BY <1>7, GotoKnows, EndKnows DEF WriteResult, Steps, Late
<1>8. CASE AttachReview(r)
  BY <1>8, GotoKnows, EndKnows DEF AttachReview, Steps, Late
<1>9. CASE RecordDispositions(r)
  <2> DEFINE step == IF req[r].payload \in Corrected THEN "decide" ELSE "receipt"
  <2>1. step \in Steps /\ step \in Late /\ req[r].pc \in Late
    BY <1>9 DEF RecordDispositions, Steps, Late
  <2>2. Goto(r, step) \/ End(r)
    BY <1>9 DEF RecordDispositions
  <2> HIDE DEF step
  <2> QED BY <2>1, <2>2, GotoKnows, EndKnows
<1>10. CASE RecordCorrection(r)
  BY <1>10, GotoKnows, EndKnows DEF RecordCorrection, Steps, Late
<1>11. CASE SettleCorrection(r)
  <2>1. req[r].pc \in Late /\ "receipt" \in Late
    BY <1>11 DEF SettleCorrection, Late
  <2> QED BY <1>11, <2>1, FinalizeKnows, EndKnows DEF SettleCorrection
<1> QED BY <1>1, <1>2, <1>3, <1>4, <1>5, <1>6, <1>7, <1>8, <1>9, <1>10, <1>11

LEMMA NextKnows ==
  ASSUME CaptureInv, [Next]_vars
  PROVE  RequestsKnow
<1>1. RowsMove
  BY NextRows
<1>2. CASE UNCHANGED req
  BY <1>1, <1>2, RequestsUnchanged
<1>3. CASE Next /\ ~UNCHANGED req
  <2>1. ~Delete /\ \A l \in Listings : ~CheckDelete(l) /\ ~ReviewPublishes(l)
    BY <1>3 DEF Delete, CheckDelete, ReviewPublishes
  <2>2. \/ \E r \in Requests : Continue(r) \/ Refused(r) \/ Crash(r)
        \/ \E r \in Requests, c \in Captures : Submit(r, c) \/ Recover(r, c)
    BY <1>3, <2>1 DEF Next
  <2> QED BY <1>1, <2>2, SubmitKnows, RecoverKnows, ExtractOkKnows, ChooseListingKnows,
             InsertAndBindKnows, PlainKnows DEF Continue
<1> QED BY <1>2, <1>3 DEF vars

-----------------------------------------------------------------------------
(* The listings. *)

\* A corrected page's listing is written over although it is published.
Retakes(r, l, row) ==
  /\ req[r].pc = "rewrite" /\ req[r].listing = l /\ req[r].payload \in Corrected
  /\ row = [listing[l] EXCEPT !.state = "gated", !.url = UrlOf[req[r].cap],
                              !.values = req[r].payload]

\* What a step may make of a listing that stays: it was not deleted, it shows another
\* identity, or comes from behind the gate, only with a decision, and once published it
\* keeps what it says or is retaken.
Moved(l, row) ==
  /\ row \in ListingRow /\ row.state \notin {"unused", "deleted"} /\ row.values \in Payloads
  /\ listing[l].state # "deleted"
  /\ row.state # "gated" =>
       \/ Present(l) /\ listing[l].state # "gated" /\ row.values = listing[l].values
       \/ listing[l].state # "gated" /\ row.values \notin Corrected
       \/ \E c \in Captures : decision'[c] = [listing |-> l, tail |-> TailOf[row.values]]
  /\ listing[l].state = "ready" =>
       \/ /\ row.state \in {"ready", "pending_review"}
          /\ row.values = listing[l].values /\ row.links = listing[l].links
          /\ row.url = listing[l].url
       \/ \E r \in Requests : Retakes(r, l, row)

\* A listing is deleted by the deletion that found it, and only if no receipt names it.
Dropped(l, row) ==
  /\ row = NoListing("deleted") /\ deleting = l /\ deleting' = None
  /\ \A c \in Captures : receipt[c] # None => receipt[c].listing # l

ListingsMove ==
  /\ listing' \in [Listings -> ListingRow]
  /\ \A l \in Listings :
       listing'[l] = listing[l] \/ Moved(l, listing'[l]) \/ Dropped(l, listing'[l])

LEMMA ListingsUnchanged ==
  ASSUME CaptureInv, UNCHANGED listing
  PROVE  ListingsMove
BY DEF CaptureInv, TypeOK, ListingsMove

LEMMA OneListingMoves ==
  ASSUME CaptureInv, NEW l \in Listings, NEW row, listing' = [listing EXCEPT ![l] = row],
         Moved(l, row)
  PROVE  ListingsMove
<1>1. row \in ListingRow
  BY DEF Moved
<1> QED BY <1>1 DEF CaptureInv, TypeOK, ListingsMove

\* A listing that is there.
LEMMA PresentRow ==
  ASSUME CaptureInv, NEW l \in Listings
  PROVE  /\ listing[l] \in ListingRow
         /\ Present(l) => listing[l].values \in Payloads
         /\ Reviewed(l) => Present(l)
BY DEF CaptureInv, TypeOK, FilledOK, Present, Reviewed

\* A state that is written over a listing's row.
LEMMA StateMoves ==
  ASSUME CaptureInv, NEW l \in Listings, Present(l),
         NEW s \in States \ {"unused", "deleted", "gated"},
         listing[l].state = "ready" => s \in {"ready", "pending_review"},
         listing' = [listing EXCEPT ![l].state = s],
         \/ listing[l].state # "gated"
         \/ \E c \in Captures : decision'[c] = [listing |-> l, tail |-> TailNow(l)]
  PROVE  ListingsMove
<1> DEFINE row == [listing[l] EXCEPT !.state = s]
<1>1. /\ row \in ListingRow /\ row.state = s /\ row.values = listing[l].values
      /\ row.links = listing[l].links /\ row.url = listing[l].url
  BY PresentRow DEF ListingRow
<1>2. listing' = [listing EXCEPT ![l] = row]
  OBVIOUS
<1> HIDE DEF row
<1>3. Moved(l, row)
  BY <1>1, PresentRow DEF Moved, TailNow, Present
<1> QED BY <1>2, <1>3, OneListingMoves

LEMMA QuarantinedState ==
  ASSUME NEW l \in Listings
  PROVE  Quarantined(l) \in States \ {"unused", "deleted", "gated"}
BY DEF Quarantined, States

\* What is not held may leave the gate.
LEMMA NotHeld ==
  ASSUME NEW l \in Listings, NEW t, ~Held(l, t), UNCHANGED decision
  PROVE  \/ listing[l].state # "gated"
         \/ \E c \in Captures : decision'[c] = [listing |-> l, tail |-> t]
BY DEF Held, Decided

LEMMA InsertAndBindListings ==
  ASSUME CaptureInv, NEW r \in Requests, InsertAndBind(r)
  PROVE  ListingsMove
<1> DEFINE p == req[r].payload
           u == UrlOf[req[r].cap]
           row == [NoListing(IF p \in Corrected THEN "gated" ELSE "incomplete")
                     EXCEPT !.url = u, !.values = p]
<1>1. p \in Payloads /\ u \in {UrlOf[c] : c \in Captures}
  BY DEF CaptureInv, Knows, RequestOK, InsertAndBind
<1>2. CASE UNCHANGED listing
  BY <1>2, ListingsUnchanged
<1>3. ASSUME NEW l \in Listings, listing[l].state = "unused",
             listing' = [listing EXCEPT ![l] = row]
      PROVE  ListingsMove
  <2>1. /\ row \in ListingRow /\ row.values = p
        /\ row.state = IF p \in Corrected THEN "gated" ELSE "incomplete"
    BY <1>1 DEF ListingRow, NoListing, States
  <2> HIDE DEF row
  <2>2. Moved(l, row)
    BY <1>1, <1>3, <2>1 DEF Moved
  <2> QED BY <1>3, <2>2, OneListingMoves
<1> QED BY <1>2, <1>3 DEF InsertAndBind

LEMMA RewriteListings ==
  ASSUME CaptureInv, NEW r \in Requests, Rewrite(r)
  PROVE  ListingsMove
<1> DEFINE p == req[r].payload
           u == UrlOf[req[r].cap]
           l == req[r].listing
           row == [listing[l] EXCEPT !.state = IF p \in Corrected THEN "gated" ELSE "incomplete",
                                      !.url = u, !.values = p]
<1>1. /\ p \in Payloads /\ u \in {UrlOf[c] : c \in Captures} /\ l \in Listings
      /\ listing[l] \in ListingRow
  BY DEF CaptureInv, TypeOK, Knows, RequestOK, Rewrite, Late
<1>2. CASE UNCHANGED listing
  BY <1>2, ListingsUnchanged
<1>3. CASE /\ Present(l) /\ listing' = [listing EXCEPT ![l] = row]
           /\ p \in Corrected \/ (listing[l].state # "ready" /\ ~Held(l, TailOf[p]))
  <2>1. /\ row \in ListingRow /\ row.values = p
        /\ row.state = IF p \in Corrected THEN "gated" ELSE "incomplete"
    BY <1>1 DEF ListingRow, States
  <2>2. UNCHANGED decision
    BY DEF Rewrite
  <2>3. listing[l].state = "ready" => Retakes(r, l, row)
    BY <1>3 DEF Rewrite, Retakes
  <2> HIDE DEF row, p, l
  <2>4. Moved(l, row)
    BY <1>1, <1>3, <2>1, <2>2, <2>3, NotHeld DEF Moved, Present
  <2> QED BY <1>1, <1>3, <2>4, OneListingMoves
<1> QED BY <1>2, <1>3 DEF Rewrite

LEMMA ReplaceLinksListings ==
  ASSUME CaptureInv, NEW r \in Requests, ReplaceLinks(r)
  PROVE  ListingsMove
<1> DEFINE p == req[r].payload
           l == req[r].listing
           row == [listing[l] EXCEPT !.links = p]
<1>1. p \in Payloads /\ l \in Listings /\ UNCHANGED decision
  BY DEF CaptureInv, Knows, RequestOK, ReplaceLinks, Late
<1>2. CASE UNCHANGED listing
  BY <1>2, ListingsUnchanged
<1>3. CASE /\ Present(l) /\ listing[l].state # "ready"
           /\ listing' = [listing EXCEPT ![l].links = p]
  <2>1. /\ row \in ListingRow /\ row.values = listing[l].values
        /\ row.state = listing[l].state
    BY <1>1, PresentRow DEF ListingRow
  <2>2. listing' = [listing EXCEPT ![l] = row]
    BY <1>3
  <2> HIDE DEF row, p, l
  <2>3. Moved(l, row)
    BY <1>1, <1>3, <2>1, PresentRow DEF Moved, Present
  <2> QED BY <1>1, <2>2, <2>3, OneListingMoves
<1>4. CASE /\ Present(l) /\ ~Untouchable(l)
           /\ listing' = [listing EXCEPT ![l].state = Quarantined(l)]
  <2>1. ~Held(l, TailNow(l)) /\ listing[l].state # "ready"
    BY <1>4 DEF Untouchable
  <2>2. Quarantined(l) \in States \ {"unused", "deleted", "gated"}
    BY <1>1, QuarantinedState
  <2> HIDE DEF l, p
  <2> QED BY <1>1, <1>4, <2>1, <2>2, NotHeld, StateMoves
<1> QED BY <1>2, <1>3, <1>4 DEF ReplaceLinks

LEMMA StageReviewListings ==
  ASSUME CaptureInv, NEW r \in Requests, StageReview(r)
  PROVE  ListingsMove
<1> DEFINE p == req[r].payload
           l == req[r].listing
           cleared == IF listing[l].state = "pending_review" THEN "incomplete"
                      ELSE listing[l].state
           rest == [listing[l] EXCEPT !.review = None, !.state = cleared]
           open == [listing[l] EXCEPT !.review = Unattached,
                      !.state = IF p \in Corrected THEN @ ELSE "pending_review"]
<1>1. p \in Payloads /\ l \in Listings /\ UNCHANGED decision
  BY DEF CaptureInv, Knows, RequestOK, StageReview, Late
<1>2. CASE UNCHANGED listing
  BY <1>2, ListingsUnchanged
<1>3. CASE Present(l) /\ listing' = [listing EXCEPT ![l] = rest]
  <2>1. /\ rest \in ListingRow /\ rest.values = listing[l].values /\ rest.state = cleared
        /\ rest.links = listing[l].links /\ rest.url = listing[l].url
    BY <1>1, PresentRow DEF ListingRow, States
  <2> HIDE DEF rest
  <2>2. Moved(l, rest)
    BY <1>1, <1>3, <2>1, PresentRow DEF Moved, Present
  <2> QED BY <1>1, <1>3, <2>2, OneListingMoves
<1>4. CASE /\ Present(l) /\ listing' = [listing EXCEPT ![l] = open]
           /\ p \in Corrected => listing[l].state = "gated"
           /\ p \notin Corrected => ~Held(l, TailNow(l))
  <2>1. /\ open \in ListingRow /\ open.values = listing[l].values
        /\ open.links = listing[l].links /\ open.url = listing[l].url
        /\ open.state = IF p \in Corrected THEN listing[l].state ELSE "pending_review"
    BY <1>1, PresentRow DEF ListingRow, States
  <2> HIDE DEF open, p, l
  <2>2. Moved(l, open)
    BY <1>1, <1>4, <2>1, PresentRow, NotHeld DEF Moved, Present, TailNow
  <2> QED BY <1>1, <1>4, <2>2, OneListingMoves
<1> QED BY <1>2, <1>3, <1>4 DEF StageReview

LEMMA FinalizeListings ==
  ASSUME CaptureInv, NEW r \in Requests, NEW step, req[r].listing \in Listings,
         Finalize(r, step)
  PROVE  ListingsMove
<1>1. {"pending_review", "ready"} \subseteq States \ {"unused", "deleted", "gated"}
  BY DEF States
<1> QED BY <1>1, ListingsUnchanged, StateMoves, QuarantinedState DEF Finalize

LEMMA AttachReviewListings ==
  ASSUME CaptureInv, NEW r \in Requests, AttachReview(r)
  PROVE  ListingsMove
<1> DEFINE l == req[r].listing
           row == [listing[l] EXCEPT !.review = req[r].cap]
<1>1. req[r].cap \in Captures /\ l \in Listings
  BY DEF CaptureInv, Knows, RequestOK, AttachReview, Late
<1>2. CASE UNCHANGED listing
  BY <1>2, ListingsUnchanged
<1>3. CASE Reviewed(l) /\ listing' = [listing EXCEPT ![l].review = req[r].cap]
  <2>1. /\ row \in ListingRow /\ row.values = listing[l].values /\ row.state = listing[l].state
        /\ row.links = listing[l].links /\ row.url = listing[l].url
    BY <1>1, PresentRow DEF ListingRow
  <2>2. listing' = [listing EXCEPT ![l] = row]
    BY <1>3
  <2> HIDE DEF row, l
  <2>3. Moved(l, row)
    BY <1>1, <1>3, <2>1, PresentRow DEF Moved, Present
  <2> QED BY <1>1, <2>2, <2>3, OneListingMoves
<1> QED BY <1>2, <1>3 DEF AttachReview

LEMMA RecordCorrectionListings ==
  ASSUME CaptureInv, NEW r \in Requests, RecordCorrection(r)
  PROVE  ListingsMove
<1> DEFINE l == req[r].listing
           c == req[r].cap
           s == IF Reviewed(l) THEN "pending_review" ELSE "incomplete"
<1>1. c \in Captures /\ l \in Listings
  BY DEF CaptureInv, Knows, RequestOK, RecordCorrection, Late
<1>2. CASE UNCHANGED listing
  BY <1>2, ListingsUnchanged
<1>3. CASE ~UNCHANGED listing
  <2>1. /\ listing[l].state = "gated" /\ TailNow(l) = TailOf[req[r].payload]
        /\ decision' = [decision EXCEPT ![c] = [listing |-> l, tail |-> TailOf[req[r].payload]]]
        /\ listing' = [listing EXCEPT ![l].state = s]
    BY <1>3 DEF RecordCorrection
  <2>2. s \in States \ {"unused", "deleted", "gated"} /\ Present(l)
    BY <2>1 DEF States, Present
  <2>3. decision'[c] = [listing |-> l, tail |-> TailNow(l)]
    BY <1>1, <2>1 DEF CaptureInv, TypeOK
  <2> HIDE DEF l, s
  <2> QED BY <1>1, <2>1, <2>2, <2>3, StateMoves
<1> QED BY <1>2, <1>3

LEMMA ReviewPublishesListings ==
  ASSUME CaptureInv, NEW l \in Listings, ReviewPublishes(l)
  PROVE  ListingsMove
<1> DEFINE row == [listing[l] EXCEPT !.state = "ready", !.review = None]
<1>1. /\ row \in ListingRow /\ row.values = listing[l].values /\ row.state = "ready"
  BY PresentRow DEF ListingRow, States
<1>2. /\ listing' = [listing EXCEPT ![l] = row]
      /\ Present(l) /\ listing[l].state = "pending_review"
  BY DEF ReviewPublishes, CaptureInv, TypeOK, Present
<1> HIDE DEF row
<1>3. Moved(l, row)
  BY <1>1, <1>2, PresentRow DEF Moved
<1> QED BY <1>2, <1>3, OneListingMoves

LEMMA DeleteListings ==
  ASSUME CaptureInv, Delete
  PROVE  ListingsMove
<1>1. CASE UNCHANGED listing
  BY <1>1, ListingsUnchanged
<1>2. CASE ~UNCHANGED listing
  <2> DEFINE row == NoListing("deleted")
  <2>1. /\ listing' = [listing EXCEPT ![deleting] = row] /\ deleting \in Listings
        /\ \A c \in Captures : receipt[c] # None => receipt[c].listing # deleting
        /\ deleting' = None
    BY <1>2 DEF Delete, CaptureInv, TypeOK
  <2>2. row \in ListingRow /\ Dropped(deleting, row)
    BY <2>1 DEF ListingRow, NoListing, States, Dropped
  <2> HIDE DEF row
  <2> QED BY <2>1, <2>2 DEF CaptureInv, TypeOK, ListingsMove
<1> QED BY <1>1, <1>2

LEMMA NextListings ==
  ASSUME CaptureInv, [Next]_vars
  PROVE  ListingsMove
<1>1. CASE UNCHANGED listing
  BY <1>1, ListingsUnchanged
<1>2. CASE ~UNCHANGED listing
  <2>1. \/ \E r \in Requests : \/ InsertAndBind(r) \/ Rewrite(r) \/ ReplaceLinks(r) \/ StageReview(r)
                              \/ FinalizeListing(r) \/ AttachReview(r) \/ RecordCorrection(r)
                              \/ SettleCorrection(r)
        \/ \E l \in Listings : ReviewPublishes(l)
        \/ Delete
    BY <1>2, ListingWriters
  <2>2. ASSUME NEW r \in Requests, FinalizeListing(r) \/ SettleCorrection(r)
        PROVE  ListingsMove
    <3>1. req[r].listing \in Listings
      BY <2>2 DEF CaptureInv, Knows, RequestOK, FinalizeListing, SettleCorrection, Late
    <3>2. UNCHANGED listing \/ \E step : Finalize(r, step)
      BY <2>2 DEF FinalizeListing, SettleCorrection
    <3> QED BY <3>1, <3>2, FinalizeListings, ListingsUnchanged
  <2> QED BY <2>1, <2>2, InsertAndBindListings, RewriteListings, ReplaceLinksListings,
             StageReviewListings, AttachReviewListings, RecordCorrectionListings,
             ReviewPublishesListings, DeleteListings
<1> QED BY <1>1, <1>2

-----------------------------------------------------------------------------
(* Decisions, dispositions and receipts. *)

\* A decision is recorded once and never changed.
LEMMA DecisionsStay ==
  ASSUME CaptureInv, [Next]_vars
  PROVE  /\ decision' \in [Captures -> [listing : Listings, tail : Tails] \cup {None}]
         /\ \A c \in Captures : decision[c] # None => decision'[c] = decision[c]
<1>1. CASE UNCHANGED decision
  BY <1>1 DEF CaptureInv, TypeOK
<1>2. CASE ~UNCHANGED decision
  <2>1. PICK r \in Requests : RecordCorrection(r)
    BY <1>2, Writers
  <2> DEFINE new == [listing |-> req[r].listing, tail |-> TailOf[req[r].payload]]
  <2>2. /\ decision' = [decision EXCEPT ![req[r].cap] = new] /\ decision[req[r].cap] = None
    BY <1>2, <2>1 DEF RecordCorrection
  <2>3. new \in [listing : Listings, tail : Tails]
    BY <2>1 DEF RecordCorrection, CaptureInv, Knows, RequestOK, Late, Tails
  <2> HIDE DEF new
  <2> QED BY <2>2, <2>3 DEF CaptureInv, TypeOK
<1> QED BY <1>1, <1>2

\* A receipt is written once, for the capture's row and a listing that is there.
LEMMA ReceiptsAreExact ==
  ASSUME CaptureInv, [Next]_vars, NEW c \in Captures, receipt'[c] # None
  PROVE  \/ receipt[c] # None /\ receipt'[c] = receipt[c]
         \/ /\ UNCHANGED <<capture, listing>>
            /\ capture[c].bound \in Listings /\ Present(capture[c].bound)
            /\ capture[c] \in CaptureRow /\ BoundOK(capture[c]) /\ ~capture[c].failed
            /\ receipt'[c] = [listing |-> capture[c].bound, payload |-> capture[c].payload]
<1>1. CASE UNCHANGED receipt
  BY <1>1
<1>2. CASE ~UNCHANGED receipt
  <2>1. PICK r \in Requests : WriteReceipt(r)
    BY <1>2, Writers
  <2> DEFINE d == req[r].cap
  <2>2. /\ UNCHANGED <<capture, listing>> /\ receipt[d] = None
        /\ receipt' = [receipt EXCEPT ![d] =
             [listing |-> capture[d].bound, payload |-> capture[d].payload]]
        /\ ~capture[d].failed /\ capture[d].bound # None
        /\ listing[capture[d].bound].url = UrlOf[d]
    BY <1>2, <2>1 DEF WriteReceipt
  <2>3. d \in Captures
    BY <2>1 DEF CaptureInv, Knows, RequestOK, WriteReceipt
  <2>4. capture[d] \in CaptureRow /\ BoundOK(capture[d]) /\ capture[d].bound \in Listings
    BY <2>2, <2>3 DEF CaptureInv, TypeOK, CaptureRow
  <2>5. Present(capture[d].bound)
    BY <2>2, <2>3, <2>4, NoneIsNoId DEF CaptureInv, FilledOK, Present
  <2> HIDE DEF d
  <2> QED BY <2>2, <2>3, <2>4, <2>5 DEF CaptureInv, TypeOK
<1> QED BY <1>1, <1>2

LEMMA RestIsTyped ==
  ASSUME CaptureInv, [Next]_vars
  PROVE  /\ disposed' \in [Captures -> SUBSET [payload : Payloads, listing : Listings]]
         /\ receipt' \in [Captures -> [listing : Listings, payload : Payloads] \cup {None}]
         /\ deleting' \in Listings \cup {None}
         /\ faults' \in 0..MaxFaults
         /\ extraction' \in [Captures -> SUBSET Payloads]
<1>1. disposed' \in [Captures -> SUBSET [payload : Payloads, listing : Listings]]
  <2>1. CASE UNCHANGED disposed
    BY <2>1 DEF CaptureInv, TypeOK
  <2>2. ASSUME NEW r \in Requests, RecordDispositions(r)
        PROVE  disposed' \in [Captures -> SUBSET [payload : Payloads, listing : Listings]]
    BY <2>2 DEF RecordDispositions, CaptureInv, TypeOK, Knows, RequestOK, Late
  <2>3. ASSUME Delete
        PROVE  disposed' \in [Captures -> SUBSET [payload : Payloads, listing : Listings]]
    BY <2>3 DEF Delete, CaptureInv, TypeOK
  <2> QED BY <2>1, <2>2, <2>3, OtherWriters
<1>2. receipt' \in [Captures -> [listing : Listings, payload : Payloads] \cup {None}]
  <2>1. ASSUME NEW c \in Captures
        PROVE  receipt'[c] \in [listing : Listings, payload : Payloads] \cup {None}
    <3>1. CASE receipt'[c] = None
      BY <3>1
    <3>2. CASE receipt'[c] # None
      <4>1. receipt[c] \in [listing : Listings, payload : Payloads] \cup {None}
        BY DEF CaptureInv, TypeOK
      <4>2. CASE receipt'[c] = receipt[c]
        BY <4>1, <4>2
      <4>3. CASE /\ capture[c].bound \in Listings /\ BoundOK(capture[c])
                 /\ receipt'[c] = [listing |-> capture[c].bound, payload |-> capture[c].payload]
        <5>1. capture[c].payload \in Payloads
          BY <4>3, NoneIsNoId DEF BoundOK
        <5> QED BY <4>3, <5>1
      <4> QED BY <3>2, <4>2, <4>3, ReceiptsAreExact
    <3> QED BY <3>1, <3>2
  <2>2. DOMAIN receipt' = Captures /\ receipt' = [c \in Captures |-> receipt'[c]]
    <3>1. CASE UNCHANGED receipt
      BY <3>1 DEF CaptureInv, TypeOK
    <3>2. ASSUME NEW r \in Requests, WriteReceipt(r)
          PROVE  DOMAIN receipt' = Captures /\ receipt' = [c \in Captures |-> receipt'[c]]
      BY <3>2 DEF WriteReceipt, CaptureInv, TypeOK
    <3> QED BY <3>1, <3>2, Writers
  <2> QED BY <2>1, <2>2
<1>3. deleting' \in Listings \cup {None} /\ extraction' \in [Captures -> SUBSET Payloads]
  <2>1. deleting' \in Listings \cup {None}
    BY OtherWriters DEF CaptureInv, TypeOK, Delete, CheckDelete
  <2> QED BY <2>1, OtherWriters DEF CaptureInv, TypeOK
<1>4. faults' \in 0..MaxFaults
  <2>1. UNCHANGED faults \/ Fault
    BY Writers
  <2> QED BY <2>1, FaultsAreCounted DEF Fault, CaptureInv, TypeOK
<1> QED BY <1>1, <1>2, <1>3, <1>4

-----------------------------------------------------------------------------
(* The invariant. *)

LEMMA InitInv == Init => CaptureInv
<1> SUFFICES ASSUME Init PROVE CaptureInv
  OBVIOUS
<1>1. /\ NoRow \in CaptureRow /\ NoRow.bound = None
      /\ NoListing("unused") \in ListingRow /\ NoListing("unused").state = "unused"
      /\ NoListing("unused").url = None /\ NoListing("unused").review = None
      /\ Idle \in Request /\ Idle.pc = "idle"
  BY DEF NoRow, CaptureRow, NoListing, ListingRow, Idle, Request, Steps, States
<1>2. TypeOK
  BY <1>1, FaultsAreCounted, ExtractionsGivePayloads DEF Init, TypeOK
<1>3. Knows
  BY <1>1 DEF Init, Knows, RequestOK, KnowsStored, Late
<1>4. /\ \A c \in Captures : BoundOK(capture[c])
      /\ \A l \in Listings : FilledOK(listing[l])
  BY <1>1 DEF Init, BoundOK, FilledOK
<1>5. ReceiptExact /\ CorrectionsAreDecided
  <2>1. \A c \in Captures : receipt[c] = None
    BY DEF Init
  <2>2. \A l \in Listings : ~Present(l)
    BY <1>1 DEF Init, Present
  <2> QED BY <2>1, <2>2 DEF ReceiptExact, CorrectionsAreDecided
<1> QED BY <1>2, <1>3, <1>4, <1>5 DEF CaptureInv

LEMMA NextReceipts ==
  ASSUME CaptureInv, [Next]_vars
  PROVE  ReceiptExact'
<1> SUFFICES ASSUME NEW c \in Captures, receipt'[c] # None
             PROVE  /\ listing'[receipt'[c].listing].state \notin {"unused", "deleted"}
                    /\ capture'[c].stored /\ ~capture'[c].failed
                    /\ capture'[c].payload = receipt'[c].payload
                    /\ capture'[c].bound = receipt'[c].listing
  BY DEF ReceiptExact, Present
<1>1. CASE receipt[c] # None /\ receipt'[c] = receipt[c]
  <2>1. PICK l \in Listings : l = receipt[c].listing
    BY <1>1 DEF CaptureInv, TypeOK
  <2>2. /\ Present(l) /\ capture[c].stored /\ ~capture[c].failed
        /\ capture[c].payload = receipt[c].payload /\ capture[c].bound = l
    BY <1>1, <2>1 DEF CaptureInv, ReceiptExact
  <2>3. capture'[c] = capture[c]
    BY <1>1, NextRows DEF RowsMove, RowMoves
  <2>4. listing'[l] = listing[l] \/ Moved(l, listing'[l])
    BY <1>1, <2>1, NextListings DEF ListingsMove, Dropped
  <2>5. listing'[l].state \notin {"unused", "deleted"}
    BY <2>2, <2>4 DEF Moved, Present
  <2> QED BY <1>1, <2>1, <2>2, <2>3, <2>5
<1>2. CASE /\ UNCHANGED <<capture, listing>>
           /\ capture[c].bound \in Listings /\ Present(capture[c].bound)
           /\ capture[c] \in CaptureRow /\ BoundOK(capture[c]) /\ ~capture[c].failed
           /\ receipt'[c] = [listing |-> capture[c].bound, payload |-> capture[c].payload]
  <2>1. capture[c].stored
    BY <1>2, NoneIsNoId DEF BoundOK
  <2> QED BY <1>2, <2>1 DEF Present
<1> QED BY <1>1, <1>2, ReceiptsAreExact

LEMMA NextCorrections ==
  ASSUME CaptureInv, [Next]_vars
  PROVE  CorrectionsAreDecided'
<1> SUFFICES ASSUME NEW l \in Listings, Present(l)', listing'[l].state # "gated",
                    listing'[l].values \in Corrected
             PROVE  \E c \in Captures :
                      decision'[c] = [listing |-> l, tail |-> TailOf[listing'[l].values]]
  BY DEF CorrectionsAreDecided, TailNow
<1>1. CASE /\ Present(l) /\ listing[l].state # "gated"
           /\ listing'[l].values = listing[l].values
  <2>1. PICK c \in Captures : decision[c] = [listing |-> l, tail |-> TailOf[listing[l].values]]
    BY <1>1 DEF CaptureInv, CorrectionsAreDecided, TailNow
  <2>2. decision[c] # None
    BY <2>1, <1>1, PresentRow, NoneIsNoId DEF Tails
  <2> QED BY <1>1, <2>1, <2>2, DecisionsStay
<1>2. CASE \E c \in Captures :
             decision'[c] = [listing |-> l, tail |-> TailOf[listing'[l].values]]
  BY <1>2
<1>3. listing'[l] = listing[l] \/ Moved(l, listing'[l])
  BY NextListings DEF ListingsMove, Dropped, NoListing, Present
<1> QED BY <1>1, <1>2, <1>3 DEF Moved, Present

LEMMA NextInv == CaptureInv /\ [Next]_vars => CaptureInv'
<1> SUFFICES ASSUME CaptureInv, [Next]_vars PROVE CaptureInv'
  OBVIOUS
<1>1. RowsMove /\ RequestsKnow /\ ListingsMove
  BY NextRows, NextKnows, NextListings
<1>2. TypeOK'
  <2>1. decision' \in [Captures -> [listing : Listings, tail : Tails] \cup {None}]
    BY DecisionsStay
  <2> QED BY <1>1, <2>1, RestIsTyped DEF TypeOK, RowsMove, RequestsKnow, ListingsMove
<1>3. \A c \in Captures : BoundOK(capture'[c])
  BY <1>1 DEF RowsMove, RowMoves
<1>4. \A l \in Listings : FilledOK(listing'[l])
  <2> TAKE l \in Listings
  <2>1. CASE listing'[l] = listing[l]
    BY <2>1 DEF CaptureInv
  <2>2. CASE Moved(l, listing'[l])
    BY <2>2 DEF Moved, FilledOK
  <2>3. CASE listing'[l] = NoListing("deleted")
    BY <2>3 DEF NoListing, FilledOK
  <2> QED BY <1>1, <2>1, <2>2, <2>3 DEF ListingsMove, Dropped
<1> QED BY <1>1, <1>2, <1>3, <1>4, NextReceipts, NextCorrections DEF CaptureInv, RequestsKnow

\* CaptureInv holds of every reachable state.
THEOREM CapturesAreConsistent == Spec => []CaptureInv
BY InitInv, NextInv, PTL DEF Spec

\* Type correctness.
THEOREM CaptureTypes == Spec => []TypeOK
BY CapturesAreConsistent, PTL DEF CaptureInv

\* A receipt stays true of its capture and its listing, for any number of captures,
\* listings and requests, and of crashes, failures and deletions.
THEOREM ReceiptsStayExact == Spec => []ReceiptExact
BY CapturesAreConsistent, PTL DEF CaptureInv

\* A corrected identity is shown only with its decision.
THEOREM CorrectionsStayDecided == Spec => []CorrectionsAreDecided
BY CapturesAreConsistent, PTL DEF CaptureInv

\* The gate is left only with a decision.
THEOREM GateHolds == Spec => GateIsKept
<1>1. CaptureInv /\ [Next]_vars =>
        [\A l \in Listings :
           listing[l].state = "gated" /\ listing'[l].state \notin {"gated", "deleted"} =>
             \E c \in Captures :
               decision'[c] = [listing |-> l, tail |-> TailOf[listing'[l].values]]]_vars
  BY NextListings DEF ListingsMove, Moved, Dropped, NoListing
<1> QED BY <1>1, CapturesAreConsistent, PTL DEF Spec, GateIsKept
=============================================================================
