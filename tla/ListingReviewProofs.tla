------------------------- MODULE ListingReviewProofs -------------------------
(***************************************************************************)
(* Proofs about ListingReview.  Most steps are one of two kinds.  A light  *)
(* step leaves the links and the review alone and moves the listing's      *)
(* state, a reader or the ingestion; a review step narrows the review and  *)
(* accounts for every occurrence it takes out.  The invariant is shown     *)
(* once for each kind, and each action is shown to be of its kind; the     *)
(* five remaining actions are taken one by one.                            *)
(***************************************************************************)
EXTENDS ListingReview, TLAPS

States == {"incomplete", "pending_review", "quarantined", "ready"}
Counts == [{"ingests", "stagings", "changes", "faults"} -> Nat]
Links  == [Products -> Link \cup {None}]

\* The products an ingestion matched are still on the listing when it stages its review.
MatchesAreThere ==
  ingest.pc = "stage" => torn /\ ingest.matched \subseteq Linked(link) \cup waived

\* A review covers links that are there.
CoversLinks == ~torn /\ review # None => Covered(review) \subseteq Linked(link)

\* What a page read in this staging says of the review and the links of now: a link came
\* only with an occurrence that is no longer open.
Narrower(b, on) ==
  /\ review.open \subseteq b.open
  /\ on \subseteq Linked(link)
  /\ Linked(link) \ on \subseteq b.open \ review.open

ReaderOK(q) ==
  /\ q.during <= counts.stagings
  /\ q.pc = "decide" => q.bundle # None
  /\ q.pc = "decide" /\ q.during = counts.stagings /\ ~torn /\ review # None =>
       Narrower(q.bundle, q.linked)

\* The inductive invariant.
ReviewInv ==
  /\ TypeOK /\ PublishedIsBacked /\ NothingIsLost
  /\ MatchesAreThere /\ CoversLinks
  /\ \A r \in Reviewers : ReaderOK(reader[r])

-----------------------------------------------------------------------------
(* Links. *)

LEMMA NewLinkIsLink ==
  ASSUME TypeOK, NEW s \in Sources
  PROVE  NewLink(s) \in Link /\ NewLink(s) # None
<1>1. (s = "listing") \in BOOLEAN
  OBVIOUS
<1>2. NewLink(s) \in Link
  BY <1>1 DEF TypeOK, NewLink, Link
<1> QED BY <1>2, NoneIsNoRow DEF Link, Sources

LEMMA LinkIsNotNone == \A k \in Link : k # None
BY NoneIsNoRow DEF Link, Sources

LEMMA ReviewIsNotNone == \A b \in Review : b # None
BY NoneIsNoRow DEF Review

\* The links that need a reviewer again are links.
LEMMA UnbackedFacts ==
  ASSUME NEW k \in Links
  PROVE  /\ Unbacked(k) \in SUBSET (Products \X Nat)
         /\ {c[1] : c \in Unbacked(k)} \subseteq Linked(k)
<1>1. \A p \in Linked(k) : p \in Products /\ k[p].id \in Nat
  BY DEF Links, Linked, Link
<1> QED BY <1>1 DEF Unbacked

-----------------------------------------------------------------------------
(* Light steps. *)

\* What a light step may make of the readers: they end, or have just read.
ReadersGo ==
  /\ reader' \in [Reviewers -> Reader]
  /\ \A r \in Reviewers :
       \/ reader'[r] = reader[r]
       \/ reader'[r].pc # "decide" /\ reader'[r].during <= counts.stagings
       \/ /\ review # None /\ reader'[r].bundle = review
          /\ reader'[r].linked = Linked(link) /\ reader'[r].during = counts.stagings

LightStep ==
  /\ UNCHANGED <<catalog, link, nextId, review, receipt, waived, torn>>
  /\ counts' \in Counts /\ counts'.stagings = counts.stagings
  /\ state' \in States
  /\ state' = "ready" => state = "ready" \/ (review = None /\ AllCurrent)
  /\ ingest' \in Ingest /\ (ingest'.pc = "stage" => ingest' = ingest)
  /\ ReadersGo

LEMMA LightStepInv == ReviewInv /\ LightStep => ReviewInv'
<1> SUFFICES ASSUME ReviewInv, LightStep PROVE ReviewInv'
  OBVIOUS
<1>1. TypeOK'
  BY DEF ReviewInv, TypeOK, LightStep, catalog, States, Counts, ReadersGo
<1>2. PublishedIsBacked'
  BY DEF ReviewInv, PublishedIsBacked, LightStep, catalog, AllCurrent, Current, Linked, Human
<1>3. NothingIsLost' /\ CoversLinks'
  BY DEF ReviewInv, NothingIsLost, Accounted, CoversLinks, Covered, Linked, LightStep
<1>4. MatchesAreThere'
  BY DEF ReviewInv, MatchesAreThere, Linked, LightStep
<1>5. ASSUME NEW r \in Reviewers PROVE ReaderOK(reader[r])'
  <2>0. UNCHANGED <<link, review, torn>> /\ counts'.stagings = counts.stagings
    BY DEF LightStep
  <2>1. CASE reader'[r] = reader[r]
    BY <2>0, <2>1 DEF ReviewInv, ReaderOK, Narrower, Linked
  <2>2. CASE reader'[r].pc # "decide" /\ reader'[r].during <= counts.stagings
    BY <2>0, <2>2 DEF ReaderOK
  <2>3. CASE /\ review # None /\ reader'[r].bundle = review
             /\ reader'[r].linked = Linked(link) /\ reader'[r].during = counts.stagings
    <3>1. counts.stagings \in Nat
      BY DEF ReviewInv, TypeOK
    <3> QED BY <2>0, <2>3, <3>1 DEF ReaderOK, Narrower, Linked
  <2> QED BY <2>1, <2>2, <2>3 DEF LightStep, ReadersGo
<1> QED BY <1>1, <1>2, <1>3, <1>4, <1>5 DEF ReviewInv

LEMMA CountFacts ==
  ASSUME TypeOK, NEW what \in {"ingests", "changes", "faults"}, NEW bound, Count(what, bound)
  PROVE  counts' \in Counts /\ counts'.stagings = counts.stagings
BY DEF TypeOK, Count, Counts

LEMMA IdleReaderIsReader ==
  /\ IdleReader \in Reader /\ IdleReader.pc = "idle" /\ IdleReader.during = 0
BY DEF IdleReader, Reader

\* A reviewer leaves the page.
LEMMA LeavesFacts ==
  ASSUME ReviewInv, NEW r \in Reviewers, NEW done, Leaves(r, done)
  PROVE  /\ ReadersGo
         /\ \A x \in Reviewers :
              reader'[x] = reader[x] \/ (reader'[x].pc # "decide" /\ reader'[x].during = 0)
<1> DEFINE q == [IdleReader EXCEPT !.pc = "finalize"]
<1>1. q \in Reader /\ q.pc = "finalize" /\ q.during = 0
  BY DEF IdleReader, Reader
<1>2. counts.stagings \in Nat /\ reader \in [Reviewers -> Reader]
  BY DEF ReviewInv, TypeOK
<1>3. reader' = [reader EXCEPT ![r] = q] \/ reader' = [reader EXCEPT ![r] = IdleReader]
  BY DEF Leaves
<1> HIDE DEF q
<1> QED BY <1>1, <1>2, <1>3, IdleReaderIsReader DEF ReadersGo

LEMMA EndsFacts ==
  ASSUME ReviewInv, NEW r \in Reviewers, reader' = [reader EXCEPT ![r] = IdleReader]
  PROVE  ReadersGo
<1>1. counts.stagings \in Nat /\ reader \in [Reviewers -> Reader]
  BY DEF ReviewInv, TypeOK
<1> QED BY <1>1, IdleReaderIsReader DEF ReadersGo

LEMMA ReadingFacts ==
  ASSUME ReviewInv, NEW r \in Reviewers, NEW step \in {"publish", "quarantine"},
         Reading(r, step)
  PROVE  ReadersGo
<1> DEFINE q == [reader[r] EXCEPT !.pc = step]
<1>1. reader[r].during <= counts.stagings /\ reader \in [Reviewers -> Reader]
  BY DEF ReviewInv, TypeOK, ReaderOK
<1>2. q \in Reader /\ q.pc # "decide" /\ q.during = reader[r].during
  BY <1>1 DEF Reader
<1>3. reader' = [reader EXCEPT ![r] = q]
  BY DEF Reading
<1> HIDE DEF q
<1> QED BY <1>1, <1>2, <1>3 DEF ReadersGo

LEMMA ReadersStay ==
  ASSUME ReviewInv, UNCHANGED reader
  PROVE  ReadersGo
BY DEF ReviewInv, TypeOK, ReadersGo

LEMMA IngestingFacts ==
  ASSUME TypeOK,
         NEW step \in {"rewrite", "links", "finalize", "mark", "publish", "quarantine"},
         Ingesting(step)
  PROVE  ingest' \in Ingest /\ ingest'.pc = step
BY DEF TypeOK, Ingesting, Ingest

LEMMA IdleIngestIsIngest == IdleIngest \in Ingest /\ IdleIngest.pc = "idle"
BY DEF IdleIngest, Ingest

LEMMA ReadLight == ASSUME ReviewInv, NEW r \in Reviewers, Read(r) PROVE LightStep
<1> DEFINE q == [pc |-> "decide", bundle |-> review, catalog |-> approved,
                 linked |-> Linked(link), during |-> counts.stagings]
<1>1. /\ review # None /\ reader' = [reader EXCEPT ![r] = q]
      /\ UNCHANGED <<catalog, staged, ingest, counts>>
  BY DEF Read
<1>2. /\ q \in Reader /\ q.bundle = review /\ q.linked = Linked(link)
      /\ q.during = counts.stagings
  BY DEF ReviewInv, TypeOK, Reader, Linked
<1>3. reader \in [Reviewers -> Reader]
  BY DEF ReviewInv, TypeOK
<1> HIDE DEF q
<1>4. ReadersGo
  BY <1>1, <1>2, <1>3 DEF ReadersGo
<1> QED BY <1>1, <1>4 DEF LightStep, staged, ReviewInv, TypeOK, States, Counts

LEMMA VerifyLight == ASSUME ReviewInv, NEW r \in Reviewers, Verify(r) PROVE LightStep
<1>1. ReadersGo
  BY LeavesFacts DEF Verify
<1> QED BY <1>1 DEF Verify, LightStep, staged, ReviewInv, TypeOK, States, Counts

LEMMA FinalizeLight == ASSUME ReviewInv, NEW r \in Reviewers, Finalize(r) PROVE LightStep
<1>1. ReadersGo
  BY EndsFacts, ReadingFacts DEF Finalize
<1> QED BY <1>1 DEF Finalize, LightStep, staged, ReviewInv, TypeOK, States, Counts

LEMMA PublishLight == ASSUME ReviewInv, NEW r \in Reviewers, Publish(r) PROVE LightStep
<1>1. ReadersGo
  BY EndsFacts, ReadingFacts DEF Publish
<1>2. UNCHANGED <<catalog, ingest, counts>>
  BY DEF Publish
<1>3. /\ UNCHANGED <<link, nextId, review, receipt, waived, torn>>
      /\ state' = state \/ (state' = "ready" /\ Publishable)
  BY DEF Publish, Published, staged
<1> QED BY <1>1, <1>2, <1>3 DEF LightStep, Publishable, ReviewInv, TypeOK, States, Counts

LEMMA QuarantineLight == ASSUME ReviewInv, NEW r \in Reviewers, Quarantine(r) PROVE LightStep
<1>1. ReadersGo
  BY EndsFacts DEF Quarantine
<1> QED BY <1>1
        DEF Quarantine, Quarantined, LightStep, ReviewInv, TypeOK, States, Counts

LEMMA ResolveLight == ASSUME ReviewInv, Resolve PROVE LightStep
<1>1. ReadersGo
  BY ReadersStay DEF Resolve
<1>2. counts' \in Counts /\ counts'.stagings = counts.stagings
  BY CountFacts DEF Resolve, ReviewInv
<1>3. ingest' \in Ingest /\ ingest'.pc = "rewrite"
  BY DEF Resolve, Ingest, ReviewInv, TypeOK
<1> QED BY <1>1, <1>2, <1>3 DEF Resolve, LightStep, staged, ReviewInv, TypeOK, States

\* The steps of an ingestion that leave the links and the review alone.
LEMMA IngestStepLight ==
  ASSUME ReviewInv, UNCHANGED <<catalog, reader, counts>>,
         UNCHANGED <<link, nextId, review, receipt, waived, torn>>,
         state' \in States, state' = "ready" => state = "ready" \/ Publishable,
         ingest' \in Ingest, ingest'.pc # "stage"
  PROVE  LightStep
<1>1. ReadersGo
  BY ReadersStay
<1> QED BY <1>1 DEF LightStep, ReviewInv, TypeOK, Publishable, Counts

LEMMA IngestLight ==
  ASSUME ReviewInv,
         Rewrite \/ FinalizeIngest \/ MarkPending \/ PublishIngest \/ QuarantineIngest
  PROVE  LightStep
<1>0. TypeOK /\ state \in States
  BY DEF ReviewInv, TypeOK, States
<1>1. CASE Rewrite
  BY <1>0, <1>1, IngestStepLight, IngestingFacts, IdleIngestIsIngest
  DEF Rewrite, IngestStep, States
<1>2. CASE FinalizeIngest
  BY <1>0, <1>2, IngestStepLight, IngestingFacts DEF FinalizeIngest, IngestStep, staged
<1>3. CASE MarkPending
  BY <1>0, <1>3, IngestStepLight, IdleIngestIsIngest DEF MarkPending, IngestStep, States
<1>4. CASE PublishIngest
  BY <1>0, <1>4, IngestStepLight, IdleIngestIsIngest
  DEF PublishIngest, Published, IngestStep, States, staged
<1>5. CASE QuarantineIngest
  BY <1>0, <1>5, IngestStepLight, IdleIngestIsIngest
  DEF QuarantineIngest, Quarantined, IngestStep, States
<1> QED BY <1>1, <1>2, <1>3, <1>4, <1>5

LEMMA CrashLight == ASSUME ReviewInv, Crash PROVE LightStep
<1>1. counts' \in Counts /\ counts'.stagings = counts.stagings
  BY CountFacts DEF Crash, Fault, ReviewInv
<1>2. counts.stagings \in Nat /\ reader \in [Reviewers -> Reader]
  BY DEF ReviewInv, TypeOK
<1>3. ReadersGo
  BY <1>2, IdleReaderIsReader DEF Crash, ReadersGo
<1> QED BY <1>1, <1>3, IdleIngestIsIngest
        DEF Crash, LightStep, staged, ReviewInv, TypeOK, States

-----------------------------------------------------------------------------
(* Review steps. *)

ReadersLeave ==
  /\ reader' \in [Reviewers -> Reader]
  /\ \A r \in Reviewers :
       reader'[r] = reader[r] \/ (reader'[r].pc # "decide" /\ reader'[r].during = 0)

\* What a review step leaves of the review that was there.
Narrows ==
  /\ review'.open \subseteq review.open
  /\ Linked(link) \subseteq Linked(link')
  /\ Linked(link') \ Linked(link) \subseteq review.open \ review'.open
  /\ Covered(review') \subseteq Linked(link')

ReviewStep ==
  /\ UNCHANGED <<attested, torn, ingest, counts>>
  /\ approved \subseteq approved' /\ approved' \subseteq Products
  /\ state' \in States \ {"ready"}
  /\ link' \in Links /\ nextId' \in Nat
  /\ receipt' \in [Products -> {"linked", "discarded", None}] /\ waived' \subseteq Products
  /\ review # None /\ review' \in Review \cup {None}
  /\ Linked(link) \cup waived \subseteq Linked(link') \cup waived'
  /\ \A p \in review.open :
       p \in Linked(link') \cup waived' \/ (review' # None /\ p \in review'.open)
  /\ ~torn /\ review' # None => Narrows
  /\ ReadersLeave

LEMMA ReviewStepInv == ReviewInv /\ ReviewStep => ReviewInv'
<1> SUFFICES ASSUME ReviewInv, ReviewStep PROVE ReviewInv'
  OBVIOUS
<1>1. TypeOK'
  BY DEF ReviewInv, TypeOK, ReviewStep, States, Links, ReadersLeave
<1>2. PublishedIsBacked'
  BY DEF PublishedIsBacked, ReviewStep
<1>3. NothingIsLost'
  <2> SUFFICES ASSUME ~torn, NEW p \in Products PROVE Accounted(p)'
    BY DEF NothingIsLost, ReviewStep
  <2>1. p \in Linked(link) \/ p \in waived \/ p \in review.open
    BY DEF ReviewInv, NothingIsLost, Accounted, Linked
  <2>2. \/ p \in Linked(link') \cup waived'
        \/ review' # None /\ p \in review'.open
    BY <2>1 DEF ReviewStep
  <2> QED BY <2>2 DEF Accounted, Linked
<1>4. CoversLinks'
  BY DEF CoversLinks, ReviewStep, Narrows, Covered, Linked
<1>5. MatchesAreThere'
  BY DEF ReviewInv, MatchesAreThere, ReviewStep, Linked
<1>6. ASSUME NEW r \in Reviewers PROVE ReaderOK(reader[r])'
  <2>0. UNCHANGED <<counts, torn>> /\ counts.stagings \in Nat /\ review # None
    BY DEF ReviewInv, TypeOK, ReviewStep
  <2>1. CASE reader'[r].pc # "decide" /\ reader'[r].during = 0
    BY <2>0, <2>1 DEF ReaderOK
  <2>2. CASE reader'[r] = reader[r]
    <3>1. ReaderOK(reader[r])
      BY DEF ReviewInv
    <3>2. SUFFICES ASSUME reader[r].pc = "decide", reader[r].during = counts.stagings,
                          ~torn, review' # None
                   PROVE  Narrower(reader[r].bundle, reader[r].linked)'
      BY <2>0, <2>2, <3>1 DEF ReaderOK
    <3>3. Narrower(reader[r].bundle, reader[r].linked)
      BY <2>0, <3>1, <3>2 DEF ReaderOK
    <3>4. Narrows
      BY <3>2 DEF ReviewStep
    <3> QED BY <2>2, <3>3, <3>4 DEF Narrower, Narrows, Linked
  <2> QED BY <2>1, <2>2 DEF ReviewStep, ReadersLeave
<1> QED BY <1>1, <1>2, <1>3, <1>4, <1>5, <1>6 DEF ReviewInv

\* A reviewer's review is the one that is pending.
LEMMA SameBundleFacts ==
  ASSUME ReviewInv, NEW r \in Reviewers, SameBundle(r)
  PROVE  /\ review \in Review /\ review # None /\ review = reader[r].bundle
         /\ state = "pending_review"
         /\ review.open \subseteq Products /\ Covered(review) \subseteq Products
<1>1. /\ review # None /\ review = reader[r].bundle /\ state = "pending_review"
  BY DEF ReviewInv, ReaderOK, SameBundle
<1>2. review \in Review
  BY <1>1 DEF ReviewInv, TypeOK
<1> QED BY <1>1, <1>2 DEF Review, Covered

\* Every change of one aspect.
LEMMA RestagedStep ==
  ASSUME ReviewInv, NEW r \in Reviewers, NEW open, NEW k \in Links,
         SameBundle(r), Restaged(r, open, k),
         approved \subseteq approved', approved' \subseteq Products,
         receipt' \in [Products -> {"linked", "discarded", None}],
         waived \subseteq waived', waived' \subseteq Products, nextId' \in Nat,
         open \subseteq review.open, Linked(link) \subseteq Linked(k),
         Linked(k) \ Linked(link) \subseteq review.open \ open,
         review.open \ open \subseteq Linked(k) \cup waived'
  PROVE  ReviewStep
<1> DEFINE left == [open |-> open, covered |-> Unbacked(k)]
<1>1. left.open = open /\ Covered(left) \subseteq Linked(k)
  BY UnbackedFacts DEF Covered
<1>2. left \in Review /\ left # None
  <2>1. open \subseteq Products /\ Unbacked(k) \in SUBSET (Products \X Nat)
    BY SameBundleFacts, UnbackedFacts
  <2>2. left \in Review
    BY <2>1 DEF Review
  <2> QED BY <2>2, ReviewIsNotNone
<1>3. /\ link' = k /\ UNCHANGED <<attested, torn, ingest, counts>>
      /\ \/ open = {} /\ review' = None /\ state' = "incomplete"
         \/ review' = left /\ state' = state
      /\ Leaves(r, TRUE) \/ Leaves(r, FALSE)
  BY DEF Restaged
<1>4. ReadersLeave
  BY <1>3, LeavesFacts DEF ReadersLeave, ReadersGo
<1>5. state' \in States \ {"ready"}
  BY <1>3, SameBundleFacts DEF States
<1>6. /\ review # None /\ review' \in Review \cup {None}
      /\ review' # None => review' = left
      /\ review' = None => open = {}
  BY <1>2, <1>3, SameBundleFacts
<1> HIDE DEF left
<1>7. review' # None => Narrows
  BY <1>1, <1>3, <1>6 DEF Narrows
<1>8. \A p \in review.open :
        p \in Linked(link') \cup waived' \/ (review' # None /\ p \in review'.open)
  BY <1>1, <1>3, <1>6
<1> QED BY <1>3, <1>4, <1>5, <1>6, <1>7, <1>8 DEF ReviewStep

\* One occurrence gets a link.
LEMMA LinkOneFacts ==
  ASSUME ReviewInv, NEW p \in Products, NEW s \in Sources
  PROVE  /\ [link EXCEPT ![p] = NewLink(s)] \in Links
         /\ Linked([link EXCEPT ![p] = NewLink(s)]) = Linked(link) \cup {p}
<1>1. NewLink(s) \in Link /\ NewLink(s) # None /\ link \in [Products -> Link \cup {None}]
  BY NewLinkIsLink DEF ReviewInv, TypeOK
<1> QED BY <1>1 DEF Links, Linked

LEMMA UseExistingStep ==
  ASSUME ReviewInv, NEW r \in Reviewers, NEW p \in Products,
         UseExisting(r, p) \/ CreateForAspect(r, p)
  PROVE  ReviewStep
<1> DEFINE k == [link EXCEPT ![p] = NewLink("human_review")]
<1>1. /\ SameBundle(r) /\ p \in review.open
      /\ Restaged(r, review.open \ {p}, k) /\ nextId' = nextId + 1
      /\ UNCHANGED <<receipt, waived>>
      /\ approved' = approved \/ approved' = approved \cup {p}
  BY DEF UseExisting, CreateForAspect, OnAspect
<1>2. k \in Links /\ Linked(k) = Linked(link) \cup {p}
  BY LinkOneFacts DEF Sources
<1>3. TypeOK
  BY DEF ReviewInv
<1> HIDE DEF k
<1> QED BY <1>1, <1>2, <1>3, RestagedStep DEF TypeOK

LEMMA ApproveLocallyStep ==
  ASSUME ReviewInv, NEW r \in Reviewers, NEW p \in Products, ApproveLocally(r, p)
  PROVE  ReviewStep
<1> DEFINE k == [link EXCEPT ![p] = NewLink("listing_review")]
<1>1. /\ SameBundle(r) /\ p \in review.open
      /\ Restaged(r, review.open \ {p}, k) /\ nextId' = nextId + 1
      /\ UNCHANGED <<approved, receipt, waived>>
  BY DEF ApproveLocally, OnAspect
<1>2. k \in Links /\ Linked(k) = Linked(link) \cup {p}
  BY LinkOneFacts DEF Sources
<1>3. TypeOK
  BY DEF ReviewInv
<1> HIDE DEF k
<1> QED BY <1>1, <1>2, <1>3, RestagedStep DEF TypeOK

LEMMA DiscardAspectStep ==
  ASSUME ReviewInv, NEW r \in Reviewers, NEW p \in Products, DiscardAspect(r, p)
  PROVE  ReviewStep
<1>1. TypeOK /\ link \in Links
  BY DEF ReviewInv, TypeOK, Links
<1>2. /\ receipt' \in [Products -> {"linked", "discarded", None}]
      /\ waived' = waived \cup {p} /\ approved' = approved /\ nextId' = nextId
      /\ SameBundle(r) /\ Restaged(r, review.open \ {p}, link)
  BY <1>1 DEF DiscardAspect, TypeOK
<1> QED BY <1>1, <1>2, RestagedStep DEF TypeOK

LEMMA CorroborateStep ==
  ASSUME ReviewInv, NEW r \in Reviewers, NEW p \in Products, Corroborate(r, p)
  PROVE  ReviewStep
<1> DEFINE k == [link EXCEPT ![p].authorized = TRUE]
<1>1. /\ SameBundle(r) /\ Restaged(r, review.open, k)
      /\ UNCHANGED <<approved, nextId, receipt, waived>>
      /\ p \in Covered(review) /\ CoveredCurrent(review)
  BY DEF Corroborate, OnAspect
<1>2. TypeOK /\ link \in Links
  BY DEF ReviewInv, TypeOK, Links
<1>3. link[p] \in Link
  BY <1>1, <1>2 DEF Covered, CoveredCurrent, Links
<1>4. k \in Links /\ Linked(k) = Linked(link)
  <2> DEFINE row == [link[p] EXCEPT !.authorized = TRUE]
  <2>1. row \in Link
    BY <1>3 DEF Link
  <2>2. k = [link EXCEPT ![p] = row]
    OBVIOUS
  <2> HIDE DEF row, k
  <2> QED BY <1>2, <1>3, <2>1, <2>2, LinkIsNotNone DEF Links, Linked
<1> HIDE DEF k
<1> QED BY <1>1, <1>2, <1>4, RestagedStep DEF TypeOK

LEMMA RestageStep ==
  ASSUME ReviewInv, NEW r \in Reviewers, Restage(r)
  PROVE  ReviewStep
<1>1. TypeOK /\ link \in Links
  BY DEF ReviewInv, TypeOK, Links
<1> QED BY <1>1, RestagedStep DEF Restage, TypeOK

LEMMA DecideStep ==
  ASSUME ReviewInv, NEW r \in Reviewers,
         NEW use \in SUBSET Products, NEW create \in SUBSET Products, Decide(r, use, create)
  PROVE  ReviewStep
<1> DEFINE b == reader[r].bundle
           accepted == use \cup create
           kept == Linked(link) \ Covered(b)
           row(p) == [link[p] EXCEPT !.id = nextId, !.authorized = FALSE]
           k == [p \in Products |-> IF p \in kept THEN row(p)
                                    ELSE IF p \in accepted THEN NewLink("human_review")
                                    ELSE None]
<1>1. /\ SameBundle(r) /\ accepted \subseteq b.open
      /\ link' = k /\ nextId' = nextId + 1
      /\ waived' = waived \cup (Aspects(b) \ accepted)
      /\ approved' = approved \cup create
      /\ review' = None /\ state' = "incomplete"
      /\ Leaves(r, TRUE) \/ Leaves(r, FALSE)
      /\ UNCHANGED <<attested, torn, ingest, counts>>
  BY DEF Decide
<1>2. receipt' \in [Products -> {"linked", "discarded", None}]
  <2>1. receipt' = [p \in Products |-> IF p \notin b.open THEN receipt[p]
                                       ELSE IF p \in accepted THEN "linked" ELSE "discarded"]
    BY DEF Decide
  <2> HIDE DEF b, accepted
  <2> QED BY <2>1 DEF ReviewInv, TypeOK
<1>3. /\ review = b /\ review # None
      /\ b.open \subseteq Products /\ Covered(b) \subseteq Products
  BY <1>1, SameBundleFacts
<1>4. TypeOK /\ link \in [Products -> Link \cup {None}] /\ nextId \in Nat
  BY DEF ReviewInv, TypeOK
<1>5. NewLink("human_review") \in Link /\ NewLink("human_review") # None
  BY <1>4, NewLinkIsLink DEF Sources
<1>6. \A p \in kept : p \in Products /\ row(p) \in Link
  <2>1. \A p \in kept : p \in Products /\ link[p] \in Link
    BY <1>4 DEF Linked
  <2> QED BY <1>4, <2>1 DEF Link
<1>7. k \in Links /\ Linked(k) = kept \cup (accepted \cap Products)
  <2> HIDE DEF row, kept, accepted
  <2> QED BY <1>5, <1>6, LinkIsNotNone DEF Links, Linked
<1>8. accepted \subseteq Products
  BY <1>1, <1>3
<1>9. Linked(link) \subseteq Linked(k) \cup (Aspects(b) \ accepted)
  <2> HIDE DEF b, accepted, k
  <2> QED BY <1>7, <1>8 DEF Aspects
<1>10. b.open \subseteq Linked(k) \cup (Aspects(b) \ accepted)
  <2> HIDE DEF b, accepted, k
  <2> QED BY <1>7, <1>8 DEF Aspects
<1>11. Aspects(b) \subseteq Products
  BY <1>3 DEF Aspects
<1>12. ReadersLeave
  BY <1>1, LeavesFacts DEF ReadersLeave, ReadersGo
<1> HIDE DEF b, accepted, kept, k
<1> QED BY <1>1, <1>2, <1>3, <1>4, <1>7, <1>9, <1>10, <1>11, <1>12
        DEF ReviewStep, TypeOK, States

LEMMA AutomateStep ==
  ASSUME ReviewInv, NEW r \in Reviewers, NEW A \in SUBSET Products, Automate(r, A)
  PROVE  ReviewStep
<1> DEFINE left == [open |-> review.open \ A,
                    covered |-> {c \in review.covered : c[1] \notin A}]
           row(p) == [link[p] EXCEPT !.authorized = TRUE]
           k == [p \in Products |->
                   IF p \notin A THEN link[p]
                   ELSE IF link[p] # None /\ link[p].source = "listing" THEN row(p)
                   ELSE NewLink("listing")]
<1>1. /\ SameBundle(r) /\ A \subseteq Aspects(review)
      /\ link' = k /\ nextId' = nextId + 1
      /\ \/ left.open = {} /\ review' = None /\ state' = "incomplete"
         \/ review' = left /\ state' = state
      /\ Leaves(r, TRUE) \/ Leaves(r, FALSE)
      /\ UNCHANGED <<catalog, receipt, waived, torn, ingest, counts>>
  BY DEF Automate
<1>2. /\ review \in Review /\ review # None /\ state = "pending_review"
  BY <1>1, SameBundleFacts
<1>3. TypeOK /\ link \in [Products -> Link \cup {None}] /\ nextId \in Nat
  BY DEF ReviewInv, TypeOK
<1>4. NewLink("listing") \in Link /\ NewLink("listing") # None
  BY <1>3, NewLinkIsLink DEF Sources
<1>5. \A p \in Products : link[p] # None => row(p) \in Link
  BY <1>3 DEF Link
<1>6. k \in Links /\ Linked(k) = Linked(link) \cup A
  <2> HIDE DEF row
  <2> QED BY <1>3, <1>4, <1>5, LinkIsNotNone DEF Links, Linked
<1>7. /\ left \in Review /\ left # None
      /\ left.open = review.open \ A /\ Covered(left) = Covered(review) \ A
  <2>1. left \in Review
    BY <1>2 DEF Review
  <2>2. Covered(left) = Covered(review) \ A
    BY DEF Covered
  <2> QED BY <2>1, <2>2, ReviewIsNotNone
<1> HIDE DEF left, k
<1>8. ~torn => A \ Linked(link) \subseteq review.open /\ Covered(left) \subseteq Linked(link)
  <2>1. ~torn => Covered(review) \subseteq Linked(link)
    BY <1>2 DEF ReviewInv, CoversLinks
  <2> QED BY <1>1, <1>7, <2>1 DEF Aspects
<1>9. ~torn /\ review' # None => Narrows
  <2> SUFFICES ASSUME ~torn, review' # None PROVE Narrows
    OBVIOUS
  <2>1. review' = left /\ link' = k
    BY <1>1
  <2>2. Linked(link') \ Linked(link) \subseteq review.open \ review'.open
    BY <1>6, <1>7, <1>8, <2>1
  <2> QED BY <1>6, <1>7, <1>8, <2>1, <2>2 DEF Narrows
<1>10. ReadersLeave
  BY <1>1, LeavesFacts DEF ReadersLeave, ReadersGo
<1>11. state' \in States \ {"ready"} /\ review' \in Review \cup {None}
  BY <1>1, <1>2, <1>7 DEF States
<1>12. \A p \in review.open :
         p \in Linked(link') \cup waived' \/ (review' # None /\ p \in review'.open)
  BY <1>1, <1>6, <1>7
<1> QED BY <1>1, <1>2, <1>3, <1>6, <1>9, <1>10, <1>11, <1>12
        DEF ReviewStep, TypeOK, catalog

\* Whatever a reviewer does with the review at hand.
LEMMA ReviewingStep ==
  ASSUME ReviewInv, NEW r \in Reviewers, Reviewing(r) \/ Restage(r)
  PROVE  ReviewStep
<1>1. CASE \E use, create \in SUBSET Products : Decide(r, use, create)
  BY <1>1, DecideStep
<1>2. CASE \E p \in Products : \/ UseExisting(r, p)
                               \/ CreateForAspect(r, p)
                               \/ ApproveLocally(r, p)
                               \/ DiscardAspect(r, p)
                               \/ Corroborate(r, p)
  BY <1>2, UseExistingStep, ApproveLocallyStep, DiscardAspectStep, CorroborateStep
<1>3. CASE \E A \in SUBSET Products : Automate(r, A)
  BY <1>3, AutomateStep
<1>4. CASE Restage(r)
  BY <1>4, RestageStep
<1> QED BY <1>1, <1>2, <1>3, <1>4 DEF Reviewing

-----------------------------------------------------------------------------
(* The five actions that are neither. *)

\* The readers keep what they have read; it stays good while the review and the links do.
LEMMA ReadersStayOK ==
  ASSUME ReviewInv, UNCHANGED reader, counts'.stagings \in Nat,
         \/ torn' \/ review' = None
         \/ counts'.stagings > counts.stagings
         \/ /\ counts'.stagings = counts.stagings
            /\ torn' = torn /\ review' = review /\ Linked(link') = Linked(link),
         counts'.stagings >= counts.stagings
  PROVE  \A r \in Reviewers : ReaderOK(reader[r])'
<1> SUFFICES ASSUME NEW r \in Reviewers PROVE ReaderOK(reader[r])'
  OBVIOUS
<1>1. /\ ReaderOK(reader[r]) /\ reader[r].during \in Nat /\ counts.stagings \in Nat
      /\ reader'[r] = reader[r]
  BY DEF ReviewInv, TypeOK, Reader, Counts
<1>2. reader'[r].during <= counts'.stagings
  BY <1>1 DEF ReaderOK
<1>3. CASE torn' \/ review' = None
  BY <1>1, <1>2, <1>3 DEF ReaderOK
<1>4. CASE counts'.stagings > counts.stagings
  BY <1>1, <1>2, <1>4 DEF ReaderOK
<1>5. CASE /\ counts'.stagings = counts.stagings
           /\ torn' = torn /\ review' = review /\ Linked(link') = Linked(link)
  BY <1>1, <1>2, <1>5 DEF ReaderOK, Narrower, Linked
<1> QED BY <1>3, <1>4, <1>5

LEMMA ReplaceLinksInv == ReviewInv /\ ReplaceLinks => ReviewInv'
<1> SUFFICES ASSUME ReviewInv, ReplaceLinks PROVE ReviewInv'
  OBVIOUS
<1> DEFINE k == [p \in Products |-> IF p \in ingest.matched THEN NewLink("listing") ELSE None]
<1>0. /\ TypeOK /\ UNCHANGED <<state, review, receipt, catalog, reader, counts>>
      /\ counts.stagings \in Nat /\ ingest.matched \subseteq Products
  BY DEF ReviewInv, TypeOK, ReplaceLinks, IngestStep, Ingest
<1>1. CASE Ingesting("quarantine") /\ UNCHANGED <<link, nextId, waived, torn>>
  <2>1. ingest' \in Ingest /\ ingest'.pc # "stage"
    BY <1>0, <1>1, IngestingFacts
  <2>2. state' \in States
    BY <1>0 DEF TypeOK, States
  <2> QED BY <1>0, <1>1, <2>1, <2>2, IngestStepLight, LightStepInv
<1>2. CASE /\ state # "ready" /\ link' = k /\ nextId' = nextId + 1
           /\ waived' = {} /\ torn' = TRUE /\ Ingesting("stage")
  <2>1. ingest' \in Ingest /\ ingest'.matched = ingest.matched
    BY <1>0, <1>2 DEF TypeOK, Ingesting, Ingest
  <2>2. NewLink("listing") \in Link /\ NewLink("listing") # None
    BY <1>0, NewLinkIsLink DEF Sources
  <2>3. k \in Links /\ Linked(k) = ingest.matched
    BY <1>0, <2>2 DEF Links, Linked
  <2> HIDE DEF k
  <2>4. TypeOK'
    BY <1>0, <1>2, <2>1, <2>3 DEF TypeOK, Links, catalog
  <2>5. MatchesAreThere'
    BY <1>2, <2>1, <2>3 DEF MatchesAreThere, Linked
  <2>6. \A r \in Reviewers : ReaderOK(reader[r])'
    BY <1>0, <1>2, ReadersStayOK
  <2> QED BY <1>0, <1>2, <2>4, <2>5, <2>6
          DEF ReviewInv, PublishedIsBacked, NothingIsLost, CoversLinks
<1> QED BY <1>1, <1>2 DEF ReplaceLinks

LEMMA StageReviewInv == ReviewInv /\ StageReview => ReviewInv'
<1> SUFFICES ASSUME ReviewInv, StageReview PROVE ReviewInv'
  OBVIOUS
<1> DEFINE open == Products \ ingest.matched
           b == [open |-> open, covered |-> {}]
<1>1. /\ ingest.pc = "stage" /\ torn' = FALSE
      /\ \/ open = {} /\ review' = None /\ state' = state
         \/ review' = b /\ state' = "pending_review"
      /\ counts' = [counts EXCEPT !.stagings = @ + 1] /\ Ingesting("finalize")
      /\ UNCHANGED <<catalog, link, nextId, receipt, waived, reader>>
  BY DEF StageReview
<1>2. /\ TypeOK /\ counts.stagings \in Nat
      /\ counts' \in Counts /\ counts'.stagings = counts.stagings + 1
  BY <1>1 DEF ReviewInv, TypeOK, Counts
<1>3. /\ b \in Review /\ b # None /\ b.open = open /\ Covered(b) = {}
  <2>1. b \in Review
    BY DEF Review
  <2> QED BY <2>1, ReviewIsNotNone DEF Covered
<1>4. ingest' \in Ingest /\ ingest'.pc = "finalize"
  BY <1>1, <1>2, IngestingFacts
<1>5. ingest.matched \subseteq Linked(link) \cup waived
  BY <1>1 DEF ReviewInv, MatchesAreThere
<1> HIDE DEF b
<1>6. TypeOK'
  BY <1>1, <1>2, <1>3, <1>4 DEF TypeOK, catalog, Counts
<1>7. PublishedIsBacked'
  BY <1>1 DEF ReviewInv, PublishedIsBacked, AllCurrent, Current, Linked, Human, catalog
<1>8. NothingIsLost'
  <2> SUFFICES ASSUME NEW p \in Products PROVE Accounted(p)'
    BY DEF NothingIsLost
  <2>1. CASE p \in ingest.matched
    BY <1>1, <1>5, <2>1 DEF Accounted, Linked
  <2>2. CASE p \in open
    BY <1>1, <1>3, <2>2 DEF Accounted
  <2> QED BY <2>1, <2>2
<1>9. CoversLinks'
  BY <1>1, <1>3 DEF CoversLinks, Covered
<1>10. MatchesAreThere'
  BY <1>4 DEF MatchesAreThere
<1>11. \A r \in Reviewers : ReaderOK(reader[r])'
  BY <1>1, <1>2, ReadersStayOK
<1> QED BY <1>6, <1>7, <1>8, <1>9, <1>10, <1>11 DEF ReviewInv

LEMMA StageFailsInv == ReviewInv /\ StageFails => ReviewInv'
<1> SUFFICES ASSUME ReviewInv, StageFails PROVE ReviewInv'
  OBVIOUS
<1>1. /\ ingest.pc = "stage" /\ review' = None /\ Ingesting("quarantine")
      /\ UNCHANGED <<catalog, state, link, nextId, receipt, waived, torn, reader>>
  BY DEF StageFails
<1>2. /\ TypeOK /\ counts.stagings \in Nat
      /\ counts' \in Counts /\ counts'.stagings = counts.stagings
  BY CountFacts DEF ReviewInv, TypeOK, StageFails, Fault
<1>3. ingest' \in Ingest /\ ingest'.pc = "quarantine"
  BY <1>1, <1>2, IngestingFacts
<1>4. TypeOK'
  BY <1>1, <1>2, <1>3 DEF TypeOK, catalog, Counts
<1>5. PublishedIsBacked'
  BY <1>1 DEF ReviewInv, PublishedIsBacked, AllCurrent, Current, Linked, Human, catalog
<1>6. torn'
  BY <1>1 DEF ReviewInv, MatchesAreThere
<1>7. \A r \in Reviewers : ReaderOK(reader[r])'
  BY <1>1, <1>2, ReadersStayOK
<1> QED BY <1>1, <1>3, <1>4, <1>5, <1>6, <1>7
        DEF ReviewInv, NothingIsLost, CoversLinks, MatchesAreThere

\* A change of the catalog takes no link away.
LEMMA CatalogInv ==
  ASSUME ReviewInv, TypeOK', PublishedIsBacked', Linked(link') = Linked(link),
         UNCHANGED <<review, waived, torn, reader, ingest>>,
         counts'.stagings = counts.stagings
  PROVE  ReviewInv'
<1>1. counts'.stagings \in Nat
  BY DEF ReviewInv, TypeOK
<1>2. \A r \in Reviewers : ReaderOK(reader[r])'
  BY <1>1, ReadersStayOK DEF ReviewInv, TypeOK
<1>3. NothingIsLost'
  <2>1. \A p \in Products : link[p] # None <=> link'[p] # None
    BY DEF Linked
  <2> QED BY <2>1 DEF ReviewInv, NothingIsLost, Accounted
<1>4. CoversLinks' /\ MatchesAreThere'
  BY DEF ReviewInv, CoversLinks, MatchesAreThere, Covered, Linked
<1> QED BY <1>2, <1>3, <1>4 DEF ReviewInv

\* Dropping authorization rows takes no link away, and keeps a published listing only if
\* it had none of them.
LEMMA DropsRowsFacts ==
  ASSUME ReviewInv, NEW p \in Products, DropsRows(p)
  PROVE  /\ link' \in Links /\ Linked(link') = Linked(link) /\ state' \in States
         /\ UNCHANGED <<nextId, review, receipt, waived, torn>>
         /\ state' = "ready" =>
              /\ state = "ready" /\ link' = link
              /\ p \in Linked(link) => link[p].authorized = FALSE
<1> DEFINE row == [link[p] EXCEPT !.authorized = FALSE]
<1>1. /\ link' = [q \in Products |-> IF q = p /\ link[q] # None THEN row ELSE link[q]]
      /\ state' = IF state = "ready" /\ link' # link THEN "quarantined" ELSE state
      /\ UNCHANGED <<nextId, review, receipt, waived, torn>>
  BY DEF DropsRows
<1>2. link \in [Products -> Link \cup {None}] /\ state \in States
  BY DEF ReviewInv, TypeOK, States
<1>3. link[p] # None => row \in Link /\ row # None /\ row.authorized = FALSE
  <2>1. link[p] # None => link[p] \in Link
    BY <1>2
  <2> QED BY <2>1, LinkIsNotNone DEF Link
<1> HIDE DEF row
<1>4. link' \in Links /\ Linked(link') = Linked(link)
  BY <1>1, <1>2, <1>3 DEF Links, Linked
<1>5. state' \in States
  BY <1>1, <1>2 DEF States
<1>6. ASSUME state' = "ready"
      PROVE  /\ state = "ready" /\ link' = link
             /\ p \in Linked(link) => link[p].authorized = FALSE
  <2>1. state = "ready" /\ link' = link
    BY <1>1, <1>6
  <2>2. p \in Linked(link) => link[p] = row
    BY <1>1, <2>1 DEF Linked
  <2> QED BY <1>3, <2>1, <2>2 DEF Linked
<1> QED BY <1>1, <1>4, <1>5, <1>6

LEMMA AttestInv == ReviewInv /\ (\E p \in Products : Attest(p)) => ReviewInv'
<1> SUFFICES ASSUME ReviewInv, NEW p \in Products, Attest(p) PROVE ReviewInv'
  OBVIOUS
<1>1. /\ attested' = attested \cup {p} /\ p \in approved /\ DropsRows(p)
      /\ UNCHANGED <<approved, reader, ingest>>
      /\ counts' \in Counts /\ counts'.stagings = counts.stagings
  BY CountFacts DEF Attest, ReviewInv
<1>2. TypeOK'
  BY <1>1, DropsRowsFacts DEF ReviewInv, TypeOK, Counts, Links, States
<1>3. PublishedIsBacked'
  <2> SUFFICES ASSUME state' = "ready" PROVE review' = None /\ AllCurrent'
    BY DEF PublishedIsBacked
  <2>1. state = "ready" /\ link' = link /\ review' = review
    BY <1>1, DropsRowsFacts
  <2>2. review = None /\ AllCurrent
    BY <2>1 DEF ReviewInv, PublishedIsBacked
  <2> QED BY <1>1, <2>1, <2>2 DEF AllCurrent, Current, Linked, Human
<1> QED BY <1>1, <1>2, <1>3, DropsRowsFacts, CatalogInv

LEMMA WithdrawInv == ReviewInv /\ (\E p \in Products : Withdraw(p)) => ReviewInv'
<1> SUFFICES ASSUME ReviewInv, NEW p \in Products, Withdraw(p) PROVE ReviewInv'
  OBVIOUS
<1>1. /\ attested' = attested \ {p} /\ DropsRows(p)
      /\ UNCHANGED <<approved, reader, ingest>>
      /\ counts' \in Counts /\ counts'.stagings = counts.stagings
  BY CountFacts DEF Withdraw, ReviewInv
<1>2. TypeOK'
  BY <1>1, DropsRowsFacts DEF ReviewInv, TypeOK, Counts, Links, States
<1>3. PublishedIsBacked'
  <2> SUFFICES ASSUME state' = "ready" PROVE review' = None /\ AllCurrent'
    BY DEF PublishedIsBacked
  <2>1. /\ state = "ready" /\ link' = link /\ review' = review
        /\ p \in Linked(link) => link[p].authorized = FALSE
    BY <1>1, DropsRowsFacts
  <2>2. review = None /\ AllCurrent
    BY <2>1 DEF ReviewInv, PublishedIsBacked
  <2>3. \A q \in Linked(link) : q \in Human(link) \/ (link[q].authorized /\ q \in attested)
    BY <2>2 DEF AllCurrent, Current
  <2>4. \A q \in Linked(link) : q \in Human(link) \/ (link[q].authorized /\ q \in attested')
    BY <1>1, <2>1, <2>3
  <2>5. Linked(link) = Current(link)'
    BY <2>1, <2>4 DEF Current, Human, Linked
  <2> QED BY <2>1, <2>2, <2>5 DEF AllCurrent, Linked
<1> QED BY <1>1, <1>2, <1>3, DropsRowsFacts, CatalogInv

-----------------------------------------------------------------------------
(* Every step. *)

LEMMA InitInv == Init => ReviewInv
<1> SUFFICES ASSUME Init PROVE ReviewInv
  OBVIOUS
<1>1. TypeOK
  <2>1. approved \subseteq Products /\ attested \subseteq approved
    BY CatalogsAreSound DEF Init
  <2>2. IdleReader \in Reader /\ IdleIngest \in Ingest
    BY IdleReaderIsReader, IdleIngestIsIngest
  <2> QED BY <2>1, <2>2 DEF Init, TypeOK
<1>2. \A r \in Reviewers : ReaderOK(reader[r])
  BY IdleReaderIsReader DEF Init, ReaderOK
<1> QED BY <1>1, <1>2, IdleIngestIsIngest
        DEF Init, ReviewInv, PublishedIsBacked, NothingIsLost, MatchesAreThere, CoversLinks

LEMMA NextInv == ReviewInv /\ [Next]_vars => ReviewInv'
<1> SUFFICES ASSUME ReviewInv, [Next]_vars PROVE ReviewInv'
  OBVIOUS
<1>1. ASSUME NEW r \in Reviewers, Reviewing(r) \/ Restage(r) PROVE ReviewInv'
  BY <1>1, ReviewingStep, ReviewStepInv
<1>2. ASSUME NEW r \in Reviewers, Read(r) \/ Verify(r) \/ Finalizing(r) PROVE ReviewInv'
  BY <1>2, ReadLight, VerifyLight, FinalizeLight, PublishLight, QuarantineLight, LightStepInv
  DEF Finalizing
<1>3. CASE Resolve \/ IngestGoesOn \/ StageFails
  BY <1>3, ResolveLight, IngestLight, LightStepInv, ReplaceLinksInv, StageReviewInv,
     StageFailsInv DEF IngestGoesOn
<1>4. CASE (\E p \in Products : Attest(p) \/ Withdraw(p)) \/ Crash
  BY <1>4, AttestInv, WithdrawInv, CrashLight, LightStepInv
<1>5. CASE UNCHANGED vars
  <2>1. LightStep
    BY <1>5, ReadersStay
    DEF vars, staged, LightStep, ReviewInv, TypeOK, States, Counts
  <2> QED BY <2>1, LightStepInv
<1> QED BY <1>1, <1>2, <1>3, <1>4, <1>5 DEF Next

\* ReviewInv holds of every reachable state.
THEOREM ReviewsAreConsistent == Spec => []ReviewInv
BY InitInv, NextInv, PTL DEF Spec

\* Type correctness.
THEOREM ReviewTypes == Spec => []TypeOK
BY ReviewsAreConsistent, PTL DEF ReviewInv

\* A published listing has no pending review and current authorizations only, for any
\* number of reviewers, ingestions, catalog changes and crashes.
THEOREM PublishedStaysBacked == Spec => []PublishedIsBacked
BY ReviewsAreConsistent, PTL DEF ReviewInv

\* No occurrence of the page is lost between ingestion, review and publication.
THEOREM NoneIsLost == Spec => []NothingIsLost
BY ReviewsAreConsistent, PTL DEF ReviewInv

\* A whole-review decision finds the links its page showed.
THEOREM DecisionsFitTheirPage == Spec => DecidesWhatWasRead
<1>1. ReviewInv /\ [Next]_vars =>
        [\A r \in Reviewers : (\E use, create \in SUBSET Products : Decide(r, use, create))
            /\ ~torn /\ reader[r].during = counts.stagings
            => Linked(link) = reader[r].linked]_vars
  <2> SUFFICES ASSUME ReviewInv, NEW r \in Reviewers,
                      NEW use \in SUBSET Products, NEW create \in SUBSET Products,
                      Decide(r, use, create), ~torn, reader[r].during = counts.stagings
               PROVE  Linked(link) = reader[r].linked
    OBVIOUS
  <2>1. reader[r].pc = "decide" /\ review # None /\ review = reader[r].bundle
    BY SameBundleFacts DEF Decide, SameBundle
  <2>2. Narrower(review, reader[r].linked)
    BY <2>1 DEF ReviewInv, ReaderOK
  <2> QED BY <2>2 DEF Narrower
<1> QED BY <1>1, ReviewsAreConsistent, PTL DEF Spec, DecidesWhatWasRead
=============================================================================
