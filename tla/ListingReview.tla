---------------------------- MODULE ListingReview ----------------------------
(***************************************************************************)
(* Human and automatic review of one listing's avionics                    *)
(* (src/listing/review.rs, src/listing/review/automation.rs), with the     *)
(* ingestion that stages the review, the finalizer that publishes the      *)
(* listing (src/listings.rs) and the catalog facts both rest on.           *)
(*                                                                         *)
(* An occurrence found in the page is identified with the catalog product  *)
(* it names, and each occurrence names another product.  A review is what  *)
(* its payload hash stands for: the occurrences still open, and the        *)
(* listing links put before the reviewer again because nothing authorizes  *)
(* them any more.  Ingestion, reviewers, the finalizer and catalog edits   *)
(* are transactions of one database, each one action here; between two of  *)
(* them everybody else may commit.  Replacement pairs, quantities and      *)
(* evidence text are left out, and so are the same-case authorizations;    *)
(* the dispositions ingestion itself records are in SignedCapture.  An     *)
(* automatic review accepts products only: the decoys it may discard as    *)
(* generic are left out.                                                   *)
(***************************************************************************)
EXTENDS Naturals, FiniteSets

CONSTANTS
  Catalogs,    \* what the catalog may hold at first: [approved, attested]
  Products,    \* the occurrences of the page, by the product each one names
  Reviewers,   \* browser tabs of the owner, and automatic verifications
  MaxIngests,  \* bound on ingestions of the listing
  MaxChanges,  \* bound on catalog changes by others
  MaxFaults,   \* bound on crashes and failed calls
  None

ASSUME CatalogsAreSound ==
  \A c \in Catalogs : c.approved \subseteq Products /\ c.attested \subseteq c.approved
ASSUME BoundsAreCounts == MaxIngests \in Nat /\ MaxChanges \in Nat /\ MaxFaults \in Nat
ASSUME NoneIsNoRow ==
  /\ None \notin [id : Nat, source : {"listing", "listing_review", "human_review"},
                  authorized : BOOLEAN]
  /\ None \notin [open : SUBSET Products, covered : SUBSET (Products \X Nat)]
  /\ None \notin {"linked", "discarded"}

VARIABLES
  approved,  \* products approved in the catalog
  attested,  \* approved products with a current reuse attestation
  state,     \* ingestion_state of the listing; "ready" is ready and verified
  link,      \* link[p]: the row of aircraft_sale_listing_avionics, or None
  nextId,    \* the next link id
  review,    \* the pending review, or None
  receipt,   \* receipt[p]: the terminal disposition of the occurrence, or None
  waived,    \* occurrences a reviewer left off the listing since its links were replaced
  torn,      \* the links were replaced and the rest not yet put up for review
  reader,    \* what each reviewer has read and does next
  ingest,    \* what the ingestion has resolved and does next
  counts     \* ingestions, stagings, catalog changes and faults so far

catalog == <<approved, attested>>
staged  == <<state, link, nextId, review, receipt, waived, torn>>
vars    == <<catalog, staged, reader, ingest, counts>>

-----------------------------------------------------------------------------
Sources == {"listing", "listing_review", "human_review"}
Link    == [id : Nat, source : Sources, authorized : BOOLEAN]
Review  == [open : SUBSET Products, covered : SUBSET (Products \X Nat)]
Reader  == [pc : {"idle", "decide", "finalize", "publish", "quarantine"},
            bundle : Review \cup {None}, catalog : SUBSET Products,
            linked : SUBSET Products, during : Nat]
Ingest  == [pc : {"idle", "rewrite", "links", "stage", "finalize", "mark", "publish",
                  "quarantine"}, matched : SUBSET Products]

IdleReader == [pc |-> "idle", bundle |-> None, catalog |-> {}, linked |-> {}, during |-> 0]
IdleIngest == [pc |-> "idle", matched |-> {}]

Linked(k) == {p \in Products : k[p] # None}
Human(k)  == {p \in Linked(k) : k[p].source = "human_review"}

\* listing_authorization_state: every automatic link has a current authorization row.
Current(k) == Human(k) \cup {p \in Linked(k) : k[p].authorized /\ p \in attested}
AllCurrent == Linked(link) = Current(link)

\* current_authorized_associations: for a review, an attested product will do for a
\* link of an automatic review.
Backed(k) == Current(k) \cup {p \in Linked(k) : k[p].source = "listing_review" /\ p \in attested}

\* add_unauthorized_preserved_aspects: the links that need a reviewer again.
Unbacked(k) == {<<p, k[p].id>> : p \in Linked(k) \ Backed(k)}

Covered(b)  == {c[1] : c \in b.covered}
Aspects(b)  == b.open \cup Covered(b)
CoveredCurrent(b) == \A c \in b.covered : link[c[1]] # None /\ link[c[1]].id = c[2]

NewLink(s) == [id |-> nextId, source |-> s, authorized |-> s = "listing"]

Count(what, bound) == counts[what] < bound /\ counts' = [counts EXCEPT ![what] = @ + 1]
Fault == Count("faults", MaxFaults)
-----------------------------------------------------------------------------
(* Reviewers.                                                              *)

\* get_listing_review: the page shows the review, the catalog and the links.
Read(r) ==
  /\ reader[r].pc \in {"idle", "decide"} /\ review # None
  /\ reader' = [reader EXCEPT ![r] = [pc |-> "decide", bundle |-> review, catalog |-> approved,
                                      linked |-> Linked(link), during |-> counts.stagings]]
  /\ reader' # reader
  /\ UNCHANGED <<catalog, staged, ingest, counts>>

\* Mutant for DecidesWhatWasRead: any pending review will do.
AnyBundle(r) == reader[r].pc = "decide" /\ review # None /\ state = "pending_review"

\* The optimistic lock: the review is still the one that was read.
SameBundle(r) == reader[r].pc = "decide" /\ review = reader[r].bundle /\ state = "pending_review"
SameCatalog(r) == approved = reader[r].catalog

\* With nothing left to decide the listing goes to the finalizer.
Leaves(r, done) == reader' = [reader EXCEPT ![r] =
  IF done THEN [IdleReader EXCEPT !.pc = "finalize"] ELSE IdleReader]

\* resolve_listing_review: a decision on every aspect at once.  A covered link can only
\* be dropped; the links the review does not cover must be authorized and are kept.
\* All links are written anew, and the authorization rows go with the old ones.
\* The finalizer follows only if the request asks for it.
Decide(r, use, create) ==
  LET b == reader[r].bundle
      accepted == use \cup create
      kept == Linked(link) \ Covered(b)
  IN
  /\ SameBundle(r) /\ SameCatalog(r)
  /\ use \subseteq b.open \cap approved /\ create \subseteq b.open \ approved
  /\ CoveredCurrent(b)
  /\ kept \subseteq Backed(link) /\ kept \cap accepted = {}
  /\ \A p \in b.open : receipt[p] = None
  /\ link' = [p \in Products |->
                IF p \in kept THEN [link[p] EXCEPT !.id = nextId, !.authorized = FALSE]
                ELSE IF p \in accepted THEN NewLink("human_review")
                ELSE None]
  /\ nextId' = nextId + 1
  /\ receipt' = [p \in Products |-> IF p \notin b.open THEN receipt[p]
                                    ELSE IF p \in accepted THEN "linked" ELSE "discarded"]
  /\ waived' = waived \cup (Aspects(b) \ accepted)
  /\ approved' = approved \cup create
  /\ review' = None /\ state' = "incomplete"
  /\ Leaves(r, TRUE) \/ Leaves(r, FALSE)
  /\ UNCHANGED <<attested, torn, ingest, counts>>

\* Every change of one aspect ends with a restage: what is left open, and the links of k
\* that need a reviewer.
Restaged(r, open, k) ==
  LET left == [open |-> open, covered |-> Unbacked(k)] IN
  /\ link' = k
  /\ IF open = {} /\ left.covered = {}
     THEN review' = None /\ state' = "incomplete" /\ Leaves(r, TRUE)
     ELSE review' = left /\ Leaves(r, FALSE) /\ UNCHANGED state
  /\ UNCHANGED <<attested, torn, ingest, counts>>

\* One aspect is decided on the review and the catalog that were read.
OnAspect(r) == SameBundle(r) /\ SameCatalog(r) /\ CoveredCurrent(review)

\* use_existing_product_for_aspect_and_restage.
UseExisting(r, p) ==
  /\ OnAspect(r) /\ p \in review.open \cap approved /\ link[p] = None
  /\ Restaged(r, review.open \ {p}, [link EXCEPT ![p] = NewLink("human_review")])
  /\ nextId' = nextId + 1
  /\ UNCHANGED <<approved, receipt, waived>>

\* create_human_product_for_aspect_and_restage.
CreateForAspect(r, p) ==
  /\ OnAspect(r) /\ p \in review.open \ approved /\ link[p] = None
  /\ Restaged(r, review.open \ {p}, [link EXCEPT ![p] = NewLink("human_review")])
  /\ nextId' = nextId + 1
  /\ approved' = approved \cup {p}
  /\ UNCHANGED <<receipt, waived>>

\* approve_locally_verified_ordinary_aspect_and_restage.
ApproveLocally(r, p) ==
  /\ OnAspect(r) /\ p \in review.open \cap attested /\ link[p] = None
  /\ Restaged(r, review.open \ {p}, [link EXCEPT ![p] = NewLink("listing_review")])
  /\ nextId' = nextId + 1
  /\ UNCHANGED <<approved, receipt, waived>>

\* discard_raw_avionics_aspect_and_restage: no look at the catalog.
DiscardAspect(r, p) ==
  /\ SameBundle(r) /\ CoveredCurrent(review) /\ p \in review.open /\ receipt[p] = None
  /\ Restaged(r, review.open \ {p}, link)
  /\ receipt' = [receipt EXCEPT ![p] = "discarded"]
  /\ waived' = waived \cup {p}
  /\ UNCHANGED <<approved, nextId>>

\* corroborate_product_association_and_restage: a covered link of an attested product
\* gets its authorization row.
Corroborate(r, p) ==
  /\ OnAspect(r) /\ p \in Covered(review) \cap attested
  /\ Restaged(r, review.open, [link EXCEPT ![p].authorized = TRUE])
  /\ UNCHANGED <<approved, nextId, receipt, waived>>

\* restage_unattested_preserved_products: also drops coverage of links that are gone.
Restage(r) ==
  /\ SameBundle(r)
  /\ Restaged(r, review.open, link)
  /\ UNCHANGED <<approved, nextId, receipt, waived>>

\* apply_automated_avionics_review: the products in A are proved by the retained page.
\* An accepted product takes over the link there is; no disposition is written for it.
Automate(r, A) ==
  LET kept == Linked(link) \ A
      left == [open |-> review.open \ A, covered |-> {c \in review.covered : c[1] \notin A}]
      done == left.open = {} /\ left.covered = {}
  IN
  /\ SameBundle(r) /\ A # {} /\ A \subseteq Aspects(review) \cap attested
  /\ kept \subseteq Human(link) \cup attested
  /\ link' = [p \in Products |->
                IF p \notin A THEN link[p]
                ELSE IF link[p] # None /\ link[p].source = "listing"
                     THEN [link[p] EXCEPT !.authorized = TRUE]
                ELSE NewLink("listing")]
  /\ nextId' = nextId + 1
  /\ IF done THEN review' = None /\ state' = "incomplete"
             ELSE review' = left /\ UNCHANGED state
  /\ Leaves(r, done)
  /\ UNCHANGED <<catalog, receipt, waived, torn, ingest, counts>>

-----------------------------------------------------------------------------
(* The finalizer: after a review that left nothing, or for a verification   *)
(* that finds no review.                                                   *)

Reading(r, step) == reader' = [reader EXCEPT ![r].pc = step]

\* verify_listing on a listing with no pending review; a page that was read is left.
Verify(r) ==
  /\ reader[r].pc \in {"idle", "decide"}
  /\ review = None /\ ~(state = "ready" /\ AllCurrent)
  /\ Leaves(r, TRUE)
  /\ UNCHANGED <<catalog, staged, ingest, counts>>

\* Mutant for Settles: a listing whose authorizations are gone is left as it is.
FinalizeGivesUp(r) ==
  /\ reader[r].pc = "finalize"
  /\ IF review # None \/ ~AllCurrent THEN reader' = [reader EXCEPT ![r] = IdleReader]
     ELSE Reading(r, "publish")
  /\ UNCHANGED <<catalog, staged, ingest, counts>>

\* finalize_reviewed_listing_ingestion looks for a review and at the authorizations.
Finalize(r) ==
  /\ reader[r].pc = "finalize"
  /\ IF review # None THEN reader' = [reader EXCEPT ![r] = IdleReader]
     ELSE Reading(r, IF AllCurrent THEN "publish" ELSE "quarantine")
  /\ UNCHANGED <<catalog, staged, ingest, counts>>

\* Mutant for PublishedIsBacked: only the finalizer looks at the authorizations.
PublishableUnreviewed == review = None

\* execute_ready_listing_update checks both again in the transaction that publishes.
Publishable == review = None /\ AllCurrent

Published == state' = "ready" /\ UNCHANGED <<link, nextId, review, receipt, waived, torn>>

\* quarantine_after_error; a listing with a review goes back to it.  The database lets
\* nobody take a published listing back this way.
Quarantined ==
  /\ state' = IF state = "ready" THEN state
              ELSE IF review # None THEN "pending_review" ELSE "quarantined"
  /\ UNCHANGED <<link, nextId, review, receipt, waived, torn>>

Publish(r) ==
  /\ reader[r].pc = "publish"
  /\ IF Publishable THEN Published /\ reader' = [reader EXCEPT ![r] = IdleReader]
     ELSE UNCHANGED staged /\ Reading(r, "quarantine")
  /\ UNCHANGED <<catalog, ingest, counts>>

Quarantine(r) ==
  /\ reader[r].pc = "quarantine"
  /\ Quarantined
  /\ reader' = [reader EXCEPT ![r] = IdleReader]
  /\ UNCHANGED <<catalog, ingest, counts>>

-----------------------------------------------------------------------------
(* Ingestion: update_listing and resume_bound_replay_listing.              *)

Ingesting(step) == ingest' = [ingest EXCEPT !.pc = step]
IngestStep(step) == ingest.pc = step /\ UNCHANGED <<catalog, reader, counts>>

\* The occurrences that match an attested product, before any transaction.
Resolve ==
  /\ ingest.pc = "idle" /\ Count("ingests", MaxIngests)
  /\ ingest' = [pc |-> "rewrite", matched |-> attested]
  /\ UNCHANGED <<catalog, staged, reader>>

\* update_listing_values: a published listing is refused.
Rewrite ==
  /\ IngestStep("rewrite")
  /\ IF state = "ready" THEN ingest' = IdleIngest /\ UNCHANGED state
     ELSE state' = "incomplete" /\ Ingesting("links")
  /\ UNCHANGED <<link, nextId, review, receipt, waived, torn>>

\* replace_listing_avionics: refused for a published listing, and when a match has lost
\* its attestation.
ReplaceLinks ==
  /\ IngestStep("links")
  /\ IF state = "ready" \/ ~(ingest.matched \subseteq attested)
     THEN Ingesting("quarantine") /\ UNCHANGED <<link, nextId, waived, torn>>
     ELSE /\ link' = [p \in Products |->
                        IF p \in ingest.matched THEN NewLink("listing") ELSE None]
          /\ nextId' = nextId + 1
          /\ waived' = {} /\ torn' = TRUE
          /\ Ingesting("stage")
  /\ UNCHANGED <<state, review, receipt>>

\* Mutant for NothingIsLost: the review is staged from the catalog as it is by now.
StageFromCatalog ==
  LET open == Products \ attested IN
  /\ ingest.pc = "stage"
  /\ IF open = {} THEN review' = None /\ UNCHANGED state
     ELSE review' = [open |-> open, covered |-> {}] /\ state' = "pending_review"
  /\ torn' = FALSE
  /\ counts' = [counts EXCEPT !.stagings = @ + 1]
  /\ Ingesting("finalize")
  /\ UNCHANGED <<catalog, link, nextId, receipt, waived, reader>>

\* replace_pending_review: what did not match is put up for review.
StageReview ==
  LET open == Products \ ingest.matched IN
  /\ ingest.pc = "stage"
  /\ IF open = {} THEN review' = None /\ UNCHANGED state
     ELSE review' = [open |-> open, covered |-> {}] /\ state' = "pending_review"
  /\ torn' = FALSE
  /\ counts' = [counts EXCEPT !.stagings = @ + 1]
  /\ Ingesting("finalize")
  /\ UNCHANGED <<catalog, link, nextId, receipt, waived, reader>>

\* The review cannot be stored: a review of the old links must not survive.
StageFails ==
  /\ ingest.pc = "stage" /\ Fault
  /\ review' = None
  /\ Ingesting("quarantine")
  /\ UNCHANGED <<catalog, state, link, nextId, receipt, waived, torn, reader>>

\* finalize_listing_ingestion.
FinalizeIngest ==
  /\ IngestStep("finalize")
  /\ Ingesting(IF review # None THEN "mark" ELSE IF AllCurrent THEN "publish" ELSE "quarantine")
  /\ UNCHANGED staged

\* mark_listing_pending_review: only while there is one.
MarkPending ==
  /\ IngestStep("mark")
  /\ state' = IF review # None THEN "pending_review" ELSE state
  /\ ingest' = IdleIngest
  /\ UNCHANGED <<link, nextId, review, receipt, waived, torn>>

\* mark_listing_ready: a refusal leaves the listing as it is.
PublishIngest ==
  /\ IngestStep("publish")
  /\ IF Publishable THEN Published ELSE UNCHANGED staged
  /\ ingest' = IdleIngest

QuarantineIngest ==
  /\ IngestStep("quarantine")
  /\ Quarantined
  /\ ingest' = IdleIngest

-----------------------------------------------------------------------------
(* The catalog, and failures.                                              *)

\* Triggers drop the authorization rows that rest on the attestation of p, and take back
\* a published listing that had one.
DropsRows(p) ==
  /\ link' = [q \in Products |-> IF q = p /\ link[q] # None
                                 THEN [link[q] EXCEPT !.authorized = FALSE] ELSE link[q]]
  /\ state' = IF state = "ready" /\ link' # link THEN "quarantined" ELSE state
  /\ UNCHANGED <<nextId, review, receipt, waived, torn>>

\* Mutant for TypeOK: a product can be attested before the catalog has it.
AttestAnything(p) ==
  /\ Count("changes", MaxChanges)
  /\ attested' = attested \cup {p} /\ DropsRows(p)
  /\ UNCHANGED <<approved, reader, ingest>>

\* A product's manufacturer source is verified; an attestation there was is replaced.
Attest(p) ==
  /\ p \in approved /\ Count("changes", MaxChanges)
  /\ attested' = attested \cup {p} /\ DropsRows(p)
  /\ UNCHANGED <<approved, reader, ingest>>

\* A structure edit drops the attestation, even one that leaves the product's fingerprint
\* as it was, and so does the revocation of its source.  (An edit that does change the
\* fingerprint also refuses the pages read before it, which the model lets decide.)
Withdraw(p) ==
  /\ p \in attested /\ Count("changes", MaxChanges)
  /\ attested' = attested \ {p} /\ DropsRows(p)
  /\ UNCHANGED <<approved, reader, ingest>>

\* The server dies.  A page in a browser survives it.
Crash ==
  /\ Fault
  /\ reader' = [r \in Reviewers |->
                  IF reader[r].pc = "decide" THEN reader[r] ELSE IdleReader]
  /\ ingest' = IdleIngest
  /\ <<reader, ingest>>' # <<reader, ingest>>
  /\ UNCHANGED <<catalog, staged>>

Init ==
  /\ \E c \in Catalogs : approved = c.approved /\ attested = c.attested
  /\ state = "incomplete"
  /\ link = [p \in Products |-> None] /\ nextId = 0
  /\ review = None
  /\ receipt = [p \in Products |-> None]
  /\ waived = {} /\ torn = TRUE
  /\ reader = [r \in Reviewers |-> IdleReader]
  /\ ingest = IdleIngest
  /\ counts = [ingests |-> 0, stagings |-> 0, changes |-> 0, faults |-> 0]

\* What a reviewer can do with the review at hand.
Reviewing(r) ==
  \/ \E use, create \in SUBSET Products : Decide(r, use, create)
  \/ \E p \in Products : \/ UseExisting(r, p)
                         \/ CreateForAspect(r, p)
                         \/ ApproveLocally(r, p)
                         \/ DiscardAspect(r, p)
                         \/ Corroborate(r, p)
  \/ \E A \in SUBSET Products : Automate(r, A)

Finalizing(r) == Finalize(r) \/ Publish(r) \/ Quarantine(r)
IngestGoesOn ==
  \/ Rewrite \/ ReplaceLinks \/ StageReview \/ FinalizeIngest
  \/ MarkPending \/ PublishIngest \/ QuarantineIngest

Next ==
  \/ \E r \in Reviewers : Read(r) \/ Reviewing(r) \/ Restage(r) \/ Verify(r) \/ Finalizing(r)
  \/ Resolve \/ IngestGoesOn \/ StageFails
  \/ \E p \in Products : Attest(p) \/ Withdraw(p)
  \/ Crash

Spec == Init /\ [][Next]_vars

\* What has begun goes on unless the server dies; somebody reviews, restages and verifies.
FairSpec ==
  /\ Spec
  /\ WF_vars(IngestGoesOn) /\ WF_vars(\E r \in Reviewers : Finalizing(r))
  /\ WF_vars(\E r \in Reviewers : Verify(r)) /\ WF_vars(\E r \in Reviewers : Read(r))
  /\ SF_vars(\E r \in Reviewers : Reviewing(r)) /\ SF_vars(\E r \in Reviewers : Restage(r))

-----------------------------------------------------------------------------
\* Every variable has its type, and an attested product is an approved one.
TypeOK ==
  /\ approved \subseteq Products /\ attested \subseteq approved
  /\ state \in {"incomplete", "pending_review", "quarantined", "ready"}
  /\ link \in [Products -> Link \cup {None}] /\ nextId \in Nat
  /\ review \in Review \cup {None}
  /\ receipt \in [Products -> {"linked", "discarded", None}]
  /\ waived \subseteq Products /\ torn \in BOOLEAN
  /\ reader \in [Reviewers -> Reader]
  /\ ingest \in Ingest
  /\ counts \in [{"ingests", "stagings", "changes", "faults"} -> Nat]

\* A published listing has no pending review, and behind every automatic link stands an
\* authorization row of a product still attested: the finalizer, a reviewer, a second
\* ingestion and a withdrawal in the catalog may commit in any order in between.
PublishedIsBacked == state = "ready" => review = None /\ AllCurrent

\* Once an ingestion has put its review in place of the old one, every occurrence of the
\* page is on the listing, left off by a reviewer, or open in the review: no restage,
\* decision, quarantine or crash drops one silently.
Accounted(p) ==
  \/ link[p] # None
  \/ p \in waived
  \/ review # None /\ p \in review.open
NothingIsLost == ~torn => \A p \in Products : Accounted(p)

\* A decision on the whole review is applied to the links its page showed, whatever other
\* reviewers and automatic reviews committed since, as long as no ingestion staged another
\* review: the payload hash does not tell two stagings apart.
DecidesWhatWasRead ==
  [][\A r \in Reviewers : (\E use, create \in SUBSET Products : Decide(r, use, create))
        /\ ~torn /\ reader[r].during = counts.stagings
        => Linked(link) = reader[r].linked]_vars

\* A listing is published or quarantined for good in the end.  Two states the code has no
\* way out of, short of another ingestion, are excepted: an ingestion died after it took
\* the listing out of review, so that reviewers and finalizers both refuse it; and an open
\* occurrence already has a link and a terminal disposition, so that every decision on it
\* is refused.
CutOff == state = "incomplete" /\ review # None
Wedged == review # None /\ \E p \in review.open : link[p] # None /\ receipt[p] # None
Settles == <>[](state \in {"ready", "quarantined"} \/ CutOff \/ Wedged)
=============================================================================
