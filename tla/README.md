# aircost: TLA+ models, model checking and proofs

aircost is a Rust web application that values aircraft listings. Users submit
signed captures of listing pages, providers (Gemini, FAA data) turn them into
structured listings, reviewers and automatic verification settle them, and a
valuation model is fitted over the result. All state is in one SQLite or
PostgreSQL database, which several kinds of process write at once: the web
server with its background worker, and operator commands that run for hours.

This directory holds a specification of the parts of that system where the
order of steps decides whether it is correct, the TLC runs that check them on
small instances, and TLAPS proofs of the most important results for every value
of the constants. Paths below are relative to the repository root.

## The system

| component | source | state it keeps | how it interacts |
|---|---|---|---|
| clean-replay coordinator | `src/listing/replay/run.rs` | `listing_replay_runs`, `listing_replay_run_items`, the inventory lock row | an operator command; drives captures through extraction and materialization while the web server runs |
| replay schema | `migrations/20260819_listing_replay_runs.*.sql`, `schema/*.sql` | uniqueness constraints, freeze and immutability triggers | refuses writes of every other component |
| signed capture store | `src/plugin.rs` | `plugin_submissions` (checkpoint, error, bound listing), `plugin_submission_materialization_receipts` | called by the web server (submit, reprocess) and by the coordinator |
| trusted manifests | `src/listing/replay.rs`, `src/listing/replay/export.rs`, `catalog.rs`, `admission.rs` | a manifest file, an imported capture inventory | input of the coordinator |
| listing store | `src/listings.rs` | `aircraft_sale_listings` and child tables | create and bind, update, delete with provenance guard |
| durable verification runs | `src/listing/run.rs`, worker in `src/server.rs` | `listing_verification_runs`, `..._run_items` with leases | HTTP create, cancel and poll; one background worker per server process |
| automatic verification | `src/listing/verification.rs`, `src/listing/backfill.rs` | listing, aircraft and avionics decisions | called by the verification worker |
| human review | `src/listing/review.rs`, `src/listing/review/*` | review bundles, decisions | reviewers in browsers, compare-and-set against what was shown |
| avionics | `src/avionics/*`, `src/listing/avionics/*` | catalog, associations, occurrence dispositions, plans | consolidation and deletion plans are shown, then applied under a fingerprint |
| aircraft identity and curation | `src/aircraft/*` | reference catalog, evidence, observations | provider research, persisted claim by claim |
| FAA snapshots | `src/aircraft/faa/*` | imported releases, projections | the newest release decides admission |
| provider transport | `src/gemini/*` | usage accounting | retries, timeouts, cost |
| page extraction | `src/extract.rs`, `src/html/*`, `src/normalize.rs` | none | text in, structured payload out |
| valuation | `src/valuation/*`, `src/fit.rs` | fitted models, snapshots | reads listings, marks snapshots stale |
| database layer | `src/db.rs`, `schema`, `migrations` | schema contracts | transactions, attestation |
| catalog projections | `src/catalog/*` | seed files | deterministic export |
| HTTP server and administration | `src/server.rs`, `src/admin.rs`, `src/main.rs` | sessions | routes to all of the above |
| browser code | `web/*`, `chrome-extension/*` | drafts, polling | HTTP clients |

What is hard in this system: a replay invocation lives for hours, can die
anywhere and can be displaced while it is still alive; provider calls run
outside any transaction, so what was read before one is stale after it; web
requests touch the same captures; deletion, reprocessing and late results race
with pins and receipts; the verification worker's lease can run out while it
works; a crash between two commits must neither repeat nor lose work. What can
go wrong is listed, line by line, under `hazards` in `PROJECT.json`.

What makes each component correct, in a sentence:

- coordinator: one run at a time moves items, only its owner does, what it pins
  and settles is final and true of the captures, and retrying always drains it;
- capture store: a checkpoint is written once, a listing is bound to the
  checkpoint it was built from, a receipt attests exactly that pair;
- verification runs: a listing is worked on for one run at a time, an item ends
  once, by the worker that holds its lease or by cancellation, and every run ends;
- review and avionics plans: a decision applies to the state it was made on;
- FAA snapshots: nothing is admitted on a release that is not the newest;
- provider usage: every attempt is counted, none twice.

## Modules

| module | what it is |
|---|---|
| `ReplayRun` | the coordinator, its schema, and the web application's effect on the captures |
| `ReplayLedger` | the abstract ledger the coordinator implements |
| `ReplayDrain` | `ReplayRun` under an operator who keeps retrying; liveness |
| `MCReplayRun`, `MCReplayDrain` | instances for TLC |
| `ReplayRunProofs` | the ledger invariant and what follows from it |
| `ReplayLeaseProofs` | the lease invariant, fencing, first checkpoint wins |
| `ReplayRefinementProofs` | `ReplayRun` implements `ReplayLedger` |
| `VerificationRun` | durable verification runs and the workers that serve them |
| `VerificationLedger` | what users are promised of the runs; `VerificationRun` implements it |
| `VerificationWorks` | `VerificationRun` on servers that are kept running; liveness |
| `VerificationRunPostgres` | the statements of a cancellation on PostgreSQL |
| `MCVerificationRun`, `MCVerificationWorks`, `MCVerificationRunPostgres` | instances for TLC |
| `VerificationRunProofs` | the inductive invariant of the runs, what follows from it, the refinement |
| `SignedCapture` | one upload of a signed page, from extraction to its receipt, step by step |
| `ListingReview` | the review of one listing: ingestion, reviewers, automatic review, finalizer, catalog |
| `MCSignedCapture`, `MCListingReview` | instances for TLC |
| `CaptureLedger` | the abstract ledger of captures and listings that `SignedCapture` implements |
| `SignedCaptureProofs`, `ListingReviewProofs` | their inductive invariants and what follows from them |
| `SignedCaptureCompletionProofs` | the receipt of a capture is written last |
| `SignedCaptureRefinementProofs` | `SignedCapture` implements `CaptureLedger` |

### ReplayRun

State. `members` and `ident` are the rows of `plugin_submissions` and the
identity columns behind each row; `capture` its derived columns; `receipt` the
completion receipts; `listings` the (owner, source) pairs claimed by a listing;
`lease` is `active_run_id` of the inventory lock; `run` and `item` the two
ledger tables, where a run row carries phase, owner token and whether its
heartbeat is fresher than an hour. `pc` and `inv` are the position and the
locals of each invocation of `replay_captures`.

A worker is one invocation and stands for its owner token. Tokens are random and
never reused; the model reuses the name of an ended invocation only when no run
carries its token (`FreshToken`), which gives the same behaviours with finitely
many names. Each action is one transaction, or one read between two of them:

| action | code (`src/listing/replay/run.rs` unless named) |
|---|---|
| `Start`, `EnsureRun`, `Acquire` | request validation, `ensure_run`, `acquire_run` with stale recovery |
| `NextMember` | head of the member loop with its unchecked heartbeat |
| `Inspect`, `Reconcile` | look for domain commits the ledger missed; `reconcile_exact_checkpoint` |
| `Claim`, `Admit` | `claim_item`, then the inspection that decides what to do |
| `Extract`, `StoreCheckpoint` | `src/plugin.rs` provider call, then `store_plugin_extraction_checkpoint` |
| `Materialize`, `Bind`, `Complete` | `src/plugin.rs` preflight, `src/listings.rs` insert and bind, `record_materialization_receipt` |
| `Finish` | `finish_succeeded`, `finish_rejected`, `finish_failed` |
| `HeartbeatTick` | `with_heartbeat` around an operation |
| `ValidateTarget`, `Release` | the final validation and `release_run` |
| `Stop` | the process is killed, or a database error ends it |
| `HeartbeatAges` | an hour passes without a heartbeat |
| `AdmitCapture`, `WebBind`, `WebRecordFailure`, `WebRecordSuccess`, `WebComplete`, `WebDeleteListing` | what submit, reprocess and delete commit |
| `ChangeIdentity` | owner or install rows change (by hand: no code does it) |

Database constraints and triggers are guards. A statement that names the owner
token and changes no row is an error that ends the invocation and leaves the run
as it is (`Abort`); that is how the code treats `require_owned_transition`.

Abstractions, all deliberate. A payload also stands for its hash. A listing is
identified with the (owner, source) pair it claims, and the reuse of an
unverified listing by tail number is left out. Aircraft admission is a
nondeterministic verdict. A web request is the row writes it commits, each in
one transaction; its own order of steps is the subject of `SignedCapture`, and so the
environment of the model may do more than a real request does. Item rows exist
implicitly once the run does. The branch `reject_unclaimable_capture` cannot be
reached: its guard needs a member capture without owner, which the foreign keys
and the freeze exclude. A run report and `--dry-run` change nothing.

### ReplayLedger

Runs take and drop one inventory; members of the holder are pinned, then settled
by success, which needs a pin, or by refusal; both are final; a run given back
with every member settled closes for good. Workers, tokens, attempts, heartbeats
and captures are gone. The mapping is in `ReplayRun`: `holder` is `lease`, a pin
is the item's checkpoint, a result is the terminal state of the item.

### ReplayDrain

`docs/clean-replay.md` tells the operator to repeat the apply command for both
phases, after confirming that the last worker stopped, with `--recover-stale`
once the heartbeat is an hour old. `Attempt` is that, over the whole manifest;
at most `MaxFaults` deaths or failed operations happen; the web is quiet.

### VerificationRun

State. `request` and `status` are the columns of `listing_verification_runs`
that decide anything; `item[r][l]` is the row of run `r` for listing `l`, with
its status, lease token and whether the lease still runs; `present` the listings
that exist; `pc` and `job` the loop position of each server's background worker
and the claim it holds, which is nowhere but in its memory.

| action | code (`src/listing/run.rs` unless named) |
|---|---|
| `Create` | `create_verification_run`: key, owners, active listings, all items or none |
| `Cancel` | `cancel_verification_run` |
| `DeleteListing` | `src/listings.rs` delete; the items go with the listing |
| `Boot`, `Startup` | worker start in `src/server.rs`, `reclaim_expired_verification_run_leases` |
| `Claim` | `claim_next_verification_run_item`: reclaim, refresh, claim, mark the run |
| `Verify` | `verify_listing` returns, `process_claimed_verification_run_item` |
| `Finish`, `FinishFails` | `complete_` and `fail_verification_run_item`; a result that cannot be stored is logged |
| `Crash` | the server process dies |
| `LeaseExpires` | 30 minutes since the claim; nothing renews a lease |

Abstractions. Reasons, outcome text and the attempt counter are left out: nothing
reads them to decide. A transaction is one step, as SQLite makes write
transactions (one that read before another one committed fails when it comes to
write, and changes nothing). Tokens carry process, time and a sequence number;
`NewToken` lets a name be used again when no row and no worker has it, which
cannot be told apart from a new one. A request that repeats a key, and one that
is refused, change nothing and are no steps. What a verification does to its
listing is not modelled, only that it ends, some time, with an outcome.

### VerificationLedger

What users are promised, without workers, leases, expiry and dying servers: all
listings of a request become a run's to settle, none of which another run has
still to settle; a run settles its listings one by one in the order asked for,
each once (`Due`); a cancelled run drops all but the one in flight, which is
still settled or given up (`Cancel`, `GiveUp`); a deleted listing disappears; a
run ends only when nothing is left to do (`RunsMayEnd`), each in its way, and
stays as it ended. The mapping is at the end of `VerificationRun`: queued and
running are one thing to users, of items (`todo`) and of runs (`open`). A claim is
invisible, but it refreshes runs and reclaims items first, so it may end some and
give some up.

### VerificationWorks

The same steps, with weak fairness of each worker's own loop, restarts included,
and of the expiry of a lease that no live worker holds. Deaths, results that
cannot be stored and leases lost under a live worker are bounded by `MaxFaults`.

### VerificationRunPostgres

`src/listing/run.rs` opens its transactions with a plain `begin()` and the pool sets no
default level (the listing finalizer, `listings.rs:6283`, is one of the few that ask for
another level), so on PostgreSQL a cancellation runs at READ COMMITTED and
each statement sees what was committed before it. This module takes the three
statements of a cancellation apart and leaves every other transaction one step:
it shows fewer interleavings than the server has, which is enough for a
counterexample, and nothing else is claimed of it. Row locks are `Waits`.

### SignedCapture

State. `capture` is the part of `plugin_submissions` that decides anything
(stored, checkpoint, error, bound listing); `listing` a listing with its state,
URL, the payload its values and its links were taken from, and its pending
review; `disposed` the occurrence dispositions, `decision` the recorded identity
corrections, `receipt` the materialization receipts. `req` is what each HTTP
request holds in memory between two transactions, and `deleting` the same for a
deletion. `gated` is the state `quarantined` with the error
`source_identity_receipt_pending`: a listing whose identity was corrected and
whose correction is not recorded yet.

| action | code (`src/plugin.rs` unless named) |
|---|---|
| `Submit`, `ExtractOk`, `Refused` | `submit_plugin_html`, `reprocess_plugin_submission` up to the stored checkpoint |
| `RecordFailure`, `WriteResult` | `update_plugin_submission_result`, without a compare |
| `ChooseListing` | `src/listings.rs` reuse by tail number or of an equal published listing |
| `InsertAndBind`, `Rewrite`, `ReplaceLinks`, `StageReview`, `FinalizeListing` | `src/listings.rs`, one transaction each |
| `AttachReview`, `RecordDispositions` | the review learns its capture; `disposition.rs` |
| `RecordCorrection`, `SettleCorrection` | `src/aircraft/repair.rs`, then the finalizer |
| `WriteReceipt` | `record_materialization_receipt` |
| `Recover` | `recover_or_return_bound_signed_submission`: where a retry goes on |
| `CheckDelete`, `Delete` | `delete_listing`: a check, then a transaction |
| `ReviewPublishes` | what a review (below) does to the listing |
| `Crash` | the server dies |

Abstractions. A payload stands for a checkpoint with its hash, and `Agrees` says
that values and links come from it. What extracting a page gives is chosen in
`Init` (`extraction`): providers may answer differently each time. Only tail
numbers tell identities apart. The visual variant of a correction takes the same
steps as the serial one and is left out, and so are signatures, limits, and
progress reports. All captures belong to one user: nothing here crosses users.

### CaptureLedger

What an observer of the database is promised: an unbound capture enters a new
listing in the step that binds it; a listing goes in the step that frees the
captures bound to it, and only if no receipt and no decision names it; a
corrected identity is held back until one step decides and shows it; a published
listing says the same until it is taken back; a receipt closes its capture, is
the only one of its listing, and is final. Requests, links, reviews,
dispositions, failures and crashes are gone. The mapping is at the end of
`SignedCapture`: of a listing its state, reduced to absent, held, open, published
or gone, and what its values say; of a capture its payload and its listing.

### ListingReview

State. `approved` and `attested` are the catalog as far as a listing rests on
it; `link` the rows of `aircraft_sale_listing_avionics` with their source and
whether an authorization row exists; `review` the pending review, which also
stands for its hash; `receipt` the terminal dispositions. `reader` is a
reviewer's browser tab, or a verification: what it read, and the finalizer it
runs. `ingest` is the ingestion in progress. `waived`, `torn` and
`counts.stagings` are history, read by properties and by no action.

| action | code (`src/listing/review.rs` unless named) |
|---|---|
| `Read` | `get_listing_review` |
| `Decide` | `resolve_listing_review`, all aspects at once |
| `UseExisting`, `CreateForAspect`, `ApproveLocally`, `DiscardAspect`, `Corroborate` | the `..._and_restage` operations on one aspect |
| `Restage` | `restage_unattested_preserved_products` |
| `Automate` | `src/listing/review/automation.rs`, `apply_automated_avionics_review` |
| `Verify`, `Finalize`, `Publish`, `Quarantine` | `src/listing/verification.rs`, `finalize_reviewed_listing_ingestion` and its two transactions |
| `Resolve`, `Rewrite`, `ReplaceLinks`, `StageReview`, `StageFails`, `FinalizeIngest`, `MarkPending`, `PublishIngest`, `QuarantineIngest` | `src/listings.rs`, an ingestion of the same page |
| `Attest`, `Withdraw` | `src/avionics/reuse.rs`, `update_approved_product_structure`, with the triggers of `schema/sqlite.sql` |
| `Crash` | the server dies; a page in a browser survives |

Abstractions. An occurrence is identified with the product it names. Replacement
pairs, quantities, evidence text, same-case authorizations and the revision of an
observation are left out, and so is the rebuild of all cards. A catalog edit that
changes the fingerprints refuses pages read before it; `Withdraw` is the one that
does not (saving an unchanged structure, revoking a source), so the model lets
more pages decide than the code does.

## Runs

| run | instance | what it shows |
|---|---|---|
| `replay_web` | one capture, two payloads, two invocations, the whole web side | pins, receipts and successes stay exact; a displaced invocation neither moves the ledger nor replaces a checkpoint |
| `replay_members` | two captures, two invocations, no web | the lease, the run and its items stay consistent through crashes and recovery at every step |
| `replay_manifests` | a manifest and a larger one, two captures sharing a source, one invocation at a time, web on the second capture | the inventory cannot grow under a run; refinement with competing manifests |
| `replay_identity` | two manifests of one capture with different identities, two invocations | a run works only on the identity its manifest pins; refinement with displacement |
| `replay_ends` | one capture, two invocations, fair | every invocation ends |
| `replay_drain` | two captures, two tokens, three faults | retrying drains the manifest |
| `replay_wedge` | two captures, one invocation, web on the first | the violation described below |
| `verification_safety` | two runs that overlap in a listing, three listings, two workers, two outcomes | runs and items agree, no listing is active twice, order is kept, items end once and by the holder of the latest lease; `VerificationLedger` is implemented |
| `verification_works` | two runs, two listings, two workers, two faults, fair | every run ends |
| `verification_postgres` | one run of one listing, two workers | the second violation described below |
| `signed_capture` | two pages of one aircraft or of two, five payloads, two requests, three listings, one fault, six ways extraction may turn out | receipts stay true, the gate holds, published listings are changed only by a review, a late deletion or their own overtaken recovery, completion is last, captures and listings implement `CaptureLedger`, and uploading again completes a capture unless it is in a named dead end |
| `listing_review` | two occurrences, two readers, two ingestions, one catalog change, one fault | what is published is backed, nothing is lost, decisions fit their page, the listing settles |

Bounds and why they are enough. Two invocations are one holder and one that
displaces it; a third would repeat either role. Two captures distinguish the
current member from another one. Two payloads let a displaced worker bring a
different extraction. Two manifests cover recovery of another run and of the
same run. `MaxIdent = 2` distinguishes the pinned identity from another. Three
faults allow a death in either phase and one during recovery. `Exposed` limits
which captures the web works on, so that the growing-manifest instance stays
small; with two invocations that instance has more than four million states,
which is why it has one, and why it may stop: the single token is never fresh
again when its invocation dies holding the run and nobody is left to recover it
(`CHECK_DEADLOCK FALSE` in `ReplayManifests.cfg` only). Symmetry is used for
worker and token names in the runs that check only safety.

For verification, two runs are the one that holds a listing and the one that
wants it; three listings let the two overlap in different orders and leave one
that only the first asks for; two workers are the late one and the one that took
over. Four tokens are enough: at most two rows run, one more token is with a
worker that lost its row, and one is fresh. Two outcomes tell a late result from
the recorded one. Two faults let the item be lost by both workers.

For captures, two pages of one aircraft are what reuse by tail and the unique
receipt need; a page with a corrected identity, one with an open occurrence, a
plain one and one with no occurrence take every branch of the materialization.
Two requests are two uploads of one page, or of either; three listings allow one
per page and one more after a deletion. One fault is one deletion, crash, refused
or failed call: two would allow the same dead ends in more ways.

For reviews, one product is attested and the other is either approved or unknown,
so that an ingestion links one and puts the other up for review. Two ingestions
are the stale one and the one that replaces its review; a reader is a person or a
verification, and two of them overlap. One catalog change is a withdrawal, a new
attestation or a replaced one, at any step. A run of either module may stop when
all is done (`CHECK_DEADLOCK FALSE`).

Fairness. `FairSpec` has weak fairness of the steps of each invocation: the
runtime drives a live future, and its database and provider calls return or
fail. Nothing makes anyone start, die, age or click. `Drain` adds that the
operator keeps attempting both phases (strong fairness, because an attempt is
possible only between two invocations) and that an abandoned heartbeat ages;
heartbeats age only when no worker is alive, since a live one beats every 15
seconds while it works. `Works` assumes that a server that died is started
again, that a verification returns, with an error if need be, and that the clock
passes the expiry of a lease nobody works under; the worker's loop itself is
driven by the runtime and polls every ten seconds. In `SignedCapture` a request
that is not killed ends (weak), and the owner uploads each page again whenever
that is possible again and again (strong): nothing in the code retries by itself,
so what `Materializes` shows is that retrying is enough. In `ListingReview` an
ingestion and a finalizer go on once they began (weak); that somebody reviews,
restages and verifies is an assumption about people and the verification queue.

`Materializes` and `Settles` name the states they except: `Stuck`, `CutOff` and
`Wedged` are part of the result. They were found by removing the exception and
reading the counterexample.

### Two disagreements with the documentation

`docs/clean-replay.md:205` says that before any retry the coordinator derives an
already committed completion receipt and completes the ledger. `replay_wedge`
shows a reachable state in which it does not. A capture whose row carries an
extraction error is rejected for good when its item is admitted. A web reprocess
may later extract the same capture, bind it and record its receipt: nothing
stops it, the capture is not pinned. Reconciliation then finds a receipt for a
rejected item, its update matches no row, and the invocation ends with an error
(`run.rs:822` and `:963`) while the run stays `running` and the inventory
leased. Every later materialization of the manifest ends in the same place, so
members after that one are never reached and new captures stay frozen.

`docs/database.md:1488-1490` says that cancellation changes queued items to
`cancelled`, and that an item already running finishes under its lease before
the run becomes `cancelled`. `verification_postgres` shows how it fails on
PostgreSQL. An item is running and its lease has run out. The cancellation's
first update skips it, because it is not queued. Another server's reclaim puts
it back to `queued` and commits. The cancellation's second update finds no
running item and makes the run `cancelled` (`run.rs:868` and `:872`). The item
stays queued in a cancelled run: no claim takes it, no reclaim looks at it, a
second cancellation does nothing, and its listing is refused to every new run.
On SQLite the transaction is serialized and `RunTellsItems` holds, for every
value of the constants.

### What the capture and review models show of the code

These follow from reachable states of the two models; no run is listed for them.

- A failure that arrives late is written over a capture that another request has
  bound meanwhile (`plugin.rs:2709`). Every later upload then refuses the capture.
- A recovery that finds its correction already decided writes the receipt and
  does not finalize the listing (`plugin.rs:2145-2194`), which stays incomplete;
  `docs/database.md:1288-1291` says that a retry finalizes it.
- A recovery of a corrected capture that was overtaken puts a released, even a
  published listing back behind the gate with the recovery's values and URL
  (`listings.rs:3158-3242`, one UPDATE that asks nothing), and nothing gets it out
  again; `docs/webapp.md:335-337` says that verified listings cannot be updated
  through the user APIs. `PublishedIsKept` therefore does not say that published
  values never change: it names this step (`Overwrites`) and shows that no other
  request writes over them.
- `delete_listing` checks that the listing is unpublished before its transaction
  (`listings.rs:2070`): one published in between is deleted.
- A second page of an unverified aircraft joins the first page's listing and
  moves its URL. A receipt is unique to a listing, so one of the two captures
  never completes.
- If a reviewer publishes between staging and classification, the dispositions
  are never accepted and the capture never completes.
- The result update is no compare-and-set: with two different extractions of one
  page under way, the receipt may name a payload that was never classified. This
  is why `CompletionIsLast` asks for reproducible extractions.
- Even with reproducible extractions, the receipt of a page that needs no
  correction may name a listing for which nothing was classified. A request of
  page A classifies its listing and pauses before `plugin.rs:670`; page B of the
  same aircraft joins that listing and moves its URL; a second upload of A, under
  way since before A was bound, rewrites the listing of a page C whose request died,
  and binds A to it; the first request reads its row again and closes it. `plugin.rs:2199-2203`
  says that a receipt is written only after every child projection has finished.
  The proof of `CompletionIsLast` failed on this order (it takes three pages, one
  more than the instance has), and the property now promises the listing for
  corrected pages only, whose listing nobody can join.
- A decision on the whole review deletes and reinserts all links
  (`review.rs:10860`). A preserved automatic link loses its authorization row with
  the old link, and the finalizer that follows quarantines the listing with
  `avionics_authorization_invalidated`. `docs/webapp.md:752-760` says that only the
  covered links are replaced. The same happens to a link that
  `ApproveLocally` made, which never gets a row.
- A finalizer that runs between `ReplaceLinks` and `StageReview` of an ingestion
  publishes a listing whose open occurrences have not been put up yet. This is
  why `NothingIsLost` starts with the staging (`torn`).
- The hash of a review does not tell two stagings apart: a page read before a
  second ingestion can decide on its equal review although the links differ.
- An ingestion that dies after it rewrote a listing under review leaves it
  incomplete with a review: reviewers want `pending_review`, the finalizer wants
  no review (`CutOff`). A new ingestion gets it out.
- An occurrence that has a terminal disposition and is staged again can be
  settled aspect by aspect only; when it is linked as well, no review step takes
  it (`Wedged`).

## Proofs

The theorems about replay hold for every set of captures, manifests, workers, payloads and
sources that satisfies the named assumptions of `ReplayRun`: manifests are not
empty and pin known identities, every capture has a source, `None` is none of
the values.

Two inductive invariants carry everything. `LedgerInv` is about data: the type
invariant, a bound capture has a checkpoint (`BoundHasCheckpoint`), the row
constraints of items (`ItemShape`), what the program counter says of the locals
(`LocalsOK`), and the three facts worth having: pins, receipts and successes are
exact. None of the three is inductive alone. That a pin is exact after
`Finish` needs the attested row to be what the worker saw; that a success has its
receipt needs `LocalsOK` at `finish`, where the worker no longer looks; that
receipts stay exact needs the immutability trigger for every writer. `LeaseInv`
is about control: lease and running run agree, the freeze, items in flight, and
`OwnerHoldsItem`, the strengthening: a token found in a run is that of an
invocation working on that run, and the item in flight is its current one. It
rests on `LedgerInv` for types only.

| theorem | from |
|---|---|
| `LedgerIsExact`, then `Typing`, `PinnedCheckpoints`, `Receipts`, `LedgerSuccess` | `InitHolds`, one lemma per action, PTL |
| `LeaseIsFenced`, then `OneHolder`, `Freeze`, `ItemsInFlight`, `Claims`, `Completion` | the same, over `LedgerInv /\ LeaseInv` |
| `Fencing`, `Checkpoints` | action properties, from both invariants in each step |
| `Refinement` | `InitRefines` and `NextRefines`: only an item transition, activation and release are visible, everything else stutters |

Most actions leave the ledger alone, and the lease proofs treat them together:
`QuietStep` states when a step cannot disturb the lease invariant, and each
quiet action is shown to be one. `OwnedItemStep` does the same for the two
actions that change the item of the owner.

`VerificationRunProofs` rests on the assumptions of `VerificationRun`: requests
are not empty and name no listing twice, outcomes are item states, `None` is
none of the values. Its invariant is `QueueInv`: the four safety invariants of
the run, and three that make them inductive. `ItemsAsked` ties items to the
request, without which the order of a run means nothing; `CancelledByRun` says
that a cancelled item belongs to a run that is being cancelled, so that a claim
never passes over one; `JobsOK` says that a worker's token is its own, so that a
late worker cannot hold a row. The rows are reasoned about as a triple of tables
(`Rows`), because a claim passes through three of them before it commits:
`ReclaimKeepsRows`, `RefreshKeepsRows` and `ClaimKeepsRows` are composed in that
order. `ItemsKeepRows` is the lemma for all changes of single rows,
`OneRunKeepsRows` the one for changes of a whole run.

| theorem | from |
|---|---|
| `QueueIsConsistent`, then `Typing`, `OneRunPerListing`, `Order`, `RunsAndItems` | `InitHolds`, `UsersKeepInv`, `WorkerKeepsInv`, PTL |
| `Ends`, `Results` | `StepsAreRoutine` (no step but a finish ends an item with a result) and `FinishIsExact` |
| `RunRefinement` | `InitRefines`, `NextRefines`: `RefreshMayEnd` and `ReclaimGivesUp` for the parts of a transaction users see, `RunningIsDue` and `OneInFlight` for the order |

`SignedCaptureProofs` holds for any captures, payloads, listings and requests
that satisfy the assumptions of `SignedCapture`. `CaptureInv` adds to the checked
invariants what a request knows (`Knows`: what it holds in memory is typed by how
far it got, and its capture is stored once it extracted it), that a bound capture
has a payload (`BoundOK`), and that a listing which is not there claims nothing
(`FilledOK`). A step is looked at three times, as a change of requests
(`RequestsKnow`), of capture rows (`RowsMove`: a receipt freezes its row) and of
listings (`ListingsMove`: what each change of a listing may be), with one lemma
per action and view; the invariants and the action properties follow from the
views.

`SignedCaptureCompletionProofs` proves `CompletionIsLast`, over `CaptureInv`.
What is in a row says nothing of how it came there, so `CompletionInv` follows
the requests: all that a capture or a request holds was extracted from the page
(`Given`); a listing that a corrected page is bound to, worked on for or decided
on belongs to that one capture (`OneClaim`); a page that is always corrected is
worked on, classified and decided on the one listing it is bound to (`AtHome`);
and a request past classification leaves it behind (`Classified`). `OneClaim` is
what makes `AtHome` inductive: only the insertion that binds the capture can give
it a listing, and joins by tail carry payloads without correction. It is also what
`PublishedIsKept` rests on: a request about to write over a listing with a corrected
page recovers that page, found its listing gated, and if it no longer is, the
decision was the page's own (`RetakesOwn`), as no other capture has a claim.

`SignedCaptureRefinementProofs` maps every step. `ChangeRefines` says which
changes of one listing are a `Hold`, `Show`, `Publish` or a stutter
(`ChangeOK`), `WriteRefines` which changes of one capture are a `Write`; four
steps change two tables or a receipt and are shown one by one (`Enter`, `Decide`,
`Close`, `Remove`). `Remove` needs `DeletingOK`: the listing that a deletion has
checked is still there when its transaction comes.

`ListingReviewProofs` holds for any products, readers and bounds. `ReviewInv`
strengthens the checked invariants by `MatchesAreThere` (what an ingestion
matched is linked or waived until it stages, without which `NothingIsLost` is not
inductive), `CoversLinks` and `ReaderOK`: what a page read in this staging
differs from the present only by occurrences that are no longer open
(`Narrower`). A review can therefore be equal to the one that was read only if no
link was added, which is why the hash guards the links it does not contain, and
the proof of `DecidesWhatWasRead`. Most actions are of two kinds, `LightStep` and
`ReviewStep`, each shown once to keep the invariant.

| theorem | from |
|---|---|
| `CapturesAreConsistent`, then `CaptureTypes`, `ReceiptsStayExact`, `CorrectionsStayDecided` | `NextRows`, `NextKnows`, `NextListings`, PTL |
| `GateHolds` | action property, from `NextListings` |
| `PublishedStays` | action property, from `NextListings` and `RetakesOwn` |
| `CompletionIsConsistent`, then `ReceiptIsLast`, `ListingsHaveOneClaim` | `RequestMove`, `RowChange`, `DispositionsMove`, `NextLate`, PTL |
| `CaptureRefinement` | `InitRefines`, `NextRefines`, over `CaptureInv` and `DeletingOK` |
| `ReviewsAreConsistent`, then `ReviewTypes`, `PublishedStaysBacked`, `NoneIsLost` | `LightStepInv`, `ReviewStepInv`, five actions one by one, PTL |
| `DecisionsFitTheirPage` | action property, from `ReaderOK` |

Only model-checked: liveness (`InvocationEnds`, `ManifestDrains`, `RunsEnd`,
`Materializes`, `Settles`), which the prover does not reach. Every safety
invariant and action property of the passing runs is proved.

## Not modelled, and the plan

Done: the clean-replay coordinator with its schema and abstract ledger, durable
verification runs, signed captures with their abstract ledger, and listing reviews,
all with their proofs.
Next, most important first:

1. `AvionicsPlans`: consolidation and deletion plans, shown under a fingerprint
   and applied under the same one (`src/avionics/consolidation.rs:3210`,
   `deletion.rs`); an applied plan equals the shown one;
2. `ProviderCalls`: retries, timeouts and usage accounting
   (`src/gemini/interactions.rs:1323`); usage counts every attempt once;
3. `FaaSnapshots`: switching the current release under readers
   (`src/aircraft/faa/import.rs`, `store.rs`);
4. `SignedCapture` as a refinement of the web actions of `ReplayRun`, which needs
   a common row for captures and listings.

Of the modelled parts, these are left out: price observations, engines and
propellers, search and the manual edit form of the listing store; the revision of
an observation, the rebuild of all cards, replacement pairs and same-case evidence
of a review; the visual correction of a capture; the aircraft phase of an
automatic verification; manifest export and the manifest format.

Out of reach or not worth it: numerical fitting (`src/valuation`, floating
point), page parsing and prompting (`src/extract.rs`, `src/html`), schema
attestation (`src/db.rs`, a tenth of all lines), projections, catalog admission
and curation prompts (`src/gemini/curation`, `src/aircraft/curation`), and the
browser's rendering. Two fifths of the Rust lines are tests inside the modules,
and most of the rest normalizes text, checks evidence or builds SQL. Only a small
share of the lines takes part in a protocol, so the modules here can only cover a
small share of the lines.
