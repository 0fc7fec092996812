------------------------------ MODULE ReplayRun ------------------------------
(***************************************************************************)
(* The durable coordinator of a clean replay (src/listing/replay/run.rs):  *)
(* `replay-captures --apply` invocations that drive the members of a       *)
(* trusted capture manifest through extraction and materialization while   *)
(* the web application keeps running against the same database.           *)
(*                                                                         *)
(* A worker is one invocation and stands for its opaque owner token.  Its  *)
(* steps are the database transactions, and the reads between them, of     *)
(* replay_captures; between two steps anything else may happen: another    *)
(* invocation, a web request on the same capture, the death of the         *)
(* process.  The database constraints and triggers of                      *)
(* migrations/20260819_listing_replay_runs are guards of the steps they    *)
(* constrain.  Every failed guard of a fenced statement is an error that   *)
(* ends the invocation and leaves the run as it is (Abort).                *)
(***************************************************************************)
EXTENDS Naturals

CONSTANTS
  Captures,   \* plugin_submissions ids; a manifest is processed in id order
  Runs,       \* listing_replay_runs rows, one per manifest fingerprint
  Manifest,   \* Manifest[r]: the member captures of r and their pinned identity
  Workers,    \* invocations of replay-captures, i.e. owner tokens
  Payloads,   \* extraction results; a payload also stands for its SHA-256
  Sources,    \* (owner, source_url) pairs; also the listing that claims one
  SourceOf,   \* SourceOf[c]: the pair under which capture c was submitted
  MaxIdent,   \* bound: how many identities of a capture are distinguished
  Exposed,    \* bound: the captures the web application works on
  None

Idents == 1..MaxIdent

ASSUME IdentsExist == MaxIdent \in Nat \ {0}
ASSUME CapturesAreIds == Captures \subseteq Nat
ASSUME ManifestPinsMembers ==
  /\ DOMAIN Manifest = Runs
  /\ \A r \in Runs : /\ DOMAIN Manifest[r] \subseteq Captures
                     /\ DOMAIN Manifest[r] # {}
                     /\ \A c \in DOMAIN Manifest[r] : Manifest[r][c] \in Idents
ASSUME ExposedCaptures == Exposed \subseteq Captures
ASSUME SourceOfCapture == SourceOf \in [Captures -> Sources]
ASSUME NoneIsFresh == None \notin Runs \cup Workers \cup Payloads \cup Sources \cup Captures

VARIABLES
  members,    \* ids present in plugin_submissions
  ident,      \* identity (owner, install, page, signature) behind each id
  capture,    \* derived columns: checkpoint JSON, extraction error, bound listing
  receipt,    \* plugin_submission_materialization_receipts
  listings,   \* sources with an aircraft_sale_listings row
  lease,      \* listing_replay_submission_inventory_lock.active_run_id
  run,        \* listing_replay_runs
  item,       \* listing_replay_run_items
  pc,         \* where each invocation is in replay_captures
  inv         \* the locals of each invocation

captureVars == <<members, ident, capture, receipt, listings>>
ledgerVars  == <<lease, run, item>>
workerVars  == <<pc, inv>>
vars == <<captureVars, ledgerVars, workerVars>>

-----------------------------------------------------------------------------
Phases     == {"extraction", "materialization"}
ExtStates  == {"queued", "running", "succeeded", "rejected", "failed"}
MatStates  == {"blocked", "queued", "running", "succeeded", "rejected", "failed"}
Outcomes   == {"succeeded", "rejected", "failed"}
Operating  == {"extract", "store", "materialize", "bind", "resume", "record"}
Claimed    == {"admit", "finish"} \cup Operating
Working    == {"loop", "inspect", "reconcile", "claim", "validate", "release"} \cup Claimed
PCs        == {"idle", "ensure", "acquire"} \cup Working

CaptureRow == [ckpt : Payloads \cup {None}, err : BOOLEAN, listing : Sources \cup {None}]
Receipt    == [listing : Sources, ckpt : Payloads]
RunRow     == [status : {"absent", "queued", "running", "completed"},
               phase : Phases \cup {None}, owner : Workers \cup {None}, fresh : BOOLEAN]
ItemRow    == [ext : ExtStates, mat : MatStates,
               pin : Payloads \cup {None}, listing : Sources \cup {None}]
\* The locals of replay_captures: the request (run, phase, selected members still
\* to process, --recover-stale), the current member, what was read of its row and
\* receipt, the checkpoint hash the claim returned, and the transition to record.
Invocation == [run : Runs \cup {None}, phase : Phases, recover : BOOLEAN,
               todo : SUBSET Captures, cur : Captures \cup {None},
               seen : CaptureRow, sawReceipt : BOOLEAN,
               pin : Payloads \cup {None}, outcome : Outcomes]

ASSUME NoReceipt == None \notin [listing : Sources \cup {None}, ckpt : Payloads \cup {None}]

NewCapture == [ckpt |-> None, err |-> FALSE, listing |-> None]
NewItem    == [ext |-> "queued", mat |-> "blocked", pin |-> None, listing |-> None]
Unclaimed(status) == [status |-> status, phase |-> None, owner |-> None, fresh |-> FALSE]
NoInvocation == [run |-> None, phase |-> "extraction", recover |-> FALSE,
                 todo |-> {}, cur |-> None, seen |-> NewCapture, sawReceipt |-> FALSE,
                 pin |-> None, outcome |-> "failed"]

Members(r) == DOMAIN Manifest[r]

\* Exact submission membership of a stored run (exact_run_target_membership_sql).
MembershipMatches(r) == members = Members(r)

\* One member still is the exact capture its manifest describes
\* (exact_manifest_target_relation, a guard of every item transition).
ManifestTarget(r, c) == c \in members /\ ident[c] = Manifest[r][c]

\* Membership and identity of the whole manifest (validate_target_capture_rows).
TargetExact(r) == MembershipMatches(r) /\ \A c \in Members(r) : ManifestTarget(r, c)

\* A capture some run pinned: the condition of plugin_submissions_replay_checkpoint_immutable.
Pinned(c) == \E r \in Runs : item[r][c].ext = "succeeded"
\* Mutants: the trigger forgets one of its two conditions.
ImmutableOncePinned(c) == Pinned(c)
ImmutableOnceReceipted(c) == receipt[c] # None
Immutable(c) == Pinned(c) \/ receipt[c] # None

\* The fence: the run is running and the token in its row is this worker's.
Owns(w) == /\ inv[w].run # None
           /\ run[inv[w].run].status = "running"
           /\ run[inv[w].run].owner = w
OwnsPhase(w) == Owns(w) /\ run[inv[w].run].phase = inv[w].phase

Refused(row)  == row.mat = "rejected" \/ row.ext = "rejected"
Terminal(row) == row.mat = "succeeded" \/ Refused(row)

-----------------------------------------------------------------------------
\* The captures of some manifest were imported with their derived columns reset
\* (import_trusted_capture_manifest, which requires an empty target).
Init ==
  /\ members \in {Members(r) : r \in Runs}
  /\ ident = [c \in Captures |-> 1]
  /\ capture = [c \in Captures |-> NewCapture]
  /\ receipt = [c \in Captures |-> None]
  /\ listings = {}
  /\ lease = None
  /\ run = [r \in Runs |-> Unclaimed("absent")]
  /\ item = [r \in Runs |-> [c \in Captures |-> NewItem]]
  /\ pc = [w \in Workers |-> "idle"]
  /\ inv = [w \in Workers |-> NoInvocation]

-----------------------------------------------------------------------------
(* Invocations *)

Goto(w, label) == pc' = [pc EXCEPT ![w] = label]
SetInv(w, i)   == inv' = [inv EXCEPT ![w] = i]
\* The locals of one iteration, and of an ended invocation, are gone.
NextItem(w)    == /\ Goto(w, "loop")
                  /\ SetInv(w, [inv[w] EXCEPT !.cur = None, !.seen = NewCapture,
                                    !.sawReceipt = FALSE, !.pin = None, !.outcome = "failed"])
End(w)         == Goto(w, "idle") /\ SetInv(w, NoInvocation)
Abort(w)       == End(w) /\ UNCHANGED <<captureVars, ledgerVars>>

\* The claimed item gets its transition from `finish`.
Conclude(w, outcome) ==
  /\ Goto(w, "finish")
  /\ SetInv(w, [inv[w] EXCEPT !.outcome = outcome])

\* Every invocation draws a new random token: the token of an ended invocation
\* stands for a new one as soon as no run carries it.
FreshToken(w) == \A r \in Runs : run[r].owner # w

\* Manifest validation, selection and the first target validation; an invalid
\* target, an unknown --submission-id and a dry run change nothing.
Start(w, r, phase, selected, recover) ==
  /\ pc[w] = "idle" /\ FreshToken(w)
  /\ TargetExact(r)
  /\ SetInv(w, [NoInvocation EXCEPT !.run = r, !.phase = phase,
                                    !.todo = selected, !.recover = recover])
  /\ Goto(w, "ensure")
  /\ UNCHANGED <<captureVars, ledgerVars>>

\* ensure_run inserts the run and its queued items once (ON CONFLICT DO NOTHING);
\* a completed run only reports.
EnsureRun(w) ==
  LET r == inv[w].run IN
  /\ pc[w] = "ensure"
  /\ run' = IF run[r].status = "absent" THEN [run EXCEPT ![r] = Unclaimed("queued")] ELSE run
  /\ IF run[r].status = "completed" THEN End(w)
     ELSE Goto(w, "acquire") /\ UNCHANGED inv
  /\ UNCHANGED <<captureVars, lease, item>>

\* Mutant: recovery displaces the holder and forgets its item.
NotRecovered(row) == row

\* Stale recovery returns the fenced in-flight item to a retryable state.
Recovered(row) ==
  [row EXCEPT !.ext = IF @ = "running" THEN "failed" ELSE @,
              !.mat = IF row.ext = "running" THEN "blocked"
                      ELSE IF @ = "running" THEN "failed" ELSE @]

\* The inventory is free, or its stale holder may be displaced explicitly.
InventoryAvailable(recover) ==
  IF lease = None
  THEN \A q \in Runs : run[q].status # "running"
  ELSE /\ run[lease].status = "running"
       /\ MembershipMatches(lease)
       /\ recover
       /\ ~run[lease].fresh

\* One transaction: displace the stale holder, prove the target, take the
\* inventory lease and activate the run.
Acquire(w) ==
  LET r == inv[w].run
      available == /\ InventoryAvailable(inv[w].recover)
                   /\ TargetExact(r)
                   /\ run[r].status = "queued" \/ lease = r
  IN /\ pc[w] = "acquire"
     /\ \/ /\ available
           /\ item' = [q \in Runs |-> IF q = lease
                                      THEN [c \in Captures |-> Recovered(item[q][c])]
                                      ELSE item[q]]
           /\ run' = [q \in Runs |->
                        IF q = r THEN [status |-> "running", phase |-> inv[w].phase,
                                       owner |-> w, fresh |-> TRUE]
                        ELSE IF q = lease THEN Unclaimed("queued") ELSE run[q]]
           /\ lease' = r
           /\ Goto(w, "loop")
           /\ UNCHANGED <<captureVars, inv>>
        \/ ~available /\ Abort(w)

\* heartbeat_run: refreshes the row only while this token owns it.
Beat(w) == run' = IF Owns(w) THEN [run EXCEPT ![inv[w].run].fresh = TRUE] ELSE run

\* The head of the member loop.  The count of heartbeat_run is not looked at here.
NextMember(w) ==
  /\ pc[w] = "loop"
  /\ \/ /\ inv[w].todo = {}
        /\ Goto(w, "validate")
        /\ UNCHANGED <<run, inv>>
     \/ \E c \in inv[w].todo :
          /\ \A d \in inv[w].todo : c <= d
          /\ Beat(w)
          /\ SetInv(w, [inv[w] EXCEPT !.cur = c, !.todo = @ \ {c}])
          /\ Goto(w, IF inv[w].phase = "extraction" THEN "claim" ELSE "inspect")
  /\ UNCHANGED <<captureVars, lease, item>>

\* What inspect_plugin_replay_capture_state returns for the current member.
Observe(w) == [inv[w] EXCEPT !.seen = capture[inv[w].cur],
                             !.sawReceipt = receipt[inv[w].cur] # None]

\* Materialization first looks for domain commits the ledger missed.  A capture
\* with an extraction error fails inspection and goes on to the claim.
Inspect(w) ==
  LET row == capture[inv[w].cur] IN
  /\ pc[w] = "inspect"
  /\ SetInv(w, Observe(w))
  /\ Goto(w, IF row.err \/ row.ckpt = None THEN "claim" ELSE "reconcile")
  /\ UNCHANGED <<captureVars, ledgerVars>>

\* reconcile_exact_checkpoint: a checkpoint proves extraction, a receipt proves
\* materialization; the attested row must still be the row that was read.
Reconcile(w) ==
  LET r == inv[w].run
      c == inv[w].cur
      seen == inv[w].seen
      done == inv[w].sawReceipt
      old == item[r][c]
      exact == ManifestTarget(r, c) /\ capture[c] = seen
      recorded == /\ OwnsPhase(w)
                  /\ old.ext = "succeeded" /\ old.pin = seen.ckpt
                  /\ IF done THEN old.mat = "succeeded" /\ old.listing = seen.listing
                             ELSE old.mat = "rejected"
      open == /\ OwnsPhase(w)
              /\ ~Terminal(old)
              /\ old.pin \in {None, seen.ckpt}
      new == [ext |-> "succeeded", pin |-> seen.ckpt,
              mat |-> IF done THEN "succeeded"
                      ELSE IF old.mat = "blocked" THEN "queued" ELSE old.mat,
              listing |-> IF done THEN seen.listing ELSE old.listing]
  IN /\ pc[w] = "reconcile"
     /\ \/ /\ exact /\ (recorded \/ open)
           /\ item' = IF recorded THEN item ELSE [item EXCEPT ![r][c] = new]
           /\ IF done THEN NextItem(w) ELSE Goto(w, "claim") /\ UNCHANGED inv
           /\ UNCHANGED <<captureVars, lease, run>>
        \/ /\ ~(exact /\ (recorded \/ open))
           /\ Abort(w)

\* Mutant: a rejected materialization may be tried again.
ClaimableAfterRejection(w, row) ==
  /\ OwnsPhase(w)
  /\ ManifestTarget(inv[w].run, inv[w].cur)
  /\ IF inv[w].phase = "extraction"
     THEN row.ext \in {"queued", "failed"}
     ELSE row.ext = "succeeded" /\ row.mat \in {"queued", "failed", "rejected"}

\* claim_item: an item that cannot be claimed is skipped, unless the target drifted.
Claimable(w, row) ==
  /\ OwnsPhase(w)
  /\ ManifestTarget(inv[w].run, inv[w].cur)
  /\ IF inv[w].phase = "extraction"
     THEN row.ext \in {"queued", "failed"}
     ELSE row.ext = "succeeded" /\ row.mat \in {"queued", "failed"}

Claim(w) ==
  LET r == inv[w].run
      c == inv[w].cur
      row == item[r][c]
  IN /\ pc[w] = "claim"
     /\ \/ /\ MembershipMatches(r) /\ Claimable(w, row)
           /\ item' = [item EXCEPT ![r][c] =
                         IF inv[w].phase = "extraction" THEN [@ EXCEPT !.ext = "running"]
                                                        ELSE [@ EXCEPT !.mat = "running"]]
           /\ SetInv(w, [inv[w] EXCEPT !.pin = row.pin])
           /\ Goto(w, "admit")
           /\ UNCHANGED <<captureVars, lease, run>>
        \/ /\ TargetExact(r) /\ ~Claimable(w, row)
           /\ NextItem(w)
           /\ UNCHANGED <<captureVars, ledgerVars>>
        \/ /\ ~MembershipMatches(r) \/ (~Claimable(w, row) /\ ~TargetExact(r))
           /\ Abort(w)

\* The inspection after the claim decides what this attempt has to do.  A capture
\* that fails admission is rejected for good; a database error is a retryable failure.
Admit(w) ==
  LET row == capture[inv[w].cur]
      next == [Observe(w) EXCEPT !.outcome =
                 IF row.err THEN "rejected"
                 ELSE IF inv[w].phase = "extraction" \/ receipt[inv[w].cur] # None
                 THEN "succeeded" ELSE "failed"]
      step == IF row.err THEN "finish"
              ELSE IF inv[w].phase = "extraction"
              THEN IF row.ckpt # None THEN "finish"
                   ELSE IF row.listing # None THEN "idle" ELSE "extract"
              ELSE IF receipt[inv[w].cur] # None \/ row.ckpt = None
              THEN "finish" ELSE "materialize"
  IN /\ pc[w] = "admit"
     /\ \/ step # "idle" /\ SetInv(w, next) /\ Goto(w, step)
        \/ step = "idle" /\ End(w)
        \/ Conclude(w, "failed")
     /\ UNCHANGED <<captureVars, ledgerVars>>

\* checkpoint_plugin_submission_extraction up to its provider answer.
Extract(w) ==
  /\ pc[w] = "extract"
  /\ \/ /\ capture[inv[w].cur].listing = None
        /\ \E p \in Payloads : SetInv(w, [inv[w] EXCEPT !.seen = [NewCapture EXCEPT !.ckpt = p]])
        /\ Goto(w, "store")
     \/ Conclude(w, "failed")
  /\ UNCHANGED <<captureVars, ledgerVars>>

\* Mutant: the update does not look for a checkpoint committed meanwhile.
StoreCheckpointAnyway(w) ==
  /\ pc[w] = "store"
  /\ capture[inv[w].cur].listing = None /\ ~capture[inv[w].cur].err
  /\ capture' = [capture EXCEPT ![inv[w].cur].ckpt = inv[w].seen.ckpt]
  /\ Conclude(w, "succeeded")
  /\ UNCHANGED <<members, ident, receipt, listings, ledgerVars>>

\* store_plugin_extraction_checkpoint: first writer wins, and no owner token is
\* consulted: a displaced worker may still get here.
StoreCheckpoint(w) ==
  LET c == inv[w].cur IN
  /\ pc[w] = "store"
  /\ \/ /\ capture[c] = NewCapture
        /\ capture' = [capture EXCEPT ![c].ckpt = inv[w].seen.ckpt]
        /\ Conclude(w, "succeeded")
     \/ /\ capture[c] # NewCapture
        /\ Conclude(w, "failed")
        /\ UNCHANGED capture
  /\ UNCHANGED <<members, ident, receipt, listings, ledgerVars>>

\* materialize_plugin_submission_checkpoint up to the binding transaction: the
\* pinned hash, the preflight of the source claim and aircraft admission.
Materialize(w) ==
  LET c == inv[w].cur
      row == capture[c]
      ready == row.ckpt # None /\ row.ckpt = inv[w].pin
  IN /\ pc[w] = "materialize"
     /\ \/ /\ ready /\ row.listing # None
           /\ SetInv(w, Observe(w)) /\ Goto(w, "resume")
        \/ /\ ready /\ row.listing = None /\ ~row.err
           /\ SourceOf[c] \notin listings
           /\ SetInv(w, Observe(w)) /\ Goto(w, "bind")
        \/ /\ ready /\ row.listing = None /\ ~row.err
           /\ SourceOf[c] \notin listings
           /\ Conclude(w, "rejected")
        \/ Conclude(w, "failed")
     /\ UNCHANGED <<captureVars, ledgerVars>>

\* The row is still the row that was read: the predicate of an exact compare-and-set.
SameRow(w) == inv[w].cur \in members /\ capture[inv[w].cur] = inv[w].seen

\* The listing insert and the exact capture compare-and-set, in one transaction.
\* When it fails the capture is read again: bound meanwhile means resume.
Bind(w) ==
  LET c == inv[w].cur
      binds == SameRow(w) /\ SourceOf[c] \notin listings
  IN /\ pc[w] = "bind"
     /\ \/ /\ binds
           /\ capture' = [capture EXCEPT ![c].listing = SourceOf[c]]
           /\ listings' = listings \cup {SourceOf[c]}
           /\ SetInv(w, [inv[w] EXCEPT !.seen = capture'[c]])
           /\ Goto(w, "record")
        \/ /\ ~binds
           /\ IF capture[c].listing = None
              THEN Conclude(w, "failed")
              ELSE SetInv(w, Observe(w)) /\ Goto(w, "resume")
           /\ UNCHANGED <<capture, listings>>
     /\ UNCHANGED <<members, ident, receipt, ledgerVars>>

\* Child projections, then record_materialization_receipt.  Only an exact row
\* obtains a receipt, one per capture and one per listing.  A worker that resumes
\* a bound capture accepts the exact receipt it finds; one that has just bound it
\* compares with the unbound row it had read, and fails.
ReceiptFor(row) == [listing |-> row.listing, ckpt |-> row.ckpt]
ReceiptFree(c, row) ==
  /\ receipt[c] = None
  /\ \A d \in Captures : receipt[d] # None => receipt[d].listing # row.listing

\* Mutant: the member is reported done once its listing is bound.
CompleteWithoutReceipt(w) ==
  /\ pc[w] \in {"resume", "record"}
  /\ Conclude(w, "succeeded")
  /\ UNCHANGED <<captureVars, ledgerVars>>

Complete(w) ==
  LET c == inv[w].cur
      seen == inv[w].seen
  IN /\ pc[w] \in {"resume", "record"}
     /\ \/ /\ \/ /\ pc[w] = "resume" /\ receipt[c] = ReceiptFor(seen)
                 /\ UNCHANGED receipt
              \/ /\ SameRow(w) /\ ~seen.err
                 /\ ReceiptFree(c, seen)
                 /\ receipt' = [receipt EXCEPT ![c] = ReceiptFor(seen)]
           /\ Conclude(w, "succeeded")
        \/ Conclude(w, "failed") /\ UNCHANGED receipt
     /\ UNCHANGED <<members, ident, capture, listings, ledgerVars>>

\* finish_succeeded, finish_rejected, finish_failed: the owned item transition.
\* A successful extraction also locks the attested capture row.
Finished(w, row) ==
  LET out == inv[w].outcome IN
  IF inv[w].phase = "extraction"
  THEN [row EXCEPT !.ext = out,
                   !.mat = IF out = "succeeded" THEN "queued" ELSE "blocked",
                   !.pin = IF out = "succeeded" THEN inv[w].seen.ckpt ELSE @]
  ELSE [row EXCEPT !.mat = out,
                   !.listing = IF out = "succeeded" THEN inv[w].seen.listing ELSE @]

\* Mutant: the item transition does not name the owner token.
FinishGuardUnfenced(w) ==
  LET row == item[inv[w].run][inv[w].cur] IN
  /\ run[inv[w].run].status = "running"
  /\ IF inv[w].phase = "extraction" THEN row.ext = "running" ELSE row.mat = "running"
  /\ (inv[w].outcome = "succeeded" /\ inv[w].phase = "extraction") =>
       row.pin \in {None, inv[w].seen.ckpt} /\ capture[inv[w].cur] = inv[w].seen

FinishGuard(w) ==
  LET r == inv[w].run
      c == inv[w].cur
      row == item[r][c]
  IN /\ Owns(w)
     /\ ManifestTarget(r, c)
     /\ IF inv[w].phase = "extraction" THEN row.ext = "running" ELSE row.mat = "running"
     /\ inv[w].outcome = "succeeded" => MembershipMatches(r)
     /\ (inv[w].outcome = "succeeded" /\ inv[w].phase = "extraction") =>
          /\ row.pin \in {None, inv[w].seen.ckpt}
          /\ capture[c] = inv[w].seen

Finish(w) ==
  /\ pc[w] = "finish"
  /\ \/ /\ FinishGuard(w)
        /\ item' = [item EXCEPT ![inv[w].run][inv[w].cur] = Finished(w, @)]
        /\ NextItem(w)
        /\ UNCHANGED <<captureVars, lease, run>>
     \/ ~FinishGuard(w) /\ Abort(w)

\* with_heartbeat: a worker that lost its run drops the operation in flight.
HeartbeatTick(w) ==
  /\ pc[w] \in Operating
  /\ \/ /\ Owns(w)
        /\ Beat(w)
        /\ UNCHANGED <<captureVars, lease, item, workerVars>>
     \/ ~Owns(w) /\ Abort(w)

ValidateTarget(w) ==
  /\ pc[w] = "validate"
  /\ \/ /\ TargetExact(inv[w].run)
        /\ Goto(w, "release")
        /\ UNCHANGED <<captureVars, ledgerVars, inv>>
     \/ ~TargetExact(inv[w].run) /\ Abort(w)

\* Mutants: the run is closed after one pass; the inventory is not given back; a
\* worker that lost its run waits for it.
ReleaseWith(w, status, holder) ==
  /\ pc[w] = "release"
  /\ Owns(w) /\ lease = inv[w].run /\ MembershipMatches(inv[w].run)
  /\ run' = [run EXCEPT ![inv[w].run] = Unclaimed(status)]
  /\ lease' = holder
  /\ End(w)
  /\ UNCHANGED <<captureVars, item>>
ReleaseCompletes(w) == ReleaseWith(w, "completed", None)
ReleaseKeepsInventory(w) == ReleaseWith(w, "queued", lease)
ReleaseWaits(w) == ReleaseWith(w, "queued", None)

\* release_run: completes the run when every member is terminal, otherwise queues
\* it again, and gives the inventory back, in one transaction.
Release(w) ==
  LET r == inv[w].run
      owned == lease = r /\ MembershipMatches(r) /\ Owns(w)
  IN /\ pc[w] = "release"
     /\ \/ /\ owned
           /\ run' = [run EXCEPT ![r] = Unclaimed(
                        IF \A c \in Members(r) : Terminal(item[r][c])
                        THEN "completed" ELSE "queued")]
           /\ lease' = None
           /\ End(w)
           /\ UNCHANGED <<captureVars, item>>
        \/ ~owned /\ Abort(w)

\* The process is killed, or a database error ends the invocation.
Stop(w) == pc[w] # "idle" /\ Abort(w)

\* An hour passes without a heartbeat (STALE_RECOVERY_THRESHOLD).
HeartbeatAges(r) ==
  /\ run[r].fresh
  /\ run' = [run EXCEPT ![r].fresh = FALSE]
  /\ UNCHANGED <<captureVars, lease, item, workerVars>>

-----------------------------------------------------------------------------
(* The web application and the operator, on the same captures *)

WebUnchanged == UNCHANGED <<ledgerVars, workerVars>>

\* Mutants: the membership and identity triggers look at no lease.
AdmitCaptureUnfrozen(c, p) ==
  /\ c \notin members
  /\ members' = members \cup {c}
  /\ capture' = [capture EXCEPT ![c] = [NewCapture EXCEPT !.ckpt = p, !.err = (p = None)]]
  /\ UNCHANGED <<ident, receipt, listings>> /\ WebUnchanged
ChangeIdentityUnfrozen(c) ==
  /\ c \in members /\ ident[c] < MaxIdent
  /\ ident' = [ident EXCEPT ![c] = @ + 1]
  /\ UNCHANGED <<members, capture, receipt, listings>> /\ WebUnchanged

\* A new signed capture is stored with what its extraction gave, a checkpoint or
\* an error; the freeze trigger refuses it while a run holds the lease.
AdmitCapture(c, p) ==
  /\ c \notin members /\ lease = None
  /\ members' = members \cup {c}
  /\ capture' = [capture EXCEPT ![c] = [NewCapture EXCEPT !.ckpt = p, !.err = (p = None)]]
  /\ UNCHANGED <<ident, receipt, listings>> /\ WebUnchanged

\* Owner, install or page columns change; frozen while a run holds the lease.
ChangeIdentity(c) ==
  /\ c \in members /\ lease = None /\ ident[c] < MaxIdent
  /\ ident' = [ident EXCEPT ![c] = @ + 1]
  /\ UNCHANGED <<members, capture, receipt, listings>> /\ WebUnchanged

\* The columns a web request writes must satisfy the immutability trigger.
WebWrite(c, row) ==
  /\ c \in members
  /\ Immutable(c) =>
       /\ row.ckpt = capture[c].ckpt /\ row.err = capture[c].err
       /\ row.listing # capture[c].listing =>
            capture[c].listing = None /\ receipt[c] = None
  /\ capture' = [capture EXCEPT ![c] = row]

\* Submit or reprocess binds a new listing to an extracted checkpoint.
WebBind(c, p) ==
  /\ capture[c].listing = None /\ SourceOf[c] \notin listings
  /\ WebWrite(c, [ckpt |-> p, err |-> FALSE, listing |-> SourceOf[c]])
  /\ listings' = listings \cup {SourceOf[c]}
  /\ UNCHANGED <<members, ident, receipt>> /\ WebUnchanged

\* update_plugin_submission_result of a request that failed; it compares nothing,
\* so a request that began before a binding may still land after it.
WebRecordFailure(c, p) ==
  /\ WebWrite(c, [capture[c] EXCEPT !.ckpt = p, !.err = TRUE])
  /\ UNCHANGED <<members, ident, receipt, listings>> /\ WebUnchanged

\* The same update by the request that had bound the capture.
WebRecordSuccess(c, p) ==
  /\ capture[c].listing # None
  /\ WebWrite(c, [capture[c] EXCEPT !.ckpt = p, !.err = FALSE])
  /\ UNCHANGED <<members, ident, receipt, listings>> /\ WebUnchanged

\* Mutant: the receipt is recorded for a capture nothing is bound to.
WebCompleteUnbound(c) ==
  /\ capture[c].ckpt # None /\ ~capture[c].err
  /\ receipt[c] = None
  /\ receipt' = [receipt EXCEPT ![c] = ReceiptFor(capture[c])]
  /\ UNCHANGED <<members, ident, capture, listings>> /\ WebUnchanged

\* The request's child projections are done and it records the receipt.
WebComplete(c) ==
  /\ capture[c].listing # None /\ capture[c].ckpt # None /\ ~capture[c].err
  /\ ReceiptFree(c, capture[c])
  /\ receipt' = [receipt EXCEPT ![c] = ReceiptFor(capture[c])]
  /\ UNCHANGED <<members, ident, capture, listings>> /\ WebUnchanged

\* DELETE /api/listings: provenance keeps the listing, and the detaching update
\* is refused for a pinned capture.
WebDeleteListing(c) ==
  /\ capture[c].listing # None /\ ~Immutable(c)
  /\ capture' = [capture EXCEPT ![c].listing = None]
  /\ listings' = listings \ {capture[c].listing}
  /\ UNCHANGED <<members, ident, receipt>> /\ WebUnchanged

-----------------------------------------------------------------------------
WorkerStep(w) ==
  \/ EnsureRun(w) \/ Acquire(w) \/ NextMember(w)
  \/ Inspect(w) \/ Reconcile(w) \/ Claim(w) \/ Admit(w)
  \/ Extract(w) \/ StoreCheckpoint(w)
  \/ Materialize(w) \/ Bind(w) \/ Complete(w)
  \/ Finish(w) \/ ValidateTarget(w) \/ Release(w)

Selections(r) == {Members(r)} \cup {{c} : c \in Members(r)}

Invocations ==
  \E w \in Workers :
    \/ \E r \in Runs, phase \in Phases, recover \in BOOLEAN :
         \E selected \in Selections(r) : Start(w, r, phase, selected, recover)
    \/ WorkerStep(w)
    \/ HeartbeatTick(w)
    \/ Stop(w)

Environment ==
  \/ \E r \in Runs : HeartbeatAges(r)
  \/ \E c \in Captures : ChangeIdentity(c)
  \/ \E c \in Exposed :
       \/ \E p \in Payloads \cup {None} : AdmitCapture(c, p)
       \/ \E p \in Payloads : WebBind(c, p) \/ WebRecordSuccess(c, p)
       \/ \E p \in Payloads \cup {capture[c].ckpt} : WebRecordFailure(c, p)
       \/ WebComplete(c) \/ WebDeleteListing(c)

Next == Invocations \/ Environment

Spec == Init /\ [][Next]_vars

\* The runtime keeps driving an invocation: its database calls and provider
\* calls return or fail.  Nothing makes an invocation start, a process die, a
\* heartbeat age or a user act.
FairSpec == Spec /\ \A w \in Workers : WF_vars(WorkerStep(w))

-----------------------------------------------------------------------------
(* Properties *)

\* Every row and every local of an invocation stays within its columns' domains.
TypeOK ==
  /\ members \subseteq Captures
  /\ ident \in [Captures -> Idents]
  /\ capture \in [Captures -> CaptureRow]
  /\ receipt \in [Captures -> Receipt \cup {None}]
  /\ listings \subseteq Sources
  /\ lease \in Runs \cup {None}
  /\ run \in [Runs -> RunRow]
  /\ item \in [Runs -> [Captures -> ItemRow]]
  /\ pc \in [Workers -> PCs]
  /\ inv \in [Workers -> Invocation]

\* The inventory lease and the run ledger are two tables moved together by
\* acquire_run and release_run: the lease always names the one running run.
LeaseIsTheRunningRun ==
  \A r \in Runs : lease = r <=> run[r].status = "running"

\* While a run is active its target is exactly the manifest it was activated for:
\* activation proves it and the freeze triggers keep it through every later step.
FreezeHolds == lease # None => TargetExact(lease)

InFlight(r, c) == item[r][c].ext = "running" \/ item[r][c].mat = "running"

\* An item in flight belongs to the active run, in the active phase, and it is the
\* only one: recovery and release leave no item behind that nobody can retry.
RunningItemsAreLeased ==
  \A r \in Runs, c \in Captures : InFlight(r, c) =>
    /\ lease = r
    /\ run[r].phase = IF item[r][c].ext = "running" THEN "extraction" ELSE "materialization"
    /\ \A d \in Captures : InFlight(r, d) => d = c

\* Between its claim and its finish an invocation that still owns the run keeps
\* its item: nobody else finishes, recovers or reconciles it.
ClaimSurvivesUntilFinish ==
  \A w \in Workers : (Owns(w) /\ pc[w] \in Claimed) =>
    /\ OwnsPhase(w)
    /\ IF inv[w].phase = "extraction"
       THEN item[inv[w].run][inv[w].cur].ext = "running"
       ELSE item[inv[w].run][inv[w].cur].mat = "running"

\* What a run pinned is, from then on, what the signed capture holds, so that
\* materialization and every other run of the manifest use the same payload.
PinnedCheckpointIsExact ==
  \A r \in Runs, c \in Captures : item[r][c].ext = "succeeded" =>
    /\ capture[c].ckpt = item[r][c].pin
    /\ ~capture[c].err

\* A receipt attests the row as it is: the bound listing, the checkpoint, no error.
ReceiptIsExact ==
  \A c \in Captures : receipt[c] # None =>
    capture[c] = [ckpt |-> receipt[c].ckpt, err |-> FALSE, listing |-> receipt[c].listing]

\* A ledger success is backed by the completion receipt of the same listing and
\* checkpoint, also when the worker died between the two writes.
SucceededHasReceipt ==
  \A r \in Runs, c \in Captures : item[r][c].mat = "succeeded" =>
    receipt[c] = [listing |-> item[r][c].listing, ckpt |-> item[r][c].pin]

\* A run is completed only when every member is settled, and stays so.
CompletedIsTerminal ==
  \A r \in Runs : run[r].status = "completed" =>
    \A c \in Members(r) : Terminal(item[r][c])

\* What the documentation promises of a materialization attempt: a completion
\* receipt that is found lets it complete the ledger.  It does not hold: an item
\* that was rejected before the receipt was written is refused (see README).
ReceiptCompletesLedger ==
  \A w \in Workers :
    (pc[w] = "reconcile" /\ OwnsPhase(w) /\ inv[w].sawReceipt) =>
       ~Refused(item[inv[w].run][inv[w].cur])

\* The token fences the ledger: a worker whose step changes an item, the run that
\* holds the inventory or a run's status owns the run, or takes it over right then.
FencedStep ==
  \A w \in Workers :
    (pc'[w] # pc[w] /\ (item' # item \/ lease' # lease)) => Owns(w) \/ Owns(w)'
DisplacedWorkerIsFenced == [][FencedStep]_vars

\* The first committed extraction checkpoint is never replaced by an invocation,
\* not even by a displaced one that comes late (StoreCheckpoint has no fence).
KeepsCheckpoints ==
  (pc' # pc) => \A c \in Captures :
    capture[c].ckpt # None => capture'[c].ckpt = capture[c].ckpt
FirstCheckpointWins == [][KeepsCheckpoints]_vars

\* Every invocation that started ends, whatever other invocations and the web
\* application do meanwhile: no guard of a step can leave it waiting.
InvocationEnds == \A w \in Workers : pc[w] # "idle" ~> pc[w] = "idle"

-----------------------------------------------------------------------------
(* What the invariants above rest on: the inductive invariant of the proofs. *)

\* A bound capture exists and retains the checkpoint its listing was built from.
BoundHasCheckpoint ==
  \A c \in Captures : capture[c].listing # None => capture[c].ckpt # None /\ c \in members

\* The row constraints of listing_replay_run_items, and the capture of a pinned
\* item is a member.
ItemShape ==
  \A r \in Runs, c \in Captures :
    /\ item[r][c].mat # "blocked" => item[r][c].ext = "succeeded"
    /\ item[r][c].ext = "succeeded" => item[r][c].pin # None /\ c \in members

\* What the program counter says of the locals of an invocation.
LocalsAt(w) ==
  LET i == inv[w]
      row == i.seen
  IN /\ pc[w] # "idle" => i.run # None
     /\ i.run # None => i.todo \subseteq Members(i.run)
     /\ pc[w] \in {"inspect", "reconcile", "claim"} \cup Claimed => i.cur \in Members(i.run)
     /\ pc[w] = "reconcile" => /\ row.ckpt # None /\ ~row.err
                               /\ i.sawReceipt => receipt[i.cur] # None
     /\ pc[w] \in {"store", "bind"} => row.ckpt # None /\ ~row.err
     /\ pc[w] = "bind" => row.listing = None
     /\ pc[w] \in {"resume", "record"} => row.ckpt # None /\ row.listing # None
     /\ pc[w] \in {"extract", "store"} => i.phase = "extraction"
     /\ pc[w] \in {"materialize", "bind", "resume", "record"} => i.phase = "materialization"
     /\ (pc[w] = "finish" /\ i.outcome = "succeeded") =>
          IF i.phase = "extraction"
          THEN row.ckpt # None /\ ~row.err
          ELSE receipt[i.cur] # None /\ receipt[i.cur].listing = row.listing
LocalsOK == \A w \in Workers : LocalsAt(w)

\* An item in flight is the current item of the token that owns the run, when
\* that invocation is alive; a token about to acquire a run is carried by none.
OwnerHoldsItem ==
  /\ \A w \in Workers, r \in Runs :
       (run[r].owner = w /\ pc[w] # "idle") => pc[w] \in Working /\ inv[w].run = r
  /\ \A w \in Workers, r \in Runs, c \in Captures :
       (run[r].owner = w /\ pc[w] # "idle" /\ InFlight(r, c)) =>
          pc[w] \in Claimed /\ inv[w].cur = c

LedgerInv ==
  /\ TypeOK /\ BoundHasCheckpoint /\ ItemShape /\ LocalsOK
  /\ PinnedCheckpointIsExact /\ ReceiptIsExact /\ SucceededHasReceipt

LeaseInv ==
  /\ LeaseIsTheRunningRun /\ FreezeHolds
  /\ RunningItemsAreLeased /\ OwnerHoldsItem
  /\ ClaimSurvivesUntilFinish /\ CompletedIsTerminal

-----------------------------------------------------------------------------
(* The ledger and its lease implement ReplayLedger. *)

Settled(row) ==
  IF row.mat = "succeeded" THEN "succeeded"
  ELSE IF Refused(row) THEN "refused" ELSE "open"

Ledger == INSTANCE ReplayLedger WITH
  MembersOf <- [r \in Runs |-> Members(r)],
  holder <- lease,
  pinned <- [r \in Runs |-> [c \in Captures |-> item[r][c].pin]],
  result <- [r \in Runs |-> [c \in Captures |-> Settled(item[r][c])]],
  closed <- {r \in Runs : run[r].status = "completed"}

\* The promise of the ledger: one holder at a time, a pinned checkpoint and a
\* settled outcome are final, success needs a pin, and a run closes when settled.
ImplementsLedger == Ledger!Spec
=============================================================================
