--------------------------- MODULE ReplayRunProofs ---------------------------
(***************************************************************************)
(* Proofs about ReplayRun, for every set of captures, runs, manifests,     *)
(* invocations and payloads: the ledger stays exact (LedgerInv).  One      *)
(* lemma per action; the lemmas Arrival to RowsAreOK and the lemmas ending *)
(* in Step are the frames the actions share.                               *)
(***************************************************************************)
EXTENDS ReplayRun, TLAPS

\* What the assumptions say of the constants, in the form the proofs use.
LEMMA ConstantFacts ==
  /\ None \notin Runs /\ None \notin Workers /\ None \notin Payloads
  /\ None \notin Sources /\ None \notin Captures /\ None \notin Receipt
  /\ \A c \in Captures : SourceOf[c] \in Sources
  /\ \A r \in Runs : Members(r) \subseteq Captures
  /\ \A r \in Runs : \A c \in Members(r) : Manifest[r][c] \in Idents
  /\ 1 \in Idents
BY NoneIsFresh, IdentsExist, NoReceipt, SourceOfCapture, ManifestPinsMembers
   DEF Members, Idents, Receipt

\* The rows the initial state is built from are rows.
LEMMA NewRows ==
  /\ NewCapture \in CaptureRow
  /\ NewItem \in ItemRow
  /\ \A s \in {"absent", "queued", "completed"} : Unclaimed(s) \in RunRow
  /\ NoInvocation \in Invocation
BY DEF NewCapture, CaptureRow, NewItem, ItemRow, ExtStates, MatStates, Unclaimed, RunRow,
       NoInvocation, Invocation, Phases, Outcomes

\* Both inductive invariants hold initially: nothing is pinned, claimed or leased.
THEOREM InitHolds == Init => LedgerInv /\ LeaseInv
<1> SUFFICES ASSUME Init PROVE LedgerInv /\ LeaseInv
  OBVIOUS
<1> USE ConstantFacts, NewRows DEF Init
<1>1. TypeOK
  BY DEF TypeOK, PCs
<1>2. BoundHasCheckpoint /\ ItemShape /\ PinnedCheckpointIsExact /\ ReceiptIsExact /\ SucceededHasReceipt
  BY DEF BoundHasCheckpoint, ItemShape, PinnedCheckpointIsExact, ReceiptIsExact,
         SucceededHasReceipt, NewCapture, NewItem
<1>3. LocalsOK
  BY DEF LocalsOK, LocalsAt, NoInvocation, Claimed, Operating
<1>4. LeaseInv
  BY DEF LeaseInv, LeaseIsTheRunningRun, FreezeHolds, RunningItemsAreLeased, OwnerHoldsItem,
         ClaimSurvivesUntilFinish, CompletedIsTerminal, Claimed, Operating,
         InFlight, NewItem, Unclaimed
<1> QED BY <1>1, <1>2, <1>3, <1>4 DEF LedgerInv

-----------------------------------------------------------------------------
(* Steps that change no capture, no receipt and no item *)

ReceiptsKept == \A c \in Captures : receipt[c] # None => receipt'[c] = receipt[c]

\* The locals of a worker that takes no step stay right while receipts are kept.
LEMMA OthersKeepLocals ==
  ASSUME LedgerInv, NEW v \in Workers, pc'[v] = pc[v], inv'[v] = inv[v], ReceiptsKept,
         members \subseteq members'
  PROVE  LocalsAt(v)'
<1> DEFINE i == inv[v]
<1>1. LocalsAt(v)
  BY DEF LedgerInv, LocalsOK
<1>2. i \in Invocation
  BY DEF LedgerInv, TypeOK
<1>3. i.run # None => Members(i.run) \subseteq Captures
  BY <1>2, ConstantFacts DEF Invocation
<1>4. CASE pc[v] \in {"reconcile", "finish"}
  <2>1. i.cur \in Captures
    BY <1>1, <1>3, <1>4 DEF LocalsAt, Claimed
  <2>2. receipt[i.cur] # None => receipt'[i.cur] = receipt[i.cur]
    BY <2>1 DEF ReceiptsKept
  <2> QED BY <1>1, <1>4, <2>2 DEF LocalsAt
<1>5. CASE pc[v] \notin {"reconcile", "finish"}
  BY <1>1, <1>5 DEF LocalsAt
<1> QED BY <1>4, <1>5

\* A step of one worker in its own program, on its own locals.
LEMMA LocalStep ==
  ASSUME LedgerInv, NEW w \in Workers, NEW l \in PCs, NEW i \in Invocation,
         Goto(w, l), SetInv(w, i), LocalsAt(w)',
         UNCHANGED <<captureVars, lease, item>>, run' \in [Runs -> RunRow]
  PROVE  LedgerInv'
<1>1. TypeOK'
  BY DEF LedgerInv, TypeOK, Goto, SetInv, captureVars
<1>2. BoundHasCheckpoint' /\ ItemShape' /\ PinnedCheckpointIsExact' /\ ReceiptIsExact'
        /\ SucceededHasReceipt'
  BY DEF LedgerInv, BoundHasCheckpoint, ItemShape, PinnedCheckpointIsExact, ReceiptIsExact,
         SucceededHasReceipt, captureVars
<1>3. LocalsOK'
  <2> SUFFICES ASSUME NEW v \in Workers, v # w PROVE LocalsAt(v)'
    BY DEF LocalsOK
  <2>1. pc'[v] = pc[v] /\ inv'[v] = inv[v]
    BY DEF LedgerInv, TypeOK, Goto, SetInv
  <2>2. ReceiptsKept /\ members \subseteq members'
    BY DEF ReceiptsKept, captureVars
  <2> QED BY <2>1, <2>2, OthersKeepLocals
<1> QED BY <1>1, <1>2, <1>3 DEF LedgerInv

\* A step that leaves captures, receipts, items and workers alone.
LEMMA RunStep ==
  ASSUME LedgerInv, UNCHANGED <<captureVars, lease, item, workerVars>>, run' \in [Runs -> RunRow]
  PROVE  LedgerInv'
<1>1. TypeOK'
  BY DEF LedgerInv, TypeOK, captureVars, workerVars
<1>2. BoundHasCheckpoint' /\ ItemShape' /\ PinnedCheckpointIsExact' /\ ReceiptIsExact'
        /\ SucceededHasReceipt'
  BY DEF LedgerInv, BoundHasCheckpoint, ItemShape, PinnedCheckpointIsExact, ReceiptIsExact,
         SucceededHasReceipt, captureVars
<1>3. LocalsOK'
  BY DEF LedgerInv, LocalsOK, LocalsAt, captureVars, workerVars
<1> QED BY <1>1, <1>2, <1>3 DEF LedgerInv

\* An invocation that ends early leaves every row alone.
LEMMA AbortKeeps ==
  ASSUME LedgerInv, NEW w \in Workers, Abort(w)
  PROVE  LedgerInv'
<1>1. LocalsAt(w)'
  BY DEF LedgerInv, TypeOK, Abort, End, Goto, SetInv, LocalsAt, NoInvocation, Claimed, Operating
<1>2. Goto(w, "idle") /\ SetInv(w, NoInvocation)
  BY DEF Abort, End
<1>3. UNCHANGED <<captureVars, lease, item>> /\ run' \in [Runs -> RunRow]
  BY DEF Abort, ledgerVars, LedgerInv, TypeOK
<1>4. "idle" \in PCs
  BY DEF PCs
<1> QED BY <1>1, <1>2, <1>3, <1>4, NewRows, LocalStep

\* What the invariant says of the locals of one worker.
LEMMA LocalTypes ==
  ASSUME LedgerInv, NEW w \in Workers
  PROVE  /\ inv[w] \in Invocation /\ pc[w] \in PCs /\ LocalsAt(w)
         /\ run \in [Runs -> RunRow] /\ capture \in [Captures -> CaptureRow]
         /\ pc[w] # "idle" => inv[w].run \in Runs /\ Members(inv[w].run) \subseteq Captures
         /\ pc[w] \in {"inspect", "reconcile", "claim"} \cup Claimed =>
              inv[w].cur \in Captures /\ capture[inv[w].cur] \in CaptureRow
<1>1. inv[w] \in Invocation /\ pc[w] \in PCs /\ LocalsAt(w)
      /\ run \in [Runs -> RunRow] /\ capture \in [Captures -> CaptureRow]
  BY DEF LedgerInv, TypeOK, LocalsOK
<1>2. pc[w] # "idle" => inv[w].run \in Runs /\ Members(inv[w].run) \subseteq Captures
  BY <1>1, ConstantFacts DEF LocalsAt, Invocation
<1>3. pc[w] \in {"inspect", "reconcile", "claim"} \cup Claimed => inv[w].cur \in Captures
  BY <1>1, <1>2 DEF LocalsAt, Claimed, Operating
<1> QED BY <1>1, <1>2, <1>3

\* Observing the row of the current member, and concluding, keep the locals typed.
LEMMA LocalUpdates ==
  ASSUME LedgerInv, NEW w \in Workers, pc[w] # "idle"
  PROVE  /\ \A o \in Outcomes : [inv[w] EXCEPT !.outcome = o] \in Invocation
         /\ \A row \in CaptureRow : [inv[w] EXCEPT !.seen = row] \in Invocation
         /\ [inv[w] EXCEPT !.cur = None, !.seen = NewCapture, !.sawReceipt = FALSE,
                           !.pin = None, !.outcome = "failed"] \in Invocation
BY LocalTypes, NewRows DEF Invocation, Outcomes

\* What an invocation reads is a row.
LEMMA ObserveType ==
  ASSUME LedgerInv, NEW w \in Workers,
         pc[w] \in {"inspect", "reconcile", "claim"} \cup Claimed
  PROVE  /\ Observe(w) \in Invocation
         /\ \A o \in Outcomes : [Observe(w) EXCEPT !.outcome = o] \in Invocation
BY LocalTypes DEF Observe, Invocation, Outcomes

\* Where a worker is after it went somewhere, and with which locals.
LEMMA Arrival ==
  ASSUME LedgerInv, NEW w \in Workers, NEW l, NEW i, Goto(w, l), SetInv(w, i)
  PROVE  pc'[w] = l /\ inv'[w] = i
BY DEF LedgerInv, TypeOK, Goto, SetInv

\* Reading the capture changes two locals of the invocation.
LEMMA ObservedFields ==
  ASSUME LedgerInv, NEW w \in Workers, NEW i \in Invocation, NEW o,
         i \in {Observe(w), [Observe(w) EXCEPT !.outcome = o]}
  PROVE  /\ i.run = inv[w].run /\ i.todo = inv[w].todo /\ i.phase = inv[w].phase
         /\ i.cur = inv[w].cur /\ i.seen = capture[inv[w].cur]
         /\ i.sawReceipt = (receipt[inv[w].cur] # None)
BY LocalTypes DEF Observe, Invocation

\* Concluding with anything but a success asks nothing of the locals.
LEMMA ConcludeFailureKeeps ==
  ASSUME LedgerInv, NEW w \in Workers, pc[w] \in Claimed,
         NEW o \in {"rejected", "failed"}, Conclude(w, o),
         UNCHANGED <<captureVars, ledgerVars>>
  PROVE  LedgerInv'
<1> DEFINE i == [inv[w] EXCEPT !.outcome = o]
<1>1. i \in Invocation /\ "finish" \in PCs
  BY LocalUpdates, LocalTypes DEF PCs, Working, Claimed, Operating, Outcomes
<1>2. Goto(w, "finish") /\ SetInv(w, i)
  BY DEF Conclude
<1>3. LocalsAt(w)'
  BY <1>1, <1>2, LocalTypes
     DEF Goto, SetInv, LedgerInv, TypeOK, LocalsAt, Claimed, Operating, Invocation
<1>4. UNCHANGED <<captureVars, lease, item>> /\ run' \in [Runs -> RunRow]
  BY LocalTypes DEF ledgerVars
<1> QED BY <1>1, <1>2, <1>3, <1>4, LocalStep

\* A new invocation has its request and no current member.
LEMMA StartKeeps ==
  ASSUME LedgerInv, NEW w \in Workers, NEW r \in Runs, NEW phase \in Phases,
         NEW recover \in BOOLEAN, NEW selected \in Selections(r),
         Start(w, r, phase, selected, recover)
  PROVE  LedgerInv'
<1> DEFINE i == [NoInvocation EXCEPT !.run = r, !.phase = phase,
                                     !.todo = selected, !.recover = recover]
<1>1. selected \subseteq Members(r) /\ Members(r) \subseteq Captures
  BY ConstantFacts DEF Selections
<1>2. i \in Invocation /\ "ensure" \in PCs
  BY <1>1, NewRows DEF Invocation, NoInvocation, PCs
<1>3. Goto(w, "ensure") /\ SetInv(w, i)
  BY DEF Start
<1>4. LocalsAt(w)'
  BY <1>1, <1>3, ConstantFacts
     DEF Goto, SetInv, LedgerInv, TypeOK, LocalsAt, NoInvocation, Claimed, Operating
<1>5. UNCHANGED <<captureVars, lease, item>> /\ run' \in [Runs -> RunRow]
  BY LocalTypes DEF Start, ledgerVars
<1> QED BY <1>2, <1>3, <1>4, <1>5, LocalStep

\* Inserting a run with queued items pins nothing.
LEMMA EnsureRunKeeps ==
  ASSUME LedgerInv, NEW w \in Workers, EnsureRun(w)
  PROVE  LedgerInv'
<1> DEFINE r == inv[w].run
<1>1. pc[w] = "ensure" /\ r \in Runs /\ inv[w] \in Invocation
  BY LocalTypes DEF EnsureRun
<1>2. UNCHANGED <<captureVars, lease, item>> /\ run' \in [Runs -> RunRow]
  BY <1>1, LocalTypes, NewRows DEF EnsureRun
<1>3. CASE run[r].status = "completed"
  <2>1. Goto(w, "idle") /\ SetInv(w, NoInvocation)
    BY <1>3 DEF EnsureRun, End
  <2>2. LocalsAt(w)'
    BY <2>1 DEF LedgerInv, TypeOK, Goto, SetInv, LocalsAt, NoInvocation, Claimed, Operating
  <2>3. "idle" \in PCs
    BY DEF PCs
  <2> QED BY <1>2, <2>1, <2>2, <2>3, NewRows, LocalStep
<1>4. CASE run[r].status # "completed"
  <2>1. Goto(w, "acquire") /\ SetInv(w, inv[w])
    BY <1>4 DEF EnsureRun, SetInv, LedgerInv, TypeOK
  <2>2. LocalsAt(w)'
    BY <2>1, <1>1, LocalTypes DEF LedgerInv, TypeOK, Goto, SetInv, LocalsAt, Claimed, Operating
  <2>3. "acquire" \in PCs
    BY DEF PCs
  <2> QED BY <1>1, <1>2, <2>1, <2>2, <2>3, LocalStep
<1> QED BY <1>3, <1>4

\* The next member is one of the manifest.
LEMMA NextMemberKeeps ==
  ASSUME LedgerInv, NEW w \in Workers, NextMember(w)
  PROVE  LedgerInv'
<1>1. pc[w] = "loop" /\ UNCHANGED <<captureVars, lease, item>> /\ inv[w].run \in Runs
      /\ inv[w] \in Invocation
  BY LocalTypes DEF NextMember
<1>2. CASE /\ inv[w].todo = {}
           /\ Goto(w, "validate")
           /\ UNCHANGED <<run, inv>>
  <2>1. SetInv(w, inv[w]) /\ run' \in [Runs -> RunRow] /\ "validate" \in PCs
    BY <1>2, LocalTypes DEF SetInv, LedgerInv, TypeOK, PCs, Working
  <2>2. LocalsAt(w)'
    BY <1>1, <1>2, LocalTypes DEF LedgerInv, TypeOK, Goto, LocalsAt, Claimed, Operating
  <2> QED BY <1>1, <1>2, <2>1, <2>2, LocalStep
<1>3. ASSUME NEW c \in inv[w].todo,
             Beat(w),
             SetInv(w, [inv[w] EXCEPT !.cur = c, !.todo = @ \ {c}]),
             Goto(w, IF inv[w].phase = "extraction" THEN "claim" ELSE "inspect")
      PROVE  LedgerInv'
  <2> DEFINE i == [inv[w] EXCEPT !.cur = c, !.todo = @ \ {c}]
             l == IF inv[w].phase = "extraction" THEN "claim" ELSE "inspect"
  <2>1. c \in Members(inv[w].run) /\ c \in Captures
    BY <1>1, LocalTypes DEF LocalsAt
  <2>2. i \in Invocation /\ l \in PCs
    BY <1>1, <2>1, LocalTypes DEF Invocation, PCs, Working
  <2>3. run' \in [Runs -> RunRow]
    BY <1>1, <1>3, LocalTypes DEF Beat, RunRow
  <2>4. LocalsAt(w)'
    BY <1>1, <1>3, <2>1, LocalTypes
       DEF LedgerInv, TypeOK, Goto, SetInv, LocalsAt, Claimed, Operating, Invocation
  <2> QED BY <1>1, <1>3, <2>2, <2>3, <2>4, LocalStep
<1> QED BY <1>2, <1>3 DEF NextMember

\* Inspection goes to reconciliation with a checkpoint only.
LEMMA InspectKeeps ==
  ASSUME LedgerInv, NEW w \in Workers, Inspect(w)
  PROVE  LedgerInv'
<1> DEFINE c == inv[w].cur
           l == IF capture[c].err \/ capture[c].ckpt = None THEN "claim" ELSE "reconcile"
<1>1. pc[w] = "inspect" /\ Goto(w, l) /\ SetInv(w, Observe(w))
      /\ UNCHANGED <<captureVars, lease, item>> /\ run' \in [Runs -> RunRow]
  BY LocalTypes DEF Inspect, ledgerVars
<1>2. Observe(w) \in Invocation /\ l \in PCs
  BY <1>1, ObserveType DEF PCs, Working
<1>3. LocalsAt(w)'
  <2>1. pc'[w] = l /\ inv'[w] = Observe(w)
    BY <1>1, Arrival
  <2>2. l = "reconcile" => capture[c].ckpt # None /\ ~capture[c].err
    OBVIOUS
  <2>3. l \in {"claim", "reconcile"} /\ receipt' = receipt
    BY <1>1 DEF captureVars
  <2> DEFINE o == Observe(w)
  <2>4. /\ o.run = inv[w].run /\ o.todo = inv[w].todo /\ o.cur = c /\ o.seen = capture[c]
        /\ o.sawReceipt = (receipt[c] # None)
    BY <1>2, ObservedFields
  <2> HIDE DEF l, o
  <2> QED BY <1>1, <2>1, <2>2, <2>3, <2>4, LocalTypes DEF LocalsAt, Claimed, Operating, o
<1> QED BY <1>1, <1>2, <1>3, LocalStep

\* Admission concludes success only on what it reads.
LEMMA AdmitKeeps ==
  ASSUME LedgerInv, NEW w \in Workers, Admit(w)
  PROVE  LedgerInv'
<1> DEFINE c == inv[w].cur
           row == capture[c]
           out == IF row.err THEN "rejected"
                  ELSE IF inv[w].phase = "extraction" \/ receipt[c] # None
                  THEN "succeeded" ELSE "failed"
           i == [Observe(w) EXCEPT !.outcome = out]
           step == IF row.err THEN "finish"
                   ELSE IF inv[w].phase = "extraction"
                   THEN IF row.ckpt # None THEN "finish"
                        ELSE IF row.listing # None THEN "idle" ELSE "extract"
                   ELSE IF receipt[c] # None \/ row.ckpt = None
                   THEN "finish" ELSE "materialize"
<1>1. pc[w] = "admit" /\ UNCHANGED <<captureVars, lease, item>> /\ run' \in [Runs -> RunRow]
      /\ UNCHANGED <<captureVars, ledgerVars>>
  BY LocalTypes DEF Admit, ledgerVars
<1>2. i \in Invocation /\ step \in PCs /\ c \in Captures
  BY <1>1, ObserveType, LocalTypes DEF PCs, Working, Claimed, Operating, Outcomes
<1>3. CASE step # "idle" /\ SetInv(w, i) /\ Goto(w, step)
  <2>1. receipt[c] # None => receipt[c].listing = row.listing
    <3>1. c \in Captures /\ ReceiptIsExact
      BY <1>2 DEF LedgerInv
    <3>2. receipt[c] # None => row = [ckpt |-> receipt[c].ckpt, err |-> FALSE,
                                      listing |-> receipt[c].listing]
      BY <3>1 DEF ReceiptIsExact
    <3> HIDE DEF row, c
    <3> QED BY <3>2
  <2>2. LocalsAt(w)'
    <3>1. pc'[w] = step /\ inv'[w] = i /\ receipt' = receipt
      BY <1>1, <1>3, Arrival DEF captureVars
    <3>2. /\ i.run = inv[w].run /\ i.todo = inv[w].todo /\ i.cur = c /\ i.seen = row
          /\ i.phase = inv[w].phase /\ i.outcome = out
      BY <1>2, ObservedFields, ObserveType, LocalTypes DEF Observe, Invocation
    <3>3. step \in {"finish", "extract", "materialize"}
          /\ (step = "extract" => inv[w].phase = "extraction")
          /\ (step = "materialize" => inv[w].phase = "materialization")
      BY <1>1, <1>3, LocalTypes DEF Invocation, Phases
    <3>4. (step = "finish" /\ out = "succeeded") =>
            IF inv[w].phase = "extraction" THEN row.ckpt # None /\ ~row.err
            ELSE receipt[c] # None /\ receipt[c].listing = row.listing
      BY <1>3, <2>1
    <3> HIDE DEF step, i, out
    <3> QED BY <1>1, <3>1, <3>2, <3>3, <3>4, LocalTypes DEF LocalsAt, Claimed, Operating
  <2> QED BY <1>1, <1>2, <1>3, <2>2, LocalStep
<1>4. CASE End(w)
  BY <1>1, <1>4, AbortKeeps DEF Abort
<1>5. CASE Conclude(w, "failed")
  BY <1>1, <1>5, ConcludeFailureKeeps DEF Claimed
<1> QED BY <1>3, <1>4, <1>5 DEF Admit

\* The provider's answer is a checkpoint for the extraction phase.
LEMMA ExtractKeeps ==
  ASSUME LedgerInv, NEW w \in Workers, Extract(w)
  PROVE  LedgerInv'
<1>1. pc[w] = "extract" /\ UNCHANGED <<captureVars, lease, item>> /\ run' \in [Runs -> RunRow]
      /\ UNCHANGED <<captureVars, ledgerVars>>
  BY LocalTypes DEF Extract, ledgerVars
<1>2. ASSUME NEW p \in Payloads,
             SetInv(w, [inv[w] EXCEPT !.seen = [NewCapture EXCEPT !.ckpt = p]]),
             Goto(w, "store")
      PROVE  LedgerInv'
  <2> DEFINE i == [inv[w] EXCEPT !.seen = [NewCapture EXCEPT !.ckpt = p]]
  <2>1. [NewCapture EXCEPT !.ckpt = p] \in CaptureRow /\ "store" \in PCs
    BY DEF CaptureRow, NewCapture, PCs, Working, Claimed, Operating
  <2>2. i \in Invocation
    BY <1>1, <2>1, LocalUpdates
  <2>3. LocalsAt(w)'
    BY <1>1, <1>2, LocalTypes, ConstantFacts
       DEF LedgerInv, TypeOK, Goto, SetInv, LocalsAt, Claimed, Operating, Invocation, NewCapture
  <2> QED BY <1>1, <1>2, <2>1, <2>2, <2>3, LocalStep
<1>3. CASE Conclude(w, "failed")
  BY <1>1, <1>3, ConcludeFailureKeeps DEF Claimed, Operating
<1> QED BY <1>2, <1>3 DEF Extract

\* A binding starts from an unbound row with a checkpoint.
LEMMA MaterializeKeeps ==
  ASSUME LedgerInv, NEW w \in Workers, Materialize(w)
  PROVE  LedgerInv'
<1> DEFINE c == inv[w].cur
<1>1. pc[w] = "materialize" /\ UNCHANGED <<captureVars, lease, item>>
      /\ run' \in [Runs -> RunRow] /\ UNCHANGED <<captureVars, ledgerVars>>
  BY LocalTypes DEF Materialize, ledgerVars
<1>2. Observe(w) \in Invocation /\ {"resume", "bind"} \subseteq PCs
  BY <1>1, ObserveType DEF PCs, Working, Claimed, Operating
<1>3. CASE capture[c].ckpt # None /\ capture[c].listing # None
           /\ SetInv(w, Observe(w)) /\ Goto(w, "resume")
  <2>1. LocalsAt(w)'
    BY <1>1, <1>3, LocalTypes
       DEF LedgerInv, TypeOK, Goto, SetInv, Observe, LocalsAt, Claimed, Operating, Invocation
  <2> QED BY <1>1, <1>2, <1>3, <2>1, LocalStep
<1>4. CASE capture[c].ckpt # None /\ ~capture[c].err /\ capture[c].listing = None
           /\ SetInv(w, Observe(w)) /\ Goto(w, "bind")
  <2>1. LocalsAt(w)'
    BY <1>1, <1>4, LocalTypes
       DEF LedgerInv, TypeOK, Goto, SetInv, Observe, LocalsAt, Claimed, Operating, Invocation
  <2> QED BY <1>1, <1>2, <1>4, <2>1, LocalStep
<1>5. CASE Conclude(w, "failed") \/ Conclude(w, "rejected")
  BY <1>1, <1>5, ConcludeFailureKeeps DEF Claimed, Operating
<1> QED BY <1>3, <1>4, <1>5 DEF Materialize

\* A heartbeat touches no item, capture or receipt.
LEMMA HeartbeatTickKeeps ==
  ASSUME LedgerInv, NEW w \in Workers, HeartbeatTick(w)
  PROVE  LedgerInv'
<1>1. pc[w] # "idle"
  BY DEF HeartbeatTick, Operating
<1>2. CASE Beat(w) /\ UNCHANGED <<captureVars, lease, item, workerVars>>
  BY <1>1, <1>2, LocalTypes, RunStep DEF Beat, RunRow
<1>3. CASE Abort(w)
  BY <1>3, AbortKeeps
<1> QED BY <1>2, <1>3 DEF HeartbeatTick

\* The last validation reads only.
LEMMA ValidateTargetKeeps ==
  ASSUME LedgerInv, NEW w \in Workers, ValidateTarget(w)
  PROVE  LedgerInv'
<1>1. CASE Goto(w, "release") /\ UNCHANGED <<captureVars, ledgerVars, inv>>
  <2>1. pc[w] = "validate" /\ SetInv(w, inv[w]) /\ inv[w] \in Invocation
    BY <1>1, LocalTypes DEF ValidateTarget, SetInv, LedgerInv, TypeOK
  <2>2. UNCHANGED <<captureVars, lease, item>> /\ run' \in [Runs -> RunRow] /\ "release" \in PCs
    BY <1>1, LocalTypes DEF ledgerVars, PCs, Working
  <2>3. LocalsAt(w)'
    BY <1>1, <2>1, LocalTypes DEF LedgerInv, TypeOK, Goto, LocalsAt, Claimed, Operating
  <2> QED BY <1>1, <2>1, <2>2, <2>3, LocalStep
<1>2. CASE Abort(w)
  BY <1>2, AbortKeeps
<1> QED BY <1>1, <1>2 DEF ValidateTarget

\* Ageing touches no item, capture or receipt.
LEMMA HeartbeatAgesKeeps ==
  ASSUME LedgerInv, NEW r \in Runs, HeartbeatAges(r)
  PROVE  LedgerInv'
BY RunStep DEF HeartbeatAges, LedgerInv, TypeOK, RunRow

-----------------------------------------------------------------------------
(* Steps that change items *)

\* A step that keeps the receipts and one invocation's locals right keeps all of them right.
LEMMA LocalsStep ==
  ASSUME LedgerInv, NEW w \in Workers, NEW l, NEW i, Goto(w, l), SetInv(w, i),
         ReceiptsKept, members \subseteq members', LocalsAt(w)'
  PROVE  LocalsOK'
<1> SUFFICES ASSUME NEW v \in Workers, v # w PROVE LocalsAt(v)'
  BY DEF LocalsOK
<1>1. pc'[v] = pc[v] /\ inv'[v] = inv[v]
  BY DEF LedgerInv, TypeOK, Goto, SetInv
<1> QED BY <1>1, OthersKeepLocals

\* What the invariant asks of one item row, given the capture it replays.
RowOK(c, row) ==
  /\ row.mat # "blocked" => row.ext = "succeeded"
  /\ row.ext = "succeeded" => /\ row.pin # None /\ c \in members
                              /\ capture[c].ckpt = row.pin /\ ~capture[c].err
  /\ row.mat = "succeeded" => receipt[c] = [listing |-> row.listing, ckpt |-> row.pin]

\* What the ledger invariants say of one item.
LEMMA RowsAreOK ==
  ASSUME LedgerInv, NEW r \in Runs, NEW c \in Captures
  PROVE  RowOK(c, item[r][c]) /\ item[r][c] \in ItemRow
<1>1. item[r][c] \in ItemRow
  BY DEF LedgerInv, TypeOK
<1>2. RowOK(c, item[r][c])
  BY DEF LedgerInv, RowOK, ItemShape, PinnedCheckpointIsExact, SucceededHasReceipt
<1> QED BY <1>1, <1>2

\* A worker's step on the ledger, with every item left as it was or made right.
LEMMA ItemStep ==
  ASSUME LedgerInv, NEW w \in Workers, NEW l \in PCs, NEW i \in Invocation,
         Goto(w, l), SetInv(w, i), LocalsAt(w)', UNCHANGED captureVars,
         lease' \in Runs \cup {None}, run' \in [Runs -> RunRow],
         item' \in [Runs -> [Captures -> ItemRow]],
         \A r \in Runs, c \in Captures :
           item'[r][c] = item[r][c] \/ RowOK(c, item'[r][c])
  PROVE  LedgerInv'
<1>1. \A r \in Runs, c \in Captures : RowOK(c, item'[r][c])
  BY RowsAreOK
<1>2. TypeOK'
  BY DEF LedgerInv, TypeOK, Goto, SetInv, captureVars
<1>3. BoundHasCheckpoint' /\ ReceiptIsExact'
  BY DEF LedgerInv, BoundHasCheckpoint, ReceiptIsExact, captureVars
<1>4. ItemShape' /\ PinnedCheckpointIsExact' /\ SucceededHasReceipt'
  <2>1. UNCHANGED <<members, capture, receipt>>
    BY DEF captureVars
  <2>2. ItemShape'
    BY <1>1, <2>1 DEF RowOK, ItemShape
  <2>3. PinnedCheckpointIsExact'
    BY <1>1, <2>1 DEF RowOK, PinnedCheckpointIsExact
  <2>4. SucceededHasReceipt'
    BY <1>1, <2>1 DEF RowOK, SucceededHasReceipt
  <2> QED BY <2>2, <2>3, <2>4
<1>5. LocalsOK'
  <2>1. ReceiptsKept /\ members \subseteq members'
    BY DEF ReceiptsKept, captureVars
  <2> QED BY <2>1, LocalsStep
<1> QED BY <1>2, <1>3, <1>4, <1>5 DEF LedgerInv

\* The member loop starts over with the iteration's locals gone.
LEMMA NextItemLocals ==
  ASSUME LedgerInv, NEW w \in Workers, pc[w] # "idle", NextItem(w)
  PROVE  \E i \in Invocation :
           Goto(w, "loop") /\ SetInv(w, i) /\ LocalsAt(w)' /\ "loop" \in PCs
<1> DEFINE i == [inv[w] EXCEPT !.cur = None, !.seen = NewCapture,
                               !.sawReceipt = FALSE, !.pin = None, !.outcome = "failed"]
<1>1. i \in Invocation /\ Goto(w, "loop") /\ SetInv(w, i) /\ "loop" \in PCs
  BY LocalUpdates DEF NextItem, PCs, Working
<1>2. LocalsAt(w)'
  BY <1>1, LocalTypes
     DEF Goto, SetInv, LedgerInv, TypeOK, LocalsAt, Claimed, Operating, Invocation
<1> QED BY <1>1, <1>2

\* Recovery returns an item without unpinning or unsettling it.
LEMMA AcquireKeeps ==
  ASSUME LedgerInv, NEW w \in Workers, Acquire(w)
  PROVE  LedgerInv'
<1> DEFINE r == inv[w].run
<1>1. pc[w] = "acquire" /\ r \in Runs /\ inv[w] \in Invocation
  BY LocalTypes DEF Acquire
<1>2. CASE Abort(w)
  BY <1>2, AbortKeeps
<1>3. ASSUME item' = [q \in Runs |-> IF q = lease
                                     THEN [c \in Captures |-> Recovered(item[q][c])]
                                     ELSE item[q]],
             run' = [q \in Runs |->
                       IF q = r THEN [status |-> "running", phase |-> inv[w].phase,
                                      owner |-> w, fresh |-> TRUE]
                       ELSE IF q = lease THEN Unclaimed("queued") ELSE run[q]],
             lease' = r, Goto(w, "loop"), UNCHANGED <<captureVars, inv>>
      PROVE  LedgerInv'
  <2>1. SetInv(w, inv[w]) /\ "loop" \in PCs
    BY <1>3 DEF SetInv, LedgerInv, TypeOK, PCs, Working
  <2>2. LocalsAt(w)'
    BY <1>1, <1>3, LocalTypes DEF LedgerInv, TypeOK, Goto, LocalsAt, Claimed, Operating
  <2>3. run' \in [Runs -> RunRow]
    BY <1>1, <1>3, LocalTypes, NewRows DEF RunRow, Invocation
  <2>4. \A q \in Runs, c \in Captures :
          Recovered(item[q][c]) \in ItemRow /\ RowOK(c, Recovered(item[q][c]))
    <3> SUFFICES ASSUME NEW q \in Runs, NEW c \in Captures
                 PROVE  Recovered(item[q][c]) \in ItemRow /\ RowOK(c, Recovered(item[q][c]))
      OBVIOUS
    <3> QED BY RowsAreOK DEF Recovered, ItemRow, ExtStates, MatStates, RowOK
  <2>5. item' \in [Runs -> [Captures -> ItemRow]]
    BY <1>3, <2>4, RowsAreOK DEF LedgerInv, TypeOK
  <2>6. \A q \in Runs, c \in Captures : item'[q][c] = item[q][c] \/ RowOK(c, item'[q][c])
    BY <1>3, <2>4
  <2>7. UNCHANGED captureVars /\ lease' \in Runs \cup {None}
    BY <1>1, <1>3
  <2> QED BY <1>1, <1>3, <2>1, <2>2, <2>3, <2>5, <2>6, <2>7, ItemStep
<1> QED BY <1>2, <1>3 DEF Acquire

\* Release touches no item, capture or receipt.
LEMMA ReleaseKeeps ==
  ASSUME LedgerInv, NEW w \in Workers, Release(w)
  PROVE  LedgerInv'
<1> DEFINE r == inv[w].run
<1>1. pc[w] = "release" /\ r \in Runs
  BY LocalTypes DEF Release
<1>2. CASE Abort(w)
  BY <1>2, AbortKeeps
<1>3. ASSUME run' = [run EXCEPT ![r] = Unclaimed(
                       IF \A c \in Members(r) : Terminal(item[r][c])
                       THEN "completed" ELSE "queued")],
             lease' = None, End(w), UNCHANGED <<captureVars, item>>
      PROVE  LedgerInv'
  <2>1. Goto(w, "idle") /\ SetInv(w, NoInvocation) /\ "idle" \in PCs
    BY <1>3 DEF End, PCs
  <2>2. LocalsAt(w)'
    BY <2>1 DEF LedgerInv, TypeOK, Goto, SetInv, LocalsAt, NoInvocation, Claimed, Operating
  <2>3. run' \in [Runs -> RunRow]
    BY <1>1, <1>3, LocalTypes, NewRows
  <2>4. item' \in [Runs -> [Captures -> ItemRow]]
    BY <1>3 DEF LedgerInv, TypeOK
  <2> QED BY <1>3, <2>1, <2>2, <2>3, <2>4, NewRows, ItemStep
<1> QED BY <1>2, <1>3 DEF Release

\* One item gets a new row.
LEMMA OneItem ==
  ASSUME LedgerInv, NEW r \in Runs, NEW c \in Captures, NEW row \in ItemRow, RowOK(c, row),
         item' = [item EXCEPT ![r][c] = row]
  PROVE  /\ item' \in [Runs -> [Captures -> ItemRow]]
         /\ \A q \in Runs, d \in Captures : item'[q][d] = item[q][d] \/ RowOK(d, item'[q][d])
<1>1. item \in [Runs -> [Captures -> ItemRow]]
  BY DEF LedgerInv, TypeOK
<1>2. item' \in [Runs -> [Captures -> ItemRow]]
  BY <1>1
<1>3. ASSUME NEW q \in Runs, NEW d \in Captures, item'[q][d] # item[q][d]
      PROVE  RowOK(d, item'[q][d])
  <2>1. q = r /\ d = c /\ item'[q][d] = row
    BY <1>1, <1>3
  <2> QED BY <2>1
<1> QED BY <1>2, <1>3

\* A claim takes up an item that is not settled.
LEMMA ClaimKeeps ==
  ASSUME LedgerInv, NEW w \in Workers, Claim(w)
  PROVE  LedgerInv'
<1> DEFINE r == inv[w].run
           c == inv[w].cur
           row == item[r][c]
<1>1. pc[w] = "claim" /\ r \in Runs /\ c \in Captures /\ inv[w] \in Invocation
  BY LocalTypes DEF Claim
<1>2. CASE Abort(w)
  BY <1>2, AbortKeeps
<1>3. CASE NextItem(w) /\ UNCHANGED <<captureVars, ledgerVars>>
  <2>1. UNCHANGED <<captureVars, lease, item>> /\ run' \in [Runs -> RunRow]
    BY <1>3, LocalTypes DEF ledgerVars
  <2> QED BY <1>1, <1>3, <2>1, NextItemLocals, LocalStep
<1>4. ASSUME Claimable(w, row),
             item' = [item EXCEPT ![r][c] =
                        IF inv[w].phase = "extraction" THEN [@ EXCEPT !.ext = "running"]
                                                       ELSE [@ EXCEPT !.mat = "running"]],
             SetInv(w, [inv[w] EXCEPT !.pin = row.pin]),
             Goto(w, "admit"),
             UNCHANGED <<captureVars, lease, run>>
      PROVE  LedgerInv'
  <2> DEFINE new == IF inv[w].phase = "extraction" THEN [row EXCEPT !.ext = "running"]
                                                   ELSE [row EXCEPT !.mat = "running"]
             i == [inv[w] EXCEPT !.pin = row.pin]
  <2>1. RowOK(c, row) /\ row \in ItemRow
    BY <1>1, RowsAreOK
  <2>2. new \in ItemRow /\ RowOK(c, new)
    BY <1>4, <2>1 DEF Claimable, ItemRow, ExtStates, MatStates, RowOK
  <2>3. item' = [item EXCEPT ![r][c] = new]
    BY <1>1, <1>4 DEF LedgerInv, TypeOK
  <2>4. i \in Invocation /\ "admit" \in PCs
    BY <1>1, <2>1 DEF Invocation, ItemRow, PCs, Working, Claimed
  <2>5. LocalsAt(w)'
    BY <1>1, <1>4, LocalTypes
       DEF LedgerInv, TypeOK, Goto, SetInv, LocalsAt, Claimed, Operating, Invocation
  <2>6. lease' \in Runs \cup {None} /\ run' \in [Runs -> RunRow]
    BY <1>4 DEF LedgerInv, TypeOK
  <2>7. /\ item' \in [Runs -> [Captures -> ItemRow]]
        /\ \A q \in Runs, d \in Captures : item'[q][d] = item[q][d] \/ RowOK(d, item'[q][d])
    <3> HIDE DEF new, r, c
    <3> QED BY <1>1, <2>2, <2>3, OneItem
  <2> QED BY <1>4, <2>4, <2>5, <2>6, <2>7, ItemStep
<1> QED BY <1>2, <1>3, <1>4 DEF Claim

\* Reconciliation records what the attested row and receipt say.
LEMMA ReconcileKeeps ==
  ASSUME LedgerInv, NEW w \in Workers, Reconcile(w)
  PROVE  LedgerInv'
<1> DEFINE r == inv[w].run
           c == inv[w].cur
           seen == inv[w].seen
           done == inv[w].sawReceipt
           old == item[r][c]
           new == [ext |-> "succeeded", pin |-> seen.ckpt,
                   mat |-> IF done THEN "succeeded"
                           ELSE IF old.mat = "blocked" THEN "queued" ELSE old.mat,
                   listing |-> IF done THEN seen.listing ELSE old.listing]
<1>1. pc[w] = "reconcile" /\ r \in Runs /\ c \in Captures /\ inv[w] \in Invocation
  BY LocalTypes DEF Reconcile
<1>2. CASE Abort(w)
  BY <1>2, AbortKeeps
<1>3. ASSUME ManifestTarget(r, c), capture[c] = seen,
             item' = item \/ (~Terminal(old) /\ item' = [item EXCEPT ![r][c] = new]),
             IF done THEN NextItem(w) ELSE Goto(w, "claim") /\ UNCHANGED inv,
             UNCHANGED <<captureVars, lease, run>>
      PROVE  LedgerInv'
  <2>1. PICK l \in PCs, i \in Invocation : Goto(w, l) /\ SetInv(w, i) /\ LocalsAt(w)'
    <3>1. CASE done
      BY <1>1, <1>3, <3>1, NextItemLocals
    <3>2. CASE ~done
      <4>1. Goto(w, "claim") /\ SetInv(w, inv[w]) /\ "claim" \in PCs
        BY <1>3, <3>2 DEF SetInv, LedgerInv, TypeOK, PCs, Working
      <4>2. LocalsAt(w)'
        BY <1>1, <1>3, <3>2, LocalTypes DEF LedgerInv, TypeOK, Goto, LocalsAt, Claimed, Operating
      <4> QED BY <1>1, <4>1, <4>2
    <3> QED BY <3>1, <3>2
  <2>2. lease' \in Runs \cup {None} /\ run' \in [Runs -> RunRow]
    BY <1>3 DEF LedgerInv, TypeOK
  <2>3. /\ item' \in [Runs -> [Captures -> ItemRow]]
        /\ \A q \in Runs, d \in Captures : item'[q][d] = item[q][d] \/ RowOK(d, item'[q][d])
    <3>1. CASE item' = item
      BY <3>1 DEF LedgerInv, TypeOK
    <3>2. CASE ~Terminal(old) /\ item' = [item EXCEPT ![r][c] = new]
      <4>1. RowOK(c, old) /\ old \in ItemRow
        BY <1>1, RowsAreOK
      <4>2. seen \in CaptureRow /\ seen.ckpt # None /\ ~seen.err /\ (done => receipt[c] # None)
        BY <1>1, LocalTypes DEF LocalsAt, Invocation
      <4>3. done => receipt[c] = [listing |-> seen.listing, ckpt |-> seen.ckpt]
        <5>1. done => receipt[c] \in Receipt /\ seen = [ckpt |-> receipt[c].ckpt, err |-> FALSE,
                                                       listing |-> receipt[c].listing]
          BY <1>1, <1>3, <4>2 DEF LedgerInv, TypeOK, ReceiptIsExact
        <5> HIDE DEF seen, done, c
        <5> QED BY <5>1 DEF Receipt
      <4>4. new \in ItemRow
        BY <4>1, <4>2 DEF ItemRow, ExtStates, MatStates, CaptureRow
      <4>5. RowOK(c, new)
        BY <1>3, <3>2, <4>1, <4>2, <4>3 DEF RowOK, ManifestTarget, Terminal
      <4> HIDE DEF new, r, c
      <4> QED BY <1>1, <3>2, <4>4, <4>5, OneItem
    <3> QED BY <1>3, <3>1, <3>2
  <2> QED BY <1>3, <2>1, <2>2, <2>3, ItemStep
<1> QED BY <1>2, <1>3 DEF Reconcile

\* A finish pins the attested row, or records the receipted listing.
LEMMA FinishKeeps ==
  ASSUME LedgerInv, NEW w \in Workers, Finish(w)
  PROVE  LedgerInv'
<1> DEFINE r == inv[w].run
           c == inv[w].cur
           old == item[r][c]
           new == Finished(w, old)
<1>1. pc[w] = "finish" /\ r \in Runs /\ c \in Captures /\ inv[w] \in Invocation
      /\ inv[w].seen \in CaptureRow
  BY LocalTypes DEF Finish, Claimed, Invocation
<1>2. CASE Abort(w)
  BY <1>2, AbortKeeps
<1>3. ASSUME FinishGuard(w), item' = [item EXCEPT ![r][c] = Finished(w, @)],
             NextItem(w), UNCHANGED <<captureVars, lease, run>>
      PROVE  LedgerInv'
  <2>1. RowOK(c, old) /\ old \in ItemRow
    BY <1>1, RowsAreOK
  <2>2. new \in ItemRow
    BY <1>1, <2>1 DEF Finished, ItemRow, ExtStates, MatStates, CaptureRow, Invocation, Outcomes
  <2>3. RowOK(c, new)
    <3>1. CASE inv[w].phase = "extraction"
      <4>1. inv[w].outcome = "succeeded" =>
              /\ capture[c] = inv[w].seen
              /\ inv[w].seen.ckpt # None /\ ~inv[w].seen.err /\ c \in members
        BY <1>1, <1>3, <3>1, LocalTypes DEF FinishGuard, LocalsAt, ManifestTarget
      <4> QED BY <1>1, <1>3, <2>1, <3>1, <4>1 DEF FinishGuard, RowOK, Finished, ItemRow, Invocation, Outcomes
    <3>2. CASE inv[w].phase # "extraction"
      <4>1. old.mat = "running" /\ old.ext = "succeeded"
        BY <1>3, <2>1, <3>2 DEF FinishGuard, RowOK
      <4>2. inv[w].outcome = "succeeded" =>
              receipt[c] = [listing |-> inv[w].seen.listing, ckpt |-> old.pin]
        <5>1. inv[w].outcome = "succeeded" =>
                receipt[c] # None /\ receipt[c].listing = inv[w].seen.listing
          BY <1>1, <3>2, LocalTypes DEF LocalsAt
        <5>2. receipt[c] # None => receipt[c] \in Receipt /\ capture[c].ckpt = receipt[c].ckpt
          <6>1. receipt[c] # None => receipt[c] \in Receipt
                  /\ capture[c] = [ckpt |-> receipt[c].ckpt, err |-> FALSE,
                                   listing |-> receipt[c].listing]
            BY <1>1 DEF LedgerInv, TypeOK, ReceiptIsExact
          <6> HIDE DEF c
          <6> QED BY <6>1
        <5>3. capture[c].ckpt = old.pin
          BY <2>1, <4>1 DEF RowOK
        <5> HIDE DEF c, old
        <5> QED BY <5>1, <5>2, <5>3 DEF Receipt
      <4> QED BY <1>1, <1>3, <2>1, <3>2, <4>1, <4>2 DEF RowOK, Finished, ItemRow, Invocation, Outcomes
    <3> QED BY <3>1, <3>2
  <2>4. item' = [item EXCEPT ![r][c] = new]
    BY <1>1, <1>3 DEF LedgerInv, TypeOK
  <2>5. lease' \in Runs \cup {None} /\ run' \in [Runs -> RunRow]
    BY <1>3 DEF LedgerInv, TypeOK
  <2>6. /\ item' \in [Runs -> [Captures -> ItemRow]]
        /\ \A q \in Runs, d \in Captures : item'[q][d] = item[q][d] \/ RowOK(d, item'[q][d])
    <3> HIDE DEF new, r, c
    <3> QED BY <1>1, <2>2, <2>3, <2>4, OneItem
  <2> QED BY <1>1, <1>3, <2>5, <2>6, NextItemLocals, ItemStep
<1> QED BY <1>2, <1>3 DEF Finish

-----------------------------------------------------------------------------
(* Steps that change captures and receipts *)

DataInv ==
  /\ BoundHasCheckpoint /\ ItemShape
  /\ PinnedCheckpointIsExact /\ ReceiptIsExact /\ SucceededHasReceipt

\* What the immutability trigger and the row types ask of a capture's new row.
RowMayBecome(c, row) ==
  /\ row \in CaptureRow
  /\ row.listing # None => row.ckpt # None /\ c \in members
  /\ Immutable(c) =>
       /\ row.ckpt = capture[c].ckpt /\ row.err = capture[c].err
       /\ row.listing # capture[c].listing => capture[c].listing = None /\ receipt[c] = None

\* A receipt names the bound listing and the checkpoint of its row.
LEMMA ReceiptNamesBoundRow ==
  ASSUME LedgerInv, NEW c \in Captures, receipt[c] # None
  PROVE  /\ receipt[c] \in Receipt
         /\ capture[c].listing = receipt[c].listing /\ capture[c].listing # None
         /\ capture[c].ckpt = receipt[c].ckpt /\ capture[c].err = FALSE
<1>1. receipt[c] \in Receipt /\ capture[c] = [ckpt |-> receipt[c].ckpt, err |-> FALSE,
                                              listing |-> receipt[c].listing]
  BY DEF LedgerInv, TypeOK, ReceiptIsExact
<1>2. receipt[c].listing \in Sources
  BY <1>1 DEF Receipt
<1> QED BY <1>1, <1>2, ConstantFacts

\* A capture that changes within its trigger keeps pins and receipts exact.
LEMMA CaptureStep ==
  ASSUME LedgerInv, NEW c \in Captures, NEW row, RowMayBecome(c, row),
         capture' = [capture EXCEPT ![c] = row],
         members \subseteq members', UNCHANGED <<receipt, item>>
  PROVE  DataInv' /\ capture' \in [Captures -> CaptureRow]
<1>1. /\ capture' \in [Captures -> CaptureRow]
      /\ capture'[c] = row
      /\ \A d \in Captures : d # c => capture'[d] = capture[d]
  BY DEF LedgerInv, TypeOK, RowMayBecome
<1>2. BoundHasCheckpoint'
  BY <1>1 DEF LedgerInv, BoundHasCheckpoint, RowMayBecome
<1>3. ItemShape' /\ SucceededHasReceipt'
  BY DEF LedgerInv, ItemShape, SucceededHasReceipt
<1>4. PinnedCheckpointIsExact'
  <2> SUFFICES ASSUME NEW r \in Runs, NEW d \in Captures, item[r][d].ext = "succeeded"
               PROVE  capture'[d].ckpt = item[r][d].pin /\ ~capture'[d].err
    BY DEF PinnedCheckpointIsExact
  <2>1. capture[d].ckpt = item[r][d].pin /\ ~capture[d].err
    BY DEF LedgerInv, PinnedCheckpointIsExact
  <2>2. d = c => row.ckpt = capture[d].ckpt /\ row.err = capture[d].err
    BY DEF RowMayBecome, Immutable, Pinned
  <2> QED BY <1>1, <2>1, <2>2
<1>5. ReceiptIsExact'
  <2> SUFFICES ASSUME NEW d \in Captures, receipt[d] # None
               PROVE  capture'[d] = capture[d]
    BY DEF LedgerInv, ReceiptIsExact
  <2>1. CASE d # c
    BY <1>1, <2>1
  <2>2. CASE d = c
    <3>1. /\ row.ckpt = capture[c].ckpt /\ row.err = capture[c].err
          /\ row.listing = capture[c].listing
      BY <2>2 DEF RowMayBecome, Immutable
    <3>2. row \in CaptureRow /\ capture[c] \in CaptureRow
      BY DEF RowMayBecome, LedgerInv, TypeOK
    <3>3. row = capture[c]
      BY <3>1, <3>2 DEF CaptureRow
    <3> QED BY <1>1, <2>2, <3>3
  <2> QED BY <2>1, <2>2
<1> QED BY <1>1, <1>2, <1>3, <1>4, <1>5 DEF DataInv

\* A step of the environment on the captures.
LEMMA WebStep ==
  ASSUME LedgerInv, DataInv', UNCHANGED <<ledgerVars, workerVars>>, ReceiptsKept,
         members \subseteq members', members' \subseteq Captures, ident' \in [Captures -> Idents],
         capture' \in [Captures -> CaptureRow],
         receipt' \in [Captures -> Receipt \cup {None}], listings' \subseteq Sources
  PROVE  LedgerInv'
<1>1. TypeOK'
  BY DEF LedgerInv, TypeOK, ledgerVars, workerVars
<1>2. LocalsOK'
  <2> SUFFICES ASSUME NEW v \in Workers PROVE LocalsAt(v)'
    BY DEF LocalsOK
  <2>1. pc'[v] = pc[v] /\ inv'[v] = inv[v]
    BY DEF workerVars
  <2> QED BY <2>1, OthersKeepLocals
<1> QED BY <1>1, <1>2 DEF LedgerInv, DataInv

\* A step of a worker on its capture.
LEMMA WorkerCaptureStep ==
  ASSUME LedgerInv, DataInv', UNCHANGED <<members, ident, ledgerVars>>, ReceiptsKept,
         NEW w \in Workers, NEW l \in PCs, NEW i \in Invocation,
         Goto(w, l), SetInv(w, i), LocalsAt(w)',
         capture' \in [Captures -> CaptureRow],
         receipt' \in [Captures -> Receipt \cup {None}], listings' \subseteq Sources
  PROVE  LedgerInv'
<1>1. TypeOK'
  BY DEF LedgerInv, TypeOK, ledgerVars, Goto, SetInv
<1>2. LocalsOK'
  BY LocalsStep
<1> QED BY <1>1, <1>2 DEF LedgerInv, DataInv

\* A new capture has neither pin nor receipt.
LEMMA AdmitCaptureKeeps ==
  ASSUME LedgerInv, NEW c \in Captures, NEW p \in Payloads \cup {None}, AdmitCapture(c, p)
  PROVE  LedgerInv'
<1> DEFINE row == [NewCapture EXCEPT !.ckpt = p, !.err = (p = None)]
<1>1. row \in CaptureRow /\ row.listing = None
  BY DEF NewCapture, CaptureRow
<1>2. c \notin members /\ capture' = [capture EXCEPT ![c] = row]
      /\ members \subseteq members' /\ members' \subseteq Captures
      /\ UNCHANGED <<ident, receipt, listings, item>> /\ UNCHANGED <<ledgerVars, workerVars>>
  BY DEF AdmitCapture, WebUnchanged, ledgerVars, LedgerInv, TypeOK
<1>3. ~Immutable(c)
  <2>1. receipt[c] = None
    BY <1>2, ReceiptNamesBoundRow DEF LedgerInv, BoundHasCheckpoint
  <2>2. ~Pinned(c)
    BY <1>2 DEF LedgerInv, ItemShape, Pinned
  <2> QED BY <2>1, <2>2 DEF Immutable
<1>4. DataInv' /\ capture' \in [Captures -> CaptureRow]
  <2>1. RowMayBecome(c, row)
    BY <1>1, <1>3 DEF RowMayBecome
  <2> HIDE DEF row
  <2> QED BY <1>2, <2>1, CaptureStep
<1>5. ReceiptsKept /\ ident' \in [Captures -> Idents] /\ listings' \subseteq Sources
      /\ receipt' \in [Captures -> Receipt \cup {None}]
  BY <1>2 DEF ReceiptsKept, LedgerInv, TypeOK
<1> QED BY <1>2, <1>4, <1>5, WebStep

\* The identity behind a capture is not part of what is pinned.
LEMMA ChangeIdentityKeeps ==
  ASSUME LedgerInv, NEW c \in Captures, ChangeIdentity(c)
  PROVE  LedgerInv'
<1>1. UNCHANGED <<members, capture, receipt, listings, item>>
      /\ UNCHANGED <<ledgerVars, workerVars>>
  BY DEF ChangeIdentity, WebUnchanged, ledgerVars
<1>2. ident' \in [Captures -> Idents]
  BY IdentsExist DEF ChangeIdentity, LedgerInv, TypeOK, Idents
<1>3. DataInv'
  BY <1>1 DEF LedgerInv, DataInv, BoundHasCheckpoint, ItemShape, PinnedCheckpointIsExact,
              ReceiptIsExact, SucceededHasReceipt
<1>4. ReceiptsKept /\ members' \subseteq Captures /\ capture' \in [Captures -> CaptureRow]
      /\ receipt' \in [Captures -> Receipt \cup {None}] /\ listings' \subseteq Sources
  BY <1>1 DEF ReceiptsKept, LedgerInv, TypeOK
<1> QED BY <1>1, <1>2, <1>3, <1>4, WebStep

\* The web application writes one capture row under the immutability trigger.
LEMMA WebWriteKeeps ==
  ASSUME LedgerInv, NEW c \in Captures, NEW row \in CaptureRow, WebWrite(c, row),
         row.listing # None => row.ckpt # None,
         UNCHANGED <<members, ident, receipt>>, WebUnchanged,
         listings' \subseteq Sources
  PROVE  LedgerInv'
<1>1. RowMayBecome(c, row) /\ capture' = [capture EXCEPT ![c] = row]
      /\ UNCHANGED item /\ UNCHANGED <<ledgerVars, workerVars>>
  BY DEF WebWrite, RowMayBecome, WebUnchanged, ledgerVars
<1>2. DataInv' /\ capture' \in [Captures -> CaptureRow]
  BY <1>1, CaptureStep
<1>3. ReceiptsKept /\ ident' \in [Captures -> Idents] /\ members' \subseteq Captures
      /\ receipt' \in [Captures -> Receipt \cup {None}]
  BY DEF ReceiptsKept, LedgerInv, TypeOK
<1> QED BY <1>1, <1>2, <1>3, WebStep

\* A web write within the trigger keeps the ledger exact.
LEMMA WebKeeps ==
  ASSUME LedgerInv, NEW c \in Captures, NEW p \in Payloads,
         WebBind(c, p) \/ WebRecordSuccess(c, p)
  PROVE  LedgerInv'
<1>1. CASE WebBind(c, p)
  <2> DEFINE row == [ckpt |-> p, err |-> FALSE, listing |-> SourceOf[c]]
  <2>1. row \in CaptureRow /\ row.ckpt # None
    BY ConstantFacts DEF CaptureRow
  <2>2. WebWrite(c, row) /\ UNCHANGED <<members, ident, receipt>> /\ WebUnchanged
        /\ listings' \subseteq Sources
    BY <1>1, ConstantFacts DEF WebBind, LedgerInv, TypeOK
  <2> HIDE DEF row
  <2> QED BY <2>1, <2>2, WebWriteKeeps
<1>2. CASE WebRecordSuccess(c, p)
  <2> DEFINE row == [capture[c] EXCEPT !.ckpt = p, !.err = FALSE]
  <2>1. row \in CaptureRow /\ row.ckpt # None
    BY ConstantFacts DEF CaptureRow, LedgerInv, TypeOK
  <2>2. WebWrite(c, row) /\ UNCHANGED <<members, ident, receipt>> /\ WebUnchanged
        /\ listings' \subseteq Sources
    BY <1>2 DEF WebRecordSuccess, LedgerInv, TypeOK
  <2> HIDE DEF row
  <2> QED BY <2>1, <2>2, WebWriteKeeps
<1> QED BY <1>1, <1>2

\* A late failure cannot land on a pinned or receipted capture.
LEMMA WebRecordFailureKeeps ==
  ASSUME LedgerInv, NEW c \in Captures, NEW p \in Payloads \cup {capture[c].ckpt},
         WebRecordFailure(c, p)
  PROVE  LedgerInv'
<1> DEFINE row == [capture[c] EXCEPT !.ckpt = p, !.err = TRUE]
<1>1. capture[c] \in CaptureRow
      /\ (capture[c].listing # None => capture[c].ckpt # None)
  BY DEF LedgerInv, TypeOK, BoundHasCheckpoint
<1>2. row \in CaptureRow /\ (row.listing # None => row.ckpt # None)
  BY <1>1, ConstantFacts DEF CaptureRow
<1>3. WebWrite(c, row) /\ UNCHANGED <<members, ident, receipt>> /\ WebUnchanged
      /\ listings' \subseteq Sources
  BY DEF WebRecordFailure, LedgerInv, TypeOK
<1> HIDE DEF row
<1> QED BY <1>2, <1>3, WebWriteKeeps

\* A listing with provenance is not detached.
LEMMA WebDeleteListingKeeps ==
  ASSUME LedgerInv, NEW c \in Captures, WebDeleteListing(c)
  PROVE  LedgerInv'
<1> DEFINE row == [capture[c] EXCEPT !.listing = None]
<1>1. row \in CaptureRow /\ row.listing = None /\ capture' = [capture EXCEPT ![c] = row]
  BY DEF WebDeleteListing, CaptureRow, LedgerInv, TypeOK
<1>2. UNCHANGED <<members, ident, receipt, item>> /\ UNCHANGED <<ledgerVars, workerVars>>
      /\ listings' \subseteq Sources
  BY DEF WebDeleteListing, WebUnchanged, ledgerVars, LedgerInv, TypeOK
<1>3. RowMayBecome(c, row)
  BY <1>1 DEF RowMayBecome, WebDeleteListing
<1> HIDE DEF row
<1>4. DataInv' /\ capture' \in [Captures -> CaptureRow]
  BY <1>1, <1>2, <1>3, CaptureStep
<1>5. ReceiptsKept /\ ident' \in [Captures -> Idents] /\ members' \subseteq Captures
      /\ receipt' \in [Captures -> Receipt \cup {None}]
  BY <1>2 DEF ReceiptsKept, LedgerInv, TypeOK
<1> QED BY <1>2, <1>4, <1>5, WebStep

\* A checkpoint is stored on a pristine capture only, which nobody pinned.
LEMMA StoreCheckpointKeeps ==
  ASSUME LedgerInv, NEW w \in Workers, StoreCheckpoint(w)
  PROVE  LedgerInv'
<1> DEFINE c == inv[w].cur
           row == [NewCapture EXCEPT !.ckpt = inv[w].seen.ckpt]
           i == [inv[w] EXCEPT !.outcome = "succeeded"]
<1>1. pc[w] = "store" /\ c \in Captures /\ inv[w] \in Invocation
      /\ inv[w].seen \in CaptureRow /\ inv[w].seen.ckpt # None /\ ~inv[w].seen.err
      /\ UNCHANGED <<members, ident, receipt, listings, ledgerVars>>
  BY LocalTypes DEF StoreCheckpoint, Claimed, Operating, LocalsAt, Invocation
<1>2. CASE Conclude(w, "failed") /\ UNCHANGED capture
  <2>1. UNCHANGED <<captureVars, ledgerVars>>
    BY <1>1, <1>2 DEF captureVars
  <2> QED BY <1>1, <1>2, <2>1, ConcludeFailureKeeps DEF Claimed, Operating
<1>3. ASSUME capture[c] = NewCapture, capture' = [capture EXCEPT ![c].ckpt = inv[w].seen.ckpt],
             Conclude(w, "succeeded")
      PROVE  LedgerInv'
  <2>1. capture' = [capture EXCEPT ![c] = row]
    BY <1>1, <1>3
  <2>2. RowMayBecome(c, row)
    <3>1. row \in CaptureRow /\ row.listing = None
      BY <1>1 DEF NewCapture, CaptureRow
    <3>2. ~Immutable(c)
      <4>1. capture[c].ckpt = None /\ capture[c].listing = None
        BY <1>3 DEF NewCapture
      <4>2. receipt[c] = None
        BY <1>1, <4>1, ReceiptNamesBoundRow
      <4>3. ~Pinned(c)
        BY <1>1, <4>1 DEF Pinned, LedgerInv, ItemShape, PinnedCheckpointIsExact
      <4> QED BY <4>2, <4>3 DEF Immutable
    <3> QED BY <3>1, <3>2 DEF RowMayBecome
  <2>3. UNCHANGED <<members, ident, receipt, listings, item>>
    BY <1>1 DEF ledgerVars
  <2>4. DataInv' /\ capture' \in [Captures -> CaptureRow]
    <3> HIDE DEF row, c
    <3> QED BY <1>1, <2>1, <2>2, <2>3, CaptureStep
  <2>5. i \in Invocation /\ Goto(w, "finish") /\ SetInv(w, i) /\ "finish" \in PCs
    BY <1>1, <1>3, LocalUpdates DEF Conclude, PCs, Working, Claimed, Outcomes
  <2>6. LocalsAt(w)'
    BY <1>1, <2>3, <2>5, LocalTypes
       DEF LedgerInv, TypeOK, Goto, SetInv, LocalsAt, Claimed, Operating, Invocation
  <2>7. ReceiptsKept /\ receipt' \in [Captures -> Receipt \cup {None}] /\ listings' \subseteq Sources
    BY <2>3 DEF ReceiptsKept, LedgerInv, TypeOK
  <2> QED BY <1>1, <2>4, <2>5, <2>6, <2>7, WorkerCaptureStep
<1> QED BY <1>2, <1>3 DEF StoreCheckpoint

\* The binding compare-and-set keeps the checkpoint.
LEMMA BindKeeps ==
  ASSUME LedgerInv, NEW w \in Workers, Bind(w)
  PROVE  LedgerInv'
<1> DEFINE c == inv[w].cur
           row == [capture[c] EXCEPT !.listing = SourceOf[c]]
           i == [inv[w] EXCEPT !.seen = row]
<1>1. pc[w] = "bind" /\ c \in Captures /\ inv[w] \in Invocation /\ capture[c] \in CaptureRow
      /\ UNCHANGED <<members, ident, receipt, ledgerVars>>
  BY LocalTypes DEF Bind, Claimed, Operating
<1>2. CASE Conclude(w, "failed") /\ UNCHANGED <<capture, listings>>
  <2>1. UNCHANGED <<captureVars, ledgerVars>>
    BY <1>1, <1>2 DEF captureVars
  <2> QED BY <1>1, <1>2, <2>1, ConcludeFailureKeeps DEF Claimed, Operating
<1>3. CASE /\ capture[c].listing # None /\ SetInv(w, Observe(w)) /\ Goto(w, "resume")
           /\ UNCHANGED <<capture, listings>>
  <2>1. UNCHANGED <<captureVars, lease, item>> /\ run' \in [Runs -> RunRow]
    BY <1>1, <1>3, LocalTypes DEF captureVars, ledgerVars
  <2>2. Observe(w) \in Invocation /\ "resume" \in PCs
    BY <1>1, ObserveType DEF PCs, Working, Claimed, Operating
  <2>3. capture[c].ckpt # None
    BY <1>1, <1>3 DEF LedgerInv, BoundHasCheckpoint
  <2>4. LocalsAt(w)'
    BY <1>1, <1>3, <2>3, LocalTypes
       DEF LedgerInv, TypeOK, Goto, SetInv, Observe, LocalsAt, Claimed, Operating, Invocation
  <2> QED BY <1>3, <2>1, <2>2, <2>4, LocalStep
<1>4. ASSUME SameRow(w), capture' = [capture EXCEPT ![c].listing = SourceOf[c]],
             listings' = listings \cup {SourceOf[c]},
             SetInv(w, [inv[w] EXCEPT !.seen = capture'[c]]), Goto(w, "record")
      PROVE  LedgerInv'
  <2>1. capture' = [capture EXCEPT ![c] = row] /\ capture'[c] = row
    BY <1>1, <1>4 DEF LedgerInv, TypeOK
  <2>2. /\ c \in members /\ capture[c].ckpt # None /\ capture[c].listing = None
        /\ capture[c].err = FALSE
    BY <1>1, <1>4, LocalTypes DEF SameRow, LocalsAt, CaptureRow
  <2>3. receipt[c] = None
    BY <1>1, <2>2, ReceiptNamesBoundRow
  <2>4. row \in CaptureRow /\ row.ckpt = capture[c].ckpt /\ row.err = capture[c].err
        /\ row.listing # None
    BY <1>1, ConstantFacts DEF CaptureRow
  <2>5. RowMayBecome(c, row)
    <3> HIDE DEF row
    <3> QED BY <2>2, <2>3, <2>4 DEF RowMayBecome
  <2>6. UNCHANGED <<receipt, item>> /\ members \subseteq members'
    BY <1>1 DEF ledgerVars
  <2>7. DataInv' /\ capture' \in [Captures -> CaptureRow]
    <3> HIDE DEF row, c
    <3> QED BY <1>1, <2>1, <2>5, <2>6, CaptureStep
  <2>8. i \in Invocation /\ Goto(w, "record") /\ SetInv(w, i) /\ "record" \in PCs
    BY <1>1, <1>4, <2>1, <2>4, LocalUpdates DEF PCs, Working, Claimed, Operating
  <2>9. LocalsAt(w)'
    BY <1>1, <2>2, <2>4, <2>8, LocalTypes
       DEF LedgerInv, TypeOK, Goto, SetInv, LocalsAt, Claimed, Operating, Invocation
  <2>10. ReceiptsKept /\ receipt' \in [Captures -> Receipt \cup {None}] /\ listings' \subseteq Sources
    BY <1>1, <1>4, ConstantFacts DEF ReceiptsKept, LedgerInv, TypeOK
  <2> QED BY <1>1, <2>7, <2>8, <2>9, <2>10, WorkerCaptureStep
<1> QED BY <1>2, <1>3, <1>4 DEF Bind

\* A bound, exact capture obtains its receipt.
LEMMA ReceiptStep ==
  ASSUME LedgerInv, NEW c \in Captures, capture[c].listing # None, capture[c].ckpt # None,
         ~capture[c].err, receipt[c] = None,
         receipt' = [receipt EXCEPT ![c] = ReceiptFor(capture[c])],
         UNCHANGED <<members, capture, item>>
  PROVE  DataInv' /\ ReceiptsKept /\ receipt' \in [Captures -> Receipt \cup {None}]
<1> DEFINE new == ReceiptFor(capture[c])
<1>1. capture[c] \in CaptureRow
  BY DEF LedgerInv, TypeOK
<1>2. new \in Receipt
  BY <1>1 DEF ReceiptFor, Receipt, CaptureRow
<1>3. capture[c] = [ckpt |-> new.ckpt, err |-> FALSE, listing |-> new.listing]
  BY <1>1 DEF ReceiptFor, CaptureRow
<1>4. receipt \in [Captures -> Receipt \cup {None}]
  BY DEF LedgerInv, TypeOK
<1> HIDE DEF new
<1>5. /\ receipt' \in [Captures -> Receipt \cup {None}]
      /\ receipt'[c] = new
      /\ \A d \in Captures : d # c => receipt'[d] = receipt[d]
  BY <1>2, <1>4 DEF new
<1>6. ReceiptsKept
  BY <1>5 DEF ReceiptsKept
<1>7. BoundHasCheckpoint' /\ ItemShape' /\ PinnedCheckpointIsExact'
  BY DEF LedgerInv, BoundHasCheckpoint, ItemShape, PinnedCheckpointIsExact
<1>8. ReceiptIsExact'
  <2> SUFFICES ASSUME NEW d \in Captures, receipt'[d] # None
               PROVE  capture[d] = [ckpt |-> receipt'[d].ckpt, err |-> FALSE,
                                    listing |-> receipt'[d].listing]
    BY DEF ReceiptIsExact
  <2> QED BY <1>3, <1>5 DEF LedgerInv, ReceiptIsExact
<1>9. SucceededHasReceipt'
  <2> SUFFICES ASSUME NEW r \in Runs, NEW d \in Captures, item[r][d].mat = "succeeded"
               PROVE  receipt'[d] = [listing |-> item[r][d].listing, ckpt |-> item[r][d].pin]
    BY DEF SucceededHasReceipt
  <2>1. receipt[d] = [listing |-> item[r][d].listing, ckpt |-> item[r][d].pin]
    BY DEF LedgerInv, SucceededHasReceipt
  <2>2. receipt[d] # None
    BY <2>1, RowsAreOK, NoReceipt DEF ItemRow
  <2> QED BY <2>1, <2>2, <1>6 DEF ReceiptsKept
<1> QED BY <1>5, <1>6, <1>7, <1>8, <1>9 DEF DataInv

\* The receipt attests the row that is there.
LEMMA CompleteKeeps ==
  ASSUME LedgerInv, NEW w \in Workers, Complete(w)
  PROVE  LedgerInv'
<1> DEFINE c == inv[w].cur
           i == [inv[w] EXCEPT !.outcome = "succeeded"]
<1>1. /\ pc[w] \in {"resume", "record"} /\ c \in Captures /\ inv[w] \in Invocation
      /\ inv[w].phase = "materialization"
      /\ inv[w].seen \in CaptureRow /\ inv[w].seen.ckpt # None /\ inv[w].seen.listing # None
      /\ UNCHANGED <<members, ident, capture, listings, ledgerVars>>
  BY LocalTypes DEF Complete, Claimed, Operating, LocalsAt, Invocation
<1>2. CASE Conclude(w, "failed") /\ UNCHANGED receipt
  <2>1. UNCHANGED <<captureVars, ledgerVars>>
    BY <1>1, <1>2 DEF captureVars
  <2> QED BY <1>1, <1>2, <2>1, ConcludeFailureKeeps DEF Claimed, Operating
<1>3. ASSUME Conclude(w, "succeeded"),
             ReceiptsKept, receipt'[c] = ReceiptFor(inv[w].seen), receipt'[c] # None,
             DataInv', receipt' \in [Captures -> Receipt \cup {None}]
      PROVE  LedgerInv'
  <2>1. i \in Invocation /\ Goto(w, "finish") /\ SetInv(w, i) /\ "finish" \in PCs
    BY <1>1, <1>3, LocalUpdates DEF Conclude, PCs, Working, Claimed, Outcomes
  <2>2. receipt'[c].listing = inv[w].seen.listing
    BY <1>3 DEF ReceiptFor
  <2>3. LocalsAt(w)'
    BY <1>1, <1>3, <2>1, <2>2, LocalTypes
       DEF LedgerInv, TypeOK, Goto, SetInv, LocalsAt, Claimed, Operating, Invocation
  <2>4. capture' \in [Captures -> CaptureRow] /\ listings' \subseteq Sources
    BY <1>1 DEF LedgerInv, TypeOK
  <2> QED BY <1>1, <1>3, <2>1, <2>3, <2>4, WorkerCaptureStep
<1>4. ReceiptFor(inv[w].seen) \in Receipt
  BY <1>1 DEF ReceiptFor, Receipt, CaptureRow
<1>5. CASE receipt[c] = ReceiptFor(inv[w].seen) /\ UNCHANGED receipt /\ Conclude(w, "succeeded")
  <2>1. DataInv'
    BY <1>1, <1>5 DEF LedgerInv, DataInv, BoundHasCheckpoint, ItemShape, PinnedCheckpointIsExact,
                      ReceiptIsExact, SucceededHasReceipt, ledgerVars
  <2>2. ReceiptsKept /\ receipt' \in [Captures -> Receipt \cup {None}]
    BY <1>5 DEF ReceiptsKept, LedgerInv, TypeOK
  <2>3. receipt'[c] = ReceiptFor(inv[w].seen) /\ receipt'[c] # None
    BY <1>4, <1>5, ConstantFacts
  <2> QED BY <1>3, <1>5, <2>1, <2>2, <2>3
<1>6. CASE /\ SameRow(w) /\ ~inv[w].seen.err /\ ReceiptFree(c, inv[w].seen)
           /\ receipt' = [receipt EXCEPT ![c] = ReceiptFor(inv[w].seen)]
           /\ Conclude(w, "succeeded")
  <2>1. /\ capture[c] = inv[w].seen /\ receipt[c] = None
        /\ UNCHANGED <<members, capture, item>>
    BY <1>1, <1>6 DEF SameRow, ReceiptFree, ledgerVars
  <2>2. DataInv' /\ ReceiptsKept /\ receipt' \in [Captures -> Receipt \cup {None}]
    BY <1>1, <1>6, <2>1, ReceiptStep
  <2>3. receipt'[c] = ReceiptFor(inv[w].seen) /\ receipt'[c] # None
    BY <1>1, <1>4, <1>6, ConstantFacts DEF LedgerInv, TypeOK
  <2> QED BY <1>3, <1>6, <2>2, <2>3
<1> QED BY <1>2, <1>5, <1>6 DEF Complete

\* The web's receipt attests the row that is there.
LEMMA WebCompleteKeeps ==
  ASSUME LedgerInv, NEW c \in Captures, WebComplete(c)
  PROVE  LedgerInv'
<1>1. UNCHANGED <<members, ident, capture, listings, item>> /\ UNCHANGED <<ledgerVars, workerVars>>
  BY DEF WebComplete, WebUnchanged, ledgerVars
<1>2. DataInv' /\ ReceiptsKept /\ receipt' \in [Captures -> Receipt \cup {None}]
  BY <1>1, ReceiptStep DEF WebComplete, ReceiptFree
<1>3. ident' \in [Captures -> Idents] /\ members' \subseteq Captures
      /\ capture' \in [Captures -> CaptureRow] /\ listings' \subseteq Sources
  BY <1>1 DEF LedgerInv, TypeOK
<1> QED BY <1>1, <1>2, <1>3, WebStep

\* A stuttering step keeps everything.
LEMMA StutterKeeps ==
  ASSUME LedgerInv, UNCHANGED vars
  PROVE  LedgerInv'
<1>1. UNCHANGED <<captureVars, lease, item, workerVars>> /\ run' \in [Runs -> RunRow]
  BY DEF vars, ledgerVars, LedgerInv, TypeOK
<1> QED BY <1>1, RunStep

\* Every step of every invocation and of the environment keeps the ledger exact.
LEMMA NextKeeps ==
  ASSUME LedgerInv, [Next]_vars
  PROVE  LedgerInv'
<1>1. ASSUME NEW w \in Workers, NEW r \in Runs, NEW phase \in Phases, NEW recover \in BOOLEAN,
             NEW selected \in Selections(r), Start(w, r, phase, selected, recover)
      PROVE  LedgerInv'
  BY <1>1, StartKeeps
<1>2. ASSUME NEW w \in Workers, WorkerStep(w) PROVE LedgerInv'
  BY <1>2, EnsureRunKeeps, AcquireKeeps, NextMemberKeeps, InspectKeeps, ReconcileKeeps,
     ClaimKeeps, AdmitKeeps, ExtractKeeps, StoreCheckpointKeeps, MaterializeKeeps, BindKeeps,
     CompleteKeeps, FinishKeeps, ValidateTargetKeeps, ReleaseKeeps DEF WorkerStep
<1>3. ASSUME NEW w \in Workers, HeartbeatTick(w) \/ Stop(w) PROVE LedgerInv'
  BY <1>3, HeartbeatTickKeeps, AbortKeeps DEF Stop
<1>4. ASSUME NEW r \in Runs, HeartbeatAges(r) PROVE LedgerInv'
  BY <1>4, HeartbeatAgesKeeps
<1>5. ASSUME NEW c \in Captures, ChangeIdentity(c) PROVE LedgerInv'
  BY <1>5, ChangeIdentityKeeps
<1>6. ASSUME NEW c \in Exposed,
             \/ \E p \in Payloads \cup {None} : AdmitCapture(c, p)
             \/ \E p \in Payloads : WebBind(c, p) \/ WebRecordSuccess(c, p)
             \/ \E p \in Payloads \cup {capture[c].ckpt} : WebRecordFailure(c, p)
             \/ WebComplete(c) \/ WebDeleteListing(c)
      PROVE  LedgerInv'
  <2>1. c \in Captures
    BY ExposedCaptures
  <2> QED BY <1>6, <2>1, AdmitCaptureKeeps, WebKeeps, WebRecordFailureKeeps, WebCompleteKeeps,
             WebDeleteListingKeeps
<1>7. CASE Invocations
  BY <1>1, <1>2, <1>3, <1>7 DEF Invocations
<1>8. CASE Environment
  BY <1>4, <1>5, <1>6, <1>8 DEF Environment
<1> QED BY <1>7, <1>8, StutterKeeps DEF Next

-----------------------------------------------------------------------------
(* Theorems *)

\* The inductive invariant of the ledger and the captures it replays.
THEOREM LedgerIsExact == Spec => []LedgerInv
<1>1. Init => LedgerInv
  BY InitHolds
<1>2. LedgerInv /\ [Next]_vars => LedgerInv'
  BY NextKeeps
<1> QED BY <1>1, <1>2, PTL DEF Spec

\* Rows and locals stay within their domains.
THEOREM Typing == Spec => []TypeOK
BY LedgerIsExact, PTL DEF LedgerInv

\* A pinned checkpoint is what the signed capture holds from then on.
THEOREM PinnedCheckpoints == Spec => []PinnedCheckpointIsExact
BY LedgerIsExact, PTL DEF LedgerInv

\* A completion receipt attests the row as it is.
THEOREM Receipts == Spec => []ReceiptIsExact
BY LedgerIsExact, PTL DEF LedgerInv

\* A ledger success is backed by the exact completion receipt.
THEOREM LedgerSuccess == Spec => []SucceededHasReceipt
BY LedgerIsExact, PTL DEF LedgerInv
=============================================================================
