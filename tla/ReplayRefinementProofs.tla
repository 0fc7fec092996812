----------------------- MODULE ReplayRefinementProofs -----------------------
(***************************************************************************)
(* Proof that the coordinator of ReplayRun implements ReplayLedger: every  *)
(* step maps to a step of the ledger or leaves it alone.                   *)
(***************************************************************************)
EXTENDS ReplayLeaseProofs

\* What the abstract ledger shows of the state.
PinnedView == [r \in Runs |-> [c \in Captures |-> item[r][c].pin]]
ResultView == [r \in Runs |-> [c \in Captures |-> Settled(item[r][c])]]
ClosedView == {r \in Runs : run[r].status = "completed"}

\* A step that leaves the four mapped variables alone is a stutter of the ledger.
LEMMA LedgerStutter ==
  ASSUME UNCHANGED <<lease, PinnedView, ResultView, ClosedView>>
  PROVE  UNCHANGED Ledger!vars
BY DEF Ledger!vars, PinnedView, ResultView, ClosedView

\* A step that moves no item and completes no run is a stutter of the ledger.
LEMMA QuietRefines ==
  ASSUME KeepsRuns, UNCHANGED <<lease, item>>
  PROVE  UNCHANGED Ledger!vars
<1>1. UNCHANGED <<PinnedView, ResultView>>
  BY DEF PinnedView, ResultView
<1>2. UNCHANGED ClosedView
  BY DEF KeepsRuns, Unclaimed, ClosedView
<1> QED BY <1>1, <1>2, LedgerStutter

\* One item of the holder advances: an open one is pinned, settled or both.
LEMMA AdvanceRefines ==
  ASSUME LedgerInv, LeaseInv, NEW r \in Runs, lease = r, NEW c \in Members(r), NEW new \in ItemRow,
         item' = [item EXCEPT ![r][c] = new], UNCHANGED <<lease, run>>,
         Settled(item[r][c]) = "open", item[r][c].pin \in {None, new.pin},
         Settled(new) = "succeeded" => new.pin # None
  PROVE  Ledger!Next
<1> DEFINE res == Settled(new)
<1>1. c \in Captures
  BY ConstantFacts
<1>2. /\ item'[r][c] = new
      /\ \A q \in Runs, d \in Captures : (q # r \/ d # c) => item'[q][d] = item[q][d]
  BY <1>1 DEF LedgerInv, TypeOK
<1>3. PinnedView' = [PinnedView EXCEPT ![r][c] = new.pin]
  <2>1. \A q \in Runs, d \in Captures :
          item'[q][d].pin = IF q = r /\ d = c THEN new.pin ELSE item[q][d].pin
    BY <1>2
  <2>2. PinnedView' = [q \in Runs |-> [d \in Captures |->
                         IF q = r /\ d = c THEN new.pin ELSE item[q][d].pin]]
    BY <2>1 DEF PinnedView
  <2> QED BY <2>2 DEF PinnedView
<1>4. ResultView' = [ResultView EXCEPT ![r][c] = res]
  <2>1. \A q \in Runs, d \in Captures :
          Settled(item'[q][d]) = IF q = r /\ d = c THEN res ELSE Settled(item[q][d])
    BY <1>2
  <2> HIDE DEF Settled, res
  <2> QED BY <2>1 DEF ResultView
<1>5. UNCHANGED ClosedView
  BY DEF ClosedView
<1>6. /\ new.pin \in Payloads \cup {None} /\ res \in {"open", "succeeded", "refused"}
      /\ lease # None
  BY ConstantFacts DEF ItemRow, Settled
<1>7. PinnedView[r][c] = item[r][c].pin /\ ResultView[r][c] = "open"
  BY <1>1 DEF PinnedView, ResultView
<1>8. Ledger!Advance(c, new.pin, res)
  BY <1>3, <1>4, <1>5, <1>6, <1>7 DEF Ledger!Advance, PinnedView, ResultView, ClosedView
<1> QED BY <1>1, <1>6, <1>8 DEF Ledger!Next

\* Activation takes the inventory.
LEMMA AcquireRefines ==
  ASSUME LedgerInv, LeaseInv, NEW w \in Workers, Acquire(w)
  PROVE  Ledger!Next \/ UNCHANGED Ledger!vars
<1> DEFINE r == inv[w].run
<1>1. r \in Runs
  BY LocalTypes DEF Acquire
<1>2. CASE Abort(w)
  BY <1>2, QuietRefines DEF Abort, ledgerVars, KeepsRuns
<1>3. ASSUME run[r].status = "queued" \/ lease = r,
             item' = [q \in Runs |-> IF q = lease
                                     THEN [c \in Captures |-> Recovered(item[q][c])]
                                     ELSE item[q]],
             run' = [q \in Runs |->
                       IF q = r THEN [status |-> "running", phase |-> inv[w].phase,
                                      owner |-> w, fresh |-> TRUE]
                       ELSE IF q = lease THEN Unclaimed("queued") ELSE run[q]],
             lease' = r
      PROVE  Ledger!Next
  <2>1. \A q \in Runs : q = lease => run[q].status = "running"
    BY DEF LeaseInv, LeaseIsTheRunningRun
  <2>2. UNCHANGED ClosedView /\ r \notin ClosedView
    BY <1>1, <1>3, <2>1 DEF ClosedView, Unclaimed
  <2>3. \A q \in Runs, c \in Captures :
          item'[q][c].pin = item[q][c].pin /\ Settled(item'[q][c]) = Settled(item[q][c])
    <3> SUFFICES ASSUME NEW q \in Runs, NEW c \in Captures
                 PROVE  item'[q][c].pin = item[q][c].pin /\ Settled(item'[q][c]) = Settled(item[q][c])
      OBVIOUS
    <3>1. RowOK(c, item[q][c]) /\ item[q][c] \in ItemRow
      BY RowsAreOK
    <3>2. CASE q = lease
      <4>1. item'[q][c] = Recovered(item[q][c])
        BY <1>3, <3>2
      <4> QED BY <3>1, <4>1 DEF Recovered, Settled, Refused, RowOK, ItemRow
    <3> QED BY <1>3, <3>2
  <2>4. UNCHANGED <<PinnedView, ResultView>>
    BY <2>3 DEF PinnedView, ResultView
  <2>5. Ledger!Take(r)
    BY <1>1, <1>3, <2>2, <2>4 DEF Ledger!Take, PinnedView, ResultView, ClosedView
  <2> QED BY <1>1, <2>5 DEF Ledger!Next
<1> QED BY <1>2, <1>3 DEF Acquire

\* Release drops the inventory, and closes the run when all is settled.
LEMMA ReleaseRefines ==
  ASSUME LedgerInv, LeaseInv, NEW w \in Workers, Release(w)
  PROVE  Ledger!Next \/ UNCHANGED Ledger!vars
<1> DEFINE r == inv[w].run
           settled == \A c \in Members(r) : Terminal(item[r][c])
<1>1. r \in Runs
  BY LocalTypes DEF Release
<1>2. CASE Abort(w)
  BY <1>2, QuietRefines DEF Abort, ledgerVars, KeepsRuns
<1>3. ASSUME lease = r, Owns(w),
             run' = [run EXCEPT ![r] = Unclaimed(IF settled THEN "completed" ELSE "queued")],
             lease' = None, UNCHANGED item
      PROVE  Ledger!Next
  <2>1. UNCHANGED <<PinnedView, ResultView>> /\ lease # None
    BY <1>1, <1>3, ConstantFacts DEF PinnedView, ResultView
  <2>2. settled <=> \A c \in Members(r) : ResultView[r][c] # "open"
    BY <1>1, ConstantFacts DEF ResultView, Settled, Terminal
  <2>3. ClosedView' = IF settled THEN ClosedView \cup {r} ELSE ClosedView
    <3> HIDE DEF settled
    <3> QED BY <1>1, <1>3, LocalTypes DEF ClosedView, Unclaimed, Owns
  <2>4. Ledger!Drop
    <3> HIDE DEF settled
    <3> QED BY <1>1, <1>3, <2>1, <2>2, <2>3 DEF Ledger!Drop, PinnedView, ResultView, ClosedView
  <2> QED BY <2>4 DEF Ledger!Next
<1> QED BY <1>2, <1>3 DEF Release

\* A claim is invisible in the ledger.
LEMMA ClaimRefines ==
  ASSUME LedgerInv, LeaseInv, NEW w \in Workers, Claim(w)
  PROVE  Ledger!Next \/ UNCHANGED Ledger!vars
<1> DEFINE r == inv[w].run
           c == inv[w].cur
           row == item[r][c]
           new == IF inv[w].phase = "extraction" THEN [row EXCEPT !.ext = "running"]
                                                 ELSE [row EXCEPT !.mat = "running"]
<1>1. r \in Runs /\ c \in Captures /\ c \in Members(r)
  BY LocalTypes DEF Claim, LocalsAt
<1>2. CASE UNCHANGED ledgerVars
  BY <1>2, QuietRefines DEF ledgerVars, KeepsRuns
<1>3. ASSUME Claimable(w, row),
             item' = [item EXCEPT ![r][c] =
                        IF inv[w].phase = "extraction" THEN [@ EXCEPT !.ext = "running"]
                                                       ELSE [@ EXCEPT !.mat = "running"]],
             UNCHANGED <<lease, run>>
      PROVE  Ledger!Next
  <2>1. RowOK(c, row) /\ row \in ItemRow
    BY <1>1, RowsAreOK
  <2>2. /\ new \in ItemRow /\ new.pin = row.pin
        /\ Settled(row) = "open" /\ Settled(new) = "open"
    BY <1>3, <2>1 DEF Claimable, ItemRow, ExtStates, MatStates, RowOK, Settled, Refused
  <2>3. item' = [item EXCEPT ![r][c] = new]
    BY <1>1, <1>3 DEF LedgerInv, TypeOK
  <2>4. lease = r
    BY <1>1, <1>3, OneRunning DEF Claimable, OwnsPhase, Owns
  <2> HIDE DEF new, r, c
  <2> QED BY <1>1, <1>3, <2>2, <2>3, <2>4, AdvanceRefines
<1> QED BY <1>2, <1>3 DEF Claim, Abort

\* Reconciliation pins or settles a member of the holder.
LEMMA ReconcileRefines ==
  ASSUME LedgerInv, LeaseInv, NEW w \in Workers, Reconcile(w)
  PROVE  Ledger!Next \/ UNCHANGED Ledger!vars
<1> DEFINE r == inv[w].run
           c == inv[w].cur
           seen == inv[w].seen
           done == inv[w].sawReceipt
           old == item[r][c]
           new == [ext |-> "succeeded", pin |-> seen.ckpt,
                   mat |-> IF done THEN "succeeded"
                           ELSE IF old.mat = "blocked" THEN "queued" ELSE old.mat,
                   listing |-> IF done THEN seen.listing ELSE old.listing]
<1>1. r \in Runs /\ c \in Captures /\ c \in Members(r) /\ seen \in CaptureRow /\ seen.ckpt # None
  BY LocalTypes DEF Reconcile, LocalsAt, Invocation
<1>2. CASE item' = item /\ UNCHANGED <<lease, run>>
  BY <1>2, QuietRefines DEF KeepsRuns
<1>3. ASSUME OwnsPhase(w), ~Terminal(old), old.pin \in {None, seen.ckpt},
             item' = [item EXCEPT ![r][c] = new], UNCHANGED <<lease, run>>
      PROVE  Ledger!Next
  <2>1. old \in ItemRow
    BY <1>1, RowsAreOK
  <2>2. /\ new \in ItemRow /\ new.pin = seen.ckpt /\ Settled(old) = "open"
    BY <1>1, <1>3, <2>1 DEF ItemRow, ExtStates, MatStates, CaptureRow, Settled, Terminal
  <2>3. lease = r
    BY <1>1, <1>3, OneRunning DEF OwnsPhase, Owns
  <2> HIDE DEF new, r, c
  <2> QED BY <1>1, <1>3, <2>2, <2>3, AdvanceRefines
<1> QED BY <1>2, <1>3 DEF Reconcile, Abort, ledgerVars

\* A finish pins or settles a member of the holder, or leaves it open.
LEMMA FinishRefines ==
  ASSUME LedgerInv, LeaseInv, NEW w \in Workers, Finish(w)
  PROVE  Ledger!Next \/ UNCHANGED Ledger!vars
<1> DEFINE r == inv[w].run
           c == inv[w].cur
           old == item[r][c]
           new == Finished(w, old)
<1>1. r \in Runs /\ c \in Captures /\ c \in Members(r) /\ inv[w] \in Invocation
      /\ inv[w].seen \in CaptureRow
  BY LocalTypes DEF Finish, LocalsAt, Invocation, Claimed
<1>2. CASE UNCHANGED ledgerVars
  BY <1>2, QuietRefines DEF ledgerVars, KeepsRuns
<1>3. ASSUME FinishGuard(w), item' = [item EXCEPT ![r][c] = Finished(w, @)],
             UNCHANGED <<lease, run>>
      PROVE  Ledger!Next
  <2>1. RowOK(c, old) /\ old \in ItemRow
    BY <1>1, RowsAreOK
  <2>2. new \in ItemRow
    BY <1>1, <2>1 DEF Finished, ItemRow, ExtStates, MatStates, CaptureRow, Invocation, Outcomes
  <2>3. /\ Settled(old) = "open" /\ old.pin \in {None, new.pin}
        /\ Settled(new) = "succeeded" => new.pin # None
    BY <1>1, <1>3, <2>1 DEF FinishGuard, Finished, Settled, Refused, RowOK, ItemRow, Invocation, Outcomes
  <2>4. item' = [item EXCEPT ![r][c] = new]
    BY <1>1, <1>3 DEF LedgerInv, TypeOK
  <2>5. lease = r
    BY <1>1, <1>3, OneRunning DEF FinishGuard, Owns
  <2> HIDE DEF new, r, c
  <2> QED BY <1>1, <1>3, <2>2, <2>3, <2>4, <2>5, AdvanceRefines
<1> QED BY <1>2, <1>3 DEF Finish, Abort

\* Every step of the coordinator is a step of the ledger or leaves it alone.
LEMMA NextRefines ==
  ASSUME LedgerInv, LeaseInv, [Next]_vars
  PROVE  Ledger!Next \/ UNCHANGED Ledger!vars
<1>1. ASSUME NEW w \in Workers, EnsureRun(w) PROVE UNCHANGED Ledger!vars
  <2>1. KeepsRuns /\ UNCHANGED <<lease, item>>
    BY <1>1, LocalTypes DEF EnsureRun, KeepsRuns
  <2> QED BY <2>1, QuietRefines
<1>2. ASSUME NEW w \in Workers, NextMember(w) \/ HeartbeatTick(w) PROVE UNCHANGED Ledger!vars
  <2>1. (Beat(w) \/ UNCHANGED run) /\ UNCHANGED <<lease, item>>
    BY <1>2 DEF NextMember, HeartbeatTick, Abort, ledgerVars
  <2>2. run \in [Runs -> RunRow]
    BY DEF LedgerInv, TypeOK
  <2>3. KeepsRuns
    <3>1. CASE run' = [run EXCEPT ![inv[w].run].fresh = TRUE]
      BY <2>2, <3>1 DEF KeepsRuns
    <3>2. CASE UNCHANGED run
      BY <3>2 DEF KeepsRuns
    <3> QED BY <2>1, <3>1, <3>2 DEF Beat
  <2> QED BY <2>1, <2>3, QuietRefines
<1>3. ASSUME NEW w \in Workers,
             \/ Inspect(w) \/ Admit(w) \/ Extract(w) \/ StoreCheckpoint(w) \/ Materialize(w)
             \/ Bind(w) \/ Complete(w) \/ ValidateTarget(w) \/ Stop(w)
      PROVE  UNCHANGED ledgerVars
  BY <1>3 DEF Inspect, Admit, Extract, StoreCheckpoint, Materialize, Bind, Complete,
              ValidateTarget, Stop, Abort
<1>4. ASSUME NEW w \in Workers, NEW r, NEW phase, NEW selected, NEW recover,
             Start(w, r, phase, selected, recover)
      PROVE  UNCHANGED ledgerVars
  BY <1>4 DEF Start
<1>5. ASSUME NEW r \in Runs, HeartbeatAges(r) PROVE UNCHANGED Ledger!vars
  <2>1. KeepsRuns /\ UNCHANGED <<lease, item>>
    BY <1>5 DEF HeartbeatAges, KeepsRuns, LedgerInv, TypeOK, RunRow
  <2> QED BY <2>1, QuietRefines
<1>6. CASE UNCHANGED ledgerVars
  BY <1>6, QuietRefines DEF ledgerVars, KeepsRuns
<1>7. CASE Environment
  BY <1>5, <1>6, <1>7 DEF Environment, ChangeIdentity, AdmitCapture, WebBind, WebRecordSuccess,
         WebRecordFailure, WebComplete, WebDeleteListing, WebUnchanged
<1>8. CASE Invocations
  BY <1>1, <1>2, <1>3, <1>4, <1>6, <1>8, AcquireRefines, ReleaseRefines, ClaimRefines,
     ReconcileRefines, FinishRefines DEF Invocations, WorkerStep
<1> QED BY <1>6, <1>7, <1>8 DEF Next, vars

\* Nothing is held, pinned, settled or closed at first.
LEMMA InitRefines == Init => Ledger!Init
BY DEF Init, Ledger!Init, NewItem, Settled, Refused, Unclaimed

\* Whatever workers, the web application and failures do, the ledger behaves as
\* ReplayLedger promises.
THEOREM Refinement == Spec => ImplementsLedger
<1>1. Init => Ledger!Init
  BY InitRefines
<1>2. LedgerInv /\ LeaseInv /\ [Next]_vars => [Ledger!Next]_(Ledger!vars)
  BY NextRefines
<1> QED BY <1>1, <1>2, LeaseIsFenced, PTL DEF Spec, Ledger!Spec, ImplementsLedger
=============================================================================
