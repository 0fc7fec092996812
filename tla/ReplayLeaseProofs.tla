-------------------------- MODULE ReplayLeaseProofs --------------------------
(***************************************************************************)
(* Proofs about ReplayRun: the inventory lease, the fence of the owner     *)
(* token and the item in flight (LeaseInv), and what no step of an         *)
(* invocation may do.                                                      *)
(***************************************************************************)
EXTENDS ReplayRunProofs

\* Runs keep their holder; at most a missing one is queued, or a heartbeat changes.
KeepsRuns ==
  \A r \in Runs :
    \/ /\ run'[r].status = run[r].status
       /\ run'[r].phase = run[r].phase
       /\ run'[r].owner = run[r].owner
    \/ run[r].status = "absent" /\ run'[r] = Unclaimed("queued")

\* An invocation ends, approaches the ledger with a token no run carries, or
\* moves on without taking an item up or letting one go.
MovesWithItem(v) ==
  \/ pc'[v] = pc[v] /\ inv'[v] = inv[v]
  \/ pc'[v] = "idle"
  \/ pc'[v] \in {"ensure", "acquire"} /\ \A r \in Runs : run[r].owner # v
  \/ /\ pc[v] \in Working /\ pc'[v] \in Working
     /\ inv'[v].run = inv[v].run /\ inv'[v].phase = inv[v].phase
     /\ pc[v] \notin Claimed /\ pc'[v] \notin Claimed
  \/ /\ pc[v] \in Claimed /\ pc'[v] \in Claimed
     /\ inv'[v].run = inv[v].run /\ inv'[v].phase = inv[v].phase
     /\ inv'[v].cur = inv[v].cur

\* A claimed item belongs to a working invocation, and the labels before activation to none.
LEMMA Labels ==
  /\ Claimed \subseteq Working
  /\ "idle" \notin Working /\ "ensure" \notin Working /\ "acquire" \notin Working
BY DEF Working, Claimed, Operating

\* Two runs cannot both be running.
LEMMA OneRunning ==
  ASSUME LedgerInv, LeaseInv, NEW r \in Runs, run[r].status = "running"
  PROVE  lease = r /\ TargetExact(r) /\ \A q \in Runs : run[q].status = "running" => q = r
BY ConstantFacts DEF LedgerInv, TypeOK, LeaseInv, LeaseIsTheRunningRun, FreezeHolds

\* A step on which no run, item or lease changes hands.
LEMMA QuietStep ==
  ASSUME LedgerInv, LeaseInv, KeepsRuns, UNCHANGED <<lease, item>>,
         lease # None => UNCHANGED <<members, ident>>,
         \A v \in Workers : MovesWithItem(v)
  PROVE  LeaseInv'
<1>1. LeaseIsTheRunningRun'
  BY DEF LeaseInv, LeaseIsTheRunningRun, KeepsRuns, Unclaimed
<1>2. FreezeHolds'
  BY DEF LeaseInv, FreezeHolds, TargetExact, MembershipMatches, ManifestTarget
<1>3. \A r \in Runs, c \in Captures : InFlight(r, c)' = InFlight(r, c)
  BY DEF InFlight
<1>4. RunningItemsAreLeased'
  <2> SUFFICES ASSUME NEW r \in Runs, NEW c \in Captures, InFlight(r, c)
               PROVE  /\ lease = r /\ run'[r].phase = run[r].phase
                      /\ run[r].phase = IF item[r][c].ext = "running" THEN "extraction"
                                        ELSE "materialization"
                      /\ \A d \in Captures : InFlight(r, d) => d = c
    BY <1>3 DEF RunningItemsAreLeased
  <2>1. lease = r /\ run[r].status = "running"
    BY DEF LeaseInv, RunningItemsAreLeased, LeaseIsTheRunningRun
  <2> QED BY <2>1 DEF LeaseInv, RunningItemsAreLeased, KeepsRuns
<1>5. OwnerHoldsItem'
  <2> SUFFICES ASSUME NEW v \in Workers, NEW r \in Runs, run'[r].owner = v, pc'[v] # "idle"
               PROVE  /\ pc'[v] \in Working /\ inv'[v].run = r
                      /\ \A c \in Captures : InFlight(r, c) => pc'[v] \in Claimed /\ inv'[v].cur = c
    BY <1>3 DEF OwnerHoldsItem
  <2>1. run[r].owner = v
    BY ConstantFacts DEF KeepsRuns, Unclaimed
  <2>2. pc[v] # "idle" => /\ pc[v] \in Working /\ inv[v].run = r
                          /\ \A c \in Captures : InFlight(r, c) => pc[v] \in Claimed /\ inv[v].cur = c
    BY <2>1 DEF LeaseInv, OwnerHoldsItem
  <2> QED BY <2>1, <2>2, Labels DEF MovesWithItem
<1>6. ClaimSurvivesUntilFinish'
  <2> SUFFICES ASSUME NEW v \in Workers, Owns(v)', pc'[v] \in Claimed
               PROVE  /\ run'[inv'[v].run].phase = inv'[v].phase
                      /\ IF inv'[v].phase = "extraction"
                         THEN item[inv'[v].run][inv'[v].cur].ext = "running"
                         ELSE item[inv'[v].run][inv'[v].cur].mat = "running"
    BY DEF ClaimSurvivesUntilFinish, OwnsPhase
  <2>1. /\ inv'[v].run = inv[v].run /\ inv'[v].phase = inv[v].phase /\ inv'[v].cur = inv[v].cur
        /\ pc[v] \in Claimed
    BY Labels DEF MovesWithItem, Claimed, Operating
  <2>2. inv[v].run \in Runs
    BY <2>1, LocalTypes, Labels
  <2>3. run'[inv[v].run].status = "running" /\ run'[inv[v].run].owner = v
    BY <2>1 DEF Owns
  <2>4. Owns(v) /\ run'[inv[v].run].phase = run[inv[v].run].phase
    BY <2>1, <2>2, <2>3, ConstantFacts DEF Owns, KeepsRuns, Unclaimed
  <2> QED BY <2>1, <2>4 DEF LeaseInv, ClaimSurvivesUntilFinish, OwnsPhase
<1>7. CompletedIsTerminal'
  <2> SUFFICES ASSUME NEW r \in Runs, run'[r].status = "completed", NEW c \in Members(r)
               PROVE  Terminal(item[r][c])
    BY DEF CompletedIsTerminal
  <2>1. run[r].status = "completed"
    BY DEF KeepsRuns, Unclaimed
  <2> QED BY <2>1 DEF LeaseInv, CompletedIsTerminal
<1> QED BY <1>1, <1>2, <1>4, <1>5, <1>6, <1>7 DEF LeaseInv

\* The same for a step of one worker.
LEMMA QuietWorkerStep ==
  ASSUME LedgerInv, LeaseInv, KeepsRuns, UNCHANGED <<lease, item, members, ident>>,
         NEW w \in Workers, NEW l, NEW i, Goto(w, l), SetInv(w, i), MovesWithItem(w)
  PROVE  LeaseInv'
<1>1. ASSUME NEW v \in Workers PROVE MovesWithItem(v)
  <2>1. CASE v = w
    BY <2>1
  <2>2. CASE v # w
    BY <2>2 DEF LedgerInv, TypeOK, Goto, SetInv, MovesWithItem
  <2> QED BY <2>1, <2>2
<1> QED BY <1>1, QuietStep

\* An invocation that aborts changes nothing but its own state.
LEMMA QuietAbort ==
  ASSUME LedgerInv, LeaseInv, NEW w \in Workers, Abort(w)
  PROVE  LeaseInv'
<1>1. Goto(w, "idle") /\ SetInv(w, NoInvocation) /\ UNCHANGED <<lease, item, members, ident, run>>
  BY DEF Abort, End, captureVars, ledgerVars
<1>2. pc'[w] = "idle"
  BY <1>1, Arrival
<1>3. KeepsRuns /\ MovesWithItem(w)
  BY <1>1, <1>2 DEF KeepsRuns, MovesWithItem
<1> QED BY <1>1, <1>3, QuietWorkerStep

\* An operation moves between the labels of a claimed item.
LEMMA QuietOperation ==
  ASSUME LedgerInv, LeaseInv, UNCHANGED <<members, ident, ledgerVars>>,
         NEW w \in Workers, pc[w] \in Claimed, NEW l, l \in Claimed, NEW i \in Invocation,
         Goto(w, l), SetInv(w, i),
         i.run = inv[w].run, i.phase = inv[w].phase, i.cur = inv[w].cur
  PROVE  LeaseInv'
<1>1. pc'[w] = l /\ inv'[w] = i
  BY Arrival
<1>2. KeepsRuns /\ UNCHANGED <<lease, item, members, ident>>
  BY DEF KeepsRuns, ledgerVars
<1>3. MovesWithItem(w)
  BY <1>1 DEF MovesWithItem
<1> QED BY <1>2, <1>3, QuietWorkerStep

\* Concluding an operation only sets the outcome to record.
LEMMA QuietConclude ==
  ASSUME LedgerInv, LeaseInv, UNCHANGED <<members, ident, ledgerVars>>,
         NEW w \in Workers, pc[w] \in Claimed, NEW o \in Outcomes, Conclude(w, o)
  PROVE  LeaseInv'
<1> DEFINE i == [inv[w] EXCEPT !.outcome = o]
<1>1. i \in Invocation /\ i.run = inv[w].run /\ i.phase = inv[w].phase /\ i.cur = inv[w].cur
  BY LocalTypes, Labels DEF Invocation
<1>2. Goto(w, "finish") /\ SetInv(w, i) /\ "finish" \in Claimed
  BY DEF Conclude, Claimed
<1> HIDE DEF i
<1> QED BY <1>1, <1>2, QuietOperation

\* Reading the capture again keeps the lease invariant.
LEMMA QuietObserve ==
  ASSUME LedgerInv, LeaseInv, UNCHANGED <<members, ident, ledgerVars>>,
         NEW w \in Workers, pc[w] \in Claimed, NEW l \in Claimed, NEW o \in Outcomes,
         Goto(w, l), SetInv(w, Observe(w)) \/ SetInv(w, [Observe(w) EXCEPT !.outcome = o])
  PROVE  LeaseInv'
<1> DEFINE a == Observe(w)
           b == [Observe(w) EXCEPT !.outcome = o]
<1>1. /\ a \in Invocation /\ a.run = inv[w].run /\ a.phase = inv[w].phase /\ a.cur = inv[w].cur
      /\ b \in Invocation /\ b.run = inv[w].run /\ b.phase = inv[w].phase /\ b.cur = inv[w].cur
  BY ObserveType, ObservedFields
<1>2. SetInv(w, a) \/ SetInv(w, b)
  OBVIOUS
<1> HIDE DEF a, b
<1> QED BY <1>1, <1>2, QuietOperation

\* A new invocation holds nothing yet.
LEMMA StartKeepsLease ==
  ASSUME LedgerInv, LeaseInv, NEW w \in Workers, NEW r \in Runs, NEW phase \in Phases,
         NEW recover \in BOOLEAN, NEW selected \in Selections(r),
         Start(w, r, phase, selected, recover)
  PROVE  LeaseInv'
<1> DEFINE i == [NoInvocation EXCEPT !.run = r, !.phase = phase,
                                     !.todo = selected, !.recover = recover]
<1>1. Goto(w, "ensure") /\ SetInv(w, i) /\ UNCHANGED <<lease, item, members, ident, run>>
      /\ FreshToken(w)
  BY DEF Start, captureVars, ledgerVars
<1>2. pc'[w] = "ensure"
  BY <1>1, Arrival
<1>3. KeepsRuns /\ MovesWithItem(w)
  BY <1>1, <1>2 DEF KeepsRuns, MovesWithItem, FreshToken
<1> QED BY <1>1, <1>3, QuietWorkerStep

\* Inserting the run activates nothing.
LEMMA EnsureRunKeepsLease ==
  ASSUME LedgerInv, LeaseInv, NEW w \in Workers, EnsureRun(w)
  PROVE  LeaseInv'
<1> DEFINE r == inv[w].run
<1>1. pc[w] = "ensure" /\ r \in Runs /\ UNCHANGED <<lease, item, members, ident>>
  BY LocalTypes DEF EnsureRun, captureVars
<1>2. KeepsRuns
  BY <1>1, LocalTypes DEF EnsureRun, KeepsRuns
<1>3. CASE End(w)
  <2>1. Goto(w, "idle") /\ SetInv(w, NoInvocation)
    BY <1>3 DEF End
  <2>2. MovesWithItem(w)
    BY <2>1, Arrival DEF MovesWithItem
  <2> QED BY <1>1, <1>2, <2>1, <2>2, QuietWorkerStep
<1>4. CASE Goto(w, "acquire") /\ UNCHANGED inv
  <2>1. SetInv(w, inv[w]) /\ pc'[w] = "acquire"
    BY <1>4 DEF SetInv, LedgerInv, TypeOK, Goto
  <2>2. \A q \in Runs : run[q].owner # w
    BY <1>1, Labels DEF LeaseInv, OwnerHoldsItem
  <2>3. MovesWithItem(w)
    BY <2>1, <2>2 DEF MovesWithItem
  <2> QED BY <1>1, <1>2, <1>4, <2>1, <2>3, QuietWorkerStep
<1> QED BY <1>3, <1>4 DEF EnsureRun

\* At the head of the loop nothing is in flight under this token.
LEMMA NextMemberKeepsLease ==
  ASSUME LedgerInv, LeaseInv, NEW w \in Workers, NextMember(w)
  PROVE  LeaseInv'
<1>1. pc[w] = "loop" /\ UNCHANGED <<lease, item, members, ident>> /\ inv[w] \in Invocation
      /\ inv[w].run \in Runs
  BY LocalTypes DEF NextMember, captureVars
<1>2. CASE Goto(w, "validate") /\ UNCHANGED <<run, inv>>
  <2>1. SetInv(w, inv[w]) /\ pc'[w] = "validate" /\ inv'[w] = inv[w]
    BY <1>2 DEF SetInv, LedgerInv, TypeOK, Goto
  <2>2. KeepsRuns /\ MovesWithItem(w)
    BY <1>1, <1>2, <2>1 DEF KeepsRuns, MovesWithItem, Working, Claimed, Operating
  <2> QED BY <1>1, <1>2, <2>1, <2>2, QuietWorkerStep
<1>3. ASSUME NEW c \in inv[w].todo,
             Beat(w),
             SetInv(w, [inv[w] EXCEPT !.cur = c, !.todo = @ \ {c}]),
             Goto(w, IF inv[w].phase = "extraction" THEN "claim" ELSE "inspect")
      PROVE  LeaseInv'
  <2> DEFINE i == [inv[w] EXCEPT !.cur = c, !.todo = @ \ {c}]
             l == IF inv[w].phase = "extraction" THEN "claim" ELSE "inspect"
  <2>1. pc'[w] = l /\ inv'[w] = i
    BY <1>3, Arrival
  <2>2. KeepsRuns
    BY <1>1, <1>3, LocalTypes DEF KeepsRuns, Beat
  <2>3. MovesWithItem(w)
    BY <1>1, <2>1 DEF MovesWithItem, Working, Claimed, Operating, Invocation
  <2> QED BY <1>1, <1>3, <2>2, <2>3, QuietWorkerStep
<1> QED BY <1>2, <1>3 DEF NextMember

\* Inspection reads only.
LEMMA InspectKeepsLease ==
  ASSUME LedgerInv, LeaseInv, NEW w \in Workers, Inspect(w)
  PROVE  LeaseInv'
<1> DEFINE l == IF capture[inv[w].cur].err \/ capture[inv[w].cur].ckpt = None
                THEN "claim" ELSE "reconcile"
           i == Observe(w)
<1>1. pc[w] = "inspect" /\ Goto(w, l) /\ SetInv(w, i)
      /\ UNCHANGED <<lease, item, members, ident, run>>
  BY DEF Inspect, ledgerVars, captureVars
<1>2. pc'[w] = l /\ inv'[w] = i
  BY <1>1, Arrival
<1>3. i.run = inv[w].run /\ i.phase = inv[w].phase
  BY <1>1, ObserveType, ObservedFields
<1>4. l \in {"claim", "reconcile"}
  OBVIOUS
<1> HIDE DEF l, i
<1>5. KeepsRuns /\ MovesWithItem(w)
  BY <1>1, <1>2, <1>3, <1>4 DEF KeepsRuns, MovesWithItem, Working, Claimed, Operating
<1> QED BY <1>1, <1>5, QuietWorkerStep

\* Admission keeps the claimed item.
LEMMA AdmitKeepsLease ==
  ASSUME LedgerInv, LeaseInv, NEW w \in Workers, Admit(w)
  PROVE  LeaseInv'
<1> DEFINE row == capture[inv[w].cur]
           out == IF row.err THEN "rejected"
                  ELSE IF inv[w].phase = "extraction" \/ receipt[inv[w].cur] # None
                  THEN "succeeded" ELSE "failed"
           step == IF row.err THEN "finish"
                   ELSE IF inv[w].phase = "extraction"
                   THEN IF row.ckpt # None THEN "finish"
                        ELSE IF row.listing # None THEN "idle" ELSE "extract"
                   ELSE IF receipt[inv[w].cur] # None \/ row.ckpt = None
                   THEN "finish" ELSE "materialize"
<1>1. pc[w] = "admit" /\ pc[w] \in Claimed /\ UNCHANGED <<captureVars, ledgerVars>>
      /\ UNCHANGED <<members, ident, ledgerVars>>
  BY DEF Admit, Claimed, captureVars
<1>2. CASE step # "idle" /\ SetInv(w, [Observe(w) EXCEPT !.outcome = out]) /\ Goto(w, step)
  <2>1. out \in Outcomes /\ step \in Claimed
    BY <1>2 DEF Outcomes, Claimed, Operating
  <2> HIDE DEF out, step
  <2> QED BY <1>1, <1>2, <2>1, QuietObserve
<1>3. CASE End(w)
  BY <1>1, <1>3, QuietAbort DEF Abort
<1>4. CASE Conclude(w, "failed")
  BY <1>1, <1>4, QuietConclude DEF Outcomes
<1> QED BY <1>2, <1>3, <1>4 DEF Admit

\* The steps of an operation leave the ledger alone.
LEMMA OperationKeepsLease ==
  ASSUME LedgerInv, LeaseInv, NEW w \in Workers,
         \/ Extract(w) \/ StoreCheckpoint(w) \/ Materialize(w) \/ Bind(w) \/ Complete(w)
  PROVE  LeaseInv'
<1>1. /\ pc[w] \in Claimed /\ UNCHANGED <<members, ident, ledgerVars>>
      /\ {"store", "bind", "resume", "record"} \subseteq Claimed
      /\ {"succeeded", "failed", "rejected"} = Outcomes
  BY DEF Extract, StoreCheckpoint, Materialize, Bind, Complete, Claimed, Operating, captureVars,
         Outcomes
<1>2. CASE \E o \in Outcomes : Conclude(w, o)
  BY <1>1, <1>2, QuietConclude
<1>3. ASSUME NEW row \in CaptureRow, NEW l \in {"store", "record"},
             SetInv(w, [inv[w] EXCEPT !.seen = row]), Goto(w, l)
      PROVE  LeaseInv'
  <2> DEFINE i == [inv[w] EXCEPT !.seen = row]
  <2>1. i \in Invocation /\ i.run = inv[w].run /\ i.phase = inv[w].phase /\ i.cur = inv[w].cur
    BY <1>1, LocalTypes, Labels DEF Invocation
  <2> HIDE DEF i
  <2> QED BY <1>1, <1>3, <2>1, QuietOperation DEF i
<1>4. CASE \E l \in {"resume", "bind"} : SetInv(w, Observe(w)) /\ Goto(w, l)
  BY <1>1, <1>4, QuietObserve
<1>5. CASE Extract(w)
  <2>1. \A p \in Payloads : [NewCapture EXCEPT !.ckpt = p] \in CaptureRow
    BY DEF NewCapture, CaptureRow
  <2> QED BY <1>2, <1>3, <1>5, <1>1, <2>1 DEF Extract
<1>6. CASE Bind(w)
  <2>1. ASSUME capture' = [capture EXCEPT ![inv[w].cur].listing = SourceOf[inv[w].cur]],
               SetInv(w, [inv[w] EXCEPT !.seen = capture'[inv[w].cur]]), Goto(w, "record")
        PROVE  LeaseInv'
    <3>1. capture'[inv[w].cur] \in CaptureRow
      BY <1>1, <2>1, LocalTypes, ConstantFacts DEF CaptureRow
    <3> QED BY <1>3, <2>1, <3>1
  <2> QED BY <1>1, <1>2, <1>4, <1>6, <2>1 DEF Bind
<1>7. CASE StoreCheckpoint(w) \/ Materialize(w) \/ Complete(w)
  BY <1>1, <1>2, <1>4, <1>7 DEF StoreCheckpoint, Materialize, Complete
<1> QED BY <1>5, <1>6, <1>7

\* A heartbeat refreshes the row of the owner only.
LEMMA HeartbeatTickKeepsLease ==
  ASSUME LedgerInv, LeaseInv, NEW w \in Workers, HeartbeatTick(w)
  PROVE  LeaseInv'
<1>1. CASE Beat(w) /\ UNCHANGED <<captureVars, lease, item, workerVars>>
  <2>1. KeepsRuns
    BY <1>1, LocalTypes DEF KeepsRuns, Beat, Owns
  <2>2. \A v \in Workers : MovesWithItem(v)
    BY <1>1 DEF MovesWithItem, workerVars
  <2> QED BY <1>1, <2>1, <2>2, QuietStep DEF captureVars
<1> QED BY <1>1, QuietAbort DEF HeartbeatTick

\* The last validation reads only.
LEMMA ValidateTargetKeepsLease ==
  ASSUME LedgerInv, LeaseInv, NEW w \in Workers, ValidateTarget(w)
  PROVE  LeaseInv'
<1>1. CASE Goto(w, "release") /\ UNCHANGED <<captureVars, ledgerVars, inv>>
  <2>1. pc[w] = "validate" /\ SetInv(w, inv[w]) /\ pc'[w] = "release" /\ inv'[w] = inv[w]
    BY <1>1 DEF ValidateTarget, SetInv, LedgerInv, TypeOK, Goto
  <2>2. KeepsRuns /\ MovesWithItem(w) /\ UNCHANGED <<lease, item, members, ident>>
    BY <1>1, <2>1 DEF KeepsRuns, MovesWithItem, Working, Claimed, Operating, captureVars, ledgerVars
  <2> QED BY <1>1, <2>1, <2>2, QuietWorkerStep
<1> QED BY <1>1, QuietAbort DEF ValidateTarget

\* Web requests, ageing and identity changes respect the freeze.
LEMMA EnvironmentKeepsLease ==
  ASSUME LedgerInv, LeaseInv, Environment
  PROVE  LeaseInv'
<1>1. UNCHANGED <<lease, item, workerVars>> /\ (lease # None => UNCHANGED <<members, ident>>)
  BY DEF Environment, HeartbeatAges, ChangeIdentity, AdmitCapture, WebBind, WebRecordSuccess,
         WebRecordFailure, WebComplete, WebDeleteListing, WebUnchanged, ledgerVars, captureVars
<1>2. KeepsRuns
  <2>1. CASE UNCHANGED run
    BY <2>1 DEF KeepsRuns
  <2>2. CASE \E r \in Runs : HeartbeatAges(r)
    BY <2>2 DEF KeepsRuns, HeartbeatAges, LedgerInv, TypeOK, RunRow
  <2> QED BY <2>1, <2>2 DEF Environment, ChangeIdentity, AdmitCapture, WebBind, WebRecordSuccess,
         WebRecordFailure, WebComplete, WebDeleteListing, WebUnchanged, ledgerVars
<1>3. \A v \in Workers : MovesWithItem(v)
  BY <1>1 DEF MovesWithItem, workerVars
<1> QED BY <1>1, <1>2, <1>3, QuietStep

\* An owner that holds no item has none in flight; one that holds an item, only that.
LEMMA OwnedItems ==
  ASSUME LedgerInv, LeaseInv, NEW w \in Workers, pc[w] # "idle", Owns(w)
  PROVE  /\ inv[w].run \in Runs /\ lease = inv[w].run
         /\ \A d \in Captures : InFlight(inv[w].run, d) => pc[w] \in Claimed /\ inv[w].cur = d
<1>1. inv[w].run \in Runs
  BY LocalTypes
<1> QED BY <1>1, OneRunning DEF Owns, LeaseInv, OwnerHoldsItem

\* The owner changes one item: it takes it up, or leaves it not in flight.
LEMMA OwnedItemStep ==
  ASSUME LedgerInv, LeaseInv, NEW w \in Workers, Owns(w), pc[w] # "idle",
         NEW c \in Captures, NEW new \in ItemRow,
         item' = [item EXCEPT ![inv[w].run][c] = new],
         UNCHANGED <<lease, run, members, ident>>,
         NEW l \in Working, NEW i \in Invocation, Goto(w, l), SetInv(w, i),
         i.run = inv[w].run, i.phase = inv[w].phase, run[inv[w].run].phase = inv[w].phase,
         \A d \in Captures : d # c => ~InFlight(inv[w].run, d),
         \/ l \notin Claimed /\ new.ext # "running" /\ new.mat # "running"
         \/ /\ l \in Claimed /\ i.cur = c
            /\ IF i.phase = "extraction" THEN new.ext = "running" /\ new.mat # "running"
                                         ELSE new.mat = "running" /\ new.ext # "running"
  PROVE  LeaseInv'
<1> DEFINE r == inv[w].run
<1>1. r \in Runs /\ lease = r /\ run[r].status = "running" /\ run[r].owner = w
      /\ i.phase \in Phases
  BY OwnedItems DEF Owns, Invocation
<1>2. pc'[w] = l /\ inv'[w] = i
      /\ \A v \in Workers : v # w => pc'[v] = pc[v] /\ inv'[v] = inv[v]
  BY DEF LedgerInv, TypeOK, Goto, SetInv
<1>3. /\ item'[r][c] = new
      /\ \A q \in Runs, d \in Captures : (q # r \/ d # c) => item'[q][d] = item[q][d]
  BY <1>1 DEF LedgerInv, TypeOK
<1>4. LeaseIsTheRunningRun' /\ FreezeHolds'
  BY DEF LeaseInv, LeaseIsTheRunningRun, FreezeHolds, TargetExact, MembershipMatches, ManifestTarget
<1>5. \A q \in Runs, d \in Captures : InFlight(q, d)' =>
        /\ q = r /\ d = c /\ l \in Claimed /\ i.cur = c
        /\ i.phase = IF item'[q][d].ext = "running" THEN "extraction" ELSE "materialization"
  <2> SUFFICES ASSUME NEW q \in Runs, NEW d \in Captures, InFlight(q, d)'
               PROVE  /\ q = r /\ d = c /\ l \in Claimed /\ i.cur = c
                      /\ i.phase = IF item'[q][d].ext = "running" THEN "extraction"
                                   ELSE "materialization"
    OBVIOUS
  <2>1. q = r /\ d = c
    <3>1. CASE q = r /\ d # c
      BY <1>3, <3>1 DEF InFlight
    <3>2. CASE q # r
      BY <1>1, <1>3, <3>2, ConstantFacts DEF InFlight, LeaseInv, RunningItemsAreLeased
    <3> QED BY <3>1, <3>2
  <2> QED BY <1>1, <1>3, <2>1 DEF InFlight, Phases
<1>6. RunningItemsAreLeased'
  BY <1>1, <1>5 DEF RunningItemsAreLeased
<1>7. OwnerHoldsItem'
  <2> SUFFICES ASSUME NEW v \in Workers, NEW q \in Runs, run[q].owner = v, pc'[v] # "idle"
               PROVE  /\ pc'[v] \in Working /\ inv'[v].run = q
                      /\ \A d \in Captures : InFlight(q, d)' => pc'[v] \in Claimed /\ inv'[v].cur = d
    BY DEF OwnerHoldsItem
  <2>1. CASE v = w
    <3>1. q = r
      BY <2>1 DEF LeaseInv, OwnerHoldsItem
    <3> QED BY <1>2, <1>5, <2>1, <3>1
  <2>2. CASE v # w
    <3>1. q # r
      BY <1>1, <2>2
    <3>2. \A d \in Captures : ~InFlight(q, d)'
      BY <1>5, <3>1
    <3> QED BY <1>2, <2>2, <3>2 DEF LeaseInv, OwnerHoldsItem
  <2> QED BY <2>1, <2>2
<1>8. ClaimSurvivesUntilFinish'
  <2> SUFFICES ASSUME NEW v \in Workers, Owns(v)', pc'[v] \in Claimed
               PROVE  /\ run[inv'[v].run].phase = inv'[v].phase
                      /\ IF inv'[v].phase = "extraction"
                         THEN item'[inv'[v].run][inv'[v].cur].ext = "running"
                         ELSE item'[inv'[v].run][inv'[v].cur].mat = "running"
    BY DEF ClaimSurvivesUntilFinish, OwnsPhase
  <2>1. CASE v = w
    BY <1>2, <1>3, <2>1
  <2>2. CASE v # w
    <3>1. inv'[v] = inv[v] /\ pc[v] \in Claimed /\ Owns(v) /\ inv[v].run # r
      BY <1>1, <1>2, <2>2 DEF Owns
    <3>2. inv[v].run \in Runs /\ inv[v].cur \in Captures
      BY <3>1, LocalTypes, Labels
    <3> QED BY <1>3, <3>1, <3>2 DEF LeaseInv, ClaimSurvivesUntilFinish, OwnsPhase
  <2> QED BY <2>1, <2>2
<1>9. CompletedIsTerminal'
  <2> SUFFICES ASSUME NEW q \in Runs, run[q].status = "completed", NEW d \in Members(q)
               PROVE  Terminal(item'[q][d])
    BY DEF CompletedIsTerminal
  <2>1. q # r /\ d \in Captures
    BY <1>1, ConstantFacts
  <2> QED BY <1>3, <2>1 DEF LeaseInv, CompletedIsTerminal
<1> QED BY <1>4, <1>6, <1>7, <1>8, <1>9 DEF LeaseInv

\* The loop starts over; the request stays.
LEMMA NextItemFields ==
  ASSUME LedgerInv, NEW w \in Workers, pc[w] # "idle", NextItem(w)
  PROVE  \E i \in Invocation :
           /\ Goto(w, "loop") /\ SetInv(w, i)
           /\ i.run = inv[w].run /\ i.phase = inv[w].phase
<1> DEFINE i == [inv[w] EXCEPT !.cur = None, !.seen = NewCapture,
                               !.sawReceipt = FALSE, !.pin = None, !.outcome = "failed"]
<1>1. i \in Invocation /\ i.run = inv[w].run /\ i.phase = inv[w].phase
  BY LocalUpdates, LocalTypes DEF Invocation
<1>2. Goto(w, "loop") /\ SetInv(w, i)
  BY DEF NextItem
<1> QED BY <1>1, <1>2

\* A claim puts the owner's current member in flight, and nothing else.
LEMMA ClaimKeepsLease ==
  ASSUME LedgerInv, LeaseInv, NEW w \in Workers, Claim(w)
  PROVE  LeaseInv'
<1> DEFINE r == inv[w].run
           c == inv[w].cur
           row == item[r][c]
<1>1. pc[w] = "claim" /\ pc[w] \notin Claimed /\ pc[w] \in Working /\ r \in Runs /\ c \in Captures
      /\ inv[w] \in Invocation
  BY LocalTypes DEF Claim, Working, Claimed, Operating
<1>2. CASE Abort(w)
  BY <1>2, QuietAbort
<1>3. CASE NextItem(w) /\ UNCHANGED <<captureVars, ledgerVars>>
  <2>1. PICK i \in Invocation : /\ Goto(w, "loop") /\ SetInv(w, i)
                                /\ i.run = inv[w].run /\ i.phase = inv[w].phase
    BY <1>1, <1>3, NextItemFields
  <2>2. KeepsRuns /\ UNCHANGED <<lease, item, members, ident>>
    BY <1>3 DEF KeepsRuns, captureVars, ledgerVars
  <2>3. MovesWithItem(w)
    BY <1>1, <2>1, Arrival DEF MovesWithItem, Working, Claimed, Operating
  <2> QED BY <2>1, <2>2, <2>3, QuietWorkerStep
<1>4. ASSUME Claimable(w, row),
             item' = [item EXCEPT ![r][c] =
                        IF inv[w].phase = "extraction" THEN [@ EXCEPT !.ext = "running"]
                                                       ELSE [@ EXCEPT !.mat = "running"]],
             SetInv(w, [inv[w] EXCEPT !.pin = row.pin]),
             Goto(w, "admit"),
             UNCHANGED <<captureVars, lease, run>>
      PROVE  LeaseInv'
  <2> DEFINE new == IF inv[w].phase = "extraction" THEN [row EXCEPT !.ext = "running"]
                                                   ELSE [row EXCEPT !.mat = "running"]
             i == [inv[w] EXCEPT !.pin = row.pin]
  <2>1. RowOK(c, row) /\ row \in ItemRow
    BY <1>1, RowsAreOK
  <2>2. new \in ItemRow
        /\ IF inv[w].phase = "extraction" THEN new.ext = "running" /\ new.mat # "running"
                                          ELSE new.mat = "running" /\ new.ext # "running"
    BY <1>4, <2>1 DEF Claimable, ItemRow, ExtStates, MatStates, RowOK
  <2>3. item' = [item EXCEPT ![r][c] = new]
    BY <1>1, <1>4 DEF LedgerInv, TypeOK
  <2>4. i \in Invocation /\ i.run = r /\ i.phase = inv[w].phase /\ i.cur = c
    BY <1>1, <2>1 DEF Invocation, ItemRow
  <2>5. "admit" \in Claimed /\ "admit" \in Working
    BY DEF Claimed, Working
  <2>6. Owns(w) /\ run[r].phase = inv[w].phase /\ UNCHANGED <<lease, run, members, ident>>
    BY <1>4 DEF Claimable, OwnsPhase, captureVars
  <2>7. \A d \in Captures : d # c => ~InFlight(r, d)
    BY <1>1, <2>6, OwnedItems
  <2> HIDE DEF new, i, c
  <2> QED BY <1>1, <1>4, <2>2, <2>3, <2>4, <2>5, <2>6, <2>7, OwnedItemStep DEF i, c
<1> QED BY <1>2, <1>3, <1>4 DEF Claim

\* A finish takes the owner's item out of flight.
LEMMA FinishKeepsLease ==
  ASSUME LedgerInv, LeaseInv, NEW w \in Workers, Finish(w)
  PROVE  LeaseInv'
<1> DEFINE r == inv[w].run
           c == inv[w].cur
           old == item[r][c]
           new == Finished(w, old)
<1>1. pc[w] = "finish" /\ pc[w] \in Claimed /\ r \in Runs /\ c \in Captures
      /\ inv[w] \in Invocation /\ inv[w].seen \in CaptureRow
  BY LocalTypes DEF Finish, Claimed, Invocation
<1>2. CASE Abort(w)
  BY <1>2, QuietAbort
<1>3. ASSUME FinishGuard(w), item' = [item EXCEPT ![r][c] = Finished(w, @)],
             NextItem(w), UNCHANGED <<captureVars, lease, run>>
      PROVE  LeaseInv'
  <2>1. RowOK(c, old) /\ old \in ItemRow
    BY <1>1, RowsAreOK
  <2>2. new \in ItemRow
    BY <1>1, <2>1 DEF Finished, ItemRow, ExtStates, MatStates, CaptureRow, Invocation, Outcomes
  <2>3. new.ext # "running" /\ new.mat # "running"
    BY <1>1, <1>3, <2>1 DEF Finished, FinishGuard, RowOK, ItemRow, Invocation, Outcomes
  <2>4. item' = [item EXCEPT ![r][c] = new]
    BY <1>1, <1>3 DEF LedgerInv, TypeOK
  <2>5. Owns(w) /\ run[r].phase = inv[w].phase /\ UNCHANGED <<lease, run, members, ident>>
    BY <1>1, <1>3 DEF FinishGuard, LeaseInv, ClaimSurvivesUntilFinish, OwnsPhase, captureVars
  <2>6. \A d \in Captures : d # c => ~InFlight(r, d)
    BY <1>1, <2>5, OwnedItems
  <2>7. PICK i \in Invocation : /\ Goto(w, "loop") /\ SetInv(w, i)
                                /\ i.run = inv[w].run /\ i.phase = inv[w].phase
    BY <1>1, <1>3, NextItemFields
  <2>8. "loop" \in Working /\ "loop" \notin Claimed
    BY DEF Working, Claimed, Operating
  <2> HIDE DEF new, c
  <2> QED BY <1>1, <2>2, <2>3, <2>4, <2>5, <2>6, <2>7, <2>8, OwnedItemStep
<1> QED BY <1>2, <1>3 DEF Finish

\* Reconciliation puts nothing in flight and unsettles nothing.
LEMMA ReconcileKeepsLease ==
  ASSUME LedgerInv, LeaseInv, NEW w \in Workers, Reconcile(w)
  PROVE  LeaseInv'
<1> DEFINE r == inv[w].run
           c == inv[w].cur
           seen == inv[w].seen
           done == inv[w].sawReceipt
           old == item[r][c]
           new == [ext |-> "succeeded", pin |-> seen.ckpt,
                   mat |-> IF done THEN "succeeded"
                           ELSE IF old.mat = "blocked" THEN "queued" ELSE old.mat,
                   listing |-> IF done THEN seen.listing ELSE old.listing]
<1>1. pc[w] = "reconcile" /\ pc[w] \in Working /\ pc[w] \notin Claimed
      /\ r \in Runs /\ c \in Captures /\ inv[w] \in Invocation /\ seen \in CaptureRow
  BY LocalTypes DEF Reconcile, Working, Claimed, Operating, Invocation
<1>2. CASE Abort(w)
  BY <1>2, QuietAbort
<1>3. ASSUME OwnsPhase(w),
             item' = item \/ item' = [item EXCEPT ![r][c] = new],
             IF done THEN NextItem(w) ELSE Goto(w, "claim") /\ UNCHANGED inv,
             UNCHANGED <<captureVars, lease, run>>
      PROVE  LeaseInv'
  <2>1. PICK i \in Invocation, l \in {"loop", "claim"} :
          /\ Goto(w, l) /\ SetInv(w, i)
          /\ i.run = inv[w].run /\ i.phase = inv[w].phase
    <3>1. CASE done
      BY <1>1, <1>3, <3>1, NextItemFields
    <3>2. CASE ~done
      BY <1>1, <1>3, <3>2 DEF SetInv, LedgerInv, TypeOK
    <3> QED BY <3>1, <3>2
  <2>2. l \in Working /\ l \notin Claimed
    BY DEF Working, Claimed, Operating
  <2>3. Owns(w) /\ run[r].phase = inv[w].phase /\ UNCHANGED <<lease, run, members, ident>>
    BY <1>3 DEF OwnsPhase, captureVars
  <2>4. \A d \in Captures : ~InFlight(r, d)
    BY <1>1, <2>3, OwnedItems
  <2>5. CASE item' = item
    <3>1. KeepsRuns /\ MovesWithItem(w)
      BY <1>1, <2>1, <2>2, <2>3, Arrival DEF KeepsRuns, MovesWithItem
    <3> QED BY <2>1, <2>3, <2>5, <3>1, QuietWorkerStep
  <2>6. CASE item' = [item EXCEPT ![r][c] = new]
    <3>1. old \in ItemRow /\ ~InFlight(r, c)
      BY <1>1, <2>4, RowsAreOK
    <3>2. new \in ItemRow /\ new.ext # "running" /\ new.mat # "running"
      BY <1>1, <3>1 DEF InFlight, ItemRow, ExtStates, MatStates, CaptureRow
    <3> HIDE DEF new, c
    <3> QED BY <1>1, <2>1, <2>2, <2>3, <2>4, <2>6, <3>2, OwnedItemStep
  <2> QED BY <1>3, <2>5, <2>6
<1> QED BY <1>2, <1>3 DEF Reconcile

\* Activation, with or without recovery, leaves one running run with no item in flight.
LEMMA AcquireKeepsLease ==
  ASSUME LedgerInv, LeaseInv, NEW w \in Workers, Acquire(w)
  PROVE  LeaseInv'
<1> DEFINE r == inv[w].run
<1>1. pc[w] = "acquire" /\ r \in Runs /\ inv[w] \in Invocation
      /\ \A q \in Runs : run[q].owner # w
  BY LocalTypes, Labels DEF Acquire, LeaseInv, OwnerHoldsItem
<1>2. CASE Abort(w)
  BY <1>2, QuietAbort
<1>3. ASSUME InventoryAvailable(inv[w].recover), TargetExact(r),
             run[r].status = "queued" \/ lease = r,
             item' = [q \in Runs |-> IF q = lease
                                     THEN [c \in Captures |-> Recovered(item[q][c])]
                                     ELSE item[q]],
             run' = [q \in Runs |->
                       IF q = r THEN [status |-> "running", phase |-> inv[w].phase,
                                      owner |-> w, fresh |-> TRUE]
                       ELSE IF q = lease THEN Unclaimed("queued") ELSE run[q]],
             lease' = r, Goto(w, "loop"), UNCHANGED <<captureVars, inv>>
      PROVE  LeaseInv'
  <2>1. /\ run'[r].status = "running" /\ run'[r].owner = w
        /\ \A q \in Runs : q # r =>
             \/ q = lease /\ run'[q].status = "queued" /\ run'[q].owner = None
             \/ q # lease /\ run'[q] = run[q]
    BY <1>1, <1>3 DEF Unclaimed
  <2>2. \A q \in Runs : run[q].status = "running" => q = lease
    BY DEF LeaseInv, LeaseIsTheRunningRun
  <2>3. LeaseIsTheRunningRun'
    BY <1>1, <1>3, <2>1, <2>2 DEF LeaseIsTheRunningRun
  <2>4. FreezeHolds'
    BY <1>3 DEF FreezeHolds, TargetExact, MembershipMatches, ManifestTarget, captureVars
  <2>5. \A q \in Runs, c \in Captures : ~InFlight(q, c)'
    <3> SUFFICES ASSUME NEW q \in Runs, NEW c \in Captures PROVE ~InFlight(q, c)'
      OBVIOUS
    <3>1. item[q][c] \in ItemRow
      BY RowsAreOK
    <3>2. CASE q = lease
      BY <1>3, <3>1, <3>2 DEF InFlight, Recovered, ItemRow
    <3>3. CASE q # lease
      BY <1>3, <3>3 DEF InFlight, LeaseInv, RunningItemsAreLeased
    <3> QED BY <3>2, <3>3
  <2>6. RunningItemsAreLeased'
    BY <2>5 DEF RunningItemsAreLeased
  <2>7. /\ pc'[w] = "loop" /\ inv'[w] = inv[w]
        /\ \A v \in Workers : v # w => pc'[v] = pc[v] /\ inv'[v] = inv[v]
    BY <1>3 DEF LedgerInv, TypeOK, Goto
  <2>8. OwnerHoldsItem'
    <3> SUFFICES ASSUME NEW v \in Workers, NEW q \in Runs, run'[q].owner = v, pc'[v] # "idle"
                 PROVE  pc'[v] \in Working /\ inv'[v].run = q
      BY <2>5 DEF OwnerHoldsItem
    <3>1. CASE q = r
      BY <1>1, <2>1, <2>7, <3>1 DEF Working
    <3>2. CASE q # r
      <4>1. q # lease /\ run[q].owner = v
        BY <2>1, <3>2, ConstantFacts
      <4> QED BY <1>1, <2>7, <4>1 DEF LeaseInv, OwnerHoldsItem
    <3> QED BY <3>1, <3>2
  <2>9. ClaimSurvivesUntilFinish'
    <3> SUFFICES ASSUME NEW v \in Workers, Owns(v)', pc'[v] \in Claimed PROVE FALSE
      BY DEF ClaimSurvivesUntilFinish
    <3>1. v # w /\ pc[v] \in Claimed /\ inv'[v] = inv[v]
      BY <2>7 DEF Claimed, Operating
    <3>2. inv[v].run \in Runs
      BY <3>1, LocalTypes, Labels
    <3>3. run'[inv[v].run].status = "running" /\ run'[inv[v].run].owner = v
      BY <3>1 DEF Owns
    <3> QED BY <2>1, <2>2, <3>1, <3>2, <3>3
  <2>10. CompletedIsTerminal'
    <3> SUFFICES ASSUME NEW q \in Runs, run'[q].status = "completed", NEW c \in Members(q)
                 PROVE  Terminal(item'[q][c])
      BY DEF CompletedIsTerminal
    <3>1. q # lease /\ q # r /\ run[q].status = "completed"
      BY <2>1
    <3> QED BY <1>3, <3>1 DEF LeaseInv, CompletedIsTerminal
  <2> QED BY <2>3, <2>4, <2>6, <2>8, <2>9, <2>10 DEF LeaseInv
<1> QED BY <1>2, <1>3 DEF Acquire

\* Release gives back lease and run together and closes only a settled run.
LEMMA ReleaseKeepsLease ==
  ASSUME LedgerInv, LeaseInv, NEW w \in Workers, Release(w)
  PROVE  LeaseInv'
<1> DEFINE r == inv[w].run
           settled == \A c \in Members(r) : Terminal(item[r][c])
<1>1. pc[w] = "release" /\ pc[w] \notin Claimed /\ r \in Runs
  BY LocalTypes DEF Release, Claimed, Operating
<1>2. CASE Abort(w)
  BY <1>2, QuietAbort
<1>3. ASSUME Owns(w), lease = r,
             run' = [run EXCEPT ![r] = Unclaimed(IF settled THEN "completed" ELSE "queued")],
             lease' = None, End(w), UNCHANGED <<captureVars, item>>
      PROVE  LeaseInv'
  <2>1. /\ run'[r].status \in {"completed", "queued"} /\ run'[r].owner = None
        /\ run'[r].status = "completed" => settled
        /\ \A q \in Runs : q # r => run'[q] = run[q]
    BY <1>1, <1>3, LocalTypes DEF Unclaimed
  <2> HIDE DEF settled
  <2>2. \A q \in Runs : run'[q].status # "running"
    BY <1>3, <2>1 DEF LeaseInv, LeaseIsTheRunningRun
  <2>3. LeaseIsTheRunningRun' /\ FreezeHolds'
    BY <1>3, <2>2, ConstantFacts DEF LeaseIsTheRunningRun, FreezeHolds
  <2>4. \A q \in Runs, c \in Captures : ~InFlight(q, c)
    BY <1>1, <1>3, OwnedItems DEF LeaseInv, RunningItemsAreLeased
  <2>5. RunningItemsAreLeased'
    BY <1>3, <2>4 DEF RunningItemsAreLeased, InFlight
  <2>6. pc'[w] = "idle" /\ \A v \in Workers : v # w => pc'[v] = pc[v] /\ inv'[v] = inv[v]
    BY <1>3 DEF End, LedgerInv, TypeOK, Goto, SetInv
  <2>7. OwnerHoldsItem'
    <3> SUFFICES ASSUME NEW v \in Workers, NEW q \in Runs, run'[q].owner = v, pc'[v] # "idle"
                 PROVE  pc'[v] \in Working /\ inv'[v].run = q
      BY <1>3, <2>4 DEF OwnerHoldsItem, InFlight
    <3>1. v # w /\ q # r /\ run[q].owner = v
      BY <2>1, <2>6, ConstantFacts
    <3> QED BY <2>6, <3>1 DEF LeaseInv, OwnerHoldsItem
  <2>8. ClaimSurvivesUntilFinish'
    <3> SUFFICES ASSUME NEW v \in Workers, Owns(v)', pc'[v] \in Claimed PROVE FALSE
      BY DEF ClaimSurvivesUntilFinish
    <3>1. v # w /\ pc[v] \in Claimed /\ inv'[v] = inv[v]
      BY <2>6 DEF Claimed, Operating
    <3>2. inv[v].run \in Runs
      BY <3>1, LocalTypes, Labels
    <3> QED BY <2>2, <3>1, <3>2 DEF Owns
  <2>9. CompletedIsTerminal'
    <3> SUFFICES ASSUME NEW q \in Runs, run'[q].status = "completed", NEW c \in Members(q)
                 PROVE  Terminal(item[q][c])
      BY <1>3 DEF CompletedIsTerminal
    <3> QED BY <2>1 DEF LeaseInv, CompletedIsTerminal, settled
  <2> QED BY <2>3, <2>5, <2>7, <2>8, <2>9 DEF LeaseInv
<1> QED BY <1>2, <1>3 DEF Release

\* Every step keeps the lease invariant.
LEMMA NextKeepsLease ==
  ASSUME LedgerInv, LeaseInv, [Next]_vars
  PROVE  LeaseInv'
<1>1. ASSUME NEW w \in Workers, NEW r \in Runs, NEW phase \in Phases, NEW recover \in BOOLEAN,
             NEW selected \in Selections(r), Start(w, r, phase, selected, recover)
      PROVE  LeaseInv'
  BY <1>1, StartKeepsLease
<1>2. ASSUME NEW w \in Workers, WorkerStep(w) PROVE LeaseInv'
  BY <1>2, EnsureRunKeepsLease, AcquireKeepsLease, NextMemberKeepsLease, InspectKeepsLease,
     ReconcileKeepsLease, ClaimKeepsLease, AdmitKeepsLease, OperationKeepsLease,
     FinishKeepsLease, ValidateTargetKeepsLease, ReleaseKeepsLease DEF WorkerStep
<1>3. ASSUME NEW w \in Workers, HeartbeatTick(w) \/ Stop(w) PROVE LeaseInv'
  BY <1>3, HeartbeatTickKeepsLease, QuietAbort DEF Stop
<1>4. CASE Invocations
  BY <1>1, <1>2, <1>3, <1>4 DEF Invocations
<1>5. CASE UNCHANGED vars
  <2>1. KeepsRuns /\ UNCHANGED <<lease, item, members, ident>> /\ \A v \in Workers : MovesWithItem(v)
    BY <1>5 DEF vars, captureVars, ledgerVars, workerVars, KeepsRuns, MovesWithItem
  <2> QED BY <2>1, QuietStep
<1> QED BY <1>4, <1>5, EnvironmentKeepsLease DEF Next

-----------------------------------------------------------------------------
(* What a step of an invocation may never do *)

\* A step moves the program counter of the invocation that takes it only.
LEMMA OneMoves ==
  ASSUME LedgerInv, NEW w \in Workers, NEW l, Goto(w, l), NEW v \in Workers, pc'[v] # pc[v]
  PROVE  v = w
BY DEF LedgerInv, TypeOK, Goto

\* Every step that moves the ledger is a step of the owner.
LEMMA NextIsFenced ==
  ASSUME LedgerInv, Next
  PROVE  FencedStep
<1> SUFFICES ASSUME NEW v \in Workers, pc'[v] # pc[v], item' # item \/ lease' # lease
             PROVE  Owns(v) \/ Owns(v)'
  BY DEF FencedStep
<1>1. ASSUME NEW w \in Workers, Acquire(w) PROVE Owns(v) \/ Owns(v)'
  <2>1. /\ Goto(w, "loop") /\ UNCHANGED inv
        /\ run' = [q \in Runs |->
                     IF q = inv[w].run
                     THEN [status |-> "running", phase |-> inv[w].phase,
                           owner |-> w, fresh |-> TRUE]
                     ELSE IF q = lease THEN Unclaimed("queued") ELSE run[q]]
    BY <1>1 DEF Acquire, Abort, ledgerVars
  <2>2. v = w
    BY <2>1, OneMoves
  <2>3. inv[w].run \in Runs
    BY <1>1, LocalTypes DEF Acquire
  <2> QED BY <2>1, <2>2, <2>3, ConstantFacts DEF Owns
<1>2. ASSUME NEW w \in Workers, Reconcile(w) \/ Claim(w) \/ Finish(w) \/ Release(w)
      PROVE  Owns(v) \/ Owns(v)'
  <2>1. Owns(w)
    BY <1>2 DEF Reconcile, Claim, Finish, Release, Abort, ledgerVars, OwnsPhase, Claimable, FinishGuard
  <2>2. \E l : Goto(w, l)
    BY <1>2 DEF Reconcile, Claim, Finish, Release, Abort, End, NextItem
  <2> QED BY <2>1, <2>2, OneMoves
<1>3. ASSUME NEW w \in Workers,
             \/ EnsureRun(w) \/ NextMember(w) \/ Inspect(w) \/ Admit(w) \/ Extract(w)
             \/ StoreCheckpoint(w) \/ Materialize(w) \/ Bind(w) \/ Complete(w)
             \/ ValidateTarget(w) \/ HeartbeatTick(w) \/ Stop(w)
      PROVE  FALSE
  BY <1>3 DEF EnsureRun, NextMember, Inspect, Admit, Extract, StoreCheckpoint, Materialize, Bind,
              Complete, ValidateTarget, HeartbeatTick, Stop, Abort, ledgerVars
<1>4. ASSUME NEW w \in Workers, NEW r, NEW phase, NEW selected, NEW recover,
             Start(w, r, phase, selected, recover)
      PROVE  FALSE
  BY <1>4 DEF Start, ledgerVars
<1>5. CASE Environment
  BY <1>5 DEF Environment, HeartbeatAges, ChangeIdentity, AdmitCapture, WebBind, WebRecordSuccess,
         WebRecordFailure, WebComplete, WebDeleteListing, WebUnchanged, ledgerVars, workerVars
<1>6. CASE Invocations
  BY <1>1, <1>2, <1>3, <1>4, <1>6 DEF Invocations, WorkerStep
<1> QED BY <1>5, <1>6 DEF Next

\* Every step of an invocation keeps the checkpoints that are there.
LEMMA NextKeepsCheckpoints ==
  ASSUME LedgerInv, Next
  PROVE  KeepsCheckpoints
<1> SUFFICES ASSUME pc' # pc, NEW c \in Captures, capture[c].ckpt # None
             PROVE  capture'[c].ckpt = capture[c].ckpt
  BY DEF KeepsCheckpoints
<1>1. capture[c] \in CaptureRow /\ capture \in [Captures -> CaptureRow]
  BY DEF LedgerInv, TypeOK
<1>2. ASSUME NEW w \in Workers, StoreCheckpoint(w) PROVE capture'[c].ckpt = capture[c].ckpt
  <2>1. CASE UNCHANGED capture
    BY <2>1
  <2>2. CASE /\ capture[inv[w].cur] = NewCapture
             /\ capture' = [capture EXCEPT ![inv[w].cur].ckpt = inv[w].seen.ckpt]
    <3>1. c # inv[w].cur
      BY <2>2 DEF NewCapture
    <3> QED BY <1>1, <2>2, <3>1
  <2> QED BY <1>2, <2>1, <2>2 DEF StoreCheckpoint
<1>3. ASSUME NEW w \in Workers, Bind(w) PROVE capture'[c].ckpt = capture[c].ckpt
  BY <1>1, <1>3 DEF Bind, CaptureRow
<1>4. ASSUME NEW w \in Workers,
             \/ EnsureRun(w) \/ Acquire(w) \/ NextMember(w) \/ Inspect(w) \/ Reconcile(w)
             \/ Claim(w) \/ Admit(w) \/ Extract(w) \/ Materialize(w) \/ Complete(w) \/ Finish(w)
             \/ ValidateTarget(w) \/ Release(w) \/ HeartbeatTick(w) \/ Stop(w)
      PROVE  UNCHANGED capture
  BY <1>4 DEF EnsureRun, Acquire, NextMember, Inspect, Reconcile, Claim, Admit, Extract,
              Materialize, Complete, Finish, ValidateTarget, Release, HeartbeatTick, Stop, Abort,
              captureVars
<1>5. ASSUME NEW w \in Workers, NEW r, NEW phase, NEW selected, NEW recover,
             Start(w, r, phase, selected, recover)
      PROVE  UNCHANGED capture
  BY <1>5 DEF Start, captureVars
<1>6. CASE Environment
  BY <1>6 DEF Environment, HeartbeatAges, ChangeIdentity, AdmitCapture, WebBind, WebRecordSuccess,
         WebRecordFailure, WebComplete, WebDeleteListing, WebUnchanged, workerVars
<1>7. CASE Invocations
  BY <1>2, <1>3, <1>4, <1>5, <1>7 DEF Invocations, WorkerStep
<1> QED BY <1>6, <1>7 DEF Next

-----------------------------------------------------------------------------
(* Theorems *)

\* The two inductive invariants together: the second rests on the first.
THEOREM LeaseIsFenced == Spec => [](LedgerInv /\ LeaseInv)
<1>1. Init => LedgerInv /\ LeaseInv
  BY InitHolds
<1>2. (LedgerInv /\ LeaseInv) /\ [Next]_vars => (LedgerInv /\ LeaseInv)'
  BY NextKeeps, NextKeepsLease
<1> QED BY <1>1, <1>2, PTL DEF Spec

\* The lease always names the one running run.
THEOREM OneHolder == Spec => []LeaseIsTheRunningRun
BY LeaseIsFenced, PTL DEF LeaseInv

\* The target of the active run is exactly its manifest, membership and identity.
THEOREM Freeze == Spec => []FreezeHolds
BY LeaseIsFenced, PTL DEF LeaseInv

\* An item in flight belongs to the active run and phase, and it is the only one.
THEOREM ItemsInFlight == Spec => []RunningItemsAreLeased
BY LeaseIsFenced, PTL DEF LeaseInv

\* An owner keeps its item from the claim to the finish.
THEOREM Claims == Spec => []ClaimSurvivesUntilFinish
BY LeaseIsFenced, PTL DEF LeaseInv

\* A completed run has only settled members.
THEOREM Completion == Spec => []CompletedIsTerminal
BY LeaseIsFenced, PTL DEF LeaseInv

\* A worker that lost its run never changes an item or the lease again.
THEOREM Fencing == Spec => DisplacedWorkerIsFenced
<1>1. LedgerInv /\ [Next]_vars => [FencedStep]_vars
  BY NextIsFenced
<1> QED BY <1>1, LedgerIsExact, PTL DEF Spec, DisplacedWorkerIsFenced

\* No invocation, displaced or not, replaces a committed extraction checkpoint.
THEOREM Checkpoints == Spec => FirstCheckpointWins
<1>1. LedgerInv /\ [Next]_vars => [KeepsCheckpoints]_vars
  BY NextKeepsCheckpoints
<1> QED BY <1>1, LedgerIsExact, PTL DEF Spec, FirstCheckpointWins
=============================================================================
