------------------------ MODULE VerificationRunProofs ------------------------
(***************************************************************************)
(* Proofs about VerificationRun: its inductive invariant and what follows. *)
(* Everything about the rows is stated once of a triple of tables (Rows),  *)
(* because a claim goes through several of them in one transaction:        *)
(* reclaimed items, refreshed runs, and the claim itself.                  *)
(***************************************************************************)
EXTENDS VerificationRun, TLAPS

\* What the assumptions say of the constants, in the form the proofs use.
LEMMA ConstantFacts ==
  /\ RunIds \subseteq Nat
  /\ None \notin Requests /\ None \notin Tokens /\ None \notin Listings
  /\ None \notin RunIds /\ None \notin Outcomes
  /\ Outcomes \subseteq {"verified", "pending_review", "blocked", "failed"}
  /\ \A q \in Requests : \A i, j \in DOMAIN q.listings : q.listings[i] = q.listings[j] => i = j
  /\ \A q \in Requests : DOMAIN q.listings \subseteq Nat
BY RunIdsAreIds, NoneIsNew, OutcomesAreStatuses, RequestsAreValid DEF PossibleOutcomes

\* The order asked for is strict.
LEMMA BeforeIsStrict ==
  ASSUME NEW q \in Requests, NEW l \in Listings, NEW k \in Listings, Before(q, l, k)
  PROVE  l # k /\ ~Before(q, k, l)
<1>1. PICK i \in DOMAIN q.listings, j \in DOMAIN q.listings :
        i < j /\ q.listings[i] = l /\ q.listings[j] = k
  BY DEF Before
<1>2. i \in Nat /\ j \in Nat
  BY ConstantFacts
<1>3. l # k
  BY <1>1, <1>2, ConstantFacts
<1>4. ASSUME NEW m \in DOMAIN q.listings, NEW n \in DOMAIN q.listings,
             m < n, q.listings[m] = k, q.listings[n] = l
      PROVE  FALSE
  <2>1. m = j /\ n = i
    BY <1>1, <1>4, ConstantFacts
  <2> QED BY <2>1, <1>1, <1>2, <1>4
<1> QED BY <1>3, <1>4 DEF Before

-----------------------------------------------------------------------------
ItemTable(its) == its \in [RunIds -> [Listings -> ItemRow]]
RunTable(st)   == st \in [RunIds -> RunStates]

\* A row is leased if and only if it is running.
Leased(row) == /\ row.status = "running" <=> row.token # None
               /\ row.live => row.status = "running"

IsActive(its, r, l) == its[r][l].status \in {"queued", "running"}

\* What a run's row and its items say of each other.
RunOK(q, s, items) ==
  /\ s = "absent" => \A l \in Listings : items[l] = Unleased("none")
  /\ s # "absent" => q # None
  /\ \A l \in Listings :
       /\ items[l].status # "none" => q # None /\ l \in Asked(q)
       /\ items[l].status = "cancelled" => s \in {"cancelling", "cancelled"}
       /\ items[l].status = "running" => s \in {"running", "cancelling"}
       /\ s \in {"completed", "cancelled"} => items[l].status \notin {"queued", "running"}
       /\ s = "cancelling" => items[l].status # "queued"

\* A listing is active for one run.
OneRunEach(its) ==
  \A r, s \in RunIds, l \in Listings : IsActive(its, r, l) /\ IsActive(its, s, l) => r = s

\* The items of a run come in order.
Ordered(q, items) ==
  \A l, k \in Listings :
    (/\ items[l].status \in {"running"} \cup Outcomes
     /\ items[k].status # "none"
     /\ Before(q, k, l)) => items[k].status \in Outcomes

\* The invariants of the rows, of any three tables.
Rows(req, st, its) ==
  /\ ItemTable(its) /\ RunTable(st) /\ req \in [RunIds -> Requests \cup {None}]
  /\ \A r \in RunIds, l \in Listings : Leased(its[r][l])
  /\ \A r \in RunIds : RunOK(req[r], st[r], its[r])
  /\ OneRunEach(its)
  /\ \A r \in RunIds : Ordered(req[r], its[r])

Jobs == /\ pc \in [Workers -> {"down", "startup", "claim", "verify", "finish"}]
        /\ job \in [Workers -> Job] /\ JobsOK

\* The invariant is about the rows and about the jobs.
LEMMA InvParts ==
  QueueInv <=> present \subseteq Listings /\ Rows(request, status, item) /\ Jobs
BY DEF QueueInv, TypeOK, ItemsAsked, CancelledByRun, OneActivePerListing, InRequestOrder,
       RunTellsItems, Rows, RunOK, OneRunEach, Ordered, Jobs, ItemTable, RunTable,
       Leased, IsActive, Active

\* The same of the next state.
LEMMA InvPartsNext ==
  QueueInv' <=> present' \subseteq Listings /\ Rows(request', status', item') /\ Jobs'
BY DEF QueueInv, TypeOK, ItemsAsked, CancelledByRun, OneActivePerListing, InRequestOrder,
       RunTellsItems, Rows, RunOK, OneRunEach, Ordered, Jobs, ItemTable, RunTable,
       Leased, IsActive, Active

-----------------------------------------------------------------------------
(* The parts of the transactions keep the rows. *)

\* A refresh says what the items say and forgets nothing that ended.
LEMMA RefreshKeepsRows ==
  ASSUME NEW req, NEW st, NEW its, Rows(req, st, its)
  PROVE  Rows(req, [r \in RunIds |-> Refreshed(st[r], its[r])], its)
<1> DEFINE new == [r \in RunIds |-> Refreshed(st[r], its[r])]
<1>1. ASSUME NEW r \in RunIds
      PROVE  new[r] \in RunStates /\ RunOK(req[r], new[r], its[r])
  <2>1. new[r] = Refreshed(st[r], its[r]) /\ st[r] \in RunStates /\ RunOK(req[r], st[r], its[r])
    BY DEF Rows, RunTable
  <2>2. CASE st[r] \notin {"queued", "running", "cancelling"}
    BY <2>1, <2>2 DEF Refreshed
  <2>3. CASE st[r] = "cancelling"
    BY <2>1, <2>3 DEF Refreshed, RunOK, RunStates, Holds
  <2>4. CASE st[r] \in {"queued", "running"}
    BY <2>1, <2>4 DEF Refreshed, RunOK, RunStates, Holds
  <2> QED BY <2>2, <2>3, <2>4
<1>2. RunTable(new)
  BY <1>1 DEF RunTable
<1> SUFFICES Rows(req, new, its)
  OBVIOUS
<1> HIDE DEF new
<1> QED BY <1>1, <1>2 DEF Rows

\* The same of all runs at once.
LEMMA RefreshAllKeepsRows ==
  ASSUME NEW its, Rows(request, status, its)
  PROVE  Rows(request, RefreshAll(its), its)
<1>1. Rows(request, [p \in RunIds |-> Refreshed(status[p], its[p])], its)
  BY RefreshKeepsRows
<1> QED BY <1>1 DEF RefreshAll

\* An item changes on its own: it was in flight, what it becomes suits its run, or
\* only its lease runs out.
MayBecome(s, row, new) ==
  \/ new = row
  \/ /\ row.status = "running" /\ new = Unleased("queued") /\ s \in {"queued", "running"}
  \/ /\ row.status = "running" /\ new = Unleased("cancelled")
     /\ s \in {"cancelling", "cancelled"}
  \/ \E o \in Outcomes : row.status = "running" /\ new = Unleased(o)
  \/ row.status = "running" /\ new = [row EXCEPT !.live = FALSE]

\* Rows stay right when items change that way.
LEMMA ItemsKeepRows ==
  ASSUME NEW req, NEW st, NEW its, Rows(req, st, its), NEW new,
         new \in [RunIds -> [Listings -> ItemRow]],
         \A r \in RunIds, l \in Listings : MayBecome(st[r], its[r][l], new[r][l])
  PROVE  Rows(req, st, new)
<1>1. ASSUME NEW r \in RunIds, NEW l \in Listings
      PROVE  /\ Leased(new[r][l])
             /\ new[r][l].status = "none" <=> its[r][l].status = "none"
             /\ IsActive(new, r, l) => IsActive(its, r, l)
             /\ new[r][l].status = "running" => its[r][l].status = "running"
             /\ new[r][l].status = "cancelled" =>
                  its[r][l].status = "cancelled" \/ st[r] \in {"cancelling", "cancelled"}
             /\ new[r][l].status = "queued" =>
                  its[r][l].status = "queued" \/ st[r] \in {"queued", "running"}
             /\ its[r][l].status \in Outcomes => new[r][l] = its[r][l]
             /\ new[r][l].status \in Outcomes => its[r][l].status \in {"running"} \cup Outcomes
             /\ its[r][l].status = "none" => new[r][l] = its[r][l]
  <2>1. MayBecome(st[r], its[r][l], new[r][l]) /\ Leased(its[r][l])
    BY DEF Rows
  <2>2. CASE new[r][l] = its[r][l]
    BY <2>1, <2>2 DEF IsActive
  <2>3. CASE /\ its[r][l].status = "running" /\ new[r][l] = Unleased("queued")
             /\ st[r] \in {"queued", "running"}
    BY <2>3, ConstantFacts DEF Leased, Unleased, IsActive
  <2>4. CASE /\ its[r][l].status = "running" /\ new[r][l] = Unleased("cancelled")
             /\ st[r] \in {"cancelling", "cancelled"}
    BY <2>4, ConstantFacts DEF Leased, Unleased, IsActive
  <2>5. ASSUME NEW o \in Outcomes, its[r][l].status = "running", new[r][l] = Unleased(o)
        PROVE  /\ Leased(new[r][l])
               /\ new[r][l].status = o
    BY <2>5, ConstantFacts DEF Leased, Unleased
  <2>6. CASE \E o \in Outcomes : its[r][l].status = "running" /\ new[r][l] = Unleased(o)
    BY <2>5, <2>6, ConstantFacts DEF IsActive
  <2>7. CASE its[r][l].status = "running" /\ new[r][l] = [its[r][l] EXCEPT !.live = FALSE]
    <3>1. its[r][l] \in ItemRow
      BY DEF Rows, ItemTable
    <3>2. new[r][l].status = "running" /\ new[r][l].token = its[r][l].token
      BY <2>7, <3>1 DEF ItemRow
    <3> QED BY <2>1, <2>7, <3>2, ConstantFacts DEF Leased, IsActive
  <2> QED BY <2>1, <2>2, <2>3, <2>4, <2>6, <2>7 DEF MayBecome
<1>2. ASSUME NEW r \in RunIds
      PROVE  RunOK(req[r], st[r], new[r])
  <2>1. RunOK(req[r], st[r], its[r])
    BY DEF Rows
  <2>2. ASSUME NEW l \in Listings, st[r] = "absent"
        PROVE  new[r][l] = Unleased("none")
    <3>1. its[r][l] = Unleased("none")
      BY <2>1, <2>2 DEF RunOK
    <3>2. its[r][l].status = "none"
      BY <3>1 DEF Unleased
    <3> QED BY <3>1, <3>2, <1>1
  <2>3. ASSUME NEW l \in Listings
        PROVE  /\ new[r][l].status # "none" => req[r] # None /\ l \in Asked(req[r])
               /\ new[r][l].status = "cancelled" => st[r] \in {"cancelling", "cancelled"}
               /\ new[r][l].status = "running" => st[r] \in {"running", "cancelling"}
               /\ st[r] = "cancelling" => new[r][l].status # "queued"
    BY <2>1, <1>1 DEF RunOK
  <2>4. ASSUME NEW l \in Listings, st[r] \in {"completed", "cancelled"}
        PROVE  new[r][l].status \notin {"queued", "running"}
    BY <2>1, <2>4, <1>1 DEF RunOK
  <2>5. st[r] # "absent" => req[r] # None
    BY <2>1 DEF RunOK
  <2> QED BY <2>2, <2>3, <2>4, <2>5 DEF RunOK
<1>3. ASSUME NEW r \in RunIds, NEW l \in Listings, NEW k \in Listings,
             new[r][l].status \in {"running"} \cup Outcomes,
             new[r][k].status # "none", Before(req[r], k, l)
      PROVE  new[r][k].status \in Outcomes
  <2>1. its[r][l].status \in {"running"} \cup Outcomes /\ its[r][k].status # "none"
    BY <1>1, <1>3
  <2>2. its[r][k].status \in Outcomes
    BY <2>1, <1>3 DEF Rows, Ordered
  <2> QED BY <2>2, <1>1
<1>4. \A r \in RunIds : Ordered(req[r], new[r])
  BY <1>3 DEF Ordered
<1>5. OneRunEach(new)
  BY <1>1 DEF Rows, OneRunEach
<1>6. ItemTable(new)
  BY DEF ItemTable
<1> QED BY <1>1, <1>2, <1>4, <1>5, <1>6 DEF Rows

\* A reclaim changes items that way.
LEMMA ReclaimKeepsRows ==
  ASSUME Rows(request, status, item)
  PROVE  Rows(request, status, ReclaimedItems)
<1>1. ASSUME NEW r \in RunIds, NEW l \in Listings
      PROVE  /\ ReclaimedItems[r][l] = Reclaimed(status[r], item[r][l])
             /\ item[r][l] \in ItemRow
  BY DEF ReclaimedItems, Rows, ItemTable
<1>2. ASSUME NEW r \in RunIds, NEW l \in Listings
      PROVE  /\ Reclaimed(status[r], item[r][l]) \in ItemRow
             /\ MayBecome(status[r], item[r][l], Reclaimed(status[r], item[r][l]))
  BY <1>1 DEF Reclaimed, MayBecome, Unleased, ItemRow, Ended
<1>3. ReclaimedItems \in [RunIds -> [Listings -> ItemRow]]
  BY <1>2 DEF ReclaimedItems
<1> QED BY <1>1, <1>2, <1>3, ItemsKeepRows

\* The rows of one run may be replaced by rows that are right by themselves and
\* activate no listing that another run works on.
LEMMA OneRunKeepsRows ==
  ASSUME NEW req, NEW st, NEW its, Rows(req, st, its),
         NEW r \in RunIds, NEW q \in Requests \cup {None}, NEW s \in RunStates,
         NEW items \in [Listings -> ItemRow],
         \A l \in Listings : Leased(items[l]),
         RunOK(q, s, items), Ordered(q, items),
         \A l \in Listings : items[l].status \in {"queued", "running"} =>
           \A p \in RunIds : p # r => ~IsActive(its, p, l)
  PROVE  Rows([req EXCEPT ![r] = q], [st EXCEPT ![r] = s], [its EXCEPT ![r] = items])
<1> DEFINE nq == [req EXCEPT ![r] = q]
           ns == [st EXCEPT ![r] = s]
           ni == [its EXCEPT ![r] = items]
<1>1. /\ nq \in [RunIds -> Requests \cup {None}] /\ ns \in [RunIds -> RunStates]
      /\ ni \in [RunIds -> [Listings -> ItemRow]]
      /\ nq[r] = q /\ ns[r] = s /\ ni[r] = items
      /\ \A p \in RunIds : p # r => nq[p] = req[p] /\ ns[p] = st[p] /\ ni[p] = its[p]
  BY DEF Rows, ItemTable, RunTable
<1> HIDE DEF nq, ns, ni
<1>2. \A p \in RunIds, l \in Listings : Leased(ni[p][l])
  BY <1>1 DEF Rows
<1>3. \A p \in RunIds : RunOK(nq[p], ns[p], ni[p]) /\ Ordered(nq[p], ni[p])
  BY <1>1 DEF Rows
<1>4. OneRunEach(ni)
  <2>1. ASSUME NEW p \in RunIds, NEW n \in RunIds, NEW l \in Listings,
               IsActive(ni, p, l), IsActive(ni, n, l)
        PROVE  p = n
    <3>1. CASE p = r
      BY <1>1, <2>1, <3>1 DEF IsActive
    <3>2. CASE n = r
      BY <1>1, <2>1, <3>2 DEF IsActive
    <3>3. CASE p # r /\ n # r
      BY <1>1, <2>1, <3>3 DEF IsActive, Rows, OneRunEach
    <3> QED BY <3>1, <3>2, <3>3
  <2> QED BY <2>1 DEF OneRunEach
<1>5. Rows(nq, ns, ni)
  BY <1>1, <1>2, <1>3, <1>4 DEF Rows, ItemTable, RunTable
<1> QED BY <1>5 DEF nq, ns, ni

\* What an unleased row looks like.
LEMMA UnleasedRow ==
  ASSUME NEW s \in {"none", "queued"} \cup Ended
  PROVE  Unleased(s) \in ItemRow /\ Leased(Unleased(s)) /\ Unleased(s).status = s
<1>1. s # "running"
  BY ConstantFacts DEF Ended
<1> QED BY <1>1 DEF Unleased, ItemRow, Leased

\* Deleting a listing takes its items out of every run.
LEMMA DeleteKeepsRows ==
  ASSUME Rows(request, status, item), NEW l \in Listings,
         item' = [r \in RunIds |-> [item[r] EXCEPT ![l] = Unleased("none")]]
  PROVE  Rows(request, status, item')
<1>1. Unleased("none") \in ItemRow /\ Leased(Unleased("none")) /\ Unleased("none").status = "none"
  BY UnleasedRow
<1>2. /\ item \in [RunIds -> [Listings -> ItemRow]]
      /\ \A r \in RunIds : RunOK(request[r], status[r], item[r]) /\ Ordered(request[r], item[r])
      /\ \A r \in RunIds, k \in Listings : Leased(item[r][k])
  BY DEF Rows, ItemTable
<1> DEFINE gone == Unleased("none")
<1> HIDE DEF gone
<1>3. item' = [r \in RunIds |-> [item[r] EXCEPT ![l] = gone]]
  BY DEF gone
<1>4. gone \in ItemRow /\ Leased(gone) /\ gone.status = "none"
  BY <1>1 DEF gone
<1>5. /\ item' \in [RunIds -> [Listings -> ItemRow]]
      /\ \A r \in RunIds : item'[r][l] = gone
      /\ \A r \in RunIds, k \in Listings : k # l => item'[r][k] = item[r][k]
  BY <1>2, <1>3, <1>4
<1>6. \A r \in RunIds, k \in Listings : Leased(item'[r][k])
  BY <1>2, <1>4, <1>5
<1>7. ASSUME NEW r \in RunIds
      PROVE  RunOK(request[r], status[r], item'[r])
  <2>1. RunOK(request[r], status[r], item[r])
    BY <1>2
  <2>2. \A k \in Listings : item'[r][k] = item[r][k] \/ (item'[r][k] = gone /\ gone.status = "none")
    BY <1>4, <1>5
  <2>3. status[r] = "absent" => \A k \in Listings : item'[r][k] = Unleased("none")
    BY <2>1, <1>5 DEF RunOK, gone
  <2> QED BY <2>1, <2>2, <2>3 DEF RunOK
<1>8. ASSUME NEW r \in RunIds
      PROVE  Ordered(request[r], item'[r])
  <2>1. Ordered(request[r], item[r])
    BY <1>2
  <2>2. \A k \in Listings : item'[r][k] = item[r][k] \/ item'[r][k].status = "none"
    BY <1>4, <1>5
  <2>3. "none" \notin {"running"} \cup Outcomes
    BY ConstantFacts
  <2> QED BY <2>1, <2>2, <2>3 DEF Ordered
<1>9. OneRunEach(item')
  <2>1. \A r \in RunIds, k \in Listings : IsActive(item', r, k) => IsActive(item, r, k)
    BY <1>4, <1>5 DEF IsActive
  <2> QED BY <2>1 DEF OneRunEach, Rows
<1> QED BY <1>5, <1>6, <1>7, <1>8, <1>9 DEF Rows, ItemTable, RunTable

-----------------------------------------------------------------------------
(* Every transaction keeps the rows. *)

\* A new run: its items are queued, and nobody works on their listings.
LEMMA CreateKeepsRows ==
  ASSUME Rows(request, status, item), NEW r \in RunIds, NEW q \in Requests, Create(r, q)
  PROVE  Rows(request', status', item')
<1> DEFINE asked(l) == Unleased(IF l \in Asked(q) THEN "queued" ELSE "none")
           items == [l \in Listings |-> asked(l)]
<1>1. /\ request' = [request EXCEPT ![r] = q] /\ status' = [status EXCEPT ![r] = "queued"]
      /\ item' = [item EXCEPT ![r] = items]
      /\ \A l \in Asked(q), p \in RunIds : ~Active(p, l)
  BY DEF Create, CreateWith
<1>2. ASSUME NEW l \in Listings
      PROVE  /\ items[l] \in ItemRow /\ Leased(items[l])
             /\ items[l].status = IF l \in Asked(q) THEN "queued" ELSE "none"
  <2>1. CASE l \in Asked(q)
    BY <2>1, UnleasedRow
  <2>2. CASE l \notin Asked(q)
    BY <2>2, UnleasedRow
  <2> QED BY <2>1, <2>2
<1>3. q # None
  BY ConstantFacts
<1>4. items \in [Listings -> ItemRow]
  BY <1>2
<1> HIDE DEF items
<1>5. RunOK(q, "queued", items)
  BY <1>2, <1>3 DEF RunOK
<1>6. Ordered(q, items)
  BY <1>2, ConstantFacts DEF Ordered
<1>7. \A l \in Listings : items[l].status \in {"queued", "running"} =>
        \A p \in RunIds : p # r => ~IsActive(item, p, l)
  BY <1>1, <1>2 DEF Active, IsActive
<1>8. Rows([request EXCEPT ![r] = q], [status EXCEPT ![r] = "queued"], [item EXCEPT ![r] = items])
  BY <1>2, <1>4, <1>5, <1>6, <1>7, OneRunKeepsRows DEF RunStates
<1> QED BY <1>1, <1>8

\* A cancellation: the queued items of the run are cancelled with it.
LEMMA CancelKeepsRows ==
  ASSUME Rows(request, status, item), NEW r \in RunIds, Cancel(r)
  PROVE  Rows(request', status', item')
<1> DEFINE items == WithoutQueued(item[r])
           s == IF Holds(item[r], "running") THEN "cancelling" ELSE "cancelled"
<1>1. /\ request' = request /\ status' = [status EXCEPT ![r] = s]
      /\ item' = [item EXCEPT ![r] = items] /\ status[r] \in {"queued", "running"}
  BY DEF Cancel
<1>2. /\ request[r] \in Requests \cup {None} /\ request = [request EXCEPT ![r] = request[r]]
      /\ item[r] \in [Listings -> ItemRow]
      /\ RunOK(request[r], status[r], item[r]) /\ Ordered(request[r], item[r])
      /\ \A l \in Listings : Leased(item[r][l])
  BY DEF Rows, ItemTable
<1>3. s \in RunStates /\ s \in {"cancelling", "cancelled"}
  BY DEF RunStates
<1>4. ASSUME NEW l \in Listings
      PROVE  /\ items[l] \in ItemRow /\ Leased(items[l])
             /\ item[r][l].status # "queued" => items[l] = item[r][l]
             /\ item[r][l].status = "queued" => items[l].status = "cancelled"
  BY <1>2, UnleasedRow DEF WithoutQueued, Ended
<1>5. items \in [Listings -> ItemRow]
  BY <1>4 DEF WithoutQueued
<1>6. s = "cancelled" => \A l \in Listings : item[r][l].status # "running"
  BY DEF Holds
<1> HIDE DEF items, s
<1>7. RunOK(request[r], s, items)
  <2>1. s # "absent" /\ s # "completed" /\ request[r] # None
    BY <1>1, <1>2, <1>3 DEF RunOK
  <2>2. ASSUME NEW l \in Listings
        PROVE  /\ items[l].status # "none" => l \in Asked(request[r])
               /\ items[l].status = "running" => s = "cancelling"
               /\ items[l].status # "queued"
    BY <1>2, <1>3, <1>4, <1>6 DEF RunOK
  <2>3. s = "cancelled" => \A l \in Listings : items[l].status # "running"
    BY <2>2
  <2> QED BY <1>3, <2>1, <2>2, <2>3 DEF RunOK
<1>8. Ordered(request[r], items)
  <2>1. ASSUME NEW l \in Listings, NEW k \in Listings,
               items[l].status \in {"running"} \cup Outcomes,
               items[k].status # "none", Before(request[r], k, l)
        PROVE  items[k].status \in Outcomes
    <3>1. item[r][l].status \in {"running"} \cup Outcomes
      BY <1>4, <2>1, ConstantFacts
    <3>2. item[r][k].status # "none"
      BY <1>4, <2>1
    <3>3. item[r][k].status \in Outcomes
      BY <1>2, <2>1, <3>1, <3>2 DEF Ordered
    <3> QED BY <1>4, <3>3, ConstantFacts
  <2> QED BY <2>1 DEF Ordered
<1>9. \A l \in Listings : items[l].status \in {"queued", "running"} =>
        \A p \in RunIds : p # r => ~IsActive(item, p, l)
  <2>1. \A l \in Listings : items[l].status \in {"queued", "running"} => IsActive(item, r, l)
    BY <1>4 DEF IsActive
  <2> QED BY <2>1 DEF Rows, OneRunEach
<1>10. Rows([request EXCEPT ![r] = request[r]], [status EXCEPT ![r] = s], [item EXCEPT ![r] = items])
  BY <1>2, <1>3, <1>4, <1>5, <1>7, <1>8, <1>9, OneRunKeepsRows
<1> QED BY <1>1, <1>2, <1>10

\* An expiry changes one row, which keeps its place.
LEMMA ExpiryKeepsRows ==
  ASSUME Rows(request, status, item), NEW r \in RunIds, NEW l \in Listings, LeaseExpires(r, l)
  PROVE  Rows(request, status, item')
<1> DEFINE row == [item[r][l] EXCEPT !.live = FALSE]
<1>1. item \in [RunIds -> [Listings -> ItemRow]] /\ item[r][l].live /\ Leased(item[r][l])
  BY DEF Rows, ItemTable, LeaseExpires
<1>2. row \in ItemRow
  BY <1>1 DEF ItemRow
<1>3. item' = [item EXCEPT ![r] = [item[r] EXCEPT ![l] = row]]
  BY DEF LeaseExpires
<1> HIDE DEF row
<1>4. /\ item' \in [RunIds -> [Listings -> ItemRow]] /\ item'[r][l] = row
      /\ \A p \in RunIds, k \in Listings : (p = r /\ k = l) \/ item'[p][k] = item[p][k]
  BY <1>1, <1>2, <1>3
<1>5. item[r][l].status = "running"
  BY <1>1 DEF Leased
<1>6. \A p \in RunIds, k \in Listings : MayBecome(status[p], item[p][k], item'[p][k])
  BY <1>4, <1>5 DEF MayBecome, row
<1> QED BY <1>4, <1>6, ItemsKeepRows

\* The result of an attempt replaces the row in flight,
LEMMA ResultGiven ==
  ASSUME Rows(request, status, item), NEW r \in RunIds, NEW l \in Listings,
         NEW o \in Outcomes, item[r][l].status = "running",
         item' = [item EXCEPT ![r][l] = Unleased(o)]
  PROVE  Rows(request, status, item')
<1>1. item \in [RunIds -> [Listings -> ItemRow]]
  BY DEF Rows, ItemTable
<1>2. Unleased(o) \in ItemRow
  BY UnleasedRow DEF Ended
<1>3. /\ item' \in [RunIds -> [Listings -> ItemRow]] /\ item'[r][l] = Unleased(o)
      /\ \A p \in RunIds, k \in Listings : (p = r /\ k = l) \/ item'[p][k] = item[p][k]
  BY <1>1, <1>2
<1>4. \A p \in RunIds, k \in Listings : MayBecome(status[p], item[p][k], item'[p][k])
  BY <1>3 DEF MayBecome
<1> QED BY <1>3, <1>4, ItemsKeepRows

\* and all runs are refreshed.
LEMMA ResultKeepsRows ==
  ASSUME Rows(request, status, item), NEW r \in RunIds, NEW l \in Listings,
         NEW o \in Outcomes, item[r][l].status = "running",
         item' = [item EXCEPT ![r][l] = Unleased(o)]
  PROVE  Rows(request, RefreshAll(item'), item')
BY ResultGiven, RefreshAllKeepsRows

\* Reclaiming and refreshing, as a startup and a claim begin.
LEMMA ReclaimedRows ==
  ASSUME Rows(request, status, item)
  PROVE  Rows(request, RefreshAll(ReclaimedItems), ReclaimedItems)
<1>1. Rows(request, status, ReclaimedItems)
  BY ReclaimKeepsRows
<1> QED BY <1>1, RefreshAllKeepsRows

\* A claim takes the first item that may be taken, of tables that are right.
LEMMA ClaimKeepsRows ==
  ASSUME NEW st, NEW its, Rows(request, st, its),
         NEW r \in RunIds, NEW l \in Listings, NEW t \in Tokens, FirstClaimable(st, its, r, l)
  PROVE  Rows(request, [st EXCEPT ![r] = "running"],
              [its EXCEPT ![r][l] = [status |-> "running", token |-> t, live |-> TRUE]])
<1> DEFINE row == [status |-> "running", token |-> t, live |-> TRUE]
           items == [its[r] EXCEPT ![l] = row]
<1>1. /\ its \in [RunIds -> [Listings -> ItemRow]]
      /\ request[r] \in Requests \cup {None} /\ request = [request EXCEPT ![r] = request[r]]
      /\ RunOK(request[r], st[r], its[r]) /\ Ordered(request[r], its[r])
      /\ \A k \in Listings : Leased(its[r][k])
  BY DEF Rows, ItemTable
<1>2. /\ its[r][l].status = "queued" /\ st[r] \in {"queued", "running"}
      /\ \A k \in Listings : its[r][k].status # "running"
  BY DEF FirstClaimable, Claimable, Holds
<1>3. row \in ItemRow /\ Leased(row) /\ row.status = "running"
  BY ConstantFacts DEF ItemRow, Leased
<1> HIDE DEF row
<1>4. /\ items \in [Listings -> ItemRow] /\ items[l] = row
      /\ \A k \in Listings : k # l => items[k] = its[r][k]
  BY <1>1, <1>3
<1>5. \A k \in Listings : Leased(items[k])
  BY <1>1, <1>3, <1>4
<1>6. [its EXCEPT ![r][l] = row] = [its EXCEPT ![r] = items]
  BY <1>1
<1> HIDE DEF items
<1>7. request[r] \in Requests
  BY <1>1, <1>2 DEF RunOK
<1>8. RunOK(request[r], "running", items)
  <2>1. request[r] # None /\ l \in Asked(request[r])
    BY <1>1, <1>2 DEF RunOK
  <2>2. ASSUME NEW k \in Listings
        PROVE  /\ items[k].status # "none" => k \in Asked(request[r])
               /\ items[k].status # "cancelled"
    <3>1. CASE k = l
      BY <1>3, <1>4, <2>1, <3>1
    <3>2. CASE k # l
      BY <1>1, <1>2, <1>4, <3>2 DEF RunOK
    <3> QED BY <3>1, <3>2
  <2> QED BY <2>1, <2>2 DEF RunOK
<1>9. ASSUME NEW k \in Listings, its[r][k].status = "queued", k # l
      PROVE  Before(request[r], l, k)
  <2>1. Claimable(st, its, r, k)
    BY <1>2, <1>9 DEF Claimable, Holds
  <2>2. Precedes(r, l, r, k)
    BY <1>9, <2>1 DEF FirstClaimable
  <2>3. ~(r < r)
    BY ConstantFacts
  <2> QED BY <2>2, <2>3 DEF Precedes
<1>10. Ordered(request[r], items)
  <2>1. ASSUME NEW a \in Listings, NEW b \in Listings,
               items[a].status \in {"running"} \cup Outcomes,
               items[b].status # "none", Before(request[r], b, a)
        PROVE  items[b].status \in Outcomes
    <3>1. CASE a = l
      <4>1. b # l /\ ~Before(request[r], l, b)
        BY <1>7, <2>1, <3>1, BeforeIsStrict
      <4>2. items[b] = its[r][b] /\ its[r][b] \in ItemRow
        BY <1>1, <1>4, <4>1
      <4>3. its[r][b].status # "queued"
        BY <1>9, <4>1
      <4>4. its[r][b].status # "cancelled"
        BY <1>1, <1>2 DEF RunOK
      <4> QED BY <1>2, <2>1, <4>2, <4>3, <4>4 DEF ItemRow, Ended
    <3>2. CASE a # l
      <4>1. its[r][a].status \in Outcomes
        BY <1>2, <1>4, <2>1, <3>2
      <4>2. its[r][b].status # "none"
        BY <1>2, <1>4, <2>1
      <4>3. its[r][b].status \in Outcomes
        BY <1>1, <2>1, <4>1, <4>2 DEF Ordered
      <4>4. b # l
        BY <1>2, <4>3, ConstantFacts
      <4> QED BY <1>4, <4>3, <4>4
    <3> QED BY <3>1, <3>2
  <2> QED BY <2>1 DEF Ordered
<1>11. \A k \in Listings : items[k].status \in {"queued", "running"} =>
         \A p \in RunIds : p # r => ~IsActive(its, p, k)
  <2>1. \A k \in Listings : items[k].status \in {"queued", "running"} => IsActive(its, r, k)
    BY <1>2, <1>4 DEF IsActive
  <2> QED BY <2>1 DEF Rows, OneRunEach
<1>12. Rows([request EXCEPT ![r] = request[r]], [st EXCEPT ![r] = "running"],
            [its EXCEPT ![r] = items])
  BY <1>1, <1>4, <1>5, <1>8, <1>10, <1>11, OneRunKeepsRows DEF RunStates
<1> QED BY <1>1, <1>6, <1>12 DEF row

-----------------------------------------------------------------------------
(* Every step keeps the jobs. *)

Labels == {"down", "startup", "claim", "verify", "finish"}

\* What a job must be where the worker is.
JobSuits(label, j) ==
  /\ label \in {"down", "startup", "claim"} => j = NoJob
  /\ label \in {"verify", "finish"} => j.run # None /\ j.listing # None /\ j.token # None
  /\ label = "finish" => j.outcome # None

\* A worker may move and change its job when the token is nobody else's.
LEMMA MoveKeepsJobs ==
  ASSUME Jobs, NEW w \in Workers, NEW label \in Labels, NEW j \in Job, JobSuits(label, j),
         pc' = [pc EXCEPT ![w] = label], job' = [job EXCEPT ![w] = j],
         j.token # None => \A v \in Workers : v # w => job[v].token # j.token
  PROVE  Jobs'
<1>1. /\ pc' \in [Workers -> Labels] /\ job' \in [Workers -> Job]
      /\ pc'[w] = label /\ job'[w] = j
      /\ \A v \in Workers : v # w => pc'[v] = pc[v] /\ job'[v] = job[v]
  BY DEF Jobs, Labels
<1>2. ASSUME NEW v \in Workers
      PROVE  JobSuits(pc'[v], job'[v])
  <2>1. CASE v = w
    BY <1>1, <2>1
  <2>2. CASE v # w
    BY <1>1, <2>2 DEF Jobs, JobsOK, JobSuits
  <2> QED BY <2>1, <2>2
<1>3. ASSUME NEW v \in Workers, NEW u \in Workers,
             job'[v].token # None, job'[u].token = job'[v].token
      PROVE  u = v
  <2>1. CASE v = w \/ u = w
    BY <1>1, <1>3, <2>1
  <2>2. CASE v # w /\ u # w
    BY <1>1, <1>3, <2>2 DEF Jobs, JobsOK
  <2> QED BY <2>1, <2>2
<1>4. JobsOK'
  BY <1>2, <1>3 DEF JobsOK, JobSuits
<1> QED BY <1>1, <1>4 DEF Jobs, Labels

\* A worker without a job.
LEMMA IdleSuits ==
  /\ NoJob \in Job /\ NoJob.token = None
  /\ \A label \in {"down", "startup", "claim"} : JobSuits(label, NoJob)
BY DEF NoJob, Job, JobSuits

\* A worker that drops its job, if it had one.
LEMMA IdleKeepsJobs ==
  ASSUME Jobs, NEW w \in Workers, NEW label \in {"down", "startup", "claim"},
         pc' = [pc EXCEPT ![w] = label], job' = [job EXCEPT ![w] = NoJob]
  PROVE  Jobs'
BY IdleSuits, MoveKeepsJobs DEF Labels

\* Nothing happens to workers.
LEMMA QuietKeepsJobs ==
  ASSUME Jobs, UNCHANGED workerVars
  PROVE  Jobs'
BY DEF Jobs, JobsOK, workerVars

\* A worker that waits has no job to drop.
LEMMA WaitingHasNoJob ==
  ASSUME Jobs, NEW w \in Workers, pc[w] \in {"down", "startup", "claim"}, job' = job
  PROVE  job' = [job EXCEPT ![w] = NoJob]
BY DEF Jobs, JobsOK

\* A claim draws a token nobody has.
LEMMA ClaimKeepsJobs ==
  ASSUME Jobs, NEW w \in Workers, Claim(w)
  PROVE  Jobs'
<1>1. CASE UNCHANGED workerVars
  BY <1>1, QuietKeepsJobs
<1>2. CASE \E r \in RunIds, l \in Listings, t \in Tokens :
             /\ NewToken(t) /\ Goto(w, "verify")
             /\ SetJob(w, [run |-> r, listing |-> l, token |-> t, outcome |-> None])
  <2>1. PICK r \in RunIds, l \in Listings, t \in Tokens :
             /\ NewToken(t) /\ Goto(w, "verify")
             /\ SetJob(w, [run |-> r, listing |-> l, token |-> t, outcome |-> None])
    BY <1>2
  <2> DEFINE j == [run |-> r, listing |-> l, token |-> t, outcome |-> None]
  <2>2. j \in Job /\ j.token = t /\ j.run = r /\ j.listing = l
    BY DEF Job
  <2> HIDE DEF j
  <2>3. job' = [job EXCEPT ![w] = j] /\ pc' = [pc EXCEPT ![w] = "verify"]
    BY <2>1 DEF Goto, SetJob, j
  <2>4. r # None /\ l # None /\ t # None
    BY ConstantFacts
  <2>5. JobSuits("verify", j)
    BY <2>2, <2>4 DEF JobSuits
  <2>6. \A v \in Workers : v # w => job[v].token # j.token
    BY <2>1, <2>2 DEF NewToken
  <2> QED BY <2>2, <2>3, <2>5, <2>6, MoveKeepsJobs DEF Labels
<1> QED BY <1>1, <1>2 DEF Claim

\* The outcome joins the job.
LEMMA VerifyKeepsJobs ==
  ASSUME Jobs, NEW w \in Workers, Verify(w)
  PROVE  Jobs'
<1>1. PICK o \in Outcomes : SetJob(w, [job[w] EXCEPT !.outcome = o])
  BY DEF Verify
<1> DEFINE j == [job[w] EXCEPT !.outcome = o]
<1>2. job[w] \in Job /\ pc[w] = "verify"
  BY DEF Jobs, Verify
<1>3. /\ j \in Job /\ j.outcome = o
      /\ j.run = job[w].run /\ j.listing = job[w].listing /\ j.token = job[w].token
  BY <1>2 DEF Job
<1> HIDE DEF j
<1>4. job' = [job EXCEPT ![w] = j] /\ pc' = [pc EXCEPT ![w] = "finish"]
  BY <1>1 DEF Verify, Goto, SetJob, j
<1>5. JobSuits("finish", j)
  BY <1>2, <1>3, ConstantFacts DEF JobSuits, Jobs, JobsOK
<1>6. j.token # None => \A v \in Workers : v # w => job[v].token # j.token
  BY <1>3 DEF Jobs, JobsOK
<1> QED BY <1>3, <1>4, <1>5, <1>6, MoveKeepsJobs DEF Labels

-----------------------------------------------------------------------------
(* The invariant. *)

LEMMA InitHolds == Init => QueueInv
<1> SUFFICES ASSUME Init PROVE QueueInv
  OBVIOUS
<1>1. Unleased("none") \in ItemRow /\ Leased(Unleased("none")) /\ Unleased("none").status = "none"
  BY UnleasedRow
<1> DEFINE empty == Unleased("none")
<1>2. empty \in ItemRow /\ Leased(empty) /\ empty.status = "none"
  BY <1>1
<1>3. \A r \in RunIds : request[r] = None /\ status[r] = "absent"
                        /\ \A l \in Listings : item[r][l] = empty
  BY DEF Init
<1>4. item = [r \in RunIds |-> [l \in Listings |-> empty]]
  BY DEF Init
<1> HIDE DEF empty
<1>5. ItemTable(item)
  BY <1>2, <1>4 DEF ItemTable
<1>6. /\ RunTable(status) /\ request \in [RunIds -> Requests \cup {None}]
      /\ present \subseteq Listings
  BY DEF Init, RunTable, RunStates
<1>7. \A r \in RunIds : RunOK(request[r], status[r], item[r])
  BY <1>2, <1>3 DEF RunOK, empty
<1>8. OneRunEach(item) /\ \A r \in RunIds : Ordered(request[r], item[r])
  BY <1>2, <1>3 DEF OneRunEach, IsActive, Ordered
<1>9. Rows(request, status, item)
  BY <1>2, <1>3, <1>5, <1>6, <1>7, <1>8 DEF Rows
<1>10. Jobs
  <2>1. \A w \in Workers : pc[w] = "down" /\ job[w] = NoJob
    BY DEF Init
  <2>2. JobsOK
    BY <2>1, IdleSuits DEF JobsOK
  <2>3. pc \in [Workers -> Labels] /\ job \in [Workers -> Job]
    BY IdleSuits DEF Init, Labels
  <2> QED BY <2>2, <2>3 DEF Jobs, Labels
<1> QED BY <1>6, <1>9, <1>10, InvParts

\* Users leave the jobs alone, and each change of theirs keeps the rows.
LEMMA UsersKeepInv ==
  ASSUME QueueInv, Users
  PROVE  QueueInv'
<1>1. present \subseteq Listings /\ Rows(request, status, item) /\ Jobs
  BY InvParts
<1>2. ASSUME NEW r \in RunIds, NEW q \in Requests, Create(r, q)
      PROVE  QueueInv'
  <2>1. Rows(request', status', item')
    BY <1>1, <1>2, CreateKeepsRows
  <2>2. Jobs' /\ present' = present
    BY <1>1, <1>2, QuietKeepsJobs DEF Create, CreateWith
  <2> QED BY <1>1, <2>1, <2>2, InvPartsNext
<1>3. ASSUME NEW r \in RunIds, Cancel(r)
      PROVE  QueueInv'
  <2>1. Rows(request', status', item')
    BY <1>1, <1>3, CancelKeepsRows
  <2>2. Jobs' /\ present' = present
    BY <1>1, <1>3, QuietKeepsJobs DEF Cancel
  <2> QED BY <1>1, <2>1, <2>2, InvPartsNext
<1>4. ASSUME NEW l \in Listings, DeleteListing(l)
      PROVE  QueueInv'
  <2>1. Rows(request, status, item')
    BY <1>1, <1>4, DeleteKeepsRows DEF DeleteListing
  <2>2. Jobs' /\ present' \subseteq Listings /\ request' = request /\ status' = status
    BY <1>1, <1>4, QuietKeepsJobs DEF DeleteListing, runVars
  <2> QED BY <2>1, <2>2, InvPartsNext
<1> QED BY <1>2, <1>3, <1>4 DEF Users

\* A worker's step keeps the rows and its job.
LEMMA WorkerKeepsInv ==
  ASSUME QueueInv, NEW w \in Workers, WorkerStep(w) \/ FinishFails(w) \/ Crash(w)
  PROVE  QueueInv'
<1>1. present \subseteq Listings /\ Rows(request, status, item) /\ Jobs
  BY InvParts
<1>2. CASE Boot(w)
  <2>1. Jobs'
    BY <1>1, <1>2, WaitingHasNoJob, IdleKeepsJobs DEF Boot, Goto
  <2>2. UNCHANGED <<present, request, status, item>>
    BY <1>2 DEF Boot, runVars
  <2> QED BY <1>1, <2>1, <2>2, InvPartsNext
<1>3. CASE Startup(w)
  <2>1. Jobs'
    BY <1>1, <1>3, WaitingHasNoJob, IdleKeepsJobs DEF Startup, Goto
  <2>2. present' = present /\ request' = request
    BY <1>3 DEF Startup
  <2>3. Rows(request, status', item')
    <3>1. CASE UNCHANGED <<item, status>>
      BY <1>1, <3>1
    <3>2. CASE item' = ReclaimedItems /\ status' = RefreshAll(item')
      BY <1>1, <3>2, ReclaimedRows
    <3> QED BY <1>3, <3>1, <3>2 DEF Startup
  <2> QED BY <1>1, <2>1, <2>2, <2>3, InvPartsNext
<1>4. CASE Claim(w)
  <2>1. Jobs'
    BY <1>1, <1>4, ClaimKeepsJobs
  <2>2. present' = present /\ request' = request
    BY <1>4 DEF Claim
  <2>3. Rows(request, status', item')
    <3>1. CASE item' = ReclaimedItems /\ status' = RefreshAll(ReclaimedItems)
      BY <1>1, <3>1, ReclaimedRows
    <3>2. ASSUME NEW r \in RunIds, NEW l \in Listings, NEW t \in Tokens,
                 FirstClaimable(RefreshAll(ReclaimedItems), ReclaimedItems, r, l),
                 item' = [ReclaimedItems EXCEPT ![r][l] =
                            [status |-> "running", token |-> t, live |-> TRUE]],
                 status' = [RefreshAll(ReclaimedItems) EXCEPT ![r] = "running"]
          PROVE  Rows(request, status', item')
      <4> DEFINE its == ReclaimedItems
                 st == RefreshAll(its)
      <4>1. Rows(request, st, its)
        BY <1>1, ReclaimedRows
      <4> HIDE DEF its, st
      <4>2. Rows(request, [st EXCEPT ![r] = "running"],
                 [its EXCEPT ![r][l] = [status |-> "running", token |-> t, live |-> TRUE]])
        BY <3>2, <4>1, ClaimKeepsRows DEF its, st
      <4> QED BY <3>2, <4>2 DEF its, st
    <3> QED BY <1>4, <3>1, <3>2 DEF Claim
  <2> QED BY <1>1, <2>1, <2>2, <2>3, InvPartsNext
<1>5. CASE Verify(w)
  <2>1. Jobs'
    BY <1>1, <1>5, VerifyKeepsJobs
  <2>2. UNCHANGED <<present, request, status, item>>
    BY <1>5 DEF Verify, runVars
  <2> QED BY <1>1, <2>1, <2>2, InvPartsNext
<1>6. CASE Finish(w)
  <2>1. Jobs'
    BY <1>1, <1>6, IdleKeepsJobs DEF Finish, Goto, SetJob
  <2>2. present' = present /\ request' = request
    BY <1>6 DEF Finish
  <2>3. Rows(request, status', item')
    <3>1. CASE UNCHANGED <<item, status>>
      BY <1>1, <3>1
    <3>2. CASE /\ HoldsLease(w)
               /\ item' = [item EXCEPT ![job[w].run][job[w].listing] = Unleased(job[w].outcome)]
               /\ status' = RefreshAll(item')
      <4>1. /\ job[w].run \in RunIds /\ job[w].listing \in Listings
            /\ job[w].outcome \in Outcomes
        BY <1>1, <1>6 DEF Finish, Jobs, JobsOK, Job
      <4>2. item[job[w].run][job[w].listing].status = "running"
        BY <3>2 DEF HoldsLease
      <4> QED BY <1>1, <3>2, <4>1, <4>2, ResultKeepsRows
    <3> QED BY <1>6, <3>1, <3>2 DEF Finish
  <2> QED BY <1>1, <2>1, <2>2, <2>3, InvPartsNext
<1>7. CASE FinishFails(w) \/ Crash(w)
  <2>1. Jobs'
    BY <1>1, <1>7, IdleKeepsJobs DEF FinishFails, Crash, Goto, SetJob
  <2>2. UNCHANGED <<present, request, status, item>>
    BY <1>7 DEF FinishFails, Crash, runVars
  <2> QED BY <1>1, <2>1, <2>2, InvPartsNext
<1> QED BY <1>2, <1>3, <1>4, <1>5, <1>6, <1>7 DEF WorkerStep

\* Every step keeps the invariant.
LEMMA NextKeepsInv == QueueInv /\ [Next]_vars => QueueInv'
<1> SUFFICES ASSUME QueueInv, [Next]_vars PROVE QueueInv'
  OBVIOUS
<1>1. present \subseteq Listings /\ Rows(request, status, item) /\ Jobs
  BY InvParts
<1>2. ASSUME NEW r \in RunIds, NEW l \in Listings, LeaseExpires(r, l)
      PROVE  QueueInv'
  <2>1. Rows(request, status, item')
    BY <1>1, <1>2, ExpiryKeepsRows
  <2>2. Jobs' /\ UNCHANGED <<present, request, status>>
    BY <1>1, <1>2, QuietKeepsJobs DEF LeaseExpires, runVars
  <2> QED BY <1>1, <2>1, <2>2, InvPartsNext
<1>3. CASE UNCHANGED vars
  <2>1. Jobs' /\ UNCHANGED <<present, request, status, item>>
    BY <1>1, <1>3, QuietKeepsJobs DEF vars, runVars
  <2> QED BY <1>1, <2>1, InvPartsNext
<1> QED BY <1>2, <1>3, UsersKeepInv, WorkerKeepsInv DEF Next

-----------------------------------------------------------------------------
(* Theorems. *)

\* The inductive invariant of the runs, their items and the workers always holds.
THEOREM QueueIsConsistent == Spec => []QueueInv
<1>1. Init => QueueInv
  BY InitHolds
<1>2. QueueInv /\ [Next]_vars => QueueInv'
  BY NextKeepsInv
<1> QED BY <1>1, <1>2, PTL DEF Spec

\* Rows and locals stay within their domains, and only running rows are leased.
THEOREM Typing == Spec => []TypeOK
<1>1. QueueInv => TypeOK
  BY DEF QueueInv
<1> QED BY <1>1, QueueIsConsistent, PTL

\* A listing is queued or running for one run at a time.
THEOREM OneRunPerListing == Spec => []OneActivePerListing
<1>1. QueueInv => OneActivePerListing
  BY DEF QueueInv
<1> QED BY <1>1, QueueIsConsistent, PTL

\* A run works through its listings in the order asked for, requeued ones included.
THEOREM Order == Spec => []InRequestOrder
<1>1. QueueInv => InRequestOrder
  BY DEF QueueInv
<1> QED BY <1>1, QueueIsConsistent, PTL

\* The status of a run agrees with its items after every transaction.
THEOREM RunsAndItems == Spec => []RunTellsItems
<1>1. QueueInv => RunTellsItems
  BY DEF QueueInv
<1> QED BY <1>1, QueueIsConsistent, PTL

\* What a reclaim does to a row: it takes up rows in flight only, and gives no result.
LEMMA ReclaimedRow ==
  ASSUME NEW s, NEW row \in ItemRow
  PROVE  \/ Reclaimed(s, row) = row
         \/ /\ row.status = "running"
            /\ Reclaimed(s, row).status \in {"queued", "cancelled"}
BY DEF Reclaimed, Unleased

\* A refresh leaves runs that ended.
LEMMA RefreshIsFinal ==
  ASSUME NEW items, NEW r \in RunIds, status[r] \in {"completed", "cancelled"}
  PROVE  RefreshAll(items)[r] = status[r]
BY DEF RefreshAll, Refreshed

\* What one step may do to a row, apart from recording a result.
Routine(row, new) ==
  \/ new.status = row.status
  \/ new.status = "none"
  \/ row.status \in {"none", "queued", "running"} /\ new.status \in {"queued", "running", "cancelled"}

\* A step other than a finish does nothing else to rows and reopens no run.
LEMMA StepsAreRoutine ==
  ASSUME QueueInv, [Next]_vars, ~\E w \in Workers : Finish(w)
  PROVE  /\ \A r \in RunIds, l \in Listings : Routine(item[r][l], item'[r][l])
         /\ \A r \in RunIds : status[r] \in {"completed", "cancelled"} => status'[r] = status[r]
<1>1. /\ present \subseteq Listings /\ Rows(request, status, item)
      /\ item \in [RunIds -> [Listings -> ItemRow]] /\ status \in [RunIds -> RunStates]
  BY InvParts DEF Rows, ItemTable, RunTable
<1>2. ASSUME NEW r \in RunIds, NEW l \in Listings
      PROVE  /\ item[r][l] \in ItemRow
             /\ ReclaimedItems[r][l] \in ItemRow
             /\ Routine(item[r][l], ReclaimedItems[r][l])
             /\ ReclaimedItems[r][l].status = "queued" =>
                  item[r][l].status \in {"queued", "running"}
  <2>1. item[r][l] \in ItemRow /\ ReclaimedItems[r][l] = Reclaimed(status[r], item[r][l])
    BY <1>1 DEF ReclaimedItems
  <2>2. ReclaimedItems[r][l] \in ItemRow
    BY <1>1, ReclaimKeepsRows DEF Rows, ItemTable
  <2> QED BY <2>1, <2>2, ReclaimedRow DEF Routine
<1>3. CASE UNCHANGED <<item, status>>
  BY <1>1, <1>3 DEF Routine
<1>4. CASE \E r \in RunIds, q \in Requests : Create(r, q)
  <2>1. PICK r \in RunIds, q \in Requests : Create(r, q)
    BY <1>4
  <2> DEFINE new == [l \in Listings |-> Unleased(IF l \in Asked(q) THEN "queued" ELSE "none")]
  <2>2. /\ status[r] = "absent" /\ item' = [item EXCEPT ![r] = new]
        /\ status' = [status EXCEPT ![r] = "queued"]
    BY <2>1 DEF Create, CreateWith, NextRun
  <2>3. \A l \in Listings : new[l].status \in {"none", "queued"}
    BY DEF Unleased
  <2>4. \A l \in Listings : item[r][l] = Unleased("none")
    BY <1>1, <2>2 DEF Rows, RunOK
  <2>5. \A l \in Listings : item[r][l].status = "none"
    BY <2>4 DEF Unleased
  <2> HIDE DEF new
  <2> QED BY <1>1, <2>2, <2>3, <2>5 DEF Routine
<1>5. CASE \E r \in RunIds : Cancel(r)
  <2>1. PICK r \in RunIds : Cancel(r)
    BY <1>5
  <2> DEFINE new == WithoutQueued(item[r])
             s == IF Holds(item[r], "running") THEN "cancelling" ELSE "cancelled"
  <2>2. /\ status[r] \in {"queued", "running"} /\ item' = [item EXCEPT ![r] = new]
        /\ status' = [status EXCEPT ![r] = s]
    BY <2>1 DEF Cancel
  <2>3. \A l \in Listings : \/ new[l] = item[r][l]
                            \/ item[r][l].status = "queued" /\ new[l].status = "cancelled"
    BY DEF WithoutQueued, Unleased
  <2> HIDE DEF new, s
  <2> QED BY <1>1, <2>2, <2>3 DEF Routine
<1>6. CASE \E l \in Listings : DeleteListing(l)
  <2>1. PICK l \in Listings : DeleteListing(l)
    BY <1>6
  <2> DEFINE gone == Unleased("none")
  <2>2. gone.status = "none"
    BY DEF Unleased
  <2>3. item' = [r \in RunIds |-> [item[r] EXCEPT ![l] = gone]] /\ status' = status
    BY <2>1 DEF DeleteListing, runVars
  <2> HIDE DEF gone
  <2>4. \A r \in RunIds, k \in Listings : item'[r][k] = item[r][k] \/ item'[r][k] = gone
    BY <1>1, <2>3
  <2> QED BY <2>2, <2>3, <2>4 DEF Routine
<1>7. CASE \E r \in RunIds, l \in Listings : LeaseExpires(r, l)
  <2>1. PICK r \in RunIds, l \in Listings : LeaseExpires(r, l)
    BY <1>7
  <2> DEFINE new == [item[r][l] EXCEPT !.live = FALSE]
  <2>2. new.status = item[r][l].status
    BY <1>2 DEF ItemRow
  <2>3. item' = [item EXCEPT ![r] = [item[r] EXCEPT ![l] = new]] /\ status' = status
    BY <2>1 DEF LeaseExpires, runVars
  <2> HIDE DEF new
  <2>4. \A p \in RunIds, k \in Listings :
          item'[p][k] = item[p][k] \/ (p = r /\ k = l /\ item'[p][k] = new)
    BY <1>1, <2>3
  <2> QED BY <2>2, <2>3, <2>4 DEF Routine
<1>8. CASE item' = ReclaimedItems /\ status' = RefreshAll(ReclaimedItems)
  BY <1>2, <1>8, RefreshIsFinal
<1>9. ASSUME NEW w \in Workers, Claim(w), ~UNCHANGED <<item, status>>,
             item' # ReclaimedItems \/ status' # RefreshAll(ReclaimedItems)
      PROVE  /\ \A r \in RunIds, l \in Listings : Routine(item[r][l], item'[r][l])
             /\ \A r \in RunIds :
                  status[r] \in {"completed", "cancelled"} => status'[r] = status[r]
  <2> DEFINE its == ReclaimedItems
             st == RefreshAll(its)
  <2>1. PICK r \in RunIds, l \in Listings, t \in Tokens :
          /\ FirstClaimable(st, its, r, l)
          /\ item' = [its EXCEPT ![r][l] = [status |-> "running", token |-> t, live |-> TRUE]]
          /\ status' = [st EXCEPT ![r] = "running"]
    BY <1>9 DEF Claim
  <2>2. its \in [RunIds -> [Listings -> ItemRow]] /\ st \in [RunIds -> RunStates]
    BY <1>1, ReclaimedRows DEF Rows, ItemTable, RunTable
  <2>3. /\ its[r][l].status = "queued" /\ st[r] \in {"queued", "running"}
    BY <2>1 DEF FirstClaimable, Claimable
  <2>4. item[r][l].status \in {"queued", "running"}
    BY <1>2, <2>3
  <2>5. \A p \in RunIds : status[p] \in {"completed", "cancelled"} => st[p] = status[p]
    BY RefreshIsFinal
  <2>6. \A p \in RunIds, k \in Listings : Routine(item[p][k], its[p][k])
    BY <1>2
  <2> DEFINE new == [status |-> "running", token |-> t, live |-> TRUE]
  <2>7. new.status = "running" /\ item' = [its EXCEPT ![r][l] = new]
    BY <2>1
  <2> HIDE DEF its, st, new
  <2>8. \A p \in RunIds, k \in Listings :
          item'[p][k] = its[p][k] \/ (p = r /\ k = l /\ item'[p][k] = new)
    BY <2>2, <2>7
  <2>9. \A p \in RunIds, k \in Listings : Routine(item[p][k], item'[p][k])
    BY <2>4, <2>6, <2>7, <2>8 DEF Routine
  <2>10. \A p \in RunIds : status[p] \in {"completed", "cancelled"} => status'[p] = status[p]
    BY <2>1, <2>2, <2>3, <2>5
  <2> QED BY <2>9, <2>10
<1>10. ASSUME NEW w \in Workers, Startup(w)
       PROVE  \/ UNCHANGED <<item, status>>
              \/ item' = ReclaimedItems /\ status' = RefreshAll(ReclaimedItems)
  BY <1>10 DEF Startup
<1>11. ASSUME NEW w \in Workers, Boot(w) \/ Verify(w) \/ FinishFails(w) \/ Crash(w)
       PROVE  UNCHANGED <<item, status>>
  BY <1>11 DEF Boot, Verify, FinishFails, Crash, runVars
<1>12. CASE UNCHANGED vars
  BY <1>3, <1>12 DEF vars, runVars
<1> QED BY <1>3, <1>4, <1>5, <1>6, <1>7, <1>8, <1>9, <1>10, <1>11, <1>12
        DEF Next, Users, WorkerStep

\* A finish changes the row its worker holds the lease of, and no other.
LEMMA FinishIsExact ==
  ASSUME QueueInv, NEW w \in Workers, Finish(w)
  PROVE  \/ UNCHANGED <<item, status>>
         \/ /\ job[w].run \in RunIds /\ job[w].listing \in Listings /\ job[w].token # None
            /\ job[w].outcome \in Outcomes
            /\ item[job[w].run][job[w].listing].status = "running"
            /\ item[job[w].run][job[w].listing].token = job[w].token
            /\ item'[job[w].run][job[w].listing].status = job[w].outcome
            /\ \A r \in RunIds, l \in Listings :
                 (r = job[w].run /\ l = job[w].listing) \/ item'[r][l] = item[r][l]
            /\ status' = RefreshAll(item')
<1>1. Rows(request, status, item) /\ Jobs /\ item \in [RunIds -> [Listings -> ItemRow]]
  BY InvParts DEF Rows, ItemTable
<1>2. /\ job[w].run \in RunIds /\ job[w].listing \in Listings /\ job[w].token # None
      /\ job[w].outcome \in Outcomes
  BY <1>1 DEF Finish, Jobs, JobsOK, Job
<1>3. CASE /\ HoldsLease(w)
           /\ item' = [item EXCEPT ![job[w].run][job[w].listing] = Unleased(job[w].outcome)]
           /\ status' = RefreshAll(item')
  <2> DEFINE new == Unleased(job[w].outcome)
  <2>1. new.status = job[w].outcome
    BY DEF Unleased
  <2>2. item' = [item EXCEPT ![job[w].run][job[w].listing] = new]
    BY <1>3
  <2> HIDE DEF new
  <2>3. /\ item'[job[w].run][job[w].listing] = new
        /\ \A r \in RunIds, l \in Listings :
             (r = job[w].run /\ l = job[w].listing) \/ item'[r][l] = item[r][l]
    BY <1>1, <1>2, <2>2
  <2>4. /\ item[job[w].run][job[w].listing].status = "running"
        /\ item[job[w].run][job[w].listing].token = job[w].token
    BY <1>3 DEF HoldsLease
  <2> QED BY <1>2, <1>3, <2>1, <2>3, <2>4
<1> QED BY <1>3 DEF Finish

\* An item ends once, and a run that ended stays as it ended.
THEOREM Ends == Spec => EndIsFinal
<1>1. QueueInv /\ [Next]_vars => [EndsOnce]_vars
  <2> SUFFICES ASSUME QueueInv, [Next]_vars
               PROVE  EndsOnce
    OBVIOUS
  <2>1. CASE ~\E w \in Workers : Finish(w)
    BY <2>1, StepsAreRoutine, ConstantFacts DEF EndsOnce, Routine, Ended
  <2>2. ASSUME NEW w \in Workers, Finish(w)
        PROVE  EndsOnce
    <3>1. \A r \in RunIds, l \in Listings :
            item'[r][l] = item[r][l] \/ item[r][l].status = "running"
      BY <2>2, FinishIsExact
    <3>2. \A r \in RunIds : status[r] \in {"completed", "cancelled"} => status'[r] = status[r]
      BY <2>2, FinishIsExact, RefreshIsFinal
    <3> QED BY <3>1, <3>2, ConstantFacts DEF EndsOnce, Ended
  <2> QED BY <2>1, <2>2
<1> QED BY <1>1, QueueIsConsistent, PTL DEF Spec, EndIsFinal

\* A result is recorded by the worker of the latest claim, and by nobody else.
THEOREM Results == Spec => ResultIsHolders
<1>1. QueueInv /\ [Next]_vars => [RecordedByHolder]_vars
  <2> SUFFICES ASSUME QueueInv, [Next]_vars, NEW r \in RunIds, NEW l \in Listings,
                      item[r][l].status # item'[r][l].status, item'[r][l].status \in Outcomes
               PROVE  \E w \in Workers :
                        /\ job[w].run = r /\ job[w].listing = l
                        /\ job[w].token = item[r][l].token
                        /\ job[w].outcome = item'[r][l].status
                        /\ \A v \in Workers \ {w} : job[v].token # item[r][l].token
    BY DEF RecordedByHolder
  <2>1. PICK w \in Workers : Finish(w)
    <3>1. ~Routine(item[r][l], item'[r][l])
      BY ConstantFacts DEF Routine
    <3> QED BY <3>1, StepsAreRoutine
  <2>2. /\ job[w].run = r /\ job[w].listing = l /\ job[w].token # None
        /\ job[w].token = item[r][l].token /\ job[w].outcome = item'[r][l].status
    BY <2>1, FinishIsExact
  <2>3. \A v \in Workers \ {w} : job[v].token # item[r][l].token
    BY <2>2, InvParts DEF Jobs, JobsOK
  <2> QED BY <2>2, <2>3
<1> QED BY <1>1, QueueIsConsistent, PTL DEF Spec, ResultIsHolders

-----------------------------------------------------------------------------
(* The refinement: what users see of the tables. *)

PhaseView(st)   == [r \in RunIds |-> PhaseOf(st[r])]
ResultView(its) == [r \in RunIds |-> [l \in Listings |-> ResultOf(its[r][l])]]

Refines == Ledger!Next \/ UNCHANGED Ledger!vars

LEMMA LedgerStutter ==
  ASSUME UNCHANGED <<present, request, status>>, ResultView(item') = ResultView(item)
  PROVE  Refines
BY DEF Refines, Ledger!vars, ResultView

\* Of a row, users see one of these; "todo" is what is active.
LEMMA ResultValues ==
  ASSUME NEW row \in ItemRow
  PROVE  /\ ResultOf(row) \in {"none", "todo", "cancelled"} \cup Outcomes
         /\ ResultOf(row) = "todo" <=> row.status \in {"queued", "running"}
         /\ \A s \in {"none", "cancelled"} \cup Outcomes : ResultOf(row) = s <=> row.status = s
BY ConstantFacts DEF ResultOf, ItemRow, Ended

LEMMA UnleasedResult ==
  ASSUME NEW s \in {"none", "queued"} \cup Ended
  PROVE  ResultOf(Unleased(s)) = IF s = "queued" THEN "todo" ELSE s
BY ConstantFacts DEF ResultOf, Unleased, Ended

\* A refresh ends runs that have nothing left to do, and is not seen otherwise.
LEMMA RefreshEnds ==
  ASSUME NEW its, Rows(request, status, its), NEW r \in RunIds,
         PhaseOf(Refreshed(status[r], its[r])) # PhaseOf(status[r])
  PROVE  /\ \A l \in Listings : its[r][l].status \notin {"queued", "running"}
         /\ \/ PhaseOf(status[r]) = "open"
               /\ PhaseOf(Refreshed(status[r], its[r])) = "completed"
            \/ PhaseOf(status[r]) = "cancelling"
               /\ PhaseOf(Refreshed(status[r], its[r])) = "cancelled"
<1>1. RunOK(request[r], status[r], its[r]) /\ status[r] \in RunStates
  BY DEF Rows, RunTable
<1>2. CASE status[r] = "cancelling"
  BY <1>1, <1>2 DEF Refreshed, PhaseOf, RunOK, Holds
<1>3. CASE status[r] \in {"queued", "running"}
  BY <1>1, <1>3 DEF Refreshed, PhaseOf, RunOK, Holds
<1>4. CASE status[r] \notin {"queued", "running", "cancelling"}
  BY <1>4 DEF Refreshed
<1> QED BY <1>2, <1>3, <1>4

\* So runs end as the ledger lets them, when all are refreshed after their items its; what
\* is claimed then is not seen.
LEMMA RefreshMayEnd ==
  ASSUME NEW its, Rows(request, status, its), ItemTable(item'), RunTable(status'),
         PhaseView(status') = PhaseView(RefreshAll(its)), ResultView(item') = ResultView(its)
  PROVE  Ledger!RunsMayEnd
<1>1. \A r \in RunIds : PhaseOf(status'[r]) = PhaseOf(Refreshed(status[r], its[r]))
  BY DEF PhaseView, RefreshAll
<1>2. \A r \in RunIds : PhaseOf(status'[r]) \in Ledger!Phases
  BY DEF PhaseOf, RunTable, RunStates, Ledger!Phases
<1>3. \A r \in RunIds, l \in Listings :
        its[r][l] \in ItemRow /\ ResultOf(item'[r][l]) = ResultOf(its[r][l])
  BY DEF Rows, ItemTable, ResultView
<1>4. ASSUME NEW r \in RunIds, PhaseOf(status'[r]) # PhaseOf(status[r])
      PROVE  /\ \A l \in Listings : ResultOf(item'[r][l]) # "todo"
             /\ \/ PhaseOf(status[r]) = "open" /\ PhaseOf(status'[r]) = "completed"
                \/ PhaseOf(status[r]) = "cancelling" /\ PhaseOf(status'[r]) = "cancelled"
  BY <1>1, <1>3, <1>4, RefreshEnds, ResultValues
<1> QED BY <1>2, <1>4 DEF Ledger!RunsMayEnd

\* A reclaim is seen only where it gives up what was in flight in a cancelled run.
LEMMA ReclaimGivesUp ==
  ASSUME Rows(request, status, item), NEW r \in RunIds, NEW l \in Listings,
         ResultOf(ReclaimedItems[r][l]) # ResultOf(item[r][l])
  PROVE  /\ ResultOf(item[r][l]) = "todo" /\ PhaseOf(status[r]) = "cancelling"
         /\ ResultOf(ReclaimedItems[r][l]) = "cancelled"
<1>1. /\ ReclaimedItems[r][l] = Reclaimed(status[r], item[r][l])
      /\ RunOK(request[r], status[r], item[r])
  BY DEF ReclaimedItems, Rows
<1>2. item[r][l].status = "running" => status[r] \in {"running", "cancelling"}
  BY <1>1 DEF RunOK
<1> QED BY <1>1, <1>2, UnleasedResult DEF Reclaimed, ResultOf, PhaseOf, Ended

\* Startup and claim give up, at most.
LEMMA SweepRefines ==
  ASSUME QueueInv, UNCHANGED <<present, request>>, ItemTable(item'), RunTable(status'),
         PhaseView(status') = PhaseView(RefreshAll(ReclaimedItems)),
         ResultView(item') = ResultView(ReclaimedItems)
  PROVE  Refines
<1>1. Rows(request, status, item) /\ Rows(request, status, ReclaimedItems)
  BY InvParts, ReclaimKeepsRows
<1>2. Ledger!RunsMayEnd
  BY <1>1, RefreshMayEnd
<1>3. \A r \in RunIds, l \in Listings : ResultOf(item'[r][l]) = ResultOf(ReclaimedItems[r][l])
  BY DEF ResultView
<1>4. \A r \in RunIds, l \in Listings : ResultOf(item'[r][l]) \in Ledger!Results
  BY ResultValues DEF ItemTable, Ledger!Results
<1>5. \A r \in RunIds, l \in Listings : ResultOf(item'[r][l]) # ResultOf(item[r][l]) =>
        /\ ResultOf(item[r][l]) = "todo" /\ PhaseOf(status[r]) = "cancelling"
        /\ ResultOf(item'[r][l]) = "cancelled"
  BY <1>1, <1>3, ReclaimGivesUp
<1>6. Ledger!GiveUp
  BY <1>2, <1>4, <1>5 DEF Ledger!GiveUp
<1> QED BY <1>6 DEF Refines, Ledger!Next

LEMMA StartupRefines ==
  ASSUME QueueInv, NEW w \in Workers, Startup(w)
  PROVE  Refines
<1>1. CASE UNCHANGED <<item, status>>
  BY <1>1, LedgerStutter DEF Startup
<1>2. CASE item' = ReclaimedItems /\ status' = RefreshAll(ReclaimedItems)
  <2>1. ItemTable(item') /\ RunTable(status')
    BY <1>2, InvParts, ReclaimedRows DEF Rows
  <2> QED BY <1>2, <2>1, SweepRefines DEF Startup
<1> QED BY <1>1, <1>2 DEF Startup

LEMMA ClaimRefines ==
  ASSUME QueueInv, NEW w \in Workers, Claim(w)
  PROVE  Refines
<1> DEFINE its == ReclaimedItems
           st == RefreshAll(its)
<1>1. Rows(request, st, its) /\ UNCHANGED <<present, request>>
  BY InvParts, ReclaimedRows DEF Claim
<1>2. CASE item' = its /\ status' = st
  <2>1. ItemTable(item') /\ RunTable(status')
    BY <1>1, <1>2 DEF Rows
  <2> QED BY <1>1, <1>2, <2>1, SweepRefines
<1>3. ASSUME NEW r \in RunIds, NEW l \in Listings, NEW t \in Tokens,
             FirstClaimable(st, its, r, l), status' = [st EXCEPT ![r] = "running"],
             item' = [its EXCEPT ![r][l] = [status |-> "running", token |-> t, live |-> TRUE]]
      PROVE  Refines
  <2> DEFINE row == [status |-> "running", token |-> t, live |-> TRUE]
  <2>1. Rows(request, status', item')
    BY <1>1, <1>3, ClaimKeepsRows
  <2>2. /\ its[r][l].status = "queued" /\ st[r] \in {"queued", "running"}
        /\ its \in [RunIds -> [Listings -> ItemRow]] /\ st \in [RunIds -> RunStates]
    BY <1>1, <1>3 DEF FirstClaimable, Claimable, Rows, ItemTable, RunTable
  <2>3. ResultOf(row) = ResultOf(its[r][l])
    BY <2>2 DEF ResultOf
  <2>4. item' = [its EXCEPT ![r] = [its[r] EXCEPT ![l] = row]]
    BY <1>3
  <2> HIDE DEF its, st, row
  <2>5. \A p \in RunIds, k \in Listings : ResultOf(item'[p][k]) = ResultOf(its[p][k])
    BY <2>2, <2>3, <2>4
  <2>6. \A p \in RunIds : PhaseOf(status'[p]) = PhaseOf(st[p])
    BY <1>3, <2>2 DEF PhaseOf
  <2>7. ResultView(item') = ResultView(its) /\ PhaseView(status') = PhaseView(st)
    BY <2>5, <2>6 DEF ResultView, PhaseView
  <2> QED BY <1>1, <2>1, <2>7, SweepRefines DEF its, st, Rows
<1> QED BY <1>2, <1>3 DEF Claim

\* The listing in flight is the one that is due.
LEMMA RunningIsDue ==
  ASSUME Rows(request, status, item), NEW r \in RunIds, NEW l \in Listings,
         item[r][l].status = "running"
  PROVE  Ledger!Due(r, l) /\ PhaseOf(status[r]) \in {"open", "cancelling"}
<1>1. RunOK(request[r], status[r], item[r]) /\ Ordered(request[r], item[r])
  BY DEF Rows
<1>2. ResultOf(item[r][l]) = "todo"
  BY DEF ResultOf
<1>3. ASSUME NEW k \in Listings, Before(request[r], k, l)
      PROVE  ResultOf(item[r][k]) \in Outcomes \cup {"none"}
  <2>1. item[r][k].status \in Outcomes \cup {"none"}
    BY <1>1, <1>3 DEF Ordered
  <2> QED BY <2>1, ConstantFacts DEF ResultOf
<1>4. PhaseOf(status[r]) \in {"open", "cancelling"}
  BY <1>1 DEF RunOK, PhaseOf
<1> QED BY <1>2, <1>3, <1>4 DEF Ledger!Due, Ledger!Before, Before

LEMMA FinishRefines ==
  ASSUME QueueInv, NEW w \in Workers, Finish(w)
  PROVE  Refines
<1>1. Rows(request, status, item) /\ UNCHANGED <<present, request>>
  BY InvParts DEF Finish
<1>2. CASE UNCHANGED <<item, status>>
  BY <1>1, <1>2, LedgerStutter
<1>3. CASE ~UNCHANGED <<item, status>>
  <2>1. PICK r \in RunIds, l \in Listings, o \in Outcomes :
          /\ item[r][l].status = "running" /\ item' = [item EXCEPT ![r][l] = Unleased(o)]
          /\ status' = RefreshAll(item')
    BY <1>3, FinishIsExact DEF Finish
  <2>2. Rows(request, status', item') /\ Rows(request, status, item')
    BY <1>1, <2>1, ResultKeepsRows, ResultGiven
  <2>3. Ledger!RunsMayEnd
    BY <2>1, <2>2, RefreshMayEnd DEF Rows
  <2> DEFINE row == Unleased(o)
  <2>4. ResultOf(row) = o
    BY UnleasedResult, ConstantFacts DEF Ended
  <2>5. item' = [item EXCEPT ![r] = [item[r] EXCEPT ![l] = row]]
    BY <2>1
  <2> HIDE DEF row
  <2>6. \A p \in RunIds, k \in Listings :
          ResultOf(item'[p][k]) = IF p = r /\ k = l THEN o ELSE ResultOf(item[p][k])
    BY <1>1, <2>4, <2>5 DEF Rows, ItemTable
  <2>7. ResultView(item') = [ResultView(item) EXCEPT ![r][l] = o]
    BY <2>6 DEF ResultView
  <2>8. Ledger!Settle(r, l, o)
    BY <1>1, <2>1, <2>3, <2>7, RunningIsDue DEF Ledger!Settle, ResultView
  <2> QED BY <2>8 DEF Refines, Ledger!Next
<1> QED BY <1>2, <1>3

\* One listing of a run is in flight at a time, because they come in order.
LEMMA OneInFlight ==
  ASSUME Rows(request, status, item), NEW r \in RunIds, NEW l \in Listings, NEW k \in Listings,
         item[r][l].status = "running", item[r][k].status = "running"
  PROVE  l = k
<1> SUFFICES ASSUME l # k PROVE FALSE
  OBVIOUS
<1>1. RunOK(request[r], status[r], item[r]) /\ Ordered(request[r], item[r])
  BY DEF Rows
<1>2. request[r] \in Requests /\ l \in Asked(request[r]) /\ k \in Asked(request[r])
  BY <1>1 DEF RunOK, Rows
<1>3. PICK i \in DOMAIN request[r].listings, j \in DOMAIN request[r].listings :
        request[r].listings[i] = l /\ request[r].listings[j] = k
  BY <1>2 DEF Asked
<1>4. i \in Nat /\ j \in Nat /\ i # j
  BY <1>2, <1>3, ConstantFacts
<1>5. i < j \/ j < i
  BY <1>4
<1>6. Before(request[r], l, k) \/ Before(request[r], k, l)
  BY <1>3, <1>5 DEF Before
<1> QED BY <1>1, <1>6, ConstantFacts DEF Ordered

LEMMA CreateRefines ==
  ASSUME QueueInv, NEW r \in RunIds, NEW q \in Requests, Create(r, q)
  PROVE  Refines
<1> DEFINE items == [l \in Listings |-> Unleased(IF l \in Asked(q) THEN "queued" ELSE "none")]
<1>1. Rows(request, status, item) /\ present \subseteq Listings
  BY InvParts
<1>2. /\ status[r] = "absent" /\ request' = [request EXCEPT ![r] = q]
      /\ status' = [status EXCEPT ![r] = "queued"] /\ item' = [item EXCEPT ![r] = items]
      /\ UNCHANGED present
      /\ \A l \in Asked(q) : /\ l \in present /\ OwnerOf[l] = q.owner
                             /\ \A s \in RunIds : ~Active(s, l)
      /\ \A s \in RunIds : request[s] # None =>
           <<request[s].owner, request[s].key>> # <<q.owner, q.key>>
  BY DEF Create, CreateWith, NextRun
<1>3. \A l \in Listings : ResultOf(items[l]) = IF l \in Asked(q) THEN "todo" ELSE "none"
  BY UnleasedResult
<1> HIDE DEF items
<1>4. /\ item \in [RunIds -> [Listings -> ItemRow]] /\ status \in [RunIds -> RunStates]
  BY <1>1 DEF Rows, ItemTable, RunTable
<1>5. ResultView(item') = [ResultView(item) EXCEPT ![r] =
        [l \in Listings |-> IF l \in Asked(q) THEN "todo" ELSE "none"]]
  BY <1>2, <1>3, <1>4 DEF ResultView
<1>6. PhaseView(status') = [PhaseView(status) EXCEPT ![r] = "open"]
  BY <1>2, <1>4 DEF PhaseView, PhaseOf
<1>7. \A l \in Asked(q) : /\ l \in present /\ OwnerOf[l] = q.owner
                          /\ \A s \in RunIds : ResultView(item)[s][l] # "todo"
  <2>1. \A l \in Listings, s \in RunIds : ~Active(s, l) => ResultView(item)[s][l] # "todo"
    BY <1>4, ResultValues DEF ResultView, Active
  <2> QED BY <1>1, <1>2, <2>1
<1>8. PhaseView(status)[r] = "absent"
  BY <1>2 DEF PhaseView, PhaseOf
<1>9. Ledger!Ask(r, q)
  BY <1>2, <1>5, <1>6, <1>7, <1>8 DEF Ledger!Ask, Ledger!Asked, Asked, PhaseView, ResultView
<1> QED BY <1>9 DEF Refines, Ledger!Next

LEMMA CancelRefines ==
  ASSUME QueueInv, NEW r \in RunIds, Cancel(r)
  PROVE  Refines
<1>1. Rows(request, status, item) /\ UNCHANGED <<present, request>>
  BY InvParts DEF Cancel
<1>2. /\ item \in [RunIds -> [Listings -> ItemRow]] /\ status \in [RunIds -> RunStates]
  BY <1>1 DEF Rows, ItemTable, RunTable
<1>3. /\ status[r] \in {"queued", "running"}
      /\ item' = [item EXCEPT ![r] = WithoutQueued(item[r])]
      /\ status' = [status EXCEPT ![r] =
           IF Holds(item[r], "running") THEN "cancelling" ELSE "cancelled"]
  BY DEF Cancel
<1>4. PICK keep \in Listings \cup {None} :
        /\ keep = None <=> ~Holds(item[r], "running")
        /\ \A l \in Listings : item[r][l].status = "running" <=> l = keep
  <2>1. CASE Holds(item[r], "running")
    <3>1. PICK l \in Listings : item[r][l].status = "running"
      BY <2>1 DEF Holds
    <3>2. \A k \in Listings : item[r][k].status = "running" <=> k = l
      BY <1>1, <3>1, OneInFlight
    <3> QED BY <2>1, <3>2, ConstantFacts
  <2>2. CASE ~Holds(item[r], "running")
    BY <2>2, ConstantFacts DEF Holds
  <2> QED BY <2>1, <2>2
<1>5. \A l \in Listings : ResultOf(WithoutQueued(item[r])[l]) =
        IF ResultOf(item[r][l]) = "todo" /\ l # keep THEN "cancelled" ELSE ResultOf(item[r][l])
  <2> SUFFICES ASSUME NEW l \in Listings
               PROVE  ResultOf(WithoutQueued(item[r])[l]) =
                        IF ResultOf(item[r][l]) = "todo" /\ l # keep THEN "cancelled"
                        ELSE ResultOf(item[r][l])
    OBVIOUS
  <2>1. item[r][l] \in ItemRow
    BY <1>2
  <2>2. CASE item[r][l].status = "queued"
    BY <1>4, <2>2, UnleasedResult DEF WithoutQueued, Ended, ResultOf
  <2>3. CASE item[r][l].status # "queued"
    BY <1>4, <2>1, <2>3, ResultValues DEF WithoutQueued
  <2> QED BY <2>2, <2>3
<1>6. ResultView(item') = [ResultView(item) EXCEPT ![r] = [l \in Listings |->
        IF ResultView(item)[r][l] = "todo" /\ l # keep THEN "cancelled"
        ELSE ResultView(item)[r][l]]]
  <2> DEFINE new == WithoutQueued(item[r])
  <2>1. item' = [item EXCEPT ![r] = new]
    BY <1>3
  <2> HIDE DEF new
  <2>2. \A p \in RunIds, l \in Listings : ResultOf(item'[p][l]) =
          IF p = r THEN ResultOf(new[l]) ELSE ResultOf(item[p][l])
    BY <1>2, <2>1
  <2> QED BY <1>5, <2>2 DEF ResultView, new
<1>7. PhaseView(status') = [PhaseView(status) EXCEPT ![r] =
        IF keep = None THEN "cancelled" ELSE "cancelling"]
  <2>1. \A p \in RunIds : PhaseOf(status'[p]) =
          IF p = r THEN IF keep = None THEN "cancelled" ELSE "cancelling" ELSE PhaseOf(status[p])
    BY <1>2, <1>3, <1>4 DEF PhaseOf
  <2> QED BY <2>1 DEF PhaseView
<1>8. PhaseView(status)[r] = "open"
  BY <1>3 DEF PhaseView, PhaseOf
<1>9. keep # None => Ledger!Due(r, keep)
  BY <1>1, <1>4, RunningIsDue
<1>10. Ledger!Cancel(r, keep)
  BY <1>1, <1>6, <1>7, <1>8, <1>9 DEF Ledger!Cancel, PhaseView, ResultView
<1> QED BY <1>10 DEF Refines, Ledger!Next

LEMMA DeleteRefines ==
  ASSUME QueueInv, NEW l \in Listings, DeleteListing(l)
  PROVE  Refines
<1> DEFINE gone == Unleased("none")
<1>1. ItemTable(item)
  BY InvParts DEF Rows
<1>2. /\ l \in present /\ present' = present \ {l} /\ UNCHANGED <<request, status>>
      /\ item' = [r \in RunIds |-> [item[r] EXCEPT ![l] = gone]]
  BY DEF DeleteListing, runVars
<1>3. ResultOf(gone) = "none"
  BY UnleasedResult
<1> HIDE DEF gone
<1>4. \A r \in RunIds, k \in Listings :
        ResultOf(item'[r][k]) = IF k = l THEN "none" ELSE ResultOf(item[r][k])
  BY <1>1, <1>2, <1>3 DEF ItemTable
<1>5. ResultView(item') = [r \in RunIds |-> [ResultView(item)[r] EXCEPT ![l] = "none"]]
  BY <1>4 DEF ResultView
<1>6. Ledger!Delete(l)
  BY <1>2, <1>5 DEF Ledger!Delete, ResultView
<1> QED BY <1>6 DEF Refines, Ledger!Next

LEMMA ExpiryRefines ==
  ASSUME QueueInv, NEW r \in RunIds, NEW l \in Listings, LeaseExpires(r, l)
  PROVE  Refines
<1> DEFINE new == [item[r][l] EXCEPT !.live = FALSE]
<1>1. ItemTable(item)
  BY InvParts DEF Rows
<1>2. /\ UNCHANGED <<present, request, status>>
      /\ item' = [item EXCEPT ![r] = [item[r] EXCEPT ![l] = new]]
  BY DEF LeaseExpires, runVars
<1>3. new.status = item[r][l].status
  BY <1>1 DEF ItemTable, ItemRow
<1> HIDE DEF new
<1>4. \A p \in RunIds, k \in Listings : item'[p][k].status = item[p][k].status
  BY <1>1, <1>2, <1>3 DEF ItemTable
<1>5. ResultView(item') = ResultView(item)
  BY <1>4 DEF ResultView, ResultOf
<1> QED BY <1>2, <1>5, LedgerStutter

LEMMA NextRefines == QueueInv /\ [Next]_vars => Refines
<1> SUFFICES ASSUME QueueInv, [Next]_vars PROVE Refines
  OBVIOUS
<1>1. CASE UNCHANGED <<present, request, status, item>>
  BY <1>1, LedgerStutter
<1>2. ASSUME NEW w \in Workers, Boot(w) \/ Verify(w) \/ FinishFails(w) \/ Crash(w)
      PROVE  UNCHANGED <<present, request, status, item>>
  BY <1>2 DEF Boot, Verify, FinishFails, Crash, runVars
<1>3. CASE UNCHANGED vars
  BY <1>1, <1>3 DEF vars, runVars
<1> QED BY <1>1, <1>2, <1>3, CreateRefines, CancelRefines, DeleteRefines, ExpiryRefines,
           StartupRefines, ClaimRefines, FinishRefines DEF Next, Users, WorkerStep

LEMMA InitRefines == Init => Ledger!Init
BY DEF Init, Ledger!Init, PhaseOf, ResultOf, Unleased

\* Whatever workers, leases and servers do, runs behave as VerificationLedger promises.
THEOREM RunRefinement == Spec => ImplementsLedger
<1>1. QueueInv /\ [Next]_vars => [Ledger!Next]_(Ledger!vars)
  BY NextRefines DEF Refines
<1> QED BY <1>1, InitRefines, QueueIsConsistent, PTL DEF Spec, Ledger!Spec, ImplementsLedger
=============================================================================
