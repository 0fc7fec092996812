-------------------------- MODULE VerificationWorks --------------------------
(***************************************************************************)
(* Verification runs on servers that are kept running: a process that died *)
(* is started again, a verification returns sooner or later, and the lease *)
(* of a worker that is gone runs out.  Deaths, results that cannot be      *)
(* stored and leases that run out under a live worker happen MaxFaults     *)
(* times.  Users create, cancel and delete as they like.                   *)
(***************************************************************************)
EXTENDS VerificationRun

CONSTANT MaxFaults   \* bound: faults of one behaviour

VARIABLE faults

worksVars == <<vars, faults>>

\* Some live worker still works under the lease of this item.
Held(r, l) == \E w \in Workers : job[w].token # None /\ job[w].token = item[r][l].token

Fault ==
  /\ faults < MaxFaults
  /\ \/ \E w \in Workers : Crash(w) \/ FinishFails(w)
     \/ \E r \in RunIds, l \in Listings : Held(r, l) /\ LeaseExpires(r, l)
  /\ faults' = faults + 1

Steps(w) == WorkerStep(w) /\ UNCHANGED faults
AbandonedLeaseExpires(r, l) == ~Held(r, l) /\ LeaseExpires(r, l) /\ UNCHANGED faults

WorksNext ==
  \/ \E w \in Workers : Steps(w)
  \/ \E r \in RunIds, l \in Listings : AbandonedLeaseExpires(r, l)
  \/ Users /\ UNCHANGED faults
  \/ Fault

Works ==
  /\ Init /\ faults = 0 /\ [][WorksNext]_worksVars
  /\ \A w \in Workers : WF_worksVars(Steps(w))
  /\ \A r \in RunIds, l \in Listings : WF_worksVars(AbandonedLeaseExpires(r, l))

\* Every run that was created ends, completed or cancelled, whatever died or was
\* deleted meanwhile: no item is left that nobody will ever take up.
RunsEnd == \A r \in RunIds :
  status[r] # "absent" ~> status[r] \in {"completed", "cancelled"}
=============================================================================
