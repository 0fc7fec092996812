----------------------------- MODULE ReplayDrain -----------------------------
(***************************************************************************)
(* An operator drains a manifest the way docs/clean-replay.md prescribes:  *)
(* run extraction and materialization over the whole manifest, again and   *)
(* again, each time after confirming that the last worker stopped, and     *)
(* with --recover-stale once its heartbeat is an hour old.  Workers may be *)
(* killed at every step and every operation may fail, up to MaxFaults      *)
(* times; the web application leaves the captures alone.                   *)
(***************************************************************************)
EXTENDS ReplayRun

CONSTANT MaxFaults   \* bound: deaths and failed operations of one behaviour

VARIABLE faults

drainVars == <<vars, faults>>

Stopped == \A w \in Workers : pc[w] = "idle"

\* One more apply over all members, by a new invocation.
Attempt(w, r, phase) ==
  /\ Stopped
  /\ Start(w, r, phase, Members(r), TRUE)
  /\ UNCHANGED faults

\* A working invocation heartbeats every few seconds; only a dead one ages an hour.
Ages(r) == Stopped /\ HeartbeatAges(r) /\ UNCHANGED faults

Fails(w) == Stop(w) \/ (WorkerStep(w) /\ pc'[w] = "finish" /\ inv'[w].outcome = "failed")

Fault(w) ==
  /\ faults < MaxFaults
  /\ Fails(w)
  /\ faults' = faults + 1

Advance(w) ==
  /\ WorkerStep(w)
  /\ ~(pc'[w] = "finish" /\ inv'[w].outcome = "failed")
  /\ UNCHANGED faults

DrainInit == Init /\ faults = 0

DrainNext ==
  \/ \E w \in Workers : \/ \E r \in Runs, phase \in Phases : Attempt(w, r, phase)
                        \/ Advance(w) \/ Fault(w)
  \/ \E r \in Runs : Ages(r)

\* The operator keeps trying both phases of every run, an abandoned heartbeat
\* ages, and a live invocation keeps going.
Drain ==
  /\ DrainInit /\ [][DrainNext]_drainVars
  /\ \A w \in Workers : WF_drainVars(Advance(w))
  /\ \A r \in Runs :
       /\ SF_drainVars(Ages(r))
       /\ \A phase \in Phases : SF_drainVars(\E w \in Workers : Attempt(w, r, phase))

\* Whatever died or failed before, the manifest ends up completed and the
\* inventory is free for new captures.
ManifestDrains == <>[](lease = None /\ \A r \in Runs : run[r].status = "completed")
=============================================================================
