---------------------------- MODULE ReplayLedger ----------------------------
(***************************************************************************)
(* What the replay coordinator promises about its ledger, without workers, *)
(* tokens, heartbeats, attempts or the signed captures.  One run at a time *)
(* holds the capture inventory.  Only members of the holder make progress: *)
(* a member is pinned to one extraction checkpoint, then settled, either   *)
(* by success, which needs a pin, or by refusal.  Both are final.  A run   *)
(* that is given back with every member settled is closed for good.        *)
(***************************************************************************)
EXTENDS Naturals

CONSTANTS Runs, Captures, MembersOf, Payloads, None

VARIABLES
  holder,   \* the run that holds the inventory, or None
  pinned,   \* pinned[r][c]: the checkpoint run r replays for c, or None
  result,   \* result[r][c]: open, succeeded or refused
  closed    \* completed runs

vars == <<holder, pinned, result, closed>>

Init ==
  /\ holder = None
  /\ pinned = [r \in Runs |-> [c \in Captures |-> None]]
  /\ result = [r \in Runs |-> [c \in Captures |-> "open"]]
  /\ closed = {}

\* A run takes the free inventory, or displaces its holder.
Take(r) ==
  /\ r \notin closed
  /\ holder' = r
  /\ UNCHANGED <<pinned, result, closed>>

\* The holder gives the inventory back.
Drop ==
  /\ holder # None
  /\ holder' = None
  /\ closed' = IF \A c \in MembersOf[holder] : result[holder][c] # "open"
               THEN closed \cup {holder} ELSE closed
  /\ UNCHANGED <<pinned, result>>

\* A member of the holder is pinned, settled, or both at once.
Advance(c, pin, res) ==
  /\ holder # None /\ c \in MembersOf[holder]
  /\ result[holder][c] = "open"
  /\ pinned[holder][c] \in {None, pin}
  /\ res = "succeeded" => pin # None
  /\ pinned' = [pinned EXCEPT ![holder][c] = pin]
  /\ result' = [result EXCEPT ![holder][c] = res]
  /\ UNCHANGED <<holder, closed>>

Next ==
  \/ \E r \in Runs : Take(r)
  \/ Drop
  \/ \E c \in Captures, pin \in Payloads \cup {None}, res \in {"open", "succeeded", "refused"} :
       Advance(c, pin, res)

Spec == Init /\ [][Next]_vars
=============================================================================
