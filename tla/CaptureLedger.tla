---------------------------- MODULE CaptureLedger ----------------------------
(***************************************************************************)
(* What the signed capture store promises about captures and listings,     *)
(* without requests, retries, crashes, links, reviews and dispositions.    *)
(* A page enters a listing in one step that also binds its capture, and a  *)
(* listing goes in one step that also frees the captures bound to it.  An  *)
(* identity that was corrected is held back until, in one step, it is      *)
(* decided and shown.  A published listing says the same until it is taken *)
(* back.  A receipt closes its capture, is the only one of its listing,    *)
(* and like a decision it is final and keeps its listing.                  *)
(***************************************************************************)
CONSTANTS Captures, Listings, Payloads, TailOf, Corrected, None

VARIABLES
  shown,    \* shown[l]: what listing l shows, [state, says]
  entry,    \* entry[c]: what capture c says and the listing it is bound to
  decision, \* decision[c]: the identity correction decided for c, or None
  receipt   \* receipt[c]: the entry c was closed with, or None

vars == <<shown, entry, decision, receipt>>

Absent == [state |-> "absent", says |-> None]
Gone   == [state |-> "gone", says |-> None]

Init ==
  /\ shown = [l \in Listings |-> Absent]
  /\ entry = [c \in Captures |-> [payload |-> None, listing |-> None]]
  /\ decision = [c \in Captures |-> None]
  /\ receipt = [c \in Captures |-> None]

Live(l) == shown[l].state \in {"held", "open", "published"}

\* Some capture's decision stands for what p says of listing l.
Decided(l, p) == \E c \in Captures : decision[c] = [listing |-> l, tail |-> TailOf[p]]

Receipted(l) == \E c \in Captures : receipt[c] # None /\ receipt[c].listing = l
Retained(l)  == Receipted(l) \/ \E c \in Captures : decision[c] # None /\ decision[c].listing = l

\* A capture that is not closed is extracted, fails, or is bound to a live listing.
Write(c, p, l) ==
  /\ receipt[c] = None
  /\ l = entry[c].listing \/ (l \in Listings /\ Live(l))
  /\ entry' = [entry EXCEPT ![c] = [payload |-> p, listing |-> l]]
  /\ UNCHANGED <<shown, decision, receipt>>

\* An unbound capture enters a new listing, held back if its identity was corrected.
Enter(c, l, p) ==
  /\ receipt[c] = None /\ entry[c].listing = None /\ shown[l].state = "absent"
  /\ shown' = [shown EXCEPT ![l] =
       [state |-> IF p \in Corrected THEN "held" ELSE "open", says |-> p]]
  /\ entry' = [entry EXCEPT ![c] = [payload |-> p, listing |-> l]]
  /\ UNCHANGED <<decision, receipt>>

\* A live listing is held back for a corrected identity,
Hold(l, p) ==
  /\ Live(l) /\ p \in Corrected
  /\ shown' = [shown EXCEPT ![l] = [state |-> "held", says |-> p]]
  /\ UNCHANGED <<entry, decision, receipt>>

\* or shows, unpublished, what it said, what needs no correction or what is decided,
Show(l, p) ==
  /\ \/ shown[l].state \in {"open", "published"} /\ p = shown[l].says
     \/ shown[l].state = "open" /\ p \notin Corrected
     \/ shown[l].state = "held" /\ Decided(l, p)
  /\ shown' = [shown EXCEPT ![l] = [state |-> "open", says |-> p]]
  /\ UNCHANGED <<entry, decision, receipt>>

\* or is published as it is.
Publish(l) ==
  /\ shown[l].state = "open"
  /\ shown' = [shown EXCEPT ![l].state = "published"]
  /\ UNCHANGED <<entry, decision, receipt>>

\* The correction of the capture bound to a held listing is decided, once.
Decide(c, l) ==
  /\ entry[c].listing = l /\ decision[c] = None /\ shown[l].state = "held"
  /\ TailOf[shown[l].says] = TailOf[entry[c].payload]
  /\ decision' = [decision EXCEPT ![c] = [listing |-> l, tail |-> TailOf[entry[c].payload]]]
  /\ shown' = [shown EXCEPT ![l].state = "open"]
  /\ UNCHANGED <<entry, receipt>>

\* A capture bound to a live listing without receipt is closed as it is.
Close(c, l) ==
  /\ entry[c].listing = l /\ receipt[c] = None /\ Live(l) /\ ~Receipted(l)
  /\ receipt' = [receipt EXCEPT ![c] = entry[c]]
  /\ UNCHANGED <<shown, entry, decision>>

\* A listing that no receipt and no decision names is deleted.
Remove(l) ==
  /\ Live(l) /\ ~Retained(l)
  /\ shown' = [shown EXCEPT ![l] = Gone]
  /\ entry' = [c \in Captures |->
       IF entry[c].listing = l THEN [entry[c] EXCEPT !.listing = None] ELSE entry[c]]
  /\ UNCHANGED <<decision, receipt>>

Next ==
  \/ \E l \in Listings : Publish(l) \/ Remove(l)
  \/ \E l \in Listings, p \in Payloads : Hold(l, p) \/ Show(l, p)
  \/ \E c \in Captures, l \in Listings : Decide(c, l) \/ Close(c, l)
  \/ \E c \in Captures, l \in Listings, p \in Payloads : Enter(c, l, p)
  \/ \E c \in Captures, l \in Listings \cup {None}, p \in Payloads \cup {None} : Write(c, p, l)

Spec == Init /\ [][Next]_vars
=============================================================================
