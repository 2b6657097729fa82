--------------------------- MODULE DurableOutbox ----------------------------
(***************************************************************************)
(* What the federation sender promises for one destination: an at-least-   *)
(* once outbox.  An item that has been accepted stays in the outbox,       *)
(* across crashes, until the destination has received it; it may be        *)
(* delivered any number of times.                                          *)
(***************************************************************************)
CONSTANT Items

VARIABLES
  outbox,    \* accepted and not yet acknowledged
  delivered  \* received by the destination at least once

vars == <<outbox, delivered>>

Init == outbox = {} /\ delivered = {}

Accept(i) == outbox' = outbox \cup {i} /\ UNCHANGED delivered

\* Only what was accepted is ever delivered.
Deliver(S) ==
  /\ S \subseteq outbox \cup delivered
  /\ delivered' = delivered \cup S
  /\ UNCHANGED outbox

\* Only what was delivered is ever forgotten.
Forget(S) ==
  /\ S \subseteq delivered
  /\ outbox' = outbox \ S
  /\ UNCHANGED delivered

Next ==
  \/ \E i \in Items : Accept(i)
  \/ \E S \in SUBSET Items : Deliver(S) \/ Forget(S)

Spec == Init /\ [][Next]_vars
=============================================================================
