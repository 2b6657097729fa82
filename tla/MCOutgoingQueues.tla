-------------------------- MODULE MCOutgoingQueues --------------------------
(* OutgoingQueues for TLC. *)
EXTENDS OutgoingQueues, TLC

CONSTANTS p1, p2, e1, q1, q2

TwoPDUs == {p1, p2}
OneEDU == {e1}
NoItems == {}
TwoQueues == {q1, q2}
QueueSymmetry == Permutations(TwoQueues) \cup Permutations(TwoPDUs)
=============================================================================
