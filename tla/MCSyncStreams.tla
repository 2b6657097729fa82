---------------------------- MODULE MCSyncStreams ----------------------------
(* Instances of SyncStreams for TLC.                                         *)
EXTENDS SyncStreams, TLC

AllStreams == <<"pdu", "receipt", "invite", "toDevice", "account">>
ToDeviceOnly == <<"toDevice">>
EventsAndReceipts == <<"pdu", "receipt">>

RequestSymmetry == Permutations(Requests)
=============================================================================
