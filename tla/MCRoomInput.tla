----------------------------- MODULE MCRoomInput -----------------------------
(* RoomInput for TLC.                                                      *)
EXTENDS RoomInput

CONSTANTS c1, c2, r1, r2

MCTwoCallers == {c1, c2}
MCTwoRooms == {r1, r2}
MCOneRoom == {r1}
=============================================================================
