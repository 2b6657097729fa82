--------------------------- MODULE MCAppServices ---------------------------
(* AppServices with one application service.                               *)
EXTENDS AppServices

CONSTANT as1
MCWorkerStates == <<as1>>
=============================================================================
