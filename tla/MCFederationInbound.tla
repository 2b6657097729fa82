------------------------ MODULE MCFederationInbound ------------------------
(***************************************************************************)
(* A room whose history forks after the root r, into a1, a2, a3 and b1,    *)
(* b2, and comes together again in m, before n.  Both branches set the     *)
(* topic.  One origin sends a1 and a3, another a2, and another b1 and n;   *)
(* b2 and m come only through /get_missing_events, which returns at most   *)
(* two events.                                                             *)
(***************************************************************************)
EXTENDS FederationInbound, TLC

CONSTANTS r, a1, a2, a3, b1, b2, m, n, A, B, C

Graph == {r, a1, a2, a3, b1, b2, m, n}
PrevOf == (r :> {}) @@ (a1 :> {r}) @@ (a2 :> {a1}) @@ (a3 :> {a2}) @@ (b1 :> {r}) @@ (b2 :> {b1})
          @@ (m :> {a3, b2}) @@ (n :> {m})
AuthOf == (r :> {}) @@ (a3 :> {r, b1}) @@ [x \in {a1, a2, b1, b2, m, n} |-> {r}]
KeysOf == (r :> "create") @@ (a1 :> "topic") @@ (b1 :> "topic") @@ (b2 :> "name")
          @@ [x \in {a2, a3, m, n} |-> "none"]
RankOf == (r :> 0) @@ (a1 :> 1) @@ (b1 :> 2) @@ [x \in {a2, a3, b2, m, n} |-> 0]
Pushed == (A :> <<<<a1>>, <<a3>>>>) @@ (B :> <<<<b1, n>>>>) @@ (C :> <<<<a2>>>>)
=============================================================================
