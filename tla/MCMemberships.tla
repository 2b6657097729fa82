--------------------------- MODULE MCMemberships ---------------------------
(* Memberships with users and client requests that are interchangeable.    *)
EXTENDS Memberships, TLC

Symmetry == Permutations(Users) \cup Permutations(Calls)
=============================================================================
