------------------------------ MODULE MCSignIn ------------------------------
(* SignIn for TLC. *)
EXTENDS SignIn, TLC

CONSTANTS n1, n2, a1, a2, u1, u2, none

Sym == Permutations({a1, a2}) \cup Permutations({u1, u2}) \cup Permutations({n1, n2})
=============================================================================
