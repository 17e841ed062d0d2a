---------------------------- MODULE MCUserStatus ----------------------------
(* Small instances of UserStatus for TLC. *)
EXTENDS UserStatus, TLC

Sym == Permutations(Requests)
=============================================================================
