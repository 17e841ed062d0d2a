--------------------------- MODULE MCCachedRows ----------------------------
(* CachedRows for TLC. *)
EXTENDS CachedRows

CONSTANTS p1, p2, none, empty

=============================================================================
