-------------------------- MODULE MCNodeLifecycle --------------------------
(* NodeLifecycle for TLC. *)
EXTENDS NodeLifecycle

CONSTANTS n1, p1, none

=============================================================================
