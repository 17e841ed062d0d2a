-------------------------- MODULE MCNodeUserSync ---------------------------
(* NodeUserSync for TLC: a node with one of two inbounds. *)
EXTENDS NodeUserSync

CONSTANTS u1, n1, t1, t2, none

OneActive == [n \in Nodes |-> {t1}]

=============================================================================
