-------------------------- MODULE MCUsagePipeline --------------------------
(* A node whose traffic counts double. *)
EXTENDS UsagePipeline

Double == [n \in Nodes |-> 2]
=============================================================================
