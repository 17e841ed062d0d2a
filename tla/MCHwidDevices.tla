--------------------------- MODULE MCHwidDevices ---------------------------
(* HwidDevices for TLC. *)
EXTENDS HwidDevices, TLC

CONSTANTS c1, c2, d1, d2, null

Sym == Permutations(Devices)
=============================================================================
