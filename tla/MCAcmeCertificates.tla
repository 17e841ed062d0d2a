------------------------- MODULE MCAcmeCertificates -------------------------
(* Small instances of AcmeCertificates for TLC. *)
EXTENDS AcmeCertificates, TLC

\* Parameters are only ever compared with each other.
Sym == Permutations(Params)
=============================================================================
