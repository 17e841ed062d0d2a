---------------------------- MODULE UsageLedger ----------------------------
(***************************************************************************)
(* What a record of usage promises, whatever way the bytes take: a byte is *)
(* used once, is then either recorded or still under way, is recorded at   *)
(* most once, and is lost only where the pipeline knows it may be.         *)
(***************************************************************************)
EXTENDS Naturals

CONSTANT Keys      \* whose bytes are counted apart: users, or users of a node

VARIABLES
    pending,       \* [Keys -> Nat], bytes used and not yet recorded
    recorded,      \* [Keys -> Nat], bytes recorded
    suspect        \* keys that may have lost bytes

ledger == <<pending, recorded, suspect>>

Init ==
    /\ pending = [k \in Keys |-> 0]
    /\ recorded = [k \in Keys |-> 0]
    /\ suspect = {}

\* A user uses bytes.  Nothing else may raise pending + recorded.
Use(k) ==
    /\ pending'[k] > pending[k]
    /\ \A j \in Keys \ {k} : pending'[j] = pending[j]
    /\ UNCHANGED <<recorded, suspect>>

\* Bytes are recorded; of a suspect key, some may be lost.
Record ==
    /\ suspect \subseteq suspect'
    /\ \A k \in Keys :
          /\ pending'[k] <= pending[k]
          /\ recorded'[k] >= recorded[k]
          /\ pending'[k] + recorded'[k] <= pending[k] + recorded[k]
          /\ k \notin suspect' => pending'[k] + recorded'[k] = pending[k] + recorded[k]

\* The records are discarded, what is under way is not.
Truncate ==
    /\ recorded' = [k \in Keys |-> 0]
    /\ UNCHANGED <<pending, suspect>>

Next == (\E k \in Keys : Use(k)) \/ Record \/ Truncate

Spec == Init /\ [][Next]_ledger
=============================================================================
