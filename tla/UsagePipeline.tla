--------------------------- MODULE UsagePipeline ---------------------------
(***************************************************************************)
(* From the counters of a node to the database: how the traffic of users   *)
(* is accounted.                                                           *)
(*                                                                         *)
(* Every 15 s a job per node (record-user-usage.processor.ts) reads and    *)
(* resets the counters of the node, adds them to a Redis hash of the node, *)
(* queues a job that charges the users, and queues a delayed job that      *)
(* moves the hash to the history table.  Two maintenance jobs pause these  *)
(* queues: the reset of the users' traffic (reset-user-traffic.processor   *)
(* and throttle-queue.util.ts) and the truncation of the history           *)
(* (service.processor.ts).                                                 *)
(*                                                                         *)
(* The jobs are BullMQ's: a job id exists once; a job whose worker died is *)
(* run once more, and is failed when it dies again; a paused queue starts  *)
(* no job, and stays paused until it is resumed, whoever paused it.        *)
(***************************************************************************)
EXTENDS Naturals, FiniteSets, Functions

CONSTANTS
    Nodes,
    Users,
    Jobs,          \* bound: charging jobs in the queue at once
    Multiplier,    \* [Nodes -> Nat], the consumption multiplier of a node
    IgnoreBelow,   \* USER_USAGE_IGNORE_BELOW_BYTES
    MaxBytes,      \* bound on the bytes of one user through one node
    Faults         \* bound: what may fail.  "node": the answer of the node;
                   \* "redis": a call of Redis or of a queue; "db": a statement;
                   \* "crash": a worker dies

ASSUME FiniteAssumption == IsFiniteSet(Nodes) /\ IsFiniteSet(Jobs)
ASSUME BoundsAssumption ==
    /\ IgnoreBelow \in Nat /\ MaxBytes \in Nat /\ Multiplier \in [Nodes -> Nat]
ASSUME FaultsAssumption == Faults \subseteq {"node", "redis", "db", "crash"}

VARIABLES
    counter,       \* [Nodes -> Bytes], the counters of the node
    record,        \* [Nodes -> job that reads the counters]
    hash,          \* [Nodes -> Bytes], node_user_usage:<id>
    push,          \* [Nodes -> job that moves the hash to the history]
    history,       \* [Nodes -> Bytes], nodes_user_usage_history
    charge,        \* [Jobs -> job that charges users]
    used,          \* [Users -> Nat], lifetime_used_traffic_bytes
    paused,        \* queues that are paused
    reset,         \* the job that resets the traffic of users
    clean,         \* the job that truncates the history
    \* What can no longer be told from the state:
    total,         \* [Nodes -> Bytes], bytes used
    truncated,     \* [Nodes -> Bytes], history truncated
    lost,          \* user of a node whose bytes may be missing in the history
    unbilled,      \* users who may not have been charged for all of their bytes
    doubled,       \* users who may have been charged twice
    stranded       \* nodes whose hash waits for the next usage of the node

pipeline == <<counter, record, hash, push, history, lost, stranded>>
charging == <<charge, used, unbilled, doubled>>
upkeep   == <<paused, reset, clean>>
vars     == <<pipeline, charging, upkeep, total, truncated>>

Bytes == [Users -> Nat]
Zero  == [u \in Users |-> 0]
Plus(a, b) == [u \in Users |-> a[u] + b[u]]
Active(b)  == {u \in Users : b[u] > 0}
Of(n, S)   == {n} \X S

\* The queues that are paused: update-users-usage and push-to-db.
Queues == {"charge", "push"}

RecordJob == [pc: {"idle", "read", "hashed", "billed"}, bytes: Bytes]
PushJob   == [pc: {"none", "waiting", "moving"}, bytes: Bytes, stalled: BOOLEAN]
ChargeJob == [pc: {"free", "waiting", "active", "applied"}, bytes: Bytes,
              stalled: BOOLEAN, applied: BOOLEAN]
ResetJob  == [pc: {"off", "throttle", "run"}, drained: BOOLEAN, intruded: BOOLEAN]

NoRecord == [pc |-> "idle", bytes |-> Zero]
NoPush   == [pc |-> "none", bytes |-> Zero, stalled |-> FALSE]
NoCharge == [pc |-> "free", bytes |-> Zero, stalled |-> FALSE, applied |-> FALSE]
NoReset  == [pc |-> "off", drained |-> FALSE, intruded |-> FALSE]

TypeOK ==
    /\ counter \in [Nodes -> Bytes]
    /\ record \in [Nodes -> RecordJob]
    /\ hash \in [Nodes -> Bytes]
    /\ push \in [Nodes -> PushJob]
    /\ history \in [Nodes -> Bytes]
    /\ charge \in [Jobs -> ChargeJob]
    /\ used \in [Users -> Nat]
    /\ paused \subseteq Queues
    /\ reset \in ResetJob
    /\ clean \in {"off", "paused", "done"}
    /\ total \in [Nodes -> Bytes]
    /\ truncated \in [Nodes -> Bytes]
    /\ lost \subseteq Nodes \X Users
    /\ unbilled \subseteq Users
    /\ doubled \subseteq Users
    /\ stranded \subseteq Nodes

Init ==
    /\ counter = [n \in Nodes |-> Zero]
    /\ record = [n \in Nodes |-> NoRecord]
    /\ hash = [n \in Nodes |-> Zero]
    /\ push = [n \in Nodes |-> NoPush]
    /\ history = [n \in Nodes |-> Zero]
    /\ charge = [j \in Jobs |-> NoCharge]
    /\ used = Zero
    /\ paused = {}
    /\ reset = NoReset
    /\ clean = "off"
    /\ total = [n \in Nodes |-> Zero]
    /\ truncated = [n \in Nodes |-> Zero]
    /\ lost = {} /\ unbilled = {} /\ doubled = {} /\ stranded = {}

-----------------------------------------------------------------------------
(* The node (external): Xray counts, and may be restarted, which clears its  *)
(* counters.                                                                 *)

Traffic(n, u) ==
    /\ total[n][u] < MaxBytes
    /\ total' = [total EXCEPT ![n][u] = @ + 1]
    /\ counter' = [counter EXCEPT ![n][u] = @ + 1]
    /\ UNCHANGED <<record, hash, push, history, lost, stranded, charging, upkeep, truncated>>

\* The counters are gone: with the process, or with an answer that reset them
\* and did not arrive.
CountersLost(n) ==
    /\ "node" \in Faults
    /\ record[n].pc = "idle"
    /\ counter[n] # Zero
    /\ counter' = [counter EXCEPT ![n] = Zero]
    /\ lost' = lost \cup Of(n, Active(counter[n]))
    /\ unbilled' = unbilled \cup Active(counter[n])
    /\ UNCHANGED <<record, hash, push, history, stranded, charge, used, doubled,
                   upkeep, total, truncated>>

-----------------------------------------------------------------------------
(* Recording (record-user-usage.processor.ts).  The task queues a job per    *)
(* connected node under an id of its own, so a node has at most one.         *)

\* getUsersStats with reset: true.  Without usage the job only notes that
\* nobody is online; a failed query leaves everything for the next tick.
ReadStats(n) ==
    /\ record[n].pc = "idle"
    /\ counter[n] # Zero
    /\ record' = [record EXCEPT ![n] = [pc |-> "read", bytes |-> counter[n]]]
    /\ counter' = [counter EXCEPT ![n] = Zero]
    /\ UNCHANGED <<hash, push, history, lost, stranded, charging, upkeep, total, truncated>>

\* Small readings are dropped.
Counted(b) == [u \in Users |-> IF b[u] < IgnoreBelow THEN 0 ELSE b[u]]

\* Mutant: the counters, reset by the query already, are decreased again.
AddToHashSubtracts(n) ==
    /\ record[n].pc = "read"
    /\ hash' = [hash EXCEPT ![n] = Plus(@, record[n].bytes)]
    /\ record' = [record EXCEPT ![n].pc = "hashed"]
    /\ counter' = [counter EXCEPT ![n] = [u \in Users |-> @[u] - record[n].bytes[u]]]
    /\ UNCHANGED <<push, history, lost, stranded, charging, upkeep, total, truncated>>

\* One pipeline of hincrby, which also renews the TTL of the hash.
AddToHash(n) ==
    LET b    == record[n].bytes
        kept == Counted(b)
        gone == {u \in Users : kept[u] < b[u]}
    IN /\ record[n].pc = "read"
       /\ hash' = [hash EXCEPT ![n] = Plus(@, kept)]
       /\ record' = [record EXCEPT ![n] = [pc |-> "hashed", bytes |-> kept]]
       /\ lost' = lost \cup Of(n, gone)
       /\ unbilled' = unbilled \cup gone
       /\ UNCHANGED <<counter, push, history, stranded, charge, used, doubled,
                      upkeep, total, truncated>>

Charged(n, b) == [u \in Users |-> b[u] * Multiplier[n]]

\* updateUserUsage: the users' bytes times the multiplier, as a job.
AddCharge(n, j) ==
    /\ record[n].pc = "hashed"
    /\ charge[j] = NoCharge
    /\ charge' = [charge EXCEPT ![j] =
          [NoCharge EXCEPT !.pc = "waiting", !.bytes = Charged(n, record[n].bytes)]]
    /\ record' = [record EXCEPT ![n] = [pc |-> "billed", bytes |-> Zero]]
    /\ UNCHANGED <<counter, hash, push, history, lost, stranded, used, unbilled, doubled,
                   upkeep, total, truncated>>

\* Mutant: a node whose hash was left behind gets no job.
AddPushIfFirst(n) ==
    /\ record[n].pc = "billed"
    /\ record' = [record EXCEPT ![n] = NoRecord]
    /\ IF push[n].pc = "none" /\ n \notin stranded
       THEN push' = [push EXCEPT ![n] = [NoPush EXCEPT !.pc = "waiting"]]
       ELSE UNCHANGED push
    /\ stranded' = IF push[n].pc = "moving" THEN stranded \cup {n} ELSE stranded \ {n}
    /\ UNCHANGED <<counter, hash, history, lost, charging, upkeep, total, truncated>>

\* recordUserUsageDelayed: dropped while a job of this key exists, also when
\* that job has renamed the hash already.
AddPush(n) ==
    /\ record[n].pc = "billed"
    /\ record' = [record EXCEPT ![n] = NoRecord]
    /\ IF push[n].pc = "none"
       THEN push' = [push EXCEPT ![n] = [NoPush EXCEPT !.pc = "waiting"]]
       ELSE UNCHANGED push
    /\ stranded' = IF push[n].pc = "moving" THEN stranded \cup {n} ELSE stranded \ {n}
    /\ UNCHANGED <<counter, hash, history, lost, charging, upkeep, total, truncated>>

\* A call fails, or the worker dies: the job ends where it is (one that is run
\* again finds the counters reset).
RecordEnds(n) ==
    /\ {"redis", "crash"} \cap Faults # {}
    /\ record[n].pc # "idle"
    /\ lost' = IF record[n].pc = "read"
               THEN lost \cup Of(n, Active(record[n].bytes)) ELSE lost
    /\ unbilled' = unbilled \cup Active(record[n].bytes)
    /\ stranded' = IF record[n].pc # "read" /\ push[n].pc # "waiting"
                   THEN stranded \cup {n} ELSE stranded
    /\ record' = [record EXCEPT ![n] = NoRecord]
    /\ UNCHANGED <<counter, hash, push, history, charge, used, doubled, upkeep,
                   total, truncated>>

-----------------------------------------------------------------------------
(* Moving the hash to the history (push-from-redis.processor.ts).  bytes is  *)
(* what is left of the renamed hash; a rename overwrites, and the finally    *)
(* deletes, what an earlier run left behind.                                 *)

\* Mutant: the hash is copied, not renamed.
PushCopies(n) ==
    /\ push[n].pc = "waiting" /\ "push" \notin paused
    /\ push' = [push EXCEPT ![n] = IF hash[n] # Zero
                    THEN [@ EXCEPT !.pc = "moving", !.bytes = hash[n]] ELSE NoPush]
    /\ stranded' = stranded \ {n}
    /\ UNCHANGED <<counter, record, hash, history, lost, charging, upkeep, total, truncated>>

PushStart(n) ==
    /\ push[n].pc = "waiting"
    /\ "push" \notin paused
    /\ IF hash[n] # Zero
       THEN push' = [push EXCEPT ![n].pc = "moving", ![n].bytes = hash[n]]
       ELSE push' = [push EXCEPT ![n] = NoPush]
    /\ hash' = [hash EXCEPT ![n] = Zero]
    /\ stranded' = stranded \ {n}
    /\ UNCHANGED <<counter, record, history, lost, charging, upkeep, total, truncated>>

\* The rename fails: the job ends and the hash stays.
RenameFails(n) ==
    /\ "redis" \in Faults
    /\ push[n].pc = "waiting" /\ "push" \notin paused
    /\ push' = [push EXCEPT ![n] = NoPush]
    /\ stranded' = stranded \cup {n}
    /\ UNCHANGED <<counter, record, hash, history, lost, charging, upkeep, total, truncated>>

\* Mutant: the scan returns a batch again.
PushBatchAgain(n, S) ==
    /\ push[n].pc = "moving"
    /\ S # {} /\ S \subseteq Active(push[n].bytes)
    /\ history' = [history EXCEPT ![n] =
          [u \in Users |-> IF u \in S THEN @[u] + push[n].bytes[u] ELSE @[u]]]
    /\ push' \in {push, [push EXCEPT ![n].bytes = Zero]}
    /\ UNCHANGED <<counter, record, hash, lost, stranded, charging, upkeep, total, truncated>>

\* A batch of the scan is upserted; a failure is logged and the scan goes on.
PushBatch(n, S) ==
    /\ push[n].pc = "moving"
    /\ S # {} /\ S \subseteq Active(push[n].bytes)
    /\ push' = [push EXCEPT ![n].bytes = [u \in Users |-> IF u \in S THEN 0 ELSE @[u]]]
    /\ \/ /\ history' = [history EXCEPT ![n] =
                [u \in Users |-> IF u \in S THEN @[u] + push[n].bytes[u] ELSE @[u]]]
          /\ UNCHANGED lost
       \/ /\ "db" \in Faults
          /\ lost' = lost \cup Of(n, S)
          /\ UNCHANGED history
    /\ UNCHANGED <<counter, record, hash, stranded, charging, upkeep, total, truncated>>

PushDone(n) ==
    /\ push[n].pc = "moving" /\ push[n].bytes = Zero
    /\ push' = [push EXCEPT ![n] = NoPush]
    /\ UNCHANGED <<counter, record, hash, history, lost, stranded, charging, upkeep,
                   total, truncated>>

\* The scan fails (and the finally deletes the rest), or the worker dies: the
\* rest is never read again.  A job that died once is run again.
PushAborts(n) ==
    /\ push[n].pc = "moving"
    /\ \/ /\ "redis" \in Faults \/ ("crash" \in Faults /\ push[n].stalled)
          /\ push' = [push EXCEPT ![n] = NoPush]
       \/ /\ "crash" \in Faults /\ ~push[n].stalled
          /\ push' = [push EXCEPT ![n] = [pc |-> "waiting", bytes |-> Zero, stalled |-> TRUE]]
    /\ stranded' = IF push'[n].pc = "waiting" THEN stranded \ {n} ELSE stranded
    /\ lost' = lost \cup Of(n, Active(push[n].bytes))
    /\ UNCHANGED <<counter, record, hash, history, charging, upkeep, total, truncated>>

\* The hash lives three hours after the last usage of the node.
Expire(n) ==
    /\ hash[n] # Zero
    /\ record[n].pc = "idle"
    /\ push[n].pc = "none" \/ "push" \in paused
    /\ hash' = [hash EXCEPT ![n] = Zero]
    /\ lost' = lost \cup Of(n, Active(hash[n]))
    /\ stranded' = stranded \ {n}
    /\ UNCHANGED <<counter, record, push, history, charging, upkeep, total, truncated>>

-----------------------------------------------------------------------------
(* Charging (update-users-usage.processor.ts, up to five jobs at once).      *)

ChargeStart(j) ==
    /\ charge[j].pc = "waiting" /\ "charge" \notin paused
    /\ charge' = [charge EXCEPT ![j].pc = "active"]
    /\ UNCHANGED <<pipeline, used, unbilled, doubled, upkeep, total, truncated>>

\* One statement adds to the traffic of every user of the job.
IncrementUsedTraffic(j) ==
    /\ charge[j].pc = "active"
    /\ used' = Plus(used, charge[j].bytes)
    /\ doubled' = IF charge[j].applied THEN doubled \cup Active(charge[j].bytes) ELSE doubled
    /\ charge' = [charge EXCEPT ![j].pc = "applied", ![j].applied = TRUE]
    /\ UNCHANGED <<pipeline, unbilled, upkeep, total, truncated>>

\* The error is swallowed, so the three attempts of the job are never used.
IncrementFails(j) ==
    /\ "db" \in Faults
    /\ charge[j].pc = "active"
    /\ unbilled' = IF charge[j].applied THEN unbilled ELSE unbilled \cup Active(charge[j].bytes)
    /\ charge' = [charge EXCEPT ![j] = NoCharge]
    /\ UNCHANGED <<pipeline, used, doubled, upkeep, total, truncated>>

\* Mutant: a failure after the statement is retried like one before it.
ChargeRetries(j) ==
    /\ charge[j].pc = "applied"
    /\ charge' \in {[charge EXCEPT ![j] = NoCharge],
                    [charge EXCEPT ![j].pc = "waiting", ![j].applied = FALSE]}
    /\ UNCHANGED <<pipeline, used, unbilled, doubled, upkeep, total, truncated>>

\* The first-connection events are fired and the job completes.
ChargeDone(j) ==
    /\ charge[j].pc = "applied"
    /\ charge' = [charge EXCEPT ![j] = NoCharge]
    /\ UNCHANGED <<pipeline, used, unbilled, doubled, upkeep, total, truncated>>

\* A job that was applied is applied again when its worker died before the end.
ChargeCrash(j) ==
    /\ "crash" \in Faults
    /\ charge[j].pc \in {"active", "applied"}
    /\ IF charge[j].stalled
       THEN /\ charge' = [charge EXCEPT ![j] = NoCharge]
            /\ unbilled' = IF charge[j].applied THEN unbilled
                           ELSE unbilled \cup Active(charge[j].bytes)
       ELSE /\ charge' = [charge EXCEPT ![j].pc = "waiting", ![j].stalled = TRUE]
            /\ UNCHANGED unbilled
    /\ UNCHANGED <<pipeline, used, doubled, upkeep, total, truncated>>

-----------------------------------------------------------------------------
(* Maintenance.  The reset pauses both queues and waits, ten times at most,  *)
(* for their active jobs; the truncation pauses the charging only.           *)

Busy == \/ \E j \in Jobs : charge[j].pc \in {"active", "applied"}
        \/ \E n \in Nodes : push[n].pc = "moving"

\* Mutant: only the charging is paused.
ResetStartCharge ==
    /\ reset.pc = "off"
    /\ reset' = [NoReset EXCEPT !.pc = "throttle"]
    /\ paused' = paused \cup {"charge"}
    /\ UNCHANGED <<pipeline, charging, clean, total, truncated>>

ResetStart ==
    /\ reset.pc = "off"
    /\ reset' = [NoReset EXCEPT !.pc = "throttle"]
    /\ paused' = Queues
    /\ UNCHANGED <<pipeline, charging, clean, total, truncated>>

ResetDrained ==
    /\ reset.pc = "throttle"
    /\ ~Busy
    /\ reset' = [reset EXCEPT !.pc = "run", !.drained = TRUE]
    /\ UNCHANGED <<pipeline, charging, paused, clean, total, truncated>>

ResetGivesUp ==
    /\ reset.pc = "throttle"
    /\ Busy
    /\ reset' = [reset EXCEPT !.pc = "run"]
    /\ UNCHANGED <<pipeline, charging, paused, clean, total, truncated>>

\* Mutant: only the charging is resumed.
ResetDoneCharge ==
    /\ reset.pc = "run"
    /\ reset' = NoReset
    /\ paused' = paused \ {"charge"}
    /\ UNCHANGED <<pipeline, charging, clean, total, truncated>>

ResetDone ==
    /\ reset.pc = "run"
    /\ reset' = NoReset
    /\ paused' = {}
    /\ UNCHANGED <<pipeline, charging, clean, total, truncated>>

\* The worker dies, or the throttling fails, which is outside of the try.
ResetAborts ==
    /\ \/ "crash" \in Faults /\ reset.pc # "off"
       \/ "redis" \in Faults /\ reset.pc = "throttle"
    /\ reset' = NoReset
    /\ UNCHANGED <<pipeline, charging, paused, clean, total, truncated>>

CleanStart ==
    /\ clean = "off"
    /\ clean' = "paused"
    /\ paused' = paused \cup {"charge"}
    /\ UNCHANGED <<pipeline, charging, reset, total, truncated>>

CleanTruncate ==
    /\ clean = "paused"
    /\ clean' = "done"
    /\ truncated' = [n \in Nodes |-> Plus(truncated[n], history[n])]
    /\ history' = [n \in Nodes |-> Zero]
    /\ UNCHANGED <<counter, record, hash, push, lost, stranded, charging, paused, reset, total>>

\* The finally, after a truncation or a failure.
CleanDone ==
    /\ \/ clean = "done"
       \/ clean = "paused" /\ "db" \in Faults
    /\ clean' = "off"
    /\ paused' = paused \ {"charge"}
    /\ reset' = [reset EXCEPT !.intruded = (reset.pc # "off")]
    /\ UNCHANGED <<pipeline, charging, total, truncated>>

CleanCrash ==
    /\ "crash" \in Faults
    /\ clean # "off"
    /\ clean' = "off"
    /\ UNCHANGED <<pipeline, charging, paused, reset, total, truncated>>

-----------------------------------------------------------------------------
Next ==
    \/ \E n \in Nodes, u \in Users : Traffic(n, u)
    \/ \E n \in Nodes :
          \/ CountersLost(n) \/ ReadStats(n) \/ AddToHash(n) \/ AddPush(n) \/ RecordEnds(n)
          \/ \E j \in Jobs : AddCharge(n, j)
          \/ PushStart(n) \/ RenameFails(n) \/ PushDone(n) \/ PushAborts(n) \/ Expire(n)
          \/ \E S \in SUBSET Users : PushBatch(n, S)
    \/ \E j \in Jobs : \/ ChargeStart(j) \/ IncrementUsedTraffic(j) \/ IncrementFails(j)
                       \/ ChargeDone(j) \/ ChargeCrash(j)
    \/ ResetStart \/ ResetDrained \/ ResetGivesUp \/ ResetDone \/ ResetAborts
    \/ CleanStart \/ CleanTruncate \/ CleanDone \/ CleanCrash

Spec == Init /\ [][Next]_vars

\* Workers work and crons tick.  A queue is paused again and again, and is
\* unpaused for hours in between, and a reset is not interrupted every night:
\* what these disable again and again gets strong fairness.
Fairness ==
    /\ \A n \in Nodes :
          /\ WF_vars(ReadStats(n)) /\ WF_vars(AddToHash(n)) /\ WF_vars(AddPush(n))
          /\ WF_vars(\E j \in Jobs : AddCharge(n, j))
          /\ SF_vars(PushStart(n)) /\ WF_vars(PushDone(n))
          /\ WF_vars(\E S \in SUBSET Users : PushBatch(n, S))
    /\ \A j \in Jobs :
          /\ SF_vars(ChargeStart(j)) /\ WF_vars(IncrementUsedTraffic(j))
          /\ WF_vars(ChargeDone(j))
    /\ WF_vars(ResetStart) /\ SF_vars(ResetDrained \/ ResetGivesUp) /\ SF_vars(ResetDone)

FairSpec == Spec /\ Fairness
-----------------------------------------------------------------------------
(* Properties.                                                               *)

\* Bytes of a user of a node that the pipeline still carries to the history.
UnderWay(n, u) ==
    counter[n][u] + (IF record[n].pc = "read" THEN record[n].bytes[u] ELSE 0)
    + hash[n][u] + push[n].bytes[u]

(* The history is a ledger of the traffic of each user through each node     *)
(* (record-user-usage.processor, push-from-redis.processor): however         *)
(* recording, moving, failures, re-runs and the truncation interleave, no    *)
(* byte is recorded twice, and none is missing but of the users in lost.     *)
HistoryLedger ==
    INSTANCE UsageLedger WITH
        Keys     <- Nodes \X Users,
        pending  <- [k \in Nodes \X Users |-> UnderWay(k[1], k[2])],
        recorded <- [k \in Nodes \X Users |-> history[k[1]][k[2]]],
        suspect  <- lost

HistoryLedgerSpec == HistoryLedger!Spec

\* The account of one user of one node balances unless bytes were lost.
HistoryExact ==
    \A n \in Nodes, u \in Users :
       /\ history[n][u] + truncated[n][u] + UnderWay(n, u) <= total[n][u]
       /\ <<n, u>> \notin lost =>
             history[n][u] + truncated[n][u] + UnderWay(n, u) = total[n][u]

\* What a user is still to be charged for: on the nodes, in a recording job, in
\* a charging job that was not applied.
OnNode(n, u) ==
    Multiplier[n] *
      (counter[n][u] + IF record[n].pc \in {"read", "hashed"} THEN record[n].bytes[u] ELSE 0)
InJob(j, u)  == IF charge[j].applied THEN 0 ELSE charge[j].bytes[u]
Uncharged(u) == SumFunction([n \in Nodes |-> OnNode(n, u)])
                + SumFunction([j \in Jobs |-> InJob(j, u)])

Owed(u) == SumFunction([n \in Nodes |-> Multiplier[n] * total[n][u]])

(* A user's lifetime traffic is what the nodes counted times their           *)
(* multipliers (update-users-usage.processor): nobody is charged for more    *)
(* than that unless a charging job died after its statement and was run      *)
(* again, nor for less unless a call on the way failed.                      *)
ChargedOnce ==
    \A u \in Users \ doubled :
       /\ used[u] + Uncharged(u) <= Owed(u)
       /\ u \notin unbilled => used[u] + Uncharged(u) = Owed(u)

(* The reset has the queues it drained to itself (throttle-queue.util.ts)    *)
(* unless the truncation resumed one of them in the meantime.                *)
ResetAlone ==
    (reset.pc = "run" /\ reset.drained /\ ~reset.intruded) => ~Busy

(* The hash of a node is moved, or expires, even if the queue is paused      *)
(* again and again; only a stranded one waits for its node.                  *)
Flushed ==
    \A n \in Nodes : hash[n] # Zero ~> (hash[n] = Zero \/ n \in stranded)

(* No queue stays paused for ever, whatever job died while it had it paused. *)
QueuesResume == []<>(paused = {})
=============================================================================
