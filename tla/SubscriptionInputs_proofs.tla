---------------------- MODULE SubscriptionInputs_proofs ----------------------
(***************************************************************************)
(* Proofs about the two components a subscription request leans on:        *)
(* CachedRows, the rows it reads through Redis and the memory of the       *)
(* process, and HwidDevices, the check of the device that asks.  For any   *)
(* number of processes and changes of the row, an old copy always has      *)
(* somebody about to delete it, or one of the reasons that are named; for  *)
(* any number of devices, requests that run at the same time, limits and   *)
(* changes, subscriptions keep to the limit and a deleted device stays     *)
(* gone.                                                                   *)
(***************************************************************************)
EXTENDS CachedRows, HwidDevices, FiniteSetTheorems, TLAPS

-----------------------------------------------------------------------------
(* CachedRows: the inductive invariant *)

\* Why a copy may stay old although nobody is writing.
Excused == reason \cap {"late", "before", "crash"} # {}

\* Processes that will still publish the key, for the change they began.
Telling == {p \in Procs : \/ writer[p].pc \in {"redis", "tell"}
                          \/ writer[p].pc = "row" /\ writer[p].first = "row"}

\* No more messages than changes: those on their way and those to come.
Counted == \A q \in Procs : message[q] + Cardinality(Telling) <= version

\* TypeOK but for the number of messages, which Counted bounds.
Typed ==
    /\ kind \in Kinds /\ db \in Rows /\ redis \in Copies
    /\ memory \in [Procs -> Copies]
    /\ reader \in [Procs -> Reader]
    /\ writer \in [Procs -> Writer]
    /\ message \in [Procs -> Nat]
    /\ online \subseteq Procs
    /\ version \in 0..MaxVersion
    /\ reason \subseteq {"late", "before", "crash", "offline"}

\* A process that has written the row and is to delete the copy in Redis, or has
\* done so and is to publish the key.
Deleting   == \E p \in Procs : writer[p].first = "row" /\ writer[p].pc = "redis"
Publishing == \E p \in Procs : writer[p].first = "row" /\ writer[p].pc \in {"redis", "tell"}

RedisCovered == Fresh(redis) \/ Deleting \/ Excused

MemoryCovered ==
    \A p \in Procs :
        Fresh(memory[p]) \/ Publishing \/ message[p] > 0 \/ p \notin online \/ Excused

IInv == Typed /\ Counted /\ RedisCovered /\ MemoryCovered

-----------------------------------------------------------------------------
(* Types, and the number of messages *)

LEMMA RowsFacts ==
    /\ None \in Rows /\ None \in Copies /\ 0 \in Rows
    /\ \A r \in Rows : r \in Copies /\ Copy(r) \in Copies
BY VersionAssumption DEF Rows, Copies, Copy

LEMMA TellingFinite == IsFiniteSet(Telling) /\ Cardinality(Telling) \in Nat
<1>1. Telling \subseteq Procs
  BY DEF Telling
<1> QED BY <1>1, ProcsAssumption, FS_Subset, FS_CardinalityType

\* The type invariant follows.
LEMMA CountedTypes == Typed /\ Counted => TypeOK
<1> SUFFICES ASSUME Typed, Counted PROVE TypeOK
  OBVIOUS
<1>1. ASSUME NEW q \in Procs PROVE message[q] \in 0..MaxVersion
  <2>1. message[q] \in Nat /\ version \in 0..MaxVersion /\ message[q] + Cardinality(Telling) <= version
    BY DEF Typed, Counted
  <2> QED BY <2>1, TellingFinite, VersionAssumption
<1> QED BY <1>1 DEF Typed, TypeOK

LEMMA InitIInv == Init => IInv
<1> SUFFICES ASSUME Init PROVE IInv
  OBVIOUS
<1>1. Typed
  BY RowsFacts, VersionAssumption DEF Init, Typed, Reader, Writer, Idle, NoWriter
<1>2. Telling = {}
  BY DEF Init, Telling, NoWriter
<1>3. Counted
  BY <1>2, FS_EmptySet DEF Init, Counted
<1>4. RedisCovered /\ MemoryCovered
  BY DEF Init, RedisCovered, MemoryCovered, Fresh
<1> QED BY <1>1, <1>3, <1>4 DEF IInv

LEMMA WritesTypes ==
    ASSUME Typed, version < MaxVersion, NEW w \in Writes
    PROVE  w.first \in {"row", "redis"} /\ w.row \in Rows
<1>1. version + 1 \in Rows /\ None \in Rows
  BY VersionAssumption DEF Typed, Rows
<1>2. kind \in {"settings", "panel", "token", "squad", "name"}
  BY KindsAssumption DEF Typed
<1> QED BY <1>1, <1>2 DEF Writes

LEMMA TypedStep ==
    ASSUME Typed, [Next]_vars
    PROVE  Typed'
<1>1. CASE UNCHANGED vars
  BY <1>1 DEF vars, Typed
<1>2. ASSUME NEW p \in Procs, ReadStep(p) PROVE Typed'
  <2>0. reader[p] \in Reader /\ reader[p].copy \in Copies /\ Idle \in Reader
        /\ [Idle EXCEPT !.pc = "missed"] \in Reader
        /\ (\A c \in Copies : [pc |-> "fill", copy |-> c] \in Reader /\ [pc |-> "set", copy |-> c] \in Reader)
    BY RowsFacts DEF Typed, Reader, Idle
  <2>1. CASE ReadRedis(p)
    BY <2>0, <2>1 DEF Typed, ReadRedis
  <2>2. CASE FillMemory(p)
    BY <2>0, <2>2 DEF Typed, FillMemory
  <2>3. CASE ReadRow(p)
    BY <2>0, <2>3, RowsFacts DEF Typed, ReadRow
  <2>4. CASE SetRedis(p)
    BY <2>0, <2>4 DEF Typed, SetRedis
  <2> QED BY <1>2, <2>1, <2>2, <2>3, <2>4 DEF ReadStep
<1>3. ASSUME NEW p \in Procs, Begin(p) PROVE Typed'
  <2>1. PICK w \in Writes : writer' = [writer EXCEPT ![p] = [first |-> w.first, row |-> w.row,
             pc |-> IF w.first = "redis" /\ db = None THEN "row" ELSE w.first]]
    BY <1>3 DEF Begin
  <2>2. w.first \in {"row", "redis"} /\ w.row \in Rows
    BY <1>3, WritesTypes DEF Begin
  <2>3. [first |-> w.first, row |-> w.row,
         pc |-> IF w.first = "redis" /\ db = None THEN "row" ELSE w.first] \in Writer
    BY <2>2 DEF Writer
  <2>4. version' \in 0..MaxVersion
    BY <1>3, VersionAssumption DEF Begin, Typed
  <2> QED BY <1>3, <2>1, <2>3, <2>4 DEF Begin, Typed
<1>4. ASSUME NEW p \in Procs, WriteStep(p) \/ WriterFails(p) PROVE Typed'
  <2>0. /\ writer[p] \in Writer /\ writer[p].row \in Rows /\ NoWriter \in Writer
        /\ \A pc \in {"idle", "row", "redis", "tell"} : [writer[p] EXCEPT !.pc = pc] \in Writer
    BY RowsFacts DEF Typed, Writer, NoWriter
  <2>1. CASE WriteRow(p)
    BY <2>0, <2>1 DEF Typed, WriteRow
  <2>2. CASE DelRedis(p)
    BY <2>0, <2>2, RowsFacts DEF Typed, DelRedis
  <2>3. CASE Invalidate(p)
    BY <2>0, <2>3, RowsFacts DEF Typed, Invalidate
  <2>4. CASE WriterFails(p)
    BY <2>0, <2>4 DEF Typed, WriterFails
  <2> QED BY <1>4, <2>1, <2>2, <2>3, <2>4 DEF WriteStep
<1>5. ASSUME NEW p \in Procs, Forget(p) \/ GoOffline(p) \/ GoOnline(p) \/ ExpireMemory(p)
      PROVE  Typed'
  <2>1. CASE Forget(p)
    <3>1. message[p] - 1 \in Nat
      BY <2>1 DEF Typed, Forget
    <3> QED BY <2>1, <3>1, RowsFacts DEF Typed, Forget
  <2>2. CASE GoOffline(p)
    BY <2>2 DEF Typed, GoOffline
  <2>3. CASE GoOnline(p) \/ ExpireMemory(p)
    BY <2>3, RowsFacts DEF Typed, GoOnline, ExpireMemory
  <2> QED BY <1>5, <2>1, <2>2, <2>3
<1>6. CASE ExpireRedis
  BY <1>6, RowsFacts DEF Typed, ExpireRedis
<1> QED BY <1>1, <1>2, <1>3, <1>4, <1>5, <1>6 DEF Next

\* A step after which no more processes have to publish, and no more messages wait,
\* keeps the count.
LEMMA CountedKept ==
    ASSUME Typed, Typed', Counted, Telling' \subseteq Telling, version' = version,
           \A q \in Procs : message'[q] <= message[q]
    PROVE  Counted'
<1>1. Cardinality(Telling') \in Nat /\ Cardinality(Telling') <= Cardinality(Telling)
      /\ Cardinality(Telling) \in Nat
  BY TellingFinite, FS_Subset, FS_CardinalityType
<1>2. ASSUME NEW q \in Procs PROVE message'[q] + Cardinality(Telling') <= version'
  <2>1. message[q] \in Nat /\ message'[q] \in Nat /\ version \in Nat
        /\ message[q] + Cardinality(Telling) <= version
    BY VersionAssumption DEF Typed, Counted
  <2> QED BY <1>1, <2>1
<1> QED BY <1>2 DEF Counted

LEMMA CountedStep ==
    ASSUME Typed, Counted, [Next]_vars
    PROVE  Counted'
<1>0. Typed'
  BY TypedStep
<1>1. ASSUME UNCHANGED <<writer, version, message>> PROVE Counted'
  BY <1>1 DEF Counted, Telling
<1>2. ASSUME NEW p \in Procs, ReadStep(p) \/ GoOnline(p) \/ ExpireMemory(p)
      PROVE  Counted'
  BY <1>1, <1>2 DEF ReadStep, ReadRedis, FillMemory, ReadRow, SetRedis, GoOnline, ExpireMemory
<1>3. ASSUME NEW p \in Procs, Begin(p)
      PROVE  Counted'
  <2>1. Telling' \subseteq Telling \cup {p} /\ version' = version + 1 /\ message' = message
    BY <1>3 DEF Begin, Telling, Typed
  <2>2. Cardinality(Telling') \in Nat /\ Cardinality(Telling) \in Nat
        /\ Cardinality(Telling') <= Cardinality(Telling) + 1
    <3>1. IsFiniteSet(Telling \cup {p}) /\ Cardinality(Telling \cup {p}) <= Cardinality(Telling) + 1
          /\ Cardinality(Telling) \in Nat /\ Cardinality(Telling \cup {p}) \in Nat
      <4>1. IsFiniteSet(Telling) /\ Cardinality(Telling) \in Nat
        BY TellingFinite
      <4>2. IsFiniteSet(Telling \cup {p}) /\ Cardinality(Telling \cup {p}) =
               IF p \in Telling THEN Cardinality(Telling) ELSE Cardinality(Telling) + 1
        BY <4>1, FS_AddElement
      <4> QED BY <4>1, <4>2
    <3> QED BY <2>1, <3>1, FS_Subset, FS_CardinalityType
  <2>3. ASSUME NEW q \in Procs PROVE message'[q] + Cardinality(Telling') <= version'
    <3>1. message[q] \in Nat /\ version \in Nat /\ message[q] + Cardinality(Telling) <= version
      BY VersionAssumption DEF Typed, Counted
    <3> QED BY <2>1, <2>2, <3>1
  <2> QED BY <2>3 DEF Counted
<1>4. ASSUME NEW p \in Procs, WriteRow(p) \/ DelRedis(p) \/ WriterFails(p)
      PROVE  Counted'
  <2>1. Telling' \subseteq Telling /\ UNCHANGED <<version, message>>
    BY <1>4 DEF WriteRow, DelRedis, WriterFails, Telling, Typed, Writer, NoWriter
  <2> QED BY <1>0, <2>1, CountedKept DEF Typed
<1>5. ASSUME NEW p \in Procs, Invalidate(p)
      PROVE  Counted'
  <2>1. p \in Telling /\ Telling' \subseteq Telling \ {p} /\ version' = version
    BY <1>5 DEF Invalidate, Telling, Typed, Writer, NoWriter
  <2>2. Cardinality(Telling') \in Nat /\ Cardinality(Telling) \in Nat
        /\ Cardinality(Telling') + 1 <= Cardinality(Telling)
    <3>1. Cardinality(Telling \ {p}) = Cardinality(Telling) - 1
          /\ IsFiniteSet(Telling \ {p}) /\ Cardinality(Telling \ {p}) \in Nat
      BY <2>1, TellingFinite, FS_RemoveElement, FS_CardinalityType
    <3> QED BY <2>1, <3>1, TellingFinite, FS_Subset, FS_CardinalityType
  <2>3. ASSUME NEW q \in Procs PROVE message'[q] + Cardinality(Telling') <= version'
    <3>1. message[q] \in Nat /\ version \in Nat /\ message[q] + Cardinality(Telling) <= version
          /\ message'[q] \in {message[q], message[q] + 1}
      BY <1>5, VersionAssumption DEF Typed, Counted, Invalidate
    <3> QED BY <2>1, <2>2, <3>1
  <2> QED BY <2>3 DEF Counted
<1>6. ASSUME NEW p \in Procs, Forget(p) \/ GoOffline(p)
      PROVE  Counted'
  <2>1. UNCHANGED <<writer, version>> /\ \A q \in Procs : message'[q] <= message[q]
    BY <1>6 DEF Forget, GoOffline, Typed
  <2>2. Telling' \subseteq Telling
    BY <2>1 DEF Telling
  <2> QED BY <1>0, <2>1, <2>2, CountedKept
<1>7. CASE ExpireRedis \/ UNCHANGED vars
  BY <1>1, <1>7 DEF ExpireRedis, vars
<1> QED BY <1>2, <1>3, <1>4, <1>5, <1>6, <1>7 DEF Next, WriteStep

-----------------------------------------------------------------------------
(* Old copies *)

\* Nothing excuses less: reasons are only added.
LEMMA ExcusedStays ==
    ASSUME [Next]_vars, Excused
    PROVE  Excused'
BY DEF Excused, Next, vars, ReadStep, ReadRedis, FillMemory, ReadRow, SetRedis, Begin, WriteStep,
   WriteRow, DelRedis, Invalidate, WriterFails, Forget, GoOffline, GoOnline, ExpireMemory, ExpireRedis

LEMMA RedisStep ==
    ASSUME Typed, RedisCovered, [Next]_vars
    PROVE  RedisCovered'
<1>1. CASE Excused
  BY <1>1, ExcusedStays DEF RedisCovered
<1>2. CASE ~Excused
  <2>0. Fresh(redis) \/ Deleting
    BY <1>2 DEF RedisCovered
  <2>1. ASSUME UNCHANGED <<kind, db, redis, writer>> PROVE RedisCovered'
    BY <2>0, <2>1 DEF RedisCovered, Fresh, Copy, Deleting
  <2>2. ASSUME NEW p \in Procs, ReadStep(p) PROVE RedisCovered'
    <3>1. CASE SetRedis(p)
      BY <3>1 DEF SetRedis, RedisCovered, Fresh, Copy, Excused
    <3> QED BY <2>1, <2>2, <3>1 DEF ReadStep, ReadRedis, FillMemory, ReadRow
  <2>3. ASSUME NEW p \in Procs, Begin(p) PROVE RedisCovered'
    <3>1. Deleting => Deleting'
      BY <2>3 DEF Begin, Deleting, Typed
    <3> QED BY <2>0, <2>3, <3>1 DEF Begin, RedisCovered, Fresh, Copy
  <2>4. ASSUME NEW p \in Procs, WriteRow(p) PROVE RedisCovered'
    <3>1. CASE writer[p].first = "row"
      BY <2>4, <3>1 DEF WriteRow, Typed, Writer, RedisCovered, Deleting
    <3>2. CASE writer[p].first = "redis"
      BY <2>4, <3>2 DEF WriteRow, RedisCovered, Excused
    <3> QED BY <3>1, <3>2 DEF Typed, Writer
  <2>5. ASSUME NEW p \in Procs, DelRedis(p) \/ ExpireRedis PROVE RedisCovered'
    BY <2>5 DEF DelRedis, ExpireRedis, RedisCovered, Fresh
  <2>6. ASSUME NEW p \in Procs, Invalidate(p) PROVE RedisCovered'
    <3>1. Deleting => Deleting'
      BY <2>6 DEF Invalidate, Deleting, Typed
    <3> QED BY <2>0, <2>6, <3>1 DEF Invalidate, RedisCovered, Fresh, Copy
  <2>7. ASSUME NEW p \in Procs, WriterFails(p) PROVE RedisCovered'
    BY <2>7 DEF WriterFails, RedisCovered, Excused
  <2>8. ASSUME NEW p \in Procs, Forget(p) \/ GoOffline(p) \/ GoOnline(p) \/ ExpireMemory(p)
        PROVE  RedisCovered'
    BY <2>1, <2>8 DEF Forget, GoOffline, GoOnline, ExpireMemory
  <2>9. CASE ExpireRedis
    BY <2>9 DEF ExpireRedis, RedisCovered, Fresh
  <2> QED BY <2>1, <2>2, <2>3, <2>4, <2>5, <2>6, <2>7, <2>8, <2>9 DEF Next, WriteStep, vars
<1> QED BY <1>1, <1>2

LEMMA MemoryStep ==
    ASSUME Typed, Typed', RedisCovered, MemoryCovered, [Next]_vars
    PROVE  MemoryCovered'
<1>1. CASE Excused
  BY <1>1, ExcusedStays DEF MemoryCovered
<1>2. CASE ~Excused
  <2> SUFFICES ASSUME NEW q \in Procs
               PROVE  (Fresh(memory[q]) \/ Publishing \/ message[q] > 0 \/ q \notin online \/ Excused)'
    BY DEF MemoryCovered
  <2>0. Fresh(memory[q]) \/ Publishing \/ message[q] > 0 \/ q \notin online
    BY <1>2 DEF MemoryCovered
  <2>1. ASSUME UNCHANGED <<kind, db>>, Publishing => Publishing', memory'[q] \in {memory[q], None},
               message'[q] = message[q] \/ memory'[q] = None, q \in online \/ q \notin online'
        PROVE  Fresh(memory[q])' \/ Publishing' \/ message'[q] > 0 \/ q \notin online'
    BY <2>0, <2>1 DEF Fresh, Copy
  <2>2. ASSUME NEW p \in Procs, ReadStep(p)
        PROVE  (Fresh(memory[q]) \/ Publishing \/ message[q] > 0 \/ q \notin online \/ Excused)'
    <3>1. CASE FillMemory(p)
      <4>1. CASE q = p
        <5>1. "late" \in reason' \/ memory'[q] = redis
          BY <3>1, <4>1 DEF FillMemory, Typed
        <5>2. Fresh(redis) \/ Publishing
          BY <1>2 DEF RedisCovered, Deleting, Publishing
        <5> QED BY <3>1, <5>1, <5>2 DEF FillMemory, Excused, Fresh, Copy, Publishing
      <4>2. CASE q # p
        BY <2>1, <3>1, <4>2 DEF FillMemory, Publishing, Typed
      <4> QED BY <4>1, <4>2
    <3>2. CASE ReadRedis(p) \/ ReadRow(p) \/ SetRedis(p)
      BY <2>1, <3>2 DEF ReadRedis, ReadRow, SetRedis, Publishing
    <3> QED BY <2>2, <3>1, <3>2 DEF ReadStep
  <2>3. ASSUME NEW p \in Procs, Begin(p)
        PROVE  (Fresh(memory[q]) \/ Publishing \/ message[q] > 0 \/ q \notin online \/ Excused)'
    <3>1. Publishing => Publishing'
      BY <2>3 DEF Begin, Publishing, Typed
    <3> QED BY <2>1, <2>3, <3>1 DEF Begin
  <2>4. ASSUME NEW p \in Procs, WriteRow(p)
        PROVE  (Fresh(memory[q]) \/ Publishing \/ message[q] > 0 \/ q \notin online \/ Excused)'
    <3>1. CASE writer[p].first = "row"
      BY <2>4, <3>1 DEF WriteRow, Typed, Writer, Publishing
    <3>2. CASE writer[p].first = "redis"
      BY <2>4, <3>2 DEF WriteRow, Excused
    <3> QED BY <3>1, <3>2 DEF Typed, Writer
  <2>5. ASSUME NEW p \in Procs, DelRedis(p)
        PROVE  (Fresh(memory[q]) \/ Publishing \/ message[q] > 0 \/ q \notin online \/ Excused)'
    <3>1. Publishing => Publishing'
      BY <2>5 DEF DelRedis, Publishing, Typed, Writer
    <3> QED BY <2>1, <2>5, <3>1 DEF DelRedis
  <2>6. ASSUME NEW p \in Procs, Invalidate(p)
        PROVE  (Fresh(memory[q]) \/ Publishing \/ message[q] > 0 \/ q \notin online \/ Excused)'
    <3>1. CASE q = p
      BY <2>6, <3>1 DEF Invalidate, Typed, Fresh
    <3>2. CASE q \in online
      <4>1. message'[q] = message[q] + 1 /\ message[q] \in Nat
        BY <2>6, <3>2 DEF Invalidate, Typed
      <4> QED BY <4>1
    <3>3. CASE q \notin online
      BY <2>6, <3>3 DEF Invalidate
    <3> QED BY <3>1, <3>2, <3>3
  <2>7. ASSUME NEW p \in Procs, WriterFails(p)
        PROVE  (Fresh(memory[q]) \/ Publishing \/ message[q] > 0 \/ q \notin online \/ Excused)'
    BY <2>7 DEF WriterFails, Excused
  <2>8. ASSUME NEW p \in Procs, Forget(p) \/ GoOffline(p) \/ GoOnline(p) \/ ExpireMemory(p)
        PROVE  (Fresh(memory[q]) \/ Publishing \/ message[q] > 0 \/ q \notin online \/ Excused)'
    <3>1. CASE Forget(p) \/ ExpireMemory(p)
      BY <2>1, <3>1 DEF Forget, ExpireMemory, Typed, Publishing
    <3>2. CASE GoOffline(p)
      BY <2>1, <3>2 DEF GoOffline, Typed, Publishing
    <3>3. CASE GoOnline(p)
      BY <2>1, <3>3 DEF GoOnline, Typed, Publishing, Fresh
    <3> QED BY <2>8, <3>1, <3>2, <3>3
  <2>9. CASE ExpireRedis \/ UNCHANGED vars
    BY <2>1, <2>9 DEF ExpireRedis, vars, Publishing
  <2> QED BY <2>2, <2>3, <2>4, <2>5, <2>6, <2>7, <2>8, <2>9 DEF Next, WriteStep
<1> QED BY <1>1, <1>2

LEMMA NextIInv == IInv /\ [Next]_vars => IInv'
BY TypedStep, CountedStep, RedisStep, MemoryStep DEF IInv

\* An old copy in Redis is about to be deleted, or a late reader, keys deleted too
\* early or a failed writer account for it; and the messages on their way never
\* outnumber the changes.
THEOREM RedisCorrect == Spec => []RedisFresh
<1>1. IInv => RedisFresh
  BY CountedTypes DEF IInv, RedisCovered, RedisFresh, Deleting, Writing, Excused
<1> QED BY InitIInv, NextIInv, <1>1, PTL DEF Spec

\* The same of the copies in memory: the message is on its way, or the process does
\* not listen and forgets everything when it does again.
THEOREM MemoryCorrect == Spec => []MemoryFresh
<1>1. IInv => MemoryFresh
  BY DEF IInv, MemoryCovered, MemoryFresh, Publishing, Writing, Excused
<1> QED BY InitIInv, NextIInv, <1>1, PTL DEF Spec

-----------------------------------------------------------------------------
(* HwidDevices: the inductive invariant *)

\* A request that is under way is about a device.
Asked == \A c \in Callers : caller[c].pc # "idle" => caller[c].device \in Devices

\* At most one transaction holds the lock, and it is the one that is to create.
OneLock ==
    /\ locking = {} \/ \E c \in Callers : locking = {c}
    /\ \A c \in Callers : c \in locking <=> caller[c].pc = "insert"

\* While nothing else has put a device down and the limit is the one of the
\* start, every subscription knows the limit, and there is room for a device
\* when one is about to be created.
Room ==
    excuse = {} =>
      /\ enabled /\ limit # 0 => Cardinality(devices) <= DeviceLimit
      /\ \A c \in Callers :
           /\ caller[c].pc \in {"check", "lock", "insert"} => caller[c].room = DeviceLimit
           /\ caller[c].pc = "insert" => Cardinality(devices) < DeviceLimit

\* Nobody is still to write a device that is gone.
NobodyLeft == gone \cap devices = {} /\ \A d \in gone : Settled(d)

HwidIInv == HwidTypeOK /\ Asked /\ OneLock /\ Room /\ NobodyLeft

-----------------------------------------------------------------------------
\* The limit that holds is a number: the user's own, or that of the settings.
LEMMA LimitIsANumber ==
    ASSUME limit \in Limits
    PROVE  DeviceLimit \in Nat
BY LimitsAssumption, FallbackAssumption DEF DeviceLimit

\* Registered devices can be counted.
LEMMA DevicesFinite ==
    ASSUME NEW D \in SUBSET Devices
    PROVE  IsFiniteSet(D) /\ Cardinality(D) \in Nat
BY DevicesAssumption, FS_Subset, FS_CardinalityType

\* A lock nobody or one request holds is held by at most one.
LEMMA LockCount ==
    ASSUME NEW L, L = {} \/ \E c \in Callers : L = {c}
    PROVE  Cardinality(L) <= 1
BY FS_EmptySet, FS_Singleton

LEMMA InitHwidIInv == HwidInit => HwidIInv
<1> SUFFICES ASSUME HwidInit PROVE HwidIInv
  OBVIOUS
<1> USE DEF HwidInit
<1>1. HwidTypeOK
  BY BoundsAssumption, LockCount DEF HwidTypeOK, Caller, NoRequest
<1>2. Asked /\ OneLock
  BY DEF Asked, OneLock, NoRequest
<1>3. Room
  BY LimitIsANumber, FS_EmptySet DEF Room, NoRequest
<1>4. NobodyLeft
  BY DEF NobodyLeft
<1> QED BY <1>1, <1>2, <1>3, <1>4 DEF HwidIInv

-----------------------------------------------------------------------------
(* Each step keeps the invariant: its jobs, subscriptions, the API.          *)

LEMMA JobStep ==
    ASSUME HwidIInv, NEW d \in Devices, Upsert(d) \/ UpsertDone(d) \/ UpsertStalls(d)
    PROVE  HwidIInv'
<1>1. HwidTypeOK'
  BY DEF HwidIInv, HwidTypeOK, Upsert, UpsertDone, UpsertStalls
<1>2. Asked' /\ OneLock'
  BY DEF HwidIInv, Asked, OneLock, Upsert, UpsertDone, UpsertStalls
<1>3. Room'
  <2>1. CASE Upsert(d)
    <3>1. excuse' = {} => excuse = {} /\ devices' = devices
      BY <2>1 DEF Upsert
    <3> QED BY <2>1, <3>1 DEF HwidIInv, Room, Upsert, DeviceLimit
  <2>2. CASE UpsertDone(d) \/ UpsertStalls(d)
    BY <2>2 DEF HwidIInv, Room, UpsertDone, UpsertStalls, DeviceLimit
  <2> QED BY <2>1, <2>2
<1>4. NobodyLeft'
  BY DEF HwidIInv, HwidTypeOK, NobodyLeft, Settled, Upsert, UpsertDone, UpsertStalls
<1> QED BY <1>1, <1>2, <1>3, <1>4 DEF HwidIInv

LEMMA SubscribeStep ==
    ASSUME HwidIInv, NEW c \in Callers, NEW d \in Devices, Subscribe(c, d)
    PROVE  HwidIInv'
<1>1. DeviceLimit \in Nat
  BY LimitIsANumber DEF HwidIInv, HwidTypeOK
<1>2. HwidTypeOK'
  BY <1>1, BoundsAssumption DEF HwidIInv, HwidTypeOK, Caller, Subscribe, Request
<1>3. Asked' /\ OneLock'
  BY DEF HwidIInv, HwidTypeOK, Asked, OneLock, Subscribe, Request, NoRequest
<1>4. Room'
  BY DEF HwidIInv, HwidTypeOK, Room, Subscribe, DeviceLimit
<1>5. NobodyLeft'
  BY DEF HwidIInv, HwidTypeOK, NobodyLeft, Settled, Subscribe
<1> QED BY <1>2, <1>3, <1>4, <1>5 DEF HwidIInv

LEMMA CreateStep ==
    ASSUME HwidIInv, NEW c \in Callers, NEW d \in Devices, Create(c, d)
    PROVE  HwidIInv'
<1>1. DeviceLimit \in Nat
  BY LimitIsANumber DEF HwidIInv, HwidTypeOK
<1>2. HwidTypeOK'
  BY <1>1, BoundsAssumption DEF HwidIInv, HwidTypeOK, Caller, Create, Request
<1>3. Asked' /\ OneLock'
  BY DEF HwidIInv, HwidTypeOK, Asked, OneLock, Create, Request, NoRequest
<1>4. Room'
  BY DEF HwidIInv, HwidTypeOK, Room, Create, DeviceLimit
<1>5. NobodyLeft'
  BY DEF HwidIInv, HwidTypeOK, NobodyLeft, Settled, Create
<1> QED BY <1>2, <1>3, <1>4, <1>5 DEF HwidIInv

\* The steps of a request that has begun.
LEMMA CallerStepIInv ==
    ASSUME HwidIInv, NEW c \in Callers, CallerStep(c)
    PROVE  HwidIInv'
<1> USE DEF HwidIInv
<1>0. caller[c] \in Caller /\ (caller[c].pc # "idle" => caller[c].device \in Devices)
  BY DEF HwidTypeOK, Asked
<1>1. CASE CheckExists(c)
  <2>1. HwidTypeOK'
    BY <1>0, <1>1 DEF HwidTypeOK, Caller, CheckExists
  <2>2. Asked' /\ OneLock'
    BY <1>1 DEF HwidTypeOK, Asked, OneLock, CheckExists
  <2>3. Room'
    BY <1>1 DEF HwidTypeOK, Room, CheckExists, DeviceLimit
  <2>4. NobodyLeft'
    BY <1>1 DEF HwidTypeOK, NobodyLeft, Settled, CheckExists
  <2> QED BY <2>1, <2>2, <2>3, <2>4
<1>2. CASE ServeKnown(c)
  <2>1. HwidTypeOK'
    BY <1>0, <1>2 DEF HwidTypeOK, Caller, ServeKnown, NoRequest
  <2>2. Asked' /\ OneLock'
    BY <1>2 DEF HwidTypeOK, Asked, OneLock, ServeKnown, NoRequest
  <2>3. Room'
    BY <1>2 DEF HwidTypeOK, Room, ServeKnown, DeviceLimit, NoRequest
  <2>4. NobodyLeft'
    BY <1>2, DevicesAssumption DEF HwidTypeOK, NobodyLeft, Settled, ServeKnown, NoRequest
  <2> QED BY <2>1, <2>2, <2>3, <2>4
<1>3. CASE LockAndCount(c)
  <2>1. locking' = {} \/ locking' = {c}
    BY <1>3 DEF LockAndCount
  <2>2. HwidTypeOK'
    BY <1>0, <1>3, <2>1, LockCount DEF HwidTypeOK, Caller, LockAndCount, NoRequest
  <2>3. CASE Cardinality(devices) >= caller[c].room
    <3>1. caller' = [caller EXCEPT ![c] = NoRequest] /\ locking = {} /\ locking' = {}
          /\ UNCHANGED <<enabled, limit, devices, job, gone, excuse>>
      BY <1>3, <2>3 DEF LockAndCount
    <3>2. Asked' /\ OneLock'
      BY <3>1 DEF HwidTypeOK, Asked, OneLock, NoRequest
    <3>3. Room'
      BY <3>1 DEF HwidTypeOK, Room, DeviceLimit, NoRequest
    <3>4. NobodyLeft'
      BY <3>1, DevicesAssumption DEF HwidTypeOK, NobodyLeft, Settled, NoRequest
    <3> QED BY <2>2, <3>2, <3>3, <3>4
  <2>4. CASE ~(Cardinality(devices) >= caller[c].room)
    <3>1. caller' = [caller EXCEPT ![c].pc = "insert"] /\ caller[c].pc = "lock"
          /\ locking = {} /\ locking' = {c}
          /\ UNCHANGED <<enabled, limit, devices, job, gone, excuse>>
      BY <1>3, <2>4 DEF LockAndCount
    <3>2. \A x \in Callers :
             /\ caller'[x].device = caller[x].device
             /\ caller'[x].room = caller[x].room
             /\ caller'[x].pc = IF x = c THEN "insert" ELSE caller[x].pc
      BY <1>0, <3>1 DEF HwidTypeOK, Caller
    <3>3. Asked' /\ OneLock'
      BY <3>1, <3>2 DEF Asked, OneLock
    <3>4. Room'
      <4>1. Cardinality(devices) \in Nat /\ DeviceLimit \in Nat
        BY DevicesFinite, LimitIsANumber DEF HwidTypeOK
      <4>2. excuse = {} => Cardinality(devices) < DeviceLimit
        BY <2>4, <3>1, <4>1 DEF Room
      <4> QED BY <3>1, <3>2, <4>2 DEF Room, DeviceLimit
    <3>5. NobodyLeft'
      BY <3>1, <3>2 DEF NobodyLeft, Settled
    <3> QED BY <2>2, <3>3, <3>4, <3>5
  <2> QED BY <2>3, <2>4
<1>4. CASE Insert(c)
  <2>1. locking = {c} /\ locking' = {}
    BY <1>4 DEF OneLock, Insert
  <2>2. HwidTypeOK'
    BY <1>0, <1>4, <2>1, LockCount DEF HwidTypeOK, Caller, Insert, NoRequest
  <2>3. Asked' /\ OneLock'
    BY <1>4, <2>1 DEF HwidTypeOK, Asked, OneLock, Insert, NoRequest
  <2>4. Room'
    <3>1. /\ Cardinality(devices) \in Nat /\ DeviceLimit \in Nat
          /\ Cardinality(devices') = Cardinality(devices) \/
             Cardinality(devices') = Cardinality(devices) + 1
      BY <1>4, DevicesFinite, LimitIsANumber, FS_AddElement DEF HwidTypeOK, Insert
    <3>2. \A x \in Callers : caller'[x].pc # "insert"
      BY <1>4, <2>1 DEF HwidTypeOK, OneLock, Insert, NoRequest
    <3>3. ASSUME excuse' = {}, NEW x \in Callers,
                 caller'[x].pc \in {"check", "lock", "insert"}
          PROVE  caller'[x].room = DeviceLimit
      BY <1>4, <3>3 DEF HwidTypeOK, Room, Insert, NoRequest
    <3>4. excuse' = {} => Cardinality(devices') <= DeviceLimit
      BY <1>4, <3>1 DEF Room, Insert
    <3> QED BY <1>4, <3>2, <3>3, <3>4 DEF Room, Insert, DeviceLimit
  <2>5. NobodyLeft'
    BY <1>4, DevicesAssumption DEF HwidTypeOK, NobodyLeft, Settled, Insert, NoRequest
  <2> QED BY <2>2, <2>3, <2>4, <2>5
<1>5. CASE CreateCount(c)
  <2>1. HwidTypeOK'
    BY <1>0, <1>5 DEF HwidTypeOK, Caller, CreateCount, NoRequest
  <2>2. Asked' /\ OneLock'
    BY <1>5 DEF HwidTypeOK, Asked, OneLock, CreateCount, NoRequest
  <2>3. Room'
    BY <1>5 DEF HwidTypeOK, Room, CreateCount, DeviceLimit, NoRequest
  <2>4. NobodyLeft'
    BY <1>5, DevicesAssumption DEF HwidTypeOK, NobodyLeft, Settled, CreateCount, NoRequest
  <2> QED BY <2>1, <2>2, <2>3, <2>4
<1>6. CASE CreateInsert(c)
  <2>1. HwidTypeOK'
    BY <1>0, <1>6 DEF HwidTypeOK, Caller, CreateInsert, NoRequest
  <2>2. Asked' /\ OneLock'
    BY <1>6 DEF HwidTypeOK, Asked, OneLock, CreateInsert, NoRequest
  <2>3. Room'
    <3>1. excuse' = {} => excuse = {} /\ devices' = devices
      BY <1>6 DEF CreateInsert
    <3> QED BY <1>6, <3>1 DEF HwidTypeOK, Room, CreateInsert, DeviceLimit, NoRequest
  <2>4. NobodyLeft'
    BY <1>6, DevicesAssumption DEF HwidTypeOK, NobodyLeft, Settled, CreateInsert, NoRequest
  <2> QED BY <2>1, <2>2, <2>3, <2>4
<1> QED BY <1>1, <1>2, <1>3, <1>4, <1>5, <1>6 DEF CallerStep

LEMMA DeleteStep ==
    ASSUME HwidIInv, NEW D \in SUBSET Devices, Delete(D)
    PROVE  HwidIInv'
<1>1. HwidTypeOK'
  BY BoundsAssumption DEF HwidIInv, HwidTypeOK, Delete, Edit
<1>2. Asked' /\ OneLock'
  BY DEF HwidIInv, Asked, OneLock, Delete
<1>3. Room'
  <2>1. Cardinality(devices') <= Cardinality(devices)
    BY DevicesFinite, FS_Subset DEF HwidIInv, HwidTypeOK, Delete
  <2>2. Cardinality(devices) \in Nat /\ Cardinality(devices') \in Nat /\ DeviceLimit \in Nat
    BY <1>1, DevicesFinite, LimitIsANumber DEF HwidIInv, HwidTypeOK
  <2>3. DeviceLimit' = DeviceLimit /\ UNCHANGED <<enabled, limit, caller, excuse>>
    BY DEF Delete, DeviceLimit
  <2>4. Room
    BY DEF HwidIInv
  <2>5. ASSUME excuse = {}, NEW c \in Callers, caller[c].pc = "insert"
        PROVE  Cardinality(devices') < DeviceLimit
    BY <2>1, <2>2, <2>4, <2>5 DEF Room
  <2>6. ASSUME excuse = {}, enabled, limit # 0
        PROVE  Cardinality(devices') <= DeviceLimit
    BY <2>1, <2>2, <2>4, <2>6 DEF Room
  <2> QED BY <2>3, <2>4, <2>5, <2>6 DEF Room
<1>4. NobodyLeft'
  BY DEF HwidIInv, NobodyLeft, Settled, Delete
<1> QED BY <1>1, <1>2, <1>3, <1>4 DEF HwidIInv

LEMMA UpdateLimitStep ==
    ASSUME HwidIInv, NEW l \in Limits, NEW e \in BOOLEAN, UpdateLimit(l, e)
    PROVE  HwidIInv'
<1>1. HwidTypeOK'
  BY BoundsAssumption DEF HwidIInv, HwidTypeOK, UpdateLimit, Edit
<1>2. Asked' /\ OneLock'
  BY DEF HwidIInv, Asked, OneLock, UpdateLimit
<1>3. Room'
  BY DEF Room, UpdateLimit
<1>4. NobodyLeft'
  BY DEF HwidIInv, NobodyLeft, Settled, UpdateLimit
<1> QED BY <1>1, <1>2, <1>3, <1>4 DEF HwidIInv

LEMMA NextHwidIInv == HwidIInv /\ [HwidNext]_hwidVars => HwidIInv'
<1> SUFFICES ASSUME HwidIInv, [HwidNext]_hwidVars PROVE HwidIInv'
  OBVIOUS
<1>1. CASE UNCHANGED hwidVars
  BY <1>1 DEF HwidIInv, HwidTypeOK, Asked, OneLock, Room, NobodyLeft, Settled, DeviceLimit, hwidVars
<1>2. CASE \E c \in Callers : CallerStep(c) \/ \E d \in Devices : Subscribe(c, d) \/ Create(c, d)
  BY <1>2, CallerStepIInv, SubscribeStep, CreateStep
<1>3. CASE \E d \in Devices : Upsert(d) \/ UpsertDone(d) \/ UpsertStalls(d) \/ Delete({d})
  BY <1>3, JobStep, DeleteStep
<1>4. CASE Delete(Devices)
  BY <1>4, DeleteStep
<1>5. CASE \E l \in Limits, e \in BOOLEAN : UpdateLimit(l, e)
  BY <1>5, UpdateLimitStep
<1> QED BY <1>1, <1>2, <1>3, <1>4, <1>5 DEF HwidNext

\* What is kept by every step holds in every state.
LEMMA HwidInvariant == HwidSpec => []HwidIInv
BY InitHwidIInv, NextHwidIInv, PTL DEF HwidSpec

-----------------------------------------------------------------------------
\* The state of the devices, the requests and the jobs is always well formed, and
\* one transaction at a time holds the user's advisory lock.
THEOREM HwidTypeCorrect == HwidSpec => []HwidTypeOK
<1>1. HwidIInv => HwidTypeOK
  BY DEF HwidIInv
<1> QED BY <1>1, HwidInvariant, PTL

\* However many subscriptions come at the same time, checkHwidDeviceLimit and
\* createWithAdvisoryLock keep the user to the limit, unless the API, an upsert
\* job or a change of the limit interfered.
THEOREM LimitCorrect == HwidSpec => []WithinLimit
<1>1. HwidIInv => WithinLimit
  BY DEF HwidIInv, Room, WithinLimit
<1> QED BY <1>1, HwidInvariant, PTL

\* A device deleted through the API is not brought back by a request, a job or a
\* transaction that was already over with it.
THEOREM GoneCorrect == HwidSpec => []GoneStaysGone
<1>1. HwidIInv => GoneStaysGone
  BY DEF HwidIInv, NobodyLeft, GoneStaysGone
<1> QED BY <1>1, HwidInvariant, PTL

=============================================================================
