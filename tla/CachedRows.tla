----------------------------- MODULE CachedRows -----------------------------
(***************************************************************************)
(* The cache in front of rows that every request needs.                    *)
(*                                                                         *)
(* A row is cached twice: in Redis, for all processes, and in the memory   *)
(* of each process (raw-cache.service.ts, memory-cache.service.ts).  Both  *)
(* copies expire.  A process that changes the row deletes the copy in      *)
(* Redis and its own, and publishes the key; the others forget theirs when *)
(* the message comes.  A process that has lost its subscription gets no    *)
(* message, and forgets everything when it is back.                        *)
(*                                                                         *)
(* A behaviour follows one row, which is of one of these kinds:            *)
(*   "settings"  the settings of subscriptions, or a template              *)
(*   "panel"     the settings of the panel, which are not kept in memory   *)
(*   "token"     an API token, which is deleted at most once               *)
(*   "squad"     the settings of an external squad                         *)
(*   "name"      the template name of a squad; that there is none is       *)
(*               cached as well                                            *)
(***************************************************************************)
EXTENDS Naturals, FiniteSets

CONSTANTS
    Procs,         \* processes
    Kinds,         \* the kinds that are looked at
    None,          \* no row, or nothing cached
    Empty,         \* cached: there is no row
    MaxVersion,    \* bound: how often the row changes
    Faults         \* bound: what may fail.  "crash": a writer dies or loses Redis;
                   \* "offline": a subscription is lost

ASSUME ProcsAssumption   == IsFiniteSet(Procs)
ASSUME KindsAssumption   == Kinds \subseteq {"settings", "panel", "token", "squad", "name"}
ASSUME NoneAssumption    == None \notin Nat /\ Empty \notin Nat /\ None # Empty
ASSUME VersionAssumption == MaxVersion \in Nat
ASSUME FaultsAssumption  == Faults \subseteq {"crash", "offline"}

VARIABLES
    kind,
    db,            \* the row in the database
    redis,         \* the copy in Redis
    memory,        \* [Procs -> the copy in memory]
    reader,        \* [Procs -> a read on its way]
    writer,        \* [Procs -> a write on its way]
    message,       \* [Procs -> messages with the key on their way]
    online,        \* processes whose subscription is alive
    version,       \* how often the row was changed
    reason         \* why a copy may be old

vars == <<kind, db, redis, memory, reader, writer, message, online, version, reason>>

Rows   == 0..MaxVersion \cup {None}
Copies == Rows \cup {Empty}

Reader == [pc: {"idle", "fill", "missed", "set"}, copy: Copies]
Writer == [pc: {"idle", "row", "redis", "tell"}, first: {"row", "redis"}, row: Rows]
Idle   == [pc |-> "idle", copy |-> None]
NoWriter == [pc |-> "idle", first |-> "row", row |-> None]

InMemory == kind # "panel"

\* What is cached for a row.
Copy(r)  == IF r = None /\ kind = "name" THEN Empty ELSE r
Fresh(c) == c \in {None, Copy(db)}

TypeOK ==
    /\ kind \in Kinds
    /\ db \in Rows
    /\ redis \in Copies
    /\ memory \in [Procs -> Copies]
    /\ reader \in [Procs -> Reader]
    /\ writer \in [Procs -> Writer]
    /\ message \in [Procs -> 0..MaxVersion]
    /\ online \subseteq Procs
    /\ version \in 0..MaxVersion
    /\ reason \subseteq {"late", "before", "crash", "offline"}

Init ==
    /\ kind \in Kinds
    /\ db = 0
    /\ redis = None
    /\ memory = [p \in Procs |-> None]
    /\ reader = [p \in Procs |-> Idle]
    /\ writer = [p \in Procs |-> NoWriter]
    /\ message = [p \in Procs |-> 0]
    /\ online = Procs
    /\ version = 0
    /\ reason = {}

-----------------------------------------------------------------------------
(* Reading (the get-cached handlers, verifyApiToken).                        *)

\* get: a copy in memory is taken as it is; otherwise Redis is asked,
ReadRedis(p) ==
    /\ reader[p].pc = "idle" /\ memory[p] = None
    /\ reader' = [reader EXCEPT ![p] =
          IF redis = None THEN [Idle EXCEPT !.pc = "missed"]
          ELSE IF InMemory THEN [pc |-> "fill", copy |-> redis] ELSE Idle]
    /\ UNCHANGED <<kind, db, redis, memory, writer, message, online, version, reason>>

\* and the answer is kept, although the key may have been deleted meanwhile.
FillMemory(p) ==
    /\ reader[p].pc = "fill"
    /\ memory' = [memory EXCEPT ![p] = reader[p].copy]
    /\ reader' = [reader EXCEPT ![p] = Idle]
    /\ reason' = reason \cup {"late" : c \in {reader[p].copy} \ {redis}}
    /\ UNCHANGED <<kind, db, redis, writer, message, online, version>>

\* Nothing is cached: the row is read
ReadRow(p) ==
    /\ reader[p].pc = "missed"
    /\ reader' = [reader EXCEPT ![p] =
          IF Copy(db) = None THEN Idle ELSE [pc |-> "set", copy |-> Copy(db)]]
    /\ UNCHANGED <<kind, db, redis, memory, writer, message, online, version, reason>>

\* and put into Redis.
SetRedis(p) ==
    /\ reader[p].pc = "set"
    /\ redis' = reader[p].copy
    /\ reader' = [reader EXCEPT ![p] = Idle]
    /\ reason' = reason \cup {"late" : c \in {reader[p].copy} \ {Copy(db)}}
    /\ UNCHANGED <<kind, db, memory, writer, message, online, version>>

-----------------------------------------------------------------------------
(* Writing.                                                                  *)

\* What a request makes of the row, and what it touches first: the templates of
\* a squad are replaced, and a squad is deleted, after the keys were; a token is
\* only ever deleted.
Writes ==
    CASE kind \in {"settings", "panel"} -> {[first |-> "row", row |-> version + 1]}
      [] kind = "token" -> {[first |-> "row", row |-> None]}
      [] kind = "squad" -> {[first |-> "row", row |-> version + 1], [first |-> "redis", row |-> None]}
      [] kind = "name"  -> {[first |-> "redis", row |-> r] : r \in {version + 1, None}}

\* The request reads the row.  A squad without a template of the type has no key
\* to delete for it.
Begin(p) ==
    /\ writer[p].pc = "idle" /\ version < MaxVersion
    /\ kind = "name" \/ db # None
    /\ \E w \in Writes :
          writer' = [writer EXCEPT ![p] = [first |-> w.first, row |-> w.row,
             pc |-> IF w.first = "redis" /\ db = None THEN "row" ELSE w.first]]
    /\ version' = version + 1
    /\ UNCHANGED <<kind, db, redis, memory, reader, message, online, reason>>

WriteRow(p) ==
    /\ writer[p].pc = "row"
    /\ db' = writer[p].row
    /\ writer' = [writer EXCEPT ![p] = IF @.first = "row" THEN [@ EXCEPT !.pc = "redis"]
                                       ELSE NoWriter]
    /\ reason' = reason \cup {"before" : w \in {"redis"} \cap {writer[p].first}}
    /\ UNCHANGED <<kind, redis, memory, reader, message, online, version>>

\* Mutant of DelRedis: only the copies in memory are deleted.
DelNothing(p) ==
    /\ writer[p].pc = "redis"
    /\ writer' = [writer EXCEPT ![p].pc = "tell"]
    /\ UNCHANGED <<kind, db, redis, memory, reader, message, online, version, reason>>

\* del
DelRedis(p) ==
    /\ writer[p].pc = "redis"
    /\ redis' = None
    /\ writer' = [writer EXCEPT ![p].pc = "tell"]
    /\ UNCHANGED <<kind, db, memory, reader, message, online, version, reason>>

\* and invalidate: here at once, elsewhere by message.
Invalidate(p) ==
    /\ writer[p].pc = "tell"
    /\ memory' = [memory EXCEPT ![p] = None]
    /\ message' = [q \in Procs |-> IF q \in online THEN message[q] + 1 ELSE message[q]]
    /\ writer' = [writer EXCEPT ![p] = IF @.first = "redis" THEN [@ EXCEPT !.pc = "row"]
                                       ELSE NoWriter]
    /\ UNCHANGED <<kind, db, redis, reader, online, version, reason>>

\* The process dies, or Redis fails it and the request ends with an error.
WriterFails(p) ==
    /\ "crash" \in Faults
    /\ writer[p].pc # "idle"
    /\ writer' = [writer EXCEPT ![p] = NoWriter]
    /\ reason' = reason \cup {"crash"}
    /\ UNCHANGED <<kind, db, redis, memory, reader, message, online, version>>

-----------------------------------------------------------------------------
(* Messages and time.                                                        *)

Forget(q) ==
    /\ message[q] > 0
    /\ message' = [message EXCEPT ![q] = @ - 1]
    /\ memory' = [memory EXCEPT ![q] = None]
    /\ UNCHANGED <<kind, db, redis, reader, writer, online, version, reason>>

GoOffline(q) ==
    /\ "offline" \in Faults
    /\ q \in online
    /\ online' = online \ {q}
    /\ message' = [message EXCEPT ![q] = 0]
    /\ UNCHANGED <<kind, db, redis, memory, reader, writer, version, reason>>

\* Mutant of GoOnline: what was cached while nobody listened is kept.
GoOnlineOld(q) ==
    /\ q \notin online
    /\ online' = online \cup {q}
    /\ UNCHANGED <<kind, db, redis, memory, reader, writer, message, version, reason>>

\* "ready" again: everything is forgotten.
GoOnline(q) ==
    /\ q \notin online
    /\ online' = online \cup {q}
    /\ memory' = [memory EXCEPT ![q] = None]
    /\ UNCHANGED <<kind, db, redis, reader, writer, message, version, reason>>

\* Mutant of ExpireRedis: Redis keeps the copies without a TTL.
ExpireRedisNever ==
    /\ FALSE
    /\ UNCHANGED vars

ExpireRedis ==
    /\ redis # None
    /\ redis' = None
    /\ UNCHANGED <<kind, db, memory, reader, writer, message, online, version, reason>>

ExpireMemory(p) ==
    /\ memory[p] # None
    /\ memory' = [memory EXCEPT ![p] = None]
    /\ UNCHANGED <<kind, db, redis, reader, writer, message, online, version, reason>>

-----------------------------------------------------------------------------
ReadStep(p)  == ReadRedis(p) \/ FillMemory(p) \/ ReadRow(p) \/ SetRedis(p)
WriteStep(p) == WriteRow(p) \/ DelRedis(p) \/ Invalidate(p)

Next ==
    \/ \E p \in Procs :
          \/ ReadStep(p) \/ Begin(p) \/ WriteStep(p) \/ WriterFails(p)
          \/ Forget(p) \/ GoOffline(p) \/ GoOnline(p) \/ ExpireMemory(p)
    \/ ExpireRedis

\* Requests that began go on, messages come, subscriptions come back (ioredis
\* reconnects), and every copy has a TTL.
Fairness ==
    /\ \A p \in Procs :
          /\ WF_vars(FillMemory(p) \/ ReadRow(p) \/ SetRedis(p)) /\ WF_vars(WriteStep(p))
          /\ WF_vars(Forget(p)) /\ WF_vars(GoOnline(p)) /\ WF_vars(ExpireMemory(p))
    /\ WF_vars(ExpireRedis)

Spec == Init /\ [][Next]_vars /\ Fairness

-----------------------------------------------------------------------------
(* Properties.                                                               *)

Writing == \E p \in Procs : writer[p].pc # "idle"

\* An old copy in Redis belongs to a change that is not finished, or a reader put
\* it there that had read the row before the change ("late"), or the keys were
\* deleted before the row was written, or the writer failed in between.
RedisFresh ==
    /\ TypeOK
    /\ Fresh(redis) \/ Writing \/ reason \cap {"late", "before", "crash"} # {}

\* An old copy in the memory of a process has its message on the way, or one of
\* these reasons, or the process is deaf at the moment.
MemoryFresh ==
    \A p \in Procs :
        \/ Fresh(memory[p]) \/ Writing \/ message[p] > 0 \/ p \notin online
        \/ reason \cap {"late", "before", "crash"} # {}

\* When the changes are over, whatever went wrong with them, every process serves
\* the row as it is from some time on: nothing renews an old copy for ever.
Converges == <>[](Fresh(redis) /\ \A p \in Procs : Fresh(memory[p]))
=============================================================================
