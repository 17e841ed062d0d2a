-------------------------- MODULE UserStatus_proofs --------------------------
(***************************************************************************)
(* Proofs about UserStatus, for any number of users, requests, instants,   *)
(* bytes and reset strategies: the type invariant, and that LIMITED and    *)
(* EXPIRED always have their reason.                                       *)
(***************************************************************************)
EXTENDS UserStatus, TLAPS

\* Reading a row leaves a well-formed request record and nothing else changed.
LEMMA BeginType ==
    ASSUME TypeOK, NEW r \in Requests, NEW u \in Rows,
           NEW op \in {"update", "status", "extend", "reset", "delete"},
           NEW st \in Live \cup {Keep}, NEW lim \in Bytes \cup {Keep},
           NEW exp \in Time \cup {Keep}, NEW strat \in Passes \cup {Keep},
           NEW enables \in BOOLEAN, NEW overlooks \in BOOLEAN,
           Begin(r, op, u, st, lim, exp, strat, enables, overlooks)
    PROVE  TypeOK'
<1>1. u \in Users /\ SeenOf(u) \in Seen
  BY DEF TypeOK, Rows, SeenOf, Seen
<1>2. [pc |-> "write", op |-> op, user |-> u, seen |-> SeenOf(u),
       status |-> st, limit |-> lim, expireAt |-> exp, strategy |-> strat,
       enables |-> enables, overlooks |-> overlooks] \in Writing
  BY <1>1 DEF Writing
<1>3. request' \in [Requests -> {Idle} \cup Writing]
  BY <1>2 DEF TypeOK, Begin
<1> QED BY <1>3 DEF TypeOK, Begin, rowVars

LEMMA DecidedStatusType ==
    ASSUME NEW u, NEW st, NEW lim, NEW exp
    PROVE  DecidedStatus(u, st, lim, exp) \in {"ACTIVE", "DISABLED", Keep}
BY DEF DecidedStatus

\* Each statement of the system preserves the types of the variables.
LEMMA RequestType ==
    ASSUME TypeOK, NEW r \in Requests, RequestStep(r)
    PROVE  TypeOK'
<1> USE BoundsAssumption, PassesAssumption
<1>1. CASE UpdateUser(r)
  <2>1. PICK u \in Rows, st \in {"ACTIVE", "DISABLED", Keep}, lim \in Bytes \cup {Keep},
             exp \in {t \in Time : t > now} \cup {Keep} :
          \E strat \in (Passes \ {strategy[u]}) \cup {Keep} :
            Begin(r, "update", u, DecidedStatus(u, st, lim, exp), lim, exp, strat,
                  st = "ACTIVE",
                  status[u] = "EXPIRED" /\ st = "DISABLED" /\ exp # Keep)
    BY <1>1 DEF UpdateUser
  <2>2. PICK strat \in (Passes \ {strategy[u]}) \cup {Keep} :
            Begin(r, "update", u, DecidedStatus(u, st, lim, exp), lim, exp, strat,
                  st = "ACTIVE",
                  status[u] = "EXPIRED" /\ st = "DISABLED" /\ exp # Keep)
    BY <2>1
  <2>3. DecidedStatus(u, st, lim, exp) \in Live \cup {Keep}
    BY DecidedStatusType DEF Live
  <2> QED BY <2>2, <2>3, BeginType
<1>2. CASE DisableUser(r)
  BY <1>2, BeginType DEF DisableUser, Live
<1>3. CASE EnableUser(r)
  BY <1>3, BeginType DEF EnableUser, Live
<1>4. CASE ExtendUserExpirationDate(r)
  <2>1. PICK u \in Rows, days \in Time \ {0} :
          /\ Later(expireAt[u], now) + days \in Time
          /\ Begin(r, "extend", u,
                 IF status[u] = "EXPIRED" THEN "ACTIVE" ELSE status[u],
                 Keep, Later(expireAt[u], now) + days, Keep, FALSE, FALSE)
    BY <1>4 DEF ExtendUserExpirationDate
  <2>2. (IF status[u] = "EXPIRED" THEN "ACTIVE" ELSE status[u]) \in Live \cup {Keep}
    BY DEF Rows, Live
  <2> QED BY <2>1, <2>2, BeginType
<1>5. CASE ResetUserTraffic(r)
  <2>1. PICK u \in Rows :
          Begin(r, "reset", u, IF status[u] = "LIMITED" THEN "ACTIVE" ELSE Keep,
                Keep, Keep, Keep, FALSE, FALSE)
    BY <1>5 DEF ResetUserTraffic
  <2>2. (IF status[u] = "LIMITED" THEN "ACTIVE" ELSE Keep) \in Live \cup {Keep}
    BY DEF Live
  <2> QED BY <2>1, <2>2, BeginType
<1>6. CASE DeleteUser(r)
  BY <1>6, BeginType DEF DeleteUser
<1>7. CASE Write(r)
  <2> DEFINE q == request[r]
             u == request[r].user
  <2>1. q \in Writing /\ u \in Users
    BY <1>7 DEF Write, TypeOK, Writing
  <2>2. /\ q.status \in Live \cup {Keep}
        /\ q.limit \in Bytes \cup {Keep}
        /\ q.expireAt \in Time \cup {Keep}
        /\ q.strategy \in Passes \cup {Keep}
    BY <2>1 DEF Writing
  <2>3. /\ status' \in [Users -> Status]
        /\ limit' \in [Users -> Bytes]
        /\ expireAt' \in [Users -> Time]
        /\ strategy' \in [Users -> Passes]
    BY <1>7, <2>1, <2>2 DEF Write, TypeOK, Choose, Status
  <2>4. used' \in [Users -> Bytes]
    BY <1>7, <2>1 DEF Write, TypeOK, Bytes
  <2>5. excuse' \in [Users -> Excuse]
    BY <1>7 DEF Write, TypeOK, Excused, Excuse
  <2>6. request' \in [Requests -> {Idle} \cup Writing]
    BY <1>7 DEF Write, Finish, TypeOK
  <2> QED BY <1>7, <2>3, <2>4, <2>5, <2>6 DEF Write, TypeOK
<1>8. CASE WriteDelete(r)
  BY <1>8 DEF WriteDelete, Delete, Finish, TypeOK, Status, Bytes, Time, Excuse
<1>9. CASE WriteFails(r)
  BY <1>9 DEF WriteFails, Finish, TypeOK, rowVars
<1> QED BY <1>1, <1>2, <1>3, <1>4, <1>5, <1>6, <1>7, <1>8, <1>9 DEF RequestStep

LEMMA CreateType ==
    ASSUME TypeOK, CreateUser
    PROVE  TypeOK'
<1>1. /\ status' \in [Users -> Status]
      /\ limit' \in [Users -> Bytes]
      /\ expireAt' \in [Users -> Time]
      /\ strategy' \in [Users -> Passes]
  BY DEF CreateUser, TypeOK, Status
<1>2. used' \in [Users -> Bytes]
  BY BoundsAssumption DEF CreateUser, TypeOK, Bytes
<1>3. excuse' \in [Users -> Excuse]
  BY DEF CreateUser, Excused, TypeOK, Excuse
<1> QED BY <1>1, <1>2, <1>3 DEF CreateUser, TypeOK

LEMMA ExtendType ==
    ASSUME TypeOK,
           BulkExtendExpirationDateByUserIds \/ BulkSyncExpiredUsersByUserIds
    PROVE  TypeOK'
<1>1. CASE BulkExtendExpirationDateByUserIds
  BY <1>1 DEF BulkExtendExpirationDateByUserIds, TypeOK, Rows
<1>2. CASE BulkSyncExpiredUsersByUserIds
  BY <1>2 DEF BulkSyncExpiredUsersByUserIds, TypeOK, Revived, Excused, Excuse,
              Status, Live
<1> QED BY <1>1, <1>2

LEMMA WatchdogType ==
    ASSUME TypeOK, Watchdog
    PROVE  TypeOK'
BY DEF Watchdog, UpdateExpiredUsers, UpdateExceededTrafficUsers, TypeOK, Status,
       Live

LEMMA AccountingType ==
    ASSUME TypeOK, Accounting
    PROVE  TypeOK'
<1>1. CASE UsageStart
  BY <1>1 DEF UsageStart, TypeOK, rowVars, Rows
<1>2. CASE BulkIncrementUsedTraffic
  <2>1. \A u \in Users : Smaller(used[u] + usage[u], MaxBytes) \in Bytes
    BY BoundsAssumption DEF TypeOK, Bytes, Smaller
  <2>2. NoUsage \in [Users -> Bytes]
    BY BoundsAssumption DEF NoUsage, Bytes
  <2> QED BY <1>2, <2>1, <2>2 DEF BulkIncrementUsedTraffic, TypeOK
<1> QED BY <1>1, <1>2 DEF Accounting

LEMMA ResetType ==
    ASSUME TypeOK, ResetStep
    PROVE  TypeOK'
<1> USE BoundsAssumption, PassesAssumption
<1>1. CASE ResetJobStart
  BY <1>1 DEF ResetJobStart, TypeOK, rowVars, ResetBusy
<1>2. CASE ResetSelect
  <2>1. reset \in ResetBusy
    BY <1>2 DEF ResetSelect, TypeOK, ResetIdle
  <2>2. reset' \in ResetBusy
    BY <1>2, <2>1 DEF ResetSelect, ResetBusy, Rows
  <2> QED BY <1>2, <2>2 DEF ResetSelect, TypeOK, rowVars
<1>3. CASE ResetBatch
  <2>1. reset \in ResetBusy
    BY <1>3 DEF ResetBatch, TypeOK, ResetIdle
  <2>2. reset' \in ResetBusy
    BY <1>3, <2>1 DEF ResetBatch, ResetBusy
  <2>3. used' \in [Users -> Bytes]
    BY <1>3 DEF ResetBatch, TypeOK, Bytes
  <2> QED BY <1>3, <2>2, <2>3 DEF ResetBatch, TypeOK
<1>4. CASE ResetBatchFails
  <2>1. reset \in ResetBusy
    BY <1>4 DEF ResetBatchFails, TypeOK, ResetIdle
  <2>2. reset' \in ResetBusy
    BY <1>4, <2>1 DEF ResetBatchFails, ResetBusy
  <2> QED BY <1>4, <2>2 DEF ResetBatchFails, TypeOK, rowVars
<1>5. CASE ResetLimitedUserTraffic
  <2>1. reset \in ResetBusy
    BY <1>5 DEF ResetLimitedUserTraffic, TypeOK, ResetIdle
  <2>2. reset' \in {ResetIdle} \cup ResetBusy
    <3>1. CASE reset.pass < reset.last
      <4>1. reset' = [reset EXCEPT !.pc = "select", !.pass = @ + 1]
        BY <1>5, <3>1 DEF ResetLimitedUserTraffic, NextPass
      <4>2. reset.pass + 1 \in Passes
        BY <2>1, <3>1 DEF ResetBusy, Passes
      <4> QED BY <2>1, <4>1, <4>2 DEF ResetBusy
    <3>2. CASE ~(reset.pass < reset.last)
      BY <1>5, <3>2 DEF ResetLimitedUserTraffic, NextPass
    <3> QED BY <3>1, <3>2
  <2>3. /\ status' \in [Users -> Status]
        /\ used' \in [Users -> Bytes]
        /\ excuse' \in [Users -> Excuse]
    BY <1>5 DEF ResetLimitedUserTraffic, TypeOK, Excused, Excuse, Bytes, Status, Live
  <2> QED BY <1>5, <2>2, <2>3 DEF ResetLimitedUserTraffic, TypeOK
<1> QED BY <1>1, <1>2, <1>3, <1>4, <1>5 DEF ResetStep

LEMMA SerialType ==
    ASSUME TypeOK, SerialStep
    PROVE  TypeOK'
<1> USE BoundsAssumption, PassesAssumption
<1> Rows \subseteq Users
  BY DEF Rows
<1>1. CASE BulkUpdateAllUsers
  BY <1>1 DEF BulkUpdateAllUsers, SerialStart, TypeOK, rowVars, SerialBusy, Live, Time
<1>2. CASE BulkAllExtendExpirationDate
  BY <1>2 DEF BulkAllExtendExpirationDate, SerialStart, TypeOK, rowVars, SerialBusy
<1>3. CASE BulkDeleteByStatus
  BY <1>3 DEF BulkDeleteByStatus, SerialStart, TypeOK, rowVars, SerialBusy, Time
<1>4. CASE SerialRange
  <2>1. serial \in SerialBusy
    BY <1>4 DEF SerialRange, TypeOK, SerialIdle
  <2>2. serial' \in SerialBusy
    BY <1>4, <2>1 DEF SerialRange, SerialBusy
  <2>3. PICK u \in serial.left :
        /\ expireAt[u] + serial.days \in Time
        /\ IF u \in Rows
           THEN /\ status' = [status EXCEPT ![u] = Choose(serial.status, @)]
                /\ limit' = [limit EXCEPT ![u] = Choose(serial.limit, @)]
                /\ expireAt' = [expireAt EXCEPT ![u] =
                                    Choose(serial.expireAt, @ + serial.days)]
                /\ strategy' = [strategy EXCEPT ![u] = Choose(serial.strategy, @)]
                /\ IF MovesUnderReset(u, serial.strategy)
                   THEN Excused({u}, "raced") ELSE UNCHANGED excuse
           ELSE UNCHANGED <<status, limit, expireAt, strategy, excuse>>
    BY <1>4 DEF SerialRange
  <2>4. /\ serial.status \in Live \cup {Keep}
        /\ serial.limit \in Bytes \cup {Keep}
        /\ serial.expireAt \in Time \cup {Keep}
        /\ serial.strategy \in Passes \cup {Keep}
        /\ u \in Users
    BY <2>1, <2>3 DEF SerialBusy
  <2>5. /\ status' \in [Users -> Status]
        /\ limit' \in [Users -> Bytes]
        /\ expireAt' \in [Users -> Time]
        /\ strategy' \in [Users -> Passes]
        /\ excuse' \in [Users -> Excuse]
    BY <2>3, <2>4 DEF TypeOK, Choose, Status, Excused, Excuse
  <2> QED BY <1>4, <2>2, <2>5 DEF SerialRange, TypeOK
<1>5. CASE SerialRangesEnd
  <2>1. serial \in SerialBusy
    BY <1>5 DEF SerialRangesEnd, TypeOK, SerialIdle
  <2>2. serial' \in SerialBusy
    BY <1>5, <2>1 DEF SerialRangesEnd, SerialBusy
  <2> QED BY <1>5, <2>2 DEF SerialRangesEnd, TypeOK, rowVars
<1>6. CASE SerialSyncLimited
  <2>1. serial \in SerialBusy
    BY <1>6 DEF SerialSyncLimited, TypeOK, SerialIdle
  <2>2. serial' \in SerialBusy
    BY <1>6, <2>1 DEF SerialSyncLimited, SerialBusy
  <2>3. status' \in [Users -> Status] /\ excuse' \in [Users -> Excuse]
    BY <1>6 DEF SerialSyncLimited, TypeOK, Excused, Excuse, Status, Live
  <2> QED BY <1>6, <2>2, <2>3 DEF SerialSyncLimited, TypeOK
<1>7. CASE SerialSyncExpired
  <2>1. status' \in [Users -> Status] /\ excuse' \in [Users -> Excuse]
    BY <1>7 DEF SerialSyncExpired, TypeOK, Excused, Excuse, Status, Live
  <2> QED BY <1>7, <2>1 DEF SerialSyncExpired, TypeOK
<1>8. CASE SerialDelete
  BY <1>8 DEF SerialDelete, Delete, TypeOK, rowVars, Status, Bytes, Time, Excuse
<1> QED BY <1>1, <1>2, <1>3, <1>4, <1>5, <1>6, <1>7, <1>8 DEF SerialStep

LEMMA InitType == Init => TypeOK
BY BoundsAssumption DEF Init, TypeOK, Status, Bytes, Time, Excuse

LEMMA NextType == TypeOK /\ [Next]_vars => TypeOK'
<1> SUFFICES ASSUME TypeOK, [Next]_vars PROVE TypeOK'
  OBVIOUS
<1>1. CASE Tick
  BY <1>1, BoundsAssumption DEF Tick, TypeOK, rowVars, Time
<1>2. CASE CreateUser
  BY <1>2, CreateType
<1>3. ASSUME NEW r \in Requests, RequestStep(r) PROVE TypeOK'
  BY <1>3, RequestType
<1>4. CASE BulkExtendExpirationDateByUserIds \/ BulkSyncExpiredUsersByUserIds
  BY <1>4, ExtendType
<1>5. CASE Watchdog
  BY <1>5, WatchdogType
<1>6. CASE Accounting
  BY <1>6, AccountingType
<1>7. CASE ResetStep
  BY <1>7, ResetType
<1>8. CASE SerialStep
  BY <1>8, SerialType
<1>9. CASE UNCHANGED vars
  BY <1>9 DEF vars, rowVars, TypeOK
<1> QED BY <1>1, <1>2, <1>3, <1>4, <1>5, <1>6, <1>7, <1>8, <1>9 DEF Next

\* The variables keep their types: in particular every statement the panel
\* issues leaves one of the four statuses in a live row.
THEOREM TypeCorrect == Spec => []TypeOK
BY InitType, NextType, PTL DEF Spec

-----------------------------------------------------------------------------
(* The inductive invariant *)

\* The invariant as the lemmas below conclude it.
Reasons == RequestOK /\ ResetOK /\ SerialOK /\ LimitedHasReason /\ ExpiredHasReason

\* A request keeps agreeing with what it read as long as only time passes.
LEMMA RequestFrame ==
    ASSUME TypeOK, TypeOK', RequestOK, request' = request, now' \in {now, now + 1}
    PROVE  RequestOK'
<1> SUFFICES ASSUME NEW r \in Requests, request[r] # Idle
             PROVE  LET q == request[r] IN
        /\ q.status # "EXPIRED"
        /\ q.status = "LIMITED" => q.seen.status = "LIMITED"
        /\ q.op # "delete" /\ q.seen.status = "LIMITED" /\ q.status \in {Keep, "LIMITED"} =>
                /\ q.op # "reset"
                /\ q.limit # Keep => q.limit > 0 /\ q.limit <= q.seen.limit
        /\ q.op # "delete" /\ q.seen.status = "EXPIRED" /\ q.status = Keep =>
                \/ q.expireAt = Keep
                \/ q.expireAt = q.seen.expireAt
                \/ q.expireAt <= now'
                \/ q.overlooks
        /\ q.seen.status = "DISABLED" /\ ~q.enables => q.status \in {Keep, "DISABLED"}
  BY DEF RequestOK
<1>1. request[r] \in Writing
  BY DEF TypeOK
<1>2. ASSUME request[r].expireAt # Keep, request[r].expireAt <= now
      PROVE  request[r].expireAt <= now'
  <2>1. request[r].expireAt \in Time
    BY <1>1, <1>2 DEF Writing
  <2> QED BY <1>2, <2>1, BoundsAssumption DEF TypeOK, Time
<1> QED BY <1>2 DEF RequestOK

\* The ids of a reset job stay good when rows come, go or are excused, but no
\* strategy changes silently.
LEMMA ResetFrame ==
    ASSUME TypeOK, ResetOK, reset' = reset,
           \A u \in Users :
              /\ status[u] # "NONE" => status'[u] # "NONE"
              /\ status[u] = "DELETED" => status'[u] = "DELETED"
              /\ status'[u] # "DELETED" /\ excuse'[u] = "none" =>
                    excuse[u] = "none" /\ (status[u] # "NONE" => strategy'[u] = strategy[u])
    PROVE  ResetOK'
<1> SUFFICES ASSUME reset.pc = "batch", NEW u \in reset.ids
             PROVE  /\ status'[u] # "NONE"
                    /\ status'[u] # "DELETED" /\ excuse'[u] = "none" => InPass(u)'
  BY DEF ResetOK
<1>1. u \in Users
  BY DEF TypeOK, ResetIdle, ResetBusy
<1> QED BY <1>1 DEF ResetOK, InPass

\* LIMITED keeps its reason in a step that turns nobody LIMITED, takes no reason
\* away and ends no job.
LEMMA LimitedFrame ==
    ASSUME LimitedHasReason,
           \A u \in Users : status'[u] = "LIMITED" =>
              /\ status[u] = "LIMITED"
              /\ OverLimit(u) => OverLimit(u)' \/ excuse'[u] # "none"
              /\ LimitedInTransit(u) => LimitedInTransit(u)' \/ excuse'[u] # "none"
              /\ excuse[u] # "none" => excuse'[u] # "none"
    PROVE  LimitedHasReason'
BY DEF LimitedHasReason

LEMMA ExpiredFrame ==
    ASSUME ExpiredHasReason,
           \A u \in Users : status'[u] = "EXPIRED" =>
              /\ status[u] = "EXPIRED"
              /\ expireAt[u] <= now =>
                    expireAt'[u] <= now' \/ ExpiredInTransit(u)' \/ excuse'[u] # "none"
              /\ ExpiredInTransit(u) => ExpiredInTransit(u)' \/ excuse'[u] # "none"
              /\ excuse[u] # "none" => excuse'[u] # "none"
    PROVE  ExpiredHasReason'
BY DEF ExpiredHasReason

\* Steps that change no row, no excuse and no job (the read step of a request,
\* its failure, the start of an accounting job) keep everything but RequestOK.
LEMMA RowsFrame ==
    ASSUME TypeOK, ResetOK, SerialOK, LimitedHasReason, ExpiredHasReason,
           UNCHANGED <<now, rowVars, extending, reset, serial, excuse>>
    PROVE  (ResetOK /\ SerialOK /\ LimitedHasReason /\ ExpiredHasReason)'
BY DEF ResetOK, SerialOK, LimitedHasReason, ExpiredHasReason, rowVars, InPass,
       OverLimit, LimitedInTransit, ExpiredInTransit

LEMMA InitInv == Init => StatusInv
BY InitType, KeepAssumption DEF Init, StatusInv, RequestOK, ResetOK, SerialOK,
   LimitedHasReason, ExpiredHasReason, ResetIdle, SerialIdle, Idle

\* What the read step of a request has to decide for RequestOK to hold.
LEMMA BeginInv ==
    ASSUME StatusInv, TypeOK', NEW r \in Requests, NEW u \in Rows,
           NEW op, NEW st, NEW lim, NEW exp, NEW strat,
           NEW enables \in BOOLEAN, NEW overlooks \in BOOLEAN,
           Begin(r, op, u, st, lim, exp, strat, enables, overlooks),
           st # "EXPIRED",
           st = "LIMITED" => status[u] = "LIMITED",
           op # "delete" /\ status[u] = "LIMITED" /\ st \in {Keep, "LIMITED"} =>
                op # "reset" /\ (lim # Keep => lim > 0 /\ lim <= limit[u]),
           op # "delete" /\ status[u] = "EXPIRED" /\ st = Keep =>
                exp = Keep \/ exp = expireAt[u] \/ exp <= now \/ overlooks,
           status[u] = "DISABLED" /\ ~enables => st \in {Keep, "DISABLED"}
    PROVE  Reasons'
<1> DEFINE q == [pc |-> "write", op |-> op, user |-> u, seen |-> SeenOf(u),
                 status |-> st, limit |-> lim, expireAt |-> exp, strategy |-> strat,
                 enables |-> enables, overlooks |-> overlooks]
<1>1. \A s \in Requests : request'[s] = IF s = r THEN q ELSE request[s]
  BY DEF Begin, StatusInv, TypeOK
<1>2. /\ q.op = op /\ q.status = st /\ q.limit = lim /\ q.expireAt = exp
      /\ q.overlooks = overlooks /\ q.enables = enables
      /\ q.seen.status = status[u] /\ q.seen.limit = limit[u]
      /\ q.seen.expireAt = expireAt[u]
  BY DEF SeenOf
<1>3. now' = now
  BY DEF Begin
<1> HIDE DEF q
<1>4. RequestOK'
  BY <1>1, <1>2, <1>3 DEF StatusInv, RequestOK
<1>5. (ResetOK /\ SerialOK /\ LimitedHasReason /\ ExpiredHasReason)'
  BY RowsFrame DEF StatusInv, Begin
<1> QED BY <1>4, <1>5 DEF Reasons

\* Removing a finished request keeps the others as they are.
LEMMA FinishInv ==
    ASSUME TypeOK, RequestOK, NEW r \in Requests, Finish(r), now' = now
    PROVE  RequestOK'
<1>1. \A s \in Requests : request'[s] = IF s = r THEN Idle ELSE request[s]
  BY DEF Finish, TypeOK
<1> QED BY <1>1 DEF RequestOK

LEMMA WriteInv ==
    ASSUME StatusInv, TypeOK', NEW r \in Requests, Write(r)
    PROVE  Reasons'
<1> DEFINE q == request[r]
           u == request[r].user
<1>1. /\ q \in Writing /\ u \in Users /\ u \in Rows /\ q.op # "delete"
      /\ q.seen \in Seen
  BY DEF Write, StatusInv, TypeOK, Writing
<1>2. /\ \A v \in Users : v # u => /\ status'[v] = status[v]
                                   /\ limit'[v] = limit[v]
                                   /\ used'[v] = used[v]
                                   /\ expireAt'[v] = expireAt[v]
                                   /\ strategy'[v] = strategy[v]
                                   /\ excuse'[v] = excuse[v]
      /\ status'[u] = Choose(q.status, status[u])
      /\ limit'[u] = Choose(q.limit, limit[u])
      /\ expireAt'[u] = Choose(q.expireAt, expireAt[u])
      /\ strategy'[u] = Choose(q.strategy, strategy[u])
      /\ used'[u] = IF q.op = "reset" THEN 0 ELSE used[u]
      /\ excuse[u] # "none" => excuse'[u] # "none"
  BY <1>1 DEF Write, StatusInv, TypeOK, Excused
<1>3. ASSUME excuse'[u] = "none"
      PROVE  ~Stale(r) /\ ~MovesUnderReset(u, q.strategy) /\ ~q.overlooks
  BY <1>1, <1>3 DEF Write, Excused
<1>4. UNCHANGED <<now, extending, reset, serial>>
  BY DEF Write
<1>5. RequestOK'
  BY <1>4, FinishInv DEF StatusInv, Write
<1>6. SerialOK'
  BY <1>4 DEF StatusInv, SerialOK
<1>7. /\ q.status \in Live \cup {Keep} /\ q.limit \in Bytes \cup {Keep}
      /\ q.strategy \in Passes \cup {Keep} /\ q.expireAt \in Time \cup {Keep}
  BY <1>1 DEF Writing
<1>8. ResetOK'
  <2>1. status[u] \in Live /\ status'[u] \in Live
    BY <1>1, <1>2, <1>7 DEF Rows, Choose
  <2>2. reset.pc = "batch" => reset # ResetIdle
    BY DEF ResetIdle
  <2>3. reset.pc = "batch" /\ excuse'[u] = "none" => strategy'[u] = strategy[u]
    BY <1>2, <1>3, <2>2 DEF MovesUnderReset, Choose
  <2> SUFFICES ASSUME reset.pc = "batch", NEW v \in reset.ids
               PROVE  /\ status'[v] # "NONE"
                      /\ status'[v] # "DELETED" /\ excuse'[v] = "none" => InPass(v)'
    BY <1>4 DEF ResetOK
  <2>4. v \in Users
    BY DEF StatusInv, TypeOK, ResetIdle, ResetBusy
  <2> QED BY <1>2, <1>4, <2>1, <2>3, <2>4 DEF StatusInv, ResetOK, InPass, Live
<1>9. LimitedHasReason'
  <2> SUFFICES ASSUME NEW v \in Users, status'[v] = "LIMITED", excuse'[v] = "none"
               PROVE  OverLimit(v)' \/ LimitedInTransit(v)'
    BY DEF LimitedHasReason
  <2>1. CASE v # u
    BY <2>1, <1>2, <1>4 DEF StatusInv, LimitedHasReason, OverLimit, LimitedInTransit, InPass
  <2>2. CASE v = u
    <3>1. q.seen = SeenOf(u) /\ ~MovesUnderReset(u, q.strategy)
      BY <1>3, <2>2 DEF Stale
    <3>2. q.seen.status = status[u] /\ q.seen.limit = limit[u]
      BY <3>1 DEF SeenOf
    <3>3. status[u] = "LIMITED" /\ q.status \in {Keep, "LIMITED"}
      BY <1>1, <1>2, <2>2, <3>2 DEF StatusInv, RequestOK, Choose, Writing, Idle
    <3>4. /\ q.op # "reset"
          /\ q.limit # Keep => q.limit > 0 /\ q.limit <= limit[u]
      BY <1>1, <3>2, <3>3 DEF StatusInv, RequestOK, Writing, Idle
    <3>5. OverLimit(u) \/ LimitedInTransit(u)
      BY <1>2, <2>2, <3>3 DEF StatusInv, LimitedHasReason
    <3>6. CASE OverLimit(u)
      <4>1. limit[u] \in Nat /\ used[u] \in Nat
        BY <1>1, BoundsAssumption DEF StatusInv, TypeOK, Bytes
      <4>2. used'[u] = used[u]
        BY <1>2, <3>4
      <4>3. limit'[u] # 0 /\ limit'[u] <= limit[u] /\ limit'[u] \in Nat
        BY <1>2, <1>7, <3>4, <3>6, <4>1, BoundsAssumption DEF Choose, OverLimit, Bytes
      <4> QED BY <3>6, <4>1, <4>2, <4>3, <2>2 DEF OverLimit
    <3>7. CASE LimitedInTransit(u)
      <4>1. reset.pc = "batch" => strategy'[u] = strategy[u]
        BY <1>2, <3>1 DEF MovesUnderReset, Choose, ResetIdle
      <4> QED BY <1>4, <2>2, <3>7, <4>1 DEF LimitedInTransit, InPass
    <3> QED BY <3>5, <3>6, <3>7
  <2> QED BY <2>1, <2>2
<1>10. ExpiredHasReason'
  <2> SUFFICES ASSUME NEW v \in Users, status'[v] = "EXPIRED", excuse'[v] = "none"
               PROVE  expireAt'[v] <= now' \/ ExpiredInTransit(v)'
    BY DEF ExpiredHasReason
  <2>1. CASE v # u
    BY <2>1, <1>2, <1>4 DEF StatusInv, ExpiredHasReason, ExpiredInTransit
  <2>2. CASE v = u
    <3>1. q.seen = SeenOf(u) /\ ~q.overlooks
      BY <1>3, <2>2 DEF Stale
    <3>2. q.seen.status = status[u] /\ q.seen.expireAt = expireAt[u]
      BY <3>1 DEF SeenOf
    <3>3. q # Idle
      BY <1>1 DEF Write
    <3>4. q.status = Keep /\ status[u] = "EXPIRED"
      BY <1>2, <2>2, <3>3 DEF StatusInv, RequestOK, Choose
    <3>5. \/ q.expireAt = Keep
          \/ q.expireAt = expireAt[u]
          \/ q.expireAt <= now
      BY <1>1, <3>1, <3>2, <3>3, <3>4 DEF StatusInv, RequestOK
    <3>6. expireAt[u] <= now \/ ExpiredInTransit(u)
      BY <1>1, <1>2, <2>2, <3>4 DEF StatusInv, ExpiredHasReason
    <3> QED BY <1>2, <1>4, <2>2, <3>5, <3>6 DEF Choose, ExpiredInTransit
  <2> QED BY <2>1, <2>2
<1> QED BY <1>5, <1>6, <1>8, <1>9, <1>10 DEF Reasons

\* Deleted rows leave nothing to account for.
LEMMA DeleteInv ==
    ASSUME StatusInv, NEW S \in SUBSET Users, Delete(S),
           UNCHANGED <<now, extending, reset>>,
           serial' = serial \/ serial.pc = "delete"
    PROVE  (ResetOK /\ LimitedHasReason /\ ExpiredHasReason)'
<1>1. \A u \in Users : u \in S => status'[u] = "DELETED"
  BY DEF Delete
<1>2. \A u \in Users : u \notin S => /\ status'[u] = status[u]
                                     /\ limit'[u] = limit[u]
                                     /\ used'[u] = used[u]
                                     /\ expireAt'[u] = expireAt[u]
                                     /\ strategy'[u] = strategy[u]
                                     /\ excuse'[u] = excuse[u]
  BY DEF Delete
<1>3. ResetOK'
  BY <1>1, <1>2, ResetFrame DEF StatusInv
<1>4. \A u \in Users : u \notin S => /\ OverLimit(u) => OverLimit(u)'
                                     /\ LimitedInTransit(u) => LimitedInTransit(u)'
                                     /\ ExpiredInTransit(u) => ExpiredInTransit(u)'
  BY <1>2 DEF OverLimit, LimitedInTransit, ExpiredInTransit, InPass
<1>5. LimitedHasReason'
  BY <1>1, <1>2, <1>4, LimitedFrame DEF StatusInv
<1>6. ExpiredHasReason'
  BY <1>1, <1>2, <1>4, ExpiredFrame DEF StatusInv
<1> QED BY <1>3, <1>5, <1>6

LEMMA RequestInv ==
    ASSUME StatusInv, TypeOK', NEW r \in Requests, RequestStep(r)
    PROVE  Reasons'
<1> Rows \subseteq Users
  BY DEF Rows
<1>1. CASE UpdateUser(r)
  <2>1. PICK u \in Rows, st \in {"ACTIVE", "DISABLED", Keep}, lim \in Bytes \cup {Keep},
             exp \in {t \in Time : t > now} \cup {Keep} :
          \E strat \in (Passes \ {strategy[u]}) \cup {Keep} :
            Begin(r, "update", u, DecidedStatus(u, st, lim, exp), lim, exp, strat,
                  st = "ACTIVE",
                  status[u] = "EXPIRED" /\ st = "DISABLED" /\ exp # Keep)
    BY <1>1 DEF UpdateUser
  <2>2. PICK strat \in (Passes \ {strategy[u]}) \cup {Keep} :
            Begin(r, "update", u, DecidedStatus(u, st, lim, exp), lim, exp, strat,
                  st = "ACTIVE",
                  status[u] = "EXPIRED" /\ st = "DISABLED" /\ exp # Keep)
    BY <2>1
  <2> DEFINE decided == DecidedStatus(u, st, lim, exp)
  <2>3. decided # "EXPIRED" /\ decided # "LIMITED"
    BY DecidedStatusType, KeepAssumption DEF Status, Live
  <2>4. ASSUME status[u] = "LIMITED", decided \in {Keep, "LIMITED"}, lim # Keep
        PROVE  lim > 0 /\ lim <= limit[u]
    <3>1. lim \in 0..MaxBytes /\ limit[u] \in 0..MaxBytes
      BY <2>4 DEF StatusInv, TypeOK, Bytes
    <3>2. ~(lim > limit[u] \/ lim = 0)
      BY <2>4, KeepAssumption DEF DecidedStatus, Status, Live
    <3> QED BY <3>1, <3>2, BoundsAssumption
  <2>5. ASSUME status[u] = "EXPIRED", decided = Keep
        PROVE  exp = Keep \/ exp = expireAt[u] \/ exp <= now
               \/ (status[u] = "EXPIRED" /\ st = "DISABLED" /\ exp # Keep)
    BY <2>5, KeepAssumption DEF DecidedStatus, Status, Live
  <2> DEFINE enables   == st = "ACTIVE"
             overlooks == status[u] = "EXPIRED" /\ st = "DISABLED" /\ exp # Keep
  <2>7. ASSUME status[u] = "DISABLED", ~enables
        PROVE  decided = Keep
    BY <2>7, KeepAssumption DEF DecidedStatus, Status, Live
  <2>6. /\ Begin(r, "update", u, decided, lim, exp, strat, enables, overlooks)
        /\ enables \in BOOLEAN /\ overlooks \in BOOLEAN
        /\ status[u] = "EXPIRED" /\ decided = Keep =>
                exp = Keep \/ exp = expireAt[u] \/ exp <= now \/ overlooks
    BY <2>2, <2>5
  <2> HIDE DEF decided, enables, overlooks
  <2> QED BY <2>3, <2>4, <2>6, <2>7, BeginInv
<1>2. CASE DisableUser(r)
  <2>1. PICK u \in Rows : Begin(r, "status", u, "DISABLED", Keep, Keep, Keep, FALSE, FALSE)
    BY <1>2 DEF DisableUser
  <2> DEFINE st == "DISABLED"
  <2>2. st \notin {"EXPIRED", "LIMITED", Keep} /\ st = "DISABLED"
    BY KeepAssumption DEF Status, Live
  <2>3. Begin(r, "status", u, st, Keep, Keep, Keep, FALSE, FALSE)
    BY <2>1
  <2> HIDE DEF st
  <2> QED BY <2>2, <2>3, BeginInv
<1>3. CASE EnableUser(r)
  <2>1. PICK u \in Rows : Begin(r, "status", u, "ACTIVE", Keep, Keep, Keep, TRUE, FALSE)
    BY <1>3 DEF EnableUser
  <2> DEFINE st == "ACTIVE"
  <2>2. st \notin {"EXPIRED", "LIMITED", Keep}
    BY KeepAssumption DEF Status, Live
  <2>3. Begin(r, "status", u, st, Keep, Keep, Keep, TRUE, FALSE)
    BY <2>1
  <2> HIDE DEF st
  <2> QED BY <2>2, <2>3, BeginInv
<1>4. CASE ExtendUserExpirationDate(r)
  <2>1. PICK u \in Rows, days \in Time \ {0} :
          Begin(r, "extend", u,
                IF status[u] = "EXPIRED" THEN "ACTIVE" ELSE status[u],
                Keep, Later(expireAt[u], now) + days, Keep, FALSE, FALSE)
    BY <1>4 DEF ExtendUserExpirationDate
  <2> DEFINE st == IF status[u] = "EXPIRED" THEN "ACTIVE" ELSE status[u]
  <2>2. /\ st # "EXPIRED" /\ st # Keep
        /\ st = "LIMITED" => status[u] = "LIMITED"
        /\ status[u] = "DISABLED" => st = "DISABLED"
    BY KeepAssumption DEF Rows, Status, Live
  <2> HIDE DEF st
  <2>3. Begin(r, "extend", u, st, Keep, Later(expireAt[u], now) + days, Keep, FALSE, FALSE)
    BY <2>1 DEF st
  <2> QED BY <2>2, <2>3, BeginInv
<1>5. CASE ResetUserTraffic(r)
  <2>1. PICK u \in Rows :
          Begin(r, "reset", u, IF status[u] = "LIMITED" THEN "ACTIVE" ELSE Keep,
                Keep, Keep, Keep, FALSE, FALSE)
    BY <1>5 DEF ResetUserTraffic
  <2> DEFINE st == IF status[u] = "LIMITED" THEN "ACTIVE" ELSE Keep
  <2>2. /\ st # "EXPIRED" /\ st # "LIMITED"
        /\ status[u] = "LIMITED" => st \notin {Keep, "LIMITED"}
        /\ status[u] = "DISABLED" => st = Keep
    BY KeepAssumption DEF Status, Live
  <2> HIDE DEF st
  <2>3. Begin(r, "reset", u, st, Keep, Keep, Keep, FALSE, FALSE)
    BY <2>1 DEF st
  <2> QED BY <2>2, <2>3, BeginInv
<1>6. CASE DeleteUser(r)
  BY <1>6, BeginInv, KeepAssumption DEF DeleteUser, Status, Live
<1>7. CASE Write(r)
  BY <1>7, WriteInv
<1>8. CASE WriteDelete(r)
  <2>1. RequestOK'
    BY <1>8, FinishInv DEF WriteDelete, StatusInv
  <2>2. SerialOK'
    BY <1>8 DEF WriteDelete, StatusInv, SerialOK
  <2>3. (ResetOK /\ LimitedHasReason /\ ExpiredHasReason)'
    BY <1>8, DeleteInv DEF WriteDelete
  <2> QED BY <2>1, <2>2, <2>3 DEF Reasons
<1>9. CASE WriteFails(r)
  <2>1. RequestOK'
    BY <1>9, FinishInv DEF WriteFails, StatusInv
  <2>2. (ResetOK /\ SerialOK /\ LimitedHasReason /\ ExpiredHasReason)'
    BY <1>9, RowsFrame DEF WriteFails, StatusInv
  <2> QED BY <2>1, <2>2 DEF Reasons
<1> QED BY <1>1, <1>2, <1>3, <1>4, <1>5, <1>6, <1>7, <1>8, <1>9 DEF RequestStep

LEMMA TickInv ==
    ASSUME StatusInv, TypeOK', Tick
    PROVE  Reasons'
<1>1. RequestOK'
  BY RequestFrame DEF Tick, StatusInv
<1>2. ResetOK'
  BY ResetFrame DEF Tick, StatusInv, rowVars
<1>3. SerialOK'
  BY DEF Tick, StatusInv, SerialOK
<1>4. LimitedHasReason'
  BY DEF Tick, StatusInv, rowVars, LimitedHasReason, OverLimit, LimitedInTransit, InPass
<1>5. \A u \in Users : expireAt[u] <= now => expireAt'[u] <= now'
  BY BoundsAssumption DEF Tick, rowVars, StatusInv, TypeOK, Time
<1>6. ExpiredHasReason'
  BY <1>5, ExpiredFrame DEF Tick, StatusInv, rowVars, ExpiredInTransit
<1> QED BY <1>1, <1>2, <1>3, <1>4, <1>6 DEF Reasons

\* An insert is excused when its status does not match its columns.
LEMMA CreateInv ==
    ASSUME StatusInv, TypeOK', CreateUser
    PROVE  Reasons'
<1>1. PICK u \in Users, st \in Live, lim \in Bytes, exp \in Time, strat \in Passes :
        /\ status[u] = "NONE"
        /\ status' = [status EXCEPT ![u] = st]
        /\ limit' = [limit EXCEPT ![u] = lim]
        /\ used' = [used EXCEPT ![u] = 0]
        /\ expireAt' = [expireAt EXCEPT ![u] = exp]
        /\ strategy' = [strategy EXCEPT ![u] = strat]
        /\ IF st = "LIMITED" \/ (st = "EXPIRED" /\ exp > now)
           THEN Excused({u}, "created") ELSE UNCHANGED excuse
        /\ UNCHANGED <<now, request, extending, usage, reset, serial>>
  BY DEF CreateUser
<1>2. \A v \in Users : v # u => /\ status'[v] = status[v]
                                /\ limit'[v] = limit[v]
                                /\ used'[v] = used[v]
                                /\ expireAt'[v] = expireAt[v]
                                /\ strategy'[v] = strategy[v]
                                /\ excuse'[v] = excuse[v]
  BY <1>1 DEF StatusInv, TypeOK, Excused
<1>3. /\ status'[u] = st /\ expireAt'[u] = exp
      /\ excuse[u] # "none" => excuse'[u] # "none"
      /\ st = "LIMITED" => excuse'[u] # "none"
      /\ st = "EXPIRED" /\ exp > now => excuse'[u] # "none"
  BY <1>1 DEF StatusInv, TypeOK, Excused
<1>4. RequestOK' /\ SerialOK'
  BY <1>1, RequestFrame DEF StatusInv, SerialOK
<1>5. ResetOK'
  BY <1>1, <1>2, <1>3, ResetFrame DEF StatusInv, Live
<1>6. LimitedHasReason'
  <2> SUFFICES ASSUME NEW v \in Users, status'[v] = "LIMITED", excuse'[v] = "none"
               PROVE  OverLimit(v)' \/ LimitedInTransit(v)'
    BY DEF LimitedHasReason
  <2> QED BY <1>1, <1>2, <1>3 DEF StatusInv, LimitedHasReason, OverLimit,
                                  LimitedInTransit, InPass
<1>7. ExpiredHasReason'
  <2> SUFFICES ASSUME NEW v \in Users, status'[v] = "EXPIRED", excuse'[v] = "none"
               PROVE  expireAt'[v] <= now' \/ ExpiredInTransit(v)'
    BY DEF ExpiredHasReason
  <2>1. ~(exp > now) => exp <= now
    BY BoundsAssumption DEF StatusInv, TypeOK, Time
  <2> QED BY <1>1, <1>2, <1>3, <2>1 DEF StatusInv, ExpiredHasReason, ExpiredInTransit
<1> QED BY <1>4, <1>5, <1>6, <1>7 DEF Reasons

\* Reviving the EXPIRED users with time left leaves those without.
LEMMA RevivedLeft ==
    ASSUME TypeOK, NEW S, NEW u \in S, u \in Users, status[u] = "EXPIRED", u \notin Revived(S)
    PROVE  expireAt[u] <= now
BY BoundsAssumption DEF TypeOK, Revived, Time

LEMMA ExtendInv ==
    ASSUME StatusInv, TypeOK',
           BulkExtendExpirationDateByUserIds \/ BulkSyncExpiredUsersByUserIds
    PROVE  Reasons'
<1>1. UNCHANGED <<now, request, reset, serial, limit, used, strategy>>
  BY DEF BulkExtendExpirationDateByUserIds, BulkSyncExpiredUsersByUserIds
<1>2. \A u \in Users : /\ status'[u] \in {status[u], "ACTIVE"}
                       /\ status[u] # "EXPIRED" => status'[u] = status[u]
                       /\ excuse[u] # "none" => excuse'[u] # "none"
  BY DEF BulkExtendExpirationDateByUserIds, BulkSyncExpiredUsersByUserIds, Revived,
         Excused, StatusInv, TypeOK
<1>3. RequestOK' /\ SerialOK'
  BY <1>1, RequestFrame DEF StatusInv, SerialOK
<1>4. ResetOK'
  BY <1>1, <1>2, ResetFrame DEF StatusInv
<1>5. LimitedHasReason'
  BY <1>1, <1>2, LimitedFrame DEF StatusInv, OverLimit, LimitedInTransit, InPass
<1>6. ExpiredHasReason'
  <2>1. CASE BulkExtendExpirationDateByUserIds
    <3>1. PICK S \in SUBSET Rows, days \in Time \ {0} :
            /\ expireAt' = [u \in Users |-> IF u \in S THEN expireAt[u] + days
                                                       ELSE expireAt[u]]
            /\ extending' = S
      BY <2>1 DEF BulkExtendExpirationDateByUserIds
    <3>2. extending = {} /\ UNCHANGED <<status, excuse>>
      BY <2>1 DEF BulkExtendExpirationDateByUserIds
    <3> QED BY <1>1, <3>1, <3>2 DEF StatusInv, ExpiredHasReason, ExpiredInTransit
  <2>2. CASE BulkSyncExpiredUsersByUserIds
    <3> SUFFICES ASSUME NEW u \in Users, status'[u] = "EXPIRED", excuse'[u] = "none"
                 PROVE  expireAt'[u] <= now' \/ ExpiredInTransit(u)'
      BY DEF ExpiredHasReason
    <3>1. /\ status[u] = "EXPIRED" /\ excuse[u] = "none" /\ expireAt' = expireAt
          /\ u \in extending => u \notin Revived(extending)
      BY <1>2, <2>2 DEF BulkSyncExpiredUsersByUserIds, Excused, StatusInv, TypeOK
    <3>2. u \in extending => expireAt[u] <= now
      BY <3>1, RevivedLeft DEF StatusInv
    <3> QED BY <1>1, <3>1, <3>2 DEF StatusInv, ExpiredHasReason, ExpiredInTransit
  <2> QED BY <2>1, <2>2
<1> QED BY <1>3, <1>4, <1>5, <1>6 DEF Reasons

\* The watchdog has its reason when it acts.
LEMMA WatchdogInv ==
    ASSUME StatusInv, TypeOK', Watchdog
    PROVE  Reasons'
<1>1. UNCHANGED <<now, request, extending, reset, serial, limit, used, expireAt,
                  strategy, excuse>>
  BY DEF Watchdog, UpdateExpiredUsers, UpdateExceededTrafficUsers
<1>2. \A u \in Users :
         \/ status'[u] = status[u]
         \/ status[u] \in Live /\ status'[u] = "EXPIRED" /\ expireAt[u] < now
         \/ status[u] \in Live /\ status'[u] = "LIMITED" /\ OverLimit(u)
  BY DEF Watchdog, UpdateExpiredUsers, UpdateExceededTrafficUsers, Live
<1>3. RequestOK' /\ SerialOK'
  BY <1>1, RequestFrame DEF StatusInv, SerialOK
<1>4. ResetOK'
  BY <1>1, <1>2, ResetFrame DEF StatusInv, Live
<1>5. LimitedHasReason'
  BY <1>1, <1>2 DEF StatusInv, LimitedHasReason, OverLimit, LimitedInTransit, InPass
<1>6. \A u \in Users : expireAt[u] < now => expireAt[u] <= now
  BY BoundsAssumption DEF StatusInv, TypeOK, Time
<1>7. ExpiredHasReason'
  BY <1>1, <1>2, <1>6 DEF StatusInv, ExpiredHasReason, ExpiredInTransit
<1> QED BY <1>3, <1>4, <1>5, <1>7 DEF Reasons

\* Counting traffic keeps an exceeded limit exceeded.
LEMMA AccountingInv ==
    ASSUME StatusInv, TypeOK', Accounting
    PROVE  Reasons'
<1>1. UNCHANGED <<now, request, extending, reset, serial, limit, status, expireAt,
                  strategy, excuse>>
  BY DEF Accounting, UsageStart, BulkIncrementUsedTraffic, rowVars
<1>2. RequestOK' /\ SerialOK'
  BY <1>1, RequestFrame DEF StatusInv, SerialOK
<1>3. ResetOK' /\ ExpiredHasReason'
  BY <1>1, ResetFrame, ExpiredFrame DEF StatusInv, ExpiredInTransit
<1>4. \A u \in Users : OverLimit(u) => OverLimit(u)'
  <2> SUFFICES ASSUME NEW u \in Users PROVE OverLimit(u) => OverLimit(u)'
    OBVIOUS
  <2>1. /\ limit[u] \in 0..MaxBytes /\ used[u] \in 0..MaxBytes
        /\ usage[u] \in 0..MaxBytes /\ MaxBytes \in Nat
    BY BoundsAssumption DEF StatusInv, TypeOK, Bytes
  <2>2. used'[u] = used[u] \/ used'[u] = Smaller(used[u] + usage[u], MaxBytes)
    BY DEF Accounting, UsageStart, BulkIncrementUsedTraffic, rowVars
  <2> QED BY <1>1, <2>1, <2>2 DEF OverLimit, Smaller
<1>5. LimitedHasReason'
  BY <1>1, <1>4, LimitedFrame DEF StatusInv, LimitedInTransit, InPass
<1> QED BY <1>2, <1>3, <1>5 DEF Reasons

\* The reset job takes the LIMITED users of its pass, or leaves them excused.
LEMMA ResetInv ==
    ASSUME StatusInv, TypeOK', ResetStep
    PROVE  Reasons'
<1>1. UNCHANGED <<now, request, extending, serial, limit, expireAt, strategy>>
  BY DEF ResetStep, ResetJobStart, ResetSelect, ResetBatch, ResetBatchFails,
         ResetLimitedUserTraffic, rowVars
<1>2. \A u \in Users :
         /\ status'[u] = status[u] \/ (status[u] = "LIMITED" /\ status'[u] = "ACTIVE")
         /\ excuse[u] # "none" => excuse'[u] # "none"
  <2>1. CASE ResetLimitedUserTraffic
    <3>1. \A u \in Users :
            status'[u] = status[u] \/ (status[u] = "LIMITED" /\ status'[u] = "ACTIVE")
      BY <2>1 DEF ResetLimitedUserTraffic
    <3>2. \A u \in Users : excuse[u] # "none" => excuse'[u] # "none"
      BY <2>1 DEF ResetLimitedUserTraffic, Excused
    <3> QED BY <3>1, <3>2
  <2>2. CASE ResetJobStart \/ ResetSelect \/ ResetBatch \/ ResetBatchFails
    <3>1. UNCHANGED <<status, excuse>>
      BY <2>2 DEF ResetJobStart, ResetSelect, ResetBatch, ResetBatchFails, rowVars
    <3> QED BY <3>1
  <2> QED BY <2>1, <2>2 DEF ResetStep
<1>3. RequestOK' /\ SerialOK'
  BY <1>1, RequestFrame DEF StatusInv, SerialOK
<1>4. ExpiredHasReason'
  BY <1>1, <1>2, ExpiredFrame DEF StatusInv, ExpiredInTransit
<1>5. ResetOK' /\ LimitedHasReason'
  <2>1. CASE ResetJobStart
    <3>1. reset'.pc = "select" /\ reset.pc = "idle"
      BY <2>1 DEF ResetJobStart, ResetIdle
    <3> QED BY <1>1, <2>1, <3>1 DEF ResetJobStart, rowVars, StatusInv, ResetOK,
                LimitedHasReason, OverLimit, LimitedInTransit
  <2>2. CASE ResetSelect
    <3>1. reset \in ResetBusy /\ reset.pc = "select"
      BY <2>2 DEF ResetSelect, StatusInv, TypeOK, ResetIdle
    <3>2. /\ reset'.pc = "batch" /\ reset'.pass = reset.pass /\ reset'.due = reset.due
          /\ reset'.ids = {u \in Rows : status[u] # "LIMITED" /\ InPass(u)}
      BY <2>2, <3>1 DEF ResetSelect, ResetBusy
    <3>3. UNCHANGED <<rowVars, excuse>>
      BY <2>2 DEF ResetSelect
    <3>4. ResetOK'
      BY <1>1, <3>2, <3>3 DEF ResetOK, Rows, Live, InPass, rowVars
    <3>5. LimitedHasReason'
      BY <1>1, <3>1, <3>2, <3>3 DEF StatusInv, LimitedHasReason, OverLimit,
         LimitedInTransit, InPass, rowVars
    <3> QED BY <3>4, <3>5
  <2>3. CASE ResetBatch
    <3>1. reset \in ResetBusy
      BY <2>3 DEF ResetBatch, StatusInv, TypeOK, ResetIdle
    <3>2. PICK B \in SUBSET reset.ids :
            /\ used' = [u \in Users |-> IF u \in B \cap Rows THEN 0 ELSE used[u]]
            /\ reset' = [reset EXCEPT !.ids = @ \ B]
      BY <2>3 DEF ResetBatch
    <3>3. /\ reset'.pc = reset.pc /\ reset'.pass = reset.pass /\ reset'.due = reset.due
          /\ reset'.ids = reset.ids \ B
      BY <3>1, <3>2 DEF ResetBusy
    <3>4. UNCHANGED <<status, excuse>> /\ reset.pc = "batch"
      BY <2>3 DEF ResetBatch
    <3>5. ResetOK'
      BY <1>1, <3>3, <3>4 DEF StatusInv, ResetOK, InPass
    <3>6. LimitedHasReason'
      <4> SUFFICES ASSUME NEW u \in Users, status[u] = "LIMITED", excuse[u] = "none"
                   PROVE  OverLimit(u)' \/ LimitedInTransit(u)'
        BY <3>4 DEF LimitedHasReason
      <4>1. u \in B => LimitedInTransit(u)'
        BY <1>1, <3>2, <3>3, <3>4 DEF StatusInv, ResetOK, LimitedInTransit, InPass
      <4>2. u \notin B => used'[u] = used[u]
        BY <3>2
      <4> QED BY <1>1, <3>3, <3>4, <4>1, <4>2 DEF StatusInv, LimitedHasReason, OverLimit,
                 LimitedInTransit, InPass
    <3> QED BY <3>5, <3>6
  <2>4. CASE ResetBatchFails
    <3>1. reset \in ResetBusy
      BY <2>4 DEF ResetBatchFails, StatusInv, TypeOK, ResetIdle
    <3>2. /\ reset'.pc = reset.pc /\ reset'.pass = reset.pass /\ reset'.due = reset.due
          /\ reset'.ids = {}
      BY <2>4, <3>1 DEF ResetBatchFails, ResetBusy
    <3>3. UNCHANGED <<rowVars, excuse>>
      BY <2>4 DEF ResetBatchFails
    <3> QED BY <1>1, <3>2, <3>3 DEF StatusInv, ResetOK, LimitedHasReason, OverLimit,
               LimitedInTransit, InPass, rowVars
  <2>5. CASE ResetLimitedUserTraffic
    <3> DEFINE L == {u \in Users : status[u] = "LIMITED" /\ InPass(u)}
    <3>1. reset'.pc # "batch"
      <4>1. reset \in ResetBusy
        BY <2>5 DEF ResetLimitedUserTraffic, StatusInv, TypeOK, ResetIdle
      <4> QED BY <2>5, <4>1 DEF ResetLimitedUserTraffic, NextPass, ResetBusy, ResetIdle
    <3>2. \A u \in Users : u \notin L => used'[u] = used[u] /\ status'[u] = status[u]
      BY <2>5 DEF ResetLimitedUserTraffic
    <3>3. \A u \in L : status'[u] = "ACTIVE" \/ excuse'[u] # "none"
      BY <2>5 DEF ResetLimitedUserTraffic, Excused, StatusInv, TypeOK
    <3>4. LimitedHasReason'
      <4> SUFFICES ASSUME NEW u \in Users, status'[u] = "LIMITED", excuse'[u] = "none"
                   PROVE  OverLimit(u)' \/ LimitedInTransit(u)'
        BY DEF LimitedHasReason
      <4>1. u \notin L
        BY <3>3
      <4>2. status[u] = "LIMITED" /\ used'[u] = used[u] /\ excuse[u] = "none"
        BY <1>2, <3>2, <4>1
      <4> QED BY <1>1, <4>1, <4>2 DEF StatusInv, LimitedHasReason, OverLimit,
                 LimitedInTransit
    <3> QED BY <3>1, <3>4 DEF ResetOK
  <2> QED BY <2>1, <2>2, <2>3, <2>4, <2>5 DEF ResetStep
<1> QED BY <1>3, <1>4, <1>5 DEF Reasons

\* A user the LIMITED synchronisation leaves alone is over the limit.
LEMMA UnlimitedLeft ==
    ASSUME NEW u \in Users, status[u] = "LIMITED", ~Unlimited(u)
    PROVE  OverLimit(u)
BY DEF Unlimited

\* The start of a bulk job promises the synchronisation its columns need.
LEMMA SerialStartInv ==
    ASSUME StatusInv, NEW pc \in {"ranges", "delete"}, NEW st, NEW lim, NEW exp,
           NEW strat, NEW days, SerialStart(pc, st, lim, exp, strat, days),
           pc = "ranges" => st \in {"ACTIVE", "DISABLED", Keep}
    PROVE  Reasons'
<1>1. UNCHANGED <<now, rowVars, request, extending, usage, reset, excuse>>
  BY DEF SerialStart
<1>2. serial.pc = "idle" /\ serial'.pc = pc /\ serial'.status = st
  BY DEF SerialStart, SerialIdle
<1>3. RequestOK'
  BY <1>1 DEF StatusInv, RequestOK
<1>4. ResetOK'
  BY <1>1 DEF StatusInv, ResetOK, rowVars, InPass
<1>5. SerialOK'
  BY <1>2 DEF SerialOK
<1>6. LimitedHasReason' /\ ExpiredHasReason'
  BY <1>1, <1>2 DEF StatusInv, LimitedHasReason, ExpiredHasReason, rowVars, OverLimit,
     LimitedInTransit, ExpiredInTransit, InPass
<1> QED BY <1>3, <1>4, <1>5, <1>6 DEF Reasons

\* Bulk updates write no LIMITED and no EXPIRED, and a changed limit or date is
\* followed by its synchronisation.
LEMMA SerialRangeInv ==
    ASSUME StatusInv, TypeOK', SerialRange
    PROVE  Reasons'
<1>1. serial \in SerialBusy /\ serial.pc = "ranges"
  BY DEF SerialRange, StatusInv, TypeOK, SerialIdle
<1>2. PICK u \in serial.left :
        /\ serial' = [serial EXCEPT !.left = @ \ {u}]
        /\ IF u \in Rows
           THEN /\ status' = [status EXCEPT ![u] = Choose(serial.status, @)]
                /\ limit' = [limit EXCEPT ![u] = Choose(serial.limit, @)]
                /\ expireAt' = [expireAt EXCEPT ![u] =
                                    Choose(serial.expireAt, @ + serial.days)]
                /\ strategy' = [strategy EXCEPT ![u] = Choose(serial.strategy, @)]
                /\ IF MovesUnderReset(u, serial.strategy)
                   THEN Excused({u}, "raced") ELSE UNCHANGED excuse
           ELSE UNCHANGED <<status, limit, expireAt, strategy, excuse>>
  BY DEF SerialRange
<1>3. UNCHANGED <<now, used, request, extending, usage, reset>>
  BY DEF SerialRange
<1>4. /\ serial'.pc = serial.pc /\ serial'.limit = serial.limit
      /\ serial'.expireAt = serial.expireAt /\ serial'.days = serial.days
      /\ serial'.status = serial.status
  BY <1>1, <1>2 DEF SerialBusy
<1>5. u \in Users /\ serial.status \in {"ACTIVE", "DISABLED", Keep} /\ serial.days \in Time
  BY <1>1, <1>2 DEF StatusInv, SerialOK, SerialBusy, SerialIdle
<1>6. \A v \in Users : excuse[v] # "none" => excuse'[v] # "none"
  BY <1>2 DEF Excused, StatusInv, TypeOK
<1>7. \A v \in Users : v # u \/ v \notin Rows =>
        /\ status'[v] = status[v] /\ limit'[v] = limit[v]
        /\ expireAt'[v] = expireAt[v] /\ strategy'[v] = strategy[v]
        /\ excuse'[v] = excuse[v]
  BY <1>2, <1>5 DEF Excused, StatusInv, TypeOK
<1>8. ASSUME u \in Rows
      PROVE  /\ status'[u] = Choose(serial.status, status[u])
             /\ limit'[u] = Choose(serial.limit, limit[u])
             /\ expireAt'[u] = Choose(serial.expireAt, expireAt[u] + serial.days)
             /\ strategy'[u] = Choose(serial.strategy, strategy[u])
             /\ excuse'[u] = "none" => ~MovesUnderReset(u, serial.strategy)
  BY <1>2, <1>5, <1>8 DEF Excused, StatusInv, TypeOK
<1>9. RequestOK' /\ SerialOK'
  BY <1>1, <1>2, <1>3, <1>4, <1>5, RequestFrame DEF StatusInv, SerialOK
<1>10. ASSUME u \in Rows, reset.pc = "batch", excuse'[u] = "none"
       PROVE  strategy'[u] = strategy[u]
  BY <1>8, <1>10 DEF MovesUnderReset, Choose, ResetIdle
<1>11. ResetOK'
  <2> SUFFICES ASSUME reset.pc = "batch", NEW v \in reset.ids
               PROVE  /\ status'[v] # "NONE"
                      /\ status'[v] # "DELETED" /\ excuse'[v] = "none" => InPass(v)'
    BY <1>3 DEF ResetOK
  <2>1. v \in Users
    BY DEF StatusInv, TypeOK, ResetIdle, ResetBusy
  <2>2. CASE v # u \/ v \notin Rows
    BY <1>3, <1>7, <2>1, <2>2 DEF StatusInv, ResetOK, InPass
  <2>3. CASE v = u /\ u \in Rows
    <3>1. status[u] \in Live /\ status'[u] \in Live
      BY <1>5, <1>8, <2>3 DEF Rows, Choose, Live
    <3> QED BY <1>3, <1>6, <1>10, <2>1, <2>3, <3>1 DEF StatusInv, ResetOK, InPass, Live
  <2> QED BY <2>2, <2>3
<1>12. LimitedHasReason'
  <2> SUFFICES ASSUME NEW v \in Users, status'[v] = "LIMITED", excuse'[v] = "none"
               PROVE  OverLimit(v)' \/ LimitedInTransit(v)'
    BY DEF LimitedHasReason
  <2>1. CASE v # u \/ v \notin Rows
    BY <1>3, <1>4, <1>7, <2>1 DEF StatusInv, LimitedHasReason, OverLimit,
       LimitedInTransit, InPass
  <2>2. CASE v = u /\ u \in Rows
    <3>1. status[u] = "LIMITED" /\ excuse[u] = "none"
      BY <1>5, <1>6, <1>8, <2>2 DEF Choose
    <3>2. CASE serial.limit # Keep
      BY <1>1, <1>4, <3>2 DEF LimitedInTransit
    <3>3. CASE serial.limit = Keep
      <4>1. limit'[u] = limit[u]
        BY <1>8, <2>2, <3>3 DEF Choose
      <4> QED BY <1>3, <1>4, <1>10, <2>2, <3>1, <4>1 DEF StatusInv, LimitedHasReason,
                 OverLimit, LimitedInTransit, InPass
    <3> QED BY <3>2, <3>3
  <2> QED BY <2>1, <2>2
<1>13. ExpiredHasReason'
  <2> SUFFICES ASSUME NEW v \in Users, status'[v] = "EXPIRED", excuse'[v] = "none"
               PROVE  expireAt'[v] <= now' \/ ExpiredInTransit(v)'
    BY DEF ExpiredHasReason
  <2>1. CASE v # u \/ v \notin Rows
    BY <1>3, <1>4, <1>7, <2>1 DEF StatusInv, ExpiredHasReason, ExpiredInTransit
  <2>2. CASE v = u /\ u \in Rows
    <3>1. status[u] = "EXPIRED" /\ excuse[u] = "none"
      BY <1>5, <1>6, <1>8, <2>2 DEF Choose
    <3>2. CASE serial.expireAt # Keep \/ serial.days # 0
      BY <1>1, <1>4, <3>2 DEF ExpiredInTransit
    <3>3. CASE serial.expireAt = Keep /\ serial.days = 0
      <4>1. expireAt[u] + 0 = expireAt[u]
        BY <1>5, BoundsAssumption DEF StatusInv, TypeOK, Time
      <4>2. expireAt'[u] = expireAt[u]
        BY <1>8, <2>2, <3>3, <4>1 DEF Choose
      <4> QED BY <1>3, <1>4, <2>2, <3>1, <4>2 DEF StatusInv, ExpiredHasReason,
                 ExpiredInTransit
    <3> QED BY <3>2, <3>3
  <2> QED BY <2>1, <2>2
<1> QED BY <1>9, <1>11, <1>12, <1>13 DEF Reasons

LEMMA SerialSyncLimitedInv ==
    ASSUME StatusInv, TypeOK', SerialSyncLimited
    PROVE  Reasons'
<1>1. serial \in SerialBusy /\ serial.pc = "syncLimited"
  BY DEF SerialSyncLimited, StatusInv, TypeOK, SerialIdle
<1>2. /\ serial'.pc = "syncExpired" /\ serial'.expireAt = serial.expireAt
      /\ serial'.days = serial.days /\ serial'.status = serial.status
  BY <1>1 DEF SerialSyncLimited, SerialBusy
<1>3. UNCHANGED <<now, limit, used, expireAt, strategy, request, extending, usage, reset>>
  BY DEF SerialSyncLimited
<1>4. \A u \in Users :
         /\ status'[u] = status[u] \/ (status[u] = "LIMITED" /\ status'[u] = "ACTIVE")
         /\ excuse[u] # "none" => excuse'[u] # "none"
  <2>1. \A u \in Users :
          status'[u] = status[u] \/ (status[u] = "LIMITED" /\ status'[u] = "ACTIVE")
    BY DEF SerialSyncLimited, Unlimited
  <2>2. \A u \in Users : excuse[u] # "none" => excuse'[u] # "none"
    BY DEF SerialSyncLimited, Excused
  <2> QED BY <2>1, <2>2
<1>5. serial # SerialIdle
  BY <1>1 DEF SerialIdle
<1>6. RequestOK' /\ SerialOK'
  BY <1>1, <1>2, <1>3, <1>5, RequestFrame DEF StatusInv, SerialOK
<1>7. ResetOK'
  BY <1>3, <1>4, ResetFrame DEF StatusInv
<1>8. ExpiredHasReason'
  BY <1>1, <1>2, <1>3, <1>4, ExpiredFrame DEF StatusInv, ExpiredInTransit
<1>9. ASSUME NEW u \in Users, status'[u] = "LIMITED", excuse'[u] = "none",
             serial.limit # Keep
      PROVE  ~Unlimited(u)
  BY <1>4, <1>9 DEF SerialSyncLimited, Excused, StatusInv, TypeOK, Rows, Live
<1>10. LimitedHasReason'
  <2> SUFFICES ASSUME NEW u \in Users, status'[u] = "LIMITED", excuse'[u] = "none"
               PROVE  OverLimit(u)' \/ LimitedInTransit(u)'
    BY DEF LimitedHasReason
  <2>1. status[u] = "LIMITED" /\ excuse[u] = "none"
    BY <1>4
  <2>2. CASE serial.limit # Keep
    BY <1>3, <1>9, <2>1, <2>2, UnlimitedLeft DEF OverLimit
  <2>3. CASE serial.limit = Keep
    BY <1>3, <2>1, <2>3 DEF StatusInv, LimitedHasReason, OverLimit, LimitedInTransit, InPass
  <2> QED BY <2>2, <2>3
<1> QED BY <1>6, <1>7, <1>8, <1>10 DEF Reasons

LEMMA SerialSyncExpiredInv ==
    ASSUME StatusInv, TypeOK', SerialSyncExpired
    PROVE  Reasons'
<1>1. serial.pc = "syncExpired" /\ serial' = SerialIdle
  BY DEF SerialSyncExpired
<1>2. UNCHANGED <<now, limit, used, expireAt, strategy, request, extending, usage, reset>>
  BY DEF SerialSyncExpired
<1>3. \A u \in Users :
         /\ status'[u] = status[u] \/ (status[u] = "EXPIRED" /\ status'[u] = "ACTIVE")
         /\ excuse[u] # "none" => excuse'[u] # "none"
  <2>1. \A u \in Users :
          status'[u] = status[u] \/ (status[u] = "EXPIRED" /\ status'[u] = "ACTIVE")
    BY DEF SerialSyncExpired, Revived
  <2>2. \A u \in Users : excuse[u] # "none" => excuse'[u] # "none"
    BY DEF SerialSyncExpired, Excused
  <2> QED BY <2>1, <2>2
<1>4. RequestOK' /\ SerialOK'
  BY <1>1, <1>2, RequestFrame DEF StatusInv, SerialOK
<1>5. ResetOK'
  BY <1>2, <1>3, ResetFrame DEF StatusInv
<1>6. LimitedHasReason'
  BY <1>1, <1>2, <1>3, LimitedFrame DEF StatusInv, OverLimit, LimitedInTransit, InPass
<1>7. ExpiredHasReason'
  <2> SUFFICES ASSUME NEW u \in Users, status'[u] = "EXPIRED", excuse'[u] = "none"
               PROVE  expireAt'[u] <= now' \/ ExpiredInTransit(u)'
    BY DEF ExpiredHasReason
  <2>1. status[u] = "EXPIRED" /\ excuse[u] = "none"
    BY <1>3
  <2>2. CASE serial.expireAt = Keep /\ serial.days = 0
    BY <1>2, <2>1, <2>2 DEF StatusInv, ExpiredHasReason, ExpiredInTransit
  <2>3. CASE ~(serial.expireAt = Keep /\ serial.days = 0)
    <3>1. u \notin Revived(Users)
      BY <2>1, <2>3 DEF SerialSyncExpired, Excused, StatusInv, TypeOK, Rows, Live
    <3> QED BY <1>2, <2>1, <3>1, RevivedLeft DEF StatusInv
  <2> QED BY <2>2, <2>3
<1> QED BY <1>4, <1>5, <1>6, <1>7 DEF Reasons

LEMMA SerialInv ==
    ASSUME StatusInv, TypeOK', SerialStep
    PROVE  Reasons'
<1>1. CASE BulkUpdateAllUsers
  BY <1>1, SerialStartInv DEF BulkUpdateAllUsers
<1>2. CASE BulkAllExtendExpirationDate
  BY <1>2, SerialStartInv DEF BulkAllExtendExpirationDate
<1>3. CASE BulkDeleteByStatus
  BY <1>3, SerialStartInv DEF BulkDeleteByStatus
<1>4. CASE SerialRange
  BY <1>4, SerialRangeInv
<1>5. CASE SerialRangesEnd
  <2>1. serial \in SerialBusy /\ serial.pc = "ranges"
    BY <1>5 DEF SerialRangesEnd, StatusInv, TypeOK, SerialIdle
  <2>2. /\ serial'.pc = "syncLimited" /\ serial'.expireAt = serial.expireAt
        /\ serial'.days = serial.days /\ serial'.status = serial.status
        /\ serial'.limit = serial.limit
    BY <1>5, <2>1 DEF SerialRangesEnd, SerialBusy
  <2>3. UNCHANGED <<now, rowVars, request, extending, usage, reset, excuse>>
    BY <1>5 DEF SerialRangesEnd
  <2>4. serial # SerialIdle
    BY <2>1 DEF SerialIdle
  <2>5. RequestOK' /\ SerialOK'
    BY <2>1, <2>2, <2>3, <2>4, RequestFrame DEF StatusInv, SerialOK
  <2>6. ResetOK'
    BY <2>3 DEF StatusInv, ResetOK, rowVars, InPass
  <2>7. LimitedHasReason' /\ ExpiredHasReason'
    BY <2>1, <2>2, <2>3 DEF StatusInv, LimitedHasReason, ExpiredHasReason, rowVars,
       OverLimit, LimitedInTransit, ExpiredInTransit, InPass
  <2> QED BY <2>5, <2>6, <2>7 DEF Reasons
<1>6. CASE SerialSyncLimited
  BY <1>6, SerialSyncLimitedInv
<1>7. CASE SerialSyncExpired
  BY <1>7, SerialSyncExpiredInv
<1>8. CASE SerialDelete
  <2>1. /\ serial.pc = "delete" /\ serial' \in {serial, SerialIdle}
        /\ UNCHANGED <<now, request, extending, usage, reset>>
    BY <1>8 DEF SerialDelete
  <2>2. RequestOK' /\ SerialOK'
    BY <2>1, RequestFrame DEF StatusInv, SerialOK
  <2>3. CASE UNCHANGED <<rowVars, excuse>>
    <3>1. ResetOK'
      BY <2>1, <2>3 DEF StatusInv, ResetOK, rowVars, InPass
    <3>2. LimitedHasReason' /\ ExpiredHasReason'
      BY <2>1, <2>3 DEF StatusInv, LimitedHasReason, ExpiredHasReason, rowVars,
         OverLimit, LimitedInTransit, ExpiredInTransit, InPass
    <3> QED BY <2>2, <3>1, <3>2 DEF Reasons
  <2>4. ASSUME NEW C \in SUBSET {u \in Users : status[u] = serial.status}, Delete(C)
        PROVE  Reasons'
    BY <2>1, <2>2, <2>4, DeleteInv DEF Reasons
  <2> QED BY <1>8, <2>3, <2>4 DEF SerialDelete
<1> QED BY <1>1, <1>2, <1>3, <1>4, <1>5, <1>6, <1>7, <1>8 DEF SerialStep

LEMMA NextInv == StatusInv /\ [Next]_vars => StatusInv'
<1> SUFFICES ASSUME StatusInv, [Next]_vars PROVE StatusInv'
  OBVIOUS
<1>1. TypeOK'
  BY NextType DEF StatusInv
<1>2. CASE Tick
  BY <1>1, <1>2, TickInv DEF StatusInv, Reasons
<1>3. CASE CreateUser
  BY <1>1, <1>3, CreateInv DEF StatusInv, Reasons
<1>4. ASSUME NEW r \in Requests, RequestStep(r) PROVE StatusInv'
  BY <1>1, <1>4, RequestInv DEF StatusInv, Reasons
<1>5. CASE BulkExtendExpirationDateByUserIds \/ BulkSyncExpiredUsersByUserIds
  BY <1>1, <1>5, ExtendInv DEF StatusInv, Reasons
<1>6. CASE Watchdog
  BY <1>1, <1>6, WatchdogInv DEF StatusInv, Reasons
<1>7. CASE Accounting
  BY <1>1, <1>7, AccountingInv DEF StatusInv, Reasons
<1>8. CASE ResetStep
  BY <1>1, <1>8, ResetInv DEF StatusInv, Reasons
<1>9. CASE SerialStep
  BY <1>1, <1>9, SerialInv DEF StatusInv, Reasons
<1>10. CASE UNCHANGED vars
  <2>1. RequestOK' /\ SerialOK'
    BY <1>10 DEF vars, StatusInv, RequestOK, SerialOK
  <2>2. ResetOK' /\ LimitedHasReason' /\ ExpiredHasReason'
    BY <1>10, RowsFrame DEF vars, StatusInv
  <2> QED BY <1>1, <2>1, <2>2 DEF StatusInv
<1> QED BY <1>2, <1>3, <1>4, <1>5, <1>6, <1>7, <1>8, <1>9, <1>10 DEF Next

\* The inductive invariant holds of every run, whatever requests, watchdog, bulk
\* and reset jobs interleave.
THEOREM StatusInvariant == Spec => []StatusInv
BY InitInv, NextInv, PTL DEF Spec

\* Nobody stays LIMITED with traffic left, outside the recorded races and the
\* jobs that will look at the user again (LimitedHasReason).
THEOREM LimitedCorrect == Spec => []LimitedHasReason
<1>1. StatusInv => LimitedHasReason
  BY DEF StatusInv
<1> QED BY <1>1, StatusInvariant, PTL

\* Nobody stays EXPIRED with time left, with the same reservations
\* (ExpiredHasReason).
THEOREM ExpiredCorrect == Spec => []ExpiredHasReason
<1>1. StatusInv => ExpiredHasReason
  BY DEF StatusInv
<1> QED BY <1>1, StatusInvariant, PTL

-----------------------------------------------------------------------------
(* Action properties *)

\* Outside the bulk update only a request's write takes a user out of DISABLED.
LEMMA DisabledByWrite ==
    ASSUME StatusInv, NEW r \in Requests, Write(r)
    PROVE  DisabledStays
<1> SUFFICES ASSUME NEW u \in Users, status[u] = "DISABLED",
                    status'[u] \notin {"DISABLED", "DELETED"}
             PROVE  EndsNow(r, u)
  BY DEF DisabledStays, Disabled
<1>1. request[r] # Idle /\ request'[r] = Idle
  BY DEF Write, Finish, StatusInv, TypeOK
<1>2. request[r].user = u /\ request[r].status \notin {Keep, "DISABLED"}
  BY DEF Write, Choose, StatusInv, TypeOK
<1> QED BY <1>1, <1>2 DEF EndsNow, StatusInv, RequestOK

LEMMA DisabledByOthers ==
    ASSUME StatusInv, Next, \A r \in Requests : ~Write(r)
    PROVE  DisabledStays
<1> SUFFICES ASSUME NEW u \in Users, status[u] = "DISABLED",
                    status'[u] \notin {"DISABLED", "DELETED"}
             PROVE  BulkActive(u)
  BY DEF DisabledStays, Disabled
<1>1. status \in [Users -> Status]
  BY DEF StatusInv, TypeOK
<1>2. CASE SerialRange
  <2>1. PICK v \in serial.left :
          IF v \in Rows THEN status' = [status EXCEPT ![v] = Choose(serial.status, @)]
                        ELSE status' = status
    BY <1>2 DEF SerialRange
  <2>2. serial.pc = "ranges" /\ v = u /\ serial.status \notin {Keep, "DISABLED"}
    BY <1>1, <1>2, <2>1 DEF Choose, SerialRange
  <2>3. serial.status \in {"ACTIVE", "DISABLED", Keep}
    BY <2>2 DEF StatusInv, SerialOK, SerialIdle
  <2> QED BY <2>2, <2>3 DEF BulkActive
<1>3. CASE SerialDelete
  <2>1. status' = status \/ \E C \in SUBSET Users : Delete(C)
    BY <1>3 DEF SerialDelete, rowVars
  <2> QED BY <2>1 DEF Delete
<1>4. CASE SerialStep
  BY <1>1, <1>2, <1>3, <1>4
     DEF SerialStep, SerialStart, BulkUpdateAllUsers, BulkAllExtendExpirationDate,
         BulkDeleteByStatus, SerialRangesEnd, SerialSyncLimited, SerialSyncExpired,
         Unlimited, Revived, rowVars
<1>5. CASE ResetStep
  BY <1>1, <1>5 DEF ResetStep, ResetJobStart, ResetSelect, ResetBatch, ResetBatchFails,
                    ResetLimitedUserTraffic, rowVars
<1>6. ASSUME NEW r \in Requests, RequestStep(r) PROVE FALSE
  BY <1>1, <1>6 DEF RequestStep, Begin, UpdateUser, DisableUser, EnableUser,
        ExtendUserExpirationDate, ResetUserTraffic, DeleteUser, WriteDelete, WriteFails,
        Delete, rowVars
<1>7. CASE Tick \/ CreateUser \/ Watchdog \/ Accounting
  BY <1>1, <1>7 DEF Tick, CreateUser, Watchdog, UpdateExpiredUsers,
        UpdateExceededTrafficUsers, Accounting, UsageStart, BulkIncrementUsedTraffic, rowVars
<1>8. CASE BulkExtendExpirationDateByUserIds \/ BulkSyncExpiredUsersByUserIds
  BY <1>1, <1>8 DEF BulkExtendExpirationDateByUserIds, BulkSyncExpiredUsersByUserIds, Revived
<1> QED BY <1>4, <1>5, <1>6, <1>7, <1>8 DEF Next

\* Whatever runs beside it, a disabled user only leaves DISABLED by a bulk update to
\* ACTIVE or by a request that asked for it or had read the row before
\* (DisabledSticks).
THEOREM DisabledCorrect == Spec => DisabledSticks
<1>1. StatusInv /\ [Next]_vars => [DisabledStays]_vars
  BY DisabledByWrite, DisabledByOthers
<1> QED BY <1>1, StatusInvariant, PTL DEF Spec, DisabledSticks

\* A request's step is no background step: it fills or empties its own slot.
LEMMA RequestsShow ==
    ASSUME TypeOK, NEW r \in Requests, RequestStep(r)
    PROVE  request' # request
<1>1. request \in [Requests -> {Idle} \cup Writing]
  BY DEF TypeOK
<1>2. CASE request[r] = Idle
  <2>1. request'[r].pc = "write"
    BY <1>1, <1>2 DEF RequestStep, UpdateUser, DisableUser, EnableUser,
          ExtendUserExpirationDate, ResetUserTraffic, DeleteUser, Begin, Write,
          WriteDelete, WriteFails
  <2> QED BY <1>2, <2>1 DEF Idle
<1>3. CASE request[r] # Idle
  <2>1. request'[r] = Idle
    BY <1>1, <1>3 DEF RequestStep, UpdateUser, DisableUser, EnableUser,
          ExtendUserExpirationDate, ResetUserTraffic, DeleteUser, Begin, Write,
          WriteDelete, WriteFails, Finish
  <2> QED BY <1>3, <2>1
<1> QED BY <1>2, <1>3

LEMMA EarnedStep ==
    ASSUME StatusInv, Next
    PROVE  Earned
<1> SUFFICES ASSUME Background, NEW u \in Users, status'[u] = "ACTIVE"
             PROVE  /\ status[u] = "LIMITED" => ~OverLimit(u)'
                    /\ status[u] = "EXPIRED" => expireAt'[u] > now'
  BY DEF Earned
<1>1. /\ status \in [Users -> Status] /\ limit[u] \in Nat
      /\ reset \in {ResetIdle} \cup ResetBusy
  BY BoundsAssumption DEF StatusInv, TypeOK, Bytes
<1>2. CASE ResetLimitedUserTraffic
  <2>1. status[u] # "ACTIVE" => used'[u] = 0 /\ limit' = limit /\ status[u] = "LIMITED"
    BY <1>1, <1>2 DEF ResetLimitedUserTraffic
  <2> QED BY <1>1, <2>1 DEF OverLimit
<1>3. CASE SerialSyncLimited
  <2>1. status[u] # "ACTIVE" =>
            /\ limit' = limit /\ used' = used
            /\ status[u] = "LIMITED" /\ (~OverLimit(u) \/ used[u] = 0)
    BY <1>1, <1>3 DEF SerialSyncLimited, Unlimited
  <2> QED BY <1>1, <2>1 DEF OverLimit
<1>4. CASE SerialSyncExpired \/ BulkSyncExpiredUsersByUserIds
  BY <1>1, <1>4 DEF SerialSyncExpired, BulkSyncExpiredUsersByUserIds, Revived
<1>5. CASE SerialDelete
  <2>1. status' = status \/ \E C \in SUBSET Users : Delete(C)
    BY <1>5 DEF SerialDelete, rowVars
  <2> QED BY <2>1 DEF Delete
<1>6. CASE SerialStep
  BY <1>1, <1>3, <1>4, <1>5, <1>6
     DEF SerialStep, SerialStart, BulkUpdateAllUsers, BulkAllExtendExpirationDate,
         BulkDeleteByStatus, SerialRange, SerialRangesEnd, Background, rowVars
<1>7. CASE ResetStep
  BY <1>1, <1>2, <1>7 DEF ResetStep, ResetJobStart, ResetSelect, ResetBatch,
        ResetBatchFails, rowVars
<1>8. ~ \E r \in Requests : RequestStep(r)
  BY RequestsShow DEF StatusInv, Background
<1>9. CASE Tick \/ CreateUser \/ Watchdog \/ Accounting
  BY <1>1, <1>9 DEF Tick, CreateUser, Watchdog, UpdateExpiredUsers,
        UpdateExceededTrafficUsers, Accounting, UsageStart, BulkIncrementUsedTraffic, rowVars
<1>10. CASE BulkExtendExpirationDateByUserIds
  BY <1>1, <1>10 DEF BulkExtendExpirationDateByUserIds
<1> QED BY <1>4, <1>6, <1>7, <1>8, <1>9, <1>10 DEF Next

\* No background job gives access back to a user over the limit or past the date
\* (ReactivationEarned).
THEOREM EarnedCorrect == Spec => ReactivationEarned
<1>1. StatusInv /\ [Next]_vars => [Earned]_vars
  BY EarnedStep
<1> QED BY <1>1, StatusInvariant, PTL DEF Spec, ReactivationEarned

-----------------------------------------------------------------------------
(* The life cycle                                                            *)

\* Excuses are kept but for those of deleted users.
ExcusesKept == \A u \in Users : excuse[u] # "none" => excuse'[u] # "none"

LEMMA KeptPardons == ExcusesKept => Lifecycle!Pardons
BY DEF ExcusesKept, Lifecycle!Pardons

LEMMA UserChange ==
    ASSUME NEW u \in Users, Lifecycle!Enroll(u) \/ Lifecycle!Decide(u), ExcusesKept
    PROVE  Lifecycle!Change /\ Lifecycle!Pardons
BY KeptPardons DEF Lifecycle!Change

LEMMA UsersChange ==
    ASSUME NEW S \in SUBSET Users, ExcusesKept,
           \/ Lifecycle!Prolong(S) \/ Lifecycle!Spend(S) \/ Lifecycle!Clear(S)
           \/ Lifecycle!Restore(S)
    PROVE  Lifecycle!Change /\ Lifecycle!Pardons
BY KeptPardons DEF Lifecycle!Change

LEMMA ExcusedKeeps ==
    ASSUME NEW S, NEW why \in Excuse \ {"none"}, Excused(S, why)
    PROVE  ExcusesKept
BY DEF Excused, ExcusesKept, Excuse

LEMMA UnchangedKeeps == UNCHANGED excuse => ExcusesKept
BY DEF ExcusesKept

LEMMA ReasonsJustify ==
    ASSUME StatusInv' PROVE \A u \in Users : Lifecycle!Justified(u)'
<1>1. LimitedHasReason' /\ ExpiredHasReason'
  BY DEF StatusInv
<1> QED BY <1>1 DEF LimitedHasReason, ExpiredHasReason, OverLimit,
           Lifecycle!Justified, Lifecycle!OverLimit

\* Steps that touch no row are steps of a job, or none that anyone sees.
LEMMA QuietLife ==
    ASSUME UNCHANGED <<now, rowVars, excuse>>
    PROVE  Lifecycle!Change /\ Lifecycle!Pardons
<1>1. Lifecycle!Proceed
  BY DEF rowVars, Lifecycle!Proceed, Lifecycle!Only, Lifecycle!Row, Lifecycle!Columns
<1>2. ExcusesKept
  BY DEF ExcusesKept
<1> QED BY <1>1, <1>2, KeptPardons DEF Lifecycle!Change

LEMMA TickLife == Tick => Lifecycle!Change /\ Lifecycle!Pardons
<1> SUFFICES ASSUME Tick PROVE Lifecycle!Change /\ Lifecycle!Pardons
  OBVIOUS
<1>1. Lifecycle!Tick
  BY DEF Tick, rowVars, Lifecycle!Tick, Lifecycle!Row, Lifecycle!Columns
<1>2. ExcusesKept
  BY DEF Tick, ExcusesKept
<1> QED BY <1>1, <1>2, KeptPardons DEF Lifecycle!Change

LEMMA CreateLife == ASSUME TypeOK, CreateUser PROVE Lifecycle!Change /\ Lifecycle!Pardons
<1>1. PICK u \in Users, st \in Live, lim \in Bytes, exp \in Time, strat \in Passes :
         /\ status[u] = "NONE"
         /\ status' = [status EXCEPT ![u] = st]
         /\ limit' = [limit EXCEPT ![u] = lim]
         /\ used' = [used EXCEPT ![u] = 0]
         /\ expireAt' = [expireAt EXCEPT ![u] = exp]
         /\ strategy' = [strategy EXCEPT ![u] = strat]
         /\ IF st = "LIMITED" \/ (st = "EXPIRED" /\ exp > now)
            THEN Excused({u}, "created") ELSE UNCHANGED excuse
         /\ UNCHANGED <<now, request, extending, usage, reset, serial>>
  BY DEF CreateUser
<1>2. Lifecycle!Enroll(u)
  BY <1>1 DEF TypeOK, Live, Lifecycle!Enroll, Lifecycle!Only, Lifecycle!Row,
       Lifecycle!Columns, Lifecycle!Live
<1>3. ExcusesKept
  BY <1>1, ExcusedKeeps, UnchangedKeeps DEF Excuse
<1> QED BY <1>2, <1>3, UserChange

\* A write decides for one user.  It writes EXPIRED never, and LIMITED over another
\* status only when the row has changed since it was read.
LEMMA WriteLife ==
    ASSUME StatusInv, NEW r \in Requests, Write(r)
    PROVE  Lifecycle!Change /\ Lifecycle!Pardons
<1> DEFINE q == request[r]
<1>0. PICK u \in Users : u = q.user
  BY DEF Write, Rows
<1>1. TypeOK /\ q \in Writing /\ status[u] \in Live
  BY <1>0 DEF StatusInv, TypeOK, Write, Rows
<1>2. /\ status' = [status EXCEPT ![u] = Choose(q.status, @)]
      /\ limit' = [limit EXCEPT ![u] = Choose(q.limit, @)]
      /\ expireAt' = [expireAt EXCEPT ![u] = Choose(q.expireAt, @)]
      /\ used' = [used EXCEPT ![u] = IF q.op = "reset" THEN 0 ELSE @]
      /\ UNCHANGED now
  BY <1>0 DEF Write
<1>3. ExcusesKept
  <2>1. UNCHANGED excuse \/ Excused({u}, "raced") \/ Excused({u}, "overlooked")
    BY <1>0 DEF Write
  <2> QED BY <2>1, ExcusedKeeps, UnchangedKeeps DEF Excuse
<1>4. Lifecycle!Only({u})
  BY <1>1, <1>2 DEF TypeOK, Lifecycle!Only, Lifecycle!Row, Lifecycle!Columns
<1>5. used'[u] \in {used[u], 0}
  BY <1>1, <1>2 DEF TypeOK
<1>6. \/ q.status \in {Keep, "ACTIVE", "DISABLED"}
      \/ q.status = "LIMITED" /\ q.seen.status = "LIMITED"
  <2>1. q.status \in Live \cup {Keep}
    BY <1>1 DEF Writing
  <2>2. q # Idle
    BY DEF Write
  <2>3. q.status # "EXPIRED" /\ (q.status = "LIMITED" => q.seen.status = "LIMITED")
    BY <2>2 DEF StatusInv, RequestOK
  <2> QED BY <2>1, <2>3 DEF Live
<1>7. CASE q.status \in {Keep, "ACTIVE", "DISABLED"} \/ status[u] = "LIMITED"
  <2>1. status'[u] \in {status[u], "ACTIVE", "DISABLED"}
    BY <1>1, <1>2, <1>6, <1>7 DEF TypeOK, Choose
  <2>2. Lifecycle!Decide(u)
    BY <1>1, <1>4, <1>5, <2>1 DEF Live, Lifecycle!Decide, Lifecycle!Live
  <2> QED BY <1>3, <2>2, UserChange
<1>8. CASE q.status = "LIMITED" /\ status[u] # "LIMITED"
  <2>1. status'[u] = "LIMITED"
    BY <1>1, <1>2, <1>8, KeepAssumption DEF TypeOK, Choose, Status, Live
  <2>2. Stale(r)
    <3>1. q.seen.status # SeenOf(u).status
      BY <1>6, <1>8, KeepAssumption DEF SeenOf, Status, Live
    <3> QED BY <1>0, <3>1 DEF Stale
  <2>3. excuse'[u] # "none"
    BY <1>0, <1>1, <2>2 DEF Write, Excused, TypeOK
  <2>4. Lifecycle!Decide(u)
    BY <1>1, <1>4, <1>5, <2>1, <2>3 DEF Live, Lifecycle!Decide, Lifecycle!Live
  <2> QED BY <1>3, <2>4, UserChange
<1> QED BY <1>6, <1>7, <1>8

LEMMA DeleteLife ==
    ASSUME TypeOK, NEW S \in SUBSET Rows, Delete(S), UNCHANGED now
    PROVE  Lifecycle!Change /\ Lifecycle!Pardons
<1>1. S \in SUBSET Users /\ \A u \in S : status[u] \in Live
  BY DEF Rows
<1>2. Lifecycle!Remove(S)
  BY <1>1 DEF TypeOK, Delete, Live, Lifecycle!Remove, Lifecycle!Only, Lifecycle!Row,
       Lifecycle!Columns, Lifecycle!Live
<1>3. Lifecycle!Pardons
  BY <1>1 DEF Delete, Lifecycle!Pardons
<1> QED BY <1>1, <1>2, <1>3 DEF Lifecycle!Change

LEMMA RequestLife ==
    ASSUME StatusInv, NEW r \in Requests, RequestStep(r)
    PROVE  Lifecycle!Change /\ Lifecycle!Pardons
<1>1. CASE Write(r)
  BY <1>1, WriteLife
<1>2. CASE WriteDelete(r)
  <2>1. PICK u \in Rows : u = request[r].user
    BY <1>2 DEF WriteDelete
  <2>2. Delete({u}) /\ UNCHANGED now
    BY <1>2, <2>1 DEF WriteDelete, Delete
  <2> QED BY <2>2, DeleteLife DEF StatusInv
<1>3. CASE ~Write(r) /\ ~WriteDelete(r)
  <2>1. UNCHANGED <<now, rowVars, excuse>>
    BY <1>3 DEF RequestStep, UpdateUser, DisableUser, EnableUser,
          ExtendUserExpirationDate, ResetUserTraffic, DeleteUser, Begin, WriteFails
  <2> QED BY <2>1, QuietLife
<1> QED BY <1>1, <1>2, <1>3

\* A job gives access back to those of S; or its statement fails.
LEMMA RestoreLife ==
    ASSUME TypeOK, NEW S \in SUBSET Users, ExcusesKept,
           UNCHANGED <<now, limit, expireAt>>,
           \A u \in Users \ S : status'[u] = status[u] /\ used'[u] = used[u],
           \A u \in S : /\ status'[u] = "ACTIVE"
                        /\ \/ /\ status[u] = "LIMITED" /\ used'[u] \in {used[u], 0}
                              /\ ~OverLimit(u)'
                           \/ /\ status[u] = "EXPIRED" /\ used'[u] = used[u]
                              /\ expireAt[u] > now
    PROVE  Lifecycle!Change /\ Lifecycle!Pardons
<1>1. Lifecycle!Only(S)
  BY DEF Lifecycle!Only, Lifecycle!Row, Lifecycle!Columns
<1>2. Lifecycle!Restore(S)
  BY <1>1 DEF Lifecycle!Restore, OverLimit, Lifecycle!OverLimit
<1> QED BY <1>2, UsersChange

LEMMA RevivedLife ==
    ASSUME TypeOK, NEW S \in SUBSET Users, ExcusesKept,
           UNCHANGED <<now, limit, used, expireAt>>,
           \/ UNCHANGED status
           \/ status' = [u \in Users |-> IF u \in Revived(S) THEN "ACTIVE" ELSE status[u]]
    PROVE  Lifecycle!Change /\ Lifecycle!Pardons
<1>1. CASE UNCHANGED status
  <2>1. {} \in SUBSET Users
    OBVIOUS
  <2> QED BY <1>1, <2>1, RestoreLife
<1>2. CASE status' = [u \in Users |-> IF u \in Revived(S) THEN "ACTIVE" ELSE status[u]]
  <2>1. Revived(S) \in SUBSET Users
    BY DEF Revived
  <2>2. \A u \in Users \ Revived(S) : status'[u] = status[u] /\ used'[u] = used[u]
    BY <1>2
  <2>3. \A u \in Revived(S) : /\ status'[u] = "ACTIVE" /\ status[u] = "EXPIRED"
                              /\ used'[u] = used[u] /\ expireAt[u] > now
    BY <1>2, <2>1 DEF Revived
  <2>4. PICK R \in SUBSET Users : R = Revived(S)
    BY <2>1
  <2> QED BY <2>2, <2>3, <2>4, RestoreLife
<1> QED BY <1>1, <1>2

LEMMA ExtendLife ==
    ASSUME StatusInv, BulkExtendExpirationDateByUserIds \/ BulkSyncExpiredUsersByUserIds
    PROVE  Lifecycle!Change /\ Lifecycle!Pardons
<1>1. CASE BulkExtendExpirationDateByUserIds
  <2>1. PICK S \in SUBSET Rows, days \in Time \ {0} :
          expireAt' = [u \in Users |-> IF u \in S THEN expireAt[u] + days ELSE expireAt[u]]
    BY <1>1 DEF BulkExtendExpirationDateByUserIds
  <2>2. S \in SUBSET Users /\ \A u \in Users : expireAt[u] \in Nat /\ days \in Nat \ {0}
    BY BoundsAssumption DEF Rows, StatusInv, TypeOK, Time
  <2>3. UNCHANGED <<now, status, limit, used, excuse>>
    BY <1>1 DEF BulkExtendExpirationDateByUserIds
  <2>4. Lifecycle!Prolong(S)
    BY <2>1, <2>2, <2>3 DEF Lifecycle!Prolong, Lifecycle!Only, Lifecycle!Row, Lifecycle!Columns
  <2> QED BY <2>2, <2>3, <2>4, UnchangedKeeps, UsersChange
<1>2. CASE BulkSyncExpiredUsersByUserIds
  <2>1. PICK S \in SUBSET Users : S = extending
    BY DEF StatusInv, TypeOK
  <2>2. ExcusesKept
    <3>1. UNCHANGED excuse \/ Excused(S, "partial")
      BY <1>2, <2>1 DEF BulkSyncExpiredUsersByUserIds
    <3> QED BY <3>1, ExcusedKeeps, UnchangedKeeps DEF Excuse
  <2>3. /\ UNCHANGED <<now, limit, used, expireAt>>
        /\ \/ UNCHANGED status
           \/ status' = [u \in Users |-> IF u \in Revived(S) THEN "ACTIVE" ELSE status[u]]
    BY <1>2, <2>1 DEF BulkSyncExpiredUsersByUserIds
  <2> QED BY <2>2, <2>3, RevivedLife DEF StatusInv
<1> QED BY <1>1, <1>2

LEMMA WatchdogLife == ASSUME StatusInv, Watchdog PROVE Lifecycle!Change /\ Lifecycle!Pardons
<1>1. /\ ExcusesKept
      /\ UNCHANGED <<now, limit, used, expireAt>>
  BY DEF Watchdog, UpdateExpiredUsers, UpdateExceededTrafficUsers, ExcusesKept
<1>2. CASE UpdateExpiredUsers
  <2>1. status' = [u \in Users |->
            IF status[u] \in {"ACTIVE", "LIMITED"} /\ expireAt[u] < now
            THEN "EXPIRED" ELSE status[u]]
    BY <1>2 DEF UpdateExpiredUsers
  <2>2. Lifecycle!Expire
    BY <1>1, <2>1 DEF Lifecycle!Expire, Lifecycle!Only, Lifecycle!Row, Lifecycle!Columns
  <2> QED BY <1>1, <2>2, KeptPardons DEF Lifecycle!Change
<1>3. CASE UpdateExceededTrafficUsers
  <2>1. status' = [u \in Users |->
            IF status[u] = "ACTIVE" /\ OverLimit(u) THEN "LIMITED" ELSE status[u]]
    BY <1>3 DEF UpdateExceededTrafficUsers
  <2>2. \A u \in Users : OverLimit(u) <=> Lifecycle!OverLimit(u)
    BY DEF OverLimit, Lifecycle!OverLimit
  <2>3. Lifecycle!Exceed
    BY <1>1, <2>1, <2>2 DEF Lifecycle!Exceed, Lifecycle!Only, Lifecycle!Row, Lifecycle!Columns
  <2> QED BY <1>1, <2>3, KeptPardons DEF Lifecycle!Change
<1> QED BY <1>2, <1>3 DEF Watchdog

LEMMA AccountingLife ==
    ASSUME StatusInv, Accounting PROVE Lifecycle!Change /\ Lifecycle!Pardons
<1>1. UNCHANGED <<now, status, limit, expireAt, excuse>>
  BY DEF Accounting, UsageStart, BulkIncrementUsedTraffic, rowVars
<1>2. CASE UNCHANGED used
  <2>1. Lifecycle!Proceed
    BY <1>1, <1>2 DEF Lifecycle!Proceed, Lifecycle!Only, Lifecycle!Row, Lifecycle!Columns
  <2> QED BY <1>1, <2>1, UnchangedKeeps, KeptPardons DEF Lifecycle!Change
<1>3. CASE used' = [u \in Users |-> IF u \in Rows
                                  THEN Smaller(used[u] + usage[u], MaxBytes) ELSE used[u]]
  <2>1. \A u \in Users : used[u] \in Nat /\ used'[u] \in Nat /\ used'[u] >= used[u]
    <3> TAKE u \in Users
    <3>1. used[u] \in 0..MaxBytes /\ usage[u] \in 0..MaxBytes
      BY DEF StatusInv, TypeOK, Bytes
    <3> QED BY <1>3, <3>1, BoundsAssumption DEF Smaller
  <2>2. PICK S \in SUBSET Users : S = {u \in Users : used'[u] # used[u]}
    OBVIOUS
  <2>3. Lifecycle!Spend(S)
    BY <1>1, <2>1, <2>2 DEF Lifecycle!Spend, Lifecycle!Only, Lifecycle!Row, Lifecycle!Columns
  <2> QED BY <1>1, <2>3, UnchangedKeeps, UsersChange
<1> QED BY <1>2, <1>3 DEF Accounting, UsageStart, BulkIncrementUsedTraffic, rowVars

LEMMA ResetLife == ASSUME StatusInv, ResetStep PROVE Lifecycle!Change /\ Lifecycle!Pardons
<1>1. CASE ResetJobStart \/ ResetSelect \/ ResetBatchFails
  BY <1>1, QuietLife DEF ResetJobStart, ResetSelect, ResetBatchFails
<1>2. CASE ResetBatch
  <2>1. PICK B \in SUBSET reset.ids :
           used' = [u \in Users |-> IF u \in B \cap Rows THEN 0 ELSE used[u]]
    BY <1>2 DEF ResetBatch
  <2>2. UNCHANGED <<now, status, limit, expireAt, excuse>>
    BY <1>2 DEF ResetBatch
  <2>3. PICK S \in SUBSET Users : S = B \cap Rows
    BY DEF Rows
  <2>4. Lifecycle!Clear(S)
    BY <2>1, <2>2, <2>3 DEF Lifecycle!Clear, Lifecycle!Only, Lifecycle!Row, Lifecycle!Columns
  <2> QED BY <2>2, <2>4, UnchangedKeeps, UsersChange
<1>3. CASE ResetLimitedUserTraffic
  <2>1. PICK L \in SUBSET Users : L = {u \in Users : status[u] = "LIMITED" /\ InPass(u)}
    OBVIOUS
  <2>2. /\ UNCHANGED <<now, limit, expireAt>>
        /\ \/ /\ status' = [u \in Users |-> IF u \in L THEN "ACTIVE" ELSE status[u]]
              /\ used' = [u \in Users |-> IF u \in L THEN 0 ELSE used[u]]
              /\ UNCHANGED excuse
           \/ /\ Excused(L, "partial")
              /\ UNCHANGED <<status, used>>
    BY <1>3, <2>1 DEF ResetLimitedUserTraffic
  <2>3. CASE /\ status' = [u \in Users |-> IF u \in L THEN "ACTIVE" ELSE status[u]]
             /\ used' = [u \in Users |-> IF u \in L THEN 0 ELSE used[u]]
             /\ UNCHANGED excuse
    <3>1. \A u \in L : used'[u] = 0 /\ limit'[u] \in Nat
      BY <2>2, <2>3, BoundsAssumption DEF StatusInv, TypeOK, Bytes
    <3>2. \A u \in L : status[u] = "LIMITED" /\ status'[u] = "ACTIVE" /\ ~OverLimit(u)'
      BY <2>1, <2>3, <3>1 DEF OverLimit
    <3> QED BY <2>2, <2>3, <3>1, <3>2, UnchangedKeeps, RestoreLife DEF StatusInv
  <2>4. CASE Excused(L, "partial") /\ UNCHANGED <<status, used>>
    <3>1. ExcusesKept
      BY <2>4, ExcusedKeeps DEF Excuse
    <3> QED BY <2>2, <2>4, <3>1, RevivedLife DEF StatusInv
  <2> QED BY <2>2, <2>3, <2>4
<1> QED BY <1>1, <1>2, <1>3 DEF ResetStep

LEMMA SerialRangeLife ==
    ASSUME StatusInv, SerialRange PROVE Lifecycle!Change /\ Lifecycle!Pardons
<1>1. PICK u \in serial.left :
        IF u \in Rows
           THEN /\ status' = [status EXCEPT ![u] = Choose(serial.status, @)]
                /\ limit' = [limit EXCEPT ![u] = Choose(serial.limit, @)]
                /\ expireAt' = [expireAt EXCEPT ![u] =
                                    Choose(serial.expireAt, @ + serial.days)]
                /\ strategy' = [strategy EXCEPT ![u] = Choose(serial.strategy, @)]
                /\ IF MovesUnderReset(u, serial.strategy)
                   THEN Excused({u}, "raced") ELSE UNCHANGED excuse
           ELSE UNCHANGED <<status, limit, expireAt, strategy, excuse>>
  BY DEF SerialRange
<1>2. serial.pc = "ranges" /\ UNCHANGED <<now, used>>
  BY DEF SerialRange
<1>3. CASE u \notin Rows
  BY <1>1, <1>2, <1>3, QuietLife DEF rowVars
<1>4. CASE u \in Rows
  <2>1. u \in Users /\ status[u] \in Live
    BY <1>4 DEF Rows
  <2>2. serial.status \in {"ACTIVE", "DISABLED", Keep}
    BY <1>2 DEF StatusInv, SerialOK, SerialIdle
  <2>3. /\ status' = [status EXCEPT ![u] = Choose(serial.status, @)]
        /\ limit' = [limit EXCEPT ![u] = Choose(serial.limit, @)]
        /\ expireAt' = [expireAt EXCEPT ![u] = Choose(serial.expireAt, @ + serial.days)]
        /\ UNCHANGED excuse \/ Excused({u}, "raced")
    BY <1>1, <1>4
  <2>4. Lifecycle!Only({u})
    BY <1>2, <2>1, <2>3 DEF StatusInv, TypeOK, Lifecycle!Only, Lifecycle!Row, Lifecycle!Columns
  <2>5. status'[u] \in {status[u], "ACTIVE", "DISABLED"}
    BY <2>1, <2>2, <2>3 DEF StatusInv, TypeOK, Choose
  <2>6. Lifecycle!Decide(u)
    BY <1>2, <2>1, <2>4, <2>5 DEF Live, Lifecycle!Decide, Lifecycle!Live
  <2>7. ExcusesKept
    BY <2>3, ExcusedKeeps, UnchangedKeeps DEF Excuse
  <2> QED BY <2>1, <2>6, <2>7, UserChange
<1> QED BY <1>3, <1>4

LEMMA SerialLife == ASSUME StatusInv, SerialStep PROVE Lifecycle!Change /\ Lifecycle!Pardons
<1>1. CASE \/ BulkUpdateAllUsers \/ BulkAllExtendExpirationDate \/ BulkDeleteByStatus
           \/ SerialRangesEnd
  BY <1>1, QuietLife DEF BulkUpdateAllUsers, BulkAllExtendExpirationDate,
     BulkDeleteByStatus, SerialStart, SerialRangesEnd
<1>2. CASE SerialRange
  BY <1>2, SerialRangeLife
<1>3. CASE SerialSyncLimited
  <2>1. PICK S \in SUBSET Users : S = {u \in Users : Unlimited(u)}
    OBVIOUS
  <2>2. UNCHANGED <<now, limit, used, expireAt>>
    BY <1>3 DEF SerialSyncLimited
  <2>3. \/ UNCHANGED <<status, excuse>>
        \/ status' = [u \in Users |-> IF Unlimited(u) THEN "ACTIVE" ELSE status[u]]
           /\ UNCHANGED excuse
        \/ Excused(Rows, "partial") /\ UNCHANGED status
    BY <1>3 DEF SerialSyncLimited
  <2>4. ExcusesKept
    <3>1. UNCHANGED excuse \/ Excused(Rows, "partial")
      BY <2>3
    <3> QED BY <3>1, UnchangedKeeps DEF Excused, ExcusesKept
  <2>5. CASE UNCHANGED status
    BY <2>2, <2>4, <2>5, RevivedLife DEF StatusInv
  <2>6. CASE status' = [u \in Users |-> IF Unlimited(u) THEN "ACTIVE" ELSE status[u]]
    <3>1. \A u \in S : limit[u] \in Nat /\ used[u] \in Nat
      BY <2>1, BoundsAssumption DEF StatusInv, TypeOK, Bytes
    <3>2. \A u \in S : status[u] = "LIMITED" /\ status'[u] = "ACTIVE" /\ ~OverLimit(u)'
      BY <2>1, <2>2, <2>6, <3>1 DEF Unlimited, OverLimit
    <3> QED BY <2>1, <2>2, <2>4, <2>6, <3>2, RestoreLife DEF StatusInv
  <2> QED BY <2>3, <2>5, <2>6
<1>4. CASE SerialSyncExpired
  <2>1. UNCHANGED <<now, limit, used, expireAt>>
    BY <1>4 DEF SerialSyncExpired
  <2>2. \/ UNCHANGED status
        \/ status' = [u \in Users |-> IF u \in Revived(Users) THEN "ACTIVE" ELSE status[u]]
    BY <1>4 DEF SerialSyncExpired
  <2>3. ExcusesKept
    <3>1. UNCHANGED excuse \/ Excused(Rows, "partial")
      BY <1>4 DEF SerialSyncExpired
    <3> QED BY <3>1, UnchangedKeeps DEF Excused, ExcusesKept
  <2>4. Users \in SUBSET Users
    OBVIOUS
  <2> QED BY <2>1, <2>2, <2>3, <2>4, RevivedLife DEF StatusInv
<1>5. CASE SerialDelete
  <2>1. CASE UNCHANGED <<rowVars, excuse>>
    BY <1>5, <2>1, QuietLife DEF SerialDelete
  <2>2. ASSUME NEW C \in SUBSET {u \in Users : status[u] = serial.status},
               C # {}, Delete(C)
        PROVE  Lifecycle!Change /\ Lifecycle!Pardons
    <3>1. serial.status \in Live \/ serial.status = Keep
      BY <1>5 DEF SerialDelete, StatusInv, TypeOK, SerialBusy, SerialIdle
    <3>2. C \in SUBSET Rows
      BY <3>1, KeepAssumption DEF StatusInv, TypeOK, Rows, Status
    <3>3. UNCHANGED now
      BY <1>5 DEF SerialDelete
    <3> QED BY <2>2, <3>2, <3>3, DeleteLife DEF StatusInv
  <2> QED BY <1>5, <2>1, <2>2 DEF SerialDelete
<1> QED BY <1>1, <1>2, <1>3, <1>4, <1>5 DEF SerialStep

LEMMA NextLife ==
    ASSUME StatusInv, Next PROVE Lifecycle!Change /\ Lifecycle!Pardons
<1>1. ASSUME NEW r \in Requests, RequestStep(r) PROVE Lifecycle!Change /\ Lifecycle!Pardons
  BY <1>1, RequestLife
<1> QED BY <1>1, TickLife, CreateLife, ExtendLife, WatchdogLife, AccountingLife, ResetLife,
           SerialLife DEF Next, StatusInv

LEMMA InitLife == Init => Lifecycle!Init
BY DEF Init, Lifecycle!Init, ResetIdle, SerialIdle, LimitedInTransit, ExpiredInTransit

LEMMA UnchangedLife == UNCHANGED vars => UNCHANGED Lifecycle!life
BY DEF vars, rowVars, Lifecycle!life, LimitedInTransit, ExpiredInTransit, InPass

\* Requests, watchdog, accounting, reset and bulk jobs, in however many statements and
\* whichever order, take every user through the life cycle: nobody but the watchdog
\* writes EXPIRED or, over a row that has not changed, LIMITED; access is given back by
\* jobs only to those with traffic or time left; and a status that the columns do not
\* bear out has a job coming or a reason that is known (LifecycleSpec).
THEOREM LifecycleImplemented == Spec => LifecycleSpec
<1>1. StatusInv /\ StatusInv' /\ [Next]_vars => [Lifecycle!Next]_(Lifecycle!life)
  BY NextLife, UnchangedLife, ReasonsJustify DEF Lifecycle!Next
<1> QED BY <1>1, InitLife, StatusInvariant, PTL
        DEF Spec, LifecycleSpec, Lifecycle!Spec

=============================================================================
