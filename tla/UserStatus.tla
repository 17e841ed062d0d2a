----------------------------- MODULE UserStatus -----------------------------
(***************************************************************************)
(* The status of the panel's users: who may change it, and when.           *)
(*                                                                         *)
(* A user row is ACTIVE, LIMITED (traffic used up), EXPIRED (past its      *)
(* date) or DISABLED (by an administrator).  Four kinds of process write   *)
(* it, with nothing but single SQL statements to order them:               *)
(*   - API requests and "modify many" jobs (users.service.ts): they READ   *)
(*     the row, decide from what they read, and WRITE later;               *)
(*   - the watchdog (updateExpiredUsers, updateExceededTrafficUsers);      *)
(*   - the traffic reset job, which selects ids, clears them in batches    *)
(*     and then re-activates the LIMITED ones;                             *)
(*   - the serial bulk job, which updates the table id range by id range   *)
(*     and then re-synchronises the statuses.                              *)
(* Traffic accounting runs beside them.                                    *)
(*                                                                         *)
(* Sending the users to the nodes is the subject of another module.        *)
(***************************************************************************)
EXTENDS Naturals, FiniteSets

CONSTANTS
    Users,       \* ids the database may hand out, each at most once
    Requests,    \* API requests and modify-many jobs that can run at once
    MaxTime,     \* last instant of the modelled time
    MaxBytes,    \* largest traffic counter or limit
    NPasses,     \* the reset strategies, numbered in the order resetAll
                 \* visits them
    Rolling,     \* the pass (MONTH_ROLLING) that only takes users whose
                 \* monthly anniversary is today
    Keep,        \* "undefined" in an update: the column keeps its value
    Jobs         \* bound: the kinds of multi-statement job that get started

Time   == 0..MaxTime
Bytes  == 0..MaxBytes
Passes == 1..NPasses
Live   == {"ACTIVE", "LIMITED", "EXPIRED", "DISABLED"}
Status == Live \cup {"NONE", "DELETED"}     \* no row yet, row deleted

ASSUME BoundsAssumption == MaxTime \in Nat /\ MaxBytes \in Nat
ASSUME PassesAssumption == NPasses \in Nat \ {0}
ASSUME JobsAssumption   == Jobs \subseteq {"extend", "reset", "serial"}
ASSUME KeepAssumption   == Keep \notin Nat /\ Keep \notin Status

VARIABLES
    now,        \* the clock
    status,     \* [Users -> Status]
    limit,      \* trafficLimitBytes, 0 for unlimited
    used,       \* usedTrafficBytes
    expireAt,   \* expiration date
    strategy,   \* trafficLimitStrategy, as the pass that resets it
    request,    \* what each request has read and is about to write
    extending,  \* ids between the two statements of bulkExtendExpirationDate
    usage,      \* bytes in the update-users-usage job being processed
    reset,      \* the traffic reset job
    serial,     \* the serial bulk job
    excuse      \* history: why a user's status may not match its columns

rowVars == <<status, limit, used, expireAt, strategy>>
vars    == <<now, rowVars, request, extending, usage, reset, serial, excuse>>

(***************************************************************************)
(* History: the only reasons for which a status may disagree with the      *)
(* columns it is derived from (the first one is kept).                     *)
(*   created    the row was inserted with that status                      *)
(*   raced      a request wrote a row that had changed since it read it,   *)
(*              or the strategy was changed under a running reset job      *)
(*   overlooked the request asked for DISABLED together with a new date,   *)
(*              and the code does neither DISABLED nor ACTIVE              *)
(*   partial    a later statement of a multi-statement job failed          *)
(***************************************************************************)
Excuse == {"none", "created", "raced", "overlooked", "partial"}

Seen == [status: Live, limit: Bytes, expireAt: Time]

Idle == [pc |-> "idle"]

Writing ==
    [pc: {"write"}, op: {"update", "status", "extend", "reset", "delete"},
     user: Users, seen: Seen,
     status: Live \cup {Keep}, limit: Bytes \cup {Keep},
     expireAt: Time \cup {Keep}, strategy: Passes \cup {Keep},
     enables: BOOLEAN,      \* an administrator asked for ACTIVE
     overlooks: BOOLEAN]    \* see "overlooked" above

ResetIdle   == [pc |-> "idle"]
ResetBusy   == [pc: {"select", "batch"}, pass: Passes, last: Passes,
                ids: SUBSET Users, due: SUBSET Users]

SerialIdle  == [pc |-> "idle"]
SerialBusy  == [pc: {"ranges", "syncLimited", "syncExpired", "delete"},
                left: SUBSET Users, status: Live \cup {Keep},
                limit: Bytes \cup {Keep}, expireAt: Time \cup {Keep},
                strategy: Passes \cup {Keep}, days: Time]

TypeOK ==
    /\ now \in Time
    /\ status \in [Users -> Status]
    /\ limit \in [Users -> Bytes]
    /\ used \in [Users -> Bytes]
    /\ expireAt \in [Users -> Time]
    /\ strategy \in [Users -> Passes]
    /\ request \in [Requests -> {Idle} \cup Writing]
    /\ extending \in SUBSET Users
    /\ usage \in [Users -> Bytes]
    /\ reset \in {ResetIdle} \cup ResetBusy
    /\ serial \in {SerialIdle} \cup SerialBusy
    /\ excuse \in [Users -> Excuse]

Init ==
    /\ now = 0
    /\ status = [u \in Users |-> "NONE"]
    /\ limit = [u \in Users |-> 0]
    /\ used = [u \in Users |-> 0]
    /\ expireAt = [u \in Users |-> 0]
    /\ strategy \in [Users -> Passes]
    /\ request = [r \in Requests |-> Idle]
    /\ extending = {}
    /\ usage = [u \in Users |-> 0]
    /\ reset = ResetIdle
    /\ serial = SerialIdle
    /\ excuse = [u \in Users |-> "none"]

-----------------------------------------------------------------------------
(* Helpers *)

Rows      == {u \in Users : status[u] \in Live}
Choose(new, old) == IF new = Keep THEN old ELSE new
Smaller(a, b)    == IF a <= b THEN a ELSE b
Later(a, b)      == IF a <= b THEN b ELSE a

\* What updateExceededTrafficUsers looks for, status apart.
OverLimit(u) == limit[u] # 0 /\ used[u] >= limit[u]

Excused(S, why) ==
    excuse' = [u \in Users |-> IF u \in S /\ excuse[u] = "none" THEN why ELSE excuse[u]]

Tick ==
    /\ now < MaxTime
    /\ now' = now + 1
    /\ UNCHANGED <<rowVars, request, extending, usage, reset, serial, excuse>>

-----------------------------------------------------------------------------
(* API requests.  Each reads the row here ... *)

SeenOf(u) == [status |-> status[u], limit |-> limit[u], expireAt |-> expireAt[u]]

Begin(r, op, u, st, lim, exp, strat, enables, overlooks) ==
    /\ request[r] = Idle
    /\ u \in Rows
    /\ request' = [request EXCEPT ![r] =
            [pc |-> "write", op |-> op, user |-> u, seen |-> SeenOf(u),
             status |-> st, limit |-> lim, expireAt |-> exp, strategy |-> strat,
             enables |-> enables, overlooks |-> overlooks]]
    /\ UNCHANGED <<now, rowVars, extending, usage, reset, serial, excuse>>

\* The status updateUser decides on: Keep when no rule applies.  The request
\* schema only lets ACTIVE, DISABLED or nothing through.
DecidedStatus(u, st, lim, exp) ==
    IF status[u] = "ACTIVE"
    THEN IF st = "DISABLED" THEN "DISABLED" ELSE Keep
    ELSE IF \/ st = "ACTIVE"
            \/ /\ status[u] = "LIMITED"
               /\ lim # Keep
               /\ lim > limit[u] \/ lim = 0
            \/ /\ status[u] = "EXPIRED"
               /\ exp # Keep /\ st = Keep
               /\ exp # expireAt[u] /\ exp > now
         THEN "ACTIVE" ELSE Keep

UpdateUser(r) ==
    \E u \in Rows, st \in {"ACTIVE", "DISABLED", Keep}, lim \in Bytes \cup {Keep},
       exp \in {t \in Time : t > now} \cup {Keep} :
      \E strat \in (Passes \ {strategy[u]}) \cup {Keep} :
        Begin(r, "update", u, DecidedStatus(u, st, lim, exp), lim, exp, strat,
              st = "ACTIVE",
              status[u] = "EXPIRED" /\ st = "DISABLED" /\ exp # Keep)

DisableUser(r) ==
    \E u \in Rows :
        /\ status[u] # "DISABLED"
        /\ Begin(r, "status", u, "DISABLED", Keep, Keep, Keep, FALSE, FALSE)

EnableUser(r) ==
    \E u \in Rows :
        /\ status[u] # "ACTIVE"
        /\ Begin(r, "status", u, "ACTIVE", Keep, Keep, Keep, TRUE, FALSE)

\* Mutant: whoever gets more time gets the access back with it.
ExtendActivates(r) ==
    \E u \in Rows, days \in Time \ {0} :
        /\ Later(expireAt[u], now) + days \in Time
        /\ Begin(r, "extend", u, "ACTIVE", Keep, Later(expireAt[u], now) + days, Keep,
                 FALSE, FALSE)

\* Writes back the status it read unless that was EXPIRED.
ExtendUserExpirationDate(r) ==
    \E u \in Rows, days \in Time \ {0} :
        /\ Later(expireAt[u], now) + days \in Time
        /\ Begin(r, "extend", u,
                 IF status[u] = "EXPIRED" THEN "ACTIVE" ELSE status[u],
                 Keep, Later(expireAt[u], now) + days, Keep, FALSE, FALSE)

\* Mutant: a reset re-activates whatever the status was.
ResetActivates(r) ==
    \E u \in Rows : Begin(r, "reset", u, "ACTIVE", Keep, Keep, Keep, FALSE, FALSE)

ResetUserTraffic(r) ==
    \E u \in Rows :
        Begin(r, "reset", u, IF status[u] = "LIMITED" THEN "ACTIVE" ELSE Keep,
              Keep, Keep, Keep, FALSE, FALSE)

DeleteUser(r) ==
    \E u \in Rows : Begin(r, "delete", u, Keep, Keep, Keep, Keep, FALSE, FALSE)

(* ... and writes it here, whatever happened to the row in between. *)

Finish(r) == request' = [request EXCEPT ![r] = Idle]

Stale(r) == request[r].seen # SeenOf(request[r].user)

\* A new strategy takes the row out of (or into) a reset job under way.
MovesUnderReset(u, strat) ==
    strat # Keep /\ strat # strategy[u] /\ reset # ResetIdle

Write(r) ==
    LET q == request[r]
        u == request[r].user IN
    /\ q # Idle
    /\ q.op # "delete"
    /\ u \in Rows
    /\ status' = [status EXCEPT ![u] = Choose(q.status, @)]
    /\ limit' = [limit EXCEPT ![u] = Choose(q.limit, @)]
    /\ expireAt' = [expireAt EXCEPT ![u] = Choose(q.expireAt, @)]
    /\ strategy' = [strategy EXCEPT ![u] = Choose(q.strategy, @)]
    /\ used' = [used EXCEPT ![u] = IF q.op = "reset" THEN 0 ELSE @]
    /\ Finish(r)
    /\ IF Stale(r) \/ MovesUnderReset(u, q.strategy) THEN Excused({u}, "raced")
       ELSE IF q.overlooks THEN Excused({u}, "overlooked")
       ELSE UNCHANGED excuse
    /\ UNCHANGED <<now, extending, usage, reset, serial>>

Delete(S) ==
    /\ status' = [u \in Users |-> IF u \in S THEN "DELETED" ELSE status[u]]
    /\ limit' = [u \in Users |-> IF u \in S THEN 0 ELSE limit[u]]
    /\ used' = [u \in Users |-> IF u \in S THEN 0 ELSE used[u]]
    /\ expireAt' = [u \in Users |-> IF u \in S THEN 0 ELSE expireAt[u]]
    /\ excuse' = [u \in Users |-> IF u \in S THEN "none" ELSE excuse[u]]
    /\ UNCHANGED strategy

WriteDelete(r) ==
    /\ request[r] # Idle
    /\ request[r].op = "delete"
    /\ request[r].user \in Rows
    /\ Delete({request[r].user})
    /\ Finish(r)
    /\ UNCHANGED <<now, extending, usage, reset, serial>>

\* The row is gone or the statement fails otherwise, and so does the request.
WriteFails(r) ==
    /\ request[r] # Idle
    /\ Finish(r)
    /\ UNCHANGED <<now, rowVars, extending, usage, reset, serial, excuse>>

\* One INSERT; the request schema accepts any status and any date.
CreateUser ==
    \E u \in Users, st \in Live, lim \in Bytes, exp \in Time, strat \in Passes :
        /\ status[u] = "NONE"
        /\ status' = [status EXCEPT ![u] = st]
        /\ limit' = [limit EXCEPT ![u] = lim]
        /\ used' = [used EXCEPT ![u] = 0]
        /\ expireAt' = [expireAt EXCEPT ![u] = exp]
        /\ strategy' = [strategy EXCEPT ![u] = strat]
        /\ IF st = "LIMITED" \/ (st = "EXPIRED" /\ exp > now)
           THEN Excused({u}, "created") ELSE UNCHANGED excuse
        /\ UNCHANGED <<now, request, extending, usage, reset, serial>>

(* bulkExtendExpirationDate: two statements over the same ids. *)

BulkExtendExpirationDateByUserIds ==
    \E S \in SUBSET Rows, days \in Time \ {0} :
        /\ "extend" \in Jobs
        /\ extending = {} /\ S # {}
        /\ \A u \in S : expireAt[u] + days \in Time
        /\ expireAt' = [u \in Users |-> IF u \in S THEN expireAt[u] + days ELSE expireAt[u]]
        /\ extending' = S
        /\ UNCHANGED <<now, status, limit, used, strategy, request, usage, reset,
                       serial, excuse>>

\* Mutant: the date is not looked at.
RevivedAlways(S) == {u \in S : status[u] = "EXPIRED"}

\* EXPIRED rows of S with a date in the future become ACTIVE.
Revived(S) == {u \in S : status[u] = "EXPIRED" /\ expireAt[u] > now}

BulkSyncExpiredUsersByUserIds ==
    /\ extending # {}
    /\ \/ /\ status' = [u \in Users |-> IF u \in Revived(extending)
                                        THEN "ACTIVE" ELSE status[u]]
          /\ UNCHANGED excuse
       \/ /\ Excused(extending, "partial")      \* the second statement fails
          /\ UNCHANGED status
    /\ extending' = {}
    /\ UNCHANGED <<now, limit, used, expireAt, strategy, request, usage, reset, serial>>

-----------------------------------------------------------------------------
(* The watchdog: one UPDATE each. *)

\* Mutant: only ACTIVE users expire.
UpdateExpiredActiveUsers ==
    /\ \E u \in Users : status[u] = "ACTIVE" /\ expireAt[u] < now
    /\ status' = [u \in Users |->
            IF status[u] = "ACTIVE" /\ expireAt[u] < now THEN "EXPIRED" ELSE status[u]]
    /\ UNCHANGED <<now, limit, used, expireAt, strategy, request, extending, usage,
                   reset, serial, excuse>>

UpdateExpiredUsers ==
    /\ \E u \in Users : status[u] \in {"ACTIVE", "LIMITED"} /\ expireAt[u] < now
    /\ status' = [u \in Users |->
            IF status[u] \in {"ACTIVE", "LIMITED"} /\ expireAt[u] < now
            THEN "EXPIRED" ELSE status[u]]
    /\ UNCHANGED <<now, limit, used, expireAt, strategy, request, extending, usage,
                   reset, serial, excuse>>

\* Mutant: who is over the limit is limited, expired or not.
UpdateExceededExpiredUsers ==
    /\ \E u \in Users : status[u] \in {"ACTIVE", "EXPIRED"} /\ OverLimit(u)
    /\ status' = [u \in Users |-> IF status[u] \in {"ACTIVE", "EXPIRED"} /\ OverLimit(u)
                                  THEN "LIMITED" ELSE status[u]]
    /\ UNCHANGED <<now, limit, used, expireAt, strategy, request, extending, usage,
                   reset, serial, excuse>>

UpdateExceededTrafficUsers ==
    /\ \E u \in Users : status[u] = "ACTIVE" /\ OverLimit(u)
    /\ status' = [u \in Users |->
            IF status[u] = "ACTIVE" /\ OverLimit(u) THEN "LIMITED" ELSE status[u]]
    /\ UNCHANGED <<now, limit, used, expireAt, strategy, request, extending, usage,
                   reset, serial, excuse>>

-----------------------------------------------------------------------------
(* Traffic accounting: the reset job pauses the queue, so no job STARTS    *)
(* while it runs, but it waits for the active ones only a limited time.    *)

NoUsage == [u \in Users |-> 0]

UsageStart ==
    \E u \in Rows, b \in Bytes \ {0} :
        /\ usage = NoUsage
        /\ reset = ResetIdle
        /\ usage' = [usage EXCEPT ![u] = b]
        /\ UNCHANGED <<now, rowVars, request, extending, reset, serial, excuse>>

BulkIncrementUsedTraffic ==
    /\ usage # NoUsage
    /\ \/ used' = [u \in Users |-> IF u \in Rows
                                   THEN Smaller(used[u] + usage[u], MaxBytes) ELSE used[u]]
       \/ UNCHANGED used                        \* the statement fails
    /\ usage' = NoUsage
    /\ UNCHANGED <<now, status, limit, expireAt, strategy, request, extending, reset,
                   serial, excuse>>

-----------------------------------------------------------------------------
(* The traffic reset job: one strategy, or all of them in turn. *)

InPass(u) == strategy[u] = reset.pass /\ (reset.pass = Rolling => u \in reset.due)

ResetJobStart ==
    \E first \in Passes, last \in Passes, due \in SUBSET Users :
        /\ "reset" \in Jobs
        /\ reset = ResetIdle
        /\ first = last \/ \A p \in Passes : first <= p /\ p <= last
        /\ reset' = [pc |-> "select", pass |-> first, last |-> last,
                     ids |-> {}, due |-> due]
        /\ UNCHANGED <<now, rowVars, request, extending, usage, serial, excuse>>

ResetSelect ==
    /\ reset.pc = "select"
    /\ reset' = [reset EXCEPT !.pc = "batch",
                              !.ids = {u \in Rows : status[u] # "LIMITED" /\ InPass(u)}]
    /\ UNCHANGED <<now, rowVars, request, extending, usage, serial, excuse>>

\* One batch of the selected ids; their status is not looked at again.
ResetBatch ==
    /\ reset.pc = "batch"
    /\ \E B \in SUBSET reset.ids :
        /\ B # {}
        /\ used' = [u \in Users |-> IF u \in B \cap Rows THEN 0 ELSE used[u]]
        /\ reset' = [reset EXCEPT !.ids = @ \ B]
    /\ UNCHANGED <<now, status, limit, expireAt, strategy, request, extending, usage,
                   serial, excuse>>

\* A failed batch ends the statement; the job goes on to the LIMITED users.
ResetBatchFails ==
    /\ reset.pc = "batch"
    /\ reset.ids # {}
    /\ reset' = [reset EXCEPT !.ids = {}]
    /\ UNCHANGED <<now, rowVars, request, extending, usage, serial, excuse>>

NextPass ==
    reset' = IF reset.pass < reset.last
             THEN [reset EXCEPT !.pc = "select", !.pass = @ + 1] ELSE ResetIdle

ResetLimitedUserTraffic ==
    LET L == {u \in Users : status[u] = "LIMITED" /\ InPass(u)} IN
    /\ reset.pc = "batch"
    /\ reset.ids = {}
    /\ \/ /\ status' = [u \in Users |-> IF u \in L THEN "ACTIVE" ELSE status[u]]
          /\ used' = [u \in Users |-> IF u \in L THEN 0 ELSE used[u]]
          /\ UNCHANGED excuse
       \/ /\ Excused(L, "partial")              \* the statement fails
          /\ UNCHANGED <<status, used>>
    /\ NextPass
    /\ UNCHANGED <<now, limit, expireAt, strategy, request, extending, usage, serial>>

-----------------------------------------------------------------------------
(* The serial bulk job: bulkUpdateAllUsers, bulkAllExtendExpirationDate    *)
(* (days # 0) and bulkDeleteByStatus, one at a time.                       *)

SerialStart(pc, st, lim, exp, strat, days) ==
    /\ "serial" \in Jobs
    /\ serial = SerialIdle
    /\ serial' = [pc |-> pc, left |-> Rows, status |-> st, limit |-> lim,
                  expireAt |-> exp, strategy |-> strat, days |-> days]
    /\ UNCHANGED <<now, rowVars, request, extending, usage, reset, excuse>>

BulkUpdateAllUsers ==
    \E st \in {"ACTIVE", "DISABLED", Keep}, lim \in Bytes \cup {Keep},
       exp \in {t \in Time : t > now} \cup {Keep}, strat \in Passes \cup {Keep} :
        SerialStart("ranges", st, lim, exp, strat, 0)

BulkAllExtendExpirationDate ==
    \E days \in Time \ {0} : SerialStart("ranges", Keep, Keep, Keep, Keep, days)

BulkDeleteByStatus == \E st \in Live : SerialStart("delete", st, Keep, Keep, Keep, 0)

\* One id range (one user here).
SerialRange ==
    /\ serial.pc = "ranges"
    /\ \E u \in serial.left :
        /\ expireAt[u] + serial.days \in Time
        /\ serial' = [serial EXCEPT !.left = @ \ {u}]
        /\ IF u \in Rows
           THEN /\ status' = [status EXCEPT ![u] = Choose(serial.status, @)]
                /\ limit' = [limit EXCEPT ![u] = Choose(serial.limit, @)]
                /\ expireAt' = [expireAt EXCEPT ![u] =
                                    Choose(serial.expireAt, @ + serial.days)]
                /\ strategy' = [strategy EXCEPT ![u] = Choose(serial.strategy, @)]
                /\ IF MovesUnderReset(u, serial.strategy)
                   THEN Excused({u}, "raced") ELSE UNCHANGED excuse
           ELSE UNCHANGED <<status, limit, expireAt, strategy, excuse>>
    /\ UNCHANGED <<now, used, request, extending, usage, reset>>

\* All ranges done, or one failed: the synchronisations run either way.
SerialRangesEnd ==
    /\ serial.pc = "ranges"
    /\ serial' = [serial EXCEPT !.pc = "syncLimited", !.left = {}]
    /\ UNCHANGED <<now, rowVars, request, extending, usage, reset, excuse>>

\* Mutant: users without a limit are forgotten.
UnlimitedBelow(u) ==
    status[u] = "LIMITED" /\ ((limit[u] # 0 /\ used[u] < limit[u]) \/ used[u] = 0)

\* LIMITED rows the watchdog would not limit again, or that used nothing.
Unlimited(u) == status[u] = "LIMITED" /\ (~OverLimit(u) \/ used[u] = 0)

SerialSyncLimited ==
    /\ serial.pc = "syncLimited"
    /\ IF serial.limit = Keep THEN UNCHANGED <<status, excuse>>
       ELSE \/ /\ status' = [u \in Users |-> IF Unlimited(u) THEN "ACTIVE" ELSE status[u]]
               /\ UNCHANGED excuse
            \/ /\ Excused(Rows, "partial")
               /\ UNCHANGED status
    /\ serial' = [serial EXCEPT !.pc = "syncExpired"]
    /\ UNCHANGED <<now, limit, used, expireAt, strategy, request, extending, usage, reset>>

\* Mutant: only a bulk update synchronises, not a bulk extension.
SerialSyncExpiredOfUpdate ==
    /\ serial.pc = "syncExpired"
    /\ status' = [u \in Users |-> IF serial.expireAt # Keep /\ u \in Revived(Users)
                                  THEN "ACTIVE" ELSE status[u]]
    /\ serial' = SerialIdle
    /\ UNCHANGED <<now, limit, used, expireAt, strategy, request, extending, usage, reset,
                   excuse>>

\* bulkSyncExpiredUsers, then the restart of the nodes ends the job.
SerialSyncExpired ==
    /\ serial.pc = "syncExpired"
    /\ IF serial.expireAt = Keep /\ serial.days = 0 THEN UNCHANGED <<status, excuse>>
       ELSE \/ /\ status' = [u \in Users |-> IF u \in Revived(Users)
                                             THEN "ACTIVE" ELSE status[u]]
               /\ UNCHANGED excuse
            \/ /\ Excused(Rows, "partial")
               /\ UNCHANGED status
    /\ serial' = SerialIdle
    /\ UNCHANGED <<now, limit, used, expireAt, strategy, request, extending, usage, reset>>

\* Deletes chunk after chunk until a chunk is empty.
SerialDelete ==
    LET D == {u \in Users : status[u] = serial.status} IN
    /\ serial.pc = "delete"
    /\ \/ /\ D = {}
          /\ serial' = SerialIdle
          /\ UNCHANGED <<rowVars, excuse>>
       \/ \E C \in SUBSET D :
            /\ C # {}
            /\ Delete(C)
            /\ UNCHANGED serial
    /\ UNCHANGED <<now, request, extending, usage, reset>>

-----------------------------------------------------------------------------
RequestStep(r) ==
    \/ UpdateUser(r) \/ DisableUser(r) \/ EnableUser(r)
    \/ ExtendUserExpirationDate(r) \/ ResetUserTraffic(r) \/ DeleteUser(r)
    \/ Write(r) \/ WriteDelete(r) \/ WriteFails(r)

Watchdog == UpdateExpiredUsers \/ UpdateExceededTrafficUsers

Accounting == UsageStart \/ BulkIncrementUsedTraffic

ResetStep ==
    \/ ResetJobStart \/ ResetSelect \/ ResetBatch \/ ResetBatchFails
    \/ ResetLimitedUserTraffic

SerialStep ==
    \/ BulkUpdateAllUsers \/ BulkAllExtendExpirationDate \/ BulkDeleteByStatus
    \/ SerialRange \/ SerialRangesEnd \/ SerialSyncLimited \/ SerialSyncExpired
    \/ SerialDelete

Next ==
    \/ Tick \/ CreateUser
    \/ \E r \in Requests : RequestStep(r)
    \/ BulkExtendExpirationDateByUserIds \/ BulkSyncExpiredUsersByUserIds
    \/ Watchdog \/ Accounting \/ ResetStep \/ SerialStep

Spec == Init /\ [][Next]_vars

\* The two cron jobs are queued every 30 and 45 seconds for ever, under a fixed
\* job id, so each UPDATE runs again whenever it has rows to change.
FairSpec ==
    /\ Spec
    /\ WF_vars(UpdateExpiredUsers)
    /\ WF_vars(UpdateExceededTrafficUsers)

-----------------------------------------------------------------------------
(* Properties *)

LimitedInTransit(u) ==
    \/ serial.pc \in {"ranges", "syncLimited"} /\ serial.limit # Keep
    \/ reset.pc = "batch" /\ InPass(u)

\* A LIMITED user has used up the limit, unless a job that will look at the
\* user again is under way or one of the recorded races happened: no sequence
\* of whole requests, watchdog runs and completed jobs leaves a user without
\* access who has traffic left.
LimitedHasReason ==
    \A u \in Users : status[u] = "LIMITED" =>
        OverLimit(u) \/ LimitedInTransit(u) \/ excuse[u] # "none"

ExpiredInTransit(u) ==
    \/ u \in extending
    \/ /\ serial.pc \in {"ranges", "syncLimited", "syncExpired"}
       /\ serial.expireAt # Keep \/ serial.days # 0

\* An EXPIRED user's date has come, with the same reservations: whoever was
\* given a later date got the access back with it.
ExpiredHasReason ==
    \A u \in Users : status[u] = "EXPIRED" =>
        expireAt[u] <= now \/ ExpiredInTransit(u) \/ excuse[u] # "none"

\* What an administrator disabled stays disabled: the only ways out are a
\* request for ACTIVE, a bulk update to ACTIVE, or a request that had read the
\* row before it was disabled and writes back what it decided then.
Disabled(u)   == status[u] = "DISABLED"
EndsNow(r, u) == /\ request[r] # Idle /\ request'[r] = Idle
                 /\ request[r].user = u
                 /\ request[r].enables \/ request[r].seen.status # "DISABLED"
BulkActive(u) == serial.pc = "ranges" /\ serial.status = "ACTIVE" /\ u \in serial.left
DisabledStays ==
    \A u \in Users : Disabled(u) /\ status'[u] \notin {"DISABLED", "DELETED"} =>
        BulkActive(u) \/ \E r \in Requests : EndsNow(r, u)
DisabledSticks == [][DisabledStays]_vars

\* No background job gives access back to a user who is still over the limit or
\* past the date: LIMITED -> ACTIVE outside a request leaves traffic to use,
\* EXPIRED -> ACTIVE leaves time.
Background == request' = request /\ ~(serial.pc = "ranges")
Earned ==
    Background => \A u \in Users : status'[u] = "ACTIVE" =>
        /\ status[u] = "LIMITED" => ~OverLimit(u)'
        /\ status[u] = "EXPIRED" => expireAt'[u] > now'
ReactivationEarned == [][Earned]_vars

\* Whatever statements it takes, the system goes through the life cycle of its users:
\* each step is one of the transitions named there, or changes nothing the users see.
Lifecycle ==
    INSTANCE UserLifecycle WITH
        limitChecks <- {u \in Users : LimitedInTransit(u)},
        dateChecks  <- {u \in Users : ExpiredInTransit(u)},
        pardoned    <- {u \in Users : excuse[u] # "none"}
LifecycleSpec == Lifecycle!Spec

\* Every user past the date eventually loses ACTIVE or LIMITED (or gets a later
\* date), and every ACTIVE user over the limit eventually loses ACTIVE (or the
\* limit is raised), whatever requests and jobs keep doing.
Overdue(u) == status[u] \in {"ACTIVE", "LIMITED"} /\ expireAt[u] < now
Exceeding(u) == status[u] = "ACTIVE" /\ OverLimit(u)
AccessEnds ==
    \A u \in Users : (Overdue(u) ~> ~Overdue(u)) /\ (Exceeding(u) ~> ~Exceeding(u))

-----------------------------------------------------------------------------
(* The inductive invariant *)

\* What a request under way has decided agrees with the row it has read: it
\* keeps LIMITED only if it does not make room, EXPIRED only if it does not move
\* the date into the future (or is the overlooked combination), and leaves
\* DISABLED only when asked to.
RequestOK ==
    \A r \in Requests : request[r] # Idle =>
        LET q == request[r] IN
        /\ q.status # "EXPIRED"
        /\ q.status = "LIMITED" => q.seen.status = "LIMITED"
        /\ q.op # "delete" /\ q.seen.status = "LIMITED" /\ q.status \in {Keep, "LIMITED"} =>
                /\ q.op # "reset"
                /\ q.limit # Keep => q.limit > 0 /\ q.limit <= q.seen.limit
        /\ q.op # "delete" /\ q.seen.status = "EXPIRED" /\ q.status = Keep =>
                \/ q.expireAt = Keep
                \/ q.expireAt = q.seen.expireAt
                \/ q.expireAt <= now
                \/ q.overlooks
        /\ q.seen.status = "DISABLED" /\ ~q.enables => q.status \in {Keep, "DISABLED"}

\* Ids a reset job still has to clear belong to its pass.
ResetOK ==
    reset.pc = "batch" => \A u \in reset.ids :
        /\ status[u] # "NONE"
        /\ status[u] # "DELETED" /\ excuse[u] = "none" => InPass(u)

\* Bulk updates never write LIMITED or EXPIRED.
SerialOK == serial # SerialIdle /\ serial.pc # "delete" =>
                serial.status \in {"ACTIVE", "DISABLED", Keep}

\* The inductive invariant behind LimitedHasReason and ExpiredHasReason.
StatusInv ==
    /\ TypeOK
    /\ RequestOK
    /\ ResetOK
    /\ SerialOK
    /\ LimitedHasReason
    /\ ExpiredHasReason
=============================================================================
