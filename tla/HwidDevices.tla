----------------------------- MODULE HwidDevices ----------------------------
(***************************************************************************)
(* The devices of one user (hwid-user-devices.service.ts, the device check *)
(* of subscription.service.ts and the upsert job of the                    *)
(* subscription-requests queue).                                           *)
(*                                                                         *)
(* A subscription is served to a device that is registered or for which    *)
(* there is room; the room is counted and the device created under an      *)
(* advisory lock of the user.  The API counts and creates without the      *)
(* lock, and where no limit is enforced the device is put down afterwards, *)
(* by a job that does not count.                                           *)
(***************************************************************************)
EXTENDS Naturals, FiniteSets

CONSTANTS
    Devices,
    Callers,       \* requests that run at the same time
    Limits,        \* what the user's hwidDeviceLimit may be
    Default,       \* null: the limit of the settings holds
    Fallback,      \* that limit
    MaxRequests,   \* bound: how many requests are made
    MaxChanges,    \* bound: how often an administrator changes or deletes something
    HwidFaults     \* bound: what may fail.  "crash": the worker of the jobs

Nobody == "nobody"

ASSUME DevicesAssumption    == IsFiniteSet(Devices) /\ Nobody \notin Devices
ASSUME LimitsAssumption     == Limits \subseteq Nat \cup {Default} /\ Default \notin Nat
ASSUME FallbackAssumption   == Fallback \in Nat
ASSUME BoundsAssumption     == MaxRequests \in Nat /\ MaxChanges \in Nat
ASSUME HwidFaultsAssumption == HwidFaults \subseteq {"crash"}

VARIABLES
    enabled,       \* hwidSettings.enabled, of the settings or of the squad
    limit,         \* hwidDeviceLimit of the user
    devices,       \* registered devices
    caller,        \* [Callers -> a request on its way]
    locking,       \* callers that hold the advisory lock
    job,           \* [Devices -> the upsert job of the device]
    requests, changes,
    served,        \* devices that were served and not deleted since
    gone,          \* devices that were deleted, and that nobody asked for since
    excuse         \* why there may be more devices than the limit

hwidVars == <<enabled, limit, devices, caller, locking, job, requests, changes,
              served, gone, excuse>>

Caller == [pc: {"idle", "check", "known", "lock", "insert", "count", "create"},
           device: Devices \cup {Nobody}, room: Nat]
NoRequest == [pc |-> "idle", device |-> Nobody, room |-> 0]

\* user.hwidDeviceLimit ?? hwidSettings.fallbackDeviceLimit
DeviceLimit == IF limit = Default THEN Fallback ELSE limit

HwidTypeOK ==
    /\ enabled \in BOOLEAN
    /\ limit \in Limits
    /\ devices \subseteq Devices
    /\ caller \in [Callers -> Caller]
    /\ locking \subseteq Callers /\ Cardinality(locking) <= 1
    /\ job \in [Devices -> {"none", "waiting", "active"}]
    /\ requests \in 0..MaxRequests
    /\ changes \in 0..MaxChanges
    /\ served \subseteq Devices
    /\ gone \subseteq Devices
    /\ excuse \subseteq {"job", "api", "change"}

HwidInit ==
    /\ enabled \in BOOLEAN
    /\ limit \in Limits
    /\ devices = {}
    /\ caller = [c \in Callers |-> NoRequest]
    /\ locking = {}
    /\ job = [d \in Devices |-> "none"]
    /\ requests = 0 /\ changes = 0
    /\ served = {} /\ gone = {} /\ excuse = {}

-----------------------------------------------------------------------------
(* The upsert job (UPSERT_HWID_DEVICE).                                      *)

\* Mutant of Upsert: a device is refreshed, never created.
UpsertUpdates(d) ==
    /\ job[d] = "waiting"
    /\ job' = [job EXCEPT ![d] = "active"]
    /\ UNCHANGED <<enabled, limit, devices, caller, locking, requests, changes,
                   served, gone, excuse>>

\* The device is created or its data refreshed, whatever the limit.
Upsert(d) ==
    /\ job[d] = "waiting"
    /\ job' = [job EXCEPT ![d] = "active"]
    /\ devices' = devices \cup {d}
    /\ excuse' = excuse \cup {"job" : x \in {d} \ devices}
    /\ UNCHANGED <<enabled, limit, caller, locking, requests, changes, served, gone>>

\* Mutant of UpsertDone: the job is added again, to refresh the device later.
UpsertRepeats(d) ==
    /\ job[d] = "active"
    /\ job' = [job EXCEPT ![d] = "waiting"]
    /\ UNCHANGED <<enabled, limit, devices, caller, locking, requests, changes,
                   served, gone, excuse>>

\* Whether it worked or not, the job is over.
UpsertDone(d) ==
    /\ job[d] = "active"
    /\ job' = [job EXCEPT ![d] = "none"]
    /\ UNCHANGED <<enabled, limit, devices, caller, locking, requests, changes,
                   served, gone, excuse>>

\* The worker dies, and another takes the job up again.
UpsertStalls(d) ==
    /\ "crash" \in HwidFaults
    /\ job[d] = "active"
    /\ job' = [job EXCEPT ![d] = "waiting"]
    /\ gone' = gone \ {d}
    /\ UNCHANGED <<enabled, limit, devices, caller, locking, requests, changes,
                   served, excuse>>


-----------------------------------------------------------------------------
(* Subscriptions (checkHwidDeviceLimit).                                     *)

Request(c) ==
    /\ caller[c] = NoRequest
    /\ requests < MaxRequests
    /\ requests' = requests + 1

\* The user and the settings are read.  Without a limit the device is only put
\* down; a client that does not say which device it is gets nothing, and changes
\* nothing.
Subscribe(c, d) ==
    /\ Request(c)
    /\ caller' = [caller EXCEPT ![c] = [device |-> d, room |-> DeviceLimit,
          pc |-> IF enabled /\ limit # 0 THEN "check" ELSE "known"]]
    /\ gone' = gone \ {d}
    /\ UNCHANGED <<enabled, limit, devices, locking, job, changes, served, excuse>>

CheckExists(c) ==
    /\ caller[c].pc = "check"
    /\ caller' = [caller EXCEPT ![c].pc = IF caller[c].device \in devices THEN "known" ELSE "lock"]
    /\ UNCHANGED <<enabled, limit, devices, locking, job, requests, changes,
                   served, gone, excuse>>

\* The device is served and its job added, unless one waits or still runs.
ServeKnown(c) ==
    LET d == caller[c].device IN
    /\ caller[c].pc = "known"
    /\ job' = [job EXCEPT ![d] = IF @ = "none" THEN "waiting" ELSE @]
    /\ served' = IF job[d] = "active" THEN served ELSE served \cup {d}
    /\ caller' = [caller EXCEPT ![c] = NoRequest]
    /\ UNCHANGED <<enabled, limit, devices, locking, requests, changes, gone, excuse>>

\* Mutant of LockAndCount: the lock is taken for a device, not for the user.
LockDeviceAndCount(c) ==
    /\ caller[c].pc = "lock" /\ \A x \in locking : caller[x].device # caller[c].device
    /\ IF Cardinality(devices) >= caller[c].room
       THEN caller' = [caller EXCEPT ![c] = NoRequest] /\ UNCHANGED locking
       ELSE caller' = [caller EXCEPT ![c].pc = "insert"] /\ locking' = locking \cup {c}
    /\ UNCHANGED <<enabled, limit, devices, job, requests, changes, served, gone, excuse>>

\* createWithAdvisoryLock: the devices are counted under the lock; without room
\* the transaction ends, and the subscription is refused.
LockAndCount(c) ==
    /\ caller[c].pc = "lock" /\ locking = {}
    /\ IF Cardinality(devices) >= caller[c].room
       THEN caller' = [caller EXCEPT ![c] = NoRequest] /\ UNCHANGED locking
       ELSE caller' = [caller EXCEPT ![c].pc = "insert"] /\ locking' = {c}
    /\ UNCHANGED <<enabled, limit, devices, job, requests, changes, served, gone, excuse>>

\* The device is created and served; if it is there already, the transaction is
\* rolled back and the subscription refused.
Insert(c) ==
    LET d == caller[c].device IN
    /\ caller[c].pc = "insert"
    /\ devices' = devices \cup {d}
    /\ served' = IF d \in devices THEN served ELSE served \cup {d}
    /\ caller' = [caller EXCEPT ![c] = NoRequest]
    /\ locking' = locking \ {c}
    /\ UNCHANGED <<enabled, limit, job, requests, changes, gone, excuse>>

-----------------------------------------------------------------------------
(* The API (createUserHwidDevice, deleteUserHwidDevice,                      *)
(* deleteAllUserHwidDevices).                                                *)

\* The user is read; a device that exists is an error.
Create(c, d) ==
    /\ Request(c)
    /\ d \notin devices
    /\ caller' = [caller EXCEPT ![c] = [pc |-> "count", device |-> d, room |-> DeviceLimit]]
    /\ gone' = gone \ {d}
    /\ UNCHANGED <<enabled, limit, devices, locking, job, changes, served, excuse>>

\* A limit of 0 leaves no room here, where it leaves every room to subscriptions.
CreateCount(c) ==
    /\ caller[c].pc = "count"
    /\ caller' = [caller EXCEPT ![c] =
          IF enabled /\ Cardinality(devices) >= @.room THEN NoRequest
          ELSE [@ EXCEPT !.pc = "create"]]
    /\ UNCHANGED <<enabled, limit, devices, locking, job, requests, changes,
                   served, gone, excuse>>

CreateInsert(c) ==
    /\ caller[c].pc = "create"
    /\ devices' = devices \cup {caller[c].device}
    /\ excuse' = excuse \cup {"api" : x \in {caller[c].device} \ devices}
    /\ caller' = [caller EXCEPT ![c] = NoRequest]
    /\ UNCHANGED <<enabled, limit, locking, job, requests, changes, served, gone>>

\* Nobody who asked before is still to write the device.
Settled(d) == job[d] # "waiting" /\ \A c \in Callers : caller[c].device # d

Edit ==
    /\ changes < MaxChanges
    /\ changes' = changes + 1

Delete(D) ==
    /\ Edit
    /\ D \cap devices # {}
    /\ devices' = devices \ D
    /\ served' = served \ D
    /\ gone' = gone \cup {d \in D \cap devices : Settled(d)}
    /\ UNCHANGED <<enabled, limit, caller, locking, job, requests, excuse>>

\* updateUser, and the settings or another external squad.
UpdateLimit(l, e) ==
    /\ Edit
    /\ limit' = l /\ enabled' = e
    /\ excuse' = excuse \cup {"change"}
    /\ UNCHANGED <<devices, caller, locking, job, requests, served, gone>>

-----------------------------------------------------------------------------
CallerStep(c) ==
    \/ CheckExists(c) \/ ServeKnown(c) \/ LockAndCount(c) \/ Insert(c)
    \/ CreateCount(c) \/ CreateInsert(c)

HwidNext ==
    \/ \E c \in Callers : CallerStep(c) \/ \E d \in Devices : Subscribe(c, d) \/ Create(c, d)
    \/ \E d \in Devices : Upsert(d) \/ UpsertDone(d) \/ UpsertStalls(d) \/ Delete({d})
    \/ Delete(Devices)
    \/ \E l \in Limits, e \in BOOLEAN : UpdateLimit(l, e)

\* Requests go on (the lock is released with its transaction), and the queue has
\* a worker.
HwidFairness ==
    /\ \A c \in Callers : SF_hwidVars(CallerStep(c))
    /\ \A d \in Devices : WF_hwidVars(Upsert(d)) /\ WF_hwidVars(UpsertDone(d))

HwidSpec == HwidInit /\ [][HwidNext]_hwidVars /\ HwidFairness

-----------------------------------------------------------------------------
(* Properties.                                                               *)

\* Subscriptions alone never take a user past the limit, however many come at the
\* same time.  It takes the API, which counts without the lock, a job of a time
\* without a limit, or a change of the limit.
WithinLimit ==
    /\ HwidTypeOK
    /\ enabled /\ limit # 0 /\ excuse = {} => Cardinality(devices) <= DeviceLimit

\* A deleted device is gone for good: no count, job or transaction brings it back
\* unless someone asks for it again or had asked before, or a worker that died
\* had its job run twice.
GoneStaysGone == gone \cap devices = {}

\* A device that was served gets registered, unless it is deleted.
Registered == \A d \in Devices : d \in served ~> d \in devices \/ d \notin served

=============================================================================
