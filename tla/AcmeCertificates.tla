-------------------------- MODULE AcmeCertificates --------------------------
(***************************************************************************)
(* Certificates managed by the panel: how they are ordered, renewed and    *)
(* delivered to the nodes.                                                 *)
(*                                                                         *)
(* Four kinds of process share a certificate row:                          *)
(*   - API requests (acme-certificates.service.ts), several statements     *)
(*     each and no transaction around them;                                *)
(*   - the hourly scheduler (acme-renew.task.ts), which queries what is    *)
(*     due and then queues it, one job per certificate;                    *)
(*   - the worker that runs an order (acme-order.service.ts) from the row  *)
(*     it read at its start, and then restarts the bound nodes;            *)
(*   - the job that starts a node (start-node.processor.ts), which reads   *)
(*     the certificates of the node and sends them with its config.        *)
(*                                                                         *)
(* Time is relative: what is left of a validity and of a retry delay.      *)
(* The queues are BullMQ's: a job whose id exists already is not added.    *)
(***************************************************************************)
EXTENDS Naturals, FiniteSets

CONSTANTS
    Certs,         \* uuids of certificates, each used at most once
    Nodes,         \* nodes certificates are bound to
    Requests,      \* API requests that can run at once
    Params,        \* what an order asks for: domains, key type, CA, challenge
    Validity,      \* lifetime of an issued certificate
    RenewBefore,   \* renewBeforeDays
    MaxRetry,      \* MAX_RETRY_HOURS
    MaxFails,      \* bound on failCount; the delay does not grow beyond it
    Faults,        \* bound: the kinds of failure that happen.  "ca": an order
                   \* throws; "dns": the answer of the DNS provider is lost;
                   \* "db": a call of the database or of the queue fails;
                   \* "start": a node does not start;
                   \* "node": bindings name a node that does not exist;
                   \* "crash", "stall": a worker dies, and dies again
    None,          \* no parameters, no material
    Keep           \* a field an update leaves alone

ASSUME TimesAssumption ==
    /\ Validity \in Nat /\ RenewBefore \in Nat
    /\ MaxRetry \in Nat /\ MaxFails \in Nat
ASSUME DelaysAssumption == \A f \in 0..MaxFails : 2 ^ f \in Nat
ASSUME FaultsAssumption == Faults \subseteq {"ca", "dns", "db", "start", "node", "crash", "stall"}
ASSUME NoneAssumption   == None \notin Params /\ Keep \notin Params

VARIABLES
    cert,       \* [Certs -> Row], the table
    job,        \* [Certs -> JobState], the issue queue, keyed by certificate
    forced,     \* the job was queued by a manual "issue"
    stalled,    \* the job was lost once with its worker
    order,      \* [Certs -> Order], what the worker does
    litter,     \* certificates with a challenge record nobody will remove or
                \* has been told about
    queueing,   \* what the scheduler found due and has not queued yet
    request,    \* [Requests -> request under way]
    startJob,   \* [Nodes -> StartState], the start queue, keyed by node
    sending,    \* [Nodes -> Material], what the start job has read
    serving     \* [Nodes -> Material], what the node runs with

nodeVars == <<startJob, sending, serving>>
jobVars  == <<job, forced, stalled>>
vars     == <<cert, jobVars, order, litter, queueing, request, nodeVars>>

(* A row.  expires_at is what is left of the validity (0: expired); there is  *)
(* none as long as there is no material.  A row that was never created or was *)
(* deleted keeps nothing else.                                                *)
Row == [source: {"none", "ACME", "IMPORTED", "deleted"}, enabled: BOOLEAN,
        params: Params \cup {None}, issuedFor: Params \cup {None}, life: 0..Validity,
        status: {"PENDING", "ISSUING", "ACTIVE", "ERROR"}, fails: 0..MaxFails,
        retry: 0..MaxRetry, nodes: SUBSET Nodes]

NoRow == [source |-> "none", enabled |-> FALSE, params |-> None, issuedFor |-> None,
          life |-> 0, status |-> "PENDING", fails |-> 0, retry |-> 0, nodes |-> {}]

JobState   == {"none", "waiting", "active", "failed"}
StartState == {"none", "waiting", "read"}

\* A worker's order: the row it read, whether a challenge record of its own is
\* in the zone, and the nodes still to restart.
Order == [pc: {"idle", "begin", "solve", "failing", "cleanup", "restart"},
          params: Params \cup {None}, fails: 0..MaxFails, nodes: SUBSET Nodes,
          published: BOOLEAN]

NoOrder == [pc |-> "idle", params |-> None, fails |-> 0, nodes |-> {}, published |-> FALSE]

\* Which material of each certificate: none, the one now stored or an older one.
Material == [Certs -> {"none", "old", "current"}]
Nothing  == [c \in Certs |-> "none"]

NoRequest == [pc |-> "idle"]

Request ==
    [pc: {"unbind", "write", "mark", "enqueue", "restart"}, cert: Certs,
     params: Params \cup {Keep}, enabled: BOOLEAN \cup {Keep},
     nodes: (SUBSET Nodes) \cup {Keep},
     follow: {"nothing", "mark", "restart"}, left: SUBSET Nodes]

TypeOK ==
    /\ cert \in [Certs -> Row]
    /\ job \in [Certs -> JobState]
    /\ forced \in [Certs -> BOOLEAN]
    /\ stalled \in [Certs -> BOOLEAN]
    /\ order \in [Certs -> Order]
    /\ litter \subseteq Certs
    /\ queueing \subseteq Certs
    /\ request \in [Requests -> {NoRequest} \cup Request]
    /\ startJob \in [Nodes -> StartState]
    /\ sending \in [Nodes -> Material]
    /\ serving \in [Nodes -> Material]

Init ==
    /\ cert = [c \in Certs |-> NoRow]
    /\ job = [c \in Certs |-> "none"]
    /\ forced = [c \in Certs |-> FALSE]
    /\ stalled = [c \in Certs |-> FALSE]
    /\ order = [c \in Certs |-> NoOrder]
    /\ litter = {}
    /\ queueing = {}
    /\ request = [r \in Requests |-> NoRequest]
    /\ startJob = [n \in Nodes |-> "none"]
    /\ sending = [n \in Nodes |-> Nothing]
    /\ serving = [n \in Nodes |-> Nothing]

-----------------------------------------------------------------------------
(* Helpers *)

Exists(c)   == cert[c].source \in {"ACME", "IMPORTED"}
Put(c, row) == cert' = [cert EXCEPT ![c] = row]
Less(n)     == IF n = 0 THEN 0 ELSE n - 1
Lower(a, b) == IF a <= b THEN a ELSE b

\* New material makes what the nodes have of the certificate old.
Aged(f, c) ==
    [n \in Nodes |-> [f[n] EXCEPT ![c] = IF @ = "current" THEN "old" ELSE @]]

NewMaterial(c) ==
    /\ serving' = Aged(serving, c)
    /\ sending' = Aged(sending, c)
    /\ UNCHANGED startJob

\* issueCertificate: the job id is the certificate.
AddJob(c, force) ==
    IF job[c] = "none"
    THEN /\ job' = [job EXCEPT ![c] = "waiting"]
         /\ forced' = [forced EXCEPT ![c] = force]
         /\ UNCHANGED stalled
    ELSE UNCHANGED jobVars

\* startNode: the job id is the node.
AddStart(n) ==
    IF startJob[n] = "none"
    THEN /\ startJob' = [startJob EXCEPT ![n] = "waiting"]
         /\ UNCHANGED <<sending, serving>>
    ELSE UNCHANGED nodeVars

Tick ==
    /\ cert' = [c \in Certs |-> [cert[c] EXCEPT !.life = Less(@), !.retry = Less(@)]]
    /\ UNCHANGED <<jobVars, order, litter, queueing, request, nodeVars>>
-----------------------------------------------------------------------------
(* The scheduler: one query, then one job after the other. *)

\* Mutant: imported certificates are renewed too.
DueOfAnySource(c) ==
    /\ Exists(c) /\ cert[c].enabled /\ cert[c].status # "ISSUING" /\ cert[c].retry = 0
    /\ cert[c].issuedFor = None \/ cert[c].life <= RenewBefore

\* Mutant: a failed order is not tried again.
DueOnce(c) ==
    /\ cert[c].enabled /\ cert[c].source = "ACME" /\ cert[c].status \in {"PENDING", "ACTIVE"}
    /\ cert[c].issuedFor = None \/ cert[c].life <= RenewBefore

\* findDueForRenewal
Due(c) ==
    /\ cert[c].enabled /\ cert[c].source = "ACME"
    /\ cert[c].status # "ISSUING"
    /\ cert[c].retry = 0
    /\ cert[c].issuedFor = None \/ cert[c].life <= RenewBefore

RenewQuery ==
    /\ queueing = {}
    /\ \E c \in Certs : Due(c)
    /\ queueing' = {c \in Certs : Due(c)}
    /\ UNCHANGED <<cert, jobVars, order, litter, request, nodeVars>>

RenewQueue(c) ==
    /\ c \in queueing
    /\ queueing' = queueing \ {c}
    /\ AddJob(c, FALSE)
    /\ UNCHANGED <<cert, order, litter, request, nodeVars>>

\* A job cannot be queued: the rest waits for the next hour.
RenewAborts ==
    /\ "db" \in Faults
    /\ queueing # {}
    /\ queueing' = {}
    /\ UNCHANGED <<cert, jobVars, order, litter, request, nodeVars>>

-----------------------------------------------------------------------------
(* The worker: one order at a time in the whole installation. *)

\* Mutant: the worker's own concurrency is the only limit.
CanRunBesides(c) == job[c] = "waiting"

CanRun(c) == job[c] = "waiting" /\ \A d \in Certs : job[d] # "active"

JobEnds(c) ==
    /\ job' = [job EXCEPT ![c] = "none"]
    /\ stalled' = [stalled EXCEPT ![c] = FALSE]
    /\ forced' = [forced EXCEPT ![c] = FALSE]

\* The row as it is now is what the whole order works with.
OrderRead(c) ==
    /\ CanRun(c)
    /\ Exists(c) /\ (cert[c].enabled \/ forced[c])
    /\ job' = [job EXCEPT ![c] = "active"]
    /\ order' = [order EXCEPT ![c] =
            [pc |-> "begin", params |-> cert[c].params, fails |-> cert[c].fails,
             nodes |-> cert[c].nodes, published |-> FALSE]]
    /\ UNCHANGED <<cert, forced, stalled, litter, queueing, request, nodeVars>>

\* Mutant: an order that finds the certificate ISSUING leaves it alone.
OrderSkippedIssuing(c) ==
    /\ CanRun(c)
    /\ ~(Exists(c) /\ (cert[c].enabled \/ forced[c])) \/ cert[c].status = "ISSUING"
    /\ JobEnds(c)
    /\ UNCHANGED <<cert, order, litter, queueing, request, nodeVars>>

OrderSkipped(c) ==
    /\ CanRun(c)
    /\ \/ ~(Exists(c) /\ (cert[c].enabled \/ forced[c]))
       \/ "db" \in Faults                       \* the row cannot be read
    /\ JobEnds(c)
    /\ UNCHANGED <<cert, order, litter, queueing, request, nodeVars>>

Goto(c, pc) == order' = [order EXCEPT ![c].pc = pc]

\* What was ordered is done or given up: challenge records and nodes are left.
Conclude(c, nodes) ==
    order' = [order EXCEPT ![c] = [NoOrder EXCEPT !.pc = "cleanup", !.nodes = nodes,
                                                  !.published = order[c].published]]

OrderBegin(c) ==
    /\ order[c].pc = "begin"
    /\ Exists(c)
    /\ Put(c, [cert[c] EXCEPT !.status = "ISSUING"])
    /\ Goto(c, "solve")
    /\ UNCHANGED <<jobVars, litter, queueing, request, nodeVars>>

\* present: the challenge record is in the zone and its removal is noted ...
Present(c) ==
    /\ order[c].pc = "solve" /\ ~order[c].published
    /\ order' = [order EXCEPT ![c].published = TRUE]
    /\ UNCHANGED <<cert, jobVars, litter, queueing, request, nodeVars>>

\* ... unless the answer of the DNS provider got lost: present throws first.
PresentLost(c) ==
    /\ "dns" \in Faults
    /\ order[c].pc = "solve" /\ ~order[c].published
    /\ litter' = litter \cup {c}
    /\ Goto(c, "failing")
    /\ UNCHANGED <<cert, jobVars, queueing, request, nodeVars>>

\* No credential, a row deleted meanwhile, a refusal of the CA ...
OrderThrows(c) ==
    /\ order[c].pc \in {"begin", "solve"}
    /\ Faults \cap {"ca", "db"} # {} \/ ~Exists(c)
    /\ Goto(c, "failing")
    /\ UNCHANGED <<cert, jobVars, litter, queueing, request, nodeVars>>

Store(c) ==
    /\ order[c].pc = "solve"
    /\ Exists(c)
    /\ Put(c, [cert[c] EXCEPT !.status = "ACTIVE", !.issuedFor = order[c].params,
                              !.life = Validity, !.fails = 0, !.retry = 0])
    /\ NewMaterial(c)
    /\ Conclude(c, order[c].nodes)
    /\ UNCHANGED <<jobVars, litter, queueing, request>>

\* fail: the delay doubles with every failure counted from the row read at the
\* start.
Delay(fails) == Lower(2 ^ fails, MaxRetry)

\* Mutant: the delay is recorded, the status is not.
RecordDelay(c) ==
    LET fails == Lower(order[c].fails + 1, MaxFails) IN
    /\ order[c].pc = "failing"
    /\ Exists(c)
    /\ Put(c, [cert[c] EXCEPT !.fails = fails, !.retry = Delay(fails)])
    /\ Conclude(c, {})
    /\ UNCHANGED <<jobVars, litter, queueing, request, nodeVars>>

RecordFailure(c) ==
    LET fails == Lower(order[c].fails + 1, MaxFails) IN
    /\ order[c].pc = "failing"
    /\ Exists(c)
    /\ Put(c, [cert[c] EXCEPT !.status = "ERROR", !.fails = fails, !.retry = Delay(fails)])
    /\ Conclude(c, {})
    /\ UNCHANGED <<jobVars, litter, queueing, request, nodeVars>>

\* Recording the failure fails as well; the job still completes.
RecordFailureThrows(c) ==
    /\ order[c].pc = "failing"
    /\ "db" \in Faults \/ ~Exists(c)
    /\ Conclude(c, {})
    /\ UNCHANGED <<cert, jobVars, litter, queueing, request, nodeVars>>

\* The finally block: a record that cannot be removed is reported in the log.
Cleanup(c) ==
    /\ order[c].pc = "cleanup"
    /\ order' = [order EXCEPT ![c].pc = "restart", ![c].published = FALSE]
    /\ UNCHANGED <<cert, jobVars, litter, queueing, request, nodeVars>>

RestartAffected(c) ==
    /\ order[c].pc = "restart"
    /\ \E n \in order[c].nodes :
        /\ AddStart(n)
        /\ order' = [order EXCEPT ![c].nodes = @ \ {n}]
    /\ UNCHANGED <<cert, jobVars, litter, queueing, request>>

\* All restarts are queued, or one cannot be and the others are dropped.
OrderEnds(c) ==
    /\ order[c].pc = "restart"
    /\ order[c].nodes = {} \/ "db" \in Faults
    /\ order' = [order EXCEPT ![c] = NoOrder]
    /\ JobEnds(c)
    /\ UNCHANGED <<cert, litter, queueing, request, nodeVars>>

\* The worker process dies.  BullMQ hands a stalled job out once more, and the
\* second time fails it - and keeps the failed job, with its id.
Crash(c) ==
    /\ job[c] = "active"
    /\ IF stalled[c] THEN "stall" \in Faults ELSE "crash" \in Faults
    /\ job' = [job EXCEPT ![c] = IF stalled[c] THEN "failed" ELSE "waiting"]
    /\ stalled' = [stalled EXCEPT ![c] = TRUE]
    /\ litter' = IF order[c].published THEN litter \cup {c} ELSE litter
    /\ order' = [order EXCEPT ![c] = NoOrder]
    /\ UNCHANGED <<cert, forced, queueing, request, nodeVars>>

-----------------------------------------------------------------------------
(* API requests *)

Free(r)        == request[r] = NoRequest
Ask(r, q)      == request' = [request EXCEPT ![r] = q]
Step(r, pc)    == Free(r) = FALSE /\ request[r].pc = pc

\* A request that has nothing left to write in the row.
Todo(c, pc, nodes) ==
    [pc |-> pc, cert |-> c, params |-> Keep, enabled |-> Keep, nodes |-> Keep,
     follow |-> "nothing", left |-> nodes]

\* restartBoundNodes, one node after the other.
RestartLeft(c, nodes) == IF nodes = {} THEN NoRequest ELSE Todo(c, "restart", nodes)

RestartBoundNodes(r) ==
    /\ Step(r, "restart")
    /\ \E n \in request[r].left :
        /\ AddStart(n)
        /\ Ask(r, RestartLeft(request[r].cert, request[r].left \ {n}))
    /\ UNCHANGED <<cert, jobVars, order, litter, queueing>>

Create ==
    \E c \in Certs, p \in Params, e \in BOOLEAN, ns \in SUBSET Nodes :
        /\ cert[c].source = "none"
        /\ Put(c, [NoRow EXCEPT !.source = "ACME", !.enabled = e, !.params = p, !.nodes = ns])
        /\ UNCHANGED <<jobVars, order, litter, queueing, request, nodeVars>>

Import(r) ==
    \E c \in Certs, p \in Params, e \in BOOLEAN, ns \in SUBSET Nodes, life \in 0..Validity :
        /\ Free(r)
        /\ cert[c].source = "none"
        /\ Put(c, [NoRow EXCEPT !.source = "IMPORTED", !.enabled = e, !.params = p,
                        !.issuedFor = p, !.life = life, !.status = "ACTIVE", !.nodes = ns])
        /\ Ask(r, RestartLeft(c, ns))
        /\ UNCHANGED <<jobVars, order, litter, queueing, nodeVars>>

Reimport(r) ==
    \E c \in Certs, p \in Params, life \in 0..Validity :
        /\ Free(r)
        /\ cert[c].source = "IMPORTED"
        /\ Put(c, [cert[c] EXCEPT !.params = p, !.issuedFor = p, !.life = life,
                                  !.status = "ACTIVE", !.fails = 0, !.retry = 0])
        /\ NewMaterial(c)
        /\ Ask(r, RestartLeft(c, cert[c].nodes))
        /\ UNCHANGED <<jobVars, order, litter, queueing>>

\* update: everything is decided from the row read here.
NeedsReissue(c, p) == cert[c].source = "ACME" /\ p # Keep /\ p # cert[c].params

\* What is left to write, and what is to follow it.
UpdateRequest(c, p, e, ns) ==
    LET restart == (ns # Keep \/ e # Keep) /\ cert[c].issuedFor # None
        follow  == IF NeedsReissue(c, p) THEN "mark" ELSE IF restart THEN "restart" ELSE "nothing"
    IN  [pc |-> IF ns = Keep THEN "write" ELSE "unbind", cert |-> c,
         params |-> p, enabled |-> e, nodes |-> ns, follow |-> follow,
         left |-> IF follow = "restart" THEN cert[c].nodes ELSE {}]

UpdateRead(r) ==
    \E c \in Certs, p \in Params \cup {Keep}, e \in BOOLEAN \cup {Keep},
       ns \in (SUBSET Nodes) \cup {Keep} :
        /\ Free(r) /\ Exists(c)
        /\ cert[c].source = "IMPORTED" => p = Keep
        /\ Ask(r, UpdateRequest(c, p, e, ns))
        /\ UNCHANGED <<cert, jobVars, order, litter, queueing, nodeVars>>

\* repository.update: the bindings are deleted in a statement of their own.
UpdateUnbind(r) ==
    /\ Step(r, "unbind")
    /\ Put(request[r].cert, [cert[request[r].cert] EXCEPT !.nodes = {}])
    /\ Ask(r, [request[r] EXCEPT !.pc = "write"])
    /\ UNCHANGED <<jobVars, order, litter, queueing, nodeVars>>

\* Mutant: an absent field is written as it came.
NewAlways(field, old) == field

New(field, old) == IF field = Keep THEN old ELSE field

\* What follows when the row is written.
AfterWrite(q, nodes) ==
    CASE q.follow = "mark" -> Todo(q.cert, "mark", {})
      [] q.follow = "restart" -> RestartLeft(q.cert, q.left \cup nodes)
      [] q.follow = "nothing" -> NoRequest

UpdateWrite(r) ==
    LET q   == request[r]
        c   == request[r].cert
        row == [cert[c] EXCEPT !.params = New(q.params, @), !.enabled = New(q.enabled, @),
                               !.nodes = New(q.nodes, @)] IN
    /\ Step(r, "write")
    /\ Exists(c)
    /\ Put(c, row)
    /\ Ask(r, AfterWrite(q, row.nodes))
    /\ UNCHANGED <<jobVars, order, litter, queueing, nodeVars>>

\* Mutant: the material is deleted instead of marked.
UpdateDiscards(r) ==
    /\ Step(r, "mark")
    /\ Exists(request[r].cert)
    /\ Put(request[r].cert, [cert[request[r].cert] EXCEPT
            !.status = "PENDING", !.retry = 0, !.fails = 0, !.issuedFor = None, !.life = 0])
    /\ Ask(r, NoRequest)
    /\ UNCHANGED <<jobVars, order, litter, queueing, nodeVars>>

\* The stored material no longer is what was asked for.
UpdateMark(r) ==
    /\ Step(r, "mark")
    /\ Exists(request[r].cert)
    /\ Put(request[r].cert,
           [cert[request[r].cert] EXCEPT !.status = "PENDING", !.retry = 0, !.fails = 0])
    /\ Ask(r, NoRequest)
    /\ UNCHANGED <<jobVars, order, litter, queueing, nodeVars>>

\* "Issue now" clears the delay and queues the order.
IssueRead(r) ==
    \E c \in Certs :
        /\ Free(r)
        /\ cert[c].source = "ACME"
        /\ Put(c, [cert[c] EXCEPT !.retry = 0])
        /\ Ask(r, Todo(c, "enqueue", {}))
        /\ UNCHANGED <<jobVars, order, litter, queueing, nodeVars>>

IssueEnqueue(r) ==
    /\ Step(r, "enqueue")
    /\ AddJob(request[r].cert, TRUE)
    /\ Ask(r, NoRequest)
    /\ UNCHANGED <<cert, order, litter, queueing, nodeVars>>

\* The new bindings name a node that does not exist, the row was deleted
\* meanwhile, or a statement fails: what was done before stays done.
RequestFails(r) ==
    /\ ~Free(r)
    /\ \/ Step(r, "write") /\ request[r].nodes # Keep /\ "node" \in Faults
       \/ ~Exists(request[r].cert)
       \/ "db" \in Faults                       \* the database or the queue
    /\ Ask(r, NoRequest)
    /\ UNCHANGED <<cert, jobVars, order, litter, queueing, nodeVars>>

\* The row and its bindings go; no node is told.
Delete ==
    \E c \in Certs :
        /\ Exists(c)
        /\ Put(c, [NoRow EXCEPT !.source = "deleted"])
        /\ UNCHANGED <<jobVars, order, litter, queueing, request, nodeVars>>

-----------------------------------------------------------------------------
(* Starting a node: what the start job does about certificates. *)

\* Health checks, bulk restarts and node updates start nodes at any time.
StartRequested(n) ==
    /\ startJob[n] = "none"
    /\ AddStart(n)
    /\ UNCHANGED <<cert, jobVars, order, litter, queueing, request>>

\* findActiveByNodeUuid
Served(c, n) ==
    /\ Exists(c) /\ cert[c].enabled /\ cert[c].status = "ACTIVE"
    /\ cert[c].issuedFor # None
    /\ n \in cert[c].nodes

StartRead(n) ==
    /\ startJob[n] = "waiting"
    /\ startJob' = [startJob EXCEPT ![n] = "read"]
    /\ \/ sending' = [sending EXCEPT ![n] =
            [c \in Certs |-> IF Served(c, n) THEN "current" ELSE "none"]]
       \/ /\ "db" \in Faults      \* a failed query counts as no certificates
          /\ sending' = [sending EXCEPT ![n] = Nothing]
    /\ UNCHANGED <<cert, jobVars, order, litter, queueing, request, serving>>

\* The node compares the config hash, which covers names and fingerprints, and
\* restarts when it changed: it runs with what was sent either way.
StartDelivered(n) ==
    /\ startJob[n] = "read"
    /\ startJob' = [startJob EXCEPT ![n] = "none"]
    /\ serving' = [serving EXCEPT ![n] = sending[n]]
    /\ sending' = [sending EXCEPT ![n] = Nothing]
    /\ UNCHANGED <<cert, jobVars, order, litter, queueing, request>>

\* The pre-check or the call fails, or a query does: the job just ends, and
\* nothing is said of what the node runs with.
StartFails(n) ==
    /\ startJob[n] # "none"
    /\ Faults \cap {"start", "db"} # {}
    /\ startJob' = [startJob EXCEPT ![n] = "none"]
    /\ sending' = [sending EXCEPT ![n] = Nothing]
    /\ UNCHANGED <<cert, jobVars, order, litter, queueing, request, serving>>

-----------------------------------------------------------------------------
Scheduler == RenewQuery \/ RenewAborts \/ \E c \in Certs : RenewQueue(c)

OrderStep(c) ==
    \/ OrderBegin(c) \/ Present(c) \/ PresentLost(c) \/ OrderThrows(c) \/ Store(c)
    \/ RecordFailure(c) \/ RecordFailureThrows(c) \/ Cleanup(c) \/ RestartAffected(c)
    \/ OrderEnds(c)

RequestStep(r) ==
    \/ Import(r) \/ Reimport(r) \/ UpdateRead(r) \/ UpdateUnbind(r) \/ UpdateWrite(r)
    \/ UpdateMark(r) \/ IssueRead(r) \/ IssueEnqueue(r) \/ RestartBoundNodes(r)
    \/ RequestFails(r)

StartStep(n) == StartRequested(n) \/ StartRead(n) \/ StartDelivered(n) \/ StartFails(n)

Next ==
    \/ Tick \/ Scheduler \/ Create \/ Delete
    \/ \E c \in Certs : OrderRead(c) \/ OrderSkipped(c) \/ OrderStep(c) \/ Crash(c)
    \/ \E r \in Requests : RequestStep(r)
    \/ \E n \in Nodes : StartStep(n)

Spec == Init /\ [][Next]_vars

\* Time passes, the cron job fires every hour, every call of an order has a
\* timeout, and the queue hands out waiting jobs in their order.
FairSpec ==
    /\ Spec
    /\ WF_vars(Tick)
    /\ WF_vars(RenewQuery)
    /\ \A c \in Certs : /\ WF_vars(RenewQueue(c))
                        /\ SF_vars(OrderRead(c))
                        /\ WF_vars(OrderSkipped(c))
                        /\ WF_vars(OrderStep(c))

-----------------------------------------------------------------------------
(* Properties *)

\* ISSUING means what it says: an order is queued or running.  A certificate the
\* scheduler skips for that reason is not forgotten.
IssuingInFlight ==
    \A c \in Certs : cert[c].status = "ISSUING" => job[c] \in {"waiting", "active"}

\* The panel never orders what it did not issue.
ImportedNeverOrdered == \A c \in Certs : cert[c].source = "IMPORTED" => job[c] = "none"

\* While an order runs, no other order of the installation does, and nobody
\* forgets its challenge record: what is in the zone belongs to a running job.
OneOrder ==
    \A c \in Certs : order[c].pc # "idle" =>
        /\ job[c] = "active"
        /\ \A d \in Certs \ {c} : order[d].pc = "idle"

Needs(c) ==
    /\ cert[c].enabled /\ cert[c].source = "ACME"
    /\ cert[c].issuedFor = None \/ cert[c].life <= RenewBefore

\* A certificate that needs one is renewed, or an order of it fails and is tried
\* again: over and over, however many failures came before and even when workers
\* die.
Renewed ==
    \A c \in Certs : Needs(c) ~> (~Needs(c) \/ order[c].pc = "failing")

\* Changed parameters mark the material stale, they do not delete it: whatever a
\* node serves or is being sent, the panel has material of that certificate.
MaterialKept ==
    \A c \in Certs, n \in Nodes :
        Exists(c) /\ (serving[n][c] # "none" \/ sending[n][c] # "none") =>
            cert[c].issuedFor # None

\* The comment in update(): "the node keeps serving the old one until a new one
\* actually arrives".  A bound node that starts is sent what it has been serving.
KeepsServing ==
    [][\A n \in Nodes, c \in Certs :
          /\ startJob[n] = "waiting" /\ startJob'[n] = "read"
          /\ serving[n][c] # "none"
          /\ Exists(c) /\ cert[c].enabled /\ n \in cert[c].nodes
          => sending'[n][c] # "none"]_vars

=============================================================================
