---------------------- MODULE AcmeCertificates_proofs ----------------------
(***************************************************************************)
(* Proofs about AcmeCertificates, for any number of certificates, nodes    *)
(* and requests, and whatever fails: the type invariant, that one order    *)
(* runs at a time, that what was imported is never ordered, and that the   *)
(* panel keeps material of what its nodes serve.  That a certificate in    *)
(* ISSUING has an order under way is proved of the failures for which it   *)
(* holds.                                                                  *)
(***************************************************************************)
EXTENDS AcmeCertificates, TLAPS

\* A job is active exactly while a worker is at its order, and one is at a time.
OneActive ==
    /\ \A c \in Certs : order[c].pc # "idle" <=> job[c] = "active"
    /\ \A c, d \in Certs : job[c] = "active" /\ job[d] = "active" => c = d

\* Nobody orders a certificate, or is about to.
Quiet(c) ==
    /\ job[c] = "none" /\ c \notin queueing
    /\ \A r \in Requests : Step(r, "enqueue") => request[r].cert # c

\* That is so of one that does not exist yet or was imported.
NotOrdered == \A c \in Certs : cert[c].source \in {"none", "IMPORTED"} => Quiet(c)

\* A certificate, and an order until it is stored, is for parameters.
Wanted ==
    /\ \A c \in Certs : Exists(c) => cert[c].params \in Params
    /\ \A c \in Certs : order[c].pc \in {"begin", "solve"} => order[c].params \in Params

\* No node has any material of a certificate.
Blank(c) == \A n \in Nodes : serving[n][c] = "none" /\ sending[n][c] = "none"

\* That is so of one that has none, or does not exist yet.
Unserved ==
    \A c \in Certs : /\ cert[c].source = "none" => cert[c].issuedFor = None
                     /\ cert[c].source # "deleted" /\ cert[c].issuedFor = None => Blank(c)

\* A certificate in ISSUING has an order that has begun and is not done, or one
\* that will begin: it waits, and nothing lets the worker skip it.  A worker that
\* can die is at work on what is enabled or was asked for.
Fine(c) ==
    /\ cert[c].status = "ISSUING" =>
        /\ Exists(c)
        /\ \/ order[c].pc \in {"begin", "solve", "failing"}
           \/ "crash" \in Faults /\ job[c] = "waiting" /\ (cert[c].enabled \/ forced[c])
    /\ "crash" \in Faults /\ job[c] = "active" /\ Exists(c) => cert[c].enabled \/ forced[c]

InFlight == \A c \in Certs : Fine(c)

-----------------------------------------------------------------------------
(* Types *)

LEMMA NoRowType == NoRow \in Row
BY TimesAssumption DEF NoRow, Row

LEMMA NoOrderType == NoOrder \in Order
BY TimesAssumption DEF NoOrder, Order

\* The lower of two naturals, and what is left after an hour.
LEMMA LowerType ==
    ASSUME NEW a \in Nat, NEW b \in Nat
    PROVE  Lower(a, b) \in 0..b
BY DEF Lower

LEMMA LessType ==
    ASSUME NEW m \in Nat, NEW n \in 0..m
    PROVE  Less(n) \in 0..m
BY DEF Less

LEMMA AddJobType ==
    ASSUME TypeOK, NEW c \in Certs, NEW force \in BOOLEAN, AddJob(c, force)
    PROVE  /\ job' \in [Certs -> JobState]
           /\ forced' \in [Certs -> BOOLEAN] /\ stalled' \in [Certs -> BOOLEAN]
BY DEF TypeOK, AddJob, JobState, jobVars

LEMMA JobEndsType ==
    ASSUME TypeOK, NEW c \in Certs, JobEnds(c)
    PROVE  /\ job' \in [Certs -> JobState]
           /\ forced' \in [Certs -> BOOLEAN] /\ stalled' \in [Certs -> BOOLEAN]
BY DEF TypeOK, JobEnds, JobState

LEMMA AddStartType ==
    ASSUME TypeOK, NEW n \in Nodes, AddStart(n)
    PROVE  /\ startJob' \in [Nodes -> StartState]
           /\ sending' \in [Nodes -> Material] /\ serving' \in [Nodes -> Material]
BY DEF TypeOK, AddStart, StartState, nodeVars

LEMMA AgedType ==
    ASSUME NEW f \in [Nodes -> Material], NEW c \in Certs
    PROVE  /\ Aged(f, c) \in [Nodes -> Material]
           /\ \A n \in Nodes, d \in Certs : Aged(f, c)[n][d] = "none" <=> f[n][d] = "none"
<1>1. ASSUME NEW n \in Nodes
      PROVE  /\ [f[n] EXCEPT ![c] = IF @ = "current" THEN "old" ELSE @] \in Material
             /\ \A d \in Certs : [f[n] EXCEPT ![c] = IF @ = "current" THEN "old" ELSE @][d] = "none"
                    <=> f[n][d] = "none"
  BY DEF Material
<1> QED BY <1>1 DEF Aged

LEMMA NewMaterialType ==
    ASSUME TypeOK, NEW c \in Certs, NewMaterial(c)
    PROVE  /\ startJob' \in [Nodes -> StartState]
           /\ sending' \in [Nodes -> Material] /\ serving' \in [Nodes -> Material]
           /\ \A n \in Nodes, d \in Certs : /\ serving'[n][d] = "none" <=> serving[n][d] = "none"
                                            /\ sending'[n][d] = "none" <=> sending[n][d] = "none"
BY AgedType DEF TypeOK, NewMaterial

LEMMA PutType ==
    ASSUME TypeOK, NEW c \in Certs, NEW row \in Row, Put(c, row)
    PROVE  /\ cert' \in [Certs -> Row] /\ cert'[c] = row
           /\ \A d \in Certs \ {c} : cert'[d] = cert[d]
BY DEF TypeOK, Put

LEMMA OrderType ==
    ASSUME TypeOK, NEW c \in Certs, NEW o \in Order, order' = [order EXCEPT ![c] = o]
    PROVE  /\ order' \in [Certs -> Order] /\ order'[c] = o
           /\ \A d \in Certs \ {c} : order'[d] = order[d]
BY DEF TypeOK

LEMMA AskType ==
    ASSUME TypeOK, NEW r \in Requests, NEW q \in {NoRequest} \cup Request, Ask(r, q)
    PROVE  /\ request' \in [Requests -> {NoRequest} \cup Request] /\ request'[r] = q
           /\ \A s \in Requests \ {r} : request'[s] = request[s]
BY DEF TypeOK, Ask

\* A request that has begun is a record, with the fields of one.
LEMMA StepType ==
    ASSUME TypeOK, NEW r \in Requests, ~Free(r)
    PROVE  request[r] \in Request /\ request[r].cert \in Certs
BY DEF TypeOK, Free, Request

LEMMA TodoType ==
    ASSUME NEW c \in Certs, NEW pc \in {"mark", "enqueue", "restart"}, NEW ns \in SUBSET Nodes
    PROVE  /\ Todo(c, pc, ns) \in Request
           /\ Todo(c, pc, ns).pc = pc /\ Todo(c, pc, ns).cert = c
BY DEF Todo, Request

LEMMA RestartLeftType ==
    ASSUME NEW c \in Certs, NEW ns \in SUBSET Nodes
    PROVE  /\ RestartLeft(c, ns) \in {NoRequest} \cup Request
           /\ RestartLeft(c, ns) = NoRequest \/ RestartLeft(c, ns).pc = "restart"
BY TodoType DEF RestartLeft

LEMMA ZeroTypes ==
    0 \in 0..MaxFails /\ 0 \in 0..MaxRetry /\ 0 \in 0..Validity /\ Validity \in 0..Validity
BY TimesAssumption

LEMMA InitTypeOK == Init => TypeOK
BY NoRowType, NoOrderType
   DEF Init, TypeOK, JobState, StartState, Material, Nothing

LEMMA TickType == TypeOK /\ Tick => TypeOK'
<1> SUFFICES ASSUME TypeOK, Tick PROVE TypeOK'
  OBVIOUS
<1>1. ASSUME NEW c \in Certs
      PROVE  [cert[c] EXCEPT !.life = Less(@), !.retry = Less(@)] \in Row
  <2>1. cert[c] \in Row /\ Less(cert[c].life) \in 0..Validity /\ Less(cert[c].retry) \in 0..MaxRetry
    BY LessType, TimesAssumption DEF TypeOK, Row
  <2> QED BY <2>1 DEF Row
<1>2. cert' \in [Certs -> Row]
  BY <1>1 DEF Tick
<1> QED BY <1>2 DEF TypeOK, Tick, jobVars, nodeVars

LEMMA SchedulerType == TypeOK /\ Scheduler => TypeOK'
<1> SUFFICES ASSUME TypeOK, Scheduler PROVE TypeOK'
  OBVIOUS
<1>1. CASE RenewQuery \/ RenewAborts
  BY <1>1 DEF TypeOK, RenewQuery, RenewAborts, jobVars, nodeVars
<1>2. ASSUME NEW c \in Certs, RenewQueue(c) PROVE TypeOK'
  <2>1. AddJob(c, FALSE)
    BY <1>2 DEF RenewQueue
  <2> QED BY <1>2, <2>1, AddJobType DEF TypeOK, RenewQueue, nodeVars
<1> QED BY <1>1, <1>2 DEF Scheduler

\* Goto and Conclude leave an order of the right type.
LEMMA GotoType ==
    ASSUME TypeOK, NEW c \in Certs,
           NEW pc \in {"begin", "solve", "failing", "cleanup", "restart"}, Goto(c, pc)
    PROVE  /\ order' \in [Certs -> Order]
           /\ order'[c].pc = pc /\ order'[c].params = order[c].params
           /\ \A d \in Certs \ {c} : order'[d] = order[d]
<1>1. [order[c] EXCEPT !.pc = pc] \in Order
  BY ZenonT(60) DEF TypeOK, Order
<1> QED BY <1>1 DEF TypeOK, Goto, Order

LEMMA ConcludeType ==
    ASSUME TypeOK, NEW c \in Certs, NEW ns \in SUBSET Nodes, Conclude(c, ns)
    PROVE  /\ order' \in [Certs -> Order]
           /\ order'[c].pc = "cleanup"
           /\ \A d \in Certs \ {c} : order'[d] = order[d]
<1> DEFINE o == [NoOrder EXCEPT !.pc = "cleanup", !.nodes = ns, !.published = order[c].published]
<1>0. order[c] \in Order
  BY DEF TypeOK
<1>1. o \in Order /\ o.pc = "cleanup"
  <2>1. order[c].published \in BOOLEAN /\ NoOrder \in Order
    BY <1>0, NoOrderType DEF Order
  <2> QED BY <2>1 DEF Order
<1>2. order' = [order EXCEPT ![c] = o]
  BY DEF Conclude
<1> HIDE DEF o
<1> QED BY <1>1, <1>2 DEF TypeOK

\* What a failure leaves in the row.
LEMMA FailureRow ==
    ASSUME TypeOK, NEW c \in Certs
    PROVE  LET fails == Lower(order[c].fails + 1, MaxFails) IN
           [cert[c] EXCEPT !.status = "ERROR", !.fails = fails, !.retry = Delay(fails)] \in Row
<1> DEFINE fails == Lower(order[c].fails + 1, MaxFails)
<1>1. order[c].fails \in Nat /\ cert[c] \in Row
  BY TimesAssumption DEF TypeOK, Order
<1>2. fails \in 0..MaxFails
  <2>1. order[c].fails + 1 \in Nat /\ MaxFails \in Nat
    BY <1>1, TimesAssumption
  <2> QED BY <2>1, LowerType
<1>3. Delay(fails) \in 0..MaxRetry
  BY <1>2, LowerType, DelaysAssumption, TimesAssumption DEF Delay
<1> HIDE DEF fails
<1>4. [cert[c] EXCEPT !.status = "ERROR", !.fails = fails, !.retry = Delay(fails)] \in Row
  BY <1>1, <1>2, <1>3 DEF Row
<1> QED BY <1>4 DEF fails

\* The worker takes up a job, drops it or dies.
LEMMA JobType ==
    ASSUME TypeOK, NEW c \in Certs, OrderRead(c) \/ OrderSkipped(c) \/ Crash(c)
    PROVE  TypeOK'
<1>1. CASE OrderRead(c)
  <2>1. [pc |-> "begin", params |-> cert[c].params, fails |-> cert[c].fails,
         nodes |-> cert[c].nodes, published |-> FALSE] \in Order
    BY DEF TypeOK, Row, Order
  <2> QED BY <1>1, <2>1 DEF TypeOK, OrderRead, JobState, nodeVars
<1>2. CASE OrderSkipped(c)
  BY <1>2, JobEndsType DEF TypeOK, OrderSkipped, nodeVars
<1>3. CASE Crash(c)
  BY <1>3, NoOrderType DEF TypeOK, Crash, JobState, nodeVars
<1> QED BY <1>1, <1>2, <1>3

LEMMA OrderStepType ==
    ASSUME TypeOK, NEW c \in Certs, OrderStep(c)
    PROVE  TypeOK'
<1>0. cert[c] \in Row /\ order[c] \in Order
  BY DEF TypeOK
<1>1. CASE OrderBegin(c)
  <2>1. [cert[c] EXCEPT !.status = "ISSUING"] \in Row
    BY <1>0 DEF Row
  <2> QED BY <1>1, <2>1, PutType, GotoType DEF TypeOK, OrderBegin, jobVars, nodeVars
<1>2. CASE Present(c)
  <2>1. [order[c] EXCEPT !.published = TRUE] \in Order
    BY <1>0 DEF Order
  <2> QED BY <1>2, <2>1 DEF TypeOK, Present, jobVars, nodeVars
<1>3. CASE PresentLost(c)
  BY <1>3, GotoType DEF TypeOK, PresentLost, jobVars, nodeVars
<1>4. CASE OrderThrows(c)
  BY <1>4, GotoType DEF TypeOK, OrderThrows, jobVars, nodeVars
<1>5. CASE Store(c)
  <2>1. [cert[c] EXCEPT !.status = "ACTIVE", !.issuedFor = order[c].params,
                        !.life = Validity, !.fails = 0, !.retry = 0] \in Row
    <3>1. order[c].params \in Params \cup {None}
      BY <1>0 DEF Order
    <3> QED BY <1>0, <3>1, ZeroTypes DEF Row
  <2>2. order[c].nodes \in SUBSET Nodes
    BY <1>0 DEF Order
  <2> QED BY <1>5, <2>1, <2>2, PutType, NewMaterialType, ConcludeType DEF TypeOK, Store, jobVars
<1>6. CASE RecordFailure(c)
  BY <1>6, FailureRow, PutType, ConcludeType DEF TypeOK, RecordFailure, jobVars, nodeVars
<1>7. CASE RecordFailureThrows(c)
  BY <1>7, ConcludeType DEF TypeOK, RecordFailureThrows, jobVars, nodeVars
<1>8. CASE Cleanup(c)
  <2>1. [order[c] EXCEPT !.pc = "restart", !.published = FALSE] \in Order
    BY <1>0 DEF Order
  <2> QED BY <1>8, <2>1 DEF TypeOK, Cleanup, jobVars, nodeVars
<1>9. CASE RestartAffected(c)
  <2>1. PICK n \in order[c].nodes : AddStart(n) /\ order' = [order EXCEPT ![c].nodes = @ \ {n}]
    BY <1>9 DEF RestartAffected
  <2>2. n \in Nodes /\ [order[c] EXCEPT !.nodes = @ \ {n}] \in Order
    BY <1>0 DEF Order
  <2> QED BY <1>9, <2>1, <2>2, AddStartType DEF TypeOK, RestartAffected, jobVars
<1>10. CASE OrderEnds(c)
  BY <1>10, NoOrderType, JobEndsType DEF TypeOK, OrderEnds, nodeVars
<1> QED BY <1>1, <1>2, <1>3, <1>4, <1>5, <1>6, <1>7, <1>8, <1>9, <1>10 DEF OrderStep

LEMMA StartStepType ==
    ASSUME TypeOK, NEW n \in Nodes, StartStep(n)
    PROVE  TypeOK'
<1>1. CASE StartRequested(n)
  BY <1>1, AddStartType DEF TypeOK, StartRequested, jobVars
<1>2. CASE StartRead(n)
  <2>1. Nothing \in Material /\ [c \in Certs |-> IF Served(c, n) THEN "current" ELSE "none"] \in Material
    BY DEF Nothing, Material
  <2> QED BY <1>2, <2>1 DEF TypeOK, StartRead, StartState, jobVars
<1>3. CASE StartDelivered(n) \/ StartFails(n)
  <2>1. Nothing \in Material
    BY DEF Nothing, Material
  <2> QED BY <1>3, <2>1 DEF TypeOK, StartDelivered, StartFails, StartState, jobVars
<1> QED BY <1>1, <1>2, <1>3 DEF StartStep

LEMMA CreateDeleteType == TypeOK /\ (Create \/ Delete) => TypeOK'
<1> SUFFICES ASSUME TypeOK, Create \/ Delete PROVE TypeOK'
  OBVIOUS
<1>1. CASE Create
  <2>1. PICK c \in Certs, p \in Params, e \in BOOLEAN, ns \in SUBSET Nodes :
          Put(c, [NoRow EXCEPT !.source = "ACME", !.enabled = e, !.params = p, !.nodes = ns])
    BY <1>1 DEF Create
  <2>2. [NoRow EXCEPT !.source = "ACME", !.enabled = e, !.params = p, !.nodes = ns] \in Row
    BY NoRowType DEF Row
  <2> QED BY <1>1, <2>1, <2>2, PutType DEF TypeOK, Create, jobVars, nodeVars
<1>2. CASE Delete
  <2>1. PICK c \in Certs : Put(c, [NoRow EXCEPT !.source = "deleted"])
    BY <1>2 DEF Delete
  <2>2. [NoRow EXCEPT !.source = "deleted"] \in Row
    BY NoRowType DEF Row
  <2> QED BY <1>2, <2>1, <2>2, PutType DEF TypeOK, Delete, jobVars, nodeVars
<1> QED BY <1>1, <1>2

LEMMA UpdateRequestType ==
    ASSUME TypeOK, NEW c \in Certs, NEW p \in Params \cup {Keep}, NEW e \in BOOLEAN \cup {Keep},
           NEW ns \in (SUBSET Nodes) \cup {Keep}
    PROVE  /\ UpdateRequest(c, p, e, ns) \in Request
           /\ UpdateRequest(c, p, e, ns).pc \in {"write", "unbind"}
<1>1. cert[c].nodes \in SUBSET Nodes
  BY DEF TypeOK, Row
<1> QED BY <1>1 DEF UpdateRequest, Request

LEMMA AfterWriteType ==
    ASSUME NEW q \in Request, NEW ns \in SUBSET Nodes
    PROVE  /\ AfterWrite(q, ns) \in {NoRequest} \cup Request
           /\ AfterWrite(q, ns).pc \in {"idle", "mark", "restart"}
<1>1. q.cert \in Certs /\ q.left \cup ns \in SUBSET Nodes
      /\ q.follow \in {"nothing", "mark", "restart"}
  BY DEF Request
<1>2. /\ Todo(q.cert, "mark", {}) \in Request /\ Todo(q.cert, "mark", {}).pc = "mark"
      /\ RestartLeft(q.cert, q.left \cup ns) \in {NoRequest} \cup Request
      /\ RestartLeft(q.cert, q.left \cup ns).pc \in {"idle", "restart"}
  BY <1>1, TodoType, RestartLeftType DEF NoRequest
<1> QED BY <1>1, <1>2 DEF AfterWrite, NoRequest

LEMMA RequestStepType ==
    ASSUME TypeOK, NEW r \in Requests, RequestStep(r)
    PROVE  TypeOK'
<1>0. ASSUME ~Free(r)
      PROVE  request[r].cert \in Certs /\ cert[request[r].cert] \in Row /\ request[r] \in Request
  BY <1>0, StepType DEF TypeOK
<1>1. CASE Import(r)
  <2>1. PICK c \in Certs, p \in Params, e \in BOOLEAN, ns \in SUBSET Nodes, life \in 0..Validity :
          /\ Put(c, [NoRow EXCEPT !.source = "IMPORTED", !.enabled = e, !.params = p,
                        !.issuedFor = p, !.life = life, !.status = "ACTIVE", !.nodes = ns])
          /\ Ask(r, RestartLeft(c, ns))
    BY <1>1 DEF Import
  <2>2. [NoRow EXCEPT !.source = "IMPORTED", !.enabled = e, !.params = p,
            !.issuedFor = p, !.life = life, !.status = "ACTIVE", !.nodes = ns] \in Row
    BY NoRowType DEF Row
  <2> QED BY <1>1, <2>1, <2>2, PutType, AskType, RestartLeftType
          DEF TypeOK, Import, jobVars, nodeVars
<1>2. CASE Reimport(r)
  <2>1. PICK c \in Certs, p \in Params, life \in 0..Validity :
          /\ Put(c, [cert[c] EXCEPT !.params = p, !.issuedFor = p, !.life = life,
                                  !.status = "ACTIVE", !.fails = 0, !.retry = 0])
          /\ NewMaterial(c) /\ Ask(r, RestartLeft(c, cert[c].nodes))
    BY <1>2 DEF Reimport
  <2>2. [cert[c] EXCEPT !.params = p, !.issuedFor = p, !.life = life,
            !.status = "ACTIVE", !.fails = 0, !.retry = 0] \in Row /\ cert[c].nodes \in SUBSET Nodes
    <3>1. cert[c] \in Row
      BY DEF TypeOK
    <3> QED BY <3>1, ZeroTypes DEF Row
  <2> QED BY <1>2, <2>1, <2>2, PutType, AskType, RestartLeftType, NewMaterialType
          DEF TypeOK, Reimport, jobVars
<1>3. CASE UpdateRead(r)
  <2>1. PICK c \in Certs, p \in Params \cup {Keep}, e \in BOOLEAN \cup {Keep},
             ns \in (SUBSET Nodes) \cup {Keep} : Ask(r, UpdateRequest(c, p, e, ns))
    BY <1>3 DEF UpdateRead
  <2> QED BY <1>3, <2>1, UpdateRequestType, AskType DEF TypeOK, UpdateRead, jobVars, nodeVars
<1>4. CASE UpdateUnbind(r)
  <2>1. ~Free(r)
    BY <1>4 DEF UpdateUnbind, Step
  <2>2. /\ [cert[request[r].cert] EXCEPT !.nodes = {}] \in Row
        /\ [request[r] EXCEPT !.pc = "write"] \in Request
    BY <1>0, <2>1 DEF Row, Request
  <2> QED BY <1>0, <1>4, <2>1, <2>2, PutType, AskType DEF TypeOK, UpdateUnbind, jobVars, nodeVars
<1>5. CASE UpdateWrite(r)
  <2> DEFINE q == request[r]
             c == request[r].cert
             row == [cert[c] EXCEPT !.params = New(q.params, @), !.enabled = New(q.enabled, @),
                                    !.nodes = New(q.nodes, @)]
  <2>1. q \in Request /\ c \in Certs /\ cert[c] \in Row
    BY <1>0, <1>5 DEF UpdateWrite, Step
  <2>2. /\ New(q.params, cert[c].params) \in Params \cup {None}
        /\ New(q.enabled, cert[c].enabled) \in BOOLEAN
        /\ New(q.nodes, cert[c].nodes) \in SUBSET Nodes
    BY <2>1 DEF New, Request, Row
  <2>3. row \in Row
    BY <2>1, <2>2 DEF Row
  <2>4. row.nodes \in SUBSET Nodes
    BY <2>3 DEF Row
  <2>5. Put(c, row) /\ Ask(r, AfterWrite(q, row.nodes))
    BY <1>5 DEF UpdateWrite
  <2> HIDE DEF row
  <2> QED BY <1>5, <2>1, <2>3, <2>4, <2>5, PutType, AskType, AfterWriteType
          DEF TypeOK, UpdateWrite, jobVars, nodeVars
<1>6. CASE UpdateMark(r)
  <2>1. ~Free(r)
    BY <1>6 DEF UpdateMark, Step
  <2>2. [cert[request[r].cert] EXCEPT !.status = "PENDING", !.retry = 0, !.fails = 0] \in Row
    BY <1>0, <2>1, ZeroTypes DEF Row
  <2> QED BY <1>0, <1>6, <2>1, <2>2, PutType, AskType DEF TypeOK, UpdateMark, jobVars, nodeVars
<1>7. CASE IssueRead(r)
  <2>1. PICK c \in Certs : Put(c, [cert[c] EXCEPT !.retry = 0]) /\ Ask(r, Todo(c, "enqueue", {}))
    BY <1>7 DEF IssueRead
  <2>2. [cert[c] EXCEPT !.retry = 0] \in Row
    <3>1. cert[c] \in Row
      BY DEF TypeOK
    <3> QED BY <3>1, ZeroTypes DEF Row
  <2>3. Todo(c, "enqueue", {}) \in Request
    BY TodoType
  <2> QED BY <1>7, <2>1, <2>2, <2>3, PutType, AskType DEF TypeOK, IssueRead, jobVars, nodeVars
<1>8. CASE IssueEnqueue(r)
  <2>1. ~Free(r) /\ AddJob(request[r].cert, TRUE)
    BY <1>8 DEF IssueEnqueue, Step
  <2> QED BY <1>0, <1>8, <2>1, AddJobType, AskType DEF TypeOK, IssueEnqueue, nodeVars
<1>9. CASE RestartBoundNodes(r)
  <2>1. ~Free(r)
    BY <1>9 DEF RestartBoundNodes, Step
  <2>2. PICK n \in request[r].left : /\ AddStart(n)
                 /\ Ask(r, RestartLeft(request[r].cert, request[r].left \ {n}))
    BY <1>9 DEF RestartBoundNodes
  <2>3. n \in Nodes /\ request[r].left \ {n} \in SUBSET Nodes
    BY <1>0, <2>1 DEF Request
  <2> QED BY <1>0, <1>9, <2>1, <2>2, <2>3, AddStartType, AskType, RestartLeftType
          DEF TypeOK, RestartBoundNodes, jobVars
<1>10. CASE RequestFails(r)
  BY <1>10, AskType DEF TypeOK, RequestFails, jobVars, nodeVars
<1> QED BY <1>1, <1>2, <1>3, <1>4, <1>5, <1>6, <1>7, <1>8, <1>9, <1>10 DEF RequestStep

LEMMA NextTypeOK == TypeOK /\ [Next]_vars => TypeOK'
<1> SUFFICES ASSUME TypeOK, [Next]_vars PROVE TypeOK'
  OBVIOUS
<1>1. CASE UNCHANGED vars
  BY <1>1 DEF TypeOK, vars, jobVars, nodeVars
<1>2. CASE Next
  BY <1>2, TickType, SchedulerType, CreateDeleteType, JobType, OrderStepType, RequestStepType,
     StartStepType DEF Next
<1> QED BY <1>1, <1>2

\* Every row, job, order and request stays what it is declared to be, whatever
\* order the API, the scheduler, the worker and the start jobs take their steps in.
THEOREM TypeCorrect == Spec => []TypeOK
<1> QED BY InitTypeOK, NextTypeOK, PTL DEF Spec

-----------------------------------------------------------------------------
(* One order at a time *)

\* Queueing a job makes none active, and ends none.
LEMMA AddJobActive ==
    ASSUME TypeOK, NEW c \in Certs, NEW force, AddJob(c, force), NEW d \in Certs
    PROVE  /\ job'[d] = "active" <=> job[d] = "active"
           /\ d # c => job'[d] = job[d]
BY DEF TypeOK, AddJob, jobVars

\* An order that goes on is not idle, before and after the step.
LEMMA OrderGoesOn ==
    ASSUME TypeOK, NEW c \in Certs, OrderStep(c), ~OrderEnds(c)
    PROVE  /\ order[c].pc # "idle" /\ order'[c].pc # "idle"
           /\ \A d \in Certs \ {c} : order'[d] = order[d]
           /\ UNCHANGED jobVars
<1>1. CASE OrderBegin(c)
  BY <1>1, GotoType DEF OrderBegin
<1>2. CASE Present(c)
  BY <1>2 DEF TypeOK, Order, Present
<1>3. CASE PresentLost(c) \/ OrderThrows(c)
  BY <1>3, GotoType DEF PresentLost, OrderThrows
<1>4. CASE Store(c)
  <2>1. order[c].nodes \in SUBSET Nodes
    BY DEF TypeOK, Order
  <2> QED BY <1>4, <2>1, ConcludeType DEF Store
<1>5. CASE RecordFailure(c) \/ RecordFailureThrows(c)
  BY <1>5, ConcludeType DEF RecordFailure, RecordFailureThrows
<1>6. CASE Cleanup(c)
  BY <1>6 DEF TypeOK, Order, Cleanup
<1>7. CASE RestartAffected(c)
  BY <1>7 DEF TypeOK, Order, RestartAffected
<1> QED BY <1>1, <1>2, <1>3, <1>4, <1>5, <1>6, <1>7 DEF OrderStep

LEMMA OneActiveInit == Init => OneActive
BY DEF Init, OneActive, NoOrder

LEMMA OneActiveStep ==
    ASSUME TypeOK, OneActive, [Next]_vars
    PROVE  OneActive'
<1>1. ASSUME UNCHANGED order,
             \A c \in Certs : job'[c] = "active" <=> job[c] = "active"
      PROVE  OneActive'
  BY <1>1 DEF OneActive
<1>2. CASE Tick \/ Create \/ Delete \/ UNCHANGED vars \/ \E n \in Nodes : StartStep(n)
  BY <1>1, <1>2 DEF Tick, Create, Delete, vars, jobVars, StartStep, StartRequested, StartRead,
     StartDelivered, StartFails
<1>3. CASE Scheduler
  BY <1>1, <1>3, AddJobActive
     DEF Scheduler, RenewQuery, RenewAborts, RenewQueue, jobVars
<1>4. ASSUME NEW r \in Requests, RequestStep(r)
      PROVE  OneActive'
  <2>1. CASE IssueEnqueue(r)
    BY <1>1, <2>1, AddJobActive, StepType DEF IssueEnqueue, Step
  <2> QED BY <1>1, <1>4, <2>1 DEF RequestStep, Import, Reimport, UpdateRead, UpdateUnbind,
             UpdateWrite, UpdateMark, IssueRead, RestartBoundNodes, RequestFails, jobVars
<1>5. ASSUME NEW c \in Certs, OrderRead(c)
      PROVE  OneActive'
  <2>1. job' = [job EXCEPT ![c] = "active"] /\ order'[c].pc = "begin"
        /\ (\A d \in Certs : job[d] # "active")
        /\ \A d \in Certs \ {c} : order'[d] = order[d]
    BY <1>5 DEF OrderRead, CanRun, TypeOK
  <2> QED BY <2>1 DEF OneActive, TypeOK
<1>6. ASSUME NEW c \in Certs, OrderSkipped(c)
      PROVE  OneActive'
  BY <1>1, <1>6 DEF OrderSkipped, CanRun, JobEnds, TypeOK
<1>7. ASSUME NEW c \in Certs, OrderEnds(c) \/ Crash(c)
      PROVE  OneActive'
  <2>1. /\ job'[c] # "active" /\ order'[c].pc = "idle"
        /\ \A d \in Certs \ {c} : job'[d] = job[d] /\ order'[d] = order[d]
    BY <1>7 DEF OrderEnds, Crash, JobEnds, TypeOK, NoOrder
  <2> QED BY <2>1 DEF OneActive
<1>8. ASSUME NEW c \in Certs, OrderStep(c), ~OrderEnds(c)
      PROVE  OneActive'
  BY <1>8, OrderGoesOn DEF OneActive, jobVars
<1> QED BY <1>2, <1>3, <1>4, <1>5, <1>6, <1>7, <1>8 DEF Next

LEMMA OneActiveOrder == OneActive => OneOrder
BY DEF OneActive, OneOrder

\* While an order runs its job is active, and no other order of the installation
\* runs: the orders of different certificates, retries and jobs handed out again
\* after a crash never overlap.
THEOREM OrderCorrect == Spec => []OneOrder
<1> QED BY InitTypeOK, NextTypeOK, OneActiveInit, OneActiveStep, OneActiveOrder, PTL DEF Spec

-----------------------------------------------------------------------------
(* What was imported is not ordered *)

\* Steps that leave the source of every certificate as it is.
SameSource == \A c \in Certs : cert'[c].source = cert[c].source

LEMMA PutSource ==
    ASSUME TypeOK, NEW c \in Certs, NEW row, Put(c, row), row.source = cert[c].source
    PROVE  SameSource
BY DEF SameSource, TypeOK, Put

LEMMA SourceStep ==
    ASSUME TypeOK, [Next]_vars, ~Create, ~Delete, ~\E r \in Requests : Import(r)
    PROVE  SameSource
<1>1. CASE UNCHANGED cert
  BY <1>1 DEF SameSource
<1>2. CASE Tick
  BY <1>2, ZenonT(60) DEF SameSource, TypeOK, Row, Tick
<1>3. CASE Scheduler \/ \E n \in Nodes : StartStep(n)
  BY <1>1, <1>3 DEF Scheduler, RenewQuery, RenewAborts, RenewQueue,
     StartStep, StartRequested, StartRead, StartDelivered, StartFails
<1>4. ASSUME NEW c \in Certs, OrderRead(c) \/ OrderSkipped(c) \/ OrderStep(c) \/ Crash(c)
      PROVE  SameSource
  <2>0. cert[c] \in Row
    BY DEF TypeOK
  <2>1. CASE OrderBegin(c)
    BY <2>0, <2>1, PutSource DEF OrderBegin, Row
  <2>2. CASE Store(c)
    BY <2>0, <2>2, PutSource DEF Store, Row
  <2>3. CASE RecordFailure(c)
    BY <2>0, <2>3, PutSource DEF RecordFailure, Row
  <2> QED BY <1>1, <1>4, <2>1, <2>2, <2>3 DEF OrderRead, OrderSkipped, Crash, OrderStep, Present,
             PresentLost, OrderThrows, RecordFailureThrows, Cleanup, RestartAffected, OrderEnds
<1>5. ASSUME NEW r \in Requests, RequestStep(r)
      PROVE  SameSource
  <2>0. ~Free(r) => request[r].cert \in Certs /\ cert[request[r].cert] \in Row
    BY StepType DEF TypeOK
  <2>1. CASE Reimport(r)
    BY <2>1, PutSource, ZenonT(60) DEF Reimport, TypeOK, Row
  <2>2. CASE UpdateUnbind(r)
    BY <2>0, <2>2, PutSource DEF UpdateUnbind, Step, Row
  <2>3. CASE UpdateWrite(r)
    BY <2>0, <2>3, PutSource DEF UpdateWrite, Step, Row
  <2>4. CASE UpdateMark(r)
    BY <2>0, <2>4, PutSource DEF UpdateMark, Step, Row
  <2>5. CASE IssueRead(r)
    BY <2>5, PutSource DEF IssueRead, TypeOK, Row
  <2> QED BY <1>1, <1>5, <2>1, <2>2, <2>3, <2>4, <2>5
          DEF RequestStep, UpdateRead, IssueEnqueue, RestartBoundNodes, RequestFails
<1> QED BY <1>1, <1>2, <1>3, <1>4, <1>5 DEF Next, vars

\* Asking for something that is not an order leaves the pending orders as they are.
LEMMA AskOther ==
    ASSUME TypeOK, NEW r \in Requests, NEW q \in {NoRequest} \cup Request, Ask(r, q),
           q.pc # "enqueue", NEW s \in Requests, Step(s, "enqueue")'
    PROVE  Step(s, "enqueue") /\ request'[s] = request[s]
BY AskType DEF Step, Free

LEMMA NotOrderedInit == Init => NotOrdered
BY DEF Init, NotOrdered, Quiet, Step, Free

\* A step that is none of the scheduler or of a request to issue leaves a
\* certificate nobody orders alone.
LEMMA QuietStep ==
    ASSUME TypeOK, OneActive, NotOrdered, [Next]_vars, NEW c \in Certs, Quiet(c),
           cert[c].source # "ACME"
    PROVE  Quiet(c)'
<1>1. CASE UNCHANGED <<job, queueing, request>>
  BY <1>1 DEF Quiet, Step, Free
<1>2. CASE Tick \/ Create \/ Delete \/ \E n \in Nodes : StartStep(n)
  BY <1>1, <1>2 DEF Tick, Create, Delete, jobVars, StartStep, StartRequested, StartRead,
     StartDelivered, StartFails
<1>3. CASE Scheduler
  <2>1. CASE RenewQuery \/ RenewAborts
    BY <2>1 DEF RenewQuery, RenewAborts, Due, Quiet, Step, Free, jobVars
  <2>2. ASSUME NEW d \in Certs, RenewQueue(d) PROVE Quiet(c)'
    <3>1. d # c /\ AddJob(d, FALSE) /\ queueing' = queueing \ {d} /\ UNCHANGED request
      BY <2>2 DEF RenewQueue, Quiet
    <3> QED BY <3>1, AddJobActive DEF Quiet, Step, Free
  <2> QED BY <1>3, <2>1, <2>2 DEF Scheduler
<1>4. ASSUME NEW d \in Certs, OrderRead(d) \/ OrderSkipped(d) \/ OrderStep(d) \/ Crash(d)
      PROVE  Quiet(c)'
  <2>1. /\ job[d] \in {"active", "waiting"}
        /\ \A e \in Certs \ {d} : job'[e] = job[e]
        /\ UNCHANGED <<queueing, request>>
    <3>1. CASE OrderRead(d) \/ OrderSkipped(d) \/ Crash(d)
      BY <3>1 DEF OrderRead, OrderSkipped, Crash, CanRun, JobEnds, TypeOK
    <3>2. CASE OrderEnds(d)
      BY <3>2 DEF OrderEnds, JobEnds, OneActive, TypeOK
    <3>3. CASE OrderStep(d) /\ ~OrderEnds(d)
      <4>1. UNCHANGED <<queueing, request>>
        BY <3>3 DEF OrderStep, OrderBegin, Present, PresentLost, OrderThrows, Store, RecordFailure,
           RecordFailureThrows, Cleanup, RestartAffected
      <4> QED BY <3>3, <4>1, OrderGoesOn DEF OneActive, jobVars
    <3> QED BY <1>4, <3>1, <3>2, <3>3
  <2> QED BY <2>1 DEF Quiet, Step, Free
<1>5. ASSUME NEW r \in Requests, RequestStep(r)
      PROVE  Quiet(c)'
  <2>1. ASSUME NEW q \in {NoRequest} \cup Request, Ask(r, q), q.pc # "enqueue" \/ q.cert # c,
               job'[c] = job[c], UNCHANGED queueing
        PROVE  Quiet(c)'
    BY <2>1, AskType DEF Quiet, Step, Free
  <2>2. CASE Import(r)
    BY <2>1, <2>2, RestartLeftType DEF Import, jobVars, NoRequest
  <2>3. CASE Reimport(r)
    <3>1. \A d \in Certs : cert[d].nodes \in SUBSET Nodes
      BY DEF TypeOK, Row
    <3> QED BY <2>1, <2>3, <3>1, RestartLeftType DEF Reimport, jobVars, NoRequest
  <2>4. CASE UpdateRead(r)
    BY <2>1, <2>4, UpdateRequestType DEF UpdateRead, jobVars
  <2>5. CASE UpdateUnbind(r)
    <3>1. [request[r] EXCEPT !.pc = "write"] \in Request
          /\ [request[r] EXCEPT !.pc = "write"].pc = "write"
      BY <2>5, StepType DEF UpdateUnbind, Step, Request
    <3> QED BY <2>1, <2>5, <3>1 DEF UpdateUnbind, jobVars
  <2>6. CASE UpdateWrite(r)
    <3>1. PICK ns : Ask(r, AfterWrite(request[r], ns)) /\ ns \in SUBSET Nodes
      <4>1. request[r] \in Request /\ cert[request[r].cert] \in Row
        BY <2>6, StepType DEF UpdateWrite, Step, TypeOK
      <4>2. New(request[r].nodes, cert[request[r].cert].nodes) \in SUBSET Nodes
        BY <4>1 DEF New, Request, Row
      <4>3. Ask(r, AfterWrite(request[r], New(request[r].nodes, cert[request[r].cert].nodes)))
        BY <2>6, <4>1 DEF UpdateWrite, Row
      <4> QED BY <4>2, <4>3
    <3>2. request[r] \in Request
      BY <2>6, StepType DEF UpdateWrite, Step
    <3> QED BY <2>1, <2>6, <3>1, <3>2, AfterWriteType DEF UpdateWrite, jobVars
  <2>7. CASE UpdateMark(r) \/ RequestFails(r)
    BY <2>1, <2>7 DEF UpdateMark, RequestFails, jobVars, NoRequest
  <2>8. CASE IssueRead(r)
    BY <2>1, <2>8, TodoType DEF IssueRead, jobVars
  <2>9. CASE IssueEnqueue(r)
    <3>1. request[r].cert \in Certs /\ request[r].cert # c /\ AddJob(request[r].cert, TRUE)
      BY <2>9, StepType DEF IssueEnqueue, Quiet, Step
    <3>2. job'[c] = job[c]
      BY <3>1, AddJobActive
    <3> QED BY <2>1, <2>9, <3>2 DEF IssueEnqueue, NoRequest
  <2>10. CASE RestartBoundNodes(r)
    <3>1. request[r] \in Request
      BY <2>10, StepType DEF RestartBoundNodes, Step
    <3> QED BY <2>1, <2>10, <3>1, RestartLeftType DEF RestartBoundNodes, jobVars, NoRequest, Request
  <2> QED BY <1>5, <2>2, <2>3, <2>4, <2>5, <2>6, <2>7, <2>8, <2>9, <2>10 DEF RequestStep
<1> QED BY <1>1, <1>2, <1>3, <1>4, <1>5 DEF Next, vars, jobVars

LEMMA NotOrderedStep ==
    ASSUME TypeOK, OneActive, NotOrdered, [Next]_vars
    PROVE  NotOrdered'
<1>1. ASSUME NEW c \in Certs, cert'[c].source \in {"none", "IMPORTED"}
      PROVE  cert[c].source \in {"none", "IMPORTED"}
  <2>1. CASE Create
    <3>1. PICK d \in Certs, p \in Params, e \in BOOLEAN, ns \in SUBSET Nodes :
            Put(d, [NoRow EXCEPT !.source = "ACME", !.enabled = e, !.params = p, !.nodes = ns])
      BY <2>1 DEF Create
    <3> QED BY <1>1, <3>1 DEF TypeOK, Put, NoRow
  <2>2. CASE Delete
    BY <1>1, <2>2 DEF TypeOK, Delete, Put, NoRow
  <2>3. ASSUME NEW r \in Requests, Import(r)
        PROVE  cert[c].source \in {"none", "IMPORTED"}
    BY <1>1, <2>3 DEF TypeOK, Import, Put
  <2>4. CASE SameSource
    BY <1>1, <2>4 DEF SameSource
  <2> QED BY <2>1, <2>2, <2>3, <2>4, SourceStep
<1> QED BY <1>1, QuietStep DEF NotOrdered

LEMMA NotOrderedImported == NotOrdered => ImportedNeverOrdered
BY DEF NotOrdered, Quiet, ImportedNeverOrdered

\* No order of an imported certificate is ever queued or run, by the scheduler, an
\* update or a request to issue: the material somebody brought is not replaced.
THEOREM ImportedCorrect == Spec => []ImportedNeverOrdered
<1>1. Init => TypeOK /\ OneActive /\ NotOrdered
  BY InitTypeOK, OneActiveInit, NotOrderedInit
<1>2. TypeOK /\ OneActive /\ NotOrdered /\ [Next]_vars => (TypeOK /\ OneActive /\ NotOrdered)'
  BY NextTypeOK, OneActiveStep, NotOrderedStep
<1> QED BY <1>1, <1>2, NotOrderedImported, PTL DEF Spec

-----------------------------------------------------------------------------
(* The panel keeps material of what its nodes serve *)

LEMMA WantedInit == Init => Wanted
BY DEF Init, Wanted, Exists, NoRow, NoOrder

LEMMA UnservedInit == Init => Unserved
BY DEF Init, Unserved, Blank, NoRow, Nothing

\* What a step can do to the parameters and the material of a row.
RowKept(c) ==
    /\ cert'[c].params = cert[c].params \/ cert'[c].params \in Params
    /\ cert'[c].issuedFor = cert[c].issuedFor \/ (Exists(c) /\ cert'[c].issuedFor \in Params)
    /\ cert'[c].source = cert[c].source \/ cert'[c].source = "deleted"

\* A row that is written anew.
RowMade(c) ==
    /\ cert[c].source = "none" /\ cert'[c].source # "none"
    /\ cert'[c].params \in Params
    /\ cert'[c].issuedFor \in Params \cup {None}

LEMMA PutKeeps ==
    ASSUME TypeOK, NEW c \in Certs, NEW row, Put(c, row),
           row.params = cert[c].params \/ row.params \in Params,
           row.issuedFor = cert[c].issuedFor \/ (Exists(c) /\ row.issuedFor \in Params),
           row.source = cert[c].source \/ row.source = "deleted"
    PROVE  \A d \in Certs : RowKept(d)
BY DEF RowKept, TypeOK, Put

LEMMA RowStep ==
    ASSUME TypeOK, Wanted, [Next]_vars, NEW c \in Certs
    PROVE  RowKept(c) \/ RowMade(c) \/ cert'[c].source = "deleted"
<1>1. ASSUME UNCHANGED cert PROVE RowKept(c)
  BY <1>1 DEF RowKept
<1>2. CASE Tick
  BY <1>2, ZenonT(60) DEF RowKept, TypeOK, Row, Tick
<1>3. CASE Create
  <2>1. PICK d \in Certs, p \in Params, e \in BOOLEAN, ns \in SUBSET Nodes :
          /\ cert[d].source = "none"
          /\ Put(d, [NoRow EXCEPT !.source = "ACME", !.enabled = e, !.params = p, !.nodes = ns])
    BY <1>3 DEF Create
  <2> QED BY <2>1 DEF TypeOK, Put, NoRow, RowKept, RowMade
<1>4. CASE Delete
  BY <1>4 DEF TypeOK, Delete, Put, NoRow, RowKept
<1>5. CASE Scheduler \/ \E n \in Nodes : StartStep(n)
  BY <1>1, <1>5 DEF Scheduler, RenewQuery, RenewAborts, RenewQueue,
     StartStep, StartRequested, StartRead, StartDelivered, StartFails
<1>6. ASSUME NEW d \in Certs, OrderRead(d) \/ OrderSkipped(d) \/ OrderStep(d) \/ Crash(d)
      PROVE  RowKept(c)
  <2>0. cert[d] \in Row
    BY DEF TypeOK
  <2>1. CASE OrderBegin(d)
    BY <2>0, <2>1, PutKeeps DEF OrderBegin, Row
  <2>2. CASE Store(d)
    <3>1. order[d].params \in Params
      BY <2>2 DEF Store, Wanted
    <3> QED BY <2>0, <2>2, <3>1, PutKeeps DEF Store, Row
  <2>3. CASE RecordFailure(d)
    BY <2>0, <2>3, PutKeeps DEF RecordFailure, Row
  <2> QED BY <1>1, <1>6, <2>1, <2>2, <2>3 DEF OrderRead, OrderSkipped, Crash, OrderStep, Present,
             PresentLost, OrderThrows, RecordFailureThrows, Cleanup, RestartAffected, OrderEnds
<1>7. ASSUME NEW r \in Requests, RequestStep(r)
      PROVE  RowKept(c) \/ RowMade(c)
  <2>0. ~Free(r) => /\ request[r].cert \in Certs /\ cert[request[r].cert] \in Row
                    /\ request[r] \in Request
    BY StepType DEF TypeOK
  <2>1. CASE Import(r)
    <3>1. PICK d \in Certs, p \in Params, e \in BOOLEAN, ns \in SUBSET Nodes,
               life \in 0..Validity :
            /\ cert[d].source = "none"
            /\ Put(d, [NoRow EXCEPT !.source = "IMPORTED", !.enabled = e, !.params = p,
                        !.issuedFor = p, !.life = life, !.status = "ACTIVE", !.nodes = ns])
      BY <2>1 DEF Import
    <3> QED BY <3>1 DEF TypeOK, Put, NoRow, RowKept, RowMade
  <2>2. CASE Reimport(r)
    BY <2>2, PutKeeps, ZenonT(60) DEF Reimport, TypeOK, Row, Exists
  <2>3. CASE UpdateUnbind(r)
    BY <2>0, <2>3, PutKeeps DEF UpdateUnbind, Step, Row
  <2>4. CASE UpdateWrite(r)
    <3>1. New(request[r].params, cert[request[r].cert].params)
             \in Params \cup {cert[request[r].cert].params}
      BY <2>0, <2>4 DEF UpdateWrite, Step, New, Request
    <3> QED BY <2>0, <2>4, <3>1, PutKeeps DEF UpdateWrite, Step, Row
  <2>5. CASE UpdateMark(r)
    BY <2>0, <2>5, PutKeeps DEF UpdateMark, Step, Row
  <2>6. CASE IssueRead(r)
    BY <2>6, PutKeeps DEF IssueRead, TypeOK, Row
  <2> QED BY <1>1, <1>7, <2>1, <2>2, <2>3, <2>4, <2>5, <2>6
          DEF RequestStep, UpdateRead, IssueEnqueue, RestartBoundNodes, RequestFails
<1> QED BY <1>1, <1>2, <1>3, <1>4, <1>5, <1>6, <1>7 DEF Next, vars

\* What an order asks for is what its row asked for when it was read.
LEMMA OrderKeepsParams ==
    ASSUME TypeOK, Wanted, [Next]_vars, NEW c \in Certs, order'[c].pc \in {"begin", "solve"}
    PROVE  order'[c].params \in Params
<1>1. CASE UNCHANGED order
  BY <1>1 DEF Wanted
<1>2. ASSUME NEW d \in Certs, OrderRead(d)
      PROVE  order'[c].params \in Params
  BY <1>2 DEF OrderRead, TypeOK, Wanted
<1>3. ASSUME NEW d \in Certs, OrderStep(d)
      PROVE  order'[c].params \in Params
  <2>1. CASE OrderBegin(d)
    BY <2>1, GotoType DEF OrderBegin, Wanted
  <2>2. CASE Present(d)
    BY <2>2 DEF TypeOK, Order, Present, Wanted
  <2>3. CASE PresentLost(d) \/ OrderThrows(d)
    BY <2>3, GotoType DEF PresentLost, OrderThrows, Wanted
  <2>4. CASE Store(d) \/ RecordFailure(d) \/ RecordFailureThrows(d)
    <3>1. order[d].nodes \in SUBSET Nodes
      BY DEF TypeOK, Order
    <3> QED BY <2>4, <3>1, ConcludeType DEF Store, RecordFailure, RecordFailureThrows, Wanted
  <2>5. CASE Cleanup(d) \/ RestartAffected(d)
    <3>1. d # c
      BY <2>5 DEF TypeOK, Order, Cleanup, RestartAffected
    <3>2. order'[c] = order[c]
      BY <2>5, <3>1 DEF TypeOK, Cleanup, RestartAffected
    <3> QED BY <3>2 DEF Wanted
  <2>6. CASE OrderEnds(d)
    BY <2>6 DEF OrderEnds, TypeOK, NoOrder, Wanted
  <2> QED BY <1>3, <2>1, <2>2, <2>3, <2>4, <2>5, <2>6 DEF OrderStep
<1>4. ASSUME NEW d \in Certs, Crash(d)
      PROVE  order'[c].params \in Params
  BY <1>4 DEF Crash, TypeOK, NoOrder, Wanted
<1>5. ASSUME NEW r \in Requests, RequestStep(r)
      PROVE  order'[c].params \in Params
  BY <1>1, <1>5 DEF RequestStep, Import, Reimport, UpdateRead, UpdateUnbind,
     UpdateWrite, UpdateMark, IssueRead, IssueEnqueue, RestartBoundNodes, RequestFails
<1>6. CASE ~(\E d \in Certs : OrderRead(d) \/ OrderStep(d) \/ Crash(d))
           /\ ~\E r \in Requests : RequestStep(r)
  BY <1>1, <1>6 DEF Next, vars, Tick, Scheduler, RenewQuery, RenewAborts, RenewQueue, Create, Delete,
     OrderSkipped, StartStep, StartRequested, StartRead, StartDelivered, StartFails
<1> QED BY <1>2, <1>3, <1>4, <1>5, <1>6

LEMMA WantedStep ==
    ASSUME TypeOK, Wanted, [Next]_vars
    PROVE  Wanted'
<1>1. ASSUME NEW c \in Certs, Exists(c)'
      PROVE  cert'[c].params \in Params
  BY <1>1, RowStep DEF RowKept, RowMade, Wanted, Exists
<1> QED BY <1>1, OrderKeepsParams DEF Wanted

\* Nothing is sent to a node of a certificate without material.
LEMMA BlankStep ==
    ASSUME TypeOK, [Next]_vars, NEW c \in Certs, Blank(c), cert[c].issuedFor = None
    PROVE  Blank(c)'
<1>1. CASE UNCHANGED <<sending, serving>>
  BY <1>1 DEF Blank
<1>2. ASSUME NEW d \in Certs, NewMaterial(d)
      PROVE  Blank(c)'
  BY <1>2, NewMaterialType DEF Blank
<1>3. ASSUME NEW n \in Nodes, AddStart(n)
      PROVE  Blank(c)'
  BY <1>1, <1>3 DEF AddStart, nodeVars
<1>4. ASSUME NEW n \in Nodes, StartStep(n)
      PROVE  Blank(c)'
  <2>1. CASE StartRequested(n)
    BY <1>3, <2>1 DEF StartRequested
  <2>2. CASE StartRead(n)
    BY <2>2, ZenonT(60) DEF StartRead, TypeOK, Material, Served, Blank, Nothing
  <2>3. CASE StartDelivered(n) \/ StartFails(n)
    BY <2>3 DEF StartDelivered, StartFails, TypeOK, Material, Blank, Nothing
  <2> QED BY <1>4, <2>1, <2>2, <2>3 DEF StartStep
<1>5. ASSUME NEW d \in Certs, OrderRead(d) \/ OrderSkipped(d) \/ OrderStep(d) \/ Crash(d)
      PROVE  Blank(c)'
  <2>1. CASE Store(d)
    BY <1>2, <2>1 DEF Store
  <2>2. CASE RestartAffected(d)
    BY <1>3, <2>2 DEF RestartAffected, TypeOK, Order
  <2> QED BY <1>1, <1>5, <2>1, <2>2 DEF OrderRead, OrderSkipped, Crash, OrderStep, OrderBegin,
             Present, PresentLost, OrderThrows, RecordFailure, RecordFailureThrows, Cleanup,
             OrderEnds, nodeVars
<1>6. ASSUME NEW r \in Requests, RequestStep(r)
      PROVE  Blank(c)'
  <2>1. CASE Reimport(r)
    BY <1>2, <2>1 DEF Reimport
  <2>2. CASE RestartBoundNodes(r)
    <3>1. request[r] \in Request
      BY <2>2, StepType DEF RestartBoundNodes, Step
    <3> QED BY <1>3, <2>2, <3>1 DEF RestartBoundNodes, Request
  <2> QED BY <1>1, <1>6, <2>1, <2>2 DEF RequestStep, Import, UpdateRead, UpdateUnbind,
             UpdateWrite, UpdateMark, IssueRead, IssueEnqueue, RequestFails, nodeVars
<1>7. CASE Tick \/ Scheduler \/ Create \/ Delete \/ UNCHANGED vars
  BY <1>1, <1>7 DEF Tick, Scheduler, RenewQuery, RenewAborts, RenewQueue, Create, Delete, vars,
     nodeVars
<1> QED BY <1>4, <1>5, <1>6, <1>7 DEF Next

LEMMA UnservedStep ==
    ASSUME TypeOK, Wanted, Unserved, [Next]_vars
    PROVE  Unserved'
<1>1. ASSUME NEW c \in Certs, cert'[c].source = "none"
      PROVE  cert'[c].issuedFor = None
  BY <1>1, RowStep DEF RowKept, RowMade, Exists, Unserved
<1>2. ASSUME NEW c \in Certs, cert'[c].source # "deleted", cert'[c].issuedFor = None
      PROVE  Blank(c)'
  <2>1. cert[c].source # "deleted" /\ cert[c].issuedFor = None
    BY <1>2, RowStep, NoneAssumption DEF RowKept, RowMade, Unserved
  <2> QED BY <2>1, BlankStep DEF Unserved
<1> QED BY <1>1, <1>2 DEF Unserved

LEMMA UnservedKept == Unserved => MaterialKept
BY DEF Unserved, Blank, MaterialKept, Exists

\* Whatever a node serves or is being sent, the panel has material of: neither
\* changed parameters nor a failed order, whoever comes between, take it away.
THEOREM MaterialCorrect == Spec => []MaterialKept
<1>1. Init => TypeOK /\ Wanted /\ Unserved
  BY InitTypeOK, WantedInit, UnservedInit
<1>2. TypeOK /\ Wanted /\ Unserved /\ [Next]_vars => (TypeOK /\ Wanted /\ Unserved)'
  BY NextTypeOK, WantedStep, UnservedStep
<1> QED BY <1>1, <1>2, UnservedKept, PTL DEF Spec

-----------------------------------------------------------------------------
(* ISSUING means an order in flight *)

\* Failures after which a certificate may stay in ISSUING with no order to come are
\* left out: a database or queue that fails while a failure is recorded, a job lost
\* twice, and a certificate disabled after its worker died and before the job runs
\* again, which then skips it.
Recoverable ==
    /\ "db" \notin Faults /\ "stall" \notin Faults
    /\ "crash" \in Faults => Requests = {}

FlightInv == TypeOK /\ OneActive /\ NotOrdered /\ InFlight

LEMMA FlightInit == Init => InFlight
BY DEF Init, InFlight, Fine, NoRow

\* Steps in which nothing happens to a certificate that its order depends on.
Calm(c) ==
    /\ cert'[c].status = cert[c].status /\ cert'[c].source = cert[c].source
    /\ cert'[c].enabled = cert[c].enabled
    /\ job'[c] = job[c] /\ (job[c] # "none" => forced'[c] = forced[c])
    /\ order'[c].pc = order[c].pc

LEMMA CalmFine ==
    ASSUME NEW c \in Certs, Calm(c), Fine(c)
    PROVE  Fine(c)'
BY DEF Calm, Fine, Exists

LEMMA PutIssuing ==
    ASSUME TypeOK, NEW d \in Certs, NEW row, Put(d, row),
           row.status = "ISSUING" => cert[d].status = "ISSUING" /\ row.source = cert[d].source
    PROVE  \A c \in Certs : cert'[c].status = "ISSUING" =>
              cert[c].status = "ISSUING" /\ cert'[c].source = cert[c].source
BY DEF TypeOK, Put

LEMMA PutSettled ==
    ASSUME TypeOK, NEW c \in Certs, NEW row, Put(c, row), row.status \in {"ACTIVE", "ERROR"},
           row.source = cert[c].source, row.enabled = cert[c].enabled
    PROVE  /\ cert'[c].status # "ISSUING" /\ cert'[c].source = cert[c].source
           /\ cert'[c].enabled = cert[c].enabled
BY DEF TypeOK, Put

LEMMA AddJobCalm ==
    ASSUME TypeOK, NEW d \in Certs, NEW force, AddJob(d, force), UNCHANGED <<cert, order>>,
           NEW c \in Certs, Fine(c)
    PROVE  Fine(c)'
BY DEF TypeOK, AddJob, jobVars, Fine, Exists

\* The worker's steps at one certificate leave the others alone.
LEMMA OthersCalm ==
    ASSUME TypeOK, NEW d \in Certs, OrderRead(d) \/ OrderSkipped(d) \/ OrderStep(d) \/ Crash(d),
           NEW c \in Certs \ {d}
    PROVE  Calm(c)
<1>1. cert'[c] = cert[c]
  BY DEF OrderRead, OrderSkipped, Crash, OrderStep, OrderBegin, Present, PresentLost, OrderThrows,
     Store, RecordFailure, RecordFailureThrows, Cleanup, RestartAffected, OrderEnds, TypeOK, Put
<1>2. CASE OrderStep(d) /\ ~OrderEnds(d)
  BY <1>1, <1>2, OrderGoesOn DEF Calm, jobVars
<1>3. CASE OrderRead(d) \/ OrderSkipped(d) \/ Crash(d) \/ OrderEnds(d)
  BY <1>1, <1>3 DEF OrderRead, OrderSkipped, Crash, OrderEnds, JobEnds, TypeOK, Calm
<1> QED BY <1>2, <1>3

LEMMA WorkerFine ==
    ASSUME TypeOK, OneActive, Recoverable, NEW c \in Certs, Fine(c),
           OrderRead(c) \/ OrderSkipped(c) \/ OrderStep(c) \/ Crash(c)
    PROVE  Fine(c)'
<1>0. cert[c] \in Row /\ order[c] \in Order
  BY DEF TypeOK
<1>1. CASE OrderRead(c)
  BY <1>1 DEF OrderRead, TypeOK, Fine, Exists
<1>2. CASE OrderSkipped(c)
  <2>1. ~(Exists(c) /\ (cert[c].enabled \/ forced[c])) /\ order[c].pc = "idle"
    BY <1>2 DEF OrderSkipped, Recoverable, CanRun, OneActive
  <2>2. cert'[c] = cert[c] /\ job'[c] = "none" /\ cert[c].status # "ISSUING"
    BY <1>2, <2>1 DEF OrderSkipped, JobEnds, TypeOK, Fine
  <2> QED BY <2>2 DEF Fine
<1>3. CASE OrderBegin(c)
  <2>1. cert'[c] = [cert[c] EXCEPT !.status = "ISSUING"] /\ order'[c].pc = "solve"
        /\ UNCHANGED <<job, forced>> /\ Exists(c)
    BY <1>3, GotoType DEF OrderBegin, TypeOK, Put, jobVars
  <2>2. Exists(c)' /\ cert'[c].enabled = cert[c].enabled
    BY <1>0, <2>1 DEF Exists, Row
  <2> QED BY <2>1, <2>2 DEF Fine
<1>4. CASE Present(c)
  <2>1. order'[c].pc = order[c].pc /\ UNCHANGED <<cert, job, forced>>
    BY <1>0, <1>4 DEF Present, TypeOK, Order, jobVars
  <2> QED BY <2>1, CalmFine DEF Calm
<1>5. CASE PresentLost(c) \/ OrderThrows(c)
  <2>1. order'[c].pc = "failing" /\ UNCHANGED <<cert, job, forced>>
    BY <1>5, GotoType DEF PresentLost, OrderThrows, jobVars
  <2> QED BY <2>1 DEF Fine, Exists
<1>6. CASE Store(c) \/ RecordFailure(c)
  <2>1. cert'[c].status # "ISSUING" /\ cert'[c].source = cert[c].source
        /\ cert'[c].enabled = cert[c].enabled /\ UNCHANGED <<job, forced>>
    <3>1. CASE Store(c)
      BY <1>0, <3>1, PutSettled DEF Store, Row, jobVars
    <3>2. CASE RecordFailure(c)
      BY <1>0, <3>2, PutSettled DEF RecordFailure, Row, jobVars
    <3> QED BY <1>6, <3>1, <3>2
  <2> QED BY <2>1 DEF Fine, Exists
<1>7. CASE RecordFailureThrows(c)
  <2>1. ~Exists(c) /\ UNCHANGED <<cert, job, forced>>
    BY <1>7 DEF RecordFailureThrows, Recoverable, jobVars
  <2> QED BY <2>1 DEF Fine, Exists
<1>8. CASE Cleanup(c) \/ RestartAffected(c) \/ OrderEnds(c)
  <2>1. order[c].pc \in {"cleanup", "restart"} /\ job[c] = "active" /\ UNCHANGED cert
    BY <1>8 DEF Cleanup, RestartAffected, OrderEnds, OneActive
  <2>2. cert[c].status # "ISSUING"
    BY <2>1 DEF Fine
  <2>3. job'[c] = "none" \/ UNCHANGED <<job, forced>>
    BY <1>8 DEF Cleanup, RestartAffected, OrderEnds, JobEnds, TypeOK, jobVars
  <2> QED BY <2>1, <2>2, <2>3 DEF Fine, Exists
<1>9. CASE Crash(c)
  <2>1. job[c] = "active" /\ job'[c] = "waiting" /\ "crash" \in Faults /\ UNCHANGED <<cert, forced>>
    BY <1>9 DEF Crash, Recoverable, TypeOK
  <2> QED BY <2>1 DEF Fine, Exists
<1> QED BY <1>1, <1>2, <1>3, <1>4, <1>5, <1>6, <1>7, <1>8, <1>9 DEF OrderStep

\* A request can run only where workers do not die.
LEMMA RequestFine ==
    ASSUME TypeOK, Recoverable, NEW r \in Requests, RequestStep(r), NEW c \in Certs, Fine(c)
    PROVE  Fine(c)'
<1>0. /\ "crash" \notin Faults
      /\ ~Free(r) => request[r].cert \in Certs /\ cert[request[r].cert] \in Row
  BY StepType DEF Recoverable, TypeOK
<1>1. ASSUME UNCHANGED order,
             cert'[c].status = "ISSUING" =>
                cert[c].status = "ISSUING" /\ cert'[c].source = cert[c].source
      PROVE  Fine(c)'
  BY <1>0, <1>1 DEF Fine, Exists
<1>2. CASE Import(r) \/ Reimport(r)
  <2>1. cert'[c].status = "ISSUING" =>
           cert[c].status = "ISSUING" /\ cert'[c].source = cert[c].source
    <3>1. CASE Import(r)
      BY <3>1, PutIssuing DEF Import, NoRow
    <3>2. CASE Reimport(r)
      BY <3>2, PutIssuing, ZenonT(60) DEF Reimport, TypeOK, Row
    <3> QED BY <1>2, <3>1, <3>2
  <2> QED BY <1>1, <1>2, <2>1 DEF Import, Reimport
<1>3. CASE UpdateUnbind(r) \/ UpdateWrite(r) \/ UpdateMark(r)
  <2>1. cert'[c].status = "ISSUING" =>
           cert[c].status = "ISSUING" /\ cert'[c].source = cert[c].source
    <3>1. CASE UpdateUnbind(r)
      BY <1>0, <3>1, PutIssuing DEF UpdateUnbind, Step, Row
    <3>2. CASE UpdateWrite(r)
      BY <1>0, <3>2, PutIssuing DEF UpdateWrite, Step, Row
    <3>3. CASE UpdateMark(r)
      BY <1>0, <3>3, PutIssuing DEF UpdateMark, Step, Row
    <3> QED BY <1>3, <3>1, <3>2, <3>3
  <2> QED BY <1>1, <1>3, <2>1 DEF UpdateUnbind, UpdateWrite, UpdateMark
<1>4. CASE IssueRead(r)
  <2>1. cert'[c].status = cert[c].status /\ cert'[c].source = cert[c].source
    BY <1>4 DEF IssueRead, TypeOK, Put, Row
  <2> QED BY <1>1, <1>4, <2>1 DEF IssueRead
<1>5. CASE UpdateRead(r) \/ IssueEnqueue(r) \/ RestartBoundNodes(r) \/ RequestFails(r)
  BY <1>1, <1>5 DEF UpdateRead, IssueEnqueue, RestartBoundNodes, RequestFails
<1> QED BY <1>2, <1>3, <1>4, <1>5, RequestStep(r) DEF RequestStep

LEMMA FineStep ==
    ASSUME TypeOK, OneActive, NotOrdered, Recoverable, [Next]_vars, NEW c \in Certs, Fine(c)
    PROVE  Fine(c)'
<1>1. CASE UNCHANGED <<cert, jobVars, order>>
  BY <1>1, CalmFine DEF Calm, jobVars
<1>2. CASE Tick
  <2>1. Calm(c)
    BY <1>2, ZenonT(60) DEF Tick, Calm, TypeOK, Row, jobVars
  <2> QED BY <2>1, CalmFine
<1>3. CASE Scheduler
  BY <1>1, <1>3, AddJobCalm DEF Scheduler, RenewQuery, RenewAborts, RenewQueue
<1>4. CASE Create
  <2>1. PICK d \in Certs, p \in Params, e \in BOOLEAN, ns \in SUBSET Nodes :
          /\ cert[d].source = "none"
          /\ Put(d, [NoRow EXCEPT !.source = "ACME", !.enabled = e, !.params = p, !.nodes = ns])
    BY <1>4 DEF Create
  <2>2. CASE c = d
    <3>1. cert'[c].status = "PENDING" /\ job[c] = "none" /\ job' = job
      BY <1>4, <2>1, <2>2 DEF Create, TypeOK, Put, NoRow, NotOrdered, Quiet, jobVars
    <3> QED BY <3>1 DEF Fine
  <2>3. CASE c # d
    <3>1. Calm(c)
      BY <1>4, <2>1, <2>3 DEF Create, TypeOK, Put, Calm, jobVars
    <3> QED BY <3>1, CalmFine
  <2> QED BY <2>2, <2>3
<1>5. CASE Delete
  <2>1. cert'[c] = cert[c] \/ (cert'[c].status = "PENDING" /\ cert'[c].source = "deleted")
    BY <1>5 DEF Delete, TypeOK, Put, NoRow
  <2> QED BY <1>5, <2>1 DEF Delete, Fine, Exists, jobVars
<1>6. ASSUME NEW d \in Certs, OrderRead(d) \/ OrderSkipped(d) \/ OrderStep(d) \/ Crash(d)
      PROVE  Fine(c)'
  BY <1>6, WorkerFine, OthersCalm, CalmFine
<1>7. CASE \E n \in Nodes : StartStep(n)
  BY <1>1, <1>7 DEF StartStep, StartRequested, StartRead, StartDelivered, StartFails
<1> QED BY <1>1, <1>2, <1>3, <1>4, <1>5, <1>6, <1>7, RequestFine DEF Next, vars

LEMMA InFlightIssuing == OneActive /\ InFlight => IssuingInFlight
BY DEF OneActive, InFlight, Fine, IssuingInFlight

\* A certificate in ISSUING, which the scheduler therefore leaves alone, has an order
\* queued or running: if a worker dies while no request comes between, or if requests
\* come at any time while no worker dies, whatever the CA and the DNS provider do.
THEOREM IssuingCorrect ==
    ASSUME Recoverable
    PROVE  Spec => []IssuingInFlight
<1>1. Init => FlightInv
  BY InitTypeOK, OneActiveInit, NotOrderedInit, FlightInit DEF FlightInv
<1>2. ASSUME FlightInv, [Next]_vars PROVE FlightInv'
  <2>1. InFlight'
    BY <1>2, FineStep, Recoverable DEF FlightInv, InFlight
  <2> QED BY <1>2, <2>1, NextTypeOK, OneActiveStep, NotOrderedStep DEF FlightInv
<1>3. FlightInv => IssuingInFlight
  BY InFlightIssuing DEF FlightInv
<1> QED BY <1>1, <1>2, <1>3, PTL DEF Spec
=============================================================================
