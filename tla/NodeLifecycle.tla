--------------------------- MODULE NodeLifecycle ---------------------------
(***************************************************************************)
(* How the panel starts, stops and watches its nodes.                      *)
(*                                                                         *)
(* A row of the table nodes says whether the node is disabled, connected   *)
(* and connecting.  Requests (nodes.service.ts, config-profile.service.ts) *)
(* change rows and queue jobs; so do the scheduler's health checks.  Five  *)
(* queues work on the same rows, each with workers of its own:             *)
(*   - start-node, a job per node, which is dropped while one exists;      *)
(*   - stop-node, a job per node, likewise;                                *)
(*   - health-check, a job per node;                                       *)
(*   - start-all-by-profile, which pauses start-node and start-all while   *)
(*     it starts all nodes of a profile; a second job of a profile is      *)
(*     dropped, and the scheduler adds it again ten seconds later;         *)
(*   - start-all, which queues one of those for every profile.             *)
(*                                                                         *)
(* A job whose worker died is run once more (BullMQ), and is failed when   *)
(* it dies again.  A queue stays paused until it is resumed.               *)
(***************************************************************************)
EXTENDS Naturals, FiniteSets

CONSTANTS
    Nodes,
    Profiles,      \* config profiles
    None,          \* no profile
    Requests,      \* bound: the requests that are made, by name,
    MaxRequests,   \* and how many of them
    Faults,        \* bound: what may fail.  "node": a node is unreachable or its
                   \* Xray dies; "refuse": a node refuses a start, or does not say
                   \* that its Xray is down; "query": a query of a plugin or of a
                   \* config; "crash": a worker or the scheduler dies; "stall":
                   \* the same job dies again;
    MaxFaults      \* and how often

ASSUME NoneAssumption   == None \notin Profiles
ASSUME BoundsAssumption ==
    /\ Requests \subseteq {"restart", "enable", "disable", "delete", "update",
                           "modify", "profile", "restartAll"}
    /\ Faults \subseteq {"node", "refuse", "query", "crash", "stall"}
    /\ MaxRequests \in Nat /\ MaxFaults \in Nat

VARIABLES
    row,           \* [Nodes -> Row]
    node,          \* [Nodes -> what is really running there]
    start,         \* [Nodes -> start-node job]
    stop,          \* [Nodes -> stop-node job]
    drop,          \* nodes with a stop-node job that deletes
    health,        \* [Nodes -> health-check job]
    group,         \* [Profiles -> start-all-by-profile job]
    retry,         \* profiles the scheduler will add again
    all,           \* there is a start-all job
    paused,        \* "start" and "all": queues that are paused
    booted,        \* the scheduler had its first health-check tick
    edit,          \* the request that is changing inbounds
    left,          \* requests and faults that are still to come
    excuse         \* [why, node]: what went wrong and nothing will repair

requestVars == <<drop, edit>>
jobVars     == <<start, stop, health, group, retry, all, paused>>
vars        == <<row, node, jobVars, requestVars, booted, left, excuse>>

Row == [here: BOOLEAN, disabled: BOOLEAN, connecting: BOOLEAN, connected: BOOLEAN,
        profile: Profiles \cup {None}, inbounds: BOOLEAN]

\* The host answers; Xray runs; with the inbounds and config of the row.
Node == [up: BOOLEAN, running: BOOLEAN, fresh: BOOLEAN]

Start  == [pc: {"none", "waiting", "check", "send", "sent"}, fresh: BOOLEAN, stalled: BOOLEAN]
Stop   == {"none", "waiting", "stopped"}
Health == [pc: {"none", "waiting", "up", "down", "null"}, connected: BOOLEAN]

\* A by-profile job: how far it is with each node, and for which nodes what it
\* read is current.
Group == [pc: {"none", "waiting", "mark", "run"},
          at: [Nodes -> {"out", "todo", "bare", "marked", "cleared", "sent"}],
          fresh: SUBSET Nodes, stalled: BOOLEAN]

NoStart == [pc |-> "none", fresh |-> FALSE, stalled |-> FALSE]
NoCheck == [pc |-> "none", connected |-> FALSE]
NoGroup == [pc |-> "none", at |-> [n \in Nodes |-> "out"], fresh |-> {}, stalled |-> FALSE]
NoEdit  == [kind |-> "none", nodes |-> {}, profile |-> None]

Asked(request) ==
    /\ request \in Requests /\ left.requests > 0
    /\ left' = [left EXCEPT !.requests = @ - 1]

Fails(fault) ==
    /\ fault \in Faults /\ left.faults > 0
    /\ left' = [left EXCEPT !.faults = @ - 1]

Reasons == {"stuck", "missed", "raced"}
Because(why, S) == {why} \X S

TypeOK ==
    /\ row \in [Nodes -> Row]
    /\ node \in [Nodes -> Node]
    /\ start \in [Nodes -> Start]
    /\ stop \in [Nodes -> Stop]
    /\ drop \subseteq Nodes
    /\ health \in [Nodes -> Health]
    /\ group \in [Profiles -> Group]
    /\ retry \subseteq Profiles
    /\ all \in BOOLEAN
    /\ paused \subseteq {"start", "all"}
    /\ booted \in BOOLEAN
    /\ edit \in [kind: {"update", "modify"}, nodes: SUBSET Nodes, profile: Profiles]
                \cup {NoEdit}
    /\ left \in [requests: 0..MaxRequests, faults: 0..MaxFaults]
    /\ excuse \subseteq Reasons \X Nodes

\* Nodes were created with a profile and inbounds, and a first start.
Init ==
    /\ row \in [Nodes -> {r \in Row : /\ r.here /\ ~r.disabled /\ ~r.connecting
                                      /\ ~r.connected /\ r.inbounds /\ r.profile # None}]
    /\ node = [n \in Nodes |-> [up |-> TRUE, running |-> FALSE, fresh |-> FALSE]]
    /\ start = [n \in Nodes |-> [NoStart EXCEPT !.pc = "waiting"]]
    /\ stop = [n \in Nodes |-> "none"]
    /\ drop = {}
    /\ health = [n \in Nodes |-> NoCheck]
    /\ group = [p \in Profiles |-> NoGroup]
    /\ retry = {}
    /\ all = FALSE
    /\ paused = {}
    /\ booted = TRUE
    /\ edit = NoEdit
    /\ left = [requests |-> MaxRequests, faults |-> MaxFaults]
    /\ excuse = {}

-----------------------------------------------------------------------------
(* Queues.                                                                   *)

Starting(n)    == start[n].pc \in {"check", "send", "sent"}
GroupOn(p, n)  == group[p].at[n] \in {"marked", "sent"}
Working(n)     == Starting(n) \/ \E p \in Profiles : GroupOn(p, n)

\* startNode: added under the id of the node, dropped while that exists.
WithStart(S) ==
    [n \in Nodes |-> IF n \in S /\ start[n].pc = "none"
                     THEN [NoStart EXCEPT !.pc = "waiting"] ELSE start[n]]

WithStop(S) == [n \in Nodes |-> IF n \in S /\ stop[n] = "none" THEN "waiting" ELSE stop[n]]

\* Mutant: a deduplicated job is not noted.
NoRetry(P) == retry

\* startAllNodesByProfile: a deduplicated one is noted for the retry.
WithGroup(P) == [p \in Profiles |-> IF p \in P /\ group[p].pc = "none"
                                    THEN [NoGroup EXCEPT !.pc = "waiting"] ELSE group[p]]
WithRetry(P) == retry \cup {p \in P : group[p].pc # "none"}

\* The inbounds of the nodes S changed: what runs, and what a job has read of
\* them, is no longer current.
Outdated(S) == [n \in Nodes |-> IF n \in S THEN [node[n] EXCEPT !.fresh = FALSE] ELSE node[n]]

StartOutdated(st, S) ==
    [n \in Nodes |-> IF n \in S /\ st[n].pc # "waiting"
                     THEN [st[n] EXCEPT !.fresh = FALSE] ELSE st[n]]

GroupOutdated(gr, S) == [p \in Profiles |-> [gr[p] EXCEPT !.fresh = @ \ S]]

\* A stop that is past its call swallows a new one; the node runs on.
Swallowed(n) == Because("raced", {m \in {n} : stop[n] = "stopped" /\ node[n].running})

\* What runs on n is not current, and a start job, or a by-profile job among P,
\* will not send anything newer, but will say that n is connected.
StartBehind(n) ==
    /\ ~node[n].fresh
    /\ \/ start[n].pc = "sent"
       \/ start[n].pc \in {"check", "send"} /\ ~start[n].fresh

GroupBehind(n, P) ==
    /\ ~node[n].fresh
    /\ \E p \in P : \/ group[p].at[n] = "sent"
                    \/ /\ group[p].at[n] \in {"todo", "marked", "cleared"}
                       /\ n \notin group[p].fresh

\* Without a profile or without inbounds a node is switched off.
Cleared(n) == [row[n] EXCEPT !.disabled = TRUE, !.profile = None,
                             !.connecting = FALSE, !.connected = FALSE]
Bare(n)    == row[n].profile = None \/ ~row[n].inbounds

-----------------------------------------------------------------------------
(* Requests (nodes.service.ts).                                              *)

RestartNode(n) ==
    /\ Asked("restart")
    /\ row[n].here /\ ~row[n].disabled
    /\ start' = WithStart({n})
    /\ UNCHANGED <<row, node, stop, health, group, retry, all, paused, requestVars,
                   booted, excuse>>

\* A start of n is dropped in favour of one that has read something older.
Dropped(n) == excuse \cup Because("missed", {m \in {n} : StartBehind(n)})

\* A node without inbounds is not enabled but cleared; nothing stops it.
EnableNode(n) ==
    /\ Asked("enable")
    /\ row[n].here
    /\ IF Bare(n)
       THEN /\ row' = [row EXCEPT ![n] = Cleared(n)]
            /\ excuse' = IF node[n].running THEN excuse \cup Because("raced", {n}) ELSE excuse
            /\ UNCHANGED start
       ELSE /\ row' = [row EXCEPT ![n].disabled = FALSE]
            /\ start' = WithStart({n})
            /\ excuse' = Dropped(n) \ Because("raced", {n})
    /\ UNCHANGED <<node, stop, health, group, retry, all, paused, requestVars, booted>>

DisableNode(n) ==
    /\ Asked("disable")
    /\ row[n].here
    /\ row' = [row EXCEPT ![n] = [Cleared(n) EXCEPT !.profile =
                                     IF Bare(n) THEN None ELSE row[n].profile]]
    /\ stop' = WithStop({n})
    /\ excuse' = (excuse \ Because("stuck", {n})) \cup Swallowed(n)
    /\ UNCHANGED <<node, start, health, group, retry, all, paused, requestVars, booted>>

DeleteNode(n) ==
    /\ Asked("delete")
    /\ row[n].here
    /\ drop' = drop \cup {n}
    /\ UNCHANGED <<row, node, jobVars, edit, booted, excuse>>

RestartAllNodes ==
    /\ Asked("restartAll")
    /\ \E n \in Nodes : row[n].here /\ ~row[n].disabled
    /\ all' = TRUE
    /\ UNCHANGED <<row, node, start, stop, health, group, retry, paused, requestVars,
                   booted, excuse>>

\* updateNode and profileModification replace the inbounds of nodes: they are
\* removed in one statement and added in another.
EditUnbinds(kind, S, p) ==
    /\ kind \in {"update", "modify"} /\ Asked(kind)
    /\ edit = NoEdit
    /\ S # {} /\ \A n \in S : row[n].here
    /\ kind = "update" => Cardinality(S) = 1
    /\ edit' = [kind |-> kind, nodes |-> S, profile |-> p]
    /\ row' = [n \in Nodes |->
                 IF n \in S THEN [row[n] EXCEPT !.inbounds = FALSE,
                                     !.profile = IF kind = "modify" THEN p ELSE @]
                 ELSE row[n]]
    /\ UNCHANGED <<node, jobVars, drop, booted, excuse>>

\* updateNode then writes the row and restarts the node unless it was disabled;
\* an active start of the node swallows that.
UpdateBinds(n, disabled) ==
    /\ edit.kind = "update" /\ edit.nodes = {n}
    /\ row[n].disabled => disabled
    /\ edit' = NoEdit
    /\ IF row[n].here
       THEN /\ row' = [row EXCEPT ![n] = [@ EXCEPT !.inbounds = TRUE, !.profile = edit.profile]]
            /\ node' = Outdated({n})
            /\ start' = StartOutdated(IF disabled THEN start ELSE WithStart({n}), {n})
            /\ group' = GroupOutdated(group, {n})
            /\ excuse' = IF Starting(n) \/ (disabled /\ ~row[n].disabled)
                         THEN excuse \cup Because("missed", {n}) ELSE excuse
       ELSE UNCHANGED <<row, node, start, group, excuse>>
    /\ UNCHANGED <<stop, health, retry, all, paused, drop, booted, left>>

\* profileModification restarts the profile.
ModifyBinds ==
    /\ edit.kind = "modify"
    /\ edit' = NoEdit
    /\ row' = [n \in Nodes |-> IF n \in edit.nodes THEN [row[n] EXCEPT !.inbounds = TRUE]
                               ELSE row[n]]
    /\ node' = Outdated(edit.nodes)
    /\ start' = StartOutdated(start, edit.nodes)
    /\ group' = GroupOutdated(WithGroup({edit.profile}), edit.nodes)
    /\ retry' = WithRetry({edit.profile})
    /\ UNCHANGED <<stop, health, all, paused, drop, booted, excuse, left>>

Of(p) == {n \in Nodes : row[n].here /\ row[n].profile = p}

ConfigOutdated(gr, D, S) ==
    [p \in Profiles |-> [gr[p] EXCEPT !.fresh = @ \ (IF gr[p].pc = "mark" THEN D ELSE S)]]

\* updateConfigProfile: the inbounds of the nodes D are gone, the others have a
\* new config, which a job that has not built it yet will still read.
UpdateConfigProfile(p, D) ==
    /\ Asked("profile")
    /\ Of(p) # {} /\ D \subseteq Of(p)
    /\ row' = [n \in Nodes |-> IF n \in D THEN [row[n] EXCEPT !.inbounds = FALSE] ELSE row[n]]
    /\ node' = Outdated(Of(p))
    /\ start' = StartOutdated(start, {n \in Of(p) : start[n].pc # "check" \/ n \in D})
    /\ group' = ConfigOutdated(WithGroup({p}), D, Of(p))
    /\ retry' = WithRetry({p})
    /\ UNCHANGED <<stop, health, all, paused, requestVars, booted, excuse>>

-----------------------------------------------------------------------------
(* The start-node job (start-node.processor.ts).                             *)

\* The row is read: a connecting node is left alone, one without inbounds is
\* cleared and stopped.  There is no check that it is enabled.
StartBegin(n) ==
    /\ start[n].pc = "waiting" /\ "start" \notin paused
    /\ IF ~row[n].here \/ row[n].connecting
       THEN /\ start' = [start EXCEPT ![n] = NoStart]
            /\ excuse' = IF row[n].here /\ ~node[n].fresh
                         THEN excuse \cup Because("missed", {n}) ELSE excuse
            /\ UNCHANGED <<row, stop>>
       ELSE IF Bare(n)
       THEN /\ start' = [start EXCEPT ![n] = NoStart]
            /\ row' = [row EXCEPT ![n] = Cleared(n)]
            /\ stop' = WithStop({n})
            /\ excuse' = excuse \cup Swallowed(n)
       ELSE /\ start' = [start EXCEPT ![n].pc = "check", ![n].fresh = TRUE]
            /\ row' = [row EXCEPT ![n].connecting = TRUE]
            /\ excuse' = excuse \ Because("missed", {n})
            /\ UNCHANGED stop
    /\ UNCHANGED <<node, health, group, retry, all, paused, requestVars, booted, left>>

\* Mutant: a refusal only says that the node is not connected.
OnlyUnconnected(n) == IF row[n].here THEN [row EXCEPT ![n].connected = FALSE] ELSE row

\* An update of the row by a job; it fails without effect on a deleted node.
Unconnected(n) == IF row[n].here
                  THEN [row EXCEPT ![n].connected = FALSE, ![n].connecting = FALSE]
                  ELSE row

\* Nodes that a job leaves connecting when it ends early.
Left(S) == {n \in S : row[n].here /\ row[n].connecting}

\* The node does not answer, is too old, or refuses its plugins or its config.
StartRefused(n) ==
    /\ start[n].pc \in {"check", "send"}
    /\ IF node[n].up THEN Fails("refuse") ELSE UNCHANGED left
    /\ start' = [start EXCEPT ![n] = NoStart]
    /\ row' = Unconnected(n)
    /\ excuse' = (excuse \ Because("stuck", {n})) \cup
          Because("missed", {m \in {n} : GroupBehind(n, Profiles)})
    /\ UNCHANGED <<node, stop, health, group, retry, all, paused, requestVars, booted>>

\* The plugin or the config cannot be read: the job returns, and the row stays
\* connecting.
StartQueryFails(n) ==
    /\ Fails("query")
    /\ start[n].pc = "check"
    /\ start' = [start EXCEPT ![n] = NoStart]
    /\ excuse' = excuse \cup Because("stuck", Left({n})) \cup Because("missed", {n})
    /\ UNCHANGED <<row, node, stop, health, group, retry, all, paused, requestVars, booted>>

StartCheck(n) ==
    /\ start[n].pc = "check" /\ node[n].up
    /\ start' = [start EXCEPT ![n].pc = "send"]
    /\ UNCHANGED <<row, node, stop, health, group, retry, all, paused, requestVars,
                   booted, excuse, left>>

\* Xray runs with what was sent, which may be older than what it ran.  A node
\* that was disabled in the meantime runs although nothing will stop it, unless
\* its stop job is still to come.
Runs(n, fresh) ==
    /\ node' = [node EXCEPT ![n].running = TRUE, ![n].fresh = fresh]
    /\ excuse' = (excuse \ Because("missed", {m \in {n} : fresh}))
          \cup Because("missed", {m \in {n} : node[n].fresh /\ ~fresh})
          \cup Because("raced",  {m \in {n} : row[n].here /\ row[n].disabled
                                              /\ stop[n] # "waiting"})

StartSend(n) ==
    /\ start[n].pc = "send" /\ node[n].up
    /\ start' = [start EXCEPT ![n].pc = "sent"]
    /\ Runs(n, start[n].fresh)
    /\ UNCHANGED <<row, stop, health, group, retry, all, paused, requestVars, booted, left>>

StartDone(n) ==
    /\ start[n].pc = "sent"
    /\ start' = [start EXCEPT ![n] = NoStart]
    /\ row' = IF row[n].here
              THEN [row EXCEPT ![n].connected = TRUE, ![n].connecting = FALSE] ELSE row
    /\ excuse' = excuse \ Because("stuck", {n})
    /\ UNCHANGED <<node, stop, health, group, retry, all, paused, requestVars, booted, left>>

\* The worker dies.  The job that is run again finds the node connecting.
StartCrash(n) ==
    /\ Fails("crash")
    /\ Starting(n)
    /\ start' = [start EXCEPT ![n] = IF @.stalled THEN NoStart
                    ELSE [pc |-> "waiting", fresh |-> FALSE, stalled |-> TRUE]]
    /\ start[n].stalled => "stall" \in Faults
    /\ excuse' = excuse \cup Because("stuck", Left({n}))
                        \cup Because("missed", {m \in {n} : start[n].stalled})
    /\ UNCHANGED <<row, node, stop, health, group, retry, all, paused, requestVars, booted>>

-----------------------------------------------------------------------------
(* The stop-node job (stop-node.processor.ts).                               *)

\* Mutant: the stop job relies on the row, and calls nothing when it is disabled.
StopXrayOnce(n) ==
    /\ stop[n] = "waiting"
    /\ stop' = [stop EXCEPT ![n] = IF row[n].here THEN "stopped" ELSE "none"]
    /\ node' = [node EXCEPT ![n].running = @ /\ row[n].disabled]
    /\ UNCHANGED <<row, start, health, group, retry, all, paused, requestVars, booted,
                   left, excuse>>

\* stopXray; whether it worked is not looked at.
StopXray(n) ==
    /\ stop[n] = "waiting"
    /\ IF row[n].here
       THEN /\ stop' = [stop EXCEPT ![n] = "stopped"]
            /\ IF node[n].up
               THEN /\ node' = [node EXCEPT ![n].running = FALSE]
                    /\ excuse' = excuse \ Because("raced", {n})
               ELSE excuse' = excuse \cup Because("raced", {n}) /\ UNCHANGED node
       ELSE stop' = [stop EXCEPT ![n] = "none"] /\ UNCHANGED <<node, excuse>>
    /\ UNCHANGED <<row, start, health, group, retry, all, paused, requestVars, booted, left>>

\* The row becomes disabled, also when it was enabled meanwhile.
StopDone(n) ==
    /\ stop[n] = "stopped"
    /\ stop' = [stop EXCEPT ![n] = "none"]
    /\ row' = IF row[n].here
              THEN [row EXCEPT ![n].disabled = TRUE, ![n].connecting = FALSE,
                               ![n].connected = FALSE]
              ELSE row
    /\ excuse' = (IF row[n].here /\ node[n].running /\ ~row[n].disabled
                  THEN excuse \cup Because("raced", {n}) ELSE excuse)
                 \ Because("stuck", {n})
    /\ UNCHANGED <<node, start, health, group, retry, all, paused, requestVars, booted, left>>

\* A stop that deletes removes the row, and leaves Xray alone.
DropDone(n) ==
    /\ n \in drop
    /\ drop' = drop \ {n}
    /\ row' = [row EXCEPT ![n] = [Cleared(n) EXCEPT !.here = FALSE]]
    /\ excuse' = excuse \ (Reasons \X {n})
    /\ UNCHANGED <<node, jobVars, edit, booted, left>>

-----------------------------------------------------------------------------
(* Health checks (node-health-check.task.ts, node-health-check.processor.ts).*)

\* The first tick after the scheduler started restarts everything.
FirstTick ==
    /\ ~booted
    /\ booted' = TRUE
    /\ all' = TRUE
    /\ UNCHANGED <<row, node, start, stop, health, group, retry, paused, requestVars, excuse, left>>

\* Later ones check the enabled nodes that are not connecting.
HealthTick(n) ==
    /\ booted
    /\ row[n].here /\ ~row[n].disabled /\ ~row[n].connecting
    /\ health[n].pc = "none"
    /\ health' = [health EXCEPT ![n] = [pc |-> "waiting", connected |-> row[n].connected]]
    /\ UNCHANGED <<row, node, start, stop, group, retry, all, paused, requestVars,
                   booted, excuse, left>>

Alive(n) == node[n].up /\ node[n].running

\* The node answers or not; a node that was connected and is found alive needs
\* nothing.  "null": it answers without information on its Xray.
HealthProbe(n) ==
    LET Found(x) == [pc |-> x, connected |-> FALSE]
    IN /\ health[n].pc = "waiting"
       /\ \/ /\ health' = [health EXCEPT ![n] =
                   IF ~Alive(n) THEN Found("down")
                   ELSE IF @.connected THEN NoCheck ELSE Found("up")]
             /\ UNCHANGED left
          \/ /\ node[n].up /\ ~node[n].running /\ Fails("refuse")
             /\ health' = [health EXCEPT ![n] = Found("null")]
       /\ UNCHANGED <<row, node, start, stop, group, retry, all, paused, requestVars,
                      booted, excuse>>

\* Mutant: what was found is only written.
HealthWritten(n) ==
    LET found == health[n].pc
    IN /\ found \in {"up", "down", "null"}
       /\ health' = [health EXCEPT ![n] = NoCheck]
       /\ row' = IF row[n].here THEN [row EXCEPT ![n].connected = (found = "up")] ELSE row
       /\ UNCHANGED <<node, start, stop, group, retry, all, paused, requestVars, booted,
                      left, excuse>>

\* What was found is written, whatever the row says by now, and the node is
\* started.
HealthDone(n) ==
    LET found == health[n].pc
    IN /\ found \in {"up", "down", "null"}
       /\ health' = [health EXCEPT ![n] = NoCheck]
       /\ IF row[n].here
          THEN /\ row' = [row EXCEPT ![n].connected = (found = "up")]
               /\ start' = IF found = "null" THEN start ELSE WithStart({n})
               /\ excuse' = IF found = "up" THEN Dropped(n) ELSE excuse
          ELSE UNCHANGED <<row, start, excuse>>
       /\ UNCHANGED <<node, stop, group, retry, all, paused, requestVars, booted, left>>

-----------------------------------------------------------------------------
(* Starting the nodes of a profile (start-all-nodes-by-profile.processor.ts).*)

\* Both queues are paused and the enabled nodes of the profile are read.
GroupBegin(p) ==
    LET chosen == {n \in Of(p) : ~row[n].disabled}
    IN /\ group[p].pc = "waiting"
       /\ paused' = {"start", "all"}
       /\ group' = [group EXCEPT ![p].pc = "mark", ![p].fresh = chosen,
             ![p].at = [n \in Nodes |-> IF n \notin chosen THEN "out"
                                        ELSE IF row[n].inbounds THEN "todo" ELSE "bare"]]
       /\ UNCHANGED <<row, node, start, stop, health, retry, all, requestVars, booted, excuse, left>>

\* Nodes are set connecting, or cleared and stopped, one after the other.
GroupMark(p, n) ==
    /\ group[p].pc = "mark"
    /\ \/ /\ group[p].at[n] = "todo"
          /\ group' = [group EXCEPT ![p].at[n] = "marked"]
          /\ row' = IF row[n].here THEN [row EXCEPT ![n].connecting = TRUE] ELSE row
          /\ excuse' = excuse \ Because("stuck", {n})
          /\ UNCHANGED stop
       \/ /\ group[p].at[n] = "bare"
          /\ group' = [group EXCEPT ![p].at[n] = "cleared", ![p].fresh = @ \ {n}]
          /\ row' = IF row[n].here THEN [row EXCEPT ![n] = Cleared(n)] ELSE row
          /\ stop' = IF row[n].here THEN WithStop({n}) ELSE stop
          /\ excuse' = (excuse \ Because("stuck", {n})) \cup Swallowed(n)
    /\ UNCHANGED <<node, start, health, retry, all, paused, requestVars, booted, left>>

Marked(p) == {n \in Nodes : GroupOn(p, n)}
ToMark(p) == {n \in Nodes : group[p].at[n] \in {"todo", "bare"}}
ToSend(p) == {n \in Nodes : group[p].at[n] \in {"marked", "cleared"}}

\* The plugins and the config, built once for all.
GroupConfig(p) ==
    /\ group[p].pc = "mark" /\ ToMark(p) = {} /\ Marked(p) # {}
    /\ group' = [group EXCEPT ![p].pc = "run"]
    /\ UNCHANGED <<row, node, start, stop, health, retry, all, paused, requestVars,
                   booted, excuse, left>>

LeftBy(p) == {n \in Left(Marked(p)) : ~Starting(n)}

\* Mutant: only the queue of start-node is resumed.
ResumedStart == paused' = paused \ {"start"}

\* The finally of the job.
Resumed == paused' = {}

\* A query fails after some or all nodes were set connecting.
GroupQueryFails(p) ==
    /\ Fails("query")
    /\ group[p].pc = "mark" /\ (ToMark(p) = {} => Marked(p) # {})
    /\ group' = [group EXCEPT ![p] = NoGroup]
    /\ Resumed
    /\ excuse' = excuse \cup Because("stuck", LeftBy(p))
                        \cup Because("missed", Marked(p) \cup ToMark(p))
    /\ UNCHANGED <<row, node, start, stop, health, retry, all, requestVars, booted>>

\* Every node that was read is then started, those that were cleared with a
\* config without inbounds.  A node refuses,
GroupRefused(p, n) ==
    /\ IF node[n].up THEN Fails("refuse") ELSE UNCHANGED left
    /\ group[p].pc = "run" /\ n \in ToSend(p)
    /\ group' = [group EXCEPT ![p].at[n] = "out"]
    /\ row' = Unconnected(n)
    /\ excuse' = (Dropped(n) \ Because("stuck", {n})) \cup
          Because("missed", {m \in {n} : GroupBehind(n, Profiles \ {p})})
    /\ UNCHANGED <<node, start, stop, health, retry, all, paused, requestVars, booted>>

\* its plugin is not in the list (and it stays connecting),
GroupNoPlugin(p, n) ==
    /\ Fails("query")
    /\ group[p].pc = "run" /\ n \in ToSend(p)
    /\ group' = [group EXCEPT ![p].at[n] = "out"]
    /\ excuse' = excuse \cup Because("stuck", LeftBy(p) \cap {n}) \cup Because("missed", {n})
    /\ UNCHANGED <<row, node, start, stop, health, retry, all, paused, requestVars, booted>>

\* or it starts
GroupSend(p, n) ==
    /\ group[p].pc = "run" /\ n \in ToSend(p) /\ node[n].up
    /\ group' = [group EXCEPT ![p].at[n] = "sent"]
    /\ Runs(n, n \in group[p].fresh)
    /\ UNCHANGED <<row, start, stop, health, retry, all, paused, requestVars, booted, left>>

\* and is connected.
GroupSent(p, n) ==
    /\ group[p].at[n] = "sent"
    /\ group' = [group EXCEPT ![p].at[n] = "out"]
    /\ row' = IF row[n].here
              THEN [row EXCEPT ![n].connected = TRUE, ![n].connecting = FALSE] ELSE row
    /\ excuse' = excuse \ Because("stuck", {n})
    /\ UNCHANGED <<node, start, stop, health, retry, all, paused, requestVars, booted, left>>

GroupDone(p) ==
    /\ group[p].pc \in {"mark", "run"} /\ ToMark(p) = {} /\ Marked(p) = {}
    /\ group[p].pc = "run" => ToSend(p) = {}
    /\ group' = [group EXCEPT ![p] = NoGroup]
    /\ Resumed
    /\ UNCHANGED <<row, node, start, stop, health, retry, all, requestVars, booted, excuse, left>>

GroupCrash(p) ==
    /\ Fails("crash")
    /\ group[p].pc \in {"mark", "run"}
    /\ group[p].stalled => "stall" \in Faults
    /\ group' = [group EXCEPT ![p] = IF @.stalled THEN NoGroup
                    ELSE [NoGroup EXCEPT !.pc = "waiting", !.stalled = TRUE]]
    /\ excuse' = excuse \cup Because("stuck", LeftBy(p))
                        \cup Because("missed", {n \in Marked(p) \cup ToMark(p) : group[p].stalled})
    /\ UNCHANGED <<row, node, start, stop, health, retry, all, paused, requestVars, booted>>

\* The scheduler adds the deduplicated job again (start-all-nodes-by-profile.
\* events.ts); it forgets to when it is restarted.
Retry(p) ==
    /\ p \in retry
    /\ group' = WithGroup({p})
    /\ retry' = IF group[p].pc = "none" THEN retry \ {p} ELSE retry
    /\ UNCHANGED <<row, node, start, stop, health, all, paused, requestVars, booted, excuse, left>>

SchedulerRestarts ==
    /\ Fails("crash")
    /\ booted
    /\ booted' = FALSE
    /\ retry' = {}
    /\ UNCHANGED <<row, node, start, stop, health, group, all, paused, requestVars, excuse>>

\* The start-all job (start-all-nodes.processor.ts).
StartAll ==
    LET P == {row[n].profile : n \in {m \in Nodes : row[m].here /\ ~row[m].disabled}} \ {None}
    IN /\ all /\ "all" \notin paused
       /\ all' = FALSE
       /\ group' = WithGroup(P)
       /\ retry' = WithRetry(P)
       /\ UNCHANGED <<row, node, start, stop, health, paused, requestVars, booted, excuse, left>>

-----------------------------------------------------------------------------
(* The nodes themselves (external).                                          *)

HostChanges(n) ==
    /\ IF node[n].up THEN Fails("node") ELSE UNCHANGED left
    /\ node' = [node EXCEPT ![n].up = ~@]
    /\ UNCHANGED <<row, jobVars, requestVars, booted, excuse>>

XrayDies(n) ==
    /\ Fails("node")
    /\ node[n].running
    /\ node' = [node EXCEPT ![n].running = FALSE]
    /\ UNCHANGED <<row, jobVars, requestVars, booted, excuse>>

-----------------------------------------------------------------------------
RequestStep ==
    \/ \E n \in Nodes :
          \/ RestartNode(n) \/ EnableNode(n) \/ DisableNode(n) \/ DeleteNode(n)
          \/ \E d \in BOOLEAN : UpdateBinds(n, d)
    \/ \E S \in SUBSET Nodes, p \in Profiles, kind \in {"update", "modify"} :
          EditUnbinds(kind, S, p)
    \/ ModifyBinds \/ RestartAllNodes
    \/ \E p \in Profiles, D \in SUBSET Nodes : UpdateConfigProfile(p, D)

NodeStep(n) ==
    \/ StartBegin(n) \/ StartRefused(n) \/ StartQueryFails(n) \/ StartCheck(n)
    \/ StartSend(n) \/ StartDone(n) \/ StartCrash(n)
    \/ StopXray(n) \/ StopDone(n) \/ DropDone(n)
    \/ HealthTick(n) \/ HealthProbe(n) \/ HealthDone(n)
    \/ HostChanges(n) \/ XrayDies(n)

GroupStep(p) ==
    \/ GroupBegin(p) \/ GroupConfig(p) \/ GroupQueryFails(p) \/ GroupDone(p)
    \/ GroupCrash(p) \/ Retry(p)
    \/ \E n \in Nodes : \/ GroupMark(p, n) \/ GroupRefused(p, n) \/ GroupNoPlugin(p, n)
                        \/ GroupSend(p, n) \/ GroupSent(p, n)

Next ==
    \/ RequestStep
    \/ \E n \in Nodes : NodeStep(n)
    \/ \E p \in Profiles : GroupStep(p)
    \/ FirstTick \/ SchedulerRestarts \/ StartAll

\* A job that runs goes on, or it fails: the calls to a node have a timeout.
StartRuns(n)  == StartCheck(n) \/ StartSend(n) \/ StartRefused(n) \/ StartDone(n)
StopRuns(n)   == StopXray(n) \/ StopDone(n)
HealthRuns(n) == HealthProbe(n) \/ HealthDone(n)
GroupRuns(p)  ==
    \/ GroupBegin(p) \/ GroupConfig(p) \/ GroupDone(p)
    \/ \E n \in Nodes : \/ GroupMark(p, n) \/ GroupSend(p, n) \/ GroupRefused(p, n)
                        \/ GroupSent(p, n)

\* BullMQ hands every job that waits in a queue that is not paused to a worker,
\* the cron ticks, and a request that began is finished.
Fairness ==
    /\ \A n \in Nodes :
          /\ SF_vars(StartBegin(n)) /\ WF_vars(StartRuns(n)) /\ WF_vars(StopRuns(n))
          /\ SF_vars(HealthTick(n)) /\ WF_vars(HealthRuns(n)) /\ WF_vars(DropDone(n))
    /\ \A p \in Profiles : WF_vars(GroupRuns(p)) /\ WF_vars(Retry(p))
    /\ WF_vars(\E n \in Nodes, d \in BOOLEAN : UpdateBinds(n, d)) /\ WF_vars(ModifyBinds)
    /\ WF_vars(FirstTick) /\ SF_vars(StartAll)

Spec == Init /\ [][Next]_vars /\ Fairness

-----------------------------------------------------------------------------
(* Properties.                                                               *)

\* A node that the row says is connecting has a job on its way that will say
\* otherwise: every way out of a start job and of a by-profile job resets
\* isConnecting, except an early return after a failed query and the death of
\* the worker ("stuck").
ConnectingHandled ==
    /\ TypeOK
    /\ \A n \in Nodes :
        row[n].here /\ row[n].connecting => Working(n) \/ <<"stuck", n>> \in excuse

\* A job that will start n with what its row says now, or will clear it.
WillStart(n) ==
    \/ start[n].pc = "waiting" \/ (start[n].pc \in {"check", "send"} /\ start[n].fresh)
    \/ \E p \in Profiles :
          \/ group[p].at[n] \in {"todo", "bare", "marked"} /\ n \in group[p].fresh
          \/ row[n].profile = p /\ (group[p].pc = "waiting" \/ p \in retry)
    \/ n \in edit.nodes \/ all \/ ~booted

\* A node that is shown as connected runs the config and the inbounds of its
\* row, or a job that will send them is on its way; a change is only missed in
\* the ways named above.
ConfigDelivered ==
    \A n \in Nodes :
        row[n].here /\ ~row[n].disabled /\ row[n].connected /\ ~node[n].fresh =>
            WillStart(n) \/ <<"missed", n>> \in excuse

\* A node that is switched off does not run Xray for longer than its stop job
\* takes.
DisabledQuiet ==
    \A n \in Nodes :
        row[n].here /\ row[n].disabled /\ node[n].running =>
            stop[n] # "none" \/ <<"raced", n>> \in excuse

\* Under no circumstances does the start-node or the start-all queue remain
\* paused (a by-profile job resumes them, also when it is run again).
QueuesResume == []<>(paused = {})

\* An enabled node that is reachable and not left connecting runs again and
\* again, and is shown as connected again and again: whatever was missed, the
\* health check brings it back.
Calm(n) ==
    /\ row[n].here /\ ~row[n].disabled /\ ~Bare(n) /\ node[n].up
    /\ <<"stuck", n>> \notin excuse

Reconnects ==
    \A n \in Nodes :
        <>[]Calm(n) => []<>node[n].running /\ []<>row[n].connected
=============================================================================
