---------------------------- MODULE NodeUserSync ----------------------------
(***************************************************************************)
(* How the nodes learn which users may connect.                            *)
(*                                                                         *)
(* A node gets its users in two ways.  A start sends it the whole config,  *)
(* with every active user of its inbounds as they were when the config was *)
(* prepared.  In between, a request that changes a user publishes an event *)
(* in its own process; the handler of the event reads what it needs and    *)
(* queues a job for every connected node, and the job adds the user to the *)
(* node or removes him.  Up to 75 jobs run at once, in no order, and one   *)
(* that fails is not repeated.                                             *)
(*                                                                         *)
(* The module follows one user's way at a time: the users of a bulk        *)
(* request do not depend on each other.                                    *)
(***************************************************************************)
EXTENDS Naturals, FiniteSets, Bags

CONSTANTS
    Users, Nodes,
    Tags,          \* inbounds; a user has those of his squads
    ActiveTags,    \* [Nodes -> the inbounds that are active there]
    NoCred,        \* no credential: the user is not on the node
    MaxCred,       \* bound: how often a subscription is revoked
    MaxRequests,   \* bound: requests and watchdog verdicts
    Faults         \* bound: what may fail.  "call": a call to a node; "crash": a
                   \* process dies with its events; "refuse": a start

ASSUME TagsAssumption   == ActiveTags \in [Nodes -> (SUBSET Tags) \ {{}}]
ASSUME CredAssumption   == NoCred \notin Nat
ASSUME BoundsAssumption ==
    MaxCred \in Nat /\ MaxRequests \in Nat /\ Faults \subseteq {"call", "crash", "refuse"}

VARIABLES
    user,          \* [Users -> the row of the user and his squads]
    half,          \* [Users -> a request of two statements that did one]
    event,         \* a bag of events of the process
    verdict,       \* a bag of jobs with user events (watchdog, reset)
    job,           \* a bag of jobs for nodes
    node,          \* [Nodes -> the row of the node and its start]
    admitted,      \* [Nodes -> [Users -> credential]], on the node itself
    left,          \* requests still to come
    excuse         \* [Nodes -> [Users -> why the node may differ for good]]

vars == <<user, half, event, verdict, job, node, admitted, left, excuse>>

Statuses == {"ACTIVE", "DISABLED", "LIMITED", "EXPIRED"}
Creds    == 0..MaxCred

User == [here: BOOLEAN, status: Statuses, tags: SUBSET Tags, cred: Creds]
Node == [connected: BOOLEAN, connecting: BOOLEAN, start: {"none", "waiting", "begun", "read"},
         users: [Users -> Creds \cup {NoCred}]]

\* An event waits, or its handler has read the user (add) or the nodes (adds).
Event   == [kind: {"add", "adds", "remove"}, user: Users, read: BOOLEAN,
            tags: SUBSET Tags, cred: Creds, nodes: SUBSET Nodes]
Verdict == [kind: {"EXPIRED", "LIMITED", "ENABLED"}, user: Users]
Job     == [does: {"add", "remove"}, node: Nodes, user: Users, cred: Creds]

Half    == [does: {"none", "reset", "squads"}, tags: SUBSET Tags]
NoHalf  == [does |-> "none", tags |-> {}]

Nobody  == [u \in Users |-> NoCred]
Reasons == {"overlap", "stale", "lost", "bare", "both", "early"}

TypeOK ==
    /\ user \in [Users -> User]
    /\ half \in [Users -> Half]
    /\ IsABag(event) /\ DOMAIN event \subseteq Event
    /\ IsABag(verdict) /\ DOMAIN verdict \subseteq Verdict
    /\ IsABag(job) /\ DOMAIN job \subseteq Job
    /\ node \in [Nodes -> Node]
    /\ admitted \in [Nodes -> [Users -> Creds \cup {NoCred}]]
    /\ left \in 0..MaxRequests
    /\ excuse \in [Nodes -> [Users -> SUBSET Reasons]]

Init ==
    /\ user \in [Users -> {u \in User : u.here /\ u.cred = 0}]
    /\ half = [u \in Users |-> NoHalf]
    /\ event = EmptyBag /\ verdict = EmptyBag /\ job = EmptyBag
    /\ node = [n \in Nodes |-> [connected |-> FALSE, connecting |-> FALSE,
                                start |-> "waiting", users |-> Nobody]]
    /\ admitted = [n \in Nodes |-> Nobody]
    /\ left = MaxRequests
    /\ excuse = [n \in Nodes |-> [u \in Users |-> {}]]

-----------------------------------------------------------------------------
(* What the nodes should have.                                               *)

\* getUsersForConfigStream: the active users with an active inbound.
Wanted(n, us) ==
    [u \in Users |-> IF us[u].here /\ us[u].status = "ACTIVE"
                        /\ us[u].tags \cap ActiveTags[n] # {}
                     THEN us[u].cred ELSE NoCred]

In(bag, u)  == \E e \in DOMAIN bag : e.user = u
Moving(u)   == half[u] # NoHalf \/ In(event, u) \/ In(verdict, u) \/ In(job, u)

\* A reason is forgotten when the node is right and nothing is on its way.
Agrees(n, u) == admitted[n][u] = Wanted(n, user)[u] /\ ~Moving(u)

Excused(why) ==
    excuse' = [n \in Nodes |-> [u \in Users |->
                  IF Agrees(n, u)' THEN {} ELSE excuse[n][u] \cup why[n][u]]]

NoReason    == [n \in Nodes |-> [u \in Users |-> {}]]
Because(u, S) == [n \in Nodes |-> [NoReason[n] EXCEPT ![u] = S]]

-----------------------------------------------------------------------------
(* Requests that change a user and publish an event (users.service.ts,       *)
(* internal-squad.service.ts).                                               *)

NewEvent(kind, u) == [kind |-> kind, user |-> u, read |-> FALSE, tags |-> {}, cred |-> 0,
                      nodes |-> {}]
Publish(kinds, u) == event (+) SetToBag({NewEvent(k, u) : k \in kinds})

\* A request on u changes its row to r and publishes events of these kinds;
\* "why" says why that may leave the nodes as they are.  Nothing orders it after
\* what is still on its way for u.
Change(u, r, kinds, why) ==
    /\ left > 0 /\ left' = left - 1
    /\ user' = [user EXCEPT ![u] = r]
    /\ event' = Publish(kinds, u)
    /\ UNCHANGED <<job, node, admitted>>
    /\ Excused(Because(u, why \cup (IF Moving(u) THEN {"overlap"} ELSE {})))

Request(u, r, kinds, why) ==
    UNCHANGED <<half, verdict>> /\ Change(u, r, kinds, why)

CreateUser(u, status, tags) ==
    /\ ~user[u].here
    /\ Request(u, [here |-> TRUE, status |-> status, tags |-> tags, cred |-> user[u].cred],
               IF status = "ACTIVE" THEN {"add"} ELSE {}, {})

\* updateUser.  A change of the squads decides alone what is published: when the
\* same request disables the user, the nodes keep him.
UpdateUser(u, asked, raised, later, tags) ==
    LET was     == user[u]
        status  == IF \/ was.status # "ACTIVE" /\ asked = "ACTIVE"
                      \/ was.status = "LIMITED" /\ raised
                      \/ was.status = "EXPIRED" /\ later /\ asked = "same"
                   THEN "ACTIVE"
                   ELSE IF was.status = "ACTIVE" /\ asked = "DISABLED" THEN "DISABLED"
                   ELSE was.status
        moved   == tags # was.tags
        add     == IF moved THEN tags # {} ELSE status = "ACTIVE" /\ was.status # "ACTIVE"
        remove  == IF moved THEN tags = {} ELSE status = "DISABLED" /\ was.status = "ACTIVE"
    IN /\ was.here
       /\ Request(u, [was EXCEPT !.status = status, !.tags = tags],
                  (IF status = "ACTIVE" /\ add /\ ~remove THEN {"add"} ELSE {})
                     \cup (IF remove THEN {"remove"} ELSE {}),
                  IF moved /\ tags # {} /\ status # was.status /\ status = "DISABLED"
                  THEN {"both"} ELSE {})
   
RevokeSubscription(u) ==
    /\ user[u].here /\ user[u].cred < MaxCred
    /\ Request(u, [user[u] EXCEPT !.cred = @ + 1],
               IF user[u].status = "ACTIVE" THEN {"add"} ELSE {}, {})

\* Mutant: the row is deleted, and that is all.
DeleteUserQuietly(u) ==
    /\ user[u].here
    /\ Request(u, [user[u] EXCEPT !.here = FALSE], {}, {})

DeleteUser(u) ==
    /\ user[u].here
    /\ Request(u, [user[u] EXCEPT !.here = FALSE], {"remove"}, {})

DisableUser(u) ==
    /\ user[u].here /\ user[u].status # "DISABLED"
    /\ Request(u, [user[u] EXCEPT !.status = "DISABLED"], {"remove"}, {})

EnableUser(u) ==
    /\ user[u].here /\ user[u].status # "ACTIVE"
    /\ Request(u, [user[u] EXCEPT !.status = "ACTIVE"], {"add"}, {})

\* extendUserExpirationDate and the bulk one: an expired user is active again.
ExtendExpiration(u) ==
    /\ user[u].here /\ user[u].status = "EXPIRED"
    /\ Request(u, [user[u] EXCEPT !.status = "ACTIVE"], {"add"}, {})

\* addManyUsersToInternalSquad and removeManyUsersFromInternalSquad.  A user who
\* has no inbound left is skipped by the handler, and the nodes keep him.
ChangeSquads(u, tags) ==
    /\ user[u].here /\ half[u] = NoHalf
    /\ user[u].tags \subseteq tags \/ tags \subseteq user[u].tags
    /\ Request(u, [user[u] EXCEPT !.tags = tags], {"adds"},
               IF tags = {} THEN {"bare"} ELSE {})

\* resetUserTraffic publishes first, and writes ACTIVE after that;
ResetTraffic(u) ==
    /\ user[u].here /\ user[u].status = "LIMITED" /\ half[u] = NoHalf
    /\ half' = [half EXCEPT ![u].does = "reset"] /\ UNCHANGED verdict
    /\ Change(u, user[u], {"add"}, {})

\* bulkUpdateUsersInternalSquads removes all squads first, and adds the new ones
\* before it publishes.
ReplaceSquads(u, tags) ==
    /\ user[u].here /\ half[u] = NoHalf
    /\ half' = [half EXCEPT ![u] = [does |-> "squads", tags |-> tags]] /\ UNCHANGED verdict
    /\ Change(u, [user[u] EXCEPT !.tags = {}], {}, {})

\* The second statement.
SecondHalf(u) ==
    /\ half[u] # NoHalf
    /\ half' = [half EXCEPT ![u] = NoHalf]
    /\ IF half[u].does = "reset"
       THEN /\ user' = [user EXCEPT ![u].status = IF user[u].here THEN "ACTIVE" ELSE @]
            /\ UNCHANGED event
       ELSE /\ user' = [user EXCEPT ![u].tags = half[u].tags]
            /\ event' = Publish({"adds"}, u)
    /\ UNCHANGED <<verdict, job, node, admitted, left>>
    /\ Excused(Because(u, IF half[u].does = "reset" THEN {"early"}
                          ELSE IF half[u].tags = {} THEN {"bare"} ELSE {}))

\* The watchdog expires or limits a user, the reset job activates him; a job
\* will tell the nodes (user-events.processor.ts), whatever the user is by then.
Decide(u, kind) ==
    /\ user[u].here
    /\ user[u].status = IF kind = "ENABLED" THEN "LIMITED" ELSE "ACTIVE"
    /\ verdict' = verdict (+) SetToBag({[kind |-> kind, user |-> u]}) /\ UNCHANGED half
    /\ Change(u, [user[u] EXCEPT !.status = IF kind = "ENABLED" THEN "ACTIVE" ELSE kind],
              {}, {})

UserEventJob(v) ==
    /\ verdict' = verdict (-) SetToBag({v})
    /\ event' = IF user[v.user].here
                THEN Publish({IF v.kind = "ENABLED" THEN "add" ELSE "remove"}, v.user)
                ELSE event
    /\ UNCHANGED <<user, half, job, node, admitted, left, excuse>>

-----------------------------------------------------------------------------
(* The handlers of the events (nodes/events).                                *)

\* findConnectedNodes leaves out the nodes that are connecting; the one for
\* removals takes them.
Connected        == {n \in Nodes : node[n].connected /\ ~node[n].connecting}
ConnectedAtLeast == {n \in Nodes : node[n].connected}

\* Mutant: a user without an active inbound is left out.
SyncAdds(n, u, tags, cred) == [does |-> "add", node |-> n, user |-> u, cred |-> cred]

\* A node gets the user, or loses him when none of his inbounds is active there.
Sync(n, u, tags, cred) ==
    [does |-> IF tags \cap ActiveTags[n] # {} THEN "add" ELSE "remove",
     node |-> n, user |-> u, cred |-> cred]

\* AddUserToNode: the user first, active or not,
ReadUser(e) ==
    /\ e.kind = "add" /\ ~e.read
    /\ LET u == user[e.user]
       IN event' = event (-) SetToBag({e}) (+)
                   (IF u.here /\ u.tags # {}
                    THEN SetToBag({[e EXCEPT !.read = TRUE, !.tags = u.tags, !.cred = u.cred]})
                    ELSE EmptyBag)
    /\ UNCHANGED <<user, half, verdict, job, node, admitted, left, excuse>>

\* then the nodes.
AddUserToNode(e) ==
    /\ e.kind = "add" /\ e.read
    /\ event' = event (-) SetToBag({e})
    /\ job' = job (+) SetToBag({Sync(n, e.user, e.tags, e.cred) : n \in Connected})
    /\ UNCHANGED <<user, half, verdict, node, admitted, left, excuse>>

\* AddUsersToNode: the nodes first,
ReadNodes(e) ==
    /\ e.kind = "adds" /\ ~e.read
    /\ event' = event (-) SetToBag({e}) (+)
                (IF Connected # {}
                 THEN SetToBag({[e EXCEPT !.read = TRUE, !.nodes = Connected]})
                 ELSE EmptyBag)
    /\ UNCHANGED <<user, half, verdict, job, node, admitted, left, excuse>>

\* then the users that are active and have an inbound.
AddUsersToNode(e) ==
    /\ e.kind = "adds" /\ e.read
    /\ event' = event (-) SetToBag({e})
    /\ LET u == user[e.user]
       IN job' = IF u.here /\ u.status = "ACTIVE" /\ u.tags # {}
                 THEN job (+) SetToBag({Sync(n, e.user, u.tags, u.cred) : n \in e.nodes})
                 ELSE job
    /\ UNCHANGED <<user, half, verdict, node, admitted, left, excuse>>

RemoveUserFromNode(e) ==
    /\ e.kind = "remove"
    /\ event' = event (-) SetToBag({e})
    /\ job' = job (+) SetToBag({[does |-> "remove", node |-> n, user |-> e.user, cred |-> 0] :
                                n \in ConnectedAtLeast})
    /\ UNCHANGED <<user, half, verdict, node, admitted, left, excuse>>

\* The process dies, and its events with it.
EventLost(e) ==
    /\ "crash" \in Faults
    /\ event' = event (-) SetToBag({e})
    /\ UNCHANGED <<user, half, verdict, job, node, admitted, left>>
    /\ Excused(Because(e.user, {"lost"}))

-----------------------------------------------------------------------------
(* The jobs (node-users.processor.ts, node-bulk-users.processor.ts).         *)

JobRuns(j) ==
    /\ job' = job (-) SetToBag({j})
    /\ admitted' = [admitted EXCEPT ![j.node][j.user] =
                       IF j.does = "add" THEN j.cred ELSE NoCred]
    /\ UNCHANGED <<user, half, event, verdict, node, left>>
    /\ Excused(NoReason)

\* A call that fails is logged, and that is all.
JobFails(j) ==
    /\ "call" \in Faults
    /\ job' = job (-) SetToBag({j})
    /\ UNCHANGED <<user, half, event, verdict, node, admitted, left>>
    /\ Excused(Because(j.user, {"lost"}))

-----------------------------------------------------------------------------
(* Starts, as far as the users go (start-node.processor.ts and the others).  *)

\* The health check loses a node or a request restarts it.
Restart(n, lost) ==
    /\ node[n].start = "none"
    /\ left > 0 /\ left' = left - 1
    /\ node' = [node EXCEPT ![n].start = "waiting", ![n].connected = @ /\ ~lost]
    /\ UNCHANGED <<user, half, event, verdict, job, admitted, excuse>>

StartBegin(n) ==
    /\ node[n].start = "waiting"
    /\ node' = [node EXCEPT ![n].start = "begun", ![n].connecting = TRUE]
    /\ UNCHANGED <<user, half, event, verdict, job, admitted, left, excuse>>

\* GetPreparedConfigWithUsers.
PrepareConfig(n) ==
    /\ node[n].start = "begun"
    /\ node' = [node EXCEPT ![n].start = "read", ![n].users = Wanted(n, user)]
    /\ UNCHANGED <<user, half, event, verdict, job, admitted, left, excuse>>

\* The node takes the users of the config for all users, also when one was
\* changed since.
StartXray(n) ==
    /\ node[n].start = "read"
    /\ node' = [node EXCEPT ![n] = [connected |-> TRUE, connecting |-> FALSE,
                                    start |-> "none", users |-> Nobody]]
    /\ admitted' = [admitted EXCEPT ![n] = node[n].users]
    /\ UNCHANGED <<user, half, event, verdict, job, left>>
    /\ Excused([NoReason EXCEPT ![n] =
                   [u \in Users |-> IF node[n].users[u] # Wanted(n, user)[u]
                                    THEN {"stale"} ELSE {}]])

\* A start that fails; the health check tries again.
StartRefused(n) ==
    /\ "refuse" \in Faults
    /\ node[n].start \in {"begun", "read"}
    /\ node' = [node EXCEPT ![n] = [connected |-> FALSE, connecting |-> FALSE,
                                    start |-> "waiting", users |-> Nobody]]
    /\ UNCHANGED <<user, half, event, verdict, job, admitted, left, excuse>>

-----------------------------------------------------------------------------
RequestStep(u) ==
    \/ \E t \in SUBSET Tags :
          \/ \E s \in {"ACTIVE", "DISABLED"} : CreateUser(u, s, t)
          \/ \E s \in {"same", "ACTIVE", "DISABLED"}, raised, later \in BOOLEAN :
                UpdateUser(u, s, raised, later, t)
          \/ ChangeSquads(u, t) \/ ReplaceSquads(u, t)
    \/ RevokeSubscription(u) \/ DeleteUser(u) \/ DisableUser(u) \/ EnableUser(u)
    \/ ExtendExpiration(u) \/ ResetTraffic(u) \/ SecondHalf(u)
    \/ \E kind \in {"EXPIRED", "LIMITED", "ENABLED"} : Decide(u, kind)

EventStep ==
    \/ \E v \in DOMAIN verdict : UserEventJob(v)
    \/ \E e \in DOMAIN event :
          \/ ReadUser(e) \/ AddUserToNode(e) \/ ReadNodes(e) \/ AddUsersToNode(e)
          \/ RemoveUserFromNode(e) \/ EventLost(e)
    \/ \E j \in DOMAIN job : JobRuns(j) \/ JobFails(j)

NodeStep(n) ==
    \/ \E lost \in BOOLEAN : Restart(n, lost)
    \/ StartBegin(n) \/ PrepareConfig(n) \/ StartXray(n) \/ StartRefused(n)

Next ==
    \/ \E u \in Users : RequestStep(u)
    \/ EventStep
    \/ \E n \in Nodes : NodeStep(n)

Spec == Init /\ [][Next]_vars

-----------------------------------------------------------------------------
(* Properties.                                                               *)

\* Nothing is on its way for u, and n is connected and not about to start.
Settled(n, u) == ~Moving(u) /\ node[n].connected /\ node[n].start = "none"

\* Once everything has arrived a connected node admits exactly the active users
\* with an active inbound, with their present credentials.  It may only differ
\* when requests on one user overlapped, when a start sent an older config, when
\* a call or an event was lost, when a bulk request took the last squad of a
\* user, when one update both disabled a user and moved him, or when a reset
\* published before it wrote ("early").
NodesAgree ==
    /\ TypeOK
    /\ \A n \in Nodes, u \in Users :
        Settled(n, u) /\ admitted[n][u] # Wanted(n, user)[u] => excuse[n][u] # {}

\* A node only keeps a user who is gone or not active any more when it was told out
\* of order, missed a call, or got an old config, or when one update both disabled
\* and moved him: deletions, verdicts and the handlers that send users to nodes
\* leave no other way.
GoneAreGone ==
    \A n \in Nodes, u \in Users :
        /\ Settled(n, u) /\ admitted[n][u] # NoCred
        /\ ~user[u].here \/ user[u].status # "ACTIVE"
        => excuse[n][u] \cap {"overlap", "stale", "lost", "both"} # {}
=============================================================================
