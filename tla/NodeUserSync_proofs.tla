------------------------ MODULE NodeUserSync_proofs ------------------------
(***************************************************************************)
(* Proofs about NodeUserSync, for any number of users, nodes, inbounds and *)
(* requests, and whatever fails: once everything has arrived, a connected  *)
(* node has exactly the users it should, or there is one of the reasons    *)
(* the module names; and a user who is gone is kept by a node for only     *)
(* four of them.                                                           *)
(***************************************************************************)
EXTENDS NodeUserSync, TLAPS

\* A node that is not connected is about to be started, and one that is connecting
\* is being started.
Starts ==
    \A n \in Nodes : /\ node[n].connected \/ node[n].start # "none"
                     /\ node[n].connecting => node[n].start \in {"begun", "read"}

\* What a request of two statements did not yet do is one of the two.
Halves == \A u \in Users : half[u] # NoHalf => half[u].does # "none"

\* What node n should have of a user with this row.
Right(n, r) ==
    IF r.here /\ r.status = "ACTIVE" /\ r.tags \cap ActiveTags[n] # {} THEN r.cred ELSE NoCred

Gone(u) == ~user[u].here \/ user[u].status # "ACTIVE"

\* What the node has of the user once the job ran.
Brings(j) == IF j.does = "add" THEN j.cred ELSE NoCred

JobFor(n, u, j) == j.node = n /\ j.user = u

\* A job, an event or a verdict will yet remove u from n.
Removes(n, u) ==
    \/ \E j \in DOMAIN job : JobFor(n, u, j)
    \/ \E e \in DOMAIN event : e.user = u /\ e.kind = "remove"
    \/ \E v \in DOMAIN verdict : v.user = u /\ v.kind # "ENABLED"

\* Nothing that is on its way brings a user back who is gone, and if n has him
\* something will remove him.
Parts(n, u) ==
    /\ half[u].does = "reset" => user[u].here
    /\ \A v \in DOMAIN verdict :
          v.user = u => user[u].here /\ (v.kind = "ENABLED" => user[u].status = "ACTIVE")
    /\ Gone(u) /\ half[u].does # "reset" =>
          /\ \A e \in DOMAIN event : e.user = u => e.kind # "add"
          /\ \A j \in DOMAIN job : JobFor(n, u, j) => j.does = "remove"
          /\ node[n].start = "none" /\ admitted[n][u] # NoCred => Removes(n, u)

\* An event on u is about its row, and will not give n what it should not have.
EventFits(n, u, e) ==
    /\ e.kind = "remove" => Right(n, user[u]) = NoCred
    /\ e.kind # "remove" => user[u].here
    /\ e.kind = "add" => user[u].status = "ACTIVE"
    /\ e.kind = "add" /\ e.read =>
          user[u].tags # {} /\ e.tags = user[u].tags /\ e.cred = user[u].cred

\* All that is on its way for u is like that.
Fits(n, u) ==
    /\ \A j \in DOMAIN job : JobFor(n, u, j) => Brings(j) = Right(n, user[u])
    /\ \A e \in DOMAIN event : e.user = u => EventFits(n, u, e)
    /\ \A v \in DOMAIN verdict : v.user = u =>
          user[u].here /\ (v.kind = "ENABLED" <=> user[u].status = "ACTIVE")

\* An event on u will lead to a job for n, if it is not about to be started.
EventDelivers(n, u, e) ==
    \/ e.kind = "add" /\ user[u].tags # {}
    \/ /\ e.kind = "adds" /\ user[u].status = "ACTIVE" /\ user[u].tags # {}
       /\ e.read => n \in e.nodes
    \/ e.kind = "remove"

\* Something will yet give n what it should have of u.
Delivers(n, u) ==
    \/ \E j \in DOMAIN job : JobFor(n, u, j)
    \/ \E e \in DOMAIN event : e.user = u /\ EventDelivers(n, u, e)
    \/ \E v \in DOMAIN verdict : v.user = u /\ (v.kind = "ENABLED" => user[u].tags # {})

\* What is on its way fits, and where n is wrong about u something will put it right;
\* between the two statements of a change of squads nothing is on its way.
Meets(n, u) ==
    /\ half[u].does = "squads" =>
          /\ user[u].here
          /\ ~In(event, u) /\ ~In(verdict, u) /\ ~In(job, u)
          /\ Gone(u) /\ node[n].start = "none" => admitted[n][u] = NoCred
    /\ half[u] = NoHalf =>
          /\ Fits(n, u)
          /\ node[n].start = "none" /\ admitted[n][u] # Right(n, user[u]) => Delivers(n, u)

\* The reasons for which a node may keep a user who is gone.
Grave == {"overlap", "stale", "lost", "both"}

\* Unless there is a reason against it, a user who is gone stays away, and one who is
\* not gets what he should have.
Tracked(n, u) ==
    /\ excuse[n][u] \cap Grave = {} => Parts(n, u)
    /\ excuse[n][u] = {} => Meets(n, u)

Synced == \A n \in Nodes, u \in Users : Tracked(n, u)

-----------------------------------------------------------------------------
(* Bags.                                                                     *)

LEMMA AddedBag ==
    ASSUME NEW A, NEW B, IsABag(A), IsABag(B)
    PROVE  IsABag(A (+) B) /\ DOMAIN (A (+) B) = DOMAIN A \cup DOMAIN B
BY DEF IsABag, (+)

LEMMA SetBag ==
    ASSUME NEW S
    PROVE  IsABag(SetToBag(S)) /\ DOMAIN SetToBag(S) = S
BY DEF IsABag, SetToBag

\* Taking a copy of x from a bag leaves all the others.
LEMMA TakenBag ==
    ASSUME NEW A, IsABag(A), NEW x
    PROVE  /\ IsABag(A (-) SetToBag({x}))
           /\ DOMAIN (A (-) SetToBag({x})) \subseteq DOMAIN A
           /\ \A y \in DOMAIN A : y # x => y \in DOMAIN (A (-) SetToBag({x}))
BY DEF IsABag, SetToBag, (-)

LEMMA NoBag == IsABag(EmptyBag) /\ DOMAIN EmptyBag = {}
BY DEF IsABag, SetToBag, EmptyBag

-----------------------------------------------------------------------------
(* Reasons.                                                                  *)

LEMMA Reason ==
    ASSUME NEW u \in Users, NEW S, NEW n \in Nodes, NEW w \in Users
    PROVE  Because(u, S)[n][w] = IF w = u THEN S ELSE {}
BY DEF Because, NoReason

LEMMA Excuse ==
    ASSUME NEW why, Excused(why), NEW n \in Nodes, NEW u \in Users
    PROVE  Agrees(n, u)' \/ excuse'[n][u] = excuse[n][u] \cup why[n][u]
BY DEF Excused

LEMMA ExcuseType ==
    ASSUME TypeOK, NEW why, Excused(why),
           \A n \in Nodes, u \in Users : why[n][u] \subseteq Reasons
    PROVE  excuse' \in [Nodes -> [Users -> SUBSET Reasons]]
BY DEF Excused, TypeOK

LEMMA ReasonType ==
    ASSUME TypeOK, NEW u \in Users, NEW S \in SUBSET Reasons, Excused(Because(u, S))
    PROVE  excuse' \in [Nodes -> [Users -> SUBSET Reasons]]
BY ExcuseType, Reason

-----------------------------------------------------------------------------
(* Types.                                                                    *)

LEMMA PublishType ==
    ASSUME TypeOK, NEW kinds \in SUBSET {"add", "adds", "remove"}, NEW u \in Users,
           event' = Publish(kinds, u)
    PROVE  /\ IsABag(event') /\ DOMAIN event' \subseteq Event
           /\ DOMAIN event' = DOMAIN event \cup {NewEvent(k, u) : k \in kinds}
<1> DEFINE S == {NewEvent(k, u) : k \in kinds}
<1>1. S \subseteq Event
  <2>1. 0 \in Creds
    BY BoundsAssumption DEF Creds
  <2>2. \A k \in kinds : NewEvent(k, u) \in Event
    BY <2>1 DEF NewEvent, Event
  <2> QED BY <2>2
<1>2. event' = event (+) SetToBag(S)
  BY DEF Publish
<1>3. IsABag(SetToBag(S)) /\ DOMAIN SetToBag(S) = S
  BY SetBag
<1> HIDE DEF S
<1>4. IsABag(event') /\ DOMAIN event' = DOMAIN event \cup S
  <2>1. IsABag(event)
    BY DEF TypeOK
  <2> QED BY <1>2, <1>3, <2>1, AddedBag
<1> QED BY <1>1, <1>4 DEF TypeOK, S

LEMMA ChangeType ==
    ASSUME TypeOK, NEW u \in Users, NEW r \in User,
           NEW kinds \in SUBSET {"add", "adds", "remove"}, NEW why \in SUBSET Reasons,
           Change(u, r, kinds, why), half' \in [Users -> Half],
           IsABag(verdict'), DOMAIN verdict' \subseteq Verdict
    PROVE  TypeOK'
<1>1. excuse' \in [Nodes -> [Users -> SUBSET Reasons]]
  <2>1. PICK S \in SUBSET Reasons : Excused(Because(u, S))
    BY DEF Change, Reasons
  <2> QED BY <2>1, ReasonType
<1>2. IsABag(event') /\ DOMAIN event' \subseteq Event
  BY PublishType DEF Change
<1>3. user' \in [Users -> User] /\ left' \in 0..MaxRequests
  BY BoundsAssumption DEF Change, TypeOK
<1> QED BY <1>1, <1>2, <1>3 DEF Change, TypeOK

LEMMA RowType ==
    ASSUME TypeOK, NEW u \in Users
    PROVE  /\ user[u].tags \in SUBSET Tags /\ user[u].cred \in Creds
           /\ user[u].status \in Statuses /\ user[u].here \in BOOLEAN
           /\ [user[u] EXCEPT !.here = FALSE] \in User
           /\ \A s \in Statuses : [user[u] EXCEPT !.status = s] \in User
           /\ \A t \in SUBSET Tags : [user[u] EXCEPT !.tags = t] \in User
           /\ \A s \in Statuses, t \in SUBSET Tags :
                 [user[u] EXCEPT !.status = s, !.tags = t] \in User
           /\ \A c \in Creds : [user[u] EXCEPT !.cred = c] \in User
<1>1. user[u] \in User
  BY DEF TypeOK
<1> QED BY <1>1 DEF User

LEMMA RequestType ==
    ASSUME TypeOK, NEW u \in Users, NEW r \in User,
           NEW kinds \in SUBSET {"add", "adds", "remove"}, NEW why \in SUBSET Reasons,
           Request(u, r, kinds, why)
    PROVE  TypeOK'
BY ChangeType DEF Request, TypeOK

LEMMA RequestStepType ==
    ASSUME TypeOK, NEW u \in Users, RequestStep(u)
    PROVE  TypeOK'
<1>1. ASSUME NEW t \in SUBSET Tags, NEW s \in {"ACTIVE", "DISABLED"}, CreateUser(u, s, t)
      PROVE  TypeOK'
  <2> DEFINE r == [here |-> TRUE, status |-> s, tags |-> t, cred |-> user[u].cred]
  <2>1. r \in User
    BY RowType, ZenonT(60) DEF User, Statuses
  <2>2. \E kinds \in SUBSET {"add", "adds", "remove"} : Request(u, r, kinds, {})
    BY <1>1 DEF CreateUser
  <2> HIDE DEF r
  <2> QED BY <2>1, <2>2, RequestType
<1>2. ASSUME NEW t \in SUBSET Tags, NEW s \in {"same", "ACTIVE", "DISABLED"},
             NEW raised \in BOOLEAN, NEW later \in BOOLEAN, UpdateUser(u, s, raised, later, t)
      PROVE  TypeOK'
  <2>1. user[u].status \in Statuses
    BY RowType
  <2>2. PICK s2 \in Statuses, kinds \in SUBSET {"add", "adds", "remove"},
                why \in SUBSET Reasons :
          Request(u, [user[u] EXCEPT !.status = s2, !.tags = t], kinds, why)
    BY <1>2, <2>1 DEF UpdateUser, Statuses, Reasons
  <2>3. [user[u] EXCEPT !.status = s2, !.tags = t] \in User
    BY RowType
  <2> QED BY <2>2, <2>3, RequestType
<1>3. ASSUME NEW t \in SUBSET Tags, ChangeSquads(u, t)
      PROVE  TypeOK'
  <2>1. \E why \in SUBSET Reasons : Request(u, [user[u] EXCEPT !.tags = t], {"adds"}, why)
    BY <1>3 DEF ChangeSquads, Reasons
  <2>2. [user[u] EXCEPT !.tags = t] \in User
    BY RowType
  <2> QED BY <2>1, <2>2, RequestType
<1>4. ASSUME NEW t \in SUBSET Tags, ReplaceSquads(u, t)
      PROVE  TypeOK'
  <2>1. half' \in [Users -> Half]
    BY <1>4 DEF ReplaceSquads, TypeOK, Half
  <2>2. /\ Change(u, [user[u] EXCEPT !.tags = {}], {}, {})
        /\ IsABag(verdict') /\ DOMAIN verdict' \subseteq Verdict
    BY <1>4 DEF ReplaceSquads, TypeOK
  <2>3. [user[u] EXCEPT !.tags = {}] \in User
    BY RowType
  <2> QED BY <2>1, <2>2, <2>3, ChangeType
<1>5. ASSUME RevokeSubscription(u) PROVE TypeOK'
  <2> DEFINE r == [user[u] EXCEPT !.cred = @ + 1]
  <2>1. user[u] \in User /\ user[u].cred \in Creds
    BY RowType DEF TypeOK
  <2>2. user[u].cred + 1 \in Creds
    BY <1>5, <2>1, BoundsAssumption DEF RevokeSubscription, Creds
  <2>3. r \in User
    BY <2>1, <2>2 DEF User
  <2>4. \E kinds \in SUBSET {"add", "adds", "remove"} : Request(u, r, kinds, {})
    BY <1>5 DEF RevokeSubscription
  <2> HIDE DEF r
  <2> QED BY <2>3, <2>4, RequestType
<1>6. ASSUME DeleteUser(u) PROVE TypeOK'
  <2>1. Request(u, [user[u] EXCEPT !.here = FALSE], {"remove"}, {})
    BY <1>6 DEF DeleteUser
  <2>2. [user[u] EXCEPT !.here = FALSE] \in User
    BY RowType
  <2> QED BY <2>1, <2>2, RequestType
<1>7. ASSUME NEW s \in {"ACTIVE", "DISABLED"}, NEW k \in {"add", "remove"},
             Request(u, [user[u] EXCEPT !.status = s], {k}, {})
      PROVE  TypeOK'
  <2>1. [user[u] EXCEPT !.status = s] \in User
    BY RowType DEF Statuses
  <2>2. {k} \in SUBSET {"add", "adds", "remove"} /\ {} \in SUBSET Reasons
    OBVIOUS
  <2> QED BY <1>7, <2>1, <2>2, RequestType
<1>8. ASSUME DisableUser(u) \/ EnableUser(u) \/ ExtendExpiration(u) PROVE TypeOK'
  BY <1>7, <1>8 DEF DisableUser, EnableUser, ExtendExpiration
<1>9. ASSUME ResetTraffic(u) PROVE TypeOK'
  <2>1. half' \in [Users -> Half]
    <3>1. half[u] \in Half
      BY DEF TypeOK
    <3>2. [half[u] EXCEPT !.does = "reset"] \in Half
      BY <3>1 DEF Half
    <3> QED BY <1>9, <3>2 DEF ResetTraffic, TypeOK
  <2>2. user[u] \in User /\ IsABag(verdict') /\ DOMAIN verdict' \subseteq Verdict
    BY <1>9 DEF ResetTraffic, TypeOK
  <2>3. Change(u, user[u], {"add"}, {})
    BY <1>9 DEF ResetTraffic
  <2> QED BY <2>1, <2>2, <2>3, ChangeType
<1>10. ASSUME SecondHalf(u) PROVE TypeOK'
  <2>1. half[u] \in Half /\ half[u].tags \in SUBSET Tags
    BY DEF TypeOK, Half
  <2>2. half' \in [Users -> Half]
    BY <1>10 DEF SecondHalf, TypeOK, Half, NoHalf
  <2>3. user' \in [Users -> User]
    <3>1. PICK r \in User : user' = [user EXCEPT ![u] = r]
      <4>1. user[u] \in User /\ "ACTIVE" \in Statuses /\ user[u].status \in Statuses
        BY RowType DEF TypeOK, Statuses
      <4>2. \/ user' = [user EXCEPT ![u].status = IF user[u].here THEN "ACTIVE" ELSE @]
            \/ user' = [user EXCEPT ![u].tags = half[u].tags]
        BY <1>10 DEF SecondHalf
      <4> QED BY <2>1, <4>1, <4>2 DEF User
    <3> QED BY <3>1 DEF TypeOK
  <2>4. IsABag(event') /\ DOMAIN event' \subseteq Event
    BY <1>10, PublishType DEF SecondHalf, TypeOK
  <2>5. excuse' \in [Nodes -> [Users -> SUBSET Reasons]]
    <3>1. PICK S \in SUBSET Reasons : Excused(Because(u, S))
      BY <1>10 DEF SecondHalf, Reasons
    <3> QED BY <3>1, ReasonType
  <2> QED BY <1>10, <2>2, <2>3, <2>4, <2>5 DEF SecondHalf, TypeOK
<1>11. ASSUME NEW kind \in {"EXPIRED", "LIMITED", "ENABLED"}, Decide(u, kind)
       PROVE  TypeOK'
  <2> DEFINE V == {[kind |-> kind, user |-> u]}
  <2>1. V \subseteq Verdict
    BY DEF Verdict
  <2>2. verdict' = verdict (+) SetToBag(V)
    BY <1>11 DEF Decide
  <2> HIDE DEF V
  <2>3. IsABag(SetToBag(V)) /\ DOMAIN SetToBag(V) = V
    BY SetBag
  <2>4. IsABag(verdict') /\ DOMAIN verdict' = DOMAIN verdict \cup V
    <3>1. IsABag(verdict)
      BY DEF TypeOK
    <3> QED BY <2>2, <2>3, <3>1, AddedBag
  <2>5. DOMAIN verdict' \subseteq Verdict /\ half' \in [Users -> Half]
    BY <1>11, <2>1, <2>4 DEF Decide, TypeOK
  <2>6. \E s \in Statuses : Change(u, [user[u] EXCEPT !.status = s], {}, {})
    BY <1>11 DEF Decide, Statuses
  <2>7. \A s \in Statuses : [user[u] EXCEPT !.status = s] \in User
    BY RowType
  <2> QED BY <2>4, <2>5, <2>6, <2>7, ChangeType
<1> QED
  BY <1>1, <1>2, <1>3, <1>4, <1>5, <1>6, <1>8, <1>9, <1>10, <1>11 DEF RequestStep

\* What the handlers of the events put in place of an event, and the jobs.
LEMMA TakeType ==
    ASSUME NEW T, NEW A, IsABag(A), DOMAIN A \subseteq T, NEW x
    PROVE  IsABag(A (-) SetToBag({x})) /\ DOMAIN (A (-) SetToBag({x})) \subseteq T
BY TakenBag

LEMMA AddType ==
    ASSUME NEW T, NEW A, IsABag(A), DOMAIN A \subseteq T, NEW S \in SUBSET T
    PROVE  IsABag(A (+) SetToBag(S)) /\ DOMAIN (A (+) SetToBag(S)) \subseteq T
<1>1. IsABag(SetToBag(S)) /\ DOMAIN SetToBag(S) = S
  BY SetBag
<1> QED BY <1>1, AddedBag

LEMMA SwapType ==
    ASSUME NEW T, NEW A, IsABag(A), DOMAIN A \subseteq T, NEW x, NEW S \in SUBSET T
    PROVE  /\ IsABag(A (-) SetToBag({x}) (+) SetToBag(S))
           /\ DOMAIN (A (-) SetToBag({x}) (+) SetToBag(S)) \subseteq T
<1> DEFINE D == A (-) SetToBag({x})
<1>1. IsABag(D) /\ DOMAIN D \subseteq T
  BY TakeType
<1> HIDE DEF D
<1>2. IsABag(D (+) SetToBag(S)) /\ DOMAIN (D (+) SetToBag(S)) \subseteq T
  BY <1>1, AddType
<1> QED BY <1>2 DEF D

LEMMA SyncType ==
    ASSUME NEW u \in Users, NEW tags, NEW cred \in Creds, NEW N \in SUBSET Nodes
    PROVE  {Sync(n, u, tags, cred) : n \in N} \subseteq Job
BY DEF Sync, Job

LEMMA EventStepType ==
    ASSUME TypeOK, EventStep
    PROVE  TypeOK'
<1>1. ASSUME NEW v \in DOMAIN verdict, UserEventJob(v)
      PROVE  TypeOK'
  <2>1. IsABag(verdict') /\ DOMAIN verdict' \subseteq Verdict
    BY <1>1, TakeType DEF UserEventJob, TypeOK
  <2>2. v.user \in Users
    BY DEF TypeOK, Verdict
  <2>3. IsABag(event') /\ DOMAIN event' \subseteq Event
    BY <1>1, <2>2, PublishType DEF UserEventJob, TypeOK
  <2> QED BY <1>1, <2>1, <2>3 DEF UserEventJob, TypeOK
<1>2. ASSUME NEW e \in DOMAIN event,
             ReadUser(e) \/ AddUserToNode(e) \/ ReadNodes(e) \/ AddUsersToNode(e)
               \/ RemoveUserFromNode(e) \/ EventLost(e)
      PROVE  TypeOK'
  <2>1. e \in Event
    BY DEF TypeOK
  <2>2. e.user \in Users /\ e.cred \in Creds /\ e.nodes \subseteq Nodes
    BY <2>1 DEF Event
  <2>3. CASE ReadUser(e)
    <3>1. PICK S \in SUBSET Event : event' = event (-) SetToBag({e}) (+) SetToBag(S)
      <4>1. user[e.user].tags \in SUBSET Tags /\ user[e.user].cred \in Creds
        BY <2>2, RowType
      <4> DEFINE f == [e EXCEPT !.read = TRUE, !.tags = user[e.user].tags,
                                !.cred = user[e.user].cred]
      <4>2. f \in Event
        BY <2>1, <4>1 DEF Event
      <4>3. \/ event' = event (-) SetToBag({e}) (+) SetToBag({f})
            \/ event' = event (-) SetToBag({e}) (+) SetToBag({})
        BY <2>3 DEF ReadUser, EmptyBag
      <4> HIDE DEF f
      <4> QED BY <4>2, <4>3
    <3>2. IsABag(event') /\ DOMAIN event' \subseteq Event
      <4>1. IsABag(event) /\ DOMAIN event \subseteq Event
        BY DEF TypeOK
      <4> QED BY <3>1, <4>1, SwapType
    <3> QED BY <2>3, <3>2 DEF ReadUser, TypeOK
  <2>4. CASE AddUserToNode(e)
    <3>1. IsABag(event') /\ DOMAIN event' \subseteq Event
      BY <2>4, TakeType DEF AddUserToNode, TypeOK
    <3>2. IsABag(job') /\ DOMAIN job' \subseteq Job
      <4> DEFINE S == {Sync(n, e.user, e.tags, e.cred) : n \in Connected}
      <4>1. S \subseteq Job
        BY <2>2, SyncType DEF Connected
      <4>2. job' = job (+) SetToBag(S)
        BY <2>4 DEF AddUserToNode
      <4> HIDE DEF S
      <4> QED BY <4>1, <4>2, AddType DEF TypeOK
    <3> QED BY <2>4, <3>1, <3>2 DEF AddUserToNode, TypeOK
  <2>5. CASE ReadNodes(e)
    <3>1. PICK S \in SUBSET Event : event' = event (-) SetToBag({e}) (+) SetToBag(S)
      <4> DEFINE f == [e EXCEPT !.read = TRUE, !.nodes = Connected]
      <4>1. f \in Event
        BY <2>1 DEF Event, Connected
      <4>2. \/ event' = event (-) SetToBag({e}) (+) SetToBag({f})
            \/ event' = event (-) SetToBag({e}) (+) SetToBag({})
        BY <2>5 DEF ReadNodes, EmptyBag
      <4> HIDE DEF f
      <4> QED BY <4>1, <4>2
    <3>2. IsABag(event') /\ DOMAIN event' \subseteq Event
      <4>1. IsABag(event) /\ DOMAIN event \subseteq Event
        BY DEF TypeOK
      <4> QED BY <3>1, <4>1, SwapType
    <3> QED BY <2>5, <3>2 DEF ReadNodes, TypeOK
  <2>6. CASE AddUsersToNode(e)
    <3>1. IsABag(event') /\ DOMAIN event' \subseteq Event
      BY <2>6, TakeType DEF AddUsersToNode, TypeOK
    <3>2. IsABag(job') /\ DOMAIN job' \subseteq Job
      <4> DEFINE S == {Sync(n, e.user, user[e.user].tags, user[e.user].cred) : n \in e.nodes}
      <4>1. S \subseteq Job
        BY <2>2, RowType, SyncType, ZenonT(60)
      <4>2. job' = job \/ job' = job (+) SetToBag(S)
        BY <2>6 DEF AddUsersToNode
      <4> HIDE DEF S
      <4>3. IsABag(job) /\ DOMAIN job \subseteq Job
        BY DEF TypeOK
      <4>4. CASE job' = job
        BY <4>3, <4>4
      <4>5. CASE job' = job (+) SetToBag(S)
        BY <4>1, <4>3, <4>5, AddType
      <4> QED BY <4>2, <4>4, <4>5
    <3> QED BY <2>6, <3>1, <3>2 DEF AddUsersToNode, TypeOK
  <2>7. CASE RemoveUserFromNode(e)
    <3>1. IsABag(event') /\ DOMAIN event' \subseteq Event
      BY <2>7, TakeType DEF RemoveUserFromNode, TypeOK
    <3>2. IsABag(job') /\ DOMAIN job' \subseteq Job
      <4> DEFINE S == {[does |-> "remove", node |-> n, user |-> e.user, cred |-> 0] :
                          n \in ConnectedAtLeast}
      <4>1. S \subseteq Job
        BY <2>2, BoundsAssumption DEF Job, ConnectedAtLeast, Creds
      <4>2. job' = job (+) SetToBag(S)
        BY <2>7 DEF RemoveUserFromNode
      <4> HIDE DEF S
      <4> QED BY <4>1, <4>2, AddType DEF TypeOK
    <3> QED BY <2>7, <3>1, <3>2 DEF RemoveUserFromNode, TypeOK
  <2>8. CASE EventLost(e)
    <3>1. IsABag(event') /\ DOMAIN event' \subseteq Event
      BY <2>8, TakeType DEF EventLost, TypeOK
    <3>2. excuse' \in [Nodes -> [Users -> SUBSET Reasons]]
      BY <2>2, <2>8, ReasonType DEF EventLost, Reasons
    <3> QED BY <2>8, <3>1, <3>2 DEF EventLost, TypeOK
  <2> QED BY <1>2, <2>3, <2>4, <2>5, <2>6, <2>7, <2>8
<1>3. ASSUME NEW j \in DOMAIN job, JobRuns(j) \/ JobFails(j)
      PROVE  TypeOK'
  <2>1. j \in Job
    BY DEF TypeOK
  <2>2. j.user \in Users /\ j.node \in Nodes /\ j.cred \in Creds
    BY <2>1 DEF Job
  <2>3. IsABag(job') /\ DOMAIN job' \subseteq Job
    <3>1. job' = job (-) SetToBag({j})
      BY <1>3 DEF JobRuns, JobFails
    <3> QED BY <3>1, TakeType DEF TypeOK
  <2>4. excuse' \in [Nodes -> [Users -> SUBSET Reasons]]
    <3>1. CASE JobRuns(j)
      BY <3>1, ExcuseType DEF JobRuns, NoReason
    <3>2. CASE JobFails(j)
      BY <2>2, <3>2, ReasonType DEF JobFails, Reasons
    <3> QED BY <1>3, <3>1, <3>2
  <2>5. admitted' \in [Nodes -> [Users -> Creds \cup {NoCred}]]
    <3>1. (IF j.does = "add" THEN j.cred ELSE NoCred) \in Creds \cup {NoCred}
      BY <2>2
    <3>2. CASE JobRuns(j)
      BY <2>2, <3>1, <3>2 DEF JobRuns, TypeOK
    <3>3. CASE JobFails(j)
      BY <3>3 DEF JobFails, TypeOK
    <3> QED BY <1>3, <3>2, <3>3
  <2> QED BY <1>3, <2>3, <2>4, <2>5 DEF JobRuns, JobFails, TypeOK
<1> QED BY <1>1, <1>2, <1>3 DEF EventStep

LEMMA WantedType ==
    ASSUME TypeOK, NEW n \in Nodes
    PROVE  Wanted(n, user) \in [Users -> Creds \cup {NoCred}]
BY RowType DEF Wanted

LEMMA NodeStepType ==
    ASSUME TypeOK, NEW n \in Nodes, NodeStep(n)
    PROVE  TypeOK'
<1>1. ASSUME NEW r \in Node, node' = [node EXCEPT ![n] = r], left' \in 0..MaxRequests,
             admitted' \in [Nodes -> [Users -> Creds \cup {NoCred}]],
             excuse' \in [Nodes -> [Users -> SUBSET Reasons]],
             UNCHANGED <<user, half, event, verdict, job>>
      PROVE  TypeOK'
  BY <1>1 DEF TypeOK
<1>2. node[n] \in Node
  BY DEF TypeOK
<1>3. ASSUME NEW lost \in BOOLEAN, Restart(n, lost)
      PROVE  TypeOK'
  <2> DEFINE r == [node[n] EXCEPT !.start = "waiting", !.connected = @ /\ ~lost]
  <2>1. r \in Node
    BY <1>2 DEF Node
  <2>2. node' = [node EXCEPT ![n] = r]
    BY <1>3 DEF Restart, TypeOK
  <2> HIDE DEF r
  <2>3. left' \in 0..MaxRequests
    BY <1>3, BoundsAssumption DEF Restart, TypeOK
  <2> QED BY <1>1, <1>3, <2>1, <2>2, <2>3 DEF Restart, TypeOK
<1>4. CASE StartBegin(n)
  <2> DEFINE r == [node[n] EXCEPT !.start = "begun", !.connecting = TRUE]
  <2>1. r \in Node
    BY <1>2 DEF Node
  <2>2. node' = [node EXCEPT ![n] = r]
    BY <1>4 DEF StartBegin, TypeOK
  <2> HIDE DEF r
  <2> QED BY <1>1, <1>4, <2>1, <2>2 DEF StartBegin, TypeOK
<1>5. CASE PrepareConfig(n)
  <2> DEFINE r == [node[n] EXCEPT !.start = "read", !.users = Wanted(n, user)]
  <2>1. r \in Node
    BY <1>2, WantedType DEF Node
  <2>2. node' = [node EXCEPT ![n] = r]
    BY <1>5 DEF PrepareConfig, TypeOK
  <2> HIDE DEF r
  <2> QED BY <1>1, <1>5, <2>1, <2>2 DEF PrepareConfig, TypeOK
<1>6. ASSUME NEW c \in BOOLEAN, NEW s \in {"none", "waiting"}
      PROVE  [connected |-> c, connecting |-> FALSE, start |-> s, users |-> Nobody] \in Node
  BY DEF Node, Nobody
<1>7. CASE StartXray(n)
  <2>1. admitted' \in [Nodes -> [Users -> Creds \cup {NoCred}]]
    BY <1>2, <1>7 DEF StartXray, TypeOK, Node
  <2>2. excuse' \in [Nodes -> [Users -> SUBSET Reasons]]
    <3> DEFINE why == [NoReason EXCEPT ![n] =
                          [u \in Users |-> IF node[n].users[u] # Wanted(n, user)[u]
                                           THEN {"stale"} ELSE {}]]
    <3>1. \A m \in Nodes, u \in Users : why[m][u] \subseteq Reasons
      BY DEF NoReason, Reasons
    <3>2. Excused(why)
      BY <1>7 DEF StartXray
    <3> HIDE DEF why
    <3> QED BY <3>1, <3>2, ExcuseType
  <2> QED BY <1>1, <1>6, <1>7, <2>1, <2>2 DEF StartXray, TypeOK
<1>8. CASE StartRefused(n)
  BY <1>1, <1>6, <1>8 DEF StartRefused, TypeOK
<1> QED BY <1>3, <1>4, <1>5, <1>7, <1>8 DEF NodeStep

LEMMA InitTypeOK == Init => TypeOK
<1>1. ASSUME Init PROVE TypeOK
  <2>1. 0 \in Creds /\ user \in [Users -> User]
    BY <1>1, BoundsAssumption DEF Init, Creds
  <2>2. half \in [Users -> Half] /\ node \in [Nodes -> Node]
    BY <1>1 DEF Init, Half, NoHalf, Node, Nobody
  <2>3. /\ IsABag(event) /\ DOMAIN event \subseteq Event
        /\ IsABag(verdict) /\ DOMAIN verdict \subseteq Verdict
        /\ IsABag(job) /\ DOMAIN job \subseteq Job
    BY <1>1, NoBag DEF Init
  <2>4. left \in 0..MaxRequests
    BY <1>1, BoundsAssumption DEF Init
  <2> QED BY <1>1, <2>1, <2>2, <2>3, <2>4 DEF Init, TypeOK, Nobody
<1> QED BY <1>1

LEMMA NextTypeOK == TypeOK /\ [Next]_vars => TypeOK'
<1>1. TypeOK /\ UNCHANGED vars => TypeOK'
  BY DEF TypeOK, vars
<1> QED BY <1>1, RequestStepType, EventStepType, NodeStepType DEF Next

-----------------------------------------------------------------------------
(* How the invariant is carried over a step.                                 *)

LEMMA WantedRight ==
    ASSUME NEW n, NEW u \in Users
    PROVE  /\ Wanted(n, user)[u] = Right(n, user[u])
           /\ Wanted(n, user')[u] = Right(n, user[u]')
BY DEF Wanted, Right

\* A node that agrees, with nothing on its way, has forgotten all reasons, and
\* needs none.
LEMMA Settles ==
    ASSUME NEW n \in Nodes, NEW u \in Users, Agrees(n, u)'
    PROVE  Parts(n, u)' /\ Meets(n, u)'
<1>1. /\ half'[u] = NoHalf
      /\ \A e \in DOMAIN event' : e.user # u
      /\ \A v \in DOMAIN verdict' : v.user # u
      /\ \A j \in DOMAIN job' : j.user # u
      /\ admitted'[n][u] = Right(n, user'[u])
  BY WantedRight DEF Agrees, Moving, In
<1>2. Parts(n, u)'
  BY <1>1 DEF Parts, Gone, JobFor, Right, NoHalf
<1>3. Meets(n, u)'
  BY <1>1 DEF Meets, Fits, EventFits, JobFor, NoHalf
<1> QED BY <1>2, <1>3

\* A step that is not about u, nor about the start of n if that ends.
Same(n, u) ==
    /\ user'[u] = user[u] /\ half'[u] = half[u]
    /\ \A e : e.user = u => (e \in DOMAIN event' <=> e \in DOMAIN event)
    /\ \A v : v.user = u => (v \in DOMAIN verdict' <=> v \in DOMAIN verdict)
    /\ \A j : JobFor(n, u, j) => (j \in DOMAIN job' <=> j \in DOMAIN job)
    /\ In(job', u) => In(job, u)
    /\ node'[n].start = "none" =>
          node[n].start = "none" /\ admitted'[n][u] = admitted[n][u]

LEMMA SameParts ==
    ASSUME NEW n \in Nodes, NEW u \in Users, Same(n, u), Parts(n, u)
    PROVE  Parts(n, u)'
<1>1. Gone(u)' <=> Gone(u)
  BY DEF Same, Gone
<1>2. Removes(n, u) => Removes(n, u)'
  BY DEF Same, Removes, JobFor
<1> QED BY <1>1, <1>2 DEF Same, Parts, JobFor

LEMMA SameMeets ==
    ASSUME NEW n \in Nodes, NEW u \in Users, Same(n, u), Meets(n, u)
    PROVE  Meets(n, u)'
<1>1. Gone(u)' <=> Gone(u)
  BY DEF Same, Gone
<1>2. Delivers(n, u) => Delivers(n, u)'
  BY DEF Same, Delivers, EventDelivers, JobFor
<1>3. Fits(n, u) => Fits(n, u)'
  BY DEF Same, Fits, EventFits, JobFor
<1>4. (In(event, u)' => In(event, u)) /\ (In(verdict, u)' => In(verdict, u))
  BY DEF Same, In
<1> QED BY <1>1, <1>2, <1>3, <1>4 DEF Same, Meets

LEMMA Carried ==
    ASSUME NEW why, Excused(why), NEW n \in Nodes, NEW u \in Users, Tracked(n, u),
           why[n][u] \cap Grave = {} /\ Parts(n, u) => Parts(n, u)',
           why[n][u] = {} /\ Meets(n, u) => Meets(n, u)'
    PROVE  Tracked(n, u)'
<1>1. CASE Agrees(n, u)'
  BY <1>1, Settles DEF Tracked
<1>2. CASE excuse'[n][u] = excuse[n][u] \cup why[n][u]
  BY <1>2 DEF Tracked
<1> QED BY <1>1, <1>2, Excuse

LEMMA CarriedSame ==
    ASSUME NEW n \in Nodes, NEW u \in Users, Tracked(n, u), Same(n, u),
           excuse' = excuse \/ \E why : Excused(why)
    PROVE  Tracked(n, u)'
<1>1. CASE excuse' = excuse
  BY <1>1, SameParts, SameMeets DEF Tracked
<1>2. ASSUME NEW why, Excused(why) PROVE Tracked(n, u)'
  BY <1>2, Carried, SameParts, SameMeets
<1> QED BY <1>1, <1>2

-----------------------------------------------------------------------------
(* Requests.                                                                 *)

\* The verdicts on u are joined by those of these kinds.
Judged(u, V) ==
    /\ \A v : v \in DOMAIN verdict' =>
          v \in DOMAIN verdict \/ \E k \in V : v = [kind |-> k, user |-> u]
    /\ \A v \in DOMAIN verdict : v \in DOMAIN verdict'
    /\ \A k \in V : [kind |-> k, user |-> u] \in DOMAIN verdict'

RowGone(r) == ~r.here \/ r.status # "ACTIVE"

\* What a request leaves behind on u, if nothing was on its way: the row r, the
\* second half h, events of these kinds and verdicts V.  They fit the row, and
\* if a node loses the user, or should have what it has not, one of them says so.
Sound(u, r, kinds, V, h, why) ==
    /\ h = NoHalf \/ h.does \in {"reset", "squads"}
    /\ h.does = "reset" => r.here
    /\ \A k \in V : r.here /\ (k = "ENABLED" <=> r.status = "ACTIVE")
    /\ RowGone(r) /\ h.does # "reset" =>
          /\ "add" \notin kinds
          /\ \/ Gone(u) \/ "both" \in why \/ "remove" \in kinds
             \/ \E k \in V : k # "ENABLED"
    /\ h.does = "squads" =>
          r.here /\ kinds = {} /\ V = {} /\ (RowGone(r) => Gone(u))
    /\ h = NoHalf /\ why = {} =>
          /\ "remove" \in kinds => \A n \in Nodes : Right(n, r) = NoCred
          /\ \A k \in kinds : k # "remove" => r.here
          /\ "add" \in kinds => r.status = "ACTIVE"
          /\ \/ \A n \in Nodes : Right(n, r) = Right(n, user[u])
             \/ "add" \in kinds /\ r.tags # {}
             \/ "adds" \in kinds /\ r.status = "ACTIVE" /\ r.tags # {}
             \/ "remove" \in kinds
             \/ \E k \in V : k = "ENABLED" => r.tags # {}

LEMMA SoundTracked ==
    ASSUME TypeOK, Halves, Synced, TypeOK', NEW u \in Users, NEW r,
           NEW kinds \in SUBSET {"add", "adds", "remove"}, NEW why, NEW V, NEW h,
           Change(u, r, kinds, why), half' = [half EXCEPT ![u] = h], Judged(u, V),
           ~Moving(u) => Sound(u, r, kinds, V, h, why)
    PROVE  Synced'
<1> SUFFICES ASSUME NEW n \in Nodes, NEW w \in Users PROVE Tracked(n, w)'
  BY DEF Synced
<1> DEFINE more == why \cup (IF Moving(u) THEN {"overlap"} ELSE {})
<1>1. /\ user' = [user EXCEPT ![u] = r] /\ Excused(Because(u, more))
      /\ job' = job /\ node' = node /\ admitted' = admitted
      /\ DOMAIN event' = DOMAIN event \cup {NewEvent(k, u) : k \in kinds}
  BY PublishType DEF Change
<1>2. user'[u] = r /\ half'[u] = h
      /\ (w # u => user'[w] = user[w] /\ half'[w] = half[w])
  BY <1>1 DEF TypeOK
<1>3. CASE w # u
  <2>1. \A e : e.user = w => (e \in DOMAIN event' <=> e \in DOMAIN event)
    BY <1>1, <1>3 DEF NewEvent
  <2>2. \A v : v.user = w => (v \in DOMAIN verdict' <=> v \in DOMAIN verdict)
    BY <1>3 DEF Judged
  <2>3. Same(n, w)
    BY <1>1, <1>2, <1>3, <2>1, <2>2 DEF Same, In
  <2> QED BY <1>1, <2>3, CarriedSame DEF Synced
<1>4. ASSUME w = u, ~Moving(u) PROVE Tracked(n, u)'
  <2>1. Sound(u, r, kinds, V, h, why) /\ more = why /\ half[u] = NoHalf
    BY <1>4 DEF Moving
  <2>2. /\ \A e \in DOMAIN event' : e.user = u => \E k \in kinds : e = NewEvent(k, u)
        /\ \A k \in kinds : NewEvent(k, u) \in DOMAIN event'
        /\ \A v \in DOMAIN verdict' : v.user = u => \E k \in V : v = [kind |-> k, user |-> u]
        /\ \A k \in V : [kind |-> k, user |-> u] \in DOMAIN verdict'
        /\ \A j \in DOMAIN job' : j.user # u
    BY <1>1, <1>4 DEF Moving, In, Judged
  <2>3. ASSUME Parts(n, u), "both" \notin why PROVE Parts(n, u)'
    <3>1. Gone(u)' <=> RowGone(r)
      BY <1>2 DEF Gone, RowGone
    <3>2. Gone(u) /\ node[n].start = "none" => admitted[n][u] = NoCred
      BY <1>4, <2>1, <2>3 DEF Parts, Removes, Moving, In, NoHalf, JobFor
    <3>3. \A v \in DOMAIN verdict' :
             v.user = u => r.here /\ (v.kind = "ENABLED" => r.status = "ACTIVE")
      BY <2>1, <2>2 DEF Sound
    <3>4. ASSUME RowGone(r), h.does # "reset"
          PROVE  /\ \A e \in DOMAIN event' : e.user = u => e.kind # "add"
                 /\ ~Gone(u) => Removes(n, u)'
      <4>1. \A e \in DOMAIN event' : e.user = u => e.kind # "add"
        BY <2>1, <2>2, <3>4 DEF Sound, NewEvent
      <4>2. CASE "remove" \in kinds
        BY <2>2, <4>1, <4>2 DEF Removes, NewEvent
      <4>3. CASE \E k \in V : k # "ENABLED"
        BY <2>2, <4>1, <4>3 DEF Removes
      <4> QED BY <2>1, <2>3, <3>4, <4>1, <4>2, <4>3 DEF Sound
    <3> QED BY <1>1, <1>2, <2>1, <2>2, <3>1, <3>2, <3>3, <3>4 DEF Parts, Sound, JobFor
  <2>4. ASSUME Meets(n, u), why = {} PROVE Meets(n, u)'
    <3>1. node[n].start = "none" => admitted[n][u] = Right(n, user[u])
      BY <1>4, <2>1, <2>4 DEF Meets, Delivers, EventDelivers, Moving, In, JobFor
    <3>2. CASE h.does = "squads"
      <4>1. Gone(u)' => Gone(u)
        BY <1>2, <2>1, <3>2 DEF Sound, Gone, RowGone
      <4>2. Gone(u) => Right(n, user[u]) = NoCred
        BY DEF Gone, Right
      <4>3. ~In(event', u) /\ ~In(verdict', u) /\ ~In(job', u) /\ r.here
        BY <2>1, <2>2, <3>2 DEF Sound, In
      <4> QED BY <1>1, <1>2, <3>1, <3>2, <4>1, <4>2, <4>3 DEF Meets, NoHalf, In
    <3>3. CASE h = NoHalf
      <4>1. Fits(n, u)'
        <5>1. \A e \in DOMAIN event' : e.user = u =>
                 /\ e.kind = "remove" => Right(n, r) = NoCred
                 /\ e.kind # "remove" => r.here
                 /\ e.kind = "add" => r.status = "ACTIVE"
                 /\ ~e.read
          BY <2>1, <2>2, <2>4, <3>3 DEF Sound, NewEvent
        <5>2. \A v \in DOMAIN verdict' : v.user = u =>
                 r.here /\ (v.kind = "ENABLED" <=> r.status = "ACTIVE")
          BY <2>1, <2>2 DEF Sound
        <5>3. Right(n, user[u])' = Right(n, r)
          BY <1>2 DEF Right
        <5> QED BY <1>2, <2>2, <5>1, <5>2, <5>3 DEF Fits, EventFits, JobFor
      <4>2. Right(n, r) = Right(n, user[u]) \/ Delivers(n, u)'
        <5>1. CASE "add" \in kinds /\ r.tags # {}
          BY <1>2, <2>2, <5>1 DEF Delivers, EventDelivers, NewEvent
        <5>2. CASE "adds" \in kinds /\ r.status = "ACTIVE" /\ r.tags # {}
          BY <1>2, <2>2, <5>2 DEF Delivers, EventDelivers, NewEvent
        <5>3. CASE "remove" \in kinds
          BY <1>2, <2>2, <5>3 DEF Delivers, EventDelivers, NewEvent
        <5>4. CASE \E k \in V : k = "ENABLED" => r.tags # {}
          BY <1>2, <2>2, <5>4 DEF Delivers, EventDelivers
        <5> QED BY <2>1, <2>4, <3>3, <5>1, <5>2, <5>3, <5>4 DEF Sound
      <4> QED BY <1>1, <1>2, <3>1, <3>3, <4>1, <4>2 DEF Meets, NoHalf, Right
    <3> QED BY <1>2, <2>1, <3>2, <3>3 DEF Sound, Meets
  <2>5. Because(u, why)[n][u] = why /\ Excused(Because(u, why))
    BY <1>1, <2>1, Reason
  <2>6. Tracked(n, u)
    BY DEF Synced
  <2> QED BY <2>3, <2>4, <2>5, <2>6, Carried DEF Grave
<1>5. ASSUME w = u, Moving(u) PROVE Tracked(n, u)'
  <2>1. "overlap" \in Because(u, more)[n][u]
    BY <1>5, Reason
  <2>2. Tracked(n, u)
    BY DEF Synced
  <2> HIDE DEF more
  <2> QED BY <1>1, <2>1, <2>2, Carried DEF Grave
<1> QED BY <1>3, <1>4, <1>5

LEMMA RequestTracked ==
    ASSUME TypeOK, Halves, Synced, TypeOK', NEW u \in Users, NEW r,
           NEW kinds \in SUBSET {"add", "adds", "remove"}, NEW why, Request(u, r, kinds, why),
           Sound(u, r, kinds, {}, NoHalf, why)
    PROVE  Synced'
<1>1. half' = [half EXCEPT ![u] = half[u]] /\ Judged(u, {})
  BY DEF Request, TypeOK, Judged
<1>2. ~Moving(u) => half[u] = NoHalf
  BY DEF Moving
<1> QED BY <1>1, <1>2, SoundTracked DEF Request

\* What an update of a user to this status and these squads tells the nodes.
Tells(u, tags, status, kinds, why) ==
    LET was == user[u] IN
    /\ \/ status = "ACTIVE" \/ status = was.status
       \/ status = "DISABLED" /\ was.status = "ACTIVE"
    /\ IF tags # was.tags
       THEN /\ kinds = IF tags = {} THEN {"remove"}
                       ELSE IF status = "ACTIVE" THEN {"add"} ELSE {}
            /\ status = "DISABLED" /\ was.status # status /\ tags # {} => "both" \in why
       ELSE kinds = IF status = "DISABLED" /\ was.status = "ACTIVE" THEN {"remove"}
                    ELSE IF status = "ACTIVE" /\ was.status # "ACTIVE" THEN {"add"} ELSE {}

LEMMA UpdateTracked ==
    ASSUME TypeOK, Halves, Synced, TypeOK', NEW u \in Users, NEW t \in SUBSET Tags,
           NEW s \in {"same", "ACTIVE", "DISABLED"}, NEW raised \in BOOLEAN,
           NEW later \in BOOLEAN, UpdateUser(u, s, raised, later, t)
    PROVE  Synced'
<1>1. PICK status \in Statuses, kinds \in SUBSET {"add", "adds", "remove"},
           why \in SUBSET Reasons :
        /\ user[u].here /\ Tells(u, t, status, kinds, why)
        /\ Request(u, [user[u] EXCEPT !.status = status, !.tags = t], kinds, why)
  <2> DEFINE was    == user[u]
             state  == IF \/ was.status # "ACTIVE" /\ s = "ACTIVE"
                          \/ was.status = "LIMITED" /\ raised
                          \/ was.status = "EXPIRED" /\ later /\ s = "same"
                       THEN "ACTIVE"
                       ELSE IF was.status = "ACTIVE" /\ s = "DISABLED" THEN "DISABLED"
                       ELSE was.status
             moved  == t # was.tags
             add    == IF moved THEN t # {} ELSE state = "ACTIVE" /\ was.status # "ACTIVE"
             remove == IF moved THEN t = {} ELSE state = "DISABLED" /\ was.status = "ACTIVE"
             kinds  == (IF state = "ACTIVE" /\ add /\ ~remove THEN {"add"} ELSE {})
                          \cup (IF remove THEN {"remove"} ELSE {})
             why    == IF moved /\ t # {} /\ state # was.status /\ state = "DISABLED"
                       THEN {"both"} ELSE {}
  <2>1. Request(u, [was EXCEPT !.status = state, !.tags = t], kinds, why) /\ was.here
    BY DEF UpdateUser
  <2>2. kinds \in SUBSET {"add", "adds", "remove"} /\ why \in SUBSET Reasons
    BY DEF Reasons
  <2>3. state \in Statuses
    BY RowType DEF Statuses
  <2>4. Tells(u, t, state, kinds, why)
    <3>1. \/ state = "ACTIVE" \/ state = was.status
          \/ state = "DISABLED" /\ was.status = "ACTIVE"
      OBVIOUS
    <3>2. CASE moved
      BY <3>1, <3>2 DEF Tells
    <3>3. CASE ~moved
      BY <3>1, <3>3 DEF Tells
    <3> QED BY <3>2, <3>3
  <2> HIDE DEF state, kinds, why
  <2> QED BY <2>1, <2>2, <2>3, <2>4
<1> DEFINE r == [user[u] EXCEPT !.status = status, !.tags = t]
<1>2. /\ r.here = user[u].here /\ r.status = status /\ r.tags = t /\ r.cred = user[u].cred
  <2>1. user[u] \in User
    BY DEF TypeOK
  <2> QED BY <2>1 DEF User
<1> HIDE DEF r
<1>3. Sound(u, r, kinds, {}, NoHalf, why)
  <2>1. RowGone(r) => "add" \notin kinds
    BY <1>1, <1>2 DEF RowGone, Tells
  <2>2. RowGone(r) => Gone(u) \/ "both" \in why \/ "remove" \in kinds
    BY <1>1, <1>2 DEF RowGone, Gone, Tells
  <2>3. "remove" \in kinds => \A n \in Nodes : Right(n, r) = NoCred
    BY <1>1, <1>2 DEF Right, Tells
  <2>4. ASSUME why = {} PROVE \/ \A n \in Nodes : Right(n, r) = Right(n, user[u])
                              \/ "add" \in kinds /\ r.tags # {}
                              \/ "remove" \in kinds
    BY <1>1, <1>2, <2>4 DEF Right, Tells
  <2> QED BY <1>1, <1>2, <2>1, <2>2, <2>3, <2>4 DEF Sound, NoHalf, Tells
<1> QED BY <1>1, <1>3, RequestTracked DEF r

LEMMA RequestStepTracked ==
    ASSUME TypeOK, Halves, Synced, TypeOK', NEW u \in Users, RequestStep(u), ~SecondHalf(u)
    PROVE  Synced'
<1>1. user[u] \in User /\ half[u] \in Half
  BY DEF TypeOK
<1>2. ASSUME NEW t \in SUBSET Tags, NEW s \in {"ACTIVE", "DISABLED"}, CreateUser(u, s, t)
      PROVE  Synced'
  <2> DEFINE r == [here |-> TRUE, status |-> s, tags |-> t, cred |-> user[u].cred]
             kinds == IF s = "ACTIVE" THEN {"add"} ELSE {}
  <2>1. ~user[u].here /\ Request(u, r, kinds, {})
    BY <1>2 DEF CreateUser
  <2>2. Sound(u, r, kinds, {}, NoHalf, {})
    BY <2>1 DEF Sound, NoHalf, RowGone, Gone, Right
  <2>3. kinds \in SUBSET {"add", "adds", "remove"}
    OBVIOUS
  <2> HIDE DEF r, kinds
  <2> QED BY <2>1, <2>2, <2>3, RequestTracked
<1>3. ASSUME NEW t \in SUBSET Tags, ChangeSquads(u, t)
      PROVE  Synced'
  <2> DEFINE r == [user[u] EXCEPT !.tags = t]
  <2>1. PICK why : Request(u, r, {"adds"}, why) /\ (t = {} => why # {}) /\ user[u].here
    BY <1>3 DEF ChangeSquads
  <2>2. Sound(u, r, {"adds"}, {}, NoHalf, why)
    BY <1>1, <2>1 DEF Sound, NoHalf, RowGone, Gone, Right, User
  <2> HIDE DEF r
  <2> QED BY <2>1, <2>2, RequestTracked
<1>4. ASSUME NEW t \in SUBSET Tags, ReplaceSquads(u, t)
      PROVE  Synced'
  <2> DEFINE r == [user[u] EXCEPT !.tags = {}]
             h == [does |-> "squads", tags |-> t]
  <2>1. /\ Change(u, r, {}, {}) /\ half' = [half EXCEPT ![u] = h] /\ user[u].here
        /\ Judged(u, {})
    BY <1>4 DEF ReplaceSquads, Judged
  <2>2. Sound(u, r, {}, {}, h, {})
    BY <1>1, <2>1 DEF Sound, NoHalf, RowGone, Gone, User
  <2> HIDE DEF r, h
  <2> QED BY <2>1, <2>2, SoundTracked
<1>5. ASSUME RevokeSubscription(u) PROVE Synced'
  <2> DEFINE r == [user[u] EXCEPT !.cred = @ + 1]
             kinds == IF user[u].status = "ACTIVE" THEN {"add"} ELSE {}
  <2>1. user[u].here /\ Request(u, r, kinds, {})
    BY <1>5 DEF RevokeSubscription
  <2>2. Sound(u, r, kinds, {}, NoHalf, {})
    BY <1>1, <2>1 DEF Sound, NoHalf, RowGone, Gone, Right, User
  <2>3. kinds \in SUBSET {"add", "adds", "remove"}
    OBVIOUS
  <2> HIDE DEF r, kinds
  <2> QED BY <2>1, <2>2, <2>3, RequestTracked
<1>6. ASSUME DeleteUser(u) PROVE Synced'
  <2> DEFINE r == [user[u] EXCEPT !.here = FALSE]
  <2>1. Request(u, r, {"remove"}, {})
    BY <1>6 DEF DeleteUser
  <2>2. Sound(u, r, {"remove"}, {}, NoHalf, {})
    BY <1>1, <2>1 DEF Sound, NoHalf, RowGone, Gone, Right, User
  <2> HIDE DEF r
  <2> QED BY <2>1, <2>2, RequestTracked
<1>7. ASSUME DisableUser(u) PROVE Synced'
  <2> DEFINE r == [user[u] EXCEPT !.status = "DISABLED"]
  <2>1. Request(u, r, {"remove"}, {})
    BY <1>7 DEF DisableUser
  <2>2. Sound(u, r, {"remove"}, {}, NoHalf, {})
    BY <1>1, <2>1 DEF Sound, NoHalf, RowGone, Gone, Right, User
  <2> HIDE DEF r
  <2> QED BY <2>1, <2>2, RequestTracked
<1>8. ASSUME EnableUser(u) \/ ExtendExpiration(u) PROVE Synced'
  <2> DEFINE r == [user[u] EXCEPT !.status = "ACTIVE"]
  <2>1. Request(u, r, {"add"}, {}) /\ user[u].here /\ Gone(u)
    BY <1>8 DEF EnableUser, ExtendExpiration, Gone
  <2>2. Sound(u, r, {"add"}, {}, NoHalf, {})
    BY <1>1, <2>1 DEF Sound, NoHalf, RowGone, Gone, Right, User
  <2> HIDE DEF r
  <2> QED BY <2>1, <2>2, RequestTracked
<1>9. ASSUME ResetTraffic(u) PROVE Synced'
  <2> DEFINE h == [half[u] EXCEPT !.does = "reset"]
  <2>1. /\ Change(u, user[u], {"add"}, {}) /\ half' = [half EXCEPT ![u] = h] /\ user[u].here
        /\ Judged(u, {})
    BY <1>9 DEF ResetTraffic, Judged
  <2>2. Sound(u, user[u], {"add"}, {}, h, {})
    BY <1>1, <2>1 DEF Sound, NoHalf, Half
  <2> HIDE DEF h
  <2> QED BY <2>1, <2>2, SoundTracked
<1>10. ASSUME NEW kind \in {"EXPIRED", "LIMITED", "ENABLED"}, Decide(u, kind)
       PROVE  Synced'
  <2> DEFINE r == [user[u] EXCEPT !.status = IF kind = "ENABLED" THEN "ACTIVE" ELSE kind]
             V == {[kind |-> kind, user |-> u]}
  <2>1. /\ Change(u, r, {}, {}) /\ half' = [half EXCEPT ![u] = half[u]] /\ user[u].here
        /\ verdict' = verdict (+) SetToBag(V)
        /\ user[u].status = IF kind = "ENABLED" THEN "LIMITED" ELSE "ACTIVE"
    BY <1>10 DEF Decide, TypeOK
  <2>2. Judged(u, {kind})
    <3>1. IsABag(SetToBag(V)) /\ DOMAIN SetToBag(V) = V
      BY SetBag
    <3> HIDE DEF V
    <3>2. IsABag(verdict) /\ verdict' = verdict (+) SetToBag(V)
      BY <2>1 DEF TypeOK
    <3>3. DOMAIN verdict' = DOMAIN verdict \cup V
      BY <3>1, <3>2, AddedBag
    <3> QED BY <3>3 DEF Judged, V
  <2>3. ~Moving(u) => Sound(u, r, {}, {kind}, half[u], {})
    <3>1. r.here = user[u].here /\ r.tags = user[u].tags
          /\ r.status = IF kind = "ENABLED" THEN "ACTIVE" ELSE kind
      BY <1>1 DEF User
    <3> HIDE DEF r
    <3> QED BY <2>1, <3>1 DEF Sound, NoHalf, RowGone, Gone, Right, Moving
  <2> HIDE DEF r
  <2> QED BY <2>1, <2>2, <2>3, SoundTracked
<1>11. ASSUME NEW t \in SUBSET Tags, NEW s \in {"same", "ACTIVE", "DISABLED"},
              NEW raised \in BOOLEAN, NEW later \in BOOLEAN, UpdateUser(u, s, raised, later, t)
       PROVE  Synced'
  BY <1>11, UpdateTracked
<1> QED
  BY <1>2, <1>3, <1>4, <1>5, <1>6, <1>7, <1>8, <1>9, <1>10, <1>11 DEF RequestStep

\* The second statement of a reset leaves an active user; that of a replacement is
\* the first thing on its way since the squads were taken.
LEMMA SecondHalfTracked ==
    ASSUME TypeOK, Halves, Synced, TypeOK', NEW u \in Users, SecondHalf(u)
    PROVE  Synced'
<1> SUFFICES ASSUME NEW n \in Nodes, NEW w \in Users PROVE Tracked(n, w)'
  BY DEF Synced
<1> USE DEF SecondHalf
<1> DEFINE kinds == IF half[u].does = "reset" THEN {} ELSE {"adds"}
           why   == IF half[u].does = "reset" THEN {"early"}
                    ELSE IF half[u].tags = {} THEN {"bare"} ELSE {}
<1>1. /\ half'[u] = NoHalf /\ (w # u => half'[w] = half[w] /\ user'[w] = user[w])
      /\ verdict' = verdict /\ job' = job /\ node' = node /\ admitted' = admitted
      /\ Excused(Because(u, why)) /\ half[u].does \in {"reset", "squads"}
  BY DEF TypeOK, Half, Halves
<1>2. DOMAIN event' = DOMAIN event \cup {NewEvent(k, u) : k \in kinds}
  <2>1. CASE half[u].does = "reset"
    BY <2>1
  <2>2. CASE half[u].does # "reset"
    <3>1. event' = Publish(kinds, u) /\ kinds \in SUBSET {"add", "adds", "remove"}
      BY <2>2
    <3> QED BY <3>1, PublishType
  <2> QED BY <2>1, <2>2
<1>3. /\ user'[u].here = user[u].here /\ user'[u].cred = user[u].cred
      /\ IF half[u].does = "reset"
         THEN user[u].here => user'[u].status = "ACTIVE"
         ELSE user'[u].status = user[u].status /\ user'[u].tags = half[u].tags
  <2>1. user \in [Users -> User]
    BY DEF TypeOK
  <2> QED BY <2>1 DEF User
<1>4. Tracked(n, w)
  BY DEF Synced
<1> HIDE DEF SecondHalf
<1>5. CASE w # u
  <2>1. \A e : e.user = w => (e \in DOMAIN event' <=> e \in DOMAIN event)
    BY <1>2, <1>5 DEF NewEvent
  <2>2. Same(n, w)
    BY <1>1, <1>5, <2>1 DEF Same, In
  <2> HIDE DEF why
  <2> QED BY <1>1, <1>4, <2>2, CarriedSame
<1>6. CASE w = u
  <2>1. ASSUME Parts(n, u) PROVE Parts(n, u)'
    <3>1. CASE half[u].does = "reset"
      BY <1>1, <1>2, <1>3, <2>1, <3>1 DEF Parts, Gone, NoHalf
    <3>2. CASE half[u].does # "reset"
      <4>1. Gone(u)' <=> Gone(u)
        BY <1>3, <3>2 DEF Gone
      <4>2. Removes(n, u) => Removes(n, u)'
        BY <1>1, <1>2 DEF Removes
      <4>3. \A e \in DOMAIN event' : e \in DOMAIN event \/ e.kind # "add"
        BY <1>2 DEF NewEvent
      <4> QED BY <1>1, <1>3, <2>1, <3>2, <4>1, <4>2, <4>3 DEF Parts, JobFor, NoHalf
    <3> QED BY <3>1, <3>2
  <2>2. ASSUME Meets(n, u), why = {} PROVE Meets(n, u)'
    <3>1. half[u].does = "squads" /\ half[u].tags # {}
      BY <1>1, <2>2
    <3>2. /\ user[u].here /\ ~In(verdict, u) /\ ~In(job, u)
          /\ Gone(u) /\ node[n].start = "none" => admitted[n][u] = NoCred
          /\ \A e \in DOMAIN event' : e.user = u => e = NewEvent("adds", u)
          /\ NewEvent("adds", u) \in DOMAIN event'
      BY <1>2, <2>2, <3>1 DEF Meets, In
    <3>3. Fits(n, u)'
      BY <1>1, <1>3, <3>1, <3>2 DEF Fits, EventFits, In, JobFor, NewEvent
    <3>4. CASE Gone(u)
      BY <1>1, <1>3, <3>1, <3>2, <3>3, <3>4 DEF Meets, Gone, Right, NoHalf
    <3>5. CASE ~Gone(u)
      <4>1. Delivers(n, u)'
        BY <1>3, <3>1, <3>2, <3>5 DEF Delivers, EventDelivers, Gone, NewEvent
      <4> QED BY <1>1, <3>3, <4>1 DEF Meets, NoHalf
    <3> QED BY <3>4, <3>5
  <2>3. Because(u, why)[n][u] = why
    BY Reason
  <2> HIDE DEF why
  <2> QED BY <1>1, <1>4, <1>6, <2>1, <2>2, <2>3, Carried
<1> QED BY <1>5, <1>6

-----------------------------------------------------------------------------
(* Handlers.                                                                 *)

\* An event gives way to the events F and the jobs J, all on the same user.
Replaced(e, F, J) ==
    /\ UNCHANGED <<user, half, verdict, node, admitted, excuse>>
    /\ \A x : x \in DOMAIN event' => x \in DOMAIN event \/ x \in F
    /\ \A x : x \in DOMAIN event /\ x # e => x \in DOMAIN event'
    /\ \A x \in F : x \in DOMAIN event' /\ x.user = e.user
    /\ DOMAIN job' = DOMAIN job \cup J
    /\ \A j \in J : j.user = e.user

\* They bring nobody back, and remove whom it was to remove.
RemovesOn(n, e, F, J) ==
    /\ \A x \in F : x.kind # "add"
    /\ \A j \in J : j.node = n => j.does = "remove"
    /\ e.kind = "remove" /\ node[n].start = "none" => \E j \in J : j.node = n

\* They fit the row, and deliver what it was to deliver.
DeliversOn(n, e, F, J) ==
    /\ \A x \in F : EventFits(n, e.user, x)
    /\ \A j \in J : j.node = n => Brings(j) = Right(n, user[e.user])
    /\ EventDelivers(n, e.user, e) /\ node[n].start = "none" =>
          (\E j \in J : j.node = n) \/ \E x \in F : EventDelivers(n, e.user, x)

LEMMA HandlerTracked ==
    ASSUME TypeOK, Synced, NEW e \in DOMAIN event, NEW F, NEW J, Replaced(e, F, J),
           \A n \in Nodes : /\ Gone(e.user) /\ e.kind # "add" => RemovesOn(n, e, F, J)
                            /\ EventFits(n, e.user, e) => DeliversOn(n, e, F, J)
    PROVE  Synced'
<1> SUFFICES ASSUME NEW n \in Nodes, NEW w \in Users PROVE Tracked(n, w)'
  BY DEF Synced
<1>1. Tracked(n, w)
  BY DEF Synced
<1>2. CASE w # e.user
  <2>1. Same(n, w)
    BY <1>2 DEF Replaced, Same, JobFor, In
  <2> QED BY <1>1, <2>1, CarriedSame DEF Replaced
<1>3. ASSUME w = e.user, Parts(n, w) PROVE Parts(n, w)'
  <2>1. Gone(w)' <=> Gone(w)
    BY DEF Replaced, Gone
  <2>2. ASSUME Gone(w), half[w].does # "reset"
        PROVE  /\ RemovesOn(n, e, F, J)
               /\ \A x \in DOMAIN event' : x.user = w => x.kind # "add"
               /\ \A j \in DOMAIN job' : JobFor(n, w, j) => j.does = "remove"
    <3>1. RemovesOn(n, e, F, J)
      BY <1>3, <2>2 DEF Parts
    <3> QED BY <1>3, <2>2, <3>1 DEF Parts, RemovesOn, Replaced, JobFor
  <2>3. ASSUME Removes(n, w), RemovesOn(n, e, F, J), node[n].start = "none"
        PROVE  Removes(n, w)'
    BY <1>3, <2>3 DEF Removes, RemovesOn, Replaced, JobFor
  <2> QED BY <1>3, <2>1, <2>2, <2>3 DEF Parts, Replaced
<1>4. ASSUME w = e.user, Meets(n, w) PROVE Meets(n, w)'
  <2>1. half[w].does # "squads"
    BY <1>4 DEF Meets, In
  <2>2. ASSUME half[w] = NoHalf
        PROVE  /\ Fits(n, w)'
               /\ node'[n].start = "none" /\ admitted'[n][w] # Right(n, user[w])' =>
                     Delivers(n, w)'
    <3>1. /\ Fits(n, w)
          /\ node[n].start = "none" /\ admitted[n][w] # Right(n, user[w]) => Delivers(n, w)
      BY <1>4, <2>2 DEF Meets
    <3>2. DeliversOn(n, e, F, J)
      BY <1>4, <3>1 DEF Fits
    <3>3. Right(n, user[w])' = Right(n, user[w])
      BY DEF Replaced, Right
    <3>4. \A x : (EventFits(n, w, x)' <=> EventFits(n, w, x))
                 /\ (EventDelivers(n, w, x)' <=> EventDelivers(n, w, x))
      BY <3>3 DEF Replaced, EventFits, EventDelivers
    <3>5. Fits(n, w)'
      BY <1>4, <3>1, <3>2, <3>3, <3>4 DEF Fits, DeliversOn, Replaced, JobFor
    <3>6. ASSUME Delivers(n, w), node[n].start = "none" PROVE Delivers(n, w)'
      <4>1. CASE \E x \in DOMAIN event : x.user = w /\ EventDelivers(n, w, x)
        BY <1>4, <3>2, <3>4, <3>6, <4>1 DEF DeliversOn, Delivers, Replaced, JobFor
      <4> QED BY <3>6, <4>1 DEF Delivers, Replaced, JobFor
    <3> QED BY <3>1, <3>3, <3>5, <3>6 DEF Replaced
  <2> QED BY <2>1, <2>2 DEF Meets, Replaced
<1> QED BY <1>1, <1>2, <1>3, <1>4 DEF Tracked, Replaced

\* What becomes of the bags.
LEMMA EventsReplaced ==
    ASSUME TypeOK, NEW e \in DOMAIN event, NEW F,
           event' = event (-) SetToBag({e}) (+) SetToBag(F)
    PROVE  /\ \A x : x \in DOMAIN event' => x \in DOMAIN event \/ x \in F
           /\ \A x : x \in DOMAIN event /\ x # e => x \in DOMAIN event'
           /\ \A x \in F : x \in DOMAIN event'
<1> DEFINE D == event (-) SetToBag({e})
<1>1. /\ IsABag(D) /\ DOMAIN D \subseteq DOMAIN event
      /\ \A x \in DOMAIN event : x # e => x \in DOMAIN D
  BY TakenBag DEF TypeOK
<1> HIDE DEF D
<1>2. IsABag(SetToBag(F)) /\ DOMAIN SetToBag(F) = F
  BY SetBag
<1>3. DOMAIN (D (+) SetToBag(F)) = DOMAIN D \cup F
  BY <1>1, <1>2, AddedBag
<1> QED BY <1>1, <1>3 DEF D

LEMMA EventTaken ==
    ASSUME TypeOK, NEW e \in DOMAIN event, event' = event (-) SetToBag({e})
    PROVE  /\ \A x : x \in DOMAIN event' => x \in DOMAIN event
           /\ \A x : x \in DOMAIN event /\ x # e => x \in DOMAIN event'
BY TakenBag DEF TypeOK

LEMMA JobsAdded ==
    ASSUME TypeOK, NEW J, job' = job (+) SetToBag(J)
    PROVE  DOMAIN job' = DOMAIN job \cup J
<1>1. IsABag(SetToBag(J)) /\ DOMAIN SetToBag(J) = J
  BY SetBag
<1>2. IsABag(job)
  BY DEF TypeOK
<1> QED BY <1>1, <1>2, AddedBag

\* A node that is not about to be started is connected, and not connecting.
LEMMA Idle ==
    ASSUME TypeOK, Starts, NEW n \in Nodes, node[n].start = "none"
    PROVE  n \in Connected /\ n \in ConnectedAtLeast
BY DEF Starts, Connected, ConnectedAtLeast

LEMMA SyncBrings ==
    ASSUME NEW n \in Nodes, NEW u, user[u].here, user[u].status = "ACTIVE"
    PROVE  Brings(Sync(n, u, user[u].tags, user[u].cred)) = Right(n, user[u])
BY DEF Brings, Sync, Right

LEMMA ReadUserTracked ==
    ASSUME TypeOK, Starts, Synced, NEW e \in DOMAIN event, ReadUser(e)
    PROVE  Synced'
<1> DEFINE u == user[e.user]
           f == [e EXCEPT !.read = TRUE, !.tags = u.tags, !.cred = u.cred]
           F == IF u.here /\ u.tags # {} THEN {f} ELSE {}
<1>1. e \in Event
  BY DEF TypeOK
<1>2. f.kind = e.kind /\ f.user = e.user /\ f.read /\ f.tags = u.tags /\ f.cred = u.cred
  BY <1>1 DEF Event
<1>3. event' = event (-) SetToBag({e}) (+) SetToBag(F) /\ e.kind = "add"
  BY DEF ReadUser, EmptyBag
<1>4. Replaced(e, F, {})
  <2>1. \A x \in F : x.user = e.user
    BY <1>2
  <2> HIDE DEF F
  <2> QED BY <1>3, <2>1, EventsReplaced DEF Replaced, ReadUser
<1>5. ASSUME NEW n \in Nodes, EventFits(n, e.user, e)
      PROVE  DeliversOn(n, e, F, {})
  BY <1>2, <1>3, <1>5 DEF DeliversOn, EventFits, EventDelivers
<1> HIDE DEF F
<1> QED BY <1>3, <1>4, <1>5, HandlerTracked

LEMMA AddUserTracked ==
    ASSUME TypeOK, Starts, Synced, NEW e \in DOMAIN event, AddUserToNode(e)
    PROVE  Synced'
<1> DEFINE J == {Sync(n, e.user, e.tags, e.cred) : n \in Connected}
<1>1. e.kind = "add" /\ e.read
  BY DEF AddUserToNode
<1>2. Replaced(e, {}, J)
  <2>1. \A j \in J : j.user = e.user
    BY DEF Sync
  <2>2. event' = event (-) SetToBag({e}) /\ job' = job (+) SetToBag(J)
    BY DEF AddUserToNode
  <2> HIDE DEF J
  <2> QED BY <2>1, <2>2, EventTaken, JobsAdded DEF Replaced, AddUserToNode
<1>3. ASSUME NEW n \in Nodes, EventFits(n, e.user, e)
      PROVE  DeliversOn(n, e, {}, J)
  <2>1. /\ user[e.user].here /\ user[e.user].status = "ACTIVE"
        /\ e.tags = user[e.user].tags /\ e.cred = user[e.user].cred
    BY <1>1, <1>3 DEF EventFits
  <2>2. \A j \in J : j.node = n => Brings(j) = Right(n, user[e.user])
    BY <2>1, SyncBrings DEF Sync
  <2>3. node[n].start = "none" => \E j \in J : j.node = n
    <3>1. n \in Connected => Sync(n, e.user, e.tags, e.cred) \in J
      OBVIOUS
    <3>2. Sync(n, e.user, e.tags, e.cred).node = n
      BY DEF Sync
    <3> HIDE DEF J
    <3> QED BY <3>1, <3>2, Idle
  <2> QED BY <2>2, <2>3 DEF DeliversOn
<1> HIDE DEF J
<1> QED BY <1>1, <1>2, <1>3, HandlerTracked

LEMMA ReadNodesTracked ==
    ASSUME TypeOK, Starts, Synced, NEW e \in DOMAIN event, ReadNodes(e)
    PROVE  Synced'
<1> DEFINE f == [e EXCEPT !.read = TRUE, !.nodes = Connected]
           F == IF Connected # {} THEN {f} ELSE {}
<1>1. e \in Event
  BY DEF TypeOK
<1>2. f.kind = e.kind /\ f.user = e.user /\ f.nodes = Connected
  BY <1>1 DEF Event
<1>3. event' = event (-) SetToBag({e}) (+) SetToBag(F) /\ e.kind = "adds"
  BY DEF ReadNodes, EmptyBag
<1>4. Replaced(e, F, {})
  <2>1. \A x \in F : x.user = e.user
    BY <1>2
  <2> HIDE DEF F
  <2> QED BY <1>3, <2>1, EventsReplaced DEF Replaced, ReadNodes
<1>5. ASSUME NEW n \in Nodes
      PROVE  /\ RemovesOn(n, e, F, {})
             /\ EventFits(n, e.user, e) => DeliversOn(n, e, F, {})
  <2>1. node[n].start = "none" => F = {f} /\ n \in f.nodes
    BY <1>2, Idle
  <2>2. \A x \in F : x = f
    OBVIOUS
  <2> HIDE DEF F, f
  <2> QED BY <1>2, <1>3, <2>1, <2>2 DEF RemovesOn, DeliversOn, EventFits, EventDelivers
<1> HIDE DEF F
<1> QED BY <1>4, <1>5, HandlerTracked

LEMMA AddUsersTracked ==
    ASSUME TypeOK, Starts, Synced, NEW e \in DOMAIN event, AddUsersToNode(e)
    PROVE  Synced'
<1> DEFINE u == user[e.user]
           J == IF u.here /\ u.status = "ACTIVE" /\ u.tags # {}
                THEN {Sync(n, e.user, u.tags, u.cred) : n \in e.nodes} ELSE {}
<1>1. e.kind = "adds" /\ e.read
  BY DEF AddUsersToNode
<1>2. Replaced(e, {}, J)
  <2>1. \A j \in J : j.user = e.user
    BY DEF Sync
  <2>2. DOMAIN job' = DOMAIN job \cup J
    <3>1. CASE u.here /\ u.status = "ACTIVE" /\ u.tags # {}
      <4>1. job' = job (+) SetToBag(J)
        BY <3>1 DEF AddUsersToNode
      <4> HIDE DEF J
      <4> QED BY <4>1, JobsAdded
    <3>2. CASE ~(u.here /\ u.status = "ACTIVE" /\ u.tags # {})
      BY <3>2 DEF AddUsersToNode
    <3> QED BY <3>1, <3>2
  <2>3. event' = event (-) SetToBag({e})
    BY DEF AddUsersToNode
  <2> HIDE DEF J
  <2> QED BY <2>1, <2>2, <2>3, EventTaken DEF Replaced, AddUsersToNode
<1>3. ASSUME NEW n \in Nodes, Gone(e.user)
      PROVE  RemovesOn(n, e, {}, J)
  BY <1>1, <1>3 DEF RemovesOn, Gone
<1>4. ASSUME NEW n \in Nodes, EventFits(n, e.user, e)
      PROVE  DeliversOn(n, e, {}, J)
  <2>1. \A j \in J : j.node = n => Brings(j) = Right(n, u)
    BY SyncBrings DEF Sync
  <2>2. EventDelivers(n, e.user, e) => \E j \in J : j.node = n
    <3>1. EventDelivers(n, e.user, e) => Sync(n, e.user, u.tags, u.cred) \in J
      BY <1>1, <1>4 DEF EventDelivers, EventFits
    <3>2. Sync(n, e.user, u.tags, u.cred).node = n
      BY DEF Sync
    <3> HIDE DEF J
    <3> QED BY <3>1, <3>2
  <2> QED BY <2>1, <2>2 DEF DeliversOn
<1> HIDE DEF J
<1> QED BY <1>2, <1>3, <1>4, HandlerTracked

LEMMA RemoveUserTracked ==
    ASSUME TypeOK, Starts, Synced, NEW e \in DOMAIN event, RemoveUserFromNode(e)
    PROVE  Synced'
<1> DEFINE J == {[does |-> "remove", node |-> n, user |-> e.user, cred |-> 0] :
                    n \in ConnectedAtLeast}
<1>1. Replaced(e, {}, J)
  <2>1. \A j \in J : j.user = e.user
    OBVIOUS
  <2>2. event' = event (-) SetToBag({e}) /\ job' = job (+) SetToBag(J)
    BY DEF RemoveUserFromNode
  <2> HIDE DEF J
  <2> QED BY <2>1, <2>2, EventTaken, JobsAdded DEF Replaced, RemoveUserFromNode
<1>2. ASSUME NEW n \in Nodes
      PROVE  /\ RemovesOn(n, e, {}, J)
             /\ EventFits(n, e.user, e) => DeliversOn(n, e, {}, J)
  <2>1. node[n].start = "none" => \E j \in J : j.node = n
    <3> DEFINE j == [does |-> "remove", node |-> n, user |-> e.user, cred |-> 0]
    <3>1. (n \in ConnectedAtLeast => j \in J) /\ j.node = n
      OBVIOUS
    <3> HIDE DEF j, J
    <3> QED BY <3>1, Idle
  <2>2. \A j \in J : j.does = "remove" /\ Brings(j) = NoCred
    BY DEF Brings
  <2>3. e.kind = "remove"
    BY DEF RemoveUserFromNode
  <2> QED BY <2>1, <2>2, <2>3 DEF RemovesOn, DeliversOn, EventFits
<1> HIDE DEF J
<1> QED BY <1>1, <1>2, HandlerTracked

\* A verdict becomes the event its kind asks for: the user is still here.
LEMMA UserEventTracked ==
    ASSUME TypeOK, Synced, NEW v \in DOMAIN verdict, UserEventJob(v)
    PROVE  Synced'
<1> SUFFICES ASSUME NEW n \in Nodes, NEW w \in Users PROVE Tracked(n, w)'
  BY DEF Synced
<1> DEFINE kind  == IF v.kind = "ENABLED" THEN "add" ELSE "remove"
           fresh == NewEvent(kind, v.user)
<1>1. /\ \A x : x \in DOMAIN verdict' => x \in DOMAIN verdict
      /\ \A x : x \in DOMAIN verdict /\ x # v => x \in DOMAIN verdict'
  BY TakenBag DEF UserEventJob, TypeOK
<1>2. v.user \in Users
  BY DEF TypeOK, Verdict
<1>3. DOMAIN event' = IF user[v.user].here THEN DOMAIN event \cup {fresh} ELSE DOMAIN event
  <2>1. {kind} \in SUBSET {"add", "adds", "remove"}
    OBVIOUS
  <2>2. user[v.user].here => event' = Publish({kind}, v.user)
    BY DEF UserEventJob
  <2> HIDE DEF kind
  <2>3. user[v.user].here =>
          DOMAIN event' = DOMAIN event \cup {NewEvent(k, v.user) : k \in {kind}}
    BY <1>2, <2>1, <2>2, PublishType
  <2>4. ~user[v.user].here => event' = event
    BY DEF UserEventJob
  <2> QED BY <2>3, <2>4
<1>4. fresh.user = v.user /\ fresh.kind = kind /\ ~fresh.read
  BY DEF NewEvent
<1>5. UNCHANGED <<user, half, job, node, admitted, excuse>> /\ Tracked(n, w)
  BY DEF UserEventJob, Synced
<1> HIDE DEF fresh
<1>6. CASE w # v.user
  <2>1. Same(n, w)
    BY <1>1, <1>3, <1>4, <1>5, <1>6 DEF Same, In
  <2> QED BY <1>5, <2>1, CarriedSame
<1>7. ASSUME w = v.user, Parts(n, w) PROVE Parts(n, w)'
  <2>1. user[w].here /\ (v.kind = "ENABLED" => user[w].status = "ACTIVE")
    BY <1>7 DEF Parts
  <2>2. Removes(n, w) => Removes(n, w)'
    <3>1. CASE v.kind = "ENABLED"
      BY <1>1, <1>3, <1>5, <3>1 DEF Removes, JobFor
    <3>2. CASE v.kind # "ENABLED"
      BY <1>3, <1>4, <1>7, <2>1, <3>2 DEF Removes
    <3> QED BY <3>1, <3>2
  <2>3. Gone(w)' => \A e \in DOMAIN event' : e \in DOMAIN event \/ e.kind # "add"
    BY <1>3, <1>4, <1>5, <2>1 DEF Gone
  <2>4. Gone(w)' <=> Gone(w)
    BY <1>5 DEF Gone
  <2> QED BY <1>1, <1>5, <1>7, <2>2, <2>3, <2>4 DEF Parts, JobFor
<1>8. ASSUME w = v.user, Meets(n, w) PROVE Meets(n, w)'
  <2>1. half[w].does # "squads"
    BY <1>8 DEF Meets, In
  <2>2. ASSUME half[w] = NoHalf
        PROVE  Fits(n, w)' /\ (Delivers(n, w) => Delivers(n, w)')
    <3>1. /\ Fits(n, w) /\ user[w].here
          /\ v.kind = "ENABLED" <=> user[w].status = "ACTIVE"
      BY <1>8, <2>2 DEF Meets, Fits
    <3>2. EventFits(n, w, fresh)
      BY <1>4, <3>1 DEF EventFits, Right
    <3>3. (v.kind = "ENABLED" => user[w].tags # {}) => EventDelivers(n, w, fresh)
      BY <1>4 DEF EventDelivers
    <3>4. \A x : (EventFits(n, w, x)' <=> EventFits(n, w, x))
                 /\ (EventDelivers(n, w, x)' <=> EventDelivers(n, w, x))
      BY <1>5 DEF EventFits, EventDelivers, Right
    <3>5. Fits(n, w)'
      BY <1>1, <1>3, <1>5, <3>1, <3>2, <3>4 DEF Fits, JobFor, Right
    <3>6. ASSUME Delivers(n, w) PROVE Delivers(n, w)'
      BY <1>1, <1>3, <1>4, <1>5, <1>8, <3>1, <3>3, <3>4, <3>6 DEF Delivers, JobFor
    <3> QED BY <3>5, <3>6
  <2> QED BY <1>5, <1>8, <2>1, <2>2 DEF Meets, Right
<1> QED BY <1>5, <1>6, <1>7, <1>8 DEF Tracked

-----------------------------------------------------------------------------
(* What is lost, and the jobs.                                               *)

\* When something on its way for u is lost, there is a reason for every node.
LEMMA LostTracked ==
    ASSUME TypeOK, Synced, NEW u \in Users, Excused(Because(u, {"lost"})),
           \A n \in Nodes, w \in Users : w # u => Same(n, w)
    PROVE  Synced'
<1> SUFFICES ASSUME NEW n \in Nodes, NEW w \in Users PROVE Tracked(n, w)'
  BY DEF Synced
<1>1. Tracked(n, w)
  BY DEF Synced
<1>2. CASE w = u
  <2>1. Because(u, {"lost"})[n][w] = {"lost"}
    BY <1>2, Reason
  <2> QED BY <1>1, <2>1, Carried DEF Grave
<1>3. CASE w # u
  BY <1>1, <1>3, CarriedSame
<1> QED BY <1>2, <1>3

LEMMA EventLostTracked ==
    ASSUME TypeOK, Synced, NEW e \in DOMAIN event, EventLost(e)
    PROVE  Synced'
<1>1. e.user \in Users
  BY DEF TypeOK, Event
<1>2. ASSUME NEW n \in Nodes, NEW w \in Users, w # e.user PROVE Same(n, w)
  <2>1. event' = event (-) SetToBag({e})
    BY DEF EventLost
  <2> QED BY <1>2, <2>1, EventTaken DEF EventLost, Same, In
<1> QED BY <1>1, <1>2, LostTracked DEF EventLost

LEMMA JobTaken ==
    ASSUME TypeOK, NEW j \in DOMAIN job, job' = job (-) SetToBag({j})
    PROVE  /\ \A x : x \in DOMAIN job' => x \in DOMAIN job
           /\ \A x : x \in DOMAIN job /\ x # j => x \in DOMAIN job'
BY TakenBag DEF TypeOK

LEMMA JobFailsTracked ==
    ASSUME TypeOK, Synced, NEW j \in DOMAIN job, JobFails(j)
    PROVE  Synced'
<1>1. j.user \in Users
  BY DEF TypeOK, Job
<1>2. ASSUME NEW n \in Nodes, NEW w \in Users, w # j.user PROVE Same(n, w)
  <2>1. job' = job (-) SetToBag({j})
    BY DEF JobFails
  <2> QED BY <1>2, <2>1, JobTaken DEF JobFails, Same, In, JobFor
<1> QED BY <1>1, <1>2, LostTracked DEF JobFails

\* A job that runs gives its node what the node should have.
LEMMA JobRunsTracked ==
    ASSUME TypeOK, Synced, NEW j \in DOMAIN job, JobRuns(j)
    PROVE  Synced'
<1> SUFFICES ASSUME NEW n \in Nodes, NEW w \in Users PROVE Tracked(n, w)'
  BY DEF Synced
<1>1. /\ \A x : x \in DOMAIN job' => x \in DOMAIN job
      /\ \A x : x \in DOMAIN job /\ x # j => x \in DOMAIN job'
  BY JobTaken DEF JobRuns
<1>2. /\ UNCHANGED <<user, half, event, verdict, node>> /\ Excused(NoReason)
      /\ Tracked(n, w) /\ NoReason[n][w] = {}
  BY DEF JobRuns, Synced, NoReason
<1>3. admitted'[n][w] = IF JobFor(n, w, j) THEN Brings(j) ELSE admitted[n][w]
  BY DEF JobRuns, TypeOK, JobFor, Brings
<1>4. CASE ~JobFor(n, w, j)
  <2>1. Same(n, w)
    BY <1>1, <1>2, <1>3, <1>4 DEF Same, In, JobFor
  <2> QED BY <1>2, <2>1, CarriedSame
<1>5. CASE JobFor(n, w, j)
  <2>1. ASSUME Parts(n, w) PROVE Parts(n, w)'
    <3>1. Gone(w)' <=> Gone(w)
      BY <1>2 DEF Gone
    <3>2. Gone(w) /\ half[w].does # "reset" => Brings(j) = NoCred
      BY <1>5, <2>1 DEF Parts, Brings
    <3> QED BY <1>1, <1>2, <1>3, <1>5, <2>1, <3>1, <3>2 DEF Parts, JobFor
  <2>2. ASSUME Meets(n, w) PROVE Meets(n, w)'
    <3>1. half[w].does # "squads"
      BY <1>5, <2>2 DEF Meets, In, JobFor
    <3>2. ASSUME half[w] = NoHalf
          PROVE  Brings(j) = Right(n, user[w]) /\ Fits(n, w)'
      <4>1. Fits(n, w)
        BY <2>2, <3>2 DEF Meets
      <4> QED BY <1>1, <1>2, <1>5, <4>1 DEF Fits, EventFits, JobFor, Right
    <3> QED BY <1>2, <1>3, <1>5, <3>1, <3>2 DEF Meets, Right
  <2> QED BY <1>2, <2>1, <2>2, Carried
<1> QED BY <1>4, <1>5

-----------------------------------------------------------------------------
(* Starts.                                                                   *)

\* A start that sends what it has read gives the node what it should have, or
\* there is a reason.
LEMMA StartXrayTracked ==
    ASSUME TypeOK, Synced, NEW m \in Nodes, StartXray(m)
    PROVE  Synced'
<1> SUFFICES ASSUME NEW n \in Nodes, NEW w \in Users PROVE Tracked(n, w)'
  BY DEF Synced
<1> DEFINE why == [NoReason EXCEPT ![m] =
                      [u \in Users |-> IF node[m].users[u] # Wanted(m, user)[u]
                                       THEN {"stale"} ELSE {}]]
<1>1. /\ UNCHANGED <<user, half, event, verdict, job>> /\ Excused(why)
      /\ Tracked(n, w)
  BY DEF StartXray, Synced
<1>2. why[n][w] = IF n = m /\ node[m].users[w] # Right(m, user[w]) THEN {"stale"} ELSE {}
  BY WantedRight DEF NoReason
<1>3. /\ n # m => node'[n] = node[n] /\ admitted'[n] = admitted[n]
      /\ n = m => admitted'[n][w] = node[m].users[w]
  BY DEF StartXray, TypeOK
<1> HIDE DEF why
<1>4. CASE n # m
  <2>1. Same(n, w)
    BY <1>1, <1>3, <1>4 DEF Same, In
  <2> QED BY <1>1, <2>1, CarriedSame
<1>5. CASE n = m
  <2>1. ASSUME why[n][w] \cap Grave = {} PROVE admitted'[n][w] = Right(n, user[w])
    BY <1>2, <1>3, <1>5, <2>1 DEF Grave
  <2>2. ASSUME Parts(n, w), admitted'[n][w] = Right(n, user[w]) PROVE Parts(n, w)'
    BY <1>1, <2>2 DEF Parts, Gone, Right, JobFor
  <2>3. ASSUME Meets(n, w), admitted'[n][w] = Right(n, user[w]) PROVE Meets(n, w)'
    BY <1>1, <2>3 DEF Meets, Fits, EventFits, Gone, Right, JobFor, In
  <2> QED BY <1>1, <2>1, <2>2, <2>3, Carried
<1> QED BY <1>4, <1>5

LEMMA NodeStepTracked ==
    ASSUME TypeOK, Synced, NEW m \in Nodes, NodeStep(m)
    PROVE  Synced'
<1>1. CASE StartXray(m)
  BY <1>1, StartXrayTracked
<1>2. CASE ~StartXray(m)
  <2> SUFFICES ASSUME NEW n \in Nodes, NEW w \in Users PROVE Tracked(n, w)'
    BY DEF Synced
  <2>1. UNCHANGED <<user, half, event, verdict, job, admitted, excuse>>
    BY <1>2 DEF NodeStep, Restart, StartBegin, PrepareConfig, StartRefused
  <2>2. node'[n].start = "none" => node[n].start = "none"
    <3>1. \A k \in Nodes : node[k] \in Node
      BY DEF TypeOK
    <3>2. n # m => node'[n] = node[n]
      BY <1>2 DEF NodeStep, Restart, StartBegin, PrepareConfig, StartRefused, TypeOK
    <3>3. node'[m].start # "none"
      BY <1>2, <3>1 DEF NodeStep, Restart, StartBegin, PrepareConfig, StartRefused, TypeOK, Node
    <3> QED BY <3>2, <3>3
  <2>3. Same(n, w) /\ Tracked(n, w)
    BY <2>1, <2>2 DEF Same, In, Synced
  <2> QED BY <2>1, <2>3, CarriedSame
<1> QED BY <1>1, <1>2

LEMMA StartsStep ==
    ASSUME TypeOK, Starts, [Next]_vars
    PROVE  Starts'
<1>1. CASE node' = node
  BY <1>1 DEF Starts
<1>2. ASSUME NEW m \in Nodes, NodeStep(m) PROVE Starts'
  <2>1. \A n \in Nodes : node[n] \in Node
    BY DEF TypeOK
  <2>2. \A n \in Nodes : n # m => node'[n] = node[n]
    BY <1>2 DEF NodeStep, Restart, StartBegin, PrepareConfig, StartXray, StartRefused, TypeOK
  <2>3. /\ node'[m].connected \/ node'[m].start # "none"
        /\ node'[m].connecting => node'[m].start \in {"begun", "read"}
    <3>1. node[m] \in Node /\ (node[m].connected \/ node[m].start # "none")
          /\ (node[m].connecting => node[m].start \in {"begun", "read"})
      BY <2>1 DEF Starts
    <3>2. \E r : node' = [node EXCEPT ![m] = r] /\
             /\ r.connected \/ r.start # "none"
             /\ r.connecting => r.start \in {"begun", "read"}
      <4>1. ASSUME NEW lost \in BOOLEAN, Restart(m, lost)
            PROVE  \E r : node' = [node EXCEPT ![m] = r] /\ r.start = "waiting" /\ ~r.connecting
        <5> DEFINE r == [node[m] EXCEPT !.start = "waiting", !.connected = @ /\ ~lost]
        <5>1. r.start = "waiting" /\ ~r.connecting
          BY <3>1, <4>1 DEF Restart, Node
        <5>2. node' = [node EXCEPT ![m] = r]
          BY <4>1 DEF Restart, TypeOK
        <5> HIDE DEF r
        <5> QED BY <5>1, <5>2
      <4>2. CASE StartBegin(m)
        <5> DEFINE r == [node[m] EXCEPT !.start = "begun", !.connecting = TRUE]
        <5>1. r.start = "begun"
          BY <3>1 DEF Node
        <5>2. node' = [node EXCEPT ![m] = r]
          BY <4>2 DEF StartBegin, TypeOK
        <5> HIDE DEF r
        <5> QED BY <5>1, <5>2
      <4>3. CASE PrepareConfig(m)
        <5> DEFINE r == [node[m] EXCEPT !.start = "read", !.users = Wanted(m, user)]
        <5>1. r.start = "read"
          BY <3>1 DEF Node
        <5>2. node' = [node EXCEPT ![m] = r]
          BY <4>3 DEF PrepareConfig, TypeOK
        <5> HIDE DEF r
        <5> QED BY <5>1, <5>2
      <4>4. CASE StartXray(m) \/ StartRefused(m)
        BY <4>4 DEF StartXray, StartRefused
      <4> QED BY <1>2, <4>1, <4>2, <4>3, <4>4 DEF NodeStep
    <3> QED BY <3>2 DEF TypeOK
  <2> QED BY <2>2, <2>3 DEF Starts
<1>3. ASSUME NEW u \in Users, RequestStep(u) PROVE node' = node
  <2>1. SecondHalf(u) => node' = node
    BY DEF SecondHalf
  <2>2. \A r, kinds, why : Change(u, r, kinds, why) => node' = node
    BY DEF Change
  <2>3. \A r, kinds, why : Request(u, r, kinds, why) => node' = node
    BY <2>2 DEF Request
  <2>4. \A s, t : CreateUser(u, s, t) => node' = node
    BY <2>3 DEF CreateUser
  <2>5. \A s, raised, later, t : UpdateUser(u, s, raised, later, t) => node' = node
    BY <2>3 DEF UpdateUser
  <2>6. \A t : ChangeSquads(u, t) \/ ReplaceSquads(u, t) => node' = node
    BY <2>2, <2>3 DEF ChangeSquads, ReplaceSquads
  <2>7. RevokeSubscription(u) \/ DeleteUser(u) \/ DisableUser(u) \/ EnableUser(u)
          \/ ExtendExpiration(u) => node' = node
    BY <2>3 DEF RevokeSubscription, DeleteUser, DisableUser, EnableUser, ExtendExpiration
  <2>8. ResetTraffic(u) \/ (\E kind : Decide(u, kind)) => node' = node
    BY <2>2 DEF ResetTraffic, Decide
  <2> QED BY <1>3, <2>1, <2>4, <2>5, <2>6, <2>7, <2>8 DEF RequestStep
<1>4. CASE EventStep
  BY <1>1, <1>4 DEF EventStep, UserEventJob, ReadUser, AddUserToNode, ReadNodes,
     AddUsersToNode, RemoveUserFromNode, EventLost, JobRuns, JobFails
<1> QED BY <1>1, <1>2, <1>3, <1>4 DEF Next, vars

LEMMA HalvesStep ==
    ASSUME TypeOK, Halves, [Next]_vars
    PROVE  Halves'
<1>1. CASE half' = half
  BY <1>1 DEF Halves
<1>2. ASSUME NEW u \in Users, RequestStep(u) PROVE Halves'
  <2>1. half[u] \in Half
    BY DEF TypeOK
  <2>2. \A r, kinds, why : Request(u, r, kinds, why) => half' = half
    BY DEF Request
  <2>3. \A s, t : CreateUser(u, s, t) => half' = half
    BY <2>2 DEF CreateUser
  <2>4. \A s, raised, later, t : UpdateUser(u, s, raised, later, t) => half' = half
    BY <2>2 DEF UpdateUser
  <2>5. /\ \A t : ChangeSquads(u, t) => half' = half
        /\ RevokeSubscription(u) \/ DeleteUser(u) \/ DisableUser(u) \/ EnableUser(u)
             \/ ExtendExpiration(u) => half' = half
    BY <2>2 DEF ChangeSquads, RevokeSubscription, DeleteUser, DisableUser, EnableUser,
       ExtendExpiration
  <2>6. (\E kind : Decide(u, kind)) => half' = half
    BY DEF Decide
  <2>7. ResetTraffic(u) \/ SecondHalf(u) \/ (\E t \in SUBSET Tags : ReplaceSquads(u, t)) =>
          \E h : /\ half' = [half EXCEPT ![u] = h]
                 /\ h = NoHalf \/ h.does \in {"reset", "squads"}
    BY <2>1 DEF ResetTraffic, SecondHalf, ReplaceSquads, Half
  <2>8. \/ half' = half
        \/ \E h : /\ half' = [half EXCEPT ![u] = h]
                  /\ h = NoHalf \/ h.does \in {"reset", "squads"}
    BY <1>2, <2>3, <2>4, <2>5, <2>6, <2>7 DEF RequestStep
  <2> QED BY <2>8 DEF Halves, TypeOK
<1>3. CASE EventStep
  BY <1>1, <1>3 DEF EventStep, UserEventJob, ReadUser, AddUserToNode, ReadNodes,
     AddUsersToNode, RemoveUserFromNode, EventLost, JobRuns, JobFails
<1>4. ASSUME NEW m \in Nodes, NodeStep(m) PROVE half' = half
  BY <1>4 DEF NodeStep, Restart, StartBegin, PrepareConfig, StartXray, StartRefused
<1> QED BY <1>1, <1>2, <1>3, <1>4 DEF Next, vars

-----------------------------------------------------------------------------
(* The theorems.                                                             *)

IInv == TypeOK /\ Starts /\ Halves /\ Synced

LEMMA InitInvariant == Init => IInv
<1> SUFFICES ASSUME Init PROVE IInv
  OBVIOUS
<1>1. DOMAIN event = {} /\ DOMAIN verdict = {} /\ DOMAIN job = {}
  BY NoBag DEF Init
<1>2. Starts /\ Halves
  BY DEF Init, Starts, Halves
<1>3. ASSUME NEW n \in Nodes, NEW u \in Users PROVE Tracked(n, u)
  BY <1>1 DEF Init, Tracked, Parts, Meets, Fits, NoHalf
<1> QED BY <1>2, <1>3, InitTypeOK DEF IInv, Synced

LEMMA NextInvariant == IInv /\ [Next]_vars => IInv'
<1> SUFFICES ASSUME TypeOK, Starts, Halves, Synced, [Next]_vars PROVE IInv'
  BY DEF IInv
<1>1. TypeOK' /\ Starts' /\ Halves'
  BY NextTypeOK, StartsStep, HalvesStep
<1>2. ASSUME NEW u \in Users, RequestStep(u) PROVE Synced'
  BY <1>1, <1>2, RequestStepTracked, SecondHalfTracked
<1>3. ASSUME EventStep PROVE Synced'
  <2>1. ASSUME NEW v \in DOMAIN verdict, UserEventJob(v) PROVE Synced'
    BY <2>1, UserEventTracked
  <2>2. ASSUME NEW e \in DOMAIN event,
               \/ ReadUser(e) \/ AddUserToNode(e) \/ ReadNodes(e) \/ AddUsersToNode(e)
               \/ RemoveUserFromNode(e) \/ EventLost(e)
        PROVE  Synced'
    BY <2>2, ReadUserTracked, AddUserTracked, ReadNodesTracked, AddUsersTracked,
       RemoveUserTracked, EventLostTracked
  <2>3. ASSUME NEW j \in DOMAIN job, JobRuns(j) \/ JobFails(j) PROVE Synced'
    BY <2>3, JobRunsTracked, JobFailsTracked
  <2> QED BY <1>3, <2>1, <2>2, <2>3 DEF EventStep
<1>4. ASSUME NEW m \in Nodes, NodeStep(m) PROVE Synced'
  BY <1>4, NodeStepTracked
<1>5. ASSUME UNCHANGED vars PROVE Synced'
  <2>1. ASSUME NEW n \in Nodes, NEW u \in Users PROVE Tracked(n, u)'
    <3>1. Same(n, u) /\ Tracked(n, u) /\ excuse' = excuse
      BY <1>5 DEF vars, Same, In, Synced
    <3> QED BY <3>1, CarriedSame
  <2> QED BY <2>1 DEF Synced
<1>6. Synced'
  BY <1>2, <1>3, <1>4, <1>5 DEF Next
<1> QED BY <1>1, <1>6 DEF IInv

LEMMA Agreement ==
    ASSUME IInv
    PROVE  NodesAgree /\ GoneAreGone
<1> SUFFICES ASSUME NEW n \in Nodes, NEW u \in Users, Settled(n, u)
             PROVE  /\ admitted[n][u] # Wanted(n, user)[u] => excuse[n][u] # {}
                    /\ admitted[n][u] # NoCred /\ (~user[u].here \/ user[u].status # "ACTIVE")
                       => excuse[n][u] \cap {"overlap", "stale", "lost", "both"} # {}
  BY DEF IInv, NodesAgree, GoneAreGone
<1>1. /\ half[u] = NoHalf /\ node[n].start = "none" /\ Tracked(n, u)
      /\ ~Delivers(n, u) /\ ~Removes(n, u)
  BY DEF Settled, Moving, In, Delivers, Removes, JobFor, IInv, Synced
<1>2. Wanted(n, user)[u] = Right(n, user[u])
  BY WantedRight
<1>3. admitted[n][u] # Right(n, user[u]) => excuse[n][u] # {}
  BY <1>1 DEF Tracked, Meets
<1>4. admitted[n][u] # NoCred /\ Gone(u) => excuse[n][u] \cap Grave # {}
  BY <1>1 DEF Tracked, Parts, NoHalf
<1> QED BY <1>2, <1>3, <1>4 DEF Gone, Grave

\* Once everything has arrived, a connected node admits exactly the active users
\* of its inbounds, with their present credentials, unless there is one of the
\* reasons the module names; all variables keep their types.
THEOREM AgreementCorrect == Spec => []NodesAgree
BY InitInvariant, NextInvariant, Agreement, PTL DEF Spec

\* A connected node keeps a user who is gone only because requests overlapped,
\* its config was old, a call or an event was lost, or one update disabled the
\* user and moved him.
THEOREM GoneCorrect == Spec => []GoneAreGone
BY InitInvariant, NextInvariant, Agreement, PTL DEF Spec
=============================================================================
