----------------------- MODULE NodeLifecycle_proofs -----------------------
(***************************************************************************)
(* For any nodes, profiles, requests and faults, however many: the         *)
(* invariants of NodeLifecycle.                                            *)
(***************************************************************************)
EXTENDS NodeLifecycle, TLAPS

Ats == {"out", "todo", "bare", "marked", "cleared", "sent"}

-----------------------------------------------------------------------------
(* Types.                                                                    *)

\* What is noted about a node.
LEMMA InBecause ==
    ASSUME NEW why, NEW S, NEW w, NEW n
    PROVE  <<w, n>> \in Because(why, S) <=> w = why /\ n \in S
BY DEF Because

LEMMA BecauseType ==
    ASSUME NEW why \in Reasons, NEW S \in SUBSET Nodes
    PROVE  Because(why, S) \subseteq Reasons \X Nodes
BY DEF Because

LEMMA NoJobTypes ==
    /\ NoStart \in Start /\ NoStart.pc = "none"
    /\ NoCheck \in Health
    /\ NoGroup \in Group /\ NoGroup.pc = "none" /\ NoGroup.fresh = {}
    /\ NoGroup.at = [n \in Nodes |-> "out"]
<1>1. NoStart \in Start /\ NoStart.pc = "none"
  BY DEF NoStart, Start
<1>2. NoCheck \in Health
  BY DEF NoCheck, Health
<1>3. [n \in Nodes |-> "out"] \in [Nodes -> Ats]
  BY DEF Ats
<1>4. NoGroup \in Group /\ NoGroup.pc = "none" /\ NoGroup.fresh = {}
      /\ NoGroup.at = [n \in Nodes |-> "out"]
  BY <1>3 DEF NoGroup, Group, Ats
<1> QED  BY <1>1, <1>2, <1>4

LEMMA ClearedType ==
    ASSUME TypeOK, NEW n \in Nodes
    PROVE  /\ Cleared(n) \in Row
           /\ Cleared(n).disabled /\ ~Cleared(n).connecting /\ ~Cleared(n).connected
           /\ Cleared(n).profile = None
           /\ Cleared(n).here = row[n].here
           /\ Cleared(n).inbounds = row[n].inbounds
<1>1. row[n] \in Row
  BY DEF TypeOK
<1> QED  BY <1>1 DEF Cleared, Row

\* What the helpers of the queues do to each job.
LEMMA WithStartType ==
    ASSUME TypeOK, NEW S
    PROVE  /\ WithStart(S) \in [Nodes -> Start]
           /\ \A n \in Nodes :
                 /\ n \in S /\ start[n].pc = "none" => WithStart(S)[n].pc = "waiting"
                 /\ n \notin S \/ start[n].pc # "none" => WithStart(S)[n] = start[n]
<1>1. [NoStart EXCEPT !.pc = "waiting"] \in Start
      /\ [NoStart EXCEPT !.pc = "waiting"].pc = "waiting"
  BY DEF NoStart, Start
<1>2. \A n \in Nodes : start[n] \in Start
  BY DEF TypeOK
<1> QED  BY <1>1, <1>2 DEF WithStart

LEMMA WithStopType ==
    ASSUME TypeOK, NEW S
    PROVE  /\ WithStop(S) \in [Nodes -> Stop]
           /\ \A n \in Nodes :
                 /\ n \in S => WithStop(S)[n] # "none"
                 /\ n \in S /\ stop[n] # "stopped" => WithStop(S)[n] = "waiting"
                 /\ stop[n] # "none" \/ n \notin S => WithStop(S)[n] = stop[n]
BY DEF TypeOK, WithStop, Stop

LEMMA WithGroupType ==
    ASSUME TypeOK, NEW P
    PROVE  /\ WithGroup(P) \in [Profiles -> Group]
           /\ \A p \in Profiles :
                 /\ WithGroup(P)[p].at =
                       IF p \in P /\ group[p].pc = "none"
                       THEN [n \in Nodes |-> "out"] ELSE group[p].at
                 /\ WithGroup(P)[p].fresh =
                       IF p \in P /\ group[p].pc = "none" THEN {} ELSE group[p].fresh
                 /\ WithGroup(P)[p].pc =
                       IF p \in P /\ group[p].pc = "none" THEN "waiting" ELSE group[p].pc
<1> DEFINE G == [NoGroup EXCEPT !.pc = "waiting"]
<1>1. G \in Group /\ G.pc = "waiting" /\ G.fresh = {} /\ G.at = [n \in Nodes |-> "out"]
  BY NoJobTypes DEF Group
<1>2. \A p \in Profiles : group[p] \in Group
  BY DEF TypeOK
<1> HIDE DEF G
<1>3. \A p \in Profiles : WithGroup(P)[p] =
         IF p \in P /\ group[p].pc = "none" THEN G ELSE group[p]
  BY DEF WithGroup, G
<1>4. WithGroup(P) \in [Profiles -> Group]
  BY <1>1, <1>2 DEF WithGroup, G
<1> QED  BY <1>1, <1>3, <1>4

LEMMA GroupOutdatedType ==
    ASSUME NEW gr \in [Profiles -> Group], NEW S
    PROVE  /\ GroupOutdated(gr, S) \in [Profiles -> Group]
           /\ \A p \in Profiles :
                 /\ GroupOutdated(gr, S)[p].at = gr[p].at
                 /\ GroupOutdated(gr, S)[p].pc = gr[p].pc
                 /\ GroupOutdated(gr, S)[p].fresh = gr[p].fresh \ S
<1>1. \A p \in Profiles : /\ [gr[p] EXCEPT !.fresh = @ \ S] \in Group
                          /\ [gr[p] EXCEPT !.fresh = @ \ S].at = gr[p].at
                          /\ [gr[p] EXCEPT !.fresh = @ \ S].pc = gr[p].pc
                          /\ [gr[p] EXCEPT !.fresh = @ \ S].fresh = gr[p].fresh \ S
  BY DEF Group
<1> QED  BY <1>1 DEF GroupOutdated

LEMMA ConfigOutdatedType ==
    ASSUME NEW gr \in [Profiles -> Group], NEW D, NEW S
    PROVE  /\ ConfigOutdated(gr, D, S) \in [Profiles -> Group]
           /\ \A p \in Profiles :
                 /\ ConfigOutdated(gr, D, S)[p].at = gr[p].at
                 /\ ConfigOutdated(gr, D, S)[p].pc = gr[p].pc
                 /\ ConfigOutdated(gr, D, S)[p].fresh =
                       gr[p].fresh \ (IF gr[p].pc = "mark" THEN D ELSE S)
<1> DEFINE T(p) == IF gr[p].pc = "mark" THEN D ELSE S
<1>1. \A p \in Profiles : /\ [gr[p] EXCEPT !.fresh = @ \ T(p)] \in Group
                          /\ [gr[p] EXCEPT !.fresh = @ \ T(p)].at = gr[p].at
                          /\ [gr[p] EXCEPT !.fresh = @ \ T(p)].pc = gr[p].pc
                          /\ [gr[p] EXCEPT !.fresh = @ \ T(p)].fresh = gr[p].fresh \ T(p)
  <2> HIDE DEF T
  <2> QED  BY DEF Group
<1> QED  BY <1>1 DEF ConfigOutdated

LEMMA StartOutdatedType ==
    ASSUME NEW st \in [Nodes -> Start], NEW S
    PROVE  /\ StartOutdated(st, S) \in [Nodes -> Start]
           /\ \A n \in Nodes :
                 /\ StartOutdated(st, S)[n].pc = st[n].pc
                 /\ n \notin S \/ st[n].pc = "waiting" => StartOutdated(st, S)[n] = st[n]
<1>1. \A n \in Nodes : /\ [st[n] EXCEPT !.fresh = FALSE] \in Start
                       /\ [st[n] EXCEPT !.fresh = FALSE].pc = st[n].pc
  BY DEF Start
<1> QED  BY <1>1 DEF StartOutdated

LEMMA OutdatedType ==
    ASSUME TypeOK, NEW S
    PROVE  /\ Outdated(S) \in [Nodes -> Node]
           /\ \A n \in Nodes : /\ Outdated(S)[n].running = node[n].running
                               /\ n \notin S => Outdated(S)[n] = node[n]
<1>1. \A n \in Nodes : node[n] \in Node
  BY DEF TypeOK
<1>2. \A n \in Nodes : /\ [node[n] EXCEPT !.fresh = FALSE] \in Node
                       /\ [node[n] EXCEPT !.fresh = FALSE].running = node[n].running
  BY <1>1 DEF Node
<1> QED  BY <1>1, <1>2 DEF Outdated

-----------------------------------------------------------------------------
(* Every step keeps the types.                                               *)

LEMMA AskedType ==
    ASSUME TypeOK, NEW request, Asked(request)
    PROVE  left' \in [requests: 0..MaxRequests, faults: 0..MaxFaults]
BY BoundsAssumption DEF TypeOK, Asked

LEMMA FailsType ==
    ASSUME TypeOK, NEW fault, Fails(fault)
    PROVE  left' \in [requests: 0..MaxRequests, faults: 0..MaxFaults]
BY BoundsAssumption DEF TypeOK, Fails

LEMMA RunsType ==
    ASSUME TypeOK, NEW n \in Nodes, NEW fresh \in BOOLEAN, Runs(n, fresh)
    PROVE  node' \in [Nodes -> Node] /\ excuse' \subseteq Reasons \X Nodes
<1>1. node[n] \in Node
  BY DEF TypeOK
<1>2. [node[n] EXCEPT !.running = TRUE, !.fresh = fresh] \in Node
  BY <1>1 DEF Node
<1>3. node' \in [Nodes -> Node]
  BY <1>2 DEF TypeOK, Runs
<1>4. /\ {m \in {n} : fresh} \subseteq Nodes
      /\ {m \in {n} : node[n].fresh /\ ~fresh} \subseteq Nodes
      /\ {m \in {n} : row[n].here /\ row[n].disabled /\ stop[n] # "waiting"} \subseteq Nodes
  OBVIOUS
<1> QED  BY <1>3, <1>4, BecauseType DEF TypeOK, Runs, Reasons

\* The updates of a row.
LEMMA RowTypes ==
    ASSUME TypeOK, NEW n \in Nodes
    PROVE  /\ row[n] \in Row
           /\ [row[n] EXCEPT !.disabled = FALSE] \in Row
           /\ [row[n] EXCEPT !.connecting = TRUE] \in Row
           /\ [row[n] EXCEPT !.inbounds = TRUE] \in Row
           /\ [row[n] EXCEPT !.inbounds = FALSE] \in Row
           /\ [row[n] EXCEPT !.connected = TRUE, !.connecting = FALSE] \in Row
           /\ [row[n] EXCEPT !.connected = FALSE, !.connecting = FALSE] \in Row
           /\ [row[n] EXCEPT !.disabled = TRUE, !.connecting = FALSE, !.connected = FALSE]
                 \in Row
           /\ [Cleared(n) EXCEPT !.here = FALSE] \in Row
           /\ [Cleared(n) EXCEPT !.profile = IF Bare(n) THEN None ELSE row[n].profile] \in Row
           /\ \A b \in BOOLEAN : [row[n] EXCEPT !.connected = b] \in Row
           /\ \A p \in Profiles \cup {None} :
                 /\ [row[n] EXCEPT !.inbounds = TRUE, !.profile = p] \in Row
                 /\ [row[n] EXCEPT !.inbounds = FALSE, !.profile = p] \in Row
<1>1. row[n] \in Row
  BY DEF TypeOK
<1>2. Cleared(n) \in Row
  BY ClearedType
<1> QED  BY <1>1, <1>2 DEF Row

LEMMA UnconnectedType ==
    ASSUME TypeOK, NEW n \in Nodes
    PROVE  Unconnected(n) \in [Nodes -> Row]
BY RowTypes DEF Unconnected, TypeOK

\* The updates of a by-profile job.
LEMMA GroupTypes ==
    ASSUME TypeOK, NEW p \in Profiles, NEW n \in Nodes
    PROVE  /\ group[p] \in Group
           /\ \A v \in Ats : [group[p] EXCEPT !.at[n] = v] \in Group
           /\ \A v \in Ats : [group[p] EXCEPT !.at[n] = v, !.fresh = @ \ {n}] \in Group
           /\ [group[p] EXCEPT !.pc = "run"] \in Group
<1>1. group[p] \in Group
  BY DEF TypeOK
<1>2. group[p].at \in [Nodes -> Ats]
  BY <1>1 DEF Group, Ats
<1>3. \A v \in Ats : [group[p].at EXCEPT ![n] = v] \in [Nodes -> Ats]
  BY <1>2
<1>4. \A v \in Ats : [group[p] EXCEPT !.at[n] = v] \in Group
  BY <1>1, <1>3 DEF Group, Ats
<1>5. \A v \in Ats : [group[p] EXCEPT !.at[n] = v, !.fresh = @ \ {n}] \in Group
  BY <1>1, <1>3 DEF Group, Ats
<1>6. [group[p] EXCEPT !.pc = "run"] \in Group
  BY <1>1 DEF Group
<1> QED  BY <1>1, <1>4, <1>5, <1>6

LEMMA StartTypes ==
    ASSUME TypeOK, NEW n \in Nodes
    PROVE  /\ start[n] \in Start
           /\ \A v \in {"check", "send", "sent"} : [start[n] EXCEPT !.pc = v] \in Start
           /\ [start[n] EXCEPT !.pc = "check", !.fresh = TRUE] \in Start
           /\ [pc |-> "waiting", fresh |-> FALSE, stalled |-> TRUE] \in Start
<1>1. start[n] \in Start
  BY DEF TypeOK
<1> QED  BY <1>1 DEF Start

LEMMA HealthTypes ==
    ASSUME TypeOK, NEW n \in Nodes
    PROVE  /\ \A b \in BOOLEAN : [pc |-> "waiting", connected |-> b] \in Health
           /\ \A x \in {"up", "down", "null"} : [pc |-> x, connected |-> FALSE] \in Health
           /\ row[n].connected \in BOOLEAN
<1>1. row[n] \in Row
  BY RowTypes
<1>2. row[n].connected \in BOOLEAN
  BY <1>1 DEF Row
<1> QED  BY <1>2 DEF Health

LEMMA NodeTypes ==
    ASSUME TypeOK, NEW n \in Nodes
    PROVE  /\ [node[n] EXCEPT !.up = ~@] \in Node
           /\ [node[n] EXCEPT !.running = FALSE] \in Node
<1>1. node[n] \in Node
  BY DEF TypeOK
<1> QED BY <1>1 DEF Node

\* What is noted, and what is no longer.
LEMMA NotedTypes ==
    ASSUME TypeOK, NEW n \in Nodes
    PROVE  /\ \A S \in SUBSET Nodes, why \in Reasons : Because(why, S) \subseteq Reasons \X Nodes
           /\ Dropped(n) \subseteq Reasons \X Nodes
           /\ Swallowed(n) \subseteq Reasons \X Nodes
           /\ Left({n}) \subseteq Nodes
           /\ excuse \subseteq Reasons \X Nodes
<1>1. excuse \subseteq Reasons \X Nodes
  BY DEF TypeOK
<1>2. {m \in {n} : StartBehind(n)} \subseteq Nodes
      /\ {m \in {n} : stop[n] = "stopped" /\ node[n].running} \subseteq Nodes
  OBVIOUS
<1> QED  BY <1>1, <1>2, BecauseType DEF Dropped, Swallowed, Left, Reasons

LEMMA TypeStep ==
    ASSUME TypeOK, [Next]_vars
    PROVE  TypeOK'
<1> USE DEF vars, jobVars, requestVars

<1>1. ASSUME NEW n \in Nodes, RestartNode(n)
     PROVE  TypeOK'
  BY <1>1, AskedType, WithStartType DEF TypeOK, RestartNode
<1>2. ASSUME NEW n \in Nodes, EnableNode(n)
     PROVE  TypeOK'
  <2>1. Cleared(n) \in Row /\ [row[n] EXCEPT !.disabled = FALSE] \in Row
    BY ClearedType, RowTypes
  <2>2. WithStart({n}) \in [Nodes -> Start]
    BY WithStartType
  <2>3. Dropped(n) \subseteq Reasons \X Nodes
    BY NotedTypes
  <2>4. Because("raced", {n}) \subseteq Reasons \X Nodes
    BY BecauseType DEF Reasons
  <2>5. excuse' \subseteq Reasons \X Nodes
    BY <1>2, <2>3, <2>4 DEF TypeOK, EnableNode
  <2> QED  BY <1>2, AskedType, <2>1, <2>2, <2>3, <2>4, <2>5 DEF TypeOK, EnableNode
<1>3. ASSUME NEW n \in Nodes, DisableNode(n)
     PROVE  TypeOK'
  <2>1. [Cleared(n) EXCEPT !.profile = IF Bare(n) THEN None ELSE row[n].profile] \in Row
    BY RowTypes
  <2>2. WithStop({n}) \in [Nodes -> Stop]
    BY WithStopType
  <2>3. Swallowed(n) \subseteq Reasons \X Nodes
    BY NotedTypes
  <2> QED  BY <1>3, AskedType, <2>1, <2>2, <2>3 DEF TypeOK, DisableNode
<1>4. ASSUME NEW n \in Nodes, DeleteNode(n)
     PROVE  TypeOK'
  BY <1>4, AskedType DEF TypeOK, DeleteNode
<1>5. ASSUME NEW n \in Nodes, NEW d \in BOOLEAN, UpdateBinds(n, d)
     PROVE  TypeOK'
  <2>1. edit.profile \in Profiles \cup {None}
    BY DEF TypeOK, NoEdit
  <2>2. [row[n] EXCEPT !.inbounds = TRUE, !.profile = edit.profile] \in Row
    BY <2>1, RowTypes
  <2>3. Outdated({n}) \in [Nodes -> Node]
    BY OutdatedType
  <2>4. (IF d THEN start ELSE WithStart({n})) \in [Nodes -> Start]
    BY WithStartType DEF TypeOK
  <2>5. StartOutdated(IF d THEN start ELSE WithStart({n}), {n}) \in [Nodes -> Start]
    BY <2>4, StartOutdatedType
  <2>6. GroupOutdated(group, {n}) \in [Profiles -> Group]
    BY GroupOutdatedType DEF TypeOK
  <2>7. excuse \subseteq Reasons \X Nodes /\ Because("missed", {n}) \subseteq Reasons \X Nodes
    BY NotedTypes DEF Reasons
  <2>8. edit' = NoEdit /\ excuse' \subseteq Reasons \X Nodes
    BY <1>5, <2>7 DEF UpdateBinds
  <2>9. row[n].here => row' \in [Nodes -> Row]
    BY <1>5, <2>2 DEF UpdateBinds, TypeOK
  <2>10. row[n].here => start' \in [Nodes -> Start]
    BY <1>5, <2>5 DEF UpdateBinds
  <2>11. row[n].here => node' \in [Nodes -> Node] /\ group' \in [Profiles -> Group]
    BY <1>5, <2>3, <2>6 DEF UpdateBinds
  <2>12. CASE row[n].here
    BY <2>12, <1>5, <2>8, <2>9, <2>10, <2>11 DEF TypeOK, UpdateBinds
  <2>13. CASE ~row[n].here
    BY <2>13, <1>5, <2>8, <2>9, <2>10, <2>11 DEF TypeOK, UpdateBinds
  <2> QED  BY <2>12, <2>13
<1>6. ASSUME NEW S \in SUBSET Nodes, NEW p \in Profiles, NEW kind \in {"update", "modify"}, EditUnbinds(kind, S, p)
     PROVE  TypeOK'
  <2>1. \A m \in Nodes : row[m] \in Row
    BY RowTypes
  <2>2. \A m \in Nodes : /\ row[m] \in Row
                        /\ [row[m] EXCEPT !.inbounds = FALSE, !.profile = p] \in Row
                        /\ [row[m] EXCEPT !.inbounds = FALSE, !.profile = row[m].profile] \in Row
    BY <2>1 DEF Row
  <2>3. row' \in [Nodes -> Row]
    BY <1>6, <2>2 DEF EditUnbinds
  <2>4. edit' \in [kind: {"update", "modify"}, nodes: SUBSET Nodes, profile: Profiles]
    BY <1>6 DEF EditUnbinds
  <2> QED  BY <1>6, AskedType, <2>2, <2>3, <2>4 DEF TypeOK, EditUnbinds
<1>7. ASSUME ModifyBinds
     PROVE  TypeOK'
  <2>1. row' \in [Nodes -> Row]
    BY <1>7, RowTypes DEF ModifyBinds
  <2>2. Outdated(edit.nodes) \in [Nodes -> Node]
    BY OutdatedType
  <2>3. StartOutdated(start, edit.nodes) \in [Nodes -> Start]
    BY StartOutdatedType DEF TypeOK
  <2>4. GroupOutdated(WithGroup({edit.profile}), edit.nodes) \in [Profiles -> Group]
    BY GroupOutdatedType, WithGroupType
  <2>5. WithRetry({edit.profile}) \subseteq retry \cup {edit.profile}
    BY DEF WithRetry
  <2>6. edit.profile \in Profiles
    BY <1>7 DEF ModifyBinds, NoEdit, TypeOK
  <2> QED  BY <1>7, <2>1, <2>2, <2>3, <2>4, <2>5, <2>6 DEF TypeOK, ModifyBinds
<1>8. ASSUME RestartAllNodes
     PROVE  TypeOK'
  BY <1>8, AskedType DEF TypeOK, RestartAllNodes
<1>9. ASSUME NEW p \in Profiles, NEW D \in SUBSET Nodes, UpdateConfigProfile(p, D)
     PROVE  TypeOK'
  <2>1. row' \in [Nodes -> Row]
    BY <1>9, RowTypes DEF UpdateConfigProfile
  <2>2. Outdated(Of(p)) \in [Nodes -> Node]
    BY OutdatedType
  <2>3. start' \in [Nodes -> Start]
    BY <1>9, StartOutdatedType DEF UpdateConfigProfile, TypeOK
  <2>4. ConfigOutdated(WithGroup({p}), D, Of(p)) \in [Profiles -> Group]
    BY ConfigOutdatedType, WithGroupType
  <2>5. WithRetry({p}) \subseteq Profiles
    BY DEF WithRetry, TypeOK
  <2> QED  BY <1>9, AskedType, <2>1, <2>2, <2>3, <2>4, <2>5 DEF TypeOK,
              UpdateConfigProfile
<1>10. ASSUME NEW n \in Nodes, StartBegin(n)
     PROVE  TypeOK'
  <2>1. Cleared(n) \in Row /\ [row[n] EXCEPT !.connecting = TRUE] \in Row
    BY ClearedType, RowTypes
  <2>2. [start[n] EXCEPT !.pc = "check", !.fresh = TRUE] \in Start /\ NoStart \in Start
    BY StartTypes, NoJobTypes
  <2>3. WithStop({n}) \in [Nodes -> Stop]
    BY WithStopType
  <2>4. excuse' \subseteq Reasons \X Nodes
    BY <1>10, NotedTypes, ZenonT(60) DEF StartBegin, Reasons
  <2>5. start' \in [Nodes -> Start]
    BY <1>10, <2>2, ZenonT(60) DEF TypeOK, StartBegin
  <2>6. row' \in [Nodes -> Row]
    BY <1>10, <2>1, ZenonT(60) DEF TypeOK, StartBegin
  <2>7. stop' \in [Nodes -> Stop]
    BY <1>10, <2>3 DEF TypeOK, StartBegin
  <2> QED  BY <1>10, <2>4, <2>5, <2>6, <2>7 DEF TypeOK, StartBegin
<1>11. ASSUME NEW n \in Nodes, StartRefused(n)
     PROVE  TypeOK'
  <2>1. NoStart \in Start /\ Unconnected(n) \in [Nodes -> Row]
    BY UnconnectedType, NoJobTypes
  <2>2. excuse' \subseteq Reasons \X Nodes
    BY <1>11, NotedTypes DEF StartRefused, Reasons
  <2> QED  BY <1>11, <2>1, <2>2, FailsType DEF TypeOK, StartRefused
<1>12. ASSUME NEW n \in Nodes, StartQueryFails(n)
     PROVE  TypeOK'
  <2>1. excuse' \subseteq Reasons \X Nodes
    BY <1>12, NotedTypes DEF StartQueryFails, Reasons
  <2> QED  BY <1>12, <2>1, FailsType, NoJobTypes DEF TypeOK, StartQueryFails
<1>13. ASSUME NEW n \in Nodes, StartCheck(n)
     PROVE  TypeOK'
  BY <1>13, StartTypes DEF TypeOK, StartCheck
<1>14. ASSUME NEW n \in Nodes, StartSend(n)
     PROVE  TypeOK'
  <2>1. start[n].fresh \in BOOLEAN
    BY StartTypes DEF Start
  <2>2. node' \in [Nodes -> Node] /\ excuse' \subseteq Reasons \X Nodes
    BY <1>14, <2>1, RunsType DEF StartSend
  <2> QED  BY <1>14, <2>2, StartTypes DEF TypeOK, StartSend
<1>15. ASSUME NEW n \in Nodes, StartDone(n)
     PROVE  TypeOK'
  <2>1. excuse' \subseteq Reasons \X Nodes
    BY <1>15, NotedTypes DEF StartDone
  <2> QED  BY <1>15, <2>1, RowTypes, NoJobTypes DEF TypeOK, StartDone
<1>16. ASSUME NEW n \in Nodes, StartCrash(n)
     PROVE  TypeOK'
  <2>1. excuse' \subseteq Reasons \X Nodes
    BY <1>16, NotedTypes DEF StartCrash, Reasons
  <2>2. start' \in [Nodes -> Start]
    BY <1>16, StartTypes, NoJobTypes DEF StartCrash, TypeOK
  <2> QED  BY <1>16, <2>1, <2>2, FailsType DEF TypeOK, StartCrash
<1>17. ASSUME NEW n \in Nodes, StopXray(n)
     PROVE  TypeOK'
  <2>1. Because("raced", {n}) \subseteq Reasons \X Nodes /\ excuse \subseteq Reasons \X Nodes
    BY NotedTypes DEF Reasons
  <2>2. excuse' \subseteq Reasons \X Nodes
    BY <1>17, <2>1 DEF StopXray
  <2>3. node' \in [Nodes -> Node]
    BY <1>17, NodeTypes, ZenonT(60) DEF TypeOK, StopXray
  <2>4. stop' \in [Nodes -> Stop]
    BY <1>17 DEF TypeOK, StopXray, Stop
  <2> QED  BY <1>17, <2>2, <2>3, <2>4 DEF TypeOK, StopXray
<1>18. ASSUME NEW n \in Nodes, StopDone(n)
     PROVE  TypeOK'
  <2>1. excuse' \subseteq Reasons \X Nodes
    BY <1>18, NotedTypes DEF StopDone, Reasons
  <2> QED  BY <1>18, <2>1, RowTypes DEF TypeOK, StopDone, Stop
<1>19. ASSUME NEW n \in Nodes, DropDone(n)
     PROVE  TypeOK'
  BY <1>19, RowTypes DEF TypeOK, DropDone
<1>20. ASSUME FirstTick
     PROVE  TypeOK'
  BY <1>20 DEF TypeOK, FirstTick
<1>21. ASSUME NEW n \in Nodes, HealthTick(n)
     PROVE  TypeOK'
  <2>1. health' \in [Nodes -> Health]
    BY <1>21, HealthTypes DEF TypeOK, HealthTick
  <2> QED  BY <1>21, <2>1 DEF TypeOK, HealthTick
<1>22. ASSUME NEW n \in Nodes, HealthProbe(n)
     PROVE  TypeOK'
  <2>1. health' \in [Nodes -> Health]
    BY <1>22, HealthTypes, NoJobTypes, ZenonT(60) DEF HealthProbe, TypeOK
  <2>2. left' \in [requests: 0..MaxRequests, faults: 0..MaxFaults]
    BY <1>22, FailsType DEF HealthProbe, TypeOK
  <2> QED  BY <1>22, <2>1, <2>2 DEF TypeOK, HealthProbe
<1>23. ASSUME NEW n \in Nodes, HealthDone(n)
     PROVE  TypeOK'
  <2>1. excuse' \subseteq Reasons \X Nodes
    BY <1>23, NotedTypes DEF HealthDone
  <2>2. (health[n].pc = "up") \in BOOLEAN
    OBVIOUS
  <2>3. [row[n] EXCEPT !.connected = (health[n].pc = "up")] \in Row
    BY <2>2, RowTypes
  <2>4. row[n].here => row' \in [Nodes -> Row]
    BY <1>23, <2>3 DEF HealthDone, TypeOK
  <2>5. row[n].here => start' \in [Nodes -> Start]
    BY <1>23, WithStartType DEF HealthDone, TypeOK
  <2>6. CASE row[n].here
    BY <2>6, <1>23, <2>1, <2>4, <2>5, NoJobTypes DEF TypeOK, HealthDone
  <2>7. CASE ~row[n].here
    BY <2>7, <1>23, <2>1, <2>4, <2>5, NoJobTypes DEF TypeOK, HealthDone
  <2> QED  BY <2>6, <2>7
<1>24. ASSUME NEW p \in Profiles, GroupBegin(p)
     PROVE  TypeOK'
  <2> DEFINE chosen == {n \in Of(p) : ~row[n].disabled}
             at == [n \in Nodes |-> IF n \notin chosen THEN "out"
                                    ELSE IF row[n].inbounds THEN "todo" ELSE "bare"]
  <2>1. at \in [Nodes -> Ats] /\ chosen \subseteq Nodes
    BY DEF Ats, Of
  <2>2. group[p] \in Group
    BY DEF TypeOK
  <2> HIDE DEF at, chosen
  <2>3. [group[p] EXCEPT !.pc = "mark", !.fresh = chosen, !.at = at] \in Group
    BY <2>1, <2>2 DEF Group, Ats
  <2> QED  BY <1>24, <2>3 DEF TypeOK, GroupBegin, at, chosen
<1>25. ASSUME NEW p \in Profiles, NEW n \in Nodes, GroupMark(p, n)
     PROVE  TypeOK'
  <2>1. /\ [group[p] EXCEPT !.at[n] = "marked"] \in Group
         /\ [group[p] EXCEPT !.at[n] = "cleared", !.fresh = @ \ {n}] \in Group
    BY GroupTypes DEF Ats
  <2>2. excuse' \subseteq Reasons \X Nodes
    BY <1>25, NotedTypes DEF GroupMark
  <2>3. Cleared(n) \in Row /\ [row[n] EXCEPT !.connecting = TRUE] \in Row
    BY ClearedType, RowTypes
  <2>4. WithStop({n}) \in [Nodes -> Stop]
    BY WithStopType
  <2>5. group' \in [Profiles -> Group]
    BY <1>25, <2>1 DEF TypeOK, GroupMark
  <2>6. row' \in [Nodes -> Row]
    BY <1>25, <2>3, ZenonT(60) DEF TypeOK, GroupMark
  <2>7. stop' \in [Nodes -> Stop]
    BY <1>25, <2>4 DEF TypeOK, GroupMark
  <2> QED  BY <1>25, <2>2, <2>5, <2>6, <2>7 DEF TypeOK, GroupMark
<1>26. ASSUME NEW p \in Profiles, GroupConfig(p)
     PROVE  TypeOK'
  <2>1. [group[p] EXCEPT !.pc = "run"] \in Group
    <3>1. \E n \in Nodes : TRUE
      BY <1>26 DEF GroupConfig, Marked
    <3> QED BY <3>1, GroupTypes
  <2> QED  BY <1>26, <2>1 DEF TypeOK, GroupConfig
<1>27. ASSUME NEW p \in Profiles, GroupQueryFails(p)
     PROVE  TypeOK'
  <2>1. excuse' \subseteq Reasons \X Nodes
    BY <1>27, BecauseType DEF GroupQueryFails, Reasons, LeftBy, Left, Marked, ToMark,
       TypeOK
  <2> QED  BY <1>27, <2>1, FailsType, NoJobTypes DEF TypeOK, GroupQueryFails, Resumed
<1>28. ASSUME NEW p \in Profiles, NEW n \in Nodes, GroupRefused(p, n)
     PROVE  TypeOK'
  <2>1. [group[p] EXCEPT !.at[n] = "out"] \in Group
    BY GroupTypes DEF Ats
  <2>2. excuse' \subseteq Reasons \X Nodes
    BY <1>28, NotedTypes DEF GroupRefused, Reasons
  <2> QED  BY <1>28, <2>1, <2>2, FailsType, UnconnectedType DEF TypeOK, GroupRefused
<1>29. ASSUME NEW p \in Profiles, NEW n \in Nodes, GroupNoPlugin(p, n)
     PROVE  TypeOK'
  <2>1. [group[p] EXCEPT !.at[n] = "out"] \in Group
    BY GroupTypes DEF Ats
  <2>2. excuse' \subseteq Reasons \X Nodes
    BY <1>29, BecauseType DEF GroupNoPlugin, Reasons, LeftBy, Left, Marked, TypeOK
  <2> QED  BY <1>29, <2>1, <2>2, FailsType DEF TypeOK, GroupNoPlugin
<1>30. ASSUME NEW p \in Profiles, NEW n \in Nodes, GroupSend(p, n)
     PROVE  TypeOK'
  <2>1. [group[p] EXCEPT !.at[n] = "sent"] \in Group
    BY GroupTypes DEF Ats
  <2>2. (n \in group[p].fresh) \in BOOLEAN
    OBVIOUS
  <2>3. node' \in [Nodes -> Node] /\ excuse' \subseteq Reasons \X Nodes
    BY <1>30, <2>2, RunsType DEF GroupSend
  <2> QED  BY <1>30, <2>1, <2>3 DEF TypeOK, GroupSend
<1>31. ASSUME NEW p \in Profiles, NEW n \in Nodes, GroupSent(p, n)
     PROVE  TypeOK'
  <2>1. [group[p] EXCEPT !.at[n] = "out"] \in Group
    BY GroupTypes DEF Ats
  <2>2. excuse' \subseteq Reasons \X Nodes
    BY <1>31, NotedTypes DEF GroupSent
  <2> QED  BY <1>31, <2>1, <2>2, RowTypes DEF TypeOK, GroupSent
<1>32. ASSUME NEW p \in Profiles, GroupDone(p)
     PROVE  TypeOK'
  BY <1>32, NoJobTypes DEF TypeOK, GroupDone, Resumed
<1>33. ASSUME NEW p \in Profiles, GroupCrash(p)
     PROVE  TypeOK'
  <2>1. excuse' \subseteq Reasons \X Nodes
    BY <1>33, BecauseType DEF GroupCrash, Reasons, LeftBy, Left, Marked, ToMark, TypeOK
  <2>2. [NoGroup EXCEPT !.pc = "waiting", !.stalled = TRUE] \in Group /\ NoGroup \in Group
    BY NoJobTypes DEF Group
  <2> QED  BY <1>33, <2>1, <2>2, FailsType DEF TypeOK, GroupCrash
<1>34. ASSUME NEW p \in Profiles, Retry(p)
     PROVE  TypeOK'
  BY <1>34, WithGroupType DEF TypeOK, Retry
<1>35. ASSUME SchedulerRestarts
     PROVE  TypeOK'
  BY <1>35, FailsType DEF TypeOK, SchedulerRestarts
<1>36. ASSUME StartAll
     PROVE  TypeOK'
  <2>1. \A m \in Nodes : row[m] \in Row
    BY RowTypes
  <2>2. \A m \in Nodes : row[m].profile \in Profiles \cup {None}
    BY <2>1 DEF Row
  <2>3. retry' \subseteq Profiles
    BY <1>36, <2>2 DEF StartAll, WithRetry, TypeOK
  <2> QED  BY <1>36, <2>3, WithGroupType DEF TypeOK, StartAll
<1>37. ASSUME NEW n \in Nodes, HostChanges(n)
     PROVE  TypeOK'
  <2>1. node' \in [Nodes -> Node]
    BY <1>37, NodeTypes DEF TypeOK, HostChanges
  <2>2. left' \in [requests: 0..MaxRequests, faults: 0..MaxFaults]
    BY <1>37, FailsType DEF TypeOK, HostChanges
  <2> QED  BY <1>37, <2>1, <2>2 DEF TypeOK, HostChanges
<1>38. ASSUME NEW n \in Nodes, XrayDies(n)
     PROVE  TypeOK'
  <2>1. node' \in [Nodes -> Node]
    BY <1>38, NodeTypes DEF TypeOK, XrayDies
  <2> QED  BY <1>38, <2>1, FailsType DEF TypeOK, XrayDies
<1>39. ASSUME UNCHANGED vars
     PROVE  TypeOK'
  BY <1>39 DEF TypeOK
<1> QED
  BY <1>1, <1>2, <1>3, <1>4, <1>5, <1>6, <1>7, <1>8, <1>9, <1>10, <1>11, <1>12, <1>13,
     <1>14, <1>15, <1>16, <1>17, <1>18, <1>19, <1>20, <1>21, <1>22, <1>23, <1>24, <1>25,
     <1>26, <1>27, <1>28, <1>29, <1>30, <1>31, <1>32, <1>33, <1>34, <1>35, <1>36, <1>37,
     <1>38, <1>39 DEF Next, RequestStep, NodeStep, GroupStep
-----------------------------------------------------------------------------
(* What the requests and the health check write to a row.                    *)

LEMMA BindsRow ==
    ASSUME TypeOK, NEW n \in Nodes, NEW d, UpdateBinds(n, d)
    PROVE  \A m \in Nodes :
              /\ row'[m].here = row[m].here /\ row'[m].disabled = row[m].disabled
              /\ row'[m].connecting = row[m].connecting
              /\ row'[m].connected = row[m].connected
              /\ m # n => row'[m] = row[m]
              /\ m = n /\ row[m].here => row'[m].profile = edit.profile
              /\ ~row[m].here => row'[m] = row[m]
<1> DEFINE r == [row[n] EXCEPT !.inbounds = TRUE, !.profile = edit.profile]
<1>1. row[n] \in Row
  BY RowTypes
<1>2. /\ r.here = row[n].here /\ r.disabled = row[n].disabled /\ r.profile = edit.profile
      /\ r.connecting = row[n].connecting /\ r.connected = row[n].connected
  BY <1>1 DEF Row
<1>3. IF row[n].here THEN row' = [row EXCEPT ![n] = r] ELSE row' = row
  BY DEF UpdateBinds
<1> HIDE DEF r
<1> QED  BY <1>2, <1>3 DEF TypeOK

LEMMA UnbindsRow ==
    ASSUME TypeOK, NEW S, NEW p, NEW kind, EditUnbinds(kind, S, p)
    PROVE  \A m \in Nodes :
              /\ row'[m].here = row[m].here /\ row'[m].disabled = row[m].disabled
              /\ row'[m].connecting = row[m].connecting
              /\ row'[m].connected = row[m].connected
              /\ m \notin S => row'[m] = row[m]
              /\ m \in S => ~row'[m].inbounds
              /\ m \in S => row'[m].profile = IF kind = "modify" THEN p ELSE row[m].profile
<1> DEFINE q(m) == IF kind = "modify" THEN p ELSE row[m].profile
           r(m) == [row[m] EXCEPT !.inbounds = FALSE, !.profile = q(m)]
<1>1. \A m \in Nodes : row[m] \in Row
  BY RowTypes
<1>2. \A m \in Nodes :
         /\ r(m).here = row[m].here /\ r(m).disabled = row[m].disabled
         /\ r(m).connecting = row[m].connecting /\ r(m).connected = row[m].connected
         /\ ~r(m).inbounds /\ r(m).profile = q(m)
  <2> HIDE DEF q
  <2> QED  BY <1>1 DEF Row
<1>3. row' = [m \in Nodes |-> IF m \in S THEN r(m) ELSE row[m]]
  BY DEF EditUnbinds
<1> HIDE DEF r
<1> QED  BY <1>2, <1>3 DEF q

LEMMA ModifyRow ==
    ASSUME TypeOK, ModifyBinds
    PROVE  \A m \in Nodes :
              /\ row'[m].here = row[m].here /\ row'[m].disabled = row[m].disabled
              /\ row'[m].connecting = row[m].connecting
              /\ row'[m].connected = row[m].connected
              /\ row'[m].profile = row[m].profile
<1>1. \A m \in Nodes : row[m] \in Row
  BY RowTypes
<1> QED  BY <1>1 DEF ModifyBinds, Row

LEMMA ProfileRow ==
    ASSUME TypeOK, NEW p, NEW D, UpdateConfigProfile(p, D)
    PROVE  \A m \in Nodes :
              /\ row'[m].here = row[m].here /\ row'[m].disabled = row[m].disabled
              /\ row'[m].connecting = row[m].connecting
              /\ row'[m].connected = row[m].connected
              /\ row'[m].profile = row[m].profile
              /\ row[m].inbounds => row'[m].inbounds \/ m \in D
              /\ row'[m].inbounds => row[m].inbounds
<1>1. \A m \in Nodes : row[m] \in Row
  BY RowTypes
<1> QED  BY <1>1 DEF UpdateConfigProfile, Row

LEMMA HealthRow ==
    ASSUME TypeOK, NEW n \in Nodes, HealthDone(n)
    PROVE  \A m \in Nodes :
              /\ row'[m].here = row[m].here /\ row'[m].disabled = row[m].disabled
              /\ row'[m].connecting = row[m].connecting
              /\ row'[m].profile = row[m].profile
              /\ row'[m].inbounds = row[m].inbounds
              /\ m # n => row'[m] = row[m]
              /\ m = n /\ row[n].here => row'[m].connected = (health[n].pc = "up")
<1> DEFINE b == health[n].pc = "up"
           r == [row[n] EXCEPT !.connected = b]
<1>1. row[n] \in Row /\ b \in BOOLEAN
  BY RowTypes
<1> HIDE DEF b
<1>2. /\ r.here = row[n].here /\ r.disabled = row[n].disabled /\ r.profile = row[n].profile
      /\ r.connecting = row[n].connecting /\ r.connected = b /\ r.inbounds = row[n].inbounds
  BY <1>1 DEF Row
<1>3. IF row[n].here THEN row' = [row EXCEPT ![n] = r] ELSE row' = row
  BY DEF HealthDone, b
<1> HIDE DEF r
<1> QED  BY <1>2, <1>3 DEF TypeOK, b

-----------------------------------------------------------------------------
(* What a by-profile job writes about itself.                                *)

Puts(p, n, v) == group' = [group EXCEPT ![p].at[n] = v]

\* Of all the by-profile jobs only that of p changes, and only where it is with n.
Moved(p, n, v) ==
    /\ \A q \in Profiles \ {p} : group'[q] = group[q]
    /\ group'[p].pc = group[p].pc /\ group'[p].fresh = group[p].fresh
    /\ group'[p].at[n] = v
    /\ \A m \in Nodes \ {n} : group'[p].at[m] = group[p].at[m]

LEMMA AtEffect ==
    ASSUME TypeOK, NEW p \in Profiles, NEW n \in Nodes, NEW v \in Ats, Puts(p, n, v)
    PROVE  Moved(p, n, v)
<1> DEFINE a == [group[p].at EXCEPT ![n] = v]
           g == [group[p] EXCEPT !.at = a]
<1>1. group[p] \in Group /\ group[p].at \in [Nodes -> Ats]
  BY DEF TypeOK, Group, Ats
<1>2. \A m \in Nodes : a[m] = IF m = n THEN v ELSE group[p].at[m]
  BY <1>1
<1> HIDE DEF a
<1>3. g.pc = group[p].pc /\ g.fresh = group[p].fresh /\ g.at = a
  BY <1>1 DEF Group
<1>4. group' = [group EXCEPT ![p] = g]
  BY DEF Puts, a
<1> HIDE DEF g
<1> QED  BY <1>2, <1>3, <1>4 DEF TypeOK, Moved

LEMMA Moves ==
    ASSUME TypeOK, NEW p \in Profiles, NEW n \in Nodes
    PROVE  /\ GroupMark(p, n) /\ group[p].at[n] = "todo" => Moved(p, n, "marked")
           /\ GroupRefused(p, n) \/ GroupNoPlugin(p, n) \/ GroupSent(p, n)
                 => Moved(p, n, "out")
           /\ GroupSend(p, n) => Moved(p, n, "sent")
<1>1. {"marked", "out", "sent"} \subseteq Ats
  BY DEF Ats
<1>2. GroupMark(p, n) /\ group[p].at[n] = "todo" => Puts(p, n, "marked")
  BY DEF GroupMark, Puts
<1>3. GroupRefused(p, n) \/ GroupNoPlugin(p, n) \/ GroupSent(p, n) => Puts(p, n, "out")
  BY DEF GroupRefused, GroupNoPlugin, GroupSent, Puts
<1>4. GroupSend(p, n) => Puts(p, n, "sent")
  BY DEF GroupSend, Puts
<1> QED BY <1>1, <1>2, <1>3, <1>4, AtEffect

LEMMA ClearedEffect ==
    ASSUME TypeOK, NEW p \in Profiles, NEW n \in Nodes, GroupMark(p, n),
           group[p].at[n] # "todo"
    PROVE  /\ \A q \in Profiles \ {p} : group'[q] = group[q]
           /\ group'[p].pc = group[p].pc /\ group'[p].fresh = group[p].fresh \ {n}
           /\ group'[p].at[n] = "cleared"
           /\ \A m \in Nodes \ {n} : group'[p].at[m] = group[p].at[m]
<1> DEFINE a == [group[p].at EXCEPT ![n] = "cleared"]
           g == [group[p] EXCEPT !.at = a, !.fresh = @ \ {n}]
<1>1. group[p] \in Group /\ group[p].at \in [Nodes -> Ats]
  BY DEF TypeOK, Group, Ats
<1>2. \A m \in Nodes : a[m] = IF m = n THEN "cleared" ELSE group[p].at[m]
  BY <1>1
<1> HIDE DEF a
<1>3. g.pc = group[p].pc /\ g.fresh = group[p].fresh \ {n} /\ g.at = a
  BY <1>1 DEF Group
<1>4. group' = [group EXCEPT ![p] = g]
  BY DEF GroupMark, a
<1> HIDE DEF g
<1> QED  BY <1>2, <1>3, <1>4 DEF TypeOK

LEMMA ConfigEffect ==
    ASSUME TypeOK, NEW p \in Profiles, GroupConfig(p)
    PROVE  \A q \in Profiles :
              /\ group'[q].at = group[q].at /\ group'[q].fresh = group[q].fresh
              /\ group'[q].pc = IF q = p THEN "run" ELSE group[q].pc
<1>1. \A q \in Profiles : group[q] \in Group
  BY DEF TypeOK
<1> QED  BY <1>1 DEF GroupConfig, TypeOK, Group

LEMMA BeginEffect ==
    ASSUME TypeOK, NEW p \in Profiles, GroupBegin(p)
    PROVE  /\ \A q \in Profiles \ {p} : group'[q] = group[q]
           /\ group'[p].pc = "mark"
           /\ \A m \in Nodes :
                 IF m \in Of(p) /\ ~row[m].disabled
                 THEN m \in group'[p].fresh /\ group'[p].at[m] \in {"todo", "bare"}
                 ELSE m \notin group'[p].fresh /\ group'[p].at[m] = "out"
<1> DEFINE chosen == {n \in Of(p) : ~row[n].disabled}
           at == [n \in Nodes |-> IF n \notin chosen THEN "out"
                                  ELSE IF row[n].inbounds THEN "todo" ELSE "bare"]
           g == [group[p] EXCEPT !.pc = "mark", !.fresh = chosen, !.at = at]
<1>1. group[p] \in Group
  BY DEF TypeOK
<1>2. \A m \in Nodes : IF m \in chosen THEN at[m] \in {"todo", "bare"} ELSE at[m] = "out"
  OBVIOUS
<1>3. \A m : m \in chosen <=> m \in Of(p) /\ ~row[m].disabled
  OBVIOUS
<1> HIDE DEF at, chosen
<1>4. g.pc = "mark" /\ g.fresh = chosen /\ g.at = at
  BY <1>1 DEF Group
<1>5. group' = [group EXCEPT ![p] = g]
  BY DEF GroupBegin, at, chosen
<1> HIDE DEF g
<1> QED  BY <1>2, <1>3, <1>4, <1>5 DEF TypeOK

\* The job ends, or dies.
LEMMA EndEffect ==
    ASSUME TypeOK, NEW p \in Profiles,
           GroupQueryFails(p) \/ GroupDone(p) \/ GroupCrash(p)
    PROVE  /\ \A q \in Profiles \ {p} : group'[q] = group[q]
           /\ group'[p].pc \in {"none", "waiting"}
           /\ group'[p].at = [m \in Nodes |-> "out"] /\ group'[p].fresh = {}
           /\ GroupCrash(p) /\ ~group[p].stalled => group'[p].pc = "waiting"
<1> DEFINE g == [NoGroup EXCEPT !.pc = "waiting", !.stalled = TRUE]
<1>1. g.pc = "waiting" /\ g.at = [m \in Nodes |-> "out"] /\ g.fresh = {}
  BY NoJobTypes DEF Group
<1>2. /\ group' = [group EXCEPT ![p] = NoGroup] \/ group' = [group EXCEPT ![p] = g]
      /\ GroupCrash(p) /\ ~group[p].stalled => group' = [group EXCEPT ![p] = g]
  BY DEF GroupQueryFails, GroupDone, GroupCrash
<1> HIDE DEF g
<1> QED  BY <1>1, <1>2, NoJobTypes DEF TypeOK

-----------------------------------------------------------------------------
(* A node that is switched off.                                              *)

\* DisabledQuiet counts on a stop job that is past its call; without it, the
\* property holds of every step.
QuietAt(m) ==
    row[m].here /\ row[m].disabled /\ node[m].running =>
        stop[m] = "waiting" \/ <<"raced", m>> \in excuse

Quiet == \A m \in Nodes : QuietAt(m)

LEMMA QuietStep ==
    ASSUME TypeOK, Quiet, [Next]_vars
    PROVE  Quiet'
<1> USE DEF vars, jobVars, requestVars
<1>1. ASSUME NEW n \in Nodes, RestartNode(n)
     PROVE  Quiet'
  BY <1>1 DEF RestartNode, Asked, Quiet, QuietAt, TypeOK
<1>2. ASSUME NEW n \in Nodes, EnableNode(n)
     PROVE  Quiet'
  BY <1>2, InBecause, ClearedType, WithStopType, OutdatedType DEF EnableNode, Asked,
     Quiet, QuietAt, TypeOK, Row, Node, Swallowed, Dropped, Unconnected
<1>3. ASSUME NEW n \in Nodes, DisableNode(n)
     PROVE  Quiet'
  BY <1>3, InBecause, ClearedType, WithStopType, OutdatedType DEF DisableNode, Asked,
     Quiet, QuietAt, TypeOK, Row, Node, Swallowed, Dropped, Unconnected
<1>4. ASSUME NEW n \in Nodes, DeleteNode(n)
     PROVE  Quiet'
  BY <1>4 DEF DeleteNode, Asked, Quiet, QuietAt, TypeOK
<1>5. ASSUME NEW n \in Nodes, NEW d \in BOOLEAN, UpdateBinds(n, d)
     PROVE  Quiet'
  <2>1. \A m \in Nodes : row'[m].here = row[m].here /\ row'[m].disabled = row[m].disabled
    BY <1>5, BindsRow
  <2>2. \A m \in Nodes : node'[m].running = node[m].running
    BY <1>5, OutdatedType DEF UpdateBinds
  <2>3. stop' = stop /\ \A m \in Nodes : <<"raced", m>> \in excuse => <<"raced", m>> \in excuse'
    BY <1>5 DEF UpdateBinds
  <2> QED  BY <2>1, <2>2, <2>3 DEF Quiet, QuietAt
<1>6. ASSUME NEW S \in SUBSET Nodes, NEW p \in Profiles, NEW kind \in {"update", "modify"}, EditUnbinds(kind, S, p)
     PROVE  Quiet'
  <2>1. \A m \in Nodes : row'[m].here = row[m].here /\ row'[m].disabled = row[m].disabled
    BY <1>6, UnbindsRow
  <2>2. UNCHANGED <<node, stop, excuse>>
    BY <1>6 DEF EditUnbinds
  <2> QED  BY <2>1, <2>2 DEF Quiet, QuietAt
<1>7. ASSUME ModifyBinds
     PROVE  Quiet'
  BY <1>7, InBecause, ClearedType, WithStopType, OutdatedType DEF ModifyBinds, Quiet,
     QuietAt, TypeOK, Row, Node, Swallowed, Dropped, Unconnected
<1>8. ASSUME RestartAllNodes
     PROVE  Quiet'
  BY <1>8 DEF RestartAllNodes, Asked, Quiet, QuietAt, TypeOK
<1>9. ASSUME NEW p \in Profiles, NEW D \in SUBSET Nodes, UpdateConfigProfile(p, D)
     PROVE  Quiet'
  BY <1>9, InBecause, ClearedType, WithStopType, OutdatedType DEF UpdateConfigProfile,
     Asked, Quiet, QuietAt, TypeOK, Row, Node, Swallowed, Dropped, Unconnected
<1>10. ASSUME NEW n \in Nodes, StartBegin(n)
     PROVE  Quiet'
  <2>1. CASE row[n].here /\ ~row[n].connecting /\ Bare(n)
    <3>1. \A m \in Nodes \ {n} : row'[m] = row[m] /\ stop'[m] = stop[m]
      BY <1>10, <2>1, WithStopType DEF StartBegin, TypeOK
    <3>2. node' = node /\ \A m \in Nodes : <<"raced", m>> \in excuse => <<"raced", m>> \in excuse'
      BY <1>10, <2>1 DEF StartBegin
    <3>3. /\ stop'[n] = "waiting" \/ stop[n] = "stopped"
          /\ stop[n] = "stopped" /\ node[n].running => <<"raced", n>> \in excuse'
      BY <1>10, <2>1, WithStopType, InBecause DEF StartBegin, TypeOK, Swallowed
    <3> QED  BY <3>1, <3>2, <3>3 DEF Quiet, QuietAt
  <2>2. CASE ~(row[n].here /\ ~row[n].connecting /\ Bare(n))
    <3>1. \A m \in Nodes : row'[m].here = row[m].here /\ row'[m].disabled = row[m].disabled
      BY <1>10, <2>2 DEF StartBegin, TypeOK, Row
    <3>2. UNCHANGED <<node, stop>>
      BY <1>10, <2>2 DEF StartBegin
    <3>3. \A m \in Nodes : <<"raced", m>> \in excuse => <<"raced", m>> \in excuse'
      BY <1>10, <2>2, InBecause DEF StartBegin
    <3> QED  BY <3>1, <3>2, <3>3 DEF Quiet, QuietAt
  <2> QED  BY <2>1, <2>2
<1>11. ASSUME NEW n \in Nodes, StartRefused(n)
     PROVE  Quiet'
  BY <1>11, InBecause, ClearedType, WithStopType, OutdatedType DEF StartRefused, Quiet,
     QuietAt, TypeOK, Row, Node, Swallowed, Dropped, Unconnected
<1>12. ASSUME NEW n \in Nodes, StartQueryFails(n)
     PROVE  Quiet'
  BY <1>12 DEF StartQueryFails, Quiet, QuietAt, TypeOK
<1>13. ASSUME NEW n \in Nodes, StartCheck(n)
     PROVE  Quiet'
  BY <1>13 DEF StartCheck, Quiet, QuietAt, TypeOK
<1>14. ASSUME NEW n \in Nodes, StartSend(n)
     PROVE  Quiet'
  BY <1>14, InBecause, ClearedType, WithStopType, OutdatedType DEF StartSend, Runs,
     Quiet, QuietAt, TypeOK, Row, Node, Swallowed, Dropped, Unconnected
<1>15. ASSUME NEW n \in Nodes, StartDone(n)
     PROVE  Quiet'
  BY <1>15, InBecause, ClearedType, WithStopType, OutdatedType DEF StartDone, Quiet,
     QuietAt, TypeOK, Row, Node, Swallowed, Dropped, Unconnected
<1>16. ASSUME NEW n \in Nodes, StartCrash(n)
     PROVE  Quiet'
  BY <1>16 DEF StartCrash, Quiet, QuietAt, TypeOK
<1>17. ASSUME NEW n \in Nodes, StopXray(n)
     PROVE  Quiet'
  BY <1>17, InBecause, ClearedType, WithStopType, OutdatedType DEF StopXray, Quiet,
     QuietAt, TypeOK, Row, Node, Swallowed, Dropped, Unconnected
<1>18. ASSUME NEW n \in Nodes, StopDone(n)
     PROVE  Quiet'
  BY <1>18, InBecause, ClearedType, WithStopType, OutdatedType DEF StopDone, Quiet,
     QuietAt, TypeOK, Row, Node, Swallowed, Dropped, Unconnected
<1>19. ASSUME NEW n \in Nodes, DropDone(n)
     PROVE  Quiet'
  BY <1>19 DEF DropDone, Quiet, QuietAt, TypeOK
<1>20. ASSUME FirstTick
     PROVE  Quiet'
  BY <1>20 DEF FirstTick, Quiet, QuietAt, TypeOK
<1>21. ASSUME NEW n \in Nodes, HealthTick(n)
     PROVE  Quiet'
  BY <1>21 DEF HealthTick, Quiet, QuietAt, TypeOK
<1>22. ASSUME NEW n \in Nodes, HealthProbe(n)
     PROVE  Quiet'
  BY <1>22 DEF HealthProbe, Quiet, QuietAt, TypeOK
<1>23. ASSUME NEW n \in Nodes, HealthDone(n)
     PROVE  Quiet'
  <2>1. \A m \in Nodes : row'[m].here = row[m].here /\ row'[m].disabled = row[m].disabled
    BY <1>23, HealthRow
  <2>2. UNCHANGED <<node, stop>> /\ \A m \in Nodes : <<"raced", m>> \in excuse => <<"raced", m>> \in excuse'
    BY <1>23 DEF HealthDone, Dropped
  <2> QED  BY <2>1, <2>2 DEF Quiet, QuietAt
<1>24. ASSUME NEW p \in Profiles, GroupBegin(p)
     PROVE  Quiet'
  BY <1>24 DEF GroupBegin, Quiet, QuietAt, TypeOK
<1>25. ASSUME NEW p \in Profiles, NEW n \in Nodes, GroupMark(p, n)
     PROVE  Quiet'
  <2>1. CASE group[p].at[n] = "bare" /\ row[n].here
    <3>1. \A m \in Nodes \ {n} : row'[m] = row[m] /\ stop'[m] = stop[m]
      BY <1>25, <2>1, WithStopType DEF GroupMark, TypeOK
    <3>2. node' = node /\ \A m \in Nodes : <<"raced", m>> \in excuse => <<"raced", m>> \in excuse'
      BY <1>25, <2>1, InBecause DEF GroupMark
    <3>3. /\ stop'[n] = "waiting" \/ stop[n] = "stopped"
          /\ stop[n] = "stopped" /\ node[n].running => <<"raced", n>> \in excuse'
      BY <1>25, <2>1, WithStopType, InBecause DEF GroupMark, TypeOK, Swallowed
    <3> QED  BY <3>1, <3>2, <3>3 DEF Quiet, QuietAt
  <2>2. CASE ~(group[p].at[n] = "bare" /\ row[n].here)
    <3>1. \A m \in Nodes : row'[m].here = row[m].here /\ row'[m].disabled = row[m].disabled
      BY <1>25, <2>2 DEF GroupMark, TypeOK, Row
    <3>2. UNCHANGED <<node, stop>>
      BY <1>25, <2>2 DEF GroupMark
    <3>3. \A m \in Nodes : <<"raced", m>> \in excuse => <<"raced", m>> \in excuse'
      BY <1>25, <2>2, InBecause DEF GroupMark
    <3> QED  BY <3>1, <3>2, <3>3 DEF Quiet, QuietAt
  <2> QED  BY <2>1, <2>2
<1>26. ASSUME NEW p \in Profiles, GroupConfig(p)
     PROVE  Quiet'
  BY <1>26 DEF GroupConfig, Quiet, QuietAt, TypeOK
<1>27. ASSUME NEW p \in Profiles, GroupQueryFails(p)
     PROVE  Quiet'
  BY <1>27 DEF GroupQueryFails, Quiet, QuietAt, TypeOK
<1>28. ASSUME NEW p \in Profiles, NEW n \in Nodes, GroupRefused(p, n)
     PROVE  Quiet'
  BY <1>28, InBecause, ClearedType, WithStopType, OutdatedType DEF GroupRefused, Quiet,
     QuietAt, TypeOK, Row, Node, Swallowed, Dropped, Unconnected
<1>29. ASSUME NEW p \in Profiles, NEW n \in Nodes, GroupNoPlugin(p, n)
     PROVE  Quiet'
  BY <1>29 DEF GroupNoPlugin, Quiet, QuietAt, TypeOK
<1>30. ASSUME NEW p \in Profiles, NEW n \in Nodes, GroupSend(p, n)
     PROVE  Quiet'
  BY <1>30, InBecause, ClearedType, WithStopType, OutdatedType DEF GroupSend, Runs,
     Quiet, QuietAt, TypeOK, Row, Node, Swallowed, Dropped, Unconnected
<1>31. ASSUME NEW p \in Profiles, NEW n \in Nodes, GroupSent(p, n)
     PROVE  Quiet'
  BY <1>31, InBecause, ClearedType, WithStopType, OutdatedType DEF GroupSent, Quiet,
     QuietAt, TypeOK, Row, Node, Swallowed, Dropped, Unconnected
<1>32. ASSUME NEW p \in Profiles, GroupDone(p)
     PROVE  Quiet'
  BY <1>32 DEF GroupDone, Quiet, QuietAt, TypeOK
<1>33. ASSUME NEW p \in Profiles, GroupCrash(p)
     PROVE  Quiet'
  BY <1>33 DEF GroupCrash, Quiet, QuietAt, TypeOK
<1>34. ASSUME NEW p \in Profiles, Retry(p)
     PROVE  Quiet'
  BY <1>34 DEF Retry, Quiet, QuietAt, TypeOK
<1>35. ASSUME SchedulerRestarts
     PROVE  Quiet'
  BY <1>35 DEF SchedulerRestarts, Quiet, QuietAt, TypeOK
<1>36. ASSUME StartAll
     PROVE  Quiet'
  BY <1>36 DEF StartAll, Quiet, QuietAt, TypeOK
<1>37. ASSUME NEW n \in Nodes, HostChanges(n)
     PROVE  Quiet'
  BY <1>37 DEF HostChanges, Quiet, QuietAt, TypeOK
<1>38. ASSUME NEW n \in Nodes, XrayDies(n)
     PROVE  Quiet'
  BY <1>38 DEF XrayDies, Quiet, QuietAt, TypeOK
<1>39. ASSUME UNCHANGED vars
     PROVE  Quiet'
  BY <1>39 DEF Quiet, QuietAt, TypeOK
<1> QED
  BY <1>1, <1>2, <1>3, <1>4, <1>5, <1>6, <1>7, <1>8, <1>9, <1>10, <1>11, <1>12, <1>13,
     <1>14, <1>15, <1>16, <1>17, <1>18, <1>19, <1>20, <1>21, <1>22, <1>23, <1>24, <1>25,
     <1>26, <1>27, <1>28, <1>29, <1>30, <1>31, <1>32, <1>33, <1>34, <1>35, <1>36, <1>37,
     <1>38, <1>39 DEF Next, RequestStep, NodeStep, GroupStep

-----------------------------------------------------------------------------
(* The phases of a by-profile job.                                           *)

\* A job that has not begun has picked no node, and none is sent anything
\* before the config is built.
Phases ==
    \A p \in Profiles :
        /\ group[p].pc \in {"none", "waiting"} => \A m \in Nodes : group[p].at[m] = "out"
        /\ group[p].pc = "mark" => \A m \in Nodes : group[p].at[m] # "sent"

LEMMA PhasesStep ==
    ASSUME TypeOK, Phases, [Next]_vars
    PROVE  Phases'
<1> USE DEF vars, jobVars, requestVars
<1>1. ASSUME NEW n \in Nodes, RestartNode(n)
     PROVE  Phases'
  BY <1>1 DEF RestartNode, Asked, Phases
<1>2. ASSUME NEW n \in Nodes, EnableNode(n)
     PROVE  Phases'
  BY <1>2 DEF EnableNode, Asked, Phases
<1>3. ASSUME NEW n \in Nodes, DisableNode(n)
     PROVE  Phases'
  BY <1>3 DEF DisableNode, Asked, Phases
<1>4. ASSUME NEW n \in Nodes, DeleteNode(n)
     PROVE  Phases'
  BY <1>4 DEF DeleteNode, Asked, Phases
<1>5. ASSUME NEW n \in Nodes, NEW d \in BOOLEAN, UpdateBinds(n, d)
     PROVE  Phases'
  <2>1. group' = group \/ group' = GroupOutdated(group, {n})
    BY <1>5 DEF UpdateBinds
  <2>2. \A q \in Profiles : group'[q].at = group[q].at /\ group'[q].pc = group[q].pc
    BY <2>1, GroupOutdatedType DEF TypeOK
  <2> QED  BY <2>2 DEF Phases
<1>6. ASSUME NEW S \in SUBSET Nodes, NEW p \in Profiles, NEW kind \in {"update", "modify"}, EditUnbinds(kind, S, p)
     PROVE  Phases'
  BY <1>6 DEF EditUnbinds, Asked, Phases
<1>7. ASSUME ModifyBinds
     PROVE  Phases'
  BY <1>7, WithGroupType, GroupOutdatedType, SMTT(60) DEF ModifyBinds, Phases
<1>8. ASSUME RestartAllNodes
     PROVE  Phases'
  BY <1>8 DEF RestartAllNodes, Asked, Phases
<1>9. ASSUME NEW p \in Profiles, NEW D \in SUBSET Nodes, UpdateConfigProfile(p, D)
     PROVE  Phases'
  BY <1>9, WithGroupType, ConfigOutdatedType, SMTT(60) DEF UpdateConfigProfile, Phases
<1>10. ASSUME NEW n \in Nodes, StartBegin(n)
     PROVE  Phases'
  BY <1>10 DEF StartBegin, Phases
<1>11. ASSUME NEW n \in Nodes, StartRefused(n)
     PROVE  Phases'
  BY <1>11 DEF StartRefused, Phases
<1>12. ASSUME NEW n \in Nodes, StartQueryFails(n)
     PROVE  Phases'
  BY <1>12 DEF StartQueryFails, Phases
<1>13. ASSUME NEW n \in Nodes, StartCheck(n)
     PROVE  Phases'
  BY <1>13 DEF StartCheck, Phases
<1>14. ASSUME NEW n \in Nodes, StartSend(n)
     PROVE  Phases'
  BY <1>14 DEF StartSend, Runs, Phases
<1>15. ASSUME NEW n \in Nodes, StartDone(n)
     PROVE  Phases'
  BY <1>15 DEF StartDone, Phases
<1>16. ASSUME NEW n \in Nodes, StartCrash(n)
     PROVE  Phases'
  BY <1>16 DEF StartCrash, Phases
<1>17. ASSUME NEW n \in Nodes, StopXray(n)
     PROVE  Phases'
  BY <1>17 DEF StopXray, Phases
<1>18. ASSUME NEW n \in Nodes, StopDone(n)
     PROVE  Phases'
  BY <1>18 DEF StopDone, Phases
<1>19. ASSUME NEW n \in Nodes, DropDone(n)
     PROVE  Phases'
  BY <1>19 DEF DropDone, Phases
<1>20. ASSUME FirstTick
     PROVE  Phases'
  BY <1>20 DEF FirstTick, Phases
<1>21. ASSUME NEW n \in Nodes, HealthTick(n)
     PROVE  Phases'
  BY <1>21 DEF HealthTick, Phases
<1>22. ASSUME NEW n \in Nodes, HealthProbe(n)
     PROVE  Phases'
  BY <1>22 DEF HealthProbe, Phases
<1>23. ASSUME NEW n \in Nodes, HealthDone(n)
     PROVE  Phases'
  BY <1>23 DEF HealthDone, Phases
<1>24. ASSUME NEW p \in Profiles, GroupBegin(p)
     PROVE  Phases'
  BY <1>24, BeginEffect DEF Phases
<1>25. ASSUME NEW p \in Profiles, NEW n \in Nodes, GroupMark(p, n)
     PROVE  Phases'
  <2>1. group[p].pc = "mark"
    BY <1>25 DEF GroupMark
  <2>2. CASE group[p].at[n] = "todo"
    BY <1>25, <2>1, <2>2, Moves DEF Phases, Moved
  <2>3. CASE group[p].at[n] # "todo"
    BY <1>25, <2>1, <2>3, ClearedEffect DEF Phases
  <2> QED  BY <2>2, <2>3
<1>26. ASSUME NEW p \in Profiles, GroupConfig(p)
     PROVE  Phases'
  BY <1>26, ConfigEffect DEF Phases, GroupConfig
<1>27. ASSUME NEW p \in Profiles, GroupQueryFails(p)
     PROVE  Phases'
  BY <1>27, EndEffect DEF Phases
<1>28. ASSUME NEW p \in Profiles, NEW n \in Nodes, GroupRefused(p, n)
     PROVE  Phases'
  BY <1>28, Moves DEF Phases, Moved
<1>29. ASSUME NEW p \in Profiles, NEW n \in Nodes, GroupNoPlugin(p, n)
     PROVE  Phases'
  BY <1>29, Moves DEF Phases, Moved
<1>30. ASSUME NEW p \in Profiles, NEW n \in Nodes, GroupSend(p, n)
     PROVE  Phases'
  <2>1. group[p].pc = "run"
    BY <1>30 DEF GroupSend
  <2> QED  BY <1>30, <2>1, Moves DEF Phases, Moved
<1>31. ASSUME NEW p \in Profiles, NEW n \in Nodes, GroupSent(p, n)
     PROVE  Phases'
  BY <1>31, Moves DEF Phases, Moved
<1>32. ASSUME NEW p \in Profiles, GroupDone(p)
     PROVE  Phases'
  BY <1>32, EndEffect DEF Phases
<1>33. ASSUME NEW p \in Profiles, GroupCrash(p)
     PROVE  Phases'
  BY <1>33, EndEffect DEF Phases
<1>34. ASSUME NEW p \in Profiles, Retry(p)
     PROVE  Phases'
  BY <1>34, WithGroupType DEF Retry, Phases
<1>35. ASSUME SchedulerRestarts
     PROVE  Phases'
  BY <1>35 DEF SchedulerRestarts, Phases
<1>36. ASSUME StartAll
     PROVE  Phases'
  BY <1>36, WithGroupType DEF StartAll, Phases
<1>37. ASSUME NEW n \in Nodes, HostChanges(n)
     PROVE  Phases'
  BY <1>37 DEF HostChanges, Phases
<1>38. ASSUME NEW n \in Nodes, XrayDies(n)
     PROVE  Phases'
  BY <1>38 DEF XrayDies, Phases
<1>39. ASSUME UNCHANGED vars
     PROVE  Phases'
  BY <1>39 DEF Phases
<1> QED
  BY <1>1, <1>2, <1>3, <1>4, <1>5, <1>6, <1>7, <1>8, <1>9, <1>10, <1>11, <1>12, <1>13,
     <1>14, <1>15, <1>16, <1>17, <1>18, <1>19, <1>20, <1>21, <1>22, <1>23, <1>24, <1>25,
     <1>26, <1>27, <1>28, <1>29, <1>30, <1>31, <1>32, <1>33, <1>34, <1>35, <1>36, <1>37,
     <1>38, <1>39 DEF Next, RequestStep, NodeStep, GroupStep

-----------------------------------------------------------------------------
(* What each action writes, node by node.                                    *)

Stuck(m)  == <<"stuck", m>> \in excuse
Missed(m) == <<"missed", m>> \in excuse

\* The writes of the jobs to a row.
Connects(n) ==
    row' = (IF row[n].here THEN [row EXCEPT ![n].connected = TRUE, ![n].connecting = FALSE]
                           ELSE row)

LEMMA JobRow ==
    ASSUME TypeOK, NEW n \in Nodes
    PROVE  /\ row' = Unconnected(n) =>
                 /\ row'[n].here = row[n].here /\ row'[n].disabled = row[n].disabled
                 /\ row'[n].inbounds = row[n].inbounds
                 /\ row'[n].profile = row[n].profile
                 /\ row[n].here => ~row'[n].connecting /\ ~row'[n].connected
                 /\ \A m \in Nodes \ {n} : row'[m] = row[m]
           /\ Connects(n) =>
                 /\ row'[n].here = row[n].here /\ row'[n].disabled = row[n].disabled
                 /\ row'[n].inbounds = row[n].inbounds
                 /\ row'[n].profile = row[n].profile
                 /\ row[n].here => ~row'[n].connecting /\ row'[n].connected
                 /\ \A m \in Nodes \ {n} : row'[m] = row[m]
           /\ row' = [row EXCEPT ![n].connecting = TRUE] =>
                 /\ row'[n].here = row[n].here /\ row'[n].disabled = row[n].disabled
                 /\ row'[n].inbounds = row[n].inbounds
                 /\ row'[n].profile = row[n].profile
                 /\ row'[n].connected = row[n].connected /\ row'[n].connecting
                 /\ \A m \in Nodes \ {n} : row'[m] = row[m]
           /\ row' = [row EXCEPT ![n] = Cleared(n)] =>
                 /\ row'[n].here = row[n].here /\ row'[n].disabled
                 /\ row'[n].inbounds = row[n].inbounds
                 /\ row'[n].profile = None
                 /\ ~row'[n].connected /\ ~row'[n].connecting
                 /\ \A m \in Nodes \ {n} : row'[m] = row[m]
<1>1. /\ row[n] \in Row /\ row \in [Nodes -> Row]
  BY DEF TypeOK
<1>2. ASSUME row' = Unconnected(n)
      PROVE  /\ row'[n].here = row[n].here /\ row'[n].disabled = row[n].disabled
             /\ row'[n].inbounds = row[n].inbounds
             /\ row'[n].profile = row[n].profile
             /\ row[n].here => ~row'[n].connecting /\ ~row'[n].connected
             /\ \A m \in Nodes \ {n} : row'[m] = row[m]
  BY <1>1, <1>2 DEF Unconnected, Row
<1>3. ASSUME Connects(n)
      PROVE  /\ row'[n].here = row[n].here /\ row'[n].disabled = row[n].disabled
             /\ row'[n].inbounds = row[n].inbounds
             /\ row'[n].profile = row[n].profile
             /\ row[n].here => ~row'[n].connecting /\ row'[n].connected
             /\ \A m \in Nodes \ {n} : row'[m] = row[m]
  BY <1>1, <1>3 DEF Row, Connects
<1>4. ASSUME row' = [row EXCEPT ![n].connecting = TRUE]
      PROVE  /\ row'[n].here = row[n].here /\ row'[n].disabled = row[n].disabled
             /\ row'[n].inbounds = row[n].inbounds
             /\ row'[n].profile = row[n].profile
             /\ row'[n].connected = row[n].connected /\ row'[n].connecting
             /\ \A m \in Nodes \ {n} : row'[m] = row[m]
  BY <1>1, <1>4 DEF Row
<1>5. ASSUME row' = [row EXCEPT ![n] = Cleared(n)]
      PROVE  /\ row'[n].here = row[n].here /\ row'[n].disabled
             /\ row'[n].inbounds = row[n].inbounds
             /\ row'[n].profile = None
             /\ ~row'[n].connected /\ ~row'[n].connecting
             /\ \A m \in Nodes \ {n} : row'[m] = row[m]
  BY <1>1, <1>5, ClearedType
<1> QED  BY <1>2, <1>3, <1>4, <1>5

LEMMA EnableEffect ==
    ASSUME TypeOK, NEW n \in Nodes, EnableNode(n)
    PROVE  /\ UNCHANGED <<node, group, retry, all, booted, edit>>
           /\ \A m \in Nodes \ {n} : /\ row'[m] = row[m] /\ start'[m] = start[m]
                                     /\ Missed(m)' <=> Missed(m)
           /\ \A m \in Nodes : Stuck(m)' <=> Stuck(m)
           /\ row'[n].here = row[n].here
           /\ \/ row'[n].disabled /\ ~row'[n].connecting /\ start' = start
              \/ /\ row'[n].connecting = row[n].connecting
                 /\ row'[n].connected = row[n].connected
                 /\ row'[n].profile = row[n].profile /\ row[n].profile # None
                 /\ row[n].inbounds
                 /\ IF start[n].pc = "none" THEN start'[n].pc = "waiting"
                                            ELSE start'[n] = start[n]
                 /\ Missed(n)' <=> Missed(n) \/ StartBehind(n)
<1>1. UNCHANGED <<node, group, retry, all, booted, edit>>
  BY DEF EnableNode, requestVars
<1>2. CASE Bare(n)
  <2>1. row' = [row EXCEPT ![n] = Cleared(n)] /\ start' = start
    BY <1>2 DEF EnableNode
  <2>2. \A m \in Nodes : (Stuck(m)' <=> Stuck(m)) /\ (Missed(m)' <=> Missed(m))
    BY <1>2, InBecause DEF EnableNode, Stuck, Missed
  <2> QED  BY <1>1, <2>1, <2>2, JobRow
<1>3. CASE ~Bare(n)
  <2>1. /\ row'[n].here = row[n].here /\ row'[n].connecting = row[n].connecting
        /\ row'[n].connected = row[n].connected /\ row'[n].profile = row[n].profile
        /\ \A m \in Nodes \ {n} : row'[m] = row[m]
    <3>1. row' = [row EXCEPT ![n] = [row[n] EXCEPT !.disabled = FALSE]]
      BY <1>3 DEF EnableNode
    <3>2. row \in [Nodes -> Row] /\ row[n] \in Row
      BY DEF TypeOK
    <3> QED  BY <3>1, <3>2 DEF Row
  <2>2. row[n].profile # None /\ row[n].inbounds
    BY <1>3 DEF Bare
  <2>3. /\ \A m \in Nodes \ {n} : start'[m] = start[m]
        /\ IF start[n].pc = "none" THEN start'[n].pc = "waiting" ELSE start'[n] = start[n]
    BY <1>3, WithStartType DEF EnableNode
  <2>4. /\ \A m \in Nodes : Stuck(m)' <=> Stuck(m)
        /\ \A m \in Nodes \ {n} : Missed(m)' <=> Missed(m)
        /\ Missed(n)' <=> Missed(n) \/ StartBehind(n)
    BY <1>3, InBecause DEF EnableNode, Dropped, Stuck, Missed
  <2> QED  BY <1>1, <2>1, <2>2, <2>3, <2>4
<1> QED  BY <1>2, <1>3

LEMMA DisableEffect ==
    ASSUME TypeOK, NEW n \in Nodes, DisableNode(n)
    PROVE  /\ UNCHANGED <<node, start, group, retry, all, booted, edit>>
           /\ \A m \in Nodes \ {n} : row'[m] = row[m] /\ (Stuck(m)' <=> Stuck(m))
           /\ \A m \in Nodes : Missed(m)' <=> Missed(m)
           /\ row'[n].here = row[n].here
           /\ row'[n].disabled /\ ~row'[n].connecting
<1> DEFINE r == [Cleared(n) EXCEPT !.profile = IF Bare(n) THEN None ELSE row[n].profile]
<1>1. r.here = row[n].here /\ r.disabled /\ ~r.connecting
  BY ClearedType DEF Row
<1>2. row' = [row EXCEPT ![n] = r]
  BY DEF DisableNode
<1> HIDE DEF r
<1>3. \A m \in Nodes : /\ Missed(m)' <=> Missed(m)
                       /\ m # n => (Stuck(m)' <=> Stuck(m))
  BY InBecause DEF DisableNode, Swallowed, Stuck, Missed
<1> QED  BY <1>1, <1>2, <1>3 DEF DisableNode, TypeOK, requestVars

LEMMA BindsEffect ==
    ASSUME TypeOK, NEW n \in Nodes, NEW d \in BOOLEAN, UpdateBinds(n, d)
    PROVE  /\ UNCHANGED <<retry, all, booted>> /\ edit.nodes = {n}
           /\ row[n].disabled => d
           /\ \A m \in Nodes : Stuck(m)' <=> Stuck(m)
           /\ \A m \in Nodes \ {n} : /\ node'[m] = node[m] /\ start'[m] = start[m]
                                     /\ Missed(m)' <=> Missed(m)
           /\ \A m \in Nodes : start'[m].pc = start[m].pc \/ start[m].pc = "none"
           /\ \A q \in Profiles :
                 /\ group'[q].at = group[q].at /\ group'[q].pc = group[q].pc
                 /\ \A m \in Nodes \ {n} : m \in group'[q].fresh <=> m \in group[q].fresh
           /\ row[n].here =>
                 /\ Missed(n) => Missed(n)'
                 /\ Starting(n) \/ (d /\ ~row[n].disabled) => Missed(n)'
                 /\ ~d /\ ~Starting(n) => start'[n].pc = "waiting"
<1> DEFINE st == IF d THEN start ELSE WithStart({n})
<1>1. /\ st \in [Nodes -> Start]
      /\ \A m \in Nodes \ {n} : st[m] = start[m]
      /\ \A m \in Nodes : st[m].pc = start[m].pc \/ start[m].pc = "none"
      /\ ~d /\ ~Starting(n) => st[n].pc = "waiting"
  BY WithStartType DEF TypeOK, Starting, Start
<1> HIDE DEF st
<1>2. CASE ~row[n].here
  BY <1>2 DEF UpdateBinds, TypeOK, Stuck, Missed
<1>3. CASE row[n].here
  <2>1. start' = StartOutdated(st, {n}) /\ node' = Outdated({n})
        /\ group' = GroupOutdated(group, {n})
    BY <1>3 DEF UpdateBinds, st
  <2>2. /\ \A m \in Nodes \ {n} : node'[m] = node[m] /\ start'[m] = start[m]
        /\ \A m \in Nodes : start'[m].pc = start[m].pc \/ start[m].pc = "none"
        /\ ~d /\ ~Starting(n) => start'[n].pc = "waiting"
    BY <1>1, <2>1, StartOutdatedType, OutdatedType
  <2>3. \A q \in Profiles :
            /\ group'[q].at = group[q].at /\ group'[q].pc = group[q].pc
            /\ \A m \in Nodes \ {n} : m \in group'[q].fresh <=> m \in group[q].fresh
    BY <2>1, GroupOutdatedType DEF TypeOK
  <2>4. /\ \A m \in Nodes : Stuck(m)' <=> Stuck(m)
        /\ \A m \in Nodes \ {n} : Missed(m)' <=> Missed(m)
        /\ Missed(n) => Missed(n)'
        /\ Starting(n) \/ (d /\ ~row[n].disabled) => Missed(n)'
    BY <1>3, InBecause DEF UpdateBinds, Stuck, Missed
  <2>5. UNCHANGED <<retry, all, booted>> /\ edit.nodes = {n} /\ (row[n].disabled => d)
    BY DEF UpdateBinds
  <2> QED  BY <2>2, <2>3, <2>4, <2>5
<1> QED  BY <1>2, <1>3

\* A profile of which all nodes will be started.
Pending(p) == group[p].pc = "waiting" \/ p \in retry

LEMMA WithGroupEffect ==
    ASSUME TypeOK, Phases, NEW P
    PROVE  \A p \in Profiles :
              /\ p \in P => WithGroup(P)[p].pc = "waiting" \/ p \in WithRetry(P)
              /\ group[p].pc = "waiting" => WithGroup(P)[p].pc = "waiting"
              /\ p \in retry => p \in WithRetry(P)
              /\ \A m \in Nodes :
                    /\ WithGroup(P)[p].at[m] = group[p].at[m]
                    /\ group[p].at[m] # "out" =>
                          WithGroup(P)[p].fresh = group[p].fresh
BY WithGroupType DEF WithRetry, Phases

LEMMA ModifyEffect ==
    ASSUME TypeOK, Phases, ModifyBinds
    PROVE  /\ UNCHANGED <<all, booted, excuse>> /\ edit.kind = "modify"
           /\ \A m \in Nodes : /\ start'[m].pc = start[m].pc
                               /\ m \notin edit.nodes => /\ node'[m] = node[m]
                                                         /\ start'[m] = start[m]
           /\ \A q \in Profiles :
                 /\ Pending(q) \/ q = edit.profile => Pending(q)'
                 /\ \A m \in Nodes :
                       /\ group'[q].at[m] = group[q].at[m]
                       /\ m \notin edit.nodes /\ group[q].at[m] # "out" =>
                             (m \in group'[q].fresh <=> m \in group[q].fresh)
<1>1. /\ start' = StartOutdated(start, edit.nodes) /\ node' = Outdated(edit.nodes)
      /\ group' = GroupOutdated(WithGroup({edit.profile}), edit.nodes)
      /\ retry' = WithRetry({edit.profile})
      /\ UNCHANGED <<all, booted, excuse>> /\ edit.kind = "modify"
  BY DEF ModifyBinds
<1>2. \A m \in Nodes : /\ start'[m].pc = start[m].pc
                       /\ m \notin edit.nodes => node'[m] = node[m] /\ start'[m] = start[m]
  BY <1>1, StartOutdatedType, OutdatedType DEF TypeOK
<1>3. \A q \in Profiles : /\ group'[q].at = WithGroup({edit.profile})[q].at
                          /\ group'[q].pc = WithGroup({edit.profile})[q].pc
                          /\ group'[q].fresh = WithGroup({edit.profile})[q].fresh \ edit.nodes
  BY <1>1, GroupOutdatedType, WithGroupType
<1>4. \A q \in Profiles :
          /\ Pending(q) \/ q = edit.profile => Pending(q)'
          /\ \A m \in Nodes :
                /\ group'[q].at[m] = group[q].at[m]
                /\ m \notin edit.nodes /\ group[q].at[m] # "out" =>
                      (m \in group'[q].fresh <=> m \in group[q].fresh)
  <2>1. \A q \in Profiles : Pending(q) \/ q = edit.profile => Pending(q)'
    BY <1>1, <1>3, WithGroupEffect DEF Pending
  <2>2. \A q \in Profiles, m \in Nodes :
            /\ group'[q].at[m] = group[q].at[m]
            /\ m \notin edit.nodes /\ group[q].at[m] # "out" =>
                  (m \in group'[q].fresh <=> m \in group[q].fresh)
    BY <1>3, WithGroupEffect
  <2> QED  BY <2>1, <2>2
<1> QED  BY <1>1, <1>2, <1>4

LEMMA ProfileEffect ==
    ASSUME TypeOK, Phases, NEW p \in Profiles, NEW D, UpdateConfigProfile(p, D)
    PROVE  /\ UNCHANGED <<all, booted, edit, excuse>> /\ D \subseteq Of(p)
           /\ \A m \in Nodes : /\ start'[m].pc = start[m].pc
                               /\ m \notin Of(p) => /\ node'[m] = node[m]
                                                    /\ start'[m] = start[m]
           /\ \A q \in Profiles :
                 /\ Pending(q) \/ q = p => Pending(q)'
                 /\ \A m \in Nodes :
                       /\ group'[q].at[m] = group[q].at[m]
                       /\ m \notin Of(p) /\ group[q].at[m] # "out" =>
                             (m \in group'[q].fresh <=> m \in group[q].fresh)
<1> DEFINE S == {n \in Of(p) : start[n].pc # "check" \/ n \in D}
<1>1. /\ start' = StartOutdated(start, S) /\ node' = Outdated(Of(p))
      /\ group' = ConfigOutdated(WithGroup({p}), D, Of(p))
      /\ retry' = WithRetry({p})
      /\ UNCHANGED <<all, booted, edit, excuse>> /\ D \subseteq Of(p)
  BY DEF UpdateConfigProfile, requestVars
<1>2. \A m : m \notin Of(p) => m \notin S
  OBVIOUS
<1> HIDE DEF S
<1>3. \A m \in Nodes : /\ start'[m].pc = start[m].pc
                       /\ m \notin Of(p) => node'[m] = node[m] /\ start'[m] = start[m]
  BY <1>1, <1>2, StartOutdatedType, OutdatedType DEF TypeOK
<1>4. \A q \in Profiles : /\ group'[q].at = WithGroup({p})[q].at
                          /\ group'[q].pc = WithGroup({p})[q].pc
                          /\ \A m \in Nodes : m \notin Of(p) =>
                                (m \in group'[q].fresh <=> m \in WithGroup({p})[q].fresh)
  BY <1>1, ConfigOutdatedType, WithGroupType
<1>5. \A q \in Profiles :
          /\ Pending(q) \/ q = p => Pending(q)'
          /\ \A m \in Nodes :
                /\ group'[q].at[m] = group[q].at[m]
                /\ m \notin Of(p) /\ group[q].at[m] # "out" =>
                      (m \in group'[q].fresh <=> m \in group[q].fresh)
  <2>1. \A q \in Profiles : Pending(q) \/ q = p => Pending(q)'
    BY <1>1, <1>4, WithGroupEffect DEF Pending
  <2>2. \A q \in Profiles, m \in Nodes :
            /\ group'[q].at[m] = group[q].at[m]
            /\ m \notin Of(p) /\ group[q].at[m] # "out" =>
                  (m \in group'[q].fresh <=> m \in group[q].fresh)
    BY <1>4, WithGroupEffect
  <2> QED  BY <2>1, <2>2
<1> QED  BY <1>1, <1>3, <1>5

LEMMA StartBeginEffect ==
    ASSUME TypeOK, NEW n \in Nodes, StartBegin(n)
    PROVE  /\ UNCHANGED <<node, group, retry, all, booted, edit>>
           /\ start[n].pc = "waiting"
           /\ \A m \in Nodes \ {n} : /\ row'[m] = row[m] /\ start'[m] = start[m]
                                     /\ Missed(m)' <=> Missed(m)
           /\ \A m \in Nodes : Stuck(m)' <=> Stuck(m)
           /\ row'[n].here = row[n].here
           /\ \/ /\ row' = row
                 /\ (row[n].here /\ ~node[n].fresh) \/ Missed(n) => Missed(n)'
              \/ row'[n].disabled /\ ~row'[n].connecting
              \/ /\ start'[n].pc = "check" /\ start'[n].fresh
                 /\ row'[n].disabled = row[n].disabled /\ row'[n].profile = row[n].profile
<1>1. UNCHANGED <<node, group, retry, all, booted, edit>> /\ start[n].pc = "waiting"
  BY DEF StartBegin, requestVars
<1>2. CASE ~row[n].here \/ row[n].connecting
  <2>1. /\ row' = row
        /\ \A m \in Nodes \ {n} : start'[m] = start[m]
    BY <1>2 DEF StartBegin, TypeOK
  <2>2. /\ \A m \in Nodes : Stuck(m)' <=> Stuck(m)
        /\ \A m \in Nodes \ {n} : Missed(m)' <=> Missed(m)
        /\ (row[n].here /\ ~node[n].fresh) \/ Missed(n) => Missed(n)'
    BY <1>2, InBecause DEF StartBegin, Stuck, Missed
  <2> QED  BY <1>1, <2>1, <2>2
<1>3. CASE row[n].here /\ ~row[n].connecting /\ Bare(n)
  <2>1. /\ row' = [row EXCEPT ![n] = Cleared(n)]
        /\ \A m \in Nodes \ {n} : start'[m] = start[m]
    BY <1>3 DEF StartBegin, TypeOK
  <2>2. \A m \in Nodes : (Stuck(m)' <=> Stuck(m)) /\ (Missed(m)' <=> Missed(m))
    BY <1>3, InBecause DEF StartBegin, Swallowed, Stuck, Missed
  <2> QED  BY <1>1, <2>1, <2>2, JobRow
<1>4. CASE row[n].here /\ ~row[n].connecting /\ ~Bare(n)
  <2>1. /\ row' = [row EXCEPT ![n].connecting = TRUE]
        /\ start' = [start EXCEPT ![n] = [start[n] EXCEPT !.pc = "check", !.fresh = TRUE]]
    BY <1>4 DEF StartBegin
  <2>2. /\ \A m \in Nodes \ {n} : start'[m] = start[m]
        /\ start'[n].pc = "check" /\ start'[n].fresh
    BY <2>1 DEF TypeOK, Start
  <2>3. /\ \A m \in Nodes : Stuck(m)' <=> Stuck(m)
        /\ \A m \in Nodes \ {n} : Missed(m)' <=> Missed(m)
    BY <1>4, InBecause DEF StartBegin, Stuck, Missed
  <2> QED  BY <1>1, <2>1, <2>2, <2>3, JobRow
<1> QED  BY <1>2, <1>3, <1>4

LEMMA StartRefusedEffect ==
    ASSUME TypeOK, NEW n \in Nodes, StartRefused(n)
    PROVE  /\ UNCHANGED <<node, group, retry, all, booted, edit>>
           /\ \A m \in Nodes \ {n} : /\ row'[m] = row[m] /\ start'[m] = start[m]
                                     /\ Missed(m)' <=> Missed(m)
                                     /\ Stuck(m)' <=> Stuck(m)
           /\ start'[n].pc = "none"
           /\ row'[n].here = row[n].here
           /\ row[n].here => ~row'[n].connecting /\ ~row'[n].connected
           /\ GroupBehind(n, Profiles) \/ Missed(n) => Missed(n)'
           /\ row'[n].disabled = row[n].disabled /\ row'[n].profile = row[n].profile
<1>1. UNCHANGED <<node, group, retry, all, booted, edit>> /\ row' = Unconnected(n)
      /\ start' = [start EXCEPT ![n] = NoStart]
  BY DEF StartRefused, requestVars
<1>2. /\ \A m \in Nodes \ {n} : (Missed(m)' <=> Missed(m)) /\ (Stuck(m)' <=> Stuck(m))
      /\ GroupBehind(n, Profiles) \/ Missed(n) => Missed(n)'
  BY InBecause DEF StartRefused, Stuck, Missed
<1> QED  BY <1>1, <1>2, JobRow, NoJobTypes DEF TypeOK

LEMMA StartQueryFailsEffect ==
    ASSUME TypeOK, NEW n \in Nodes, StartQueryFails(n)
    PROVE  /\ UNCHANGED <<row, node, group, retry, all, booted, edit>>
           /\ \A m \in Nodes \ {n} : start'[m] = start[m] /\ (Missed(m)' <=> Missed(m))
           /\ \A m \in Nodes : Stuck(m) => Stuck(m)'
           /\ Missed(n)'
           /\ row[n].here /\ row[n].connecting => Stuck(n)'
<1>1. start' = [start EXCEPT ![n] = NoStart]
  BY DEF StartQueryFails
<1>2. /\ \A m \in Nodes \ {n} : Missed(m)' <=> Missed(m)
      /\ \A m \in Nodes : Stuck(m) => Stuck(m)'
      /\ Missed(n)'
      /\ row[n].here /\ row[n].connecting => Stuck(n)'
  BY InBecause DEF StartQueryFails, Stuck, Missed, Left
<1> QED  BY <1>1, <1>2 DEF TypeOK, StartQueryFails, requestVars

\* What a node runs after it was sent something.
LEMMA RunsEffect ==
    ASSUME TypeOK, NEW n \in Nodes, NEW fresh \in BOOLEAN, Runs(n, fresh)
    PROVE  /\ \A m \in Nodes \ {n} : node'[m] = node[m] /\ (Missed(m)' <=> Missed(m))
           /\ \A m \in Nodes : Stuck(m)' <=> Stuck(m)
           /\ node'[n].fresh = fresh
           /\ ~fresh /\ (node[n].fresh \/ Missed(n)) => Missed(n)'
<1>1. node[n] \in Node /\ node \in [Nodes -> Node]
  BY DEF TypeOK
<1>2. node' = [node EXCEPT ![n] = [node[n] EXCEPT !.running = TRUE, !.fresh = fresh]]
  BY DEF Runs
<1>3. /\ \A m \in Nodes \ {n} : node'[m] = node[m]
      /\ node'[n].fresh = fresh
  BY <1>1, <1>2 DEF Node
<1>4. /\ \A m \in Nodes \ {n} : Missed(m)' <=> Missed(m)
      /\ \A m \in Nodes : Stuck(m)' <=> Stuck(m)
      /\ ~fresh /\ (node[n].fresh \/ Missed(n)) => Missed(n)'
  BY InBecause DEF Runs, Stuck, Missed
<1> QED  BY <1>3, <1>4

LEMMA StartSendEffect ==
    ASSUME TypeOK, NEW n \in Nodes, StartSend(n)
    PROVE  /\ UNCHANGED <<row, group, retry, all, booted, edit>>
           /\ \A m \in Nodes \ {n} : /\ start'[m] = start[m] /\ node'[m] = node[m]
                                     /\ Missed(m)' <=> Missed(m)
           /\ \A m \in Nodes : Stuck(m)' <=> Stuck(m)
           /\ start[n].pc = "send" /\ start'[n].pc = "sent"
           /\ node'[n].fresh = start[n].fresh
           /\ ~start[n].fresh /\ (node[n].fresh \/ Missed(n)) => Missed(n)'
<1>1. start[n] \in Start /\ start[n].fresh \in BOOLEAN
  BY DEF TypeOK, Start
<1>2. /\ start' = [start EXCEPT ![n] = [start[n] EXCEPT !.pc = "sent"]]
      /\ Runs(n, start[n].fresh) /\ start[n].pc = "send"
      /\ UNCHANGED <<row, group, retry, all, booted, edit>>
  BY DEF StartSend, requestVars
<1>3. start'[n].pc = "sent" /\ \A m \in Nodes \ {n} : start'[m] = start[m]
  BY <1>1, <1>2 DEF TypeOK, Start
<1> QED  BY <1>1, <1>2, <1>3, RunsEffect

LEMMA StartDoneEffect ==
    ASSUME TypeOK, NEW n \in Nodes, StartDone(n)
    PROVE  /\ UNCHANGED <<node, group, retry, all, booted, edit>>
           /\ start[n].pc = "sent" /\ start'[n].pc = "none"
           /\ \A m \in Nodes \ {n} : /\ row'[m] = row[m] /\ start'[m] = start[m]
                                     /\ Stuck(m)' <=> Stuck(m)
           /\ \A m \in Nodes : Missed(m)' <=> Missed(m)
           /\ row'[n].here = row[n].here /\ row'[n].disabled = row[n].disabled
           /\ row'[n].profile = row[n].profile
           /\ row[n].here => ~row'[n].connecting
<1>1. /\ UNCHANGED <<node, group, retry, all, booted, edit>>
      /\ Connects(n)
      /\ start' = [start EXCEPT ![n] = NoStart] /\ start[n].pc = "sent"
  BY DEF StartDone, requestVars, Connects
<1>2. \A m \in Nodes : /\ Missed(m)' <=> Missed(m)
                       /\ m # n => (Stuck(m)' <=> Stuck(m))
  BY InBecause DEF StartDone, Stuck, Missed
<1> QED  BY <1>1, <1>2, JobRow, NoJobTypes DEF TypeOK

LEMMA StartCrashEffect ==
    ASSUME TypeOK, NEW n \in Nodes, StartCrash(n)
    PROVE  /\ UNCHANGED <<row, node, group, retry, all, booted, edit>>
           /\ \A m \in Nodes \ {n} : start'[m] = start[m] /\ (Missed(m)' <=> Missed(m))
           /\ \A m \in Nodes : Stuck(m) => Stuck(m)'
           /\ Missed(n) => Missed(n)'
           /\ start'[n].pc = "waiting" \/ Missed(n)'
           /\ row[n].here /\ row[n].connecting => Stuck(n)'
<1>1. start' = [start EXCEPT ![n] = IF start[n].stalled THEN NoStart
                    ELSE [pc |-> "waiting", fresh |-> FALSE, stalled |-> TRUE]]
  BY DEF StartCrash
<1>2. /\ \A m \in Nodes \ {n} : Missed(m)' <=> Missed(m)
      /\ \A m \in Nodes : Stuck(m) => Stuck(m)'
      /\ Missed(n) => Missed(n)'
      /\ start[n].stalled => Missed(n)'
      /\ row[n].here /\ row[n].connecting => Stuck(n)'
  BY InBecause DEF StartCrash, Stuck, Missed, Left
<1>3. /\ \A m \in Nodes \ {n} : start'[m] = start[m]
      /\ ~start[n].stalled => start'[n].pc = "waiting"
  BY <1>1 DEF TypeOK
<1>4. UNCHANGED <<row, node, group, retry, all, booted, edit>>
  BY DEF StartCrash, requestVars
<1> QED  BY <1>2, <1>3, <1>4

LEMMA StopDoneEffect ==
    ASSUME TypeOK, NEW n \in Nodes, StopDone(n)
    PROVE  /\ UNCHANGED <<node, start, group, retry, all, booted, edit>>
           /\ \A m \in Nodes \ {n} : row'[m] = row[m] /\ (Stuck(m)' <=> Stuck(m))
           /\ \A m \in Nodes : Missed(m)' <=> Missed(m)
           /\ row'[n].here = row[n].here
           /\ row[n].here => row'[n].disabled /\ ~row'[n].connecting
<1> DEFINE r == [row[n] EXCEPT !.disabled = TRUE, !.connecting = FALSE, !.connected = FALSE]
<1>1. row[n] \in Row
  BY RowTypes
<1>2. r.here = row[n].here /\ r.disabled /\ ~r.connecting
  BY <1>1 DEF Row
<1>3. row' = IF row[n].here THEN [row EXCEPT ![n] = r] ELSE row
  BY DEF StopDone
<1> HIDE DEF r
<1>4. \A m \in Nodes : /\ Missed(m)' <=> Missed(m)
                       /\ m # n => (Stuck(m)' <=> Stuck(m))
  BY InBecause DEF StopDone, Stuck, Missed
<1> QED  BY <1>2, <1>3, <1>4 DEF StopDone, TypeOK, requestVars

LEMMA DropDoneEffect ==
    ASSUME TypeOK, NEW n \in Nodes, DropDone(n)
    PROVE  /\ UNCHANGED <<node, start, group, retry, all, booted, edit>>
           /\ \A m \in Nodes \ {n} : /\ row'[m] = row[m] /\ (Stuck(m)' <=> Stuck(m))
                                     /\ Missed(m)' <=> Missed(m)
           /\ ~row'[n].here
<1>1. [Cleared(n) EXCEPT !.here = FALSE].here = FALSE
  BY ClearedType DEF Row
<1>2. \A m \in Nodes \ {n} : (Stuck(m)' <=> Stuck(m)) /\ (Missed(m)' <=> Missed(m))
  BY DEF DropDone, Stuck, Missed
<1> QED  BY <1>1, <1>2 DEF DropDone, TypeOK, jobVars

LEMMA HealthDoneEffect ==
    ASSUME TypeOK, NEW n \in Nodes, HealthDone(n)
    PROVE  /\ UNCHANGED <<node, group, retry, all, booted, edit>>
           /\ \A m \in Nodes \ {n} : start'[m] = start[m] /\ (Missed(m)' <=> Missed(m))
           /\ \A m \in Nodes : Stuck(m)' <=> Stuck(m)
           /\ Missed(n) => Missed(n)'
           /\ start[n].pc # "none" => start'[n] = start[n]
           /\ start[n].pc = "none" => start'[n].pc \in {"none", "waiting"}
           /\ row[n].here /\ row'[n].connected =>
                 /\ start[n].pc = "none" => start'[n].pc = "waiting"
                 /\ StartBehind(n) => Missed(n)'
<1>1. CASE ~row[n].here
  BY <1>1 DEF HealthDone, requestVars, Stuck, Missed
<1>2. CASE row[n].here
  <2>1. start' = IF health[n].pc = "null" THEN start ELSE WithStart({n})
    BY <1>2 DEF HealthDone
  <2>2. row'[n].connected => health[n].pc = "up"
    BY <1>2, HealthRow
  <2>3. /\ \A m \in Nodes \ {n} : Missed(m)' <=> Missed(m)
        /\ \A m \in Nodes : Stuck(m)' <=> Stuck(m)
        /\ Missed(n) => Missed(n)'
        /\ health[n].pc = "up" /\ StartBehind(n) => Missed(n)'
    BY <1>2, InBecause DEF HealthDone, Dropped, Stuck, Missed
  <2>4. /\ \A m \in Nodes \ {n} : start'[m] = start[m]
        /\ start[n].pc # "none" => start'[n] = start[n]
        /\ start[n].pc = "none" => start'[n].pc \in {"none", "waiting"}
        /\ start[n].pc = "none" /\ health[n].pc = "up" => start'[n].pc = "waiting"
    BY <2>1, WithStartType
  <2> QED  BY <1>2, <2>2, <2>3, <2>4 DEF HealthDone, requestVars
<1> QED  BY <1>1, <1>2

LEMMA GroupMarkEffect ==
    ASSUME TypeOK, NEW p \in Profiles, NEW n \in Nodes, GroupMark(p, n)
    PROVE  /\ UNCHANGED <<node, start, retry, all, booted, edit>>
           /\ \A m \in Nodes \ {n} : row'[m] = row[m] /\ (Stuck(m)' <=> Stuck(m))
           /\ \A m \in Nodes : Missed(m)' <=> Missed(m)
           /\ row'[n].here = row[n].here
           /\ \/ /\ group[p].at[n] = "todo"
                 /\ row'[n].disabled = row[n].disabled
                 /\ row'[n].profile = row[n].profile
              \/ /\ group[p].at[n] = "bare"
                 /\ row[n].here => row'[n].disabled /\ ~row'[n].connecting
<1>1. /\ UNCHANGED <<node, start, retry, all, booted, edit>>
      /\ \/ /\ group[p].at[n] = "todo"
            /\ row' = IF row[n].here THEN [row EXCEPT ![n].connecting = TRUE] ELSE row
         \/ /\ group[p].at[n] = "bare"
            /\ row' = IF row[n].here THEN [row EXCEPT ![n] = Cleared(n)] ELSE row
  BY DEF GroupMark, requestVars
<1>2. \A m \in Nodes : /\ Missed(m)' <=> Missed(m)
                       /\ m # n => (Stuck(m)' <=> Stuck(m))
  BY InBecause DEF GroupMark, Swallowed, Stuck, Missed
<1> QED  BY <1>1, <1>2, JobRow

\* The job fails or dies: what it leaves behind is noted.
LEMMA GroupLeavesEffect ==
    ASSUME TypeOK, NEW p \in Profiles, GroupQueryFails(p) \/ GroupCrash(p)
    PROVE  /\ UNCHANGED <<row, node, start, retry, all, booted, edit>>
           /\ \A m \in Nodes :
                 /\ Stuck(m) => Stuck(m)'
                 /\ Missed(m) => Missed(m)'
                 /\ row[m].here /\ row[m].connecting /\ GroupOn(p, m) =>
                       Starting(m) \/ Stuck(m)'
                 /\ group[p].at[m] \in {"todo", "bare", "marked"} =>
                       Missed(m)' \/ group'[p].pc = "waiting"
<1>1. UNCHANGED <<row, node, start, retry, all, booted, edit>>
  BY DEF GroupQueryFails, GroupCrash, requestVars
<1>2. \A m \in Nodes : /\ Stuck(m) => Stuck(m)'
                       /\ Missed(m) => Missed(m)'
                       /\ m \in LeftBy(p) => Stuck(m)'
  BY InBecause DEF GroupQueryFails, GroupCrash, Stuck, Missed
<1>3. \A m \in Nodes : row[m].here /\ row[m].connecting /\ GroupOn(p, m) =>
                           Starting(m) \/ m \in LeftBy(p)
  BY DEF LeftBy, Left, Marked
<1>4. \A m \in Nodes : group[p].at[m] \in {"todo", "bare", "marked"} =>
                           m \in Marked(p) \cup ToMark(p)
  BY DEF Marked, ToMark, GroupOn
<1>5. ASSUME GroupQueryFails(p) \/ group[p].stalled, NEW m \in Marked(p) \cup ToMark(p)
      PROVE  Missed(m)'
  BY <1>5, InBecause DEF GroupQueryFails, GroupCrash, Missed
<1>6. GroupQueryFails(p) \/ group[p].stalled \/ group'[p].pc = "waiting"
  BY EndEffect
<1> QED  BY <1>1, <1>2, <1>3, <1>4, <1>5, <1>6

LEMMA GroupRefusedEffect ==
    ASSUME TypeOK, NEW p \in Profiles, NEW n \in Nodes, GroupRefused(p, n)
    PROVE  /\ UNCHANGED <<node, start, retry, all, booted, edit>>
           /\ group' = [group EXCEPT ![p].at[n] = "out"]
           /\ \A m \in Nodes \ {n} : /\ row'[m] = row[m]
                                     /\ Missed(m)' <=> Missed(m)
                                     /\ Stuck(m)' <=> Stuck(m)
           /\ row'[n].here = row[n].here
           /\ row[n].here => ~row'[n].connecting /\ ~row'[n].connected
           /\ row'[n].disabled = row[n].disabled /\ row'[n].profile = row[n].profile
           /\ StartBehind(n) \/ GroupBehind(n, Profiles \ {p}) \/ Missed(n) => Missed(n)'
<1>1. /\ UNCHANGED <<node, start, retry, all, booted, edit>> /\ row' = Unconnected(n)
      /\ group' = [group EXCEPT ![p].at[n] = "out"]
  BY DEF GroupRefused, requestVars
<1> DEFINE B == {m \in {n} : GroupBehind(n, Profiles \ {p})}
<1>2. excuse' = (Dropped(n) \ Because("stuck", {n})) \cup Because("missed", B)
  BY DEF GroupRefused
<1>3. \A m : m \in B <=> m = n /\ GroupBehind(n, Profiles \ {p})
  OBVIOUS
<1> HIDE DEF B
<1>4. \A m, w : <<w, m>> \in Dropped(n) <=>
                   <<w, m>> \in excuse \/ (w = "missed" /\ m = n /\ StartBehind(n))
  BY InBecause DEF Dropped
<1>5. \A m : /\ Missed(m)' <=> <<"missed", m>> \in Dropped(n) \/ m \in B
             /\ Stuck(m)' <=> <<"stuck", m>> \in Dropped(n) /\ m # n
  BY <1>2, InBecause DEF Stuck, Missed
<1>6. /\ \A m \in Nodes \ {n} : (Missed(m)' <=> Missed(m)) /\ (Stuck(m)' <=> Stuck(m))
      /\ StartBehind(n) \/ GroupBehind(n, Profiles \ {p}) \/ Missed(n) => Missed(n)'
  BY <1>3, <1>4, <1>5 DEF Stuck, Missed
<1> QED  BY <1>1, <1>6, JobRow

LEMMA GroupNoPluginEffect ==
    ASSUME TypeOK, NEW p \in Profiles, NEW n \in Nodes, GroupNoPlugin(p, n)
    PROVE  /\ UNCHANGED <<row, node, start, retry, all, booted, edit>>
           /\ group' = [group EXCEPT ![p].at[n] = "out"]
           /\ \A m \in Nodes : (Missed(m) => Missed(m)') /\ (Stuck(m) => Stuck(m)')
           /\ Missed(n)'
           /\ row[n].here /\ row[n].connecting /\ GroupOn(p, n) => Starting(n) \/ Stuck(n)'
<1>1. \A m \in Nodes : (Missed(m) => Missed(m)') /\ (Stuck(m) => Stuck(m)')
  BY DEF GroupNoPlugin, Missed, Stuck
<1>2. Missed(n)' /\ (n \in LeftBy(p) => Stuck(n)')
  BY InBecause DEF GroupNoPlugin, Missed, Stuck
<1>3. row[n].here /\ row[n].connecting /\ GroupOn(p, n) => Starting(n) \/ n \in LeftBy(p)
  BY DEF LeftBy, Left, Marked
<1> QED  BY <1>1, <1>2, <1>3 DEF GroupNoPlugin, requestVars

LEMMA GroupSendEffect ==
    ASSUME TypeOK, NEW p \in Profiles, NEW n \in Nodes, GroupSend(p, n)
    PROVE  /\ UNCHANGED <<row, start, retry, all, booted, edit>>
           /\ group' = [group EXCEPT ![p].at[n] = "sent"]
           /\ group[p].at[n] \in {"marked", "cleared"}
           /\ \A m \in Nodes \ {n} : node'[m] = node[m] /\ (Missed(m)' <=> Missed(m))
           /\ \A m \in Nodes : Stuck(m)' <=> Stuck(m)
           /\ node'[n].fresh = (n \in group[p].fresh)
           /\ n \notin group[p].fresh /\ (node[n].fresh \/ Missed(n)) => Missed(n)'
<1>1. (n \in group[p].fresh) \in BOOLEAN
  OBVIOUS
<1>2. /\ Runs(n, n \in group[p].fresh)
      /\ UNCHANGED <<row, start, retry, all, booted, edit>>
      /\ group' = [group EXCEPT ![p].at[n] = "sent"]
      /\ group[p].at[n] \in {"marked", "cleared"}
  BY DEF GroupSend, ToSend, requestVars
<1> QED  BY <1>1, <1>2, RunsEffect

LEMMA GroupSentEffect ==
    ASSUME TypeOK, NEW p \in Profiles, NEW n \in Nodes, GroupSent(p, n)
    PROVE  /\ UNCHANGED <<node, start, retry, all, booted, edit>>
           /\ group' = [group EXCEPT ![p].at[n] = "out"]
           /\ group[p].at[n] = "sent"
           /\ \A m \in Nodes \ {n} : row'[m] = row[m] /\ (Stuck(m)' <=> Stuck(m))
           /\ \A m \in Nodes : Missed(m)' <=> Missed(m)
           /\ row'[n].here = row[n].here /\ row'[n].disabled = row[n].disabled
           /\ row'[n].profile = row[n].profile
           /\ row[n].here => ~row'[n].connecting
<1>1. /\ UNCHANGED <<node, start, retry, all, booted, edit>>
      /\ Connects(n)
      /\ group' = [group EXCEPT ![p].at[n] = "out"] /\ group[p].at[n] = "sent"
  BY DEF GroupSent, requestVars, Connects
<1>2. \A m \in Nodes : /\ Missed(m)' <=> Missed(m)
                       /\ m # n => (Stuck(m)' <=> Stuck(m))
  BY InBecause DEF GroupSent, Stuck, Missed
<1> QED  BY <1>1, <1>2, JobRow

LEMMA GroupDoneEffect ==
    ASSUME TypeOK, NEW p \in Profiles, GroupDone(p)
    PROVE  /\ UNCHANGED <<row, node, start, retry, all, booted, edit, excuse>>
           /\ \A m \in Nodes : group[p].at[m] \in {"out", "cleared"}
<1>1. \A m \in Nodes : m \notin ToMark(p) /\ m \notin Marked(p)
  BY DEF GroupDone
<1>2. \A m \in Nodes : group[p].at[m] \in Ats
  BY DEF TypeOK, Group, Ats
<1> QED  BY <1>1, <1>2 DEF GroupDone, ToMark, Marked, GroupOn, Ats, requestVars

-----------------------------------------------------------------------------
(* A connecting node.                                                        *)

\* Every way out of a job says that the node is no longer connecting, or is
\* noted: ConnectingHandled holds of every step.
ConnectingAt(m) == row[m].here /\ row[m].connecting => Working(m) \/ Stuck(m)

Handled == \A m \in Nodes : ConnectingAt(m)

LEMMA HandledStep ==
    ASSUME TypeOK, Phases, Handled, [Next]_vars
    PROVE  Handled'
<1> USE DEF vars, jobVars, requestVars
<1>1. ASSUME NEW n \in Nodes, RestartNode(n)
     PROVE  Handled'
  BY <1>1, WithStartType DEF RestartNode, Stuck, Handled, ConnectingAt, Working,
     Starting, GroupOn
<1>2. ASSUME NEW n \in Nodes, EnableNode(n)
     PROVE  Handled'
  BY <1>2, EnableEffect DEF Handled, ConnectingAt, Working, Starting, GroupOn
<1>3. ASSUME NEW n \in Nodes, DisableNode(n)
     PROVE  Handled'
  BY <1>3, DisableEffect DEF Handled, ConnectingAt, Working, Starting, GroupOn
<1>4. ASSUME NEW n \in Nodes, DeleteNode(n)
     PROVE  Handled'
  BY <1>4 DEF DeleteNode, Asked, Stuck, Handled, ConnectingAt, Working, Starting,
     GroupOn
<1>5. ASSUME NEW n \in Nodes, NEW d \in BOOLEAN, UpdateBinds(n, d)
     PROVE  Handled'
  BY <1>5, BindsRow, BindsEffect DEF Handled, ConnectingAt, Working, Starting, GroupOn
<1>6. ASSUME NEW S \in SUBSET Nodes, NEW p \in Profiles, NEW kind \in {"update", "modify"}, EditUnbinds(kind, S, p)
     PROVE  Handled'
  <2>1. UNCHANGED <<start, group, excuse>>
    BY <1>6 DEF EditUnbinds
  <2> QED  BY <1>6, <2>1, UnbindsRow DEF Stuck, Handled, ConnectingAt, Working,
              Starting, GroupOn
<1>7. ASSUME ModifyBinds
     PROVE  Handled'
  BY <1>7, ModifyRow, ModifyEffect DEF Stuck, Handled, ConnectingAt, Working, Starting,
     GroupOn
<1>8. ASSUME RestartAllNodes
     PROVE  Handled'
  BY <1>8 DEF RestartAllNodes, Asked, Stuck, Handled, ConnectingAt, Working, Starting,
     GroupOn
<1>9. ASSUME NEW p \in Profiles, NEW D \in SUBSET Nodes, UpdateConfigProfile(p, D)
     PROVE  Handled'
  BY <1>9, ProfileRow, ProfileEffect DEF Stuck, Handled, ConnectingAt, Working,
     Starting, GroupOn
<1>10. ASSUME NEW n \in Nodes, StartBegin(n)
     PROVE  Handled'
  BY <1>10, StartBeginEffect DEF Handled, ConnectingAt, Working, Starting, GroupOn
<1>11. ASSUME NEW n \in Nodes, StartRefused(n)
     PROVE  Handled'
  BY <1>11, StartRefusedEffect DEF Handled, ConnectingAt, Working, Starting, GroupOn
<1>12. ASSUME NEW n \in Nodes, StartQueryFails(n)
     PROVE  Handled'
  BY <1>12, StartQueryFailsEffect DEF Handled, ConnectingAt, Working, Starting, GroupOn
<1>13. ASSUME NEW n \in Nodes, StartCheck(n)
     PROVE  Handled'
  <2>1. start[n] \in Start /\ start \in [Nodes -> Start]
    BY DEF TypeOK
  <2>2. \A m \in Nodes : Starting(m) => Starting(m)'
    BY <1>13, <2>1 DEF StartCheck, Starting, Start
  <2> QED  BY <1>13, <2>2 DEF StartCheck, Handled, ConnectingAt, Working, GroupOn, Stuck
<1>14. ASSUME NEW n \in Nodes, StartSend(n)
     PROVE  Handled'
  BY <1>14, StartSendEffect DEF Handled, ConnectingAt, Working, Starting, GroupOn
<1>15. ASSUME NEW n \in Nodes, StartDone(n)
     PROVE  Handled'
  BY <1>15, StartDoneEffect DEF Handled, ConnectingAt, Working, Starting, GroupOn
<1>16. ASSUME NEW n \in Nodes, StartCrash(n)
     PROVE  Handled'
  BY <1>16, StartCrashEffect DEF Handled, ConnectingAt, Working, Starting, GroupOn
<1>17. ASSUME NEW n \in Nodes, StopXray(n)
     PROVE  Handled'
  BY <1>17, InBecause DEF StopXray, Stuck, Handled, ConnectingAt, Working, Starting,
     GroupOn
<1>18. ASSUME NEW n \in Nodes, StopDone(n)
     PROVE  Handled'
  BY <1>18, StopDoneEffect DEF Handled, ConnectingAt, Working, Starting, GroupOn
<1>19. ASSUME NEW n \in Nodes, DropDone(n)
     PROVE  Handled'
  BY <1>19, DropDoneEffect DEF Handled, ConnectingAt, Working, Starting, GroupOn
<1>20. ASSUME FirstTick
     PROVE  Handled'
  BY <1>20 DEF FirstTick, Stuck, Handled, ConnectingAt, Working, Starting, GroupOn
<1>21. ASSUME NEW n \in Nodes, HealthTick(n)
     PROVE  Handled'
  BY <1>21 DEF HealthTick, Stuck, Handled, ConnectingAt, Working, Starting, GroupOn
<1>22. ASSUME NEW n \in Nodes, HealthProbe(n)
     PROVE  Handled'
  BY <1>22 DEF HealthProbe, Stuck, Handled, ConnectingAt, Working, Starting, GroupOn
<1>23. ASSUME NEW n \in Nodes, HealthDone(n)
     PROVE  Handled'
  BY <1>23, HealthRow, HealthDoneEffect DEF Handled, ConnectingAt, Working, Starting,
     GroupOn
<1>24. ASSUME NEW p \in Profiles, GroupBegin(p)
     PROVE  Handled'
  <2>1. \A m \in Nodes : ~GroupOn(p, m)
    BY <1>24 DEF GroupBegin, Phases, GroupOn
  <2>2. \A q \in Profiles, m \in Nodes : GroupOn(q, m) => GroupOn(q, m)'
    BY <1>24, <2>1, BeginEffect DEF GroupOn
  <2> QED  BY <1>24, <2>2 DEF GroupBegin, Handled, ConnectingAt, Working, Starting,
              Stuck
<1>25. ASSUME NEW p \in Profiles, NEW n \in Nodes, GroupMark(p, n)
     PROVE  Handled'
  <2>1. CASE group[p].at[n] = "todo"
    <3>1. Moved(p, n, "marked")
      BY <1>25, <2>1, Moves
    <3>2. GroupOn(p, n)'
      BY <3>1 DEF GroupOn, Moved
    <3>3. \A q \in Profiles, m \in Nodes : q # p \/ m # n => (GroupOn(q, m)' <=> GroupOn(q, m))
      BY <3>1 DEF GroupOn, Moved
    <3> QED  BY <1>25, <3>2, <3>3, GroupMarkEffect DEF Handled, ConnectingAt, Working,
                Starting
  <2>2. CASE group[p].at[n] # "todo"
    <3>1. group[p].at[n] = "bare"
      BY <1>25, <2>2 DEF GroupMark
    <3>2. \A q \in Profiles, m \in Nodes : GroupOn(q, m) => GroupOn(q, m)'
      BY <1>25, <2>2, <3>1, ClearedEffect DEF GroupOn
    <3> QED  BY <1>25, <2>2, <3>2, GroupMarkEffect DEF Handled, ConnectingAt, Working,
                Starting
  <2> QED  BY <2>1, <2>2
<1>26. ASSUME NEW p \in Profiles, GroupConfig(p)
     PROVE  Handled'
  BY <1>26, ConfigEffect DEF GroupConfig, Stuck, Handled, ConnectingAt, Working,
     Starting, GroupOn
<1>27. ASSUME NEW p \in Profiles, GroupQueryFails(p)
     PROVE  Handled'
  <2>1. \A q \in Profiles \ {p}, m \in Nodes : GroupOn(q, m) => GroupOn(q, m)'
    BY <1>27, EndEffect DEF GroupOn
  <2> QED  BY <1>27, <2>1, GroupLeavesEffect DEF Handled, ConnectingAt, Working,
              Starting
<1>28. ASSUME NEW p \in Profiles, NEW n \in Nodes, GroupRefused(p, n)
     PROVE  Handled'
  <2>1. Moved(p, n, "out")
    BY <1>28, Moves
  <2>2. \A q \in Profiles, m \in Nodes : q # p \/ m # n => (GroupOn(q, m)' <=> GroupOn(q, m))
    BY <2>1 DEF GroupOn, Moved
  <2> QED  BY <1>28, <2>2, GroupRefusedEffect DEF Handled, ConnectingAt, Working,
              Starting
<1>29. ASSUME NEW p \in Profiles, NEW n \in Nodes, GroupNoPlugin(p, n)
     PROVE  Handled'
  <2>1. Moved(p, n, "out")
    BY <1>29, Moves
  <2>2. \A q \in Profiles, m \in Nodes : q # p \/ m # n => (GroupOn(q, m)' <=> GroupOn(q, m))
    BY <2>1 DEF GroupOn, Moved
  <2> QED  BY <1>29, <2>2, GroupNoPluginEffect DEF Handled, ConnectingAt, Working,
              Starting
<1>30. ASSUME NEW p \in Profiles, NEW n \in Nodes, GroupSend(p, n)
     PROVE  Handled'
  <2>1. Moved(p, n, "sent")
    BY <1>30, Moves
  <2>2. \A q \in Profiles, m \in Nodes : q # p \/ m # n => (GroupOn(q, m)' <=> GroupOn(q, m))
    BY <2>1 DEF GroupOn, Moved
  <2>3. GroupOn(p, n)'
    BY <2>1 DEF GroupOn, Moved
  <2> QED  BY <1>30, <2>2, <2>3, GroupSendEffect DEF Handled, ConnectingAt, Working,
              Starting
<1>31. ASSUME NEW p \in Profiles, NEW n \in Nodes, GroupSent(p, n)
     PROVE  Handled'
  <2>1. Moved(p, n, "out")
    BY <1>31, Moves
  <2>2. \A q \in Profiles, m \in Nodes : q # p \/ m # n => (GroupOn(q, m)' <=> GroupOn(q, m))
    BY <2>1 DEF GroupOn, Moved
  <2> QED  BY <1>31, <2>2, GroupSentEffect DEF Handled, ConnectingAt, Working, Starting
<1>32. ASSUME NEW p \in Profiles, GroupDone(p)
     PROVE  Handled'
  <2>1. \A q \in Profiles, m \in Nodes : GroupOn(q, m) => GroupOn(q, m)'
    BY <1>32, EndEffect, GroupDoneEffect DEF GroupOn
  <2> QED  BY <1>32, <2>1, GroupDoneEffect DEF Handled, ConnectingAt, Working, Starting,
              Stuck
<1>33. ASSUME NEW p \in Profiles, GroupCrash(p)
     PROVE  Handled'
  <2>1. \A q \in Profiles \ {p}, m \in Nodes : GroupOn(q, m) => GroupOn(q, m)'
    BY <1>33, EndEffect DEF GroupOn
  <2> QED  BY <1>33, <2>1, GroupLeavesEffect DEF Handled, ConnectingAt, Working,
              Starting
<1>34. ASSUME NEW p \in Profiles, Retry(p)
     PROVE  Handled'
  <2>1. \A q \in Profiles, m \in Nodes : GroupOn(q, m)' <=> GroupOn(q, m)
    BY <1>34, WithGroupEffect DEF Retry, GroupOn
  <2> QED  BY <1>34, <2>1 DEF Retry, Handled, ConnectingAt, Working, Starting, Stuck
<1>35. ASSUME SchedulerRestarts
     PROVE  Handled'
  BY <1>35 DEF SchedulerRestarts, Stuck, Handled, ConnectingAt, Working, Starting,
     GroupOn
<1>36. ASSUME StartAll
     PROVE  Handled'
  <2>1. \A q \in Profiles, m \in Nodes : GroupOn(q, m)' <=> GroupOn(q, m)
    BY <1>36, WithGroupEffect DEF StartAll, GroupOn
  <2> QED  BY <1>36, <2>1 DEF StartAll, Handled, ConnectingAt, Working, Starting, Stuck
<1>37. ASSUME NEW n \in Nodes, HostChanges(n)
     PROVE  Handled'
  BY <1>37 DEF HostChanges, Stuck, Handled, ConnectingAt, Working, Starting, GroupOn
<1>38. ASSUME NEW n \in Nodes, XrayDies(n)
     PROVE  Handled'
  BY <1>38 DEF XrayDies, Stuck, Handled, ConnectingAt, Working, Starting, GroupOn
<1>39. ASSUME UNCHANGED vars
     PROVE  Handled'
  BY <1>39 DEF Stuck, Handled, ConnectingAt, Working, Starting, GroupOn
<1> QED
  BY <1>1, <1>2, <1>3, <1>4, <1>5, <1>6, <1>7, <1>8, <1>9, <1>10, <1>11, <1>12, <1>13,
     <1>14, <1>15, <1>16, <1>17, <1>18, <1>19, <1>20, <1>21, <1>22, <1>23, <1>24, <1>25,
     <1>26, <1>27, <1>28, <1>29, <1>30, <1>31, <1>32, <1>33, <1>34, <1>35, <1>36, <1>37,
     <1>38, <1>39 DEF Next, RequestStep, NodeStep, GroupStep

-----------------------------------------------------------------------------
(* The profile of an enabled node.                                           *)

\* An enabled node has one; the nodes that a profile modification left without
\* inbounds have the one they will be started with.
ProfiledAt(m) ==
    /\ row[m].here /\ ~row[m].disabled => row[m].profile # None
    /\ edit.kind = "modify" /\ m \in edit.nodes =>
          /\ ~row[m].inbounds
          /\ row[m].here /\ ~row[m].disabled => row[m].profile = edit.profile

Profiled == \A m \in Nodes : ProfiledAt(m)

LEMMA ProfiledStep ==
    ASSUME TypeOK, Profiled, [Next]_vars
    PROVE  Profiled'
<1> USE DEF vars, jobVars, requestVars
<1>1. ASSUME NEW n \in Nodes, RestartNode(n)
     PROVE  Profiled'
  BY <1>1 DEF RestartNode, Asked, Profiled, ProfiledAt
<1>2. ASSUME NEW n \in Nodes, EnableNode(n)
     PROVE  Profiled'
  <2>1. UNCHANGED edit
    BY <1>2 DEF EnableNode
  <2>2. \A m \in Nodes : row[m] \in Row
    BY RowTypes
  <2>3. CASE Bare(n)
    <3>1. row' = [row EXCEPT ![n] = Cleared(n)]
      BY <1>2, <2>3 DEF EnableNode
    <3> QED  BY <2>1, <3>1, ClearedType DEF TypeOK, Profiled, ProfiledAt
  <2>4. CASE ~Bare(n)
    <3>1. row[n].profile # None /\ row[n].inbounds
      BY <2>4 DEF Bare
    <3>2. \A m \in Nodes : row'[m].profile = row[m].profile /\ row'[m].inbounds = row[m].inbounds
            /\ row'[m].here = row[m].here /\ (m # n => row'[m] = row[m])
      <4>1. row' = [row EXCEPT ![n] = [row[n] EXCEPT !.disabled = FALSE]]
        BY <1>2, <2>4 DEF EnableNode
      <4> QED  BY <2>2, <4>1 DEF TypeOK, Row
    <3> QED  BY <2>1, <3>1, <3>2 DEF Profiled, ProfiledAt
  <2> QED  BY <2>3, <2>4
<1>3. ASSUME NEW n \in Nodes, DisableNode(n)
     PROVE  Profiled'
  <2> DEFINE r == [Cleared(n) EXCEPT !.profile = IF Bare(n) THEN None ELSE row[n].profile]
  <2>1. r.disabled /\ r.inbounds = row[n].inbounds
    BY ClearedType DEF Row
  <2>2. row' = [row EXCEPT ![n] = r] /\ edit' = edit
    BY <1>3 DEF DisableNode
  <2> HIDE DEF r
  <2> QED  BY <2>1, <2>2 DEF TypeOK, Profiled, ProfiledAt
<1>4. ASSUME NEW n \in Nodes, DeleteNode(n)
     PROVE  Profiled'
  BY <1>4 DEF DeleteNode, Asked, Profiled, ProfiledAt
<1>5. ASSUME NEW n \in Nodes, NEW d \in BOOLEAN, UpdateBinds(n, d)
     PROVE  Profiled'
  <2>1. edit' = NoEdit /\ edit.profile \in Profiles
    BY <1>5 DEF UpdateBinds, TypeOK, NoEdit
  <2> QED  BY <1>5, <2>1, BindsRow, NoneAssumption DEF NoEdit, Profiled, ProfiledAt
<1>6. ASSUME NEW S \in SUBSET Nodes, NEW p \in Profiles, NEW kind \in {"update", "modify"}, EditUnbinds(kind, S, p)
     PROVE  Profiled'
  <2>1. edit' = [kind |-> kind, nodes |-> S, profile |-> p]
    BY <1>6 DEF EditUnbinds
  <2> QED  BY <1>6, <2>1, UnbindsRow, NoneAssumption DEF Profiled, ProfiledAt
<1>7. ASSUME ModifyBinds
     PROVE  Profiled'
  <2>1. edit' = NoEdit
    BY <1>7 DEF ModifyBinds
  <2> QED  BY <1>7, <2>1, ModifyRow DEF NoEdit, Profiled, ProfiledAt
<1>8. ASSUME RestartAllNodes
     PROVE  Profiled'
  BY <1>8 DEF RestartAllNodes, Asked, Profiled, ProfiledAt
<1>9. ASSUME NEW p \in Profiles, NEW D \in SUBSET Nodes, UpdateConfigProfile(p, D)
     PROVE  Profiled'
  <2>1. edit' = edit
    BY <1>9 DEF UpdateConfigProfile
  <2> QED  BY <1>9, <2>1, ProfileRow DEF Profiled, ProfiledAt
<1>10. ASSUME NEW n \in Nodes, StartBegin(n)
     PROVE  Profiled'
  <2>1. \/ row' = row
        \/ row' = [row EXCEPT ![n] = Cleared(n)]
        \/ row' = [row EXCEPT ![n].connecting = TRUE]
    BY <1>10 DEF StartBegin
  <2>2. edit' = edit
    BY <1>10 DEF StartBegin, requestVars
  <2>3. \A m \in Nodes : /\ row'[m].here = row[m].here /\ row'[m].inbounds = row[m].inbounds
                           /\ \/ row'[m].disabled
                              \/ row'[m].disabled = row[m].disabled /\ row'[m].profile = row[m].profile
    BY <2>1, JobRow
  <2> QED  BY <2>2, <2>3 DEF Profiled, ProfiledAt
<1>11. ASSUME NEW n \in Nodes, StartRefused(n)
     PROVE  Profiled'
  <2>1. row' = Unconnected(n)
    BY <1>11 DEF StartRefused
  <2>2. edit' = edit
    BY <1>11 DEF StartRefused, requestVars
  <2>3. \A m \in Nodes : /\ row'[m].here = row[m].here /\ row'[m].inbounds = row[m].inbounds
                           /\ \/ row'[m].disabled
                              \/ row'[m].disabled = row[m].disabled /\ row'[m].profile = row[m].profile
    BY <2>1, JobRow
  <2> QED  BY <2>2, <2>3 DEF Profiled, ProfiledAt
<1>12. ASSUME NEW n \in Nodes, StartQueryFails(n)
     PROVE  Profiled'
  BY <1>12 DEF StartQueryFails, Profiled, ProfiledAt
<1>13. ASSUME NEW n \in Nodes, StartCheck(n)
     PROVE  Profiled'
  BY <1>13 DEF StartCheck, Profiled, ProfiledAt
<1>14. ASSUME NEW n \in Nodes, StartSend(n)
     PROVE  Profiled'
  BY <1>14 DEF StartSend, Runs, Profiled, ProfiledAt
<1>15. ASSUME NEW n \in Nodes, StartDone(n)
     PROVE  Profiled'
  <2>1. Connects(n)
    BY <1>15 DEF StartDone, Connects
  <2>2. edit' = edit
    BY <1>15 DEF StartDone, requestVars
  <2>3. \A m \in Nodes : /\ row'[m].here = row[m].here /\ row'[m].inbounds = row[m].inbounds
                           /\ \/ row'[m].disabled
                              \/ row'[m].disabled = row[m].disabled /\ row'[m].profile = row[m].profile
    BY <2>1, JobRow
  <2> QED  BY <2>2, <2>3 DEF Profiled, ProfiledAt
<1>16. ASSUME NEW n \in Nodes, StartCrash(n)
     PROVE  Profiled'
  BY <1>16 DEF StartCrash, Profiled, ProfiledAt
<1>17. ASSUME NEW n \in Nodes, StopXray(n)
     PROVE  Profiled'
  BY <1>17 DEF StopXray, Profiled, ProfiledAt
<1>18. ASSUME NEW n \in Nodes, StopDone(n)
     PROVE  Profiled'
  <2> DEFINE r == [row[n] EXCEPT !.disabled = TRUE, !.connecting = FALSE, !.connected = FALSE]
  <2>1. row[n] \in Row /\ Cleared(n) \in Row
    BY RowTypes, ClearedType
  <2>2. r.disabled /\ r.inbounds = row[n].inbounds
    BY <2>1, ClearedType DEF Row
  <2>3. row' \in {row, [row EXCEPT ![n] = r]} /\ edit' = edit
    BY <1>18 DEF StopDone
  <2> HIDE DEF r
  <2> QED  BY <2>2, <2>3 DEF TypeOK, Profiled, ProfiledAt
<1>19. ASSUME NEW n \in Nodes, DropDone(n)
     PROVE  Profiled'
  <2> DEFINE r == [Cleared(n) EXCEPT !.here = FALSE]
  <2>1. row[n] \in Row /\ Cleared(n) \in Row
    BY RowTypes, ClearedType
  <2>2. ~r.here /\ r.inbounds = row[n].inbounds
    BY <2>1, ClearedType DEF Row
  <2>3. row' \in {row, [row EXCEPT ![n] = r]} /\ edit' = edit
    BY <1>19 DEF DropDone
  <2> HIDE DEF r
  <2> QED  BY <2>2, <2>3 DEF TypeOK, Profiled, ProfiledAt
<1>20. ASSUME FirstTick
     PROVE  Profiled'
  BY <1>20 DEF FirstTick, Profiled, ProfiledAt
<1>21. ASSUME NEW n \in Nodes, HealthTick(n)
     PROVE  Profiled'
  BY <1>21 DEF HealthTick, Profiled, ProfiledAt
<1>22. ASSUME NEW n \in Nodes, HealthProbe(n)
     PROVE  Profiled'
  BY <1>22 DEF HealthProbe, Profiled, ProfiledAt
<1>23. ASSUME NEW n \in Nodes, HealthDone(n)
     PROVE  Profiled'
  <2>1. edit' = edit
    BY <1>23 DEF HealthDone
  <2> QED  BY <1>23, <2>1, HealthRow DEF Profiled, ProfiledAt
<1>24. ASSUME NEW p \in Profiles, GroupBegin(p)
     PROVE  Profiled'
  BY <1>24 DEF GroupBegin, Profiled, ProfiledAt
<1>25. ASSUME NEW p \in Profiles, NEW n \in Nodes, GroupMark(p, n)
     PROVE  Profiled'
  <2>1. \/ row' = row
        \/ row' = [row EXCEPT ![n] = Cleared(n)]
        \/ row' = [row EXCEPT ![n].connecting = TRUE]
    BY <1>25 DEF GroupMark
  <2>2. edit' = edit
    BY <1>25 DEF GroupMark, requestVars
  <2>3. \A m \in Nodes : /\ row'[m].here = row[m].here /\ row'[m].inbounds = row[m].inbounds
                           /\ \/ row'[m].disabled
                              \/ row'[m].disabled = row[m].disabled /\ row'[m].profile = row[m].profile
    BY <2>1, JobRow
  <2> QED  BY <2>2, <2>3 DEF Profiled, ProfiledAt
<1>26. ASSUME NEW p \in Profiles, GroupConfig(p)
     PROVE  Profiled'
  BY <1>26 DEF GroupConfig, Profiled, ProfiledAt
<1>27. ASSUME NEW p \in Profiles, GroupQueryFails(p)
     PROVE  Profiled'
  BY <1>27 DEF GroupQueryFails, Profiled, ProfiledAt
<1>28. ASSUME NEW p \in Profiles, NEW n \in Nodes, GroupRefused(p, n)
     PROVE  Profiled'
  <2>1. row' = Unconnected(n)
    BY <1>28 DEF GroupRefused
  <2>2. edit' = edit
    BY <1>28 DEF GroupRefused, requestVars
  <2>3. \A m \in Nodes : /\ row'[m].here = row[m].here /\ row'[m].inbounds = row[m].inbounds
                           /\ \/ row'[m].disabled
                              \/ row'[m].disabled = row[m].disabled /\ row'[m].profile = row[m].profile
    BY <2>1, JobRow
  <2> QED  BY <2>2, <2>3 DEF Profiled, ProfiledAt
<1>29. ASSUME NEW p \in Profiles, NEW n \in Nodes, GroupNoPlugin(p, n)
     PROVE  Profiled'
  BY <1>29 DEF GroupNoPlugin, Profiled, ProfiledAt
<1>30. ASSUME NEW p \in Profiles, NEW n \in Nodes, GroupSend(p, n)
     PROVE  Profiled'
  BY <1>30 DEF GroupSend, Runs, Profiled, ProfiledAt
<1>31. ASSUME NEW p \in Profiles, NEW n \in Nodes, GroupSent(p, n)
     PROVE  Profiled'
  <2>1. Connects(n)
    BY <1>31 DEF GroupSent, Connects
  <2>2. edit' = edit
    BY <1>31 DEF GroupSent, requestVars
  <2>3. \A m \in Nodes : /\ row'[m].here = row[m].here /\ row'[m].inbounds = row[m].inbounds
                           /\ \/ row'[m].disabled
                              \/ row'[m].disabled = row[m].disabled /\ row'[m].profile = row[m].profile
    BY <2>1, JobRow
  <2> QED  BY <2>2, <2>3 DEF Profiled, ProfiledAt
<1>32. ASSUME NEW p \in Profiles, GroupDone(p)
     PROVE  Profiled'
  BY <1>32 DEF GroupDone, Profiled, ProfiledAt
<1>33. ASSUME NEW p \in Profiles, GroupCrash(p)
     PROVE  Profiled'
  BY <1>33 DEF GroupCrash, Profiled, ProfiledAt
<1>34. ASSUME NEW p \in Profiles, Retry(p)
     PROVE  Profiled'
  BY <1>34 DEF Retry, Profiled, ProfiledAt
<1>35. ASSUME SchedulerRestarts
     PROVE  Profiled'
  BY <1>35 DEF SchedulerRestarts, Profiled, ProfiledAt
<1>36. ASSUME StartAll
     PROVE  Profiled'
  BY <1>36 DEF StartAll, Profiled, ProfiledAt
<1>37. ASSUME NEW n \in Nodes, HostChanges(n)
     PROVE  Profiled'
  BY <1>37 DEF HostChanges, Profiled, ProfiledAt
<1>38. ASSUME NEW n \in Nodes, XrayDies(n)
     PROVE  Profiled'
  BY <1>38 DEF XrayDies, Profiled, ProfiledAt
<1>39. ASSUME UNCHANGED vars
     PROVE  Profiled'
  BY <1>39 DEF Profiled, ProfiledAt
<1> QED
  BY <1>1, <1>2, <1>3, <1>4, <1>5, <1>6, <1>7, <1>8, <1>9, <1>10, <1>11, <1>12, <1>13,
     <1>14, <1>15, <1>16, <1>17, <1>18, <1>19, <1>20, <1>21, <1>22, <1>23, <1>24, <1>25,
     <1>26, <1>27, <1>28, <1>29, <1>30, <1>31, <1>32, <1>33, <1>34, <1>35, <1>36, <1>37,
     <1>38, <1>39 DEF Next, RequestStep, NodeStep, GroupStep

-----------------------------------------------------------------------------
(* What a by-profile job takes to be current.                                *)

\* A node that the job cleared is not, and the others have its profile still,
\* unless they were cleared or are being changed.
CurrentAt(q, m) ==
    /\ group[q].at[m] = "cleared" => m \notin group[q].fresh
    /\ m \in group[q].fresh =>
          row[m].profile \in {q, None} \/ m \in edit.nodes \/ ~row[m].here

Current == \A q \in Profiles, m \in Nodes : CurrentAt(q, m)

\* A step that does not write to the profile of a row, except to clear it, and
\* that adds no node to what a job takes to be current.
LEMMA KeepsCurrent ==
    ASSUME Current, edit' = edit,
           \A m \in Nodes : /\ row'[m].here => row[m].here
                           /\ row'[m].profile \in {row[m].profile, None},
           \A q \in Profiles, m \in Nodes :
              /\ group'[q].at[m] = "cleared" =>
                    group[q].at[m] = "cleared" \/ m \notin group'[q].fresh
              /\ m \in group'[q].fresh => m \in group[q].fresh
    PROVE  Current'
<1> SUFFICES ASSUME NEW q \in Profiles, NEW m \in Nodes
             PROVE  CurrentAt(q, m)'
  BY DEF Current
<1>1. CurrentAt(q, m)
  BY DEF Current
<1>2. /\ row'[m].here => row[m].here
      /\ row'[m].profile = row[m].profile \/ row'[m].profile = None
  OBVIOUS
<1>3. /\ group'[q].at[m] = "cleared" =>
            group[q].at[m] = "cleared" \/ m \notin group'[q].fresh
      /\ m \in group'[q].fresh => m \in group[q].fresh
  OBVIOUS
<1> QED  BY <1>1, <1>2, <1>3 DEF CurrentAt

LEMMA CurrentStep ==
    ASSUME TypeOK, Current, [Next]_vars
    PROVE  Current'
<1> USE DEF vars, jobVars, requestVars
<1>1. ASSUME NEW n \in Nodes, RestartNode(n)
     PROVE  Current'
  BY <1>1 DEF RestartNode, Asked, Current, CurrentAt
<1>2. ASSUME NEW n \in Nodes, EnableNode(n)
     PROVE  Current'
  <2>1. CASE Bare(n)
    <3>1. row' = [row EXCEPT ![n] = Cleared(n)] /\ UNCHANGED <<group, edit>>
      BY <1>2, <2>1 DEF EnableNode, requestVars
    <3>2. \A m \in Nodes : /\ row'[m].here => row[m].here
                           /\ row'[m].profile \in {row[m].profile, None}
      BY <3>1, JobRow
    <3> QED  BY <3>1, <3>2, KeepsCurrent
  <2>2. CASE ~Bare(n)
    <3>1. row' = [row EXCEPT ![n] = [row[n] EXCEPT !.disabled = FALSE]] /\ UNCHANGED <<group, edit>>
      BY <1>2, <2>2 DEF EnableNode, requestVars
    <3>2. \A m \in Nodes : row'[m].here = row[m].here /\ row'[m].profile = row[m].profile
      <4>1. row[n] \in Row
        BY DEF TypeOK
      <4> QED  BY <3>1, <4>1 DEF TypeOK, Row
    <3> QED  BY <3>1, <3>2 DEF Current, CurrentAt
  <2> QED  BY <2>1, <2>2
<1>3. ASSUME NEW n \in Nodes, DisableNode(n)
     PROVE  Current'
  <2> DEFINE r == [Cleared(n) EXCEPT !.profile = IF Bare(n) THEN None ELSE row[n].profile]
  <2>1. row[n] \in Row /\ Cleared(n) \in Row
    BY ClearedType DEF TypeOK
  <2>2. r.profile \in {row[n].profile, None} /\ r.here = row[n].here
    BY <2>1, ClearedType DEF Row
  <2>3. row' \in {row, [row EXCEPT ![n] = r]}
    BY <1>3 DEF DisableNode
  <2> HIDE DEF r
  <2>4. \A m \in Nodes : /\ row'[m].here => row[m].here
                         /\ row'[m].profile \in {row[m].profile, None}
    BY <2>2, <2>3 DEF TypeOK
  <2>5. \A q \in Profiles, m \in Nodes :
           /\ group'[q].at[m] = "cleared" =>
                 group[q].at[m] = "cleared" \/ m \notin group'[q].fresh
           /\ m \in group'[q].fresh => m \in group[q].fresh
    BY <1>3 DEF DisableNode, requestVars
  <2>6. edit' = edit
    BY <1>3 DEF DisableNode, requestVars
  <2> QED  BY <2>4, <2>5, <2>6, KeepsCurrent
<1>4. ASSUME NEW n \in Nodes, DeleteNode(n)
     PROVE  Current'
  BY <1>4 DEF DeleteNode, Asked, Current, CurrentAt
<1>5. ASSUME NEW n \in Nodes, NEW d \in BOOLEAN, UpdateBinds(n, d)
     PROVE  Current'
  <2>1. /\ edit.nodes = {n} /\ edit' = NoEdit
        /\ IF row[n].here THEN group' = GroupOutdated(group, {n}) ELSE group' = group
    BY <1>5 DEF UpdateBinds
  <2>2. \A q \in Profiles, m \in Nodes :
           /\ group'[q].at[m] = group[q].at[m]
           /\ m \in group'[q].fresh => m \in group[q].fresh /\ (m # n \/ ~row[n].here)
    BY <2>1, GroupOutdatedType DEF TypeOK
  <2>3. \A m \in Nodes : /\ row'[m].here = row[m].here
                         /\ m # n => row'[m] = row[m]
    BY <1>5, BindsRow
  <2> QED  BY <2>1, <2>2, <2>3 DEF Current, CurrentAt
<1>6. ASSUME NEW S \in SUBSET Nodes, NEW p \in Profiles, NEW kind \in {"update", "modify"}, EditUnbinds(kind, S, p)
     PROVE  Current'
  <2>1. /\ edit = NoEdit /\ edit' = [kind |-> kind, nodes |-> S, profile |-> p]
        /\ group' = group
    BY <1>6 DEF EditUnbinds
  <2>2. edit.nodes = {} /\ edit'.nodes = S
    BY <2>1 DEF NoEdit
  <2>3. \A m \in Nodes : m \in S \/ row'[m] = row[m]
    BY <1>6, UnbindsRow
  <2> QED  BY <2>1, <2>2, <2>3 DEF Current, CurrentAt
<1>7. ASSUME ModifyBinds
     PROVE  Current'
  <2>1. group' = GroupOutdated(WithGroup({edit.profile}), edit.nodes)
    BY <1>7 DEF ModifyBinds
  <2>2. \A q \in Profiles, m \in Nodes :
           /\ group'[q].at[m] = "cleared" => group[q].at[m] = "cleared"
           /\ m \in group'[q].fresh => m \in group[q].fresh /\ m \notin edit.nodes
    BY <2>1, WithGroupType, GroupOutdatedType
  <2>3. \A m \in Nodes : row'[m].here = row[m].here /\ row'[m].profile = row[m].profile
    BY <1>7, ModifyRow
  <2> QED  BY <2>2, <2>3 DEF Current, CurrentAt
<1>8. ASSUME RestartAllNodes
     PROVE  Current'
  BY <1>8 DEF RestartAllNodes, Asked, Current, CurrentAt
<1>9. ASSUME NEW p \in Profiles, NEW D \in SUBSET Nodes, UpdateConfigProfile(p, D)
     PROVE  Current'
  <2>1. group' = ConfigOutdated(WithGroup({p}), D, Of(p)) /\ edit' = edit
    BY <1>9 DEF UpdateConfigProfile, requestVars
  <2>2. \A q \in Profiles, m \in Nodes :
           /\ group'[q].at[m] = "cleared" => group[q].at[m] = "cleared"
           /\ m \in group'[q].fresh => m \in group[q].fresh
    BY <2>1, WithGroupType, ConfigOutdatedType
  <2>3. \A m \in Nodes : row'[m].here = row[m].here /\ row'[m].profile = row[m].profile
    BY <1>9, ProfileRow
  <2> QED  BY <2>1, <2>2, <2>3 DEF Current, CurrentAt
<1>10. ASSUME NEW n \in Nodes, StartBegin(n)
     PROVE  Current'
  <2>1. row' \in {row, [row EXCEPT ![n] = Cleared(n)], [row EXCEPT ![n].connecting = TRUE]}
    BY <1>10 DEF StartBegin
  <2>2. \A m \in Nodes : /\ row'[m].here => row[m].here
                         /\ row'[m].profile \in {row[m].profile, None}
    BY <2>1, JobRow
  <2>3. \A q \in Profiles, m \in Nodes :
           /\ group'[q].at[m] = "cleared" =>
                 group[q].at[m] = "cleared" \/ m \notin group'[q].fresh
           /\ m \in group'[q].fresh => m \in group[q].fresh
    BY <1>10 DEF StartBegin, requestVars
  <2>4. edit' = edit
    BY <1>10 DEF StartBegin, requestVars
  <2> QED  BY <2>2, <2>3, <2>4, KeepsCurrent
<1>11. ASSUME NEW n \in Nodes, StartRefused(n)
     PROVE  Current'
  <2>1. row' = Unconnected(n)
    BY <1>11 DEF StartRefused
  <2>2. \A m \in Nodes : /\ row'[m].here => row[m].here
                         /\ row'[m].profile \in {row[m].profile, None}
    BY <2>1, JobRow
  <2>3. \A q \in Profiles, m \in Nodes :
           /\ group'[q].at[m] = "cleared" =>
                 group[q].at[m] = "cleared" \/ m \notin group'[q].fresh
           /\ m \in group'[q].fresh => m \in group[q].fresh
    BY <1>11 DEF StartRefused, requestVars
  <2>4. edit' = edit
    BY <1>11 DEF StartRefused, requestVars
  <2> QED  BY <2>2, <2>3, <2>4, KeepsCurrent
<1>12. ASSUME NEW n \in Nodes, StartQueryFails(n)
     PROVE  Current'
  BY <1>12 DEF StartQueryFails, Current, CurrentAt
<1>13. ASSUME NEW n \in Nodes, StartCheck(n)
     PROVE  Current'
  BY <1>13 DEF StartCheck, Current, CurrentAt
<1>14. ASSUME NEW n \in Nodes, StartSend(n)
     PROVE  Current'
  BY <1>14 DEF StartSend, Runs, Current, CurrentAt
<1>15. ASSUME NEW n \in Nodes, StartDone(n)
     PROVE  Current'
  <2>1. Connects(n)
    BY <1>15 DEF StartDone, Connects
  <2>2. \A m \in Nodes : /\ row'[m].here => row[m].here
                         /\ row'[m].profile \in {row[m].profile, None}
    BY <2>1, JobRow
  <2>3. \A q \in Profiles, m \in Nodes :
           /\ group'[q].at[m] = "cleared" =>
                 group[q].at[m] = "cleared" \/ m \notin group'[q].fresh
           /\ m \in group'[q].fresh => m \in group[q].fresh
    BY <1>15 DEF StartDone, requestVars
  <2>4. edit' = edit
    BY <1>15 DEF StartDone, requestVars
  <2> QED  BY <2>2, <2>3, <2>4, KeepsCurrent
<1>16. ASSUME NEW n \in Nodes, StartCrash(n)
     PROVE  Current'
  BY <1>16 DEF StartCrash, Current, CurrentAt
<1>17. ASSUME NEW n \in Nodes, StopXray(n)
     PROVE  Current'
  BY <1>17 DEF StopXray, Current, CurrentAt
<1>18. ASSUME NEW n \in Nodes, StopDone(n)
     PROVE  Current'
  <2> DEFINE r == [row[n] EXCEPT !.disabled = TRUE, !.connecting = FALSE, !.connected = FALSE]
  <2>1. row[n] \in Row /\ Cleared(n) \in Row
    BY ClearedType DEF TypeOK
  <2>2. r.profile = row[n].profile /\ r.here = row[n].here
    BY <2>1, ClearedType DEF Row
  <2>3. row' \in {row, [row EXCEPT ![n] = r]}
    BY <1>18 DEF StopDone
  <2> HIDE DEF r
  <2>4. \A m \in Nodes : /\ row'[m].here => row[m].here
                         /\ row'[m].profile \in {row[m].profile, None}
    BY <2>2, <2>3 DEF TypeOK
  <2>5. \A q \in Profiles, m \in Nodes :
           /\ group'[q].at[m] = "cleared" =>
                 group[q].at[m] = "cleared" \/ m \notin group'[q].fresh
           /\ m \in group'[q].fresh => m \in group[q].fresh
    BY <1>18 DEF StopDone, requestVars
  <2>6. edit' = edit
    BY <1>18 DEF StopDone, requestVars
  <2> QED  BY <2>4, <2>5, <2>6, KeepsCurrent
<1>19. ASSUME NEW n \in Nodes, DropDone(n)
     PROVE  Current'
  <2> DEFINE r == [Cleared(n) EXCEPT !.here = FALSE]
  <2>1. row[n] \in Row /\ Cleared(n) \in Row
    BY ClearedType DEF TypeOK
  <2>2. r.profile = None /\ ~r.here
    BY <2>1, ClearedType DEF Row
  <2>3. row' \in {row, [row EXCEPT ![n] = r]}
    BY <1>19 DEF DropDone
  <2> HIDE DEF r
  <2>4. \A m \in Nodes : /\ row'[m].here => row[m].here
                         /\ row'[m].profile \in {row[m].profile, None}
    BY <2>2, <2>3 DEF TypeOK
  <2>5. \A q \in Profiles, m \in Nodes :
           /\ group'[q].at[m] = "cleared" =>
                 group[q].at[m] = "cleared" \/ m \notin group'[q].fresh
           /\ m \in group'[q].fresh => m \in group[q].fresh
    BY <1>19 DEF DropDone, requestVars
  <2>6. edit' = edit
    BY <1>19 DEF DropDone, requestVars
  <2> QED  BY <2>4, <2>5, <2>6, KeepsCurrent
<1>20. ASSUME FirstTick
     PROVE  Current'
  BY <1>20 DEF FirstTick, Current, CurrentAt
<1>21. ASSUME NEW n \in Nodes, HealthTick(n)
     PROVE  Current'
  BY <1>21 DEF HealthTick, Current, CurrentAt
<1>22. ASSUME NEW n \in Nodes, HealthProbe(n)
     PROVE  Current'
  BY <1>22 DEF HealthProbe, Current, CurrentAt
<1>23. ASSUME NEW n \in Nodes, HealthDone(n)
     PROVE  Current'
  <2>1. \A m \in Nodes : /\ row'[m].here => row[m].here
                         /\ row'[m].profile \in {row[m].profile, None}
    BY <1>23, HealthRow
  <2>2. \A q \in Profiles, m \in Nodes :
           /\ group'[q].at[m] = "cleared" =>
                 group[q].at[m] = "cleared" \/ m \notin group'[q].fresh
           /\ m \in group'[q].fresh => m \in group[q].fresh
    BY <1>23 DEF HealthDone, requestVars
  <2>3. edit' = edit
    BY <1>23 DEF HealthDone, requestVars
  <2> QED  BY <2>1, <2>2, <2>3, KeepsCurrent
<1>24. ASSUME NEW p \in Profiles, GroupBegin(p)
     PROVE  Current'
  <2>1. row' = row /\ edit' = edit
    BY <1>24 DEF GroupBegin, requestVars
  <2> QED  BY <1>24, <2>1, BeginEffect DEF Of, Current, CurrentAt
<1>25. ASSUME NEW p \in Profiles, NEW n \in Nodes, GroupMark(p, n)
     PROVE  Current'
  <2>1. row' \in {row, [row EXCEPT ![n] = Cleared(n)], [row EXCEPT ![n].connecting = TRUE]}
    BY <1>25 DEF GroupMark
  <2>2. \A m \in Nodes : /\ row'[m].here => row[m].here
                         /\ row'[m].profile \in {row[m].profile, None}
    BY <2>1, JobRow
  <2>3. \A q \in Profiles, m \in Nodes :
           /\ group'[q].at[m] = "cleared" =>
                 group[q].at[m] = "cleared" \/ m \notin group'[q].fresh
           /\ m \in group'[q].fresh => m \in group[q].fresh
    <3>1. CASE group[p].at[n] = "todo"
      BY <1>25, <3>1, Moves DEF Moved
    <3>2. CASE group[p].at[n] # "todo"
      BY <1>25, <3>2, ClearedEffect
    <3> QED  BY <3>1, <3>2
  <2>4. edit' = edit
    BY <1>25 DEF GroupMark, requestVars
  <2> QED  BY <2>2, <2>3, <2>4, KeepsCurrent
<1>26. ASSUME NEW p \in Profiles, GroupConfig(p)
     PROVE  Current'
  <2>1. \A m \in Nodes : /\ row'[m].here => row[m].here
                         /\ row'[m].profile \in {row[m].profile, None}
    BY <1>26 DEF GroupConfig, requestVars
  <2>2. \A q \in Profiles, m \in Nodes :
           /\ group'[q].at[m] = "cleared" =>
                 group[q].at[m] = "cleared" \/ m \notin group'[q].fresh
           /\ m \in group'[q].fresh => m \in group[q].fresh
    BY <1>26, ConfigEffect
  <2>3. edit' = edit
    BY <1>26 DEF GroupConfig, requestVars
  <2> QED  BY <2>1, <2>2, <2>3, KeepsCurrent
<1>27. ASSUME NEW p \in Profiles, GroupQueryFails(p)
     PROVE  Current'
  <2>1. \A m \in Nodes : /\ row'[m].here => row[m].here
                         /\ row'[m].profile \in {row[m].profile, None}
    BY <1>27 DEF GroupQueryFails, requestVars
  <2>2. \A q \in Profiles, m \in Nodes :
           /\ group'[q].at[m] = "cleared" =>
                 group[q].at[m] = "cleared" \/ m \notin group'[q].fresh
           /\ m \in group'[q].fresh => m \in group[q].fresh
    BY <1>27, EndEffect
  <2>3. edit' = edit
    BY <1>27 DEF GroupQueryFails, requestVars
  <2> QED  BY <2>1, <2>2, <2>3, KeepsCurrent
<1>28. ASSUME NEW p \in Profiles, NEW n \in Nodes, GroupRefused(p, n)
     PROVE  Current'
  <2>1. row' = Unconnected(n)
    BY <1>28 DEF GroupRefused
  <2>2. \A m \in Nodes : /\ row'[m].here => row[m].here
                         /\ row'[m].profile \in {row[m].profile, None}
    BY <2>1, JobRow
  <2>3. \A q \in Profiles, m \in Nodes :
           /\ group'[q].at[m] = "cleared" =>
                 group[q].at[m] = "cleared" \/ m \notin group'[q].fresh
           /\ m \in group'[q].fresh => m \in group[q].fresh
    BY <1>28, Moves DEF Moved
  <2>4. edit' = edit
    BY <1>28 DEF GroupRefused, requestVars
  <2> QED  BY <2>2, <2>3, <2>4, KeepsCurrent
<1>29. ASSUME NEW p \in Profiles, NEW n \in Nodes, GroupNoPlugin(p, n)
     PROVE  Current'
  <2>1. \A m \in Nodes : /\ row'[m].here => row[m].here
                         /\ row'[m].profile \in {row[m].profile, None}
    BY <1>29 DEF GroupNoPlugin, requestVars
  <2>2. \A q \in Profiles, m \in Nodes :
           /\ group'[q].at[m] = "cleared" =>
                 group[q].at[m] = "cleared" \/ m \notin group'[q].fresh
           /\ m \in group'[q].fresh => m \in group[q].fresh
    BY <1>29, Moves DEF Moved
  <2>3. edit' = edit
    BY <1>29 DEF GroupNoPlugin, requestVars
  <2> QED  BY <2>1, <2>2, <2>3, KeepsCurrent
<1>30. ASSUME NEW p \in Profiles, NEW n \in Nodes, GroupSend(p, n)
     PROVE  Current'
  <2>1. \A m \in Nodes : /\ row'[m].here => row[m].here
                         /\ row'[m].profile \in {row[m].profile, None}
    BY <1>30 DEF GroupSend, requestVars
  <2>2. \A q \in Profiles, m \in Nodes :
           /\ group'[q].at[m] = "cleared" =>
                 group[q].at[m] = "cleared" \/ m \notin group'[q].fresh
           /\ m \in group'[q].fresh => m \in group[q].fresh
    BY <1>30, Moves DEF Moved
  <2>3. edit' = edit
    BY <1>30 DEF GroupSend, requestVars
  <2> QED  BY <2>1, <2>2, <2>3, KeepsCurrent
<1>31. ASSUME NEW p \in Profiles, NEW n \in Nodes, GroupSent(p, n)
     PROVE  Current'
  <2>1. Connects(n)
    BY <1>31 DEF GroupSent, Connects
  <2>2. \A m \in Nodes : /\ row'[m].here => row[m].here
                         /\ row'[m].profile \in {row[m].profile, None}
    BY <2>1, JobRow
  <2>3. \A q \in Profiles, m \in Nodes :
           /\ group'[q].at[m] = "cleared" =>
                 group[q].at[m] = "cleared" \/ m \notin group'[q].fresh
           /\ m \in group'[q].fresh => m \in group[q].fresh
    BY <1>31, Moves DEF Moved
  <2>4. edit' = edit
    BY <1>31 DEF GroupSent, requestVars
  <2> QED  BY <2>2, <2>3, <2>4, KeepsCurrent
<1>32. ASSUME NEW p \in Profiles, GroupDone(p)
     PROVE  Current'
  <2>1. \A m \in Nodes : /\ row'[m].here => row[m].here
                         /\ row'[m].profile \in {row[m].profile, None}
    BY <1>32 DEF GroupDone, requestVars
  <2>2. \A q \in Profiles, m \in Nodes :
           /\ group'[q].at[m] = "cleared" =>
                 group[q].at[m] = "cleared" \/ m \notin group'[q].fresh
           /\ m \in group'[q].fresh => m \in group[q].fresh
    BY <1>32, EndEffect
  <2>3. edit' = edit
    BY <1>32 DEF GroupDone, requestVars
  <2> QED  BY <2>1, <2>2, <2>3, KeepsCurrent
<1>33. ASSUME NEW p \in Profiles, GroupCrash(p)
     PROVE  Current'
  <2>1. \A m \in Nodes : /\ row'[m].here => row[m].here
                         /\ row'[m].profile \in {row[m].profile, None}
    BY <1>33 DEF GroupCrash, requestVars
  <2>2. \A q \in Profiles, m \in Nodes :
           /\ group'[q].at[m] = "cleared" =>
                 group[q].at[m] = "cleared" \/ m \notin group'[q].fresh
           /\ m \in group'[q].fresh => m \in group[q].fresh
    BY <1>33, EndEffect
  <2>3. edit' = edit
    BY <1>33 DEF GroupCrash, requestVars
  <2> QED  BY <2>1, <2>2, <2>3, KeepsCurrent
<1>34. ASSUME NEW p \in Profiles, Retry(p)
     PROVE  Current'
  <2>1. \A m \in Nodes : /\ row'[m].here => row[m].here
                         /\ row'[m].profile \in {row[m].profile, None}
    BY <1>34 DEF Retry, requestVars
  <2>2. \A q \in Profiles, m \in Nodes :
           /\ group'[q].at[m] = "cleared" =>
                 group[q].at[m] = "cleared" \/ m \notin group'[q].fresh
           /\ m \in group'[q].fresh => m \in group[q].fresh
    BY <1>34, WithGroupType DEF Retry
  <2>3. edit' = edit
    BY <1>34 DEF Retry, requestVars
  <2> QED  BY <2>1, <2>2, <2>3, KeepsCurrent
<1>35. ASSUME SchedulerRestarts
     PROVE  Current'
  BY <1>35 DEF SchedulerRestarts, Current, CurrentAt
<1>36. ASSUME StartAll
     PROVE  Current'
  <2>1. \A m \in Nodes : /\ row'[m].here => row[m].here
                         /\ row'[m].profile \in {row[m].profile, None}
    BY <1>36 DEF StartAll, requestVars
  <2>2. \A q \in Profiles, m \in Nodes :
           /\ group'[q].at[m] = "cleared" =>
                 group[q].at[m] = "cleared" \/ m \notin group'[q].fresh
           /\ m \in group'[q].fresh => m \in group[q].fresh
    BY <1>36, WithGroupType DEF StartAll
  <2>3. edit' = edit
    BY <1>36 DEF StartAll, requestVars
  <2> QED  BY <2>1, <2>2, <2>3, KeepsCurrent
<1>37. ASSUME NEW n \in Nodes, HostChanges(n)
     PROVE  Current'
  BY <1>37 DEF HostChanges, Current, CurrentAt
<1>38. ASSUME NEW n \in Nodes, XrayDies(n)
     PROVE  Current'
  BY <1>38 DEF XrayDies, Current, CurrentAt
<1>39. ASSUME UNCHANGED vars
     PROVE  Current'
  BY <1>39 DEF Current, CurrentAt
<1> QED
  BY <1>1, <1>2, <1>3, <1>4, <1>5, <1>6, <1>7, <1>8, <1>9, <1>10, <1>11, <1>12, <1>13,
     <1>14, <1>15, <1>16, <1>17, <1>18, <1>19, <1>20, <1>21, <1>22, <1>23, <1>24, <1>25,
     <1>26, <1>27, <1>28, <1>29, <1>30, <1>31, <1>32, <1>33, <1>34, <1>35, <1>36, <1>37,
     <1>38, <1>39 DEF Next, RequestStep, NodeStep, GroupStep

-----------------------------------------------------------------------------
(* The config that a node has to run.                                        *)

\* A job that will say that m is connected.
Busy(m) ==
    \/ Starting(m)
    \/ \E p \in Profiles : group[p].at[m] \in {"todo", "marked", "cleared", "sent"}

\* ConfigDelivered is about a node that is shown as connected.  A job may be on
\* its way that will show it as connected with what it read earlier, so the
\* same has to hold of a node that is being started.
OwedAt(m) ==
    row[m].here /\ ~row[m].disabled /\ ~node[m].fresh /\ (row[m].connected \/ Busy(m)) =>
        WillStart(m) \/ Missed(m)

Owed == \A m \in Nodes : OwedAt(m)

LEMMA OwedStep ==
    ASSUME TypeOK, Phases, Current, Profiled, Owed, [Next]_vars
    PROVE  Owed'
<1> USE DEF vars, jobVars, requestVars
<1>1. ASSUME NEW n \in Nodes, RestartNode(n)
     PROVE  Owed'
  <2> SUFFICES ASSUME NEW m \in Nodes
              PROVE  OwedAt(m)'
    BY DEF Owed
  <2> OwedAt(m)
    BY DEF Owed
  <2>1. IF m = n /\ start[m].pc = "none" THEN start'[m].pc = "waiting" ELSE start'[m] = start[m]
    BY <1>1, WithStartType DEF RestartNode
  <2>2. UNCHANGED <<row, node, group, retry, all, booted, edit, excuse>>
    BY <1>1 DEF RestartNode, requestVars
  <2> QED  BY <2>1, <2>2 DEF Missed, OwedAt, Busy, Starting, WillStart
<1>2. ASSUME NEW n \in Nodes, EnableNode(n)
     PROVE  Owed'
  <2> SUFFICES ASSUME NEW m \in Nodes
              PROVE  OwedAt(m)'
    BY DEF Owed
  <2> OwedAt(m)
    BY DEF Owed
  <2>1. start[n].pc \in {"none", "waiting", "check", "send", "sent"}
    BY DEF TypeOK, Start
  <2>2. CASE m # n
    BY <1>2, <2>2, EnableEffect DEF Pending, OwedAt, Busy, Starting, WillStart
  <2>3. CASE m = n
    <3>1. StartBehind(n) \/ node[n].fresh \/ ~Starting(n) \/ (start[n].pc \in {"check", "send"} /\ start[n].fresh)
      BY DEF StartBehind, Starting
    <3> QED  BY <1>2, <2>1, <2>3, <3>1, EnableEffect DEF OwedAt, Busy, Starting,
                WillStart
  <2> QED  BY <2>2, <2>3
<1>3. ASSUME NEW n \in Nodes, DisableNode(n)
     PROVE  Owed'
  <2> SUFFICES ASSUME NEW m \in Nodes
              PROVE  OwedAt(m)'
    BY DEF Owed
  <2> OwedAt(m)
    BY DEF Owed
  <2> QED  BY <1>3, DisableEffect DEF OwedAt, Busy, Starting, WillStart
<1>4. ASSUME NEW n \in Nodes, DeleteNode(n)
     PROVE  Owed'
  BY <1>4 DEF DeleteNode, Asked, Missed, Owed, OwedAt, Busy, Starting, WillStart
<1>5. ASSUME NEW n \in Nodes, NEW d \in BOOLEAN, UpdateBinds(n, d)
     PROVE  Owed'
  <2> SUFFICES ASSUME NEW m \in Nodes
              PROVE  OwedAt(m)'
    BY DEF Owed
  <2> OwedAt(m)
    BY DEF Owed
  <2>1. CASE m # n
    <3>1. /\ row'[m] = row[m] /\ node'[m] = node[m] /\ start'[m] = start[m]
          /\ Missed(m)' <=> Missed(m)
          /\ UNCHANGED <<retry, all, booted>> /\ m \notin edit.nodes
      BY <1>5, <2>1, BindsRow, BindsEffect
    <3>2. \A q \in Profiles : /\ group'[q].at[m] = group[q].at[m] /\ group'[q].pc = group[q].pc
                              /\ m \in group'[q].fresh <=> m \in group[q].fresh
      BY <1>5, <2>1, BindsEffect
    <3> QED  BY <3>1, <3>2 DEF OwedAt, Busy, Starting, WillStart
  <2>2. CASE m = n
    <3>1. row[n].here /\ ~row'[n].disabled => start'[n].pc = "waiting" \/ Missed(n)'
      BY <1>5, BindsRow, BindsEffect
    <3>2. row'[n].here => row[n].here
      BY <1>5, BindsRow
    <3> QED  BY <2>2, <3>1, <3>2 DEF OwedAt, WillStart
  <2> QED  BY <2>1, <2>2
<1>6. ASSUME NEW S \in SUBSET Nodes, NEW p \in Profiles, NEW kind \in {"update", "modify"}, EditUnbinds(kind, S, p)
     PROVE  Owed'
  <2> SUFFICES ASSUME NEW m \in Nodes
              PROVE  OwedAt(m)'
    BY DEF Owed
  <2> OwedAt(m)
    BY DEF Owed
  <2>1. /\ edit' = [kind |-> kind, nodes |-> S, profile |-> p] /\ edit = NoEdit
        /\ UNCHANGED <<node, start, group, retry, all, booted, excuse>>
    BY <1>6 DEF EditUnbinds
  <2>2. m \in S \/ row'[m] = row[m]
    BY <1>6, UnbindsRow
  <2>3. edit.nodes = {}
    BY <2>1 DEF NoEdit
  <2> QED  BY <2>1, <2>2, <2>3 DEF Missed, OwedAt, Busy, Starting, WillStart
<1>7. ASSUME ModifyBinds
     PROVE  Owed'
  <2> SUFFICES ASSUME NEW m \in Nodes
              PROVE  OwedAt(m)'
    BY DEF Owed
  <2> OwedAt(m)
    BY DEF Owed
  <2>1. row'[m].here = row[m].here /\ row'[m].disabled = row[m].disabled
        /\ row'[m].profile = row[m].profile /\ row'[m].connected = row[m].connected
    BY <1>7, ModifyRow
  <2>2. CASE m \in edit.nodes
    <3>1. row[m].here /\ ~row[m].disabled => row[m].profile = edit.profile
      BY <1>7, <2>2, ModifyEffect DEF Profiled, ProfiledAt
    <3>2. edit.profile \in Profiles
      BY <1>7, ModifyEffect DEF TypeOK, NoEdit
    <3>3. \A q \in Profiles : q = edit.profile => Pending(q)'
      BY <1>7, ModifyEffect
    <3>4. row[m].here /\ ~row[m].disabled => \E q \in Profiles : row[m].profile = q /\ Pending(q)'
      BY <3>1, <3>2, <3>3
    <3> QED  BY <2>1, <3>4 DEF OwedAt, WillStart, Pending
  <2>3. CASE m \notin edit.nodes
    <3>1. /\ node'[m] = node[m] /\ start'[m] = start[m] /\ (Missed(m)' <=> Missed(m))
          /\ UNCHANGED <<all, booted>>
      BY <1>7, <2>3, ModifyEffect DEF Missed
    <3>2. \A q \in Profiles : /\ group'[q].at[m] = group[q].at[m]
                              /\ group[q].at[m] # "out" =>
                                    (m \in group'[q].fresh <=> m \in group[q].fresh)
                              /\ Pending(q) => Pending(q)'
      BY <1>7, <2>3, ModifyEffect
    <3> QED  BY <2>1, <2>3, <3>1, <3>2 DEF Pending, OwedAt, Busy, Starting, WillStart
  <2> QED  BY <2>2, <2>3
<1>8. ASSUME RestartAllNodes
     PROVE  Owed'
  BY <1>8 DEF RestartAllNodes, Asked, Missed, Owed, OwedAt, Busy, Starting, WillStart
<1>9. ASSUME NEW p \in Profiles, NEW D \in SUBSET Nodes, UpdateConfigProfile(p, D)
     PROVE  Owed'
  <2> SUFFICES ASSUME NEW m \in Nodes
              PROVE  OwedAt(m)'
    BY DEF Owed
  <2> OwedAt(m)
    BY DEF Owed
  <2>1. row'[m].here = row[m].here /\ row'[m].disabled = row[m].disabled
        /\ row'[m].profile = row[m].profile /\ row'[m].connected = row[m].connected
    BY <1>9, ProfileRow
  <2>2. CASE m \in Of(p)
    <3>1. Pending(p)' /\ row[m].profile = p
      BY <1>9, <2>2, ProfileEffect DEF Of
    <3> QED  BY <2>1, <3>1 DEF OwedAt, WillStart, Pending
  <2>3. CASE m \notin Of(p)
    <3>1. /\ node'[m] = node[m] /\ start'[m] = start[m] /\ (Missed(m)' <=> Missed(m))
          /\ UNCHANGED <<all, booted, edit>>
      BY <1>9, <2>3, ProfileEffect DEF Missed
    <3>2. \A q \in Profiles : /\ group'[q].at[m] = group[q].at[m]
                              /\ group[q].at[m] # "out" =>
                                    (m \in group'[q].fresh <=> m \in group[q].fresh)
                              /\ Pending(q) => Pending(q)'
      BY <1>9, <2>3, ProfileEffect
    <3> QED  BY <2>1, <3>1, <3>2 DEF Pending, OwedAt, Busy, Starting, WillStart
  <2> QED  BY <2>2, <2>3
<1>10. ASSUME NEW n \in Nodes, StartBegin(n)
     PROVE  Owed'
  <2> SUFFICES ASSUME NEW m \in Nodes
              PROVE  OwedAt(m)'
    BY DEF Owed
  <2> OwedAt(m)
    BY DEF Owed
  <2>1. CASE m # n
    BY <1>10, <2>1, StartBeginEffect DEF OwedAt, Busy, Starting, WillStart
  <2>2. CASE m = n
    BY <1>10, <2>2, StartBeginEffect DEF OwedAt, Busy, Starting, WillStart
  <2> QED  BY <2>1, <2>2
<1>11. ASSUME NEW n \in Nodes, StartRefused(n)
     PROVE  Owed'
  <2> SUFFICES ASSUME NEW m \in Nodes
              PROVE  OwedAt(m)'
    BY DEF Owed
  <2> OwedAt(m)
    BY DEF Owed
  <2>1. CASE m # n
    BY <1>11, <2>1, StartRefusedEffect DEF OwedAt, Busy, Starting, WillStart
  <2>2. CASE m = n
    <3>1. row'[n].here => ~row'[n].connected
      BY <1>11, StartRefusedEffect
    <3>2. Starting(n)' = FALSE /\ UNCHANGED <<node, group>>
      BY <1>11, StartRefusedEffect DEF Starting
    <3>3. (\E q \in Profiles : group[q].at[n] \in {"todo", "marked", "cleared", "sent"}) =>
            \/ node[n].fresh \/ GroupBehind(n, Profiles)
            \/ \E q \in Profiles : group[q].at[n] \in {"todo", "bare", "marked"} /\ n \in group[q].fresh
      <4>1. \A q \in Profiles : group[q].at[n] = "cleared" => n \notin group[q].fresh
        BY DEF Current, CurrentAt
      <4> QED  BY <4>1 DEF GroupBehind
    <3>4. GroupBehind(n, Profiles) => Missed(n)'
      BY <1>11, StartRefusedEffect
    <3> QED  BY <2>2, <3>1, <3>2, <3>3, <3>4 DEF OwedAt, Busy, WillStart
  <2> QED  BY <2>1, <2>2
<1>12. ASSUME NEW n \in Nodes, StartQueryFails(n)
     PROVE  Owed'
  <2> SUFFICES ASSUME NEW m \in Nodes
              PROVE  OwedAt(m)'
    BY DEF Owed
  <2> OwedAt(m)
    BY DEF Owed
  <2>1. CASE m # n
    BY <1>12, <2>1, StartQueryFailsEffect DEF OwedAt, Busy, Starting, WillStart
  <2>2. CASE m = n
    BY <1>12, <2>2, StartQueryFailsEffect DEF OwedAt, Busy, Starting, WillStart
  <2> QED  BY <2>1, <2>2
<1>13. ASSUME NEW n \in Nodes, StartCheck(n)
     PROVE  Owed'
  <2> SUFFICES ASSUME NEW m \in Nodes
              PROVE  OwedAt(m)'
    BY DEF Owed
  <2> OwedAt(m)
    BY DEF Owed
  <2>1. start[m] \in Start /\ start \in [Nodes -> Start]
    BY DEF TypeOK
  <2>2. /\ Starting(m)' <=> Starting(m)
        /\ start'[m].pc = "waiting" <=> start[m].pc = "waiting"
        /\ start'[m].pc \in {"check", "send"} <=> start[m].pc \in {"check", "send"}
        /\ start'[m].fresh = start[m].fresh
    BY <1>13, <2>1 DEF StartCheck, Starting, Start
  <2> QED  BY <1>13, <2>2 DEF StartCheck, requestVars, OwedAt, Busy, WillStart, Missed
<1>14. ASSUME NEW n \in Nodes, StartSend(n)
     PROVE  Owed'
  <2> SUFFICES ASSUME NEW m \in Nodes
              PROVE  OwedAt(m)'
    BY DEF Owed
  <2> OwedAt(m)
    BY DEF Owed
  <2>1. CASE m # n
    BY <1>14, <2>1, StartSendEffect DEF OwedAt, Busy, Starting, WillStart
  <2>2. CASE m = n
    BY <1>14, <2>2, StartSendEffect DEF OwedAt, Busy, Starting, WillStart
  <2> QED  BY <2>1, <2>2
<1>15. ASSUME NEW n \in Nodes, StartDone(n)
     PROVE  Owed'
  <2> SUFFICES ASSUME NEW m \in Nodes
              PROVE  OwedAt(m)'
    BY DEF Owed
  <2> OwedAt(m)
    BY DEF Owed
  <2>1. CASE m # n
    BY <1>15, <2>1, StartDoneEffect DEF OwedAt, Busy, Starting, WillStart
  <2>2. CASE m = n
    BY <1>15, <2>2, StartDoneEffect DEF OwedAt, Busy, Starting, WillStart
  <2> QED  BY <2>1, <2>2
<1>16. ASSUME NEW n \in Nodes, StartCrash(n)
     PROVE  Owed'
  <2> SUFFICES ASSUME NEW m \in Nodes
              PROVE  OwedAt(m)'
    BY DEF Owed
  <2> OwedAt(m)
    BY DEF Owed
  <2>1. CASE m # n
    BY <1>16, <2>1, StartCrashEffect DEF OwedAt, Busy, Starting, WillStart
  <2>2. CASE m = n
    BY <1>16, <2>2, StartCrashEffect DEF OwedAt, Busy, Starting, WillStart
  <2> QED  BY <2>1, <2>2
<1>17. ASSUME NEW n \in Nodes, StopXray(n)
     PROVE  Owed'
  <2> SUFFICES ASSUME NEW m \in Nodes
              PROVE  OwedAt(m)'
    BY DEF Owed
  <2> OwedAt(m)
    BY DEF Owed
  <2>1. node'[m].fresh = node[m].fresh
    BY <1>17 DEF StopXray, TypeOK, Node
  <2>2. Missed(m)' <=> Missed(m)
    BY <1>17, InBecause DEF StopXray, Missed
  <2> QED  BY <1>17, <2>1, <2>2 DEF StopXray, requestVars, OwedAt, Busy, Starting,
              WillStart
<1>18. ASSUME NEW n \in Nodes, StopDone(n)
     PROVE  Owed'
  <2> SUFFICES ASSUME NEW m \in Nodes
              PROVE  OwedAt(m)'
    BY DEF Owed
  <2> OwedAt(m)
    BY DEF Owed
  <2>1. CASE m # n
    BY <1>18, <2>1, StopDoneEffect DEF OwedAt, Busy, Starting, WillStart
  <2>2. CASE m = n
    BY <1>18, <2>2, StopDoneEffect DEF OwedAt, Busy, Starting, WillStart
  <2> QED  BY <2>1, <2>2
<1>19. ASSUME NEW n \in Nodes, DropDone(n)
     PROVE  Owed'
  <2> SUFFICES ASSUME NEW m \in Nodes
              PROVE  OwedAt(m)'
    BY DEF Owed
  <2> OwedAt(m)
    BY DEF Owed
  <2>1. CASE m # n
    BY <1>19, <2>1, DropDoneEffect DEF OwedAt, Busy, Starting, WillStart
  <2>2. CASE m = n
    BY <1>19, <2>2, DropDoneEffect DEF OwedAt, Busy, Starting, WillStart
  <2> QED  BY <2>1, <2>2
<1>20. ASSUME FirstTick
     PROVE  Owed'
  <2> SUFFICES ASSUME NEW m \in Nodes
              PROVE  OwedAt(m)'
    BY DEF Owed
  <2> OwedAt(m)
    BY DEF Owed
  <2>1. all'
    BY <1>20 DEF FirstTick
  <2> QED  BY <2>1 DEF OwedAt, WillStart
<1>21. ASSUME NEW n \in Nodes, HealthTick(n)
     PROVE  Owed'
  BY <1>21 DEF HealthTick, Missed, Owed, OwedAt, Busy, Starting, WillStart
<1>22. ASSUME NEW n \in Nodes, HealthProbe(n)
     PROVE  Owed'
  BY <1>22 DEF HealthProbe, Missed, Owed, OwedAt, Busy, Starting, WillStart
<1>23. ASSUME NEW n \in Nodes, HealthDone(n)
     PROVE  Owed'
  <2> SUFFICES ASSUME NEW m \in Nodes
              PROVE  OwedAt(m)'
    BY DEF Owed
  <2> OwedAt(m)
    BY DEF Owed
  <2>1. row'[m].here = row[m].here /\ row'[m].disabled = row[m].disabled
        /\ row'[m].profile = row[m].profile
    BY <1>23, HealthRow
  <2>2. CASE m # n
    <3>1. row'[m] = row[m]
      BY <1>23, <2>2, HealthRow
    <3> QED  BY <1>23, <2>2, <3>1, HealthDoneEffect DEF OwedAt, Busy, Starting,
                WillStart
  <2>3. CASE m = n
    <3>1. start[n].pc \in {"none", "waiting", "check", "send", "sent"}
      BY DEF TypeOK, Start
    <3>2. StartBehind(n) \/ node[n].fresh \/ ~Starting(n) \/ (start[n].pc \in {"check", "send"} /\ start[n].fresh)
      BY DEF StartBehind, Starting
    <3> QED  BY <1>23, <2>1, <2>3, <3>1, <3>2, HealthDoneEffect DEF OwedAt, Busy,
                Starting, WillStart
  <2> QED  BY <2>2, <2>3
<1>24. ASSUME NEW p \in Profiles, GroupBegin(p)
     PROVE  Owed'
  <2> SUFFICES ASSUME NEW m \in Nodes
              PROVE  OwedAt(m)'
    BY DEF Owed
  <2> OwedAt(m)
    BY DEF Owed
  <2>1. /\ UNCHANGED <<row, node, start, retry, all, booted, edit, excuse>>
        /\ group[p].pc = "waiting"
    BY <1>24 DEF GroupBegin, requestVars
  <2>2. group[p].at[m] = "out"
    BY <2>1 DEF Phases
  <2>3. CASE m \in Of(p) /\ ~row[m].disabled
    BY <1>24, <2>1, <2>3, BeginEffect DEF OwedAt, WillStart
  <2>4. CASE ~(m \in Of(p) /\ ~row[m].disabled)
    BY <1>24, <2>1, <2>2, <2>4, BeginEffect DEF Of, Missed, OwedAt, Busy, Starting,
       WillStart
  <2> QED  BY <2>3, <2>4
<1>25. ASSUME NEW p \in Profiles, NEW n \in Nodes, GroupMark(p, n)
     PROVE  Owed'
  <2> SUFFICES ASSUME NEW m \in Nodes
              PROVE  OwedAt(m)'
    BY DEF Owed
  <2> OwedAt(m)
    BY DEF Owed
  <2>1. group[p].pc = "mark"
    BY <1>25 DEF GroupMark
  <2>2. CASE group[p].at[n] = "todo"
    <3>2. \A q \in Profiles : /\ group'[q].pc = group[q].pc /\ group'[q].fresh = group[q].fresh
                              /\ \/ group'[q].at[m] = group[q].at[m]
                                 \/ group[q].at[m] = "todo" /\ group'[q].at[m] = "marked"
      <4>2. /\ \A q \in Profiles \ {p} : group'[q] = group[q]
            /\ group'[p].pc = group[p].pc /\ group'[p].fresh = group[p].fresh
            /\ group'[p].at[n] = "marked"
            /\ \A l \in Nodes \ {n} : group'[p].at[l] = group[p].at[l]
        BY <1>25, <2>2, Moves DEF Moved
      <4>3. CASE m = n
        BY <2>2, <4>2, <4>3
      <4>4. CASE m # n
        BY <4>2, <4>4
      <4> QED  BY <4>3, <4>4
    <3>3. /\ row'[m].here = row[m].here /\ row'[m].disabled = row[m].disabled
          /\ row'[m].profile = row[m].profile
          /\ m = n \/ row'[m].connected = row[m].connected
      BY <1>25, <2>2, GroupMarkEffect
    <3>4. UNCHANGED <<node, start, retry, all, booted, edit>> /\ (Missed(m)' <=> Missed(m))
      BY <1>25, GroupMarkEffect
    <3>5. m = n => Busy(m)
      BY <2>2 DEF Busy
    <3> QED  BY <3>2, <3>3, <3>4, <3>5 DEF OwedAt, Busy, Starting, WillStart
  <2>3. CASE group[p].at[n] # "todo"
    <3>1. UNCHANGED <<node, start, retry, all, booted, edit>> /\ (Missed(m)' <=> Missed(m))
      BY <1>25, GroupMarkEffect
    <3>2. CASE m = n
      <4>1. row'[n].here = row[n].here /\ (row[n].here => row'[n].disabled)
        BY <1>25, <2>3, GroupMarkEffect
      <4> QED  BY <3>2, <4>1 DEF OwedAt
    <3>3. CASE m # n
      <4>1. row'[m] = row[m]
        BY <1>25, <3>3, GroupMarkEffect
      <4>2. \A q \in Profiles : /\ group'[q].pc = group[q].pc /\ group'[q].at[m] = group[q].at[m]
                                /\ m \in group'[q].fresh <=> m \in group[q].fresh
        BY <1>25, <2>3, <3>3, ClearedEffect
      <4> QED  BY <3>1, <4>1, <4>2 DEF OwedAt, Busy, Starting, WillStart
    <3> QED  BY <3>2, <3>3
  <2> QED  BY <2>2, <2>3
<1>26. ASSUME NEW p \in Profiles, GroupConfig(p)
     PROVE  Owed'
  <2> SUFFICES ASSUME NEW m \in Nodes
              PROVE  OwedAt(m)'
    BY DEF Owed
  <2> OwedAt(m)
    BY DEF Owed
  <2>1. group[p].pc = "mark" /\ UNCHANGED <<row, node, start, retry, all, booted, edit, excuse>>
    BY <1>26 DEF GroupConfig, requestVars
  <2> QED  BY <1>26, <2>1, ConfigEffect DEF Missed, OwedAt, Busy, Starting, WillStart
<1>27. ASSUME NEW p \in Profiles, GroupQueryFails(p)
     PROVE  Owed'
  <2> SUFFICES ASSUME NEW m \in Nodes
              PROVE  OwedAt(m)'
    BY DEF Owed
  <2> OwedAt(m)
    BY DEF Owed
  <2>1. /\ UNCHANGED <<row, node, start, retry, all, booted, edit>>
        /\ Missed(m) => Missed(m)'
        /\ group[p].at[m] \in {"todo", "bare", "marked"} =>
              Missed(m)' \/ group'[p].pc = "waiting"
    BY <1>27, GroupLeavesEffect
  <2>2. /\ \A q \in Profiles \ {p} : group'[q] = group[q]
        /\ group'[p].at[m] = "out"
    BY <1>27, EndEffect
  <2>3. group[p].pc \in {"mark", "run"}
    BY <1>27 DEF GroupQueryFails
  <2>4. group[p].at[m] \in {"todo", "bare", "marked"} /\ m \in group[p].fresh =>
           Missed(m)' \/ m \in edit.nodes \/ ~row[m].here \/ row[m].disabled
              \/ (row[m].profile = p /\ group'[p].pc = "waiting")
    BY <2>1 DEF Current, CurrentAt, Profiled, ProfiledAt
  <2> QED  BY <2>1, <2>2, <2>3, <2>4 DEF OwedAt, Busy, Starting, WillStart
<1>28. ASSUME NEW p \in Profiles, NEW n \in Nodes, GroupRefused(p, n)
     PROVE  Owed'
  <2> SUFFICES ASSUME NEW m \in Nodes
              PROVE  OwedAt(m)'
    BY DEF Owed
  <2> OwedAt(m)
    BY DEF Owed
  <2>2. /\ \A q \in Profiles \ {p} : group'[q] = group[q]
        /\ group'[p].pc = group[p].pc /\ group'[p].fresh = group[p].fresh
        /\ group'[p].at[n] = "out"
        /\ \A l \in Nodes \ {n} : group'[p].at[l] = group[p].at[l]
    BY <1>28, Moves DEF Moved
  <2>3. CASE m # n
    <3>1. /\ row'[m] = row[m] /\ (Missed(m)' <=> Missed(m))
          /\ UNCHANGED <<node, start, retry, all, booted, edit>>
      BY <1>28, <2>3, GroupRefusedEffect
    <3> QED  BY <2>2, <2>3, <3>1 DEF OwedAt, Busy, Starting, WillStart
  <2>4. CASE m = n
    <3>1. /\ row'[n].here => ~row'[n].connected
          /\ UNCHANGED <<node, start, retry, all, booted, edit>>
          /\ StartBehind(n) \/ GroupBehind(n, Profiles \ {p}) => Missed(n)'
      BY <1>28, GroupRefusedEffect
    <3>2. Starting(n) => StartBehind(n) \/ node[n].fresh \/ (start[n].pc \in {"check", "send"} /\ start[n].fresh)
      BY DEF StartBehind, Starting
    <3>3. (\E q \in Profiles \ {p} : group[q].at[n] \in {"todo", "marked", "cleared", "sent"}) =>
            \/ node[n].fresh \/ GroupBehind(n, Profiles \ {p})
            \/ \E q \in Profiles \ {p} : group[q].at[n] \in {"todo", "bare", "marked"}
                                          /\ n \in group[q].fresh
      <4>1. \A q \in Profiles : group[q].at[n] = "cleared" => n \notin group[q].fresh
        BY DEF Current, CurrentAt
      <4> QED  BY <4>1 DEF GroupBehind
    <3> QED  BY <2>2, <2>4, <3>1, <3>2, <3>3 DEF OwedAt, Busy, Starting, WillStart
  <2> QED  BY <2>3, <2>4
<1>29. ASSUME NEW p \in Profiles, NEW n \in Nodes, GroupNoPlugin(p, n)
     PROVE  Owed'
  <2> SUFFICES ASSUME NEW m \in Nodes
              PROVE  OwedAt(m)'
    BY DEF Owed
  <2> OwedAt(m)
    BY DEF Owed
  <2>2. /\ \A q \in Profiles \ {p} : group'[q] = group[q]
        /\ group'[p].pc = group[p].pc /\ group'[p].fresh = group[p].fresh
        /\ group'[p].at[n] = "out"
        /\ \A l \in Nodes \ {n} : group'[p].at[l] = group[p].at[l]
    BY <1>29, Moves DEF Moved
  <2>3. CASE m # n
    BY <1>29, <2>2, <2>3, GroupNoPluginEffect DEF OwedAt, Busy, Starting, WillStart
  <2>4. CASE m = n
    BY <1>29, <2>4, GroupNoPluginEffect DEF OwedAt
  <2> QED  BY <2>3, <2>4
<1>30. ASSUME NEW p \in Profiles, NEW n \in Nodes, GroupSend(p, n)
     PROVE  Owed'
  <2> SUFFICES ASSUME NEW m \in Nodes
              PROVE  OwedAt(m)'
    BY DEF Owed
  <2> OwedAt(m)
    BY DEF Owed
  <2>2. /\ \A q \in Profiles \ {p} : group'[q] = group[q]
        /\ group'[p].pc = group[p].pc /\ group'[p].fresh = group[p].fresh
        /\ group'[p].at[n] = "sent"
        /\ \A l \in Nodes \ {n} : group'[p].at[l] = group[p].at[l]
    BY <1>30, Moves DEF Moved
  <2>3. CASE m # n
    BY <1>30, <2>2, <2>3, GroupSendEffect DEF OwedAt, Busy, Starting, WillStart
  <2>4. CASE m = n
    <3>1. /\ UNCHANGED <<row, start, retry, all, booted, edit>> /\ Busy(n)
          /\ node'[n].fresh = (n \in group[p].fresh)
          /\ n \notin group[p].fresh /\ (node[n].fresh \/ Missed(n)) => Missed(n)'
      BY <1>30, GroupSendEffect DEF Busy
    <3> QED  BY <2>2, <2>4, <3>1 DEF OwedAt, Busy, Starting, WillStart
  <2> QED  BY <2>3, <2>4
<1>31. ASSUME NEW p \in Profiles, NEW n \in Nodes, GroupSent(p, n)
     PROVE  Owed'
  <2> SUFFICES ASSUME NEW m \in Nodes
              PROVE  OwedAt(m)'
    BY DEF Owed
  <2> OwedAt(m)
    BY DEF Owed
  <2>2. /\ \A q \in Profiles \ {p} : group'[q] = group[q]
        /\ group'[p].pc = group[p].pc /\ group'[p].fresh = group[p].fresh
        /\ group'[p].at[n] = "out"
        /\ \A l \in Nodes \ {n} : group'[p].at[l] = group[p].at[l]
    BY <1>31, Moves DEF Moved
  <2>3. CASE m # n
    BY <1>31, <2>2, <2>3, GroupSentEffect DEF OwedAt, Busy, Starting, WillStart
  <2>4. CASE m = n
    <3>1. /\ UNCHANGED <<node, start, retry, all, booted, edit>> /\ Busy(n)
          /\ group[p].at[n] = "sent" /\ (Missed(n)' <=> Missed(n))
          /\ row'[n].here = row[n].here /\ row'[n].disabled = row[n].disabled
          /\ row'[n].profile = row[n].profile
      BY <1>31, GroupSentEffect DEF Busy
    <3> QED  BY <2>2, <2>4, <3>1 DEF OwedAt, Busy, Starting, WillStart
  <2> QED  BY <2>3, <2>4
<1>32. ASSUME NEW p \in Profiles, GroupDone(p)
     PROVE  Owed'
  <2> SUFFICES ASSUME NEW m \in Nodes
              PROVE  OwedAt(m)'
    BY DEF Owed
  <2> OwedAt(m)
    BY DEF Owed
  <2>1. /\ UNCHANGED <<row, node, start, retry, all, booted, edit, excuse>>
        /\ group[p].at[m] \in {"out", "cleared"} /\ group[p].pc # "waiting"
    BY <1>32, GroupDoneEffect DEF GroupDone
  <2>2. /\ \A q \in Profiles \ {p} : group'[q] = group[q]
        /\ group'[p].at[m] = "out"
    BY <1>32, EndEffect
  <2> QED  BY <2>1, <2>2 DEF Missed, OwedAt, Busy, Starting, WillStart
<1>33. ASSUME NEW p \in Profiles, GroupCrash(p)
     PROVE  Owed'
  <2> SUFFICES ASSUME NEW m \in Nodes
              PROVE  OwedAt(m)'
    BY DEF Owed
  <2> OwedAt(m)
    BY DEF Owed
  <2>1. /\ UNCHANGED <<row, node, start, retry, all, booted, edit>>
        /\ Missed(m) => Missed(m)'
        /\ group[p].at[m] \in {"todo", "bare", "marked"} =>
              Missed(m)' \/ group'[p].pc = "waiting"
    BY <1>33, GroupLeavesEffect
  <2>2. /\ \A q \in Profiles \ {p} : group'[q] = group[q]
        /\ group'[p].at[m] = "out"
    BY <1>33, EndEffect
  <2>3. group[p].pc \in {"mark", "run"}
    BY <1>33 DEF GroupCrash
  <2>4. group[p].at[m] \in {"todo", "bare", "marked"} /\ m \in group[p].fresh =>
           Missed(m)' \/ m \in edit.nodes \/ ~row[m].here \/ row[m].disabled
              \/ (row[m].profile = p /\ group'[p].pc = "waiting")
    BY <2>1 DEF Current, CurrentAt, Profiled, ProfiledAt
  <2> QED  BY <2>1, <2>2, <2>3, <2>4 DEF OwedAt, Busy, Starting, WillStart
<1>34. ASSUME NEW p \in Profiles, Retry(p)
     PROVE  Owed'
  <2> SUFFICES ASSUME NEW m \in Nodes
              PROVE  OwedAt(m)'
    BY DEF Owed
  <2> OwedAt(m)
    BY DEF Owed
  <2>1. /\ UNCHANGED <<row, node, start, all, booted, edit, excuse>>
        /\ group' = WithGroup({p}) /\ p \in retry
        /\ retry' = IF group[p].pc = "none" THEN retry \ {p} ELSE retry
    BY <1>34 DEF Retry, requestVars
  <2>2. \A q \in Profiles : /\ Pending(q) => Pending(q)'
                            /\ group'[q].at[m] = group[q].at[m]
                            /\ group[q].at[m] # "out" => group'[q].fresh = group[q].fresh
    <3>1. group[p].pc = "none" => group'[p].pc = "waiting"
      BY <2>1, WithGroupType
    <3>2. \A q \in Profiles : /\ group[q].pc = "waiting" => group'[q].pc = "waiting"
                              /\ group'[q].at[m] = group[q].at[m]
                              /\ group[q].at[m] # "out" => group'[q].fresh = group[q].fresh
      BY <2>1, WithGroupEffect
    <3> QED  BY <2>1, <3>1, <3>2 DEF Pending
  <2> QED  BY <2>1, <2>2 DEF Pending, Missed, OwedAt, Busy, Starting, WillStart
<1>35. ASSUME SchedulerRestarts
     PROVE  Owed'
  <2> SUFFICES ASSUME NEW m \in Nodes
              PROVE  OwedAt(m)'
    BY DEF Owed
  <2> OwedAt(m)
    BY DEF Owed
  <2>1. ~booted'
    BY <1>35 DEF SchedulerRestarts
  <2> QED  BY <2>1 DEF OwedAt, WillStart
<1>36. ASSUME StartAll
     PROVE  Owed'
  <2> SUFFICES ASSUME NEW m \in Nodes
              PROVE  OwedAt(m)'
    BY DEF Owed
  <2> OwedAt(m)
    BY DEF Owed
  <2> DEFINE P == {row[k].profile : k \in {l \in Nodes : row[l].here /\ ~row[l].disabled}} \ {None}
  <2>1. /\ UNCHANGED <<row, node, start, booted, edit, excuse>>
        /\ group' = WithGroup(P) /\ retry' = WithRetry(P)
    BY <1>36 DEF StartAll, requestVars
  <2>2. row[m].here /\ ~row[m].disabled => row[m].profile \in P /\ row[m].profile \in Profiles
    <3>1. row[m].profile \in Profiles \cup {None}
      BY DEF TypeOK, Row
    <3>2. row[m].here /\ ~row[m].disabled => row[m].profile # None
      BY DEF Profiled, ProfiledAt
    <3> QED  BY <3>1, <3>2
  <2> HIDE DEF P
  <2>3. \A q \in P : q \in Profiles => group'[q].pc = "waiting" \/ q \in retry'
    BY <2>1, WithGroupEffect
  <2> QED  BY <2>1, <2>2, <2>3 DEF OwedAt, WillStart
<1>37. ASSUME NEW n \in Nodes, HostChanges(n)
     PROVE  Owed'
  <2> SUFFICES ASSUME NEW m \in Nodes
              PROVE  OwedAt(m)'
    BY DEF Owed
  <2> OwedAt(m)
    BY DEF Owed
  <2>1. node'[m].fresh = node[m].fresh
    BY <1>37 DEF HostChanges, TypeOK, Node
  <2> QED  BY <1>37, <2>1 DEF HostChanges, requestVars, Missed, OwedAt, Busy, Starting,
              WillStart
<1>38. ASSUME NEW n \in Nodes, XrayDies(n)
     PROVE  Owed'
  <2> SUFFICES ASSUME NEW m \in Nodes
              PROVE  OwedAt(m)'
    BY DEF Owed
  <2> OwedAt(m)
    BY DEF Owed
  <2>1. node'[m].fresh = node[m].fresh
    BY <1>38 DEF XrayDies, TypeOK, Node
  <2> QED  BY <1>38, <2>1 DEF XrayDies, requestVars, Missed, OwedAt, Busy, Starting,
              WillStart
<1>39. ASSUME UNCHANGED vars
     PROVE  Owed'
  BY <1>39 DEF Missed, Owed, OwedAt, Busy, Starting, WillStart
<1> QED
  BY <1>1, <1>2, <1>3, <1>4, <1>5, <1>6, <1>7, <1>8, <1>9, <1>10, <1>11, <1>12, <1>13,
     <1>14, <1>15, <1>16, <1>17, <1>18, <1>19, <1>20, <1>21, <1>22, <1>23, <1>24, <1>25,
     <1>26, <1>27, <1>28, <1>29, <1>30, <1>31, <1>32, <1>33, <1>34, <1>35, <1>36, <1>37,
     <1>38, <1>39 DEF Next, RequestStep, NodeStep, GroupStep

-----------------------------------------------------------------------------
(* The theorems.                                                             *)

LEMMA InitTypeOK == Init => TypeOK
<1> SUFFICES ASSUME Init PROVE TypeOK
  OBVIOUS
<1>1. row \in [Nodes -> Row]
  BY DEF Init
<1>2. node \in [Nodes -> Node]
  BY DEF Init, Node
<1>3. [NoStart EXCEPT !.pc = "waiting"] \in Start
  BY DEF NoStart, Start
<1>4. start \in [Nodes -> Start]
  BY <1>3 DEF Init
<1>5. health \in [Nodes -> Health] /\ group \in [Profiles -> Group]
  BY NoJobTypes DEF Init
<1>6. stop \in [Nodes -> Stop]
  BY DEF Init, Stop
<1>7. left \in [requests: 0..MaxRequests, faults: 0..MaxFaults]
  BY BoundsAssumption DEF Init
<1> QED  BY <1>1, <1>2, <1>4, <1>5, <1>6, <1>7 DEF Init, TypeOK

\* Nothing has run yet, no job has begun and every node has its profile.
LEMMA InitHolds ==
    ASSUME Init
    PROVE  Phases /\ Quiet /\ Handled /\ Profiled /\ Current /\ Owed
<1>1. \A n \in Nodes : /\ row[n] \in Row /\ ~row[n].disabled /\ ~row[n].connecting
                       /\ row[n].profile # None
                       /\ ~node[n].running /\ start[n].pc = "waiting"
  BY DEF Init, NoStart
<1>2. \A p \in Profiles : group[p] = NoGroup
  BY DEF Init
<1>3. \A p \in Profiles : /\ group[p].fresh = {}
                          /\ \A n \in Nodes : group[p].at[n] = "out"
  BY <1>2, NoJobTypes
<1>4. edit.nodes = {} /\ edit.kind = "none"
  BY DEF Init, NoEdit
<1>5. Phases
  BY <1>3 DEF Phases
<1>6. Quiet
  BY <1>1 DEF Quiet, QuietAt
<1>7. Handled
  BY <1>1 DEF Handled, ConnectingAt
<1>8. Profiled
  BY <1>1, <1>4 DEF Profiled, ProfiledAt
<1>9. Current
  BY <1>3 DEF Current, CurrentAt
<1>10. Owed
  BY <1>1 DEF Owed, OwedAt, WillStart
<1> QED  BY <1>5, <1>6, <1>7, <1>8, <1>9, <1>10

\* Whatever is requested and whatever fails, a node that is shown as connecting
\* has a start job or a by-profile job past its beginning, unless a failed query
\* or the death of a worker left it so.
THEOREM ConnectingCorrect == Spec => []ConnectingHandled
<1>1. Init => TypeOK /\ Phases /\ Handled
  BY InitTypeOK, InitHolds
<1>2. TypeOK /\ Phases /\ Handled /\ [Next]_vars => (TypeOK /\ Phases /\ Handled)'
  BY TypeStep, PhasesStep, HandledStep
<1>3. TypeOK /\ Phases /\ Handled => ConnectingHandled
  BY DEF Handled, ConnectingAt, Stuck, ConnectingHandled
<1> QED  BY <1>1, <1>2, <1>3, PTL DEF Spec

\* A disabled node on which Xray runs has a stop job that is still to come, or
\* the race that let it run is one of those the actions name.
THEOREM QuietCorrect == Spec => []DisabledQuiet
<1>1. Init => TypeOK /\ Quiet
  BY InitTypeOK, InitHolds
<1>2. TypeOK /\ Quiet /\ [Next]_vars => (TypeOK /\ Quiet)'
  BY TypeStep, QuietStep
<1>3. TypeOK /\ Quiet => DisabledQuiet
  BY DEF Quiet, QuietAt, DisabledQuiet
<1> QED  BY <1>1, <1>2, <1>3, PTL DEF Spec

OwedInv == TypeOK /\ Phases /\ Profiled /\ Current /\ Owed

\* An enabled node that is shown as connected runs the config of its row, or a
\* job that will send it is on its way, or the job that should have was lost in
\* one of the ways the actions name.
THEOREM DeliveredCorrect == Spec => []ConfigDelivered
<1>1. Init => OwedInv
  BY InitTypeOK, InitHolds DEF OwedInv
<1>2. OwedInv /\ [Next]_vars => OwedInv'
  BY TypeStep, PhasesStep, ProfiledStep, CurrentStep, OwedStep DEF OwedInv
<1>3. OwedInv => ConfigDelivered
  BY DEF OwedInv, Owed, OwedAt, Missed, ConfigDelivered
<1> QED  BY <1>1, <1>2, <1>3, PTL DEF Spec
=============================================================================
