------------------------ MODULE Subscriptions_proofs ------------------------
(***************************************************************************)
(* Proofs about Subscriptions, for any hosts, squads, rules, templates and *)
(* devices, and any number of requests and changes: what an answer says    *)
(* can be traced to rows there were while the request was on its way.      *)
(***************************************************************************)
EXTENDS Subscriptions, SequenceTheorems, FiniteSetTheorems, TLAPS

Pcs     == {"idle", "rules", "user", "settings", "template", "squad", "device", "hosts",
            "render", "refused", "served"}
Formats == Templated \cup {Links, Page, "RAW"}
Notes   == {"none", "devices", "unsupported", "status", "empty"}

\* What follows is about a request q and the rows S there were since it came.

Shape(q) ==
    /\ DOMAIN q = DOMAIN Idle
    /\ q.pc \in Pcs
    /\ q.hosts \subseteq Hosts
    /\ q.unread \in BOOLEAN
    /\ q.note \in Notes
    /\ q.pc \notin {"idle", "refused"} => q.ask \in Inquiries
    /\ q.pc = "rules" => q.ask.kind = "sub"
    /\ q.pc \notin {"idle", "refused", "rules"} => q.format \in Formats
    /\ q.pc = "settings" => q.format \in {Page, "RAW"}
    /\ q.pc = "device" => q.format # Page
    /\ q.pc # "served" => q.entries = <<>>

\* The settings there may have been (EverSet of a request).
SettingsOf(unread, S) ==
    {Overridden(a.settings, b.user.external, c.external) : a, b, c \in S}
    \cup IF unread THEN {a.settings : a \in S} ELSE {}

\* The settings were those of a moment, and then those with the overrides.
SettingsRead(q, S) ==
    /\ \/ q.pc \in {"template", "squad"}
       \/ q.pc = "user" /\ q.format \notin {Page, "RAW"}
       => \E a \in S : q.settings = a.settings
    /\ q.pc \in {"device", "hosts", "render", "served"} => q.settings \in SettingsOf(q.unread, S)

UserRead(q, S) ==
    q.pc \in {"settings", "template", "squad", "device", "hosts", "render", "served"}
    => \E b \in S : q.user = b.user

\* The template is that of the rule, or the one that was found for the format, which
\* is the same for links and for the JSON they may turn into.
TemplateRead(q, S) ==
    /\ q.pc = "user" => q.template = q.mods.template
    /\ q.pc \in {"squad", "device", "hosts", "render", "served"} /\ ~q.unread
       /\ q.format \notin {Page, "RAW"} /\ q.mods.template = None
       => \E b, c \in S : q.template = TemplateName(q.format, b.user.external, c.external)

\* Who gets hosts: devices were not counted, or the device was registered.
Admitted(q, S) ==
    q.pc \in {"hosts", "render"} \/ q.entries # <<>> =>
        IF q.format = Page THEN ~q.settings.hwid \/ q.ask.kind = "info"
        ELSE \/ ~q.settings.hwid \/ q.mods.noHwid \/ q.user.unlimited
             \/ \E c \in S : q.ask.device \in c.devices

HostsRead(q, S) == q.pc = "render" => \E c \in S : q.hosts \subseteq Visible(c, q.ask.disabled, TRUE)

Taken(q) == UNION {e.hosts : e \in Range(q.entries)}

\* What an answer shows.
Shown(q, S) == Taken(q) # {} =>
    /\ \E c \in S : Taken(q) \subseteq Visible(c, q.ask.disabled, TRUE)
    /\ q.format # Page => \A h \in Taken(q) : Row[h].tags \cap q.mods.tags = {}
    /\ q.user.status = "ACTIVE" \/ ~q.settings.show

Distinct(q) ==
    (\A g, h \in q.hosts : ~IsStrictPrefix(Row[g].remark, Row[h].remark))
    => \A g, h \in DOMAIN q.entries : g # h => q.entries[g].remark # q.entries[h].remark

Traced(q, S) ==
    /\ SettingsRead(q, S) /\ UserRead(q, S) /\ TemplateRead(q, S)
    /\ Admitted(q, S) /\ HostsRead(q, S) /\ Shown(q, S)

\* The history.  What is noted is not after what was noted last, and a job is about
\* a request that is not before it.
Noted ==
    /\ clock \in Nat /\ latest \in 0..clock /\ untrimmed \in Nat
    /\ IsFiniteSet(history)
    /\ \A n \in history : n.at \in 1..clock /\ n.at <= latest
    /\ job \in [pc: {"none", "waiting", "created"}, at: 0..clock]
    /\ job.pc # "none" => 1 <= job.at /\ latest <= job.at

Requested ==
    /\ DOMAIN req = Requests /\ DOMAIN seen = Requests
    /\ \A r \in Requests : Shape(req[r]) /\ Traced(req[r], seen[r]) /\ Distinct(req[r])

Stored == db \in Db /\ requests \in 0..MaxRequests /\ edits \in 0..MaxEdits

IInv == Stored /\ Requested /\ Noted /\ HistoryKept

-----------------------------------------------------------------------------
(* Requests in general                                                       *)

Fields == {"pc", "ask", "format", "mods", "user", "settings", "template", "unread", "hosts",
           "entries", "note"}

LEMMA IdleFacts ==
    /\ DOMAIN Idle = Fields
    /\ Shape(Idle) /\ Shape(Refused)
    /\ Idle.pc = "idle" /\ Refused.pc = "refused"
<1>1. DOMAIN Idle = Fields /\ Idle.pc = "idle" /\ Idle.hosts = {} /\ Idle.unread = FALSE
      /\ Idle.note = "none" /\ Idle.entries = <<>>
  BY DEF Idle, Fields
<1>2. /\ DOMAIN Refused = Fields /\ Refused.pc = "refused" /\ Refused.hosts = {}
      /\ Refused.unread = FALSE /\ Refused.note = "none" /\ Refused.entries = <<>>
  BY <1>1 DEF Refused, Fields
<1>3. Shape(Idle)
  BY <1>1 DEF Shape, Pcs, Notes
<1>4. Shape(Refused)
  BY <1>1, <1>2 DEF Shape, Pcs, Notes
<1> QED BY <1>1, <1>2, <1>3, <1>4

LEMMA NothingTaken == ASSUME NEW q, q.entries = <<>> PROVE Taken(q) = {} /\ Distinct(q)
<1>1. DOMAIN q.entries = {}
  OBVIOUS
<1>2. Range(q.entries) = {}
  BY <1>1 DEF Range
<1> QED BY <1>1, <1>2 DEF Taken, Distinct

\* A request that is not there, or was refused, has nothing to be traced.
LEMMA NothingToTrace ==
    ASSUME NEW q, NEW S, Shape(q), q.pc \in {"idle", "refused"}
    PROVE  Traced(q, S) /\ Distinct(q)
<1>1. q.entries = <<>>
  BY DEF Shape
<1>2. Taken(q) = {} /\ Distinct(q)
  BY <1>1, NothingTaken
<1> QED BY <1>1, <1>2 DEF Traced, SettingsRead, UserRead, TemplateRead, Admitted, HostsRead, Shown

LEMMA SettingsGrow ==
    ASSUME NEW S, NEW T, S \subseteq T, NEW u \in BOOLEAN, NEW v \in BOOLEAN, u => v
    PROVE  SettingsOf(u, S) \subseteq SettingsOf(v, T)
BY DEF SettingsOf

\* What could be traced stays so, whatever else is seen.
LEMMA TracesGrow ==
    ASSUME NEW q, NEW S, NEW T, S \subseteq T, Shape(q), Traced(q, S)
    PROVE  Traced(q, T)
<1>1. SettingsOf(q.unread, S) \subseteq SettingsOf(q.unread, T)
  BY SettingsGrow DEF Shape
<1>2. SettingsRead(q, T)
  BY <1>1 DEF Traced, SettingsRead
<1>3. UserRead(q, T)
  BY DEF Traced, UserRead
<1>4. TemplateRead(q, T)
  BY DEF Traced, TemplateRead
<1>5. Admitted(q, T)
  BY DEF Traced, Admitted
<1>6. HostsRead(q, T)
  BY DEF Traced, HostsRead
<1>7. Shown(q, T)
  BY DEF Traced, Shown
<1> QED BY <1>2, <1>3, <1>4, <1>5, <1>6, <1>7 DEF Traced

\* What Observe makes of a request that goes on as q, and of the others.
LEMMA ObservedMove ==
    ASSUME Requested, Observe, NEW r \in Requests, NEW q, Goes(r, q), Shape(q),
           q.pc \notin {"idle", "refused"} =>
               Traced(q, seen[r] \cup {db, db'}) /\ Distinct(q)
    PROVE  Requested'
<1>1. /\ DOMAIN req = Requests /\ DOMAIN seen = Requests
      /\ \A x \in Requests : Shape(req[x]) /\ Traced(req[x], seen[x]) /\ Distinct(req[x])
  BY DEF Requested
<1>2. DOMAIN req' = Requests /\ req'[r] = q /\ \A x \in Requests \ {r} : req'[x] = req[x]
  BY <1>1 DEF Goes
<1>3. DOMAIN seen' = Requests
  BY DEF Observe
<1>4. ASSUME NEW x \in Requests
      PROVE  \/ seen'[x] = {} /\ req'[x] \in {Idle, Refused}
             \/ seen'[x] = seen[x] /\ req[x] = req'[x]
             \/ seen'[x] = seen[x] \cup {db, db'}
  BY DEF Observe
<1>5. ASSUME NEW x \in Requests
      PROVE  Shape(req'[x]) /\ Distinct(req'[x])
             /\ Traced(req'[x], seen[x] \cup {db, db'})
  <2>1. CASE x # r
    <3>1. Shape(req'[x]) /\ Distinct(req'[x]) /\ Traced(req'[x], seen[x])
      BY <1>1, <1>2, <2>1
    <3> QED BY <3>1, TracesGrow
  <2>2. CASE x = r /\ q.pc \notin {"idle", "refused"}
    BY <1>2, <2>2
  <2>3. CASE x = r /\ q.pc \in {"idle", "refused"}
    BY <1>2, <2>3, NothingToTrace
  <2> QED BY <2>1, <2>2, <2>3
<1>6. ASSUME NEW x \in Requests PROVE Traced(req'[x], seen'[x])
  <2>1. CASE seen'[x] = {} /\ req'[x] \in {Idle, Refused}
    BY <2>1, IdleFacts, NothingToTrace
  <2>2. CASE seen'[x] = seen[x] /\ req[x] = req'[x]
    BY <2>2, <1>1
  <2>3. CASE seen'[x] = seen[x] \cup {db, db'}
    BY <2>3, <1>5
  <2> QED BY <1>4, <2>1, <2>2, <2>3
<1> QED BY <1>2, <1>3, <1>5, <1>6 DEF Requested

\* Other steps leave the requests alone.
LEMMA ObservedRest == ASSUME Requested, Observe, UNCHANGED req PROVE Requested'
<1>1. /\ DOMAIN req = Requests /\ DOMAIN seen = Requests
      /\ \A x \in Requests : Shape(req[x]) /\ Traced(req[x], seen[x]) /\ Distinct(req[x])
  BY DEF Requested
<1>2. DOMAIN seen' = Requests
  BY DEF Observe
<1>3. ASSUME NEW x \in Requests PROVE Traced(req[x], seen'[x])
  <2>1. \/ seen'[x] = {} /\ req'[x] \in {Idle, Refused}
        \/ seen'[x] = seen[x]
        \/ seen'[x] = seen[x] \cup {db, db'}
    BY DEF Observe
  <2>2. CASE seen'[x] = {} /\ req'[x] \in {Idle, Refused}
    BY <2>2, IdleFacts, NothingToTrace
  <2>3. CASE seen'[x] = seen[x]
    BY <2>3, <1>1
  <2>4. CASE seen'[x] = seen[x] \cup {db, db'}
    BY <2>4, <1>1, TracesGrow
  <2> QED BY <2>1, <2>2, <2>3, <2>4
<1> QED BY <1>1, <1>2, <1>3 DEF Requested

-----------------------------------------------------------------------------
(* The steps of a request                                                    *)

\* A request before a step of it, with the rows that are seen by then.
LEMMA BeforeStep ==
    ASSUME Requested, NEW r \in Requests
    PROVE  /\ Shape(req[r]) /\ Distinct(req[r]) /\ DOMAIN req[r] = Fields
           /\ Traced(req[r], seen[r] \cup {db, db'})
<1>1. Shape(req[r]) /\ Traced(req[r], seen[r]) /\ Distinct(req[r])
  BY DEF Requested
<1>2. DOMAIN req[r] = Fields
  BY <1>1, IdleFacts DEF Shape
<1> QED BY <1>1, <1>2, TracesGrow

LEMMA NothingShown == ASSUME NEW q, NEW S, q.entries = <<>> PROVE Shown(q, S) /\ Distinct(q)
BY NothingTaken DEF Shown

LEMMA ArriveTraced ==
    ASSUME Requested, Observe, NEW r \in Requests, NEW ask \in Inquiries, Arrive(r, ask)
    PROVE  Requested'
<1> DEFINE pc     == IF ask.kind = "sub" THEN "rules" ELSE "user"
           format == CASE ask.kind = "raw" -> "RAW" [] ask.kind = "info" -> Page [] OTHER -> None
           q      == [Idle EXCEPT !.ask = ask, !.pc = pc, !.format = format]
           T      == seen[r] \cup {db, db'}
<1>1. Goes(r, q)
  BY DEF Arrive
<1>2. /\ DOMAIN q = Fields
      /\ q.pc = pc /\ q.ask = ask /\ q.format = format
      /\ q.hosts = {} /\ q.entries = <<>> /\ q.unread = FALSE /\ q.note = "none"
      /\ q.mods = Mods /\ q.template = None
  BY DEF Idle, Fields
<1>3. Mods.template = None
  BY DEF Mods
<1>4. ask.kind \in {"sub", "raw", "info"}
  BY AskAssumption
<1>5. \/ pc = "rules" /\ ask.kind = "sub"
      \/ pc = "user" /\ format \in {Page, "RAW"}
  <2>1. ask.kind = "raw" => format = "RAW"
    OBVIOUS
  <2>2. ask.kind = "info" => format = Page
    OBVIOUS
  <2>3. IF ask.kind = "sub" THEN pc = "rules" ELSE pc = "user"
    OBVIOUS
  <2> HIDE DEF format, pc
  <2> QED BY <1>4, <2>1, <2>2, <2>3
<1> HIDE DEF q, pc, format
<1>6. Shape(q)
  BY <1>2, <1>5, IdleFacts DEF Shape, Pcs, Notes, Formats
<1>7. Shown(q, T) /\ Distinct(q)
  BY <1>2, NothingShown
<1>8. SettingsRead(q, T)
  BY <1>2, <1>5 DEF SettingsRead
<1>9. UserRead(q, T) /\ TemplateRead(q, T) /\ Admitted(q, T) /\ HostsRead(q, T)
  BY <1>2, <1>3, <1>5 DEF UserRead, TemplateRead, Admitted, HostsRead
<1>10. Traced(q, T)
  BY <1>7, <1>8, <1>9 DEF Traced
<1> QED BY <1>1, <1>6, <1>7, <1>10, ObservedMove

\* A request that is refused.
LEMMA RefusedTraced ==
    ASSUME Requested, Observe, NEW r \in Requests, Goes(r, Refused)
    PROVE  Requested'
BY IdleFacts, ObservedMove

LEMMA ApplyRulesTraced ==
    ASSUME Requested, Observe, NEW r \in Requests, ApplyRules(r)
    PROVE  Requested'
<1> DEFINE ask == req[r].ask
           hit == MatchRules(RuleSets[db.settings.rules], ask)
           q   == [req[r] EXCEPT !.pc = "user", !.format = hit.format, !.mods = hit.mods,
                                 !.template = hit.mods.template, !.settings = db.settings]
           T   == seen[r] \cup {db, db'}
<1>1. CASE Goes(r, Refused)
  BY <1>1, RefusedTraced
<1>2. CASE hit.format \in Templated \cup {Links, Page} /\ Goes(r, q)
  <2>1. Shape(req[r]) /\ DOMAIN req[r] = Fields /\ req[r].pc = "rules"
    BY BeforeStep DEF ApplyRules, At
  <2> HIDE DEF hit
  <2>2. /\ DOMAIN q = Fields
        /\ q.pc = "user" /\ q.format = hit.format /\ q.mods = hit.mods
        /\ q.template = hit.mods.template /\ q.settings = db.settings
        /\ q.ask = req[r].ask /\ q.hosts = req[r].hosts /\ q.entries = req[r].entries
        /\ q.unread = req[r].unread /\ q.note = req[r].note
    BY <2>1 DEF Fields
  <2> HIDE DEF q
  <2>3. q.format \in Formats /\ q.entries = <<>>
    BY <1>2, <2>1, <2>2 DEF Formats, Shape
  <2>4. Shape(q)
    BY <2>1, <2>2, <2>3, IdleFacts DEF Shape, Pcs
  <2>5. Shown(q, T) /\ Distinct(q)
    BY <2>3, NothingShown
  <2>6. SettingsRead(q, T) /\ UserRead(q, T) /\ TemplateRead(q, T) /\ Admitted(q, T)
        /\ HostsRead(q, T)
    BY <2>2, <2>3 DEF SettingsRead, UserRead, TemplateRead, Admitted, HostsRead
  <2>7. Traced(q, T)
    BY <2>5, <2>6 DEF Traced
  <2> QED BY <1>2, <2>4, <2>5, <2>7, ObservedMove
<1> QED BY <1>1, <1>2 DEF ApplyRules

LEMMA ReadUserTraced ==
    ASSUME Requested, Observe, NEW r \in Requests, ReadUser(r)
    PROVE  Requested'
<1> DEFINE p  == req[r]
           pc == IF p.format \in {Page, "RAW"} THEN "settings"
                 ELSE IF p.template # None THEN "squad" ELSE "template"
           q  == [p EXCEPT !.user = db.user, !.pc = pc]
           T  == seen[r] \cup {db, db'}
<1>1. Goes(r, q) /\ p.pc = "user"
  BY DEF ReadUser, At
<1>2. Shape(p) /\ DOMAIN p = Fields /\ Traced(p, T)
  BY BeforeStep
<1>3. /\ DOMAIN q = Fields
      /\ q.pc = pc /\ q.user = db.user
      /\ q.ask = p.ask /\ q.hosts = p.hosts /\ q.entries = p.entries /\ q.mods = p.mods
      /\ q.unread = p.unread /\ q.note = p.note /\ q.settings = p.settings
      /\ q.template = p.template /\ q.format = p.format
  BY <1>2 DEF Fields
<1>4. \/ p.format \in {Page, "RAW"} /\ pc = "settings"
      \/ p.format \notin {Page, "RAW"} /\ p.template # None /\ pc = "squad"
      \/ p.format \notin {Page, "RAW"} /\ pc = "template"
  OBVIOUS
<1> HIDE DEF p, q, pc
<1>5. q.entries = <<>>
  BY <1>1, <1>2, <1>3 DEF Shape
<1>6. Shape(q)
  BY <1>1, <1>2, <1>3, <1>4, IdleFacts DEF Shape, Pcs
<1>7. Shown(q, T) /\ Distinct(q)
  BY <1>5, NothingShown
<1>8. SettingsRead(q, T)
  BY <1>1, <1>2, <1>3, <1>4 DEF Traced, SettingsRead
<1>9. TemplateRead(q, T)
  BY <1>1, <1>2, <1>3, <1>4 DEF Traced, TemplateRead
<1>10. UserRead(q, T) /\ Admitted(q, T) /\ HostsRead(q, T)
  BY <1>3, <1>4, <1>5 DEF UserRead, Admitted, HostsRead
<1>11. Traced(q, T)
  BY <1>7, <1>8, <1>9, <1>10 DEF Traced
<1> QED BY <1>1, <1>6, <1>7, <1>11, ObservedMove

LEMMA ReadSettingsTraced ==
    ASSUME Requested, Observe, NEW r \in Requests, ReadSettings(r)
    PROVE  Requested'
<1> DEFINE p == req[r]
           q == [p EXCEPT !.settings = db.settings, !.pc = "squad"]
           T == seen[r] \cup {db, db'}
<1>1. Goes(r, q) /\ p.pc = "settings"
  BY DEF ReadSettings, At
<1>2. Shape(p) /\ DOMAIN p = Fields /\ Traced(p, T)
  BY BeforeStep
<1>3. /\ DOMAIN q = Fields
      /\ q.pc = "squad" /\ q.settings = db.settings /\ q.user = p.user
      /\ q.ask = p.ask /\ q.hosts = p.hosts /\ q.entries = p.entries
      /\ q.unread = p.unread /\ q.note = p.note /\ q.format = p.format
  BY <1>2 DEF Fields
<1> HIDE DEF p, q
<1>4. q.entries = <<>> /\ q.format \in {Page, "RAW"}
  BY <1>1, <1>2, <1>3 DEF Shape
<1>5. Shape(q)
  BY <1>1, <1>2, <1>3, IdleFacts DEF Shape, Pcs
<1>6. Shown(q, T) /\ Distinct(q)
  BY <1>4, NothingShown
<1>7. UserRead(q, T)
  BY <1>1, <1>2, <1>3 DEF Traced, UserRead
<1>8. SettingsRead(q, T) /\ TemplateRead(q, T) /\ Admitted(q, T) /\ HostsRead(q, T)
  BY <1>3, <1>4 DEF SettingsRead, TemplateRead, Admitted, HostsRead
<1>9. Traced(q, T)
  BY <1>6, <1>7, <1>8 DEF Traced
<1> QED BY <1>1, <1>5, <1>6, <1>9, ObservedMove

\* The name of the template, or none because it could not be read.
LEMMA ReadTemplateTraced ==
    ASSUME Requested, Observe, NEW r \in Requests, ReadTemplate(r)
    PROVE  Requested'
<1> DEFINE p    == req[r]
           T    == seen[r] \cup {db, db'}
           name == TemplateName(p.format, p.user.external, db.external)
           q(template, unread) ==
               [p EXCEPT !.pc = "squad", !.template = template, !.unread = unread]
<1>1. p.pc = "template"
  BY DEF ReadTemplate, At
<1>2. Shape(p) /\ DOMAIN p = Fields /\ Traced(p, T)
  BY BeforeStep
<1>3. Goes(r, q(name, p.unread)) \/ Goes(r, q(p.template, TRUE))
  <2>1. [p EXCEPT !.pc = "squad", !.template = name] = q(name, p.unread)
    <3> HIDE DEF p, name
    <3> QED BY <1>2 DEF Fields
  <2>2. [p EXCEPT !.pc = "squad", !.unread = TRUE] = q(p.template, TRUE)
    <3> HIDE DEF p
    <3> QED BY <1>2 DEF Fields
  <2>3. \/ Goes(r, [p EXCEPT !.pc = "squad", !.template = name])
        \/ Goes(r, [p EXCEPT !.pc = "squad", !.unread = TRUE])
    BY DEF ReadTemplate
  <2> QED BY <2>1, <2>2, <2>3
<1>4. /\ \E a \in T : p.settings = a.settings
      /\ \E b \in T : p.user = b.user
      /\ db \in T
  BY <1>1, <1>2 DEF Traced, SettingsRead, UserRead
<1>5. ASSUME NEW template, NEW unread \in BOOLEAN, unread \/ template = name,
             Goes(r, q(template, unread))
      PROVE  Requested'
  <2> DEFINE v == q(template, unread)
  <2>1. Goes(r, v)
    BY <1>5
  <2>2. /\ DOMAIN v = Fields
        /\ v.pc = "squad" /\ v.template = template /\ v.unread = unread
        /\ v.ask = p.ask /\ v.hosts = p.hosts /\ v.entries = p.entries /\ v.mods = p.mods
        /\ v.user = p.user /\ v.settings = p.settings
        /\ v.note = p.note /\ v.format = p.format
    <3> HIDE DEF p
    <3> QED BY <1>2 DEF Fields
  <2> HIDE DEF p, v, T
  <2>3. v.entries = <<>>
    BY <1>1, <1>2, <2>2 DEF Shape
  <2>4. Shape(v)
    BY <1>1, <1>2, <2>2, IdleFacts DEF Shape, Pcs
  <2>5. Shown(v, T) /\ Distinct(v)
    BY <2>3, NothingShown
  <2>6. UserRead(v, T) /\ SettingsRead(v, T) /\ Admitted(v, T) /\ HostsRead(v, T)
    BY <1>4, <2>2, <2>3 DEF SettingsRead, UserRead, Admitted, HostsRead
  <2>7. TemplateRead(v, T)
    BY <1>4, <1>5, <2>2 DEF TemplateRead
  <2>8. Traced(v, T)
    BY <2>5, <2>6, <2>7 DEF Traced
  <2> QED BY <2>1, <2>4, <2>5, <2>8, ObservedMove DEF T
<1>6. p.unread \in BOOLEAN
  BY <1>2 DEF Shape
<1> HIDE DEF p, q, name
<1> QED BY <1>3, <1>5, <1>6

LEMMA ReadSquadTraced ==
    ASSUME Requested, Observe, NEW r \in Requests, ReadSquad(r)
    PROVE  Requested'
<1> DEFINE p     == req[r]
           T     == seen[r] \cup {db, db'}
           pc(s) == CASE p.format # Page                                     -> "device"
                      [] p.format = Page /\ (~s.hwid \/ p.ask.kind = "info") -> "hosts"
                      [] OTHER                                               -> "served"
           q(s, unread) == [p EXCEPT !.settings = s, !.unread = unread, !.pc = pc(s)]
<1>1. /\ p.pc = "squad"
      /\ \/ Goes(r, q(Overridden(p.settings, p.user.external, db.external), p.unread))
         \/ Goes(r, q(p.settings, TRUE))
  BY DEF ReadSquad, At
<1>2. Shape(p) /\ DOMAIN p = Fields /\ Traced(p, T)
  BY BeforeStep
<1>3. /\ \E a \in T : p.settings = a.settings
      /\ \E b \in T : p.user = b.user
      /\ db \in T
  BY <1>1, <1>2 DEF Traced, SettingsRead, UserRead
<1>4. ASSUME NEW s, NEW unread \in BOOLEAN, p.unread => unread,
             s \in SettingsOf(unread, T), Goes(r, q(s, unread))
      PROVE  Requested'
  <2> DEFINE v == q(s, unread)
  <2>1. \/ p.format # Page /\ pc(s) = "device"
        \/ p.format = Page /\ (~s.hwid \/ p.ask.kind = "info") /\ pc(s) = "hosts"
        \/ pc(s) = "served"
    OBVIOUS
  <2>2. Goes(r, v)
    BY <1>4
  <2>3. /\ DOMAIN v = Fields
        /\ v.pc = pc(s) /\ v.settings = s /\ v.unread = unread
        /\ v.ask = p.ask /\ v.hosts = p.hosts /\ v.entries = p.entries /\ v.mods = p.mods
        /\ v.user = p.user /\ v.template = p.template
        /\ v.note = p.note /\ v.format = p.format
    <3> HIDE DEF p, pc
    <3> QED BY <1>2 DEF Fields
  <2> HIDE DEF p, pc, v, T
  <2>4. v.entries = <<>>
    BY <1>1, <1>2, <2>3 DEF Shape
  <2>5. Shape(v)
    BY <1>1, <1>2, <2>1, <2>3, IdleFacts DEF Shape, Pcs
  <2>6. Shown(v, T) /\ Distinct(v)
    BY <2>4, NothingShown
  <2>7. UserRead(v, T) /\ HostsRead(v, T)
    BY <1>3, <2>1, <2>3 DEF UserRead, HostsRead
  <2>8. SettingsRead(v, T)
    BY <1>4, <2>1, <2>3 DEF SettingsRead
  <2>9. TemplateRead(v, T)
    BY <1>1, <1>2, <1>4, <2>1, <2>3 DEF Traced, TemplateRead
  <2>10. Admitted(v, T)
    BY <2>1, <2>3, <2>4 DEF Admitted
  <2>11. Traced(v, T)
    BY <2>6, <2>7, <2>8, <2>9, <2>10 DEF Traced
  <2> QED BY <2>2, <2>5, <2>6, <2>11, ObservedMove DEF T
<1>5. Overridden(p.settings, p.user.external, db.external) \in SettingsOf(p.unread, T)
  <2> HIDE DEF p, T
  <2> QED BY <1>3 DEF SettingsOf
<1>6. p.settings \in SettingsOf(TRUE, T)
  <2> HIDE DEF p, T
  <2> QED BY <1>3 DEF SettingsOf
<1>7. p.unread \in BOOLEAN
  BY <1>2 DEF Shape
<1> HIDE DEF q, p, T
<1> QED BY <1>1, <1>4, <1>5, <1>6, <1>7

LEMMA EarlyExitNotes ==
    ASSUME NEW settings, NEW status, NEW refusal \in {"none", "devices", "unsupported"},
           NEW count, NEW format
    PROVE  /\ EarlyExit(settings, status, refusal, count) \in Notes
           /\ Fallback(format, EarlyExit(settings, status, refusal, count)) \in Notes
<1>1. EarlyExit(settings, status, refusal, count) \in Notes
  BY DEF EarlyExit, Notes
<1> QED BY <1>1 DEF Fallback, Notes

LEMMA CheckDeviceTraced ==
    ASSUME db \in Db, Requested, Observe, NEW r \in Requests, CheckDevice(r)
    PROVE  Requested'
<1> DEFINE p     == req[r]
           T     == seen[r] \cup {db, db'}
           d     == p.ask.device
           open  == ~p.settings.hwid \/ p.mods.noHwid \/ p.user.unlimited
           known == d \in db.devices
           room  == d # None /\ Cardinality(db.devices) < Limit
           why   == IF d = None THEN "unsupported" ELSE "devices"
           note  == IF p.settings.show
                    THEN Fallback(p.format, EarlyExit(p.settings, p.user.status, why, 0))
                    ELSE "none"
<1>1. /\ p.pc = "device"
      /\ IF open \/ known \/ room THEN Goes(r, [p EXCEPT !.pc = "hosts"])
         ELSE Goes(r, [p EXCEPT !.pc = "served", !.note = note])
      /\ db' = IF ~open /\ ~known /\ room THEN [db EXCEPT !.devices = @ \cup {d}] ELSE db
  BY DEF CheckDevice, At
<1>2. Shape(p) /\ DOMAIN p = Fields /\ Traced(p, T)
  BY BeforeStep
<1>3. p.entries = <<>> /\ p.format # Page
  BY <1>1, <1>2 DEF Shape
<1>4. note \in Notes
  BY EarlyExitNotes DEF Notes
<1>5. CASE open \/ known \/ room
  <2> DEFINE q == [p EXCEPT !.pc = "hosts"]
  <2>1. Goes(r, q)
    BY <1>1, <1>5
  <2>2. /\ DOMAIN q = Fields
        /\ q.pc = "hosts" /\ q.settings = p.settings /\ q.unread = p.unread
        /\ q.ask = p.ask /\ q.hosts = p.hosts /\ q.entries = p.entries /\ q.mods = p.mods
        /\ q.user = p.user /\ q.template = p.template
        /\ q.note = p.note /\ q.format = p.format
    <3> HIDE DEF p
    <3> QED BY <1>2 DEF Fields
  <2>3. open \/ \E c \in T : d \in c.devices
    <3>1. CASE known
      BY <3>1
    <3>2. CASE ~open /\ ~known /\ room
      <4>1. db' = [db EXCEPT !.devices = @ \cup {d}]
        BY <1>1, <3>2
      <4> HIDE DEF d
      <4>2. d \in db'.devices
        BY <4>1 DEF Db
      <4> QED BY <4>2
    <3> QED BY <1>5, <3>1, <3>2
  <2>4. Admitted(q, T)
    <3> HIDE DEF p, q, T
    <3> QED BY <1>3, <2>2, <2>3 DEF Admitted
  <2> HIDE DEF p, q, T, d, open, known, room
  <2>5. Shape(q)
    BY <1>1, <1>2, <2>2, IdleFacts DEF Shape, Pcs
  <2>6. Shown(q, T) /\ Distinct(q)
    BY <1>3, <2>2, NothingShown
  <2>7. UserRead(q, T) /\ SettingsRead(q, T) /\ TemplateRead(q, T) /\ HostsRead(q, T)
    BY <1>1, <1>2, <2>2 DEF Traced, UserRead, SettingsRead, TemplateRead, HostsRead
  <2>8. Traced(q, T)
    BY <2>4, <2>6, <2>7 DEF Traced
  <2> QED BY <2>1, <2>5, <2>6, <2>8, ObservedMove DEF T
<1>6. CASE ~(open \/ known \/ room)
  <2> DEFINE q == [p EXCEPT !.pc = "served", !.note = note]
  <2>1. Goes(r, q)
    BY <1>1, <1>6
  <2> HIDE DEF note, p
  <2>2. /\ DOMAIN q = Fields
        /\ q.pc = "served" /\ q.settings = p.settings /\ q.unread = p.unread
        /\ q.ask = p.ask /\ q.hosts = p.hosts /\ q.entries = p.entries /\ q.mods = p.mods
        /\ q.user = p.user /\ q.template = p.template
        /\ q.note = note /\ q.format = p.format
    BY <1>2 DEF Fields
  <2> HIDE DEF p, q, T, d, open, known, room
  <2>3. Shape(q)
    BY <1>1, <1>2, <1>4, <2>2, IdleFacts DEF Shape, Pcs
  <2>4. Shown(q, T) /\ Distinct(q)
    BY <1>3, <2>2, NothingShown
  <2>5. UserRead(q, T) /\ SettingsRead(q, T) /\ TemplateRead(q, T) /\ HostsRead(q, T)
        /\ Admitted(q, T)
    BY <1>1, <1>2, <1>3, <2>2
       DEF Traced, UserRead, SettingsRead, TemplateRead, HostsRead, Admitted
  <2>6. Traced(q, T)
    BY <2>4, <2>5 DEF Traced
  <2> QED BY <2>1, <2>3, <2>4, <2>6, ObservedMove DEF T
<1> QED BY <1>5, <1>6

LEMMA ReadHostsTraced ==
    ASSUME Requested, Observe, NEW r \in Requests, ReadHosts(r)
    PROVE  Requested'
<1> DEFINE p      == req[r]
           T      == seen[r] \cup {db, db'}
           json   == /\ p.format = Links /\ p.settings.json /\ ~p.mods.noJson
                     /\ p.ask.headers["user-agent"] \in Json
           format == IF json THEN "XRAY_JSON" ELSE p.format
           hosts  == Visible(db, p.ask.disabled, format \in {"XRAY_JSON", "MIHOMO", "RAW"})
           q      == [p EXCEPT !.pc = "render", !.format = format, !.hosts = hosts]
<1>1. Goes(r, q) /\ p.pc = "hosts"
  BY DEF ReadHosts, At
<1>2. Shape(p) /\ DOMAIN p = Fields /\ Traced(p, T)
  BY BeforeStep
<1>3. format = p.format \/ (p.format = Links /\ format = "XRAY_JSON")
  OBVIOUS
<1>4. hosts \subseteq Hosts /\ hosts \subseteq Visible(db, p.ask.disabled, TRUE)
  <2> HIDE DEF p, format
  <2> QED BY DEF Visible
<1> HIDE DEF json, format, hosts, p
<1>5. /\ DOMAIN q = Fields
      /\ q.pc = "render" /\ q.settings = p.settings /\ q.unread = p.unread
      /\ q.ask = p.ask /\ q.hosts = hosts /\ q.entries = p.entries /\ q.mods = p.mods
      /\ q.user = p.user /\ q.template = p.template
      /\ q.note = p.note /\ q.format = format
  BY <1>2 DEF Fields
<1> HIDE DEF q
<1>6. /\ format \in Formats /\ p.entries = <<>>
      /\ format = Page <=> p.format = Page
      /\ format \in {Page, "RAW"} <=> p.format \in {Page, "RAW"}
  BY <1>1, <1>2, <1>3 DEF Shape, Formats, Templated, Links, Page
<1>7. \A e, x : TemplateName(format, e, x) = TemplateName(p.format, e, x)
  <2>1. CASE format = p.format
    BY <2>1
  <2>2. CASE p.format = Links /\ format = "XRAY_JSON"
    BY <2>2 DEF TemplateName, Links
  <2> QED BY <1>3, <2>1, <2>2
<1>8. Shape(q)
  BY <1>1, <1>2, <1>4, <1>5, <1>6, IdleFacts DEF Shape, Pcs
<1>9. Shown(q, T) /\ Distinct(q)
  BY <1>5, <1>6, NothingShown
<1>10. UserRead(q, T) /\ SettingsRead(q, T)
  BY <1>1, <1>2, <1>5 DEF Traced, UserRead, SettingsRead
<1>11. TemplateRead(q, T)
  BY <1>1, <1>2, <1>5, <1>6, <1>7 DEF Traced, TemplateRead
<1>12. Admitted(q, T)
  BY <1>1, <1>2, <1>5, <1>6 DEF Traced, Admitted
<1>13. HostsRead(q, T)
  BY <1>4, <1>5 DEF HostsRead
<1>14. Traced(q, T)
  BY <1>9, <1>10, <1>11, <1>12, <1>13 DEF Traced
<1> QED BY <1>1, <1>8, <1>9, <1>14, ObservedMove

LEMMA FailTraced ==
    ASSUME Requested, Observe, NEW r \in Requests, Fail(r)
    PROVE  Requested'
<1> DEFINE p    == req[r]
           T    == seen[r] \cup {db, db'}
           note == EarlyExit(p.settings, p.user.status, "none", 0)
           q    == [p EXCEPT !.pc = "served", !.note = note]
<1>1. CASE Goes(r, Refused)
  BY <1>1, RefusedTraced
<1>2. CASE p.pc = "hosts" /\ Goes(r, q)
  <2>1. Shape(p) /\ DOMAIN p = Fields /\ Traced(p, T)
    BY BeforeStep
  <2>2. p.entries = <<>> /\ note \in Notes
    BY <1>2, <2>1, EarlyExitNotes DEF Shape
  <2> HIDE DEF note, p
  <2>3. /\ DOMAIN q = Fields
        /\ q.pc = "served" /\ q.settings = p.settings /\ q.unread = p.unread
        /\ q.ask = p.ask /\ q.hosts = p.hosts /\ q.entries = p.entries /\ q.mods = p.mods
        /\ q.user = p.user /\ q.template = p.template
        /\ q.note = note /\ q.format = p.format
    BY <2>1 DEF Fields
  <2> HIDE DEF q, T
  <2>4. Shape(q)
    BY <1>2, <2>1, <2>2, <2>3, IdleFacts DEF Shape, Pcs
  <2>5. Shown(q, T) /\ Distinct(q)
    BY <2>2, <2>3, NothingShown
  <2>6. UserRead(q, T) /\ SettingsRead(q, T) /\ TemplateRead(q, T) /\ HostsRead(q, T)
        /\ Admitted(q, T)
    BY <1>2, <2>1, <2>2, <2>3
       DEF Traced, UserRead, SettingsRead, TemplateRead, HostsRead, Admitted
  <2>7. Traced(q, T)
    BY <2>5, <2>6 DEF Traced
  <2> QED BY <1>2, <2>4, <2>5, <2>7, ObservedMove DEF T
<1> QED BY <1>1, <1>2 DEF Fail

LEMMA LeaveTraced ==
    ASSUME Requested, Observe, NEW r \in Requests, Leave(r)
    PROVE  Requested'
BY IdleFacts, ObservedMove DEF Leave

-----------------------------------------------------------------------------
(* Orders and remarks                                                        *)

\* Groups in orders of their own are in an order, one after the other.
LEMMA JoinedFacts ==
    ASSUME NEW hosts, IsFiniteSet(hosts), NEW first \in SUBSET hosts,
           NEW p \in Injection(first, 1..Cardinality(first)),
           NEW q \in Injection(hosts \ first, 1..Cardinality(hosts \ first))
    PROVE  /\ Joined(p, q) \in [hosts -> Nat]
           /\ \A g, h \in hosts : g # h => Joined(p, q)[g] # Joined(p, q)[h]
<1> DEFINE n     == Cardinality(first)
           order == Joined(p, q)
<1>1. IsFiniteSet(first) /\ IsFiniteSet(hosts \ first)
  BY FS_Subset
<1>2. n \in Nat /\ Cardinality(hosts \ first) \in Nat
  BY <1>1, FS_CardinalityType
<1>3. p \in [first -> 1..n] /\ \A g, h \in first : g # h => p[g] # p[h]
  BY DEF Injection, IsInjective
<1>4. /\ q \in [hosts \ first -> 1..Cardinality(hosts \ first)]
      /\ \A g, h \in hosts \ first : g # h => q[g] # q[h]
  BY DEF Injection, IsInjective
<1>5. order = [h \in hosts |-> IF h \in first THEN p[h] ELSE n + q[h]]
  <2>1. DOMAIN p = first /\ DOMAIN q = hosts \ first
    BY <1>3, <1>4
  <2>2. DOMAIN p \cup DOMAIN q = hosts
    BY <2>1
  <2> QED BY <2>1, <2>2 DEF Joined
<1> HIDE DEF n, order
<1>6. ASSUME NEW h \in hosts
      PROVE  IF h \in first THEN order[h] = p[h] /\ p[h] \in 1..n
             ELSE order[h] = n + q[h] /\ q[h] \in Nat /\ q[h] >= 1
  <2>1. order[h] = IF h \in first THEN p[h] ELSE n + q[h]
    BY <1>5
  <2> QED BY <2>1, <1>2, <1>3, <1>4
<1>7. DOMAIN order = hosts /\ order = [h \in hosts |-> order[h]]
  BY <1>5
<1>8. ASSUME NEW h \in hosts PROVE order[h] \in Nat
  BY <1>2, <1>6
<1>9. order \in [hosts -> Nat]
  BY <1>7, <1>8
<1>10. ASSUME NEW g \in hosts, NEW h \in hosts, g # h PROVE order[g] # order[h]
  <2>1. CASE g \in first /\ h \in first
    BY <2>1, <1>3, <1>6, <1>10
  <2>2. CASE g \in first /\ h \notin first
    BY <2>2, <1>2, <1>6
  <2>3. CASE g \notin first /\ h \in first
    BY <2>3, <1>2, <1>6
  <2>4. CASE g \notin first /\ h \notin first
    <3>1. q[g] # q[h]
      BY <2>4, <1>4, <1>10
    <3>2. order[g] = n + q[g] /\ q[g] \in Nat /\ order[h] = n + q[h] /\ q[h] \in Nat
      BY <2>4, <1>6
    <3> QED BY <3>1, <3>2, <1>2
  <2> QED BY <2>1, <2>2, <2>3, <2>4
<1> QED BY <1>9, <1>10 DEF order

\* How many hosts come before one with the same remark differs.
LEMMA EarlierGrow ==
    ASSUME NEW hosts, IsFiniteSet(hosts), NEW order \in [hosts -> Nat],
           NEW g \in hosts, NEW h \in hosts, order[g] < order[h],
           Row[g].remark = Row[h].remark
    PROVE  Cardinality({x \in hosts : order[x] < order[g] /\ Row[x].remark = Row[g].remark})
           < Cardinality({x \in hosts : order[x] < order[h] /\ Row[x].remark = Row[h].remark})
<1> DEFINE A == {x \in hosts : order[x] < order[g] /\ Row[x].remark = Row[g].remark}
           B == {x \in hosts : order[x] < order[h] /\ Row[x].remark = Row[h].remark}
<1>1. order[g] \in Nat /\ order[h] \in Nat /\ \A x \in hosts : order[x] \in Nat
  OBVIOUS
<1>2. IsFiniteSet(B)
  BY FS_Subset
<1>3. A \subseteq B
  BY <1>1
<1>4. g \in B /\ g \notin A
  BY <1>1
<1> HIDE DEF A, B
<1>5. Cardinality(A) <= Cardinality(B) /\ (Cardinality(A) = Cardinality(B) => A = B)
  BY <1>2, <1>3, FS_Subset
<1>6. IsFiniteSet(A) /\ Cardinality(A) \in Nat /\ Cardinality(B) \in Nat
  BY <1>2, <1>3, FS_Subset, FS_CardinalityType
<1>7. Cardinality(A) < Cardinality(B)
  BY <1>4, <1>5, <1>6
<1> QED BY <1>7 DEF A, B

LEMMA DeduplicateFacts ==
    ASSUME NEW S, NEW r \in Seq(S), NEW n \in Nat
    PROVE  DeduplicateRemark(r, n) =
               IF n = 0 THEN r ELSE Append(r, IF Len(r) > 1 THEN n ELSE n + 1)
<1>1. Len(r) \in Nat
  BY LenProperties
<1>2. CASE n = 0
  BY <1>2 DEF DeduplicateRemark
<1>3. CASE n # 0 /\ Len(r) > 1
  BY <1>3 DEF DeduplicateRemark
<1>4. CASE n # 0 /\ ~(Len(r) > 1)
  BY <1>4 DEF DeduplicateRemark
<1> QED BY <1>2, <1>3, <1>4

\* Another number behind a remark makes another remark, and so does another remark.
LEMMA NumbersTell ==
    ASSUME NEW S, NEW r \in Seq(S), NEW t \in Seq(S), NEW j, NEW k
    PROVE  Append(r, j) = Append(t, k) => r = t /\ j = k
<1> DEFINE T == S \cup {j, k}
<1>1. r \in Seq(T) /\ t \in Seq(T) /\ j \in T /\ k \in T
  BY SeqMonotonic
<1> HIDE DEF T
<1> QED BY <1>1, AppendInjective

\* A number behind a remark makes it longer.
LEMMA NumbersDiffer ==
    ASSUME NEW S, NEW r \in Seq(S), NEW k
    PROVE  Append(r, k) # r /\ IsStrictPrefix(r, Append(r, k))
<1> DEFINE T == S \cup {k}
<1>1. r \in Seq(T) /\ k \in T
  BY SeqMonotonic
<1> HIDE DEF T
<1>2. Len(Append(r, k)) = Len(r) + 1 /\ Len(r) \in Nat
  BY <1>1, AppendProperties, LenProperties
<1>3. Append(r, k) # r
  BY <1>2
<1>4. SubSeq(r, 1, Len(r)) = SubSeq(Append(r, k), 1, Len(r))
  <2> DEFINE u == SubSeq(Append(r, k), 1, Len(r))
  <2>1. \A i \in 1..Len(r) : Append(r, k)[i] = r[i] /\ r[i] \in T
    BY <1>1, AppendProperties, ElementOfSeq
  <2>2. u \in Seq(T) /\ Len(u) = (IF 1 <= Len(r) THEN Len(r) - 1 + 1 ELSE 0)
        /\ \A i \in 1..(Len(r) - 1 + 1) : u[i] = Append(r, k)[1 + i - 1]
    BY <1>2, <2>1, SubSeqProperties
  <2> HIDE DEF u
  <2>3. Len(u) = Len(r) /\ \A i \in 1..Len(u) : u[i] = r[i]
    BY <1>2, <2>1, <2>2
  <2>4. u = r
    BY <1>1, <2>2, <2>3, SeqEqual
  <2> QED BY <1>1, <2>4, SubSeqFull DEF u
<1> QED BY <1>2, <1>3, <1>4 DEF IsStrictPrefix, IsPrefix

\* Two hosts get different remarks, unless one is numbered like another by hand.
LEMMA FinalRemarksDiffer ==
    ASSUME NEW hosts, hosts \subseteq Hosts, NEW order \in [hosts -> Nat],
           \A x, y \in hosts : x # y => order[x] # order[y],
           NEW g \in hosts, NEW h \in hosts, g # h,
           ~IsStrictPrefix(Row[g].remark, Row[h].remark),
           ~IsStrictPrefix(Row[h].remark, Row[g].remark)
    PROVE  FinalRemark(order, g) # FinalRemark(order, h)
<1> DEFINE a    == Row[g].remark
           b    == Row[h].remark
           E(x) == {y \in hosts : order[y] < order[x] /\ Row[y].remark = Row[x].remark}
           m    == Cardinality(E(g))
           n    == Cardinality(E(h))
           S    == Range(a) \cup Range(b)
           N(r, k) == IF Len(r) > 1 THEN k ELSE k + 1
<1>1. IsFiniteSet(hosts)
  BY HostsAssumption, FS_Subset
<1>2. IsFiniteSet(E(g)) /\ IsFiniteSet(E(h))
  BY <1>1, FS_Subset
<1>3. m \in Nat /\ n \in Nat
  BY <1>2, FS_CardinalityType
<1>4. a \in Seq(S) /\ b \in Seq(S)
  <2>1. a \in Seq(Range(a)) /\ b \in Seq(Range(b))
    BY RemarkAssumption
  <2> HIDE DEF a, b
  <2> QED BY <2>1, SeqMonotonic
<1>5. a = b => m # n
  <2> SUFFICES ASSUME a = b PROVE m # n
    OBVIOUS
  <2>1. order[g] < order[h] \/ order[h] < order[g]
    OBVIOUS
  <2>2. CASE order[g] < order[h]
    <3>1. m < n
      <4>1. Row[g].remark = Row[h].remark
        BY DEF a, b
      <4> HIDE DEF a, b
      <4> QED BY <1>1, <2>2, <4>1, EarlierGrow DEF m, n, E
    <3> QED BY <3>1, <1>3
  <2>3. CASE order[h] < order[g]
    <3>1. n < m
      <4>1. Row[h].remark = Row[g].remark
        BY DEF a, b
      <4> HIDE DEF a, b
      <4> QED BY <1>1, <2>3, <4>1, EarlierGrow DEF m, n, E
    <3> QED BY <3>1, <1>3
  <2> QED BY <2>1, <2>2, <2>3
<1>6. FinalRemark(order, g) = DeduplicateRemark(a, m)
      /\ FinalRemark(order, h) = DeduplicateRemark(b, n)
  BY DEF FinalRemark
<1> HIDE DEF a, b, m, n, S, E
<1>7. DeduplicateRemark(a, m) = (IF m = 0 THEN a ELSE Append(a, N(a, m)))
      /\ DeduplicateRemark(b, n) = (IF n = 0 THEN b ELSE Append(b, N(b, n)))
  BY <1>3, <1>4, DeduplicateFacts
<1>8. ~IsStrictPrefix(a, b) /\ ~IsStrictPrefix(b, a)
  BY DEF a, b
<1>9. a = b /\ N(a, m) = N(b, n) => m = n
  BY <1>3
<1> HIDE DEF N
<1>10. /\ Append(a, N(a, m)) # a /\ Append(b, N(b, n)) # b
       /\ IsStrictPrefix(a, Append(a, N(a, m))) /\ IsStrictPrefix(b, Append(b, N(b, n)))
       /\ Append(a, N(a, m)) = Append(b, N(b, n)) => a = b /\ N(a, m) = N(b, n)
  <2> DEFINE j == N(a, m)
             k == N(b, n)
  <2> HIDE DEF j, k
  <2>1. /\ Append(a, j) # a /\ Append(b, k) # b
        /\ IsStrictPrefix(a, Append(a, j)) /\ IsStrictPrefix(b, Append(b, k))
    BY <1>4, NumbersDiffer
  <2>2. Append(a, j) = Append(b, k) => a = b /\ j = k
    BY <1>4, NumbersTell, SMTT(60)
  <2> QED BY <2>1, <2>2 DEF j, k
<1>11. CASE m = 0 /\ n = 0
  BY <1>5, <1>6, <1>7, <1>11
<1>12. CASE m = 0 /\ n # 0
  BY <1>6, <1>7, <1>8, <1>10, <1>12
<1>13. CASE m # 0 /\ n = 0
  BY <1>6, <1>7, <1>8, <1>10, <1>13
<1>14. CASE m # 0 /\ n # 0
  BY <1>5, <1>6, <1>7, <1>9, <1>10, <1>14
<1> QED BY <1>11, <1>12, <1>13, <1>14

-----------------------------------------------------------------------------
(* What the generators take                                                  *)

\* The entries are about proxies, with their remarks.
Takes(entries, proxies) ==
    /\ DOMAIN entries \subseteq DOMAIN proxies
    /\ \A h \in DOMAIN entries : /\ entries[h].remark = proxies[h]
                                 /\ entries[h].hosts \subseteq DOMAIN proxies

LEMMA EntriesTake == ASSUME NEW proxies, NEW taken PROVE Takes(Entries(proxies, taken), proxies)
BY DEF Takes, Entries

LEMMA InjectorsTake ==
    ASSUME NEW proxies, NEW injector, NEW host \in DOMAIN proxies
    PROVE  InjectorOutbounds(injector, host, proxies) \subseteq DOMAIN proxies
<1>1. Injected(injector, host, proxies) \subseteq DOMAIN proxies
  <2> DEFINE candidates == DOMAIN proxies \ {host}
             from == CASE injector.from = "HIDDEN"     -> {h \in candidates : Row[h].hidden}
                       [] injector.from = "NOT_HIDDEN" -> {h \in candidates : ~Row[h].hidden}
                       [] OTHER                        -> candidates
  <2>1. from \subseteq candidates
    OBVIOUS
  <2>2. Injected(injector, host, proxies) \subseteq from
    <3> HIDE DEF from, candidates
    <3>1. Injected(injector, host, proxies) =
             IF injector.sameTag THEN {h \in from : Row[h].tags \cap Row[host].tags # {}} ELSE from
      BY DEF Injected, from, candidates
    <3> QED BY <3>1
  <2> QED BY <2>1, <2>2
<1> QED BY <1>1 DEF InjectorOutbounds

LEMMA JsonTakes ==
    ASSUME NEW proxies, NEW content, NEW noHostTemplate
    PROVE  Takes(XrayJsonConfigs(proxies, content, noHostTemplate), proxies)
BY InjectorsTake DEF Takes, XrayJsonConfigs

LEMMA GenerateTakes ==
    ASSUME NEW format \in Formats, NEW name, NEW noHostTemplate, NEW proxies
    PROVE  Takes(GenerateSubscription(format, name, noHostTemplate, proxies), proxies)
<1> DEFINE e == GenerateSubscription(format, name, noHostTemplate, proxies)
<1>1. CASE format \in {Links, Page}
  <2>1. e = XrayLinks(proxies)
    BY <1>1 DEF GenerateSubscription, Links, Page
  <2> QED BY <2>1, EntriesTake DEF XrayLinks
<1>2. CASE format = "CLASH"
  <2>1. e = ClashProxies(proxies)
    BY <1>2 DEF GenerateSubscription, Links, Page
  <2> QED BY <2>1, EntriesTake DEF ClashProxies
<1>3. CASE format \in {"MIHOMO", "STASH"}
  <2>1. e = MihomoProxies(format, proxies, Content(format, name))
    BY <1>3 DEF GenerateSubscription, Links, Page
  <2> QED BY <2>1, EntriesTake DEF MihomoProxies
<1>4. CASE format = "SINGBOX"
  <2>1. e = SingboxOutbounds(proxies)
    BY <1>4 DEF GenerateSubscription, Links, Page
  <2> QED BY <2>1, EntriesTake DEF SingboxOutbounds
<1>5. CASE format = "XRAY_JSON"
  <2>1. e = XrayJsonConfigs(proxies, Content(format, name), noHostTemplate)
    BY <1>5 DEF GenerateSubscription, Links, Page
  <2> QED BY <2>1, JsonTakes
<1>6. CASE format = "RAW"
  <2>1. e = Entries(proxies, Hosts)
    BY <1>6 DEF GenerateSubscription, Links, Page
  <2> QED BY <2>1, EntriesTake
<1> QED BY <1>1, <1>2, <1>3, <1>4, <1>5, <1>6 DEF Formats, Templated

-----------------------------------------------------------------------------
(* The answer                                                                *)

\* What is shown, once nothing speaks against proxies.
LEMMA EarlyExitNone ==
    ASSUME NEW settings, NEW status, NEW count,
           EarlyExit(settings, status, "none", count) = "none"
    PROVE  status = "ACTIVE" \/ ~settings.show
<1> SUFFICES ASSUME settings.show, status # "ACTIVE" PROVE FALSE
  OBVIOUS
<1>1. EarlyExit(settings, status, "none", count) = "status"
  BY DEF EarlyExit
<1> QED BY <1>1

LEMMA RenderTraced ==
    ASSUME Requested, Observe, NEW r \in Requests, Render(r)
    PROVE  Requested'
<1> DEFINE p     == req[r]
           T     == seen[r] \cup {db, db'}
           kept  == {h \in p.hosts : p.format = Page \/ Row[h].tags \cap p.mods.tags = {}}
           early == EarlyExit(p.settings, p.user.status, "none", Cardinality(kept))
           first == {h \in kept : Row[h].shuffle}
           free  == p.settings.shuffle /\ p.format # Page
           Entry(x, y) == GenerateSubscription(p.format, p.template, p.mods.noHostTemplate,
                                               ResolveProxies(Joined(x, y)))
<1>1. /\ p.pc = "render"
      /\ IF early # "none"
         THEN Goes(r, [p EXCEPT !.pc = "served", !.note = Fallback(p.format, early)])
         ELSE \E x \in Ranks(first, TRUE), y \in Ranks(kept \ first, free) :
                 Goes(r, [p EXCEPT !.pc = "served", !.entries = Entry(x, y)])
  BY DEF Render, At
<1>2. Shape(p) /\ DOMAIN p = Fields /\ Traced(p, T) /\ Distinct(p)
  BY BeforeStep
<1>3. p.entries = <<>> /\ p.format \in Formats /\ kept \subseteq p.hosts /\ p.hosts \subseteq Hosts
  BY <1>1, <1>2 DEF Shape
<1>4. CASE early # "none"
  <2> DEFINE note == Fallback(p.format, early)
             q    == [p EXCEPT !.pc = "served", !.note = note]
  <2>1. Goes(r, q)
    BY <1>1, <1>4
  <2>2. note \in Notes
    BY EarlyExitNotes
  <2> HIDE DEF note, p
  <2>3. /\ DOMAIN q = Fields
        /\ q.pc = "served" /\ q.settings = p.settings /\ q.unread = p.unread
        /\ q.ask = p.ask /\ q.hosts = p.hosts /\ q.entries = p.entries /\ q.mods = p.mods
        /\ q.user = p.user /\ q.template = p.template
        /\ q.note = note /\ q.format = p.format
    BY <1>2 DEF Fields
  <2> HIDE DEF q, T
  <2>4. Shape(q)
    BY <1>1, <1>2, <2>2, <2>3, IdleFacts DEF Shape, Pcs
  <2>5. Shown(q, T) /\ Distinct(q)
    BY <1>3, <2>3, NothingShown
  <2>6. UserRead(q, T) /\ SettingsRead(q, T) /\ TemplateRead(q, T) /\ HostsRead(q, T)
        /\ Admitted(q, T)
    BY <1>1, <1>2, <1>3, <2>3
       DEF Traced, UserRead, SettingsRead, TemplateRead, HostsRead, Admitted
  <2>7. Traced(q, T)
    BY <2>5, <2>6 DEF Traced
  <2> QED BY <2>1, <2>4, <2>5, <2>7, ObservedMove DEF T
<1>5. CASE early = "none"
  <2>1. PICK x \in Ranks(first, TRUE), y \in Ranks(kept \ first, free) :
           Goes(r, [p EXCEPT !.pc = "served", !.entries = Entry(x, y)])
    BY <1>1, <1>5
  <2> DEFINE order   == Joined(x, y)
             proxies == ResolveProxies(order)
             e       == Entry(x, y)
             q       == [p EXCEPT !.pc = "served", !.entries = e]
  <2>2. Goes(r, q)
    BY <2>1
  <2>3. p.user.status = "ACTIVE" \/ ~p.settings.show
    BY <1>5, EarlyExitNone
  <2>4. IsFiniteSet(kept) /\ first \subseteq kept
    BY <1>3, HostsAssumption, FS_Subset
  <2>5. order \in [kept -> Nat] /\ \A g, h \in kept : g # h => order[g] # order[h]
    <3> HIDE DEF kept, first, free, order
    <3>1. /\ first \in SUBSET kept /\ IsFiniteSet(kept)
          /\ x \in Injection(first, 1..Cardinality(first))
          /\ y \in Injection(kept \ first, 1..Cardinality(kept \ first))
      BY <2>4 DEF Ranks
    <3>2. /\ Joined(x, y) \in [kept -> Nat]
          /\ \A g, h \in kept : g # h => Joined(x, y)[g] # Joined(x, y)[h]
      BY <3>1, JoinedFacts
    <3> QED BY <3>2 DEF order
  <2>6. Takes(e, proxies)
    <3> HIDE DEF p, proxies
    <3> QED BY <1>3, GenerateTakes DEF proxies
  <2>7. DOMAIN proxies \subseteq kept /\ \A h \in DOMAIN proxies : proxies[h] = FinalRemark(order, h)
    <3> HIDE DEF order, kept
    <3> QED BY <2>5 DEF ResolveProxies
  <2>8. \A h \in kept : p.format # Page => Row[h].tags \cap p.mods.tags = {}
    OBVIOUS
  <2> HIDE DEF e, order, proxies, kept, first, free, Entry, p
  <2>9. /\ DOMAIN q = Fields
        /\ q.pc = "served" /\ q.settings = p.settings /\ q.unread = p.unread
        /\ q.ask = p.ask /\ q.hosts = p.hosts /\ q.entries = e /\ q.mods = p.mods
        /\ q.user = p.user /\ q.template = p.template
        /\ q.note = p.note /\ q.format = p.format
    BY <1>2 DEF Fields
  <2> HIDE DEF q, T
  <2>10. Shape(q)
    BY <1>1, <1>2, <2>9, IdleFacts DEF Shape, Pcs
  <2>11. Distinct(q)
    <3> SUFFICES ASSUME \A g, h \in p.hosts : ~IsStrictPrefix(Row[g].remark, Row[h].remark),
                        NEW g \in DOMAIN e, NEW h \in DOMAIN e, g # h
                 PROVE  e[g].remark # e[h].remark
      BY <2>9 DEF Distinct
    <3>1. g \in kept /\ h \in kept
          /\ e[g].remark = FinalRemark(order, g) /\ e[h].remark = FinalRemark(order, h)
      BY <2>6, <2>7 DEF Takes
    <3>2. ~IsStrictPrefix(Row[g].remark, Row[h].remark)
          /\ ~IsStrictPrefix(Row[h].remark, Row[g].remark)
      BY <1>3, <3>1
    <3>3. kept \subseteq Hosts
      BY <1>3
    <3> QED BY <2>5, <3>1, <3>2, <3>3, FinalRemarksDiffer
  <2>12. Taken(q) \subseteq kept
    <3> SUFFICES ASSUME NEW h \in Taken(q) PROVE h \in kept
      OBVIOUS
    <3>1. PICK g \in DOMAIN e : h \in e[g].hosts
      BY <2>9 DEF Taken, Range
    <3> QED BY <2>6, <2>7, <3>1 DEF Takes
  <2>13. Shown(q, T)
    <3>1. \E c \in T : p.hosts \subseteq Visible(c, p.ask.disabled, TRUE)
      BY <1>1, <1>2 DEF Traced, HostsRead
    <3> QED BY <1>3, <2>3, <2>8, <2>9, <2>12, <3>1 DEF Shown
  <2>14. UserRead(q, T) /\ SettingsRead(q, T) /\ TemplateRead(q, T) /\ HostsRead(q, T)
        /\ Admitted(q, T)
    BY <1>1, <1>2, <2>9 DEF Traced, UserRead, SettingsRead, TemplateRead, HostsRead, Admitted
  <2>15. Traced(q, T)
    BY <2>13, <2>14 DEF Traced
  <2> QED BY <2>2, <2>10, <2>11, <2>15, ObservedMove DEF T
<1> QED BY <1>4, <1>5

LEMMA RequestStepTraced ==
    ASSUME db \in Db, Requested, Observe, NEW r \in Requests, RequestStep(r)
    PROVE  Requested'
BY ApplyRulesTraced, ReadUserTraced, ReadSettingsTraced, ReadTemplateTraced, ReadSquadTraced,
   CheckDeviceTraced, ReadHostsTraced, RenderTraced, FailTraced, LeaveTraced
   DEF RequestStep

-----------------------------------------------------------------------------
(* The rows                                                                  *)

\* Steps of a request change the devices of the user, if anything.
LEMMA RequestStepStored ==
    ASSUME Stored, Requested, NEW r \in Requests, RequestStep(r)
    PROVE  Stored'
<1>1. requests' = requests /\ (edits' = edits \/ (edits < MaxEdits /\ edits' = edits + 1))
  BY DEF RequestStep, ApplyRules, ReadUser, ReadSettings, ReadTemplate, ReadSquad,
         CheckDevice, ReadHosts, Render, Fail, Leave, Rest, Others, Counts
<1>2. requests' \in 0..MaxRequests /\ edits' \in 0..MaxEdits
  BY <1>1, BoundsAssumption DEF Stored
<1>3. CASE CheckDevice(r)
  <2>1. req[r].ask \in Inquiries
    BY <1>3, BeforeStep DEF CheckDevice, At, Shape
  <2>2. req[r].ask.device \in Devices \cup {None}
    BY <2>1, AskAssumption
  <2>3. \/ db' = db
        \/ /\ db' = [db EXCEPT !.devices = @ \cup {req[r].ask.device}]
           /\ req[r].ask.device # None
    BY <1>3 DEF CheckDevice
  <2>4. db' \in Db
    BY <2>2, <2>3 DEF Stored, Db
  <2> QED BY <1>2, <2>4 DEF Stored
<1>4. CASE ~CheckDevice(r)
  <2>1. db' = db
    BY <1>4 DEF RequestStep, ApplyRules, ReadUser, ReadSettings, ReadTemplate, ReadSquad,
                ReadHosts, Render, Fail, Leave
  <2> QED BY <1>2, <2>1 DEF Stored
<1> QED BY <1>3, <1>4

\* Edits go on with rows of the kind.
Edits ==
    \/ \E s \in Statuses : ChangeStatus(s)
    \/ \E S \in SUBSET Squads : MoveUser(S)
    \/ \E e \in Externals \cup {None} : MoveExternal(e)
    \/ \E s \in Squads, h \in Touched :
          RevokeInbound(s, Row[h].inbound) \/ ExcludeHost(s, h) \/ DisableHost(h)
    \/ \E s \in Settings : ChangeSettings(s)
    \/ \E e \in Externals, n \in DOMAIN Says : ChangeExternal(e, n)
    \/ \E d \in Devices : RemoveDevice(d)

LEMMA EditsStored ==
    ASSUME Stored, Edits
    PROVE  Stored' /\ UNCHANGED <<req, job, history, clock, latest, untrimmed>>
<1>1. db \in Db
  BY DEF Stored
<1>2. ASSUME NEW rows \in Db, Edit(rows)
      PROVE  Stored' /\ UNCHANGED <<req, job, history, clock, latest, untrimmed>>
  BY <1>2, BoundsAssumption DEF Stored, Edit, Counts
<1>3. ASSUME NEW s \in Statuses, ChangeStatus(s)
      PROVE  \E rows \in Db : Edit(rows)
  <2>1. [db EXCEPT !.user.status = s] \in Db
    BY <1>1 DEF Db
  <2> QED BY <1>3, <2>1 DEF ChangeStatus
<1>4. ASSUME NEW S \in SUBSET Squads, MoveUser(S)
      PROVE  \E rows \in Db : Edit(rows)
  <2>1. [db EXCEPT !.user.squads = S] \in Db
    BY <1>1 DEF Db
  <2> QED BY <1>4, <2>1 DEF MoveUser
<1>5. ASSUME NEW e \in Externals \cup {None}, MoveExternal(e)
      PROVE  \E rows \in Db : Edit(rows)
  <2>1. [db EXCEPT !.user.external = e] \in Db
    BY <1>1 DEF Db
  <2> QED BY <1>5, <2>1 DEF MoveExternal
<1>6. ASSUME NEW s \in Squads, NEW i, RevokeInbound(s, i)
      PROVE  \E rows \in Db : Edit(rows)
  <2>1. [db EXCEPT !.inbounds[s] = @ \ {i}] \in Db
    BY <1>1 DEF Db
  <2> QED BY <1>6, <2>1 DEF RevokeInbound
<1>7. ASSUME NEW s \in Squads, NEW h \in Touched, ExcludeHost(s, h)
      PROVE  \E rows \in Db : Edit(rows)
  <2>1. [db EXCEPT !.excluded[s] = @ \cup {h}] \in Db
    BY <1>1, HostsAssumption DEF Db
  <2> QED BY <1>7, <2>1 DEF ExcludeHost
<1>8. ASSUME NEW h \in Touched, DisableHost(h)
      PROVE  \E rows \in Db : Edit(rows)
  <2>1. [db EXCEPT !.disabled = @ \cup {h}] \in Db
    BY <1>1, HostsAssumption DEF Db
  <2> QED BY <1>8, <2>1 DEF DisableHost
<1>9. ASSUME NEW s \in Settings, ChangeSettings(s)
      PROVE  \E rows \in Db : Edit(rows)
  <2>1. [db EXCEPT !.settings = s] \in Db
    BY <1>1 DEF Db
  <2> QED BY <1>9, <2>1 DEF ChangeSettings
<1>10. ASSUME NEW e \in Externals, NEW n \in DOMAIN Says, ChangeExternal(e, n)
       PROVE  \E rows \in Db : Edit(rows)
  <2>1. [db EXCEPT !.external[e] = n] \in Db
    BY <1>1 DEF Db
  <2> QED BY <1>10, <2>1 DEF ChangeExternal
<1>11. ASSUME NEW d \in Devices, RemoveDevice(d)
       PROVE  \E rows \in Db : Edit(rows)
  <2>1. [db EXCEPT !.devices = @ \ {d}] \in Db
    BY <1>1 DEF Db
  <2> QED BY <1>11, <2>1 DEF RemoveDevice
<1> QED BY <1>2, <1>3, <1>4, <1>5, <1>6, <1>7, <1>8, <1>9, <1>10, <1>11 DEF Edits

-----------------------------------------------------------------------------
(* The history                                                               *)

History == <<job, history, clock, latest, untrimmed>>

LEMMA ReadHostsNoted == ASSUME Noted, HistoryKept, NEW r, ReadHosts(r) PROVE Noted' /\ HistoryKept'
<1>1. /\ UNCHANGED <<history, latest, untrimmed>>
      /\ \/ clock' = clock /\ job' = job
         \/ clock' = clock + 1 /\ job' = job
         \/ clock' = clock + 1 /\ job = NoJob /\ job' = [pc |-> "waiting", at |-> clock']
  BY DEF ReadHosts
<1>2. clock \in Nat /\ clock' \in Nat /\ clock <= clock'
  BY <1>1 DEF Noted
<1>3. /\ job' \in [pc: {"none", "waiting", "created"}, at: 0..clock']
      /\ job'.pc # "none" => 1 <= job'.at /\ latest <= job'.at
      /\ job'.pc = "created" <=> job.pc = "created"
  <2>1. CASE job' = job
    BY <1>2, <2>1 DEF Noted
  <2>2. CASE clock' = clock + 1 /\ job = NoJob /\ job' = [pc |-> "waiting", at |-> clock']
    BY <1>2, <2>2 DEF Noted, NoJob
  <2> QED BY <1>1, <2>1, <2>2
<1>4. latest' \in 0..clock' /\ \A n \in history' : n.at \in 1..clock' /\ n.at <= latest'
  BY <1>1, <1>2 DEF Noted
<1>5. Noted'
  BY <1>1, <1>2, <1>3, <1>4 DEF Noted
<1>6. HistoryKept'
  BY <1>1, <1>3 DEF HistoryKept
<1> QED BY <1>5, <1>6

LEMMA CreateRecordNoted ==
    ASSUME Noted, HistoryKept, CreateRecord PROVE Noted' /\ HistoryKept'
<1>1. /\ job.pc = "waiting" /\ job' = [job EXCEPT !.pc = "created"]
      /\ UNCHANGED <<clock, untrimmed>>
  BY DEF CreateRecord
<1>2. /\ job' \in [pc: {"none", "waiting", "created"}, at: 0..clock]
      /\ job'.pc = "created" /\ job'.at = job.at
      /\ job.at \in Nat /\ 1 <= job.at /\ job.at <= clock /\ latest <= job.at
      /\ latest \in Nat /\ clock \in Nat
  BY <1>1 DEF Noted
<1>3. /\ IsFiniteSet(history) /\ Cardinality(history) \in Nat /\ untrimmed \in Nat
      /\ Cardinality(history) <= Keep + untrimmed
  BY <1>1, BoundsAssumption, FS_CardinalityType DEF Noted, HistoryKept
<1>4. CASE UNCHANGED <<history, latest>>
  <2>1. Noted'
    BY <1>1, <1>2, <1>4 DEF Noted
  <2>2. HistoryKept'
    BY <1>1, <1>2, <1>3, <1>4, BoundsAssumption DEF HistoryKept
  <2> QED BY <2>1, <2>2
<1>5. CASE /\ \E n : n.at = job.at /\ history' = history \cup {n}
           /\ latest' = job.at
  <2>1. PICK n : n.at = job.at /\ history' = history \cup {n}
    BY <1>5
  <2>2. IsFiniteSet(history') /\ Cardinality(history') \in Nat
        /\ Cardinality(history') <= Cardinality(history) + 1
    BY <1>3, <2>1, FS_AddElement
  <2>3. \A x \in history' : x.at \in 1..clock /\ x.at <= job.at
    BY <1>2, <2>1 DEF Noted
  <2>4. Noted'
    BY <1>1, <1>2, <1>5, <2>2, <2>3 DEF Noted
  <2>5. Cardinality(history') <= Keep + untrimmed' + IF job'.pc = "created" THEN 1 ELSE 0
    BY <1>1, <1>2, <1>3, <2>2, BoundsAssumption
  <2>6. n \in history' /\ n.at = latest'
    BY <1>5, <2>1
  <2> QED BY <2>4, <2>5, <2>6 DEF HistoryKept
<1>6. [at |-> job.at, copy |-> Cardinality({n \in history : n.at = job.at})].at = job.at
  OBVIOUS
<1> QED BY <1>4, <1>5, <1>6 DEF CreateRecord

\* Of those that are kept, none is before one that is dropped: the latest is kept.
LEMMA TrimHistoryNoted ==
    ASSUME Noted, HistoryKept, TrimHistory PROVE Noted' /\ HistoryKept'
<1>1. PICK K \in SUBSET history :
         /\ job.pc = "created"
         /\ Cardinality(K) = IF Cardinality(history) < Keep THEN Cardinality(history) ELSE Keep
         /\ job' = NoJob /\ untrimmed' = 0 /\ history' = K
         /\ UNCHANGED <<clock, latest>>
         /\ \A n \in K, x \in history \ K : n.at >= x.at
  BY DEF TrimHistory, Keeps
<1>2. IsFiniteSet(history) /\ IsFiniteSet(K) /\ Cardinality(history) \in Nat
      /\ Cardinality(K) \in Nat
  BY FS_Subset, FS_CardinalityType DEF Noted
<1>3. Noted'
  BY <1>1, <1>2 DEF Noted, NoJob
<1>4. Cardinality(K) <= Keep
  BY <1>1, <1>2, BoundsAssumption
<1>5. ASSUME latest # 0 PROVE \E n \in K : n.at = latest
  <2>1. PICK n \in history : n.at = latest
    BY <1>5 DEF HistoryKept
  <2>2. Cardinality(history) # 0
    BY <1>2, <2>1, FS_EmptySet
  <2>3. Cardinality(K) # 0
    BY <1>1, <1>2, <2>2, BoundsAssumption
  <2>4. PICK k \in K : TRUE
    BY <1>2, <2>3, FS_EmptySet
  <2>5. CASE n \in K
    BY <2>1, <2>5
  <2>6. CASE n \notin K
    <3>1. k.at >= n.at /\ k.at <= latest /\ k.at \in Nat /\ latest \in Nat
      BY <1>1, <2>1, <2>4, <2>6 DEF Noted
    <3> QED BY <2>1, <2>4, <3>1
  <2> QED BY <2>5, <2>6
<1>6. HistoryKept'
  BY <1>1, <1>2, <1>4, <1>5, BoundsAssumption DEF HistoryKept, NoJob
<1> QED BY <1>3, <1>6

LEMMA TrimFailsNoted ==
    ASSUME Noted, HistoryKept, TrimFails PROVE Noted' /\ HistoryKept'
<1>1. /\ job.pc = "created" /\ untrimmed' = untrimmed + 1
      /\ job' = NoJob \/ job' = [job EXCEPT !.pc = "waiting"]
      /\ UNCHANGED <<history, clock, latest>>
  BY DEF TrimFails
<1>2. /\ job' \in [pc: {"none", "waiting", "created"}, at: 0..clock]
      /\ job'.pc # "created"
      /\ job'.pc # "none" => 1 <= job'.at /\ latest <= job'.at
  BY <1>1 DEF Noted, NoJob
<1>3. Noted'
  BY <1>1, <1>2 DEF Noted
<1>4. HistoryKept'
  BY <1>1, <1>2, BoundsAssumption, FS_CardinalityType DEF HistoryKept, Noted
<1> QED BY <1>3, <1>4

LEMMA UnchangedNoted == ASSUME Noted, HistoryKept, UNCHANGED History PROVE Noted' /\ HistoryKept'
BY DEF Noted, HistoryKept, History

-----------------------------------------------------------------------------
(* The invariant                                                             *)

LEMMA InitIInv == Init => IInv
<1> SUFFICES ASSUME Init PROVE IInv
  OBVIOUS
<1>1. Stored
  BY RowsAssumption, BoundsAssumption DEF Init, Stored
<1>2. Requested
  <2>1. DOMAIN req = Requests /\ DOMAIN seen = Requests /\ \A r \in Requests : req[r] = Idle
    BY DEF Init
  <2> QED BY <2>1, IdleFacts, NothingToTrace DEF Requested
<1>3. Noted
  BY FS_EmptySet DEF Init, Noted, NoJob
<1>4. HistoryKept
  BY FS_EmptySet, BoundsAssumption DEF Init, HistoryKept, NoJob
<1> QED BY <1>1, <1>2, <1>3, <1>4 DEF IInv

LEMMA NextIInv == IInv /\ [Next]_vars => IInv'
<1> SUFFICES ASSUME IInv, [Next]_vars PROVE IInv'
  OBVIOUS
<1>1. Stored /\ Requested /\ Noted /\ HistoryKept /\ db \in Db
  BY DEF IInv, Stored
<1>2. CASE UNCHANGED vars
  <2>1. Stored'
    BY <1>1, <1>2 DEF Stored, vars
  <2>2. Requested'
    BY <1>1, <1>2 DEF Requested, vars
  <2>3. Noted' /\ HistoryKept'
    BY <1>1, <1>2, UnchangedNoted DEF vars, History
  <2> QED BY <2>1, <2>2, <2>3 DEF IInv
<1>3. ASSUME NEW r \in Requests, RequestStep(r), Observe PROVE IInv'
  <2>1. Requested'
    BY <1>1, <1>3, RequestStepTraced
  <2>2. Stored'
    BY <1>1, <1>3, RequestStepStored
  <2>3. ReadHosts(r) \/ UNCHANGED History
    BY <1>3 DEF RequestStep, ApplyRules, ReadUser, ReadSettings, ReadTemplate, ReadSquad,
                CheckDevice, Render, Fail, Leave, Rest, Others, History
  <2>4. Noted' /\ HistoryKept'
    BY <1>1, <2>3, ReadHostsNoted, UnchangedNoted
  <2> QED BY <2>1, <2>2, <2>4 DEF IInv
<1>4. ASSUME NEW r \in Requests, NEW ask \in Inquiries, Arrive(r, ask), Observe PROVE IInv'
  <2>1. Requested'
    BY <1>1, <1>4, ArriveTraced
  <2>2. Stored' /\ UNCHANGED History
    BY <1>1, <1>4, BoundsAssumption DEF Arrive, Stored, History
  <2> QED BY <1>1, <2>1, <2>2, UnchangedNoted DEF IInv
<1>5. ASSUME CreateRecord \/ TrimHistory \/ TrimFails, Observe PROVE IInv'
  <2>1. UNCHANGED <<db, req, requests, edits>>
    BY <1>5 DEF CreateRecord, TrimHistory, Keeps, TrimFails
  <2>2. Noted' /\ HistoryKept'
    BY <1>1, <1>5, CreateRecordNoted, TrimHistoryNoted, TrimFailsNoted
  <2>3. Stored'
    BY <1>1, <2>1 DEF Stored
  <2>4. Requested'
    BY <1>1, <1>5, <2>1, ObservedRest
  <2> QED BY <2>2, <2>3, <2>4 DEF IInv
<1>6. ASSUME Edits, Observe PROVE IInv'
  <2>1. Stored' /\ UNCHANGED req /\ UNCHANGED History
    BY <1>1, <1>6, EditsStored DEF History
  <2>2. Requested'
    BY <1>1, <1>6, <2>1, ObservedRest
  <2> QED BY <1>1, <2>1, <2>2, UnchangedNoted DEF IInv
<1> QED BY <1>2, <1>3, <1>4, <1>5, <1>6 DEF Next, Edits

LEMMA Invariance == Spec => []IInv
BY InitIInv, NextIInv, PTL DEF Spec

-----------------------------------------------------------------------------
(* What follows from it                                                      *)

LEMMA IInvTypes == IInv => TypeOK
<1> SUFFICES ASSUME IInv PROVE TypeOK
  OBVIOUS
<1>1. DOMAIN req = Requests /\ \A r \in Requests : Shape(req[r])
  BY DEF IInv, Requested
<1>2. db.devices \subseteq Devices /\ requests \in 0..MaxRequests /\ edits \in 0..MaxEdits
  BY DEF IInv, Stored, Db
<1>3. /\ job.pc \in {"none", "waiting", "created"} /\ job.at \in 0..clock
      /\ \A n \in history : n.at \in 1..clock
      /\ untrimmed \in Nat
  BY DEF IInv, Noted
<1> QED BY <1>1, <1>2, <1>3 DEF TypeOK, Shape, Pcs, Notes

LEMMA EverSetIs == ASSUME NEW r PROVE EverSet(r) = SettingsOf(req[r].unread, seen[r])
BY DEF EverSet, SettingsOf

LEMMA IInvHosts == IInv => HostsEarned
<1> SUFFICES ASSUME IInv, NEW r \in Requests, Used(r) # {}
    PROVE  /\ \E c \in seen[r] : Used(r) \subseteq Visible(c, req[r].ask.disabled, TRUE)
           /\ req[r].format # Page => \A h \in Used(r) : Row[h].tags \cap req[r].mods.tags = {}
           /\ \/ \E c \in seen[r] : c.user.status = "ACTIVE"
              \/ \E s \in EverSet(r) : ~s.show
           /\ Counted(r) /\ req[r].ask.kind # "info" =>
                 /\ req[r].format # Page
                 /\ \E c \in seen[r] : req[r].ask.device \in c.devices
  BY IInvTypes DEF HostsEarned
<1> DEFINE q == req[r]
           S == seen[r]
<1>1. Shape(q) /\ Traced(q, S)
  BY DEF IInv, Requested
<1>2. Used(r) = Taken(q)
  BY DEF Used, Taken
<1>3. q.entries # <<>>
  BY <1>2, NothingTaken
<1>4. q.pc = "served"
  BY <1>1, <1>3 DEF Shape
<1>5. (\E b \in S : q.user = b.user) /\ q.settings \in EverSet(r)
  BY <1>1, <1>4, EverSetIs DEF Traced, UserRead, SettingsRead
<1>6. /\ \E c \in S : Used(r) \subseteq Visible(c, q.ask.disabled, TRUE)
      /\ q.format # Page => \A h \in Used(r) : Row[h].tags \cap q.mods.tags = {}
      /\ q.user.status = "ACTIVE" \/ ~q.settings.show
  BY <1>1, <1>2 DEF Traced, Shown
<1>7. \/ \E c \in S : c.user.status = "ACTIVE"
      \/ \E s \in EverSet(r) : ~s.show
  BY <1>5, <1>6
<1>8. ASSUME Counted(r), q.ask.kind # "info"
      PROVE  q.format # Page /\ \E c \in S : q.ask.device \in c.devices
  <2>1. q.settings.hwid /\ ~q.user.unlimited /\ ~q.mods.noHwid
    BY <1>5, <1>8 DEF Counted
  <2>2. IF q.format = Page THEN ~q.settings.hwid \/ q.ask.kind = "info"
        ELSE \/ ~q.settings.hwid \/ q.mods.noHwid \/ q.user.unlimited
             \/ \E c \in S : q.ask.device \in c.devices
    BY <1>1, <1>3 DEF Traced, Admitted
  <2> QED BY <1>8, <2>1, <2>2
<1> QED BY <1>6, <1>7, <1>8

LEMMA IInvTemplates == IInv => TemplateFits
<1> SUFFICES ASSUME IInv, NEW r \in Requests,
                    req[r].pc = "served", ~req[r].unread, req[r].format \in Templated,
                    req[r].mods.template = None
    PROVE  \E b, c \in seen[r] :
              LET own == Says[c.external[b.user.external]].templates IN
              req[r].template = IF b.user.external # None /\ req[r].format \in DOMAIN own
                                THEN own[req[r].format] ELSE None
  BY DEF TemplateFits
<1>1. Traced(req[r], seen[r])
  BY DEF IInv, Requested
<1>2. req[r].format \notin {Page, "RAW"} /\ req[r].format # Links
  BY DEF Templated, Page, Links
<1>3. PICK b \in seen[r], c \in seen[r] :
         req[r].template = TemplateName(req[r].format, b.user.external, c.external)
  BY <1>1, <1>2 DEF Traced, TemplateRead
<1> QED BY <1>2, <1>3 DEF TemplateName

LEMMA IInvRemarks == IInv => RemarksDistinct
BY DEF IInv, Requested, Distinct, RemarksDistinct

-----------------------------------------------------------------------------
(* Theorems                                                                  *)

\* Requests, the rows, the record job and the history are always well formed.
THEOREM TypeCorrect == Spec => []TypeOK
BY Invariance, IInvTypes, PTL

\* Whatever administrators change between the reads of a request, and however many
\* requests there are: every host in an answer was the user's at one moment, none has
\* a tag the rule leaves out, the user was active or could be served anyway, and where
\* devices were counted all along, the device was registered at some moment
\* (getSubscriptionByShortUuid and the generators).
THEOREM AnswersEarned == Spec => []HostsEarned
BY Invariance, IInvHosts, PTL

\* No two proxies of an answer have the same remark, for any hosts none of which is
\* numbered by hand like another (deduplicateRemark).
THEOREM RemarksTellApart == Spec => []RemarksDistinct
BY Invariance, IInvRemarks, PTL

\* A format is filled into the template of its own, also when links turned into JSON
\* after the template was chosen (getCachedTemplateByType).
THEOREM TemplatesFit == Spec => []TemplateFits
BY Invariance, IInvTemplates, PTL

\* The history is no longer than it may be, and trimming never loses the request that
\* was noted last (subscription-requests.processor.ts).
THEOREM HistoryBounded == Spec => []HistoryKept
<1>1. IInv => HistoryKept
  BY DEF IInv
<1> QED BY <1>1, Invariance, PTL

=============================================================================
