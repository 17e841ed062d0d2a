---------------------------- MODULE Subscriptions ---------------------------
(***************************************************************************)
(* The subscription of one user (subscription.service.ts, the response     *)
(* rules and the templates).                                               *)
(*                                                                         *)
(* A request is matched with the response rules, which choose the format   *)
(* and what to leave out; then the user, the template and the overrides of *)
(* the external squad, the devices and the hosts are read one after the    *)
(* other, while administrators change all of them.  The hosts become       *)
(* proxies with remarks of their own, and the generator of the format      *)
(* takes those that its clients understand.  A job notes the request.      *)
(*                                                                         *)
(* What is read through the raw cache is read from the rows here           *)
(* (CachedRows checks that cache), and devices come and go as              *)
(* HwidDevices says.                                                       *)
(***************************************************************************)
EXTENDS Integers, Sequences, FiniteSets, SequencesExt

CONSTANTS
    Hosts,
    Row,           \* [host -> its row and that of its inbound]
    Contents,      \* [<<format, name>> -> what a subscription template says]
    Squads,        \* internal squads
    Externals,     \* external squads
    Devices,
    Limit,         \* bound: how many devices the user may have
    Json,          \* user agents that may be served JSON instead of links
    Rows,          \* the rows there may be at the start
    Statuses,      \* what the status of the user may become
    Touched,       \* hosts that are excluded or disabled, or whose inbound is revoked
    Settings,      \* what the subscription settings may become
    RuleSets,      \* [name -> response rules]
    Says,          \* [name -> overrides and templates of an external squad]
    Inquiries,     \* what may be asked for
    Requests,      \* requests that are on their way at the same time
    MaxRequests,   \* bound: how many requests are made
    MaxEdits,      \* bound: how often something is changed, or a squad not read
    MaxFaults,     \* bound: how often in a row trimming the history fails
    Keep,          \* how many requests are kept (24)
    None

Templated == {"MIHOMO", "STASH", "CLASH", "SINGBOX", "XRAY_JSON"}
Links     == "XRAY_BASE64"
Page      == "BROWSER"
Default   == "Default"

\* The rows there may be.
Db == [user: [status: Statuses, squads: SUBSET Squads, external: Externals \cup {None},
              unlimited: BOOLEAN],
       settings: Settings,
       external: [Externals -> DOMAIN Says],
       inbounds: [Squads -> SUBSET {Row[h].inbound : h \in Hosts}],
       excluded: [Squads -> SUBSET Hosts],
       disabled: SUBSET Hosts,
       devices: SUBSET Devices]

ASSUME HostsAssumption   == IsFiniteSet(Hosts) /\ Touched \subseteq Hosts
ASSUME RemarkAssumption  == \A h \in Hosts : Row[h].remark \in Seq(Range(Row[h].remark))
ASSUME DefaultAssumption == \A f \in Templated : <<f, Default>> \in DOMAIN Contents
ASSUME RowsAssumption    == Rows \subseteq Db
ASSUME AskAssumption     == \A ask \in Inquiries : /\ ask.kind \in {"sub", "raw", "info"}
                                                   /\ ask.device \in Devices \cup {None}
ASSUME BoundsAssumption  == Limit \in Nat /\ MaxRequests \in Nat /\ MaxEdits \in Nat
                            /\ MaxFaults \in Nat /\ Keep \in Nat \ {0}

VARIABLES
    db,            \* the rows: user, settings, external squads, squads, hosts, devices
    req,           \* [Requests -> a request on its way]
    seen,          \* [Requests -> the rows there were since it came]
    requests, edits,
    job,           \* the job that notes a request of the user
    history,       \* the requests that are noted
    clock,         \* when the last request was made
    latest,        \* when the last request that was noted was made
    untrimmed      \* how often the history was not trimmed, since it was

vars == <<db, req, seen, requests, edits, job, history, clock, latest, untrimmed>>

Mods == [template |-> None, noJson |-> FALSE, noHwid |-> FALSE, tags |-> {},
         noHostTemplate |-> FALSE]
Idle == [pc |-> "idle", ask |-> None, format |-> None, mods |-> Mods, user |-> None,
         settings |-> None, template |-> None, unread |-> FALSE, hosts |-> {},
         entries |-> <<>>, note |-> "none"]
Refused == [Idle EXCEPT !.pc = "refused"]
NoJob == [pc |-> "none", at |-> 0]

Init ==
    /\ db \in Rows
    /\ req = [r \in Requests |-> Idle]
    /\ seen = [r \in Requests |-> {}]
    /\ requests = 0 /\ edits = 0
    /\ job = NoJob /\ history = {} /\ clock = 0 /\ latest = 0 /\ untrimmed = 0

TypeOK ==
    /\ DOMAIN req = Requests
    /\ \A r \in Requests :
          /\ req[r].pc \in {"idle", "rules", "user", "settings", "template", "squad",
                            "device", "hosts", "render", "refused", "served"}
          /\ req[r].hosts \subseteq Hosts
          /\ req[r].unread \in BOOLEAN
          /\ req[r].note \in {"none", "devices", "unsupported", "status", "empty"}
    /\ db.devices \subseteq Devices
    /\ requests \in 0..MaxRequests /\ edits \in 0..MaxEdits
    /\ job.pc \in {"none", "waiting", "created"} /\ job.at \in 0..clock
    /\ \A n \in history : n.at \in 1..clock
    /\ untrimmed \in Nat

-----------------------------------------------------------------------------
(* Response rules (response-rules-matcher.service.ts).                       *)

\* A header that is not there matches nothing, nor does an invalid expression:
\* a negated operator is no exception.
MatchCondition(c, headers) ==
    /\ headers[c.header] # None
    /\ c.accepts # None
    /\ (headers[c.header] \in c.accepts) # c.negated

MatchRule(rule, headers) ==
    \/ rule.conditions = {}
    \/ /\ rule.operator = "AND"
       /\ \A c \in rule.conditions : MatchCondition(c, headers)
    \/ /\ rule.operator = "OR"
       /\ \E c \in rule.conditions : MatchCondition(c, headers)

\* The first enabled rule that matches, with what it modifies.  A path with a
\* client type asks for that format, whatever the rules say, if it is open.
MatchRules(rules, ask) ==
    LET hits == {i \in DOMAIN rules.list :
                    rules.list[i].enabled /\ MatchRule(rules.list[i], ask.headers)}
        hit  == rules.list[CHOOSE i \in hits : \A j \in hits : i <= j]
    IN  CASE ask.path # None -> [mods |-> Mods, format |->
                 IF rules.closed \/ ask.path \notin Templated THEN "BLOCK" ELSE ask.path]
          [] ask.path = None /\ hits = {} -> [mods |-> Mods, format |-> "BLOCK"]
          [] OTHER -> [mods |-> hit.mods, format |-> hit.format]

-----------------------------------------------------------------------------
(* The rows a request reads.                                                 *)

\* findActiveHostsByUserId: the inbound is one of a squad of the user which does
\* not exclude the host.
Visible(rows, disabled, hidden) ==
    LET Granted(h) == \E s \in rows.user.squads :
            Row[h].inbound \in rows.inbounds[s] /\ h \notin rows.excluded[s]
    IN  {h \in Hosts : /\ Granted(h)
                       /\ disabled \/ h \notin rows.disabled
                       /\ hidden \/ ~Row[h].hidden}

\* applyMaybeExternalSquadOverrides: what the squad says, and the settings where
\* it says nothing.
Overridden(settings, external, squads) ==
    LET o == IF external = None THEN <<>> ELSE Says[squads[external]].overrides IN
    [f \in DOMAIN settings |-> IF f \in DOMAIN o THEN o[f] ELSE settings[f]]

\* Mutant of TemplateName: the template of the format that was matched.
TemplateNameAsMatched(format, external, squads) ==
    LET templates == Says[squads[external]].templates IN
    IF external # None /\ format \in DOMAIN templates THEN templates[format] ELSE None

\* GetCachedTemplateName: links may yet turn into JSON, and take its template.
TemplateName(format, external, squads) ==
    LET f         == IF format = Links THEN "XRAY_JSON" ELSE format
        templates == Says[squads[external]].templates
    IN  IF external # None /\ f \in DOMAIN templates THEN templates[f] ELSE None

\* getTemplateByNameAndTypeOrGetDefault
Content(format, name) ==
    Contents[<<format, IF <<format, name>> \in DOMAIN Contents THEN name ELSE Default>>]

-----------------------------------------------------------------------------
(* From hosts to proxies (resolve-proxy-config.service.ts).  A remark is the  *)
(* sequence of a name and the numbers put behind it.                         *)

\* Mutant of EarlyExit: hosts are looked at first.
EarlyExitByHosts(settings, status, refusal, count) ==
    CASE count # 0 -> "none"
      [] count = 0 /\ settings.show /\ refusal # "none" -> refusal
      [] count = 0 /\ settings.show /\ refusal = "none" /\ status # "ACTIVE" -> "status"
      [] OTHER -> "empty"

\* Remarks instead of proxies: "none" if there are proxies to show.
EarlyExit(settings, status, refusal, count) ==
    CASE settings.show /\ refusal # "none"  -> refusal
      [] settings.show /\ refusal = "none" /\ status # "ACTIVE" -> "status"
      [] OTHER -> IF count = 0 THEN "empty" ELSE "none"

\* Mutant of DeduplicateRemark: that a remark is known is noted, not how often.
DeduplicateOnce(remark, n) == IF n = 0 THEN remark ELSE Append(remark, 2)

\* The n-th after the first of a remark gets a number.
DeduplicateRemark(remark, n) ==
    CASE n = 0                     -> remark
      [] n > 0 /\ Len(remark) > 1  -> Append(remark, n)
      [] OTHER                     -> Append(remark, n + 1)

FinalRemark(order, h) ==
    LET earlier == {g \in DOMAIN order :
                       order[g] < order[h] /\ Row[g].remark = Row[h].remark}
    IN  DeduplicateRemark(Row[h].remark, Cardinality(earlier))

\* Remarks instead of proxies are VLESS proxies themselves, which clients of Clash
\* do not get.
Fallback(format, note) == IF format = "CLASH" THEN "none" ELSE note

Transport(network) ==
    CASE network \in {"xhttp", "ws", "httpupgrade", "grpc", "kcp", "hysteria"} -> network
      [] OTHER -> "tcp"

Supported(h) == Row[h].protocol \in {"vless", "trojan", "shadowsocks", "hysteria"}

\* The orders some hosts may be in, [host -> rank]: any, if they are shuffled, or
\* that in which the administrator placed them.
Ranks(hosts, shuffle) ==
    {rank \in Injection(hosts, 1..Cardinality(hosts)) : shuffle \/ \A g, h \in hosts :
        Row[g].position < Row[h].position => rank[g] < rank[h]}

\* The hosts of p come before those of q.
Joined(p, q) ==
    [h \in DOMAIN p \cup DOMAIN q |-> IF h \in DOMAIN p THEN p[h] ELSE Cardinality(DOMAIN p) + q[h]]

\* Hosts without a protocol for clients are left out, after they were counted.
ResolveProxies(order) ==
    [h \in {g \in DOMAIN order : Supported(g)} |-> FinalRemark(order, h)]

-----------------------------------------------------------------------------
(* The generators: which proxies, [host -> remark], each takes.              *)

Entries(proxies, taken) ==
    [h \in DOMAIN proxies \cap taken |-> [remark |-> proxies[h], hosts |-> {h}]]

Excludes(h, format)   == format \in Row[h].exclude
Carried(h, transports) == Transport(Row[h].network) \in transports

XrayLinks(proxies) == Entries(proxies, {h \in Hosts : ~Excludes(h, Links)})

ClashProxies(proxies) == Entries(proxies, {h \in Hosts :
    /\ ~Excludes(h, "CLASH")
    /\ Carried(h, {"tcp", "ws", "httpupgrade", "grpc"})
    /\ Row[h].protocol \in {"trojan", "shadowsocks"}})

MihomoProxies(format, proxies, content) == Entries(proxies, {h \in Hosts :
    /\ content.includeHidden \/ ~Row[h].hidden
    /\ ~Excludes(h, format)
    /\ ~Carried(h, {"kcp"} \cup IF format = "STASH" THEN {"xhttp"} ELSE {})
    /\ Row[h].protocol = "hysteria" => Carried(h, {"hysteria"})})

SingboxOutbounds(proxies) == Entries(proxies, {h \in Hosts :
    /\ ~Excludes(h, "SINGBOX")
    /\ Carried(h, {"tcp", "ws", "httpupgrade", "grpc"})
    /\ Row[h].protocol # "hysteria"})

\* The outbounds an injector puts into the configuration of a host: all the other
\* hosts of a kind, or those that have a tag in common with it.
Injected(injector, host, proxies) ==
    LET candidates == DOMAIN proxies \ {host}
        from == CASE injector.from = "HIDDEN"     -> {h \in candidates : Row[h].hidden}
                  [] injector.from = "NOT_HIDDEN" -> {h \in candidates : ~Row[h].hidden}
                  [] OTHER                        -> candidates
    IN  IF injector.sameTag THEN {h \in from : Row[h].tags \cap Row[host].tags # {}} ELSE from

\* The outbounds of a configuration: those of its host, or what its template says.
InjectorOutbounds(injector, host, proxies) ==
    IF injector = None THEN {host}
    ELSE Injected(injector, host, proxies) \cup IF injector.virtual THEN {host} ELSE {}

XrayJsonConfigs(proxies, content, noHostTemplate) ==
    LET shown == {h \in DOMAIN proxies : ~Row[h].hidden /\ ~Excludes(h, "XRAY_JSON")}
        Base(h) == IF noHostTemplate \/ Row[h].template = None
                   THEN content ELSE Row[h].template
    IN  [h \in shown |-> [remark |-> proxies[h],
                          hosts |-> InjectorOutbounds(Base(h).injector, h, proxies)]]

GenerateSubscription(format, name, noHostTemplate, proxies) ==
    CASE format \in {Links, Page}       -> XrayLinks(proxies)
      [] format = "CLASH"               -> ClashProxies(proxies)
      [] format \in {"MIHOMO", "STASH"} -> MihomoProxies(format, proxies, Content(format, name))
      [] format = "SINGBOX"             -> SingboxOutbounds(proxies)
      [] format = "XRAY_JSON"           ->
             XrayJsonConfigs(proxies, Content(format, name), noHostTemplate)
      [] format = "RAW"                 -> Entries(proxies, Hosts)

-----------------------------------------------------------------------------
(* A request.                                                                *)

Goes(r, q) == req' = [req EXCEPT ![r] = q]
At(r, pc)  == req[r].pc = pc
Others     == <<requests, job, history, clock, latest, untrimmed>>
Rest       == <<edits, Others>>
Counts     == edits < MaxEdits /\ edits' = edits + 1

Arrive(r, ask) ==
    /\ req[r] = Idle
    /\ requests < MaxRequests
    /\ requests' = requests + 1
    /\ Goes(r, [Idle EXCEPT !.ask = ask, !.pc = IF ask.kind = "sub" THEN "rules" ELSE "user",
                            !.format = CASE ask.kind = "raw" -> "RAW"
                                         [] ask.kind = "info" -> Page [] OTHER -> None])
    /\ UNCHANGED <<db, edits, job, history, clock, latest, untrimmed>>

\* The middleware.  What it lets through goes on with the settings it read.
ApplyRules(r) ==
    LET ask == req[r].ask
        hit == MatchRules(RuleSets[db.settings.rules], ask)
    IN  /\ At(r, "rules")
        /\ IF ask.headers["user-agent"] = None \/ hit.format \notin Templated \cup {Links, Page}
           THEN Goes(r, Refused)
           ELSE Goes(r, [req[r] EXCEPT !.pc = "user", !.format = hit.format, !.mods = hit.mods,
                         !.template = hit.mods.template, !.settings = db.settings])
        /\ UNCHANGED <<db, Rest>>

\* The page and the API read the settings themselves.
ReadUser(r) ==
    /\ At(r, "user")
    /\ Goes(r, [req[r] EXCEPT !.user = db.user, !.pc =
          IF req[r].format \in {Page, "RAW"} THEN "settings"
          ELSE IF req[r].template # None THEN "squad" ELSE "template"])
    /\ UNCHANGED <<db, Rest>>

ReadSettings(r) ==
    /\ At(r, "settings")
    /\ Goes(r, [req[r] EXCEPT !.settings = db.settings, !.pc = "squad"])
    /\ UNCHANGED <<db, Rest>>

\* A query that fails is one that finds no name.
ReadTemplate(r) ==
    LET q == req[r] IN
    /\ At(r, "template")
    /\ \/ /\ Goes(r, [q EXCEPT !.pc = "squad",
                !.template = TemplateName(q.format, q.user.external, db.external)])
          /\ UNCHANGED edits
       \/ /\ q.user.external # None /\ Counts
          /\ Goes(r, [q EXCEPT !.pc = "squad", !.unread = TRUE])
    /\ UNCHANGED <<db, Others>>

\* The page shows no proxies where devices are counted, unless it is asked for
\* through the API.  Overrides that cannot be read are overrides that are not there.
ReadSquad(r) ==
    LET q == req[r]
        GoesOn(s, unread) == Goes(r, [q EXCEPT !.settings = s, !.unread = unread, !.pc =
            CASE q.format # Page                                   -> "device"
              [] q.format = Page /\ (~s.hwid \/ q.ask.kind = "info") -> "hosts"
              [] OTHER                                             -> "served"])
    IN  /\ At(r, "squad")
        /\ \/ /\ GoesOn(Overridden(q.settings, q.user.external, db.external), q.unread)
              /\ UNCHANGED edits
           \/ q.user.external # None /\ Counts /\ GoesOn(q.settings, TRUE)
        /\ UNCHANGED <<db, Others>>

\* checkHwidDeviceLimit: a device that is registered, or for which there is room
\* and which is registered now, gets its hosts; the others get remarks, if they
\* are to be shown, and no hosts.
CheckDevice(r) ==
    LET d     == req[r].ask.device
        q     == req[r]
        open  == ~q.settings.hwid \/ q.mods.noHwid \/ q.user.unlimited
        known == d \in db.devices
        room  == d # None /\ Cardinality(db.devices) < Limit
        why   == IF d = None THEN "unsupported" ELSE "devices"
    IN  /\ At(r, "device")
        /\ IF open \/ known \/ room
           THEN Goes(r, [q EXCEPT !.pc = "hosts"])
           ELSE Goes(r, [q EXCEPT !.pc = "served", !.note =
                    IF q.settings.show
                    THEN Fallback(q.format, EarlyExit(q.settings, q.user.status, why, 0))
                    ELSE "none"])
        /\ db' = IF ~open /\ ~known /\ room
                 THEN [db EXCEPT !.devices = @ \cup {d}] ELSE db
        /\ UNCHANGED Rest

\* Links turn into JSON for those who understand it.  The hosts are read, and a
\* job notes the request, unless one is on its way.
ReadHosts(r) ==
    LET q == req[r]
        json   == /\ q.format = Links /\ q.settings.json /\ ~q.mods.noJson
                  /\ q.ask.headers["user-agent"] \in Json
        format == IF json THEN "XRAY_JSON" ELSE q.format
        noted  == q.ask.kind = "sub" /\ format # Page
    IN  /\ At(r, "hosts")
        /\ Goes(r, [q EXCEPT !.pc = "render", !.format = format, !.hosts =
              Visible(db, q.ask.disabled, format \in {"XRAY_JSON", "MIHOMO", "RAW"})])
        /\ clock' = IF noted THEN clock + 1 ELSE clock
        /\ job' = IF noted /\ job = NoJob THEN [pc |-> "waiting", at |-> clock'] ELSE job
        /\ UNCHANGED <<db, requests, edits, history, latest, untrimmed>>

\* The page does not leave out the tags of its rule.  Hosts that ask to be shuffled
\* come first; the settings shuffle the others too, but not on the page.
Render(r) ==
    LET q     == req[r]
        kept  == {h \in q.hosts : q.format = Page \/ Row[h].tags \cap q.mods.tags = {}}
        early == EarlyExit(q.settings, q.user.status, "none", Cardinality(kept))
        first == {h \in kept : Row[h].shuffle}
    IN  /\ At(r, "render")
        /\ IF early # "none"
           THEN Goes(r, [q EXCEPT !.pc = "served", !.note = Fallback(q.format, early)])
           ELSE \E x \in Ranks(first, TRUE),
                   y \in Ranks(kept \ first, q.settings.shuffle /\ q.format # Page) :
                Goes(r, [q EXCEPT !.pc = "served", !.entries = GenerateSubscription(q.format,
                         q.template, q.mods.noHostTemplate, ResolveProxies(Joined(x, y)))])
        /\ UNCHANGED <<db, Rest>>

\* Another query fails, and the answer is an error or is empty; the page takes it for
\* a user without hosts.
Fail(r) ==
    LET q == req[r] IN
    /\ q.pc \notin {"idle", "refused", "served"}
    /\ Goes(r, IF q.pc = "hosts" /\ q.format = Page
               THEN [q EXCEPT !.pc = "served",
                              !.note = EarlyExit(q.settings, q.user.status, "none", 0)]
               ELSE Refused)
    /\ UNCHANGED <<db, Rest>>

\* The answer is sent.
Leave(r) ==
    /\ req[r].pc \in {"refused", "served"}
    /\ Goes(r, Idle)
    /\ UNCHANGED <<db, Rest>>

-----------------------------------------------------------------------------
(* The history (subscription-requests.processor.ts).                         *)

\* The request is noted; if that fails, the history is trimmed all the same.
CreateRecord ==
    LET copies == {n \in history : n.at = job.at} IN
    /\ job.pc = "waiting"
    /\ job' = [job EXCEPT !.pc = "created"]
    /\ \/ /\ history' = history \cup {[at |-> job.at, copy |-> Cardinality(copies)]}
          /\ latest' = job.at
       \/ UNCHANGED <<history, latest>>
    /\ UNCHANGED <<db, req, requests, edits, clock, untrimmed>>

\* The job ends with these of the records.
Keeps(K) ==
    /\ job.pc = "created"
    /\ Cardinality(K) = IF Cardinality(history) < Keep THEN Cardinality(history) ELSE Keep
    /\ job' = NoJob /\ untrimmed' = 0 /\ history' = K
    /\ UNCHANGED <<db, req, requests, edits, clock, latest>>

\* Mutant of TrimHistory: the oldest are kept.
TrimNewest ==
    \E K \in SUBSET history : Keeps(K) /\ \A n \in K, x \in history \ K : n.at <= x.at

\* cleanupUserRecords: the latest are kept.
TrimHistory ==
    \E K \in SUBSET history : Keeps(K) /\ \A n \in K, x \in history \ K : n.at >= x.at

\* The database fails, or the worker dies and the job starts over.
TrimFails ==
    /\ job.pc = "created" /\ untrimmed < MaxFaults
    /\ job' \in {NoJob, [job EXCEPT !.pc = "waiting"]}
    /\ untrimmed' = untrimmed + 1
    /\ UNCHANGED <<db, req, requests, edits, history, clock, latest>>

-----------------------------------------------------------------------------
(* Administrators and jobs change the rows.                                  *)

Edit(rows) ==
    /\ Counts
    /\ db' = rows
    /\ UNCHANGED <<req, requests, job, history, clock, latest, untrimmed>>

\* Requests of the users API, and the jobs that limit and expire users.
ChangeStatus(s)    == s # db.user.status /\ Edit([db EXCEPT !.user.status = s])
MoveUser(S)        == S # db.user.squads /\ Edit([db EXCEPT !.user.squads = S])
MoveExternal(e)    == e # db.user.external /\ Edit([db EXCEPT !.user.external = e])
RevokeInbound(s, i) == i \in db.inbounds[s] /\ Edit([db EXCEPT !.inbounds[s] = @ \ {i}])
ExcludeHost(s, h)  == h \notin db.excluded[s] /\ Edit([db EXCEPT !.excluded[s] = @ \cup {h}])
DisableHost(h)     == h \notin db.disabled /\ Edit([db EXCEPT !.disabled = @ \cup {h}])
ChangeSettings(s)  == s # db.settings /\ Edit([db EXCEPT !.settings = s])
ChangeExternal(e, n) == n # db.external[e] /\ Edit([db EXCEPT !.external[e] = n])
RemoveDevice(d)    == d \in db.devices /\ Edit([db EXCEPT !.devices = @ \ {d}])

\* The rows there are while a request is on its way (a history variable).
Observe ==
    seen' = [r \in Requests |-> CASE req'[r] \in {Idle, Refused} -> {}
                                  [] req[r] = req'[r] /\ req[r].pc = "served" -> seen[r]
                                  [] OTHER -> seen[r] \cup {db, db'}]

RequestStep(r) ==
    \/ ApplyRules(r) \/ ReadUser(r) \/ ReadSettings(r) \/ ReadTemplate(r) \/ ReadSquad(r)
    \/ CheckDevice(r) \/ ReadHosts(r) \/ Render(r) \/ Fail(r) \/ Leave(r)

Next ==
    /\ \/ \E r \in Requests : RequestStep(r) \/ \E ask \in Inquiries : Arrive(r, ask)
       \/ CreateRecord \/ TrimHistory \/ TrimFails
       \/ \E s \in Statuses : ChangeStatus(s)
       \/ \E S \in SUBSET Squads : MoveUser(S)
       \/ \E e \in Externals \cup {None} : MoveExternal(e)
       \/ \E s \in Squads, h \in Touched :
             RevokeInbound(s, Row[h].inbound) \/ ExcludeHost(s, h) \/ DisableHost(h)
       \/ \E s \in Settings : ChangeSettings(s)
       \/ \E e \in Externals, n \in DOMAIN Says : ChangeExternal(e, n)
       \/ \E d \in Devices : RemoveDevice(d)
    /\ Observe

Spec == Init /\ [][Next]_vars

-----------------------------------------------------------------------------
(* Properties.                                                               *)

Used(r) == UNION {e.hosts : e \in Range(req[r].entries)}

\* The settings there may have been for a request: those of one moment, for the
\* user of another, with the overrides of a third, or without those that could not
\* be read.
EverSet(r) ==
    {Overridden(a.settings, b.user.external, c.external) : a, b, c \in seen[r]}
    \cup IF req[r].unread THEN {a.settings : a \in seen[r]} ELSE {}

\* The devices were counted all the time, and no rule let the request off.
Counted(r) ==
    /\ \A s \in EverSet(r) : s.hwid
    /\ \A c \in seen[r] : ~c.user.unlimited
    /\ ~req[r].mods.noHwid

\* Whatever changes while a request is on its way: every host in the answer, those
\* that an injector puts into another's configuration too, was the user's at one
\* moment, and none has a tag the rule leaves out; the user was active at some
\* moment, or could be served anyway; and while devices were counted, the device
\* was registered at some moment, and the page showed no host.
HostsEarned ==
    /\ TypeOK
    /\ \A r \in Requests : Used(r) # {} =>
          /\ \E c \in seen[r] : Used(r) \subseteq Visible(c, req[r].ask.disabled, TRUE)
          /\ req[r].format # Page => \A h \in Used(r) : Row[h].tags \cap req[r].mods.tags = {}
          /\ \/ \E c \in seen[r] : c.user.status = "ACTIVE"
             \/ \E s \in EverSet(r) : ~s.show
          /\ Counted(r) /\ req[r].ask.kind # "info" =>
                /\ req[r].format # Page
                /\ \E c \in seen[r] : req[r].ask.device \in c.devices

\* No two proxies of an answer have the same remark, which clients tell them apart
\* by, unless an administrator numbered a host as the code does.
RemarksDistinct ==
    \A r \in Requests : LET e == req[r].entries IN
        (\A g, h \in req[r].hosts : ~IsStrictPrefix(Row[g].remark, Row[h].remark))
        => \A g, h \in DOMAIN e : g # h => e[g].remark # e[h].remark

\* A format is filled into the template the external squad has for that format,
\* also when links turned into JSON, unless a rule names another or the squad could
\* not be read.
TemplateFits ==
    \A r \in Requests : LET q == req[r] IN
        /\ q.pc = "served" /\ q.entries # <<>> /\ ~q.unread
        /\ q.format \in Templated /\ q.mods.template = None
        => \E b, c \in seen[r] :
              LET own == Says[c.external[b.user.external]].templates IN
              q.template = IF b.user.external # None /\ q.format \in DOMAIN own
                           THEN own[q.format] ELSE None

\* The history holds no more requests than are kept, but for one while its job
\* runs and one for every time that trimming failed since it last worked; and the
\* last that was noted stays.
HistoryKept ==
    /\ Cardinality(history) <= Keep + untrimmed + IF job.pc = "created" THEN 1 ELSE 0
    /\ latest # 0 => \E n \in history : n.at = latest

=============================================================================
