--------------------------- MODULE MCSubscriptions --------------------------
(* Subscriptions for TLC.  Three hosts share a remark, one of them is of an  *)
(* inbound of its own; the fourth is hidden.  The external squad has a       *)
(* template for JSON whose injector adds the hidden host.                    *)
EXTENDS Subscriptions, TLC

CONSTANTS h1, h2, h3, h4, i1, i2, s1, e1, d1, d2, none

Host == [position |-> 1, remark |-> <<"A">>, inbound |-> i1, hidden |-> FALSE, tags |-> {},
         shuffle |-> FALSE, protocol |-> "vless", network |-> "raw", exclude |-> {},
         template |-> none]

MCRow == h1 :> Host
      @@ h2 :> [Host EXCEPT !.position = 2, !.protocol = "trojan", !.tags = {"T"},
                            !.shuffle = TRUE]
      @@ h3 :> [Host EXCEPT !.position = 3, !.inbound = i2, !.protocol = "shadowsocks",
                            !.exclude = {"CLASH"}]
      @@ h4 :> [Host EXCEPT !.position = 4, !.remark = <<"B">>, !.hidden = TRUE, !.tags = {"T"}]

Plain    == [includeHidden |-> FALSE, injector |-> none]
MCContents ==
    [k \in (Templated \X {"Default"}) \cup {<<"XRAY_JSON", "own">>, <<"MIHOMO", "own">>} |->
        IF k = <<"XRAY_JSON", "own">>
        THEN [Plain EXCEPT !.injector = [virtual |-> TRUE, from |-> "HIDDEN", sameTag |-> TRUE]]
        ELSE [Plain EXCEPT !.includeHidden = k[2] = "own"]]

Agent(values) == [header |-> "user-agent", accepts |-> values, negated |-> FALSE]
Rule(agents, format, mods) ==
    [enabled |-> TRUE, operator |-> "AND", conditions |-> {Agent(agents)}, format |-> format,
     mods |-> mods]
MCRuleSets == [n \in {"open", "closed"} |-> [closed |-> n = "closed", list |-> <<
    Rule({"v2ray"}, "XRAY_BASE64", Mods),
    Rule({"clash"}, "CLASH", Mods),
    Rule({"mihomo"}, "MIHOMO", [Mods EXCEPT !.noHwid = TRUE, !.tags = {"T"}]),
    Rule({"browser"}, "BROWSER", Mods)>>]]

Usual == [rules |-> "open", hwid |-> TRUE, show |-> TRUE, json |-> TRUE, shuffle |-> FALSE]
MCSettings == {Usual, [rules |-> "closed", hwid |-> FALSE, show |-> FALSE, json |-> FALSE,
                       shuffle |-> FALSE]}
MCSays == "own"   :> [overrides |-> <<>>, templates |-> [f \in {"XRAY_JSON", "MIHOMO"} |-> "own"]]
       @@ "free"  :> [overrides |-> [hwid |-> FALSE], templates |-> [f \in {"MIHOMO"} |-> "own"]]
       @@ "mute"  :> [overrides |-> [show |-> FALSE, hwid |-> TRUE], templates |-> <<>>]

MCRows == {[user |-> [status |-> "ACTIVE", squads |-> {s1}, external |-> e1, unlimited |-> FALSE],
            settings |-> Usual, external |-> (e1 :> "own"), inbounds |-> (s1 :> {i1, i2}),
            excluded |-> (s1 :> {}), disabled |-> {}, devices |-> {}]}

Ask(kind, agent, path, device) ==
    [kind |-> kind, headers |-> [h \in {"user-agent"} |-> agent], path |-> path,
     device |-> device, disabled |-> FALSE]
MCInquiries ==
    {Ask("sub", a, none, d1) : a \in {"v2ray", "mihomo", "clash", "other"}}
    \cup {Ask("sub", "v2ray", none, none), Ask("sub", "browser", none, none),
          Ask("sub", "v2ray", "SINGBOX", d1),
          Ask("raw", none, none, d2), Ask("info", none, none, none)}
=============================================================================
