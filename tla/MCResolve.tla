----------------------------- MODULE MCResolve -----------------------------
(***************************************************************************)
(* Resolve for TLC: IPv4 addresses of two bits, IPv6 ones of four, a table *)
(* for every part of the configuration, and requests that reach every      *)
(* step.                                                                   *)
(***************************************************************************)
EXTENDS Resolve

CONSTANT t1

V4(a, b) == [fam |-> 4, bits |-> <<a, b>>]
V6(a, b, c, d) == [fam |-> 6, bits |-> <<a, b, c, d>>]
Net(a, n) == [fam |-> a.fam, bits |-> a.bits, len |-> n]

Lan == V4(1, 0)
Public == V4(0, 1)
Bad == V4(0, 0)

McTasks == {t1}
McAddrs == {Lan}
McLocalNets == {Net(Lan, 1)}
McSubnetBits == (4 :> 1) @@ (6 :> 2)
McWellKnown == Net(V6(0, 1, 0, 0), 2)
McHosts == Lan :> "nas"
McArp == Lan :> "mac1"
McRdns == {"", "ptr"}
McSources == {{"hosts", "arp"}, {"rdns", "whois"}}

Ads == <<"ads", "com">>
Svc == <<"chat", "com">>
Ok == <<"www", "chat", "com">>
Search == <<"search">>
Rw == <<"a", "home">>
Ptr == <<"ptr", "lan">>
McDdrHost == <<"_dns">>
McReverse == (Ptr :> Lan) @@ (<<"ptr", "net">> :> Public)

Types == {"A", "AAAA", "PTR", "HTTPS", "SVCB", "ANY"}
Verdict(reason, list, ip, rewrites) ==
    [reason |-> reason, rules |-> <<[list_id |-> list, ip |-> ip]>>, rewrites |-> rewrites]
Entry(host, client, tag, verdict) ==
    [host |-> host, sub |-> TRUE, types |-> Types, client |-> client, tag |-> tag, verdict |-> verdict]
To(kind, addr, rcode) == [kind |-> kind, addr |-> addr, rcode |-> rcode]

Blocks == Verdict("FilteredBlockList", "list", {}, {})
McEngines ==
    ("lists" :> {Entry(Ads, {}, {}, Verdict("FilteredBlockList", "hosts", {Bad}, {})),
                 Entry(Ok, {"tv", "ptr"}, {}, Verdict("NotFilteredAllowList", "list", {}, {})),
                 Entry(Rw, {}, {"kids"}, Verdict("RewrittenRule", "list", {}, {To("rcode", {}, "NXDOMAIN")}))})
    @@ ("none" :> {})
McCatalogue == "chat" :> {Entry(Svc, {}, {}, Verdict("FilteredBlockList", "services", {}, {}))}
McProviders == "p" :> {Entry(Search, {}, {}, Verdict("RewrittenRule", "safe", {}, {To("addr", {Public}, "")}))}
McServices == ("on" :> {"chat", "gone"}) @@ ("off" :> {})
McSafe == ("on" :> [enabled |-> TRUE, providers |-> {"p"}]) @@ ("off" :> [enabled |-> FALSE, providers |-> {"p"}])

Rule(domain, wild, answer, addr, cname, type, enabled) ==
    [domain |-> domain, wild |-> wild, answer |-> answer, addr |-> addr, target |-> cname, type |-> type,
     enabled |-> enabled]
McRewrites ==
    ("home" :> <<Rule(<<"home">>, TRUE, "addr", {Lan}, <<>>, "", TRUE), Rule(Rw, FALSE, "addr", {Public}, <<>>, "", TRUE),
                 Rule(Rw, FALSE, "exclude", {}, <<>>, "AAAA", TRUE)>>)
    @@ ("loop" :> <<Rule(Rw, FALSE, "cname", {}, Rw, "", TRUE), Rule(<<"search">>, FALSE, "cname", {}, Ads, "", TRUE),
                    Rule(Ads, FALSE, "addr", {Lan}, <<>>, "", FALSE)>>)

Never == "mon" :> {}
Morning == "mon" :> {[start |-> 0, end |-> 2]}
McBootTime == [day |-> "mon", offset |-> 2]
McNows == {McBootTime, [day |-> "mon", offset |-> 0]}

Base == [filtering |-> TRUE, protection |-> TRUE, refuse_any |-> TRUE, handle_ddr |-> TRUE, rewrites |-> TRUE,
         blocked_hosts |-> {Entry(<<"evil">>, {}, {}, Blocks)},
         ddr |-> [served |-> {"tls", "https"}, named |-> TRUE],
         blocking |-> [mode |-> "default", ttl |-> 0, custom_v4 |-> {}, custom_v6 |-> {}],
         schedule |-> Morning, aaaa_disabled |-> TRUE, private_networks |-> {Net(Lan, 1)}, use_private |-> TRUE,
         ecs |-> TRUE, ecs_custom |-> {}, dnssec |-> TRUE, bogus |-> {Net(Bad, 2)}, dns64 |-> <<>>,
         ttl_min |-> 0, ttl_max |-> 3]
McSettings ==
    ("base" :> Base)
    @@ ("quiet" :> [Base EXCEPT !.protection = FALSE, !.aaaa_disabled = FALSE, !.dnssec = FALSE, !.ecs = FALSE,
                                !.dns64 = Dns64Prefixes(TRUE, <<>>), !.handle_ddr = FALSE, !.refuse_any = FALSE])
    @@ ("strict" :> [Base EXCEPT !.blocking = [mode |-> "custom_ip", ttl |-> 2, custom_v4 |-> {Bad}, custom_v6 |-> {}],
                                 !.rewrites = FALSE, !.use_private = FALSE, !.schedule = Never,
                                 !.blocked_hosts = {Entry(Ptr, {}, {}, Blocks)}])

Client(name, ids, tags, gs, filtering, gv, services, lines) ==
    [name |-> name, ids |-> ids, tags |-> tags, use_global_settings |-> gs, filtering |-> filtering,
     use_global_services |-> gv, services |-> services, schedule |-> Never, upstreams |-> lines,
     safe_search |-> [enabled |-> TRUE, providers |-> {"p"}]]
Id(kind, text) == [kind |-> kind, addr |-> Lan, net |-> Net(Lan, 1), text |-> text]
McClients ==
    ("known" :> <<Client("lan", {Id("net", "")}, {"kids"}, TRUE, FALSE, FALSE, {}, <<"">>),
                  Client("tv", {Id("mac", "mac1"), Id("named", "id1")}, {}, FALSE, FALSE, TRUE, {}, <<"u1", "#">>)>>)
    @@ ("none" :> <<>>)

Part(settings, rewrites, clients, safe, engine, services, private) ==
    [settings |-> settings, rewrites |-> rewrites, clients |-> clients, safe_search |-> safe,
     engine |-> engine, services |-> services, private |-> private]
Everyday == Part("base", "home", "known", "on", "lists", "on", "some")
McConfigs ==
    {[Everyday EXCEPT !.settings = "quiet"], [Everyday EXCEPT !.settings = "strict", !.clients = "none"],
     [Everyday EXCEPT !.rewrites = "loop", !.safe_search = "off"],
     [Everyday EXCEPT !.engine = "none", !.services = "off"], [Everyday EXCEPT !.private = "none"]}

Opt(do, size) == {[do |-> do, size |-> size, subnet |-> {}]}
Ask(name, qtype, opt, proto, addr, id) ==
    [req |-> [id |-> 7, questions |-> <<[name |-> name, qtype |-> qtype]>>, ad |-> FALSE, opt |-> opt],
     proto |-> proto, who |-> [addr |-> addr, id |-> id]]
McRequests ==
    {Ask(Ads, "A", {}, "udp", {Lan}, {}), Ask(Ads, "AAAA", Opt(FALSE, 4), "tcp", {Public}, {}),
     Ask(Ok, "A", {}, "udp", {Public}, {}), Ask(Ok, "HTTPS", {}, "udp", {Public}, {"id1"}),
     Ask(Svc, "A", {}, "udp", {Lan}, {}), Ask(Search, "A", {}, "udp", {Lan}, {}), Ask(Rw, "AAAA", Opt(TRUE, 4), "udp", {Lan}, {}),
     Ask(Ptr, "PTR", {}, "udp", {Public}, {}), Ask(<<"evil">>, "A", {}, "udp", {Lan}, {}),
     Ask(McDdrHost, "SVCB", {}, "tcp", {Lan}, {}), Ask(<<"x">>, "ANY", {}, "tcp", {}, {}),
     Ask(<<"x">>, "A", {}, "udp", {Public}, {}), Ask(<<"x">>, "A", Opt(TRUE, 9), "udp", {Lan}, {}),
     [Ask(<<"x">>, "A", {}, "udp", {Lan}, {}) EXCEPT !.req.questions = <<>>]}

Ans(qtype, rcode, signed, addrs, ttl) ==
    [qtype |-> qtype, rcode |-> rcode, signed |-> signed, addrs |-> addrs, ttl |-> ttl]
McUpstreamAnswers ==
    {Ans("A", "NOERROR", TRUE, <<Public, Lan, V4(1, 1)>>, 9), Ans("A", "NOERROR", FALSE, <<Bad>>, 1),
     Ans("AAAA", "NOERROR", FALSE, <<V6(0, 1, 1, 1)>>, 1), Ans("AAAA", "NXDOMAIN", FALSE, <<>>, 1),
     Ans("PTR", "NOERROR", FALSE, <<>>, 1), Ans("HTTPS", "NOERROR", FALSE, <<>>, 1),
     Ans("SVCB", "NOERROR", FALSE, <<>>, 1), Ans("ANY", "NOERROR", FALSE, <<>>, 1)}
=============================================================================
